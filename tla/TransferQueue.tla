---------------------------- MODULE TransferQueue ----------------------------
(***************************************************************************)
(* The transfer queue of one USB endpoint (vhci/transfer.c). Four actors   *)
(* work on it: USB drivers submit and cancel URBs, the DMA interrupt       *)
(* thread delivers the events and the completions of the T2, the ordered   *)
(* workqueue tq_state_wq pauses, resets and flushes the endpoint, and the  *)
(* thread that suspends the machine pauses and resumes it. What a thread   *)
(* does under urb_lock is one step: an operator from a queue to a queue.   *)
(*                                                                         *)
(* The endpoint is a bulk IN, a bulk OUT or the control endpoint. An URB   *)
(* is submitted once; a resubmission is another URB. A transfer request    *)
(* asks for all of the data, and data moves as a whole. The T2 completes   *)
(* the submissions of a ring in order (SubmissionQueue).                   *)
(***************************************************************************)
EXTENDS Integers, Sequences, SequencesExt, FiniteSets

CONSTANTS
    NUrbs,        \* bound: the URBs submitted
    Kinds,        \* of "in", "out", "control": the endpoints considered
    MaxActive,    \* max_active_requests of a bulk endpoint
    MaxTroubles,  \* bound: pauses by the firmware, stalls, suspends, failed
                  \* commands, recoveries, sections short of memory or slots
    MaxControlTroubles    \* the same for the control endpoint

ASSUME TransferQueueAssumption ==
    /\ NUrbs \in Nat
    /\ Kinds \subseteq {"in", "out", "control"}
    /\ MaxActive \in Nat \ {0}
    /\ MaxTroubles \in Nat /\ MaxControlTroubles \in Nat

VARIABLES
    kind,         \* the type of the endpoint
    limit,        \* max_active_requests
    dir,          \* of each URB: "in", "out", or "none" when it has no data
    q,            \* the queue and its rings, under urb_lock
    hcpriv,       \* endp->hcpriv: "set", still set when all is "cancelled",
                  \* "null", or the queue is "destroyed"
    pausedBy,     \* paused_by
    lock,         \* the owner of pause_lock
    work,         \* the work at the front of tq_state_wq: its job and place
    works,        \* the other works of tq_state_wq
    pm,           \* where the suspending thread is
    events,       \* the events of the T2 not yet handled
    t2,           \* the endpoint in the T2: whether it runs, its stage
    troubles,     \* how many there have been
    recovering    \* vhci->recovering

config == <<kind, limit, dir>>
vars == <<kind, limit, dir, q, hcpriv, pausedBy, lock, work, works, pm, events,
          t2, troubles, recovering>>

URB == 1..NUrbs      \* numbered as they are submitted
Rings == {"in", "out"}
Linked(s) == ToSet(s.list)
InFlight(s) == UNION {ToSet(s.ring[r]) : r \in Rings}
MaxTrouble == IF kind = "control" THEN MaxControlTroubles ELSE MaxTroubles

Idle == [job |-> "none", pc |-> "idle"]

\* bce_vhci_create_transfer_queue, and the endpoint created in the T2. Of q,
\* list is endp->urb_list, st and recv are state and received_status of the
\* URBs, ghosts the ghost count of the ring that has the data, ring what the
\* T2 has not completed and done the completions not yet handled. short and
\* want live within a section: memory or slots are short, works are wanted.
\* The last line is history for the properties: a linked URB's completion
\* was absorbed; a null pointer was followed; flush_w found started URBs; a
\* pause ended with -EINVAL; a stopped endpoint may hold submissions.
Init ==
    /\ kind \in Kinds
    /\ limit \in IF kind = "control" THEN {1} ELSE {1, MaxActive}
    /\ dir \in [URB -> IF kind = "control" THEN {"in", "out", "none"} ELSE {kind}]
    /\ q = [list |-> <<>>, st |-> [u \in URB |-> "new"],
            recv |-> [u \in URB |-> "no"],
            remaining |-> limit, active |-> TRUE, stalled |-> FALSE,
            evq |-> <<>>, ghosts |-> 0, giveback |-> <<>>, flush |-> <<>>,
            outPending |-> 0, want |-> <<>>, short |-> FALSE,
            ring |-> [r \in Rings |-> <<>>], done |-> [r \in Rings |-> <<>>],
            swallowed |-> FALSE, crashed |-> FALSE, reclaimed |-> FALSE,
            odd |-> FALSE, loose |-> FALSE]
    /\ hcpriv = "set" /\ pausedBy = {} /\ lock = "none"
    /\ work = Idle /\ works = <<>> /\ pm = "run" /\ events = <<>>
    /\ t2 = [run |-> TRUE, stage |-> "idle", fwPause |-> FALSE]
    /\ troubles = 0 /\ recovering = FALSE

-----------------------------------------------------------------------------
(* URBs under urb_lock. "again" stands for -EAGAIN.                        *)

\* Mutant: a slot is freed for an URB that never had one.
UrbCompleteFrees(s, u) ==
    [s EXCEPT !.list = RemoveFirst(@, u), !.remaining = @ + 1,
              !.st[u] = "gone", !.giveback = Append(@, u)]

\* bce_vhci_urb_complete
UrbComplete(s, u) ==
    [s EXCEPT !.list = RemoveFirst(@, u),
              !.remaining = IF s.st[u] # "pending" THEN @ + 1 ELSE @,
              !.st[u] = "gone",
              !.giveback = Append(@, u)]

\* bce_vhci_urb_data_transfer_in succeeds unless the message queue is full.
\* A bulk OUT endpoint has no sq_in and the null pointer is followed.
DataTransferIn(s, u) ==
    [s EXCEPT !.ring["in"] = Append(@, u), !.st[u] = "wait",
              !.loose = @ \/ ~s.active, !.crashed = @ \/ kind = "out"]

\* bce_vhci_urb_data_start, when it returns 0
DataStart(s, u) ==
    CASE dir[u] = "in"   -> DataTransferIn(s, u)
      [] dir[u] = "out"  -> [s EXCEPT !.st[u] = "request"]
      [] dir[u] = "none" -> [s EXCEPT !.st[u] = "done"]

StartFails(s, u) == dir[u] = "in" /\ s.short

\* bce_vhci_urb_init fails and changes nothing, or starts the URB.
InitFails(s, u) == s.remaining = 0 \/ (kind # "control" /\ StartFails(s, u))

UrbInit(s, u) ==
    IF InitFails(s, u) THEN s
    ELSE LET t == IF kind = "control" THEN [s EXCEPT !.st[u] = "setup"]
                                      ELSE DataStart(s, u)
         IN [t EXCEPT !.remaining = @ - 1]

\* bce_vhci_transfer_queue_init_pending_urbs. The loop's break is the same
\* as passing over the rest: nothing in it frees a slot.
InitPendingUrbs(s) ==
    FoldLeft(LAMBDA t, u : IF t.remaining > 0 /\ t.st[u] = "pending"
                             THEN UrbInit(t, u) ELSE t,
             s, s.list)

\* bce_vhci_urb_send_out_data. The ring has room for every started URB.
SendOutData(s, u, state) ==
    [s EXCEPT !.ring["out"] = Append(@, u), !.outPending = @ + 1, !.st[u] = state,
              !.loose = @ \/ ~s.active]

\* bce_vhci_urb_control_check_status
CheckStatus(s, u) ==
    LET ends == \/ s.st[u] = "done"
                \/ s.recv[u] = "fail" /\ s.st[u] \notin {"setup", "setupSent"}
    IN CASE s.recv[u] = "no" \/ ~ends -> s
         [] s.recv[u] = "ok" /\ ends -> UrbComplete(s, u)
         [] s.recv[u] = "fail" /\ ends ->
              [UrbComplete(s, u) EXCEPT !.active = FALSE, !.stalled = TRUE,
                                        !.want = Append(@, "reset")]

\* bce_vhci_urb_update: whether it returns -EAGAIN, and what it does if not.
UpdateAgain(s, u, msg) ==
    IF msg = "req" THEN s.st[u] \notin {"request", "setup"}
                   ELSE kind # "control" \/ s.st[u] = "pending"

UrbUpdate(s, u, msg) ==
    IF UpdateAgain(s, u, msg) THEN s
    ELSE CASE msg # "req" -> CheckStatus([s EXCEPT !.recv[u] = msg], u)
           [] msg = "req" /\ s.st[u] = "setup" -> SendOutData(s, u, "setupSent")
           [] msg = "req" /\ s.st[u] = "request" ->
                LET t == SendOutData(s, u, "wait")
                IN IF kind = "control" THEN CheckStatus(t, u) ELSE t

\* bce_vhci_urb_data_transfer_completion
DataTransferCompletion(s, u) ==
    IF s.st[u] # "wait" THEN s
    ELSE LET t == [s EXCEPT !.st[u] = "done"]
         IN IF kind = "control" THEN t ELSE UrbComplete(t, u)

\* bce_vhci_urb_transfer_completion
UrbTransferCompletion(s, u) ==
    IF kind # "control" THEN DataTransferCompletion(s, u)
    ELSE CASE s.st[u] = "setupSent" ->
                IF StartFails(s, u) THEN UrbComplete(s, u)
                                    ELSE CheckStatus(DataStart(s, u), u)
           [] s.st[u] \in {"request", "wait"} ->
                CheckStatus(DataTransferCompletion(s, u), u)
           [] OTHER -> s

\* bce_vhci_urb_resume
UrbResume(s, u) ==
    CASE s.st[u] # "wait" -> s
      [] s.st[u] = "wait" /\ ~s.short -> DataTransferIn(s, u)
      [] s.st[u] = "wait" /\ s.short -> UrbComplete(s, u)

-----------------------------------------------------------------------------
(* The queue under urb_lock.                                               *)

\* Mutant: the reset is not requested.
DeferEventStalls(s, msg) ==
    IF s.short THEN [s EXCEPT !.stalled = TRUE] ELSE [s EXCEPT !.evq = Append(@, msg)]

\* bce_vhci_transfer_queue_defer_event
DeferEvent(s, msg) ==
    IF s.short THEN [s EXCEPT !.stalled = TRUE, !.want = Append(@, "reset")]
               ELSE [s EXCEPT !.evq = Append(@, msg)]

\* bce_vhci_transfer_queue_deliver_pending. An event the first URB is not
\* ready for stays, and trying it again changes nothing.
DeliverFirst(s) ==
    IF s.list = <<>> \/ s.evq = <<>> \/ UpdateAgain(s, s.list[1], s.evq[1])
      THEN s
      ELSE [UrbUpdate(s, s.list[1], s.evq[1]) EXCEPT !.evq = Tail(@)]

DeliverPending(s) ==
    InitPendingUrbs(FoldLeft(LAMBDA t, e : DeliverFirst(t), s, s.evq))

\* bce_vhci_transfer_queue_event
QueueEvent(s, msg) ==
    LET t == DeliverPending(s)
        u == t.list[1]
    IN CASE ~s.active ->
              IF msg = "req" /\ kind = "control" /\ "internal" \in pausedBy
                THEN DeferEvent(s, msg) ELSE s
         [] s.active /\ msg = "req" /\ (t.evq # <<>> \/ t.list = <<>>) ->
              DeferEvent(t, msg)
         [] s.active /\ msg # "req" /\ t.list = <<>> -> t
         [] OTHER -> IF UpdateAgain(t, u, msg) THEN DeferEvent(t, msg)
                     ELSE InitPendingUrbs(UrbUpdate(t, u, msg))

\* The completion of a ghost frees its slot.
GhostGone(s, c) ==
    InitPendingUrbs([s EXCEPT !.ghosts = @ - 1, !.remaining = @ + 1,
                              !.swallowed = @ \/ c.urb \in Linked(s)])

\* bce_vhci_transfer_queue_completion: one completion of ring r.
OneCompletion(s, r, c) ==
    LET t == IF r = "out" THEN [s EXCEPT !.outPending = IF @ > 0 THEN @ - 1 ELSE 0]
                          ELSE s
        u == s.list[1]
    IN CASE ~c.ok -> t
         [] c.ok /\ s.ghosts > 0 -> GhostGone(t, c)
         [] c.ok /\ s.ghosts = 0 /\ (s.list = <<>> \/ s.st[u] = "pending") -> t
         [] OTHER -> UrbTransferCompletion(t, u)

Completions(s, r) ==
    DeliverPending(FoldLeft(LAMBDA t, c : OneCompletion(t, r, c),
                            [s EXCEPT !.done[r] = <<>>], s.done[r]))

\* bce_vhci_transfer_queue_do_resume, after the T2 has resumed the endpoint:
\* the loop over the URBs, which ends when no slot is left.
ResumeOne(a, u) ==
    CASE a.stop -> a
      [] ~a.stop /\ a.s.st[u] = "pending" ->
           IF a.s.remaining = 0 THEN [a EXCEPT !.stop = TRUE]
                                ELSE [a EXCEPT !.s = UrbInit(@, u)]
      [] OTHER -> [a EXCEPT !.s = UrbResume(@, u)]

Activate(s) ==
    DeliverPending(FoldLeft(ResumeOne,
                            [s |-> [s EXCEPT !.active = TRUE], stop |-> FALSE],
                            s.list).s)

\* bce_cmd_flush_memory_queue on the rings the endpoint has
FlushRings(s) ==
    [s EXCEPT !.done = [r \in Rings |->
                  @[r] \o [i \in DOMAIN s.ring[r] |->
                             [urb |-> s.ring[r][i], ok |-> FALSE]]],
              !.ring = [r \in Rings |-> <<>>]]

\* bce_vhci_transfer_queue_giveback. The lock is dropped for each URB, but
\* nobody else sees an URB that is on the list.
GiveBack(s) ==
    [s EXCEPT !.st = [u \in URB |-> IF u \in ToSet(s.giveback) THEN "back" ELSE @[u]],
              !.giveback = <<>>]

-----------------------------------------------------------------------------
(* Sections under urb_lock as steps.                                       *)

Alive == hcpriv # "destroyed" /\ ~q.crashed

Attached == Alive /\ hcpriv \in {"set", "cancelled"}     \* endp->hcpriv is set

Trouble == troubles < MaxTrouble /\ troubles' = troubles + 1

\* queue_work: a work that is queued already is not queued again.
Enqueue(ws, job) == IF job \in ToSet(ws) THEN ws ELSE Append(ws, job)

\* w_fw_events handles all the firmware's events there are: an event joins
\* the run of the work that is queued or going on.
FirmwareJobs == {"fwPause", "fwResume", "fwStall"}

EnqueueEvent(ws, job) ==
    LET last == SelectLastInSeq(ws, LAMBDA j : j \in FirmwareJobs)
        new == last = 0 /\ work.job \notin FirmwareJobs
    IN InsertAt(ws, (IF new THEN Len(ws) ELSE last) + 1, job)

\* The section F, on works ws; within it the shared message queue may be
\* full, and memory short.
Section(F(_), ws) ==
    \E b \in IF troubles < MaxTrouble THEN BOOLEAN ELSE {FALSE} :
      LET s == F([q EXCEPT !.short = b]) IN
        /\ q' = [s EXCEPT !.short = FALSE, !.want = <<>>]
        /\ works' = FoldLeft(Enqueue, ws, s.want)
        /\ troubles' = IF b THEN troubles + 1 ELSE troubles

-----------------------------------------------------------------------------
(* USB drivers.                                                            *)

\* bce_vhci_urb_create. An error leaves the URB with the driver.
Create(s, u) ==
    LET linked == [s EXCEPT !.list = Append(@, u)]
        starts == s.active /\ s.remaining > 0
        wakes == CASE s.active -> <<>>
                   [] ~s.active /\ s.stalled -> <<"reset">>
                   [] ~s.active /\ ~s.stalled ->
                        IF "internal" \in pausedBy THEN <<"resume">> ELSE <<>>
    IN CASE starts /\ InitFails(s, u) -> s
         [] starts /\ ~InitFails(s, u) -> DeliverPending(UrbInit(linked, u))
         [] ~starts -> DeliverPending([linked EXCEPT !.st[u] = "pending",
                                                     !.want = @ \o wakes])

UrbCreate(u) ==
    /\ Attached
    /\ q.st[u] = "new" /\ \A v \in 1..(u - 1) : q.st[v] # "new"
    /\ Section(LAMBDA s : GiveBack(Create(s, u)), works)
    /\ UNCHANGED <<config, hcpriv, pausedBy, lock, work, pm, events, t2,
                   recovering>>

\* Mutant: the URB stays linked.
CancelKeepsLink(s, u) ==
    [s EXCEPT !.st[u] = "gone",
              !.ghosts = IF kind # "control" /\ s.st[u] = "wait" THEN @ + 1 ELSE @]

\* bce_vhci_urb_request_cancel: what holds the URB's slot from now on.
Cancel(s, u) ==
    LET held == s.st[u] # "pending"
        ghost == kind # "control" /\ s.st[u] = "wait"
    IN [s EXCEPT !.list = RemoveFirst(@, u),
                 !.st[u] = "gone",
                 !.ghosts = IF ghost THEN @ + 1 ELSE @,
                 !.remaining = IF held /\ kind # "control" /\ ~ghost
                                 THEN @ + 1 ELSE @]

\* Mutant: only control URBs wait for the flush.
FlushControlOnly(s, u) == kind = "control" /\ s.st[u] # "pending"

\* The URB is given back by flush_w, after the T2 has let go of its buffers.
FlushFirst(s, u) ==
    LET t == Cancel(s, u)
    IN \/ kind = "control" /\ s.st[u] # "pending"
       \/ t.ghosts > 0 /\ t.list = <<>>

UrbRequestCancel(u) ==
    /\ Attached /\ u \in Linked(q)
    /\ LET t == Cancel(q, u) IN
         IF FlushFirst(q, u)
           THEN /\ q' = [t EXCEPT !.flush = Append(@, u)]
                /\ works' = Enqueue(works, "flush")
           ELSE q' = [t EXCEPT !.st[u] = "back"] /\ UNCHANGED works
    /\ UNCHANGED <<config, hcpriv, pausedBy, lock, work, pm, events, t2,
                   troubles, recovering>>

\* bce_vhci_endpoint_reset: a driver clears a halt.
RequestReset ==
    /\ Attached /\ Trouble
    /\ works' = Enqueue(works, "reset")
    /\ UNCHANGED <<config, q, hcpriv, pausedBy, lock, work, pm, events, t2,
                   recovering>>

-----------------------------------------------------------------------------
(* The interrupt thread.                                                   *)

HandleEvent ==
    /\ Alive /\ events # <<>>
    /\ events' = Tail(events)
    /\ Section(LAMBDA s : GiveBack(QueueEvent(s, Head(events))), works)
    /\ UNCHANGED <<config, hcpriv, pausedBy, lock, work, pm, t2, recovering>>

HandleCompletions(r) ==
    /\ Alive /\ q.done[r] # <<>>
    /\ Section(LAMBDA s : GiveBack(Completions(s, r)), works)
    /\ UNCHANGED <<config, hcpriv, pausedBy, lock, work, pm, events, t2,
                   recovering>>

-----------------------------------------------------------------------------
(* Commands to the T2. The answer comes behind the events posted before    *)
(* it. A command that fails may have been executed or not.                 *)

\* endpoint_set_state in the T2. A resumed endpoint asks again for the data
\* it was waiting for: the driver has dropped its earlier request.
T2SetState(run) ==
    [t2 EXCEPT !.run = run,
               !.stage = CASE run /\ @ = "asked" -> "idle"
                           [] run /\ @ = "dataAsked" -> "dataOut"
                           [] OTHER -> @]

\* endpoint_reset in the T2
T2Reset == [t2 EXCEPT !.stage = "idle"]

\* The interrupt thread goes through all completion queues in a pass, the
\* command queue's first: when a paused endpoint has an answer there after
\* that of the pause, what it had completed before has been handled.
Settled == t2.run \/ \A r \in Rings : q.done[r] = <<>>

Answered(after) == events = <<>> /\ t2' = after /\ UNCHANGED troubles

Failed(after) ==
    /\ Trouble
    /\ t2' \in {t2, after}

-----------------------------------------------------------------------------
(* The works of tq_state_wq, one at a time and in order.                   *)

Source(job) == IF job \in {"fwPause", "fwResume"} THEN "firmware" ELSE "internal"

NextWork(job) == Alive /\ work.pc = "idle" /\ works # <<>> /\ Head(works) = job

At(pc) == Alive /\ work.pc = pc

Start(job, pc) ==
    work' = IF pc = "idle" THEN Idle ELSE [job |-> job, pc |-> pc]

Goto(pc) == work' = IF pc = "idle" THEN Idle ELSE [work EXCEPT !.pc = pc]

\* What follows bce_vhci_transfer_queue_pause in the job.
AfterPause(job) == CASE job = "fwPause" -> "idle"
                     [] job = "flush" /\ kind = "control" -> "epReset"
                     [] job = "flush" /\ kind # "control" -> "reclaim"

\* bce_vhci_transfer_queue_pause, and do_pause up to its first wait.
PauseBegin(job) ==
    /\ NextWork(job) /\ lock = "none"
    /\ works' = Tail(works)
    /\ IF pausedBy # {} \/ recovering
         THEN /\ pausedBy' = pausedBy \cup {Source(job)}
              /\ Start(job, AfterPause(job))
              /\ UNCHANGED lock
         ELSE /\ lock' = "wq"
              /\ Start(job, IF kind = "in" THEN "setPaused" ELSE "drain")
              /\ UNCHANGED pausedBy
    /\ q' = IF pausedBy # {} THEN [q EXCEPT !.loose = @ \/ InFlight(q) # {}]
            ELSE [q EXCEPT !.active = FALSE, !.evq = <<>>,
                           !.loose = @ \/ recovering]
    /\ UNCHANGED <<config, hcpriv, pm, events, t2, troubles, recovering>>

\* The wait for sq_out_pending ends, or its timeout does.
Drain ==
    /\ At("drain")
    /\ work' = [work EXCEPT !.pc = "setPaused"]
    /\ UNCHANGED <<config, q, hcpriv, pausedBy, lock, works, pm, events, t2,
                   troubles, recovering>>

\* endpoint_set_state(PAUSED). A failure is passed over; another state than
\* the one asked for ends the pause with -EINVAL.
SetPaused ==
    /\ At("setPaused")
    /\ \/ (Answered(T2SetState(FALSE)) \/ Failed(T2SetState(FALSE)))
          /\ Goto("flush") /\ UNCHANGED <<lock, q>>
       \/ /\ Trouble
          /\ q' = [q EXCEPT !.odd = TRUE, !.loose = TRUE]
          /\ Goto(AfterPause(work.job)) /\ lock' = "none" /\ UNCHANGED t2
    /\ UNCHANGED <<config, hcpriv, pausedBy, works, pm, events, recovering>>

\* bce_cmd_flush_memory_queue for the rings, whatever it returns; a pause
\* is then recorded.
FlushQueues ==
    /\ At("flush")
    /\ work.job # "reset" => Settled
    /\ \/ /\ q' = [FlushRings(q) EXCEPT !.loose = @ \/ \E r \in Rings : q.done[r] # <<>>]
          /\ UNCHANGED <<troubles, t2>>
       \/ Failed(t2) /\ q' = [q EXCEPT !.loose = TRUE]
    /\ IF work.job = "reset"
         THEN Goto("epReset") /\ UNCHANGED <<pausedBy, lock>>
         ELSE /\ Goto(AfterPause(work.job))
              /\ pausedBy' = pausedBy \cup {Source(work.job)}
              /\ lock' = "none"
    /\ UNCHANGED <<config, hcpriv, works, pm, events, recovering>>

\* bce_vhci_cmd_endpoint_reset, in flush_w and in reset_w, which then clears
\* stalled and unlocks.
EndpointReset ==
    /\ At("epReset")
    /\ Answered(T2Reset) \/ Failed(T2Reset)
    /\ IF work.job = "reset"
         THEN /\ q' = [q EXCEPT !.stalled = FALSE]
              /\ lock' = "none"
              /\ Goto("resume")
         ELSE Goto("reclaim") /\ UNCHANGED <<q, lock>>
    /\ UNCHANGED <<config, hcpriv, pausedBy, works, pm, events, recovering>>

\* bce_vhci_transfer_queue_flush_w, its section.
Reclaim ==
    /\ At("reclaim")
    /\ q' = [q EXCEPT !.ghosts = 0, !.remaining = limit,
                      !.giveback = @ \o q.flush, !.flush = <<>>,
                      !.reclaimed = @ \/ \E u \in Linked(q) : q.st[u] # "pending"]
    /\ Goto("resume")
    /\ UNCHANGED <<config, hcpriv, pausedBy, lock, works, pm, events, t2,
                   troubles, recovering>>

\* The last step of a work, on queue s: flush_w ends with giveback.
Ended(job, s) == IF job = "flush" THEN GiveBack(s) ELSE s

\* bce_vhci_transfer_queue_resume, the end of flush_w and of reset_w, or a
\* work of its own.
Resume(job) ==
    /\ lock = "none"
    /\ IF pausedBy = {Source(job)}
         THEN /\ lock' = "wq" /\ Start(job, "setActive")
              /\ UNCHANGED <<q, pausedBy>>
         ELSE /\ pausedBy' = pausedBy \ {Source(job)}
              /\ q' = Ended(job, q) /\ Goto("idle") /\ UNCHANGED lock
    /\ UNCHANGED <<config, hcpriv, pm, events, t2, troubles, recovering>>

ResumeAfter == At("resume") /\ Resume(work.job) /\ UNCHANGED works

ResumeWork(job) == NextWork(job) /\ Resume(job) /\ works' = Tail(works)

\* do_resume: endpoint_set_state(ACTIVE).
SetActive ==
    /\ At("setActive")
    /\ \/ Answered(T2SetState(TRUE)) /\ Goto("activate") /\ UNCHANGED <<q, lock>>
       \/ /\ Failed(T2SetState(TRUE))
          /\ q' = Ended(work.job, q) /\ Goto("idle") /\ lock' = "none"
    /\ UNCHANGED <<config, hcpriv, pausedBy, works, pm, events, recovering>>

\* do_resume: its section. None of the callers but flush_w gives URBs back.
DoResume ==
    /\ At("activate")
    /\ Section(LAMBDA s : Ended(work.job, Activate(s)), works)
    /\ pausedBy' = pausedBy \ {Source(work.job)}
    /\ Goto("idle") /\ lock' = "none"
    /\ UNCHANGED <<config, hcpriv, pm, events, t2, recovering>>

\* Mutant: the pause is not recorded.
ResetUnrecorded ==
    /\ NextWork("reset") /\ lock = "none"
    /\ works' = Tail(works)
    /\ IF q.stalled
         THEN /\ q' = [q EXCEPT !.active = FALSE]
              /\ lock' = "wq"
              /\ Start("reset", "removePending")
         ELSE UNCHANGED <<q, lock, work>>
    /\ UNCHANGED <<config, hcpriv, pausedBy, pm, events, t2, troubles,
                   recovering>>

\* bce_vhci_transfer_queue_reset_w
ResetBegin ==
    /\ NextWork("reset") /\ lock = "none"
    /\ works' = Tail(works)
    /\ IF q.stalled
         THEN /\ q' = [q EXCEPT !.active = FALSE]
              /\ lock' = "wq"
              /\ pausedBy' = pausedBy \cup {"internal"}
              /\ Start("reset", "removePending")
         ELSE UNCHANGED <<q, lock, pausedBy, work>>
    /\ UNCHANGED <<config, hcpriv, pm, events, t2, troubles, recovering>>

\* bce_vhci_transfer_queue_remove_pending, in reset_w
RemovePending ==
    /\ At("removePending")
    /\ q' = [q EXCEPT !.evq = <<>>]
    /\ Goto("flush")
    /\ UNCHANGED <<config, hcpriv, pausedBy, lock, works, pm, events, t2,
                   troubles, recovering>>

\* bce_vhci_handle_firmware_event: the endpoint has stalled.
FirmwareStall ==
    /\ NextWork("fwStall")
    /\ q' = [q EXCEPT !.active = FALSE, !.stalled = TRUE]
    /\ works' = Enqueue(Tail(works), "reset")
    /\ UNCHANGED <<config, hcpriv, pausedBy, lock, work, pm, events, t2,
                   troubles, recovering>>

Work ==
    \/ \E job \in {"flush", "fwPause"} : PauseBegin(job)
    \/ \E job \in {"resume", "fwResume"} : ResumeWork(job)
    \/ Drain \/ SetPaused \/ FlushQueues \/ EndpointReset \/ Reclaim
    \/ ResumeAfter \/ SetActive \/ DoResume
    \/ ResetBegin \/ RemovePending \/ FirmwareStall

-----------------------------------------------------------------------------
(* The suspending thread.                                                  *)

\* bce_vhci_bus_suspend pauses the endpoint without draining or flushing it.
\* It then waits for the works queued by then; here it need not.
Suspend ==
    /\ Alive /\ pm = "run" /\ lock = "none" /\ Trouble
    /\ IF pausedBy = {}
         THEN /\ q' = [q EXCEPT !.active = FALSE, !.loose = @ \/ InFlight(q) # {}]
              /\ pm' = "setPaused" /\ lock' = "pm" /\ UNCHANGED pausedBy
         ELSE /\ pausedBy' = pausedBy \cup {"suspend"}
              /\ pm' = "asleep" /\ UNCHANGED <<q, lock>>
    /\ UNCHANGED <<config, hcpriv, work, works, events, t2, recovering>>

SuspendPaused ==
    /\ Alive /\ pm = "setPaused"
    /\ \/ Answered(T2SetState(FALSE)) /\ UNCHANGED q
       \/ Failed(T2SetState(FALSE)) /\ q' = [q EXCEPT !.loose = TRUE]
    /\ pausedBy' = {"suspend"}
    /\ pm' = "asleep" /\ lock' = "none"
    /\ UNCHANGED <<config, hcpriv, work, works, events, recovering>>

\* bce_vhci_bus_resume: bce_vhci_transfer_queue_resume for each endpoint.
BusResume ==
    /\ Alive /\ pm = "asleep" /\ lock = "none" /\ Settled
    /\ IF pausedBy = {"suspend"}
         THEN pm' = "setActive" /\ lock' = "pm" /\ UNCHANGED pausedBy
         ELSE pm' = "run" /\ pausedBy' = pausedBy \ {"suspend"} /\ UNCHANGED lock
    /\ UNCHANGED <<config, q, hcpriv, work, works, events, t2, troubles,
                   recovering>>

\* When the endpoint cannot be resumed, the device is refreshed.
BusSetActive ==
    /\ Alive /\ pm = "setActive"
    /\ \/ Answered(T2SetState(TRUE)) /\ pm' = "activate" /\ UNCHANGED lock
       \/ Failed(T2SetState(TRUE)) /\ pm' = "refresh" /\ lock' = "none"
    /\ UNCHANGED <<config, q, hcpriv, pausedBy, work, works, events,
                   recovering>>

BusDoResume ==
    /\ Alive /\ pm = "activate"
    /\ Section(Activate, works)
    /\ pausedBy' = pausedBy \ {"suspend"}
    /\ pm' = "run" /\ lock' = "none"
    /\ UNCHANGED <<config, hcpriv, work, events, t2, recovering>>

-----------------------------------------------------------------------------
(* The end of the endpoint.                                                *)

\* bce_vhci_recovery_w raises the flag before it cancels everything.
RecoveryStart ==
    /\ Alive /\ ~recovering /\ Trouble
    /\ recovering' = TRUE
    /\ UNCHANGED <<config, q, hcpriv, pausedBy, lock, work, works, pm,
                   events, t2>>

\* bce_vhci_transfer_queue_cancel_all, by the recovery or the refresh
CancelAll ==
    /\ Alive /\ hcpriv = "set" /\ (recovering \/ pm = "refresh")
    /\ q' = FoldLeft(UrbComplete, [q EXCEPT !.active = FALSE], q.list)
    /\ hcpriv' = "cancelled"
    /\ UNCHANGED <<config, pausedBy, lock, work, works, pm, events, t2,
                   troubles, recovering>>

ClearHcpriv ==
    /\ Alive /\ hcpriv = "cancelled"
    /\ hcpriv' = "null"
    /\ q' = GiveBack(q)
    /\ UNCHANGED <<config, pausedBy, lock, work, works, pm, events, t2,
                   troubles, recovering>>

\* bce_vhci_destroy_transfer_queue: no work of the queue runs or is left,
\* what waited for one is given back, and the rings go. Its callers have
\* cancelled everything, or the USB core has. (Nothing waits for a firmware
\* event that is being handled: here it is over.)
Destroy ==
    /\ Alive /\ work.pc = "idle" /\ lock = "none"
    /\ hcpriv = "null" \/ (hcpriv = "set" /\ q.list = <<>> /\ q.flush = <<>>)
    /\ hcpriv' = "destroyed"
    /\ works' = <<>>
    /\ q' = GiveBack([q EXCEPT !.giveback = @ \o q.flush, !.flush = <<>>,
                               !.evq = <<>>,
                               !.ring = [r \in Rings |-> <<>>],
                               !.done = [r \in Rings |-> <<>>]])
    /\ UNCHANGED <<config, pausedBy, lock, work, pm, events, t2, troubles,
                   recovering>>

-----------------------------------------------------------------------------
(* The T2. An IN endpoint fills the buffers it has. An OUT endpoint asks   *)
(* for data, takes it and asks again. The control endpoint asks for a      *)
(* setup packet, moves the data the packet announces, and posts a status.  *)

Post(msg) == events' = Append(events, msg)

T2Step(stage) ==
    /\ t2' = [t2 EXCEPT !.stage = stage]
    /\ UNCHANGED <<config, hcpriv, pausedBy, lock, work, pm, recovering>>

T2Ask ==
    /\ Alive /\ kind # "in"
    /\ \/ t2.stage = "idle" /\ (t2.run \/ kind = "control") /\ T2Step("asked")
       \/ t2.stage = "dataOut" /\ t2.run /\ T2Step("dataAsked")
    /\ Post("req")
    /\ UNCHANGED <<q, works, troubles>>

\* The oldest submission of ring r completes.
T2Complete(r) ==
    /\ Alive /\ t2.run /\ q.ring[r] # <<>>
    /\ \/ kind = "in" /\ t2.stage = "idle" /\ T2Step("idle")
       \/ kind = "out" /\ t2.stage = "asked" /\ T2Step("idle")
       \/ /\ kind = "control"
          /\ \/ r = "out" /\ t2.stage = "asked"
                /\ T2Step([in |-> "dataIn", out |-> "dataOut",
                           none |-> "status"][dir[q.ring[r][1]]])
             \/ r = "in" /\ t2.stage = "dataIn" /\ T2Step("status")
             \/ r = "out" /\ t2.stage = "dataAsked" /\ T2Step("status")
    /\ q' = [q EXCEPT !.ring[r] = Tail(@),
                      !.done[r] = Append(@, [urb |-> q.ring[r][1], ok |-> TRUE])]
    /\ UNCHANGED <<events, works, troubles>>

T2Status ==
    /\ Alive /\ t2.run
    /\ \/ t2.stage = "status" /\ Post("ok") /\ T2Step("idle") /\ UNCHANGED troubles
       \/ /\ t2.stage \in {"dataIn", "dataOut", "dataAsked", "status"}
          /\ Trouble
          /\ Post("fail") /\ T2Step("halted")
    /\ UNCHANGED <<q, works>>

\* A bulk endpoint stalls; the firmware tells the driver.
T2Stall ==
    /\ Alive /\ t2.run /\ kind # "control" /\ t2.stage # "halted"
    /\ Trouble
    /\ works' = EnqueueEvent(works, "fwStall")
    /\ T2Step("halted")
    /\ UNCHANGED <<q, events>>

\* The firmware asks for a pause, and then for the end of it.
T2Pause ==
    /\ Alive
    /\ \/ /\ ~t2.fwPause /\ Trouble
          /\ works' = EnqueueEvent(works, "fwPause")
       \/ /\ t2.fwPause /\ UNCHANGED troubles
          /\ works' = EnqueueEvent(works, "fwResume")
    /\ t2' = [t2 EXCEPT !.fwPause = ~@]
    /\ UNCHANGED <<config, q, hcpriv, pausedBy, lock, work, pm, events,
                   recovering>>

T2 == T2Ask \/ T2Status \/ T2Stall \/ T2Pause \/ \E r \in Rings : T2Complete(r)

Irq == HandleEvent \/ \E r \in Rings : HandleCompletions(r)

Pm == SuspendPaused \/ BusResume \/ BusSetActive \/ BusDoResume

Next ==
    \/ \E u \in URB : UrbCreate(u) \/ UrbRequestCancel(u)
    \/ RequestReset \/ Irq \/ Work \/ Suspend \/ Pm
    \/ RecoveryStart \/ CancelAll \/ ClearHcpriv \/ Destroy \/ T2

Spec == Init /\ [][Next]_vars

-----------------------------------------------------------------------------
(* What the queue promises.                                                *)

\* Who has an URB: the endpoint's list, one of the two lists of URBs to give
\* back, or its driver; an URB linked to an endpoint that is being torn down is
\* stranded. "lost" is for one that is in several lists, or in none.
Times(u, s) == Cardinality({i \in DOMAIN s : s[i] = u})
Owner(u) ==
    LET linked == Times(u, q.list)
        unlinked == Times(u, q.giveback) + Times(u, q.flush)
    IN CASE q.st[u] \in {"new", "back"} /\ linked + unlinked = 0 ->
              IF q.st[u] = "new" THEN "driver" ELSE "back"
         [] q.st[u] = "gone" /\ linked = 0 /\ unlinked = 1 -> "leaving"
         [] q.st[u] \notin {"new", "back", "gone"} /\ linked = 1 /\ unlinked = 0 ->
              IF hcpriv = "set" THEN "endpoint" ELSE "stranded"
         [] OTHER -> "lost"

Contract ==
    INSTANCE UrbContract WITH
        owner <- [u \in URB |-> Owner(u)],
        mode <- CASE hcpriv = "set" -> "open"
                  [] hcpriv = "cancelled" -> "closing"
                  [] OTHER -> "shut"

\* No mix of completion, cancel, flush, failed resume and teardown gives an URB
\* back twice or loses it: the queue does what UrbContract promises.
KeepsContract == Contract!Spec

Active == {u \in Linked(q) : q.st[u] # "pending"}

\* remaining_active_requests counts the free slots: the others are held by
\* started URBs, by ghosts and by cancelled control URBs that wait for the
\* flush. (flush_w sets it to the maximum: once it has done so while an URB
\* was started, the count is too high from then on.)
SlotsAccounted ==
    ~q.reclaimed /\ hcpriv # "destroyed" =>
      q.remaining + Cardinality(Active) + q.ghosts
        + (IF kind = "control" THEN Len(q.flush) ELSE 0) = limit

\* A queue that does not run will be told to: it is stalled, some source has
\* paused it, or a work or the suspending thread is at it. The exception is
\* a pause the T2 answered with another state (-EINVAL): nobody resumes then.
StoppedHasReason ==
    ~q.active => \/ q.stalled \/ pausedBy # {} \/ work.pc # "idle" \/ pm # "run"
                 \/ hcpriv # "set" \/ q.odd

\* A stalled queue has its reset coming, and an URB put aside for the flush
\* has the flush coming: usb_kill_urb does not wait for ever.
WorkIsOwed ==
    hcpriv # "destroyed" =>
      /\ q.stalled => \/ {"reset", "fwStall"} \cap ToSet(works) # {}
                      \/ /\ work.job = "reset"
                         /\ work.pc \in {"removePending", "flush", "epReset"}
      /\ q.flush # <<>> => \/ "flush" \in ToSet(works)
                           \/ /\ work.job = "flush"
                              /\ work.pc \notin {"resume", "setActive", "activate"}

NothingLeft ==
    q.list = <<>> /\ works = <<>> /\ work.pc = "idle" /\ hcpriv = "set"

\* Once every URB is back with its driver and the works are done, the T2 has
\* no buffer of one, if each pause has flushed the rings and nothing was
\* submitted to a stopped endpoint.
QuietWhenIdle == NothingLeft /\ ~q.loose => InFlight(q) = {}

\* transfer.c:260: a completion absorbed for a cancelled URB is that of an
\* URB that is gone.
GhostsAreCancelled == ~q.swallowed
=============================================================================
