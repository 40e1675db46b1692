-------------------------- MODULE SubmissionQueue --------------------------
(***************************************************************************)
(* The DMA queues of the driver (queue.c, queue.h) and the DMA interrupt   *)
(* thread that serves them (bce_handle_dma_irq in apple_bce.c).            *)
(*                                                                         *)
(* A submission queue (SQ) is a ring of el_count elements. A submitter     *)
(* reserves a slot, fills the element at `tail' and rings the doorbell;    *)
(* the device completes the elements in ring order by writing elements to  *)
(* the completion queue (CQ) the SQ was registered with; the interrupt     *)
(* thread first harvests every CQ into the completion_data rings of the    *)
(* SQs and then runs the completion callback of each SQ that got work. A   *)
(* callback takes completions with bce_next_completion and returns slots   *)
(* with bce_notify_submission_complete; for the queues in Deferred the     *)
(* callback only queues a work item, which then does the same in a thread  *)
(* of its own, concurrently with later harvests.                           *)
(*                                                                         *)
(* The device is external and is modelled from what queue.c expects of it. *)
(***************************************************************************)
EXTENDS Integers, Sequences

CONSTANTS
    SQs,          \* the submission queues that are published in dev->queues
    CQCount,      \* the completion queues are 1..CQCount, in cq_list order
    ElCount,      \* el_count of each SQ
    CqElCount,    \* el_count of each CQ
    CqOf,         \* the CQ an SQ was registered with
    Deferred,     \* SQs whose callback queues work (the firmware event queue)
    Cancelable,   \* SQs whose users cancel reservations (msg_asynchronous)
    Requests,     \* contents of a submission element
    NoQueue,      \* a qid that names no published SQ
    MaxSleepers,  \* bound: threads waiting for a slot of each SQ
    MaxFaults     \* bound: elements the device posts in error

CQs == 1..CQCount

ASSUME QueueAssumption ==
    /\ CQCount \in Nat
    /\ ElCount \in [SQs -> Nat \ {0, 1}]
    /\ CqElCount \in [CQs -> Nat \ {0, 1}]
    /\ CqOf \in [SQs -> CQs]
    /\ Deferred \subseteq SQs
    /\ Cancelable \subseteq SQs
    /\ Requests # {}
    /\ NoQueue \notin SQs
    /\ MaxSleepers \in [SQs -> Nat]
    /\ MaxFaults \in Nat

VARIABLES
    available,    \* sq->available_commands
    reserved,     \* slots reserved and not yet filled
    sleeping,     \* threads asleep on sq->available_command_wq
    awake,        \* threads woken from it that have not retried yet
    head, tail,   \* sq->head, sq->tail
    cidx,         \* sq->completion_cidx
    ctail,        \* sq->completion_tail
    sqData,       \* sq->data
    cmplData,     \* sq->completion_data
    hasPending,   \* sq->has_pending_completions
    doorbell,     \* the tail last written to the SQ's doorbell
    devNext,      \* device: the slot it completes next
    cq,           \* cq->data
    cqIndex,      \* cq->index
    cqDoorbell,   \* the index last written to the CQ's doorbell
    cqDev,        \* device: the element it writes next
    irqRaised,    \* an interrupt the thread has not started to serve
    irqPc,        \* where the interrupt thread is
    irqCq,        \* the CQ it is polling
    intSqList,    \* the first ce entries of dev->int_sq_list
    irqSq,        \* its position in int_sq_list
    queued,       \* Deferred: the work item is queued
    running,      \* the queue's completions are being consumed
    faults        \* elements the device posted in error so far

subVars == <<available, reserved, sleeping, awake, tail, sqData, doorbell>>
consVars == <<head, cidx>>
harvestVars == <<ctail, cmplData>>
devVars == <<devNext, cqDev, faults>>
irqVars == <<irqPc, irqCq, intSqList, irqSq, hasPending>>
workVars == <<queued, running>>
vars == <<subVars, consVars, harvestVars, devVars, cq, cqIndex, cqDoorbell,
          irqRaised, irqVars, workVars>>

Slots(q) == 0..(ElCount[q] - 1)
CqSlots(c) == 0..(CqElCount[c] - 1)

\* Ring arithmetic: the next index, and how far b is ahead of a.
Succ(i, n) == (i + 1) % n
Dist(a, b, n) == IF b >= a THEN b - a ELSE b - a + n

Element == [flags : BOOLEAN, qid : SQs \cup {NoQueue}, index : Nat,
            result : Requests, genuine : BOOLEAN]

\* kzalloc and dma_alloc_coherent give zeroed rings; R0 stands for zero data.
R0 == CHOOSE r \in Requests : TRUE
EmptyElement == [flags |-> FALSE, qid |-> NoQueue, index |-> 0,
                 result |-> R0, genuine |-> FALSE]

Init ==
    /\ available = [q \in SQs |-> ElCount[q] - 1]
    /\ reserved = [q \in SQs |-> 0]
    /\ sleeping = [q \in SQs |-> 0]
    /\ awake = [q \in SQs |-> 0]
    /\ head = [q \in SQs |-> 0]
    /\ tail = [q \in SQs |-> 0]
    /\ cidx = [q \in SQs |-> 0]
    /\ ctail = [q \in SQs |-> 0]
    /\ sqData = [q \in SQs |-> [s \in Slots(q) |-> R0]]
    /\ cmplData = [q \in SQs |-> [s \in Slots(q) |-> R0]]
    /\ hasPending = [q \in SQs |-> FALSE]
    /\ doorbell = [q \in SQs |-> 0]
    /\ devNext = [q \in SQs |-> 0]
    /\ cq = [c \in CQs |-> [p \in CqSlots(c) |-> EmptyElement]]
    /\ cqIndex = [c \in CQs |-> 0]
    /\ cqDoorbell = [c \in CQs |-> 0]
    /\ cqDev = [c \in CQs |-> 0]
    /\ irqRaised = FALSE
    /\ irqPc = "idle"
    /\ irqCq = 1
    /\ intSqList = <<>>
    /\ irqSq = 1
    /\ queued = [q \in SQs |-> FALSE]
    /\ running = [q \in SQs |-> FALSE]
    /\ faults = 0

-----------------------------------------------------------------------------
(* Submitters.                                                             *)

\* bce_reserve_submission: atomic_dec_if_positive succeeds.
ReserveSubmission(q) ==
    /\ available[q] > 0
    /\ available' = [available EXCEPT ![q] = @ - 1]
    /\ reserved' = [reserved EXCEPT ![q] = @ + 1]
    /\ UNCHANGED <<sleeping, awake, tail, sqData, doorbell>>
    /\ UNCHANGED <<consVars, harvestVars, devVars, cq, cqIndex, cqDoorbell,
                   irqRaised, irqVars, workVars>>

\* No slot is free and the caller gave a timeout: wait_event_timeout.
\* (Without a timeout the call returns -EAGAIN and changes nothing.)
WaitForSlot(q) ==
    /\ available[q] = 0
    /\ sleeping[q] + awake[q] < MaxSleepers[q]
    /\ sleeping' = [sleeping EXCEPT ![q] = @ + 1]
    /\ UNCHANGED <<available, reserved, awake, tail, sqData, doorbell>>
    /\ UNCHANGED <<consVars, harvestVars, devVars, cq, cqIndex, cqDoorbell,
                   irqRaised, irqVars, workVars>>

\* A woken thread re-evaluates the condition: it takes a slot or sleeps again.
RetryReservation(q) ==
    /\ awake[q] > 0
    /\ awake' = [awake EXCEPT ![q] = @ - 1]
    /\ \/ /\ available[q] > 0
          /\ available' = [available EXCEPT ![q] = @ - 1]
          /\ reserved' = [reserved EXCEPT ![q] = @ + 1]
          /\ UNCHANGED sleeping
       \/ /\ available[q] = 0
          /\ sleeping' = [sleeping EXCEPT ![q] = @ + 1]
          /\ UNCHANGED <<available, reserved>>
    /\ UNCHANGED <<tail, sqData, doorbell>>
    /\ UNCHANGED <<consVars, harvestVars, devVars, cq, cqIndex, cqDoorbell,
                   irqRaised, irqVars, workVars>>

\* The timer of a waiter fires. wait_event_timeout checks the condition once
\* more: with a free slot it returns 1 and the caller retries, otherwise the
\* call fails with -EAGAIN.
WaitTimeout(q) ==
    /\ sleeping[q] > 0
    /\ sleeping' = [sleeping EXCEPT ![q] = @ - 1]
    /\ awake' = [awake EXCEPT ![q] = IF available[q] > 0 THEN @ + 1 ELSE @]
    /\ UNCHANGED <<available, reserved, tail, sqData, doorbell>>
    /\ UNCHANGED <<consVars, harvestVars, devVars, cq, cqIndex, cqDoorbell,
                   irqRaised, irqVars, workVars>>

\* bce_cancel_submission_reservation returns the slot and wakes nobody.
CancelReservation(q) ==
    /\ q \in Cancelable
    /\ reserved[q] > 0
    /\ reserved' = [reserved EXCEPT ![q] = @ - 1]
    /\ available' = [available EXCEPT ![q] = @ + 1]
    /\ UNCHANGED <<sleeping, awake, tail, sqData, doorbell>>
    /\ UNCHANGED <<consVars, harvestVars, devVars, cq, cqIndex, cqDoorbell,
                   irqRaised, irqVars, workVars>>

\* Mutant of NextSubmission: the tail does not wrap.
NextSubmissionNoWrap(q, r) ==
    /\ reserved[q] > 0
    /\ reserved' = [reserved EXCEPT ![q] = @ - 1]
    /\ sqData' = [sqData EXCEPT ![q] = [@ EXCEPT ![tail[q]] = r]]
    /\ tail' = [tail EXCEPT ![q] = @ + 1]
    /\ UNCHANGED <<available, sleeping, awake, doorbell>>
    /\ UNCHANGED <<consVars, harvestVars, devVars, cq, cqIndex, cqDoorbell,
                   irqRaised, irqVars, workVars>>

\* bce_next_submission and the filling of the element it returns. The
\* callers on one queue exclude each other (a lock, a mutex or one thread).
NextSubmission(q, r) ==
    /\ reserved[q] > 0
    /\ reserved' = [reserved EXCEPT ![q] = @ - 1]
    /\ sqData' = [sqData EXCEPT ![q] = [@ EXCEPT ![tail[q]] = r]]
    /\ tail' = [tail EXCEPT ![q] = Succ(@, ElCount[q])]
    /\ UNCHANGED <<available, sleeping, awake, doorbell>>
    /\ UNCHANGED <<consVars, harvestVars, devVars, cq, cqIndex, cqDoorbell,
                   irqRaised, irqVars, workVars>>

\* bce_submit_to_device: one doorbell may announce several elements.
SubmitToDevice(q) ==
    /\ doorbell[q] # tail[q]
    /\ doorbell' = [doorbell EXCEPT ![q] = tail[q]]
    /\ UNCHANGED <<available, reserved, sleeping, awake, tail, sqData>>
    /\ UNCHANGED <<consVars, harvestVars, devVars, cq, cqIndex, cqDoorbell,
                   irqRaised, irqVars, workVars>>

-----------------------------------------------------------------------------
(* The device (external).                                                  *)

\* The device keeps one element of a CQ free; it learns from the CQ's
\* doorbell what the driver has harvested.
PostElement(c, e) ==
    /\ Succ(cqDev[c], CqElCount[c]) # cqDoorbell[c]
    /\ cq' = [cq EXCEPT ![c] = [@ EXCEPT ![cqDev[c]] = e]]
    /\ cqDev' = [cqDev EXCEPT ![c] = Succ(@, CqElCount[c])]
    /\ irqRaised' = TRUE

\* The device completes the next announced element of q. The result it
\* reports is a function of the request; the model reports the request.
DeviceComplete(q) ==
    /\ devNext[q] # doorbell[q]
    /\ PostElement(CqOf[q], [flags |-> TRUE, qid |-> q, index |-> devNext[q],
                             result |-> sqData[q][devNext[q]], genuine |-> TRUE])
    /\ devNext' = [devNext EXCEPT ![q] = Succ(@, ElCount[q])]
    /\ UNCHANGED faults
    /\ UNCHANGED <<subVars, consVars, harvestVars, cqIndex, cqDoorbell,
                   irqVars, workVars>>

\* The device repeats a completion: the index is the one before devNext.
DeviceRepeat(q, r) ==
    /\ faults < MaxFaults
    /\ faults' = faults + 1
    /\ PostElement(CqOf[q], [flags |-> TRUE, qid |-> q,
                             index |-> IF devNext[q] = 0 THEN ElCount[q] - 1
                                                         ELSE devNext[q] - 1,
                             result |-> r, genuine |-> FALSE])
    /\ UNCHANGED devNext
    /\ UNCHANGED <<subVars, consVars, harvestVars, cqIndex, cqDoorbell,
                   irqVars, workVars>>

\* The device completes an element of a queue the driver no longer has.
DeviceStray(c) ==
    /\ faults < MaxFaults
    /\ faults' = faults + 1
    /\ PostElement(c, [flags |-> TRUE, qid |-> NoQueue, index |-> 0,
                       result |-> R0, genuine |-> FALSE])
    /\ UNCHANGED devNext
    /\ UNCHANGED <<subVars, consVars, harvestVars, cqIndex, cqDoorbell,
                   irqVars, workVars>>

-----------------------------------------------------------------------------
(* The DMA interrupt thread: harvest.                                      *)

\* bce_handle_dma_irq starts: ce = 0, the first CQ of cq_list is next.
IrqStart ==
    /\ irqPc = "idle" /\ irqRaised
    /\ irqRaised' = FALSE
    /\ irqPc' = "poll"
    /\ irqCq' = 1
    /\ UNCHANGED <<intSqList, irqSq, hasPending>>
    /\ UNCHANGED <<subVars, consVars, harvestVars, devVars, cq, cqIndex,
                   cqDoorbell, workVars>>

Polled == cq[irqCq][cqIndex[irqCq]]

\* bce_poll_cq: e->flags = 0 and cq->index moves on. Nobody reads the rest of
\* an element whose flag is clear, so the model clears that too.
TakeElement ==
    /\ cq' = [cq EXCEPT ![irqCq] = [@ EXCEPT ![cqIndex[irqCq]] = EmptyElement]]
    /\ cqIndex' = [cqIndex EXCEPT ![irqCq] = Succ(@, CqElCount[irqCq])]

\* bce_handle_cq_completion refuses an element for an unknown queue or one
\* whose index is not the next expected; the element is taken all the same.
HarvestDrop ==
    /\ irqPc = "poll" /\ irqCq \in CQs
    /\ Polled.flags
    /\ \/ Polled.qid \notin SQs
       \/ Polled.qid \in SQs /\ ctail[Polled.qid] # Polled.index
    /\ TakeElement
    /\ UNCHANGED <<irqPc, irqCq, intSqList, irqSq, hasPending>>
    /\ UNCHANGED <<subVars, consVars, harvestVars, devVars, cqDoorbell,
                   irqRaised, workVars>>

\* Mutants of HarvestData: the data is written only for the first completion
\* of a batch; the SQ is listed for each completion.
HarvestFirstOnly ==
    /\ irqPc = "poll" /\ irqCq \in CQs
    /\ Polled.flags
    /\ Polled.qid \in SQs
    /\ ctail[Polled.qid] = Polled.index
    /\ IF hasPending[Polled.qid]
         THEN UNCHANGED <<hasPending, intSqList, cmplData>>
         ELSE /\ hasPending' = [hasPending EXCEPT ![Polled.qid] = TRUE]
              /\ intSqList' = Append(intSqList, Polled.qid)
              /\ cmplData' = [cmplData EXCEPT ![Polled.qid] =
                                 [@ EXCEPT ![Polled.index] = Polled.result]]
    /\ irqPc' = "publish"
    /\ UNCHANGED <<irqCq, irqSq, ctail>>
    /\ UNCHANGED <<subVars, consVars, devVars, cq, cqIndex, cqDoorbell,
                   irqRaised, workVars>>
\* bce_handle_cq_completion up to smp_wmb(): the SQ joins int_sq_list unless
\* it is there already, and its completion_data is written.
HarvestData ==
    /\ irqPc = "poll" /\ irqCq \in CQs
    /\ Polled.flags
    /\ Polled.qid \in SQs
    /\ ctail[Polled.qid] = Polled.index
    /\ IF hasPending[Polled.qid]
         THEN UNCHANGED <<hasPending, intSqList>>
         ELSE /\ hasPending' = [hasPending EXCEPT ![Polled.qid] = TRUE]
              /\ intSqList' = Append(intSqList, Polled.qid)
    /\ cmplData' = [cmplData EXCEPT ![Polled.qid] =
                        [@ EXCEPT ![Polled.index] = Polled.result]]
    /\ irqPc' = "publish"
    /\ UNCHANGED <<irqCq, irqSq, ctail>>
    /\ UNCHANGED <<subVars, consVars, devVars, cq, cqIndex, cqDoorbell,
                   irqRaised, workVars>>

\* WRITE_ONCE(completion_tail), then the element is taken.
HarvestPublish ==
    /\ irqPc = "publish"
    /\ ctail' = [ctail EXCEPT ![Polled.qid] = Succ(@, ElCount[Polled.qid])]
    /\ TakeElement
    /\ irqPc' = "poll"
    /\ UNCHANGED <<irqCq, intSqList, irqSq, hasPending, cmplData>>
    /\ UNCHANGED <<subVars, consVars, devVars, cqDoorbell, irqRaised, workVars>>

\* Mutant of PollEnd: only the first CQ is polled.
PollFirstOnly ==
    /\ irqPc = "poll" /\ irqCq \in CQs
    /\ ~Polled.flags
    /\ cqDoorbell' = [cqDoorbell EXCEPT ![irqCq] = cqIndex[irqCq]]
    /\ irqCq' = CQCount + 1
    /\ UNCHANGED <<irqPc, intSqList, irqSq, hasPending>>
    /\ UNCHANGED <<subVars, consVars, harvestVars, devVars, cq, cqIndex,
                   irqRaised, workVars>>

\* Mutant of PollEnd: the doorbell of the CQ is not written.
PollNoDoorbell ==
    /\ irqPc = "poll" /\ irqCq \in CQs
    /\ ~Polled.flags
    /\ irqCq' = irqCq + 1
    /\ UNCHANGED <<irqPc, intSqList, irqSq, hasPending>>
    /\ UNCHANGED <<subVars, consVars, harvestVars, devVars, cq, cqIndex,
                   cqDoorbell, irqRaised, workVars>>

\* The element at cq->index is not pending: the doorbell acknowledges what
\* was taken, in one write, and the next CQ is polled.
PollEnd ==
    /\ irqPc = "poll" /\ irqCq \in CQs
    /\ ~Polled.flags
    /\ cqDoorbell' = [cqDoorbell EXCEPT ![irqCq] = cqIndex[irqCq]]
    /\ irqCq' = irqCq + 1
    /\ UNCHANGED <<irqPc, intSqList, irqSq, hasPending>>
    /\ UNCHANGED <<subVars, consVars, harvestVars, devVars, cq, cqIndex,
                   irqRaised, workVars>>

\* Every CQ was polled: bce_dispatch_sq_completions starts.
DispatchStart ==
    /\ irqPc = "poll" /\ irqCq > CQCount
    /\ irqPc' = "dispatch"
    /\ irqSq' = 1
    /\ UNCHANGED <<irqCq, intSqList, hasPending>>
    /\ UNCHANGED <<subVars, consVars, harvestVars, devVars, cq, cqIndex,
                   cqDoorbell, irqRaised, workVars>>

-----------------------------------------------------------------------------
(* The DMA interrupt thread: dispatch, and the consumers.                  *)

Dispatched == intSqList[irqSq]

\* sq->completion(sq) of a deferred queue queues its work item and returns.
DispatchDeferred ==
    /\ irqPc = "dispatch" /\ irqSq \in 1..Len(intSqList)
    /\ Dispatched \in Deferred
    /\ queued' = [queued EXCEPT ![Dispatched] = TRUE]
    /\ hasPending' = [hasPending EXCEPT ![Dispatched] = FALSE]
    /\ irqSq' = irqSq + 1
    /\ UNCHANGED <<irqPc, irqCq, intSqList, running>>
    /\ UNCHANGED <<subVars, consVars, harvestVars, devVars, cq, cqIndex,
                   cqDoorbell, irqRaised>>

\* The work item of a deferred queue starts; it is never run concurrently
\* with itself and can be queued again while it runs.
WorkStart(q) ==
    /\ queued[q] /\ ~running[q]
    /\ queued' = [queued EXCEPT ![q] = FALSE]
    /\ running' = [running EXCEPT ![q] = TRUE]
    /\ UNCHANGED <<subVars, consVars, harvestVars, devVars, cq, cqIndex,
                   cqDoorbell, irqRaised, irqVars>>

\* sq->completion(sq) of any other queue consumes in the interrupt thread.
DispatchInline ==
    /\ irqPc = "dispatch" /\ irqSq \in 1..Len(intSqList)
    /\ Dispatched \notin Deferred
    /\ irqPc' = "callback"
    /\ running' = [running EXCEPT ![Dispatched] = TRUE]
    /\ UNCHANGED <<irqCq, intSqList, irqSq, hasPending, queued>>
    /\ UNCHANGED <<subVars, consVars, harvestVars, devVars, cq, cqIndex,
                   cqDoorbell, irqRaised>>

\* The callback of a queue that is not deferred found no more completions.
DispatchNext ==
    /\ irqPc = "callback"
    /\ cidx[Dispatched] = ctail[Dispatched]
    /\ head[Dispatched] = cidx[Dispatched]
    /\ running' = [running EXCEPT ![Dispatched] = FALSE]
    /\ hasPending' = [hasPending EXCEPT ![Dispatched] = FALSE]
    /\ irqPc' = "dispatch"
    /\ irqSq' = irqSq + 1
    /\ UNCHANGED <<irqCq, intSqList, queued>>
    /\ UNCHANGED <<subVars, consVars, harvestVars, devVars, cq, cqIndex,
                   cqDoorbell, irqRaised>>

\* The work item of a deferred queue found no more completions.
WorkEnd(q) ==
    /\ q \in Deferred /\ running[q]
    /\ cidx[q] = ctail[q]
    /\ head[q] = cidx[q]
    /\ running' = [running EXCEPT ![q] = FALSE]
    /\ UNCHANGED queued
    /\ UNCHANGED <<subVars, consVars, harvestVars, devVars, cq, cqIndex,
                   cqDoorbell, irqRaised, irqVars>>

\* Mutant of NextCompletion: completion_tail is not looked at.
NextCompletionBlind(q) ==
    /\ running[q]
    /\ Dist(head[q], cidx[q], ElCount[q]) <= (IF q \in Deferred THEN 1 ELSE 0)
    /\ cidx' = [cidx EXCEPT ![q] = Succ(@, ElCount[q])]
    /\ UNCHANGED head
    /\ UNCHANGED <<subVars, harvestVars, devVars, cq, cqIndex, cqDoorbell,
                   irqRaised, irqVars, workVars>>

\* bce_next_completion. A callback returns each slot before it takes the
\* next completion, except the firmware event worker, which looks at a
\* second one before it has returned the first.
NextCompletion(q) ==
    /\ running[q]
    /\ cidx[q] # ctail[q]
    /\ Dist(head[q], cidx[q], ElCount[q]) <= (IF q \in Deferred THEN 1 ELSE 0)
    /\ cidx' = [cidx EXCEPT ![q] = Succ(@, ElCount[q])]
    /\ UNCHANGED head
    /\ UNCHANGED <<subVars, harvestVars, devVars, cq, cqIndex, cqDoorbell,
                   irqRaised, irqVars, workVars>>

\* Mutant of NotifySubmissionComplete: the slot is not given back.
NotifyWithoutSlot(q) ==
    /\ running[q]
    /\ head[q] # cidx[q]
    /\ head' = [head EXCEPT ![q] = Succ(@, ElCount[q])]
    /\ awake' = [awake EXCEPT ![q] = @ + sleeping[q]]
    /\ sleeping' = [sleeping EXCEPT ![q] = 0]
    /\ UNCHANGED <<available, reserved, tail, sqData, doorbell, cidx>>
    /\ UNCHANGED <<harvestVars, devVars, cq, cqIndex, cqDoorbell,
                   irqRaised, irqVars, workVars>>

\* Mutant of NotifySubmissionComplete: nobody is woken.
NotifyWithoutWake(q) ==
    /\ running[q]
    /\ head[q] # cidx[q]
    /\ head' = [head EXCEPT ![q] = Succ(@, ElCount[q])]
    /\ available' = [available EXCEPT ![q] = @ + 1]
    /\ UNCHANGED <<reserved, sleeping, awake, tail, sqData, doorbell, cidx>>
    /\ UNCHANGED <<harvestVars, devVars, cq, cqIndex, cqDoorbell,
                   irqRaised, irqVars, workVars>>

\* bce_notify_submission_complete: wake_up wakes every waiter.
NotifySubmissionComplete(q) ==
    /\ running[q]
    /\ head[q] # cidx[q]
    /\ head' = [head EXCEPT ![q] = Succ(@, ElCount[q])]
    /\ available' = [available EXCEPT ![q] = @ + 1]
    /\ awake' = [awake EXCEPT ![q] = @ + sleeping[q]]
    /\ sleeping' = [sleeping EXCEPT ![q] = 0]
    /\ UNCHANGED <<reserved, tail, sqData, doorbell, cidx>>
    /\ UNCHANGED <<harvestVars, devVars, cq, cqIndex, cqDoorbell,
                   irqRaised, irqVars, workVars>>

\* int_sq_list is exhausted: the handler returns.
IrqEnd ==
    /\ irqPc = "dispatch" /\ irqSq > Len(intSqList)
    /\ irqPc' = "idle"
    /\ intSqList' = <<>>
    /\ UNCHANGED <<irqCq, irqSq, hasPending>>
    /\ UNCHANGED <<subVars, consVars, harvestVars, devVars, cq, cqIndex,
                   cqDoorbell, irqRaised, workVars>>

IrqThread ==
    \/ IrqStart \/ HarvestDrop \/ HarvestData \/ HarvestPublish \/ PollEnd
    \/ DispatchStart \/ DispatchDeferred \/ DispatchInline \/ DispatchNext
    \/ IrqEnd

Consumer(q) == NextCompletion(q) \/ NotifySubmissionComplete(q)
Worker(q) == WorkStart(q) \/ WorkEnd(q)
Submitter(q) ==
    \/ ReserveSubmission(q) \/ WaitForSlot(q) \/ RetryReservation(q)
    \/ WaitTimeout(q) \/ CancelReservation(q)
    \/ \E r \in Requests : NextSubmission(q, r)
    \/ SubmitToDevice(q)
Device ==
    \/ \E q \in SQs : DeviceComplete(q) \/ \E r \in Requests : DeviceRepeat(q, r)
    \/ \E c \in CQs : DeviceStray(c)

Next ==
    \/ \E q \in SQs : Submitter(q) \/ Consumer(q) \/ Worker(q)
    \/ Device
    \/ IrqThread

Spec == Init /\ [][Next]_vars

\* The kernel runs interrupt threads and work items, and the device serves
\* every queue. Nobody has to submit anything, and no timer is relied on.
Fairness ==
    /\ WF_vars(IrqThread)
    /\ \A q \in SQs :
        /\ WF_vars(Consumer(q)) /\ WF_vars(Worker(q))
        /\ SF_vars(DeviceComplete(q))

FairSpec == Spec /\ Fairness

-----------------------------------------------------------------------------
(* Properties.                                                             *)

\* The values the variables can take: the counters and positions of the SQs,
\* the data rings, the CQs, and the interrupt thread.
SqTypeOK ==
    /\ available \in [SQs -> Nat] /\ reserved \in [SQs -> Nat]
    /\ sleeping \in [SQs -> Nat] /\ awake \in [SQs -> Nat]
    /\ head \in [SQs -> Nat] /\ tail \in [SQs -> Nat]
    /\ cidx \in [SQs -> Nat] /\ ctail \in [SQs -> Nat]
    /\ doorbell \in [SQs -> Nat] /\ devNext \in [SQs -> Nat]
    /\ \A q \in SQs :
          /\ head[q] < ElCount[q] /\ tail[q] < ElCount[q]
          /\ cidx[q] < ElCount[q] /\ ctail[q] < ElCount[q]
          /\ doorbell[q] < ElCount[q] /\ devNext[q] < ElCount[q]
DataTypeOK ==
    /\ DOMAIN sqData = SQs /\ DOMAIN cmplData = SQs
    /\ \A q \in SQs : /\ sqData[q] \in [Slots(q) -> Requests]
                      /\ cmplData[q] \in [Slots(q) -> Requests]
CqTypeOK ==
    /\ DOMAIN cq = CQs
    /\ \A c \in CQs : cq[c] \in [CqSlots(c) -> Element]
    /\ cqIndex \in [CQs -> Nat] /\ cqDoorbell \in [CQs -> Nat]
    /\ cqDev \in [CQs -> Nat]
    /\ \A c \in CQs : /\ cqIndex[c] < CqElCount[c]
                      /\ cqDoorbell[c] < CqElCount[c]
                      /\ cqDev[c] < CqElCount[c]
IrqTypeOK ==
    /\ hasPending \in [SQs -> BOOLEAN]
    /\ queued \in [SQs -> BOOLEAN] /\ running \in [SQs -> BOOLEAN]
    /\ irqRaised \in BOOLEAN
    /\ irqPc \in {"idle", "poll", "publish", "dispatch", "callback"}
    /\ irqCq \in 1..(CQCount + 1)
    /\ intSqList \in Seq(SQs)
    /\ irqSq \in Nat \ {0}
    /\ faults \in Nat
TypeOK == SqTypeOK /\ DataTypeOK /\ CqTypeOK /\ IrqTypeOK

\* bce_reserve_submission, _cancel_, _next_submission and _notify_ neither
\* lose a slot nor make one up: the free, the reserved and the filled slots
\* of a ring are always el_count - 1 together, so the tail never laps the head.
SlotAccounting ==
    \A q \in SQs : available[q] + reserved[q] + Dist(head[q], tail[q], ElCount[q])
                      = ElCount[q] - 1

\* Driver and device follow each other around the ring: a slot is returned
\* after its completion was taken, a completion is taken after it was
\* harvested, harvested after the device posted it, posted after the
\* doorbell announced the element, and announced after it was filled.
RingOrder ==
    \A q \in SQs : LET Ahead(i) == Dist(head[q], i, ElCount[q]) IN
        /\ Ahead(cidx[q]) <= Ahead(ctail[q])
        /\ Ahead(ctail[q]) <= Ahead(devNext[q])
        /\ Ahead(devNext[q]) <= Ahead(doorbell[q])
        /\ Ahead(doorbell[q]) <= Ahead(tail[q])

\* What a completion callback reads from completion_data is the outcome of
\* the element that was submitted in that slot: no later submission, stray
\* or repeated completion or early publication has come between.
ResultMatchesRequest ==
    \A q \in SQs : \A s \in Slots(q) :
        Dist(head[q], s, ElCount[q]) < Dist(head[q], ctail[q], ElCount[q])
            => cmplData[q][s] = sqData[q][s]

\* bce_handle_cq_completion never accepts a completion the device repeated.
RepeatsAreRefused == irqPc = "publish" => Polled.genuine

\* The interrupt thread has still to dispatch q in this pass.
Listed(q) ==
    /\ irqPc # "idle"
    /\ \E i \in 1..Len(intSqList) :
          intSqList[i] = q /\ (irqPc \in {"dispatch", "callback"} => irqSq <= i)

\* No completion is forgotten: one in completion_data that nobody has taken
\* belongs to a queue that is being consumed or whose turn is still to come, and
\* an element in a CQ will be seen by the current pass or by a further interrupt.
NoLostCompletion ==
    /\ \A q \in SQs : cidx[q] # ctail[q] => running[q] \/ queued[q] \/ Listed(q)
    /\ \A c \in CQs : cqIndex[c] # cqDev[c] =>
          irqRaised \/ (irqPc \in {"poll", "publish"} /\ irqCq <= c)

\* A thread sleeps in bce_reserve_submission only while no slot is free. The
\* queues whose reservations can be cancelled are left out: the cancellation
\* wakes nobody, and a thread asleep there waits for its timer.
NoSleepWithFreeSlot ==
    \A q \in SQs \ Cancelable : sleeping[q] > 0 => available[q] = 0

\* Every element the doorbell announced is completed, harvested, taken and
\* its slot returned.
SubmissionsComplete ==
    \A q \in SQs : \A s \in Slots(q) :
        Dist(head[q], s, ElCount[q]) < Dist(head[q], doorbell[q], ElCount[q])
            ~> ~(Dist(head[q], s, ElCount[q]) < Dist(head[q], tail[q], ElCount[q]))

-----------------------------------------------------------------------------
(* What makes the invariants inductive: the contents of the CQs.           *)

\* The flagged elements of a CQ are those from cq->index up to the device's
\* position, and the doorbell is not ahead of cq->index.
CqWindow ==
    \A c \in CQs :
        /\ Dist(cqDoorbell[c], cqIndex[c], CqElCount[c])
              <= Dist(cqDoorbell[c], cqDev[c], CqElCount[c])
        /\ \A p \in CqSlots(c) :
              cq[c][p].flags <=> Dist(cqIndex[c], p, CqElCount[c])
                                    < Dist(cqIndex[c], cqDev[c], CqElCount[c])

\* The slots an element stands for, counted from completion_tail: a genuine
\* completion stands for its slot, a repeated one for the empty interval
\* behind the slot it repeats.
From(e) == IF e.genuine
    THEN Dist(ctail[e.qid], e.index, ElCount[e.qid])
    ELSE Dist(ctail[e.qid], Succ(e.index, ElCount[e.qid]), ElCount[e.qid])
Upto(e) == IF e.genuine THEN From(e) + 1 ELSE From(e)

\* A flagged element stands for slots the device has completed and the
\* driver has not harvested, and a genuine one carries the slot's result.
CqContents ==
    \A c \in CQs : \A p \in CqSlots(c) : cq[c][p].flags =>
        /\ cq[c][p].genuine => cq[c][p].qid \in SQs
        /\ cq[c][p].qid \in SQs =>
              /\ CqOf[cq[c][p].qid] = c
              /\ cq[c][p].index \in Slots(cq[c][p].qid)
              /\ Upto(cq[c][p]) <= Dist(ctail[cq[c][p].qid], devNext[cq[c][p].qid],
                                        ElCount[cq[c][p].qid])
        /\ cq[c][p].genuine => cq[c][p].result = sqData[cq[c][p].qid][cq[c][p].index]

\* Elements for the same SQ are in the order of its slots.
CqSorted ==
    \A c \in CQs : \A p1, p2 \in CqSlots(c) :
        /\ cq[c][p1].flags /\ cq[c][p2].flags
        /\ cq[c][p1].qid \in SQs /\ cq[c][p1].qid = cq[c][p2].qid
        /\ Dist(cqIndex[c], p1, CqElCount[c]) < Dist(cqIndex[c], p2, CqElCount[c])
        => Upto(cq[c][p1]) <= From(cq[c][p2])

\* Every slot the device has completed and the driver has not harvested has
\* its element in the CQ.
CqComplete ==
    \A q \in SQs : \A s \in Slots(q) :
        Dist(ctail[q], s, ElCount[q]) < Dist(ctail[q], devNext[q], ElCount[q])
        => \E p \in CqSlots(CqOf[q]) :
              /\ cq[CqOf[q]][p].flags /\ cq[CqOf[q]][p].genuine
              /\ cq[CqOf[q]][p].qid = q /\ cq[CqOf[q]][p].index = s

\* Where the interrupt thread is says what it is working on.
IrqPosition ==
    /\ irqPc = "publish" =>
          /\ irqCq \in CQs /\ Polled.flags /\ Polled.qid \in SQs
          /\ ctail[Polled.qid] = Polled.index
          /\ cmplData[Polled.qid][Polled.index] = Polled.result
    /\ irqPc = "callback" => irqSq <= Len(intSqList)

=============================================================================
