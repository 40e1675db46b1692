----------------------------- MODULE EventQueue -----------------------------
(***************************************************************************)
(* An event queue of the virtual USB controller (vhci/queue.c): buffers    *)
(* the driver lends to the T2, which fills one for every event. The DMA    *)
(* interrupt thread consumes them (bce_vhci_event_queue_completion) and    *)
(* lends as many again, while a suspend, a resume or the recovery worker   *)
(* pauses and resumes the queue without a lock between them.               *)
(*                                                                         *)
(* The queue of firmware commands (ev_commands) has another handler: the   *)
(* interrupt thread only queues a work, and the worker looks one           *)
(* completion ahead, since a request may be followed by its cancellation,  *)
(* and never reads draining. A behaviour is about a queue of either kind.  *)
(*                                                                         *)
(* Two threads fill the ring, the interrupt thread and the one that        *)
(* resumes, and bce_next_submission moves sq->tail without a lock. When    *)
(* both are inside at once (raced), the ring is no longer defined and the  *)
(* model goes no further.                                                  *)
(***************************************************************************)
EXTENDS Integers, Sequences

CONSTANTS
    ElCount,      \* VHCI_EVENT_QUEUE_EL_COUNT
    Pending,      \* VHCI_EVENT_PENDING_COUNT, the buffers normally lent
    MaxEvents,    \* bound: events the T2 sends
    MaxCycles     \* bound: pauses

ASSUME EventQueueAssumption ==
    /\ Pending \in Nat \ {0}
    /\ ElCount \in Nat /\ ElCount > 2 * Pending
    /\ MaxEvents \in Nat /\ MaxCycles \in Nat

Slots == 0..(ElCount - 1)
Capacity == ElCount - 1

VARIABLES
    kind,         \* "event", or "firmware": ev_commands
    available,    \* sq->available_commands
    head, tail,   \* sq->head, sq->tail
    ctail,        \* sq->completion_tail; completion_cidx equals the head here
    doorbell,     \* the tail last announced
    devNext,      \* device: the slot it completes next
    data,         \* ev->data: the event in each buffer
    aborted,      \* completion_data[slot].status is BCE_COMPLETION_ABORTED
    draining,     \* ev->draining
    empty,        \* ev->queue_empty_completion.done
    irqPc,        \* where the handler is, in the interrupt thread or the worker
    queued,       \* firmware: w_fw_events is queued
    ahead,        \* firmware: msg2 is set, and is the message at the head
    cancels,      \* events that cancel the one before
    cnt,          \* cnt of the handler
    pm,           \* where the thread is that pauses and resumes
    sub,          \* of each thread: whether it is in submit_pending
    todo,         \* of each thread: count of submit_pending
    flushes,      \* device: flush commands it has not executed
    flushed,      \* flush commands executed whose answer is in the command CQ
    flushNo,      \* the flush command the pausing thread waits for
    cycles,       \* pauses so far
    produced,     \* events sent so far
    delivered,    \* the event given to the callback last
    misordered,   \* another event than the next one was handled
    replayed,     \* history: the worker took an aborted buffer for an event
    caught,       \* the pause began after the handler had read draining, or
                  \* ended before the worker had lent again
    timedOut,     \* the pause ended with the 5 s
    deaf,         \* the resume gave up
    flushLate,    \* history: a flush command was given up
    leftover,     \* the last pause timed out, or ended before the handler, or the
                  \* work, was past its lending
    raced         \* both threads are in submit_pending

ringVars == <<available, head, tail, ctail, doorbell>>
devVars == <<devNext, data, aborted, flushes, flushed, produced, cancels>>
subVars == <<sub, todo>>
workVars == <<kind, queued, ahead, replayed>>
handlerVars == <<irqPc, cnt, delivered, misordered, workVars>>
pmVars == <<pm, draining, flushNo, cycles, caught, timedOut, deaf, flushLate,
            leftover>>
vars == <<ringVars, devVars, subVars, handlerVars, pmVars, empty, raced>>

Succ(i) == (i + 1) % ElCount
Dist(a, b) == IF b >= a THEN b - a ELSE b - a + ElCount
Lent == Dist(head, tail)
Threads == {"irq", "pm"}

\* __bce_vhci_event_queue_create: the first buffers are lent.
Init ==
    /\ kind \in {"event", "firmware"}
    /\ queued = FALSE /\ ahead = FALSE /\ replayed = FALSE /\ cancels = {}
    /\ available = Capacity - Pending
    /\ head = 0 /\ tail = Pending /\ ctail = 0 /\ doorbell = Pending
    /\ devNext = 0
    /\ data = [s \in Slots |-> 0]
    /\ aborted = [s \in Slots |-> FALSE]
    /\ draining = FALSE /\ empty = 0
    /\ irqPc = "idle" /\ cnt = 0
    /\ pm = "run"
    /\ sub = [t \in Threads |-> FALSE]
    /\ todo = [t \in Threads |-> 0]
    /\ flushes = <<>> /\ flushed = {} /\ flushNo = 0
    /\ cycles = 0 /\ produced = 0 /\ delivered = 0 /\ misordered = FALSE
    /\ caught = FALSE /\ timedOut = FALSE /\ deaf = FALSE
    /\ flushLate = FALSE /\ leftover = FALSE /\ raced = FALSE

-----------------------------------------------------------------------------
(* bce_vhci_event_queue_submit_pending, in either thread.                  *)

\* The call begins, as a part of the caller's step.
SubmitCall(t, count) ==
    /\ sub' = [sub EXCEPT ![t] = TRUE]
    /\ todo' = [todo EXCEPT ![t] = count]
    /\ raced' = (raced \/ \E u \in Threads \ {t} : sub[u])

\* Mutant of SubmitOne: every element is announced as it is filled.
SubmitOneAnnounced(t) ==
    /\ sub[t] /\ todo[t] > 0 /\ available > 0
    /\ available' = available - 1
    /\ tail' = Succ(tail) /\ doorbell' = tail'
    /\ todo' = [todo EXCEPT ![t] = @ - 1]
    /\ UNCHANGED <<sub, head, ctail, devVars, handlerVars, pmVars, empty, raced>>

\* A reservation, and the next element.
SubmitOne(t) ==
    /\ sub[t] /\ todo[t] > 0 /\ available > 0
    /\ available' = available - 1
    /\ tail' = Succ(tail)
    /\ todo' = [todo EXCEPT ![t] = @ - 1]
    /\ UNCHANGED <<sub, head, ctail, doorbell, devVars, handlerVars, pmVars, empty, raced>>

\* All are filled, or no slot is left: the doorbell, and the call returns.
SubmitRing(t) ==
    /\ sub[t] /\ (todo[t] = 0 \/ available = 0)
    /\ doorbell' = tail
    /\ sub' = [sub EXCEPT ![t] = FALSE]
    /\ IF t = "irq" THEN irqPc' = "check" /\ UNCHANGED <<pm, deaf>>
                    ELSE pm' = "run" /\ deaf' = FALSE /\ UNCHANGED irqPc
    /\ UNCHANGED <<flushLate, available, head, tail, ctail, devVars, todo, cnt, delivered,
                   misordered, workVars, draining, flushNo, cycles, caught, timedOut, leftover,
                   empty, raced>>

Submit(t) == SubmitOne(t) \/ SubmitRing(t)

-----------------------------------------------------------------------------
(* The interrupt thread.                                                   *)

\* A pass: everything the device has posted is harvested, the command queue's
\* callback, which is the first, wakes whoever waits for a flush, and the
\* handler of this queue runs if it has a completion, or its work is queued.
IrqStart ==
    /\ kind = "event" => irqPc = "idle"
    /\ ctail # devNext \/ flushed # {}
    /\ ctail' = devNext
    /\ flushed' = {}
    /\ pm' = IF flushNo \in flushed
               THEN CASE pm = "pauseFlush" -> "pauseWait"
                      [] pm = "resumeFlush" -> "resumeSleep"
                      [] OTHER -> pm
               ELSE pm
    /\ IF kind = "event"
         THEN /\ irqPc' = IF ctail # devNext THEN "handle" ELSE "idle"
              /\ cnt' = 0 /\ UNCHANGED queued
         ELSE queued' = (queued \/ ctail # devNext) /\ UNCHANGED <<irqPc, cnt>>
    /\ UNCHANGED <<flushLate, available, head, tail, doorbell, devNext, data, aborted, flushes,
                   produced, cancels, subVars, delivered, misordered, kind, ahead, replayed,
                   draining, flushNo, cycles, caught, timedOut, deaf, leftover, empty, raced>>

\* One turn of the loop: the callback gets the event of the buffer, unless it
\* was aborted, and the slot is returned.
HandleCompletion ==
    /\ kind = "event" /\ irqPc = "handle" /\ head # ctail
    /\ cnt' = IF aborted[head] THEN cnt ELSE cnt + 1
    /\ delivered' = IF aborted[head] THEN delivered ELSE data[head]
    /\ misordered' = (misordered \/ (~aborted[head] /\ data[head] # delivered + 1))
    /\ head' = Succ(head)
    /\ available' = available + 1
    /\ UNCHANGED <<tail, ctail, doorbell, devVars, subVars, irqPc, workVars, pmVars, empty, raced>>

\* Mutant of ReadDraining: as many are lent again, draining or not.
ReadNothing ==
    /\ kind = "event" /\ irqPc = "handle" /\ head = ctail
    /\ irqPc' = "submit" /\ SubmitCall("irq", cnt)
    /\ UNCHANGED <<ringVars, devVars, cnt, delivered, misordered, workVars, pmVars, empty>>

\* The loop is over: draining is read, once.
ReadDraining ==
    /\ kind = "event" /\ irqPc = "handle" /\ head = ctail
    /\ \/ ~draining /\ irqPc' = "submit" /\ SubmitCall("irq", cnt)
       \/ draining /\ irqPc' = "check" /\ UNCHANGED <<sub, todo, raced>>
    /\ UNCHANGED <<ringVars, devVars, cnt, delivered, misordered, workVars, pmVars, empty>>

\* Nothing is lent any more: complete(). The pass ends.
CheckEmpty ==
    /\ irqPc = "check"
    /\ empty' = IF available = Capacity THEN empty + 1 ELSE empty
    /\ irqPc' = "idle"
    /\ UNCHANGED <<ringVars, devVars, subVars, cnt, delivered, misordered, workVars, pmVars, raced>>

-----------------------------------------------------------------------------
(* bce_vhci_handle_firmware_events_w.                                      *)

WorkStart ==
    /\ queued /\ irqPc = "idle"
    /\ queued' = FALSE /\ irqPc' = "handle" /\ cnt' = 0
    /\ UNCHANGED <<ringVars, devVars, subVars, delivered, misordered, kind, ahead, replayed,
                   pmVars, empty, raced>>

\* msg is msg2 or the buffer of the next completion; whether the completion of
\* msg2 was aborted has been forgotten.
HaveEvent == ahead \/ (head # ctail /\ ~aborted[head])

\* The second completion is the cancellation of the request.
Cancelled ==
    /\ Succ(head) # ctail /\ ~aborted[Succ(head)]
    /\ data[Succ(head)] \in cancels /\ data[Succ(head)] = data[head] + 1

\* n elements are done with, which are the events up to last.
Take(n, last) ==
    /\ head' = (head + n) % ElCount /\ available' = available + n
    /\ cnt' = cnt + n
    /\ delivered' = last
    /\ misordered' = (misordered \/ data[head] # delivered + 1)
    /\ replayed' = (replayed \/ aborted[head])
    /\ UNCHANGED <<tail, ctail, doorbell, devVars, subVars, irqPc, kind, queued, pmVars, empty,
                   raced>>

FirmwareTurn == kind = "firmware" /\ irqPc = "handle"

SkipAborted ==
    /\ FirmwareTurn /\ ~ahead /\ head # ctail /\ aborted[head]
    /\ head' = Succ(head) /\ available' = available + 1
    /\ UNCHANGED <<tail, ctail, doorbell, devVars, subVars, handlerVars, pmVars, empty,
                   raced>>

\* Mutant of Cancel: one element is returned.
CancelOne ==
    /\ FirmwareTurn /\ HaveEvent /\ Cancelled
    /\ ahead' = FALSE
    /\ Take(1, data[head] + 1)

\* Request and cancellation are answered as one.
Cancel ==
    /\ FirmwareTurn /\ HaveEvent /\ Cancelled
    /\ ahead' = FALSE
    /\ Take(2, data[head] + 1)

\* bce_vhci_handle_firmware_event, and the answer. msg2 is kept for the next
\* turn.
HandleFirmware ==
    /\ FirmwareTurn /\ HaveEvent /\ ~Cancelled
    /\ ahead' = (Succ(head) # ctail)
    /\ Take(1, data[head])

\* As many buffers are lent again.
WorkSubmit ==
    /\ FirmwareTurn /\ ~ahead /\ head = ctail
    /\ irqPc' = "submit" /\ SubmitCall("irq", cnt)
    /\ UNCHANGED <<ringVars, devVars, cnt, delivered, misordered, workVars, pmVars, empty>>

Worker == WorkStart \/ SkipAborted \/ Cancel \/ HandleFirmware \/ WorkSubmit

IrqThread == IrqStart \/ HandleCompletion \/ ReadDraining \/ Submit("irq") \/ CheckEmpty

-----------------------------------------------------------------------------
(* bce_vhci_event_queue_pause and _resume.                                 *)

PauseStart ==
    /\ pm = "run" /\ cycles < MaxCycles
    /\ empty' = 0
    /\ draining' = TRUE
    /\ flushNo' = flushNo + 1
    /\ flushes' = Append(flushes, flushNo + 1)
    /\ pm' = "pauseFlush"
    /\ cycles' = cycles + 1
    /\ caught' = (sub["irq"] /\ cnt > 0)
    /\ leftover' = FALSE
    /\ timedOut' = FALSE
    /\ UNCHANGED <<ringVars, devNext, data, aborted, flushed, produced, cancels, subVars,
                   handlerVars, deaf, flushLate, raced>>

\* bce_cmd_flush_memory_queue gives up; the command stays with the device.
FlushTimeout ==
    /\ pm \in {"pauseFlush", "resumeFlush"}
    /\ pm' = IF pm = "pauseFlush" THEN "pauseWait" ELSE "resumeSleep"
    /\ flushLate' = TRUE
    /\ UNCHANGED <<ringVars, devVars, subVars, handlerVars, draining, flushNo, cycles,
                   caught, timedOut, deaf, leftover, empty, raced>>

\* The condition of the loop.
PauseCheck ==
    /\ pm = "pauseWait"
    /\ pm' = IF available = Capacity THEN "paused" ELSE "pauseSleep"
    /\ caught' = (caught \/ (kind = "firmware" /\ pm' = "paused" /\ irqPc # "idle" /\ cnt > 0))
    /\ leftover' = (pm' = "paused" /\ (queued \/ irqPc \in {"handle", "submit"}))
    /\ UNCHANGED <<flushLate, ringVars, devVars, subVars, handlerVars, draining, flushNo, cycles,
                   timedOut, deaf, empty, raced>>

PauseWake ==
    /\ pm = "pauseSleep" /\ empty > 0
    /\ empty' = empty - 1
    /\ pm' = "pauseWait"
    /\ UNCHANGED <<flushLate, ringVars, devVars, subVars, handlerVars, draining, flushNo, cycles,
                   caught, timedOut, deaf, leftover, raced>>

PauseTimeout ==
    /\ pm = "pauseSleep"
    /\ pm' = "paused"
    /\ timedOut' = TRUE /\ leftover' = TRUE
    /\ UNCHANGED <<flushLate, ringVars, devVars, subVars, handlerVars, draining, flushNo, cycles,
                   caught, deaf, empty, raced>>

\* The handler whose pass was under way when the pause ended may be so still.
ResumeStart ==
    /\ pm = "paused"
    /\ draining' = FALSE
    /\ pm' = "resumeCheck"
    /\ UNCHANGED <<flushLate, ringVars, devVars, subVars, handlerVars, flushNo, cycles, caught,
                   timedOut, deaf, leftover, empty, raced>>

\* Mutant of ResumeCheck: the buffers that are still lent are trusted.
ResumeNoSubmit ==
    /\ pm = "resumeCheck"
    /\ \/ /\ available = Capacity
          /\ pm' = "resumeSubmit" /\ SubmitCall("pm", Pending)
       \/ /\ available # Capacity
          /\ pm' = "run" /\ UNCHANGED <<sub, todo, raced>>
    /\ UNCHANGED <<flushLate, flushNo, flushes, ringVars, devNext, data, aborted, flushed,
                   produced, cancels, handlerVars, draining, cycles, caught, timedOut, deaf,
                   leftover, empty>>

\* Not fully drained: the queue is flushed once more.
ResumeCheck ==
    /\ pm = "resumeCheck"
    /\ \/ /\ available = Capacity
          /\ pm' = "resumeSubmit" /\ SubmitCall("pm", Pending)
          /\ UNCHANGED <<flushNo, flushes>>
       \/ /\ available # Capacity
          /\ pm' = "resumeFlush"
          /\ flushNo' = flushNo + 1
          /\ flushes' = Append(flushes, flushNo + 1)
          /\ UNCHANGED <<sub, todo, raced>>
    /\ UNCHANGED <<flushLate, ringVars, devNext, data, aborted, flushed, produced, cancels,
                   handlerVars, draining, cycles, caught, timedOut, deaf, leftover, empty>>

\* After the 50 ms: still not drained, and the resume returns without having
\* lent a buffer.
ResumeRecheck ==
    /\ pm = "resumeSleep"
    /\ \/ /\ available = Capacity
          /\ pm' = "resumeSubmit" /\ SubmitCall("pm", Pending)
          /\ UNCHANGED deaf
       \/ /\ available # Capacity
          /\ pm' = "run" /\ deaf' = TRUE
          /\ UNCHANGED <<sub, todo, raced>>
    /\ UNCHANGED <<flushLate, ringVars, devVars, handlerVars, draining, flushNo, cycles, caught,
                   timedOut, leftover, empty>>

Pm ==
    \/ FlushTimeout \/ PauseCheck \/ PauseWake \/ PauseTimeout \/ ResumeCheck
    \/ ResumeRecheck \/ Submit("pm")

-----------------------------------------------------------------------------
(* The device (external).                                                  *)

DeviceEvent ==
    /\ devNext # doorbell /\ produced < MaxEvents
    /\ data' = [data EXCEPT ![devNext] = produced + 1]
    /\ aborted' = [aborted EXCEPT ![devNext] = FALSE]
    /\ devNext' = Succ(devNext)
    /\ produced' = produced + 1
    /\ \/ UNCHANGED cancels
       \/ kind = "firmware" /\ produced > 0 /\ produced \notin cancels
          /\ cancels' = cancels \cup {produced + 1}
    /\ UNCHANGED <<flushes, flushed, ringVars, subVars, handlerVars, pmVars, empty, raced>>

\* A flush aborts every buffer the device has.
DeviceFlush ==
    /\ flushes # <<>>
    /\ aborted' = [s \in Slots |->
          aborted[s] \/ Dist(devNext, s) < Dist(devNext, doorbell)]
    /\ devNext' = doorbell
    /\ flushed' = flushed \cup {Head(flushes)}
    /\ flushes' = Tail(flushes)
    /\ UNCHANGED <<data, produced, cancels, ringVars, subVars, handlerVars, pmVars, empty, raced>>

\* The queue is at rest: the bounds are reached and nobody has anything to do.
Rest ==
    /\ cycles = MaxCycles /\ pm = "run" /\ irqPc = "idle" /\ ~queued
    /\ UNCHANGED vars

\* Nothing is said about what follows a race of two submitters.
Next ==
    \/ ~raced /\ (IrqThread \/ Worker \/ Pm)
    \/ ~raced /\ (PauseStart \/ ResumeStart \/ DeviceEvent \/ DeviceFlush)
    \/ Rest
    \/ raced /\ UNCHANGED vars

Spec == Init /\ [][Next]_vars

-----------------------------------------------------------------------------
(* Properties.                                                             *)

\* Every event the T2 sent is handled, or cancelled by the next, once and in
\* order, across any number of pauses, flushes and resumes. Excepted is what
\* follows when the firmware worker has looked ahead to an aborted completion:
\* it handles what an earlier event left in that buffer (vhci.c:1044, 1031).
EventsInOrder == misordered => replayed

\* A pause that found the queue empty means it: until the resume no buffer is
\* with the T2 and no callback is due. Excepted is the pause that began between
\* the handler's read of draining and its doorbell, or ended while the firmware
\* worker, which does not read draining, was about to lend buffers again.
QuietWhenPaused == pm = "paused" /\ ~timedOut /\ ~caught => Lent = 0

\* While the queue is not paused and the handler not busy, the T2 has all its
\* buffers, whatever the flushes of earlier pauses did and when: no race of
\* handler and pause eats one up. Excepted are a resume that gave up, which
\* leaves the queue without, a flush that was given up, which the T2 may execute
\* after the resume: nobody lends a buffer again that was aborted.
KeepsListening ==
    pm = "run" /\ irqPc = "idle" /\ ~deaf /\ ~flushLate => Lent >= Pending

\* bce_next_submission is not called by two threads at once, whatever the T2, its late
\* flushes and earlier pauses do, unless the last pause timed out or ended before the
\* pass of the handler, or the run of the firmware worker, had come past its lending:
\* then the handler reads draining, or the worker lends, beside the resume (queue.c:131,
\* vhci.c:1071). A resume that found the ring empty is alone in it.
RaceNeedsLeftover == raced => leftover

=============================================================================
