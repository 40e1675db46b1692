-------------------------- MODULE VhciCommandQueue --------------------------
(***************************************************************************)
(* The command queue of the virtual USB controller (vhci/queue.c). One     *)
(* caller at a time (cq->mutex) lends completion.result, a pointer to the  *)
(* reply on its stack, to the event handler, writes its message and waits; *)
(* when the time is up it sends a cancellation and waits once more. The T2 *)
(* answers in an event queue, and an answer names the command code it is   *)
(* for, not the call.                                                      *)
(*                                                                         *)
(* A reply is the message it answers; status and parameters are passed on  *)
(* as they are. The numbers of the calls are for the properties, no step   *)
(* of the driver compares them. The message queue is the ring of           *)
(* SubmissionQueue, reduced to its slots.                                  *)
(***************************************************************************)
EXTENDS Integers, FiniteSets

CONSTANTS
    Threads,      \* callers: the hub, transfer workers, recovery, watchdog
    NoThread,     \* the mutex is free
    Cmds,         \* command codes
    NoCmd,        \* the code 0
    QueueSlots,   \* submissions the message queue has room for
    MaxCalls      \* bound: calls

ASSUME VhciCommandAssumption ==
    /\ IsFiniteSet(Threads) /\ NoThread \notin Threads
    /\ NoCmd \notin Cmds
    /\ QueueSlots \in Nat \ {0}
    /\ MaxCalls \in Nat

\* cancel is the bit 0x4000 of the code.
Message == [call : 1..MaxCalls, cmd : Cmds, cancel : BOOLEAN]

\* What else *res holds: nothing yet, or the zeros of an abort.
Garbage == [call |-> 0, cmd |-> NoCmd, cancel |-> TRUE]
Abort == [call |-> 0, cmd |-> NoCmd, cancel |-> FALSE]

VARIABLES
    mutex,        \* cq->mutex
    pc,           \* where each thread is
    calls,        \* calls so far
    req,          \* *req of the call each thread is in
    available,    \* available_commands of the message queue
    open,         \* messages written that the T2 has not answered
    result,       \* completion.result: the call whose *res it is, 0 for NULL
    done,         \* completion.completion.done
    res,          \* *res of each thread
    recovery,     \* vhci->w_recovery is queued
    recovering,   \* vhci->recovering
    dead,         \* vhci->controller_dead
    destroy,      \* where bce_vhci_command_queue_destroy is
    expired,      \* history: some first wait ran out
    failed,       \* history: commands that were sent and failed
    foreign,      \* the last command, if it accepted the reply of another call
    desync        \* the last call returned -EIO

callVars == <<mutex, pc, req, res>>
mqVars == <<available, open>>
cmplVars == <<result, done>>
envVars == <<recovering, dead, destroy>>
histVars == <<failed, foreign, desync>>
vars == <<callVars, calls, mqVars, cmplVars, recovery, envVars, expired, histVars>>

\* bce_vhci_command_queue_create.
Init ==
    /\ mutex = NoThread
    /\ pc = [t \in Threads |-> "idle"]
    /\ calls = 0
    /\ req = [t \in Threads |-> Garbage]
    /\ res = [t \in Threads |-> Garbage]
    /\ available = QueueSlots /\ open = {}
    /\ result = 0 /\ done = 0
    /\ recovery = FALSE /\ recovering = FALSE /\ dead = FALSE /\ destroy = "no"
    /\ expired = FALSE
    /\ failed = {} /\ foreign = {} /\ desync = FALSE

-----------------------------------------------------------------------------
(* bce_vhci_command_queue_execute.                                         *)

GoTo(t, place) ==
    /\ pc' = [pc EXCEPT ![t] = place]
    /\ UNCHANGED <<mutex, req, res, histVars>>

\* The call returns, its frame is gone, and the mutex is released.
Leave(t) ==
    /\ pc' = [pc EXCEPT ![t] = "idle"]
    /\ req' = [req EXCEPT ![t] = Garbage]
    /\ res' = [res EXCEPT ![t] = Garbage]
    /\ mutex' = NoThread
Fail(t) ==
    /\ Leave(t)
    /\ failed' = failed \cup {req[t].cmd}
    /\ UNCHANGED <<foreign, desync>>

\* A call begins.
Enter(t, c) ==
    /\ calls' = calls + 1
    /\ mutex' = t
    /\ pc' = [pc EXCEPT ![t] = "reserve"]
    /\ req' = [req EXCEPT ![t] = [call |-> calls + 1, cmd |-> c, cancel |-> FALSE]]
    /\ foreign' = {} /\ desync' = FALSE
    /\ UNCHANGED <<res, mqVars, cmplVars, recovery, envVars, expired, failed>>

\* The mutex is taken. A call to a dead controller returns -ENODEV at once
\* and changes nothing.
Lock(t, c) ==
    /\ pc[t] = "idle" /\ calls < MaxCalls
    /\ mutex = NoThread
    /\ ~dead
    /\ Enter(t, c)

\* bce_reserve_submission, or -EAGAIN when no slot comes free in time.
Reserve(t) ==
    /\ pc[t] = "reserve"
    /\ \/ /\ available > 0
          /\ available' = available - 1
          /\ GoTo(t, "arm")
       \/ /\ available = 0
          /\ Leave(t)
          /\ UNCHANGED <<available, histVars>>
    /\ UNCHANGED <<calls, open, cmplVars, recovery, envVars, expired>>

\* Mutant of Arm: no reinit_completion.
ArmWithoutReinit(t) ==
    /\ pc[t] = "arm"
    /\ result' = req[t].call
    /\ GoTo(t, "write")
    /\ UNCHANGED <<done, calls, mqVars, recovery, envVars, expired>>

\* Under completion_lock: the pointer is lent, the completion is reset.
Arm(t) ==
    /\ pc[t] = "arm"
    /\ result' = req[t].call
    /\ done' = 0
    /\ GoTo(t, "write")
    /\ UNCHANGED <<calls, mqVars, recovery, envVars, expired>>

\* bce_vhci_message_queue_write.
Write(t) ==
    /\ pc[t] = "write"
    /\ open' = open \cup {req[t]}
    /\ GoTo(t, "wait")
    /\ UNCHANGED <<calls, available, cmplVars, recovery, envVars, expired>>

\* wait_for_completion_timeout returns in time, the first or the second one.
Wake(t) ==
    /\ pc[t] \in {"wait", "cancelWait"} /\ done > 0
    /\ done' = done - 1
    /\ GoTo(t, IF pc[t] = "wait" THEN "check" ELSE "cancelCheck")
    /\ UNCHANGED <<result, calls, mqVars, recovery, envVars, expired>>

WaitExpired(t) ==
    /\ pc[t] = "wait" /\ done = 0
    /\ expired' = TRUE
    /\ GoTo(t, "cancel")
    /\ UNCHANGED <<calls, mqVars, cmplVars, recovery, envVars>>

\* A slot for the cancellation, and its message: cmd | 0x4000.
SendCancel(t) ==
    /\ pc[t] = "cancel" /\ available > 0
    /\ available' = available - 1
    /\ open' = open \cup {[req[t] EXCEPT !.cancel = TRUE]}
    /\ GoTo(t, "cancelWait")
    /\ UNCHANGED <<calls, cmplVars, recovery, envVars, expired>>

\* Mutant of CancelUnsent: the pointer stays lent.
CancelUnsentLeaves(t) ==
    /\ pc[t] = "cancel" /\ available = 0
    /\ Fail(t)
    /\ UNCHANGED <<cmplVars, calls, mqVars, recovery, envVars, expired>>

\* No slot for it in time: the pointer is taken back, and -EAGAIN.
CancelUnsent(t) ==
    /\ pc[t] = "cancel" /\ available = 0
    /\ result' = 0
    /\ Fail(t)
    /\ UNCHANGED <<done, calls, mqVars, recovery, envVars, expired>>

\* Mutant of CancelExpired: wait_for_completion.
CancelNeverExpires(t) == FALSE

\* The 1 s of the cancellation runs out. A handler that gets completion_lock
\* before GiveUp still writes to *res, which is alive.
CancelExpired(t) ==
    /\ pc[t] = "cancelWait" /\ done = 0
    /\ GoTo(t, "giveUp")
    /\ UNCHANGED <<calls, mqVars, cmplVars, recovery, envVars, expired>>

\* The pointer is taken back, recovery is scheduled unless it runs already,
\* and -ETIMEDOUT.
GiveUp(t) ==
    /\ pc[t] = "giveUp"
    /\ result' = 0
    /\ recovery' = (recovery \/ ~recovering)
    /\ Fail(t)
    /\ UNCHANGED <<done, calls, mqVars, envVars, expired>>

\* The answer to the cancellation: -ETIMEDOUT. Otherwise "reply for the
\* previous command most likely arrived".
CancelCheck(t) ==
    /\ pc[t] = "cancelCheck"
    /\ \/ res[t].cmd = req[t].cmd /\ res[t].cancel /\ Fail(t)
       \/ ~(res[t].cmd = req[t].cmd /\ res[t].cancel) /\ GoTo(t, "check")
    /\ UNCHANGED <<calls, mqVars, cmplVars, recovery, envVars, expired>>

\* The call accepts its reply and returns the status in it.
Accept(t) ==
    /\ foreign' = IF res[t].call = req[t].call THEN {} ELSE {req[t].cmd}
    /\ Leave(t)
    /\ UNCHANGED <<failed, desync, calls, mqVars, cmplVars, recovery, envVars, expired>>

\* Mutant of Check: any reply will do.
CheckNothing(t) == pc[t] = "check" /\ Accept(t)

\* A reply with another code is a "possible desync": -EIO.
Check(t) ==
    /\ pc[t] = "check"
    /\ \/ res[t].cmd = req[t].cmd /\ ~res[t].cancel /\ Accept(t)
       \/ /\ ~(res[t].cmd = req[t].cmd /\ ~res[t].cancel)
          /\ desync' = TRUE
          /\ failed' = failed \cup {req[t].cmd}
          /\ Leave(t)
          /\ UNCHANGED <<foreign, calls, mqVars, cmplVars, recovery, envVars, expired>>

Caller(t) ==
    \/ Reserve(t) \/ Arm(t) \/ Write(t) \/ Wake(t) \/ WaitExpired(t)
    \/ SendCancel(t) \/ CancelUnsent(t) \/ CancelExpired(t) \/ GiveUp(t)
    \/ CancelCheck(t) \/ Check(t)

-----------------------------------------------------------------------------
(* The interrupt thread, the T2, recovery and destruction.                 *)

\* Under completion_lock: a reply for the call that waits, if there is one.
Store(r) ==
    \/ /\ result # 0
       /\ res' = [t \in Threads |-> IF req[t].call = result THEN r ELSE res[t]]
       /\ done' = done + 1
       /\ result' = 0
    \/ result = 0 /\ UNCHANGED <<res, cmplVars>>

\* The T2 answers a message, and bce_vhci_command_queue_deliver_completion
\* passes the answer on, or drops it when nobody waits.
DeliverCompletion(m) ==
    /\ open' = open \ {m}
    /\ Store(m)
    /\ UNCHANGED <<mutex, pc, req, calls, available, recovery, envVars, expired, histVars>>

\* bce_vhci_message_queue_completion: the T2 has read a message.
SlotReturned ==
    /\ available + Cardinality({t \in Threads : pc[t] \in {"arm", "write"}}) < QueueSlots
    /\ available' = available + 1
    /\ UNCHANGED <<open, callVars, calls, cmplVars, recovery, envVars, expired, histVars>>

\* bce_vhci_recovery_w begins, unless the controller is dead or the last
\* recovery is too recent, and ends; the last of several failures leaves the
\* controller dead.
RecoveryStart ==
    /\ recovery /\ ~recovering
    /\ recovery' = FALSE
    /\ recovering' \in {FALSE, ~dead}
    /\ UNCHANGED <<dead, destroy, callVars, calls, mqVars, cmplVars, expired, histVars>>

RecoveryEnd ==
    /\ recovering
    /\ recovering' = FALSE
    /\ dead' \in {dead, TRUE}
    /\ UNCHANGED <<destroy, callVars, calls, mqVars, cmplVars, recovery, expired, histVars>>

\* bce_vhci_destroy: calls that come now find the controller dead.
Remove ==
    /\ ~dead
    /\ dead' = TRUE
    /\ UNCHANGED <<recovering, destroy, callVars, calls, mqVars, cmplVars, recovery, expired,
                   histVars>>

\* bce_vhci_command_queue_destroy aborts the call that waits, and then waits
\* for the mutex.
DestroyAbort ==
    /\ destroy = "no" /\ dead
    /\ destroy' = "lock"
    /\ Store(Abort)
    /\ UNCHANGED <<dead, recovering, mutex, pc, req, calls, mqVars, recovery, expired,
                   histVars>>

DestroyLock ==
    /\ destroy = "lock" /\ mutex = NoThread
    /\ destroy' = "done"
    /\ UNCHANGED <<dead, recovering, callVars, calls, mqVars, cmplVars, recovery, expired,
                   histVars>>

\* The bound is reached, or every further call returns at once.
Rest ==
    /\ calls = MaxCalls \/ dead
    /\ mutex = NoThread
    /\ UNCHANGED vars

Next ==
    \/ \E t \in Threads : (\E c \in Cmds : Lock(t, c)) \/ Caller(t)
    \/ \E m \in open : DeliverCompletion(m)
    \/ SlotReturned \/ RecoveryStart \/ RecoveryEnd \/ Remove \/ DestroyAbort \/ DestroyLock
    \/ Rest

Spec == Init /\ [][Next]_vars

\* Threads run and timers expire. The T2 need neither read nor answer.
FairSpec == Spec /\ WF_vars(DestroyLock) /\ \A t \in Threads : WF_vars(Caller(t))

-----------------------------------------------------------------------------
(* Properties.                                                             *)

\* Neither a late reply nor the destruction of the queue writes to a stack
\* frame that is gone: completion.result points to the reply of the call that
\* holds the mutex.
NoDanglingResult ==
    result # 0 => mutex # NoThread /\ req[mutex].call = result

\* A call looks at its reply only after the handler has written it, however
\* late the replies and completions of earlier calls came.
NoUninitialisedReply ==
    \A t \in Threads : pc[t] \in {"check", "cancelCheck"} => res[t] # Garbage

\* A call takes the reply to another call for its own only if an earlier call
\* of the same command was sent and failed; until then the command code is
\* enough to tell replies apart.
\* And the two sides lose track of each other (-EIO) only after some wait has
\* run out, or when the queue is destroyed.
ForeignReplyNeedsFailure ==
    /\ foreign \subseteq failed
    /\ desync => expired \/ destroy # "no"

\* Every call returns and releases the mutex, and the destruction that waits
\* for it returns, whatever the T2 does.
CallsReturn ==
    /\ mutex # NoThread ~> mutex = NoThread
    /\ destroy = "lock" ~> destroy = "done"

=============================================================================
