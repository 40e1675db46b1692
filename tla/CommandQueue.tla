---------------------------- MODULE CommandQueue ----------------------------
(***************************************************************************)
(* The command queue of the driver (struct bce_queue_cmdq in queue.c):     *)
(* bce_cmd_start, bce_cmd_finish, bce_cmdq_completion and the three        *)
(* commands built on them. A caller puts a pointer to a result element on  *)
(* its own stack into tres[slot] and waits for at most 5 s; the completion *)
(* handler looks the pointer up at sq->head. All accesses to tres, head    *)
(* and tail are made under cmdq->lck, so each critical section is one      *)
(* action; everything between two of them is a step of its own.            *)
(*                                                                         *)
(* The ring itself is the one of SubmissionQueue. Here the device and the  *)
(* harvest are one step: they move completion_tail over a submitted slot.  *)
(***************************************************************************)
EXTENDS Integers, FiniteSets

CONSTANTS
    Threads,      \* callers: queue creation, destruction, flushes
    NoThread,     \* an empty entry of tres
    ElCount,      \* el_count of the command SQ
    MaxCalls      \* bound: commands one thread issues

ASSUME CommandQueueAssumption ==
    /\ ElCount \in Nat \ {0, 1}
    /\ MaxCalls \in Nat
    /\ NoThread \notin Threads
    /\ IsFiniteSet(Threads)

Slots == 0..(ElCount - 1)
Statuses == {"success", "error"}

VARIABLES
    available,    \* sq->available_commands
    head, tail,   \* sq->head, sq->tail
    ctail,        \* sq->completion_tail
    command,      \* sq->data: the call whose command is in the slot
    cmplStatus,   \* sq->completion_data[slot].status
    tres,         \* cmdq->tres: whose result element awaits the slot
    pc,           \* where each thread is
    call,         \* how many calls the thread has begun
    slot,         \* res->slot
    done,         \* res->cmpl is completed
    result,       \* what the handler stored: the call answered, its status
    ret,          \* what the last call of the thread returned
    outcome       \* device: the status of every command it executed

sqVars == <<available, head, tail, ctail, command, cmplStatus>>
resVars == <<tres, slot, done, result>>
vars == <<sqVars, resVars, pc, call, ret, outcome>>

Succ(i) == (i + 1) % ElCount
Dist(a, b) == IF b >= a THEN b - a ELSE b - a + ElCount
ThisCall(t) == <<t, call[t]>>

Init ==
    /\ available = ElCount - 1
    /\ head = 0 /\ tail = 0 /\ ctail = 0
    /\ command = [s \in Slots |-> <<NoThread, 0>>]
    /\ cmplStatus = [s \in Slots |-> "success"]
    /\ tres = [s \in Slots |-> NoThread]
    /\ pc = [t \in Threads |-> "idle"]
    /\ call = [t \in Threads |-> 0]
    /\ slot = [t \in Threads |-> 0]
    /\ done = [t \in Threads |-> FALSE]
    /\ result = [t \in Threads |-> [call |-> <<NoThread, 0>>, status |-> "success"]]
    /\ ret = [t \in Threads |-> "none"]
    /\ outcome = {}

\* Mutant of StartReserve: the completion is not initialised.
StartWithoutInit(t) ==
    /\ pc[t] = "idle" /\ call[t] < MaxCalls
    /\ available > 0
    /\ available' = available - 1
    /\ call' = [call EXCEPT ![t] = @ + 1]
    /\ ret' = [ret EXCEPT ![t] = "none"]
    /\ pc' = [pc EXCEPT ![t] = "reserved"]
    /\ UNCHANGED <<head, tail, ctail, command, cmplStatus, resVars, outcome>>

\* bce_cmd_start: init_completion, and a slot is reserved.
StartReserve(t) ==
    /\ pc[t] = "idle" /\ call[t] < MaxCalls
    /\ available > 0
    /\ available' = available - 1
    /\ call' = [call EXCEPT ![t] = @ + 1]
    /\ done' = [done EXCEPT ![t] = FALSE]
    /\ ret' = [ret EXCEPT ![t] = "none"]
    /\ pc' = [pc EXCEPT ![t] = "reserved"]
    /\ UNCHANGED <<head, tail, ctail, command, cmplStatus, tres, slot, result,
                   outcome>>

\* bce_cmd_start: no slot came free in 5 minutes.
StartTimeout(t) ==
    /\ pc[t] = "idle" /\ call[t] < MaxCalls
    /\ available = 0
    /\ call' = [call EXCEPT ![t] = @ + 1]
    /\ done' = [done EXCEPT ![t] = FALSE]
    /\ ret' = [ret EXCEPT ![t] = "ETIMEDOUT"]
    /\ UNCHANGED <<sqVars, tres, slot, result, pc, outcome>>

\* The critical section from bce_cmd_start to bce_cmd_finish: the result
\* element is entered, the command written and the doorbell rung.
Submit(t) ==
    /\ pc[t] = "reserved"
    /\ slot' = [slot EXCEPT ![t] = tail]
    /\ tres' = [tres EXCEPT ![tail] = t]
    /\ command' = [command EXCEPT ![tail] = ThisCall(t)]
    /\ tail' = Succ(tail)
    /\ pc' = [pc EXCEPT ![t] = "waiting"]
    /\ UNCHANGED <<available, head, ctail, cmplStatus, done, result, call, ret,
                   outcome>>

\* The device executes the next command and the interrupt thread harvests
\* its completion (external).
DeviceComplete(st) ==
    /\ ctail # tail
    /\ cmplStatus' = [cmplStatus EXCEPT ![ctail] = st]
    /\ ctail' = Succ(ctail)
    /\ outcome' = outcome \cup {<<command[ctail], st>>}
    /\ UNCHANGED <<available, head, tail, command, resVars, pc, call, ret>>

Harvested == {s \in Slots : Dist(head, s) < Dist(head, ctail)}

\* bce_cmdq_completion, one critical section: every harvested completion
\* goes to the result element at sq->head, if there is one, and its slot is
\* returned.
CmdqCompletion ==
    /\ head # ctail
    /\ LET answered == {s \in Harvested : tres[s] # NoThread}
           SlotOf(t) == CHOOSE s \in answered : tres[s] = t
           woken == {tres[s] : s \in answered}
       IN /\ done' = [t \in Threads |-> done[t] \/ t \in woken]
          /\ result' = [t \in Threads |->
                IF t \in woken THEN [call |-> command[SlotOf(t)],
                                     status |-> cmplStatus[SlotOf(t)]]
                               ELSE result[t]]
    /\ tres' = [s \in Slots |-> IF s \in Harvested THEN NoThread ELSE tres[s]]
    /\ head' = ctail
    /\ available' = available + Dist(head, ctail)
    /\ UNCHANGED <<tail, ctail, command, cmplStatus, slot, pc, call, ret,
                   outcome>>

\* bce_cmd_finish: wait_for_completion_timeout returns in time, and the
\* command returns res.status ? -EIO : 0.
Finish(t) ==
    /\ pc[t] = "waiting" /\ done[t]
    /\ ret' = [ret EXCEPT ![t] = IF result[t].status = "success" THEN "success"
                                                                 ELSE "EIO"]
    /\ pc' = [pc EXCEPT ![t] = "idle"]
    /\ UNCHANGED <<sqVars, resVars, call, outcome>>

\* bce_cmd_finish: the 5 s are over; the lock is not taken yet.
WaitTimeout(t) ==
    /\ pc[t] = "waiting" /\ ~done[t]
    /\ pc' = [pc EXCEPT ![t] = "timedOut"]
    /\ UNCHANGED <<sqVars, resVars, call, ret, outcome>>

\* Mutant of TimeoutCleanup: the entry of tres is left behind.
TimeoutWithoutCleanup(t) ==
    /\ pc[t] = "timedOut"
    /\ ret' = [ret EXCEPT ![t] = "ETIMEDOUT"]
    /\ pc' = [pc EXCEPT ![t] = "idle"]
    /\ UNCHANGED <<sqVars, resVars, call, outcome>>

\* bce_cmd_finish: tres[res->slot] = NULL under the lock, whoever is there.
TimeoutCleanup(t) ==
    /\ pc[t] = "timedOut"
    /\ tres' = [tres EXCEPT ![slot[t]] = NoThread]
    /\ ret' = [ret EXCEPT ![t] = "ETIMEDOUT"]
    /\ pc' = [pc EXCEPT ![t] = "idle"]
    /\ UNCHANGED <<sqVars, slot, done, result, call, outcome>>

\* Every thread has issued its commands and the queue is drained.
Terminated ==
    /\ \A t \in Threads : pc[t] = "idle" /\ call[t] = MaxCalls
    /\ head = tail
    /\ UNCHANGED vars

Caller(t) ==
    \/ StartReserve(t) \/ StartTimeout(t) \/ Submit(t)
    \/ Finish(t) \/ WaitTimeout(t) \/ TimeoutCleanup(t)

Next ==
    \/ \E t \in Threads : Caller(t)
    \/ \E st \in Statuses : DeviceComplete(st)
    \/ CmdqCompletion
    \/ Terminated

Spec == Init /\ [][Next]_vars

-----------------------------------------------------------------------------
(* Properties.                                                             *)

\* tres never points to a result element whose stack frame is gone: an entry
\* belongs to a thread that is still inside bce_cmd_finish, for that slot,
\* whose element has not been completed, and the slot is in flight.
NoDanglingResult ==
    \A s \in Slots : tres[s] # NoThread =>
        /\ pc[tres[s]] \in {"waiting", "timedOut"}
        /\ slot[tres[s]] = s
        /\ ~done[tres[s]]
        /\ command[s] = ThisCall(tres[s])
        /\ Dist(head, s) < Dist(head, tail)

\* A caller is only ever given the answer to its own command, whatever timed
\* out before on the slot, and what it returns is true: 0 means that the device
\* executed the command, -EIO that it refused it. (-ETIMEDOUT says nothing.)
OwnResult ==
    \A t \in Threads :
        /\ pc[t] \in {"waiting", "timedOut"} /\ done[t] =>
               result[t].call = ThisCall(t)
        /\ ret[t] = "success" => <<ThisCall(t), "success">> \in outcome
        /\ ret[t] = "EIO" => <<ThisCall(t), "error">> \in outcome

=============================================================================
