----------------------- MODULE VhciCommandQueue_proofs -----------------------
(***************************************************************************)
(* Proofs about VhciCommandQueue, for every set of callers and of command  *)
(* codes, every size of the message queue and any number of calls.         *)
(***************************************************************************)
EXTENDS VhciCommandQueue, TLAPS

Stages == {"idle", "reserve", "arm", "write", "wait", "cancel", "cancelWait", "giveUp",
           "check", "cancelCheck"}
Reply == [call : Nat, cmd : Cmds \cup {NoCmd}, cancel : BOOLEAN]

TypeInv ==
    /\ mutex \in Threads \cup {NoThread}
    /\ pc \in [Threads -> Stages]
    /\ calls \in Nat
    /\ req \in [Threads -> Reply] /\ res \in [Threads -> Reply]
    /\ available \in Nat
    /\ open \subseteq {m \in Reply : m.call \in 1..calls /\ m.cmd \in Cmds}
    /\ done \in Nat

\* A thread is in a call exactly while it holds the mutex, and its call is the
\* last one.
OneCaller ==
    /\ \A t \in Threads : pc[t] # "idle" <=> mutex = t
    /\ \A t \in Threads : pc[t] = "idle" => req[t] = Garbage /\ res[t] = Garbage
    /\ \A t \in Threads : pc[t] # "idle" =>
          req[t].call = calls /\ calls > 0 /\ req[t].cmd \in Cmds /\ ~req[t].cancel

\* Until the handler has written the reply ...
Armed(t) == result = calls /\ done = 0 /\ res[t] = Garbage
\* ... and after that: the pointer is gone, and the completion done.
Answered(t) == result = 0 /\ done = 1 /\ res[t] # Garbage

\* The pointer is lent from Arm to the reply or the end of the call.
LentPointer ==
    /\ mutex = NoThread => result = 0
    /\ \A t \in Threads :
          /\ pc[t] \in {"reserve", "arm"} => result = 0 /\ res[t] = Garbage
          /\ pc[t] \in {"write", "wait", "cancel", "cancelWait", "giveUp"} =>
                Armed(t) \/ Answered(t)
          /\ pc[t] \in {"check", "cancelCheck"} => result = 0 /\ res[t] # Garbage

\* A message the T2 has not answered belongs to the call in progress, or its
\* command was sent and failed.
OpenMessages ==
    \A m \in open : ~m.cancel /\ m.cmd \notin failed =>
        mutex # NoThread /\ m = req[mutex] /\ pc[mutex] \notin {"reserve", "arm", "write"}

\* A reply is the abort, a cancellation's, the caller's own, which is then no longer
\* open, or one to a command that failed.
Replies ==
    \A t \in Threads : pc[t] # "idle" =>
        \/ res[t] \in {Garbage, Abort} \/ res[t].cancel
        \/ /\ res[t] = req[t] /\ req[t] \notin open
           /\ pc[t] \notin {"reserve", "arm", "write"}
        \/ res[t].cmd \in failed

\* What tells that some wait has run out, or that the queue is being destroyed.
Disturbed == expired \/ destroy # "no"
Undisturbed ==
    /\ failed # {} => Disturbed
    /\ \A m \in open : m.cancel => expired
    /\ \A t \in Threads :
          /\ pc[t] \in {"cancel", "cancelWait", "giveUp", "cancelCheck"} => expired
          /\ res[t].cancel => res[t] = Garbage \/ expired
          /\ res[t] = Abort => destroy # "no"

IInv ==
    /\ TypeInv
    /\ OneCaller
    /\ LentPointer
    /\ OpenMessages
    /\ Replies
    /\ Undisturbed
    /\ ForeignReplyNeedsFailure
-----------------------------------------------------------------------------
(* What ends a call, and what a handler does to it.                        *)

\* The replies that are not messages, and what tells them from messages.
LEMMA Values ==
  /\ Garbage \in Reply /\ Abort \in Reply /\ Garbage # Abort
  /\ Garbage.call = 0 /\ Garbage.cmd = NoCmd /\ Garbage.cancel
  /\ Abort.call = 0 /\ Abort.cmd = NoCmd /\ ~Abort.cancel
  BY DEF Garbage, Abort, Reply

\* A cancellation is the message it cancels, but for the bit.
LEMMA Cancellation ==
  ASSUME NEW r \in Reply
  PROVE  LET m == [r EXCEPT !.cancel = TRUE]
         IN  m \in Reply /\ m.call = r.call /\ m.cmd = r.cmd /\ m.cancel
<1> DEFINE m == [r EXCEPT !.cancel = TRUE]
<1>1. m.call = r.call /\ m.cmd = r.cmd /\ m.cancel
  BY DEF Reply
<1>2. m \in Reply
  BY DEF Reply
<1> QED BY <1>1, <1>2

\* A call that ends leaves no thread in a call, and no frame.
LEMMA LeaveStep ==
  ASSUME NEW t \in Threads, TypeInv, OneCaller, pc[t] # "idle", Leave(t), calls' = calls
  PROVE  /\ mutex' = NoThread
         /\ pc' \in [Threads -> Stages] /\ req' \in [Threads -> Reply] /\ res' \in [Threads -> Reply]
         /\ \A u \in Threads : pc'[u] = "idle" /\ req'[u] = Garbage /\ res'[u] = Garbage
         /\ OneCaller'
<1>1. mutex' = NoThread
  BY DEF Leave
<1>2. /\ pc' \in [Threads -> Stages] /\ req' \in [Threads -> Reply] /\ res' \in [Threads -> Reply]
  BY Values DEF Leave, TypeInv, Stages
<1>3. \A u \in Threads : pc'[u] = "idle"
  BY DEF Leave, TypeInv, OneCaller
<1>4. \A u \in Threads : req'[u] = Garbage /\ res'[u] = Garbage
  BY DEF Leave, TypeInv, OneCaller
<1>5. NoThread \notin Threads
  BY VhciCommandAssumption
<1> QED BY <1>1, <1>2, <1>3, <1>4, <1>5 DEF OneCaller

\* The handler writes to the reply of the thread that waits, and to no other.
LEMMA StoreStep ==
  ASSUME IInv, NEW r \in Reply, r # Garbage, Store(r),
         UNCHANGED <<mutex, pc, req, calls>>
  PROVE  /\ res' \in [Threads -> Reply] /\ done' \in Nat
         /\ \A u \in Threads : res'[u] = res[u] \/ (pc[u] # "idle" /\ res'[u] = r)
         /\ OneCaller' /\ LentPointer'
<1> USE DEF IInv
<1>1. CASE result = 0
  <2>1. res' = res /\ done' = done /\ result' = result
    BY <1>1 DEF Store, cmplVars
  <2>2. OneCaller'
    BY <2>1 DEF OneCaller
  <2>3. LentPointer'
    BY <2>1 DEF LentPointer, Armed, Answered
  <2>4. res' \in [Threads -> Reply]
    BY <2>1 DEF TypeInv
  <2>5. done' \in Nat
    BY <2>1 DEF TypeInv
  <2>6. \A u \in Threads : res'[u] = res[u]
    BY <2>1
  <2> QED BY <2>2, <2>3, <2>4, <2>5, <2>6
<1>2. CASE result # 0
  <2>1. PICK t \in Threads : mutex = t /\ pc[t] # "idle"
    BY <1>2 DEF TypeInv, OneCaller, LentPointer
  <2>2. /\ pc[t] \in {"write", "wait", "cancel", "cancelWait", "giveUp"}
        /\ result = calls /\ done = 0
    BY <1>2, <2>1 DEF TypeInv, LentPointer, Armed, Answered, Stages
  <2>3. calls > 0 /\ \A u \in Threads : req[u].call = calls <=> u = t
    BY <2>1, Values DEF TypeInv, OneCaller
  <2>4. res' = [u \in Threads |-> IF u = t THEN r ELSE res[u]]
    BY <1>2, <2>2, <2>3 DEF Store
  <2>5. done' = 1 /\ result' = 0
    BY <1>2, <2>2 DEF Store
  <2>6. \A u \in Threads : IF u = t THEN res'[u] = r ELSE res'[u] = res[u]
    BY <2>4
  <2>7. OneCaller'
    BY <2>1, <2>6 DEF OneCaller
  <2>8. \A u \in Threads : pc[u] # "idle" => u = t
    BY <2>1 DEF OneCaller
  <2>9. res'[t] # Garbage
    BY <2>4
  <2>10. LentPointer'
    BY <2>1, <2>2, <2>5, <2>8, <2>9 DEF LentPointer, Answered
  <2>11. res' \in [Threads -> Reply]
    <3>1. res \in [Threads -> Reply]
      BY DEF TypeInv
    <3> QED BY <2>4, <3>1
  <2>12. \A u \in Threads : res'[u] = res[u] \/ (pc[u] # "idle" /\ res'[u] = r)
    BY <2>1, <2>6
  <2>13. done' \in Nat
    BY <2>5
  <2> QED BY <2>7, <2>10, <2>11, <2>12, <2>13
<1> QED BY <1>1, <1>2

\* A message that is open is neither the zeros of an abort nor nothing.
LEMMA OpenIsMessage ==
  ASSUME TypeInv, NEW m \in open PROVE m \in Reply /\ m # Garbage /\ m # Abort
  BY Values DEF TypeInv

\* Unless a wait has run out or the queue is being destroyed, the reply a call looks
\* at is its own.
LEMMA Answer ==
  ASSUME IInv, NEW t \in Threads, pc[t] = "check", ~Disturbed
  PROVE  res[t].cmd = req[t].cmd /\ ~res[t].cancel
<1>1. res[t] # Garbage /\ ~res[t].cancel /\ res[t] # Abort /\ failed = {}
  BY DEF IInv, LentPointer, Undisturbed, Disturbed
<1>2. res[t] = req[t]
  BY <1>1 DEF IInv, Replies
<1> QED BY <1>1, <1>2

-----------------------------------------------------------------------------
(* The steps of a caller, of the T2 and of the destruction.                *)

\* A call begins: what is open is its predecessors'.
LEMMA LockStep == ASSUME NEW t \in Threads, NEW c \in Cmds, IInv, Lock(t, c) PROVE IInv'
<1> USE DEF IInv, Lock, Enter, mqVars, cmplVars, envVars, histVars, callVars
<1>1. TypeInv'
  <2> DEFINE new == [call |-> calls + 1, cmd |-> c, cancel |-> FALSE]
  <2>1. new \in Reply
    BY DEF TypeInv, Reply
  <2>2. pc' \in [Threads -> Stages] /\ req' \in [Threads -> Reply] /\ calls' \in Nat
    BY <2>1 DEF TypeInv, Stages
  <2>3. mutex' \in Threads \cup {NoThread}
    OBVIOUS
  <2>4. open' \subseteq {m \in Reply : m.call \in 1..calls' /\ m.cmd \in Cmds}
    BY DEF TypeInv
  <2> QED BY <2>2, <2>3, <2>4 DEF TypeInv
<1>2. OneCaller'
  <2>1. \A u \in Threads : pc[u] = "idle"
    BY VhciCommandAssumption DEF OneCaller
  <2>2. \A u \in Threads : pc'[u] # "idle" <=> u = t
    BY <2>1 DEF TypeInv
  <2>3. req'[t].call = calls' /\ req'[t].cmd = c /\ ~req'[t].cancel /\ calls' > 0
    BY DEF TypeInv
  <2>4. \A u \in Threads : u # t => req'[u] = req[u]
    BY DEF TypeInv
  <2> QED BY <2>1, <2>2, <2>3, <2>4 DEF OneCaller
<1>3. LentPointer'
  BY DEF TypeInv, OneCaller, LentPointer, Armed, Answered, Garbage, Stages
<1>4. OpenMessages'
  BY DEF TypeInv, OneCaller, LentPointer, OpenMessages
<1>5. Replies'
  BY DEF TypeInv, OneCaller, LentPointer, OpenMessages, Replies
<1>6. Undisturbed'
  BY DEF TypeInv, OneCaller, OpenMessages, Replies, Undisturbed, Disturbed
<1>7. ForeignReplyNeedsFailure'
  BY DEF TypeInv, OneCaller, OpenMessages, Replies, Undisturbed, Disturbed, ForeignReplyNeedsFailure
<1> QED BY <1>1, <1>2, <1>3, <1>4, <1>5, <1>6, <1>7

\* With no slot the call is over before it has sent anything.
LEMMA ReserveStep == ASSUME NEW t \in Threads, IInv, Reserve(t) PROVE IInv'
<1> USE DEF IInv, Reserve, GoTo, Leave, mqVars, cmplVars, envVars, histVars, callVars
<1>1. TypeInv'
  <2>1. CASE available > 0
    BY <2>1 DEF TypeInv, Stages
  <2>2. CASE available = 0
    BY <2>2, LeaveStep DEF TypeInv
  <2> QED BY <2>1, <2>2
<1>2. OneCaller'
  <2>1. CASE available > 0
    BY <2>1 DEF TypeInv, OneCaller
  <2>2. CASE available = 0
    BY <2>2, LeaveStep
  <2> QED BY <2>1, <2>2
<1>3. LentPointer'
  <2>1. CASE available > 0
    <3>1. /\ pc[t] = "reserve" /\ pc'[t] = "arm" /\ \A u \in Threads : u # t => pc'[u] = pc[u]
          /\ UNCHANGED <<mutex, result, res, calls, done>>
      BY <2>1 DEF TypeInv
    <3>2. \A u \in Threads : (Armed(u)' <=> Armed(u)) /\ (Answered(u)' <=> Answered(u))
      BY <3>1 DEF Armed, Answered, Garbage
    <3> QED BY <3>1, <3>2 DEF LentPointer, Garbage
  <2>2. CASE available = 0
    BY <2>2, SMTT(30) DEF TypeInv, OneCaller, LentPointer, Armed, Answered, Garbage, Stages
  <2> QED BY <2>1, <2>2
<1>4. OpenMessages'
  BY SMTT(30) DEF TypeInv, OneCaller, LentPointer, OpenMessages
<1>5. Replies'
  BY SMTT(30) DEF TypeInv, OneCaller, LentPointer, OpenMessages, Replies
<1>6. Undisturbed'
  <2>1. CASE available > 0
    BY <2>1 DEF TypeInv, Undisturbed, Disturbed
  <2>2. CASE available = 0
    BY <2>2, LeaveStep, Values DEF Undisturbed, Disturbed
  <2> QED BY <2>1, <2>2
<1>7. ForeignReplyNeedsFailure'
  BY DEF TypeInv, OneCaller, OpenMessages, Replies, Undisturbed, Disturbed, ForeignReplyNeedsFailure
<1> QED BY <1>1, <1>2, <1>3, <1>4, <1>5, <1>6, <1>7

\* The pointer is lent, and a completion left over is discarded.
LEMMA ArmStep == ASSUME NEW t \in Threads, IInv, Arm(t) PROVE IInv'
<1> USE DEF IInv, Arm, GoTo, mqVars, cmplVars, envVars, histVars, callVars
<1>1. TypeInv'
  BY DEF TypeInv, Stages
<1>2. OneCaller'
  BY DEF TypeInv, OneCaller, Stages
<1>3. LentPointer'
  <2>1. result' = calls /\ done' = 0 /\ res' = res /\ res[t] = Garbage
    BY DEF OneCaller, LentPointer
  <2>2. mutex' = t /\ \A u \in Threads : IF u = t THEN pc'[u] = "write" ELSE pc'[u] = "idle"
    BY DEF TypeInv, OneCaller
  <2>3. t # NoThread
    BY VhciCommandAssumption
  <2> QED BY <2>1, <2>2, <2>3 DEF LentPointer, Armed
<1>4. OpenMessages'
  BY DEF TypeInv, OneCaller, LentPointer, OpenMessages
<1>5. Replies'
  BY DEF TypeInv, OneCaller, LentPointer, OpenMessages, Replies
<1>6. Undisturbed'
  BY DEF TypeInv, OneCaller, OpenMessages, Replies, Undisturbed, Disturbed
<1>7. ForeignReplyNeedsFailure'
  BY DEF TypeInv, OneCaller, OpenMessages, Replies, Undisturbed, Disturbed, ForeignReplyNeedsFailure
<1> QED BY <1>1, <1>2, <1>3, <1>4, <1>5, <1>6, <1>7

\* The message is open.
LEMMA WriteStep == ASSUME NEW t \in Threads, IInv, Write(t) PROVE IInv'
<1> USE DEF IInv, Write, GoTo, mqVars, cmplVars, envVars, histVars, callVars
<1>1. TypeInv'
  <2>1. req[t] \in Reply /\ req[t].call \in 1..calls /\ req[t].cmd \in Cmds
    BY DEF TypeInv, OneCaller
  <2> QED BY <2>1 DEF TypeInv, Stages
<1>2. OneCaller'
  BY DEF TypeInv, OneCaller, Stages
<1>3. LentPointer'
  BY DEF TypeInv, OneCaller, LentPointer, Armed, Answered, Garbage, Stages
<1>4. OpenMessages'
  <2>1. mutex = t /\ t # NoThread /\ pc'[t] = "wait"
    BY VhciCommandAssumption DEF TypeInv, OneCaller
  <2> QED BY <2>1 DEF OpenMessages
<1>5. Replies'
  BY DEF TypeInv, OneCaller, Replies
<1>6. Undisturbed'
  BY DEF TypeInv, OneCaller, OpenMessages, Replies, Undisturbed, Disturbed
<1>7. ForeignReplyNeedsFailure'
  BY DEF TypeInv, OneCaller, OpenMessages, Replies, Undisturbed, Disturbed, ForeignReplyNeedsFailure
<1> QED BY <1>1, <1>2, <1>3, <1>4, <1>5, <1>6, <1>7

\* A completion that is done was done for this call.
LEMMA WakeStep == ASSUME NEW t \in Threads, IInv, Wake(t) PROVE IInv'
<1> USE DEF IInv, Wake, GoTo, mqVars, cmplVars, envVars, histVars, callVars
<1>1. TypeInv'
  BY DEF TypeInv, Stages
<1>2. OneCaller'
  BY DEF TypeInv, OneCaller, Stages
<1>3. LentPointer'
  BY DEF TypeInv, OneCaller, LentPointer, Armed, Answered, Garbage, Stages
<1>4. OpenMessages'
  BY DEF TypeInv, OneCaller, LentPointer, OpenMessages
<1>5. Replies'
  BY DEF TypeInv, OneCaller, LentPointer, OpenMessages, Replies
<1>6. Undisturbed'
  BY DEF TypeInv, OneCaller, OpenMessages, Replies, Undisturbed, Disturbed
<1>7. ForeignReplyNeedsFailure'
  BY DEF TypeInv, OneCaller, OpenMessages, Replies, Undisturbed, Disturbed, ForeignReplyNeedsFailure
<1> QED BY <1>1, <1>2, <1>3, <1>4, <1>5, <1>6, <1>7

\* The first wait runs out.
LEMMA WaitExpiredStep == ASSUME NEW t \in Threads, IInv, WaitExpired(t) PROVE IInv'
<1> USE DEF IInv, WaitExpired, GoTo, mqVars, cmplVars, envVars, histVars, callVars
<1>1. TypeInv'
  BY DEF TypeInv, Stages
<1>2. OneCaller'
  BY DEF TypeInv, OneCaller, Stages
<1>3. LentPointer'
  BY DEF TypeInv, OneCaller, LentPointer, Armed, Answered, Garbage, Stages
<1>4. OpenMessages'
  BY DEF TypeInv, OneCaller, LentPointer, OpenMessages
<1>5. Replies'
  BY DEF TypeInv, OneCaller, LentPointer, OpenMessages, Replies
<1>6. Undisturbed'
  BY DEF TypeInv, OneCaller, OpenMessages, Replies, Undisturbed, Disturbed
<1>7. ForeignReplyNeedsFailure'
  BY DEF TypeInv, OneCaller, OpenMessages, Replies, Undisturbed, Disturbed, ForeignReplyNeedsFailure
<1> QED BY <1>1, <1>2, <1>3, <1>4, <1>5, <1>6, <1>7

\* The cancellation is open.
LEMMA SendCancelStep == ASSUME NEW t \in Threads, IInv, SendCancel(t) PROVE IInv'
<1> USE DEF IInv, SendCancel, GoTo, mqVars, cmplVars, envVars, histVars, callVars
<1>1. TypeInv'
  <2> DEFINE m == [req[t] EXCEPT !.cancel = TRUE]
  <2>1. req[t] \in Reply /\ req[t].call \in 1..calls /\ req[t].cmd \in Cmds
    BY DEF TypeInv, OneCaller
  <2>2. m \in Reply /\ m.call = req[t].call /\ m.cmd = req[t].cmd
    BY <2>1, Cancellation
  <2>3. open' \subseteq {x \in Reply : x.call \in 1..calls' /\ x.cmd \in Cmds}
    <3>1. open' = open \cup {m}
      OBVIOUS
    <3> HIDE DEF m
    <3> QED BY <2>1, <2>2, <3>1 DEF TypeInv
  <2> QED BY <2>3 DEF TypeInv, Stages
<1>2. OneCaller'
  BY DEF TypeInv, OneCaller, Stages
<1>3. LentPointer'
  BY DEF TypeInv, OneCaller, LentPointer, Armed, Answered, Garbage, Stages
<1>4. OpenMessages'
  <2>1. [req[t] EXCEPT !.cancel = TRUE].cancel
    BY DEF TypeInv, Reply
  <2>2. mutex = t /\ t # NoThread
    BY VhciCommandAssumption DEF OneCaller
  <2> QED BY <2>1, <2>2 DEF TypeInv, OpenMessages
<1>5. Replies'
  <2>1. [req[t] EXCEPT !.cancel = TRUE].cancel
    BY DEF TypeInv, Reply
  <2>2. req[t] # [req[t] EXCEPT !.cancel = TRUE]
    BY <2>1 DEF OneCaller
  <2> QED BY <2>2 DEF TypeInv, OneCaller, Replies
<1>6. Undisturbed'
  BY DEF TypeInv, OneCaller, OpenMessages, Replies, Undisturbed, Disturbed
<1>7. ForeignReplyNeedsFailure'
  BY DEF TypeInv, OneCaller, OpenMessages, Replies, Undisturbed, Disturbed, ForeignReplyNeedsFailure
<1> QED BY <1>1, <1>2, <1>3, <1>4, <1>5, <1>6, <1>7

\* The pointer is taken back, and the command has failed.
LEMMA CancelUnsentStep == ASSUME NEW t \in Threads, IInv, CancelUnsent(t) PROVE IInv'
<1> USE DEF IInv, CancelUnsent, Fail, Leave, mqVars, cmplVars, envVars, histVars, callVars
<1>1. TypeInv'
  <2>1. req[t].cmd \in Cmds /\ Leave(t) /\ pc[t] # "idle"
    BY DEF OneCaller
  <2> QED BY <2>1, LeaveStep DEF TypeInv
<1>2. OneCaller'
  BY LeaveStep DEF OneCaller
<1>3. LentPointer'
  BY DEF TypeInv, OneCaller, LentPointer, Armed, Answered, Garbage, Stages
<1>4. OpenMessages'
  BY DEF TypeInv, OneCaller, LentPointer, OpenMessages
<1>5. Replies'
  BY DEF TypeInv, OneCaller, LentPointer, OpenMessages, Replies
<1>6. Undisturbed'
  BY LeaveStep, Values DEF Undisturbed, Disturbed
<1>7. ForeignReplyNeedsFailure'
  BY DEF TypeInv, OneCaller, OpenMessages, Replies, Undisturbed, Disturbed, ForeignReplyNeedsFailure
<1> QED BY <1>1, <1>2, <1>3, <1>4, <1>5, <1>6, <1>7

\* The second wait runs out.
LEMMA CancelExpiredStep == ASSUME NEW t \in Threads, IInv, CancelExpired(t) PROVE IInv'
<1> USE DEF IInv, CancelExpired, GoTo, mqVars, cmplVars, envVars, histVars, callVars
<1>1. TypeInv'
  BY DEF TypeInv, Stages
<1>2. OneCaller'
  BY DEF TypeInv, OneCaller, Stages
<1>3. LentPointer'
  BY DEF TypeInv, OneCaller, LentPointer, Armed, Answered, Garbage, Stages
<1>4. OpenMessages'
  BY DEF TypeInv, OneCaller, LentPointer, OpenMessages
<1>5. Replies'
  BY DEF TypeInv, OneCaller, LentPointer, OpenMessages, Replies
<1>6. Undisturbed'
  BY DEF TypeInv, OneCaller, OpenMessages, Replies, Undisturbed, Disturbed
<1>7. ForeignReplyNeedsFailure'
  BY DEF TypeInv, OneCaller, OpenMessages, Replies, Undisturbed, Disturbed, ForeignReplyNeedsFailure
<1> QED BY <1>1, <1>2, <1>3, <1>4, <1>5, <1>6, <1>7

\* The pointer is taken back, and the command has failed.
LEMMA GiveUpStep == ASSUME NEW t \in Threads, IInv, GiveUp(t) PROVE IInv'
<1> USE DEF IInv, GiveUp, Fail, Leave, mqVars, cmplVars, envVars, histVars, callVars
<1>1. TypeInv'
  <2>1. req[t].cmd \in Cmds /\ Leave(t) /\ pc[t] # "idle"
    BY DEF OneCaller
  <2> QED BY <2>1, LeaveStep DEF TypeInv
<1>2. OneCaller'
  BY LeaveStep DEF OneCaller
<1>3. LentPointer'
  BY DEF TypeInv, OneCaller, LentPointer, Armed, Answered, Garbage, Stages
<1>4. OpenMessages'
  BY DEF TypeInv, OneCaller, LentPointer, OpenMessages
<1>5. Replies'
  BY DEF TypeInv, OneCaller, LentPointer, OpenMessages, Replies
<1>6. Undisturbed'
  BY LeaveStep, Values DEF Undisturbed, Disturbed
<1>7. ForeignReplyNeedsFailure'
  BY DEF TypeInv, OneCaller, OpenMessages, Replies, Undisturbed, Disturbed, ForeignReplyNeedsFailure
<1> QED BY <1>1, <1>2, <1>3, <1>4, <1>5, <1>6, <1>7

\* The reply is the cancellation's, or it is looked at as a reply.
LEMMA CancelCheckStep == ASSUME NEW t \in Threads, IInv, CancelCheck(t) PROVE IInv'
<1> USE DEF IInv, CancelCheck, GoTo, Fail, Leave, mqVars, cmplVars, envVars, histVars, callVars
<1>1. TypeInv'
  <2>1. CASE Fail(t)
    <3>1. req[t].cmd \in Cmds
      BY DEF OneCaller
    <3> QED BY <2>1, <3>1, LeaveStep DEF TypeInv
  <2>2. CASE GoTo(t, "check")
    BY <2>2 DEF TypeInv, Stages
  <2> QED BY <2>1, <2>2
<1>2. OneCaller'
  <2>1. CASE Fail(t)
    BY <2>1, LeaveStep DEF TypeInv
  <2>2. CASE GoTo(t, "check")
    BY <2>2 DEF TypeInv, OneCaller
  <2> QED BY <2>1, <2>2
<1>3. LentPointer'
  BY DEF TypeInv, OneCaller, LentPointer, Armed, Answered, Garbage, Stages
<1>4. OpenMessages'
  BY DEF TypeInv, OneCaller, LentPointer, OpenMessages
<1>5. Replies'
  BY DEF TypeInv, OneCaller, LentPointer, OpenMessages, Replies
<1>6. Undisturbed'
  <2>1. CASE Fail(t)
    BY <2>1, LeaveStep, Values DEF Undisturbed, Disturbed
  <2>2. CASE GoTo(t, "check")
    BY <2>2 DEF TypeInv, Undisturbed, Disturbed
  <2> QED BY <2>1, <2>2
<1>7. ForeignReplyNeedsFailure'
  BY DEF TypeInv, OneCaller, OpenMessages, Replies, Undisturbed, Disturbed, ForeignReplyNeedsFailure
<1> QED BY <1>1, <1>2, <1>3, <1>4, <1>5, <1>6, <1>7

\* The reply is the caller's own, or one to a command that failed.
LEMMA CheckStep == ASSUME NEW t \in Threads, IInv, Check(t) PROVE IInv'
<1> USE DEF IInv, Check, Accept, Leave, mqVars, cmplVars, envVars, histVars, callVars
<1>1. TypeInv'
  <2>1. req[t].cmd \in Cmds /\ Leave(t)
    BY DEF OneCaller
  <2> QED BY <2>1, LeaveStep DEF TypeInv
<1>2. OneCaller'
  BY LeaveStep
<1>3. LentPointer'
  BY DEF TypeInv, OneCaller, LentPointer, Armed, Answered, Garbage, Stages
<1>4. OpenMessages'
  <2>1. Leave(t) /\ open' = open
    OBVIOUS
  <2>2. ASSUME NEW m \in open, ~m.cancel, m.cmd \notin failed PROVE m.cmd \in failed'
    <3>1. mutex = t /\ m = req[t] /\ t # NoThread
      BY <2>2, VhciCommandAssumption DEF OneCaller, OpenMessages
    <3>2. res[t] # Garbage
      BY DEF LentPointer
    <3>3. CASE res[t].cmd = req[t].cmd /\ ~res[t].cancel
      BY <2>2, <3>1, <3>2, <3>3, Values, VhciCommandAssumption DEF OneCaller, Replies
    <3>4. CASE ~(res[t].cmd = req[t].cmd /\ ~res[t].cancel)
      BY <3>1, <3>4
    <3> QED BY <3>3, <3>4
  <2>3. failed \subseteq failed'
    OBVIOUS
  <2> QED BY <2>1, <2>2, <2>3 DEF OpenMessages
<1>5. Replies'
  BY DEF TypeInv, OneCaller, LentPointer, OpenMessages, Replies
<1>6. Undisturbed'
  <2>1. \A u \in Threads : pc'[u] = "idle" /\ res'[u] = Garbage
    BY LeaveStep
  <2>2. open' = open /\ expired' = expired /\ destroy' = destroy
    OBVIOUS
  <2>3. failed' # {} => Disturbed
    BY Answer DEF Undisturbed
  <2> QED BY <2>1, <2>2, <2>3, Values DEF Undisturbed, Disturbed
<1>7. ForeignReplyNeedsFailure'
  <2>1. CASE res[t].cmd = req[t].cmd /\ ~res[t].cancel
    <3>1. res[t].call = req[t].call \/ req[t].cmd \in failed
      BY <2>1, Values, VhciCommandAssumption DEF OneCaller, LentPointer, Replies
    <3> QED BY <2>1, <3>1 DEF ForeignReplyNeedsFailure
  <2>2. CASE ~(res[t].cmd = req[t].cmd /\ ~res[t].cancel)
    BY <2>2, Answer DEF ForeignReplyNeedsFailure, Disturbed
  <2> QED BY <2>1, <2>2
<1> QED BY <1>1, <1>2, <1>3, <1>4, <1>5, <1>6, <1>7

\* The reply goes to the call in progress, or nowhere.
LEMMA DeliverStep == ASSUME NEW m \in open, IInv, DeliverCompletion(m) PROVE IInv'
<1> USE DEF IInv, DeliverCompletion, Store, mqVars, cmplVars, envVars, histVars, callVars
<1>1. TypeInv'
  BY DEF TypeInv, Stages
<1>2. OneCaller'
  BY StoreStep, OpenIsMessage
<1>3. LentPointer'
  BY StoreStep, OpenIsMessage
<1>4. OpenMessages'
  BY DEF TypeInv, OneCaller, LentPointer, OpenMessages
<1>5. Replies'
  BY DEF TypeInv, OneCaller, LentPointer, OpenMessages, Replies
<1>6. Undisturbed'
  <2>1. \A u \in Threads : res'[u] = res[u] \/ res'[u] = m
    BY StoreStep, OpenIsMessage
  <2>2. m # Abort /\ m # Garbage /\ (m.cancel => expired)
    BY OpenIsMessage DEF Undisturbed
  <2> QED BY <2>1, <2>2 DEF Undisturbed, Disturbed
<1>7. ForeignReplyNeedsFailure'
  BY DEF TypeInv, OneCaller, OpenMessages, Replies, Undisturbed, Disturbed, ForeignReplyNeedsFailure
<1> QED BY <1>1, <1>2, <1>3, <1>4, <1>5, <1>6, <1>7

\* The T2 has read a message.
LEMMA SlotReturnedStep == ASSUME IInv, SlotReturned PROVE IInv'
<1> USE DEF IInv, SlotReturned, mqVars, cmplVars, envVars, histVars, callVars
<1>1. TypeInv'
  BY DEF TypeInv, Stages
<1>2. OneCaller'
  BY DEF TypeInv, OneCaller, Stages
<1>3. LentPointer'
  BY DEF TypeInv, OneCaller, LentPointer, Armed, Answered, Garbage, Stages
<1>4. OpenMessages'
  BY DEF TypeInv, OneCaller, LentPointer, OpenMessages
<1>5. Replies'
  BY DEF TypeInv, OneCaller, LentPointer, OpenMessages, Replies
<1>6. Undisturbed'
  BY DEF TypeInv, OneCaller, OpenMessages, Replies, Undisturbed, Disturbed
<1>7. ForeignReplyNeedsFailure'
  BY DEF TypeInv, OneCaller, OpenMessages, Replies, Undisturbed, Disturbed, ForeignReplyNeedsFailure
<1> QED BY <1>1, <1>2, <1>3, <1>4, <1>5, <1>6, <1>7

\* Recovery begins.
LEMMA RecoveryStartStep == ASSUME IInv, RecoveryStart PROVE IInv'
<1> USE DEF IInv, RecoveryStart, mqVars, cmplVars, envVars, histVars, callVars
<1>1. TypeInv'
  BY DEF TypeInv, Stages
<1>2. OneCaller'
  BY DEF TypeInv, OneCaller, Stages
<1>3. LentPointer'
  BY DEF TypeInv, OneCaller, LentPointer, Armed, Answered, Garbage, Stages
<1>4. OpenMessages'
  BY DEF TypeInv, OneCaller, LentPointer, OpenMessages
<1>5. Replies'
  BY DEF TypeInv, OneCaller, LentPointer, OpenMessages, Replies
<1>6. Undisturbed'
  BY DEF TypeInv, OneCaller, OpenMessages, Replies, Undisturbed, Disturbed
<1>7. ForeignReplyNeedsFailure'
  BY DEF TypeInv, OneCaller, OpenMessages, Replies, Undisturbed, Disturbed, ForeignReplyNeedsFailure
<1> QED BY <1>1, <1>2, <1>3, <1>4, <1>5, <1>6, <1>7

\* Recovery ends.
LEMMA RecoveryEndStep == ASSUME IInv, RecoveryEnd PROVE IInv'
<1> USE DEF IInv, RecoveryEnd, mqVars, cmplVars, envVars, histVars, callVars
<1>1. TypeInv'
  BY DEF TypeInv, Stages
<1>2. OneCaller'
  BY DEF TypeInv, OneCaller, Stages
<1>3. LentPointer'
  BY DEF TypeInv, OneCaller, LentPointer, Armed, Answered, Garbage, Stages
<1>4. OpenMessages'
  BY DEF TypeInv, OneCaller, LentPointer, OpenMessages
<1>5. Replies'
  BY DEF TypeInv, OneCaller, LentPointer, OpenMessages, Replies
<1>6. Undisturbed'
  BY DEF TypeInv, OneCaller, OpenMessages, Replies, Undisturbed, Disturbed
<1>7. ForeignReplyNeedsFailure'
  BY DEF TypeInv, OneCaller, OpenMessages, Replies, Undisturbed, Disturbed, ForeignReplyNeedsFailure
<1> QED BY <1>1, <1>2, <1>3, <1>4, <1>5, <1>6, <1>7

\* The driver is removed.
LEMMA RemoveStep == ASSUME IInv, Remove PROVE IInv'
<1> USE DEF IInv, Remove, mqVars, cmplVars, envVars, histVars, callVars
<1>1. TypeInv'
  BY DEF TypeInv, Stages
<1>2. OneCaller'
  BY DEF TypeInv, OneCaller, Stages
<1>3. LentPointer'
  BY DEF TypeInv, OneCaller, LentPointer, Armed, Answered, Garbage, Stages
<1>4. OpenMessages'
  BY DEF TypeInv, OneCaller, LentPointer, OpenMessages
<1>5. Replies'
  BY DEF TypeInv, OneCaller, LentPointer, OpenMessages, Replies
<1>6. Undisturbed'
  BY DEF TypeInv, OneCaller, OpenMessages, Replies, Undisturbed, Disturbed
<1>7. ForeignReplyNeedsFailure'
  BY DEF TypeInv, OneCaller, OpenMessages, Replies, Undisturbed, Disturbed, ForeignReplyNeedsFailure
<1> QED BY <1>1, <1>2, <1>3, <1>4, <1>5, <1>6, <1>7

\* The call in progress gets the abort.
LEMMA DestroyAbortStep == ASSUME IInv, DestroyAbort PROVE IInv'
<1> USE DEF IInv, DestroyAbort, Store, mqVars, cmplVars, envVars, histVars, callVars
<1>1. TypeInv'
  BY StoreStep, Values DEF TypeInv
<1>2. OneCaller'
  BY StoreStep, Values
<1>3. LentPointer'
  BY StoreStep, Values
<1>4. OpenMessages'
  BY DEF TypeInv, OneCaller, LentPointer, OpenMessages
<1>5. Replies'
  BY DEF TypeInv, OneCaller, LentPointer, OpenMessages, Replies
<1>6. Undisturbed'
  <2>1. \A u \in Threads : res'[u] = res[u] \/ res'[u] = Abort
    BY StoreStep, Values
  <2> QED BY <2>1, Values DEF Undisturbed, Disturbed
<1>7. ForeignReplyNeedsFailure'
  BY DEF TypeInv, OneCaller, OpenMessages, Replies, Undisturbed, Disturbed, ForeignReplyNeedsFailure
<1> QED BY <1>1, <1>2, <1>3, <1>4, <1>5, <1>6, <1>7

\* The queue is destroyed once the mutex is free.
LEMMA DestroyLockStep == ASSUME IInv, DestroyLock PROVE IInv'
<1> USE DEF IInv, DestroyLock, mqVars, cmplVars, envVars, histVars, callVars
<1>1. TypeInv'
  BY DEF TypeInv, Stages
<1>2. OneCaller'
  BY DEF TypeInv, OneCaller, Stages
<1>3. LentPointer'
  BY DEF TypeInv, OneCaller, LentPointer, Armed, Answered, Garbage, Stages
<1>4. OpenMessages'
  BY DEF TypeInv, OneCaller, LentPointer, OpenMessages
<1>5. Replies'
  BY DEF TypeInv, OneCaller, LentPointer, OpenMessages, Replies
<1>6. Undisturbed'
  BY DEF TypeInv, OneCaller, OpenMessages, Replies, Undisturbed, Disturbed
<1>7. ForeignReplyNeedsFailure'
  BY DEF TypeInv, OneCaller, OpenMessages, Replies, Undisturbed, Disturbed, ForeignReplyNeedsFailure
<1> QED BY <1>1, <1>2, <1>3, <1>4, <1>5, <1>6, <1>7

\* Each step keeps the inductive invariant.
LEMMA NextIInv == IInv /\ [Next]_vars => IInv'
<1> SUFFICES ASSUME IInv, [Next]_vars PROVE IInv'
  OBVIOUS
<1>1. ASSUME NEW t \in Threads, NEW c \in Cmds, Lock(t, c) PROVE IInv'
  BY <1>1, LockStep
<1>2. ASSUME NEW t \in Threads, Caller(t) PROVE IInv'
  BY <1>2, ReserveStep, ArmStep, WriteStep, WakeStep, WaitExpiredStep, SendCancelStep,
     CancelUnsentStep, CancelExpiredStep, GiveUpStep, CancelCheckStep, CheckStep DEF Caller
<1>3. ASSUME NEW m \in open, DeliverCompletion(m) PROVE IInv'
  BY <1>3, DeliverStep
<1>4. CASE SlotReturned \/ RecoveryStart \/ RecoveryEnd \/ Remove \/ DestroyAbort \/ DestroyLock
  BY <1>4, SlotReturnedStep, RecoveryStartStep, RecoveryEndStep, RemoveStep, DestroyAbortStep,
     DestroyLockStep
<1>5. CASE UNCHANGED vars
  <2> USE <1>5 DEF vars, callVars, mqVars, cmplVars, envVars, histVars
  <2>1. TypeInv' /\ OneCaller'
    BY DEF IInv, TypeInv, OneCaller
  <2>2. LentPointer' /\ OpenMessages'
    BY DEF IInv, LentPointer, Armed, Answered, OpenMessages
  <2>3. Replies' /\ Undisturbed' /\ ForeignReplyNeedsFailure'
    BY DEF IInv, Replies, Undisturbed, Disturbed, ForeignReplyNeedsFailure
  <2> QED BY <2>1, <2>2, <2>3 DEF IInv
<1> QED BY <1>1, <1>2, <1>3, <1>4, <1>5 DEF Next, Rest

\* A new queue has no call, no message and no reply.
LEMMA InitIInv == Init => IInv
<1> SUFFICES ASSUME Init PROVE IInv
  OBVIOUS
<1> USE DEF Init
<1>1. TypeInv
  BY Values, VhciCommandAssumption DEF TypeInv, Stages
<1>2. OneCaller
  BY VhciCommandAssumption DEF OneCaller
<1>3. LentPointer
  BY DEF LentPointer
<1>4. OpenMessages /\ Replies
  BY DEF OpenMessages, Replies
<1>5. Undisturbed
  BY Values DEF Undisturbed
<1>6. ForeignReplyNeedsFailure
  BY DEF ForeignReplyNeedsFailure
<1> QED BY <1>1, <1>2, <1>3, <1>4, <1>5, <1>6 DEF IInv

LEMMA Invariant == Spec => []IInv
  BY InitIInv, NextIInv, PTL DEF Spec

\* completion.result never points into the frame of a call that is over, whoever comes
\* late: the handler with a reply, or the destruction of the queue with an abort.
THEOREM ResultIsAlive == Spec => []NoDanglingResult
<1>1. IInv => NoDanglingResult
  BY DEF IInv, NoDanglingResult, TypeInv, OneCaller, LentPointer, Armed, Answered, Stages
<1> QED BY <1>1, Invariant, PTL

\* No call looks at a reply the handler has not written: what a late reply left in
\* the completion is discarded before the pointer is lent.
THEOREM RepliesAreWritten == Spec => []NoUninitialisedReply
<1>1. IInv => NoUninitialisedReply
  BY DEF IInv, NoUninitialisedReply, LentPointer
<1> QED BY <1>1, Invariant, PTL

\* The command code tells the replies of two calls apart until a command of that code
\* was sent and failed, and replies and calls are in step until a wait has run out or
\* the queue is destroyed.
THEOREM CodeIsEnough == Spec => []ForeignReplyNeedsFailure
<1>1. IInv => ForeignReplyNeedsFailure
  BY DEF IInv
<1> QED BY <1>1, Invariant, PTL

=============================================================================
