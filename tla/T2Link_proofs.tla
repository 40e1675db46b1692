---------------------------- MODULE T2Link_proofs ----------------------------
(***************************************************************************)
(* Proofs about the services that link the host to the T2 beside its       *)
(* queues: the mailbox, for every set of senders; the suspend and resume   *)
(* of the T2 with the timestamp service they drive, for any number of      *)
(* suspends; and the command queue, for every set of callers and every     *)
(* size of its ring. Nothing bounds the number of messages or commands.    *)
(***************************************************************************)
EXTENDS Mailbox, PowerManagement, CommandQueue, FiniteSetTheorems, TLAPS

-----------------------------------------------------------------------------
(* The mailbox.                                                            *)

Waiting == {"wait", "check", "giveUp", "read", "release"}
Stages == {"idle", "reinit", "post"} \cup Waiting

MailboxTypes ==
    /\ mbStatus \in 0..2
    /\ completion \in Nat
    /\ mbResult \in Nat
    /\ stage \in [Senders -> Stages]
    /\ mine \in [Senders -> Nat] /\ recv \in [Senders -> Nat]
    /\ sendRet \in [Senders -> {"none", "EEXIST", "ETIMEDOUT", "success"}]
    /\ sent \in Nat
    /\ pending \subseteq Nat /\ fifo \in Seq(Nat)
    /\ irqPc \in {"idle", "got", "complete"}
    /\ failed \subseteq Nat
    /\ expired \in BOOLEAN

\* The compare-and-exchange admits one sender, and only that one sets mb_status
\* back to 0.
OneSender ==
    /\ \A t \in Senders : stage[t] # "idle" => mbStatus # 0 /\ sendRet[t] = "none"
    /\ \A t, u \in Senders : stage[t] # "idle" /\ stage[u] # "idle" => t = u
    /\ \A t \in Senders : stage[t] \in {"read", "release"} => mbStatus = 2

\* No reply is on its way to mb_status, ...
NoReply == pending = {} /\ fifo = <<>> /\ irqPc # "got"

\* ... or only the one to the last message, in one place.
OnlyReply ==
    /\ pending \subseteq {sent}
    /\ pending # {} => fifo = <<>> /\ irqPc # "got"
    /\ fifo # <<>> => fifo = <<sent>> /\ irqPc # "got"
    /\ irqPc = "got" => mbResult = sent

\* As long as no call has failed, sender and device are in step.
InStep ==
    /\ mbStatus = 0 => NoReply
    /\ \A t \in Senders :
          /\ stage[t] \in {"reinit", "post"} => mbStatus = 1 /\ NoReply
          /\ stage[t] \in Waiting =>
                /\ mine[t] = sent
                /\ mbStatus = 1 => OnlyReply
                /\ mbStatus = 2 => NoReply /\ mbResult = sent
          /\ stage[t] = "release" => recv[t] = sent

\* Nothing is left or due that would wake a sender.
Silent == completion = 0 /\ irqPc # "complete"

\* As long as no wait has run out, a sender is woken once, after its reply.
WakesMatch ==
    /\ mbStatus = 0 => Silent
    /\ \A t \in Senders :
          /\ stage[t] \in {"reinit", "post", "check", "read", "release"} => Silent
          /\ stage[t] = "wait" /\ mbStatus = 1 => Silent
          /\ stage[t] = "wait" => completion <= 1 /\ (irqPc = "complete" => completion = 0)
          /\ stage[t] = "check" => mbStatus = 2
          /\ stage[t] # "giveUp"

MailboxIInv ==
    /\ MailboxTypes
    /\ OneSender
    /\ failed = {} => InStep
    /\ ~expired => WakesMatch
    /\ OwnReplyUntilFailure
-----------------------------------------------------------------------------
(* The steps of bce_mailbox_send, the device and the interrupt handler.    *)

\* A sender takes the mailbox: nothing is on its way and nothing wakes it.
LEMMA ClaimStep == ASSUME NEW t \in Senders, MailboxIInv, Claim(t) PROVE MailboxIInv'
<1> USE DEF MailboxIInv, Claim, deviceVars, histVars
<1>1. MailboxTypes'
  BY DEF MailboxTypes, Stages, Waiting, NoMessage
<1>2. OneSender'
  BY DEF MailboxTypes, OneSender, Stages, Waiting
<1>3. failed' = {} => InStep'
  BY DEF MailboxTypes, OneSender, InStep, NoReply, OnlyReply, Stages, Waiting
<1>4. ~expired' => WakesMatch'
  BY DEF MailboxTypes, OneSender, WakesMatch, Silent, Stages, Waiting
<1>5. OwnReplyUntilFailure'
  BY DEF MailboxTypes, OneSender, InStep, WakesMatch, OwnReplyUntilFailure, Stages, Waiting
<1> QED BY <1>1, <1>2, <1>3, <1>4, <1>5

\* A refused sender changes nothing that is shared.
LEMMA RefuseStep == ASSUME NEW t \in Senders, MailboxIInv, Refuse(t) PROVE MailboxIInv'
<1> USE DEF MailboxIInv, Refuse, deviceVars, histVars
<1>1. MailboxTypes'
  BY DEF MailboxTypes, Stages, Waiting, NoMessage
<1>2. OneSender'
  BY DEF MailboxTypes, OneSender, Stages, Waiting
<1>3. failed' = {} => InStep'
  BY DEF MailboxTypes, OneSender, InStep, NoReply, OnlyReply, Stages, Waiting
<1>4. ~expired' => WakesMatch'
  BY DEF MailboxTypes, OneSender, WakesMatch, Silent, Stages, Waiting
<1>5. OwnReplyUntilFailure'
  BY DEF MailboxTypes, OneSender, InStep, WakesMatch, OwnReplyUntilFailure, Stages, Waiting
<1> QED BY <1>1, <1>2, <1>3, <1>4, <1>5

\* The completion was at 0 already, unless a wait has run out.
LEMMA ReinitStep == ASSUME NEW t \in Senders, MailboxIInv, Reinit(t) PROVE MailboxIInv'
<1> USE DEF MailboxIInv, Reinit, deviceVars, histVars
<1>1. MailboxTypes'
  BY DEF MailboxTypes, Stages, Waiting
<1>2. OneSender'
  BY DEF MailboxTypes, OneSender, Stages, Waiting
<1>3. failed' = {} => InStep'
  BY DEF MailboxTypes, OneSender, InStep, NoReply, OnlyReply, Stages, Waiting
<1>4. ~expired' => WakesMatch'
  BY DEF MailboxTypes, OneSender, WakesMatch, Silent, Stages, Waiting
<1>5. OwnReplyUntilFailure'
  BY DEF MailboxTypes, OneSender, InStep, WakesMatch, OwnReplyUntilFailure, Stages, Waiting
<1> QED BY <1>1, <1>2, <1>3, <1>4, <1>5

\* The message becomes the last one, and its reply the only one due.
LEMMA PostStep == ASSUME NEW t \in Senders, MailboxIInv, Post(t) PROVE MailboxIInv'
<1> USE DEF MailboxIInv, Post, deviceVars, histVars
<1>1. MailboxTypes'
  BY DEF MailboxTypes, Stages, Waiting
<1>2. OneSender'
  BY DEF MailboxTypes, OneSender, Stages, Waiting
<1>3. failed' = {} => InStep'
  <2> SUFFICES ASSUME failed = {} PROVE InStep'
    OBVIOUS
  <2>1. mbStatus' = 1 /\ pending' = {sent'} /\ fifo' = <<>> /\ irqPc' # "got"
    BY DEF InStep, NoReply
  <2>2. ASSUME NEW u \in Senders, stage'[u] # "idle"
        PROVE u = t /\ stage'[u] = "wait" /\ mine'[u] = sent'
    BY <2>2 DEF MailboxTypes, OneSender
  <2> QED BY <2>1, <2>2 DEF InStep, OnlyReply, Waiting
<1>4. ~expired' => WakesMatch'
  BY DEF MailboxTypes, OneSender, WakesMatch, Silent, Stages, Waiting
<1>5. OwnReplyUntilFailure'
  BY DEF MailboxTypes, OneSender, InStep, WakesMatch, OwnReplyUntilFailure, Stages, Waiting
<1> QED BY <1>1, <1>2, <1>3, <1>4, <1>5

\* Until a wait runs out, the one wake-up follows the reply.
LEMMA WakeStep == ASSUME NEW t \in Senders, MailboxIInv, Wake(t) PROVE MailboxIInv'
<1> USE DEF MailboxIInv, Wake, deviceVars, histVars
<1>1. MailboxTypes'
  BY DEF MailboxTypes, Stages, Waiting
<1>2. OneSender'
  BY DEF MailboxTypes, OneSender, Stages, Waiting
<1>3. failed' = {} => InStep'
  BY DEF MailboxTypes, OneSender, InStep, NoReply, OnlyReply, Stages, Waiting
<1>4. ~expired' => WakesMatch'
  BY DEF MailboxTypes, OneSender, WakesMatch, Silent, Stages, Waiting
<1>5. OwnReplyUntilFailure'
  BY DEF MailboxTypes, OneSender, InStep, WakesMatch, OwnReplyUntilFailure, Stages, Waiting
<1> QED BY <1>1, <1>2, <1>3, <1>4, <1>5

\* The one step that ends the match of waits and wake-ups.
LEMMA ExpireStep == ASSUME NEW t \in Senders, MailboxIInv, Expire(t) PROVE MailboxIInv'
<1> USE DEF MailboxIInv, Expire, deviceVars, histVars
<1>1. MailboxTypes'
  BY DEF MailboxTypes, Stages, Waiting
<1>2. OneSender'
  BY DEF MailboxTypes, OneSender, Stages, Waiting
<1>3. failed' = {} => InStep'
  BY DEF MailboxTypes, OneSender, InStep, NoReply, OnlyReply, Stages, Waiting
<1>4. ~expired' => WakesMatch'
  BY DEF MailboxTypes, OneSender, WakesMatch, Silent, Stages, Waiting
<1>5. OwnReplyUntilFailure'
  BY DEF MailboxTypes, OneSender, InStep, WakesMatch, OwnReplyUntilFailure, Stages, Waiting
<1> QED BY <1>1, <1>2, <1>3, <1>4, <1>5

\* The status decides, and it is 2 as long as no wait has run out.
LEMMA CheckStatusStep == ASSUME NEW t \in Senders, MailboxIInv, CheckStatus(t) PROVE MailboxIInv'
<1> USE DEF MailboxIInv, CheckStatus, deviceVars, histVars
<1>1. MailboxTypes'
  BY DEF MailboxTypes, Stages, Waiting
<1>2. OneSender'
  BY DEF MailboxTypes, OneSender, Stages, Waiting
<1>3. failed' = {} => InStep'
  BY DEF MailboxTypes, OneSender, InStep, NoReply, OnlyReply, Stages, Waiting
<1>4. ~expired' => WakesMatch'
  BY DEF MailboxTypes, OneSender, WakesMatch, Silent, Stages, Waiting
<1>5. OwnReplyUntilFailure'
  BY DEF MailboxTypes, OneSender, InStep, WakesMatch, OwnReplyUntilFailure, Stages, Waiting
<1> QED BY <1>1, <1>2, <1>3, <1>4, <1>5

\* The one step that fails a call, and only after a wait has run out.
LEMMA GiveUpStep == ASSUME NEW t \in Senders, MailboxIInv, GiveUp(t) PROVE MailboxIInv'
<1> USE DEF MailboxIInv, GiveUp, deviceVars, histVars
<1>1. MailboxTypes'
  <2>1. mine[t] \in Nat
    BY DEF MailboxTypes
  <2>2. expired' \in BOOLEAN
    BY Zenon DEF MailboxTypes
  <2>3. failed' \subseteq Nat
    BY <2>1 DEF MailboxTypes
  <2> QED BY <2>2, <2>3 DEF MailboxTypes, Stages, Waiting
<1>2. OneSender'
  BY DEF MailboxTypes, OneSender, Stages, Waiting
<1>3. failed' = {} => InStep'
  BY DEF MailboxTypes, OneSender, InStep, NoReply, OnlyReply, Stages, Waiting
<1>4. ~expired' => WakesMatch'
  BY DEF MailboxTypes, OneSender, WakesMatch, Silent, Stages, Waiting
<1>5. OwnReplyUntilFailure'
  BY DEF MailboxTypes, OneSender, InStep, WakesMatch, OwnReplyUntilFailure, Stages, Waiting
<1> QED BY <1>1, <1>2, <1>3, <1>4, <1>5

\* The stored reply is the last message's, which is the reader's.
LEMMA ReadResultStep == ASSUME NEW t \in Senders, MailboxIInv, ReadResult(t) PROVE MailboxIInv'
<1> USE DEF MailboxIInv, ReadResult, deviceVars, histVars
<1>1. MailboxTypes'
  BY DEF MailboxTypes, Stages, Waiting
<1>2. OneSender'
  BY DEF MailboxTypes, OneSender, Stages, Waiting
<1>3. failed' = {} => InStep'
  BY DEF MailboxTypes, OneSender, InStep, NoReply, OnlyReply, Stages, Waiting
<1>4. ~expired' => WakesMatch'
  BY DEF MailboxTypes, OneSender, WakesMatch, Silent, Stages, Waiting
<1>5. OwnReplyUntilFailure'
  BY DEF MailboxTypes, OneSender, InStep, WakesMatch, OwnReplyUntilFailure, Stages, Waiting
<1> QED BY <1>1, <1>2, <1>3, <1>4, <1>5

\* The mailbox is given back with nothing on its way.
LEMMA ReleaseStep == ASSUME NEW t \in Senders, MailboxIInv, Release(t) PROVE MailboxIInv'
<1> USE DEF MailboxIInv, Release, deviceVars, histVars
<1>1. MailboxTypes'
  BY DEF MailboxTypes, Stages, Waiting
<1>2. OneSender'
  BY DEF MailboxTypes, OneSender, Stages, Waiting
<1>3. failed' = {} => InStep'
  BY DEF MailboxTypes, OneSender, InStep, NoReply, OnlyReply, Stages, Waiting
<1>4. ~expired' => WakesMatch'
  BY DEF MailboxTypes, OneSender, WakesMatch, Silent, Stages, Waiting
<1>5. OwnReplyUntilFailure'
  BY DEF MailboxTypes, OneSender, InStep, WakesMatch, OwnReplyUntilFailure, Stages, Waiting
<1> QED BY <1>1, <1>2, <1>3, <1>4, <1>5

\* The only reply due moves to the FIFO.
LEMMA DeviceReplyStep == ASSUME NEW m \in pending, MailboxIInv, DeviceReply(m) PROVE MailboxIInv'
<1> USE DEF MailboxIInv, DeviceReply, senderVars, deviceVars, histVars
<1>1. MailboxTypes'
  BY DEF MailboxTypes, Stages, Waiting
<1>2. OneSender'
  BY DEF MailboxTypes, OneSender, Stages, Waiting
<1>3. failed' = {} => InStep'
  <2> SUFFICES ASSUME failed = {} PROVE InStep'
    OBVIOUS
  <2>1. mbStatus # 0
    BY DEF InStep, NoReply
  <2>2. ASSUME NEW t \in Senders, stage[t] # "idle"
        PROVE stage[t] \in Waiting /\ mbStatus = 1 /\ mine[t] = sent
    BY <2>2 DEF MailboxTypes, OneSender, InStep, NoReply, Stages, Waiting
  <2>3. ASSUME NEW t \in Senders, stage[t] # "idle" PROVE OnlyReply'
    <3>1. m = sent /\ pending = {sent} /\ fifo = <<>> /\ irqPc # "got"
      BY <2>2, <2>3 DEF InStep, OnlyReply
    <3>2. Append(<<>>, sent) = <<sent>>
      BY DEF MailboxTypes
    <3> QED BY <3>1, <3>2 DEF OnlyReply
  <2> QED BY <2>1, <2>2, <2>3 DEF InStep, OneSender, Waiting
<1>4. ~expired' => WakesMatch'
  BY DEF MailboxTypes, OneSender, WakesMatch, Silent, Stages, Waiting
<1>5. OwnReplyUntilFailure'
  BY DEF OwnReplyUntilFailure
<1> QED BY <1>1, <1>2, <1>3, <1>4, <1>5

\* What the handler keeps of a FIFO that is not empty.
LEMMA LastOfReplies ==
  /\ \A f \in Seq(Nat) : f # <<>> => Last(f) \in Nat
  /\ \A m \in Nat : Last(<<m>>) = m
  BY DEF Last

\* The handler keeps the last reply of the FIFO: there is no other.
LEMMA RetrieveStep == ASSUME MailboxIInv, Retrieve PROVE MailboxIInv'
<1> USE DEF MailboxIInv, Retrieve, senderVars, deviceVars, histVars
<1>1. MailboxTypes'
  <2>1. mbResult' \in Nat
    BY LastOfReplies DEF MailboxTypes
  <2>2. fifo' \in Seq(Nat)
    <3>1. <<>> \in Seq(Nat)
      OBVIOUS
    <3> QED BY <3>1 DEF MailboxTypes
  <2>3. irqPc' \in {"idle", "got", "complete"}
    BY DEF MailboxTypes
  <2>4. expired' \in BOOLEAN
    BY Zenon DEF MailboxTypes
  <2> QED BY <2>1, <2>2, <2>3, <2>4 DEF MailboxTypes
<1>2. OneSender'
  BY DEF MailboxTypes, OneSender, Stages, Waiting
<1>3. failed' = {} => InStep'
  <2> SUFFICES ASSUME failed = {} PROVE InStep'
    OBVIOUS
  <2>1. CASE fifo = <<>>
    BY <2>1 DEF InStep, NoReply, OnlyReply, OneSender
  <2>2. CASE fifo # <<>>
    <3>1. ASSUME NEW t \in Senders, stage[t] # "idle"
          PROVE stage[t] \in Waiting /\ mbStatus = 1 /\ pending = {} /\ fifo = <<sent>>
      BY <2>2, <3>1 DEF MailboxTypes, OneSender, InStep, NoReply, OnlyReply, Stages, Waiting
    <3>2. fifo = <<sent>> => mbResult' = sent
      BY <2>2, LastOfReplies DEF MailboxTypes
    <3>3. mbStatus # 0
      BY <2>2 DEF InStep, NoReply
    <3> QED BY <2>2, <3>1, <3>2, <3>3 DEF InStep, OnlyReply, OneSender, Waiting
  <2> QED BY <2>1, <2>2
<1>4. ~expired' => WakesMatch'
  BY DEF MailboxTypes, OneSender, WakesMatch, Silent, Stages, Waiting
<1>5. OwnReplyUntilFailure'
  BY DEF OwnReplyUntilFailure
<1> QED BY <1>1, <1>2, <1>3, <1>4, <1>5

\* The reply of the active message is marked, any other is dropped.
LEMMA MarkReplyStep == ASSUME MailboxIInv, MarkReply PROVE MailboxIInv'
<1> USE DEF MailboxIInv, MarkReply, senderVars, deviceVars, histVars
<1>1. MailboxTypes'
  BY DEF MailboxTypes, Stages, Waiting
<1>2. OneSender'
  BY DEF MailboxTypes, OneSender, Stages, Waiting
<1>3. failed' = {} => InStep'
  BY DEF MailboxTypes, OneSender, InStep, NoReply, OnlyReply, Stages, Waiting
<1>4. ~expired' => WakesMatch'
  <2> SUFFICES ASSUME ~expired PROVE WakesMatch'
    BY Zenon
  <2>1. CASE mbStatus # 1
    BY <2>1 DEF MailboxTypes, OneSender, WakesMatch, Silent
  <2>2. CASE mbStatus = 1
    <3>1. mbStatus' = 2 /\ irqPc' = "complete"
      BY <2>2
    <3>2. ASSUME NEW t \in Senders, stage[t] # "idle"
          PROVE stage[t] = "wait" /\ completion = 0
      <4>1. stage[t] \notin {"reinit", "post"}
        BY <2>2, <3>2 DEF OwnReplyUntilFailure, InStep, NoReply
      <4>2. stage[t] \notin {"check", "giveUp", "read", "release"}
        BY <2>2, <3>2 DEF OneSender, WakesMatch
      <4> QED BY <2>2, <3>2, <4>1, <4>2 DEF MailboxTypes, WakesMatch, Silent, Stages, Waiting
    <3> QED BY <3>1, <3>2 DEF WakesMatch, Silent
  <2> QED BY <2>1, <2>2
<1>5. OwnReplyUntilFailure'
  BY DEF OwnReplyUntilFailure
<1> QED BY <1>1, <1>2, <1>3, <1>4, <1>5

\* The waiting sender is woken.
LEMMA CompleteStep == ASSUME MailboxIInv, Complete PROVE MailboxIInv'
<1> USE DEF MailboxIInv, Complete, senderVars, deviceVars, histVars
<1>1. MailboxTypes'
  BY DEF MailboxTypes, Stages, Waiting
<1>2. OneSender'
  BY DEF MailboxTypes, OneSender, Stages, Waiting
<1>3. failed' = {} => InStep'
  BY DEF MailboxTypes, OneSender, InStep, NoReply, OnlyReply, Stages, Waiting
<1>4. ~expired' => WakesMatch'
  BY DEF MailboxTypes, OneSender, WakesMatch, Silent, Stages, Waiting
<1>5. OwnReplyUntilFailure'
  BY DEF OwnReplyUntilFailure
<1> QED BY <1>1, <1>2, <1>3, <1>4, <1>5

\* Each step keeps the inductive invariant.
LEMMA MailboxNextIInv == MailboxIInv /\ [MailboxNext]_mailboxVars => MailboxIInv'
<1> SUFFICES ASSUME MailboxIInv, [MailboxNext]_mailboxVars PROVE MailboxIInv'
  OBVIOUS
<1>1. ASSUME NEW t \in Senders, Send(t) PROVE MailboxIInv'
  BY <1>1, ClaimStep, RefuseStep, ReinitStep, PostStep, WakeStep, ExpireStep,
     CheckStatusStep, GiveUpStep, ReadResultStep, ReleaseStep DEF Send
<1>2. ASSUME NEW m \in pending, DeviceReply(m) PROVE MailboxIInv'
  BY <1>2, DeviceReplyStep
<1>3. CASE HandleInterrupt
  BY <1>3, RetrieveStep, MarkReplyStep, CompleteStep DEF HandleInterrupt
<1>4. CASE UNCHANGED mailboxVars
  BY <1>4 DEF mailboxVars, senderVars, deviceVars, histVars, MailboxIInv, MailboxTypes, OneSender, InStep,
              NoReply, OnlyReply, WakesMatch, Silent, OwnReplyUntilFailure
<1> QED BY <1>1, <1>2, <1>3, <1>4 DEF MailboxNext, Quiescent

\* A zeroed mailbox is free, with nothing on its way.
LEMMA MailboxInitIInv == MailboxInit => MailboxIInv
<1> SUFFICES ASSUME MailboxInit PROVE MailboxIInv
  OBVIOUS
<1> USE DEF MailboxInit, NoMessage
<1>1. MailboxTypes
  <2>1. expired \in BOOLEAN
    BY Zenon
  <2> QED BY <2>1 DEF MailboxTypes, Stages, Waiting
<1>2. OneSender
  BY DEF OneSender
<1>3. InStep
  BY DEF InStep, NoReply, Waiting
<1>4. WakesMatch
  BY DEF WakesMatch, Silent
<1>5. OwnReplyUntilFailure
  BY DEF OwnReplyUntilFailure
<1> QED BY <1>1, <1>2, <1>3, <1>4, <1>5 DEF MailboxIInv

LEMMA MailboxInvariant == MailboxSpec => []MailboxIInv
  BY MailboxInitIInv, MailboxNextIInv, PTL DEF MailboxSpec

\* However many threads send, and although no reply says which message it answers:
\* until some call has given up, every call that succeeds has the reply to its own
\* message, and no call gives up before some wait has run to its timeout.
THEOREM RepliesAreOwnUntilFailure == MailboxSpec => []OwnReplyUntilFailure
<1>1. MailboxIInv => OwnReplyUntilFailure
  BY DEF MailboxIInv
<1> QED BY <1>1, MailboxInvariant, PTL

-----------------------------------------------------------------------------
(* The timestamp service.                                                  *)

TimerTypes ==
    /\ armed \in BOOLEAN
    /\ handler \in {"idle", "write", "rearm"}
    /\ stopped \in BOOLEAN
    /\ reg \in {"none", "initial", "again", "time", "stop"}
    /\ tsPc \in {"idle", "stop", "delete", "tellStop", "startInitial", "startAgain", "clear",
                 "arm"}

\* The stages of a stop: once timer_delete_sync has returned nothing arms the
\* timer again, because its handler would have seen the flag. A start that follows
\* finds it like that until it clears the flag.
StopStages ==
    /\ tsPc \in {"delete", "tellStop"} => stopped
    /\ tsPc = "tellStop" => ~armed /\ handler = "idle"
    /\ tsPc \in {"startInitial", "startAgain", "clear"} /\ stopped =>
          ~armed /\ handler = "idle"
    /\ tsPc = "arm" => ~stopped

TimerInv ==
    /\ TimerTypes
    /\ StopStages
    /\ StopIsFinal
    /\ SyncKeepsGoing

\* What the PM thread does to the service: it begins a call, or it leaves it alone.
TimestampBegin ==
    /\ tsPc = "idle"
    /\ tsPc' \in {"idle", "stop", "startInitial", "startAgain"}
    /\ UNCHANGED <<timerVars, stopped, reg>>

\* The PM core makes one call at a time.
LEMMA PmBegins == PmThread => TimestampBegin \/ UNCHANGED tsVars
  BY DEF PmThread, TimestampBegin, At, tsVars, Suspend, SaveAlloc, SaveGiveUp, SaveMisaligned,
         SaveComplete, SaveRefused, SaveLost, SleepNoState, SleepNoStateLost, SuspendFails,
         ResumeNoLink, ResumeRestored, EnableIrq, ResumeLost, Probe, PciRemove

\* Every step of the timer, of a call and of the PM thread keeps the invariant.
LEMMA TimerStep == TimerInv /\ [PowerNext]_powerVars => TimerInv'
<1> SUFFICES ASSUME TimerInv, [PowerNext]_powerVars PROVE TimerInv'
  OBVIOUS
<1> USE DEF TimerInv, TimerTypes, StopStages, StopIsFinal, SyncKeepsGoing
<1>1. CASE UNCHANGED tsVars
  BY <1>1 DEF tsVars, timerVars
<1>2. CASE TimestampBegin
  BY <1>2 DEF TimestampBegin, timerVars
<1>3. CASE TimerHandler
  <2>1. CASE TimerFires
    BY <2>1 DEF TimerFires
  <2>2. CASE WriteTime
    BY <2>2 DEF WriteTime
  <2>3. CASE Rearm
    BY <2>3 DEF Rearm
  <2> QED BY <1>3, <2>1, <2>2, <2>3 DEF TimerHandler
<1>4. CASE TimestampCall
  <2>1. CASE StopMark
    BY <2>1 DEF StopMark, timerVars
  <2>2. CASE StopDelete
    BY <2>2 DEF StopDelete
  <2>3. CASE StopWrite
    BY <2>3 DEF StopWrite, timerVars
  <2>4. CASE StartWrite
    BY <2>4 DEF StartWrite, timerVars
  <2>5. CASE StartClear
    BY <2>5 DEF StartClear, timerVars
  <2>6. CASE StartArm
    BY <2>6 DEF StartArm, timerVars
  <2> QED BY <1>4, <2>1, <2>2, <2>3, <2>4, <2>5, <2>6 DEF TimestampCall
<1> QED BY <1>1, <1>2, <1>3, <1>4, PmBegins DEF PowerNext, Gone, powerVars

LEMMA TimerInvariant == PowerSpec => []TimerInv
<1>1. PowerInit => TimerInv
  BY DEF PowerInit, TimestampInit, TimerInv, TimerTypes, StopStages, StopIsFinal, SyncKeepsGoing
<1> QED BY <1>1, TimerStep, PTL DEF PowerSpec

\* After bce_timestamp_stop has returned the timer neither is pending nor has a
\* handler that runs, however the stop met it: remove may unmap the registers.
THEOREM TimerIsDead == PowerSpec => []StopIsFinal
<1>1. TimerInv => StopIsFinal
  BY DEF TimerInv
<1> QED BY <1>1, TimerInvariant, PTL

\* After bce_timestamp_start has returned the timer lives until the next stop, also
\* when the start follows a stop in whose course the handler was running.
THEOREM TimerIsAlive == PowerSpec => []SyncKeepsGoing
<1>1. TimerInv => SyncKeepsGoing
  BY DEF TimerInv
<1> QED BY <1>1, TimerInvariant, PTL

-----------------------------------------------------------------------------
(* The state buffers.                                                      *)

Places == {"new", "running", "save", "send", "sleepNoState", "suspendFailed", "asleep",
           "enableIrq", "gone"}

BufferTypes ==
    /\ pm \in Places
    /\ attempt \in Nat /\ allocs \in Nat
    /\ buffer \in 0..allocs /\ saved \in 0..allocs /\ t2Buffer \in 0..allocs
    /\ live \subseteq 1..allocs
    /\ t2 \in {"awake", "asleepState", "asleepNoState"}
    /\ lost \in BOOLEAN /\ skipped \in BOOLEAN

\* A buffer is on offer exactly while a save message is out, and it is neither the
\* saved one nor the T2's.
OfferedBuffer ==
    /\ pm = "send" => buffer \in live
    /\ pm # "send" => buffer = NoBuffer
    /\ buffer # NoBuffer => buffer # saved /\ (~lost => buffer # t2Buffer)

\* Unless a resume gave up, the saved buffer is kept exactly for the sleep, and the
\* T2 is awake when the system is.
AwakeAndEmpty ==
    /\ pm # "asleep" /\ ~skipped => saved = NoBuffer
    /\ pm # "asleep" /\ ~skipped /\ ~lost => t2 = "awake"

BufferInv ==
    /\ BufferTypes
    /\ OfferedBuffer
    /\ AwakeAndEmpty
    /\ NoBufferLeak

\* Every step keeps the books of the buffers.
LEMMA BufferStep == BufferInv /\ [PowerNext]_powerVars => BufferInv'
<1> SUFFICES ASSUME BufferInv, [PowerNext]_powerVars PROVE BufferInv'
  OBVIOUS
<1> USE DEF BufferInv, BufferTypes, OfferedBuffer, AwakeAndEmpty, NoBufferLeak, Places,
            NoBuffer, At
<1>1. CASE UNCHANGED pmVars
  BY <1>1 DEF pmVars, bufVars, t2Vars
<1>2. CASE PmThread
  <2>1. CASE Suspend
    BY <2>1 DEF Suspend, t2Vars
  <2>2. CASE SaveAlloc
    BY <2>2 DEF SaveAlloc, t2Vars
  <2>3. CASE SaveMisaligned
    BY <2>3 DEF SaveMisaligned, t2Vars
  <2>4. CASE SaveComplete
    BY <2>4 DEF SaveComplete
  <2>5. CASE SaveLost
    BY <2>5 DEF SaveLost
  <2>6. CASE SleepNoState
    BY <2>6 DEF SleepNoState, bufVars
  <2>7. CASE SleepNoStateLost
    BY <2>7 DEF SleepNoStateLost, bufVars
  <2>8. CASE ResumeNoLink
    BY <2>8 DEF ResumeNoLink, bufVars, t2Vars
  <2>9. CASE ResumeRestored
    BY <2>9 DEF ResumeRestored, ReleaseSaved
  <2>10. CASE ResumeLost
    BY <2>10 DEF ResumeLost, ReleaseSaved
  <2>11. CASE SaveRefused
    BY <2>11 DEF SaveRefused, t2Vars
  <2>12. CASE SaveGiveUp
    BY <2>12 DEF SaveGiveUp, bufVars, t2Vars
  <2>13. CASE SuspendFails
    BY <2>13 DEF SuspendFails, bufVars, t2Vars
  <2>14. CASE EnableIrq
    BY <2>14 DEF EnableIrq, bufVars, t2Vars
  <2>15. CASE Probe
    BY <2>15 DEF Probe, bufVars, t2Vars
  <2>16. CASE PciRemove
    BY <2>16 DEF PciRemove, bufVars, t2Vars
  <2> QED BY <1>2, <2>1, <2>2, <2>3, <2>4, <2>5, <2>6, <2>7, <2>8, <2>9, <2>10, <2>11,
             <2>12, <2>13, <2>14, <2>15, <2>16 DEF PmThread
<1> QED BY <1>1, <1>2 DEF PowerNext, Gone, powerVars

LEMMA BufferInvariant == PowerSpec => []BufferInv
<1>1. ASSUME PowerInit PROVE BufferInv
  <2>1. pm \in Places /\ t2 \in {"awake", "asleepState", "asleepNoState"}
    BY <1>1 DEF PowerInit, Places
  <2>2. lost \in BOOLEAN /\ skipped \in BOOLEAN
    BY <1>1, Zenon DEF PowerInit
  <2>3. OfferedBuffer /\ AwakeAndEmpty /\ NoBufferLeak
    BY <1>1 DEF PowerInit, OfferedBuffer, AwakeAndEmpty, NoBufferLeak, NoBuffer
  <2> QED BY <1>1, <2>1, <2>2, <2>3 DEF PowerInit, BufferInv, BufferTypes, NoBuffer
<1> QED BY <1>1, BufferStep, PTL DEF PowerSpec

\* For any number of suspends, refusals and lost replies: no state buffer is
\* forgotten and none is freed under the T2, but for the cases that NoBufferLeak names.
THEOREM BuffersAreKept == PowerSpec => []NoBufferLeak
<1>1. BufferInv => NoBufferLeak
  BY DEF BufferInv
<1> QED BY <1>1, BufferInvariant, PTL

-----------------------------------------------------------------------------
(* The command queue: ring arithmetic.                                     *)

\* The index after i, without the remainder, and what a step does to distances.
LEMMA RingSucc ==
    ASSUME NEW a \in Slots, NEW b \in Slots
    PROVE  /\ Succ(b) \in Slots
           /\ Dist(a, b) \in 0..(ElCount - 1)
           /\ Dist(a, a) = 0
           /\ Dist(a, b) < ElCount - 1 => Dist(a, Succ(b)) = Dist(a, b) + 1
<1>1. Succ(b) = IF b = ElCount - 1 THEN 0 ELSE b + 1
  <2>1. CASE b = ElCount - 1
    BY <2>1, CommandQueueAssumption DEF Succ, Slots
  <2>2. CASE b # ElCount - 1
    BY <2>2, CommandQueueAssumption DEF Succ, Slots
  <2> QED BY <2>1, <2>2
<1> QED BY <1>1, CommandQueueAssumption DEF Slots, Dist

\* Distances along the ring add up.
LEMMA RingSplit ==
    ASSUME NEW a \in Slots, NEW b \in Slots, NEW c \in Slots
    PROVE  /\ Dist(a, b) <= Dist(a, c) => Dist(b, c) = Dist(a, c) - Dist(a, b)
           /\ Dist(a, b) = Dist(a, c) => b = c
  BY CommandQueueAssumption DEF Slots, Dist

-----------------------------------------------------------------------------
(* The inductive invariant.                                                *)

Entries == Threads \cup {NoThread}

TypeInv ==
    /\ available \in Int
    /\ head \in Slots /\ tail \in Slots /\ ctail \in Slots
    /\ tres \in [Slots -> Entries]
    /\ slot \in [Threads -> Slots]
    /\ command \in [Slots -> Entries \X Nat]
    /\ cmplStatus \in [Slots -> Statuses]
    /\ pc \in [Threads -> {"idle", "reserved", "waiting", "timedOut"}]
    /\ call \in [Threads -> Nat]
    /\ done \in [Threads -> BOOLEAN]
    /\ result \in [Threads -> [call : Entries \X Nat, status : Statuses]]
    /\ ret \in [Threads -> {"none", "success", "EIO", "ETIMEDOUT"}]

\* Callers between bce_reserve_submission and bce_next_submission.
Reserving == {t \in Threads : pc[t] = "reserved"}

\* Free, reserved and submitted slots make up the ring, so that a submission
\* does not reach a slot that is in flight.
Capacity ==
    /\ available >= 0
    /\ available + Cardinality(Reserving) + Dist(head, tail) = ElCount - 1
    /\ Dist(head, ctail) <= Dist(head, tail)

\* What the device said about a harvested slot is what was done with the
\* command that is in it.
HarvestIsTrue ==
    \A s \in Slots : Dist(head, s) < Dist(head, ctail) =>
        <<command[s], cmplStatus[s]>> \in outcome

\* A completed element holds what was done with its command; one that has not
\* been submitted is not completed.
ResultIsTrue ==
    \A t \in Threads :
        /\ pc[t] = "reserved" => ~done[t]
        /\ pc[t] \in {"waiting", "timedOut"} /\ done[t] =>
              <<ThisCall(t), result[t].status>> \in outcome

IInv ==
    /\ TypeInv
    /\ Capacity
    /\ HarvestIsTrue
    /\ ResultIsTrue
    /\ NoDanglingResult
    /\ OwnResult

\* bce_alloc_cmdq establishes the invariant.
LEMMA InitIInv == Init => IInv
<1> SUFFICES ASSUME Init PROVE IInv
  OBVIOUS
<1>1. TypeInv
  <2>1. /\ available \in Int /\ head \in Slots /\ tail \in Slots /\ ctail \in Slots
        /\ slot \in [Threads -> Slots]
    BY CommandQueueAssumption DEF Init, Slots
  <2>2. /\ tres \in [Slots -> Entries] /\ cmplStatus \in [Slots -> Statuses]
        /\ pc \in [Threads -> {"idle", "reserved", "waiting", "timedOut"}]
        /\ done \in [Threads -> BOOLEAN]
    BY Zenon DEF Init, Entries, Statuses
  <2>3. /\ command \in [Slots -> Entries \X Nat] /\ call \in [Threads -> Nat]
        /\ result \in [Threads -> [call : Entries \X Nat, status : Statuses]]
        /\ ret \in [Threads -> {"none", "success", "EIO", "ETIMEDOUT"}]
    BY DEF Init, Entries, Statuses
  <2> QED BY <2>1, <2>2, <2>3 DEF TypeInv
<1>2. Capacity
  <2>1. Reserving = {}
    BY DEF Init, Reserving
  <2>2. Cardinality(Reserving) = 0
    BY <2>1, FS_EmptySet
  <2> QED BY <2>2, CommandQueueAssumption DEF Init, Capacity, Dist
<1>3. HarvestIsTrue
  BY CommandQueueAssumption DEF Init, HarvestIsTrue, Dist, Slots
<1>4. ResultIsTrue /\ NoDanglingResult /\ OwnResult
  BY DEF Init, ResultIsTrue, NoDanglingResult, OwnResult
<1> QED BY <1>1, <1>2, <1>3, <1>4 DEF IInv

-----------------------------------------------------------------------------
(* NoDanglingResult in terms of a slot and the thread in its entry.        *)

\* What it says of the thread u whose element is entered for slot s.
Awaits(s, u) ==
    /\ pc[u] \in {"waiting", "timedOut"}
    /\ slot[u] = s
    /\ ~done[u]
    /\ command[s] = <<u, call[u]>>
    /\ Dist(head, s) < Dist(head, tail)

\* How it is used ...
LEMMA EntryAwaits ==
    ASSUME NoDanglingResult, NEW s \in Slots, NEW u \in Threads, tres[s] = u
    PROVE  Awaits(s, u)
  BY CommandQueueAssumption DEF NoDanglingResult, Awaits, ThisCall

\* ... and how it is shown of the next state.
LEMMA AwaitsNext ==
    ASSUME TypeInv', \A s \in Slots, u \in Threads : tres'[s] = u => Awaits(s, u)'
    PROVE  NoDanglingResult'
<1> SUFFICES ASSUME NEW s \in Slots, tres'[s] # NoThread
             PROVE  /\ pc'[tres'[s]] \in {"waiting", "timedOut"}
                    /\ slot'[tres'[s]] = s
                    /\ ~done'[tres'[s]]
                    /\ command'[s] = <<tres'[s], call'[tres'[s]]>>
                    /\ Dist(head', s) < Dist(head', tail')
  BY DEF NoDanglingResult, ThisCall, Dist
<1>1. tres'[s] \in Threads
  BY DEF TypeInv, Entries
<1>2. PICK u \in Threads : u = tres'[s]
  BY <1>1
<1>3. Awaits(s, u)'
  BY <1>2
<1> QED BY <1>2, <1>3 DEF Awaits, Dist

-----------------------------------------------------------------------------
(* One lemma per action.                                                   *)

\* The callers that hold a reservation are finitely many.
LEMMA ReservingFinite == IsFiniteSet(Reserving) /\ Cardinality(Reserving) \in Nat
  BY CommandQueueAssumption, FS_Subset, FS_CardinalityType DEF Reserving

\* bce_cmd_start with a slot: the reservation takes it from available_commands.
LEMMA StartReserveStep ==
    ASSUME IInv, NEW t \in Threads, StartReserve(t)
    PROVE  IInv'
<1> USE DEF IInv
<1>1. TypeInv'
  BY DEF TypeInv, StartReserve
<1>2. Capacity'
  <2>1. t \notin Reserving /\ Reserving' = Reserving \cup {t}
    BY DEF StartReserve, Reserving, TypeInv
  <2>2. Cardinality(Reserving') = Cardinality(Reserving) + 1
    BY <2>1, ReservingFinite, FS_AddElement
  <2>3. Dist(head, tail) \in Int
    BY RingSucc, CommandQueueAssumption DEF TypeInv
  <2> QED BY <2>2, <2>3, ReservingFinite, CommandQueueAssumption
          DEF StartReserve, Capacity, TypeInv, Dist
<1>3. HarvestIsTrue'
  BY DEF StartReserve, HarvestIsTrue, Dist
<1>4. ResultIsTrue'
  BY DEF StartReserve, ResultIsTrue, ThisCall, TypeInv
<1>5. NoDanglingResult'
  <2> SUFFICES ASSUME NEW s \in Slots, NEW u \in Threads, tres'[s] = u
               PROVE  Awaits(s, u)'
    BY <1>1, AwaitsNext
  <2>1. Awaits(s, u)
    BY EntryAwaits DEF StartReserve
  <2> QED BY <2>1 DEF StartReserve, Awaits, TypeInv, Dist
<1>6. OwnResult'
  BY DEF StartReserve, OwnResult, ThisCall, TypeInv
<1> QED BY <1>1, <1>2, <1>3, <1>4, <1>5, <1>6

\* bce_cmd_start without one.
LEMMA StartTimeoutStep ==
    ASSUME IInv, NEW t \in Threads, StartTimeout(t)
    PROVE  IInv'
<1> USE DEF IInv
<1>1. TypeInv'
  BY DEF TypeInv, StartTimeout, sqVars
<1>2. Capacity' /\ HarvestIsTrue'
  <2>1. Reserving' = Reserving
    BY DEF StartTimeout, Reserving
  <2> QED BY <2>1 DEF StartTimeout, sqVars, Capacity, HarvestIsTrue, Dist
<1>4. ResultIsTrue'
  BY DEF StartTimeout, ResultIsTrue, ThisCall, TypeInv
<1>5. NoDanglingResult'
  <2> SUFFICES ASSUME NEW s \in Slots, NEW u \in Threads, tres'[s] = u
               PROVE  Awaits(s, u)'
    BY <1>1, AwaitsNext
  <2>1. Awaits(s, u)
    BY EntryAwaits DEF StartTimeout
  <2> QED BY <2>1 DEF StartTimeout, sqVars, Awaits, TypeInv, Dist
<1>6. OwnResult'
  BY DEF StartTimeout, OwnResult, ThisCall, TypeInv
<1> QED BY <1>1, <1>2, <1>4, <1>5, <1>6

\* The submission: the slot at tail is not in flight, because the reservation
\* keeps one free.
LEMMA SubmitStep ==
    ASSUME IInv, NEW t \in Threads, Submit(t)
    PROVE  IInv'
<1> USE DEF IInv
<1>0. /\ tail \in Slots /\ head \in Slots /\ ctail \in Slots
      /\ Dist(head, tail) \in 0..(ElCount - 1) /\ Succ(tail) \in Slots
  BY RingSucc DEF TypeInv
<1>1. TypeInv'
  <2>1. ThisCall(t) \in Entries \X Nat
    BY DEF ThisCall, TypeInv, Entries
  <2> QED BY <1>0, <2>1 DEF TypeInv, Submit, Entries
<1>2. t \in Reserving /\ Reserving' = Reserving \ {t}
  BY DEF Submit, Reserving, TypeInv
<1>3. /\ Cardinality(Reserving') = Cardinality(Reserving) - 1
      /\ Cardinality(Reserving) > 0
  <2>1. Cardinality(Reserving') = Cardinality(Reserving) - 1
    BY <1>2, ReservingFinite, FS_RemoveElement
  <2>2. IsFiniteSet(Reserving') /\ Cardinality(Reserving') \in Nat
    BY <1>2, ReservingFinite, FS_Subset, FS_CardinalityType
  <2> QED BY <2>1, <2>2, ReservingFinite
<1>4. Dist(head, tail) < ElCount - 1
  BY <1>0, <1>3, ReservingFinite, CommandQueueAssumption DEF Capacity, TypeInv
<1>5. Dist(head, Succ(tail)) = Dist(head, tail) + 1
  BY <1>0, <1>4, RingSucc
<1>6. /\ head' = head /\ ctail' = ctail /\ tail' = Succ(tail) /\ available' = available
      /\ outcome' = outcome /\ cmplStatus' = cmplStatus
  BY DEF Submit
<1>7. Capacity'
  <2>1. Dist(head, ctail) \in Int
    BY <1>0, RingSucc
  <2>2. Dist(head', tail') = Dist(head, tail) + 1 /\ Dist(head', ctail') = Dist(head, ctail)
    BY <1>5, <1>6
  <2>3. /\ available \in Int /\ available >= 0
        /\ available + Cardinality(Reserving) + Dist(head, tail) = ElCount - 1
        /\ Dist(head, ctail) <= Dist(head, tail)
    BY DEF Capacity, TypeInv
  <2>4. /\ available' >= 0
        /\ available' + Cardinality(Reserving') + Dist(head', tail') = ElCount - 1
        /\ Dist(head', ctail') <= Dist(head', tail')
    BY <1>0, <1>3, <1>6, <2>1, <2>2, <2>3, ReservingFinite, CommandQueueAssumption
  <2> QED BY <2>4 DEF Capacity
<1>8. HarvestIsTrue'
  <2> SUFFICES ASSUME NEW s \in Slots, Dist(head, s) < Dist(head, ctail)
               PROVE  <<command'[s], cmplStatus[s]>> \in outcome
    BY <1>6 DEF HarvestIsTrue, Dist
  <2>0. Dist(head, s) \in Int /\ Dist(head, ctail) \in Int
    BY <1>0, RingSucc
  <2>1. s # tail
    BY <1>0, <2>0 DEF Capacity
  <2>2. command'[s] = command[s]
    BY <2>1 DEF Submit, TypeInv
  <2> QED BY <2>2 DEF HarvestIsTrue
<1>9. ResultIsTrue'
  BY DEF Submit, ResultIsTrue, ThisCall, TypeInv
<1>10. OwnResult'
  BY DEF Submit, OwnResult, ResultIsTrue, ThisCall, TypeInv
<1>11. NoDanglingResult'
  <2> SUFFICES ASSUME NEW s \in Slots, NEW u \in Threads, tres'[s] = u
               PROVE  Awaits(s, u)'
    BY <1>1, AwaitsNext
  <2>1. CASE s = tail
    <3>1. u = t
      BY <2>1 DEF Submit, TypeInv
    <3>2. ~done[t]
      BY DEF Submit, ResultIsTrue
    <3>3. Dist(head, s)' < Dist(head, tail)'
      BY <1>0, <1>5, <1>6, <2>1 DEF Dist
    <3> QED BY <2>1, <3>1, <3>2, <3>3 DEF Submit, TypeInv, ThisCall, Awaits
  <2>2. CASE s # tail
    <3>1. Awaits(s, u)
      BY <2>2, EntryAwaits DEF Submit, TypeInv
    <3>2. u # t
      BY <3>1 DEF Awaits, Submit
    <3>3. Dist(head, s)' < Dist(head, tail)'
      <4>1. Dist(head, s) < Dist(head, tail) /\ Dist(head, s) \in Int
        BY <1>0, <3>1, RingSucc DEF Awaits
      <4> QED BY <1>0, <1>5, <1>6, <4>1 DEF Dist
    <3> QED BY <2>2, <3>1, <3>2, <3>3 DEF Submit, TypeInv, Awaits
  <2> QED BY <2>1, <2>2
<1> QED BY <1>1, <1>7, <1>8, <1>9, <1>10, <1>11

\* The device and the harvest: one more slot is harvested, and outcome has what
\* was done with its command.
LEMMA DeviceCompleteStep ==
    ASSUME IInv, NEW st \in Statuses, DeviceComplete(st)
    PROVE  IInv'
<1> USE DEF IInv
<1>0. /\ tail \in Slots /\ head \in Slots /\ ctail \in Slots
      /\ Dist(head, tail) \in 0..(ElCount - 1) /\ Dist(head, ctail) \in 0..(ElCount - 1)
      /\ Succ(ctail) \in Slots
  BY RingSucc DEF TypeInv
<1>1. TypeInv'
  BY <1>0 DEF TypeInv, DeviceComplete, resVars
<1>2. /\ head' = head /\ tail' = tail /\ ctail' = Succ(ctail) /\ available' = available
      /\ command' = command /\ pc' = pc /\ done' = done /\ result' = result
      /\ call' = call /\ ret' = ret /\ tres' = tres /\ slot' = slot
      /\ outcome' = outcome \cup {<<command[ctail], st>>}
      /\ cmplStatus' = [cmplStatus EXCEPT ![ctail] = st] /\ ctail # tail
  BY DEF DeviceComplete, resVars
<1>3. Dist(head, ctail) < Dist(head, tail)
  BY <1>0, <1>2, RingSplit DEF Capacity
<1>4. Dist(head, Succ(ctail)) = Dist(head, ctail) + 1
  BY <1>0, <1>3, RingSucc, CommandQueueAssumption
<1>5. Capacity'
  <2>1. Reserving' = Reserving
    BY <1>2 DEF Reserving
  <2>2. Dist(head', ctail') <= Dist(head', tail')
    BY <1>0, <1>2, <1>3, <1>4, CommandQueueAssumption
  <2> QED BY <1>2, <2>1, <2>2 DEF Capacity
<1>6. HarvestIsTrue'
  <2> SUFFICES ASSUME NEW s \in Slots, Dist(head, s) < Dist(head, ctail) + 1
               PROVE  <<command[s], cmplStatus'[s]>> \in outcome'
    BY <1>2, <1>4 DEF HarvestIsTrue
  <2>1. CASE s = ctail
    BY <1>2, <2>1 DEF TypeInv
  <2>2. CASE s # ctail
    <3>1. Dist(head, s) \in Int /\ Dist(head, s) # Dist(head, ctail)
      BY <1>0, <2>2, RingSucc, RingSplit
    <3>2. Dist(head, s) < Dist(head, ctail)
      BY <1>0, <3>1
    <3> QED BY <1>2, <2>2, <3>2 DEF HarvestIsTrue, TypeInv
  <2> QED BY <2>1, <2>2
<1>7. ResultIsTrue'
  BY <1>2 DEF ResultIsTrue, ThisCall
<1>8. OwnResult'
  BY <1>2 DEF OwnResult, ThisCall
<1>9. NoDanglingResult'
  BY <1>2 DEF NoDanglingResult, ThisCall
<1> QED BY <1>1, <1>5, <1>6, <1>7, <1>8, <1>9

\* bce_cmdq_completion: every entry it follows is that of the command in the
\* slot, and the entries it leaves are still ahead of the new head.
LEMMA CmdqCompletionStep ==
    ASSUME IInv, CmdqCompletion
    PROVE  IInv'
<1> USE DEF IInv
<1> DEFINE answered == {s \in Harvested : tres[s] # NoThread}
           woken == {tres[s] : s \in answered}
           SlotOf(t) == CHOOSE s \in answered : tres[s] = t
<1>0. /\ tail \in Slots /\ head \in Slots /\ ctail \in Slots
      /\ Dist(head, tail) \in 0..(ElCount - 1) /\ Dist(head, ctail) \in 0..(ElCount - 1)
  BY RingSucc DEF TypeInv
<1>1. /\ done' = [t \in Threads |-> done[t] \/ t \in woken]
      /\ result' = [t \in Threads |->
            IF t \in woken THEN [call |-> command[SlotOf(t)], status |-> cmplStatus[SlotOf(t)]]
                           ELSE result[t]]
      /\ tres' = [s \in Slots |-> IF s \in Harvested THEN NoThread ELSE tres[s]]
      /\ head' = ctail /\ available' = available + Dist(head, ctail)
      /\ tail' = tail /\ ctail' = ctail /\ command' = command
      /\ cmplStatus' = cmplStatus /\ slot' = slot /\ pc' = pc /\ call' = call
      /\ ret' = ret /\ outcome' = outcome
  BY Zenon DEF CmdqCompletion
<1>2. ASSUME NEW t \in Threads, t \in woken
      PROVE  /\ SlotOf(t) \in Slots /\ SlotOf(t) \in Harvested
             /\ Awaits(SlotOf(t), t)
  <2>1. \E s \in answered : tres[s] = t
    BY <1>2
  <2>2. SlotOf(t) \in answered /\ tres[SlotOf(t)] = t
    BY <2>1, Zenon
  <2>3. SlotOf(t) \in Slots /\ SlotOf(t) \in Harvested
    BY <2>2 DEF Harvested
  <2> HIDE DEF SlotOf
  <2> QED BY <2>2, <2>3, EntryAwaits
<1>3. TypeInv'
  <2>1. done' \in [Threads -> BOOLEAN]
    BY <1>1, Zenon DEF TypeInv
  <2>2. result' \in [Threads -> [call : Entries \X Nat, status : Statuses]]
    <3> SUFFICES ASSUME NEW t \in Threads
                 PROVE  result'[t] \in [call : Entries \X Nat, status : Statuses]
      BY <1>1
    <3>1. CASE t \in woken
      <4>1. result'[t] = [call |-> command[SlotOf(t)], status |-> cmplStatus[SlotOf(t)]]
        BY <1>1, <3>1
      <4>2. SlotOf(t) \in Slots
        BY <1>2, <3>1
      <4> HIDE DEF SlotOf
      <4> QED BY <4>1, <4>2 DEF TypeInv
    <3>2. CASE t \notin woken
      BY <1>1, <3>2 DEF TypeInv
    <3> QED BY <3>1, <3>2
  <2>3. tres' \in [Slots -> Entries]
    BY <1>1 DEF TypeInv, Entries
  <2> QED BY <1>0, <1>1, <2>1, <2>2, <2>3 DEF TypeInv
<1>4. ASSUME NEW s \in Slots, Dist(head, ctail) <= Dist(head, s)
      PROVE  Dist(ctail, s) = Dist(head, s) - Dist(head, ctail)
  BY <1>0, <1>4, RingSplit
<1>5. Dist(ctail, tail) = Dist(head, tail) - Dist(head, ctail) /\ Dist(ctail, ctail) = 0
  BY <1>0, RingSplit, RingSucc DEF Capacity
<1>6. Capacity'
  <2>1. Reserving' = Reserving
    BY <1>1 DEF Reserving
  <2>2. /\ available \in Int /\ available >= 0
        /\ available + Cardinality(Reserving) + Dist(head, tail) = ElCount - 1
        /\ Dist(head, ctail) <= Dist(head, tail)
    BY DEF Capacity, TypeInv
  <2>3. /\ available' >= 0
        /\ available' + Cardinality(Reserving') + Dist(head', tail') = ElCount - 1
        /\ Dist(head', ctail') <= Dist(head', tail')
    BY <1>0, <1>1, <1>5, <2>1, <2>2, ReservingFinite, CommandQueueAssumption
  <2> QED BY <2>3 DEF Capacity
<1>7. HarvestIsTrue'
  <2> SUFFICES ASSUME NEW s \in Slots, Dist(ctail, s) < Dist(ctail, ctail)
               PROVE  FALSE
    BY <1>1 DEF HarvestIsTrue
  <2>1. Dist(ctail, s) \in 0..(ElCount - 1)
    BY <1>0, RingSucc
  <2> QED BY <1>5, <2>1, CommandQueueAssumption
<1>8. ASSUME NEW t \in Threads, t \in woken
      PROVE  /\ result'[t].call = ThisCall(t)
             /\ <<ThisCall(t), result'[t].status>> \in outcome
  <2>1. result'[t] = [call |-> command[SlotOf(t)], status |-> cmplStatus[SlotOf(t)]]
    BY <1>1, <1>8
  <2>2. /\ SlotOf(t) \in Slots /\ SlotOf(t) \in Harvested
        /\ command[SlotOf(t)] = ThisCall(t)
    BY <1>2, <1>8 DEF Awaits, ThisCall
  <2> HIDE DEF SlotOf
  <2>3. <<command[SlotOf(t)], cmplStatus[SlotOf(t)]>> \in outcome
    BY <2>2 DEF Harvested, HarvestIsTrue
  <2> QED BY <2>1, <2>2, <2>3
<1>9. ASSUME NEW t \in Threads, t \notin woken
      PROVE  result'[t] = result[t] /\ done'[t] = done[t]
  BY <1>1, <1>9 DEF TypeInv
<1>10. ResultIsTrue'
  <2> SUFFICES ASSUME NEW t \in Threads
               PROVE  /\ pc[t] = "reserved" => ~done'[t]
                      /\ pc[t] \in {"waiting", "timedOut"} /\ done'[t] =>
                            <<ThisCall(t), result'[t].status>> \in outcome
    BY <1>1 DEF ResultIsTrue, ThisCall
  <2>1. CASE t \in woken
    <3>1. pc[t] # "reserved"
      BY <1>2, <2>1 DEF Awaits
    <3> QED BY <1>8, <2>1, <3>1
  <2>2. CASE t \notin woken
    BY <1>9, <2>2 DEF ResultIsTrue
  <2> QED BY <2>1, <2>2
<1>11. OwnResult'
  <2> SUFFICES ASSUME NEW t \in Threads
               PROVE  pc[t] \in {"waiting", "timedOut"} /\ done'[t] =>
                            result'[t].call = ThisCall(t)
    BY <1>1 DEF OwnResult, ThisCall
  <2>1. CASE t \in woken
    BY <1>8, <2>1
  <2>2. CASE t \notin woken
    BY <1>9, <2>2 DEF OwnResult
  <2> QED BY <2>1, <2>2
<1>12. NoDanglingResult'
  <2> SUFFICES ASSUME NEW s \in Slots, NEW u \in Threads, tres'[s] = u
               PROVE  Awaits(s, u)'
    BY <1>3, AwaitsNext
  <2>1. s \notin Harvested /\ tres[s] = u
    BY <1>1, CommandQueueAssumption
  <2>2. Awaits(s, u)
    BY <2>1, EntryAwaits
  <2>3. u \notin woken
    <3> SUFFICES ASSUME u \in woken PROVE FALSE
      OBVIOUS
    <3>1. SlotOf(u) \in Harvested /\ Awaits(SlotOf(u), u)
      BY <1>2
    <3> HIDE DEF SlotOf
    <3> QED BY <2>1, <2>2, <3>1 DEF Awaits
  <2>4. ~done'[u]
    BY <1>9, <2>2, <2>3 DEF Awaits
  <2>5. Dist(ctail, s) < Dist(ctail, tail)
    <3>1. Dist(head, s) \in Int /\ ~(Dist(head, s) < Dist(head, ctail))
      BY <1>0, <2>1, RingSucc DEF Harvested
    <3>2. Dist(head, s) < Dist(head, tail)
      BY <2>2 DEF Awaits
    <3>3. Dist(ctail, s) = Dist(head, s) - Dist(head, ctail)
      BY <1>0, <1>4, <3>1
    <3> QED BY <1>0, <1>5, <3>1, <3>2, <3>3
  <2> QED BY <1>1, <2>2, <2>4, <2>5 DEF Awaits
<1> QED BY <1>3, <1>6, <1>7, <1>10, <1>11, <1>12

\* bce_cmd_finish returns in time: the element was completed, so no entry points
\* to it any more.
LEMMA FinishStep ==
    ASSUME IInv, NEW t \in Threads, Finish(t)
    PROVE  IInv'
<1> USE DEF IInv
<1>1. TypeInv'
  BY DEF TypeInv, Finish, sqVars, resVars
<1>2. Capacity' /\ HarvestIsTrue'
  <2>1. Reserving' = Reserving
    BY DEF Finish, Reserving, TypeInv
  <2> QED BY <2>1 DEF Finish, sqVars, Capacity, HarvestIsTrue, Dist
<1>3. ResultIsTrue'
  BY DEF Finish, resVars, ResultIsTrue, ThisCall, TypeInv
<1>4. OwnResult'
  <2>1. result[t].status \in Statuses /\ <<ThisCall(t), result[t].status>> \in outcome
    BY DEF Finish, ResultIsTrue, TypeInv
  <2>2. /\ ret'[t] = "success" => <<ThisCall(t), "success">> \in outcome
        /\ ret'[t] = "EIO" => <<ThisCall(t), "error">> \in outcome
    BY <2>1 DEF Finish, TypeInv, Statuses
  <2>3. /\ \A u \in Threads \ {t} : ret'[u] = ret[u] /\ pc'[u] = pc[u]
        /\ pc'[t] = "idle" /\ done' = done /\ result' = result /\ call' = call
        /\ outcome' = outcome
    BY DEF Finish, resVars, TypeInv
  <2> QED BY <2>2, <2>3 DEF OwnResult, ThisCall
<1>5. NoDanglingResult'
  <2> SUFFICES ASSUME NEW s \in Slots, NEW u \in Threads, tres'[s] = u
               PROVE  Awaits(s, u)'
    BY <1>1, AwaitsNext
  <2>1. Awaits(s, u)
    BY EntryAwaits DEF Finish, resVars
  <2>2. u # t
    BY <2>1 DEF Awaits, Finish
  <2> QED BY <2>1, <2>2 DEF Finish, sqVars, resVars, Awaits, TypeInv, Dist
<1> QED BY <1>1, <1>2, <1>3, <1>4, <1>5

\* The wait runs out; nothing but the place of the caller changes.
LEMMA WaitTimeoutStep ==
    ASSUME IInv, NEW t \in Threads, WaitTimeout(t)
    PROVE  IInv'
<1> USE DEF IInv
<1>1. TypeInv'
  BY DEF TypeInv, WaitTimeout, sqVars, resVars
<1>2. Capacity' /\ HarvestIsTrue'
  <2>1. Reserving' = Reserving
    BY DEF WaitTimeout, Reserving, TypeInv
  <2> QED BY <2>1 DEF WaitTimeout, sqVars, Capacity, HarvestIsTrue, Dist
<1>3. ResultIsTrue'
  BY DEF WaitTimeout, resVars, ResultIsTrue, ThisCall, TypeInv
<1>4. OwnResult'
  BY DEF WaitTimeout, resVars, OwnResult, ThisCall, TypeInv
<1>5. NoDanglingResult'
  <2> SUFFICES ASSUME NEW s \in Slots, NEW u \in Threads, tres'[s] = u
               PROVE  Awaits(s, u)'
    BY <1>1, AwaitsNext
  <2>1. Awaits(s, u)
    BY EntryAwaits DEF WaitTimeout, resVars
  <2> QED BY <2>1 DEF WaitTimeout, sqVars, resVars, Awaits, TypeInv, Dist
<1> QED BY <1>1, <1>2, <1>3, <1>4, <1>5

\* After a timeout the entry of the slot is cleared: the only one that can point
\* to the caller's element.
LEMMA TimeoutCleanupStep ==
    ASSUME IInv, NEW t \in Threads, TimeoutCleanup(t)
    PROVE  IInv'
<1> USE DEF IInv
<1>1. TypeInv'
  BY DEF TypeInv, TimeoutCleanup, sqVars, Entries
<1>2. Capacity' /\ HarvestIsTrue'
  <2>1. Reserving' = Reserving
    BY DEF TimeoutCleanup, Reserving, TypeInv
  <2> QED BY <2>1 DEF TimeoutCleanup, sqVars, Capacity, HarvestIsTrue, Dist
<1>3. ResultIsTrue'
  BY DEF TimeoutCleanup, ResultIsTrue, ThisCall, TypeInv
<1>4. OwnResult'
  BY DEF TimeoutCleanup, OwnResult, ThisCall, TypeInv
<1>5. NoDanglingResult'
  <2> SUFFICES ASSUME NEW s \in Slots, NEW u \in Threads, tres'[s] = u
               PROVE  Awaits(s, u)'
    BY <1>1, AwaitsNext
  <2>1. s # slot[t] /\ tres[s] = u
    BY CommandQueueAssumption DEF TimeoutCleanup, TypeInv
  <2>2. Awaits(s, u)
    BY <2>1, EntryAwaits
  <2>3. u # t
    BY <2>1, <2>2 DEF Awaits
  <2> QED BY <2>2, <2>3 DEF TimeoutCleanup, sqVars, Awaits, TypeInv, Dist
<1> QED BY <1>1, <1>2, <1>3, <1>4, <1>5

-----------------------------------------------------------------------------
(* The theorems.                                                           *)

\* Every step preserves the invariant.
LEMMA NextIInv == IInv /\ [Next]_vars => IInv'
<1> SUFFICES ASSUME IInv, [Next]_vars PROVE IInv'
  OBVIOUS
<1>1. ASSUME NEW t \in Threads, Caller(t) PROVE IInv'
  BY <1>1, StartReserveStep, StartTimeoutStep, SubmitStep, FinishStep, WaitTimeoutStep,
     TimeoutCleanupStep DEF Caller
<1>2. ASSUME NEW st \in Statuses, DeviceComplete(st) PROVE IInv'
  BY <1>2, DeviceCompleteStep
<1>3. CASE CmdqCompletion
  BY <1>3, CmdqCompletionStep
<1>4. CASE UNCHANGED vars
  BY <1>4 DEF vars, sqVars, resVars, IInv, TypeInv, Capacity, Reserving, HarvestIsTrue,
              ResultIsTrue, NoDanglingResult, OwnResult, ThisCall, Dist
<1> QED BY <1>1, <1>2, <1>3, <1>4 DEF Next, Terminated

\* The invariant holds in every state.
LEMMA Invariant == Spec => []IInv
<1>1. Init => IInv
  BY InitIInv
<1>2. IInv /\ [Next]_vars => IInv'
  BY NextIInv
<1> QED BY <1>1, <1>2, PTL DEF Spec

\* For every number of callers and slots, whatever times out and however late the
\* device answers: bce_cmdq_completion never follows a pointer to a result element
\* whose caller has returned from bce_cmd_finish.
THEOREM NoDanglingResults == Spec => []NoDanglingResult
<1>1. IInv => NoDanglingResult
  BY DEF IInv
<1> QED BY <1>1, Invariant, PTL

\* And each caller gets the answer to its own command, and returns what the
\* device did with it.
THEOREM ResultsAreOwn == Spec => []OwnResult
<1>1. IInv => OwnResult
  BY DEF IInv
<1> QED BY <1>1, Invariant, PTL

==============================================================================
