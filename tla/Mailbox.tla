------------------------------- MODULE Mailbox -------------------------------
(***************************************************************************)
(* The mailbox (mailbox.c): bce_mailbox_send and its interrupt handler.    *)
(* A sender claims the mailbox with a compare-and-exchange on mb_status,   *)
(* writes its message to the device and sleeps on mb_completion; the       *)
(* handler drains the reply FIFO into mb_result, moves mb_status from 1 to *)
(* 2 and completes mb_completion. Nothing in a reply says which message it *)
(* answers, and no lock is held, so every access to the shared fields is a *)
(* step of its own.                                                        *)
(***************************************************************************)
EXTENDS Integers, Sequences, SequencesExt, FiniteSets

CONSTANTS
    Senders,      \* threads that call bce_mailbox_send
    MaxSends      \* bound: messages written to the device

ASSUME MailboxAssumption ==
    /\ IsFiniteSet(Senders)
    /\ MaxSends \in Nat

Messages == 1..MaxSends
NoMessage == 0

VARIABLES
    mbStatus,     \* mb->mb_status: 0 no message, 1 active message, 2 got reply
    completion,   \* mb->mb_completion.done
    mbResult,     \* mb->mb_result: the message the stored reply answers
    stage,        \* where each sender is
    mine,         \* the message of each sender's current or last call
    recv,         \* *recv
    sendRet,      \* what the last call returned
    sent,         \* messages written to the device so far
    pending,      \* device: messages it has not answered
    fifo,         \* the reply FIFO of the device
    irqRaised,    \* the mailbox interrupt is pending
    irqPc,        \* where the interrupt handler is
    failed,       \* messages whose send returned -ETIMEDOUT
    expired       \* a timer of wait_for_completion_timeout has run out

senderVars == <<stage, mine, recv, sendRet>>
deviceVars == <<sent, pending, fifo>>
histVars == <<failed, expired>>
mailboxVars == <<mbStatus, completion, mbResult, senderVars, deviceVars, irqRaised,
                irqPc, histVars>>

\* bce_mailbox_init; the structure is zeroed.
MailboxInit ==
    /\ mbStatus = 0
    /\ completion = 0
    /\ mbResult = NoMessage
    /\ stage = [t \in Senders |-> "idle"]
    /\ mine = [t \in Senders |-> NoMessage]
    /\ recv = [t \in Senders |-> NoMessage]
    /\ sendRet = [t \in Senders |-> "none"]
    /\ sent = 0
    /\ pending = {}
    /\ fifo = <<>>
    /\ irqRaised = FALSE
    /\ irqPc = "idle"
    /\ failed = {}
    /\ expired = FALSE

-----------------------------------------------------------------------------
(* bce_mailbox_send.                                                       *)

\* atomic_cmpxchg(&mb->mb_status, 0, 1) succeeds.
Claim(t) ==
    /\ stage[t] = "idle" /\ sent < MaxSends
    /\ mbStatus = 0
    /\ mbStatus' = 1
    /\ stage' = [stage EXCEPT ![t] = "reinit"]
    /\ mine' = [mine EXCEPT ![t] = NoMessage]
    /\ recv' = [recv EXCEPT ![t] = NoMessage]
    /\ sendRet' = [sendRet EXCEPT ![t] = "none"]
    /\ UNCHANGED <<completion, mbResult, deviceVars, irqRaised, irqPc, histVars>>

\* The mailbox is taken: "We don't support two messages at once".
Refuse(t) ==
    /\ stage[t] = "idle" /\ sent < MaxSends
    /\ mbStatus # 0
    /\ mine' = [mine EXCEPT ![t] = NoMessage]
    /\ sendRet' = [sendRet EXCEPT ![t] = "EEXIST"]
    /\ UNCHANGED <<mbStatus, completion, mbResult, stage, recv, deviceVars,
                   irqRaised, irqPc, histVars>>

Reinit(t) ==
    /\ stage[t] = "reinit"
    /\ completion' = 0
    /\ stage' = [stage EXCEPT ![t] = "post"]
    /\ UNCHANGED <<mbStatus, mbResult, mine, recv, sendRet, deviceVars, irqRaised,
                   irqPc, histVars>>

\* The four iowrite32: the device has the message.
Post(t) ==
    /\ stage[t] = "post" /\ sent < MaxSends
    /\ sent' = sent + 1
    /\ pending' = pending \cup {sent + 1}
    /\ mine' = [mine EXCEPT ![t] = sent + 1]
    /\ stage' = [stage EXCEPT ![t] = "wait"]
    /\ UNCHANGED <<mbStatus, completion, mbResult, recv, sendRet, fifo, irqRaised,
                   irqPc, histVars>>

\* wait_for_completion_timeout finds the completion done.
Wake(t) ==
    /\ stage[t] = "wait" /\ completion > 0
    /\ completion' = completion - 1
    /\ stage' = [stage EXCEPT ![t] = "check"]
    /\ UNCHANGED <<mbStatus, mbResult, mine, recv, sendRet, deviceVars, irqRaised,
                   irqPc, histVars>>

\* The timeout of the wait runs out.
Expire(t) ==
    /\ stage[t] = "wait" /\ completion = 0
    /\ expired' = TRUE
    /\ stage' = [stage EXCEPT ![t] = "check"]
    /\ UNCHANGED <<mbStatus, completion, mbResult, mine, recv, sendRet, deviceVars,
                   irqRaised, irqPc, failed>>

\* Mutant of CheckStatus: having been woken is taken for having a reply.
CheckNothing(t) ==
    /\ stage[t] = "check"
    /\ stage' = [stage EXCEPT ![t] = "read"]
    /\ UNCHANGED <<mbStatus, completion, mbResult, mine, recv, sendRet, deviceVars,
                   irqRaised, irqPc, histVars>>

\* atomic_read(&mb->mb_status) != 2.
CheckStatus(t) ==
    /\ stage[t] = "check"
    /\ stage' = [stage EXCEPT ![t] = IF mbStatus = 2 THEN "read" ELSE "giveUp"]
    /\ UNCHANGED <<mbStatus, completion, mbResult, mine, recv, sendRet, deviceVars,
                   irqRaised, irqPc, histVars>>

\* "Didn't get the reply": the mailbox is released, whatever its status is
\* by now.
GiveUp(t) ==
    /\ stage[t] = "giveUp"
    /\ mbStatus' = 0
    /\ sendRet' = [sendRet EXCEPT ![t] = "ETIMEDOUT"]
    /\ failed' = failed \cup {mine[t]}
    /\ stage' = [stage EXCEPT ![t] = "idle"]
    /\ UNCHANGED <<completion, mbResult, mine, recv, deviceVars, irqRaised,
                   irqPc, expired>>

\* *recv = mb->mb_result.
ReadResult(t) ==
    /\ stage[t] = "read"
    /\ recv' = [recv EXCEPT ![t] = mbResult]
    /\ stage' = [stage EXCEPT ![t] = "release"]
    /\ UNCHANGED <<mbStatus, completion, mbResult, mine, sendRet, deviceVars,
                   irqRaised, irqPc, histVars>>

\* The mailbox is released and the call returns 0.
Release(t) ==
    /\ stage[t] = "release"
    /\ mbStatus' = 0
    /\ sendRet' = [sendRet EXCEPT ![t] = "success"]
    /\ stage' = [stage EXCEPT ![t] = "idle"]
    /\ UNCHANGED <<completion, mbResult, mine, recv, deviceVars, irqRaised,
                   irqPc, histVars>>

Send(t) ==
    \/ Claim(t) \/ Refuse(t) \/ Reinit(t) \/ Post(t) \/ Wake(t) \/ Expire(t)
    \/ CheckStatus(t) \/ GiveUp(t) \/ ReadResult(t) \/ Release(t)

-----------------------------------------------------------------------------
(* The device (external) answers each message at most once, late or never. *)

DeviceReply(m) ==
    /\ m \in pending
    /\ pending' = pending \ {m}
    /\ fifo' = Append(fifo, m)
    /\ irqRaised' = TRUE
    /\ UNCHANGED <<mbStatus, completion, mbResult, senderVars, sent, irqPc,
                   histVars>>

-----------------------------------------------------------------------------
(* bce_mailbox_handle_interrupt, in interrupt context; one at a time.      *)

\* bce_mailbox_retrive_response reads the count and drains that many
\* replies; only the last is kept. With none, the handler returns -ENODATA.
Retrieve ==
    /\ irqPc = "idle" /\ irqRaised
    /\ irqRaised' = FALSE
    /\ \/ /\ fifo = <<>>
          /\ UNCHANGED <<mbResult, fifo, irqPc>>
       \/ /\ fifo # <<>>
          /\ mbResult' = Last(fifo)
          /\ fifo' = <<>>
          /\ irqPc' = "got"
    /\ UNCHANGED <<mbStatus, completion, senderVars, sent, pending, histVars>>

\* atomic_cmpxchg(&mb->mb_status, 1, 2); a reply without an active message
\* is dropped.
MarkReply ==
    /\ irqPc = "got"
    /\ \/ /\ mbStatus = 1
          /\ mbStatus' = 2
          /\ irqPc' = "complete"
       \/ /\ mbStatus # 1
          /\ irqPc' = "idle"
          /\ UNCHANGED mbStatus
    /\ UNCHANGED <<completion, mbResult, senderVars, deviceVars, irqRaised,
                   histVars>>

Complete ==
    /\ irqPc = "complete"
    /\ completion' = completion + 1
    /\ irqPc' = "idle"
    /\ UNCHANGED <<mbStatus, mbResult, senderVars, deviceVars, irqRaised,
                   histVars>>

HandleInterrupt == Retrieve \/ MarkReply \/ Complete

\* All messages of the instance have been sent and the mailbox is at rest.
Quiescent ==
    /\ sent = MaxSends
    /\ \A t \in Senders : stage[t] = "idle"
    /\ ~irqRaised /\ irqPc = "idle"
    /\ UNCHANGED mailboxVars

MailboxNext ==
    \/ \E t \in Senders : Send(t)
    \/ \E m \in pending : DeviceReply(m)
    \/ HandleInterrupt
    \/ Quiescent

MailboxSpec == MailboxInit /\ [][MailboxNext]_mailboxVars

-----------------------------------------------------------------------------
(* Properties.                                                             *)

\* A reply carries no message number, so the late reply to a message that was
\* given up is taken for the next message's, and from then on every call may
\* get its predecessor's. But until some call has given up, every call that
\* succeeds has the reply to its own message; and no call gives up before some
\* wait has run to its timeout, so that a wake-up with no reply behind it is
\* always the aftermath of an expired wait.
OwnReplyUntilFailure ==
    /\ failed = {} => \A t \in Senders : sendRet[t] = "success" => recv[t] = mine[t]
    /\ failed # {} => expired

=============================================================================
