---------------------------- MODULE AudioProtocol ----------------------------
(***************************************************************************)
(* The audio message transport (audio/protocol_bce.c): synchronous         *)
(* commands to the T2 with tags and timeouts, and the completion handlers  *)
(* of the two queues, which run in the DMA interrupt thread. The rings     *)
(* themselves are those of SubmissionQueue: here a queue is what is in it. *)
(*                                                                         *)
(* __aaudio_send_prepare takes bce->spinlock and __aaudio_send releases    *)
(* it, so what lies between is one step, and so is aaudio_handle_reply.    *)
(***************************************************************************)
EXTENDS Integers, Sequences, FiniteSets

CONSTANTS
    Callers,       \* threads that send commands
    TagCount,      \* AAUDIO_BCE_QUEUE_TAG_COUNT
    ElementCount,  \* AAUDIO_BCE_QUEUE_ELEMENT_COUNT
    None,          \* a null pointer
    MaxCommands,   \* bound: tags handed out
    MaxIncidents   \* bound: commands that time out, and what users of this module add

ASSUME ProtocolAssumption ==
    /\ IsFiniteSet(Callers) /\ None \notin Callers \cup Nat
    /\ TagCount \in Nat \ {0} /\ ElementCount \in Nat \ {0}
    /\ MaxCommands \in Nat /\ MaxIncidents \in Nat

VARIABLES
    tag_num,
    pending_entries,  \* the caller whose entry is registered under each tag
    call,             \* the current or last call of each caller; see NoCall
    sent,             \* tags handed out so far; what is sent under them is numbered
    out,              \* qout: messages the T2 has not taken
    outDone,          \* qout: completions the interrupt thread has not seen
    lent, posted,     \* qin: data slots the T2 may fill, has filled
    data,             \* qin: what is in each data slot
    data_head, data_tail,
    irq,              \* in-queue handler: pc, cnt
    incidents,
    replies           \* T2: replies it has not posted; it may never do so

callVars == <<tag_num, pending_entries, call, sent>>
outVars == <<out, outDone>>
inVars == <<lent, posted, data, data_head, data_tail, irq>>
transportVars == <<callVars, outVars, inVars, replies>>
protocolVars == <<transportVars, incidents>>

DataSlots == 0..(ElementCount - 1)

\* cmd, tag and id of the command; done is cmpl, got is what the entry's reply
\* buffer received; pc ends in "ok" or "failed", the result of the call.
NoCall == [pc |-> "idle", cmd |-> None, tag |-> 0, id |-> 0, done |-> FALSE, got |-> None]
InCall(t) == call[t].pc \notin {"idle", "ok", "failed"}
Returned(t) == call[t].pc \in {"ok", "failed"}

\* A message: type, what it is about, the tag, the number of its command, and
\* what it tells.
Message(type, cmd, tag, id, val) ==
    [type |-> type, cmd |-> cmd, tag |-> tag, id |-> id, val |-> val]
NoMessage == Message("none", None, 0, 0, None)

\* aaudio_bce_init has lent every data slot to the T2.
ProtocolInit ==
    /\ tag_num = 0
    /\ pending_entries = [n \in 0..(TagCount - 1) |-> None]
    /\ call = [t \in Callers |-> NoCall]
    /\ sent = 0
    /\ out = <<>> /\ outDone = 0
    /\ lent = [i \in 1..ElementCount |-> i - 1] /\ posted = <<>>
    /\ data = [i \in DataSlots |-> NoMessage]
    /\ data_head = 0 /\ data_tail = 0
    /\ irq = [pc |-> "idle", cnt |-> 0]
    /\ replies = {} /\ incidents = 0

-----------------------------------------------------------------------------
(* Commands.                                                               *)

\* A thread begins a call; it allocates the buffer of the reply.
Begin(t, cmd) ==
    /\ ~InCall(t)
    /\ sent + Cardinality({u \in Callers : InCall(u)}) < MaxCommands
    /\ call' = [call EXCEPT ![t] = [NoCall EXCEPT !.pc = "send", !.cmd = cmd]]

\* The continuation of a call has taken note of its result.
End(t) == call' = [call EXCEPT ![t] = NoCall]

Available == ElementCount - Len(out) - outDone

\* Mutant of CreateTag: every command has the same tag.
CreateTagFixed == tag_num

\* aaudio_send_create_tag; "S%03d" tells TagCount numbers apart.
CreateTag == (tag_num + 1) % TagCount

\* __aaudio_send_prepare gives up when no slot gets free in time; else
\* __aaudio_send_cmd_sync registers the entry, and the message is sent.
Send(t) ==
    /\ call[t].pc = "send"
    /\ IF Available > 0
         THEN /\ tag_num' = CreateTag
              /\ sent' = sent + 1
              /\ call' = [call EXCEPT ![t].pc = "wait", ![t].tag = CreateTag, ![t].id = sent + 1]
              /\ pending_entries' = [pending_entries EXCEPT ![CreateTag] = t]
              /\ out' = Append(out, Message("command", call[t].cmd, CreateTag, sent + 1, None))
         ELSE /\ call' = [call EXCEPT ![t].pc = "failed"]
              /\ UNCHANGED <<tag_num, sent, pending_entries, out>>
    /\ UNCHANGED <<outDone, inVars, replies>>

\* The wait ends with a reply. aaudio_msg_verify refuses one of another type.
Wake(t) ==
    /\ call[t].pc = "wait" /\ call[t].done
    /\ call' = [call EXCEPT ![t].pc = IF call[t].got.cmd = call[t].cmd THEN "ok" ELSE "failed"]
    /\ UNCHANGED <<tag_num, pending_entries, sent, outVars, inVars, replies>>

Incident == incidents < MaxIncidents /\ incidents' = incidents + 1

\* The time is up.
Expire(t) ==
    /\ Incident
    /\ call[t].pc = "wait" /\ ~call[t].done
    /\ call' = [call EXCEPT ![t].pc = "expired"]
    /\ UNCHANGED <<tag_num, pending_entries, sent, outVars, inVars, replies>>

\* Mutant of CleanUp: the entry stays registered after the timeout.
CleanUpNothing(t) ==
    /\ call[t].pc = "expired"
    /\ call' = [call EXCEPT ![t].pc = "failed"]
    /\ UNCHANGED <<tag_num, pending_entries, sent, outVars, inVars, replies>>

\* ... and the entry is removed, if it is still the registered one.
CleanUp(t) ==
    /\ call[t].pc = "expired"
    /\ pending_entries' = [pending_entries EXCEPT ![call[t].tag] = IF @ = t THEN None ELSE @]
    /\ call' = [call EXCEPT ![t].pc = "failed"]
    /\ UNCHANGED <<tag_num, sent, outVars, inVars, replies>>

-----------------------------------------------------------------------------
(* The interrupt thread.                                                   *)

\* aaudio_bce_out_queue_completion.
OutCompletion ==
    /\ irq.pc = "idle" /\ outDone > 0
    /\ outDone' = 0
    /\ UNCHANGED <<callVars, out, inVars, replies>>

\* The message that aaudio_bce_in_queue_completion hands to its handler.
Current == data[data_head]
Handling(type) == posted # <<>> /\ Current.type = type

\* The loop goes on to the next completion; what is left in the slot is not
\* read again.
NextIn ==
    /\ data' = [data EXCEPT ![data_head] = NoMessage]
    /\ data_head' = (data_head + 1) % ElementCount
    /\ posted' = Tail(posted)
    /\ irq' = [pc |-> "loop", cnt |-> irq.cnt + 1]
    /\ UNCHANGED <<lent, data_tail>>

\* aaudio_handle_reply, with the spinlock held: the reply goes to the entry of
\* its tag, if there is one.
HandleReply ==
    /\ Handling("reply")
    /\ LET t == pending_entries[Current.tag]
       IN /\ call' = IF t = None THEN call
                     ELSE [call EXCEPT ![t].done = TRUE, ![t].got = Current]
          /\ pending_entries' = [pending_entries EXCEPT ![Current.tag] = None]
    /\ NextIn
    /\ UNCHANGED <<tag_num, sent, outVars, replies>>

\* A message that is no command: sent if a slot is free at once. The interrupt
\* thread would wait in vain for one, since it is the one that frees them.
SendFromIrq(msg) ==
    /\ out' = IF Available > 0 THEN Append(out, msg) ELSE out
    /\ UNCHANGED outDone

\* The boot notification: the alive notification is sent again, under a new tag.
HandleBoot ==
    /\ Handling("boot")
    /\ SendFromIrq(Message("alive", None, CreateTag, sent + 1, None))
    /\ IF Available > 0 THEN tag_num' = CreateTag /\ sent' = sent + 1
                        ELSE UNCHANGED <<tag_num, sent>>
    /\ NextIn
    /\ UNCHANGED <<pending_entries, call, replies>>

\* aaudio_bce_in_queue_submit_pending lends as many slots as were handled.
SubmitPending ==
    /\ irq.pc = "loop" /\ posted = <<>>
    /\ lent' = lent \o [i \in 1..irq.cnt |-> (data_tail + i - 1) % ElementCount]
    /\ data_tail' = (data_tail + irq.cnt) % ElementCount
    /\ irq' = [pc |-> "idle", cnt |-> 0]
    /\ UNCHANGED <<callVars, outVars, posted, data, data_head, replies>>

-----------------------------------------------------------------------------
(* The T2 (external).                                                      *)

\* It takes a message, and owes a reply to a command; val is what it answers.
T2Takes(val) ==
    /\ out # <<>>
    /\ out' = Tail(out) /\ outDone' = outDone + 1
    /\ replies' = IF Head(out).type # "command" THEN replies
                  ELSE replies \cup {[Head(out) EXCEPT !.type = "reply", !.val = val]}
    /\ UNCHANGED <<callVars, inVars>>

\* It fills a slot it was lent.
T2Posts(msg) ==
    /\ lent # <<>>
    /\ data' = [data EXCEPT ![Head(lent)] = msg]
    /\ posted' = Append(posted, Head(lent)) /\ lent' = Tail(lent)
    /\ UNCHANGED <<data_head, data_tail, irq>>

T2Replies ==
    /\ \E r \in replies : T2Posts(r) /\ replies' = replies \ {r}
    /\ UNCHANGED <<callVars, outVars>>

Transport ==
    \/ \E t \in Callers : Expire(t)
    \/ /\ \/ \E t \in Callers : Send(t) \/ Wake(t) \/ CleanUp(t)
          \/ OutCompletion \/ HandleReply \/ HandleBoot \/ SubmitPending \/ T2Replies
       /\ UNCHANGED incidents

-----------------------------------------------------------------------------
(* Properties.                                                             *)

\* An entry lies on the stack of its caller: while it is registered, its caller
\* has not returned, and waits for that tag. aaudio_handle_reply writes to it.
NoDanglingEntry ==
    \A n \in DOMAIN pending_entries :
        LET t == pending_entries[n]
        IN t # None => call[t].pc \in {"wait", "expired"} /\ call[t].tag = n

\* A call that succeeds has the reply to its own command, or to one that was sent
\* at least TagCount commands earlier: a late reply needs a whole lap of the tags
\* to be taken for another's.
LateByALap ==
    \A t \in Callers :
        call[t].pc = "ok" =>
            \/ call[t].got.id = call[t].id
            \/ call[t].id - call[t].got.id >= TagCount

=============================================================================
