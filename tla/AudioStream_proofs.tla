-------------------------- MODULE AudioStream_proofs --------------------------
(***************************************************************************)
(* Proofs about AudioStream and the transport of AudioProtocol below it,   *)
(* for any number of tags, queue elements, jack works, commands and        *)
(* incidents.                                                              *)
(***************************************************************************)
EXTENDS AudioStream, TLAPS

-----------------------------------------------------------------------------
(* The tags of the transport.                                              *)

Tags == 0..(TagCount - 1)
Commands == {"start_io", "stop_io", "get", "access"}
MessageTypes == {"none", "command", "alive", "reply", "boot", "timestamp", "response", "changed"}
MessageRecords ==
    [type : MessageTypes, cmd : Commands \cup {None}, tag : Nat, id : Nat,
     val : BOOLEAN \cup Nat \cup {None}]
CallRecords ==
    [pc : {"idle", "send", "wait", "expired", "ok", "failed"}, cmd : Commands \cup {None},
     tag : Nat, id : Nat, done : BOOLEAN, got : MessageRecords \cup {None}]

TransportTypes ==
    /\ tag_num \in Tags
    /\ pending_entries \in [Tags -> Callers \cup {None}]
    /\ call \in [Callers -> CallRecords]
    /\ sent \in Nat
    /\ out \in Seq(MessageRecords)
    /\ data \in [DataSlots -> MessageRecords] /\ data_head \in DataSlots
    /\ replies \subseteq MessageRecords
    /\ plugged \in BOOLEAN /\ io \in Nat \cup {None}

\* How many commands ago the tag n was handed out last.
Age(n) == IF n <= tag_num THEN tag_num - n ELSE tag_num - n + TagCount

\* The command number k, or the reply to it, is on its way under the tag n.
OnItsWay(n, k) ==
    \/ \E i \in 1..Len(out) : out[i].type = "command" /\ out[i].tag = n /\ out[i].id = k
    \/ \E r \in replies : r.tag = n /\ r.id = k
    \/ \E i \in DataSlots : data[i].type = "reply" /\ data[i].tag = n /\ data[i].id = k

\* A number goes with its tag: it is the last one with that tag, or at least a lap
\* older.
NumberedMessages ==
    \A n, k \in Nat : OnItsWay(n, k) =>
        n \in Tags /\ (k = sent - Age(n) \/ k <= sent - Age(n) - TagCount)

\* The call whose entry is registered under a tag waits for it, and no younger
\* command has that tag.
RegisteredEntries ==
    \A n \in Tags : pending_entries[n] # None =>
        LET c == call[pending_entries[n]]
        IN /\ c.pc \in {"wait", "expired"} /\ c.tag = n /\ ~c.done
           /\ \A k \in Nat : OnItsWay(n, k) => k = c.id \/ k <= c.id - TagCount

\* What a call has got is the reply to it, or at least a lap older.
Answers ==
    \A t \in Callers :
        /\ call[t].pc \in {"idle", "send"} => ~call[t].done
        /\ call[t].pc = "ok" => call[t].done
        /\ call[t].done => /\ call[t].got \in MessageRecords
                           /\ \/ call[t].got.id = call[t].id
                              \/ call[t].id - call[t].got.id >= TagCount

TagInv ==
    /\ TransportTypes
    /\ NumberedMessages
    /\ RegisteredEntries
    /\ Answers

\* Constants of the protocol.
LEMMA Sizes ==
  /\ TagCount \in Nat /\ TagCount > 0
  /\ ElementCount \in Nat /\ ElementCount > 0
  /\ None \notin Callers /\ None \notin Nat
  BY ProtocolAssumption

\* The next tag, without the remainder, and how it ages the others.
LEMMA NextTag ==
  ASSUME tag_num \in Tags
  PROVE  /\ CreateTag = IF tag_num = TagCount - 1 THEN 0 ELSE tag_num + 1
         /\ CreateTag \in Tags
         /\ Age(CreateTag) = TagCount - 1
         /\ \A n \in Tags : Age(n) \in 0..(TagCount - 1)
<1>1. CreateTag = IF tag_num = TagCount - 1 THEN 0 ELSE tag_num + 1
  <2>1. CASE tag_num = TagCount - 1
    BY <2>1, Sizes DEF CreateTag, Tags
  <2>2. CASE tag_num # TagCount - 1
    BY <2>2, Sizes DEF CreateTag, Tags
  <2> QED BY <2>1, <2>2
<1>2. CreateTag \in Tags /\ Age(CreateTag) = TagCount - 1
  BY <1>1, Sizes DEF Tags, Age
<1>3. \A n \in Tags : Age(n) \in 0..(TagCount - 1)
  BY Sizes DEF Tags, Age
<1> QED BY <1>1, <1>2, <1>3

LEMMA AgeStep ==
  ASSUME tag_num \in Tags, tag_num' = CreateTag, NEW n \in Tags
  PROVE  Age(n)' = IF n = CreateTag THEN 0 ELSE Age(n) + 1
  BY NextTag, Sizes DEF Age, Tags

\* A call that begins, and one that is over, are calls.
LEMMA NewCall ==
  /\ NoCall \in CallRecords /\ NoMessage \in MessageRecords
  /\ \A c \in Commands : [NoCall EXCEPT !.pc = "send", !.cmd = c] \in CallRecords
  /\ NoCall.pc = "idle" /\ ~NoCall.done /\ NoMessage.type = "none"
  /\ \A c \in Commands : LET r == [NoCall EXCEPT !.pc = "send", !.cmd = c]
                         IN r.pc = "send" /\ r.cmd = c /\ r.id = 0 /\ ~r.done
  BY DEF NoCall, CallRecords, NoMessage, Message, MessageRecords, MessageTypes

-----------------------------------------------------------------------------
(* What the steps do to the transport.                                     *)

transportRest == <<tag_num, pending_entries, sent, out, data, data_head, replies, t2Vars>>
Untouched == UNCHANGED <<call, transportRest>>
CallBegins == \E t \in Callers, c \in Commands : Begin(t, c) /\ UNCHANGED transportRest
CallEnds == \E t \in Callers : Returned(t) /\ End(t) /\ UNCHANGED transportRest

\* What the application, the period timer, the works of the stream and suspend do.
StreamStep ==
    \/ Open \/ Start \/ StartDone \/ Stop \/ StopDone \/ Close
    \/ TimerFires \/ TimerQueues \/ PeriodWork \/ PeriodElapsed \/ TsRun \/ TsApply \/ TsElapsed
    \/ Quiesce \/ IoStopped \/ SuspendAll \/ SuspendResume

LEMMA OwnSteps == StreamStep => Untouched \/ CallBegins \/ CallEnds
<1> SUFFICES ASSUME StreamStep PROVE Untouched \/ CallBegins \/ CallEnds
  OBVIOUS
<1> USE DEF transportRest, Commands, protocolVars, transportVars, callVars, inVars, outVars,
            notCall
<1>1. stream \in Callers /\ pm \in Callers
  BY StreamAssumption
<1>2. CASE Open \/ TimerFires \/ TimerQueues \/ PeriodWork \/ TsRun \/ TsApply \/ Close
  BY <1>2 DEF Untouched, Open, TimerFires, TimerQueues, PeriodWork, TsRun, TsApply, Close
<1>3. ASSUME NEW h, StopBy(h) PROVE CallBegins
  BY <1>1, <1>3 DEF StopBy, CallBegins
<1>4. CASE Start
  BY <1>1, <1>4 DEF Start, CallBegins
<1>5. CASE StartDone
  BY <1>1, <1>5 DEF StartDone, CallEnds, Untouched
<1>6. CASE Stop
  BY <1>3, <1>6 DEF Stop
<1>7. CASE StopDone
  BY <1>1, <1>7 DEF StopDone, CallEnds, Untouched
<1>8. CASE PeriodElapsed \/ TsElapsed
  BY <1>3, <1>8 DEF PeriodElapsed, TsElapsed, Untouched
<1>9. CASE Quiesce
  BY <1>1, <1>9 DEF Quiesce, CallBegins, Untouched
<1>10. CASE IoStopped
  BY <1>1, <1>10 DEF IoStopped, CallEnds
<1>11. CASE SuspendAll
  BY <1>1, <1>11 DEF SuspendAll, CallBegins
<1>12. CASE SuspendResume
  BY <1>1, <1>12 DEF SuspendResume, CallBegins, CallEnds
<1> QED BY <1>2, <1>4, <1>5, <1>6, <1>7, <1>8, <1>9, <1>10, <1>11, <1>12 DEF StreamStep

\* What is not the transport's own begins a call, ends one, or handles a message.
LEMMA StreamSteps ==
  Next => \/ Untouched \/ CallBegins \/ CallEnds
          \/ HandleTimestamp \/ HandleChanged \/ T2Serves \/ T2Sends
          \/ Transport /\ UNCHANGED t2Vars
<1>1. ASSUME NEW j \in Jacks, JackAsk(j) \/ JackReport(j) PROVE CallBegins \/ CallEnds
  <2>1. j \in Callers /\ "get" \in Commands
    BY StreamAssumption DEF Commands
  <2> QED BY <1>1, <2>1 DEF JackAsk, JackReport, CallBegins, CallEnds, transportRest, notCall, inVars, outVars
<1>2. Transport /\ UNCHANGED streamVars => Transport /\ UNCHANGED t2Vars
  BY DEF streamVars
<1> QED BY <1>1, <1>2, OwnSteps DEF Next, StreamStep

\* Steps that touch neither tags nor calls, and put no command or reply on its way.
LEMMA QuietTags ==
  ASSUME TagInv, TransportTypes', UNCHANGED <<tag_num, pending_entries, call, sent>>,
         \A n, k \in Nat : OnItsWay(n, k)' => OnItsWay(n, k)
  PROVE  TagInv'
<1>1. NumberedMessages'
  BY DEF TagInv, NumberedMessages, Age
<1>2. RegisteredEntries'
  BY Sizes DEF TagInv, RegisteredEntries, Tags
<1>3. Answers'
  BY DEF TagInv, Answers
<1> QED BY <1>1, <1>2, <1>3 DEF TagInv

\* Steps of one call between its tag and the next.
LEMMA OneCallTags ==
  ASSUME TagInv, TransportTypes', UNCHANGED <<tag_num, pending_entries, sent>>,
         \A n, k \in Nat : OnItsWay(n, k)' => OnItsWay(n, k),
         NEW t \in Callers, \A u \in Callers \ {t} : call'[u] = call[u],
         \A n \in Tags : pending_entries[n] = t =>
             /\ call'[t].pc \in {"wait", "expired"} /\ call'[t].tag = call[t].tag
             /\ call'[t].id = call[t].id /\ ~call'[t].done,
         /\ call'[t].pc \in {"idle", "send"} => ~call'[t].done
         /\ call'[t].pc = "ok" => call'[t].done
         /\ call'[t].done => /\ call[t].done
                             /\ call'[t].got = call[t].got /\ call'[t].id = call[t].id
  PROVE  TagInv'
<1>1. NumberedMessages'
  BY DEF TagInv, NumberedMessages, Age
<1>2. RegisteredEntries'
  <2> SUFFICES ASSUME NEW n \in Tags, pending_entries[n] # None
               PROVE  LET c == call'[pending_entries[n]]
                      IN /\ c.pc \in {"wait", "expired"} /\ c.tag = n /\ ~c.done
                         /\ \A k \in Nat : OnItsWay(n, k)' => k = c.id \/ k <= c.id - TagCount
    BY DEF RegisteredEntries
  <2>1. pending_entries[n] \in Callers
    BY DEF TagInv, TransportTypes
  <2>2. n \in Nat
    BY Sizes DEF Tags
  <2> QED BY <2>1, <2>2 DEF TagInv, RegisteredEntries
<1>3. Answers'
  BY DEF TagInv, Answers
<1> QED BY <1>1, <1>2, <1>3 DEF TagInv

\* The handlers of the interrupt thread empty a slot, ...
LEMMA AfterNextIn ==
  ASSUME TransportTypes, NextIn
  PROVE  /\ data' \in [DataSlots -> MessageRecords] /\ data_head' \in DataSlots
         /\ \A i \in DataSlots : data'[i] = data[i] \/ data'[i].type = "none"
<1>1. (data_head + 1) % ElementCount \in DataSlots
  <2>1. CASE data_head = ElementCount - 1
    BY <2>1, Sizes DEF DataSlots, TransportTypes
  <2>2. CASE data_head # ElementCount - 1
    BY <2>2, Sizes DEF DataSlots, TransportTypes
  <2> QED BY <2>1, <2>2
<1>2. data' = [data EXCEPT ![data_head] = NoMessage]
  BY DEF NextIn
<1> QED BY <1>1, <1>2, NewCall DEF NextIn, TransportTypes

\* ... and may send something that is no command.
LEMMA AfterSendFromIrq ==
  ASSUME TransportTypes, NEW msg \in MessageRecords, SendFromIrq(msg)
  PROVE  /\ out' \in Seq(MessageRecords)
         /\ out' = out \/ out' = Append(out, msg)
  BY DEF SendFromIrq, TransportTypes

LEMMA OnItsWayFromIrq ==
  ASSUME TransportTypes, NextIn, replies' = replies,
         NEW msg \in MessageRecords, msg.type # "command", msg.cmd = None,
         out' = out \/ out' = Append(out, msg),
         NEW n, NEW k, OnItsWay(n, k)'
  PROVE  OnItsWay(n, k)
<1>1. \A i \in 1..Len(out') : out'[i] = msg \/ (i \in 1..Len(out) /\ out'[i] = out[i])
  BY DEF TransportTypes
<1>2. \A i \in DataSlots : data'[i] = data[i] \/ data'[i].type = "none"
  BY AfterNextIn
<1>3. ASSUME NEW i \in 1..Len(out'), out'[i].type = "command", out'[i].tag = n, out'[i].id = k
      PROVE  OnItsWay(n, k)
  BY <1>1, <1>3 DEF OnItsWay
<1>4. ASSUME NEW i \in DataSlots, data'[i].type = "reply", data'[i].tag = n, data'[i].id = k
      PROVE  OnItsWay(n, k)
  BY <1>2, <1>4 DEF OnItsWay
<1>5. ASSUME NEW r \in replies, r.tag = n, r.id = k PROVE OnItsWay(n, k)
  BY <1>5 DEF OnItsWay
<1> QED BY <1>3, <1>4, <1>5 DEF OnItsWay

\* Calls that begin and end.
LEMMA CallBeginsTags == TagInv /\ CallBegins => TagInv'
<1> SUFFICES ASSUME TagInv, NEW t \in Callers, NEW c \in Commands, Begin(t, c),
                    UNCHANGED transportRest
             PROVE  TagInv'
  BY DEF CallBegins
<1> DEFINE new == [NoCall EXCEPT !.pc = "send", !.cmd = c]
<1>1. call' = [call EXCEPT ![t] = new] /\ ~InCall(t)
  BY DEF Begin
<1>2. new \in CallRecords /\ new.pc = "send" /\ ~new.done
  BY NewCall
<1> HIDE DEF new
<1>3. call'[t] = new /\ \A u \in Callers \ {t} : call'[u] = call[u]
  BY <1>1 DEF TagInv, TransportTypes
<1>4. TransportTypes'
  BY <1>1, <1>2 DEF transportRest, t2Vars, TagInv, TransportTypes
<1>5. \A n \in Tags : pending_entries[n] # t
  BY <1>1, Sizes DEF InCall, TagInv, RegisteredEntries
<1>6. \A n, k \in Nat : OnItsWay(n, k)' => OnItsWay(n, k)
  BY DEF OnItsWay, transportRest
<1> QED BY <1>2, <1>3, <1>4, <1>5, <1>6, OneCallTags DEF transportRest

LEMMA CallEndsTags == TagInv /\ CallEnds => TagInv'
<1> SUFFICES ASSUME TagInv, NEW t \in Callers, Returned(t), End(t), UNCHANGED transportRest
             PROVE  TagInv'
  BY DEF CallEnds
<1>1. call' = [call EXCEPT ![t] = NoCall]
  BY DEF End
<1>2. call'[t] = NoCall /\ \A u \in Callers \ {t} : call'[u] = call[u]
  BY <1>1 DEF TagInv, TransportTypes
<1>3. TransportTypes'
  BY <1>1, NewCall DEF transportRest, t2Vars, TagInv, TransportTypes
<1>4. \A n \in Tags : pending_entries[n] # t
  BY Sizes DEF Returned, TagInv, RegisteredEntries
<1>5. \A n, k \in Nat : OnItsWay(n, k)' => OnItsWay(n, k)
  BY DEF OnItsWay, transportRest
<1> QED BY <1>2, <1>3, <1>4, <1>5, NewCall, OneCallTags DEF transportRest

\* When a tag has been handed out, every number on its way under it is a lap old.
LEMMA AgedNumbers ==
  ASSUME TagInv, tag_num' = CreateTag, sent' = sent + 1,
         NEW n \in Nat, NEW k \in Nat, OnItsWay(n, k)
  PROVE  /\ n \in Tags
         /\ k = sent' - Age(n)' \/ k <= sent' - Age(n)' - TagCount
         /\ n = CreateTag => k <= sent' - TagCount
<1>1. tag_num \in Tags /\ sent \in Nat
  BY DEF TagInv, TransportTypes
<1>2. n \in Tags /\ (k = sent - Age(n) \/ k <= sent - Age(n) - TagCount)
  BY DEF TagInv, NumberedMessages
<1>3. Age(n) \in Nat /\ Age(n)' = IF n = CreateTag THEN 0 ELSE Age(n) + 1
  BY <1>1, <1>2, AgeStep, NextTag, Sizes
<1>4. n = CreateTag => Age(n) = TagCount - 1
  BY <1>1, NextTag
<1> QED BY <1>1, <1>2, <1>3, <1>4, Sizes

\* A command is sent: its entry replaces an older call's under the tag.
LEMMA SendTags == ASSUME TagInv, NEW t \in Callers, Send(t), UNCHANGED t2Vars PROVE TagInv'
<1>0. call[t].pc = "send"
  BY DEF Send
<1>1. /\ tag_num \in Tags /\ sent \in Nat /\ call[t] \in CallRecords
      /\ call \in [Callers -> CallRecords] /\ CreateTag \in Tags /\ CreateTag \in Nat
  BY NextTag, Sizes DEF TagInv, TransportTypes, Tags
<1>2. UNCHANGED <<data, data_head, replies, plugged, io>>
  BY DEF Send, inVars, t2Vars
<1>3. CASE Available > 0
  <2> DEFINE msg == Message("command", call[t].cmd, CreateTag, sent + 1, None)
             new == [call[t] EXCEPT !.pc = "wait", !.tag = CreateTag, !.id = sent + 1]
  <2>1. msg \in MessageRecords /\ msg.type = "command" /\ msg.tag = CreateTag /\ msg.id = sent + 1
    BY <1>1 DEF Message, MessageRecords, MessageTypes, CallRecords
  <2>2. /\ new \in CallRecords /\ new.pc = "wait" /\ new.tag = CreateTag /\ new.id = sent + 1
        /\ new.done = call[t].done
    <3>1. new.pc = "wait" /\ new.tag = CreateTag /\ new.id = sent + 1 /\ new.done = call[t].done
      BY <1>1 DEF CallRecords
    <3>2. sent + 1 \in Nat
      BY <1>1
    <3>3. new \in CallRecords
      BY <1>1, <3>2 DEF CallRecords
    <3> QED BY <3>1, <3>3
  <2>3. out' = Append(out, msg) /\ tag_num' = CreateTag /\ sent' = sent + 1
        /\ pending_entries' = [pending_entries EXCEPT ![CreateTag] = t]
    BY <1>3 DEF Send
  <2>4. call' = [call EXCEPT ![t] = new]
    BY <1>1, <1>3 DEF Send
  <2> HIDE DEF msg, new
  <2>5. TransportTypes'
    BY <1>1, <1>2, <2>1, <2>2, <2>3, <2>4 DEF TagInv, TransportTypes
  <2>6. call'[t] = new /\ \A u \in Callers \ {t} : call'[u] = call[u]
    BY <1>1, <2>4
  <2>7. ASSUME NEW n \in Nat, NEW k \in Nat, OnItsWay(n, k)'
        PROVE  OnItsWay(n, k) \/ (n = CreateTag /\ k = sent + 1)
    <3>1. \A i \in 1..Len(out') : out'[i] = msg \/ (i \in 1..Len(out) /\ out'[i] = out[i])
      BY <2>1, <2>3 DEF TagInv, TransportTypes
    <3> QED BY <1>2, <2>1, <2>7, <3>1 DEF OnItsWay
  <2>8. NumberedMessages'
    <3> SUFFICES ASSUME NEW n \in Nat, NEW k \in Nat, OnItsWay(n, k)'
                 PROVE  n \in Tags /\ (k = sent' - Age(n)' \/ k <= sent' - Age(n)' - TagCount)
      BY DEF NumberedMessages
    <3>1. CASE OnItsWay(n, k)
      BY <2>3, <3>1, AgedNumbers
    <3>2. CASE n = CreateTag /\ k = sent + 1
      BY <1>1, <2>3, <3>2, AgeStep
    <3> QED BY <2>7, <3>1, <3>2
  <2>9. RegisteredEntries'
    <3> SUFFICES ASSUME NEW n \in Tags, pending_entries'[n] # None
                 PROVE  LET c == call'[pending_entries'[n]]
                        IN /\ c.pc \in {"wait", "expired"} /\ c.tag = n /\ ~c.done
                           /\ \A k \in Nat : OnItsWay(n, k)' => k = c.id \/ k <= c.id - TagCount
      BY DEF RegisteredEntries
    <3>1. n \in Nat
      BY Sizes DEF Tags
    <3>2. CASE n = CreateTag
      <4>1. pending_entries'[n] = t /\ ~new.done
        BY <1>0, <1>1, <2>2, <2>3, <3>2 DEF TagInv, TransportTypes, Answers
      <4>2. ASSUME NEW k \in Nat, OnItsWay(n, k)' PROVE k = sent + 1 \/ k <= sent + 1 - TagCount
        <5>1. OnItsWay(n, k) \/ k = sent + 1
          BY <2>7, <3>1, <4>2
        <5>2. OnItsWay(n, k) => k <= sent' - TagCount
          BY <1>1, <2>3, <3>1, <3>2, AgedNumbers, Sizes
        <5> QED BY <1>1, <2>3, <5>1, <5>2, Sizes
      <4>3. call'[pending_entries'[n]] = new
        BY <2>6, <4>1
      <4>4. new.pc = "wait" /\ new.tag = n /\ ~new.done
        BY <2>2, <3>2, <4>1
      <4>5. \A k \in Nat : OnItsWay(n, k)' => k = new.id \/ k <= new.id - TagCount
        BY <1>1, <2>2, <4>2, Sizes
      <4> QED BY <4>3, <4>4, <4>5
    <3>3. CASE n # CreateTag
      <4>1. pending_entries'[n] = pending_entries[n] /\ pending_entries[n] \in Callers
        BY <2>3, <3>3 DEF TagInv, TransportTypes
      <4>2. pending_entries[n] # t
        BY <1>0, <4>1, Sizes DEF TagInv, RegisteredEntries
      <4>3. call'[pending_entries'[n]] = call[pending_entries[n]]
        BY <2>6, <4>1, <4>2
      <4> QED BY <2>7, <3>1, <3>3, <4>1, <4>3, Sizes DEF TagInv, RegisteredEntries
    <3> QED BY <3>2, <3>3
  <2>10. Answers'
    BY <1>0, <2>2, <2>6 DEF TagInv, Answers
  <2> QED BY <2>5, <2>8, <2>9, <2>10 DEF TagInv
<1>4. CASE ~(Available > 0)
  <2> DEFINE new == [call[t] EXCEPT !.pc = "failed"]
  <2>1. new \in CallRecords /\ new.pc = "failed" /\ new.done = call[t].done
    BY <1>1 DEF CallRecords
  <2>2. call' = [call EXCEPT ![t] = new]
    BY <1>1, <1>4 DEF Send
  <2> HIDE DEF new
  <2>3. call'[t] = new /\ \A u \in Callers \ {t} : call'[u] = call[u]
    BY <1>1, <2>2
  <2>4. UNCHANGED <<tag_num, sent, pending_entries, out>>
    BY <1>4 DEF Send
  <2>5. TransportTypes'
    BY <1>1, <1>2, <2>1, <2>2, <2>4 DEF TagInv, TransportTypes
  <2>6. \A n \in Tags : pending_entries[n] # t
    BY <1>0, Sizes DEF TagInv, RegisteredEntries
  <2>7. \A n, k \in Nat : OnItsWay(n, k)' => OnItsWay(n, k)
    BY <1>2, <2>4 DEF OnItsWay
  <2>8. ~call[t].done
    BY <1>0 DEF TagInv, Answers
  <2> QED BY <2>1, <2>3, <2>4, <2>5, <2>6, <2>7, <2>8, OneCallTags
<1> QED BY <1>3, <1>4

\* A wait that ends, and an entry that is removed after it.
LEMMA WaitTags ==
  ASSUME TagInv, NEW t \in Callers, Wake(t) \/ Expire(t), UNCHANGED t2Vars PROVE TagInv'
<1>1. /\ call[t].pc = "wait" /\ Wake(t) => call[t].done
      /\ ~Wake(t) => ~call[t].done
      /\ UNCHANGED <<tag_num, pending_entries, sent, out, data, data_head, replies, plugged, io>>
  BY DEF Wake, Expire, outVars, inVars, t2Vars
<1>2. PICK place \in {"ok", "failed", "expired"} :
         /\ call' = [call EXCEPT ![t].pc = place]
         /\ place = "expired" <=> ~call[t].done
  <2>1. CASE Wake(t)
    BY <1>1, <2>1 DEF Wake
  <2>2. CASE Expire(t)
    BY <1>1, <2>2 DEF Expire
  <2> QED BY <2>1, <2>2
<1> DEFINE new == [call[t] EXCEPT !.pc = place]
<1>3. call[t] \in CallRecords /\ call \in [Callers -> CallRecords]
  BY DEF TagInv, TransportTypes
<1>4. /\ new.pc = place /\ new.tag = call[t].tag /\ new.id = call[t].id /\ new.done = call[t].done
      /\ new.got = call[t].got
  BY <1>3 DEF CallRecords
<1>5. new \in CallRecords
  BY <1>3 DEF CallRecords
<1>6. call' = [call EXCEPT ![t] = new]
  BY <1>2, <1>3
<1> HIDE DEF new
<1>7. call'[t] = new /\ \A u \in Callers \ {t} : call'[u] = call[u]
  BY <1>3, <1>6
<1>8. TransportTypes'
  BY <1>1, <1>5, <1>6 DEF TagInv, TransportTypes
<1>9. ASSUME NEW n \in Tags, pending_entries[n] = t PROVE ~call[t].done
  BY <1>9, Sizes DEF TagInv, RegisteredEntries
<1>10. \A n, k \in Nat : OnItsWay(n, k)' => OnItsWay(n, k)
  BY <1>1 DEF OnItsWay
<1>11. \A n \in Tags : pending_entries[n] = t => place = "expired"
  BY <1>2, <1>9
<1>12. place = "ok" => call[t].done
  BY <1>2
<1> QED BY <1>1, <1>2, <1>4, <1>7, <1>8, <1>9, <1>10, <1>11, <1>12, OneCallTags

LEMMA CleanUpTags ==
  ASSUME TagInv, NEW t \in Callers, CleanUp(t), UNCHANGED t2Vars PROVE TagInv'
<1>1. /\ call[t].pc = "expired" /\ call' = [call EXCEPT ![t].pc = "failed"]
      /\ pending_entries' = [pending_entries EXCEPT ![call[t].tag] = IF @ = t THEN None ELSE @]
      /\ UNCHANGED <<tag_num, sent, out, data, data_head, replies, plugged, io>>
  BY DEF CleanUp, outVars, inVars, t2Vars
<1> DEFINE new == [call[t] EXCEPT !.pc = "failed"]
<1>2. call[t] \in CallRecords /\ call \in [Callers -> CallRecords]
  BY DEF TagInv, TransportTypes
<1>3. /\ new.pc = "failed" /\ new.id = call[t].id /\ new.done = call[t].done
      /\ new.got = call[t].got
  BY <1>2 DEF CallRecords
<1>4. new \in CallRecords
  BY <1>2 DEF CallRecords
<1>5. call' = [call EXCEPT ![t] = new]
  BY <1>1, <1>2
<1> HIDE DEF new
<1>6. call'[t] = new /\ \A u \in Callers \ {t} : call'[u] = call[u]
  BY <1>2, <1>5
<1>7. \A n \in Tags : pending_entries'[n] # t /\ pending_entries'[n] \in {pending_entries[n], None}
  <2> SUFFICES ASSUME NEW n \in Tags
               PROVE  pending_entries'[n] # t /\ pending_entries'[n] \in {pending_entries[n], None}
    OBVIOUS
  <2>1. pending_entries[n] = t => n = call[t].tag
    BY Sizes DEF TagInv, RegisteredEntries
  <2> QED BY <1>1, <2>1, Sizes DEF TagInv, TransportTypes
<1>8. pending_entries' \in [Tags -> Callers \cup {None}]
  BY <1>1, <1>7 DEF TagInv, TransportTypes
<1>9. TransportTypes'
  <2>1. call' \in [Callers -> CallRecords]
    BY <1>2, <1>4, <1>5
  <2>2. UNCHANGED <<tag_num, sent, out, data, data_head, replies, plugged, io>>
    BY <1>1
  <2> QED BY <1>8, <2>1, <2>2 DEF TagInv, TransportTypes
<1>10. \A n, k \in Nat : OnItsWay(n, k)' => OnItsWay(n, k)
  BY <1>1 DEF OnItsWay
<1>11. NumberedMessages'
  BY <1>1, <1>10 DEF TagInv, NumberedMessages, Age
<1>12. RegisteredEntries'
  <2> SUFFICES ASSUME NEW n \in Tags, pending_entries'[n] # None
               PROVE  LET c == call'[pending_entries'[n]]
                      IN /\ c.pc \in {"wait", "expired"} /\ c.tag = n /\ ~c.done
                         /\ \A k \in Nat : OnItsWay(n, k)' => k = c.id \/ k <= c.id - TagCount
    BY DEF RegisteredEntries
  <2>1. pending_entries'[n] = pending_entries[n] /\ pending_entries[n] \in Callers \ {t}
    BY <1>7 DEF TagInv, TransportTypes
  <2>2. n \in Nat
    BY Sizes DEF Tags
  <2> QED BY <1>6, <1>10, <2>1, <2>2 DEF TagInv, RegisteredEntries
<1>13. Answers'
  BY <1>3, <1>6 DEF TagInv, Answers
<1> QED BY <1>9, <1>11, <1>12, <1>13 DEF TagInv

\* A reply goes to the call that used its tag last: it is its own, or a lap old.
LEMMA HandleReplyTags == ASSUME TagInv, HandleReply, UNCHANGED t2Vars PROVE TagInv'
<1> DEFINE m == Current
           n == m.tag
           t == pending_entries[n]
<1>1. /\ m.type = "reply"
      /\ call' = IF t = None THEN call ELSE [call EXCEPT ![t].done = TRUE, ![t].got = m]
      /\ pending_entries' = [pending_entries EXCEPT ![n] = None]
      /\ NextIn
      /\ UNCHANGED <<tag_num, sent, out, replies, plugged, io>>
  BY DEF HandleReply, Handling, outVars, t2Vars
<1>2. m = data[data_head] /\ data_head \in DataSlots /\ m \in MessageRecords
  BY DEF Current, TagInv, TransportTypes
<1> HIDE DEF m
<1>3. n \in Nat /\ m.id \in Nat
  BY <1>2 DEF MessageRecords
<1>4. OnItsWay(n, m.id) /\ n \in Tags
  BY <1>1, <1>2, <1>3 DEF OnItsWay, TagInv, NumberedMessages
<1>5. pending_entries' \in [Tags -> Callers \cup {None}]
  BY <1>1 DEF TagInv, TransportTypes
<1>6. pending_entries'[n] = None /\ \A i \in Tags \ {n} : pending_entries'[i] = pending_entries[i]
  BY <1>1, <1>4 DEF TagInv, TransportTypes
<1>7. \A i, k \in Nat : OnItsWay(i, k)' => OnItsWay(i, k)
  <2>1. \A i \in DataSlots : data'[i] = data[i] \/ data'[i].type = "none"
    BY <1>1, AfterNextIn DEF TagInv
  <2> QED BY <1>1, <2>1 DEF OnItsWay
<1>8. NumberedMessages'
  BY <1>1, <1>7 DEF TagInv, NumberedMessages, Age
<1>9. CASE t = None
  <2>1. TransportTypes'
    BY <1>1, <1>5, <1>9, AfterNextIn DEF TagInv, TransportTypes
  <2>2. call' = call
    BY <1>1, <1>9
  <2>3. RegisteredEntries'
    BY <1>6, <1>7, <2>2, Sizes DEF TagInv, RegisteredEntries, Tags
  <2>4. Answers'
    BY <2>2 DEF TagInv, Answers
  <2> QED BY <1>8, <2>1, <2>3, <2>4 DEF TagInv
<1>10. CASE t # None
  <2> DEFINE new == [call[t] EXCEPT !.done = TRUE, !.got = m]
  <2>1. t \in Callers
    BY <1>4, <1>10 DEF TagInv, TransportTypes
  <2>2. call[t] \in CallRecords /\ call \in [Callers -> CallRecords]
    BY <2>1 DEF TagInv, TransportTypes
  <2>3. /\ call[t].pc \in {"wait", "expired"} /\ call[t].tag = n
        /\ m.id = call[t].id \/ m.id <= call[t].id - TagCount
    BY <1>3, <1>4, <1>10 DEF TagInv, RegisteredEntries
  <2>4. new.pc = call[t].pc /\ new.id = call[t].id /\ new.done /\ new.got = m
    BY <2>2 DEF CallRecords
  <2>5. new \in CallRecords
    BY <1>2, <2>2 DEF CallRecords
  <2>6. call' = [call EXCEPT ![t] = new]
    BY <1>1, <1>10, <2>2
  <2> HIDE DEF new, t
  <2>7. call'[t] = new /\ \A u \in Callers \ {t} : call'[u] = call[u]
    BY <2>1, <2>2, <2>6
  <2>8. TransportTypes'
    BY <1>1, <1>5, <2>2, <2>5, <2>6, AfterNextIn DEF TagInv, TransportTypes
  <2>9. \A i \in Tags \ {n} : pending_entries[i] # t
    BY <1>10, <2>3 DEF TagInv, RegisteredEntries
  <2>10. RegisteredEntries'
    <3> SUFFICES ASSUME NEW i \in Tags, pending_entries'[i] # None
                 PROVE  LET c == call'[pending_entries'[i]]
                        IN /\ c.pc \in {"wait", "expired"} /\ c.tag = i /\ ~c.done
                           /\ \A k \in Nat : OnItsWay(i, k)' => k = c.id \/ k <= c.id - TagCount
      BY DEF RegisteredEntries
    <3>1. pending_entries'[i] = pending_entries[i] /\ pending_entries[i] \in Callers \ {t}
      BY <1>6, <2>9 DEF TagInv, TransportTypes
    <3>2. i \in Nat
      BY Sizes DEF Tags
    <3> QED BY <1>7, <2>7, <3>1, <3>2 DEF TagInv, RegisteredEntries
  <2>11. m.id = call[t].id \/ call[t].id - m.id >= TagCount
    BY <1>3, <2>2, <2>3, Sizes DEF CallRecords
  <2>12. Answers'
    BY <1>2, <2>3, <2>4, <2>7, <2>11 DEF TagInv, Answers
  <2> QED BY <1>8, <2>8, <2>10, <2>12 DEF TagInv
<1> QED BY <1>9, <1>10

\* The alive notification takes a tag from the commands, but no reply is due to it.
LEMMA HandleBootTags == ASSUME TagInv, HandleBoot, UNCHANGED t2Vars PROVE TagInv'
<1> DEFINE msg == Message("alive", None, CreateTag, sent + 1, None)
<1>1. /\ NextIn /\ SendFromIrq(msg)
      /\ UNCHANGED <<pending_entries, call, replies, plugged, io>>
      /\ \/ tag_num' = CreateTag /\ sent' = sent + 1
         \/ UNCHANGED <<tag_num, sent>>
  BY DEF HandleBoot, t2Vars
<1>2. /\ tag_num \in Tags /\ sent \in Nat /\ sent + 1 \in Nat /\ CreateTag \in Tags
      /\ CreateTag \in Nat
  BY NextTag, Sizes DEF TagInv, TransportTypes, Tags
<1>3. msg \in MessageRecords /\ msg.type = "alive" /\ msg.cmd = None
  BY <1>2 DEF Message, MessageRecords, MessageTypes
<1> HIDE DEF msg
<1>4. out' \in Seq(MessageRecords) /\ (out' = out \/ out' = Append(out, msg))
  BY <1>1, <1>3, AfterSendFromIrq DEF TagInv
<1>5. TransportTypes'
  BY <1>1, <1>2, <1>4, AfterNextIn DEF TagInv, TransportTypes
<1>6. \A n, k \in Nat : OnItsWay(n, k)' => OnItsWay(n, k)
  BY <1>1, <1>3, <1>4, OnItsWayFromIrq DEF TagInv
<1>7. CASE tag_num' = CreateTag /\ sent' = sent + 1
  <2>1. NumberedMessages'
    BY <1>6, <1>7, AgedNumbers DEF NumberedMessages
  <2>2. RegisteredEntries'
    BY <1>1, <1>6, Sizes DEF TagInv, RegisteredEntries, Tags
  <2>3. Answers'
    BY <1>1 DEF TagInv, Answers
  <2> QED BY <1>5, <2>1, <2>2, <2>3 DEF TagInv
<1>8. CASE UNCHANGED <<tag_num, sent>>
  BY <1>1, <1>5, <1>6, <1>8, QuietTags
<1> QED BY <1>1, <1>7, <1>8

\* The other messages of the T2.
LEMMA HandleOtherTags == ASSUME TagInv, HandleTimestamp \/ HandleChanged PROVE TagInv'
<1> DEFINE msg == Message("response", None, 0, 0, None)
<1>1. msg \in MessageRecords /\ msg.type = "response" /\ msg.cmd = None
  BY DEF Message, MessageRecords, MessageTypes
<1>2. /\ NextIn /\ UNCHANGED <<tag_num, pending_entries, call, sent, replies, plugged, io>>
      /\ SendFromIrq(msg) \/ out' = out
  BY DEF HandleTimestamp, HandleChanged, callVars, outVars, t2Vars
<1> HIDE DEF msg
<1>3. out' \in Seq(MessageRecords) /\ (out' = out \/ out' = Append(out, msg))
  BY <1>1, <1>2, AfterSendFromIrq DEF TagInv, TransportTypes
<1>4. TransportTypes'
  BY <1>2, <1>3, AfterNextIn DEF TagInv, TransportTypes
<1>5. \A n, k \in Nat : OnItsWay(n, k)' => OnItsWay(n, k)
  BY <1>1, <1>2, <1>3, OnItsWayFromIrq DEF TagInv
<1> QED BY <1>2, <1>4, <1>5, QuietTags

\* The T2 posts a message: a reply it owed, or one of another type.
LEMMA T2PostsTags ==
  ASSUME TagInv, NEW msg \in MessageRecords, T2Posts(msg),
         UNCHANGED <<tag_num, pending_entries, call, sent, out>>,
         replies' \subseteq replies, msg.type # "reply" \/ msg \in replies,
         plugged' \in BOOLEAN, io' = io
  PROVE  TagInv'
<1>1. PICK x : data' = [data EXCEPT ![x] = msg]
  BY DEF T2Posts
<1>2. \A i \in DataSlots : data'[i] = data[i] \/ data'[i] = msg
  BY <1>1 DEF TagInv, TransportTypes
<1>3. data' \in [DataSlots -> MessageRecords] /\ data_head' = data_head
  BY <1>1 DEF T2Posts, TagInv, TransportTypes
<1>4. TransportTypes'
  BY <1>3 DEF TagInv, TransportTypes
<1>5. \A n, k \in Nat : OnItsWay(n, k)' => OnItsWay(n, k)
  BY <1>2 DEF OnItsWay
<1> QED BY <1>4, <1>5, QuietTags

LEMMA T2RepliesTags == ASSUME TagInv, T2Replies, UNCHANGED t2Vars PROVE TagInv'
<1>1. PICK r \in replies : T2Posts(r) /\ replies' = replies \ {r}
  BY DEF T2Replies
<1>2. UNCHANGED <<tag_num, pending_entries, call, sent, out, plugged, io>>
  BY DEF T2Replies, callVars, outVars, t2Vars
<1> QED BY <1>1, <1>2, T2PostsTags DEF TagInv, TransportTypes

LEMMA T2SendsTags == ASSUME TagInv, T2Sends PROVE TagInv'
<1>1. UNCHANGED <<tag_num, pending_entries, call, sent, out, replies, io>>
  BY DEF T2Sends, callVars, outVars
<1>2. PICK msg \in MessageRecords : T2Posts(msg) /\ msg.type # "reply"
  <2>1. PICK type \in {"timestamp", "changed", "boot"}, val \in Nat \cup {None} :
           T2Posts(Message(type, None, 0, 0, val))
    BY DEF T2Sends, TagInv, TransportTypes
  <2>2. /\ Message(type, None, 0, 0, val) \in MessageRecords
        /\ Message(type, None, 0, 0, val).type # "reply"
    BY DEF Message, MessageRecords, MessageTypes
  <2> QED BY <2>1, <2>2
<1>3. plugged' \in BOOLEAN
  BY DEF T2Sends, TagInv, TransportTypes
<1> QED BY <1>1, <1>2, <1>3, T2PostsTags

\* The T2 takes a message: a command becomes the reply that is due to it.
LEMMA T2ServesTags == ASSUME TagInv, T2Serves PROVE TagInv'
<1> DEFINE m == Head(out)
           r == [m EXCEPT !.type = "reply", !.val = plugged]
<1>1. /\ out # <<>> /\ out' = Tail(out)
      /\ replies' = IF m.type # "command" THEN replies ELSE replies \cup {r}
      /\ UNCHANGED <<tag_num, pending_entries, call, sent, data, data_head, plugged>>
      /\ io' \in {m.id, None, io}
  BY DEF T2Serves, T2Takes, callVars, inVars
<1>2. /\ m = out[1] /\ 1 \in 1..Len(out) /\ m \in MessageRecords
      /\ Tail(out) \in Seq(MessageRecords)
      /\ \A i \in 1..Len(Tail(out)) : i + 1 \in 1..Len(out) /\ Tail(out)[i] = out[i + 1]
  BY <1>1 DEF TagInv, TransportTypes
<1> HIDE DEF m
<1>3. m.id \in Nat /\ r.tag = m.tag /\ r.id = m.id
  BY <1>2 DEF MessageRecords
<1>4. r \in MessageRecords
  BY <1>2 DEF MessageRecords, MessageTypes, TagInv, TransportTypes
<1> HIDE DEF r
<1>5. TransportTypes'
  BY <1>1, <1>2, <1>3, <1>4 DEF TagInv, TransportTypes
<1>6. \A n, k \in Nat : OnItsWay(n, k)' => OnItsWay(n, k)
  BY <1>1, <1>2, <1>3 DEF OnItsWay
<1> QED BY <1>1, <1>5, <1>6, QuietTags

\* What moves slots only.
LEMMA OtherTransportTags ==
  ASSUME TagInv, OutCompletion \/ SubmitPending, UNCHANGED t2Vars PROVE TagInv'
<1>1. UNCHANGED <<tag_num, pending_entries, call, sent, out, data, data_head, replies, plugged, io>>
  BY DEF OutCompletion, SubmitPending, callVars, outVars, inVars, t2Vars
<1>2. TransportTypes'
  BY <1>1 DEF TagInv, TransportTypes
<1>3. \A n, k \in Nat : OnItsWay(n, k)' => OnItsWay(n, k)
  BY <1>1 DEF OnItsWay
<1> QED BY <1>1, <1>2, <1>3, QuietTags

LEMMA NextTags == TagInv /\ [Next]_vars => TagInv'
<1> SUFFICES ASSUME TagInv, [Next]_vars PROVE TagInv'
  OBVIOUS
<1>1. CASE Untouched \/ UNCHANGED vars
  <2>1. UNCHANGED <<tag_num, pending_entries, call, sent, out, data, data_head, replies,
                    plugged, io>>
    BY <1>1 DEF Untouched, transportRest, vars, protocolVars, transportVars, callVars, outVars,
                inVars, streamVars, t2Vars
  <2>2. TransportTypes'
    BY <2>1 DEF TagInv, TransportTypes
  <2>3. \A n, k \in Nat : OnItsWay(n, k)' => OnItsWay(n, k)
    BY <2>1 DEF OnItsWay
  <2> QED BY <2>1, <2>2, <2>3, QuietTags
<1>2. CASE Transport /\ UNCHANGED t2Vars
  BY <1>2, WaitTags, SendTags, CleanUpTags, OtherTransportTags, HandleReplyTags,
     HandleBootTags, T2RepliesTags DEF Transport
<1> QED BY <1>1, <1>2, StreamSteps, CallBeginsTags, CallEndsTags, HandleOtherTags,
           T2ServesTags, T2SendsTags

LEMMA InitTags == Init => TagInv
<1> SUFFICES ASSUME Init PROVE TagInv
  OBVIOUS
<1> USE DEF Init, ProtocolInit
<1>1. TransportTypes
  <2>1. 0 \in Tags /\ 0 \in DataSlots
    BY Sizes DEF Tags, DataSlots
  <2>2. tag_num \in Tags /\ data_head \in DataSlots /\ sent \in Nat
    BY <2>1
  <2>3. pending_entries \in [Tags -> Callers \cup {None}]
    BY DEF Tags
  <2>4. call \in [Callers -> CallRecords] /\ data \in [DataSlots -> MessageRecords]
    BY NewCall
  <2>5. out \in Seq(MessageRecords) /\ replies \subseteq MessageRecords
    OBVIOUS
  <2>6. plugged \in BOOLEAN
    BY Zenon
  <2>7. io \in Nat \cup {None}
    OBVIOUS
  <2> QED BY <2>2, <2>3, <2>4, <2>5, <2>6, <2>7 DEF TransportTypes
<1>2. \A n, k \in Nat : ~OnItsWay(n, k)
  <2>1. Len(out) = 0 /\ replies = {} /\ \A i \in DataSlots : data[i].type = "none"
    BY NewCall
  <2> QED BY <2>1 DEF OnItsWay
<1>3. NumberedMessages
  BY <1>2 DEF NumberedMessages
<1>4. RegisteredEntries
  BY DEF RegisteredEntries, Tags
<1>5. Answers
  BY NewCall DEF Answers
<1> QED BY <1>1, <1>3, <1>4, <1>5 DEF TagInv

LEMMA TagInvariant == Spec => []TagInv
  BY InitTags, NextTags, PTL DEF Spec

\* aaudio_handle_reply never writes to an entry whose caller has returned, whatever
\* the order of timeout, reply and the tag's next use.
THEOREM EntriesAreAlive == Spec => []NoDanglingEntry
<1>1. TagInv => NoDanglingEntry
  BY DEF TagInv, TransportTypes, RegisteredEntries, NoDanglingEntry
<1> QED BY <1>1, TagInvariant, PTL

\* A call that succeeds has its own reply or one at least a lap of the tags older,
\* though boot notifications use up tags too.
THEOREM RepliesAreOwnOrALapLate == Spec => []LateByALap
<1>1. TagInv => LateByALap
  BY DEF TagInv, Answers, LateByALap
<1> QED BY <1>1, TagInvariant, PTL

-----------------------------------------------------------------------------
(* The period timer.                                                       *)

AlsaStates == {"closed", "open", "starting", "arming", "running", "stopping", "cancelling",
               "closing"}
Locks == {None, "app", "work", "ts"}

TimerInv ==
    /\ alsa \in AlsaStates
    /\ started \in BOOLEAN
    /\ period_timer \in {"off", "armed", "firing"}
    /\ period_work \in [queued : BOOLEAN, pc : {"idle", "elapsed"}]
    /\ no_period_wakeup \in BOOLEAN
    /\ alsa = "running" /\ started /\ ~no_period_wakeup => period_timer # "off"
    /\ alsa \notin {"running", "stopping", "cancelling"} \/ no_period_wakeup => period_timer = "off"
    /\ alsa = "closed" => period_work = Idle

LEMMA NextTimer == TimerInv /\ [Next]_vars => TimerInv'
<1> SUFFICES ASSUME TimerInv, [Next]_vars PROVE TimerInv'
  OBVIOUS
<1> USE DEF TimerInv, AlsaStates, Idle
<1>1. CASE UNCHANGED <<alsa, started, period_timer, period_work, no_period_wakeup>>
  BY <1>1
<1>2. CASE Open
  BY <1>2 DEF Open
<1>3. CASE Start
  BY <1>3 DEF Start, timerVars
<1>4. CASE StartDone
  BY <1>4 DEF StartDone
<1>5. ASSUME NEW h, StopBy(h) PROVE TimerInv'
  BY <1>5 DEF StopBy, timerVars
<1>6. CASE Stop
  BY <1>5, <1>6 DEF Stop
<1>7. CASE StopDone
  <2>1. CASE alsa = "stopping"
    <3>1. alsa' = "cancelling" /\ started' = FALSE /\ UNCHANGED timerVars
      BY <1>7, <2>1 DEF StopDone
    <3> QED BY <3>1 DEF timerVars
  <2>2. CASE alsa = "cancelling"
    <3>1. /\ alsa' = "open" /\ period_timer' = "off" /\ UNCHANGED <<started, no_period_wakeup>>
          /\ period_work' = period_work \/ period_work' = [period_work EXCEPT !.pc = "idle"]
      BY <1>7, <2>2 DEF StopDone
    <3>2. period_work' \in [queued : BOOLEAN, pc : {"idle", "elapsed"}]
      BY <3>1
    <3> QED BY <3>1, <3>2
  <2> QED BY <1>7, <2>1, <2>2 DEF StopDone
<1>8. CASE Close
  <2>1. CASE alsa = "open"
    BY <1>8, <2>1 DEF Close
  <2>2. CASE alsa = "closing"
    <3>1. /\ alsa' = "closed" /\ period_timer' = "off" /\ period_work' = Idle
          /\ started' = started /\ no_period_wakeup' = FALSE
      BY <1>8, <2>2 DEF Close
    <3> QED BY <3>1
  <2> QED BY <1>8, <2>1, <2>2 DEF Close
<1>9. CASE TimerFires
  BY <1>9 DEF TimerFires, pcmVars
<1>10. CASE TimerQueues
  BY <1>10 DEF TimerQueues, pcmVars
<1>11. CASE PeriodWork
  BY <1>11 DEF PeriodWork, pcmVars
<1>12. CASE PeriodElapsed
  BY <1>5, <1>12 DEF PeriodElapsed, pcmVars
<1>13. CASE TsElapsed
  BY <1>5, <1>13 DEF TsElapsed, pcmVars, timerVars
<1>14. CASE Quiesce
  BY <1>14 DEF Quiesce, timerVars
<1>15. CASE SuspendAll
  BY <1>15 DEF SuspendAll
<1>16. CASE HandleTimestamp \/ TsRun \/ TsApply \/ HandleChanged \/ IoStopped \/ SuspendResume
            \/ T2Serves \/ T2Sends
  BY <1>1, <1>16 DEF HandleTimestamp, TsRun, TsApply, HandleChanged, IoStopped, SuspendResume,
                     T2Serves, T2Sends, pcmVars, timerVars
<1>17. CASE \E j \in Jacks : JackAsk(j) \/ JackReport(j)
  BY <1>1, <1>17 DEF JackAsk, JackReport, pcmVars, timerVars
<1>18. CASE UNCHANGED streamVars
  BY <1>1, <1>18 DEF streamVars, pcmVars, timerVars
<1> QED BY <1>2, <1>3, <1>4, <1>6, <1>7, <1>8, <1>9, <1>10, <1>11, <1>12, <1>13, <1>14, <1>15,
           <1>16, <1>17, <1>18 DEF Next, vars

LEMMA InitTimer == Init => TimerInv
<1> SUFFICES ASSUME Init PROVE TimerInv
  OBVIOUS
<1>1. started \in BOOLEAN /\ ~started /\ no_period_wakeup \in BOOLEAN
  BY Zenon DEF Init
<1>2. period_work \in [queued : BOOLEAN, pc : {"idle", "elapsed"}]
  BY DEF Init, Idle
<1> QED BY <1>1, <1>2 DEF Init, TimerInv, AlsaStates

\* Whoever reads and writes started without the stream lock, a stream that runs has
\* its timer exactly when the application wants period wake-ups (pcm.c:276): every way
\* out of a run cancels the timer before the next start. And close leaves neither timer
\* nor work for the next open to write over.
THEOREM TimerRuns == Spec => []PeriodTimerRuns
<1>1. TimerInv => PeriodTimerRuns
  BY DEF TimerInv, PeriodTimerRuns
<1> QED BY <1>1, InitTimer, NextTimer, PTL DEF Spec

-----------------------------------------------------------------------------
(* The IO of the T2.                                                       *)

\* The T2 will be doing IO when it has carried out what is in its queue.
Going ==
    \/ \E i \in 1..Len(out) : /\ out[i].cmd = "start_io"
                              /\ \A k \in 1..Len(out) : k > i => out[k].cmd # "stop_io"
    \/ io # None /\ \A k \in 1..Len(out) : out[k].cmd # "stop_io"

IoTypes ==
    /\ alsa \in AlsaStates
    /\ lock \in Locks
    /\ started \in BOOLEAN
    /\ pc \in {"up", "stop", "suspend_all", "access_off", "asleep", "access_on"}
    /\ lastIo \in [sent : BOOLEAN, answered : BOOLEAN]
    /\ \A i \in 1..Len(out) : out[i].type # "command" => out[i].cmd = None

\* Who holds the stream lock, and what the application cannot be in while the system
\* suspends.
LockStages ==
    /\ alsa \in {"starting", "arming", "stopping", "cancelling"} <=> lock # None
    /\ alsa \in {"starting", "arming"} => lock = "app" /\ pc = "up"
    /\ pc # "up" => ~started

\* Who sends which commands, and which of them have been sent.
CallStages ==
    /\ call[stream].pc # "idle" => alsa \in {"starting", "stopping"}
    /\ alsa = "starting" => call[stream].pc # "idle" /\ call[stream].cmd = "start_io"
    /\ alsa = "stopping" => call[stream].pc # "idle" /\ call[stream].cmd = "stop_io"
    /\ call[pm].pc # "idle" => pc \in {"stop", "access_off", "access_on"}
    /\ pc = "stop" => call[pm].pc # "idle" /\ call[pm].cmd = "stop_io"
    /\ pc \in {"access_off", "access_on"} => call[pm].cmd = "access"
    /\ \A j \in Jacks : call[j].pc # "idle" => call[j].cmd = "get"
    /\ \A t \in Callers : call[t].pc \in {"idle", "send"} => call[t].id = 0

\* A command that was sent decides what the T2 will be doing; between commands that
\* follows started, if the last one was sent.
IoStages ==
    /\ alsa = "starting" /\ call[stream].id # 0 => Going
    /\ alsa = "stopping" /\ call[stream].id # 0 => ~Going
    /\ pc = "stop" /\ call[pm].id # 0 => ~Going
    /\ alsa \notin {"starting", "stopping"} /\ pc # "stop" /\ lastIo.sent => (Going <=> started)

IoInv ==
    /\ IoTypes
    /\ LockStages
    /\ CallStages
    /\ IoStages

\* None is neither a command nor a holder of the lock; the callers are distinct.
LEMMA Strings == None \notin Commands /\ None \notin {"app", "work", "ts"}
  BY StreamAssumption DEF Commands

LEMMA Callings ==
  /\ stream \in Callers /\ pm \in Callers /\ Jacks \subseteq Callers
  /\ stream # pm /\ stream \notin Jacks /\ pm \notin Jacks
  /\ \A t \in Callers : t = stream \/ t = pm \/ t \in Jacks
  BY StreamAssumption

\* What a message does to the IO once it is in the queue, ...
LEMMA GoingAppend ==
  ASSUME TransportTypes, NEW msg \in MessageRecords, out' = Append(out, msg), io' = io
  PROVE  /\ msg.cmd = "start_io" => Going'
         /\ msg.cmd = "stop_io" => ~Going'
         /\ msg.cmd \notin {"start_io", "stop_io"} => (Going' <=> Going)
<1>1. /\ Len(out) \in Nat /\ Len(out') = Len(out) + 1 /\ out'[Len(out) + 1] = msg
      /\ \A i \in 1..Len(out) : out'[i] = out[i]
  BY DEF TransportTypes
<1>2. 1..Len(out') = 1..Len(out) \cup {Len(out) + 1}
  BY <1>1
<1>3. CASE msg.cmd = "start_io"
  BY <1>1, <1>2, <1>3 DEF Going
<1>4. CASE msg.cmd = "stop_io"
  BY <1>1, <1>2, <1>4 DEF Going
<1>5. CASE msg.cmd \notin {"start_io", "stop_io"}
  BY <1>1, <1>2, <1>5 DEF Going
<1> QED BY <1>3, <1>4, <1>5

\* ... which does not change when the T2 carries it out.
LEMMA GoingServed == ASSUME TransportTypes, T2Serves PROVE Going' <=> Going
<1> DEFINE m == Head(out)
<1>1. /\ out # <<>> /\ out' = Tail(out)
      /\ io' = CASE m.cmd = "start_io" -> m.id [] m.cmd = "stop_io" -> None [] OTHER -> io
  BY DEF T2Serves, T2Takes
<1>2. /\ Len(out) \in Nat /\ Len(out) > 0 /\ m = out[1] /\ m.id \in Nat
      /\ Len(out') = Len(out) - 1
      /\ \A i \in 1..Len(out') : out'[i] = out[i + 1]
  <2>1. out \in Seq(MessageRecords)
    BY DEF TransportTypes
  <2>2. Len(out) \in Nat /\ Len(out) > 0 /\ m = out[1] /\ m \in MessageRecords
    BY <1>1, <2>1
  <2>3. Len(out') = Len(out) - 1 /\ \A i \in 1..Len(out') : out'[i] = out[i + 1]
    BY <1>1, <2>1, <2>2
  <2> QED BY <2>2, <2>3 DEF MessageRecords
<1> HIDE DEF m
<1>3. \A i \in 1..Len(out) : i = 1 \/ (i - 1 \in 1..Len(out') /\ out[i] = out'[i - 1])
  BY <1>2
<1>4. \A i \in 1..Len(out') : i + 1 \in 1..Len(out) /\ i + 1 > 1
  BY <1>2
\* A command that is not the first one is in the rest of the queue, and conversely.
<1>5. \A c \in Commands :
         (\A k \in 1..Len(out') : out'[k].cmd # c)
         <=> \A k \in 1..Len(out) : k > 1 => out[k].cmd # c
  BY <1>2, <1>3, <1>4
<1>6. (\E i \in 1..Len(out') : /\ out'[i].cmd = "start_io"
                               /\ \A k \in 1..Len(out') : k > i => out'[k].cmd # "stop_io")
      <=> \E i \in 1..Len(out) : /\ i > 1 /\ out[i].cmd = "start_io"
                                 /\ \A k \in 1..Len(out) : k > i => out[k].cmd # "stop_io"
  <2>1. ASSUME NEW i \in 1..Len(out'), out'[i].cmd = "start_io",
               \A k \in 1..Len(out') : k > i => out'[k].cmd # "stop_io"
        PROVE  /\ i + 1 \in 1..Len(out) /\ i + 1 > 1 /\ out[i + 1].cmd = "start_io"
               /\ \A k \in 1..Len(out) : k > i + 1 => out[k].cmd # "stop_io"
    <3>1. i + 1 \in 1..Len(out) /\ i + 1 > 1 /\ out[i + 1].cmd = "start_io"
      BY <1>2, <1>4, <2>1
    <3>2. ASSUME NEW k \in 1..Len(out), k > i + 1 PROVE out[k].cmd # "stop_io"
      <4>1. k - 1 \in 1..Len(out') /\ k - 1 > i /\ out[k] = out'[k - 1]
        BY <1>2, <1>3, <3>2
      <4> QED BY <2>1, <4>1
    <3> QED BY <3>1, <3>2
  <2>2. ASSUME NEW i \in 1..Len(out), i > 1, out[i].cmd = "start_io",
               \A k \in 1..Len(out) : k > i => out[k].cmd # "stop_io"
        PROVE  /\ i - 1 \in 1..Len(out') /\ out'[i - 1].cmd = "start_io"
               /\ \A k \in 1..Len(out') : k > i - 1 => out'[k].cmd # "stop_io"
    BY <1>2, <1>3, <1>4, <2>2
  <2> QED BY <2>1, <2>2
<1>7. 1 \in 1..Len(out) /\ \A k \in 1..Len(out) : k = 1 \/ k > 1
  BY <1>2
<1>8. CASE m.cmd = "start_io"
  <2>1. io' # None
    BY <1>1, <1>2, <1>8, Sizes
  <2> QED BY <1>2, <1>5, <1>6, <1>7, <1>8, <2>1 DEF Going, Commands
<1>9. CASE m.cmd = "stop_io"
  <2>1. io' = None
    BY <1>1, <1>9
  <2> QED BY <1>2, <1>5, <1>6, <1>7, <1>9, <2>1 DEF Going, Commands
<1>10. CASE m.cmd \notin {"start_io", "stop_io"}
  <2>1. io' = io
    BY <1>1, <1>10
  <2> QED BY <1>2, <1>5, <1>6, <1>7, <1>10, <2>1 DEF Going, Commands
<1> QED BY <1>8, <1>9, <1>10

\* The call of t begins, or is over; the others are not touched.
LEMMA AfterBegin ==
  ASSUME TransportTypes, NEW t \in Callers, NEW c \in Commands, Begin(t, c)
  PROVE  /\ ~InCall(t)
         /\ call'[t].pc = "send" /\ call'[t].cmd = c /\ call'[t].id = 0
         /\ \A u \in Callers \ {t} : call'[u] = call[u]
  BY NewCall DEF Begin, TransportTypes

LEMMA AfterEnd ==
  ASSUME TransportTypes, NEW t \in Callers, End(t)
  PROVE  /\ call'[t].pc = "idle" /\ call'[t].id = 0
         /\ \A u \in Callers \ {t} : call'[u] = call[u]
<1>1. NoCall.pc = "idle" /\ NoCall.id = 0
  BY DEF NoCall
<1> QED BY <1>1 DEF End, TransportTypes

\* Where no step of this kind leads from, Going is as before.
LEMMA SameGoing == UNCHANGED <<out, io>> => (Going' <=> Going)
  BY DEF Going

\* The application starts the stream, ...
LEMMA StartIo == ASSUME TagInv, IoInv, Start PROVE IoInv'
<1>1. /\ pc = "up" /\ lock = None /\ alsa = "open" /\ alsa' = "starting" /\ lock' = "app"
      /\ UNCHANGED <<out, io, started, pc, lastIo>> /\ Begin(stream, "start_io")
  BY DEF Start, App, notCall, outVars, t2Vars
<1>2. /\ call'[stream].pc = "send" /\ call'[stream].cmd = "start_io" /\ call'[stream].id = 0
      /\ \A u \in Callers \ {stream} : call'[u] = call[u]
  BY <1>1, AfterBegin, Callings DEF TagInv, Commands
<1>3. IoTypes' /\ LockStages'
  BY <1>1, Strings DEF IoInv, IoTypes, LockStages, AlsaStates, Locks
<1>4. CallStages'
  BY <1>1, <1>2, Callings DEF IoInv, CallStages
<1>5. IoStages'
  BY <1>1, <1>2 DEF IoStages
<1> QED BY <1>3, <1>4, <1>5 DEF IoInv

\* ... and goes on whether or not the command was sent.
LEMMA StartDoneIo == ASSUME TagInv, IoInv, StartDone PROVE IoInv'
<1>1. UNCHANGED <<out, io, pc>> /\ (Going' <=> Going)
  BY SameGoing DEF StartDone, notCall, outVars, t2Vars
<1>2. CASE alsa = "starting"
  <2>1. /\ alsa' = "arming" /\ started' /\ lock' = lock /\ lastIo' = IoResult(stream)
        /\ started' \in BOOLEAN /\ End(stream)
    BY <1>2 DEF StartDone
  <2>2. /\ lastIo' \in [sent : BOOLEAN, answered : BOOLEAN]
        /\ lastIo'.sent <=> call[stream].id # 0
    BY <2>1 DEF IoResult, Answered
  <2>3. call'[stream].pc = "idle" /\ call'[stream].id = 0
        /\ \A u \in Callers \ {stream} : call'[u] = call[u]
    BY <2>1, AfterEnd, Callings DEF TagInv
  <2>4. IoTypes' /\ LockStages'
    BY <1>1, <1>2, <2>1, <2>2 DEF IoInv, IoTypes, LockStages, AlsaStates
  <2>5. CallStages'
    BY <1>1, <1>2, <2>1, <2>3, Callings DEF IoInv, CallStages, LockStages
  <2>6. pc' = "up"
    BY <1>1, <1>2 DEF IoInv, LockStages
  <2>7. IoStages'
    BY <1>1, <1>2, <2>1, <2>2, <2>6 DEF IoInv, IoStages
  <2> QED BY <2>4, <2>5, <2>7 DEF IoInv
<1>3. CASE alsa = "arming"
  <2>1. alsa' = "running" /\ lock' = None /\ UNCHANGED <<started, lastIo, call>>
    BY <1>3 DEF StartDone
  <2>2. IoTypes' /\ LockStages'
    BY <1>1, <1>3, <2>1 DEF IoInv, IoTypes, LockStages, AlsaStates, Locks
  <2>3. CallStages'
    BY <1>1, <1>3, <2>1 DEF IoInv, CallStages
  <2>4. IoStages'
    BY <1>1, <1>3, <2>1 DEF IoInv, IoStages
  <2> QED BY <2>2, <2>3, <2>4 DEF IoInv
<1> QED BY <1>2, <1>3 DEF StartDone

\* The stream is stopped, by the application or by a work.
LEMMA StopByIo ==
  ASSUME TagInv, IoInv, NEW h \in {"app", "work", "ts"}, StopBy(h) PROVE IoInv'
<1>1. /\ lock = None /\ alsa = "running" /\ alsa' = "stopping" /\ lock' = h
      /\ UNCHANGED <<out, io, started, pc, lastIo>> /\ Begin(stream, "stop_io")
  BY DEF StopBy, notCall, outVars, t2Vars
<1>2. /\ call'[stream].pc = "send" /\ call'[stream].cmd = "stop_io" /\ call'[stream].id = 0
      /\ \A u \in Callers \ {stream} : call'[u] = call[u]
  BY <1>1, AfterBegin, Callings DEF TagInv, Commands
<1>3. Going' <=> Going
  BY <1>1, SameGoing
<1>4. IoTypes' /\ LockStages'
  BY <1>1, Strings DEF IoInv, IoTypes, LockStages, AlsaStates, Locks
<1>5. CallStages'
  BY <1>1, <1>2, Callings DEF IoInv, CallStages
<1>6. IoStages'
  BY <1>1, <1>2, <1>3, Callings DEF IoInv, IoStages
<1> QED BY <1>4, <1>5, <1>6 DEF IoInv

LEMMA StopDoneIo == ASSUME TagInv, IoInv, StopDone PROVE IoInv'
<1>1. UNCHANGED <<out, io, pc>> /\ (Going' <=> Going)
  BY SameGoing DEF StopDone, notCall, protocolVars, transportVars, outVars, t2Vars
<1>2. CASE alsa = "stopping"
  <2>1. /\ alsa' = "cancelling" /\ ~started' /\ lock' = lock /\ lastIo' = IoResult(stream)
        /\ started' \in BOOLEAN /\ End(stream)
    BY <1>2 DEF StopDone
  <2>2. /\ lastIo' \in [sent : BOOLEAN, answered : BOOLEAN]
        /\ lastIo'.sent <=> call[stream].id # 0
    BY <2>1 DEF IoResult, Answered
  <2>3. /\ call'[stream].pc = "idle" /\ call'[stream].id = 0
        /\ \A u \in Callers \ {stream} : call'[u] = call[u]
    BY <2>1, AfterEnd, Callings DEF TagInv
  <2>4. IoTypes' /\ LockStages'
    BY <1>1, <1>2, <2>1, <2>2 DEF IoInv, IoTypes, LockStages, AlsaStates
  <2>5. CallStages'
    BY <1>1, <1>2, <2>1, <2>3, Callings DEF IoInv, CallStages
  <2>6. IoStages'
    BY <1>1, <1>2, <2>1, <2>2, <2>3, Callings DEF IoInv, IoStages
  <2> QED BY <2>4, <2>5, <2>6 DEF IoInv
<1>3. CASE alsa = "cancelling"
  <2>1. alsa' = "open" /\ lock' = None /\ UNCHANGED <<started, lastIo, call>>
    BY <1>3 DEF StopDone, protocolVars, transportVars, callVars
  <2>2. IoTypes' /\ LockStages'
    BY <1>1, <1>3, <2>1 DEF IoInv, IoTypes, LockStages, AlsaStates, Locks
  <2>3. CallStages'
    BY <1>1, <1>3, <2>1 DEF IoInv, CallStages
  <2>4. IoStages'
    BY <1>1, <1>3, <2>1 DEF IoInv, IoStages
  <2> QED BY <2>2, <2>3, <2>4 DEF IoInv
<1> QED BY <1>2, <1>3 DEF StopDone

\* Steps that change no command and no result, only how far a call has got, and what
\* the queue holds besides.
LEMMA QuietIo ==
  ASSUME IoInv, UNCHANGED <<lock, started, pc, lastIo>>, Going' <=> Going,
         alsa' = alsa \/ (alsa \in {"closed", "open", "closing"}
                          /\ alsa' \in {"closed", "open", "closing"}),
         \A i \in 1..Len(out') : out'[i].type # "command" => out'[i].cmd = None,
         \A t \in Callers :
             /\ call'[t].cmd = call[t].cmd /\ call'[t].id = call[t].id
             /\ call'[t].pc = "idle" <=> call[t].pc = "idle"
             /\ call'[t].pc = "send" => call[t].pc = "send"
  PROVE  IoInv'
<1>1. IoTypes' /\ LockStages'
  BY DEF IoInv, IoTypes, LockStages, AlsaStates
<1>2. CallStages'
  BY Callings DEF IoInv, CallStages
<1>3. IoStages'
  BY Callings DEF IoInv, IoStages
<1> QED BY <1>1, <1>2, <1>3 DEF IoInv

\* Suspend marks a stream that runs stopped, and stops its IO.
LEMMA QuiesceIo == ASSUME TagInv, IoInv, Quiesce PROVE IoInv'
<1>1. /\ pc = "up" /\ lock # "app" /\ ~started' /\ started' \in BOOLEAN
      /\ UNCHANGED <<out, io, alsa, lock, lastIo>> /\ (Going' <=> Going)
  BY SameGoing DEF Quiesce, outVars, t2Vars
<1>2. IoTypes' /\ LockStages'
  BY <1>1 DEF Quiesce, IoInv, IoTypes, LockStages, AlsaStates
<1>3. CASE started
  <2>1. pc' = "stop" /\ Begin(pm, "stop_io")
    BY <1>3 DEF Quiesce
  <2>2. /\ call'[pm].pc = "send" /\ call'[pm].cmd = "stop_io" /\ call'[pm].id = 0
        /\ \A u \in Callers \ {pm} : call'[u] = call[u]
    BY <2>1, AfterBegin, Callings DEF TagInv, Commands
  <2>3. CallStages'
    BY <1>1, <2>1, <2>2, Callings DEF IoInv, CallStages
  <2>4. IoStages'
    BY <1>1, <2>1, <2>2, Callings DEF IoInv, IoStages
  <2> QED BY <1>2, <2>3, <2>4 DEF IoInv
<1>4. CASE ~started
  <2>1. pc' = "suspend_all" /\ call' = call
    BY <1>4 DEF Quiesce
  <2>2. CallStages'
    BY <1>1, <2>1 DEF IoInv, CallStages
  <2>3. IoStages'
    BY <1>1, <1>4, <2>1 DEF IoInv, IoStages
  <2> QED BY <1>2, <2>2, <2>3 DEF IoInv
<1> QED BY <1>3, <1>4

LEMMA IoStoppedIo == ASSUME TagInv, IoInv, IoStopped PROVE IoInv'
<1>1. /\ pc = "stop" /\ pc' = "suspend_all" /\ lastIo' = IoResult(pm) /\ End(pm)
      /\ UNCHANGED <<out, io, alsa, lock, started>> /\ (Going' <=> Going)
  BY SameGoing DEF IoStopped, notCall, outVars, t2Vars, pcmVars
<1>2. /\ lastIo' \in [sent : BOOLEAN, answered : BOOLEAN]
      /\ lastIo'.sent <=> call[pm].id # 0
  BY <1>1 DEF IoResult, Answered
<1>3. call'[pm].pc = "idle" /\ call'[pm].id = 0 /\ \A u \in Callers \ {pm} : call'[u] = call[u]
  BY <1>1, AfterEnd, Callings DEF TagInv
<1>4. IoTypes' /\ LockStages'
  BY <1>1, <1>2 DEF IoInv, IoTypes, LockStages, AlsaStates
<1>5. CallStages'
  BY <1>1, <1>3, Callings DEF IoInv, CallStages
<1>6. IoStages'
  BY <1>1, <1>2, <1>3, Callings DEF IoInv, IoStages, LockStages
<1> QED BY <1>4, <1>5, <1>6 DEF IoInv

\* The rest of suspend and resume sends commands that are not about IO.
LEMMA SuspendIo == ASSUME TagInv, IoInv, SuspendAll \/ SuspendResume PROVE IoInv'
<1>1. /\ UNCHANGED <<out, io, lock, started, lastIo>> /\ (Going' <=> Going)
      /\ pc' # "stop" /\ pc # "stop" /\ pc # "up"
      /\ alsa' = alsa \/ (SuspendAll /\ alsa = "running" /\ alsa' = "open")
  BY SameGoing DEF SuspendAll, SuspendResume, notCall, outVars, t2Vars, pcmVars, End, Begin
<1>2. IoTypes'
  BY <1>1 DEF SuspendAll, SuspendResume, IoInv, IoTypes, AlsaStates
<1>3. LockStages'
  BY <1>1 DEF IoInv, LockStages
<1>4. (\A u \in Callers \ {pm} : call'[u] = call[u]) => IoStages'
  BY <1>1, Callings DEF IoInv, IoStages
<1>5. CASE \/ SuspendAll
           \/ SuspendResume /\ pc = "asleep"
  <2>1. Begin(pm, "access") /\ pc' \in {"access_off", "access_on"}
    BY <1>5 DEF SuspendAll, SuspendResume
  <2>2. /\ call'[pm].pc = "send" /\ call'[pm].cmd = "access" /\ call'[pm].id = 0
        /\ \A u \in Callers \ {pm} : call'[u] = call[u]
    BY <2>1, AfterBegin, Callings DEF TagInv, Commands
  <2>3. CallStages'
    BY <1>1, <2>1, <2>2, Callings DEF IoInv, CallStages
  <2> QED BY <1>2, <1>3, <1>4, <2>2, <2>3 DEF IoInv
<1>6. CASE SuspendResume /\ pc # "asleep"
  <2>1. End(pm) /\ pc' \in {"asleep", "up"}
    BY <1>6 DEF SuspendResume
  <2>2. call'[pm].pc = "idle" /\ call'[pm].id = 0 /\ \A u \in Callers \ {pm} : call'[u] = call[u]
    BY <2>1, AfterEnd, Callings DEF TagInv
  <2>3. CallStages'
    BY <1>1, <2>1, <2>2, Callings DEF IoInv, CallStages
  <2> QED BY <1>2, <1>3, <1>4, <2>2, <2>3 DEF IoInv
<1> QED BY <1>5, <1>6

LEMMA JackIo == ASSUME TagInv, IoInv, NEW j \in Jacks, JackAsk(j) \/ JackReport(j) PROVE IoInv'
<1>1. /\ UNCHANGED <<out, io, alsa, lock, started, pc, lastIo>> /\ (Going' <=> Going)
      /\ Begin(j, "get") \/ End(j)
  BY SameGoing DEF JackAsk, JackReport, notCall, outVars, t2Vars, pcmVars
<1>2. /\ \A u \in Callers \ {j} : call'[u] = call[u]
      /\ call'[j].id = 0 /\ (call'[j].pc = "idle" \/ call'[j].cmd = "get")
  BY <1>1, AfterBegin, AfterEnd, Callings DEF TagInv, Commands
<1>3. IoTypes' /\ LockStages'
  BY <1>1 DEF IoInv, IoTypes, LockStages, AlsaStates
<1>4. CallStages'
  BY <1>1, <1>2, Callings DEF IoInv, CallStages
<1>5. IoStages'
  BY <1>1, <1>2, Callings DEF IoInv, IoStages
<1> QED BY <1>3, <1>4, <1>5 DEF IoInv

\* A command is put in the queue, or there is no room for it.
LEMMA SendIo == ASSUME TagInv, IoInv, NEW t \in Callers, Send(t), UNCHANGED streamVars PROVE IoInv'
<1>1. /\ call[t].pc = "send" /\ call \in [Callers -> CallRecords] /\ call[t] \in CallRecords
      /\ sent \in Nat /\ CreateTag \in Nat
  BY NextTag, Sizes DEF Send, TagInv, TransportTypes, Tags
<1>2. UNCHANGED <<alsa, lock, started, pc, lastIo, io>>
  BY DEF streamVars, pcmVars, t2Vars
<1>3. CASE Available > 0
  <2> DEFINE msg == Message("command", call[t].cmd, CreateTag, sent + 1, None)
             new == [call[t] EXCEPT !.pc = "wait", !.tag = CreateTag, !.id = sent + 1]
  <2>1. msg \in MessageRecords /\ msg.type = "command" /\ msg.cmd = call[t].cmd
    BY <1>1 DEF Message, MessageRecords, MessageTypes, CallRecords
  <2>2. new.pc = "wait" /\ new.cmd = call[t].cmd /\ new.id # 0
    BY <1>1 DEF CallRecords
  <2>3. out' = Append(out, msg) /\ call' = [call EXCEPT ![t] = new]
    BY <1>1, <1>3 DEF Send
  <2> HIDE DEF msg, new
  <2>4. call'[t] = new /\ \A u \in Callers \ {t} : call'[u] = call[u]
    BY <1>1, <2>3
  <2>5. \A i \in 1..Len(out') : out'[i].type # "command" => out'[i].cmd = None
    BY <2>1, <2>3 DEF TagInv, TransportTypes, IoInv, IoTypes
  <2>6. IoTypes' /\ LockStages'
    BY <1>2, <2>5 DEF IoInv, IoTypes, LockStages
  <2>7. CallStages'
    BY <1>1, <1>2, <2>2, <2>4, Callings DEF IoInv, CallStages
  <2>8. /\ msg.cmd = "start_io" => Going'
        /\ msg.cmd = "stop_io" => ~Going'
        /\ msg.cmd \notin {"start_io", "stop_io"} => (Going' <=> Going)
    BY <1>2, <2>1, <2>3, GoingAppend DEF TagInv
  <2>9. CASE t = stream
    <3>1. alsa \in {"starting", "stopping"}
      BY <1>1, <2>9 DEF IoInv, CallStages
    <3>2. CASE alsa = "starting"
      <4>1. call[stream].cmd = "start_io" /\ pc = "up"
        BY <1>1, <2>9, <3>2 DEF IoInv, CallStages, LockStages
      <4>2. IoStages'
        BY <1>2, <2>1, <2>4, <2>8, <2>9, <3>2, <4>1, Callings DEF IoInv, IoStages, LockStages
      <4> QED BY <2>6, <2>7, <4>2 DEF IoInv
    <3>3. CASE alsa = "stopping"
      <4>1. call[stream].cmd = "stop_io"
        BY <1>1, <2>9, <3>3 DEF IoInv, CallStages
      <4>2. IoStages'
        BY <1>2, <2>1, <2>4, <2>8, <2>9, <3>3, <4>1, Callings DEF IoInv, IoStages, LockStages
      <4> QED BY <2>6, <2>7, <4>2 DEF IoInv
    <3> QED BY <3>1, <3>2, <3>3
  <2>10. CASE t = pm
    <3>1. call[pm].cmd = IF pc = "stop" THEN "stop_io" ELSE "access"
      BY <1>1, <2>10 DEF IoInv, CallStages
    <3>2. pc # "up"
      BY <1>1, <2>10 DEF IoInv, CallStages
    <3>3. IoStages'
      BY <1>2, <2>1, <2>4, <2>8, <2>10, <3>1, <3>2, Callings DEF IoInv, IoStages, LockStages
    <3> QED BY <2>6, <2>7, <3>3 DEF IoInv
  <2>11. CASE t \in Jacks
    <3>1. call[t].cmd = "get"
      BY <1>1, <2>11 DEF IoInv, CallStages
    <3>2. IoStages'
      BY <1>2, <2>1, <2>4, <2>8, <2>11, <3>1, Callings DEF IoInv, IoStages
    <3> QED BY <2>6, <2>7, <3>2 DEF IoInv
  <2> QED BY <2>6, <2>7, <2>9, <2>10, <2>11, Callings DEF IoInv
<1>4. CASE ~(Available > 0)
  <2>1. out' = out /\ call' = [call EXCEPT ![t].pc = "failed"]
    BY <1>4 DEF Send
  <2>2. \A u \in Callers : /\ call'[u].cmd = call[u].cmd /\ call'[u].id = call[u].id
                           /\ call'[u].pc = IF u = t THEN "failed" ELSE call[u].pc
    BY <1>1, <2>1 DEF CallRecords, TagInv, TransportTypes
  <2>3. Going' <=> Going
    BY <1>2, <2>1, SameGoing
  <2>4. \A i \in 1..Len(out') : out'[i].type # "command" => out'[i].cmd = None
    BY <2>1 DEF IoInv, IoTypes
  <2> QED BY <1>1, <1>2, <2>2, <2>3, <2>4, QuietIo
<1> QED BY <1>3, <1>4

\* Calls that go on, without a message.
LEMMA CallsIo ==
  ASSUME TagInv, IoInv, UNCHANGED <<alsa, lock, started, pc, lastIo, out, io>>,
         \/ \E t \in Callers : Wake(t) \/ Expire(t) \/ CleanUp(t)
         \/ HandleReply \/ UNCHANGED call
  PROVE  IoInv'
<1>1. /\ call \in [Callers -> CallRecords]
      /\ \A u \in Callers : call[u] \in CallRecords
      /\ \A n \in Tags : pending_entries[n] # None =>
            pending_entries[n] \in Callers /\ call[pending_entries[n]].pc \in {"wait", "expired"}
  BY DEF TagInv, TransportTypes, RegisteredEntries
<1>2. \A u \in Callers : /\ call'[u].cmd = call[u].cmd /\ call'[u].id = call[u].id
                         /\ call'[u].pc = "idle" <=> call[u].pc = "idle"
                         /\ call'[u].pc = "send" => call[u].pc = "send"
  <2>1. ASSUME NEW t \in Callers, Wake(t) \/ Expire(t) \/ CleanUp(t)
        PROVE  \E place \in {"ok", "failed", "expired"} :
                  call[t].pc \in {"wait", "expired"} /\ call' = [call EXCEPT ![t].pc = place]
    BY <2>1 DEF Wake, Expire, CleanUp
  <2>2. CASE \E t \in Callers : Wake(t) \/ Expire(t) \/ CleanUp(t)
    BY <1>1, <2>1, <2>2 DEF CallRecords
  <2>3. CASE HandleReply
    <3> DEFINE m == Current
               t == pending_entries[m.tag]
    <3>1. call' = IF t = None THEN call ELSE [call EXCEPT ![t].done = TRUE, ![t].got = m]
      BY <2>3 DEF HandleReply
    <3> HIDE DEF m, t
    <3>2. CASE t = None \/ t \notin Callers
      BY <1>1, <3>1, <3>2
    <3>3. CASE t \in Callers
      BY <1>1, <3>1, <3>3, Sizes DEF CallRecords
    <3> QED BY <3>2, <3>3
  <2>4. CASE UNCHANGED call
    BY <2>4
  <2> QED BY <2>2, <2>3, <2>4
<1>3. \A i \in 1..Len(out') : out'[i].type # "command" => out'[i].cmd = None
  BY DEF IoInv, IoTypes
<1> QED BY <1>2, <1>3, SameGoing, QuietIo

\* Messages from the interrupt thread are no commands.
LEMMA IrqMessagesIo ==
  ASSUME TagInv, IoInv, HandleBoot \/ HandleTimestamp,
         UNCHANGED <<alsa, lock, started, pc, lastIo, call, io>>
  PROVE  IoInv'
<1>1. PICK msg \in MessageRecords :
         SendFromIrq(msg) /\ msg.type \in {"alive", "response"} /\ msg.cmd = None
  <2> DEFINE m1 == Message("alive", None, CreateTag, sent + 1, None)
             m2 == Message("response", None, 0, 0, None)
  <2>1. CreateTag \in Nat /\ sent + 1 \in Nat
    BY NextTag, Sizes DEF TagInv, TransportTypes, Tags
  <2>2. /\ m1 \in MessageRecords /\ m1.type = "alive" /\ m1.cmd = None
        /\ m2 \in MessageRecords /\ m2.type = "response" /\ m2.cmd = None
    BY <2>1 DEF Message, MessageRecords, MessageTypes
  <2>3. SendFromIrq(m1) \/ SendFromIrq(m2)
    BY DEF HandleBoot, HandleTimestamp
  <2> QED BY <2>2, <2>3
<1>2. out' = out \/ out' = Append(out, msg)
  BY <1>1, AfterSendFromIrq DEF TagInv
<1>3. Going' <=> Going
  BY <1>1, <1>2, SameGoing, GoingAppend, Strings DEF TagInv, Commands
<1>4. \A i \in 1..Len(out') : out'[i] = msg \/ (i \in 1..Len(out) /\ out'[i] = out[i])
  BY <1>2 DEF TagInv, TransportTypes
<1>5. \A i \in 1..Len(out') : out'[i].type # "command" => out'[i].cmd = None
  BY <1>1, <1>4 DEF IoInv, IoTypes
<1> QED BY <1>3, <1>5, QuietIo

LEMMA T2ServesIo == ASSUME TagInv, IoInv, T2Serves PROVE IoInv'
<1>1. /\ UNCHANGED <<alsa, lock, started, pc, lastIo, call>>
      /\ out # <<>> /\ out' = Tail(out)
  BY DEF T2Serves, T2Takes, callVars, pcmVars
<1>2. \A i \in 1..Len(out') : i + 1 \in 1..Len(out) /\ out'[i] = out[i + 1]
  BY <1>1 DEF TagInv, TransportTypes
<1>3. \A i \in 1..Len(out') : out'[i].type # "command" => out'[i].cmd = None
  BY <1>2 DEF IoInv, IoTypes
<1> QED BY <1>1, <1>3, GoingServed, QuietIo DEF TagInv

LEMMA NextIo == TagInv /\ IoInv /\ [Next]_vars => IoInv'
<1> SUFFICES ASSUME TagInv, IoInv, [Next]_vars PROVE IoInv'
  OBVIOUS
<1> USE DEF streamVars, pcmVars, t2Vars, outVars, callVars, protocolVars, transportVars
<1>1. CASE Transport /\ UNCHANGED streamVars
  <2>1. ASSUME NEW t \in Callers, Send(t) PROVE IoInv'
    BY <1>1, <2>1, SendIo
  <2>2. ASSUME NEW t \in Callers, Wake(t) \/ Expire(t) \/ CleanUp(t) PROVE IoInv'
    <3>1. UNCHANGED out
      BY <2>2 DEF Wake, Expire, CleanUp
    <3> QED BY <1>1, <2>2, <3>1, CallsIo
  <2>3. CASE OutCompletion \/ HandleReply \/ SubmitPending \/ T2Replies
    <3>1. UNCHANGED out /\ (HandleReply \/ UNCHANGED call)
      BY <2>3 DEF OutCompletion, HandleReply, SubmitPending, T2Replies
    <3> QED BY <1>1, <3>1, CallsIo
  <2>4. CASE HandleBoot
    <3>1. UNCHANGED call
      BY <2>4 DEF HandleBoot
    <3> QED BY <1>1, <2>4, <3>1, IrqMessagesIo
  <2> QED BY <1>1, <2>1, <2>2, <2>3, <2>4 DEF Transport
<1>2. CASE UNCHANGED vars
  BY <1>2, CallsIo DEF vars
<1>3. CASE Open \/ Close
  <2>1. /\ UNCHANGED <<lock, started, pc, lastIo, call, out, io>>
        /\ alsa \in {"closed", "open", "closing"} /\ alsa' \in {"closed", "open", "closing"}
    BY <1>3 DEF Open, Close
  <2>2. \A i \in 1..Len(out') : out'[i].type # "command" => out'[i].cmd = None
    BY <2>1 DEF IoInv, IoTypes
  <2> QED BY <2>1, <2>2, SameGoing, QuietIo
<1>4. CASE TimerFires \/ TimerQueues \/ PeriodWork \/ TsRun \/ TsApply \/ HandleChanged \/ T2Sends
  <2>1. UNCHANGED <<alsa, lock, started, pc, lastIo, call, out, io>>
    BY <1>4 DEF TimerFires, TimerQueues, PeriodWork, TsRun, TsApply, HandleChanged, T2Sends
  <2> QED BY <2>1, CallsIo
<1>5. CASE HandleTimestamp
  BY <1>5, IrqMessagesIo DEF HandleTimestamp
<1>6. CASE Stop \/ PeriodElapsed \/ TsElapsed
  <2>1. \/ \E h \in {"app", "work", "ts"} : StopBy(h)
        \/ UNCHANGED <<alsa, lock, started, pc, lastIo, call, out, io>>
    BY <1>6 DEF Stop, PeriodElapsed, TsElapsed
  <2> QED BY <2>1, StopByIo, CallsIo
<1> QED BY <1>1, <1>2, <1>3, <1>4, <1>5, <1>6, StartIo, StartDoneIo, StopDoneIo, QuiesceIo,
           IoStoppedIo, SuspendIo, JackIo, T2ServesIo DEF Next

LEMMA InitIo == Init => IoInv
<1> SUFFICES ASSUME Init PROVE IoInv
  OBVIOUS
<1> USE DEF Init, ProtocolInit
<1>1. started \in BOOLEAN /\ ~started
  BY Zenon
<1>2. lastIo \in [sent : BOOLEAN, answered : BOOLEAN]
  OBVIOUS
<1>3. Len(out) = 0
  OBVIOUS
<1>4. IoTypes /\ LockStages
  BY <1>1, <1>2, <1>3 DEF IoTypes, LockStages, AlsaStates, Locks
<1>5. \A t \in Callers : call[t].pc = "idle" /\ call[t].id = 0
  BY DEF NoCall
<1>6. CallStages
  BY <1>5, Callings DEF CallStages
<1>7. ~Going
  BY <1>3 DEF Going
<1>8. IoStages
  BY <1>1, <1>5, <1>7, Callings DEF IoStages
<1> QED BY <1>4, <1>6, <1>8 DEF IoInv

LEMMA IoInvariant == Spec => []IoInv
<1>1. Spec => [][Next]_vars
  BY PTL DEF Spec
<1> QED BY <1>1, InitIo, NextIo, TagInvariant, PTL DEF Spec

\* Whoever starts and stops the stream, and however many commands time out: when all
\* commands have been carried out the T2 does IO exactly for a started stream, unless
\* the last command found no room in the queue.
THEOREM IoIsAsStarted == Spec => []IoFollowsStarted
<1>1. TagInv /\ IoInv => IoFollowsStarted
  <2> SUFFICES ASSUME TagInv, IoInv, lock = None, pc # "stop", lastIo.sent,
                      \A i \in DOMAIN out : out[i].type # "command"
               PROVE  (io # None) = started
    BY DEF IoFollowsStarted
  <2>1. DOMAIN out = 1..Len(out) /\ \A i \in 1..Len(out) : out[i].cmd = None
    BY DEF TagInv, TransportTypes, IoInv, IoTypes
  <2>2. Going <=> io # None
    BY <2>1, Strings DEF Going, Commands
  <2>3. Going <=> started
    BY DEF IoInv, IoStages, LockStages
  <2>4. started \in BOOLEAN
    BY DEF IoInv, IoTypes
  <2> QED BY <2>2, <2>3, <2>4
<1> QED BY <1>1, TagInvariant, IoInvariant, PTL

-----------------------------------------------------------------------------
(* The data slots of the in-queue.                                         *)

Wrap(n) == IF n < ElementCount THEN n ELSE n - ElementCount

\* Around the ring lie what was posted, from data_head on, what is lent, and from
\* data_tail on what was handled and is to be lent again; only the first holds
\* messages.
SlotInv ==
    /\ posted \in Seq(DataSlots) /\ lent \in Seq(DataSlots) /\ data_tail \in DataSlots
    /\ irq \in [pc : {"idle", "loop"}, cnt : Nat]
    /\ Len(posted) + Len(lent) + irq.cnt = ElementCount
    /\ \A i \in 1..Len(posted) : posted[i] = Wrap(data_head + i - 1)
    /\ \A i \in 1..Len(lent) : lent[i] = Wrap(data_head + Len(posted) + i - 1)
    /\ data_tail = Wrap(data_head + Len(posted) + Len(lent))
    /\ \A n \in DataSlots :
           data[n].type # "none" => \E i \in 1..Len(posted) : posted[i] = n

LEMMA Wrapped ==
  ASSUME NEW a \in DataSlots, NEW n \in 0..ElementCount
  PROVE  (a + n) % ElementCount = Wrap(a + n) /\ Wrap(a + n) \in DataSlots
<1> USE Sizes DEF DataSlots, Wrap
<1>1. CASE a + n < ElementCount
  BY <1>1
<1>2. CASE a + n >= ElementCount
  <2> DEFINE m == a + n - ElementCount
  <2>1. m \in Int /\ 0 <= m /\ m < ElementCount /\ a + n = m + ElementCount
    BY <1>2
  <2>2. (m + ElementCount) % ElementCount = m
    BY <2>1
  <2> QED BY <1>2, <2>1, <2>2
<1> QED BY <1>1, <1>2

\* Steps that together stay within a lap may wrap one by one.
LEMMA WrappedTwice ==
  ASSUME NEW h \in DataSlots, NEW a \in Nat, NEW b \in Nat, a + b < ElementCount
  PROVE  Wrap(Wrap(h + a) + b) = Wrap(h + (a + b))
<1> USE Sizes DEF DataSlots, Wrap
<1>1. CASE h + a < ElementCount
  BY <1>1
<1>2. CASE h + a >= ElementCount
  BY <1>2
<1> QED BY <1>1, <1>2

\* The handler empties the slot at data_head, which was posted first.
LEMMA NextInSlots ==
  ASSUME TagInv, SlotInv, NextIn, posted # <<>>
  PROVE  SlotInv' /\ \A n \in DataSlots : n # data_head => data'[n] = data[n]
<1> USE Sizes
<1>1. /\ posted' = Tail(posted) /\ Len(posted) \in Nat \ {0} /\ Len(posted') = Len(posted) - 1
      /\ posted' \in Seq(DataSlots) /\ \A i \in 1..Len(posted') : posted'[i] = posted[i + 1]
  BY DEF SlotInv, NextIn
<1>2. /\ irq' = [pc |-> "loop", cnt |-> irq.cnt + 1] /\ irq.cnt \in Nat
      /\ UNCHANGED <<lent, data_tail>>
  BY DEF SlotInv, NextIn
<1>3. data' = [data EXCEPT ![data_head] = NoMessage] /\ NoMessage.type = "none"
  BY NewCall DEF NextIn
<1>4. data_head \in DataSlots /\ data_head' = Wrap(data_head + 1) /\ data_head' \in DataSlots
  BY Wrapped DEF NextIn, TagInv, TransportTypes
<1>5. Len(lent) \in Nat /\ lent \in Seq(DataSlots)
  BY DEF SlotInv
<1>6. ASSUME NEW n \in 0..(ElementCount - 1)
      PROVE  Wrap(data_head' + n) = Wrap(data_head + 1 + n)
  BY <1>4, <1>6 DEF Wrap, DataSlots
<1>7. \A i \in 1..Len(posted') : posted'[i] = Wrap(data_head' + i - 1)
  <2> SUFFICES ASSUME NEW i \in 1..Len(posted') PROVE posted'[i] = Wrap(data_head' + i - 1)
    OBVIOUS
  <2>1. posted'[i] = Wrap(data_head + (i + 1) - 1) /\ i - 1 \in 0..(ElementCount - 1)
    BY <1>1, <1>2, <1>5 DEF SlotInv
  <2>2. Wrap(data_head' + (i - 1)) = Wrap(data_head + 1 + (i - 1))
    BY <1>6, <2>1
  <2>3. /\ data_head' + (i - 1) = data_head' + i - 1
        /\ data_head + 1 + (i - 1) = data_head + (i + 1) - 1
    BY <1>4 DEF DataSlots
  <2> QED BY <2>1, <2>2, <2>3
<1>8. \A i \in 1..Len(lent) : lent[i] = Wrap(data_head' + Len(posted') + i - 1)
  <2> SUFFICES ASSUME NEW i \in 1..Len(lent)
               PROVE  lent[i] = Wrap(data_head' + Len(posted') + i - 1)
    OBVIOUS
  <2>1. /\ lent[i] = Wrap(data_head + Len(posted) + i - 1)
        /\ Len(posted') + i - 1 \in 0..(ElementCount - 1)
    BY <1>1, <1>2, <1>5 DEF SlotInv
  <2>2. Wrap(data_head' + (Len(posted') + i - 1)) = Wrap(data_head + 1 + (Len(posted') + i - 1))
    BY <1>6, <2>1
  <2>3. /\ data_head' + (Len(posted') + i - 1) = data_head' + Len(posted') + i - 1
        /\ data_head + 1 + (Len(posted') + i - 1) = data_head + Len(posted) + i - 1
    BY <1>1, <1>4 DEF DataSlots
  <2> QED BY <2>1, <2>2, <2>3
<1>9. data_tail = Wrap(data_head' + Len(posted') + Len(lent))
  <2>1. /\ data_tail = Wrap(data_head + Len(posted) + Len(lent))
        /\ Len(posted') + Len(lent) \in 0..(ElementCount - 1)
    BY <1>1, <1>2, <1>5 DEF SlotInv
  <2>2. Wrap(data_head' + (Len(posted') + Len(lent))) = Wrap(data_head + 1 + (Len(posted') + Len(lent)))
    BY <1>6, <2>1
  <2>3. /\ data_head' + (Len(posted') + Len(lent)) = data_head' + Len(posted') + Len(lent)
        /\ data_head + 1 + (Len(posted') + Len(lent)) = data_head + Len(posted) + Len(lent)
    BY <1>1, <1>4, <1>5 DEF DataSlots
  <2> QED BY <2>1, <2>2, <2>3
<1>10. \A n \in DataSlots : n # data_head => data'[n] = data[n]
  BY <1>3 DEF TagInv, TransportTypes
<1>11. ASSUME NEW n \in DataSlots, data'[n].type # "none"
       PROVE  \E i \in 1..Len(posted') : posted'[i] = n
  <2>1. n # data_head /\ data'[n] = data[n]
    BY <1>3, <1>4, <1>10, <1>11 DEF TagInv, TransportTypes
  <2>2. PICK i \in 1..Len(posted) : posted[i] = n
    BY <1>11, <2>1 DEF SlotInv
  <2>3. posted[1] = data_head
    BY <1>1, <1>4 DEF SlotInv, Wrap, DataSlots
  <2>4. i - 1 \in 1..Len(posted') /\ posted'[i - 1] = n
    BY <1>1, <2>1, <2>2, <2>3
  <2> QED BY <2>4
<1>12. Len(posted') + Len(lent) + irq'.cnt = ElementCount /\ irq' \in [pc : {"idle", "loop"}, cnt : Nat]
  BY <1>1, <1>2, <1>5 DEF SlotInv
<1>13. data_tail \in DataSlots
  BY DEF SlotInv
<1> QED BY <1>1, <1>2, <1>5, <1>7, <1>8, <1>9, <1>10, <1>11, <1>12, <1>13 DEF SlotInv

\* The T2 fills a slot that is empty.
LEMMA T2PostsSlots ==
  ASSUME TagInv, SlotInv, NEW msg \in MessageRecords, T2Posts(msg)
  PROVE  /\ SlotInv'
         /\ \E m \in DataSlots : /\ data[m].type = "none" /\ data'[m] = msg
                                 /\ \A n \in DataSlots \ {m} : data'[n] = data[n]
                                 /\ posted' = Append(posted, m)
                                 /\ \A i \in 1..Len(posted) : posted[i] # m
<1> USE Sizes
<1> DEFINE m == Head(lent)
<1>1. /\ lent' = Tail(lent) /\ Len(lent) \in Nat \ {0} /\ Len(lent') = Len(lent) - 1
      /\ lent' \in Seq(DataSlots) /\ \A i \in 1..Len(lent') : lent'[i] = lent[i + 1]
      /\ m = lent[1] /\ m \in DataSlots
  BY DEF SlotInv, T2Posts
<1>2. /\ posted' = Append(posted, m) /\ Len(posted) \in Nat /\ Len(posted') = Len(posted) + 1
      /\ posted' \in Seq(DataSlots) /\ posted'[Len(posted) + 1] = m
      /\ \A i \in 1..Len(posted) : posted'[i] = posted[i]
  BY <1>1 DEF SlotInv, T2Posts
<1>3. UNCHANGED <<data_head, data_tail, irq>> /\ data' = [data EXCEPT ![m] = msg]
  BY DEF T2Posts
<1> HIDE DEF m
<1>4. data_head \in DataSlots /\ irq.cnt \in Nat /\ irq \in [pc : {"idle", "loop"}, cnt : Nat]
  BY DEF SlotInv, TagInv, TransportTypes
<1>5. /\ data'[m] = msg
      /\ \A n \in DataSlots \ {m} : data'[n] = data[n]
  BY <1>1, <1>3 DEF TagInv, TransportTypes
<1>6. m = Wrap(data_head + Len(posted))
  <2>1. m = Wrap(data_head + Len(posted) + 1 - 1)
    BY <1>1 DEF SlotInv
  <2>2. data_head + Len(posted) + 1 - 1 = data_head + Len(posted)
    BY <1>2, <1>4 DEF DataSlots
  <2> QED BY <2>1, <2>2
<1>7. \A i \in 1..Len(posted) : posted[i] # m
  <2> SUFFICES ASSUME NEW i \in 1..Len(posted), posted[i] = m PROVE FALSE
    OBVIOUS
  <2>1. Wrap(data_head + i - 1) = Wrap(data_head + Len(posted)) /\ Len(posted) < ElementCount
    BY <1>1, <1>2, <1>4, <1>6 DEF SlotInv
  <2> QED BY <1>2, <1>4, <2>1 DEF Wrap, DataSlots
<1>8. \A i \in 1..Len(posted') : posted'[i] = Wrap(data_head + i - 1)
  <2> SUFFICES ASSUME NEW i \in 1..Len(posted') PROVE posted'[i] = Wrap(data_head + i - 1)
    OBVIOUS
  <2>1. CASE i = Len(posted) + 1
    <3>1. data_head + i - 1 = data_head + Len(posted)
      BY <1>2, <1>4, <2>1 DEF DataSlots
    <3> QED BY <1>2, <1>6, <2>1, <3>1
  <2>2. CASE i # Len(posted) + 1
    <3>1. i \in 1..Len(posted)
      BY <1>2, <2>2
    <3> QED BY <1>2, <3>1 DEF SlotInv
  <2> QED BY <2>1, <2>2
<1>9. \A i \in 1..Len(lent') : lent'[i] = Wrap(data_head + Len(posted') + i - 1)
  <2> SUFFICES ASSUME NEW i \in 1..Len(lent')
               PROVE  lent'[i] = Wrap(data_head + Len(posted') + i - 1)
    OBVIOUS
  <2>1. lent'[i] = Wrap(data_head + Len(posted) + (i + 1) - 1)
    BY <1>1 DEF SlotInv
  <2>2. data_head + Len(posted) + (i + 1) - 1 = data_head + Len(posted') + i - 1
    BY <1>1, <1>2, <1>4 DEF DataSlots
  <2> QED BY <2>1, <2>2
<1>10. data_tail = Wrap(data_head + Len(posted') + Len(lent'))
  <2>1. data_tail = Wrap(data_head + Len(posted) + Len(lent))
    BY DEF SlotInv
  <2>2. data_head + Len(posted) + Len(lent) = data_head + Len(posted') + Len(lent')
    BY <1>1, <1>2, <1>4 DEF DataSlots
  <2> QED BY <2>1, <2>2
<1>11. ASSUME NEW n \in DataSlots, data'[n].type # "none"
       PROVE  \E i \in 1..Len(posted') : posted'[i] = n
  <2>1. CASE n = m
    BY <1>2, <2>1
  <2>2. CASE n # m
    BY <1>2, <1>5, <1>11, <2>2 DEF SlotInv
  <2> QED BY <2>1, <2>2
<1>12. SlotInv'
  <2>1. Len(posted') + Len(lent') + irq.cnt = ElementCount
    BY <1>1, <1>2, <1>4 DEF SlotInv
  <2> QED BY <1>1, <1>2, <1>3, <1>4, <1>8, <1>9, <1>10, <1>11, <2>1 DEF SlotInv
<1>13. data[m].type = "none"
  BY <1>1, <1>7 DEF SlotInv
<1> QED BY <1>1, <1>2, <1>5, <1>7, <1>12, <1>13

\* What was handled is lent again, in the order of the ring.
LEMMA SubmitPendingSlots == ASSUME TagInv, SlotInv, SubmitPending PROVE SlotInv'
<1> USE Sizes
<1> DEFINE more == [i \in 1..irq.cnt |-> (data_tail + i - 1) % ElementCount]
<1>1. /\ posted = <<>> /\ lent' = lent \o more /\ irq' = [pc |-> "idle", cnt |-> 0]
      /\ data_tail' = (data_tail + irq.cnt) % ElementCount
      /\ UNCHANGED <<posted, data, data_head>>
  BY DEF SubmitPending
<1>2. /\ Len(posted) = 0 /\ Len(lent) \in Nat /\ irq.cnt \in Nat
      /\ Len(lent) + irq.cnt = ElementCount /\ irq.cnt \in 0..ElementCount
      /\ data_head \in DataSlots /\ data_tail \in DataSlots
  BY <1>1 DEF SlotInv, TagInv, TransportTypes
<1>3. \A i \in 1..irq.cnt : more[i] = Wrap(data_tail + (i - 1)) /\ more[i] \in DataSlots
  <2> SUFFICES ASSUME NEW i \in 1..irq.cnt
               PROVE  more[i] = Wrap(data_tail + (i - 1)) /\ more[i] \in DataSlots
    OBVIOUS
  <2>1. i - 1 \in 0..ElementCount /\ data_tail + i - 1 = data_tail + (i - 1)
    BY <1>2 DEF DataSlots
  <2>2. more[i] = (data_tail + (i - 1)) % ElementCount
    BY <2>1
  <2> QED BY <1>2, <2>1, <2>2, Wrapped
<1>4. more \in [1..irq.cnt -> DataSlots]
  BY <1>3
<1> HIDE DEF more
<1>15. more \in Seq(DataSlots) /\ Len(more) = irq.cnt
  BY <1>2, <1>4
<1>5. /\ lent' \in Seq(DataSlots) /\ Len(lent') = ElementCount
      /\ \A i \in 1..Len(lent) : lent'[i] = lent[i]
      /\ \A i \in 1..irq.cnt : lent'[Len(lent) + i] = more[i]
  BY <1>1, <1>2, <1>15 DEF SlotInv
<1>6. data_tail' = Wrap(data_tail + irq.cnt) /\ data_tail' \in DataSlots
  BY <1>1, <1>2, Wrapped
<1>7. data_tail = Wrap(data_head + Len(lent))
  <2>1. data_tail = Wrap(data_head + 0 + Len(lent))
    BY <1>2 DEF SlotInv
  <2>2. data_head + 0 + Len(lent) = data_head + Len(lent)
    BY <1>2 DEF DataSlots
  <2> QED BY <2>1, <2>2
<1>8. \A i \in 1..Len(lent') : lent'[i] = Wrap(data_head + Len(posted') + i - 1)
  <2> SUFFICES ASSUME NEW i \in 1..Len(lent')
               PROVE  lent'[i] = Wrap(data_head + Len(posted') + i - 1)
    OBVIOUS
  <2>1. CASE i <= Len(lent)
    <3>1. i \in 1..Len(lent)
      BY <1>2, <1>5, <2>1
    <3> QED BY <1>1, <1>5, <3>1 DEF SlotInv
  <2>2. CASE i > Len(lent)
    <3> DEFINE j == i - Len(lent)
    <3>1. j \in 1..irq.cnt /\ i = Len(lent) + j
      BY <1>2, <1>5, <2>2
    <3>2. lent'[i] = Wrap(data_tail + (j - 1))
      BY <1>3, <1>5, <3>1
    <3>3. Wrap(data_tail + (j - 1)) = Wrap(data_head + 0 + i - 1)
      <4>1. Wrap(Wrap(data_head + Len(lent)) + (j - 1)) = Wrap(data_head + (Len(lent) + (j - 1)))
        <5>1. j - 1 \in Nat /\ Len(lent) + (j - 1) < ElementCount
          BY <1>2, <3>1
        <5> HIDE DEF j
        <5> QED BY <1>2, <5>1, WrappedTwice
      <4>2. data_head + (Len(lent) + (j - 1)) = data_head + 0 + i - 1
        BY <1>2, <3>1 DEF DataSlots
      <4> QED BY <1>7, <4>1, <4>2
    <3> QED BY <1>1, <1>2, <3>2, <3>3
  <2> QED BY <1>2, <1>5, <2>1, <2>2
<1>9. data_tail' = Wrap(data_head + Len(posted') + Len(lent'))
  <2>1. data_tail' = data_head
    BY <1>2, <1>6, <1>7 DEF Wrap, DataSlots
  <2>2. Wrap(data_head + 0 + ElementCount) = data_head
    BY <1>2 DEF Wrap, DataSlots
  <2> QED BY <1>1, <1>2, <1>5, <2>1, <2>2
<1>10. irq' \in [pc : {"idle", "loop"}, cnt : Nat] /\ irq'.cnt = 0
  BY <1>1
<1>11. Len(posted') + Len(lent') + irq'.cnt = ElementCount
  BY <1>1, <1>2, <1>5, <1>10
<1>12. posted' \in Seq(DataSlots) /\ \A i \in 1..Len(posted') : FALSE
  BY <1>1, <1>2 DEF SlotInv
<1>13. \A n \in DataSlots : data'[n].type # "none" => \E i \in 1..Len(posted') : posted'[i] = n
  BY <1>1 DEF SlotInv
<1>14. data_head' = data_head
  BY <1>1
<1> QED BY <1>5, <1>6, <1>8, <1>9, <1>10, <1>11, <1>12, <1>13, <1>14 DEF SlotInv

LEMMA NextSlots == TagInv /\ SlotInv /\ [Next]_vars => SlotInv'
<1> SUFFICES ASSUME TagInv, SlotInv, [Next]_vars PROVE SlotInv'
  OBVIOUS
<1> USE DEF inVars
<1>1. CASE UNCHANGED inVars
  BY <1>1 DEF SlotInv
<1>2. CASE T2Replies
  BY <1>2, T2PostsSlots DEF T2Replies, TagInv, TransportTypes
<1>3. CASE T2Sends
  <2>1. PICK type \in {"timestamp", "changed", "boot"}, val \in Nat \cup {None} :
           T2Posts(Message(type, None, 0, 0, val))
    BY <1>3 DEF T2Sends, TagInv, TransportTypes
  <2>2. Message(type, None, 0, 0, val) \in MessageRecords
    BY DEF Message, MessageRecords, MessageTypes
  <2> QED BY <2>1, <2>2, T2PostsSlots
<1>4. CASE HandleReply \/ HandleBoot \/ HandleTimestamp \/ HandleChanged
  BY <1>4, NextInSlots DEF HandleReply, HandleBoot, HandleTimestamp, HandleChanged, Handling
<1>5. CASE SubmitPending
  BY <1>5, SubmitPendingSlots
<1>6. CASE Transport
  BY <1>1, <1>2, <1>4, <1>5, <1>6 DEF Transport, Expire, Send, Wake, CleanUp, OutCompletion
<1>7. ASSUME NEW h, StopBy(h) PROVE UNCHANGED inVars
  BY <1>7 DEF StopBy, notCall
<1>8. CASE Next /\ ~Transport
  <2> USE DEF protocolVars, transportVars, notCall
  <2>1. CASE Open \/ Start \/ StartDone \/ StopDone \/ Close \/ TimerFires \/ TimerQueues
             \/ PeriodWork \/ TsRun \/ TsApply
    BY <1>1, <2>1 DEF Open, Start, StartDone, StopDone, Close, TimerFires, TimerQueues,
                      PeriodWork, TsRun, TsApply
  <2>2. CASE Stop \/ PeriodElapsed \/ TsElapsed
    BY <1>1, <1>7, <2>2 DEF Stop, PeriodElapsed, TsElapsed
  <2>3. CASE \E j \in Jacks : JackAsk(j) \/ JackReport(j)
    BY <1>1, <2>3 DEF JackAsk, JackReport
  <2>4. CASE Quiesce \/ IoStopped \/ SuspendAll \/ SuspendResume \/ T2Serves
    BY <1>1, <2>4 DEF Quiesce, IoStopped, SuspendAll, SuspendResume, T2Serves, T2Takes
  <2> QED BY <1>3, <1>4, <1>8, <2>1, <2>2, <2>3, <2>4 DEF Next
<1>9. CASE UNCHANGED vars
  BY <1>1, <1>9 DEF vars, protocolVars, transportVars
<1> QED BY <1>6, <1>8, <1>9

LEMMA InitSlots == Init => SlotInv
<1> SUFFICES ASSUME Init PROVE SlotInv
  OBVIOUS
<1> USE Sizes
<1>1. /\ lent = [i \in 1..ElementCount |-> i - 1] /\ posted = <<>>
      /\ data = [i \in DataSlots |-> NoMessage] /\ data_head = 0 /\ data_tail = 0
      /\ irq = [pc |-> "idle", cnt |-> 0]
  BY DEF Init, ProtocolInit
<1>2. lent \in Seq(DataSlots) /\ Len(lent) = ElementCount
  BY <1>1 DEF DataSlots
<1>3. posted \in Seq(DataSlots) /\ Len(posted) = 0 /\ 0 \in DataSlots
  BY <1>1 DEF DataSlots
<1>4. \A i \in 1..Len(lent) : lent[i] = Wrap(0 + 0 + i - 1)
  BY <1>1, <1>2 DEF Wrap
<1>5. 0 = Wrap(0 + 0 + ElementCount)
  BY DEF Wrap
<1>6. \A n \in DataSlots : data[n].type = "none"
  BY <1>1, NewCall
<1> QED BY <1>1, <1>2, <1>3, <1>4, <1>5, <1>6 DEF SlotInv

LEMMA SlotInvariant == Spec => []SlotInv
<1>1. Spec => [][Next]_vars
  BY PTL DEF Spec
<1> QED BY <1>1, InitSlots, NextSlots, TagInvariant, PTL DEF Spec

-----------------------------------------------------------------------------
(* The jack.                                                               *)

\* The replies that are on their way or have arrived.
Replies ==
    replies \cup {data[n] : n \in {m \in DataSlots : data[m].type = "reply"}}
            \cup {call[t].got : t \in {u \in Callers : call[u].done}}

\* The T2 has not taken the command number k.
Owed(k) == \E i \in 1..Len(out) : out[i].type = "command" /\ out[i].id = k

\* A number is that of one command, which is not answered before it is taken.
NumberInv ==
    /\ \A i \in 1..Len(out) : out[i].type = "command" => out[i].id \in 1..sent
    /\ \A i, k \in 1..Len(out) :
           out[i].type = "command" /\ out[k].type = "command" /\ out[i].id = out[k].id => i = k
    /\ \A r \in Replies : r.id \in 1..sent /\ ~Owed(r.id)
    /\ \A t \in Callers : /\ call[t].id \in 0..sent
                          /\ call[t].pc \in {"idle", "send"} => call[t].id = 0

Asking(j) == call[j].pc # "idle"

\* The T2 is going to be asked for the state of the jack.
ToAsk ==
    \/ \E n \in DataSlots : data[n].type = "changed"
    \/ jackWorks > 0
    \/ \E j \in Jacks : Asking(j) /\ (call[j].pc = "send" \/ Owed(call[j].id))

\* Unless it is, or the works are misled, what was reported last is the state of the
\* jack, or the one work that runs is given that.
JackInv ==
    /\ jackWorks \in Nat /\ misled \in BOOLEAN
    /\ ~misled => \A i, j \in Jacks : Asking(i) /\ Asking(j) => i = j
    /\ ~misled /\ ~ToAsk =>
           /\ (\A j \in Jacks : ~Asking(j)) => reported = plugged
           /\ \A j \in Jacks : Asking(j) =>
                  \A r \in Replies : r.id = call[j].id => r.val = plugged

-----------------------------------------------------------------------------

\* A step that adds neither commands nor replies.
Steady ==
    /\ sent <= sent' /\ sent' \in Nat
    /\ \/ out' = out
       \/ \E msg \in MessageRecords : msg.type # "command" /\ out' = Append(out, msg)
    /\ Replies' \subseteq Replies
    /\ \A t \in Callers : /\ call'[t].id \in {0, call[t].id}
                          /\ call'[t].pc \in {"idle", "send"} => call'[t].id = 0

LEMMA FewerReplies ==
  ASSUME replies' \subseteq replies,
         \A n \in DataSlots : data'[n] = data[n] \/ data'[n].type # "reply",
         \A t \in Callers : call'[t].done => call[t].done /\ call'[t].got = call[t].got
  PROVE  Replies' \subseteq Replies
<1> SUFFICES ASSUME NEW r \in Replies' PROVE r \in Replies
  OBVIOUS
<1>1. CASE r \in replies'
  BY <1>1 DEF Replies
<1>2. CASE \E n \in DataSlots : data'[n].type = "reply" /\ r = data'[n]
  BY <1>2 DEF Replies
<1>3. CASE \E t \in Callers : call'[t].done /\ r = call'[t].got
  BY <1>3 DEF Replies
<1> QED BY <1>1, <1>2, <1>3 DEF Replies

LEMMA SteadyOwes ==
  ASSUME TransportTypes, Steady
  PROVE  /\ \A k : Owed(k)' <=> Owed(k)
         /\ \A i \in 1..Len(out') : out'[i].type = "command" => i \in 1..Len(out) /\ out'[i] = out[i]
<1>1. CASE out' = out
  BY <1>1 DEF Owed
<1>2. ASSUME NEW msg \in MessageRecords, msg.type # "command", out' = Append(out, msg)
      PROVE  /\ \A k : Owed(k)' <=> Owed(k)
             /\ \A i \in 1..Len(out') : out'[i].type = "command" => i \in 1..Len(out) /\ out'[i] = out[i]
  <2>1. /\ Len(out) \in Nat /\ Len(out') = Len(out) + 1 /\ out'[Len(out) + 1] = msg
        /\ \A i \in 1..Len(out) : out'[i] = out[i]
    BY <1>2 DEF TransportTypes
  <2>2. \A i \in 1..Len(out') : out'[i].type = "command" => i \in 1..Len(out) /\ out'[i] = out[i]
    BY <1>2, <2>1
  <2>3. 1..Len(out) \subseteq 1..Len(out')
    BY <2>1
  <2> QED BY <2>1, <2>2, <2>3 DEF Owed
<1> QED BY <1>1, <1>2 DEF Steady

LEMMA SteadyNumbers == ASSUME TransportTypes, NumberInv, Steady PROVE NumberInv'
<1>1. sent \in Nat /\ sent' \in Nat /\ sent <= sent'
  BY DEF TransportTypes, Steady
<1>2. 1..sent \subseteq 1..sent' /\ 0..sent \subseteq 0..sent' /\ 0 \in 0..sent'
  BY <1>1
<1>3. \A i \in 1..Len(out') : out'[i].type = "command" => out'[i].id \in 1..sent'
  BY <1>2, SteadyOwes DEF NumberInv
<1>4. \A i, k \in 1..Len(out') :
          out'[i].type = "command" /\ out'[k].type = "command" /\ out'[i].id = out'[k].id => i = k
  BY SteadyOwes DEF NumberInv
<1>5. \A r \in Replies' : r.id \in 1..sent' /\ ~Owed(r.id)'
  BY <1>2, SteadyOwes DEF NumberInv, Steady
<1>6. \A t \in Callers : /\ call'[t].id \in 0..sent'
                         /\ call'[t].pc \in {"idle", "send"} => call'[t].id = 0
  BY <1>2 DEF NumberInv, Steady
<1> QED BY <1>3, <1>4, <1>5, <1>6 DEF NumberInv

\* Calls that begin, end, are waited for or fail.
LEMMA CallsSteady ==
  ASSUME TransportTypes, NumberInv, UNCHANGED <<sent, out, data, replies>>,
         NEW t \in Callers, NEW c, call' = [call EXCEPT ![t] = c],
         c.done => call[t].done /\ c.got = call[t].got,
         c.id \in {0, call[t].id}, c.pc \in {"idle", "send"} => c.id = 0
  PROVE  Steady
<1>1. \A u \in Callers : call'[u] = call[u] \/ (u = t /\ call'[u] = c)
  BY DEF TransportTypes
<1>2. Replies' \subseteq Replies
  BY <1>1, FewerReplies
<1>3. \A u \in Callers : /\ call'[u].id \in {0, call[u].id}
                         /\ call'[u].pc \in {"idle", "send"} => call'[u].id = 0
  BY <1>1 DEF NumberInv
<1>4. sent \in Nat
  BY DEF TransportTypes
<1> QED BY <1>2, <1>3, <1>4 DEF Steady

LEMMA SameCallsSteady ==
  ASSUME TransportTypes, NumberInv, call' = call, sent' \in Nat, sent <= sent',
         \/ out' = out
         \/ \E msg \in MessageRecords : msg.type # "command" /\ out' = Append(out, msg),
         Replies' \subseteq Replies
  PROVE  Steady
  BY DEF Steady, NumberInv

\* Within a call, only pc changes: Wake, Expire, CleanUp and a Send that finds no room.
LEMMA PlaceSteady ==
  ASSUME TransportTypes, NumberInv, UNCHANGED <<sent, out, data, replies>>,
         NEW t \in Callers, NEW place, place \notin {"idle", "send"},
         call' = [call EXCEPT ![t].pc = place]
  PROVE  /\ Steady
         /\ \A u \in Callers : /\ call'[u].id = call[u].id /\ call'[u].cmd = call[u].cmd
                               /\ call'[u].done = call[u].done /\ call'[u].got = call[u].got
         /\ \A u \in Callers \ {t} : call'[u] = call[u]
         /\ call'[t].pc = place
<1> DEFINE c == [call[t] EXCEPT !.pc = place]
<1>1. call[t] \in CallRecords /\ call' = [call EXCEPT ![t] = c]
  BY DEF TransportTypes
<1>2. /\ c.pc = place /\ c.id = call[t].id /\ c.cmd = call[t].cmd
      /\ c.done = call[t].done /\ c.got = call[t].got
  BY <1>1 DEF CallRecords
<1> HIDE DEF c
<1>3. Steady
  <2>1. /\ c.done => call[t].done /\ c.got = call[t].got
        /\ c.id \in {0, call[t].id}
        /\ c.pc \in {"idle", "send"} => c.id = 0
    BY <1>2
  <2> QED BY <1>1, <2>1, CallsSteady
<1>4. call'[t] = c /\ \A u \in Callers \ {t} : call'[u] = call[u]
  BY <1>1 DEF TransportTypes
<1> QED BY <1>2, <1>3, <1>4

LEMMA CallStepsSteady ==
  ASSUME TransportTypes, NumberInv, NEW t \in Callers,
         Wake(t) \/ Expire(t) \/ CleanUp(t) \/ (Send(t) /\ ~(Available > 0))
  PROVE  /\ Steady /\ UNCHANGED <<out, data, replies>>
         /\ \A u \in Callers : /\ call'[u].id = call[u].id /\ call'[u].cmd = call[u].cmd
                               /\ call'[u].done = call[u].done /\ call'[u].got = call[u].got
         /\ \A u \in Callers \ {t} : call'[u] = call[u]
         /\ call[t].pc # "idle" /\ call'[t].pc \notin {"idle", "send"}
         /\ call[t].pc = "send" => Send(t)
<1> USE DEF inVars, outVars
<1>1. /\ UNCHANGED <<sent, out, data, replies>> /\ call[t].pc # "idle"
      /\ \E place \in {"ok", "failed", "expired"} : call' = [call EXCEPT ![t].pc = place]
  <2>1. CASE Wake(t)
    BY <2>1 DEF Wake
  <2>2. CASE Expire(t)
    BY <2>2 DEF Expire
  <2>3. CASE CleanUp(t)
    BY <2>3 DEF CleanUp
  <2>4. CASE Send(t) /\ ~(Available > 0)
    BY <2>4 DEF Send
  <2> QED BY <2>1, <2>2, <2>3, <2>4
<1>2. PICK place \in {"ok", "failed", "expired"} : call' = [call EXCEPT ![t].pc = place]
  BY <1>1
<1>3. call[t].pc = "send" => Send(t)
  BY DEF Wake, Expire, CleanUp
<1> QED BY <1>1, <1>2, <1>3, PlaceSteady

\* A reply moves from its slot to the entry of a caller.
LEMMA HandleReplySteady ==
  ASSUME TagInv, NumberInv, HandleReply
  PROVE  /\ Steady
         /\ \A u \in Callers : /\ call'[u].id = call[u].id /\ call'[u].pc = call[u].pc
                               /\ call'[u].cmd = call[u].cmd
<1> DEFINE m == Current
           t == pending_entries[m.tag]
<1>1. /\ m.type = "reply" /\ m = data[data_head] /\ data_head \in DataSlots
      /\ call' = IF t = None THEN call ELSE [call EXCEPT ![t].done = TRUE, ![t].got = m]
      /\ NextIn
      /\ UNCHANGED <<sent, out, replies>>
  BY DEF HandleReply, Handling, outVars, Current, TagInv, TransportTypes
<1>2. m \in Replies
  BY <1>1 DEF Replies
<1> HIDE DEF m
<1>3. \A u \in Callers :
          /\ call'[u].id = call[u].id /\ call'[u].pc = call[u].pc /\ call'[u].cmd = call[u].cmd
          /\ call'[u].done => call'[u].got = m \/ (call[u].done /\ call'[u].got = call[u].got)
  <2> SUFFICES ASSUME NEW u \in Callers
               PROVE  /\ call'[u].id = call[u].id /\ call'[u].pc = call[u].pc /\ call'[u].cmd = call[u].cmd
                      /\ call'[u].done => call'[u].got = m \/ (call[u].done /\ call'[u].got = call[u].got)
    OBVIOUS
  <2>1. CASE call' = call
    BY <2>1
  <2>2. CASE call' = [call EXCEPT ![t].done = TRUE, ![t].got = m]
    <3>1. call[u] \in CallRecords /\ call \in [Callers -> CallRecords]
      BY DEF TagInv, TransportTypes
    <3>2. u # t => call'[u] = call[u]
      BY <2>2, <3>1
    <3>3. u = t => call'[u] = [call[u] EXCEPT !.done = TRUE, !.got = m]
      BY <2>2, <3>1
    <3> QED BY <3>1, <3>2, <3>3 DEF CallRecords
  <2> QED BY <1>1, <2>1, <2>2
<1>4. \A n \in DataSlots : data'[n] = data[n] \/ data'[n].type = "none"
  BY <1>1, AfterNextIn DEF TagInv
<1>5. Replies' \subseteq Replies
  <2> SUFFICES ASSUME NEW r \in Replies' PROVE r \in Replies
    OBVIOUS
  <2>1. CASE r \in replies'
    BY <1>1, <2>1 DEF Replies
  <2>2. CASE \E n \in DataSlots : data'[n].type = "reply" /\ r = data'[n]
    BY <1>4, <2>2 DEF Replies
  <2>3. CASE \E u \in Callers : call'[u].done /\ r = call'[u].got
    BY <1>2, <1>3, <2>3 DEF Replies
  <2> QED BY <2>1, <2>2, <2>3 DEF Replies
<1>6. sent' \in Nat /\ sent <= sent' /\ out' = out
  BY <1>1 DEF TagInv, TransportTypes
<1>7. \A u \in Callers : /\ call'[u].id \in {0, call[u].id}
                         /\ call'[u].pc \in {"idle", "send"} => call'[u].id = 0
  BY <1>3 DEF NumberInv
<1>8. Steady
  BY <1>5, <1>6, <1>7 DEF Steady
<1> QED BY <1>3, <1>8

\* The other handlers.
LEMMA IrqSteady ==
  ASSUME TagInv, NumberInv, HandleBoot \/ HandleTimestamp \/ HandleChanged
  PROVE  Steady /\ call' = call
<1>1. /\ NextIn /\ UNCHANGED <<call, replies>>
      /\ sent' = sent \/ sent' = sent + 1
      /\ \/ out' = out
         \/ out' = Append(out, Message("response", None, 0, 0, None))
         \/ out' = Append(out, Message("alive", None, CreateTag, sent + 1, None))
  BY DEF HandleBoot, HandleTimestamp, HandleChanged, SendFromIrq, callVars, outVars
<1>2. sent \in Nat /\ sent + 1 \in Nat /\ CreateTag \in Nat
  BY NextTag, Sizes DEF TagInv, TransportTypes, Tags
<1>3. /\ Message("response", None, 0, 0, None) \in MessageRecords
      /\ Message("response", None, 0, 0, None).type # "command"
      /\ Message("alive", None, CreateTag, sent + 1, None) \in MessageRecords
      /\ Message("alive", None, CreateTag, sent + 1, None).type # "command"
  BY <1>2 DEF Message, MessageRecords, MessageTypes
<1>4. Replies' \subseteq Replies
  BY <1>1, AfterNextIn, FewerReplies DEF TagInv
<1>5. sent' \in Nat /\ sent <= sent'
  BY <1>1, <1>2
<1>6. \/ out' = out
      \/ \E msg \in MessageRecords : msg.type # "command" /\ out' = Append(out, msg)
  BY <1>1, <1>3
<1> QED BY <1>1, <1>4, <1>5, <1>6, SameCallsSteady DEF TagInv

\* The T2 posts a reply it owed, or another message.
LEMMA T2PostsSteady ==
  ASSUME TagInv, NumberInv, SlotInv, NEW msg \in MessageRecords, T2Posts(msg),
         UNCHANGED <<call, sent, out>>,
         replies' \subseteq replies, msg.type # "reply" \/ msg \in replies
  PROVE  Steady
<1>1. \A n \in DataSlots : data'[n] = data[n] \/ data'[n] = msg
  BY T2PostsSlots
<1>2. Replies' \subseteq Replies
  <2> SUFFICES ASSUME NEW r \in Replies' PROVE r \in Replies
    OBVIOUS
  <2>1. CASE r \in replies'
    BY <2>1 DEF Replies
  <2>2. CASE \E n \in DataSlots : data'[n].type = "reply" /\ r = data'[n]
    BY <1>1, <2>2 DEF Replies
  <2>3. CASE \E u \in Callers : call'[u].done /\ r = call'[u].got
    BY <2>3 DEF Replies
  <2> QED BY <2>1, <2>2, <2>3 DEF Replies
<1>3. sent \in Nat
  BY DEF TagInv, TransportTypes
<1> QED BY <1>2, <1>3, SameCallsSteady DEF TagInv

\* A command gets a number that nobody has used.
LEMMA SendNumbers ==
  ASSUME TagInv, TagInv', NumberInv, NEW t \in Callers, Send(t), Available > 0
  PROVE  /\ NumberInv'
         /\ Replies' \subseteq Replies
         /\ \A k : Owed(k) => Owed(k)'
         /\ \A u \in Callers \ {t} : call'[u] = call[u]
         /\ call[t].pc = "send" /\ call'[t].pc = "wait"
         /\ \A k : k = call'[t].id => Owed(k)'
         /\ UNCHANGED data
<1> DEFINE msg == Message("command", call[t].cmd, CreateTag, sent + 1, None)
           c == [call[t] EXCEPT !.pc = "wait", !.tag = CreateTag, !.id = sent + 1]
<1>1. /\ call[t].pc = "send" /\ sent' = sent + 1 /\ out' = Append(out, msg)
      /\ UNCHANGED <<data, replies>>
      /\ call' = [call EXCEPT ![t].pc = "wait", ![t].tag = CreateTag, ![t].id = sent + 1]
  BY DEF Send, inVars
<1>2. sent \in Nat /\ call \in [Callers -> CallRecords] /\ call[t] \in CallRecords
  BY DEF TagInv, TransportTypes
<1>3. call' = [call EXCEPT ![t] = c]
  BY <1>1, <1>2
<1>4. c.pc = "wait" /\ c.id = sent + 1 /\ c.done = call[t].done /\ c.got = call[t].got
  BY <1>2 DEF CallRecords
<1>5. msg.type = "command" /\ msg.id = sent + 1
  BY DEF Message
<1> HIDE DEF c, msg
<1>6. call'[t] = c /\ \A u \in Callers \ {t} : call'[u] = call[u]
  BY <1>2, <1>3
<1>7. Replies' \subseteq Replies
  BY <1>1, <1>4, <1>6, FewerReplies
<1>8. /\ Len(out) \in Nat /\ Len(out') = Len(out) + 1 /\ out'[Len(out) + 1] = msg
      /\ \A i \in 1..Len(out) : out'[i] = out[i]
  BY <1>1 DEF TagInv, TransportTypes
<1>9. /\ 1..Len(out) \subseteq 1..Len(out') /\ Len(out) + 1 \in 1..Len(out')
      /\ \A i \in 1..Len(out') : i \in 1..Len(out) \/ i = Len(out) + 1
  BY <1>8
<1>10. \A k : Owed(k)' <=> Owed(k) \/ k = sent + 1
  BY <1>5, <1>8, <1>9 DEF Owed
<1>11. 1..sent \subseteq 1..sent' /\ sent + 1 \in 1..sent' /\ sent + 1 \notin 1..sent
       /\ 0..sent \subseteq 0..sent' /\ sent + 1 \in 0..sent'
  BY <1>1, <1>2
<1>12. \A i \in 1..Len(out') : out'[i].type = "command" => out'[i].id \in 1..sent'
  BY <1>5, <1>8, <1>9, <1>11 DEF NumberInv
<1>13. \A i, k \in 1..Len(out') :
          out'[i].type = "command" /\ out'[k].type = "command" /\ out'[i].id = out'[k].id => i = k
  BY <1>5, <1>8, <1>9, <1>11 DEF NumberInv
<1>14. \A r \in Replies' : r.id \in 1..sent' /\ ~Owed(r.id)'
  BY <1>7, <1>10, <1>11 DEF NumberInv
<1>15. \A u \in Callers : /\ call'[u].id \in 0..sent'
                          /\ call'[u].pc \in {"idle", "send"} => call'[u].id = 0
  BY <1>4, <1>6, <1>11 DEF NumberInv
<1>16. NumberInv'
  BY <1>12, <1>13, <1>14, <1>15 DEF NumberInv
<1> QED BY <1>1, <1>4, <1>6, <1>7, <1>10, <1>16

\* The T2 takes a message: the only new reply is that to a command that was owed.
LEMMA T2ServesNumbers ==
  ASSUME TagInv, NumberInv, T2Serves
  PROVE  /\ NumberInv'
         /\ \A r \in Replies' : r \in Replies \/ (Owed(r.id) /\ ~Owed(r.id)' /\ r.val = plugged)
         /\ \A k : Owed(k) => Owed(k)' \/ \A r \in Replies : r.id # k
<1> DEFINE m == Head(out)
           r0 == [m EXCEPT !.type = "reply", !.val = plugged]
<1>1. /\ out # <<>> /\ out' = Tail(out)
      /\ replies' = IF m.type # "command" THEN replies ELSE replies \cup {r0}
      /\ UNCHANGED <<call, sent, data>>
  BY DEF T2Serves, T2Takes, callVars, inVars
<1>2. /\ m = out[1] /\ Len(out) \in Nat \ {0} /\ m \in MessageRecords /\ Len(out') = Len(out) - 1
      /\ \A i \in 1..Len(out') : out'[i] = out[i + 1]
  BY <1>1 DEF TagInv, TransportTypes
<1> HIDE DEF m
<1>3. r0.id = m.id /\ r0.val = plugged
  BY <1>2 DEF MessageRecords
<1> HIDE DEF r0
<1>4. /\ 1 \in 1..Len(out)
      /\ \A i \in 1..Len(out') : i + 1 \in 1..Len(out) /\ i + 1 # 1
      /\ \A i \in 1..Len(out) : i # 1 => i - 1 \in 1..Len(out') /\ out'[i - 1] = out[i]
  BY <1>2
<1>5. \A k : Owed(k)' => Owed(k)
  BY <1>2, <1>4 DEF Owed
<1>6. \A k : m.type = "command" /\ k = m.id => Owed(k) /\ ~Owed(k)'
  BY <1>2, <1>4 DEF Owed, NumberInv
<1>7. \A r \in Replies' : r \in Replies \/ (r = r0 /\ m.type = "command")
  <2> SUFFICES ASSUME NEW r \in Replies' PROVE r \in Replies \/ (r = r0 /\ m.type = "command")
    OBVIOUS
  <2>1. CASE r \in replies'
    BY <1>1, <2>1 DEF Replies
  <2>2. CASE \E n \in DataSlots : data'[n].type = "reply" /\ r = data'[n]
    BY <1>1, <2>2 DEF Replies
  <2>3. CASE \E u \in Callers : call'[u].done /\ r = call'[u].got
    BY <1>1, <2>3 DEF Replies
  <2> QED BY <2>1, <2>2, <2>3 DEF Replies
<1>8. \A i \in 1..Len(out') : out'[i].type = "command" => out'[i].id \in 1..sent
  BY <1>2, <1>4 DEF NumberInv
<1>9. \A i, k \in 1..Len(out') :
          out'[i].type = "command" /\ out'[k].type = "command" /\ out'[i].id = out'[k].id => i = k
  <2> SUFFICES ASSUME NEW i \in 1..Len(out'), NEW k \in 1..Len(out'),
                      out'[i].type = "command", out'[k].type = "command", out'[i].id = out'[k].id
               PROVE  i = k
    OBVIOUS
  <2>1. i + 1 = k + 1
    BY <1>2, <1>4 DEF NumberInv
  <2> QED BY <2>1
<1>10. m.type = "command" => m.id \in 1..sent
  BY <1>2, <1>4 DEF NumberInv
<1>11. \A r \in Replies' : r.id \in 1..sent /\ ~Owed(r.id)'
  BY <1>3, <1>5, <1>6, <1>7, <1>10 DEF NumberInv
<1>12. NumberInv'
  BY <1>1, <1>8, <1>9, <1>11 DEF NumberInv
<1> QED BY <1>3, <1>6, <1>7, <1>12 DEF NumberInv

LEMMA T2SendsSteady ==
  ASSUME TagInv, NumberInv, SlotInv, T2Sends
  PROVE  /\ Steady /\ call' = call
         /\ \A n \in DataSlots : data[n].type # "none" => data'[n] = data[n]
         /\ plugged' = plugged \/ \E n \in DataSlots : data'[n].type = "changed"
<1>1. UNCHANGED <<call, sent, out, replies>>
  BY DEF T2Sends, callVars, outVars
<1>2. PICK msg \in MessageRecords :
         T2Posts(msg) /\ msg.type # "reply" /\ (plugged' = plugged \/ msg.type = "changed")
  <2>1. PICK type \in {"timestamp", "changed", "boot"}, val \in Nat \cup {None} :
           T2Posts(Message(type, None, 0, 0, val)) /\ (plugged' = plugged \/ type = "changed")
    BY DEF T2Sends, TagInv, TransportTypes
  <2>2. /\ Message(type, None, 0, 0, val) \in MessageRecords
        /\ Message(type, None, 0, 0, val).type = type
    BY DEF Message, MessageRecords, MessageTypes
  <2> QED BY <2>1, <2>2
<1>3. Steady
  BY <1>1, <1>2, T2PostsSteady
<1>4. PICK m \in DataSlots : /\ data[m].type = "none" /\ data'[m] = msg
                             /\ \A n \in DataSlots \ {m} : data'[n] = data[n]
  BY <1>2, T2PostsSlots
<1> QED BY <1>1, <1>2, <1>3, <1>4

LEMMA T2RepliesSteady ==
  ASSUME TagInv, NumberInv, SlotInv, T2Replies
  PROVE  /\ Steady /\ call' = call
         /\ \A n \in DataSlots : data[n].type # "none" => data'[n] = data[n]
<1>1. UNCHANGED <<call, sent, out>>
  BY DEF T2Replies, callVars, outVars
<1>2. PICK r \in replies : T2Posts(r) /\ replies' = replies \ {r}
  BY DEF T2Replies
<1>3. r \in MessageRecords
  BY DEF TagInv, TransportTypes
<1>4. Steady
  BY <1>1, <1>2, <1>3, T2PostsSteady
<1>5. PICK m \in DataSlots : /\ data[m].type = "none" /\ data'[m] = r
                             /\ \A n \in DataSlots \ {m} : data'[n] = data[n]
  BY <1>2, <1>3, T2PostsSlots
<1> QED BY <1>1, <1>4, <1>5

\* A call begins or ends.
LEMMA CallBeginsSteady ==
  ASSUME TagInv, NumberInv, CallBegins \/ CallEnds \/ Untouched
  PROVE  Steady
<1> USE DEF transportRest
<1>1. CASE CallBegins
  <2>1. PICK t \in Callers, c \in Commands : Begin(t, c) /\ UNCHANGED transportRest
    BY <1>1 DEF CallBegins
  <2> DEFINE r == [NoCall EXCEPT !.pc = "send", !.cmd = c]
  <2>2. ~r.done /\ r.id = 0
    BY NewCall
  <2>3. call' = [call EXCEPT ![t] = r]
    BY <2>1 DEF Begin
  <2> HIDE DEF r
  <2> QED BY <2>1, <2>2, <2>3, CallsSteady DEF TagInv
<1>2. CASE CallEnds
  <2>1. PICK t \in Callers : End(t) /\ UNCHANGED transportRest
    BY <1>2 DEF CallEnds
  <2>2. ~NoCall.done /\ NoCall.id = 0
    BY DEF NoCall
  <2> QED BY <2>1, <2>2, CallsSteady DEF TagInv, End
<1>3. CASE Untouched
  <2>1. Replies' \subseteq Replies
    BY <1>3, FewerReplies DEF Untouched
  <2> QED BY <1>3, <2>1, SameCallsSteady DEF Untouched, TagInv, TransportTypes
<1> QED BY <1>1, <1>2, <1>3

LEMMA NextNumbers == TagInv /\ TagInv' /\ SlotInv /\ NumberInv /\ [Next]_vars => NumberInv'
<1> SUFFICES ASSUME TagInv, TagInv', SlotInv, NumberInv, [Next]_vars PROVE NumberInv'
  OBVIOUS
<1>1. CASE Steady
  BY <1>1, SteadyNumbers DEF TagInv
<1>2. CASE UNCHANGED vars
  BY <1>1, <1>2, CallBeginsSteady DEF vars, Untouched, transportRest, protocolVars, transportVars,
     callVars, outVars, inVars, streamVars, t2Vars
<1>3. CASE Transport
  <2>1. ASSUME NEW t \in Callers, Send(t), Available > 0 PROVE NumberInv'
    BY <2>1, SendNumbers
  <2>2. ASSUME NEW t \in Callers, Wake(t) \/ Expire(t) \/ CleanUp(t) \/ (Send(t) /\ ~(Available > 0))
        PROVE NumberInv'
    BY <1>1, <2>2, CallStepsSteady DEF TagInv
  <2>3. CASE OutCompletion \/ SubmitPending
    <3>1. UNCHANGED <<call, sent, out, data, replies>>
      BY <2>3 DEF OutCompletion, SubmitPending, callVars, outVars, inVars
    <3>2. Replies' \subseteq Replies
      BY <3>1, FewerReplies
    <3> QED BY <1>1, <3>1, <3>2, SameCallsSteady DEF TagInv, TransportTypes
  <2>4. CASE HandleReply \/ HandleBoot
    BY <1>1, <2>4, HandleReplySteady, IrqSteady
  <2>5. CASE T2Replies
    BY <1>1, <2>5, T2RepliesSteady
  <2> QED BY <1>3, <2>1, <2>2, <2>3, <2>4, <2>5 DEF Transport
<1>4. CASE CallBegins \/ CallEnds \/ Untouched
  BY <1>1, <1>4, CallBeginsSteady
<1>5. CASE HandleTimestamp \/ HandleChanged
  BY <1>1, <1>5, IrqSteady
<1>6. CASE T2Serves
  BY <1>6, T2ServesNumbers
<1>7. CASE T2Sends
  BY <1>1, <1>7, T2SendsSteady
<1> QED BY <1>2, <1>3, <1>4, <1>5, <1>6, <1>7, StreamSteps

LEMMA InitNumbers == Init => NumberInv
<1> SUFFICES ASSUME Init PROVE NumberInv
  OBVIOUS
<1>1. /\ call = [t \in Callers |-> NoCall] /\ sent = 0 /\ out = <<>> /\ replies = {}
      /\ data = [i \in DataSlots |-> NoMessage]
  BY DEF Init, ProtocolInit
<1>2. Len(out) = 0 /\ \A i \in 1..Len(out) : FALSE
  BY <1>1
<1>3. /\ \A t \in Callers : call[t].id = 0 /\ ~call[t].done
      /\ \A n \in DataSlots : data[n].type # "reply"
  BY <1>1, NewCall DEF NoCall
<1>4. Replies = {}
  BY <1>1, <1>3 DEF Replies
<1>5. 0 \in 0..sent
  BY <1>1
<1> QED BY <1>2, <1>3, <1>4, <1>5 DEF NumberInv

LEMMA NumberInvariant == Spec => []NumberInv
<1>1. Spec => [][Next]_vars
  BY PTL DEF Spec
<1> QED BY <1>1, InitNumbers, NextNumbers, TagInvariant, SlotInvariant, PTL DEF Spec

-----------------------------------------------------------------------------

\* Steps that leave the works where they are, and forget no notification.
LEMMA QuietJacks ==
  ASSUME JackInv, UNCHANGED <<jackWorks, reported, misled, plugged>>, Replies' \subseteq Replies,
         \A k : Owed(k) => Owed(k)',
         \A n \in DataSlots : data[n].type = "changed" => data'[n].type = "changed",
         \A j \in Jacks : /\ call'[j].pc = "idle" <=> call[j].pc = "idle"
                          /\ call[j].pc = "send" => call'[j].pc = "send"
                          /\ call'[j].id = call[j].id
  PROVE  JackInv'
<1>1. \A j \in Jacks : Asking(j)' <=> Asking(j)
  BY DEF Asking
<1>2. ToAsk => ToAsk'
  <2>1. ASSUME NEW j \in Jacks, Asking(j), Owed(call[j].id) PROVE ToAsk'
    <3>1. PICK k : k = call[j].id
      OBVIOUS
    <3>2. Owed(k)' /\ k = call'[j].id
      BY <2>1, <3>1
    <3> QED BY <1>1, <2>1, <3>2 DEF ToAsk, Owed
  <2>2. CASE \E j \in Jacks : Asking(j) /\ call[j].pc = "send"
    BY <1>1, <2>2 DEF ToAsk
  <2>3. CASE jackWorks > 0 \/ \E n \in DataSlots : data[n].type = "changed"
    BY <2>3 DEF ToAsk
  <2> QED BY <2>1, <2>2, <2>3 DEF ToAsk
<1>3. ASSUME ~misled', ~ToAsk'
      PROVE  /\ (\A j \in Jacks : ~Asking(j)') => reported' = plugged'
             /\ \A j \in Jacks : Asking(j)' =>
                    \A r \in Replies' : r.id = call'[j].id => r.val = plugged'
  BY <1>1, <1>2, <1>3 DEF JackInv
<1>4. ~misled' => \A i, j \in Jacks : Asking(i)' /\ Asking(j)' => i = j
  BY <1>1 DEF JackInv
<1> QED BY <1>3, <1>4 DEF JackInv

\* The T2 will be asked again.
LEMMA AskedJacks ==
  ASSUME JackInv, UNCHANGED misled, jackWorks' \in Nat, ToAsk',
         \A j \in Jacks : call'[j].pc = "idle" <=> call[j].pc = "idle"
  PROVE  JackInv'
<1>1. \A j \in Jacks : Asking(j)' <=> Asking(j)
  BY DEF Asking
<1> QED BY <1>1 DEF JackInv

\* The query of a work cannot be sent: it gets no answer.
LEMMA SendFailsJacks ==
  ASSUME TagInv, NumberInv, JackInv, NEW t \in Jacks, Send(t), ~(Available > 0),
         UNCHANGED streamVars
  PROVE  JackInv'
<1>1. t \in Callers /\ Jacks \subseteq Callers
  BY StreamAssumption
<1>2. /\ Steady /\ \A u \in Callers : call'[u].id = call[u].id
      /\ \A u \in Callers \ {t} : call'[u] = call[u]
      /\ call[t].pc # "idle" /\ call'[t].pc # "idle"
  BY <1>1, CallStepsSteady DEF TagInv
<1>3. call[t].pc = "send" /\ call[t].id = 0
  BY <1>1 DEF Send, NumberInv
<1>4. UNCHANGED <<jackWorks, reported, misled, plugged>>
  BY DEF streamVars, jackVars, t2Vars
<1>5. \A j \in Jacks : Asking(j)' <=> Asking(j)
  BY <1>1, <1>2 DEF Asking
<1>6. Asking(t) /\ Asking(t)'
  BY <1>2 DEF Asking
<1>7. \A r \in Replies' : r.id # 0
  <2>1. \A r \in Replies : r.id \in 1..sent
    BY DEF NumberInv
  <2>2. 0 \notin 1..sent
    BY DEF TagInv, TransportTypes
  <2> QED BY <1>2, <2>1, <2>2 DEF Steady
<1>8. ~misled => \A j \in Jacks : Asking(j) => j = t
  BY <1>6 DEF JackInv
<1>9. call'[t].id = 0
  BY <1>1, <1>2, <1>3
<1>10. ~misled' => \A i, j \in Jacks : Asking(i)' /\ Asking(j)' => i = j
  BY <1>4, <1>5 DEF JackInv
<1>11. ~misled' => \A j \in Jacks : Asking(j)' =>
                      \A r \in Replies' : r.id = call'[j].id => r.val = plugged'
  BY <1>4, <1>5, <1>7, <1>8, <1>9
<1>12. jackWorks' \in Nat /\ misled' \in BOOLEAN
  BY <1>4 DEF JackInv
<1> QED BY <1>6, <1>10, <1>11, <1>12 DEF JackInv

\* The T2 answers with the state that the jack has then.
LEMMA T2ServesJacks ==
  ASSUME TagInv, NumberInv, JackInv, T2Serves
  PROVE  JackInv'
<1>1. UNCHANGED <<call, data, jackWorks, reported, misled, plugged>>
  BY DEF T2Serves, T2Takes, callVars, inVars, jackVars
<1>2. \A j \in Jacks : Asking(j)' <=> Asking(j)
  BY <1>1 DEF Asking
<1>3. ASSUME ~misled, ~ToAsk'
      PROVE  /\ (\A j \in Jacks : ~Asking(j)') => reported' = plugged'
             /\ \A j \in Jacks : Asking(j)' =>
                    \A r \in Replies' : r.id = call'[j].id => r.val = plugged'
  <2>1. CASE ~ToAsk
    BY <1>1, <1>2, <1>3, <2>1, T2ServesNumbers DEF JackInv
  <2>2. CASE ToAsk
    <3>1. PICK j \in Jacks : Asking(j) /\ Owed(call[j].id)
      BY <1>1, <1>2, <1>3, <2>2 DEF ToAsk
    <3>2. PICK k : k = call[j].id
      OBVIOUS
    <3>3. Owed(k) /\ ~Owed(k)'
      BY <1>1, <1>2, <1>3, <3>1, <3>2 DEF ToAsk, Owed
    <3>4. \A r \in Replies' : r.id = k => r.val = plugged
      BY <3>3, T2ServesNumbers
    <3>5. \A i \in Jacks : Asking(i) => i = j
      BY <1>3, <3>1 DEF JackInv
    <3> QED BY <1>1, <1>2, <3>1, <3>2, <3>4, <3>5
  <2> QED BY <2>1, <2>2
<1>4. ~misled' => \A i, j \in Jacks : Asking(i)' /\ Asking(j)' => i = j
  BY <1>1, <1>2 DEF JackInv
<1>5. jackWorks' \in Nat /\ misled' \in BOOLEAN
  BY <1>1 DEF JackInv
<1> QED BY <1>1, <1>3, <1>4, <1>5 DEF JackInv

\* A work that begins alone is not misled.
LEMMA JackAskJacks ==
  ASSUME TagInv, JackInv, NEW j \in Jacks, JackAsk(j)
  PROVE  JackInv'
<1>1. j \in Callers /\ Jacks \subseteq Callers
  BY StreamAssumption
<1> DEFINE r == [NoCall EXCEPT !.pc = "send", !.cmd = "get"]
<1>2. /\ call' = [call EXCEPT ![j] = r] /\ jackWorks > 0 /\ jackWorks' = jackWorks - 1
      /\ misled' = (\E i \in Jacks \ {j} : call[i].pc # "idle")
  BY DEF JackAsk, Begin
<1>3. r.pc = "send"
  BY NewCall DEF Commands
<1> HIDE DEF r
<1>4. call'[j].pc = "send" /\ \A i \in Jacks \ {j} : call'[i] = call[i]
  BY <1>1, <1>2, <1>3 DEF TagInv, TransportTypes
<1>5. ToAsk' /\ Asking(j)'
  BY <1>4 DEF ToAsk, Asking
<1>6. jackWorks' \in Nat /\ misled' \in BOOLEAN
  BY <1>2 DEF JackInv
<1>7. ~misled' => \A i \in Jacks : Asking(i)' => i = j
  BY <1>2, <1>4 DEF Asking
<1> QED BY <1>5, <1>6, <1>7 DEF JackInv

\* A work reports the answer to its query, which is the last one.
LEMMA JackReportJacks ==
  ASSUME TagInv, NumberInv, JackInv, NEW j \in Jacks, JackReport(j)
  PROVE  JackInv'
<1>1. j \in Callers /\ Jacks \subseteq Callers
  BY StreamAssumption
<1>2. /\ Returned(j) /\ call' = [call EXCEPT ![j] = NoCall]
      /\ reported' = IF call[j].pc = "ok" THEN call[j].got.val ELSE reported
      /\ misled' = (misled \/ ~Answered(j))
      /\ UNCHANGED <<jackWorks, plugged, out, data, replies>>
  BY DEF JackReport, End, notCall, outVars, inVars, t2Vars
<1>3. /\ call'[j].pc = "idle" /\ \A i \in Jacks \ {j} : call'[i] = call[i]
      /\ call[j].pc \in {"ok", "failed"}
  BY <1>1, <1>2, NewCall DEF TagInv, TransportTypes, Returned
<1>4. ~Asking(j)' /\ Asking(j) /\ \A i \in Jacks \ {j} : Asking(i)' <=> Asking(i)
  BY <1>3 DEF Asking
<1>5. misled' \in BOOLEAN /\ jackWorks' \in Nat
  BY <1>2 DEF JackInv
<1>6. ~misled' => \A i \in Jacks : ~Asking(i)'
  BY <1>2, <1>4 DEF JackInv
<1>7. ASSUME ~misled', ~ToAsk' PROVE reported' = plugged'
  <2>1. ~misled /\ Answered(j)
    BY <1>2, <1>7
  <2>2. call[j].pc = "ok" /\ call[j].got.id = call[j].id /\ call[j].done
    BY <1>1, <2>1 DEF Answered, TagInv, Answers
  <2>3. call[j].got \in Replies
    BY <1>1, <2>2 DEF Replies
  <2>4. ~Owed(call[j].id)
    BY <2>2, <2>3 DEF NumberInv
  <2>5. \A i \in Jacks : Asking(i) => i = j
    BY <1>4, <2>1 DEF JackInv
  <2>6. ~ToAsk
    BY <1>2, <1>7, <2>2, <2>4, <2>5 DEF ToAsk
  <2>7. call[j].got.val = plugged
    BY <1>4, <2>1, <2>2, <2>3, <2>6 DEF JackInv
  <2> QED BY <1>2, <2>2, <2>7
<1> QED BY <1>5, <1>6, <1>7 DEF JackInv

\* A message that is no notification is handled.
LEMMA HandlesJacks ==
  ASSUME TagInv, NumberInv, SlotInv, JackInv, NextIn, posted # <<>>, Current.type # "changed", Steady,
         UNCHANGED <<jackWorks, reported, misled, plugged>>,
         \A j \in Jacks : call'[j].id = call[j].id /\ call'[j].pc = call[j].pc
  PROVE  JackInv'
<1>1. \A n \in DataSlots : data[n].type = "changed" => data'[n].type = "changed"
  BY NextInSlots DEF Current
<1>2. Replies' \subseteq Replies /\ \A k : Owed(k) => Owed(k)'
  BY SteadyOwes DEF Steady, TagInv
<1> QED BY <1>1, <1>2, QuietJacks

LEMMA TransportJacks ==
  ASSUME TagInv, TagInv', NumberInv, SlotInv, JackInv, Transport, UNCHANGED streamVars
  PROVE  JackInv'
<1>1. Jacks \subseteq Callers
  BY StreamAssumption
<1>2. UNCHANGED <<jackWorks, reported, misled, plugged>> /\ jackWorks' \in Nat
  BY DEF streamVars, jackVars, t2Vars, JackInv
<1>3. ASSUME NEW t \in Callers, Send(t), Available > 0 PROVE JackInv'
  <2>1. /\ Replies' \subseteq Replies
        /\ \A k : Owed(k) => Owed(k)'
        /\ \A u \in Callers \ {t} : call'[u] = call[u]
        /\ call[t].pc = "send" /\ call'[t].pc = "wait"
        /\ \A k : k = call'[t].id => Owed(k)'
        /\ UNCHANGED data
    BY <1>3, SendNumbers
  <2>2. CASE t \notin Jacks
    <3>1. \A j \in Jacks : call'[j] = call[j]
      BY <1>1, <2>1, <2>2
    <3> QED BY <1>2, <2>1, <3>1, QuietJacks
  <2>3. CASE t \in Jacks
    <3>1. PICK k : k = call'[t].id
      OBVIOUS
    <3>2. Owed(k)'
      BY <2>1, <3>1
    <3>3. ToAsk'
      BY <2>1, <2>3, <3>1, <3>2 DEF ToAsk, Asking, Owed
    <3>4. \A j \in Jacks : call'[j].pc = "idle" <=> call[j].pc = "idle"
      BY <1>1, <2>1
    <3> QED BY <1>2, <3>3, <3>4, AskedJacks
  <2> QED BY <2>2, <2>3
<1>4. ASSUME NEW t \in Callers, Wake(t) \/ Expire(t) \/ CleanUp(t) \/ (Send(t) /\ ~(Available > 0)),
             ~(Send(t) /\ ~(Available > 0)) \/ t \notin Jacks
      PROVE  JackInv'
  <2>1. /\ Steady /\ UNCHANGED data
        /\ \A u \in Callers : call'[u].id = call[u].id
        /\ \A u \in Callers \ {t} : call'[u] = call[u]
        /\ call[t].pc # "idle" /\ call'[t].pc \notin {"idle", "send"}
    BY <1>4, CallStepsSteady DEF TagInv
  <2>2. Replies' \subseteq Replies /\ \A k : Owed(k) => Owed(k)'
    BY <2>1, SteadyOwes DEF Steady, TagInv
  <2>3. t \in Jacks => call[t].pc # "send"
    BY <1>4 DEF Wake, Expire, CleanUp
  <2>4. \A j \in Jacks : /\ call'[j].pc = "idle" <=> call[j].pc = "idle"
                         /\ call[j].pc = "send" => call'[j].pc = "send"
                         /\ call'[j].id = call[j].id
    BY <1>1, <2>1, <2>3
  <2> QED BY <1>2, <2>1, <2>2, <2>4, QuietJacks
<1>5. CASE OutCompletion \/ SubmitPending
  <2>1. UNCHANGED <<call, sent, out, data, replies>>
    BY <1>5 DEF OutCompletion, SubmitPending, callVars, outVars, inVars
  <2>2. Replies' \subseteq Replies /\ \A k : Owed(k) => Owed(k)'
    BY <2>1, FewerReplies DEF Owed
  <2> QED BY <1>2, <2>1, <2>2, QuietJacks
<1>6. CASE HandleReply
  <2>1. NextIn /\ posted # <<>> /\ Current.type # "changed"
    BY <1>6 DEF HandleReply, Handling
  <2> QED BY <1>1, <1>2, <1>6, <2>1, HandleReplySteady, HandlesJacks
<1>7. CASE HandleBoot
  <2>1. NextIn /\ posted # <<>> /\ Current.type # "changed"
    BY <1>7 DEF HandleBoot, Handling
  <2> QED BY <1>1, <1>2, <1>7, <2>1, IrqSteady, HandlesJacks
<1>8. CASE T2Replies
  <2>1. /\ Steady /\ call' = call
        /\ \A n \in DataSlots : data[n].type # "none" => data'[n] = data[n]
    BY <1>8, T2RepliesSteady
  <2>2. Replies' \subseteq Replies /\ \A k : Owed(k) => Owed(k)'
    BY <2>1, SteadyOwes DEF Steady, TagInv
  <2> QED BY <1>2, <2>1, <2>2, QuietJacks
<1> QED BY <1>3, <1>4, <1>5, <1>6, <1>7, <1>8, SendFailsJacks DEF Transport

\* The stream and suspend leave the jack alone.
LEMMA StreamJacks ==
  ASSUME TagInv, NumberInv, JackInv, Untouched \/ CallBegins \/ CallEnds,
         UNCHANGED <<jackWorks, reported, misled, plugged>>, \A j \in Jacks : call'[j] = call[j]
  PROVE  JackInv'
<1>1. Steady /\ UNCHANGED data
  BY CallBeginsSteady DEF Untouched, CallBegins, CallEnds, transportRest
<1>2. Replies' \subseteq Replies /\ \A k : Owed(k) => Owed(k)'
  BY <1>1, SteadyOwes DEF Steady, TagInv
<1> QED BY <1>1, <1>2, QuietJacks

LEMMA StreamCalls ==
  ASSUME TransportTypes, StreamStep
  PROVE  /\ UNCHANGED <<jackWorks, reported, misled, plugged>>
         /\ \A j \in Jacks : call'[j] = call[j]
<1> USE DEF protocolVars, transportVars, callVars, notCall, jackVars, t2Vars
<1>1. ASSUME NEW t \in {stream, pm}, NEW c, call' = [call EXCEPT ![t] = c]
      PROVE  \A j \in Jacks : call'[j] = call[j]
  BY <1>1, StreamAssumption DEF TransportTypes
<1>2. ASSUME NEW t \in {stream, pm}, End(t) \/ \E c : Begin(t, c)
      PROVE  \A j \in Jacks : call'[j] = call[j]
  BY <1>1, <1>2 DEF End, Begin
<1>3. ASSUME NEW h, StopBy(h)
      PROVE  /\ UNCHANGED <<jackWorks, reported, misled, plugged>>
             /\ \A j \in Jacks : call'[j] = call[j]
  BY <1>2, <1>3 DEF StopBy
<1>4. CASE Open \/ Close \/ TimerFires \/ TimerQueues \/ PeriodWork \/ TsRun \/ TsApply
  BY <1>4 DEF Open, Close, TimerFires, TimerQueues, PeriodWork, TsRun, TsApply
<1>5. CASE Start \/ StartDone \/ StopDone
  BY <1>2, <1>5 DEF Start, StartDone, StopDone
<1>6. CASE Stop \/ PeriodElapsed \/ TsElapsed
  BY <1>3, <1>6 DEF Stop, PeriodElapsed, TsElapsed
<1>7. CASE Quiesce \/ IoStopped \/ SuspendAll \/ SuspendResume
  BY <1>2, <1>7 DEF Quiesce, IoStopped, SuspendAll, SuspendResume
<1> QED BY <1>4, <1>5, <1>6, <1>7 DEF StreamStep

LEMMA NextJacks ==
  TagInv /\ TagInv' /\ SlotInv /\ NumberInv /\ JackInv /\ [Next]_vars => JackInv'
<1> SUFFICES ASSUME TagInv, TagInv', SlotInv, NumberInv, JackInv, [Next]_vars PROVE JackInv'
  OBVIOUS
<1>1. CASE UNCHANGED vars
  BY <1>1, StreamJacks DEF vars, Untouched, transportRest, protocolVars, transportVars,
     callVars, outVars, inVars, streamVars, t2Vars, jackVars
<1>2. CASE Transport /\ UNCHANGED streamVars
  BY <1>2, TransportJacks
<1>3. CASE HandleTimestamp
  <2>1. /\ NextIn /\ posted # <<>> /\ Current.type # "changed"
        /\ UNCHANGED <<jackWorks, reported, misled, plugged>>
    BY <1>3 DEF HandleTimestamp, Handling, jackVars, t2Vars
  <2> QED BY <1>3, <2>1, IrqSteady, HandlesJacks
<1>4. CASE HandleChanged
  <2>1. jackWorks' = jackWorks + 1 /\ call' = call /\ misled' = misled
    BY <1>4 DEF HandleChanged, callVars
  <2>2. jackWorks' \in Nat /\ jackWorks' > 0
    BY <2>1 DEF JackInv
  <2> QED BY <2>1, <2>2, AskedJacks DEF ToAsk
<1>5. CASE \E j \in Jacks : JackAsk(j) \/ JackReport(j)
  BY <1>5, JackAskJacks, JackReportJacks
<1>6. CASE T2Serves
  BY <1>6, T2ServesJacks
<1>7. CASE T2Sends
  <2>1. /\ Steady /\ call' = call
        /\ \A n \in DataSlots : data[n].type # "none" => data'[n] = data[n]
        /\ plugged' = plugged \/ \E n \in DataSlots : data'[n].type = "changed"
    BY <1>7, T2SendsSteady
  <2>2. UNCHANGED <<jackWorks, reported, misled>> /\ jackWorks' \in Nat
    BY <1>7 DEF T2Sends, jackVars, JackInv
  <2>3. Replies' \subseteq Replies /\ \A k : Owed(k) => Owed(k)'
    BY <2>1, SteadyOwes DEF Steady, TagInv
  <2>4. CASE plugged' = plugged
    BY <2>1, <2>2, <2>3, <2>4, QuietJacks
  <2>5. CASE \E n \in DataSlots : data'[n].type = "changed"
    BY <2>1, <2>2, <2>5, AskedJacks DEF ToAsk
  <2> QED BY <2>1, <2>4, <2>5
<1>8. CASE StreamStep
  BY <1>8, OwnSteps, StreamCalls, StreamJacks DEF TagInv
<1> QED BY <1>1, <1>2, <1>3, <1>4, <1>5, <1>6, <1>7, <1>8 DEF Next, StreamStep

LEMMA InitJacks == Init => JackInv
<1> SUFFICES ASSUME Init PROVE JackInv
  OBVIOUS
<1>1. /\ call = [t \in Callers |-> NoCall]
      /\ jackWorks = 0 /\ reported = FALSE /\ plugged = FALSE /\ misled = FALSE
  BY DEF Init, ProtocolInit
<1>2. \A j \in Jacks : ~Asking(j)
  BY <1>1, NewCall, StreamAssumption DEF Asking
<1> QED BY <1>1, <1>2 DEF JackInv

LEMMA JackInvariant == Spec => []JackInv
<1>1. Spec => [][Next]_vars
  BY PTL DEF Spec
<1> QED BY <1>1, InitJacks, NextJacks, TagInvariant, SlotInvariant, NumberInvariant, PTL DEF Spec

\* For any number of works of aaudio_handle_jack_connection_change: when every
\* notification has been dealt with, what snd_jack_report was told last is the state
\* of the jack, unless the last query failed or works ran beside each other.
THEOREM JackIsReported == Spec => []JackIsCurrent
<1>1. SlotInv /\ JackInv => JackIsCurrent
  <2> SUFFICES ASSUME SlotInv, JackInv, jackWorks = 0, \A j \in Jacks : call[j].pc = "idle",
                      \A i \in DOMAIN posted : data[posted[i]].type # "changed", ~misled
               PROVE  reported = plugged
    BY DEF JackIsCurrent, JackInv
  <2>1. \A n \in DataSlots : data[n].type # "changed"
    <3>1. DOMAIN posted = 1..Len(posted)
      BY DEF SlotInv
    <3> QED BY <3>1 DEF SlotInv
  <2>2. (\A j \in Jacks : ~Asking(j)) /\ ~ToAsk
    BY <2>1 DEF Asking, ToAsk
  <2> QED BY <2>2 DEF JackInv
<1> QED BY <1>1, SlotInvariant, JackInvariant, PTL

-----------------------------------------------------------------------------
(* The timestamps.                                                         *)

\* When the stream is started, and when it may still be running.
StageInv ==
    /\ alsa \in {"closed", "open", "starting", "cancelling", "closing"} => ~started
    /\ alsa \in {"arming", "running", "stopping"} /\ pc = "up" => started
    /\ alsa \in {"running", "stopping"} => pc \in {"up", "stop", "suspend_all"}

\* A command in the queue is that of the call with its number.
CommandInv ==
    \A i \in 1..Len(out), t \in Callers :
        out[i].type = "command" /\ out[i].id = call[t].id => out[i].cmd = call[t].cmd

\* What the T2 owes are replies.
ReplyInv == \A r \in replies : r.type = "reply"

\* The T2 does no IO and will not begin; nor does a timestamp of it lie in a slot.
Stopped == io = None /\ \A i \in 1..Len(out) : out[i].cmd # "start_io"
Calm == Stopped /\ \A n \in DataSlots : data[n].type # "timestamp"

\* The call of t is a stop_io that was sent.
Stops(t) ==
    /\ (t = stream /\ alsa = "stopping") \/ (t = pm /\ pc = "stop")
    /\ call[t].id # 0

\* Nothing is started behind the stop_io number n, so the T2 is stopped once it has
\* answered, and sends its last timestamp before the answer.
StopsWith(n) ==
    /\ \A i, k \in 1..Len(out) :
           out[i].type = "command" /\ out[i].id = n /\ i < k => out[k].cmd # "start_io"
    /\ \A r \in replies : r.id = n => Stopped
    /\ \A i, k \in 1..Len(posted) :
           data[posted[i]].type = "reply" /\ data[posted[i]].id = n =>
               Stopped /\ (data[posted[k]].type = "timestamp" => k < i)

StopInv ==
    \A t \in {stream, pm} : Stops(t) =>
        /\ StopsWith(call[t].id)
        /\ call[t].done /\ call[t].got.id = call[t].id => Calm

\* Every timestamp that there is or will be is of the start_io number v.
StampsOf(v) ==
    /\ io # None => io = v
    /\ \A i \in 1..Len(out) : out[i].cmd = "start_io" => out[i].id = v
    /\ \A n \in DataSlots : data[n].type = "timestamp" => data[n].val = v
    /\ ts_work.queued => ts_time_os = v
    /\ ts_work.pc = "read" => ts_work.time = v

\* There is none, and none will be.
NoStamps == Calm /\ ~ts_work.queued /\ ts_work.pc # "read"

\* A stream whose stop the T2 has confirmed leaves it calm; so, unless ts_work had
\* not finished, the timestamps after a start are those of this run.
StampInv ==
    /\ ts_work = [queued |-> ts_work.queued, pc |-> ts_work.pc, time |-> ts_work.time]
    /\ ~started /\ pc # "stop" /\ alsa \notin {"starting", "arming"} /\ lastIo.answered => Calm
    /\ alsa = "starting" /\ ~leftover =>
           /\ waiting_for_first_ts
           /\ call[stream].id = 0 => NoStamps
           /\ call[stream].id # 0 => StampsOf(call[stream].id)
    /\ alsa \in {"arming", "running"} /\ ~leftover =>
           (waiting_for_first_ts \/ remote = run) /\ StampsOf(run)

LEMMA QuietStages ==
  ASSUME StageInv, UNCHANGED <<alsa, started, pc>> PROVE StageInv'
  BY DEF StageInv

LEMMA NextStages == IoInv /\ StageInv /\ [Next]_vars => StageInv'
<1> SUFFICES ASSUME IoInv, StageInv, [Next]_vars PROVE StageInv'
  OBVIOUS
<1> USE DEF pcmVars
<1>1. CASE UNCHANGED vars \/ (Transport /\ UNCHANGED streamVars)
  BY <1>1, QuietStages DEF vars, streamVars
<1>2. CASE Open \/ Close
  BY <1>2 DEF Open, Close, StageInv
<1>3. CASE Start
  BY <1>3 DEF Start, App, StageInv
<1>4. CASE StartDone
  BY <1>4 DEF StartDone, StageInv, IoInv, LockStages
<1>5. ASSUME NEW h, StopBy(h) PROVE StageInv'
  BY <1>5 DEF StopBy, StageInv
<1>6. CASE Stop \/ PeriodElapsed \/ TsElapsed
  BY <1>5, <1>6, QuietStages DEF Stop, PeriodElapsed, TsElapsed
<1>7. CASE StopDone
  BY <1>7 DEF StopDone, StageInv
<1>8. CASE Quiesce
  BY <1>8 DEF Quiesce, StageInv, IoInv, LockStages
<1>9. CASE IoStopped
  BY <1>9 DEF IoStopped, StageInv, IoInv, LockStages
<1>10. CASE SuspendAll
  BY <1>10 DEF SuspendAll, StageInv, IoInv, LockStages
<1>11. CASE SuspendResume
  BY <1>11 DEF SuspendResume, StageInv, IoInv, LockStages
<1>12. CASE TimerFires \/ TimerQueues \/ PeriodWork \/ TsRun \/ TsApply
            \/ HandleTimestamp \/ HandleChanged \/ T2Serves \/ T2Sends
  BY <1>12, QuietStages DEF TimerFires, TimerQueues, PeriodWork, TsRun, TsApply, HandleTimestamp,
     HandleChanged, T2Serves, T2Sends
<1>13. CASE \E j \in Jacks : JackAsk(j) \/ JackReport(j)
  BY <1>13, QuietStages DEF JackAsk, JackReport
<1> QED BY <1>1, <1>2, <1>3, <1>4, <1>6, <1>7, <1>8, <1>9, <1>10, <1>11, <1>12, <1>13 DEF Next

LEMMA StageInvariant == Spec => []StageInv
<1>1. Init => StageInv
  BY DEF Init, StageInv
<1>2. Spec => [][Next]_vars
  BY PTL DEF Spec
<1> QED BY <1>1, <1>2, NextStages, IoInvariant, PTL DEF Spec

\* Calls keep their command as long as they have a number.
LEMMA SteadyCommands ==
  ASSUME TransportTypes, NumberInv, NumberInv', CommandInv, Steady,
         \A t \in Callers : call'[t].id = 0 \/ (call'[t].id = call[t].id /\ call'[t].cmd = call[t].cmd)
  PROVE  CommandInv'
<1> SUFFICES ASSUME NEW i \in 1..Len(out'), NEW t \in Callers,
                    out'[i].type = "command", out'[i].id = call'[t].id
             PROVE  out'[i].cmd = call'[t].cmd
  BY DEF CommandInv
<1>1. i \in 1..Len(out) /\ out'[i] = out[i]
  BY SteadyOwes
<1>2. call'[t].id # 0
  <2>1. out[i].id \in 1..sent /\ sent \in Nat
    BY <1>1 DEF NumberInv, TransportTypes
  <2> QED BY <1>1, <2>1
<1> QED BY <1>1, <1>2 DEF CommandInv

LEMMA SendCommands ==
  ASSUME TagInv, NumberInv, CommandInv, NEW t \in Callers, Send(t), Available > 0
  PROVE  CommandInv'
<1> DEFINE msg == Message("command", call[t].cmd, CreateTag, sent + 1, None)
           c == [call[t] EXCEPT !.pc = "wait", !.tag = CreateTag, !.id = sent + 1]
<1>1. /\ out' = Append(out, msg)
      /\ call' = [call EXCEPT ![t].pc = "wait", ![t].tag = CreateTag, ![t].id = sent + 1]
  BY DEF Send
<1>2. sent \in Nat /\ call \in [Callers -> CallRecords] /\ call[t] \in CallRecords
  BY DEF TagInv, TransportTypes
<1>3. call' = [call EXCEPT ![t] = c]
  BY <1>1, <1>2
<1>4. c.id = sent + 1 /\ c.cmd = call[t].cmd
  BY <1>2 DEF CallRecords
<1>5. msg.id = sent + 1 /\ msg.cmd = call[t].cmd
  BY DEF Message
<1> HIDE DEF c, msg
<1>6. call'[t] = c /\ \A u \in Callers \ {t} : call'[u] = call[u]
  BY <1>2, <1>3
<1>7. \A i \in 1..Len(out') : out'[i] = msg \/ (i \in 1..Len(out) /\ out'[i] = out[i])
  BY <1>1 DEF TagInv, TransportTypes
<1>8. /\ \A i \in 1..Len(out) : out[i].type = "command" => out[i].id # sent + 1
      /\ \A u \in Callers : call[u].id # sent + 1
  <2>1. sent + 1 \notin 1..sent /\ sent + 1 \notin 0..sent
    BY <1>2
  <2> QED BY <2>1 DEF NumberInv
<1> QED BY <1>4, <1>5, <1>6, <1>7, <1>8 DEF CommandInv

LEMMA T2ServesCommands == ASSUME TagInv, CommandInv, T2Serves PROVE CommandInv'
<1>1. call' = call /\ out # <<>> /\ out' = Tail(out)
  BY DEF T2Serves, T2Takes, callVars
<1>2. \A i \in 1..Len(out') : i + 1 \in 1..Len(out) /\ out'[i] = out[i + 1]
  BY <1>1 DEF TagInv, TransportTypes
<1> QED BY <1>1, <1>2 DEF CommandInv

LEMMA NextCommands ==
  TagInv /\ SlotInv /\ NumberInv /\ NumberInv' /\ CommandInv /\ [Next]_vars => CommandInv'
<1> SUFFICES ASSUME TagInv, SlotInv, NumberInv, NumberInv', CommandInv, [Next]_vars PROVE CommandInv'
  OBVIOUS
<1>1. ASSUME Steady, call' = call PROVE CommandInv'
  BY <1>1, SteadyCommands DEF TagInv
<1>2. CASE UNCHANGED vars
  <2>1. Untouched
    BY <1>2 DEF vars, Untouched, transportRest, protocolVars, transportVars, callVars, outVars,
       inVars, streamVars, t2Vars
  <2> QED BY <1>1, <2>1, CallBeginsSteady DEF Untouched
<1>3. CASE Transport
  <2>1. ASSUME NEW t \in Callers, Send(t), Available > 0 PROVE CommandInv'
    BY <2>1, SendCommands
  <2>2. ASSUME NEW t \in Callers, Wake(t) \/ Expire(t) \/ CleanUp(t) \/ (Send(t) /\ ~(Available > 0))
        PROVE CommandInv'
    BY <2>2, CallStepsSteady, SteadyCommands DEF TagInv
  <2>3. CASE OutCompletion \/ SubmitPending
    <3>1. UNCHANGED <<call, sent, out, data, replies>>
      BY <2>3 DEF OutCompletion, SubmitPending, callVars, outVars, inVars
    <3> QED BY <3>1 DEF CommandInv
  <2>4. CASE HandleReply
    BY <2>4, HandleReplySteady, SteadyCommands DEF TagInv
  <2>5. CASE HandleBoot
    BY <1>1, <2>5, IrqSteady
  <2>6. CASE T2Replies
    BY <1>1, <2>6, T2RepliesSteady
  <2> QED BY <1>3, <2>1, <2>2, <2>3, <2>4, <2>5, <2>6 DEF Transport
<1>4. CASE CallBegins \/ CallEnds \/ Untouched
  <2>1. \A t \in Callers : call'[t] = call[t] \/ call'[t].id = 0
    <3>1. CASE CallBegins
      BY <3>1, AfterBegin DEF CallBegins, TagInv
    <3>2. CASE CallEnds
      BY <3>2, AfterEnd DEF CallEnds, TagInv
    <3> QED BY <1>4, <3>1, <3>2 DEF Untouched
  <2> QED BY <1>4, <2>1, CallBeginsSteady, SteadyCommands DEF TagInv
<1>5. CASE HandleTimestamp \/ HandleChanged
  BY <1>1, <1>5, IrqSteady
<1>6. CASE T2Serves
  BY <1>6, T2ServesCommands
<1>7. CASE T2Sends
  BY <1>1, <1>7, T2SendsSteady
<1> QED BY <1>2, <1>3, <1>4, <1>5, <1>6, <1>7, StreamSteps

LEMMA CommandInvariant == Spec => []CommandInv
<1>1. Init => CommandInv
  <2> SUFFICES ASSUME Init PROVE CommandInv
    OBVIOUS
  <2>1. Len(out) = 0
    BY DEF Init, ProtocolInit
  <2> QED BY <2>1 DEF CommandInv
<1>2. Spec => [][Next]_vars
  BY PTL DEF Spec
<1> QED BY <1>1, <1>2, NextCommands, TagInvariant, SlotInvariant, NumberInvariant, PTL DEF Spec

-----------------------------------------------------------------------------

\* Nothing is put in the queue but messages that start nothing.
LEMMA NothingStarts ==
  ASSUME TransportTypes, io' = io,
         out' = out \/ \E msg \in MessageRecords : msg.cmd # "start_io" /\ out' = Append(out, msg)
  PROVE  /\ Stopped => Stopped'
         /\ \A i \in 1..Len(out') : out'[i].cmd = "start_io" => i \in 1..Len(out) /\ out'[i] = out[i]
<1>1. \A i \in 1..Len(out') : out'[i].cmd = "start_io" => i \in 1..Len(out) /\ out'[i] = out[i]
  <2>1. CASE out' = out
    BY <2>1
  <2>2. ASSUME NEW msg \in MessageRecords, msg.cmd # "start_io", out' = Append(out, msg)
        PROVE  \A i \in 1..Len(out') : out'[i].cmd = "start_io" => i \in 1..Len(out) /\ out'[i] = out[i]
    <3>1. \A i \in 1..Len(out') : out'[i] = msg \/ (i \in 1..Len(out) /\ out'[i] = out[i])
      BY <2>2 DEF TransportTypes
    <3> QED BY <2>2, <3>1
  <2> QED BY <2>1, <2>2
<1> QED BY <1>1 DEF Stopped

\* A message follows the stop_io.
LEMMA OutStops ==
  ASSUME TransportTypes, io' = io, UNCHANGED <<replies, posted, data>>,
         out' = out \/ \E msg \in MessageRecords : msg.cmd # "start_io" /\ out' = Append(out, msg),
         NEW n, StopsWith(n)
  PROVE  StopsWith(n)'
<1>1. ASSUME NEW i \in 1..Len(out'), NEW k \in 1..Len(out'),
             out'[i].type = "command", out'[i].id = n, i < k, out'[k].cmd = "start_io"
      PROVE  FALSE
  <2>1. k \in 1..Len(out) /\ out'[k] = out[k]
    BY <1>1, NothingStarts
  <2>2. \A m \in 1..Len(out) : out'[m] = out[m]
    <3>1. CASE out' = out
      BY <3>1
    <3>2. ASSUME NEW msg \in MessageRecords, out' = Append(out, msg)
          PROVE  \A m \in 1..Len(out) : out'[m] = out[m]
      BY <3>2 DEF TransportTypes
    <3> QED BY <3>1, <3>2
  <2>3. i \in 1..Len(out)
    <3>1. Len(out) \in Nat /\ Len(out') \in Nat
      BY DEF TransportTypes
    <3> QED BY <1>1, <2>1, <3>1
  <2> QED BY <1>1, <2>1, <2>2, <2>3 DEF StopsWith
<1>2. Stopped => Stopped'
  BY NothingStarts
<1> QED BY <1>1, <1>2 DEF StopsWith

\* The stop_io itself is sent.
LEMMA SendStops ==
  ASSUME TagInv, NumberInv, SlotInv, NEW msg \in MessageRecords, out' = Append(out, msg), msg.id = sent + 1,
         UNCHANGED <<replies, posted, data>>, NEW n, n = sent + 1
  PROVE  StopsWith(n)'
<1>1. sent \in Nat /\ n \notin 1..sent
  BY DEF TagInv, TransportTypes
<1>2. /\ Len(out) \in Nat /\ Len(out') = Len(out) + 1
      /\ \A i \in 1..Len(out) : out'[i] = out[i]
  BY DEF TagInv, TransportTypes
<1>3. \A i \in 1..Len(out') : out'[i].type = "command" /\ out'[i].id = n => i = Len(out')
  <2> SUFFICES ASSUME NEW i \in 1..Len(out), out'[i].type = "command", out'[i].id = n PROVE FALSE
    BY <1>2
  <2> QED BY <1>1, <1>2 DEF NumberInv
<1>4. \A r \in replies : r.id # n
  BY <1>1 DEF NumberInv, Replies
<1>5. \A i \in 1..Len(posted) : data[posted[i]].type = "reply" => data[posted[i]].id # n
  <2>1. \A i \in 1..Len(posted) : posted[i] \in DataSlots
    BY DEF SlotInv
  <2> QED BY <1>1, <2>1 DEF NumberInv, Replies
<1>6. ASSUME NEW i \in 1..Len(out'), NEW k \in 1..Len(out'),
             out'[i].type = "command", out'[i].id = n, i < k
      PROVE  FALSE
  BY <1>2, <1>3, <1>6
<1> QED BY <1>4, <1>5, <1>6 DEF StopsWith

\* A message of the T2 is handled: what was posted moves up.
LEMMA NextInStops ==
  ASSUME TagInv, SlotInv, NextIn, posted # <<>>, io' = io, UNCHANGED replies,
         out' = out \/ \E msg \in MessageRecords : msg.cmd # "start_io" /\ out' = Append(out, msg),
         NEW n, StopsWith(n)
  PROVE  StopsWith(n)'
<1>1. ASSUME NEW i \in 1..Len(out'), NEW k \in 1..Len(out'),
             out'[i].type = "command", out'[i].id = n, i < k, out'[k].cmd = "start_io"
      PROVE  FALSE
  <2>1. k \in 1..Len(out) /\ out'[k] = out[k]
    BY <1>1, NothingStarts DEF TagInv
  <2>2. i \in 1..Len(out) /\ out'[i] = out[i]
    BY <1>1, <2>1 DEF TagInv, TransportTypes
  <2> QED BY <1>1, <2>1, <2>2 DEF StopsWith
<1>2. Stopped => Stopped'
  BY NothingStarts DEF TagInv
<1>3. /\ posted' = Tail(posted) /\ Len(posted) \in Nat \ {0} /\ Len(posted') = Len(posted) - 1
      /\ \A i \in 1..Len(posted') : i + 1 \in 1..Len(posted) /\ posted'[i] = posted[i + 1]
  BY DEF SlotInv, NextIn
<1>4. \A i \in 1..Len(posted') : \/ data'[posted'[i]] = data[posted[i + 1]]
                                 \/ data'[posted'[i]].type = "none"
  <2>1. \A i \in 1..Len(posted) : posted[i] \in DataSlots
    BY DEF SlotInv
  <2> QED BY <1>3, <2>1, AfterNextIn DEF TagInv
<1>5. ASSUME NEW i \in 1..Len(posted'), NEW k \in 1..Len(posted'),
             data'[posted'[i]].type = "reply", data'[posted'[i]].id = n
      PROVE  Stopped' /\ (data'[posted'[k]].type = "timestamp" => k < i)
  <2>1. /\ data[posted[i + 1]].type = "reply" /\ data[posted[i + 1]].id = n
        /\ i + 1 \in 1..Len(posted) /\ k + 1 \in 1..Len(posted)
    BY <1>3, <1>4, <1>5
  <2>2. Stopped /\ (data[posted[k + 1]].type = "timestamp" => k + 1 < i + 1)
    BY <2>1 DEF StopsWith
  <2>3. k + 1 < i + 1 => k < i
    OBVIOUS
  <2> QED BY <1>2, <1>4, <2>2, <2>3
<1>6. \A r \in replies' : r.id = n => Stopped'
  BY <1>2 DEF StopsWith
<1> QED BY <1>1, <1>5, <1>6 DEF StopsWith

\* The T2 posts a reply it owed, or something else; timestamps only while it does IO.
LEMMA PostStops ==
  ASSUME TagInv, SlotInv, NEW msg \in MessageRecords, T2Posts(msg), UNCHANGED <<out, io>>,
         replies' \subseteq replies, msg.type # "reply" \/ msg \in replies,
         msg.type = "timestamp" => io # None, NEW n, StopsWith(n)
  PROVE  StopsWith(n)'
<1>1. Stopped' <=> Stopped
  BY DEF Stopped
<1>2. PICK m \in DataSlots : /\ data'[m] = msg
                             /\ \A i \in DataSlots \ {m} : data'[i] = data[i]
                             /\ posted' = Append(posted, m)
                             /\ \A i \in 1..Len(posted) : posted[i] # m
  BY T2PostsSlots
<1>3. /\ Len(posted) \in Nat /\ Len(posted') = Len(posted) + 1 /\ posted'[Len(posted) + 1] = m
      /\ \A i \in 1..Len(posted) : posted'[i] = posted[i] /\ posted[i] \in DataSlots
  BY <1>2 DEF SlotInv
<1>4. /\ data'[posted'[Len(posted) + 1]] = msg
      /\ \A i \in 1..Len(posted) : data'[posted'[i]] = data[posted[i]]
  BY <1>2, <1>3
<1>5. ASSUME NEW i \in 1..Len(posted'), NEW k \in 1..Len(posted'),
             data'[posted'[i]].type = "reply", data'[posted'[i]].id = n
      PROVE  Stopped' /\ (data'[posted'[k]].type = "timestamp" => k < i)
  <2>1. Stopped
    <3>1. CASE i = Len(posted) + 1
      BY <1>4, <1>5, <3>1 DEF StopsWith
    <3>2. CASE i \in 1..Len(posted)
      BY <1>4, <1>5, <3>2 DEF StopsWith
    <3> QED BY <1>3, <3>1, <3>2
  <2>2. ASSUME data'[posted'[k]].type = "timestamp" PROVE k < i
    <3>1. k \in 1..Len(posted)
      BY <1>3, <1>4, <2>1, <2>2 DEF Stopped
    <3>2. CASE i = Len(posted) + 1
      BY <1>3, <3>1, <3>2
    <3>3. CASE i \in 1..Len(posted)
      BY <1>4, <1>5, <2>2, <3>1, <3>3 DEF StopsWith
    <3> QED BY <1>3, <3>2, <3>3
  <2> QED BY <1>1, <2>1, <2>2
<1>6. \A r \in replies' : r.id = n => Stopped'
  BY <1>1 DEF StopsWith
<1>7. \A i, k \in 1..Len(out') :
          out'[i].type = "command" /\ out'[i].id = n /\ i < k => out'[k].cmd # "start_io"
  BY DEF StopsWith
<1> QED BY <1>5, <1>6, <1>7 DEF StopsWith

\* The T2 carries out a command.
LEMMA ServeStops ==
  ASSUME TagInv, T2Serves
  PROVE  /\ Stopped => Stopped'
         /\ \A n : /\ StopsWith(n)
                   /\ \A i \in 1..Len(out) :
                          out[i].type = "command" /\ out[i].id = n => out[i].cmd = "stop_io"
                   => StopsWith(n)'
<1> DEFINE m == Head(out)
           r0 == [m EXCEPT !.type = "reply", !.val = plugged]
<1>1. /\ out # <<>> /\ out' = Tail(out)
      /\ replies' = IF m.type # "command" THEN replies ELSE replies \cup {r0}
      /\ io' = CASE m.cmd = "start_io" -> m.id [] m.cmd = "stop_io" -> None [] OTHER -> io
      /\ UNCHANGED <<data, posted>>
  BY DEF T2Serves, T2Takes, callVars, inVars
<1>2. /\ m = out[1] /\ Len(out) \in Nat \ {0} /\ m \in MessageRecords /\ Len(out') = Len(out) - 1
      /\ 1 \in 1..Len(out)
      /\ \A i \in 1..Len(out') : out'[i] = out[i + 1] /\ i + 1 \in 1..Len(out) /\ 1 < i + 1
  BY <1>1 DEF TagInv, TransportTypes
<1> HIDE DEF m
<1>3. r0.id = m.id
  BY <1>2 DEF MessageRecords
<1> HIDE DEF r0
<1>4. Stopped => Stopped'
  <2> SUFFICES ASSUME Stopped PROVE Stopped'
    OBVIOUS
  <2>1. m.cmd # "start_io"
    BY <1>2 DEF Stopped
  <2>2. io' = None
    BY <1>1, <2>1 DEF Stopped
  <2> QED BY <1>2, <2>2 DEF Stopped
<1>5. ASSUME NEW n, StopsWith(n),
             \A i \in 1..Len(out) : out[i].type = "command" /\ out[i].id = n => out[i].cmd = "stop_io"
      PROVE  StopsWith(n)'
  <2>1. \A i, k \in 1..Len(out') :
            out'[i].type = "command" /\ out'[i].id = n /\ i < k => out'[k].cmd # "start_io"
    <3> SUFFICES ASSUME NEW i \in 1..Len(out'), NEW k \in 1..Len(out'),
                        out'[i].type = "command", out'[i].id = n, i < k
                 PROVE  out'[k].cmd # "start_io"
      OBVIOUS
    <3>1. i + 1 < k + 1
      OBVIOUS
    <3> QED BY <1>2, <1>5, <3>1 DEF StopsWith
  <2>2. ASSUME m.type = "command", m.id = n PROVE Stopped'
    <3>1. m.cmd = "stop_io"
      BY <1>2, <1>5, <2>2
    <3>2. io' = None
      BY <1>1, <3>1
    <3>3. \A i \in 1..Len(out') : out'[i].cmd # "start_io"
      BY <1>2, <1>5, <2>2 DEF StopsWith
    <3> QED BY <3>2, <3>3 DEF Stopped
  <2>3. \A r \in replies' : r.id = n => Stopped'
    BY <1>1, <1>3, <1>4, <1>5, <2>2 DEF StopsWith
  <2>4. \A i, k \in 1..Len(posted') :
            data'[posted'[i]].type = "reply" /\ data'[posted'[i]].id = n =>
                Stopped' /\ (data'[posted'[k]].type = "timestamp" => k < i)
    BY <1>1, <1>4, <1>5 DEF StopsWith
  <2> QED BY <2>1, <2>3, <2>4 DEF StopsWith
<1> QED BY <1>4, <1>5

\* Where nothing is confirmed that was not, and a confirmation leaves the T2 calm.
LEMMA KeepsStops ==
  ASSUME StopInv, Calm => Calm',
         \A t \in {stream, pm} : Stops(t)' =>
             /\ Stops(t) /\ call'[t].id = call[t].id
             /\ \A n : n = call[t].id /\ StopsWith(n) => StopsWith(n)'
             /\ call'[t].done /\ call'[t].got.id = call[t].id =>
                    (call[t].done /\ call[t].got.id = call[t].id) \/ Calm'
  PROVE  StopInv'
<1> SUFFICES ASSUME NEW t \in {stream, pm}, Stops(t)'
             PROVE  /\ StopsWith(call[t].id)'
                    /\ call'[t].done /\ call'[t].got.id = call'[t].id => Calm'
  BY DEF StopInv
<1>1. PICK n : n = call[t].id
  OBVIOUS
<1>2. Stops(t) /\ call'[t].id = n
  BY <1>1
<1>3. StopsWith(n) /\ (call[t].done /\ call[t].got.id = n => Calm)
  BY <1>1, <1>2 DEF StopInv
<1>4. StopsWith(n)'
  BY <1>1, <1>3
<1>5. StopsWith(call[t].id)'
  BY <1>2, <1>4 DEF StopsWith
<1> QED BY <1>1, <1>2, <1>3, <1>5

\* What the stream and suspend do to the transport, and to their calls.
LEMMA StreamQuiet ==
  ASSUME TransportTypes, StreamStep
  PROVE  /\ UNCHANGED <<out, io, replies, posted, data>>
         /\ \A t \in {stream, pm} : Stops(t)' => Stops(t) /\ call'[t] = call[t]
<1> USE DEF protocolVars, transportVars, callVars, inVars, outVars, notCall, t2Vars, pcmVars
<1>1. stream \in Callers /\ pm \in Callers /\ stream # pm
  BY Callings
<1>2. \A t \in {stream, pm} : Stops(t) <=> \/ (t = stream /\ alsa = "stopping" /\ call[t].id # 0)
                                           \/ (t = pm /\ pc = "stop" /\ call[t].id # 0)
  BY DEF Stops
<1>3. \A t \in {stream, pm} : Stops(t)' <=> \/ t = stream /\ alsa' = "stopping" /\ call'[t].id # 0
                                            \/ t = pm /\ pc' = "stop" /\ call'[t].id # 0
  BY DEF Stops
<1>4. ASSUME NEW c, Begin(stream, c)
      PROVE  call'[stream].id = 0 /\ call'[pm] = call[pm]
  BY <1>1, <1>4 DEF Begin, NoCall, TransportTypes
<1>5. ASSUME NEW c, Begin(pm, c)
      PROVE  call'[pm].id = 0 /\ call'[stream] = call[stream]
  BY <1>1, <1>5 DEF Begin, NoCall, TransportTypes
<1>6. End(stream) => call'[stream].id = 0 /\ call'[pm] = call[pm]
  BY <1>1, AfterEnd
<1>7. End(pm) => call'[pm].id = 0 /\ call'[stream] = call[stream]
  BY <1>1, AfterEnd
<1>8. CASE Open \/ Close \/ TimerFires \/ TimerQueues \/ PeriodWork \/ TsRun \/ TsApply
  BY <1>2, <1>3, <1>8 DEF Open, Close, TimerFires, TimerQueues, PeriodWork, TsRun, TsApply
<1>9. CASE Start
  BY <1>1, <1>2, <1>3, <1>4, <1>9 DEF Start
<1>10. CASE StartDone
  BY <1>1, <1>2, <1>3, <1>6, <1>10 DEF StartDone
<1>11. ASSUME NEW h, StopBy(h)
       PROVE  /\ UNCHANGED <<out, io, replies, posted, data>>
              /\ \A t \in {stream, pm} : Stops(t)' => Stops(t) /\ call'[t] = call[t]
  BY <1>1, <1>2, <1>3, <1>4, <1>11 DEF StopBy
<1>12. CASE Stop \/ PeriodElapsed \/ TsElapsed
  BY <1>2, <1>3, <1>11, <1>12 DEF Stop, PeriodElapsed, TsElapsed
<1>13. CASE StopDone
  BY <1>1, <1>2, <1>3, <1>6, <1>13 DEF StopDone
<1>14. CASE Quiesce
  BY <1>1, <1>2, <1>3, <1>5, <1>14 DEF Quiesce
<1>15. CASE IoStopped
  BY <1>1, <1>2, <1>3, <1>7, <1>15 DEF IoStopped
<1>16. CASE SuspendAll
  BY <1>1, <1>2, <1>3, <1>5, <1>16 DEF SuspendAll
<1>17. CASE SuspendResume
  BY <1>1, <1>2, <1>3, <1>5, <1>7, <1>17 DEF SuspendResume
<1> QED BY <1>8, <1>9, <1>10, <1>12, <1>13, <1>14, <1>15, <1>16, <1>17 DEF StreamStep

LEMMA SameStops ==
  UNCHANGED <<out, io, replies, posted, data>> =>
      (Calm => Calm') /\ \A n : StopsWith(n) => StopsWith(n)'
<1> SUFFICES ASSUME UNCHANGED <<out, io, replies, posted, data>>
             PROVE  (Calm => Calm') /\ \A n : StopsWith(n) => StopsWith(n)'
  OBVIOUS
<1>1. Stopped' <=> Stopped
  BY DEF Stopped
<1> QED BY <1>1 DEF Calm, StopsWith

\* What is handled leaves no timestamp behind.
LEMMA NextInCalm ==
  ASSUME TagInv, NextIn, io' = io,
         out' = out \/ \E msg \in MessageRecords : msg.cmd # "start_io" /\ out' = Append(out, msg)
  PROVE  Calm => Calm'
<1>1. Stopped => Stopped'
  BY NothingStarts DEF TagInv
<1>2. \A n \in DataSlots : data'[n] = data[n] \/ data'[n].type = "none"
  BY AfterNextIn DEF TagInv
<1> QED BY <1>1, <1>2 DEF Calm

\* The answer to a stop_io is handled: all timestamps have been.
LEMMA HandleReplyStops ==
  ASSUME TagInv, NumberInv, SlotInv, StopInv, HandleReply, UNCHANGED streamVars
  PROVE  StopInv'
<1> DEFINE m == Current
           u == pending_entries[m.tag]
<1>1. /\ m.type = "reply" /\ m = data[data_head] /\ data_head \in DataSlots /\ posted # <<>>
      /\ call' = IF u = None THEN call ELSE [call EXCEPT ![u].done = TRUE, ![u].got = m]
      /\ NextIn /\ UNCHANGED <<out, replies>>
  BY DEF HandleReply, Handling, outVars, Current, TagInv, TransportTypes
<1> HIDE DEF m, u
<1>2. UNCHANGED <<io, alsa, pc>>
  BY DEF streamVars, t2Vars, pcmVars
<1>3. \A t \in Callers : call'[t].id = call[t].id
  BY HandleReplySteady
<1>4. \A t \in {stream, pm} : Stops(t)' => Stops(t)
  BY <1>2, <1>3, Callings DEF Stops
<1>5. \A t \in Callers :
          call'[t].done => call'[t].got = m \/ (call[t].done /\ call'[t].got = call[t].got)
  <2>1. call \in [Callers -> CallRecords]
    BY DEF TagInv, TransportTypes
  <2> QED BY <1>1, <2>1 DEF CallRecords
<1>6. Calm => Calm'
  BY <1>1, <1>2, NextInCalm
<1>7. posted[1] = data_head /\ 1 \in 1..Len(posted) /\ Len(posted) \in Nat
  <2>1. Len(posted) \in Nat \ {0} /\ 1 \in 1..Len(posted)
    BY <1>1 DEF SlotInv
  <2>2. posted[1] = Wrap(data_head + 1 - 1)
    BY <2>1 DEF SlotInv
  <2> QED BY <1>1, <2>1, <2>2, Sizes DEF Wrap, DataSlots
<1>8. ASSUME NEW t \in {stream, pm}, Stops(t), m.id = call[t].id PROVE Calm
  <2>1. StopsWith(call[t].id)
    BY <1>8 DEF StopInv
  <2>2. data[posted[1]].type = "reply" /\ data[posted[1]].id = call[t].id
    BY <1>1, <1>7, <1>8
  <2>3. Stopped /\ \A k \in 1..Len(posted) : data[posted[k]].type = "timestamp" => k < 1
    BY <1>7, <2>1, <2>2 DEF StopsWith
  <2>4. \A k \in 1..Len(posted) : data[posted[k]].type # "timestamp"
    BY <1>7, <2>3
  <2> QED BY <2>3, <2>4 DEF Calm, SlotInv
<1>9. \A n : StopsWith(n) => StopsWith(n)'
  BY <1>1, <1>2, NextInStops
<1> QED BY <1>3, <1>4, <1>5, <1>6, <1>8, <1>9, Callings, KeepsStops

LEMMA SendsStops ==
  ASSUME TagInv, IoInv, NumberInv, SlotInv, StopInv, NEW u \in Callers, Send(u), Available > 0,
         UNCHANGED streamVars
  PROVE  StopInv'
<1> DEFINE msg == Message("command", call[u].cmd, CreateTag, sent + 1, None)
           c == [call[u] EXCEPT !.pc = "wait", !.tag = CreateTag, !.id = sent + 1]
<1>1. /\ call[u].pc = "send" /\ out' = Append(out, msg)
      /\ UNCHANGED <<replies, posted, data>>
      /\ call' = [call EXCEPT ![u].pc = "wait", ![u].tag = CreateTag, ![u].id = sent + 1]
  BY DEF Send, inVars
<1>2. /\ sent \in Nat /\ call \in [Callers -> CallRecords] /\ call[u] \in CallRecords
      /\ CreateTag \in Nat
  BY NextTag, Sizes DEF TagInv, TransportTypes, Tags
<1>3. call' = [call EXCEPT ![u] = c]
  BY <1>1, <1>2
<1>4. c.id = sent + 1 /\ c.done = call[u].done /\ ~call[u].done
  BY <1>1, <1>2 DEF CallRecords, TagInv, Answers
<1>5. msg \in MessageRecords /\ msg.cmd = call[u].cmd /\ msg.id = sent + 1
  BY <1>2 DEF Message, MessageRecords, MessageTypes, CallRecords
<1> HIDE DEF msg, c
<1>6. call'[u] = c /\ \A t \in Callers \ {u} : call'[t] = call[t]
  BY <1>2, <1>3
<1>7. UNCHANGED <<io, alsa, pc>>
  BY DEF streamVars, t2Vars, pcmVars
<1> SUFFICES ASSUME NEW t \in {stream, pm}, Stops(t)'
             PROVE  /\ StopsWith(call[t].id)'
                    /\ call'[t].done /\ call'[t].got.id = call'[t].id => Calm'
  BY DEF StopInv
<1>8. t \in Callers /\ ((t = stream /\ alsa = "stopping") \/ (t = pm /\ pc = "stop"))
  BY <1>7, Callings DEF Stops
<1>9. call[u].cmd # "start_io"
  <2>1. CASE u = stream
    <3>1. alsa # "starting"
      BY <1>8 DEF IoInv, LockStages
    <3> QED BY <1>1, <2>1, <3>1 DEF IoInv, CallStages
  <2>2. CASE u = pm
    BY <1>1, <2>2 DEF IoInv, CallStages
  <2>3. CASE u \in Jacks
    BY <1>1, <2>3 DEF IoInv, CallStages
  <2> QED BY <2>1, <2>2, <2>3, Callings
<1>10. CASE t = u
  <2>1. PICK n : n = sent + 1
    OBVIOUS
  <2>2. StopsWith(n)'
    BY <1>1, <1>5, <2>1, SendStops
  <2>3. call'[t].id = n /\ ~call'[t].done
    BY <1>4, <1>6, <1>10, <2>1
  <2>4. StopsWith(call[t].id)'
    BY <2>2, <2>3 DEF StopsWith
  <2> QED BY <2>3, <2>4
<1>11. CASE t # u
  <2>1. PICK n : n = call[t].id
    OBVIOUS
  <2>2. call'[t] = call[t] /\ Stops(t)
    BY <1>6, <1>7, <1>8, <1>11 DEF Stops
  <2>3. StopsWith(n) /\ (call[t].done /\ call[t].got.id = n => Calm)
    BY <2>1, <2>2 DEF StopInv
  <2>4. StopsWith(n)'
    BY <1>1, <1>5, <1>7, <1>9, <2>3, OutStops DEF TagInv
  <2>5. Stopped => Stopped'
    BY <1>1, <1>5, <1>7, <1>9, NothingStarts DEF TagInv
  <2>6. Calm => Calm'
    BY <1>1, <2>5 DEF Calm
  <2>7. StopsWith(call[t].id)'
    BY <2>1, <2>2, <2>4 DEF StopsWith
  <2> QED BY <2>1, <2>2, <2>3, <2>6, <2>7
<1> QED BY <1>10, <1>11

LEMMA PostCalm ==
  ASSUME TagInv, SlotInv, NEW msg \in MessageRecords, T2Posts(msg), UNCHANGED <<out, io>>,
         msg.type = "timestamp" => io # None
  PROVE  Calm => Calm'
<1>1. \A n \in DataSlots : data'[n] = data[n] \/ data'[n] = msg
  BY T2PostsSlots
<1> QED BY <1>1 DEF Calm, Stopped

\* What the T2 posts of its own accord.
LEMMA T2SendsWhat ==
  ASSUME TagInv, T2Sends
  PROVE  \E msg \in MessageRecords :
            /\ T2Posts(msg) /\ msg.type # "reply"
            /\ msg.type = "timestamp" => io # None /\ msg.val = io
<1>1. PICK type \in {"timestamp", "changed", "boot"}, val \in Nat \cup {None} :
         /\ T2Posts(Message(type, None, 0, 0, val))
         /\ type = "timestamp" => io # None /\ val = io
  BY DEF T2Sends, TagInv, TransportTypes
<1>2. /\ Message(type, None, 0, 0, val) \in MessageRecords
      /\ Message(type, None, 0, 0, val).type = type
      /\ Message(type, None, 0, 0, val).val = val
  BY DEF Message, MessageRecords, MessageTypes
<1> QED BY <1>1, <1>2

\* What the handlers send.
LEMMA IrqSends ==
  ASSUME TagInv, HandleBoot \/ HandleTimestamp \/ HandleChanged
  PROVE  /\ NextIn /\ posted # <<>> /\ UNCHANGED <<call, replies>>
         /\ out' = out \/ \E msg \in MessageRecords : msg.cmd # "start_io" /\ out' = Append(out, msg)
<1>1. /\ NextIn /\ posted # <<>> /\ UNCHANGED <<call, replies>>
      /\ \/ out' = out
         \/ out' = Append(out, Message("response", None, 0, 0, None))
         \/ out' = Append(out, Message("alive", None, CreateTag, sent + 1, None))
  BY DEF HandleBoot, HandleTimestamp, HandleChanged, Handling, SendFromIrq, callVars, outVars
<1>2. sent + 1 \in Nat /\ CreateTag \in Nat
  BY NextTag, Sizes DEF TagInv, TransportTypes, Tags
<1>3. /\ Message("response", None, 0, 0, None) \in MessageRecords
      /\ Message("response", None, 0, 0, None).cmd # "start_io"
      /\ Message("alive", None, CreateTag, sent + 1, None) \in MessageRecords
      /\ Message("alive", None, CreateTag, sent + 1, None).cmd # "start_io"
  BY <1>2, Strings DEF Message, MessageRecords, MessageTypes, Commands
<1> QED BY <1>1, <1>3

LEMMA ReplyInvariant == Spec => []ReplyInv
<1>1. Init => ReplyInv
  BY DEF Init, ProtocolInit, ReplyInv
<1>2. TagInv /\ ReplyInv /\ [Next]_vars => ReplyInv'
  <2> SUFFICES ASSUME TagInv, ReplyInv, [Next]_vars PROVE ReplyInv'
    OBVIOUS
  <2>1. CASE replies' \subseteq replies
    BY <2>1 DEF ReplyInv
  <2>2. CASE T2Serves
    <3> DEFINE m == Head(out)
               r == [m EXCEPT !.type = "reply", !.val = plugged]
    <3>1. out # <<>> /\ replies' \subseteq replies \cup {r}
      BY <2>2 DEF T2Serves, T2Takes
    <3>2. m \in MessageRecords
      BY <3>1 DEF TagInv, TransportTypes
    <3> HIDE DEF m
    <3>3. r.type = "reply"
      BY <3>2 DEF MessageRecords
    <3> QED BY <3>1, <3>3 DEF ReplyInv
  <2>3. CASE Transport
    <3>1. replies' \subseteq replies
      BY <2>3 DEF Transport, Expire, Send, Wake, CleanUp, OutCompletion, HandleReply, HandleBoot,
                  SubmitPending, T2Replies
    <3> QED BY <2>1, <3>1
  <2>4. CASE Untouched \/ CallBegins \/ CallEnds \/ UNCHANGED vars
    BY <2>1, <2>4 DEF Untouched, CallBegins, CallEnds, transportRest, vars, protocolVars, transportVars
  <2>5. CASE HandleTimestamp \/ HandleChanged \/ T2Sends
    BY <2>1, <2>5 DEF HandleTimestamp, HandleChanged, T2Sends
  <2> QED BY <2>2, <2>3, <2>4, <2>5, StreamSteps
<1>3. Spec => [][Next]_vars
  BY PTL DEF Spec
<1> QED BY <1>1, <1>2, <1>3, TagInvariant, PTL DEF Spec

LEMMA NextStops ==
  /\ TagInv /\ IoInv /\ SlotInv /\ NumberInv /\ CommandInv /\ ReplyInv /\ StopInv /\ [Next]_vars
  => StopInv'
<1> SUFFICES ASSUME TagInv, IoInv, SlotInv, NumberInv, CommandInv, ReplyInv, StopInv, [Next]_vars
             PROVE  StopInv'
  OBVIOUS
<1>1. stream \in Callers /\ pm \in Callers /\ Jacks \subseteq Callers /\ stream \notin Jacks /\ pm \notin Jacks
  BY Callings
<1>2. ASSUME UNCHANGED <<alsa, pc>>, \A t \in {stream, pm} : call'[t].id = call[t].id
      PROVE  \A t \in {stream, pm} : Stops(t)' => Stops(t)
  BY <1>2 DEF Stops
<1>3. ASSUME UNCHANGED <<alsa, pc, out, io, replies, posted, data>>,
             \A t \in {stream, pm} : /\ call'[t].id = call[t].id /\ call'[t].done = call[t].done
                                     /\ call'[t].got = call[t].got
      PROVE  StopInv'
  BY <1>2, <1>3, SameStops, KeepsStops
<1>4. ASSUME UNCHANGED <<alsa, pc, call>>, Calm => Calm', \A n : StopsWith(n) => StopsWith(n)'
      PROVE  StopInv'
  BY <1>2, <1>4, KeepsStops
<1>5. CASE UNCHANGED vars
  BY <1>3, <1>5 DEF vars, protocolVars, transportVars, callVars, outVars, inVars, streamVars, t2Vars,
     pcmVars
<1>6. ASSUME HandleBoot \/ HandleTimestamp \/ HandleChanged, UNCHANGED <<alsa, pc, io>>
      PROVE  StopInv'
  BY <1>4, <1>6, IrqSends, NextInCalm, NextInStops
<1>7. CASE Transport /\ UNCHANGED streamVars
  <2>1. UNCHANGED <<alsa, pc, io>>
    BY <1>7 DEF streamVars, pcmVars, t2Vars
  <2>2. ASSUME NEW t \in Callers, Send(t), Available > 0 PROVE StopInv'
    BY <1>7, <2>2, SendsStops
  <2>3. ASSUME NEW t \in Callers, Wake(t) \/ Expire(t) \/ CleanUp(t) \/ (Send(t) /\ ~(Available > 0))
        PROVE StopInv'
    <3>1. posted' = posted
      BY <2>3 DEF Wake, Expire, CleanUp, Send, inVars
    <3> QED BY <1>1, <1>3, <2>1, <2>3, <3>1, CallStepsSteady DEF TagInv
  <2>4. CASE OutCompletion \/ SubmitPending
    <3>1. UNCHANGED <<call, out, data, replies, posted>>
      BY <2>4 DEF OutCompletion, SubmitPending, callVars, outVars, inVars
    <3> QED BY <1>3, <2>1, <3>1
  <2>5. CASE HandleReply
    BY <1>7, <2>5, HandleReplyStops
  <2>6. CASE HandleBoot
    BY <1>6, <2>1, <2>6
  <2>7. CASE T2Replies
    <3>1. PICK r \in replies : T2Posts(r) /\ replies' = replies \ {r}
      BY <2>7 DEF T2Replies
    <3>2. UNCHANGED <<call, out>> /\ r \in MessageRecords /\ r.type # "timestamp"
      <4>1. r.type = "reply"
        BY DEF ReplyInv
      <4> QED BY <2>7, <4>1 DEF T2Replies, callVars, outVars, TagInv, TransportTypes
    <3> QED BY <1>4, <2>1, <3>1, <3>2, PostCalm, PostStops
  <2> QED BY <1>7, <2>2, <2>3, <2>4, <2>5, <2>6, <2>7 DEF Transport
<1>8. CASE HandleTimestamp \/ HandleChanged
  BY <1>6, <1>8 DEF HandleTimestamp, HandleChanged, pcmVars, t2Vars
<1>9. CASE T2Serves
  <2>1. UNCHANGED <<alsa, pc, call, data>>
    BY <1>9 DEF T2Serves, T2Takes, callVars, inVars, pcmVars
  <2>2. Calm => Calm'
    BY <1>9, <2>1, ServeStops DEF Calm
  <2>3. \A t \in {stream, pm} : Stops(t) => call[t].cmd = "stop_io"
    BY DEF Stops, IoInv, CallStages
  <2>4. \A t \in {stream, pm} : \A n : Stops(t) /\ n = call[t].id /\ StopsWith(n) => StopsWith(n)'
    BY <1>1, <1>9, <2>3, ServeStops DEF CommandInv
  <2> QED BY <1>2, <2>1, <2>2, <2>4, KeepsStops
<1>10. CASE T2Sends
  <2>1. UNCHANGED <<alsa, pc, call, out, io, replies>>
    BY <1>10 DEF T2Sends, callVars, outVars, pcmVars
  <2> QED BY <1>4, <1>10, <2>1, T2SendsWhat, PostCalm, PostStops
<1>11. CASE \E j \in Jacks : JackAsk(j) \/ JackReport(j)
  <2>1. PICK j \in Jacks : JackAsk(j) \/ JackReport(j)
    BY <1>11
  <2>2. UNCHANGED <<alsa, pc, out, io, replies, posted, data>> /\ (Begin(j, "get") \/ End(j))
    BY <2>1 DEF JackAsk, JackReport, notCall, outVars, inVars, pcmVars, t2Vars
  <2>3. \A u \in Callers \ {j} : call'[u] = call[u]
    BY <1>1, <2>2, AfterBegin, AfterEnd DEF TagInv, Commands
  <2> QED BY <1>1, <1>3, <2>2, <2>3
<1>12. CASE StreamStep
  BY <1>12, StreamQuiet, SameStops, KeepsStops DEF TagInv
<1> QED BY <1>5, <1>7, <1>8, <1>9, <1>10, <1>11, <1>12 DEF Next, StreamStep

LEMMA StopInvariant == Spec => []StopInv
<1>1. Init => StopInv
  BY DEF Init, StopInv, Stops
<1>2. Spec => [][Next]_vars
  BY PTL DEF Spec
<1> QED BY <1>1, <1>2, NextStops, TagInvariant, IoInvariant, SlotInvariant, NumberInvariant,
           CommandInvariant, ReplyInvariant, PTL DEF Spec

-----------------------------------------------------------------------------

\* An empty past is as good as any.
LEMMA NoneAreOf == ASSUME NoStamps, NEW v PROVE StampsOf(v)
  BY DEF NoStamps, Calm, Stopped, StampsOf

\* Steps that neither start nor stop anything.
LEMMA QuietStamps ==
  ASSUME StampInv, UNCHANGED <<alsa, started, pc, lastIo, leftover, waiting_for_first_ts, remote, run>>,
         call'[stream].id = call[stream].id,
         ts_work' = [queued |-> ts_work'.queued, pc |-> ts_work'.pc, time |-> ts_work'.time],
         Calm => Calm', NoStamps => NoStamps', \A v : StampsOf(v) => StampsOf(v)'
  PROVE  StampInv'
<1>1. PICK n : n = call[stream].id
  OBVIOUS
<1>2. PICK m : m = run
  OBVIOUS
<1>3. StampsOf(n)' => StampsOf(call[stream].id)'
  BY <1>1 DEF StampsOf
<1>4. StampsOf(m)' => StampsOf(run)'
  BY <1>2 DEF StampsOf
<1>5. alsa' = "starting" /\ ~leftover' =>
         /\ waiting_for_first_ts'
         /\ call'[stream].id = 0 => NoStamps'
         /\ call'[stream].id # 0 => StampsOf(call[stream].id)'
  BY <1>1, <1>3 DEF StampInv
<1>6. alsa' \in {"arming", "running"} /\ ~leftover' =>
         (waiting_for_first_ts' \/ remote' = run') /\ StampsOf(run)'
  BY <1>2, <1>4 DEF StampInv
<1> QED BY <1>5, <1>6 DEF StampInv

\* What reaches the host and the queues otherwise.
LEMMA TransportStamps ==
  ASSUME TagInv, UNCHANGED <<io, ts_work, ts_time_os>>,
         out' = out \/ \E msg \in MessageRecords : msg.cmd # "start_io" /\ out' = Append(out, msg),
         \A n \in DataSlots : data'[n] = data[n] \/ data'[n].type # "timestamp"
  PROVE  /\ Calm => Calm'
         /\ NoStamps => NoStamps'
         /\ \A v : StampsOf(v) => StampsOf(v)'
<1>1. /\ Stopped => Stopped'
      /\ \A i \in 1..Len(out') : out'[i].cmd = "start_io" => i \in 1..Len(out) /\ out'[i] = out[i]
  BY NothingStarts DEF TagInv
<1>2. Calm => Calm'
  BY <1>1 DEF Calm
<1>3. \A v : StampsOf(v) => StampsOf(v)'
  BY <1>1 DEF StampsOf
<1> QED BY <1>2, <1>3 DEF NoStamps

\* The T2 carries out a command, ...
LEMMA ServeStamps ==
  ASSUME TagInv, T2Serves
  PROVE  /\ Calm => Calm'
         /\ NoStamps => NoStamps'
         /\ \A v : StampsOf(v) => StampsOf(v)'
<1> DEFINE m == Head(out)
<1>1. /\ out # <<>> /\ out' = Tail(out) /\ UNCHANGED <<data, ts_work, ts_time_os>>
      /\ io' = CASE m.cmd = "start_io" -> m.id [] m.cmd = "stop_io" -> None [] OTHER -> io
  BY DEF T2Serves, T2Takes, inVars, tsVars
<1>2. /\ m = out[1] /\ 1 \in 1..Len(out)
      /\ \A i \in 1..Len(out') : out'[i] = out[i + 1] /\ i + 1 \in 1..Len(out)
  BY <1>1 DEF TagInv, TransportTypes
<1> HIDE DEF m
<1>3. Calm => Calm'
  BY <1>1, ServeStops DEF Calm
<1>4. ASSUME NEW v, StampsOf(v) PROVE StampsOf(v)'
  <2>1. io' # None => io' = v
    BY <1>1, <1>2, <1>4 DEF StampsOf
  <2>2. \A i \in 1..Len(out') : out'[i].cmd = "start_io" => out'[i].id = v
    BY <1>2, <1>4 DEF StampsOf
  <2> QED BY <1>1, <1>4, <2>1, <2>2 DEF StampsOf
<1> QED BY <1>1, <1>3, <1>4 DEF NoStamps

\* ... or sends something.
LEMMA SendStamps ==
  ASSUME TagInv, SlotInv, T2Sends
  PROVE  /\ Calm => Calm'
         /\ NoStamps => NoStamps'
         /\ \A v : StampsOf(v) => StampsOf(v)'
<1>1. PICK msg \in MessageRecords :
         /\ T2Posts(msg) /\ msg.type # "reply"
         /\ msg.type = "timestamp" => io # None /\ msg.val = io
  BY T2SendsWhat
<1>2. UNCHANGED <<out, io, ts_work, ts_time_os>>
  BY DEF T2Sends, outVars, tsVars
<1>3. \A n \in DataSlots : data'[n] = data[n] \/ data'[n] = msg
  BY <1>1, T2PostsSlots
<1>4. Calm => Calm'
  BY <1>1, <1>2, PostCalm
<1>5. \A v : StampsOf(v) => StampsOf(v)'
  BY <1>1, <1>2, <1>3 DEF StampsOf
<1> QED BY <1>2, <1>4, <1>5 DEF NoStamps

\* A timestamp is handled, and ts_work takes it.
LEMMA HandleStamps ==
  ASSUME TagInv, StampInv, HandleTimestamp
  PROVE  /\ Calm => Calm'
         /\ NoStamps => NoStamps'
         /\ \A v : StampsOf(v) => StampsOf(v)'
         /\ ts_work' = [queued |-> ts_work'.queued, pc |-> ts_work'.pc, time |-> ts_work'.time]
<1>1. /\ NextIn /\ io' = io /\ data_head \in DataSlots /\ data[data_head].type = "timestamp"
      /\ ts_time_os' = data[data_head].val /\ ts_work' = [ts_work EXCEPT !.queued = TRUE]
  BY DEF HandleTimestamp, Handling, Current, t2Vars, TagInv, TransportTypes
<1>2. /\ ts_work'.queued /\ ts_work'.pc = ts_work.pc /\ ts_work'.time = ts_work.time
      /\ ts_work' = [queued |-> ts_work'.queued, pc |-> ts_work'.pc, time |-> ts_work'.time]
  BY <1>1 DEF StampInv
<1>3. ~Calm
  BY <1>1 DEF Calm
<1>4. /\ \A i \in 1..Len(out') : out'[i].cmd = "start_io" => i \in 1..Len(out) /\ out'[i] = out[i]
      /\ \A n \in DataSlots : data'[n] = data[n] \/ data'[n].type = "none"
  BY <1>1, IrqSends, NothingStarts, AfterNextIn DEF TagInv
<1>5. \A v : StampsOf(v) => StampsOf(v)'
  BY <1>1, <1>2, <1>4 DEF StampsOf
<1> QED BY <1>2, <1>3, <1>5 DEF NoStamps

\* The application starts the stream after a stop that was confirmed, ...
LEMMA StartStamps == ASSUME TagInv, StageInv, StampInv, Start PROVE StampInv'
<1>1. /\ pc = "up" /\ alsa = "open" /\ alsa' = "starting" /\ waiting_for_first_ts' = TRUE
      /\ leftover' = (ts_work.queued \/ ts_work.pc = "read" \/ ~lastIo.answered)
      /\ UNCHANGED <<out, io, data, ts_work>> /\ Begin(stream, "start_io")
  BY DEF Start, App, notCall, outVars, inVars, t2Vars, tsVars
<1>2. call'[stream].id = 0
  BY <1>1, AfterBegin, Callings DEF TagInv, Commands
<1>3. Calm' <=> Calm
  BY <1>1 DEF Calm, Stopped
<1>4. ~leftover' => NoStamps'
  BY <1>1, <1>3 DEF StageInv, StampInv, NoStamps
<1> QED BY <1>1, <1>2, <1>4 DEF StampInv

\* ... and the command has been sent or not.
LEMMA StartDoneStamps == ASSUME IoInv, StageInv, StampInv, StartDone PROVE StampInv'
<1>1. UNCHANGED <<waiting_for_first_ts, remote, leftover, ts_work, ts_time_os, out, io, data>>
  BY DEF StartDone, notCall, outVars, inVars, t2Vars, tsVars
<1>2. \A v : StampsOf(v) => StampsOf(v)'
  BY <1>1 DEF StampsOf
<1>3. CASE alsa = "starting"
  <2>1. alsa' = "arming" /\ run' = call[stream].id
    BY <1>3 DEF StartDone
  <2>2. PICK n : n = call[stream].id
    OBVIOUS
  <2>3. ~leftover => waiting_for_first_ts /\ StampsOf(n)
    BY <1>3, <2>2, NoneAreOf DEF StampInv
  <2>4. ~leftover' => waiting_for_first_ts' /\ StampsOf(n)'
    BY <1>1, <1>2, <2>3
  <2>5. StampsOf(n)' => StampsOf(run)'
    BY <2>1, <2>2 DEF StampsOf
  <2> QED BY <1>1, <2>1, <2>4, <2>5 DEF StampInv
<1>4. CASE alsa = "arming"
  <2>1. alsa' = "running" /\ UNCHANGED <<started, run>>
    BY <1>4 DEF StartDone
  <2>2. started
    BY <1>4 DEF StageInv, IoInv, LockStages
  <2>3. PICK n : n = run
    OBVIOUS
  <2>4. ~leftover' => (waiting_for_first_ts' \/ remote' = run') /\ StampsOf(n)'
    BY <1>1, <1>2, <1>4, <2>1, <2>3 DEF StampInv
  <2>5. StampsOf(n)' => StampsOf(run)'
    BY <2>1, <2>3 DEF StampsOf
  <2> QED BY <1>1, <2>1, <2>2, <2>4, <2>5 DEF StampInv
<1> QED BY <1>3, <1>4 DEF StartDone

\* A stop_io that was answered leaves the T2 calm.
LEMMA AnsweredIsCalm ==
  ASSUME TagInv, NumberInv, StopInv, NEW t \in {stream, pm},
         (t = stream /\ alsa = "stopping") \/ (t = pm /\ pc = "stop"), Answered(t)
  PROVE  Calm
<1>1. t \in Callers
  BY Callings
<1>2. call[t].done /\ call[t].got.id = call[t].id
  BY <1>1 DEF Answered, TagInv, Answers
<1>3. call[t].got.id \in 1..sent /\ 0 \notin 1..sent
  BY <1>1, <1>2 DEF NumberInv, Replies, TagInv, TransportTypes
<1>4. Stops(t)
  BY <1>2, <1>3 DEF Stops
<1> QED BY <1>2, <1>4 DEF StopInv

\* The stream is being stopped, or is open, or closed: only whether the T2 is calm
\* matters.
LEMMA AtRest ==
  ASSUME StampInv, alsa' \notin {"starting", "arming", "running"}, Calm => Calm',
         ts_work' = [queued |-> ts_work'.queued, pc |-> ts_work'.pc, time |-> ts_work'.time],
         ~started' /\ pc' # "stop" /\ lastIo'.answered =>
             Calm \/ (~started /\ pc # "stop" /\ alsa \notin {"starting", "arming"} /\ lastIo.answered)
  PROVE  StampInv'
  BY DEF StampInv

LEMMA StopStamps ==
  ASSUME TagInv, NumberInv, StopInv, StampInv, StopDone \/ Open \/ Close \/ \E h : StopBy(h)
  PROVE  StampInv'
<1>1. UNCHANGED <<out, io, data, pc>>
  BY DEF StopDone, Open, Close, StopBy, notCall, protocolVars, transportVars, outVars, inVars, t2Vars
<1>2. Calm => Calm'
  BY <1>1 DEF Calm, Stopped
<1>3. ts_work' = [queued |-> ts_work'.queued, pc |-> ts_work'.pc, time |-> ts_work'.time]
  <2>1. ts_work' = ts_work \/ ts_work' = [ts_work EXCEPT !.pc = "idle"]
    BY DEF StopDone, Open, Close, StopBy, tsVars
  <2> QED BY <2>1 DEF StampInv
<1>4. alsa' \notin {"starting", "arming", "running"} /\ alsa \notin {"starting", "arming"}
  BY DEF StopDone, Open, Close, StopBy
<1>5. CASE UNCHANGED <<started, lastIo>>
  BY <1>1, <1>2, <1>3, <1>4, <1>5, AtRest
<1>6. CASE StopDone /\ alsa = "stopping"
  <2>1. lastIo' = IoResult(stream)
    BY <1>6 DEF StopDone
  <2>2. lastIo'.answered => Answered(stream)
    BY <2>1 DEF IoResult
  <2>3. lastIo'.answered => Calm
    BY <1>6, <2>2, AnsweredIsCalm
  <2> QED BY <1>1, <1>2, <1>3, <1>4, <2>3, AtRest
<1> QED BY <1>5, <1>6 DEF StopDone, Open, Close, StopBy

\* Suspend stops the stream.
LEMMA SuspendStamps ==
  ASSUME TagInv, IoInv, NumberInv, StopInv, StampInv,
         Quiesce \/ IoStopped \/ SuspendAll \/ SuspendResume
  PROVE  StampInv'
<1>1. UNCHANGED <<out, io, data, waiting_for_first_ts, remote, run, leftover, ts_work, ts_time_os>>
  BY DEF Quiesce, IoStopped, SuspendAll, SuspendResume, notCall, outVars, inVars, t2Vars, tsVars, pcmVars
<1>2. Calm => Calm'
  BY <1>1 DEF Calm, Stopped
<1>3. alsa' = alsa \/ (SuspendAll /\ alsa = "running" /\ alsa' = "open")
  BY DEF Quiesce, IoStopped, SuspendAll, SuspendResume, pcmVars
<1>4. ~started' /\ pc' # "stop" /\ alsa' \notin {"starting", "arming"} /\ lastIo'.answered => Calm
  <2>1. CASE Quiesce
    <3>1. started => pc' = "stop"
      BY <2>1 DEF Quiesce
    <3>2. pc # "stop" /\ UNCHANGED <<alsa, lastIo>>
      BY <2>1 DEF Quiesce
    <3> QED BY <3>1, <3>2 DEF StampInv
  <2>2. CASE IoStopped
    <3>1. lastIo' = IoResult(pm) /\ pc = "stop"
      BY <2>2 DEF IoStopped
    <3>2. lastIo'.answered => Answered(pm)
      BY <3>1 DEF IoResult
    <3> QED BY <3>1, <3>2, AnsweredIsCalm
  <2>3. CASE SuspendAll \/ SuspendResume
    <3>1. pc # "stop" /\ UNCHANGED <<started, lastIo>>
      BY <2>3 DEF SuspendAll, SuspendResume, pcmVars
    <3> QED BY <1>3, <3>1 DEF StampInv
  <2> QED BY <2>1, <2>2, <2>3
<1>5. alsa # "starting"
  BY DEF Quiesce, IoStopped, SuspendAll, SuspendResume, IoInv, LockStages
<1>6. ASSUME alsa' \in {"arming", "running"}, ~leftover'
      PROVE  (waiting_for_first_ts' \/ remote' = run') /\ StampsOf(run)'
  <2>1. (waiting_for_first_ts \/ remote = run) /\ StampsOf(run)
    BY <1>1, <1>3, <1>6 DEF StampInv
  <2> QED BY <1>1, <2>1 DEF StampsOf
<1>7. alsa' # "starting"
  BY <1>3, <1>5
<1> QED BY <1>1, <1>2, <1>4, <1>6, <1>7 DEF StampInv

\* ts_work applies what it has read.
LEMMA TsStamps ==
  ASSUME IoInv, StampInv, TsRun \/ TsApply \/ (TsElapsed /\ UNCHANGED alsa)
  PROVE  StampInv'
<1>1. UNCHANGED <<alsa, started, pc, lastIo, leftover, run, call, out, io, data>>
  <2>1. TsElapsed /\ alsa' = alsa => ts_work' = [ts_work EXCEPT !.pc = "idle"]
                                     /\ UNCHANGED <<protocolVars, pcmVars, pc, t2Vars, lastIo>>
    BY DEF TsElapsed, StopBy
  <2> QED BY <2>1 DEF TsRun, TsApply, protocolVars, transportVars, callVars, outVars, inVars, t2Vars, pcmVars
<1>2. Calm' <=> Calm
  BY <1>1 DEF Calm, Stopped
<1>3. CASE TsRun
  <2>1. /\ ts_work.queued /\ ts_work' = [queued |-> FALSE, pc |-> "read", time |-> ts_time_os]
        /\ UNCHANGED <<ts_time_os, waiting_for_first_ts, remote>>
    BY <1>3 DEF TsRun, pcmVars
  <2>2. \A v : StampsOf(v) => StampsOf(v)'
    BY <1>1, <2>1 DEF StampsOf
  <2> QED BY <1>1, <1>2, <2>1, <2>2, QuietStamps DEF NoStamps
<1>4. CASE TsElapsed /\ UNCHANGED alsa
  <2>1. /\ ts_work' = [ts_work EXCEPT !.pc = "idle"]
        /\ UNCHANGED <<ts_time_os, waiting_for_first_ts, remote>>
    BY <1>4 DEF TsElapsed, StopBy, pcmVars
  <2>2. /\ ts_work'.queued = ts_work.queued /\ ts_work'.pc = "idle" /\ ts_work'.time = ts_work.time
        /\ ts_work' = [queued |-> ts_work'.queued, pc |-> ts_work'.pc, time |-> ts_work'.time]
    BY <2>1 DEF StampInv
  <2>3. \A v : StampsOf(v) => StampsOf(v)'
    BY <1>1, <2>1, <2>2 DEF StampsOf
  <2> QED BY <1>1, <1>2, <2>1, <2>2, <2>3, QuietStamps DEF NoStamps
<1>5. CASE TsApply
  <2>1. /\ ts_work.pc = "read" /\ lock = None /\ ts_time_os' = ts_time_os
        /\ alsa # "closed" => remote' = ts_work.time
    BY <1>5 DEF TsApply
  <2>2. /\ ts_work'.queued = ts_work.queued /\ ts_work'.pc # "read"
        /\ ts_work' = [queued |-> ts_work'.queued, pc |-> ts_work'.pc, time |-> ts_work'.time]
    BY <1>5 DEF TsApply, StampInv
  <2>3. alsa \notin {"starting", "arming"}
    BY <2>1 DEF IoInv, LockStages
  <2>4. ASSUME alsa = "running", ~leftover PROVE remote' = run /\ StampsOf(run)'
    <3>1. StampsOf(run)
      BY <2>4 DEF StampInv
    <3>2. remote' = run
      BY <2>1, <2>4, <3>1 DEF StampsOf
    <3> QED BY <1>1, <2>1, <2>2, <3>1, <3>2 DEF StampsOf
  <2> QED BY <1>1, <1>2, <2>2, <2>3, <2>4 DEF StampInv
<1> QED BY <1>3, <1>4, <1>5

\* A command is sent; the start_io is the only one that brings timestamps.
LEMMA SendsStamps ==
  ASSUME TagInv, IoInv, StampInv, NEW u \in Callers, Send(u), Available > 0, UNCHANGED streamVars
  PROVE  StampInv'
<1> DEFINE msg == Message("command", call[u].cmd, CreateTag, sent + 1, None)
           c == [call[u] EXCEPT !.pc = "wait", !.tag = CreateTag, !.id = sent + 1]
<1>1. /\ call[u].pc = "send" /\ out' = Append(out, msg) /\ data' = data
      /\ call' = [call EXCEPT ![u].pc = "wait", ![u].tag = CreateTag, ![u].id = sent + 1]
  BY DEF Send, inVars
<1>2. /\ sent \in Nat /\ call \in [Callers -> CallRecords] /\ call[u] \in CallRecords
      /\ CreateTag \in Nat
  BY NextTag, Sizes DEF TagInv, TransportTypes, Tags
<1>3. call' = [call EXCEPT ![u] = c]
  BY <1>1, <1>2
<1>4. c.id = sent + 1 /\ sent + 1 # 0
  BY <1>1, <1>2 DEF CallRecords
<1>5. msg \in MessageRecords /\ msg.cmd = call[u].cmd /\ msg.id = sent + 1
  BY <1>2 DEF Message, MessageRecords, MessageTypes, CallRecords
<1> HIDE DEF msg, c
<1>6. call'[u] = c /\ \A t \in Callers \ {u} : call'[t] = call[t]
  BY <1>2, <1>3
<1>7. UNCHANGED <<alsa, started, pc, lastIo, leftover, waiting_for_first_ts, remote, run, io, ts_work,
                  ts_time_os>>
  BY DEF streamVars, t2Vars, pcmVars, tsVars
<1>8. CASE u = stream /\ alsa = "starting"
  <2>1. call[stream].id = 0
    BY <1>1, <1>8, Callings DEF IoInv, CallStages
  <2>2. PICK n : n = sent + 1
    OBVIOUS
  <2>3. ASSUME ~leftover PROVE waiting_for_first_ts /\ StampsOf(n)'
    <3>1. waiting_for_first_ts /\ NoStamps
      BY <1>8, <2>1, <2>3 DEF StampInv
    <3>2. \A i \in 1..Len(out') : out'[i] = msg \/ (i \in 1..Len(out) /\ out'[i] = out[i])
      BY <1>1 DEF TagInv, TransportTypes
    <3> QED BY <1>1, <1>5, <1>7, <2>2, <3>1, <3>2 DEF NoStamps, Calm, Stopped, StampsOf
  <2>4. call'[stream].id = n /\ n # 0
    BY <1>4, <1>6, <1>8, <2>2
  <2>5. StampsOf(n)' => StampsOf(call[stream].id)'
    BY <2>4 DEF StampsOf
  <2> QED BY <1>7, <1>8, <2>3, <2>4, <2>5 DEF StampInv
<1>9. CASE ~(u = stream /\ alsa = "starting")
  <2>1. call[u].cmd # "start_io"
    <3>1. CASE u = stream
      BY <1>1, <1>9, <3>1 DEF IoInv, CallStages
    <3>2. CASE u = pm
      BY <1>1, <3>2 DEF IoInv, CallStages
    <3>3. CASE u \in Jacks
      BY <1>1, <3>3 DEF IoInv, CallStages
    <3> QED BY <3>1, <3>2, <3>3, Callings
  <2>2. /\ Calm => Calm'
        /\ NoStamps => NoStamps'
        /\ \A v : StampsOf(v) => StampsOf(v)'
    BY <1>1, <1>5, <1>7, <2>1, TransportStamps
  <2>3. CASE u = stream
    <3>1. alsa' # "starting"
      BY <1>7, <1>9, <2>3
    <3>2. ASSUME alsa' \in {"arming", "running"}, ~leftover'
          PROVE  (waiting_for_first_ts' \/ remote' = run') /\ StampsOf(run)'
      <4>1. PICK n : n = run
        OBVIOUS
      <4>2. (waiting_for_first_ts' \/ remote' = run') /\ StampsOf(n)'
        BY <1>7, <2>2, <3>2, <4>1 DEF StampInv
      <4> QED BY <1>7, <4>1, <4>2 DEF StampsOf
    <3> QED BY <1>7, <2>2, <3>1, <3>2 DEF StampInv
  <2>4. CASE u # stream
    <3>1. call'[stream].id = call[stream].id
      BY <1>6, <2>4, Callings
    <3>2. ts_work' = [queued |-> ts_work'.queued, pc |-> ts_work'.pc, time |-> ts_work'.time]
      BY <1>7 DEF StampInv
    <3> QED BY <1>7, <2>2, <3>1, <3>2, QuietStamps
  <2> QED BY <2>3, <2>4
<1> QED BY <1>8, <1>9

LEMMA NextStamps ==
  /\ TagInv /\ IoInv /\ SlotInv /\ NumberInv /\ StageInv /\ ReplyInv /\ StopInv /\ StampInv
  /\ [Next]_vars
  => StampInv'
<1> SUFFICES ASSUME TagInv, IoInv, SlotInv, NumberInv, StageInv, ReplyInv, StopInv, StampInv,
                    [Next]_vars
             PROVE  StampInv'
  OBVIOUS
<1>1. stream \in Callers /\ Jacks \subseteq Callers /\ stream \notin Jacks
  BY Callings
<1>2. ASSUME UNCHANGED <<pcmVars, pc, lastIo, io, tsVars>>, call'[stream].id = call[stream].id,
             out' = out \/ \E msg \in MessageRecords : msg.cmd # "start_io" /\ out' = Append(out, msg),
             \A n \in DataSlots : data'[n] = data[n] \/ data'[n].type # "timestamp"
      PROVE  StampInv'
  <2>1. UNCHANGED <<alsa, started, pc, lastIo, leftover, waiting_for_first_ts, remote, run, io, ts_work,
                    ts_time_os>>
    BY <1>2 DEF pcmVars, tsVars
  <2>2. /\ Calm => Calm'
        /\ NoStamps => NoStamps'
        /\ \A v : StampsOf(v) => StampsOf(v)'
    BY <1>2, <2>1, TransportStamps
  <2>3. ts_work' = [queued |-> ts_work'.queued, pc |-> ts_work'.pc, time |-> ts_work'.time]
    BY <2>1 DEF StampInv
  <2> QED BY <1>2, <2>1, <2>2, <2>3, QuietStamps
<1>3. CASE UNCHANGED vars
  BY <1>2, <1>3 DEF vars, protocolVars, transportVars, callVars, outVars, inVars, streamVars, t2Vars
<1>4. CASE Transport /\ UNCHANGED streamVars
  <2>1. UNCHANGED <<pcmVars, pc, lastIo, io, tsVars>>
    BY <1>4 DEF streamVars, t2Vars
  <2>2. ASSUME NEW t \in Callers, Send(t), Available > 0 PROVE StampInv'
    BY <1>4, <2>2, SendsStamps
  <2>3. ASSUME NEW t \in Callers, Wake(t) \/ Expire(t) \/ CleanUp(t) \/ (Send(t) /\ ~(Available > 0))
        PROVE StampInv'
    BY <1>1, <1>2, <2>1, <2>3, CallStepsSteady DEF TagInv
  <2>4. CASE OutCompletion \/ SubmitPending
    <3>1. UNCHANGED <<call, out, data>>
      BY <2>4 DEF OutCompletion, SubmitPending, callVars, outVars, inVars
    <3> QED BY <1>2, <2>1, <3>1
  <2>5. CASE HandleReply
    <3>1. NextIn /\ out' = out
      BY <2>5 DEF HandleReply, outVars
    <3>2. \A n \in DataSlots : data'[n] = data[n] \/ data'[n].type # "timestamp"
      BY <3>1, AfterNextIn DEF TagInv
    <3>3. call'[stream].id = call[stream].id
      BY <1>1, <2>5, HandleReplySteady
    <3> QED BY <1>2, <2>1, <3>1, <3>2, <3>3
  <2>6. CASE HandleBoot
    <3>1. \A n \in DataSlots : data'[n] = data[n] \/ data'[n].type # "timestamp"
      BY <2>6, IrqSends, AfterNextIn DEF TagInv
    <3> QED BY <1>2, <2>1, <2>6, <3>1, IrqSends
  <2>7. CASE T2Replies
    <3>1. PICK r \in replies : T2Posts(r)
      BY <2>7 DEF T2Replies
    <3>2. UNCHANGED <<call, out>> /\ r \in MessageRecords /\ r.type # "timestamp"
      <4>1. r.type = "reply"
        BY DEF ReplyInv
      <4> QED BY <2>7, <4>1 DEF T2Replies, callVars, outVars, TagInv, TransportTypes
    <3>3. \A n \in DataSlots : data'[n] = data[n] \/ data'[n].type # "timestamp"
      BY <3>1, <3>2, T2PostsSlots
    <3> QED BY <1>2, <2>1, <3>2, <3>3
  <2> QED BY <1>4, <2>2, <2>3, <2>4, <2>5, <2>6, <2>7 DEF Transport
<1>5. CASE HandleTimestamp
  <2>1. UNCHANGED <<alsa, started, pc, lastIo, leftover, waiting_for_first_ts, remote, run, call>>
    BY <1>5 DEF HandleTimestamp, callVars, pcmVars
  <2> QED BY <1>5, <2>1, HandleStamps, QuietStamps
<1>6. CASE HandleChanged
  <2>1. UNCHANGED <<pcmVars, pc, lastIo, io, tsVars, call>>
    BY <1>6 DEF HandleChanged, callVars, t2Vars
  <2>2. \A n \in DataSlots : data'[n] = data[n] \/ data'[n].type # "timestamp"
    BY <1>6, IrqSends, AfterNextIn DEF TagInv
  <2> QED BY <1>2, <1>6, <2>1, <2>2, IrqSends
<1>7. CASE T2Serves \/ T2Sends
  <2>1. UNCHANGED <<alsa, started, pc, lastIo, leftover, waiting_for_first_ts, remote, run, call, ts_work>>
    BY <1>7 DEF T2Serves, T2Takes, T2Sends, callVars, pcmVars, tsVars
  <2>2. ts_work' = [queued |-> ts_work'.queued, pc |-> ts_work'.pc, time |-> ts_work'.time]
    BY <2>1 DEF StampInv
  <2> QED BY <1>7, <2>1, <2>2, ServeStamps, SendStamps, QuietStamps
<1>8. CASE \E j \in Jacks : JackAsk(j) \/ JackReport(j)
  <2>1. PICK j \in Jacks : JackAsk(j) \/ JackReport(j)
    BY <1>8
  <2>2. UNCHANGED <<pcmVars, pc, lastIo, io, tsVars, out, data>> /\ (Begin(j, "get") \/ End(j))
    BY <2>1 DEF JackAsk, JackReport, notCall, outVars, inVars, t2Vars
  <2>3. call'[stream] = call[stream]
    BY <1>1, <2>2, AfterBegin, AfterEnd DEF TagInv, Commands
  <2> QED BY <1>2, <2>2, <2>3
<1>9. CASE TimerFires \/ TimerQueues \/ PeriodWork \/ (PeriodElapsed /\ UNCHANGED alsa)
  <2>1. PeriodElapsed /\ alsa' = alsa => UNCHANGED <<protocolVars, pcmVars, tsVars, pc, t2Vars, lastIo>>
    BY DEF PeriodElapsed, StopBy
  <2>2. UNCHANGED <<pcmVars, pc, lastIo, io, tsVars, call, out, data>>
    BY <1>9, <2>1 DEF TimerFires, TimerQueues, PeriodWork, t2Vars, protocolVars, transportVars, callVars,
       outVars, inVars
  <2> QED BY <1>2, <2>2
<1>10. CASE Open \/ Close \/ StopDone \/ \E h : StopBy(h)
  BY <1>10, StopStamps
<1>11. CASE Stop \/ PeriodElapsed \/ TsElapsed
  <2>1. (\E h : StopBy(h)) \/ (PeriodElapsed /\ UNCHANGED alsa) \/ (TsElapsed /\ UNCHANGED alsa)
    BY <1>11 DEF Stop, PeriodElapsed, TsElapsed, pcmVars
  <2> QED BY <1>9, <1>10, <2>1, TsStamps
<1>12. CASE Start \/ StartDone
  BY <1>12, StartStamps, StartDoneStamps
<1>13. CASE TsRun \/ TsApply
  BY <1>13, TsStamps
<1>14. CASE Quiesce \/ IoStopped \/ SuspendAll \/ SuspendResume
  BY <1>14, SuspendStamps
<1> QED BY <1>3, <1>4, <1>5, <1>6, <1>7, <1>8, <1>9, <1>10, <1>11, <1>12, <1>13, <1>14 DEF Next

LEMMA InitStamps == Init => StampInv
<1> SUFFICES ASSUME Init PROVE StampInv
  OBVIOUS
<1>1. /\ alsa = "closed" /\ ts_work = [queued |-> FALSE, pc |-> "idle", time |-> None]
      /\ io = None /\ out = <<>> /\ data = [n \in DataSlots |-> NoMessage]
  BY DEF Init, ProtocolInit, TsIdle
<1>2. NoMessage.type = "none"
  BY DEF NoMessage, Message
<1>3. Calm
  BY <1>1, <1>2 DEF Calm, Stopped
<1> QED BY <1>1, <1>3 DEF StampInv

LEMMA StampInvariant == Spec => []StampInv
<1>1. Spec => [][Next]_vars
  BY PTL DEF Spec
<1> QED BY <1>1, InitStamps, NextStamps, TagInvariant, IoInvariant, SlotInvariant, NumberInvariant,
           StageInvariant, ReplyInvariant, StopInvariant, PTL DEF Spec

\* A running stream that was started when ts_work had finished and the T2 had
\* confirmed the stop before computes its position from a timestamp of this run
\* (pcm.c:302-306), however late the timestamps and the replies are.
THEOREM TimestampsAreOfThisRun == Spec => []TimestampOfThisRun
<1>1. StampInv => TimestampOfThisRun
  BY DEF StampInv, TimestampOfThisRun
<1> QED BY <1>1, StampInvariant, PTL

=============================================================================
