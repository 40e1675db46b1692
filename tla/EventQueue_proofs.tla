-------------------------- MODULE EventQueue_proofs --------------------------
(***************************************************************************)
(* Proofs about EventQueue, for any size of the ring, any number of        *)
(* buffers lent, and any number of events and pauses.                      *)
(***************************************************************************)
EXTENDS EventQueue, TLAPS

Handling == {"idle", "handle", "submit", "check"}
Draining == {"pauseFlush", "pauseWait", "pauseSleep", "paused"}
Resuming == {"resumeCheck", "resumeFlush", "resumeSleep", "resumeSubmit"}

RingTypes ==
    /\ available \in Int
    /\ head \in Slots /\ tail \in Slots /\ ctail \in Slots
    /\ doorbell \in Slots /\ devNext \in Slots

DataTypes ==
    /\ data \in [Slots -> Nat] /\ aborted \in [Slots -> BOOLEAN]
    /\ produced \in Nat /\ delivered \in Nat

ThreadTypes ==
    /\ kind \in {"event", "firmware"} /\ queued \in BOOLEAN /\ ahead \in BOOLEAN
    /\ irqPc \in Handling /\ cnt \in Nat
    /\ pm \in {"run"} \cup Draining \cup Resuming
    /\ sub \in [Threads -> BOOLEAN] /\ todo \in [Threads -> Nat]
    /\ draining \in BOOLEAN /\ raced \in BOOLEAN
    /\ caught \in BOOLEAN /\ timedOut \in BOOLEAN /\ deaf \in BOOLEAN
    /\ flushLate \in BOOLEAN /\ leftover \in BOOLEAN
    /\ replayed \in BOOLEAN /\ misordered \in BOOLEAN

\* The indices in the order in which a buffer passes them.
RingOrder(h, c, d, b, t) ==
    Dist(h, c) <= Dist(h, d) /\ Dist(h, d) <= Dist(h, b) /\ Dist(h, b) <= Dist(h, t)

\* Every slot that is not lent is available.
RingInv ==
    /\ RingTypes
    /\ RingOrder(head, ctail, devNext, doorbell, tail)
    /\ available + Lent = Capacity

\* Where the two threads are. The message the firmware worker has looked ahead
\* to is at the head.
PlaceInv ==
    /\ ThreadTypes
    /\ sub["irq"] <=> irqPc = "submit"
    /\ sub["pm"] <=> pm = "resumeSubmit"
    /\ sub["irq"] => todo["irq"] <= cnt
    /\ sub["irq"] /\ sub["pm"] => raced
    /\ draining <=> pm \in Draining
    /\ ahead => kind = "firmware" /\ irqPc = "handle" /\ head # ctail
    /\ kind = "event" => ~queued /\ ~ahead

\* The slots with a completion nobody has consumed.
Completed(s) == Dist(head, s) < Dist(head, devNext)

\* From h to before d, the events between last and produced are in the ring, each
\* once and in order.
Holds(h, d, s) == Dist(h, s) < Dist(h, d) /\ ~aborted[s]
InOrder(h, d, last) ==
    /\ last <= produced
    /\ \A s \in Slots : Holds(h, d, s) => last < data[s] /\ data[s] <= produced
    /\ \A s, t \in Slots : Holds(h, d, s) /\ Holds(h, d, t) /\ Dist(h, s) < Dist(h, t)
          => data[s] < data[t]
    /\ \A e \in (last + 1)..produced : \E s \in Slots : Holds(h, d, s) /\ data[s] = e

OrderInv ==
    /\ DataTypes
    /\ ~replayed => ~misordered /\ InOrder(head, devNext, delivered)

\* A handler that has read draining before the pause has nothing to lend, unless
\* the pause caught it; and after a pause that found the queue empty neither
\* thread has anything to lend.
PauseInv ==
    /\ kind = "event" /\ draining /\ ~caught /\ sub["irq"] => todo["irq"] = 0
    /\ pm = "paused" /\ ~timedOut /\ ~caught =>
          /\ Lent = 0
          /\ kind = "firmware" /\ irqPc # "idle" => cnt = 0

\* A pause without a leftover ends with an empty ring and a handler past its lending,
\* whose work is not queued; and nothing starts it before the resume has lent its
\* buffers.
LeftoverInv ==
    /\ raced => leftover
    /\ ~leftover =>
          /\ pm \notin {"resumeFlush", "resumeSleep"}
          /\ pm \in {"paused", "resumeCheck"} => Lent = 0
          /\ pm \in {"paused", "resumeCheck", "resumeSubmit"} =>
                ~queued /\ irqPc \in {"idle", "check"}

\* A flush that was not given up is over when its pause or resume goes on.
FlushInv ==
    /\ flushes \in Seq(Nat) /\ flushed \in SUBSET Nat /\ flushNo \in Nat
    /\ ~flushLate =>
          \/ flushes = <<>> /\ flushed = {}
          \/ /\ pm \in {"pauseFlush", "resumeFlush"}
             /\ \/ flushes = <<flushNo>> /\ flushed = {}
                \/ flushes = <<>> /\ flushed = {flushNo}

\* Buffers the handler is going to lend again.
Owed == CASE irqPc = "handle" -> cnt
          [] irqPc = "submit" -> todo["irq"]
          [] OTHER -> 0

\* The resume fills an empty ring. While the queue runs, all its buffers are lent
\* or owed, and none was aborted.
ListenInv ==
    /\ pm = "resumeSubmit" /\ ~raced => doorbell = head /\ Lent + todo["pm"] >= Pending
    /\ pm = "run" /\ ~deaf /\ ~flushLate =>
          /\ \A s \in Slots : Completed(s) => ~aborted[s]
          /\ Lent + Owed >= Pending

IInv ==
    /\ RingInv /\ PlaceInv /\ OrderInv /\ PauseInv /\ LeftoverInv /\ FlushInv /\ ListenInv

-----------------------------------------------------------------------------
(* The ring.                                                               *)

LEMMA Sizes ==
  /\ Pending \in Nat /\ Pending >= 1 /\ ElCount \in Nat /\ ElCount > 2 * Pending
  /\ Capacity \in Nat /\ Capacity = ElCount - 1 /\ Capacity >= Pending
  BY EventQueueAssumption DEF Capacity

LEMMA SuccValue ==
  ASSUME NEW i \in Slots
  PROVE  /\ Succ(i) = IF i = ElCount - 1 THEN 0 ELSE i + 1
         /\ Succ(i) \in Slots
<1> USE Sizes DEF Slots
<1>1. CASE i = ElCount - 1
  BY <1>1 DEF Succ
<1>2. CASE i # ElCount - 1
  BY <1>2 DEF Succ
<1> QED BY <1>1, <1>2

LEMMA DistValue ==
  ASSUME NEW a \in Slots, NEW b \in Slots
  PROVE  /\ Dist(a, b) \in 0..Capacity
         /\ Dist(a, b) = 0 <=> a = b
  BY Sizes DEF Dist, Slots

LEMMA DistOnce ==
  ASSUME NEW a \in Slots, NEW b \in Slots, NEW c \in Slots, Dist(a, b) = Dist(a, c)
  PROVE  b = c
  BY Sizes DEF Dist, Slots

\* An index that is not right behind a moves on.
LEMMA DistNext ==
  ASSUME NEW a \in Slots, NEW b \in Slots, Dist(a, b) # Capacity
  PROVE  Dist(a, Succ(b)) = Dist(a, b) + 1
  BY Sizes, SuccValue DEF Dist, Slots

\* The head moves on: all that is ahead of it comes nearer by one.
LEMMA DistRest ==
  ASSUME NEW a \in Slots, NEW b \in Slots
  PROVE  Dist(Succ(a), b) = IF a = b THEN Capacity ELSE Dist(a, b) - 1
  BY Sizes, SuccValue DEF Dist, Slots

\* What is between two indices, seen from one behind them.
LEMMA DistBetween ==
  ASSUME NEW h \in Slots, NEW a \in Slots, NEW b \in Slots, NEW s \in Slots,
         Dist(h, a) <= Dist(h, b)
  PROVE  Dist(a, s) < Dist(a, b) <=> Dist(h, a) <= Dist(h, s) /\ Dist(h, s) < Dist(h, b)
  BY Sizes DEF Dist, Slots

\* The head of a ring with a completion moves on.
LEMMA HeadMoves ==
  ASSUME NEW h \in Slots, NEW d \in Slots, h # d
  PROVE  /\ \A s \in Slots : Dist(Succ(h), s) < Dist(Succ(h), d) <=> s # h /\ Dist(h, s) < Dist(h, d)
         /\ \A s \in Slots, t \in Slots \ {h} :
               Dist(Succ(h), s) < Dist(Succ(h), t) => Dist(h, s) < Dist(h, t) /\ s # h
<1>1. \A s \in Slots : Dist(h, s) \in 0..Capacity
  BY DistValue
<1>2. \A s \in Slots : Dist(Succ(h), s) = IF h = s THEN Capacity ELSE Dist(h, s) - 1
  BY DistRest
<1> QED BY <1>1, <1>2, Sizes

LEMMA RingMoves ==
  ASSUME NEW h \in Slots, NEW c \in Slots, NEW d \in Slots, NEW b \in Slots, NEW t \in Slots,
         RingOrder(h, c, d, b, t), h # c
  PROVE  /\ Succ(h) \in Slots /\ RingOrder(Succ(h), c, d, b, t)
         /\ h # d /\ h # b /\ h # t
         /\ Dist(Succ(h), t) = Dist(h, t) - 1
<1>1. /\ Dist(h, c) \in 1..Capacity /\ Dist(h, d) \in 0..Capacity
      /\ Dist(h, b) \in 0..Capacity /\ Dist(h, t) \in 0..Capacity
  <2>1. \A s \in Slots : Dist(h, s) \in 0..Capacity /\ (Dist(h, s) = 0 <=> h = s)
    BY DistValue
  <2> QED BY <2>1, Sizes
<1>2. h # d /\ h # b /\ h # t
  <2>1. Dist(h, h) = 0
    BY DistValue
  <2> QED BY <1>1, <2>1, Sizes DEF RingOrder
<1>3. /\ Dist(Succ(h), c) = Dist(h, c) - 1 /\ Dist(Succ(h), d) = Dist(h, d) - 1
      /\ Dist(Succ(h), b) = Dist(h, b) - 1 /\ Dist(Succ(h), t) = Dist(h, t) - 1
  BY <1>2, DistRest
<1> QED BY <1>1, <1>2, <1>3, SuccValue, Sizes DEF RingOrder

\* The first slot is consumed: an aborted one changes nothing, any other has the next
\* event.
LEMMA FirstInOrder ==
  ASSUME DataTypes, NEW h \in Slots, NEW d \in Slots, h # d, NEW last \in Nat, InOrder(h, d, last)
  PROVE  /\ aborted[h] => InOrder(Succ(h), d, last)
         /\ ~aborted[h] => data[h] = last + 1 /\ data[h] <= produced /\ InOrder(Succ(h), d, data[h])
<1>1. /\ \A s \in Slots : data[s] \in Nat
      /\ produced \in Nat
  BY DEF DataTypes
<1>2. \A s \in Slots : Holds(Succ(h), d, s) <=> s # h /\ Holds(h, d, s)
  BY HeadMoves DEF Holds
<1>3. \A s, t \in Slots : Holds(Succ(h), d, s) /\ Holds(Succ(h), d, t) /\ Dist(Succ(h), s) < Dist(Succ(h), t)
          => data[s] < data[t]
  <2> SUFFICES ASSUME NEW s \in Slots, NEW t \in Slots, Holds(Succ(h), d, s), Holds(Succ(h), d, t),
                      Dist(Succ(h), s) < Dist(Succ(h), t)
               PROVE  data[s] < data[t]
    OBVIOUS
  <2>1. t # h /\ Holds(h, d, s) /\ Holds(h, d, t)
    BY <1>2
  <2>2. Dist(h, s) < Dist(h, t)
    BY <2>1, HeadMoves
  <2> QED BY <2>1, <2>2 DEF InOrder
<1>4. ASSUME aborted[h] PROVE InOrder(Succ(h), d, last)
  <2>1. \A s \in Slots : Holds(h, d, s) => s # h
    BY <1>4 DEF Holds
  <2> QED BY <1>2, <1>3, <2>1 DEF InOrder
<1>5. ASSUME ~aborted[h] PROVE data[h] = last + 1 /\ data[h] <= produced /\ InOrder(Succ(h), d, data[h])
  <2>1. Dist(h, h) = 0 /\ \A s \in Slots : Dist(h, s) \in 0..Capacity /\ (Dist(h, s) = 0 <=> h = s)
    BY DistValue
  <2>2. Holds(h, d, h)
    BY <1>5, <2>1 DEF Holds
  <2>3. last < data[h] /\ data[h] <= produced
    BY <2>2 DEF InOrder
  <2>4. \A s \in Slots : Holds(h, d, s) /\ s # h => data[h] < data[s]
    <3> SUFFICES ASSUME NEW s \in Slots, Holds(h, d, s), s # h PROVE data[h] < data[s]
      OBVIOUS
    <3>1. Dist(h, h) < Dist(h, s)
      BY <2>1
    <3> QED BY <2>2, <3>1 DEF InOrder
  <2>5. data[h] = last + 1
    <3>1. last + 1 \in (last + 1)..produced
      BY <1>1, <2>3
    <3>2. PICK s \in Slots : Holds(h, d, s) /\ data[s] = last + 1
      BY <3>1 DEF InOrder
    <3>3. s = h
      BY <1>1, <2>3, <2>4, <3>2
    <3> QED BY <3>2, <3>3
  <2>6. \A s \in Slots : Holds(Succ(h), d, s) => data[h] < data[s] /\ data[s] <= produced
    BY <1>2, <2>4 DEF InOrder
  <2>7. \A e \in (data[h] + 1)..produced : \E s \in Slots : Holds(Succ(h), d, s) /\ data[s] = e
    <3> SUFFICES ASSUME NEW e \in (data[h] + 1)..produced
                 PROVE  \E s \in Slots : Holds(Succ(h), d, s) /\ data[s] = e
      OBVIOUS
    <3>1. e \in (last + 1)..produced /\ e # data[h]
      BY <1>1, <2>3
    <3>2. PICK s \in Slots : Holds(h, d, s) /\ data[s] = e
      BY <3>1 DEF InOrder
    <3> QED BY <1>2, <3>1, <3>2
  <2> QED BY <1>3, <2>3, <2>5, <2>6, <2>7 DEF InOrder
<1> QED BY <1>4, <1>5

-----------------------------------------------------------------------------
(* Parts that a step leaves alone.                                         *)

LEMMA RingFacts ==
  ASSUME RingInv
  PROVE  /\ Lent \in 0..Capacity /\ available = Capacity - Lent
         /\ available = Capacity <=> Lent = 0
         /\ Lent = 0 => head = tail /\ doorbell = head
         /\ doorbell = head => ctail = head /\ devNext = head
         /\ head # ctail => Lent > 0 /\ head # devNext /\ doorbell # head
<1>1. \A s \in Slots : Dist(head, s) \in 0..Capacity /\ (Dist(head, s) = 0 <=> head = s)
  BY DistValue DEF RingInv, RingTypes
<1> QED BY <1>1, Sizes DEF RingInv, RingTypes, RingOrder, Lent

LEMMA RingFrame ==
  ASSUME RingInv, UNCHANGED <<ringVars, devNext>>
  PROVE  RingInv' /\ Lent' = Lent
  BY DEF RingInv, RingTypes, RingOrder, ringVars, Lent

LEMMA OrderFrame ==
  ASSUME OrderInv, UNCHANGED <<head, devNext, data, aborted, produced, delivered, misordered, replayed>>
  PROVE  OrderInv' /\ \A s : Completed(s)' <=> Completed(s)
  BY DEF OrderInv, DataTypes, InOrder, Holds, Completed

LEMMA FlushFrame ==
  ASSUME FlushInv, UNCHANGED <<flushes, flushed, flushNo, flushLate>>,
         pm' = pm \/ pm \notin {"pauseFlush", "resumeFlush"}
  PROVE  FlushInv'
  BY DEF FlushInv

\* A flush command is issued.
LEMMA FlushIssued ==
  ASSUME FlushInv, pm \notin {"pauseFlush", "resumeFlush"}, pm' \in {"pauseFlush", "resumeFlush"},
         flushNo' = flushNo + 1, flushes' = Append(flushes, flushNo + 1), UNCHANGED <<flushed, flushLate>>
  PROVE  FlushInv'
<1>1. flushes' \in Seq(Nat) /\ flushNo' \in Nat
  BY DEF FlushInv
<1>2. ASSUME ~flushLate PROVE flushes' = <<flushNo'>> /\ flushed' = {}
  <2>1. flushes = <<>> /\ flushed = {}
    BY <1>2 DEF FlushInv
  <2>2. Append(<<>>, flushNo + 1) = <<flushNo + 1>>
    OBVIOUS
  <2> QED BY <2>1, <2>2
<1> QED BY <1>1, <1>2 DEF FlushInv

\* A slot is returned, by whichever handler.
LEMMA TakeOne ==
  ASSUME RingInv, head # ctail, head' = Succ(head), available' = available + 1,
         UNCHANGED <<tail, ctail, doorbell, devNext>>
  PROVE  /\ RingInv' /\ Lent' = Lent - 1 /\ Lent > 0
         /\ \A s \in Slots : Completed(s)' => Completed(s)
<1>1. /\ Succ(head) \in Slots /\ RingOrder(Succ(head), ctail, devNext, doorbell, tail)
      /\ head # devNext /\ Dist(Succ(head), tail) = Dist(head, tail) - 1
  BY RingMoves DEF RingInv, RingTypes
<1>2. Lent' = Lent - 1
  BY <1>1 DEF Lent
<1>3. RingInv'
  BY <1>1, <1>2, RingFacts, Sizes DEF RingInv, RingTypes, RingOrder
<1>4. \A s \in Slots : Completed(s)' => Completed(s)
  BY <1>1, HeadMoves DEF Completed, RingInv, RingTypes
<1> QED BY <1>2, <1>3, <1>4, RingFacts

-----------------------------------------------------------------------------
(* bce_vhci_event_queue_submit_pending.                                    *)

LEMMA SubmitOneStep ==
  ASSUME IInv, ~raced, NEW t \in Threads, SubmitOne(t)
  PROVE  IInv'
<1>0. /\ sub[t] /\ todo[t] > 0 /\ available > 0 /\ available' = available - 1
      /\ tail' = Succ(tail) /\ todo' = [todo EXCEPT ![t] = @ - 1]
      /\ UNCHANGED <<sub, head, ctail, doorbell, devVars, handlerVars, pmVars, empty, raced>>
  BY DEF SubmitOne
<1>1. Lent' = Lent + 1 /\ Lent \in 0..Capacity /\ Lent # Capacity
  <2>1. Lent \in 0..Capacity /\ Lent # Capacity
    BY <1>0, RingFacts, Sizes DEF IInv
  <2> QED BY <1>0, <2>1, DistNext DEF IInv, RingInv, RingTypes, Lent
<1>2. RingInv'
  <2>1. RingTypes'
    BY <1>0, SuccValue DEF IInv, RingInv, RingTypes, devVars
  <2>2. Dist(head, doorbell) \in 0..Capacity
    BY DistValue DEF IInv, RingInv, RingTypes
  <2> QED BY <1>0, <1>1, <2>1, <2>2, Sizes DEF IInv, RingInv, RingTypes, RingOrder, Lent, devVars
<1>3. PlaceInv'
  <2>1. ThreadTypes'
    BY <1>0 DEF IInv, PlaceInv, ThreadTypes, handlerVars, workVars, pmVars
  <2> QED BY <1>0, <2>1 DEF IInv, PlaceInv, ThreadTypes, Threads, handlerVars, workVars, pmVars
<1>4. OrderInv' /\ \A s : Completed(s)' <=> Completed(s)
  BY <1>0, OrderFrame DEF IInv, devVars, handlerVars, workVars
<1>5. t = "irq" => ~(pm = "paused" /\ ~timedOut /\ ~caught) /\ ~(kind = "event" /\ draining /\ ~caught)
                   /\ irqPc = "submit" /\ pm # "resumeSubmit"
  BY <1>0 DEF IInv, PlaceInv, PauseInv, ThreadTypes, Threads, Draining
<1>6. t = "pm" => pm = "resumeSubmit"
  BY <1>0 DEF IInv, PlaceInv
<1>7. PauseInv'
  <2>1. ASSUME t = "irq" PROVE PauseInv'
    BY <1>0, <1>5, <2>1 DEF PauseInv, handlerVars, workVars, pmVars
  <2>2. ASSUME t = "pm" PROVE PauseInv'
    <3>1. ~draining
      BY <1>6, <2>2 DEF IInv, PlaceInv, Draining
    <3> QED BY <1>0, <1>6, <2>2, <3>1 DEF PauseInv, pmVars
  <2> QED BY <2>1, <2>2 DEF Threads
<1>8. LeftoverInv'
  <2>1. ASSUME ~leftover, pm \in {"paused", "resumeCheck"} PROVE FALSE
    <3>1. irqPc # "submit"
      BY <2>1 DEF IInv, LeftoverInv
    <3> QED BY <1>5, <1>6, <2>1, <3>1 DEF Threads
  <2> QED BY <1>0, <2>1 DEF IInv, LeftoverInv, handlerVars, workVars, pmVars
<1>9. FlushInv'
  BY <1>0, FlushFrame DEF IInv, devVars, pmVars
<1>10. ListenInv'
  <2>1. pm = "resumeSubmit" => t = "pm" /\ doorbell = head /\ Lent + todo["pm"] >= Pending
    BY <1>5 DEF IInv, ListenInv, Threads
  <2>2. todo["irq"] \in Nat /\ todo["pm"] \in Nat /\ todo'[t] = todo[t] - 1
        /\ \A u \in Threads \ {t} : todo'[u] = todo[u]
    BY <1>0 DEF IInv, PlaceInv, ThreadTypes, Threads
  <2>3. pm' = "resumeSubmit" => doorbell' = head' /\ Lent' + todo'["pm"] >= Pending
    BY <1>0, <1>1, <2>1, <2>2, Sizes DEF pmVars
  <2>4. ASSUME pm = "run", ~deaf, ~flushLate PROVE Lent' + Owed' >= Pending
    <3>1. t = "irq" /\ irqPc = "submit"
      BY <1>5, <1>6, <2>4 DEF Threads
    <3>2. Owed = todo["irq"] /\ Owed' = todo["irq"] - 1
      BY <1>0, <2>2, <3>1 DEF Owed, handlerVars
    <3>3. Lent + Owed >= Pending
      BY <2>4 DEF IInv, ListenInv
    <3> QED BY <1>1, <2>2, <3>2, <3>3, Sizes
  <2> QED BY <1>0, <1>4, <2>3, <2>4 DEF IInv, ListenInv, devVars, pmVars
<1> QED BY <1>2, <1>3, <1>4, <1>7, <1>8, <1>9, <1>10 DEF IInv

LEMMA SubmitRingStep ==
  ASSUME IInv, ~raced, NEW t \in Threads, SubmitRing(t)
  PROVE  IInv'
<1>0. /\ sub[t] /\ (todo[t] = 0 \/ available = 0)
      /\ doorbell' = tail
      /\ sub' = [sub EXCEPT ![t] = FALSE]
      /\ t = "irq" => irqPc' = "check" /\ UNCHANGED <<pm, deaf>>
      /\ t = "pm" => pm' = "run" /\ deaf' = FALSE /\ UNCHANGED irqPc
      /\ UNCHANGED <<flushLate, available, head, tail, ctail, devVars, todo, cnt, delivered,
                     misordered, workVars, draining, flushNo, cycles, caught, timedOut, leftover,
                     empty, raced>>
  BY DEF SubmitRing
<1>1. Lent' = Lent /\ Lent \in 0..Capacity /\ (available = 0 => Lent = Capacity)
  BY <1>0, RingFacts, Sizes DEF IInv, Lent
<1>2. RingInv'
  <2>1. \A s \in Slots : Dist(head, s) \in 0..Capacity
    BY DistValue DEF IInv, RingInv, RingTypes
  <2> QED BY <1>0, <2>1, Sizes DEF IInv, RingInv, RingTypes, RingOrder, Lent, devVars
<1>p. /\ t = "irq" => irqPc = "submit" /\ pm # "resumeSubmit"
      /\ t = "pm" => pm = "resumeSubmit" /\ irqPc # "submit" /\ ~draining
  BY <1>0 DEF IInv, PlaceInv, Draining
<1>3. PlaceInv'
  <2>1. ThreadTypes'
    BY <1>0, ZenonT(20) DEF IInv, PlaceInv, ThreadTypes, workVars, Handling, Threads
  <2>2. CASE t = "irq"
    BY <1>0, <1>p, <2>1, <2>2 DEF IInv, PlaceInv, ThreadTypes, Threads, workVars
  <2>3. CASE t = "pm"
    BY <1>0, <1>p, <2>1, <2>3 DEF IInv, PlaceInv, ThreadTypes, Threads, workVars, Draining
  <2> QED BY <2>2, <2>3 DEF Threads
<1>4. OrderInv' /\ \A s : Completed(s)' <=> Completed(s)
  BY <1>0, OrderFrame DEF IInv, devVars, workVars
<1>5. PauseInv'
  BY <1>0, <1>1, <1>p DEF IInv, PlaceInv, ThreadTypes, PauseInv, Threads, workVars
<1>6. LeftoverInv'
  BY <1>0, <1>1, <1>p DEF IInv, LeftoverInv, Threads, workVars
<1>7. FlushInv'
  BY <1>0, <1>p, FlushFrame DEF IInv, devVars, Threads
<1>8. ListenInv'
  <2>1. CASE t = "irq"
    <3>1. pm = "run" /\ ~deaf /\ ~flushLate => Lent + todo["irq"] >= Pending
      BY <1>p, <2>1 DEF IInv, ListenInv, Owed
    <3>2. Owed' = 0
      BY <1>0, <2>1 DEF Owed
    <3>3. pm = "run" /\ ~deaf /\ ~flushLate => Lent' + Owed' >= Pending
      BY <1>0, <1>1, <2>1, <3>1, <3>2, Sizes
    <3> QED BY <1>0, <1>4, <1>p, <2>1, <3>3 DEF IInv, ListenInv, devVars
  <2>2. CASE t = "pm"
    <3>1. doorbell = head /\ Lent + todo["pm"] >= Pending
      BY <1>p, <2>2 DEF IInv, ListenInv
    <3>2. Owed' \in Nat
      BY <1>0, <1>p, <2>2 DEF Owed, IInv, PlaceInv, ThreadTypes, Threads
    <3>3. devNext = head /\ Dist(head, head) = 0 /\ \A s \in Slots : Dist(head, s) \in 0..Capacity
      BY <3>1, RingFacts, DistValue DEF IInv, RingInv, RingTypes
    <3>4. \A s \in Slots : ~Completed(s)'
      BY <1>0, <3>3 DEF Completed, devVars
    <3>5. Lent' + Owed' >= Pending
      <4>1. todo["pm"] = 0 \/ Lent = Capacity
        BY <1>0, <1>1, <2>2
      <4>2. Lent \in Nat /\ Lent >= Pending
        BY <1>1, <3>1, <4>1, Sizes
      <4>3. \A n \in Nat : Lent + n >= Pending
        BY <4>2, Sizes
      <4> QED BY <1>1, <3>2, <4>3
    <3> QED BY <1>0, <2>2, <3>4, <3>5 DEF ListenInv
  <2> QED BY <2>1, <2>2 DEF Threads
<1> QED BY <1>2, <1>3, <1>4, <1>5, <1>6, <1>7, <1>8 DEF IInv

-----------------------------------------------------------------------------
(* The interrupt thread.                                                   *)

LEMMA IrqStartStep ==
  ASSUME IInv, ~raced, IrqStart
  PROVE  IInv'
<1>0. /\ kind = "event" => irqPc = "idle"
      /\ ctail' = devNext /\ flushed' = {}
      /\ flushNo \notin flushed => pm' = pm
      /\ \/ pm' = pm /\ (flushNo \in flushed => pm \notin {"pauseFlush", "resumeFlush"})
         \/ pm = "pauseFlush" /\ pm' = "pauseWait"
         \/ pm = "resumeFlush" /\ pm' = "resumeSleep"
      /\ kind = "event" => /\ irqPc' = IF ctail # devNext THEN "handle" ELSE "idle"
                           /\ cnt' = 0 /\ UNCHANGED queued
      /\ kind # "event" => queued' = (queued \/ ctail # devNext) /\ UNCHANGED <<irqPc, cnt>>
      /\ UNCHANGED <<flushLate, available, head, tail, doorbell, devNext, data, aborted, flushes,
                     produced, cancels, subVars, delivered, misordered, kind, ahead, replayed,
                     draining, flushNo, cycles, caught, timedOut, deaf, leftover, empty, raced>>
  BY DEF IrqStart
<1>1. RingInv' /\ Lent' = Lent
  <2>1. \A s \in Slots : Dist(head, s) \in 0..Capacity
    BY DistValue DEF IInv, RingInv, RingTypes
  <2> QED BY <1>0, <2>1, Sizes DEF IInv, RingInv, RingTypes, RingOrder, Lent
<1>2. PlaceInv'
  <2>1. ThreadTypes'
    <3>1. pm' \in {"run"} \cup Draining \cup Resuming
      BY <1>0 DEF IInv, PlaceInv, ThreadTypes, Draining, Resuming
    <3>2. irqPc' \in Handling /\ cnt' \in Nat
      BY <1>0 DEF IInv, PlaceInv, ThreadTypes, Handling
    <3>3. queued' \in BOOLEAN
      <4>1. CASE kind = "event"
        BY <1>0, <4>1 DEF IInv, PlaceInv, ThreadTypes
      <4>2. CASE kind # "event"
        BY <1>0, <4>2
      <4> QED BY <4>1, <4>2
    <3> QED BY <1>0, <3>1, <3>2, <3>3 DEF IInv, PlaceInv, ThreadTypes, subVars
  <2>2. ahead => head # devNext
    BY RingFacts DEF IInv, PlaceInv
  <2>3. CASE kind = "event"
    BY <1>0, <2>1, <2>2, <2>3 DEF IInv, PlaceInv, subVars, Draining
  <2>4. CASE kind # "event"
    BY <1>0, <2>1, <2>2, <2>4 DEF IInv, PlaceInv, subVars, Draining
  <2> QED BY <2>3, <2>4
<1>3. OrderInv' /\ \A s : Completed(s)' <=> Completed(s)
  BY <1>0, OrderFrame DEF IInv
<1>4. PauseInv'
  BY <1>0, <1>1 DEF IInv, PlaceInv, PauseInv, ThreadTypes, subVars
<1>5. LeftoverInv'
  <2>1. ASSUME ~leftover PROVE pm' \notin {"resumeFlush", "resumeSleep"}
    BY <1>0, <2>1 DEF IInv, LeftoverInv
  <2>2. ASSUME ~leftover, pm' \in {"paused", "resumeCheck", "resumeSubmit"}
        PROVE  pm' = pm /\ ctail = devNext
    <3>1. pm' = pm
      BY <1>0, <2>2
    <3>2. doorbell = head
      BY <2>2, <3>1, RingFacts DEF IInv, LeftoverInv, ListenInv
    <3> QED BY <3>1, <3>2, RingFacts DEF IInv
  <2> QED BY <1>0, <1>1, <2>1, <2>2 DEF IInv, LeftoverInv, PlaceInv, ThreadTypes
<1>6. FlushInv'
  BY <1>0 DEF IInv, FlushInv
<1>7. ListenInv'
  <2>1. Owed' = Owed
    BY <1>0 DEF IInv, PlaceInv, Owed, ThreadTypes, subVars
  <2> QED BY <1>0, <1>1, <1>3, <2>1 DEF IInv, ListenInv, subVars
<1> QED BY <1>1, <1>2, <1>3, <1>4, <1>5, <1>6, <1>7 DEF IInv

\* A step of a handler that has something to consume is not one in a pause that
\* found the queue empty, nor one before the resume has lent its buffers.
LEMMA NotAfterEmpty ==
  ASSUME IInv, ~raced, head # ctail
  PROVE  /\ ~(pm = "paused" /\ ~timedOut /\ ~caught)
         /\ ~(~leftover /\ pm \in {"paused", "resumeCheck"})
         /\ pm # "resumeSubmit"
  BY RingFacts DEF IInv, PauseInv, LeftoverInv, ListenInv

LEMMA HandleCompletionStep ==
  ASSUME IInv, ~raced, HandleCompletion
  PROVE  IInv'
<1>0. /\ kind = "event" /\ irqPc = "handle" /\ head # ctail
      /\ cnt' = IF aborted[head] THEN cnt ELSE cnt + 1
      /\ delivered' = IF aborted[head] THEN delivered ELSE data[head]
      /\ misordered' = (misordered \/ (~aborted[head] /\ data[head] # delivered + 1))
      /\ head' = Succ(head) /\ available' = available + 1
      /\ UNCHANGED <<tail, ctail, doorbell, devVars, subVars, irqPc, workVars, pmVars, empty, raced>>
  BY DEF HandleCompletion
<1>1. /\ RingInv' /\ Lent' = Lent - 1 /\ Lent > 0
      /\ \A s \in Slots : Completed(s)' => Completed(s)
  BY <1>0, TakeOne DEF IInv, devVars
<1>t. head \in Slots /\ devNext \in Slots /\ head # devNext /\ cnt \in Nat /\ Lent \in Nat
      /\ Dist(head, head) = 0 /\ Dist(head, devNext) \in 0..Capacity /\ Dist(head, devNext) # 0
  BY <1>0, RingFacts, DistValue, Sizes DEF IInv, RingInv, RingTypes, PlaceInv, ThreadTypes
<1>2. PlaceInv'
  <2>1. ThreadTypes'
    BY <1>0, <1>t DEF IInv, PlaceInv, ThreadTypes, OrderInv, DataTypes, subVars, workVars, pmVars
  <2> QED BY <1>0, <2>1 DEF IInv, PlaceInv, subVars, workVars, pmVars
<1>3. OrderInv'
  <2>1. DataTypes'
    BY <1>0, <1>t DEF IInv, OrderInv, DataTypes, devVars
  <2>2. ASSUME ~replayed PROVE ~misordered' /\ InOrder(Succ(head), devNext, delivered')
    <3>1. /\ aborted[head] => InOrder(Succ(head), devNext, delivered)
          /\ ~aborted[head] => data[head] = delivered + 1 /\ InOrder(Succ(head), devNext, data[head])
      BY <1>t, <2>2, FirstInOrder DEF IInv, OrderInv, DataTypes
    <3> QED BY <1>0, <2>2, <3>1 DEF IInv, OrderInv
  <2>3. InOrder(head, devNext, delivered)' <=> InOrder(Succ(head), devNext, delivered')
    BY <1>0 DEF InOrder, Holds, devVars
  <2> QED BY <1>0, <2>1, <2>2, <2>3 DEF OrderInv, workVars
<1>4. PauseInv'
  BY <1>0, NotAfterEmpty DEF IInv, PauseInv, subVars, workVars, pmVars
<1>5. LeftoverInv'
  BY <1>0, NotAfterEmpty DEF IInv, LeftoverInv, subVars, workVars, pmVars
<1>6. FlushInv'
  BY <1>0, FlushFrame DEF IInv, devVars, pmVars
<1>7. ListenInv'
  <2>1. pm # "resumeSubmit"
    BY <1>0, NotAfterEmpty
  <2>2. ASSUME pm = "run", ~deaf, ~flushLate
        PROVE  Lent' + Owed' >= Pending /\ \A s \in Slots : Completed(s)' => ~aborted[s]
    <3>1. ~aborted[head]
      BY <1>t, <2>2 DEF IInv, ListenInv, Completed
    <3>2. Owed = cnt /\ Owed' = cnt + 1
      BY <1>0, <3>1 DEF Owed
    <3>3. Lent + cnt >= Pending /\ \A s \in Slots : Completed(s) => ~aborted[s]
      BY <2>2, <3>2 DEF IInv, ListenInv
    <3> QED BY <1>1, <1>t, <3>2, <3>3, Sizes
  <2> QED BY <1>0, <2>1, <2>2 DEF ListenInv, devVars, pmVars
<1> QED BY <1>1, <1>2, <1>3, <1>4, <1>5, <1>6, <1>7 DEF IInv

\* The handler's loop is over: it lends what it consumed, or has read draining.
LEMMA LoopOver ==
  ASSUME IInv, ~raced, irqPc = "handle", head = ctail, ~ahead,
         \/ irqPc' = "submit" /\ SubmitCall("irq", cnt) /\ (kind = "event" => ~draining)
         \/ irqPc' = "check" /\ UNCHANGED <<sub, todo, raced>> /\ draining,
         UNCHANGED <<ringVars, devVars, cnt, delivered, misordered, workVars, pmVars, empty>>
  PROVE  IInv'
<1>1. RingInv' /\ Lent' = Lent
  BY RingFrame DEF IInv, devVars
<1>t. cnt \in Nat /\ sub \in [Threads -> BOOLEAN] /\ todo \in [Threads -> Nat]
  BY DEF IInv, PlaceInv, ThreadTypes
<1>s. \/ irqPc' = "check" /\ sub' = sub /\ todo' = todo /\ raced' = raced /\ draining
      \/ /\ irqPc' = "submit" /\ sub' = [sub EXCEPT !["irq"] = TRUE]
         /\ todo' = [todo EXCEPT !["irq"] = cnt] /\ raced' = sub["pm"] /\ (kind = "event" => ~draining)
  BY <1>t DEF SubmitCall, Threads
<1>2. PlaceInv'
  <2>1. ThreadTypes'
    BY <1>s, <1>t, ZenonT(20) DEF IInv, PlaceInv, ThreadTypes, Threads, Handling, workVars, pmVars
  <2> QED BY <1>s, <1>t, <2>1 DEF IInv, PlaceInv, Threads, ringVars, workVars, pmVars
<1>3. OrderInv' /\ \A s : Completed(s)' <=> Completed(s)
  BY OrderFrame DEF IInv, ringVars, devVars, workVars
<1>4. PauseInv'
  BY <1>s, <1>1, <1>t DEF IInv, PlaceInv, PauseInv, ThreadTypes, Threads, workVars, pmVars
<1>5. LeftoverInv'
  <2>1. sub["pm"] => leftover
    BY DEF IInv, PlaceInv, LeftoverInv
  <2> QED BY <1>s, <1>1, <2>1 DEF IInv, LeftoverInv, workVars, pmVars
<1>6. FlushInv'
  BY FlushFrame DEF IInv, devVars, pmVars
<1>7. ListenInv'
  <2>1. todo'["pm"] = todo["pm"]
    BY <1>s, <1>t DEF Threads
  <2>2. ASSUME pm = "run" PROVE Owed' = Owed
    <3>1. irqPc' = "submit" /\ todo'["irq"] = cnt
      BY <1>s, <1>t, <2>2 DEF IInv, PlaceInv, Threads, Draining
    <3> QED BY <3>1 DEF Owed
  <2> QED BY <1>s, <1>1, <1>3, <2>1, <2>2 DEF IInv, ListenInv, ringVars, devVars, pmVars
<1> QED BY <1>1, <1>2, <1>3, <1>4, <1>5, <1>6, <1>7 DEF IInv

LEMMA ReadDrainingStep ==
  ASSUME IInv, ~raced, ReadDraining
  PROVE  IInv'
<1>1. ~ahead
  BY DEF ReadDraining, IInv, PlaceInv
<1> QED BY <1>1, LoopOver DEF ReadDraining

LEMMA CheckEmptyStep ==
  ASSUME IInv, ~raced, CheckEmpty
  PROVE  IInv'
<1>0. /\ irqPc = "check" /\ irqPc' = "idle"
      /\ UNCHANGED <<ringVars, devVars, subVars, cnt, delivered, misordered, workVars, pmVars, raced>>
  BY DEF CheckEmpty
<1>1. RingInv' /\ Lent' = Lent
  BY <1>0, RingFrame DEF IInv, devVars
<1>2. PlaceInv'
  <2>1. ThreadTypes'
    BY <1>0 DEF IInv, PlaceInv, ThreadTypes, Handling, subVars, workVars, pmVars
  <2> QED BY <1>0, <2>1 DEF IInv, PlaceInv, ringVars, subVars, workVars, pmVars
<1>3. OrderInv' /\ \A s : Completed(s)' <=> Completed(s)
  BY <1>0, OrderFrame DEF IInv, ringVars, devVars, workVars
<1>4. PauseInv' /\ LeftoverInv'
  BY <1>0, <1>1 DEF IInv, PauseInv, LeftoverInv, subVars, workVars, pmVars
<1>5. FlushInv'
  BY <1>0, FlushFrame DEF IInv, devVars, pmVars
<1>6. ListenInv'
  <2>1. Owed' = Owed
    BY <1>0 DEF Owed
  <2> QED BY <1>0, <1>1, <1>3, <2>1 DEF IInv, ListenInv, ringVars, devVars, subVars, pmVars
<1> QED BY <1>1, <1>2, <1>3, <1>4, <1>5, <1>6 DEF IInv

-----------------------------------------------------------------------------
(* bce_vhci_handle_firmware_events_w.                                      *)

LEMMA WorkStartStep ==
  ASSUME IInv, ~raced, WorkStart
  PROVE  IInv'
<1>0. /\ queued /\ irqPc = "idle" /\ queued' = FALSE /\ irqPc' = "handle" /\ cnt' = 0
      /\ UNCHANGED <<ringVars, devVars, subVars, delivered, misordered, kind, ahead, replayed,
                     pmVars, empty, raced>>
  BY DEF WorkStart
<1>1. RingInv' /\ Lent' = Lent
  BY <1>0, RingFrame DEF IInv, devVars
<1>2. PlaceInv'
  <2>1. ThreadTypes'
    BY <1>0 DEF IInv, PlaceInv, ThreadTypes, Handling, subVars, pmVars
  <2> QED BY <1>0, <2>1 DEF IInv, PlaceInv, ringVars, subVars, pmVars
<1>3. OrderInv' /\ \A s : Completed(s)' <=> Completed(s)
  BY <1>0, OrderFrame DEF IInv, ringVars, devVars
<1>4. PauseInv' /\ LeftoverInv'
  BY <1>0, <1>1 DEF IInv, PauseInv, LeftoverInv, subVars, pmVars
<1>5. FlushInv'
  BY <1>0, FlushFrame DEF IInv, devVars, pmVars
<1>6. ListenInv'
  <2>1. Owed' = Owed
    BY <1>0 DEF Owed
  <2> QED BY <1>0, <1>1, <1>3, <2>1 DEF IInv, ListenInv, ringVars, devVars, subVars, pmVars
<1> QED BY <1>1, <1>2, <1>3, <1>4, <1>5, <1>6 DEF IInv

LEMMA WorkSubmitStep ==
  ASSUME IInv, ~raced, WorkSubmit
  PROVE  IInv'
  BY LoopOver DEF WorkSubmit, FirmwareTurn

LEMMA SkipAbortedStep ==
  ASSUME IInv, ~raced, SkipAborted
  PROVE  IInv'
<1>0. /\ kind = "firmware" /\ irqPc = "handle" /\ ~ahead /\ head # ctail /\ aborted[head]
      /\ head' = Succ(head) /\ available' = available + 1
      /\ UNCHANGED <<tail, ctail, doorbell, devVars, subVars, handlerVars, pmVars, empty,
                     raced>>
  BY DEF SkipAborted, FirmwareTurn
<1>1. RingInv'
  BY <1>0, TakeOne DEF IInv, devVars
<1>t. head \in Slots /\ devNext \in Slots /\ head # devNext
      /\ Dist(head, head) = 0 /\ Dist(head, devNext) \in 0..Capacity /\ Dist(head, devNext) # 0
  BY <1>0, RingFacts, DistValue DEF IInv, RingInv, RingTypes
<1>2. PlaceInv'
  <2>1. ThreadTypes'
    BY <1>0 DEF IInv, PlaceInv, ThreadTypes, subVars, handlerVars, workVars, pmVars
  <2> QED BY <1>0, <2>1 DEF IInv, PlaceInv, subVars, handlerVars, workVars, pmVars
<1>3. OrderInv'
  <2>1. DataTypes'
    BY <1>0 DEF IInv, OrderInv, DataTypes, devVars, handlerVars
  <2>2. ~replayed => ~misordered /\ InOrder(Succ(head), devNext, delivered)
    BY <1>0, <1>t, FirstInOrder DEF IInv, OrderInv, DataTypes
  <2>3. InOrder(head, devNext, delivered)' <=> InOrder(Succ(head), devNext, delivered)
    BY <1>0 DEF InOrder, Holds, devVars, handlerVars
  <2> QED BY <1>0, <2>1, <2>2, <2>3 DEF OrderInv, handlerVars, workVars
<1>4. PauseInv' /\ LeftoverInv'
  BY <1>0, NotAfterEmpty DEF IInv, PauseInv, LeftoverInv, subVars, handlerVars, workVars, pmVars
<1>5. FlushInv'
  BY <1>0, FlushFrame DEF IInv, devVars, pmVars
<1>6. ListenInv'
  <2>1. pm # "resumeSubmit"
    BY <1>0, NotAfterEmpty
  <2>2. ~(pm = "run" /\ ~deaf /\ ~flushLate)
    BY <1>0, <1>t DEF IInv, ListenInv, Completed
  <2> QED BY <1>0, <2>1, <2>2 DEF ListenInv, pmVars
<1> QED BY <1>1, <1>2, <1>3, <1>4, <1>5, <1>6 DEF IInv

FewerCompleted == \A s \in Slots : Completed(s)' => Completed(s)

\* n elements are taken: what is common to Cancel and HandleFirmware.
LEMMA TakeStep ==
  ASSUME IInv, ~raced, FirmwareTurn, NEW n \in Nat \ {0}, NEW last \in Nat, Take(n, last),
         head # ctail, ahead' \in BOOLEAN, ahead' => head' # ctail,
         RingInv', Lent' = Lent - n, FewerCompleted,
         ~replayed /\ ~aborted[head] => data[head] = delivered + 1 /\ InOrder(head', devNext, last)
  PROVE  IInv'
<1>0. /\ kind = "firmware" /\ irqPc = "handle"
      /\ available' = available + n /\ cnt' = cnt + n /\ delivered' = last
      /\ misordered' = (misordered \/ data[head] # delivered + 1)
      /\ replayed' = (replayed \/ aborted[head])
      /\ UNCHANGED <<tail, ctail, doorbell, devVars, subVars, irqPc, kind, queued, pmVars, empty, raced>>
  BY DEF Take, FirmwareTurn
<1>t. /\ cnt \in Nat /\ Lent \in 0..Capacity /\ head \in Slots /\ aborted[head] \in BOOLEAN
      /\ replayed \in BOOLEAN /\ misordered \in BOOLEAN
  BY RingFacts DEF IInv, PlaceInv, ThreadTypes, RingInv, RingTypes, OrderInv, DataTypes
<1>2. PlaceInv'
  <2>1. misordered' \in BOOLEAN /\ replayed' \in BOOLEAN /\ cnt' \in Nat
    <3>1. cnt' \in Nat
      BY <1>0, <1>t
    <3>2. misordered' \in BOOLEAN /\ replayed' \in BOOLEAN
      BY <1>0
    <3> QED BY <3>1, <3>2
  <2>2. ThreadTypes'
    BY <1>0, <2>1 DEF IInv, PlaceInv, ThreadTypes, subVars, pmVars
  <2>3. ~sub["irq"]
    BY <1>0 DEF IInv, PlaceInv
  <2> QED BY <1>0, <2>2, <2>3 DEF IInv, PlaceInv, subVars, pmVars
<1>3. OrderInv'
  <2>1. DataTypes'
    BY <1>0 DEF IInv, OrderInv, DataTypes, devVars
  <2>2. InOrder(head, devNext, delivered)' <=> InOrder(head', devNext, last)
    BY <1>0 DEF InOrder, Holds, devVars
  <2>3. ASSUME ~replayed' PROVE ~misordered' /\ InOrder(head', devNext, last)
    <3>1. ~replayed /\ ~aborted[head]
      BY <1>0, <2>3
    <3> QED BY <1>0, <3>1 DEF IInv, OrderInv
  <2> QED BY <2>1, <2>2, <2>3 DEF OrderInv
<1>4. PauseInv' /\ LeftoverInv'
  BY <1>0, NotAfterEmpty DEF IInv, PauseInv, LeftoverInv, subVars, pmVars
<1>5. FlushInv'
  BY <1>0, FlushFrame DEF IInv, devVars, pmVars
<1>6. ListenInv'
  <2>1. pm # "resumeSubmit"
    BY NotAfterEmpty
  <2>2. Owed = cnt /\ Owed' = cnt + n
    BY <1>0 DEF Owed
  <2>3. pm = "run" /\ ~deaf /\ ~flushLate => Lent' + Owed' >= Pending
    <3>1. pm = "run" /\ ~deaf /\ ~flushLate => Lent + cnt >= Pending
      BY <2>2 DEF IInv, ListenInv
    <3>2. (Lent - n) + (cnt + n) = Lent + cnt
      BY <1>t, Sizes
    <3> QED BY <2>2, <3>1, <3>2
  <2> QED BY <1>0, <2>1, <2>3 DEF IInv, ListenInv, FewerCompleted, devVars, pmVars
<1> QED BY <1>2, <1>3, <1>4, <1>5, <1>6 DEF IInv

\* The worker has a message only when the slot at the head is completed.
LEMMA HaveEventFacts ==
  ASSUME IInv, HaveEvent
  PROVE  /\ head # ctail /\ head \in Slots /\ devNext \in Slots /\ head # devNext
         /\ data[head] \in Nat
         /\ ~replayed /\ ~aborted[head] =>
               data[head] = delivered + 1 /\ InOrder(Succ(head), devNext, data[head])
<1>1. head # ctail
  BY DEF HaveEvent, IInv, PlaceInv
<1>2. head \in Slots /\ devNext \in Slots /\ head # devNext
  BY <1>1, RingFacts DEF IInv, RingInv, RingTypes
<1>3. DataTypes /\ delivered \in Nat /\ data[head] \in Nat
  BY <1>2 DEF IInv, OrderInv, DataTypes
<1> QED BY <1>1, <1>2, <1>3, FirstInOrder DEF IInv, OrderInv

LEMMA HandleFirmwareStep ==
  ASSUME IInv, ~raced, HandleFirmware
  PROVE  IInv'
<1>1. head' = Succ(head)
  BY HaveEventFacts DEF HandleFirmware, Take, Succ
<1>2. RingInv' /\ Lent' = Lent - 1 /\ \A s \in Slots : Completed(s)' => Completed(s)
  BY <1>1, HaveEventFacts, TakeOne DEF HandleFirmware, Take, IInv, devVars
<1>3. ahead' = (Succ(head) # ctail) /\ ahead' \in BOOLEAN
  BY DEF HandleFirmware
<1>4. ~replayed /\ ~aborted[head] => data[head] = delivered + 1 /\ InOrder(head', devNext, data[head])
  BY <1>1, HaveEventFacts DEF HandleFirmware
<1>5. head # ctail /\ data[head] \in Nat
  BY HaveEventFacts DEF HandleFirmware
<1>6. FewerCompleted
  BY <1>2 DEF FewerCompleted
<1>7. FirmwareTurn /\ Take(1, data[head])
  BY DEF HandleFirmware
<1>8. ahead' => head' # ctail
  BY <1>1, <1>3
<1>9. 1 \in Nat \ {0}
  OBVIOUS
<1> QED BY <1>2, <1>3, <1>4, <1>5, <1>6, <1>7, <1>8, <1>9, TakeStep

LEMMA CancelStep ==
  ASSUME IInv, ~raced, Cancel
  PROVE  IInv'
<1> DEFINE next == Succ(head)
<1>1. /\ head # ctail /\ head \in Slots /\ devNext \in Slots /\ head # devNext /\ data[head] \in Nat
      /\ next # ctail /\ ~aborted[next] /\ data[next] = data[head] + 1
      /\ ~replayed /\ ~aborted[head] =>
               data[head] = delivered + 1 /\ InOrder(next, devNext, data[head])
  BY HaveEventFacts DEF Cancel, Cancelled
<1>2. head' = Succ(next)
  <2>1. head' = (head + 2) % ElCount
    BY DEF Cancel, Take
  <2>2. CASE head = ElCount - 1
    <3>1. head + 2 = ElCount + 1 /\ next = 0
      BY <1>1, <2>2, Sizes, SuccValue DEF Slots
    <3> QED BY <2>1, <3>1, Sizes DEF Succ
  <2>3. CASE head # ElCount - 1
    <3>1. next = head + 1
      BY <1>1, <2>3, SuccValue
    <3> HIDE DEF next
    <3>2. next + 1 = head + 2
      BY <1>1, <3>1, Sizes DEF Slots
    <3> QED BY <2>1, <3>2 DEF Succ
  <2> QED BY <2>2, <2>3
<1>u. UNCHANGED <<tail, ctail, doorbell, devNext>> /\ available' = available + 2 /\ ahead' = FALSE
  BY DEF Cancel, Take, devVars
<1>3. /\ next \in Slots /\ RingOrder(next, ctail, devNext, doorbell, tail)
      /\ Dist(next, tail) = Dist(head, tail) - 1
  BY <1>1, RingMoves DEF IInv, RingInv, RingTypes
<1>4. /\ Succ(next) \in Slots /\ RingOrder(Succ(next), ctail, devNext, doorbell, tail)
      /\ Dist(Succ(next), tail) = Dist(next, tail) - 1 /\ next # devNext
  BY <1>1, <1>3, RingMoves DEF IInv, RingInv, RingTypes
<1> HIDE DEF next
<1>5. Lent' = Lent - 2
  <2>1. Dist(head, tail) \in Nat
    BY RingFacts, Sizes DEF IInv, Lent
  <2> QED BY <1>2, <1>3, <1>4, <1>u, <2>1 DEF Lent
<1>6. RingInv'
  BY <1>2, <1>4, <1>5, <1>u, RingFacts, Sizes DEF IInv, RingInv, RingTypes, RingOrder
<1>7. \A s \in Slots : Completed(s)' => Completed(s)
  <2>1. \A s \in Slots : Dist(Succ(next), s) < Dist(Succ(next), devNext) => Dist(next, s) < Dist(next, devNext)
    BY <1>1, <1>3, <1>4, HeadMoves
  <2>2. \A s \in Slots : Dist(next, s) < Dist(next, devNext) => Dist(head, s) < Dist(head, devNext)
    BY <1>1, HeadMoves DEF next
  <2> QED BY <1>2, <1>u, <2>1, <2>2 DEF Completed
<1>8. ~replayed /\ ~aborted[head] => data[head] = delivered + 1 /\ InOrder(head', devNext, data[head] + 1)
  <2>1. DataTypes
    BY DEF IInv, OrderInv
  <2> QED BY <1>1, <1>2, <1>3, <1>4, <2>1, FirstInOrder
<1>9. Take(2, data[head] + 1) /\ FirmwareTurn
  BY DEF Cancel
<1>10. 2 \in Nat \ {0} /\ data[head] + 1 \in Nat
  BY <1>1
<1>12. ahead' \in BOOLEAN /\ (ahead' => head' # ctail)
  BY <1>u
<1>11. FewerCompleted
  BY <1>7 DEF FewerCompleted
<1> QED BY <1>1, <1>5, <1>6, <1>8, <1>9, <1>10, <1>11, <1>12, TakeStep

-----------------------------------------------------------------------------
(* bce_vhci_event_queue_pause and _resume.                                 *)

LEMMA PauseStartStep ==
  ASSUME IInv, ~raced, PauseStart
  PROVE  IInv'
<1>0. /\ pm = "run" /\ draining' = TRUE /\ flushNo' = flushNo + 1
      /\ flushes' = Append(flushes, flushNo + 1) /\ pm' = "pauseFlush"
      /\ caught' = (sub["irq"] /\ cnt > 0) /\ leftover' = FALSE /\ timedOut' = FALSE
      /\ UNCHANGED <<ringVars, devNext, data, aborted, flushed, produced, cancels, subVars,
                     handlerVars, deaf, flushLate, raced>>
  BY DEF PauseStart
<1>1. RingInv' /\ Lent' = Lent
  BY <1>0, RingFrame DEF IInv
<1>2. PlaceInv'
  <2>1. caught' \in BOOLEAN /\ leftover' \in BOOLEAN
    BY <1>0
  <2>2. ThreadTypes'
    BY <1>0, <2>1 DEF IInv, PlaceInv, ThreadTypes, Draining, subVars, handlerVars, workVars
  <2> QED BY <1>0, <2>1, <2>2 DEF IInv, PlaceInv, Draining, ringVars, subVars, handlerVars, workVars
<1>3. OrderInv'
  BY <1>0, OrderFrame DEF IInv, ringVars, handlerVars, workVars
<1>4. PauseInv'
  <2>1. ASSUME ~caught', sub["irq"] PROVE todo["irq"] = 0
    <3>1. cnt \in Nat /\ todo["irq"] \in Nat /\ todo["irq"] <= cnt
      BY <2>1 DEF IInv, PlaceInv, ThreadTypes, Threads
    <3>2. ~(cnt > 0)
      BY <1>0, <2>1
    <3> QED BY <3>1, <3>2
  <2> QED BY <1>0, <2>1 DEF PauseInv, subVars
<1>5. LeftoverInv'
  BY <1>0 DEF LeftoverInv
<1>6. FlushInv'
  BY <1>0, FlushIssued DEF IInv
<1>7. ListenInv'
  BY <1>0 DEF ListenInv
<1> QED BY <1>1, <1>2, <1>3, <1>4, <1>5, <1>6, <1>7 DEF IInv

\* Steps that only move the pausing thread on within its pause or resume.
LEMMA PmMoves ==
  ASSUME IInv, ~raced, UNCHANGED <<ringVars, devVars, subVars, handlerVars, draining, flushNo, raced>>,
         pm # "run", pm' # "run", pm # "resumeSubmit", pm' # "resumeSubmit",
         pm \in Draining <=> pm' \in Draining, pm' \in Draining \cup Resuming,
         caught' \in BOOLEAN, timedOut' \in BOOLEAN, leftover' \in BOOLEAN, flushLate' \in BOOLEAN,
         deaf' \in BOOLEAN,
         caught => caught',
         flushLate' \/ (~flushLate /\ pm \notin {"pauseFlush", "resumeFlush"}),
         pm' = "paused" /\ ~timedOut' /\ ~caught' => Lent = 0 /\ (kind = "firmware" /\ irqPc # "idle" => cnt = 0),
         ~leftover' => /\ pm' \notin {"resumeFlush", "resumeSleep"}
                       /\ pm' \in {"paused", "resumeCheck"} => Lent = 0 /\ ~queued /\ irqPc \in {"idle", "check"}
  PROVE  IInv'
<1>1. RingInv' /\ Lent' = Lent
  BY RingFrame DEF IInv, devVars
<1>2. PlaceInv'
  <2>1. ThreadTypes'
    BY DEF IInv, PlaceInv, ThreadTypes, Draining, subVars, handlerVars, workVars
  <2> QED BY <2>1 DEF IInv, PlaceInv, ringVars, subVars, handlerVars, workVars
<1>3. OrderInv'
  BY OrderFrame DEF IInv, ringVars, devVars, handlerVars, workVars
<1>4. PauseInv'
  BY <1>1 DEF IInv, PauseInv, subVars, handlerVars, workVars
<1>5. LeftoverInv'
  BY <1>1 DEF IInv, LeftoverInv, handlerVars, workVars
<1>6. FlushInv'
  BY DEF IInv, FlushInv, devVars
<1>7. ListenInv'
  BY DEF ListenInv
<1> QED BY <1>1, <1>2, <1>3, <1>4, <1>5, <1>6, <1>7 DEF IInv

LEMMA FlushTimeoutStep ==
  ASSUME IInv, ~raced, FlushTimeout
  PROVE  IInv'
<1>0. /\ \/ pm = "pauseFlush" /\ pm' = "pauseWait"
         \/ pm = "resumeFlush" /\ pm' = "resumeSleep"
      /\ flushLate' = TRUE
      /\ UNCHANGED <<ringVars, devVars, subVars, handlerVars, draining, flushNo, cycles,
                     caught, timedOut, deaf, leftover, empty, raced>>
  BY DEF FlushTimeout
<1>1. /\ leftover \in BOOLEAN /\ caught \in BOOLEAN /\ timedOut \in BOOLEAN
      /\ deaf \in BOOLEAN
      /\ ~leftover => pm # "resumeFlush"
  BY <1>0 DEF IInv, PlaceInv, ThreadTypes, LeftoverInv
<1> QED BY <1>0, <1>1, PmMoves DEF Draining, Resuming

LEMMA PauseCheckStep ==
  ASSUME IInv, ~raced, PauseCheck
  PROVE  IInv'
<1>0. /\ pm = "pauseWait"
      /\ pm' = IF available = Capacity THEN "paused" ELSE "pauseSleep"
      /\ caught' = (caught \/ (kind = "firmware" /\ pm' = "paused" /\ irqPc # "idle" /\ cnt > 0))
      /\ leftover' = (pm' = "paused" /\ (queued \/ irqPc \in {"handle", "submit"}))
      /\ UNCHANGED <<flushLate, ringVars, devVars, subVars, handlerVars, draining, flushNo, cycles,
                     timedOut, deaf, empty, raced>>
  BY DEF PauseCheck
<1>1. /\ leftover \in BOOLEAN /\ caught \in BOOLEAN /\ timedOut \in BOOLEAN /\ kind \in {"event", "firmware"}
      /\ deaf \in BOOLEAN /\ flushLate \in BOOLEAN /\ cnt \in Nat
  BY DEF IInv, PlaceInv, ThreadTypes
<1>2. pm' = "paused" => Lent = 0
  BY <1>0, RingFacts DEF IInv
<1>3. caught' \in BOOLEAN /\ leftover' \in BOOLEAN
  BY <1>0
<1>5. pm' = "paused" /\ ~timedOut' /\ ~caught' => Lent = 0 /\ (kind = "firmware" /\ irqPc # "idle" => cnt = 0)
  <2>1. ~(cnt > 0) => cnt = 0
    BY <1>1
  <2> QED BY <1>0, <1>2, <2>1
<1>6. ~leftover' => /\ pm' \notin {"resumeFlush", "resumeSleep"}
                    /\ pm' \in {"paused", "resumeCheck"} => Lent = 0 /\ ~queued /\ irqPc \in {"idle", "check"}
  BY <1>0, <1>1, <1>2 DEF IInv, PlaceInv, ThreadTypes, Handling
<1>7. pm' \in Draining /\ pm \in Draining /\ pm' # "run" /\ pm' # "resumeSubmit"
  BY <1>0 DEF Draining
<1>8. caught => caught'
  BY <1>0
<1>9. flushLate' \/ (~flushLate /\ pm \notin {"pauseFlush", "resumeFlush"})
  BY <1>0, <1>1
<1> QED BY <1>0, <1>1, <1>3, <1>5, <1>6, <1>7, <1>8, <1>9, PmMoves

LEMMA PauseWakeStep ==
  ASSUME IInv, ~raced, PauseWake
  PROVE  IInv'
<1>0. /\ pm = "pauseSleep" /\ pm' = "pauseWait"
      /\ UNCHANGED <<flushLate, ringVars, devVars, subVars, handlerVars, draining, flushNo, cycles,
                     caught, timedOut, deaf, leftover, raced>>
  BY DEF PauseWake
<1>1. /\ leftover \in BOOLEAN /\ caught \in BOOLEAN /\ timedOut \in BOOLEAN
      /\ deaf \in BOOLEAN /\ flushLate \in BOOLEAN
  BY <1>0 DEF IInv, PlaceInv, ThreadTypes
<1> QED BY <1>0, <1>1, PmMoves DEF Draining, Resuming

LEMMA PauseTimeoutStep ==
  ASSUME IInv, ~raced, PauseTimeout
  PROVE  IInv'
<1>0. /\ pm = "pauseSleep" /\ pm' = "paused" /\ timedOut' = TRUE /\ leftover' = TRUE
      /\ UNCHANGED <<flushLate, ringVars, devVars, subVars, handlerVars, draining, flushNo, cycles,
                     caught, deaf, empty, raced>>
  BY DEF PauseTimeout
<1>1. /\ caught \in BOOLEAN /\ deaf \in BOOLEAN /\ flushLate \in BOOLEAN
  BY <1>0 DEF IInv, PlaceInv, ThreadTypes
<1> QED BY <1>0, <1>1, PmMoves DEF Draining, Resuming

LEMMA ResumeStartStep ==
  ASSUME IInv, ~raced, ResumeStart
  PROVE  IInv'
<1>0. /\ pm = "paused" /\ draining' = FALSE /\ pm' = "resumeCheck"
      /\ UNCHANGED <<flushLate, ringVars, devVars, subVars, handlerVars, flushNo, cycles, caught,
                     timedOut, deaf, leftover, empty, raced>>
  BY DEF ResumeStart
<1>1. RingInv' /\ Lent' = Lent
  BY <1>0, RingFrame DEF IInv, devVars
<1>2. PlaceInv'
  <2>1. ThreadTypes'
    BY <1>0 DEF IInv, PlaceInv, ThreadTypes, Resuming, subVars, handlerVars, workVars
  <2> QED BY <1>0, <2>1 DEF IInv, PlaceInv, Draining, ringVars, subVars, handlerVars, workVars
<1>3. OrderInv'
  BY <1>0, OrderFrame DEF IInv, ringVars, devVars, handlerVars, workVars
<1>4. PauseInv' /\ ListenInv'
  BY <1>0 DEF PauseInv, ListenInv
<1>5. LeftoverInv'
  BY <1>0, <1>1 DEF IInv, LeftoverInv, handlerVars, workVars
<1>6. FlushInv'
  BY <1>0, FlushFrame DEF IInv, devVars
<1> QED BY <1>1, <1>2, <1>3, <1>4, <1>5, <1>6 DEF IInv

\* The resume found the queue drained and begins to lend.
LEMMA ResumeLends ==
  ASSUME IInv, ~raced, pm \in {"resumeCheck", "resumeSleep"}, available = Capacity,
         pm' = "resumeSubmit", SubmitCall("pm", Pending),
         UNCHANGED <<flushNo, flushes, flushLate, ringVars, devNext, data, aborted, flushed, produced,
                     handlerVars, draining, caught, timedOut, deaf, leftover>>
  PROVE  IInv'
<1>1. RingInv' /\ Lent' = Lent /\ Lent = 0 /\ doorbell = head
  BY RingFrame, RingFacts DEF IInv
<1>t. sub \in [Threads -> BOOLEAN] /\ todo \in [Threads -> Nat] /\ ~draining /\ Pending \in Nat
  BY Sizes DEF IInv, PlaceInv, ThreadTypes, Draining
<1>s. /\ sub' = [sub EXCEPT !["pm"] = TRUE] /\ todo' = [todo EXCEPT !["pm"] = Pending]
      /\ raced' = sub["irq"] /\ raced' \in BOOLEAN
      /\ sub'["pm"] /\ sub'["irq"] = sub["irq"] /\ todo'["pm"] = Pending /\ todo'["irq"] = todo["irq"]
  BY <1>t DEF SubmitCall, Threads
<1>2. PlaceInv'
  <2>1. ThreadTypes'
    BY <1>s, <1>t DEF IInv, PlaceInv, ThreadTypes, Threads, Resuming, handlerVars, workVars
  <2> QED BY <1>s, <1>t, <2>1 DEF IInv, PlaceInv, Draining, ringVars, handlerVars, workVars
<1>3. OrderInv'
  BY OrderFrame DEF IInv, ringVars, handlerVars, workVars
<1>4. PauseInv'
  BY <1>t DEF PauseInv
<1>5. LeftoverInv'
  <2>1. ASSUME ~leftover PROVE ~queued /\ irqPc \in {"idle", "check"} /\ ~sub["irq"]
    BY <2>1 DEF IInv, LeftoverInv, PlaceInv
  <2> QED BY <1>s, <2>1 DEF LeftoverInv, handlerVars, workVars
<1>6. FlushInv'
  BY FlushFrame DEF IInv
<1>7. ListenInv'
  <2>1. Lent' + todo'["pm"] >= Pending
    BY <1>1, <1>s, Sizes
  <2> QED BY <1>1, <2>1 DEF ListenInv, ringVars
<1> QED BY <1>1, <1>2, <1>3, <1>4, <1>5, <1>6, <1>7 DEF IInv

LEMMA ResumeCheckStep ==
  ASSUME IInv, ~raced, ResumeCheck
  PROVE  IInv'
<1>1. CASE available = Capacity
  BY <1>1, ResumeLends DEF ResumeCheck
<1>2. CASE available # Capacity
  <2>0. /\ pm = "resumeCheck" /\ pm' = "resumeFlush" /\ flushNo' = flushNo + 1
        /\ flushes' = Append(flushes, flushNo + 1) /\ UNCHANGED <<sub, todo, raced>>
        /\ UNCHANGED <<flushLate, ringVars, devNext, data, aborted, flushed, produced, cancels, handlerVars,
                       draining, cycles, caught, timedOut, deaf, leftover, empty>>
    BY <1>2 DEF ResumeCheck
  <2>1. RingInv' /\ Lent' = Lent /\ Lent # 0
    BY <1>2, <2>0, RingFrame, RingFacts DEF IInv
  <2>2. PlaceInv'
    <3>1. ThreadTypes'
      BY <2>0 DEF IInv, PlaceInv, ThreadTypes, Resuming, handlerVars, workVars
    <3> QED BY <2>0, <3>1 DEF IInv, PlaceInv, Draining, ringVars, handlerVars, workVars
  <2>3. OrderInv'
    BY <2>0, OrderFrame DEF IInv, ringVars, handlerVars, workVars
  <2>4. PauseInv' /\ ListenInv'
    BY <2>0 DEF IInv, PlaceInv, Draining, PauseInv, ListenInv
  <2>5. LeftoverInv'
    BY <2>0, <2>1 DEF IInv, LeftoverInv
  <2>6. FlushInv'
    BY <2>0, FlushIssued DEF IInv
  <2> QED BY <2>1, <2>2, <2>3, <2>4, <2>5, <2>6 DEF IInv
<1> QED BY <1>1, <1>2

LEMMA ResumeRecheckStep ==
  ASSUME IInv, ~raced, ResumeRecheck
  PROVE  IInv'
<1>1. CASE available = Capacity
  BY <1>1, ResumeLends DEF ResumeRecheck, devVars
<1>2. CASE available # Capacity
  <2>0. /\ pm = "resumeSleep" /\ pm' = "run" /\ deaf' = TRUE /\ UNCHANGED <<sub, todo, raced>>
        /\ UNCHANGED <<flushLate, ringVars, devVars, handlerVars, draining, flushNo, cycles, caught,
                       timedOut, leftover, empty>>
    BY <1>2 DEF ResumeRecheck
  <2>1. RingInv' /\ Lent' = Lent
    BY <2>0, RingFrame DEF IInv, devVars
  <2>2. PlaceInv'
    <3>1. ThreadTypes'
      BY <2>0 DEF IInv, PlaceInv, ThreadTypes, handlerVars, workVars
    <3> QED BY <2>0, <3>1 DEF IInv, PlaceInv, Draining, ringVars, handlerVars, workVars
  <2>3. OrderInv'
    BY <2>0, OrderFrame DEF IInv, ringVars, devVars, handlerVars, workVars
  <2>4. PauseInv' /\ ListenInv'
    BY <2>0 DEF IInv, PlaceInv, Draining, PauseInv, ListenInv
  <2>5. LeftoverInv'
    BY <2>0 DEF IInv, LeftoverInv
  <2>6. FlushInv'
    BY <2>0, FlushFrame DEF IInv, devVars
  <2> QED BY <2>1, <2>2, <2>3, <2>4, <2>5, <2>6 DEF IInv
<1> QED BY <1>1, <1>2

-----------------------------------------------------------------------------
(* The device.                                                             *)

LEMMA DeviceEventStep ==
  ASSUME IInv, ~raced, DeviceEvent
  PROVE  IInv'
<1>0. /\ devNext # doorbell
      /\ data' = [data EXCEPT ![devNext] = produced + 1]
      /\ aborted' = [aborted EXCEPT ![devNext] = FALSE]
      /\ devNext' = Succ(devNext) /\ produced' = produced + 1
      /\ UNCHANGED <<flushes, flushed, ringVars, subVars, handlerVars, pmVars, empty, raced>>
  BY DEF DeviceEvent
<1>1. /\ head \in Slots /\ devNext \in Slots /\ doorbell \in Slots /\ Succ(devNext) \in Slots
      /\ Dist(head, Succ(devNext)) = Dist(head, devNext) + 1
      /\ Dist(head, devNext) < Dist(head, doorbell)
      /\ \A s \in Slots : Dist(head, s) \in 0..Capacity
  <2>1. head \in Slots /\ devNext \in Slots /\ doorbell \in Slots /\ Succ(devNext) \in Slots
    BY SuccValue DEF IInv, RingInv, RingTypes
  <2>2. \A s \in Slots : Dist(head, s) \in 0..Capacity
    BY <2>1, DistValue
  <2>3. Dist(head, devNext) # Dist(head, doorbell)
    BY <1>0, <2>1, DistOnce
  <2>4. Dist(head, devNext) < Dist(head, doorbell)
    BY <2>1, <2>2, <2>3, Sizes DEF IInv, RingInv, RingOrder
  <2>5. Dist(head, devNext) # Capacity
    BY <2>1, <2>2, <2>4, Sizes
  <2> QED BY <2>1, <2>2, <2>4, <2>5, DistNext
<1>2. RingInv' /\ Lent' = Lent
  <2>1. Dist(head, ctail) \in Int
    BY <1>1, Sizes DEF IInv, RingInv, RingTypes
  <2> QED BY <1>0, <1>1, <2>1, Sizes DEF IInv, RingInv, RingTypes, RingOrder, ringVars, Lent
<1>3. PlaceInv'
  <2>1. ThreadTypes'
    BY <1>0 DEF IInv, PlaceInv, ThreadTypes, subVars, handlerVars, workVars, pmVars
  <2> QED BY <1>0, <2>1 DEF IInv, PlaceInv, ringVars, subVars, handlerVars, workVars, pmVars
<1>t. /\ \A s \in Slots : data[s] \in Nat
      /\ produced \in Nat /\ delivered \in Nat
  BY DEF IInv, OrderInv, DataTypes
<1>d. /\ data'[devNext] = produced + 1 /\ ~aborted'[devNext]
      /\ \A s \in Slots : s # devNext => data'[s] = data[s] /\ aborted'[s] = aborted[s]
  BY <1>0, <1>1 DEF IInv, OrderInv, DataTypes
<1>c. \A s \in Slots : Completed(s)' <=> Completed(s) \/ s = devNext
  <2> SUFFICES ASSUME NEW s \in Slots PROVE Completed(s)' <=> Completed(s) \/ s = devNext
    OBVIOUS
  <2>1. Dist(head, s) = Dist(head, devNext) <=> s = devNext
    BY <1>1, DistOnce
  <2>2. Dist(head, s) < Dist(head, devNext) + 1 <=> Dist(head, s) < Dist(head, devNext) \/ Dist(head, s) = Dist(head, devNext)
    BY <1>1, Sizes
  <2> QED BY <1>0, <1>1, <2>1, <2>2 DEF Completed, ringVars
<1>n. ~Completed(devNext)
  BY <1>1, Sizes DEF Completed
<1>4. OrderInv'
  <2>1. DataTypes'
    BY <1>0, <1>1, <1>t DEF IInv, OrderInv, DataTypes, handlerVars
  <2>2. ASSUME ~replayed PROVE InOrder(head, devNext, delivered)'
    <3>h. \A s \in Slots : Holds(head, devNext, s)' <=> Holds(head, devNext, s) \/ s = devNext
      <4>1. \A s \in Slots : Holds(head, devNext, s) <=> Completed(s) /\ ~aborted[s]
        BY DEF Holds, Completed
      <4>2. \A s \in Slots : Holds(head, devNext, s)' <=> Completed(s)' /\ ~aborted'[s]
        BY DEF Holds, Completed
      <4> QED BY <1>c, <1>d, <1>n, <4>1, <4>2
    <3>o. InOrder(head, devNext, delivered)
      BY <2>2 DEF IInv, OrderInv
    <3>p. produced' = produced + 1 /\ delivered' = delivered /\ head' = head
      BY <1>0 DEF ringVars, handlerVars
    <3>n. delivered <= produced
      BY <3>o DEF InOrder
    <3>1. ASSUME NEW s \in Slots, Holds(head, devNext, s)'
          PROVE  delivered' < data'[s] /\ data'[s] <= produced'
      <4>1. CASE s = devNext
        BY <1>d, <1>t, <3>n, <3>p, <4>1
      <4>2. CASE s # devNext
        <5>1. delivered < data[s] /\ data[s] <= produced /\ data'[s] = data[s]
          BY <1>d, <3>1, <3>h, <3>o, <4>2 DEF InOrder
        <5> QED BY <5>1, <1>t, <3>p
      <4> QED BY <4>1, <4>2
    <3>2. ASSUME NEW s \in Slots, NEW t \in Slots, Holds(head, devNext, s)', Holds(head, devNext, t)',
                 Dist(head, s) < Dist(head, t)
          PROVE  data'[s] < data'[t]
      <4>1. CASE t = devNext
        <5>1. s # devNext /\ Holds(head, devNext, s)
          BY <1>1, <3>2, <3>h, <4>1, Sizes
        <5>2. data[s] <= produced /\ data'[s] = data[s]
          BY <1>d, <3>o, <5>1 DEF InOrder
        <5> QED BY <1>d, <1>t, <4>1, <5>2
      <4>2. CASE t # devNext
        <5>1. Holds(head, devNext, t) /\ Dist(head, t) < Dist(head, devNext)
          BY <3>2, <3>h, <4>2 DEF Holds
        <5>2. s # devNext
          BY <1>1, <3>2, <5>1, Sizes
        <5>3. Holds(head, devNext, s)
          BY <3>2, <3>h, <5>2
        <5> QED BY <1>d, <3>2, <3>o, <4>2, <5>1, <5>2, <5>3 DEF InOrder
      <4> QED BY <4>1, <4>2
    <3>3. ASSUME NEW e \in (delivered + 1)..(produced + 1)
          PROVE  \E s \in Slots : Holds(head, devNext, s)' /\ data'[s] = e
      <4>1. CASE e = produced + 1
        BY <1>1, <1>d, <3>h, <4>1
      <4>2. CASE e # produced + 1
        <5>1. e \in (delivered + 1)..produced
          BY <1>t, <4>2
        <5>2. PICK s \in Slots : Holds(head, devNext, s) /\ data[s] = e
          BY <3>o, <5>1 DEF InOrder
        <5>3. s # devNext
          BY <1>n, <5>2 DEF Holds, Completed
        <5> QED BY <1>d, <3>h, <5>2, <5>3
      <4> QED BY <4>1, <4>2
    <3>4. delivered' <= produced'
      BY <1>t, <3>n, <3>p
    <3> QED BY <3>1, <3>2, <3>3, <3>4, <3>p DEF InOrder
  <2> QED BY <1>0, <2>1, <2>2 DEF IInv, OrderInv, handlerVars, workVars
<1>5. PauseInv' /\ LeftoverInv'
  BY <1>0, <1>2 DEF IInv, PauseInv, LeftoverInv, subVars, handlerVars, workVars, pmVars
<1>6. FlushInv'
  BY <1>0, FlushFrame DEF IInv, pmVars
<1>7. ListenInv'
  <2>1. Owed' = Owed
    BY <1>0 DEF Owed, handlerVars, subVars
  <2>2. pm = "run" /\ ~deaf /\ ~flushLate => \A s \in Slots : Completed(s)' => ~aborted'[s]
    BY <1>c, <1>d DEF IInv, ListenInv
  <2> QED BY <1>0, <1>2, <2>1, <2>2 DEF IInv, ListenInv, ringVars, subVars, pmVars
<1> QED BY <1>2, <1>3, <1>4, <1>5, <1>6, <1>7 DEF IInv

\* A flush aborts what was not completed: none of the events is touched.
LEMMA DeviceFlushStep ==
  ASSUME IInv, ~raced, DeviceFlush
  PROVE  IInv'
<1>0. /\ flushes # <<>>
      /\ aborted' = [s \in Slots |-> aborted[s] \/ Dist(devNext, s) < Dist(devNext, doorbell)]
      /\ devNext' = doorbell
      /\ flushed' = flushed \cup {Head(flushes)} /\ flushes' = Tail(flushes)
      /\ UNCHANGED <<data, produced, cancels, ringVars, subVars, handlerVars, pmVars, empty, raced>>
  BY DEF DeviceFlush
<1>1. /\ head \in Slots /\ devNext \in Slots /\ doorbell \in Slots
      /\ Dist(head, devNext) <= Dist(head, doorbell)
      /\ \A s \in Slots : Dist(head, s) \in 0..Capacity
  BY DistValue DEF IInv, RingInv, RingTypes, RingOrder
<1>2. RingInv' /\ Lent' = Lent
  BY <1>0, <1>1, Sizes DEF IInv, RingInv, RingTypes, RingOrder, ringVars, Lent
<1>3. PlaceInv'
  <2>1. ThreadTypes'
    BY <1>0 DEF IInv, PlaceInv, ThreadTypes, subVars, handlerVars, workVars, pmVars
  <2> QED BY <1>0, <2>1 DEF IInv, PlaceInv, ringVars, subVars, handlerVars, workVars, pmVars
<1>h. \A s \in Slots : Holds(head, devNext, s)' <=> Holds(head, devNext, s)
  <2> SUFFICES ASSUME NEW s \in Slots PROVE Holds(head, devNext, s)' <=> Holds(head, devNext, s)
    OBVIOUS
  <2>1. Dist(devNext, s) < Dist(devNext, doorbell) <=>
            Dist(head, devNext) <= Dist(head, s) /\ Dist(head, s) < Dist(head, doorbell)
    BY <1>1, DistBetween
  <2>2. Dist(head, devNext) <= Dist(head, s) <=> ~(Dist(head, s) < Dist(head, devNext))
    BY <1>1, Sizes
  <2>3. Dist(head, s) < Dist(head, devNext) => Dist(head, s) < Dist(head, doorbell)
    BY <1>1, Sizes
  <2>4. Holds(head, devNext, s)' <=> Dist(head, s) < Dist(head, doorbell) /\ ~aborted'[s]
    BY <1>0 DEF Holds, ringVars
  <2>5. aborted'[s] <=> aborted[s] \/ Dist(devNext, s) < Dist(devNext, doorbell)
    BY <1>0
  <2> QED BY <2>1, <2>2, <2>3, <2>4, <2>5 DEF Holds
<1>4. OrderInv'
  <2>1. DataTypes'
    <3>1. aborted' \in [Slots -> BOOLEAN]
      BY <1>0
    <3> QED BY <1>0, <3>1 DEF IInv, OrderInv, DataTypes, handlerVars
  <2>2. InOrder(head, devNext, delivered) => InOrder(head, devNext, delivered)'
    BY <1>0, <1>h DEF InOrder, ringVars, handlerVars
  <2> QED BY <1>0, <2>1, <2>2 DEF IInv, OrderInv, handlerVars, workVars
<1>5. PauseInv' /\ LeftoverInv'
  BY <1>0, <1>2 DEF IInv, PauseInv, LeftoverInv, subVars, handlerVars, workVars, pmVars
<1>6. FlushInv'
  <2>0. flushes \in Seq(Nat) /\ flushed \in SUBSET Nat /\ flushNo \in Nat
    BY DEF IInv, FlushInv
  <2>h. Head(flushes) \in Nat /\ Tail(flushes) \in Seq(Nat)
    BY <1>0, <2>0
  <2>1. flushes' \in Seq(Nat) /\ flushed' \in SUBSET Nat /\ flushNo' \in Nat
    <3>1. flushNo' = flushNo
      BY <1>0 DEF pmVars
    <3> QED BY <1>0, <2>0, <2>h, <3>1
  <2>2. ASSUME ~flushLate PROVE /\ pm \in {"pauseFlush", "resumeFlush"}
                                /\ flushes' = <<>> /\ flushed' = {flushNo}
    <3>1. pm \in {"pauseFlush", "resumeFlush"} /\ flushes = <<flushNo>> /\ flushed = {}
      BY <1>0, <2>2 DEF IInv, FlushInv
    <3>2. Head(<<flushNo>>) = flushNo /\ Tail(<<flushNo>>) = <<>>
      OBVIOUS
    <3> QED BY <1>0, <3>1, <3>2
  <2> QED BY <1>0, <2>1, <2>2 DEF FlushInv, pmVars
<1>7. ListenInv'
  <2>1. Owed' = Owed
    BY <1>0 DEF Owed, handlerVars, subVars
  <2>2. ~(pm = "run" /\ ~deaf /\ ~flushLate)
    BY <1>0 DEF IInv, FlushInv
  <2> QED BY <1>0, <1>2, <2>1, <2>2 DEF IInv, ListenInv, ringVars, subVars, pmVars
<1> QED BY <1>2, <1>3, <1>4, <1>5, <1>6, <1>7 DEF IInv

-----------------------------------------------------------------------------
(* The specification.                                                      *)

LEMMA InitIInv == Init => IInv
<1> SUFFICES ASSUME Init PROVE IInv
  OBVIOUS
<1>0. /\ kind \in {"event", "firmware"} /\ ~queued /\ ~ahead /\ ~replayed
      /\ available = Capacity - Pending
      /\ head = 0 /\ tail = Pending /\ ctail = 0 /\ doorbell = Pending /\ devNext = 0
      /\ data = [s \in Slots |-> 0] /\ aborted = [s \in Slots |-> FALSE]
      /\ ~draining /\ irqPc = "idle" /\ cnt = 0 /\ pm = "run"
      /\ sub = [t \in Threads |-> FALSE] /\ todo = [t \in Threads |-> 0]
      /\ flushes = <<>> /\ flushed = {} /\ flushNo = 0
      /\ produced = 0 /\ delivered = 0 /\ ~misordered
      /\ ~caught /\ ~timedOut /\ ~deaf /\ ~flushLate /\ ~leftover /\ ~raced
  BY DEF Init
<1>1. /\ 0 \in Slots /\ Pending \in Slots
      /\ Dist(0, 0) = 0 /\ Dist(0, Pending) = Pending
  BY Sizes DEF Slots, Dist
<1>2. RingInv /\ Lent = Pending
  BY <1>0, <1>1, Sizes DEF RingInv, RingTypes, RingOrder, Lent
<1>3. PlaceInv
  <2>1. /\ queued \in BOOLEAN /\ ahead \in BOOLEAN /\ draining \in BOOLEAN
        /\ raced \in BOOLEAN /\ caught \in BOOLEAN
        /\ timedOut \in BOOLEAN /\ deaf \in BOOLEAN /\ flushLate \in BOOLEAN
        /\ leftover \in BOOLEAN /\ replayed \in BOOLEAN /\ misordered \in BOOLEAN
    BY DEF Init
  <2>2. sub \in [Threads -> BOOLEAN] /\ todo \in [Threads -> Nat] /\ ~sub["irq"] /\ ~sub["pm"]
    BY <1>0 DEF Threads
  <2>3. ThreadTypes
    BY <1>0, <2>1, <2>2 DEF ThreadTypes, Handling
  <2> QED BY <1>0, <2>2, <2>3 DEF PlaceInv, Draining
<1>4. \A s \in Slots : ~Completed(s) /\ ~Holds(0, 0, s)
  BY <1>0, <1>1, DistValue, Sizes DEF Completed, Holds
<1>5. OrderInv
  <2>1. DataTypes
    BY <1>0 DEF DataTypes
  <2>2. InOrder(0, 0, 0)
    BY <1>0, <1>4 DEF InOrder
  <2> QED BY <1>0, <2>1, <2>2 DEF OrderInv
<1>6. PauseInv /\ LeftoverInv
  BY <1>0 DEF PauseInv, LeftoverInv
<1>7. FlushInv
  BY <1>0 DEF FlushInv
<1>8. ListenInv
  <2>1. Owed = 0
    BY <1>0 DEF Owed
  <2> QED BY <1>0, <1>2, <1>4, <2>1, Sizes DEF ListenInv
<1> QED BY <1>2, <1>3, <1>5, <1>6, <1>7, <1>8 DEF IInv

LEMMA StutterStep ==
  ASSUME IInv, UNCHANGED vars
  PROVE  IInv'
<1>0. UNCHANGED <<ringVars, devVars, subVars, handlerVars, pmVars, empty, raced>>
  BY DEF vars
<1>1. RingInv' /\ Lent' = Lent
  BY <1>0 DEF IInv, RingInv, RingTypes, RingOrder, Lent, ringVars, devVars
<1>2. PlaceInv'
  <2>1. ThreadTypes'
    BY <1>0 DEF IInv, PlaceInv, ThreadTypes, subVars, handlerVars, workVars, pmVars
  <2> QED BY <1>0, <2>1 DEF IInv, PlaceInv, ringVars, subVars, handlerVars, workVars, pmVars
<1>3. OrderInv'
  BY <1>0 DEF IInv, OrderInv, DataTypes, InOrder, Holds, ringVars, devVars, handlerVars, workVars
<1>4. PauseInv' /\ LeftoverInv'
  BY <1>0, <1>1 DEF IInv, PauseInv, LeftoverInv, subVars, handlerVars, workVars, pmVars
<1>5. FlushInv'
  BY <1>0 DEF IInv, FlushInv, devVars, pmVars
<1>6. ListenInv'
  <2>1. Owed' = Owed
    BY <1>0 DEF Owed, handlerVars, subVars
  <2>2. \A s \in Slots : Completed(s)' <=> Completed(s)
    BY <1>0 DEF Completed, ringVars, devVars
  <2> QED BY <1>0, <1>1, <2>1, <2>2 DEF IInv, ListenInv, ringVars, devVars, subVars, pmVars
<1> QED BY <1>1, <1>2, <1>3, <1>4, <1>5, <1>6 DEF IInv

LEMMA NextIInv == IInv /\ [Next]_vars => IInv'
<1> SUFFICES ASSUME IInv, [Next]_vars PROVE IInv'
  OBVIOUS
<1>1. CASE ~raced /\ IrqThread
  <2>1. \/ IrqStart \/ HandleCompletion \/ ReadDraining \/ SubmitOne("irq")
        \/ SubmitRing("irq") \/ CheckEmpty
    BY <1>1 DEF IrqThread, Submit
  <2>2. "irq" \in Threads
    BY DEF Threads
  <2> QED BY <1>1, <2>1, <2>2, IrqStartStep, HandleCompletionStep, ReadDrainingStep,
             SubmitOneStep, SubmitRingStep, CheckEmptyStep
<1>2. CASE ~raced /\ Worker
  BY <1>2, WorkStartStep, SkipAbortedStep, CancelStep, HandleFirmwareStep, WorkSubmitStep DEF Worker
<1>3. CASE ~raced /\ Pm
  <2>1. \/ FlushTimeout \/ PauseCheck \/ PauseWake \/ PauseTimeout \/ ResumeCheck
        \/ ResumeRecheck \/ SubmitOne("pm") \/ SubmitRing("pm")
    BY <1>3 DEF Pm, Submit
  <2>2. "pm" \in Threads
    BY DEF Threads
  <2> QED BY <1>3, <2>1, <2>2, FlushTimeoutStep, PauseCheckStep, PauseWakeStep,
             PauseTimeoutStep, ResumeCheckStep, ResumeRecheckStep, SubmitOneStep, SubmitRingStep
<1>4. CASE ~raced /\ (PauseStart \/ ResumeStart \/ DeviceEvent \/ DeviceFlush)
  BY <1>4, PauseStartStep, ResumeStartStep, DeviceEventStep, DeviceFlushStep
<1>5. CASE UNCHANGED vars
  BY <1>5, StutterStep
<1> QED BY <1>1, <1>2, <1>3, <1>4, <1>5 DEF Next, Rest

LEMMA Inductive == Spec => []IInv
  BY InitIInv, NextIInv, PTL DEF Spec

\* Every event the T2 sent is handled or cancelled once and in order, for a queue of
\* any size, any number of events and any number of pauses, flushes, timeouts and
\* resumes, unless the firmware worker has taken an aborted buffer for an event. The
\* completions not yet consumed hold exactly the events from the one after the last
\* delivered to the last produced.
THEOREM EventOrder == Spec => []EventsInOrder
<1>1. IInv => EventsInOrder
  BY DEF IInv, OrderInv, EventsInOrder
<1> QED BY <1>1, Inductive, PTL

\* bce_vhci_event_queue_pause returns with no buffer lent, and none is lent before the
\* resume, unless it timed out or caught the handler between its read of draining and
\* its doorbell.
THEOREM PausedIsQuiet == Spec => []QuietWhenPaused
<1>1. IInv => QuietWhenPaused
  BY DEF IInv, PauseInv, QuietWhenPaused
<1> QED BY <1>1, Inductive, PTL

\* A queue that runs and whose handler is idle has at least Pending buffers with the
\* T2: what a pass consumes it lends again, and a resume lends all of them, for any
\* interleaving of handler, pause and flush.
THEOREM Listening == Spec => []KeepsListening
<1>1. ASSUME IInv, pm = "run", irqPc = "idle", ~deaf, ~flushLate
      PROVE  Lent >= Pending
  <2>1. Owed = 0
    BY <1>1 DEF Owed
  <2>2. Lent \in Nat /\ Pending \in Nat
    BY DistValue, Sizes, <1>1 DEF IInv, RingInv, RingTypes, Lent
  <2> QED BY <1>1, <2>1, <2>2 DEF IInv, ListenInv
<1>2. IInv => KeepsListening
  BY <1>1 DEF KeepsListening
<1> QED BY <1>2, Inductive, PTL

\* The interrupt thread and the resuming thread are never both in
\* bce_vhci_event_queue_submit_pending after a pause that ended in time and with the
\* handler past its lending: until the resume rings the doorbell the T2 has no buffer
\* to complete, so nothing starts the handler, whatever earlier pauses left behind.
THEOREM RaceCause == Spec => []RaceNeedsLeftover
<1>1. IInv => RaceNeedsLeftover
  BY DEF IInv, LeftoverInv, RaceNeedsLeftover
<1> QED BY <1>1, Inductive, PTL

=============================================================================
