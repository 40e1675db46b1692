----------------------- MODULE SubmissionQueue_proofs -----------------------
(***************************************************************************)
(* Proofs about SubmissionQueue, for every number and size of the queues.  *)
(***************************************************************************)
EXTENDS SubmissionQueue, TLAPS

-----------------------------------------------------------------------------
(* Ring arithmetic.                                                        *)

\* The index after i, as bce_next_submission and its kin compute it, without
\* the remainder.
LEMMA SuccValue ==
    ASSUME NEW n \in Nat \ {0, 1}, NEW i \in 0..(n - 1)
    PROVE  /\ Succ(i, n) = IF i = n - 1 THEN 0 ELSE i + 1
           /\ Succ(i, n) \in 0..(n - 1)
           /\ Succ(i, n) # i
<1>1. CASE i = n - 1
  BY <1>1 DEF Succ
<1>2. CASE i # n - 1
  BY <1>2 DEF Succ
<1> QED BY <1>1, <1>2

\* A distance on the ring is less than its size, and 0 between equals.
LEMMA DistValue ==
    ASSUME NEW n \in Nat \ {0, 1}, NEW a \in 0..(n - 1), NEW b \in 0..(n - 1)
    PROVE  /\ Dist(a, b, n) \in 0..(n - 1)
           /\ Dist(a, b, n) = 0 <=> a = b
  BY DEF Dist

\* A distance on the ring is an integer.
LEMMA DistInt ==
    ASSUME NEW n \in Nat \ {0, 1}, NEW a \in 0..(n - 1), NEW b \in 0..(n - 1)
    PROVE  Dist(a, b, n) \in Int
  BY DEF Dist

\* Moving the far end one step adds one, unless it meets the near end;
\* moving the near end one step takes one away.
LEMMA DistSucc ==
    ASSUME NEW n \in Nat \ {0, 1}, NEW a \in 0..(n - 1), NEW b \in 0..(n - 1)
    PROVE  /\ Dist(a, Succ(b, n), n) = IF Succ(b, n) = a THEN 0 ELSE Dist(a, b, n) + 1
           /\ Succ(b, n) = a <=> Dist(a, b, n) = n - 1
           /\ a # b => Dist(Succ(a, n), b, n) = Dist(a, b, n) - 1
           /\ Dist(Succ(a, n), a, n) = n - 1
<1>1. Succ(b, n) = IF b = n - 1 THEN 0 ELSE b + 1
  BY SuccValue
<1>2. Succ(a, n) = IF a = n - 1 THEN 0 ELSE a + 1
  BY SuccValue
<1>3. /\ Dist(a, Succ(b, n), n) = IF Succ(b, n) = a THEN 0 ELSE Dist(a, b, n) + 1
      /\ Succ(b, n) = a <=> Dist(a, b, n) = n - 1
  BY <1>1 DEF Dist
<1>4. /\ a # b => Dist(Succ(a, n), b, n) = Dist(a, b, n) - 1
      /\ Dist(Succ(a, n), a, n) = n - 1
  BY <1>2 DEF Dist
<1> QED BY <1>3, <1>4

\* Distances along the ring add up.
LEMMA DistSplit ==
    ASSUME NEW n \in Nat \ {0, 1}, NEW a \in 0..(n - 1), NEW b \in 0..(n - 1),
           NEW c \in 0..(n - 1)
    PROVE  /\ Dist(a, b, n) <= Dist(a, c, n)
                => Dist(b, c, n) = Dist(a, c, n) - Dist(a, b, n)
           /\ Dist(a, b, n) = Dist(a, c, n) => b = c
  BY DEF Dist

-----------------------------------------------------------------------------
(* The inductive invariant.                                                *)

\* RingOrder and ResultMatchesRequest hold only as long as the device's
\* completions reach the driver in order and unchanged; that is what the
\* parts about the CQs say.
IInv ==
    /\ TypeOK
    /\ SlotAccounting
    /\ RingOrder
    /\ ResultMatchesRequest
    /\ CqWindow
    /\ CqContents
    /\ CqSorted
    /\ CqComplete
    /\ IrqPosition

\* Every ring has at least two elements.
LEMMA Sizes ==
    /\ \A q \in SQs : ElCount[q] \in Nat \ {0, 1} /\ CqOf[q] \in CQs
    /\ \A c \in CQs : CqElCount[c] \in Nat \ {0, 1}
  BY QueueAssumption

\* bce_alloc_sq and bce_alloc_cq establish the invariant.
LEMMA InitIInv == Init => IInv
<1> SUFFICES ASSUME Init PROVE IInv
  OBVIOUS
<1>0. R0 \in Requests
  BY QueueAssumption DEF R0
<1>e. EmptyElement \in Element
  BY <1>0 DEF EmptyElement, Element
<1>1. TypeOK
  <2>1. SqTypeOK
    BY Sizes DEF Init, SqTypeOK
  <2>2. DataTypeOK
    BY <1>0 DEF Init, DataTypeOK
  <2>3. CqTypeOK
    BY <1>e, Sizes DEF Init, CqTypeOK
  <2>4. IrqTypeOK
    <3>1. /\ hasPending \in [SQs -> BOOLEAN]
          /\ queued \in [SQs -> BOOLEAN] /\ running \in [SQs -> BOOLEAN]
      BY Zenon DEF Init
    <3>2. irqCq \in 1..(CQCount + 1) /\ irqSq \in Nat \ {0} /\ faults \in Nat
      BY QueueAssumption DEF Init
    <3>3. intSqList \in Seq(SQs)
      BY DEF Init
    <3> QED BY <3>1, <3>2, <3>3 DEF Init, IrqTypeOK
  <2> QED BY <2>1, <2>2, <2>3, <2>4 DEF TypeOK
<1>2. SlotAccounting
  <2> SUFFICES ASSUME NEW q \in SQs
               PROVE  available[q] + reserved[q] + Dist(head[q], tail[q], ElCount[q])
                         = ElCount[q] - 1
    BY DEF SlotAccounting
  <2>1. available[q] = ElCount[q] - 1 /\ reserved[q] = 0 /\ head[q] = 0 /\ tail[q] = 0
    BY DEF Init
  <2> QED BY <2>1, Sizes DEF Dist
<1>3. RingOrder /\ ResultMatchesRequest
  BY DEF Init, RingOrder, ResultMatchesRequest, Dist
<1>4. CqWindow /\ CqContents /\ CqSorted
  <2>1. \A c \in CQs : \A p \in CqSlots(c) : ~cq[c][p].flags
    BY DEF Init, EmptyElement
  <2>2. CqWindow
    BY <2>1, Sizes DEF Init, CqWindow, Dist, CqSlots
  <2> QED BY <2>1, <2>2 DEF CqContents, CqSorted
<1>5. CqComplete
  BY Sizes DEF Init, CqComplete, Dist, Slots
<1>6. IrqPosition
  BY DEF Init, IrqPosition
<1> QED BY <1>1, <1>2, <1>3, <1>4, <1>5, <1>6 DEF IInv

-----------------------------------------------------------------------------
(* What a step does not touch, it preserves.                               *)

\* The part of the invariant about the CQs.
CqInv == CqWindow /\ CqContents /\ CqSorted /\ CqComplete

\* The CQs stay in order when neither they nor the positions that give their
\* elements a meaning change.
LEMMA CqFrame ==
    ASSUME CqInv, UNCHANGED <<cq, cqIndex, cqDoorbell, cqDev, ctail, devNext, sqData>>
    PROVE  CqInv'
<1>1. CqWindow'
  BY DEF CqInv, CqWindow
<1>2. CqContents'
  BY DEF CqInv, CqContents, From, Upto
<1>3. CqSorted'
  BY DEF CqInv, CqSorted, From, Upto
<1>4. CqComplete'
  BY DEF CqInv, CqComplete
<1> QED BY <1>1, <1>2, <1>3, <1>4 DEF CqInv

\* The interrupt thread's position keeps its meaning.
LEMMA IrqFrame ==
    ASSUME IrqPosition,
           UNCHANGED <<irqPc, irqCq, irqSq, intSqList, cq, cqIndex, ctail, cmplData>>
    PROVE  IrqPosition'
  BY DEF IrqPosition, Polled

\* The ring order depends on the six positions only.
LEMMA RingFrame ==
    ASSUME RingOrder, UNCHANGED <<head, cidx, ctail, devNext, doorbell, tail>>
    PROVE  RingOrder'
  BY DEF RingOrder

\* What completion callbacks read depends on the published interval and the
\* two data rings.
LEMMA ResultFrame ==
    ASSUME ResultMatchesRequest, UNCHANGED <<head, ctail, cmplData, sqData>>
    PROVE  ResultMatchesRequest'
  BY DEF ResultMatchesRequest

\* The slot account depends on two counters and two positions.
LEMMA SlotFrame ==
    ASSUME SlotAccounting, UNCHANGED <<available, reserved, head, tail>>
    PROVE  SlotAccounting'
  BY DEF SlotAccounting

-----------------------------------------------------------------------------
(* Submitters.                                                             *)

\* The steps of bce_reserve_submission and the cancellation move slots
\* between `available' and `reserved' and touch nothing else.
LEMMA ReservationStep ==
    ASSUME IInv, NEW q \in SQs,
           \/ ReserveSubmission(q) \/ WaitForSlot(q) \/ RetryReservation(q)
           \/ WaitTimeout(q) \/ CancelReservation(q)
    PROVE  IInv'
<1> USE DEF ReserveSubmission, WaitForSlot, RetryReservation, WaitTimeout,
            CancelReservation
<1>0. /\ UNCHANGED <<tail, sqData, doorbell>>
      /\ UNCHANGED <<consVars, harvestVars, devVars, cq, cqIndex, cqDoorbell,
                     irqRaised, irqVars, workVars>>
  OBVIOUS
<1>1. SqTypeOK'
  <2>1. available' \in [SQs -> Nat] /\ reserved' \in [SQs -> Nat]
    BY DEF IInv, TypeOK, SqTypeOK
  <2>2. sleeping' \in [SQs -> Nat] /\ awake' \in [SQs -> Nat]
    BY DEF IInv, TypeOK, SqTypeOK
  <2> QED BY <1>0, <2>1, <2>2 DEF IInv, TypeOK, SqTypeOK, consVars, harvestVars, devVars
<1>2. SlotAccounting'
  <2>1. /\ available' \in [SQs -> Nat] /\ reserved' \in [SQs -> Nat]
        /\ \A x \in SQs : available'[x] + reserved'[x] = available[x] + reserved[x]
    BY DEF IInv, TypeOK, SqTypeOK
  <2>2. \A x \in SQs : Dist(head[x], tail[x], ElCount[x]) \in Int
    BY Sizes DEF IInv, TypeOK, SqTypeOK, Dist
  <2> QED BY <1>0, <2>1, <2>2, Sizes DEF IInv, TypeOK, SqTypeOK, SlotAccounting, consVars
<1>3. DataTypeOK' /\ CqTypeOK' /\ IrqTypeOK'
  BY <1>0 DEF IInv, TypeOK, DataTypeOK, CqTypeOK, IrqTypeOK, harvestVars, devVars,
              irqVars, workVars
<1>4. RingOrder' /\ ResultMatchesRequest'
  BY <1>0, RingFrame, ResultFrame DEF IInv, consVars, harvestVars, devVars
<1>5. CqInv' /\ IrqPosition'
  BY <1>0, CqFrame, IrqFrame DEF IInv, CqInv, harvestVars, devVars, irqVars
<1> QED BY <1>1, <1>2, <1>3, <1>4, <1>5 DEF IInv, TypeOK, CqInv

\* bce_next_submission: the slot at the tail is not in flight, so writing it
\* disturbs no request the device or a callback still needs.
LEMMA NextSubmissionStep ==
    ASSUME IInv, NEW q \in SQs, NEW r \in Requests, NextSubmission(q, r)
    PROVE  IInv'
<1> USE DEF NextSubmission
<1>0. /\ UNCHANGED <<available, sleeping, awake, doorbell>>
      /\ UNCHANGED <<consVars, harvestVars, devVars, cq, cqIndex, cqDoorbell,
                     irqRaised, irqVars, workVars>>
  OBVIOUS
<1>n. ElCount[q] \in Nat \ {0, 1}
  BY Sizes
<1>i. /\ head[q] \in 0..(ElCount[q] - 1) /\ tail[q] \in 0..(ElCount[q] - 1)
      /\ cidx[q] \in 0..(ElCount[q] - 1) /\ ctail[q] \in 0..(ElCount[q] - 1)
      /\ doorbell[q] \in 0..(ElCount[q] - 1) /\ devNext[q] \in 0..(ElCount[q] - 1)
  BY <1>n DEF IInv, TypeOK, SqTypeOK
<1>t. /\ tail' = [tail EXCEPT ![q] = Succ(tail[q], ElCount[q])]
      /\ Succ(tail[q], ElCount[q]) \in 0..(ElCount[q] - 1)
      /\ tail'[q] = Succ(tail[q], ElCount[q])
      /\ \A x \in SQs : x # q => tail'[x] = tail[x]
  BY <1>n, <1>i, SuccValue DEF IInv, TypeOK, SqTypeOK
<1>r. /\ reserved[q] \in Nat /\ reserved[q] > 0 /\ available[q] \in Nat
      /\ reserved' \in [SQs -> Nat]
      /\ reserved'[q] = reserved[q] - 1
      /\ \A x \in SQs : x # q => reserved'[x] = reserved[x]
  BY DEF IInv, TypeOK, SqTypeOK
<1>d. /\ Dist(head[q], tail[q], ElCount[q]) < ElCount[q] - 1
      /\ Dist(head[q], tail[q], ElCount[q]) \in 0..(ElCount[q] - 1)
  BY <1>n, <1>i, <1>r, DistValue DEF IInv, SlotAccounting
<1>m. Dist(head[q], tail'[q], ElCount[q]) = Dist(head[q], tail[q], ElCount[q]) + 1
  BY <1>n, <1>i, <1>d, <1>t, DistSucc
<1>1. TypeOK'
  <2>1. SqTypeOK'
    <3>1. tail' \in [SQs -> Nat] /\ \A x \in SQs : tail'[x] < ElCount[x]
      BY <1>t, <1>n DEF IInv, TypeOK, SqTypeOK
    <3> QED BY <1>0, <1>r, <3>1 DEF IInv, TypeOK, SqTypeOK, consVars, harvestVars, devVars
  <2>2. DataTypeOK'
    <3>1. sqData[q] \in [Slots(q) -> Requests] /\ tail[q] \in Slots(q)
      BY <1>i DEF IInv, TypeOK, DataTypeOK, Slots
    <3>2. sqData'[q] \in [Slots(q) -> Requests]
      BY <3>1 DEF IInv, TypeOK, DataTypeOK
    <3> QED BY <1>0, <3>2 DEF IInv, TypeOK, DataTypeOK, harvestVars
  <2>3. CqTypeOK' /\ IrqTypeOK'
    BY <1>0 DEF IInv, TypeOK, CqTypeOK, IrqTypeOK, devVars, irqVars, workVars
  <2> QED BY <2>1, <2>2, <2>3 DEF TypeOK
<1>2. SlotAccounting'
  <2> SUFFICES ASSUME NEW x \in SQs
               PROVE  available'[x] + reserved'[x] + Dist(head'[x], tail'[x], ElCount[x])
                         = ElCount[x] - 1
    BY DEF SlotAccounting
  <2>1. CASE x = q
    BY <2>1, <1>0, <1>m, <1>r, <1>d, <1>n DEF IInv, SlotAccounting, consVars
  <2>2. CASE x # q
    BY <2>2, <1>0, <1>t, <1>r DEF IInv, SlotAccounting, consVars
  <2> QED BY <2>1, <2>2
<1>3. RingOrder'
  <2> SUFFICES ASSUME NEW x \in SQs
               PROVE  /\ Dist(head[x], cidx[x], ElCount[x]) <= Dist(head[x], ctail[x], ElCount[x])
                      /\ Dist(head[x], ctail[x], ElCount[x]) <= Dist(head[x], devNext[x], ElCount[x])
                      /\ Dist(head[x], devNext[x], ElCount[x]) <= Dist(head[x], doorbell[x], ElCount[x])
                      /\ Dist(head[x], doorbell[x], ElCount[x]) <= Dist(head[x], tail'[x], ElCount[x])
    BY <1>0 DEF RingOrder, consVars, harvestVars, devVars
  <2>1. CASE x = q
    BY <2>1, <1>m, <1>d, <1>n, <1>i, DistValue DEF IInv, RingOrder
  <2>2. CASE x # q
    BY <2>2, <1>t DEF IInv, RingOrder
  <2> QED BY <2>1, <2>2
<1>s. \A x \in SQs : \A s \in Slots(x) :
          Dist(head[x], s, ElCount[x]) < Dist(head[x], tail[x], ElCount[x])
              => sqData'[x][s] = sqData[x][s]
  <2> SUFFICES ASSUME NEW x \in SQs, NEW s \in Slots(x),
                      Dist(head[x], s, ElCount[x]) < Dist(head[x], tail[x], ElCount[x])
               PROVE  sqData'[x][s] = sqData[x][s]
    OBVIOUS
  <2>1. x = q => s # tail[q]
    BY <1>d, <1>n
  <2>2. DOMAIN sqData = SQs /\ sqData[q] \in [Slots(q) -> Requests]
    BY DEF IInv, TypeOK, DataTypeOK
  <2> QED BY <2>1, <2>2
<1>4. ResultMatchesRequest'
  <2> SUFFICES ASSUME NEW x \in SQs, NEW s \in Slots(x),
                      Dist(head[x], s, ElCount[x]) < Dist(head[x], ctail[x], ElCount[x])
               PROVE  cmplData[x][s] = sqData'[x][s]
    BY <1>0 DEF ResultMatchesRequest, consVars, harvestVars
  <2>1. Dist(head[x], s, ElCount[x]) < Dist(head[x], tail[x], ElCount[x])
    BY Sizes DEF IInv, TypeOK, SqTypeOK, RingOrder, Dist, Slots
  <2> QED BY <2>1, <1>s DEF IInv, ResultMatchesRequest
<1>5. CqInv'
  <2>1. CqContents'
    <3> SUFFICES ASSUME NEW c \in CQs, NEW p \in CqSlots(c),
                        cq[c][p].flags, cq[c][p].genuine
                 PROVE  cq[c][p].result = sqData'[cq[c][p].qid][cq[c][p].index]
      BY <1>0 DEF IInv, CqContents, From, Upto, harvestVars, devVars
    <3> DEFINE x == cq[c][p].qid
               s == cq[c][p].index
    <3>1. /\ x \in SQs /\ s \in Slots(x) /\ cq[c][p].result = sqData[x][s]
          /\ Dist(ctail[x], s, ElCount[x]) + 1 <= Dist(ctail[x], devNext[x], ElCount[x])
      BY DEF IInv, CqContents, From, Upto
    <3>2. Dist(head[x], s, ElCount[x]) < Dist(head[x], tail[x], ElCount[x])
      BY <3>1, Sizes DEF IInv, TypeOK, SqTypeOK, RingOrder, Dist, Slots
    <3> QED BY <3>1, <3>2, <1>s
  <2>2. CqWindow' /\ CqSorted' /\ CqComplete'
    <3>1. CqWindow'
      BY <1>0 DEF IInv, CqWindow, harvestVars, devVars
    <3>2. CqSorted'
      BY <1>0 DEF IInv, CqSorted, From, Upto, harvestVars, devVars
    <3>3. CqComplete'
      BY <1>0 DEF IInv, CqComplete, harvestVars, devVars
    <3> QED BY <3>1, <3>2, <3>3
  <2> QED BY <2>1, <2>2 DEF CqInv
<1>6. IrqPosition'
  BY <1>0, IrqFrame DEF IInv, harvestVars, irqVars
<1> QED BY <1>1, <1>2, <1>3, <1>4, <1>5, <1>6 DEF IInv, CqInv

\* bce_submit_to_device: the doorbell catches up with the tail.
LEMMA SubmitToDeviceStep ==
    ASSUME IInv, NEW q \in SQs, SubmitToDevice(q)
    PROVE  IInv'
<1> USE DEF SubmitToDevice
<1>0. /\ UNCHANGED <<available, reserved, sleeping, awake, tail, sqData>>
      /\ UNCHANGED <<consVars, harvestVars, devVars, cq, cqIndex, cqDoorbell,
                     irqRaised, irqVars, workVars>>
  OBVIOUS
<1>1. SqTypeOK'
  BY <1>0 DEF IInv, TypeOK, SqTypeOK, consVars, harvestVars, devVars
<1>2. DataTypeOK' /\ CqTypeOK' /\ IrqTypeOK'
  BY <1>0 DEF IInv, TypeOK, DataTypeOK, CqTypeOK, IrqTypeOK, harvestVars, devVars,
              irqVars, workVars
<1>3. SlotAccounting' /\ ResultMatchesRequest'
  BY <1>0, SlotFrame, ResultFrame DEF IInv, consVars, harvestVars
<1>4. RingOrder'
  <2> SUFFICES ASSUME NEW x \in SQs
               PROVE  /\ Dist(head[x], cidx[x], ElCount[x]) <= Dist(head[x], ctail[x], ElCount[x])
                      /\ Dist(head[x], ctail[x], ElCount[x]) <= Dist(head[x], devNext[x], ElCount[x])
                      /\ Dist(head[x], devNext[x], ElCount[x]) <= Dist(head[x], doorbell'[x], ElCount[x])
                      /\ Dist(head[x], doorbell'[x], ElCount[x]) <= Dist(head[x], tail[x], ElCount[x])
    BY <1>0 DEF RingOrder, consVars, harvestVars, devVars
  <2>1. doorbell'[x] = tail[x] \/ doorbell'[x] = doorbell[x]
    BY DEF IInv, TypeOK, SqTypeOK
  <2>2. /\ Dist(head[x], devNext[x], ElCount[x]) \in Int
        /\ Dist(head[x], doorbell[x], ElCount[x]) \in Int
        /\ Dist(head[x], tail[x], ElCount[x]) \in Int
    BY Sizes DEF IInv, TypeOK, SqTypeOK, Dist
  <2> QED BY <2>1, <2>2 DEF IInv, RingOrder
<1>5. CqInv' /\ IrqPosition'
  BY <1>0, CqFrame, IrqFrame DEF IInv, CqInv, harvestVars, devVars, irqVars
<1> QED BY <1>1, <1>2, <1>3, <1>4, <1>5 DEF IInv, TypeOK, CqInv

-----------------------------------------------------------------------------
(* The device.                                                             *)

\* Posting an element that continues the order of the CQ keeps the CQs in
\* order. The element goes to a place that is not flagged, so the element
\* the interrupt thread is looking at stays what it is.
LEMMA PostElementStep ==
    ASSUME IInv, NEW c \in CQs, NEW e \in Element, e.flags, PostElement(c, e),
           UNCHANGED <<cqIndex, cqDoorbell, ctail, sqData, cmplData, irqVars>>,
           e.genuine => e.qid \in SQs,
           e.qid \in SQs =>
              /\ CqOf[e.qid] = c /\ e.index \in Slots(e.qid)
              /\ From(e) = Dist(ctail[e.qid], devNext[e.qid], ElCount[e.qid])
              /\ Upto(e) <= Dist(ctail[e.qid], devNext'[e.qid], ElCount[e.qid]),
           e.genuine => e.result = sqData[e.qid][e.index],
           \A q \in SQs : Dist(ctail[q], devNext[q], ElCount[q])
                             <= Dist(ctail[q], devNext'[q], ElCount[q]),
           devNext' \in [SQs -> Nat],
           \A q \in SQs : devNext'[q] < ElCount[q],
           \A q \in SQs : \A s \in Slots(q) :
              Dist(ctail[q], s, ElCount[q]) < Dist(ctail[q], devNext'[q], ElCount[q])
              => \/ Dist(ctail[q], s, ElCount[q]) < Dist(ctail[q], devNext[q], ElCount[q])
                 \/ e.genuine /\ e.qid = q /\ e.index = s
    PROVE  CqTypeOK' /\ CqInv' /\ IrqPosition'
<1> DEFINE n == CqElCount[c]
           d == cqDev[c]
<1>n. n \in Nat \ {0, 1}
  BY Sizes
<1>i. /\ d \in 0..(n - 1) /\ cqIndex[c] \in 0..(n - 1) /\ cqDoorbell[c] \in 0..(n - 1)
  BY <1>n DEF IInv, TypeOK, CqTypeOK
<1>s. d \in CqSlots(c) /\ CqSlots(c) = 0..(n - 1)
  BY <1>i DEF CqSlots
<1>v. /\ \A y \in CqSlots(c) : Dist(cqIndex[c], y, n) \in Int
      /\ Dist(cqDoorbell[c], d, n) \in Int /\ Dist(cqDoorbell[c], cqIndex[c], n) \in Int
      /\ Dist(cqIndex[c], d, n) \in Int
  <2>1. ASSUME NEW y \in 0..(n - 1) PROVE Dist(cqIndex[c], y, n) \in Int
    BY <1>n, <1>i DEF Dist
  <2>2. ASSUME NEW y \in 0..(n - 1) PROVE Dist(cqDoorbell[c], y, n) \in Int
    BY <1>n, <1>i DEF Dist
  <2> QED BY <2>1, <2>2, <1>i, <1>s
<1>p. /\ Succ(d, n) # cqDoorbell[c]
      /\ cq' = [cq EXCEPT ![c] = [cq[c] EXCEPT ![d] = e]]
      /\ cqDev' = [cqDev EXCEPT ![c] = Succ(d, n)]
      /\ DOMAIN cq = CQs
      /\ \A x \in CQs : cq[x] \in [CqSlots(x) -> Element]
  BY DEF PostElement, IInv, TypeOK, CqTypeOK
<1>d. /\ cqDev'[c] = Succ(d, n) /\ Succ(d, n) \in 0..(n - 1)
      /\ \A x \in CQs : x # c => cqDev'[x] = cqDev[x]
  BY <1>p, <1>n, <1>i, SuccValue DEF IInv, TypeOK, CqTypeOK
<1>q. /\ cq'[c][d] = e
      /\ \A x \in CQs : \A y \in CqSlots(x) : (x # c \/ y # d) => cq'[x][y] = cq[x][y]
  <2> HIDE DEF d
  <2> QED BY <1>p, <1>s
<1>f. /\ ~cq[c][d].flags
      /\ \A y \in CqSlots(c) : cq[c][y].flags => Dist(cqIndex[c], y, n) < Dist(cqIndex[c], d, n)
  <2>1. \A y \in CqSlots(c) :
           cq[c][y].flags <=> Dist(cqIndex[c], y, n) < Dist(cqIndex[c], d, n)
    BY DEF IInv, CqWindow
  <2> QED BY <2>1, <1>s, <1>v
<1>w. Dist(cqIndex[c], Succ(d, n), n) = Dist(cqIndex[c], d, n) + 1
  <2>1. /\ Dist(cqDoorbell[c], cqIndex[c], n) <= Dist(cqDoorbell[c], d, n)
    BY DEF IInv, CqWindow
  <2>2. Dist(cqDoorbell[c], Succ(d, n), n) = Dist(cqDoorbell[c], d, n) + 1
    BY <1>p, <1>n, <1>i, DistSucc
  <2>3. Succ(d, n) # cqIndex[c]
    BY <2>1, <2>2, <1>n, <1>i, DistValue
  <2> QED BY <2>3, <1>n, <1>i, DistSucc
<1>1. CqTypeOK'
  <2>1. cqDev' \in [CQs -> Nat] /\ \A x \in CQs : cqDev'[x] < CqElCount[x]
    BY <1>p, <1>d, <1>n DEF IInv, TypeOK, CqTypeOK
  <2>2. \A x \in CQs : cq'[x] \in [CqSlots(x) -> Element]
    BY <1>p, <1>s
  <2>3. DOMAIN cq' = CQs
    BY <1>p
  <2> QED BY <2>1, <2>2, <2>3 DEF IInv, TypeOK, CqTypeOK
<1>2. CqWindow'
  <2> SUFFICES ASSUME NEW x \in CQs
               PROVE  /\ Dist(cqDoorbell[x], cqIndex[x], CqElCount[x])
                            <= Dist(cqDoorbell[x], cqDev'[x], CqElCount[x])
                      /\ \A y \in CqSlots(x) :
                            cq'[x][y].flags <=> Dist(cqIndex[x], y, CqElCount[x])
                                < Dist(cqIndex[x], cqDev'[x], CqElCount[x])
    BY DEF CqWindow
  <2>1. CASE x # c
    BY <2>1, <1>d, <1>q DEF IInv, CqWindow
  <2>2. CASE x = c
    <3>1. Dist(cqDoorbell[c], cqIndex[c], n) <= Dist(cqDoorbell[c], Succ(d, n), n)
      <4>1. Dist(cqDoorbell[c], Succ(d, n), n) = Dist(cqDoorbell[c], d, n) + 1
        BY <1>p, <1>n, <1>i, DistSucc
      <4> QED BY <4>1, <1>v DEF IInv, CqWindow
    <3>2. ASSUME NEW y \in CqSlots(c)
          PROVE  cq'[c][y].flags <=> Dist(cqIndex[c], y, n) < Dist(cqIndex[c], Succ(d, n), n)
      <4>1. CASE y = d
        BY <4>1, <1>q, <1>w, <1>v
      <4>2. CASE y # d
        <5>1. Dist(cqIndex[c], y, n) # Dist(cqIndex[c], d, n)
          BY <4>2, <1>n, <1>i, <1>s, DistSplit
        <5>2. Dist(cqIndex[c], y, n) \in Int /\ Dist(cqIndex[c], d, n) \in Int
          BY <1>v
        <5>3. cq[c][y].flags <=> Dist(cqIndex[c], y, n) < Dist(cqIndex[c], d, n)
          BY DEF IInv, CqWindow
        <5> QED BY <5>1, <5>2, <5>3, <4>2, <1>q, <1>w
      <4> QED BY <4>1, <4>2
    <3> QED BY <2>2, <3>1, <3>2, <1>d
  <2> QED BY <2>1, <2>2
<1>a. \A x \in SQs : /\ Dist(ctail[x], devNext[x], ElCount[x]) \in Int
                     /\ Dist(ctail[x], devNext'[x], ElCount[x]) \in Int
  BY Sizes DEF IInv, TypeOK, SqTypeOK, Dist
<1>u. ASSUME NEW x \in CQs, NEW y \in CqSlots(x), cq[x][y].flags, cq[x][y].qid \in SQs
      PROVE  /\ Upto(cq[x][y]) \in Int
             /\ Upto(cq[x][y]) <= Dist(ctail[cq[x][y].qid], devNext[cq[x][y].qid],
                                       ElCount[cq[x][y].qid])
             /\ CqOf[cq[x][y].qid] = x
  <2>1. /\ cq[x][y].index \in Slots(cq[x][y].qid)
        /\ CqOf[cq[x][y].qid] = x
        /\ Upto(cq[x][y]) <= Dist(ctail[cq[x][y].qid], devNext[cq[x][y].qid],
                                  ElCount[cq[x][y].qid])
    BY <1>u DEF IInv, CqContents
  <2>2. From(cq[x][y]) \in Int
    BY <1>u, <2>1, Sizes, SuccValue DEF IInv, TypeOK, SqTypeOK, From, Dist, Slots
  <2> QED BY <2>1, <2>2 DEF Upto
<1>3. CqContents'
  <2> SUFFICES ASSUME NEW x \in CQs, NEW y \in CqSlots(x), cq'[x][y].flags
               PROVE  /\ cq'[x][y].genuine => cq'[x][y].qid \in SQs
                      /\ cq'[x][y].qid \in SQs =>
                           /\ CqOf[cq'[x][y].qid] = x
                           /\ cq'[x][y].index \in Slots(cq'[x][y].qid)
                           /\ Upto(cq'[x][y]) <= Dist(ctail[cq'[x][y].qid], devNext'[cq'[x][y].qid],
                                                      ElCount[cq'[x][y].qid])
                      /\ cq'[x][y].genuine => cq'[x][y].result = sqData[cq'[x][y].qid][cq'[x][y].index]
    BY DEF CqContents, From, Upto
  <2>1. CASE x = c /\ y = d
    BY <2>1, <1>q
  <2>2. CASE x # c \/ y # d
    <3>1. cq'[x][y] = cq[x][y]
      BY <2>2, <1>q
    <3>2. cq[x][y].qid \in SQs =>
             Upto(cq[x][y]) <= Dist(ctail[cq[x][y].qid], devNext'[cq[x][y].qid],
                                    ElCount[cq[x][y].qid])
      BY <3>1, <1>u, <1>a
    <3> QED BY <3>1, <3>2 DEF IInv, CqContents
  <2> QED BY <2>1, <2>2
<1>4. CqSorted'
  <2> SUFFICES ASSUME NEW x \in CQs, NEW y1 \in CqSlots(x), NEW y2 \in CqSlots(x),
                      cq'[x][y1].flags, cq'[x][y2].flags,
                      cq'[x][y1].qid \in SQs, cq'[x][y1].qid = cq'[x][y2].qid,
                      Dist(cqIndex[x], y1, CqElCount[x]) < Dist(cqIndex[x], y2, CqElCount[x])
               PROVE  Upto(cq'[x][y1]) <= From(cq'[x][y2])
    BY DEF CqSorted, From, Upto
  <2>1. CASE x # c \/ (y1 # d /\ y2 # d)
    BY <2>1, <1>q DEF IInv, CqSorted
  <2>2. CASE x = c /\ y2 = d /\ y1 # d
    BY <2>2, <1>q, <1>u
  <2>3. CASE x = c /\ y1 = d
    <3>1. y2 # d
      BY <2>3, <1>v
    <3>2. Dist(cqIndex[c], y2, n) < Dist(cqIndex[c], d, n)
      BY <2>3, <3>1, <1>q, <1>f
    <3> QED BY <2>3, <3>2, <1>v
  <2> QED BY <2>1, <2>2, <2>3
<1>5. CqComplete'
  <2> SUFFICES ASSUME NEW q \in SQs, NEW s \in Slots(q),
                      Dist(ctail[q], s, ElCount[q]) < Dist(ctail[q], devNext'[q], ElCount[q])
               PROVE  \E y \in CqSlots(CqOf[q]) :
                        /\ cq'[CqOf[q]][y].flags /\ cq'[CqOf[q]][y].genuine
                        /\ cq'[CqOf[q]][y].qid = q /\ cq'[CqOf[q]][y].index = s
    BY DEF CqComplete
  <2>1. CASE e.genuine /\ e.qid = q /\ e.index = s
    BY <2>1, <1>q, <1>s
  <2>2. CASE Dist(ctail[q], s, ElCount[q]) < Dist(ctail[q], devNext[q], ElCount[q])
    <3>1. PICK y \in CqSlots(CqOf[q]) :
                 /\ cq[CqOf[q]][y].flags /\ cq[CqOf[q]][y].genuine
                 /\ cq[CqOf[q]][y].qid = q /\ cq[CqOf[q]][y].index = s
      BY <2>2 DEF IInv, CqComplete
    <3>2. cq'[CqOf[q]][y] = cq[CqOf[q]][y]
      BY <3>1, <1>q, <1>f, Sizes
    <3> QED BY <3>1, <3>2
  <2> QED BY <2>1, <2>2
<1>6. IrqPosition'
  <2>1. ASSUME irqPc = "publish" PROVE Polled' = Polled /\ irqCq \in CQs
    <3>1. irqCq \in CQs /\ cq[irqCq][cqIndex[irqCq]].flags
      BY <2>1 DEF IInv, IrqPosition, Polled
    <3>2. cqIndex[irqCq] \in CqSlots(irqCq)
      BY <3>1, Sizes DEF IInv, TypeOK, CqTypeOK, CqSlots
    <3>3. cq'[irqCq][cqIndex[irqCq]] = cq[irqCq][cqIndex[irqCq]]
      BY <3>1, <3>2, <1>q, <1>f
    <3> QED BY <3>1, <3>3 DEF Polled, irqVars
  <2> QED BY <2>1 DEF IInv, IrqPosition, irqVars
<1> QED BY <1>1, <1>2, <1>3, <1>4, <1>5, <1>6 DEF CqInv

\* How far the device is ahead of the harvest, and the distances involved.
LEMMA DeviceAhead ==
    ASSUME IInv, NEW q \in SQs
    PROVE  /\ ElCount[q] \in Nat \ {0, 1}
           /\ head[q] \in 0..(ElCount[q] - 1) /\ ctail[q] \in 0..(ElCount[q] - 1)
           /\ devNext[q] \in 0..(ElCount[q] - 1) /\ doorbell[q] \in 0..(ElCount[q] - 1)
           /\ Slots(q) = 0..(ElCount[q] - 1)
           /\ Dist(ctail[q], devNext[q], ElCount[q]) \in 0..(ElCount[q] - 1)
           /\ devNext[q] # doorbell[q] =>
                Dist(ctail[q], devNext[q], ElCount[q]) < ElCount[q] - 1
<1>1. /\ ElCount[q] \in Nat \ {0, 1}
      /\ head[q] \in 0..(ElCount[q] - 1) /\ ctail[q] \in 0..(ElCount[q] - 1)
      /\ devNext[q] \in 0..(ElCount[q] - 1) /\ doorbell[q] \in 0..(ElCount[q] - 1)
  BY Sizes DEF IInv, TypeOK, SqTypeOK
<1>2. Dist(ctail[q], devNext[q], ElCount[q]) \in 0..(ElCount[q] - 1)
  BY <1>1, DistValue
<1>3. devNext[q] # doorbell[q] =>
          Dist(ctail[q], devNext[q], ElCount[q]) < ElCount[q] - 1
  <2>1. /\ Dist(head[q], ctail[q], ElCount[q]) <= Dist(head[q], devNext[q], ElCount[q])
        /\ Dist(head[q], devNext[q], ElCount[q]) <= Dist(head[q], doorbell[q], ElCount[q])
    BY DEF IInv, RingOrder
  <2> QED BY <1>1, <2>1 DEF Dist
<1> QED BY <1>1, <1>2, <1>3 DEF Slots

\* A completion the device posts is the next one its SQ expects, behind those
\* already in the CQ.
LEMMA DeviceCompleteStep ==
    ASSUME IInv, NEW q \in SQs, DeviceComplete(q)
    PROVE  IInv'
<1> DEFINE n == ElCount[q]
           e == [flags |-> TRUE, qid |-> q, index |-> devNext[q],
                 result |-> sqData[q][devNext[q]], genuine |-> TRUE]
<1>0. /\ devNext[q] # doorbell[q] /\ PostElement(CqOf[q], e) /\ CqOf[q] \in CQs
      /\ UNCHANGED <<subVars, consVars, harvestVars, cqIndex, cqDoorbell,
                     irqVars, workVars, faults>>
  BY Sizes DEF DeviceComplete
<1>1. /\ n \in Nat \ {0, 1} /\ devNext[q] \in 0..(n - 1) /\ ctail[q] \in 0..(n - 1)
      /\ head[q] \in 0..(n - 1) /\ doorbell[q] \in 0..(n - 1)
      /\ Slots(q) = 0..(n - 1)
      /\ Dist(ctail[q], devNext[q], n) \in 0..(n - 1)
      /\ Dist(ctail[q], devNext[q], n) < n - 1
  BY <1>0, DeviceAhead
<1>2. /\ devNext' \in [SQs -> Nat]
      /\ devNext'[q] = Succ(devNext[q], n)
      /\ Succ(devNext[q], n) \in 0..(n - 1)
      /\ \A x \in SQs : x # q => devNext'[x] = devNext[x]
  BY <1>1, SuccValue DEF DeviceComplete, IInv, TypeOK, SqTypeOK
<1>3. Dist(ctail[q], devNext'[q], n) = Dist(ctail[q], devNext[q], n) + 1
  BY <1>1, <1>2, DistSucc
<1>4. e \in Element /\ e.flags
  BY <1>1 DEF Element, IInv, TypeOK, DataTypeOK
<1>5. \A x \in SQs : /\ Dist(ctail[x], devNext[x], ElCount[x])
                           <= Dist(ctail[x], devNext'[x], ElCount[x])
                     /\ devNext'[x] < ElCount[x]
  <2>1. ASSUME NEW x \in SQs PROVE Dist(ctail[x], devNext[x], ElCount[x]) \in Int
                                   /\ devNext[x] < ElCount[x]
    BY DeviceAhead
  <2> QED BY <1>1, <1>2, <1>3, <2>1
<1>6. \A x \in SQs : \A s \in Slots(x) :
         Dist(ctail[x], s, ElCount[x]) < Dist(ctail[x], devNext'[x], ElCount[x])
         => \/ Dist(ctail[x], s, ElCount[x]) < Dist(ctail[x], devNext[x], ElCount[x])
            \/ e.genuine /\ e.qid = x /\ e.index = s
  <2> SUFFICES ASSUME NEW x \in SQs, NEW s \in Slots(x),
                      Dist(ctail[x], s, ElCount[x]) < Dist(ctail[x], devNext'[x], ElCount[x])
               PROVE  \/ Dist(ctail[x], s, ElCount[x]) < Dist(ctail[x], devNext[x], ElCount[x])
                      \/ x = q /\ s = devNext[q]
    OBVIOUS
  <2>1. CASE x = q
    <3>1. Dist(ctail[q], s, n) \in Int
      BY <2>1, <1>1, DistValue
    <3>2. Dist(ctail[q], s, n) = Dist(ctail[q], devNext[q], n) => s = devNext[q]
      BY <2>1, <1>1, DistSplit
    <3> QED BY <2>1, <3>1, <3>2, <1>1, <1>3
  <2>2. CASE x # q
    BY <2>2, <1>2
  <2> QED BY <2>1, <2>2
<1>7. CqTypeOK' /\ CqInv' /\ IrqPosition'
  <2>1. /\ From(e) = Dist(ctail[q], devNext[q], n)
        /\ Upto(e) <= Dist(ctail[q], devNext'[q], n)
    BY <1>1, <1>3 DEF From, Upto
  <2>2. e.index \in Slots(e.qid) /\ CqOf[e.qid] = CqOf[q] /\ e.result = sqData[e.qid][e.index]
    BY <1>1
  <2> QED BY <1>0, <1>2, <1>4, <1>5, <1>6, <2>1, <2>2, PostElementStep
          DEF subVars, harvestVars
<1>8. SqTypeOK' /\ DataTypeOK' /\ IrqTypeOK'
  <2>1. SqTypeOK' /\ DataTypeOK'
    BY <1>0, <1>2, <1>5 DEF IInv, TypeOK, SqTypeOK, DataTypeOK, subVars, consVars, harvestVars
  <2>2. irqRaised' = TRUE
    BY <1>0 DEF PostElement
  <2> QED BY <1>0, <2>1, <2>2 DEF IInv, TypeOK, IrqTypeOK, irqVars, workVars
<1>9. SlotAccounting' /\ ResultMatchesRequest'
  BY <1>0, SlotFrame, ResultFrame DEF IInv, subVars, consVars, harvestVars
<1>10. RingOrder'
  <2> SUFFICES ASSUME NEW x \in SQs
               PROVE  /\ Dist(head[x], cidx[x], ElCount[x]) <= Dist(head[x], ctail[x], ElCount[x])
                      /\ Dist(head[x], ctail[x], ElCount[x]) <= Dist(head[x], devNext'[x], ElCount[x])
                      /\ Dist(head[x], devNext'[x], ElCount[x]) <= Dist(head[x], doorbell[x], ElCount[x])
                      /\ Dist(head[x], doorbell[x], ElCount[x]) <= Dist(head[x], tail[x], ElCount[x])
    BY <1>0 DEF RingOrder, subVars, consVars, harvestVars
  <2>1. CASE x # q
    BY <2>1, <1>2 DEF IInv, RingOrder
  <2>2. CASE x = q
    <3>1. /\ Dist(head[q], devNext[q], n) <= Dist(head[q], doorbell[q], n)
          /\ Dist(head[q], ctail[q], n) <= Dist(head[q], devNext[q], n)
      BY DEF IInv, RingOrder
    <3>2. /\ Dist(head[q], devNext'[q], n) = Dist(head[q], devNext[q], n) + 1
          /\ Dist(head[q], devNext[q], n) < Dist(head[q], doorbell[q], n)
      <4>1. Dist(head[q], devNext[q], n) < Dist(head[q], doorbell[q], n)
        BY <1>0, <1>1, <3>1, SMTT(30) DEF Dist
      <4>2. Dist(head[q], devNext[q], n) # n - 1
        BY <4>1, <1>1 DEF Dist
      <4>3. Dist(head[q], Succ(devNext[q], n), n) = Dist(head[q], devNext[q], n) + 1
        BY <4>2, <1>1, DistSucc
      <4> QED BY <4>1, <4>3, <1>2
    <3>3. /\ Dist(head[q], devNext[q], n) \in Int /\ Dist(head[q], doorbell[q], n) \in Int
          /\ Dist(head[q], ctail[q], n) \in Int
      BY <1>1, DistInt
    <3> QED BY <2>2, <3>1, <3>2, <3>3 DEF IInv, RingOrder
  <2> QED BY <2>1, <2>2
<1> QED BY <1>7, <1>8, <1>9, <1>10 DEF IInv, TypeOK, CqInv

\* A repeated or a stray completion stands for no slot.
LEMMA DeviceFaultStep ==
    ASSUME IInv,
           \/ \E q \in SQs : \E r \in Requests : DeviceRepeat(q, r)
           \/ \E c \in CQs : DeviceStray(c)
    PROVE  IInv'
<1>0. /\ UNCHANGED <<subVars, consVars, harvestVars, cqIndex, cqDoorbell,
                     irqVars, workVars, devNext>>
      /\ faults' = faults + 1 /\ irqRaised' = TRUE
  BY DEF DeviceRepeat, DeviceStray, PostElement
<1>1. \A x \in SQs : /\ Dist(ctail[x], devNext[x], ElCount[x])
                           <= Dist(ctail[x], devNext'[x], ElCount[x])
                     /\ devNext'[x] < ElCount[x]
  <2>1. ASSUME NEW x \in SQs PROVE Dist(ctail[x], devNext[x], ElCount[x]) \in Int
    BY DeviceAhead
  <2> QED BY <1>0, <2>1 DEF IInv, TypeOK, SqTypeOK
<1>2. CqTypeOK' /\ CqInv' /\ IrqPosition'
  <2>1. ASSUME NEW q \in SQs, NEW r \in Requests, DeviceRepeat(q, r)
        PROVE  CqTypeOK' /\ CqInv' /\ IrqPosition'
    <3> DEFINE n == ElCount[q]
               i == IF devNext[q] = 0 THEN n - 1 ELSE devNext[q] - 1
               e == [flags |-> TRUE, qid |-> q, index |-> i, result |-> r,
                     genuine |-> FALSE]
    <3>1. /\ n \in Nat \ {0, 1} /\ devNext[q] \in 0..(n - 1) /\ Slots(q) = 0..(n - 1)
          /\ Dist(ctail[q], devNext[q], n) \in Int
      BY DeviceAhead
    <3>2. i \in 0..(n - 1) /\ Succ(i, n) = devNext[q]
      <4>1. i \in 0..(n - 1) /\ (i = n - 1 => devNext[q] = 0)
                             /\ (i # n - 1 => devNext[q] = i + 1)
        BY <3>1
      <4> HIDE DEF i
      <4> QED BY <4>1, <3>1, SuccValue
    <3>3. e \in Element /\ e.flags /\ ~e.genuine
      BY <3>1, <3>2 DEF Element
    <3>4. From(e) = Dist(ctail[q], devNext[q], n) /\ Upto(e) = Dist(ctail[q], devNext[q], n)
      BY <3>2 DEF From, Upto
    <3>5. PostElement(CqOf[q], e) /\ CqOf[q] \in CQs
      BY <2>1, Sizes DEF DeviceRepeat
    <3>6. e.qid = q /\ e.index \in Slots(q)
      BY <3>1, <3>2
    <3> HIDE DEF e
    <3> QED BY <1>0, <1>1, <3>1, <3>3, <3>4, <3>5, <3>6, PostElementStep
            DEF subVars, harvestVars, IInv, TypeOK, SqTypeOK
  <2>2. ASSUME NEW c \in CQs, DeviceStray(c)
        PROVE  CqTypeOK' /\ CqInv' /\ IrqPosition'
    <3> DEFINE e == [flags |-> TRUE, qid |-> NoQueue, index |-> 0,
                     result |-> R0, genuine |-> FALSE]
    <3>1. e \in Element /\ e.flags /\ ~e.genuine /\ e.qid \notin SQs
      BY QueueAssumption DEF Element, R0
    <3>2. PostElement(c, e)
      BY <2>2 DEF DeviceStray
    <3> HIDE DEF e
    <3> QED BY <1>0, <1>1, <3>1, <3>2, PostElementStep
            DEF subVars, harvestVars, IInv, TypeOK, SqTypeOK
  <2> QED BY <2>1, <2>2
<1>3. SqTypeOK' /\ DataTypeOK'
  BY <1>0 DEF IInv, TypeOK, SqTypeOK, DataTypeOK, subVars, consVars, harvestVars
<1>4. IrqTypeOK'
  BY <1>0 DEF IInv, TypeOK, IrqTypeOK, irqVars, workVars
<1>5. SlotAccounting' /\ ResultMatchesRequest' /\ RingOrder'
  BY <1>0, SlotFrame, ResultFrame, RingFrame DEF IInv, subVars, consVars, harvestVars
<1> QED BY <1>2, <1>3, <1>4, <1>5 DEF IInv, TypeOK, CqInv

-----------------------------------------------------------------------------
(* The interrupt thread: harvest.                                          *)

\* The element at cq->index is the completion its SQ expects next exactly if
\* it is genuine. This is what makes the test in bce_handle_cq_completion
\* tell completions from repetitions.
LEMMA FrontElement ==
    ASSUME IInv, irqCq \in CQs, Polled.flags, Polled.qid \in SQs
    PROVE  /\ Polled.genuine <=> Polled.index = ctail[Polled.qid]
           /\ Polled.index \in Slots(Polled.qid)
           /\ CqOf[Polled.qid] = irqCq
<1> DEFINE c == irqCq
           f == cqIndex[irqCq]
           q == Polled.qid
           n == ElCount[q]
           m == CqElCount[c]
<1>1. /\ n \in Nat \ {0, 1} /\ ctail[q] \in 0..(n - 1) /\ devNext[q] \in 0..(n - 1)
      /\ Slots(q) = 0..(n - 1)
  BY DeviceAhead
<1>2. /\ m \in Nat \ {0, 1} /\ f \in 0..(m - 1) /\ CqSlots(c) = 0..(m - 1)
  BY Sizes DEF IInv, TypeOK, CqTypeOK, CqSlots
<1>3. /\ cq[c][f] = Polled /\ f \in CqSlots(c)
  BY <1>2 DEF Polled
<1>4. /\ Polled.index \in Slots(q) /\ CqOf[q] = c
      /\ Upto(Polled) <= Dist(ctail[q], devNext[q], n)
  BY <1>3 DEF IInv, CqContents
\* A slot that is due has an element in the CQ, and not before this one.
<1>5. ASSUME Dist(ctail[q], devNext[q], n) > 0, Upto(Polled) > 0, Upto(Polled) \in Int
      PROVE  Polled.genuine /\ Polled.index = ctail[q]
  <2>1. Dist(ctail[q], ctail[q], n) = 0 /\ ctail[q] \in Slots(q)
    BY <1>1, DistValue
  <2>2. PICK p \in CqSlots(c) : /\ cq[c][p].flags /\ cq[c][p].genuine
                                /\ cq[c][p].qid = q /\ cq[c][p].index = ctail[q]
    BY <2>1, <1>4, <1>5 DEF IInv, CqComplete
  <2>3. From(cq[c][p]) = 0
    BY <2>1, <2>2 DEF From
  <2>4. CASE p = f
    BY <2>4, <2>2, <1>3
  <2>5. CASE p # f
    <3>1. Dist(f, f, m) = 0 /\ Dist(f, p, m) # 0 /\ Dist(f, p, m) \in 0..(m - 1)
      BY <2>5, <1>2, DistValue
    <3>2. Dist(f, f, m) < Dist(f, p, m)
      BY <3>1, <1>2
    <3>3. Upto(cq[c][f]) <= From(cq[c][p])
      BY <3>2, <2>2, <1>3 DEF IInv, CqSorted
    <3> QED BY <3>3, <2>3, <1>3, <1>5
  <2> QED BY <2>4, <2>5
<1>6. CASE Polled.genuine
  <2>1. Dist(ctail[q], Polled.index, n) \in 0..(n - 1) /\ Dist(ctail[q], devNext[q], n) \in 0..(n - 1)
    BY <1>1, <1>4, DistValue
  <2>2. Upto(Polled) = Dist(ctail[q], Polled.index, n) + 1
    BY <1>6 DEF Upto, From
  <2>3. Upto(Polled) > 0 /\ Dist(ctail[q], devNext[q], n) > 0 /\ Upto(Polled) \in Int
    BY <2>1, <2>2, <1>1, <1>4
  <2> QED BY <1>4, <1>5, <1>6, <2>3
<1>7. CASE ~Polled.genuine
  <2>1. /\ Succ(Polled.index, n) \in 0..(n - 1) /\ Succ(Polled.index, n) # Polled.index
    BY <1>1, <1>4, SuccValue
  <2>2. /\ Upto(Polled) = Dist(ctail[q], Succ(Polled.index, n), n)
    BY <1>7 DEF Upto, From
  <2>3. /\ Upto(Polled) \in 0..(n - 1) /\ Dist(ctail[q], devNext[q], n) \in 0..(n - 1)
        /\ Upto(Polled) = 0 <=> ctail[q] = Succ(Polled.index, n)
    <3>1. Dist(ctail[q], devNext[q], n) \in 0..(n - 1)
      BY <1>1, DistValue
    <3>2. ASSUME NEW s \in 0..(n - 1)
          PROVE  /\ Dist(ctail[q], s, n) \in 0..(n - 1)
                 /\ Dist(ctail[q], s, n) = 0 <=> ctail[q] = s
      BY <1>1, DistValue
    <3> QED BY <3>1, <3>2, <2>1, <2>2
  <2>4. ~(Upto(Polled) > 0)
    BY <2>3, <1>1, <1>4, <1>5, <1>7
  <2>5. ctail[q] = Succ(Polled.index, n)
    BY <2>3, <2>4, <1>1
  <2> QED BY <1>4, <1>7, <2>1, <2>5
<1> QED BY <1>6, <1>7

\* Taking the element at cq->index: the window starts one element later, the
\* other elements stay, each one place nearer.
LEMMA TakeElementStep ==
    ASSUME IInv, irqCq \in CQs, Polled.flags, TakeElement,
           UNCHANGED <<cqDoorbell, cqDev>>
    PROVE  /\ CqTypeOK' /\ CqWindow'
           /\ ~cq'[irqCq][cqIndex[irqCq]].flags
           /\ \A x \in CQs : \A y \in CqSlots(x) :
                 (x # irqCq \/ y # cqIndex[irqCq]) => cq'[x][y] = cq[x][y]
           /\ \A x \in CQs : \A y1, y2 \in CqSlots(x) :
                 /\ x # irqCq \/ (y1 # cqIndex[irqCq] /\ y2 # cqIndex[irqCq])
                 /\ Dist(cqIndex'[x], y1, CqElCount[x]) < Dist(cqIndex'[x], y2, CqElCount[x])
                 => Dist(cqIndex[x], y1, CqElCount[x]) < Dist(cqIndex[x], y2, CqElCount[x])
           /\ \A y \in CqSlots(irqCq) : y # cqIndex[irqCq] =>
                 Dist(cqIndex[irqCq], cqIndex[irqCq], CqElCount[irqCq])
                    < Dist(cqIndex[irqCq], y, CqElCount[irqCq])
<1> DEFINE c == irqCq
           f == cqIndex[irqCq]
           m == CqElCount[c]
<1>1. /\ m \in Nat \ {0, 1} /\ f \in 0..(m - 1) /\ CqSlots(c) = 0..(m - 1)
      /\ cqDev[c] \in 0..(m - 1) /\ cqDoorbell[c] \in 0..(m - 1) /\ f \in CqSlots(c)
  BY Sizes DEF IInv, TypeOK, CqTypeOK, CqSlots
<1>2. /\ cq' = [cq EXCEPT ![c] = [cq[c] EXCEPT ![f] = EmptyElement]]
      /\ cqIndex' = [cqIndex EXCEPT ![c] = Succ(f, m)]
      /\ DOMAIN cq = CQs
      /\ \A x \in CQs : cq[x] \in [CqSlots(x) -> Element]
  BY DEF TakeElement, IInv, TypeOK, CqTypeOK
<1>3. /\ cqIndex'[c] = Succ(f, m) /\ Succ(f, m) \in 0..(m - 1)
      /\ \A x \in CQs : x # c => cqIndex'[x] = cqIndex[x]
  BY <1>1, <1>2, SuccValue DEF IInv, TypeOK, CqTypeOK
<1>4. /\ cq'[c][f] = EmptyElement
      /\ \A x \in CQs : \A y \in CqSlots(x) : (x # c \/ y # f) => cq'[x][y] = cq[x][y]
  BY <1>1, <1>2
<1>5. EmptyElement \in Element /\ ~EmptyElement.flags
  BY QueueAssumption, SMTT(30) DEF EmptyElement, Element, R0
<1>6. f # cqDev[c]
  <2>1. Dist(f, f, m) = 0 /\ (f = cqDev[c] => Dist(f, cqDev[c], m) = 0)
    <3>1. Dist(f, f, m) = 0
      <4> HIDE DEF f, m
      <4> QED BY <1>1, DistValue
    <3> QED BY <3>1
  <2>2. cq[c][f].flags <=> Dist(f, f, m) < Dist(f, cqDev[c], m)
    BY <1>1 DEF IInv, CqWindow
  <2>3. cq[c][f].flags
    BY DEF Polled
  <2> QED BY <2>1, <2>2, <2>3
<1>7. \A y \in 0..(m - 1) : /\ Dist(f, y, m) \in Int /\ Dist(Succ(f, m), y, m) \in Int
                            /\ y # f => Dist(Succ(f, m), y, m) = Dist(f, y, m) - 1
                            /\ y # f => 0 < Dist(f, y, m)
  <2> SUFFICES ASSUME NEW y \in 0..(m - 1)
               PROVE  /\ Dist(f, y, m) \in Int /\ Dist(Succ(f, m), y, m) \in Int
                      /\ y # f => Dist(Succ(f, m), y, m) = Dist(f, y, m) - 1
                      /\ y # f => 0 < Dist(f, y, m)
    OBVIOUS
  <2>1. Dist(f, y, m) \in Int /\ Dist(Succ(f, m), y, m) \in Int
    BY <1>1, <1>3, DistInt
  <2>2. y # f => Dist(Succ(f, m), y, m) = Dist(f, y, m) - 1
    BY <1>1, DistSucc
  <2>3. y # f => 0 < Dist(f, y, m)
    BY <1>1 DEF Dist
  <2> QED BY <2>1, <2>2, <2>3
<1>8. CqTypeOK'
  <2>1. cqIndex' \in [CQs -> Nat] /\ \A x \in CQs : cqIndex'[x] < CqElCount[x]
    BY <1>1, <1>2, <1>3 DEF IInv, TypeOK, CqTypeOK
  <2>2. DOMAIN cq' = CQs /\ \A x \in CQs : cq'[x] \in [CqSlots(x) -> Element]
    BY <1>1, <1>2, <1>5
  <2> QED BY <2>1, <2>2 DEF IInv, TypeOK, CqTypeOK
<1>9. CqWindow'
  <2> SUFFICES ASSUME NEW x \in CQs
               PROVE  /\ Dist(cqDoorbell[x], cqIndex'[x], CqElCount[x])
                            <= Dist(cqDoorbell[x], cqDev[x], CqElCount[x])
                      /\ \A y \in CqSlots(x) :
                            cq'[x][y].flags <=> Dist(cqIndex'[x], y, CqElCount[x])
                                < Dist(cqIndex'[x], cqDev[x], CqElCount[x])
    BY DEF CqWindow
  <2>1. CASE x # c
    BY <2>1, <1>3, <1>4 DEF IInv, CqWindow
  <2>2. CASE x = c
    <3>1. Dist(cqDoorbell[c], Succ(f, m), m) <= Dist(cqDoorbell[c], cqDev[c], m)
      <4>1. Dist(cqDoorbell[c], f, m) <= Dist(cqDoorbell[c], cqDev[c], m)
        BY DEF IInv, CqWindow
      <4>2. /\ Dist(cqDoorbell[c], f, m) \in Int /\ Dist(cqDoorbell[c], cqDev[c], m) \in 0..(m - 1)
            /\ Dist(cqDoorbell[c], Succ(f, m), m)
                  = IF Succ(f, m) = cqDoorbell[c] THEN 0 ELSE Dist(cqDoorbell[c], f, m) + 1
        <5>1. Dist(cqDoorbell[c], f, m) \in Int /\ Dist(cqDoorbell[c], cqDev[c], m) \in 0..(m - 1)
          BY <1>1, DistInt, DistValue
        <5> QED BY <5>1, <1>1, DistSucc
      <4>3. Dist(cqDoorbell[c], f, m) # Dist(cqDoorbell[c], cqDev[c], m)
        BY <1>1, <1>6, DistSplit
      <4> QED BY <4>1, <4>2, <4>3, <1>1
    <3>2. ASSUME NEW y \in CqSlots(c)
          PROVE  cq'[c][y].flags <=> Dist(Succ(f, m), y, m) < Dist(Succ(f, m), cqDev[c], m)
      <4>1. Dist(Succ(f, m), cqDev[c], m) = Dist(f, cqDev[c], m) - 1 /\ Dist(f, cqDev[c], m) \in 0..(m - 1)
        BY <1>1, <1>6, <1>7, DistValue
      <4>2. CASE y = f
        <5>1. Dist(Succ(f, m), f, m) = m - 1
          BY <1>1, DistSucc
        <5> QED BY <4>1, <4>2, <5>1, <1>1, <1>4, <1>5
      <4>3. CASE y # f
        <5>1. cq[c][y].flags <=> Dist(f, y, m) < Dist(f, cqDev[c], m)
          BY DEF IInv, CqWindow
        <5>2. Dist(Succ(f, m), y, m) = Dist(f, y, m) - 1 /\ Dist(f, y, m) \in Int
          BY <4>3, <1>1, <1>7
        <5> QED BY <4>1, <4>3, <5>1, <5>2, <1>1, <1>4
      <4> QED BY <4>2, <4>3
    <3> QED BY <2>2, <3>1, <3>2, <1>3
  <2> QED BY <2>1, <2>2
<1>10. ASSUME NEW x \in CQs, NEW y1 \in CqSlots(x), NEW y2 \in CqSlots(x),
              x # c \/ (y1 # f /\ y2 # f),
              Dist(cqIndex'[x], y1, CqElCount[x]) < Dist(cqIndex'[x], y2, CqElCount[x])
       PROVE  Dist(cqIndex[x], y1, CqElCount[x]) < Dist(cqIndex[x], y2, CqElCount[x])
  <2>1. CASE x # c
    BY <2>1, <1>3, <1>10
  <2>2. CASE x = c
    <3>1. /\ Dist(Succ(f, m), y1, m) = Dist(f, y1, m) - 1 /\ Dist(f, y1, m) \in Int
          /\ Dist(Succ(f, m), y2, m) = Dist(f, y2, m) - 1 /\ Dist(f, y2, m) \in Int
      BY <2>2, <1>10, <1>1, <1>7
    <3> QED BY <2>2, <3>1, <1>10, <1>3
  <2> QED BY <2>1, <2>2
<1>11. \A y \in CqSlots(c) : y # f => Dist(f, f, m) < Dist(f, y, m)
  <2>1. Dist(f, f, m) = 0
    BY <1>1, DistValue
  <2> QED BY <2>1, <1>1, <1>7
<1> QED BY <1>4, <1>5, <1>8, <1>9, <1>10, <1>11

\* A refused element is not genuine, so no slot loses its completion.
LEMMA HarvestDropStep ==
    ASSUME IInv, HarvestDrop
    PROVE  IInv'
<1>0. /\ irqPc = "poll" /\ irqCq \in CQs /\ Polled.flags /\ TakeElement
      /\ (Polled.qid \notin SQs \/ (Polled.qid \in SQs /\ ctail[Polled.qid] # Polled.index))
      /\ UNCHANGED <<subVars, consVars, harvestVars, devVars, cqDoorbell, irqRaised,
                     irqVars, workVars>>
  BY DEF HarvestDrop, irqVars
<1>1. cqIndex[irqCq] \in CqSlots(irqCq) /\ cq[irqCq][cqIndex[irqCq]] = Polled
  BY <1>0, Sizes DEF IInv, TypeOK, CqTypeOK, CqSlots, Polled
<1>2. ~Polled.genuine
  <2>1. Polled.genuine => Polled.qid \in SQs
    BY <1>0, <1>1 DEF IInv, CqContents
  <2> QED BY <2>1, <1>0, FrontElement
<1>3. /\ CqTypeOK' /\ CqWindow'
      /\ ~cq'[irqCq][cqIndex[irqCq]].flags
      /\ \A x \in CQs : \A y \in CqSlots(x) :
            (x # irqCq \/ y # cqIndex[irqCq]) => cq'[x][y] = cq[x][y]
      /\ \A x \in CQs : \A y1, y2 \in CqSlots(x) :
            /\ x # irqCq \/ (y1 # cqIndex[irqCq] /\ y2 # cqIndex[irqCq])
            /\ Dist(cqIndex'[x], y1, CqElCount[x]) < Dist(cqIndex'[x], y2, CqElCount[x])
            => Dist(cqIndex[x], y1, CqElCount[x]) < Dist(cqIndex[x], y2, CqElCount[x])
  BY <1>0, TakeElementStep DEF devVars
<1>4. \A x \in CQs : \A y \in CqSlots(x) : cq'[x][y].flags =>
          (x # irqCq \/ y # cqIndex[irqCq]) /\ cq'[x][y] = cq[x][y]
  BY <1>3
<1>5. CqContents'
  <2> SUFFICES ASSUME NEW x \in CQs, NEW y \in CqSlots(x), cq'[x][y].flags
               PROVE  /\ cq[x][y].genuine => cq[x][y].qid \in SQs
                      /\ cq[x][y].qid \in SQs =>
                           /\ CqOf[cq[x][y].qid] = x
                           /\ cq[x][y].index \in Slots(cq[x][y].qid)
                           /\ Upto(cq[x][y]) <= Dist(ctail[cq[x][y].qid], devNext[cq[x][y].qid],
                                                     ElCount[cq[x][y].qid])
                      /\ cq[x][y].genuine => cq[x][y].result = sqData[cq[x][y].qid][cq[x][y].index]
    BY <1>0, <1>4 DEF CqContents, From, Upto, subVars, harvestVars, devVars
  <2> QED BY <1>4 DEF IInv, CqContents
<1>6. CqSorted'
  <2> SUFFICES ASSUME NEW x \in CQs, NEW y1 \in CqSlots(x), NEW y2 \in CqSlots(x),
                      cq'[x][y1].flags, cq'[x][y2].flags,
                      cq'[x][y1].qid \in SQs, cq'[x][y1].qid = cq'[x][y2].qid,
                      Dist(cqIndex'[x], y1, CqElCount[x]) < Dist(cqIndex'[x], y2, CqElCount[x])
               PROVE  Upto(cq'[x][y1]) <= From(cq'[x][y2])
    BY <1>0 DEF CqSorted, From, Upto, harvestVars
  <2>1. Dist(cqIndex[x], y1, CqElCount[x]) < Dist(cqIndex[x], y2, CqElCount[x])
    BY <1>3, <1>4
  <2> QED BY <2>1, <1>4 DEF IInv, CqSorted
<1>7. CqComplete'
  <2> SUFFICES ASSUME NEW q \in SQs, NEW s \in Slots(q),
                      Dist(ctail[q], s, ElCount[q]) < Dist(ctail[q], devNext[q], ElCount[q])
               PROVE  \E y \in CqSlots(CqOf[q]) :
                        /\ cq'[CqOf[q]][y].flags /\ cq'[CqOf[q]][y].genuine
                        /\ cq'[CqOf[q]][y].qid = q /\ cq'[CqOf[q]][y].index = s
    BY <1>0 DEF CqComplete, harvestVars, devVars
  <2>1. PICK y \in CqSlots(CqOf[q]) :
               /\ cq[CqOf[q]][y].flags /\ cq[CqOf[q]][y].genuine
               /\ cq[CqOf[q]][y].qid = q /\ cq[CqOf[q]][y].index = s
    BY DEF IInv, CqComplete
  <2>2. CqOf[q] # irqCq \/ y # cqIndex[irqCq]
    BY <2>1, <1>1, <1>2
  <2> QED BY <2>1, <2>2, <1>3, Sizes
<1>8. SqTypeOK' /\ DataTypeOK' /\ IrqTypeOK'
  BY <1>0 DEF IInv, TypeOK, SqTypeOK, DataTypeOK, IrqTypeOK, subVars, consVars,
              harvestVars, devVars, irqVars, workVars
<1>9. SlotAccounting' /\ ResultMatchesRequest' /\ RingOrder'
  BY <1>0, SlotFrame, ResultFrame, RingFrame DEF IInv, subVars, consVars, harvestVars, devVars
<1>10. IrqPosition'
  BY <1>0 DEF IrqPosition, irqVars
<1> QED BY <1>3, <1>5, <1>6, <1>7, <1>8, <1>9, <1>10 DEF IInv, TypeOK

\* Writing completion_data at completion_tail touches no completion that has
\* been published.
LEMMA HarvestDataStep ==
    ASSUME IInv, HarvestData
    PROVE  IInv'
<1> DEFINE q == Polled.qid
           s == Polled.index
<1>0. /\ irqCq \in CQs /\ Polled.flags /\ q \in SQs /\ ctail[q] = s
      /\ cmplData' = [cmplData EXCEPT ![q] = [cmplData[q] EXCEPT ![s] = Polled.result]]
      /\ irqPc' = "publish"
      /\ UNCHANGED <<irqCq, irqSq, ctail, subVars, consVars, devVars, cq, cqIndex,
                     cqDoorbell, irqRaised, workVars>>
  BY DEF HarvestData
<1>1. s \in Slots(q)
  BY <1>0, FrontElement
<1>2. Polled \in Element
  <2>1. cqIndex[irqCq] \in CqSlots(irqCq)
    BY <1>0, Sizes DEF IInv, TypeOK, CqTypeOK, CqSlots
  <2> QED BY <1>0, <2>1 DEF IInv, TypeOK, CqTypeOK, Polled
<1>3. /\ DOMAIN cmplData' = SQs
      /\ cmplData'[q] \in [Slots(q) -> Requests]
      /\ cmplData'[q][s] = Polled.result
      /\ \A y \in Slots(q) : y # s => cmplData'[q][y] = cmplData[q][y]
      /\ \A x \in SQs : x # q => cmplData'[x] = cmplData[x]
  <2>1. Polled.result \in Requests
    BY <1>2 DEF Element
  <2> QED BY <1>0, <1>1, <2>1 DEF IInv, TypeOK, DataTypeOK
<1>4. SqTypeOK' /\ DataTypeOK' /\ CqTypeOK'
  BY <1>0, <1>3 DEF IInv, TypeOK, SqTypeOK, DataTypeOK, CqTypeOK, subVars, consVars, devVars
<1>5. IrqTypeOK'
  <2>1. /\ hasPending \in [SQs -> BOOLEAN] /\ intSqList \in Seq(SQs)
        /\ \/ UNCHANGED <<hasPending, intSqList>>
           \/ /\ hasPending' = [hasPending EXCEPT ![q] = TRUE]
              /\ intSqList' = Append(intSqList, q)
    BY DEF HarvestData, IInv, TypeOK, IrqTypeOK
  <2> HIDE DEF q
  <2>2. hasPending' \in [SQs -> BOOLEAN]
    BY <1>0, <2>1, Zenon
  <2>3. intSqList' \in Seq(SQs)
    BY <1>0, <2>1, SMT
  <2> QED BY <1>0, <2>2, <2>3 DEF IInv, TypeOK, IrqTypeOK, devVars, workVars
<1>6. SlotAccounting' /\ RingOrder'
  BY <1>0, SlotFrame, RingFrame DEF IInv, subVars, consVars, devVars
<1>7. ResultMatchesRequest'
  <2> SUFFICES ASSUME NEW x \in SQs, NEW y \in Slots(x),
                      Dist(head[x], y, ElCount[x]) < Dist(head[x], ctail[x], ElCount[x])
               PROVE  cmplData'[x][y] = sqData[x][y]
    BY <1>0 DEF ResultMatchesRequest, subVars, consVars
  <2>1. x = q => y # s
    <3>1. Dist(head[x], ctail[x], ElCount[x]) \in Int
      BY Sizes, DistInt DEF IInv, TypeOK, SqTypeOK
    <3> QED BY <1>0, <3>1
  <2>2. cmplData'[x][y] = cmplData[x][y]
    BY <2>1, <1>3
  <2> QED BY <2>2 DEF IInv, ResultMatchesRequest
<1>8. CqInv'
  BY <1>0, CqFrame DEF IInv, CqInv, subVars, devVars
<1>9. IrqPosition'
  <2>1. Polled' = Polled
    BY <1>0 DEF Polled
  <2> QED BY <1>0, <1>3, <2>1 DEF IrqPosition
<1> QED BY <1>4, <1>5, <1>6, <1>7, <1>8, <1>9 DEF IInv, TypeOK, CqInv

\* Publishing a completion: the front element stood for the slot at
\* completion_tail, so every other element of the SQ stands for later slots
\* and comes one slot nearer.
LEMMA HarvestPublishStep ==
    ASSUME IInv, HarvestPublish
    PROVE  IInv'
<1> DEFINE q == Polled.qid
           n == ElCount[q]
           t == ctail[q]
           f == cqIndex[irqCq]
           F2(e) == IF e.genuine
                      THEN Dist(ctail'[e.qid], e.index, ElCount[e.qid])
                      ELSE Dist(ctail'[e.qid], Succ(e.index, ElCount[e.qid]), ElCount[e.qid])
           U2(e) == IF e.genuine THEN F2(e) + 1 ELSE F2(e)
<1>0. /\ irqPc = "publish" /\ irqCq \in CQs /\ Polled.flags /\ q \in SQs /\ t = Polled.index
      /\ cmplData[q][t] = Polled.result
      /\ ctail' = [ctail EXCEPT ![q] = Succ(t, n)]
      /\ TakeElement /\ irqPc' = "poll"
      /\ UNCHANGED <<irqCq, intSqList, irqSq, hasPending, cmplData, subVars, consVars,
                     devVars, cqDoorbell, irqRaised, workVars>>
  BY DEF HarvestPublish, IInv, IrqPosition
<1>g. Polled.genuine /\ CqOf[q] = irqCq
  BY <1>0, FrontElement
<1>f. f \in CqSlots(irqCq) /\ cq[irqCq][f] = Polled
  BY <1>0, Sizes DEF IInv, TypeOK, CqTypeOK, CqSlots, Polled
<1>1. /\ n \in Nat \ {0, 1} /\ t \in 0..(n - 1) /\ devNext[q] \in 0..(n - 1)
      /\ head[q] \in 0..(n - 1) /\ Slots(q) = 0..(n - 1)
  BY <1>0, DeviceAhead
<1>2. /\ ctail'[q] = Succ(t, n) /\ Succ(t, n) \in 0..(n - 1)
      /\ ctail' \in [SQs -> Nat]
      /\ \A x \in SQs : x # q => ctail'[x] = ctail[x]
  <2> HIDE DEF q, n, t
  <2>1. Succ(t, n) \in 0..(n - 1) /\ Succ(t, n) \in Nat
    BY <1>1, SuccValue
  <2>2. ctail \in [SQs -> Nat]
    BY DEF IInv, TypeOK, SqTypeOK
  <2> QED BY <1>0, <2>1, <2>2
<1>3. /\ CqTypeOK' /\ CqWindow'
      /\ ~cq'[irqCq][f].flags
      /\ \A x \in CQs : \A y \in CqSlots(x) :
            (x # irqCq \/ y # f) => cq'[x][y] = cq[x][y]
      /\ \A x \in CQs : \A y1, y2 \in CqSlots(x) :
            /\ x # irqCq \/ (y1 # f /\ y2 # f)
            /\ Dist(cqIndex'[x], y1, CqElCount[x]) < Dist(cqIndex'[x], y2, CqElCount[x])
            => Dist(cqIndex[x], y1, CqElCount[x]) < Dist(cqIndex[x], y2, CqElCount[x])
      /\ \A y \in CqSlots(irqCq) : y # f =>
            Dist(f, f, CqElCount[irqCq]) < Dist(f, y, CqElCount[irqCq])
  BY <1>0, TakeElementStep DEF devVars
<1>4. \A x \in CQs : \A y \in CqSlots(x) : cq'[x][y].flags =>
          (x # irqCq \/ y # f) /\ cq'[x][y] = cq[x][y]
  BY <1>3
<1>5. From(Polled) = 0 /\ Upto(Polled) = 1
  <2>1. Dist(t, t, n) = 0
    BY <1>1, DistValue
  <2> QED BY <2>1, <1>0, <1>g DEF From, Upto
<1>6. /\ t # devNext[q]
      /\ Dist(Succ(t, n), devNext[q], n) = Dist(t, devNext[q], n) - 1
      /\ Dist(t, devNext[q], n) \in 0..(n - 1)
  <2>1. Dist(t, devNext[q], n) \in 0..(n - 1) /\ Dist(t, t, n) = 0
    BY <1>1, DistValue
  <2>2. 1 <= Dist(t, devNext[q], n)
    BY <1>0, <1>5, <1>f DEF IInv, CqContents
  <2>3. t # devNext[q]
    BY <2>1, <2>2
  <2> QED BY <2>1, <2>3, <1>1, DistSucc
\* What the publication does to the interval of another element.
<1>7. ASSUME NEW x \in CQs, NEW y \in CqSlots(x), cq[x][y].flags, cq[x][y].qid \in SQs,
             x # irqCq \/ y # f
      PROVE  /\ From(cq[x][y]) \in Int
             /\ cq[x][y].qid # q => F2(cq[x][y]) = From(cq[x][y])
             /\ cq[x][y].qid = q => F2(cq[x][y]) = From(cq[x][y]) - 1
  <2> DEFINE z == cq[x][y].qid
             i == IF cq[x][y].genuine THEN cq[x][y].index
                                      ELSE Succ(cq[x][y].index, ElCount[z])
  <2>1. cq[x][y].index \in Slots(z) /\ CqOf[z] = x
    BY <1>7 DEF IInv, CqContents
  <2>2. /\ ElCount[z] \in Nat \ {0, 1} /\ ctail[z] \in 0..(ElCount[z] - 1)
        /\ Slots(z) = 0..(ElCount[z] - 1)
    BY <1>7, DeviceAhead
  <2>3. i \in 0..(ElCount[z] - 1)
    <3>1. cq[x][y].index \in 0..(ElCount[z] - 1)
      BY <2>1, <2>2
    <3> QED BY <3>1, <2>2, SuccValue
  <2>4. /\ From(cq[x][y]) = Dist(ctail[z], i, ElCount[z])
        /\ F2(cq[x][y]) = Dist(ctail'[z], i, ElCount[z])
    BY DEF From
  <2> HIDE DEF i, F2
  <2>5. From(cq[x][y]) \in Int
    BY <2>2, <2>3, <2>4, DistInt
  <2>6. CASE z # q
    BY <2>4, <2>5, <2>6, <1>2, <1>7
  <2>7. CASE z = q
    <3>1. x = irqCq /\ y # f
      BY <2>1, <2>7, <1>7, <1>g
    <3>2. Upto(cq[irqCq][f]) <= From(cq[x][y])
      BY <3>1, <2>7, <1>0, <1>3, <1>7, <1>f DEF IInv, CqSorted
    <3>3. 1 <= Dist(t, i, n)
      BY <3>2, <2>4, <2>7, <1>5, <1>f
    <3>4. Dist(t, t, n) = 0
      BY <1>1, DistValue
    <3>5. t # i
      BY <3>3, <3>4
    <3>6. i \in 0..(n - 1)
      BY <2>3, <2>7
    <3>7. Dist(Succ(t, n), i, n) = Dist(t, i, n) - 1
      BY <3>5, <3>6, <1>1, DistSucc
    <3> QED BY <3>7, <2>4, <2>5, <2>7, <1>2
  <2> QED BY <2>5, <2>6, <2>7
<1>8. \A x \in SQs : Dist(ctail[x], devNext[x], ElCount[x]) \in Int
  <2>1. ASSUME NEW x \in SQs PROVE Dist(ctail[x], devNext[x], ElCount[x]) \in Int
    BY DeviceAhead
  <2> QED BY <2>1
<1>9. CqContents'
  <2> SUFFICES ASSUME NEW x \in CQs, NEW y \in CqSlots(x), cq'[x][y].flags
               PROVE  /\ cq[x][y].genuine => cq[x][y].qid \in SQs
                      /\ cq[x][y].qid \in SQs =>
                           /\ CqOf[cq[x][y].qid] = x
                           /\ cq[x][y].index \in Slots(cq[x][y].qid)
                           /\ U2(cq[x][y]) <= Dist(ctail'[cq[x][y].qid], devNext[cq[x][y].qid],
                                                   ElCount[cq[x][y].qid])
                      /\ cq[x][y].genuine => cq[x][y].result = sqData[cq[x][y].qid][cq[x][y].index]
    BY <1>0, <1>4, SMTT(30) DEF CqContents, From, Upto, subVars, devVars
  <2> DEFINE z == cq[x][y].qid
  <2>1. cq[x][y].flags /\ (x # irqCq \/ y # f)
    BY <1>4
  <2>2. /\ cq[x][y].genuine => z \in SQs
        /\ z \in SQs => /\ CqOf[z] = x
                        /\ cq[x][y].index \in Slots(z)
                        /\ Upto(cq[x][y]) <= Dist(ctail[z], devNext[z], ElCount[z])
        /\ cq[x][y].genuine => cq[x][y].result = sqData[z][cq[x][y].index]
    BY <2>1 DEF IInv, CqContents
  <2>3. ASSUME z \in SQs
        PROVE  U2(cq[x][y]) <= Dist(ctail'[z], devNext[z], ElCount[z])
    <3>1. /\ From(cq[x][y]) \in Int
          /\ z # q => F2(cq[x][y]) = From(cq[x][y])
          /\ z = q => F2(cq[x][y]) = From(cq[x][y]) - 1
      BY <1>7, <2>1, <2>3
    <3> HIDE DEF F2
    <3>2. CASE z # q
      BY <3>1, <3>2, <2>2, <2>3, <1>2, <1>8 DEF Upto
    <3>3. CASE z = q
      BY <3>1, <3>3, <2>2, <2>3, <1>2, <1>6, <1>8, <1>1 DEF Upto
    <3> QED BY <3>2, <3>3
  <2> HIDE DEF U2
  <2> QED BY <2>2, <2>3
<1>10. CqSorted'
  <2> SUFFICES ASSUME NEW x \in CQs, NEW y1 \in CqSlots(x), NEW y2 \in CqSlots(x),
                      cq'[x][y1].flags, cq'[x][y2].flags,
                      cq'[x][y1].qid \in SQs, cq'[x][y1].qid = cq'[x][y2].qid,
                      Dist(cqIndex'[x], y1, CqElCount[x]) < Dist(cqIndex'[x], y2, CqElCount[x])
               PROVE  U2(cq'[x][y1]) <= F2(cq'[x][y2])
    BY <1>0 DEF CqSorted, From, Upto
  <2>1. /\ cq'[x][y1] = cq[x][y1] /\ (x # irqCq \/ y1 # f)
        /\ cq'[x][y2] = cq[x][y2] /\ (x # irqCq \/ y2 # f)
    BY <1>4
  <2>2. Dist(cqIndex[x], y1, CqElCount[x]) < Dist(cqIndex[x], y2, CqElCount[x])
    BY <1>3, <2>1
  <2>3. Upto(cq[x][y1]) <= From(cq[x][y2])
    BY <2>1, <2>2 DEF IInv, CqSorted
  <2>4. /\ From(cq[x][y1]) \in Int
        /\ cq[x][y1].qid # q => F2(cq[x][y1]) = From(cq[x][y1])
        /\ cq[x][y1].qid = q => F2(cq[x][y1]) = From(cq[x][y1]) - 1
    BY <1>7, <2>1
  <2>5. /\ From(cq[x][y2]) \in Int
        /\ cq[x][y2].qid # q => F2(cq[x][y2]) = From(cq[x][y2])
        /\ cq[x][y2].qid = q => F2(cq[x][y2]) = From(cq[x][y2]) - 1
    BY <1>7, <2>1
  <2> HIDE DEF F2
  <2> QED BY <2>1, <2>3, <2>4, <2>5 DEF Upto
<1>11. CqComplete'
  <2> SUFFICES ASSUME NEW x \in SQs, NEW s \in Slots(x),
                      Dist(ctail'[x], s, ElCount[x]) < Dist(ctail'[x], devNext[x], ElCount[x])
               PROVE  \E y \in CqSlots(CqOf[x]) :
                        /\ cq'[CqOf[x]][y].flags /\ cq'[CqOf[x]][y].genuine
                        /\ cq'[CqOf[x]][y].qid = x /\ cq'[CqOf[x]][y].index = s
    BY <1>0 DEF CqComplete, devVars
  <2>1. /\ Dist(ctail[x], s, ElCount[x]) < Dist(ctail[x], devNext[x], ElCount[x])
        /\ x = q => s # t
    <3>1. CASE x # q
      BY <3>1, <1>2
    <3>2. CASE x = q
      <4>1. s \in 0..(n - 1)
        BY <3>2, <1>1
      <4>2. /\ Dist(Succ(t, n), t, n) = n - 1
            /\ t # s => Dist(Succ(t, n), s, n) = Dist(t, s, n) - 1
            /\ Dist(t, s, n) \in Int
        BY <4>1, <1>1, DistSucc, DistInt
      <4>3. Dist(Succ(t, n), s, n) < Dist(t, devNext[q], n) - 1
        BY <3>2, <1>2, <1>6
      <4> QED BY <3>2, <4>2, <4>3, <1>6, <1>1
    <3> QED BY <3>1, <3>2
  <2>2. PICK y \in CqSlots(CqOf[x]) :
               /\ cq[CqOf[x]][y].flags /\ cq[CqOf[x]][y].genuine
               /\ cq[CqOf[x]][y].qid = x /\ cq[CqOf[x]][y].index = s
    BY <2>1 DEF IInv, CqComplete
  <2>3. CqOf[x] # irqCq \/ y # f
    BY <2>1, <2>2, <1>0, <1>f
  <2> QED BY <2>2, <2>3, <1>3, Sizes
<1>12. TypeOK'
  <2>0. \A x \in SQs : ctail'[x] < ElCount[x]
    <3> HIDE DEF q, t
    <3>1. \A x \in SQs : ctail[x] < ElCount[x]
      BY DEF IInv, TypeOK, SqTypeOK
    <3> QED BY <1>1, <1>2, <3>1
  <2>1. SqTypeOK' /\ DataTypeOK'
    BY <1>0, <1>2, <2>0 DEF IInv, TypeOK, SqTypeOK, DataTypeOK, subVars, consVars, devVars
  <2>2. IrqTypeOK'
    BY <1>0 DEF IInv, TypeOK, IrqTypeOK, devVars, workVars
  <2> QED BY <2>1, <2>2, <1>3 DEF TypeOK
<1>d. /\ Dist(head[q], t, n) <= Dist(head[q], devNext[q], n)
      /\ Dist(head[q], t, n) \in 0..(n - 1) /\ Dist(head[q], devNext[q], n) \in 0..(n - 1)
      /\ Dist(head[q], Succ(t, n), n) = Dist(head[q], t, n) + 1
      /\ Dist(head[q], t, n) < Dist(head[q], devNext[q], n)
  <2>1. Dist(head[q], t, n) <= Dist(head[q], devNext[q], n)
    BY <1>0 DEF IInv, RingOrder
  <2>2. Dist(head[q], t, n) \in 0..(n - 1) /\ Dist(head[q], devNext[q], n) \in 0..(n - 1)
    BY <1>1, DistValue
  <2>3. Dist(head[q], t, n) # Dist(head[q], devNext[q], n)
    BY <1>1, <1>6, DistSplit
  <2>4. Dist(head[q], t, n) # n - 1
    BY <2>1, <2>2, <2>3, <1>1
  <2>5. Dist(head[q], Succ(t, n), n) = Dist(head[q], t, n) + 1
    BY <2>4, <1>1, DistSucc
  <2> QED BY <2>1, <2>2, <2>3, <2>5, <1>1
<1>13. RingOrder'
  <2> SUFFICES ASSUME NEW x \in SQs
               PROVE  /\ Dist(head[x], cidx[x], ElCount[x]) <= Dist(head[x], ctail'[x], ElCount[x])
                      /\ Dist(head[x], ctail'[x], ElCount[x]) <= Dist(head[x], devNext[x], ElCount[x])
                      /\ Dist(head[x], devNext[x], ElCount[x]) <= Dist(head[x], doorbell[x], ElCount[x])
                      /\ Dist(head[x], doorbell[x], ElCount[x]) <= Dist(head[x], tail[x], ElCount[x])
    BY <1>0 DEF RingOrder, subVars, consVars, devVars
  <2>1. CASE x # q
    BY <2>1, <1>2 DEF IInv, RingOrder
  <2>2. CASE x = q
    <3>1. Dist(head[q], cidx[q], n) \in Int
      <4>1. cidx[q] \in 0..(n - 1)
        <5>1. \A y \in SQs : cidx[y] \in Nat /\ cidx[y] < ElCount[y]
          BY DEF IInv, TypeOK, SqTypeOK
        <5> HIDE DEF q
        <5> QED BY <1>0, <1>1, <5>1
      <4> QED BY <4>1, <1>1, DistInt
    <3>2. /\ Dist(head[q], cidx[q], n) <= Dist(head[q], t, n)
          /\ Dist(head[q], devNext[q], n) <= Dist(head[q], doorbell[q], n)
          /\ Dist(head[q], doorbell[q], n) <= Dist(head[q], tail[q], n)
      BY <1>0 DEF IInv, RingOrder
    <3>3. /\ Dist(head[q], ctail'[q], n) = Dist(head[q], t, n) + 1
          /\ Dist(head[q], t, n) \in Int /\ Dist(head[q], devNext[q], n) \in Int
          /\ Dist(head[q], t, n) < Dist(head[q], devNext[q], n)
      BY <1>2, <1>d
    <3>4. /\ Dist(head[q], cidx[q], n) <= Dist(head[q], ctail'[q], n)
          /\ Dist(head[q], ctail'[q], n) <= Dist(head[q], devNext[q], n)
      <4> HIDE DEF q, n, t
      <4> QED BY <3>1, <3>2, <3>3
    <3> QED BY <2>2, <3>2, <3>4
  <2> QED BY <2>1, <2>2
<1>14. SlotAccounting'
  BY <1>0, SlotFrame DEF IInv, subVars, consVars
<1>15. ResultMatchesRequest'
  <2> SUFFICES ASSUME NEW x \in SQs, NEW s \in Slots(x),
                      Dist(head[x], s, ElCount[x]) < Dist(head[x], ctail'[x], ElCount[x])
               PROVE  cmplData[x][s] = sqData[x][s]
    BY <1>0 DEF ResultMatchesRequest, subVars, consVars
  <2>1. CASE x = q /\ s = t
    BY <2>1, <1>0, <1>f, <1>g DEF IInv, CqContents
  <2>2. CASE ~(x = q /\ s = t)
    <3>1. Dist(head[x], s, ElCount[x]) < Dist(head[x], ctail[x], ElCount[x])
      <4>1. CASE x # q
        BY <4>1, <1>2
      <4>2. CASE x = q
        <5>1. Dist(head[q], s, n) \in Int /\ Dist(head[q], s, n) # Dist(head[q], t, n)
          <6>1. s \in 0..(n - 1) /\ s # t
            BY <4>2, <2>2, <1>1
          <6>2. Dist(head[q], s, n) \in Int
            BY <6>1, <1>1, DistInt
          <6>3. Dist(head[q], s, n) = Dist(head[q], t, n) => s = t
            BY <6>1, <1>1, DistSplit
          <6> QED BY <6>1, <6>2, <6>3
        <5> QED BY <4>2, <5>1, <1>2, <1>d, <1>1
      <4> QED BY <4>1, <4>2
    <3> QED BY <3>1 DEF IInv, ResultMatchesRequest
  <2> QED BY <2>1, <2>2
<1>16. IrqPosition'
  BY <1>0 DEF IrqPosition
<1> QED BY <1>3, <1>9, <1>10, <1>11, <1>12, <1>13, <1>14, <1>15, <1>16 DEF IInv

\* The doorbell of a CQ acknowledges the elements that were taken.
LEMMA PollEndStep ==
    ASSUME IInv, PollEnd
    PROVE  IInv'
<1>0. /\ irqPc = "poll" /\ irqCq \in CQs
      /\ cqDoorbell' = [cqDoorbell EXCEPT ![irqCq] = cqIndex[irqCq]]
      /\ irqCq' = irqCq + 1
      /\ UNCHANGED <<irqPc, intSqList, irqSq, hasPending, subVars, consVars, harvestVars,
                     devVars, cq, cqIndex, irqRaised, workVars>>
  BY DEF PollEnd
<1>1. CqTypeOK'
  BY <1>0 DEF IInv, TypeOK, CqTypeOK, devVars
<1>2. IrqTypeOK'
  <2>1. irqCq' \in 1..(CQCount + 1)
    BY <1>0, QueueAssumption DEF CQs
  <2> QED BY <1>0, <2>1 DEF IInv, TypeOK, IrqTypeOK, devVars, workVars
<1>3. SqTypeOK' /\ DataTypeOK'
  BY <1>0 DEF IInv, TypeOK, SqTypeOK, DataTypeOK, subVars, consVars, harvestVars, devVars
<1>4. CqWindow'
  <2> SUFFICES ASSUME NEW c \in CQs
               PROVE  /\ Dist(cqDoorbell'[c], cqIndex[c], CqElCount[c])
                            <= Dist(cqDoorbell'[c], cqDev[c], CqElCount[c])
                      /\ \A p \in CqSlots(c) :
                            cq[c][p].flags <=> Dist(cqIndex[c], p, CqElCount[c])
                                < Dist(cqIndex[c], cqDev[c], CqElCount[c])
    BY <1>0 DEF CqWindow, devVars
  <2>1. \A p \in CqSlots(c) :
            cq[c][p].flags <=> Dist(cqIndex[c], p, CqElCount[c])
                < Dist(cqIndex[c], cqDev[c], CqElCount[c])
    BY DEF IInv, CqWindow
  <2>2. CASE c # irqCq
    BY <2>1, <2>2, <1>0 DEF IInv, CqWindow, TypeOK, CqTypeOK
  <2>3. CASE c = irqCq
    <3>1. cqDoorbell'[c] = cqIndex[c]
      BY <2>3, <1>0 DEF IInv, TypeOK, CqTypeOK
    <3>2. /\ CqElCount[c] \in Nat \ {0, 1} /\ cqIndex[c] \in 0..(CqElCount[c] - 1)
          /\ cqDev[c] \in 0..(CqElCount[c] - 1)
      BY Sizes DEF IInv, TypeOK, CqTypeOK
    <3>3. /\ Dist(cqIndex[c], cqIndex[c], CqElCount[c]) = 0
          /\ Dist(cqIndex[c], cqDev[c], CqElCount[c]) \in 0..(CqElCount[c] - 1)
      BY <3>2, DistValue
    <3> QED BY <2>1, <3>1, <3>2, <3>3
  <2> QED BY <2>2, <2>3
<1>5. CqContents' /\ CqSorted' /\ CqComplete'
  <2>1. CqContents'
    BY <1>0, SMTT(30) DEF IInv, CqContents, Upto, From, subVars, harvestVars, devVars
  <2>2. CqSorted'
    BY <1>0, SMTT(30) DEF IInv, CqSorted, Upto, From, harvestVars, devVars
  <2>3. CqComplete'
    BY <1>0, SMTT(30) DEF IInv, CqComplete, harvestVars, devVars
  <2> QED BY <2>1, <2>2, <2>3
<1>6. SlotAccounting' /\ ResultMatchesRequest' /\ RingOrder'
  BY <1>0, SlotFrame, ResultFrame, RingFrame DEF IInv, subVars, consVars, harvestVars, devVars
<1>7. IrqPosition'
  BY <1>0 DEF IrqPosition
<1> QED BY <1>1, <1>2, <1>3, <1>4, <1>5, <1>6, <1>7 DEF IInv, TypeOK

-----------------------------------------------------------------------------
(* Dispatch and the consumers.                                             *)

\* A step that leaves the rings alone only has to say where the interrupt
\* thread went.
LEMMA QuietStep ==
    ASSUME IInv, IrqTypeOK', IrqPosition',
           UNCHANGED <<subVars, consVars, harvestVars, devVars, cq, cqIndex, cqDoorbell>>
    PROVE  IInv'
<1>1. SqTypeOK' /\ DataTypeOK' /\ CqTypeOK'
  BY DEF IInv, TypeOK, SqTypeOK, DataTypeOK, CqTypeOK, subVars, consVars, harvestVars, devVars
<1>2. SlotAccounting' /\ ResultMatchesRequest' /\ RingOrder'
  BY SlotFrame, ResultFrame, RingFrame DEF IInv, subVars, consVars, harvestVars, devVars
<1>3. CqInv'
  BY CqFrame DEF IInv, CqInv, subVars, harvestVars, devVars
<1> QED BY <1>1, <1>2, <1>3 DEF IInv, TypeOK, CqInv

\* Starting and ending a pass, walking int_sq_list, and starting and ending
\* a work item.
LEMMA DispatchStep ==
    ASSUME IInv,
           \/ IrqStart \/ DispatchStart \/ DispatchDeferred \/ DispatchInline
           \/ DispatchNext \/ IrqEnd \/ \E q \in SQs : WorkStart(q) \/ WorkEnd(q)
    PROVE  IInv'
<1> USE DEF IrqStart, DispatchStart, DispatchDeferred, DispatchInline, DispatchNext,
            IrqEnd, WorkStart, WorkEnd
<1>1. UNCHANGED <<subVars, consVars, harvestVars, devVars, cq, cqIndex, cqDoorbell>>
  BY DEF consVars
<1>2. IrqTypeOK'
  <2>0. /\ hasPending \in [SQs -> BOOLEAN] /\ queued \in [SQs -> BOOLEAN]
        /\ running \in [SQs -> BOOLEAN] /\ irqRaised \in BOOLEAN
        /\ irqPc \in {"idle", "poll", "publish", "dispatch", "callback"}
        /\ irqCq \in 1..(CQCount + 1) /\ intSqList \in Seq(SQs) /\ irqSq \in Nat \ {0}
        /\ faults \in Nat
    BY DEF IInv, TypeOK, IrqTypeOK
  <2>1. hasPending' \in [SQs -> BOOLEAN]
    <3>1. \/ hasPending' = hasPending
          \/ hasPending' = [hasPending EXCEPT ![Dispatched] = FALSE]
      BY DEF irqVars
    <3> QED BY <2>0, <3>1, Zenon
  <2>2. queued' \in [SQs -> BOOLEAN] /\ running' \in [SQs -> BOOLEAN]
    <3>1. /\ \/ queued' = queued
             \/ queued' = [queued EXCEPT ![Dispatched] = TRUE]
             \/ \E q \in SQs : queued' = [queued EXCEPT ![q] = FALSE]
          /\ \/ running' = running
             \/ running' = [running EXCEPT ![Dispatched] = TRUE]
             \/ running' = [running EXCEPT ![Dispatched] = FALSE]
             \/ \E q \in SQs : \/ running' = [running EXCEPT ![q] = TRUE]
                               \/ running' = [running EXCEPT ![q] = FALSE]
      BY Zenon DEF workVars
    <3> QED BY <2>0, <3>1, Zenon
  <2>3. /\ irqPc' \in {"idle", "poll", "publish", "dispatch", "callback"}
        /\ irqCq' \in 1..(CQCount + 1) /\ irqSq' \in Nat \ {0}
    <3>1. /\ irqPc' \in {irqPc, "idle", "poll", "dispatch", "callback"}
          /\ irqCq' \in {irqCq, 1} /\ irqSq' \in {irqSq, 1, irqSq + 1}
      BY DEF irqVars
    <3>2. CQCount \in Nat
      BY QueueAssumption
    <3> HIDE DEF IrqStart, DispatchStart, DispatchDeferred, DispatchInline,
                 DispatchNext, IrqEnd, WorkStart, WorkEnd
    <3> QED BY <2>0, <3>1, <3>2
  <2>4. irqRaised' \in BOOLEAN /\ faults' \in Nat
    BY <2>0, <1>1 DEF devVars
  <2>5. intSqList' \in Seq(SQs)
    <3>1. intSqList' = intSqList \/ intSqList' = <<>>
      BY DEF irqVars
    <3>2. <<>> \in Seq(SQs)
      OBVIOUS
    <3>3. intSqList \in Seq(SQs)
      BY <2>0
    <3> QED BY <3>1, <3>2, <3>3
  <2> QED BY <2>1, <2>2, <2>3, <2>4, <2>5 DEF IrqTypeOK
<1>3. IrqPosition'
  <2>1. CASE \E q \in SQs : WorkStart(q) \/ WorkEnd(q)
    <3>1. UNCHANGED <<irqPc, irqCq, irqSq, intSqList, cq, cqIndex, ctail, cmplData>>
      BY <2>1, <1>1 DEF irqVars, harvestVars
    <3> QED BY <3>1, IrqFrame DEF IInv
  <2>2. CASE DispatchInline
    BY <2>2 DEF IrqPosition
  <2>3. CASE IrqStart \/ DispatchStart \/ DispatchDeferred \/ DispatchNext \/ IrqEnd
    BY <2>3 DEF IrqPosition
  <2> QED BY <2>1, <2>2, <2>3
<1> QED BY <1>1, <1>2, <1>3, QuietStep

\* bce_next_completion stays behind completion_tail.
LEMMA NextCompletionStep ==
    ASSUME IInv, NEW q \in SQs, NextCompletion(q)
    PROVE  IInv'
<1> DEFINE n == ElCount[q]
<1>0. /\ cidx[q] # ctail[q]
      /\ cidx' = [cidx EXCEPT ![q] = Succ(cidx[q], n)]
      /\ UNCHANGED <<head, subVars, harvestVars, devVars, cq, cqIndex, cqDoorbell,
                     irqRaised, irqVars, workVars>>
  BY DEF NextCompletion
<1>1. /\ n \in Nat \ {0, 1} /\ cidx[q] \in 0..(n - 1) /\ ctail[q] \in 0..(n - 1)
      /\ head[q] \in 0..(n - 1) /\ cidx \in [SQs -> Nat]
  BY Sizes DEF IInv, TypeOK, SqTypeOK
<1>2. Succ(cidx[q], n) \in 0..(n - 1)
  BY <1>1, SuccValue
<1>3. /\ cidx' \in [SQs -> Nat] /\ cidx'[q] = Succ(cidx[q], n)
      /\ \A x \in SQs : x # q => cidx'[x] = cidx[x]
  BY <1>0, <1>1, <1>2
<1>4. TypeOK'
  <2>1. \A x \in SQs : cidx'[x] < ElCount[x]
    BY <1>1, <1>2, <1>3 DEF IInv, TypeOK, SqTypeOK
  <2>2. SqTypeOK'
    BY <1>0, <1>3, <2>1 DEF IInv, TypeOK, SqTypeOK, subVars, harvestVars, devVars
  <2>3. DataTypeOK' /\ CqTypeOK' /\ IrqTypeOK'
    BY <1>0 DEF IInv, TypeOK, DataTypeOK, CqTypeOK, IrqTypeOK, subVars, harvestVars,
                devVars, irqVars, workVars
  <2> QED BY <2>2, <2>3 DEF TypeOK
<1>5. RingOrder'
  <2> SUFFICES ASSUME NEW x \in SQs
               PROVE  /\ Dist(head[x], cidx'[x], ElCount[x]) <= Dist(head[x], ctail[x], ElCount[x])
                      /\ Dist(head[x], ctail[x], ElCount[x]) <= Dist(head[x], devNext[x], ElCount[x])
                      /\ Dist(head[x], devNext[x], ElCount[x]) <= Dist(head[x], doorbell[x], ElCount[x])
                      /\ Dist(head[x], doorbell[x], ElCount[x]) <= Dist(head[x], tail[x], ElCount[x])
    BY <1>0 DEF RingOrder, subVars, harvestVars, devVars
  <2>1. CASE x # q
    BY <2>1, <1>3 DEF IInv, RingOrder
  <2>2. CASE x = q
    <3>1. /\ Dist(head[q], cidx[q], n) \in 0..(n - 1) /\ Dist(head[q], ctail[q], n) \in 0..(n - 1)
      BY <1>1, DistValue
    <3>2. Dist(head[q], cidx[q], n) # Dist(head[q], ctail[q], n)
      BY <1>0, <1>1, DistSplit
    <3>3. Dist(head[q], cidx[q], n) <= Dist(head[q], ctail[q], n)
      BY DEF IInv, RingOrder
    <3>4. Dist(head[q], cidx[q], n) # n - 1
      BY <3>1, <3>2, <3>3, <1>1
    <3>5. Dist(head[q], Succ(cidx[q], n), n) = Dist(head[q], cidx[q], n) + 1
      BY <3>4, <1>1, DistSucc
    <3>6. Dist(head[q], cidx'[q], n) <= Dist(head[q], ctail[q], n)
      BY <3>1, <3>2, <3>3, <3>5, <1>1, <1>3
    <3> QED BY <2>2, <3>6 DEF IInv, RingOrder
  <2> QED BY <2>1, <2>2
<1>6. SlotAccounting' /\ ResultMatchesRequest'
  BY <1>0, SlotFrame, ResultFrame DEF IInv, subVars, harvestVars
<1>7. CqInv' /\ IrqPosition'
  BY <1>0, CqFrame, IrqFrame DEF IInv, CqInv, subVars, harvestVars, devVars, irqVars
<1> QED BY <1>4, <1>5, <1>6, <1>7 DEF IInv, CqInv

\* bce_notify_submission_complete: every position is one slot nearer to the
\* new head.
LEMMA NotifyStep ==
    ASSUME IInv, NEW q \in SQs, NotifySubmissionComplete(q)
    PROVE  IInv'
<1> DEFINE n == ElCount[q]
           h == head[q]
<1>0. /\ h # cidx[q]
      /\ head' = [head EXCEPT ![q] = Succ(h, n)]
      /\ available' = [available EXCEPT ![q] = available[q] + 1]
      /\ awake' = [awake EXCEPT ![q] = awake[q] + sleeping[q]]
      /\ sleeping' = [sleeping EXCEPT ![q] = 0]
      /\ UNCHANGED <<reserved, tail, sqData, doorbell, cidx, harvestVars, devVars, cq,
                     cqIndex, cqDoorbell, irqRaised, irqVars, workVars>>
  BY DEF NotifySubmissionComplete
<1>1. /\ n \in Nat \ {0, 1} /\ h \in 0..(n - 1) /\ cidx[q] \in 0..(n - 1)
      /\ ctail[q] \in 0..(n - 1) /\ devNext[q] \in 0..(n - 1)
      /\ doorbell[q] \in 0..(n - 1) /\ tail[q] \in 0..(n - 1)
      /\ Slots(q) = 0..(n - 1)
  BY Sizes DEF IInv, TypeOK, SqTypeOK, Slots
<1>2. Succ(h, n) \in 0..(n - 1)
  BY <1>1, SuccValue
<1>3. /\ head' \in [SQs -> Nat] /\ head'[q] = Succ(h, n)
      /\ \A x \in SQs : x # q => head'[x] = head[x]
      /\ available' \in [SQs -> Nat] /\ available'[q] = available[q] + 1
      /\ \A x \in SQs : x # q => available'[x] = available[x]
  BY <1>0, <1>2 DEF IInv, TypeOK, SqTypeOK
<1>4. TypeOK'
  <2>1. \A x \in SQs : head'[x] < ElCount[x]
    <3>1. \A x \in SQs : head[x] < ElCount[x]
      BY DEF IInv, TypeOK, SqTypeOK
    <3>2. head'[q] < ElCount[q]
      BY <1>1, <1>2, <1>3
    <3> QED BY <1>3, <3>1, <3>2
  <2>2. awake' \in [SQs -> Nat] /\ sleeping' \in [SQs -> Nat]
    BY <1>0 DEF IInv, TypeOK, SqTypeOK
  <2>3. SqTypeOK'
    BY <1>0, <1>3, <2>1, <2>2 DEF IInv, TypeOK, SqTypeOK, harvestVars, devVars
  <2>4. DataTypeOK' /\ CqTypeOK' /\ IrqTypeOK'
    BY <1>0 DEF IInv, TypeOK, DataTypeOK, CqTypeOK, IrqTypeOK, harvestVars, devVars,
                irqVars, workVars
  <2> QED BY <2>3, <2>4 DEF TypeOK
<1>5. ASSUME NEW s \in 0..(n - 1)
      PROVE  /\ Dist(h, s, n) \in 0..(n - 1)
             /\ h # s => Dist(Succ(h, n), s, n) = Dist(h, s, n) - 1
             /\ h # s => Dist(h, s, n) > 0
             /\ Dist(h, h, n) = 0 /\ Dist(Succ(h, n), h, n) = n - 1
  <2>1. Dist(h, s, n) \in 0..(n - 1) /\ Dist(h, h, n) = 0 /\ (h # s => Dist(h, s, n) # 0)
    BY <1>1, DistValue
  <2>2. /\ h # s => Dist(Succ(h, n), s, n) = Dist(h, s, n) - 1
        /\ Dist(Succ(h, n), h, n) = n - 1
    BY <1>1, DistSucc
  <2> QED BY <2>1, <2>2, <1>1
<1>6. /\ Dist(h, cidx[q], n) <= Dist(h, ctail[q], n)
      /\ Dist(h, ctail[q], n) <= Dist(h, devNext[q], n)
      /\ Dist(h, devNext[q], n) <= Dist(h, doorbell[q], n)
      /\ Dist(h, doorbell[q], n) <= Dist(h, tail[q], n)
  BY DEF IInv, RingOrder
<1>7. ASSUME NEW s \in 0..(n - 1), Dist(h, cidx[q], n) <= Dist(h, s, n)
      PROVE  /\ Dist(Succ(h, n), s, n) = Dist(h, s, n) - 1
             /\ Dist(h, s, n) \in 0..(n - 1)
  <2>1. Dist(h, cidx[q], n) > 0 /\ Dist(h, cidx[q], n) \in Int
    <3>1. /\ Dist(h, cidx[q], n) \in 0..(n - 1)
          /\ Dist(h, cidx[q], n) = 0 <=> h = cidx[q]
      BY <1>1, DistValue
    <3> QED BY <3>1, <1>0, <1>1
  <2>2. h # s
    BY <1>5, <1>7, <2>1
  <2> QED BY <1>5, <2>2
<1>p. \A s \in {cidx[q], ctail[q], devNext[q], doorbell[q], tail[q]} :
         /\ Dist(Succ(h, n), s, n) = Dist(h, s, n) - 1
         /\ Dist(h, s, n) \in 0..(n - 1)
  <2>1. \A s \in {cidx[q], ctail[q], devNext[q], doorbell[q], tail[q]} :
           s \in 0..(n - 1) /\ Dist(h, s, n) \in Int
    BY <1>1, DistInt
  <2>2. \A s \in {cidx[q], ctail[q], devNext[q], doorbell[q], tail[q]} :
           Dist(h, cidx[q], n) <= Dist(h, s, n)
    <3> HIDE DEF h, n
    <3> QED BY <1>6, <2>1
  <2> QED BY <1>7, <2>1, <2>2
<1>8. RingOrder'
  <2> SUFFICES ASSUME NEW x \in SQs
               PROVE  /\ Dist(head'[x], cidx[x], ElCount[x]) <= Dist(head'[x], ctail[x], ElCount[x])
                      /\ Dist(head'[x], ctail[x], ElCount[x]) <= Dist(head'[x], devNext[x], ElCount[x])
                      /\ Dist(head'[x], devNext[x], ElCount[x]) <= Dist(head'[x], doorbell[x], ElCount[x])
                      /\ Dist(head'[x], doorbell[x], ElCount[x]) <= Dist(head'[x], tail[x], ElCount[x])
    BY <1>0 DEF RingOrder, harvestVars, devVars
  <2>1. CASE x # q
    BY <2>1, <1>3 DEF IInv, RingOrder
  <2>2. CASE x = q
    <3>1. /\ Dist(Succ(h, n), cidx[q], n) <= Dist(Succ(h, n), ctail[q], n)
          /\ Dist(Succ(h, n), ctail[q], n) <= Dist(Succ(h, n), devNext[q], n)
          /\ Dist(Succ(h, n), devNext[q], n) <= Dist(Succ(h, n), doorbell[q], n)
          /\ Dist(Succ(h, n), doorbell[q], n) <= Dist(Succ(h, n), tail[q], n)
      <4>1. /\ Dist(Succ(h, n), cidx[q], n) = Dist(h, cidx[q], n) - 1
            /\ Dist(Succ(h, n), ctail[q], n) = Dist(h, ctail[q], n) - 1
            /\ Dist(Succ(h, n), devNext[q], n) = Dist(h, devNext[q], n) - 1
            /\ Dist(Succ(h, n), doorbell[q], n) = Dist(h, doorbell[q], n) - 1
            /\ Dist(Succ(h, n), tail[q], n) = Dist(h, tail[q], n) - 1
        BY <1>p
      <4>2. /\ Dist(h, cidx[q], n) \in Int /\ Dist(h, ctail[q], n) \in Int
            /\ Dist(h, devNext[q], n) \in Int /\ Dist(h, doorbell[q], n) \in Int
            /\ Dist(h, tail[q], n) \in Int
        BY <1>1, DistInt
      <4> HIDE DEF h, n
      <4> QED BY <1>6, <4>1, <4>2
    <3> QED BY <2>2, <3>1, <1>3
  <2> QED BY <2>1, <2>2
<1>9. SlotAccounting'
  <2> SUFFICES ASSUME NEW x \in SQs
               PROVE  available'[x] + reserved[x] + Dist(head'[x], tail[x], ElCount[x])
                         = ElCount[x] - 1
    BY <1>0 DEF SlotAccounting
  <2>1. CASE x # q
    BY <2>1, <1>3 DEF IInv, SlotAccounting
  <2>2. CASE x = q
    <3>1. available[q] + reserved[q] + Dist(h, tail[q], n) = n - 1
      BY DEF IInv, SlotAccounting
    <3>2. available[q] \in Nat /\ reserved[q] \in Nat
      BY DEF IInv, TypeOK, SqTypeOK
    <3>3. Dist(head'[q], tail[q], n) = Dist(h, tail[q], n) - 1 /\ Dist(h, tail[q], n) \in Int
      <4>1. Dist(Succ(h, n), tail[q], n) = Dist(h, tail[q], n) - 1 /\ Dist(h, tail[q], n) \in Int
        BY <1>1, <1>p
      <4> QED BY <4>1, <1>3
    <3>4. available'[q] + reserved[q] + Dist(head'[q], tail[q], n) = n - 1
      <4>1. available'[q] = available[q] + 1
        BY <1>3
      <4>2. \A a, r, d, m \in Int : a + r + d = m => (a + 1) + r + (d - 1) = m
        OBVIOUS
      <4>3. n - 1 \in Int /\ available[q] \in Int /\ reserved[q] \in Int
        BY <3>2, <1>1
      <4>4. (available[q] + 1) + reserved[q] + (Dist(h, tail[q], n) - 1) = n - 1
        <5> HIDE DEF h, n
        <5> QED BY <3>1, <3>3, <4>2, <4>3
      <4> QED BY <3>3, <4>1, <4>4
    <3> QED BY <2>2, <3>4
  <2> QED BY <2>1, <2>2
<1>10. ResultMatchesRequest'
  <2> SUFFICES ASSUME NEW x \in SQs, NEW s \in Slots(x),
                      Dist(head'[x], s, ElCount[x]) < Dist(head'[x], ctail[x], ElCount[x])
               PROVE  cmplData[x][s] = sqData[x][s]
    BY <1>0 DEF ResultMatchesRequest, harvestVars
  <2>1. Dist(head[x], s, ElCount[x]) < Dist(head[x], ctail[x], ElCount[x])
    <3>1. CASE x # q
      BY <3>1, <1>3
    <3>2. CASE x = q
      <4>1. s \in 0..(n - 1)
        BY <3>2, <1>1
      <4>2. /\ Dist(Succ(h, n), ctail[q], n) = Dist(h, ctail[q], n) - 1
            /\ Dist(h, ctail[q], n) \in 0..(n - 1)
        BY <1>p
      <4>3. Dist(Succ(h, n), s, n) < Dist(Succ(h, n), ctail[q], n)
        BY <3>2, <1>3
      <4>4. /\ h # s => Dist(Succ(h, n), s, n) = Dist(h, s, n) - 1
            /\ Dist(h, s, n) \in 0..(n - 1)
            /\ Dist(Succ(h, n), h, n) = n - 1
        BY <4>1, <1>5
      <4>5. Dist(h, s, n) < Dist(h, ctail[q], n)
        <5> HIDE DEF h, n
        <5> QED BY <4>2, <4>3, <4>4, <1>1
      <4> QED BY <3>2, <4>5
    <3> QED BY <3>1, <3>2
  <2> QED BY <2>1 DEF IInv, ResultMatchesRequest
<1>11. CqInv' /\ IrqPosition'
  BY <1>0, CqFrame, IrqFrame DEF IInv, CqInv, harvestVars, devVars, irqVars
<1> QED BY <1>4, <1>8, <1>9, <1>10, <1>11 DEF IInv, CqInv

-----------------------------------------------------------------------------
(* The theorems.                                                           *)

\* Every step of the queues, the device and the interrupt thread keeps the
\* inductive invariant.
LEMMA NextIInv == IInv /\ [Next]_vars => IInv'
<1> SUFFICES ASSUME IInv, [Next]_vars PROVE IInv'
  OBVIOUS
<1>1. CASE \E q \in SQs : Submitter(q)
  BY <1>1, ReservationStep, NextSubmissionStep, SubmitToDeviceStep DEF Submitter
<1>2. CASE \E q \in SQs : Consumer(q)
  BY <1>2, NextCompletionStep, NotifyStep DEF Consumer
<1>3. CASE \E q \in SQs : Worker(q)
  BY <1>3, DispatchStep DEF Worker
<1>4. CASE Device
  BY <1>4, DeviceCompleteStep, DeviceFaultStep DEF Device
<1>5. CASE IrqThread
  BY <1>5, DispatchStep, HarvestDropStep, HarvestDataStep, HarvestPublishStep,
     PollEndStep DEF IrqThread
<1>6. CASE UNCHANGED vars
  <2>1. UNCHANGED <<subVars, consVars, harvestVars, devVars, cq, cqIndex, cqDoorbell>>
    BY <1>6 DEF vars
  <2>2. IrqTypeOK'
    BY <1>6 DEF vars, irqVars, workVars, devVars, IInv, TypeOK, IrqTypeOK
  <2>3. IrqPosition'
    BY <1>6, IrqFrame DEF vars, irqVars, harvestVars, IInv
  <2> QED BY <2>1, <2>2, <2>3, QuietStep
<1> QED BY <1>1, <1>2, <1>3, <1>4, <1>5, <1>6 DEF Next

\* The invariant holds in every reachable state, whatever the number and the
\* size of the rings and however often the device repeats a completion.
THEOREM Invariance == Spec => []IInv
  BY InitIInv, NextIInv, PTL DEF Spec

\* Every variable of queue.c keeps its type; in particular every ring
\* position stays inside its ring.
THEOREM TypeCorrect == Spec => []TypeOK
<1>1. IInv => TypeOK
  BY DEF IInv
<1> QED BY <1>1, Invariance, PTL

\* No slot is lost or made up, and the tail never laps the head.
THEOREM SlotsAccounted == Spec => []SlotAccounting
<1>1. IInv => SlotAccounting
  BY DEF IInv
<1> QED BY <1>1, Invariance, PTL

\* Driver and device follow each other around the ring in order.
THEOREM RingOrdered == Spec => []RingOrder
<1>1. IInv => RingOrder
  BY DEF IInv
<1> QED BY <1>1, Invariance, PTL

\* A completion callback reads the outcome of the element that was submitted
\* in its slot.
THEOREM ResultsMatch == Spec => []ResultMatchesRequest
<1>1. IInv => ResultMatchesRequest
  BY DEF IInv
<1> QED BY <1>1, Invariance, PTL

\* bce_handle_cq_completion refuses every completion the device repeats.
THEOREM RepeatsRefused == Spec => []RepeatsAreRefused
<1>1. IInv => RepeatsAreRefused
  <2> SUFFICES ASSUME IInv, irqPc = "publish" PROVE Polled.genuine
    BY DEF RepeatsAreRefused
  <2>1. /\ irqCq \in CQs /\ Polled.flags /\ Polled.qid \in SQs
        /\ ctail[Polled.qid] = Polled.index
    BY DEF IInv, IrqPosition
  <2> QED BY <2>1, FrontElement
<1> QED BY <1>1, Invariance, PTL

\* A thread sleeps in bce_reserve_submission only while no slot is free: a
\* slot comes free with a wake-up of every sleeper, unless it is cancelled.
THEOREM NoMissedWakeup == Spec => []NoSleepWithFreeSlot
<1>1. Init => NoSleepWithFreeSlot
  BY DEF Init, NoSleepWithFreeSlot
<1>2. IInv /\ NoSleepWithFreeSlot /\ [Next]_vars => NoSleepWithFreeSlot'
  <2> SUFFICES ASSUME IInv, NoSleepWithFreeSlot, [Next]_vars,
                      NEW x \in SQs \ Cancelable, sleeping'[x] > 0
               PROVE  available'[x] = 0
    BY DEF NoSleepWithFreeSlot
  <2>0. /\ available \in [SQs -> Nat] /\ sleeping \in [SQs -> Nat]
        /\ sleeping[x] > 0 => available[x] = 0
    BY DEF IInv, TypeOK, SqTypeOK, NoSleepWithFreeSlot
  <2>1. CASE UNCHANGED <<available, sleeping>>
    BY <2>0, <2>1
  <2>2. ASSUME NEW q \in SQs, ReserveSubmission(q) PROVE available'[x] = 0
    BY <2>0, <2>2 DEF ReserveSubmission
  <2>3. ASSUME NEW q \in SQs, WaitForSlot(q) PROVE available'[x] = 0
    BY <2>0, <2>3 DEF WaitForSlot
  <2>4. ASSUME NEW q \in SQs, RetryReservation(q) PROVE available'[x] = 0
    BY <2>0, <2>4 DEF RetryReservation
  <2>5. ASSUME NEW q \in SQs, WaitTimeout(q) PROVE available'[x] = 0
    BY <2>0, <2>5 DEF WaitTimeout
  <2>6. ASSUME NEW q \in SQs, CancelReservation(q) PROVE available'[x] = 0
    BY <2>0, <2>6 DEF CancelReservation
  <2>7. ASSUME NEW q \in SQs, NotifySubmissionComplete(q) PROVE available'[x] = 0
    BY <2>0, <2>7 DEF NotifySubmissionComplete
  <2>8. CASE \E q \in SQs : \/ \E r \in Requests : NextSubmission(q, r)
                            \/ SubmitToDevice(q) \/ NextCompletion(q) \/ Worker(q)
    BY <2>1, <2>8 DEF NextSubmission, SubmitToDevice, NextCompletion, Worker, WorkStart,
                      WorkEnd, subVars
  <2>9. CASE Device
    BY <2>1, <2>9 DEF Device, DeviceComplete, DeviceRepeat, DeviceStray, subVars
  <2>10. CASE IrqThread
    BY <2>1, <2>10 DEF IrqThread, IrqStart, HarvestDrop, HarvestData, HarvestPublish,
                       PollEnd, DispatchStart, DispatchDeferred, DispatchInline,
                       DispatchNext, IrqEnd, subVars
  <2>11. CASE UNCHANGED vars
    BY <2>1, <2>11 DEF vars, subVars
  <2> QED BY <2>2, <2>3, <2>4, <2>5, <2>6, <2>7, <2>8, <2>9, <2>10, <2>11
          DEF Next, Submitter, Consumer
<1> QED BY <1>1, <1>2, Invariance, PTL DEF Spec

-----------------------------------------------------------------------------
(* Nothing is forgotten.                                                   *)

\* has_pending_completions keeps an SQ from being listed twice; it is set only
\* while the SQ is listed, and is set for the one a completion is harvested for.
PendingIsListed ==
    /\ \A q \in SQs : hasPending[q] => Listed(q)
    /\ irqPc = "publish" => hasPending[Polled.qid]

\* An element that the device has posted and the driver has not taken is flagged, and
\* the one the device writes next is not.
LEMMA FlaggedAhead ==
  ASSUME IInv, NEW c \in CQs
  PROVE  /\ cq[c][cqIndex[c]].flags <=> cqIndex[c] # cqDev[c]
         /\ ~cq[c][cqDev[c]].flags
<1> DEFINE n == CqElCount[c]
<1>1. n \in Nat \ {0, 1}
  BY Sizes
<1>2. cqIndex[c] \in CqSlots(c) /\ cqDev[c] \in CqSlots(c) /\ CqSlots(c) = 0..(n - 1)
  BY <1>1 DEF IInv, TypeOK, CqTypeOK, CqSlots
<1>3. \A p \in CqSlots(c) :
         cq[c][p].flags <=> Dist(cqIndex[c], p, n) < Dist(cqIndex[c], cqDev[c], n)
  BY DEF IInv, CqWindow
<1>4. cq[c][cqIndex[c]].flags <=> Dist(cqIndex[c], cqIndex[c], n) < Dist(cqIndex[c], cqDev[c], n)
  BY <1>2, <1>3
<1>5. cq[c][cqDev[c]].flags <=> Dist(cqIndex[c], cqDev[c], n) < Dist(cqIndex[c], cqDev[c], n)
  BY <1>2, <1>3
<1> QED BY <1>1, <1>2, <1>4, <1>5 DEF Dist

\* What the device posts leaves the element that is being harvested alone.
LEMMA PostKeepsPolled ==
  ASSUME IInv, irqPc = "publish", NEW c \in CQs, NEW e, PostElement(c, e),
         UNCHANGED <<cqIndex, irqCq>>
  PROVE  Polled' = Polled
<1>1. irqCq \in CQs /\ cq[irqCq][cqIndex[irqCq]].flags
  BY DEF IInv, IrqPosition, Polled
<1>2. cqIndex[irqCq] # cqDev[irqCq]
  BY <1>1, FlaggedAhead
<1>3. DOMAIN cq = CQs /\ cq[c] \in [CqSlots(c) -> Element] /\ cqIndex[irqCq] \in CqSlots(irqCq)
  BY <1>1, Sizes DEF IInv, TypeOK, CqTypeOK, CqSlots
<1>4. cq' = [cq EXCEPT ![c] = [@ EXCEPT ![cqDev[c]] = e]]
  BY DEF PostElement
<1>5. CASE c = irqCq
  <2>1. cq'[c] = [cq[c] EXCEPT ![cqDev[c]] = e]
    BY <1>3, <1>4
  <2>2. cq'[c][cqIndex[c]] = cq[c][cqIndex[c]]
    BY <1>2, <1>3, <1>5, <2>1
  <2> QED BY <1>5, <2>2 DEF Polled
<1>6. CASE c # irqCq
  BY <1>1, <1>3, <1>4, <1>6 DEF Polled
<1> QED BY <1>5, <1>6

\* Steps that leave the interrupt thread and the consumers where they are.
LEMMA SameListed ==
  ASSUME UNCHANGED <<irqPc, intSqList, irqSq>>, NEW q \in SQs
  PROVE  Listed(q)' <=> Listed(q)
  BY DEF Listed

LEMMA NextPending == IInv /\ PendingIsListed /\ [Next]_vars => PendingIsListed'
<1> SUFFICES ASSUME IInv, PendingIsListed, [Next]_vars PROVE PendingIsListed'
  OBVIOUS
<1>1. /\ hasPending \in [SQs -> BOOLEAN] /\ intSqList \in Seq(SQs) /\ irqSq \in Nat \ {0}
      /\ irqPc = "publish" => irqCq \in CQs /\ Polled.flags /\ Polled.qid \in SQs
  BY DEF IInv, TypeOK, IrqTypeOK, IrqPosition
<1>2. ASSUME UNCHANGED irqVars, irqPc = "publish" => Polled' = Polled PROVE PendingIsListed'
  BY <1>2, SameListed DEF PendingIsListed, irqVars
<1>3. CASE UNCHANGED <<irqVars, cq, cqIndex>>
  BY <1>2, <1>3 DEF irqVars, Polled
<1>4. CASE Device
  <2>1. \E c \in CQs : \E e : PostElement(c, e)
    BY <1>4, QueueAssumption DEF Device, DeviceComplete, DeviceRepeat, DeviceStray
  <2>2. UNCHANGED <<irqVars, cqIndex>>
    BY <1>4 DEF Device, DeviceComplete, DeviceRepeat, DeviceStray
  <2> QED BY <1>2, <2>1, <2>2, PostKeepsPolled DEF irqVars
<1>5. CASE HarvestData
  <2>0. PICK p \in SQs : p = Polled.qid
    BY <1>5 DEF HarvestData
  <2>1. /\ irqPc = "poll" /\ irqPc' = "publish" /\ UNCHANGED <<cq, cqIndex, irqCq>>
        /\ IF hasPending[p] THEN UNCHANGED <<hasPending, intSqList>>
           ELSE /\ hasPending' = [hasPending EXCEPT ![p] = TRUE]
                /\ intSqList' = Append(intSqList, p)
    BY <1>5, <2>0 DEF HarvestData
  <2>2. Polled' = Polled
    BY <2>1 DEF Polled
  <2>3. hasPending'[p]
    BY <1>1, <2>1
  <2>4. \A q \in SQs : Listed(q) => Listed(q)'
    BY <1>1, <2>1 DEF Listed
  <2>5. ~hasPending[p] => Listed(p)'
    <3>1. ~hasPending[p] => intSqList'[Len(intSqList) + 1] = p /\ Len(intSqList') = Len(intSqList) + 1
      BY <1>1, <2>1
    <3>2. ~hasPending[p] => \E i \in 1..Len(intSqList') : intSqList'[i] = p
      <4>1. Len(intSqList) \in Nat
        BY <1>1
      <4>2. ~hasPending[p] => Len(intSqList) + 1 \in 1..Len(intSqList')
        BY <3>1, <4>1
      <4> QED BY <3>1, <4>2
    <3> QED BY <2>1, <3>2 DEF Listed
  <2>6. \A q \in SQs : hasPending'[q] => Listed(q)'
    <3>1. \A q \in SQs : hasPending'[q] => hasPending[q] \/ (q = p /\ ~hasPending[p])
      BY <1>1, <2>1
    <3>2. \A q \in SQs : hasPending[q] => Listed(q)
      BY DEF PendingIsListed
    <3> QED BY <2>4, <2>5, <3>1, <3>2
  <2> QED BY <2>0, <2>2, <2>3, <2>6 DEF PendingIsListed
<1>6. CASE IrqStart \/ HarvestDrop \/ HarvestPublish \/ PollEnd \/ DispatchStart \/ DispatchInline
  <2>1. /\ UNCHANGED <<intSqList, hasPending>> /\ irqPc' # "publish" /\ irqPc' # "idle"
        /\ irqPc' \in {"dispatch", "callback"} => (irqPc = "dispatch" /\ irqSq' = irqSq) \/ irqSq' = 1
    BY <1>6 DEF IrqStart, HarvestDrop, HarvestPublish, PollEnd, DispatchStart, DispatchInline
  <2>2. \A q \in SQs : Listed(q) => Listed(q)'
    BY <1>1, <2>1 DEF Listed
  <2> QED BY <2>1, <2>2 DEF PendingIsListed
<1>7. CASE DispatchDeferred \/ DispatchNext
  <2>1. /\ irqPc \in {"dispatch", "callback"} /\ irqPc' = "dispatch" /\ irqSq' = irqSq + 1
        /\ intSqList' = intSqList
        /\ hasPending' = [hasPending EXCEPT ![Dispatched] = FALSE]
    BY <1>7 DEF DispatchDeferred, DispatchNext
  <2>2. \A q \in SQs : hasPending'[q] => hasPending[q] /\ q # Dispatched
    BY <1>1, <2>1
  <2>3. \A q \in SQs : Listed(q) /\ q # Dispatched => Listed(q)'
    BY <1>1, <2>1 DEF Listed, Dispatched
  <2> QED BY <2>1, <2>2, <2>3 DEF PendingIsListed
<1>8. CASE IrqEnd
  <2>1. irqPc = "dispatch" /\ irqSq > Len(intSqList) /\ irqPc' = "idle" /\ hasPending' = hasPending
    BY <1>8 DEF IrqEnd
  <2>2. \A q \in SQs : ~Listed(q)
    BY <1>1, <2>1 DEF Listed
  <2> QED BY <2>1, <2>2 DEF PendingIsListed
<1>9. CASE \E q \in SQs : Submitter(q) \/ Consumer(q) \/ Worker(q)
  BY <1>3, <1>9 DEF Submitter, Consumer, Worker, ReserveSubmission, WaitForSlot, RetryReservation,
     WaitTimeout, CancelReservation, NextSubmission, SubmitToDevice, NextCompletion,
     NotifySubmissionComplete, WorkStart, WorkEnd
<1>10. CASE UNCHANGED vars
  BY <1>3, <1>10 DEF vars
<1> QED BY <1>4, <1>5, <1>6, <1>7, <1>8, <1>9, <1>10 DEF Next, IrqThread

\* The first half of NoLostCompletion, ...
LEMMA NextTaken ==
  ASSUME IInv, PendingIsListed, NoLostCompletion, [Next]_vars, NEW q \in SQs, cidx'[q] # ctail'[q]
  PROVE  running'[q] \/ queued'[q] \/ Listed(q)'
<1>1. /\ queued \in [SQs -> BOOLEAN] /\ running \in [SQs -> BOOLEAN] /\ intSqList \in Seq(SQs)
      /\ irqSq \in Nat \ {0} /\ cidx \in [SQs -> Nat] /\ ctail \in [SQs -> Nat]
      /\ irqPc = "publish" => irqCq \in CQs /\ Polled.qid \in SQs
      /\ irqPc = "callback" => irqSq <= Len(intSqList)
  BY DEF IInv, TypeOK, SqTypeOK, IrqTypeOK, IrqPosition
<1>2. cidx[q] # ctail[q] => running[q] \/ queued[q] \/ Listed(q)
  BY DEF NoLostCompletion
<1>3. CASE UNCHANGED <<cidx, ctail, running, queued, irqPc, intSqList, irqSq>>
  BY <1>2, <1>3, SameListed
<1>4. CASE HarvestPublish
  <2>1. /\ irqPc = "publish" /\ irqPc' = "poll" /\ UNCHANGED <<cidx, running, queued, intSqList>>
        /\ ctail' = [ctail EXCEPT ![Polled.qid] = Succ(@, ElCount[Polled.qid])]
    BY <1>4 DEF HarvestPublish, consVars, workVars
  <2>2. Listed(q) => Listed(q)'
    BY <2>1 DEF Listed
  <2>3. q = Polled.qid => Listed(q)
    BY <2>1 DEF PendingIsListed
  <2>4. q # Polled.qid => ctail'[q] = ctail[q]
    BY <1>1, <2>1
  <2> QED BY <1>2, <2>1, <2>2, <2>3, <2>4
<1>5. CASE IrqStart \/ HarvestDrop \/ HarvestData \/ PollEnd \/ DispatchStart
  <2>1. /\ UNCHANGED <<cidx, ctail, running, queued>> /\ irqPc' # "idle"
        /\ intSqList' = intSqList \/ \E p \in SQs : intSqList' = Append(intSqList, p)
        /\ irqPc' \in {"dispatch", "callback"} => irqSq' = 1
    BY <1>5 DEF IrqStart, HarvestDrop, HarvestData, PollEnd, DispatchStart, consVars, workVars,
       harvestVars
  <2>2. ASSUME NEW i \in 1..Len(intSqList), intSqList[i] = q
        PROVE  Listed(q)'
    <3>1. i \in Nat \ {0}
      BY <1>1
    <3>2. i \in 1..Len(intSqList') /\ intSqList'[i] = intSqList[i]
      <4>1. CASE intSqList' = intSqList
        BY <4>1
      <4>2. ASSUME NEW p \in SQs, intSqList' = Append(intSqList, p)
            PROVE  i \in 1..Len(intSqList') /\ intSqList'[i] = intSqList[i]
        BY <1>1, <4>2
      <4> QED BY <2>1, <4>1, <4>2
    <3> QED BY <2>1, <2>2, <3>1, <3>2 DEF Listed
  <2>3. Listed(q) => Listed(q)'
    BY <2>2 DEF Listed
  <2> QED BY <1>2, <2>1, <2>3
<1>6. CASE DispatchDeferred
  <2>1. /\ irqPc = "dispatch" /\ irqSq \in 1..Len(intSqList) /\ irqSq' = irqSq + 1
        /\ queued' = [queued EXCEPT ![Dispatched] = TRUE]
        /\ UNCHANGED <<cidx, ctail, running, irqPc, intSqList>>
    BY <1>6 DEF DispatchDeferred, consVars, harvestVars
  <2>2. q = Dispatched => queued'[q]
    BY <1>1, <2>1
  <2>3. q # Dispatched => queued'[q] = queued[q] /\ (Listed(q) => Listed(q)')
    BY <1>1, <2>1 DEF Listed, Dispatched
  <2> QED BY <1>2, <2>1, <2>2, <2>3
<1>7. CASE DispatchInline
  <2>1. /\ irqPc = "dispatch" /\ irqSq \in 1..Len(intSqList) /\ irqPc' = "callback"
        /\ running' = [running EXCEPT ![Dispatched] = TRUE]
        /\ UNCHANGED <<cidx, ctail, queued, irqSq, intSqList>>
    BY <1>7 DEF DispatchInline, consVars, harvestVars
  <2>2. running[q] => running'[q]
    BY <1>1, <2>1
  <2>3. Listed(q) => Listed(q)'
    BY <2>1 DEF Listed
  <2> QED BY <1>2, <2>1, <2>2, <2>3
<1>8. CASE DispatchNext
  <2>1. /\ irqPc = "callback" /\ irqPc' = "dispatch" /\ irqSq' = irqSq + 1
        /\ cidx[Dispatched] = ctail[Dispatched]
        /\ running' = [running EXCEPT ![Dispatched] = FALSE]
        /\ UNCHANGED <<cidx, ctail, queued, intSqList>>
    BY <1>8 DEF DispatchNext, consVars, harvestVars
  <2>2. q # Dispatched
    BY <2>1
  <2>3. running'[q] = running[q] /\ (Listed(q) => Listed(q)')
    BY <1>1, <2>1, <2>2 DEF Listed, Dispatched
  <2> QED BY <1>2, <2>1, <2>3
<1>9. CASE IrqEnd
  <2>1. /\ irqPc = "dispatch" /\ irqSq > Len(intSqList) /\ UNCHANGED <<cidx, ctail, running, queued>>
    BY <1>9 DEF IrqEnd, consVars, harvestVars, workVars
  <2>2. ~Listed(q)
    BY <1>1, <2>1 DEF Listed
  <2> QED BY <1>2, <2>1, <2>2
<1>10. ASSUME NEW x \in SQs, Worker(x) \/ NextCompletion(x)
       PROVE  running'[q] \/ queued'[q] \/ Listed(q)'
  <2>1. UNCHANGED <<ctail, irqPc, intSqList, irqSq>>
    BY <1>10 DEF Worker, WorkStart, WorkEnd, NextCompletion, harvestVars, irqVars
  <2>2. Listed(q)' <=> Listed(q)
    BY <2>1, SameListed
  <2>3. CASE x # q
    <3>1. cidx'[q] = cidx[q] /\ running'[q] = running[q] /\ queued'[q] = queued[q]
      BY <1>1, <1>10, <2>3 DEF Worker, WorkStart, WorkEnd, NextCompletion, consVars, workVars
    <3> QED BY <1>2, <2>1, <2>2, <3>1
  <2>4. CASE x = q
    BY <1>1, <1>10, <2>4 DEF Worker, WorkStart, WorkEnd, NextCompletion, consVars, harvestVars, workVars
  <2> QED BY <2>3, <2>4
<1>11. CASE Device \/ \E x \in SQs : Submitter(x) \/ NotifySubmissionComplete(x)
  <2>1. CASE Device
    BY <1>3, <2>1 DEF Device, DeviceComplete, DeviceRepeat, DeviceStray, consVars, harvestVars, workVars,
       irqVars
  <2>2. CASE \E x \in SQs : NotifySubmissionComplete(x)
    BY <1>3, <2>2 DEF NotifySubmissionComplete, consVars, harvestVars, workVars, irqVars
  <2>3. CASE \E x \in SQs : Submitter(x)
    BY <1>3, <2>3 DEF Submitter, ReserveSubmission, WaitForSlot, RetryReservation, WaitTimeout,
       CancelReservation, NextSubmission, SubmitToDevice, consVars, harvestVars, workVars, irqVars
  <2> QED BY <1>11, <2>1, <2>2, <2>3
<1>12. CASE UNCHANGED vars
  BY <1>3, <1>12 DEF vars, consVars, harvestVars, workVars, irqVars
<1> QED BY <1>4, <1>5, <1>6, <1>7, <1>8, <1>9, <1>10, <1>11, <1>12 DEF Next, IrqThread, Consumer

\* ... and the second.
LEMMA NextSeen ==
  ASSUME IInv, NoLostCompletion, [Next]_vars, NEW c \in CQs, cqIndex'[c] # cqDev'[c]
  PROVE  irqRaised' \/ (irqPc' \in {"poll", "publish"} /\ irqCq' <= c)
<1>1. /\ cqIndex \in [CQs -> Nat] /\ cqDev \in [CQs -> Nat] /\ irqCq \in 1..(CQCount + 1)
      /\ CQCount \in Nat /\ c \in 1..CQCount
      /\ irqPc = "publish" => irqCq \in CQs
  BY QueueAssumption DEF IInv, TypeOK, CqTypeOK, IrqTypeOK, IrqPosition, CQs
<1>2. cqIndex[c] # cqDev[c] => irqRaised \/ (irqPc \in {"poll", "publish"} /\ irqCq <= c)
  BY DEF NoLostCompletion
<1>3. CASE Device
  BY <1>3 DEF Device, DeviceComplete, DeviceRepeat, DeviceStray, PostElement
<1>4. CASE UNCHANGED <<cqIndex, cqDev, irqRaised, irqPc, irqCq>>
  BY <1>2, <1>4
<1>5. CASE IrqStart
  BY <1>1, <1>5 DEF IrqStart
<1>6. CASE HarvestDrop \/ HarvestPublish
  <2>1. /\ irqPc \in {"poll", "publish"} /\ irqPc' = "poll" /\ irqCq \in CQs
        /\ UNCHANGED <<irqCq, cqDev, irqRaised>>
        /\ cqIndex' = [cqIndex EXCEPT ![irqCq] = Succ(@, CqElCount[irqCq])]
    BY <1>1, <1>6 DEF HarvestDrop, HarvestPublish, TakeElement, devVars
  <2>2. c # irqCq => cqIndex'[c] = cqIndex[c]
    BY <1>1, <2>1
  <2> QED BY <1>1, <1>2, <2>1, <2>2
<1>7. CASE HarvestData
  BY <1>2, <1>7 DEF HarvestData, devVars
<1>8. CASE PollEnd
  <2>1. /\ irqPc = "poll" /\ irqPc' = irqPc /\ irqCq \in CQs /\ ~cq[irqCq][cqIndex[irqCq]].flags
        /\ irqCq' = irqCq + 1 /\ UNCHANGED <<cqIndex, cqDev, irqRaised>>
    BY <1>8 DEF PollEnd, Polled, devVars
  <2>2. c # irqCq
    BY <2>1, FlaggedAhead
  <2> QED BY <1>1, <1>2, <2>1, <2>2
<1>9. CASE DispatchStart
  <2>1. irqCq > CQCount /\ UNCHANGED <<cqIndex, cqDev, irqRaised>>
    BY <1>9 DEF DispatchStart, devVars
  <2> QED BY <1>1, <1>2, <2>1
<1>10. CASE DispatchDeferred \/ DispatchInline \/ DispatchNext \/ IrqEnd
  <2>1. irqPc \in {"dispatch", "callback"} /\ UNCHANGED <<cqIndex, cqDev, irqRaised>>
    BY <1>10 DEF DispatchDeferred, DispatchInline, DispatchNext, IrqEnd, devVars
  <2> QED BY <1>2, <2>1
<1>11. CASE \E q \in SQs : Submitter(q) \/ Consumer(q) \/ Worker(q)
  BY <1>4, <1>11 DEF Submitter, Consumer, Worker, ReserveSubmission, WaitForSlot, RetryReservation,
     WaitTimeout, CancelReservation, NextSubmission, SubmitToDevice, NextCompletion,
     NotifySubmissionComplete, WorkStart, WorkEnd, devVars, irqVars
<1>12. CASE UNCHANGED vars
  BY <1>4, <1>12 DEF vars, devVars, irqVars
<1> QED BY <1>3, <1>5, <1>6, <1>7, <1>8, <1>9, <1>10, <1>11, <1>12 DEF Next, IrqThread

\* However harvest, dispatch, deferred works and the device interleave, every
\* completion in completion_data or in a CQ has somebody who is going to take it.
THEOREM NothingIsForgotten == Spec => []NoLostCompletion
<1>1. Init => PendingIsListed /\ NoLostCompletion
  BY DEF Init, PendingIsListed, NoLostCompletion
<1>2. IInv /\ PendingIsListed /\ NoLostCompletion /\ [Next]_vars => NoLostCompletion'
  <2> SUFFICES ASSUME IInv, PendingIsListed, NoLostCompletion, [Next]_vars PROVE NoLostCompletion'
    OBVIOUS
  <2> QED BY NextTaken, NextSeen DEF NoLostCompletion
<1> QED BY <1>1, <1>2, NextPending, Invariance, PTL DEF Spec

=============================================================================
