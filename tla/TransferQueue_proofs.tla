------------------------ MODULE TransferQueue_proofs ------------------------
(***************************************************************************)
(* Proofs about TransferQueue, for any number of URBs, any number of slots *)
(* and any number of troubles: the slots and the works, the contract of a  *)
(* host controller driver (UrbContract), and what is lent to the T2.       *)
(***************************************************************************)
EXTENDS TransferQueue, FiniteSetTheorems, WellFoundedInduction, TLAPS

Started == {"setup", "setupSent", "request", "wait", "done"}
Held == Started \cup {"pending"}        \* of the URBs on the endpoint's list
Messages == {"req", "ok", "fail"}
Jobs == {"flush", "reset", "resume", "fwPause", "fwResume", "fwStall"}
Sources == {"internal", "firmware", "suspend"}
Completion == [urb : URB, ok : BOOLEAN]

Queue ==
    [list : Seq(URB), st : [URB -> Held \cup {"new", "gone", "back"}],
     recv : [URB -> {"no", "ok", "fail"}],
     remaining : Int, active : BOOLEAN, stalled : BOOLEAN,
     evq : Seq(Messages), ghosts : Nat, giveback : Seq(URB), flush : Seq(URB),
     outPending : Nat, want : Seq(Jobs), short : BOOLEAN,
     ring : [Rings -> Seq(URB)], done : [Rings -> Seq(Completion)],
     swallowed : BOOLEAN, crashed : BOOLEAN, reclaimed : BOOLEAN,
     odd : BOOLEAN, loose : BOOLEAN]

Distinct(s) == \A i, j \in DOMAIN s : s[i] = s[j] => i = j

\* Every URB is in the one place its state tells, once.
Owned(s) ==
    /\ Distinct(s.list) /\ Distinct(s.giveback) /\ Distinct(s.flush)
    /\ \A u \in URB :
          /\ u \in ToSet(s.list) <=> s.st[u] \in Held
          /\ u \in ToSet(s.giveback) \/ u \in ToSet(s.flush) <=> s.st[u] = "gone"
          /\ ~(u \in ToSet(s.giveback) /\ u \in ToSet(s.flush))

Running(s) == {u \in URB : s.st[u] \in Started}
Waiting(s) == IF kind = "control" THEN Len(s.flush) ELSE 0

\* A slot is free, or an URB, a ghost or a cancelled control URB has it.
Slots(s) ==
    /\ kind = "control" => s.ghosts = 0
    /\ ~s.reclaimed => s.remaining + Cardinality(Running(s)) + s.ghosts + Waiting(s) = limit

Good(s) == s \in Queue /\ Owned(s) /\ Slots(s)

\* The lock, and who has paused the queue, at every place of a work ...
Locked == {"drain", "setPaused", "flush", "removePending", "setActive", "activate"}
JobsAt(pc) ==
    CASE pc = "idle" -> {"none"}
      [] pc \in {"drain", "setPaused"} -> {"flush", "fwPause"}
      [] pc = "flush" -> {"flush", "fwPause", "reset"}
      [] pc \in {"epReset", "resume"} -> {"flush", "reset"}
      [] pc = "reclaim" -> {"flush"}
      [] pc = "removePending" -> {"reset"}
      [] pc \in {"setActive", "activate"} -> {"flush", "reset", "resume", "fwResume"}

WorkInv ==
    /\ work = [job |-> work.job, pc |-> work.pc]
    /\ work.pc \in Locked \cup {"idle", "epReset", "resume", "reclaim"}
    /\ work.job \in JobsAt(work.pc)
    /\ work.pc \in Locked \/ (work.pc = "epReset" /\ work.job = "reset") => lock = "wq"
    /\ work.job = "reset" /\ work.pc \notin {"setActive", "activate"} =>
          "internal" \in pausedBy
    /\ work.job = "flush" /\ work.pc \in {"epReset", "reclaim", "resume"} =>
          "internal" \in pausedBy \/ q.odd
    /\ work.pc \in {"setActive", "activate"} => pausedBy = {Source(work.job)}

\* ... and of the thread that suspends.
PmInv ==
    /\ pm \in {"run", "setPaused", "asleep", "setActive", "activate", "refresh"}
    /\ pm \in {"setPaused", "setActive", "activate"} => lock = "pm"
    /\ pm = "setPaused" => pausedBy = {}
    /\ pm = "asleep" => "suspend" \in pausedBy
    /\ pm \in {"setActive", "activate"} => pausedBy = {"suspend"}

TypeInv ==
    /\ kind \in {"in", "out", "control"} /\ limit \in Nat
    /\ dir \in [URB -> {"in", "out", "none"}]
    /\ q.want = <<>> /\ q.short = FALSE
    /\ hcpriv \in {"set", "cancelled", "null", "destroyed"}
    /\ pausedBy \in SUBSET Sources /\ lock \in {"none", "wq", "pm"}
    /\ works \in Seq(Jobs) /\ events \in Seq(Messages)

IInv ==
    /\ TypeInv /\ q \in Queue /\ Owned(q)
    /\ hcpriv # "destroyed" => Slots(q)
    /\ WorkInv /\ PmInv /\ StoppedHasReason /\ WorkIsOwed

-----------------------------------------------------------------------------
(* Sequences and folds.                                                    *)

\* Of a set of naturals that has an element there is a least one.
LEMMA Least == ASSUME NEW S \in SUBSET Nat, S # {} PROVE \E n \in S : \A m \in S : n <= m
<1> DEFINE R == {ss \in Nat \X Nat : ss[1] < ss[2]}
<1>1. IsWellFoundedOn(R, Nat)
  <2>1. R = OpToRel(<, Nat)
    BY Zenon DEF OpToRel
  <2> QED BY <2>1, NatLessThanWellFounded, Zenon
<1>2. \E n \in S : \A m \in S : <<m, n>> \notin R
  BY <1>1, WFMin
<1>3. \A m, n \in Nat : m < n => <<m, n>> \in R
  OBVIOUS
<1> HIDE DEF R
<1>4. PICK n \in S : \A m \in S : <<m, n>> \notin R
  BY <1>2
<1>5. \A m \in S : ~(m < n)
  BY <1>3, <1>4
<1> QED BY <1>4, <1>5

LEMMA MinOf ==
  ASSUME NEW S \in SUBSET Nat, S # {}
  PROVE  Min(S) \in S /\ \A m \in S : Min(S) <= m
  BY Least DEF Min

LEMMA MaxOf ==
  ASSUME NEW n \in Nat, NEW S \in SUBSET (1..n), S # {}
  PROVE  Max(S) \in S /\ \A m \in S : m <= Max(S)
<1> DEFINE T == {k \in Nat : n - k \in S}
<1>1. PICK x \in S : TRUE
  OBVIOUS
<1>2. n - x \in T
  BY <1>1
<1>3. PICK k \in T : \A m \in T : k <= m
  BY <1>2, Least
<1>4. \A m \in S : n - m \in T
  OBVIOUS
<1>5. n - k \in S /\ \A m \in S : n - k >= m
  BY <1>3, <1>4
<1> QED BY <1>5 DEF Max

LEMMA MaxOfInterval ==
  ASSUME NEW k \in Nat, k # 0
  PROVE  /\ Max(1..k) = k /\ (1..k) \ {k} = 1..(k - 1) /\ 1..k # {}
<1>1. 1..k # {} /\ k \in 1..k /\ 1..k \in SUBSET (1..k)
  OBVIOUS
<1>2. Max(1..k) \in 1..k /\ \A m \in 1..k : m <= Max(1..k)
  BY <1>1, MaxOf
<1> QED BY <1>1, <1>2

\* What FoldLeft chooses exists.
FoldFcn(f, step, base, seq, n) ==
    f = [S \in SUBSET (1..n) |->
           IF S = {} THEN base ELSE step[<<f[S \ {Max(S)}], seq[Max(S)]>>]]

LEMMA FoldExists ==
  ASSUME NEW V, NEW E, NEW step \in [V \X E -> V], NEW base \in V, NEW seq \in Seq(E)
  PROVE  \E f \in [SUBSET (1..Len(seq)) -> V] : FoldFcn(f, step, base, seq, Len(seq))
<1> DEFINE Has(n) == \E f \in [SUBSET (1..n) -> V] : FoldFcn(f, step, base, seq, n)
           Bad == {n \in 0..Len(seq) : ~Has(n)}
<1>1. Has(0)
  <2> DEFINE f == [S \in SUBSET (1..0) |-> base]
  <2>1. f \in [SUBSET (1..0) -> V]
    OBVIOUS
  <2>2. \A S \in SUBSET (1..0) : S = {}
    OBVIOUS
  <2>3. f = [S \in SUBSET (1..0) |->
               IF S = {} THEN base ELSE step[<<f[S \ {Max(S)}], seq[Max(S)]>>]]
    BY <2>2
  <2> QED BY <2>1, <2>3 DEF FoldFcn
<1>2. ASSUME NEW n \in 1..Len(seq), Has(n - 1) PROVE Has(n)
  <2>1. PICK g \in [SUBSET (1..(n - 1)) -> V] : FoldFcn(g, step, base, seq, n - 1)
    BY <1>2
  <2> DEFINE f == [S \in SUBSET (1..n) |->
                     IF n \in S THEN step[<<g[S \ {n}], seq[n]>>] ELSE g[S]]
  <2>2. \A S \in SUBSET (1..n) : /\ S \ {n} \in SUBSET (1..(n - 1))
                                 /\ n \notin S => S \in SUBSET (1..(n - 1))
    OBVIOUS
  <2>3. seq[n] \in E
    OBVIOUS
  <2>4. f \in [SUBSET (1..n) -> V]
    BY <2>2, <2>3
  <2>5. ASSUME NEW S \in SUBSET (1..n)
        PROVE  f[S] = IF S = {} THEN base ELSE step[<<f[S \ {Max(S)}], seq[Max(S)]>>]
    <3>1. CASE n \in S
      <4>1. Max(S) = n
        <5>1. S # {} /\ n \in Nat
          BY <3>1
        <5>2. Max(S) \in S /\ \A m \in S : m <= Max(S)
          BY <5>1, MaxOf
        <5>3. Max(S) \in 1..n /\ n <= Max(S)
          BY <3>1, <5>2
        <5> HIDE DEF f
        <5> QED BY <5>3
      <4>2. f[S \ {n}] = g[S \ {n}]
        BY <2>2
      <4> QED BY <3>1, <4>1, <4>2
    <3>2. CASE n \notin S
      <4>1. S \in SUBSET (1..(n - 1)) /\ f[S] = g[S]
        BY <2>2, <3>2
      <4>2. g[S] = IF S = {} THEN base ELSE step[<<g[S \ {Max(S)}], seq[Max(S)]>>]
        BY <2>1, <4>1 DEF FoldFcn
      <4>3. S \ {Max(S)} \in SUBSET (1..n) /\ n \notin S \ {Max(S)}
        BY <3>2
      <4> QED BY <4>1, <4>2, <4>3
    <3> QED BY <3>1, <3>2
  <2>6. FoldFcn(f, step, base, seq, n)
    BY <2>5 DEF FoldFcn
  <2> QED BY <2>4, <2>6
<1> HIDE DEF Has
<1>3. Bad = {}
  <2> SUFFICES ASSUME Bad # {} PROVE FALSE
    OBVIOUS
  <2>0. Bad \in SUBSET Nat
    OBVIOUS
  <2>1. PICK n \in Bad : \A m \in Bad : n <= m
    BY <2>0, Least, Zenon
  <2>2. n \in 1..Len(seq) /\ n - 1 \in 0..Len(seq)
    BY <1>1, <2>1
  <2>3. Has(n - 1)
    BY <2>1, <2>2
  <2> QED BY <1>2, <2>1, <2>2, <2>3
<1>4. Len(seq) \in 0..Len(seq)
  OBVIOUS
<1>5. Has(Len(seq))
  BY <1>3, <1>4
<1> QED BY <1>5 DEF Has

\* What holds of the base and is kept by every step holds in the end.
LEMMA FoldInduction ==
  ASSUME NEW n \in Nat, NEW f, NEW G, f[{}] \in G[0],
         \A k \in 1..n : f[1..(k - 1)] \in G[k - 1] => f[1..k] \in G[k]
  PROVE  f[1..n] \in G[n]
<1> DEFINE Bad == {k \in 0..n : f[1..k] \notin G[k]}
<1>1. 1..0 = {}
  OBVIOUS
<1>2. Bad = {}
  <2> SUFFICES ASSUME Bad # {} PROVE FALSE
    OBVIOUS
  <2>0. Bad \in SUBSET Nat
    OBVIOUS
  <2>1. PICK k \in Bad : \A m \in Bad : k <= m
    BY <2>0, Least, Zenon
  <2>2. k # 0
    BY <1>1, <2>1
  <2>3. k \in 1..n /\ k - 1 \in 0..n /\ k - 1 \notin Bad
    BY <2>1, <2>2
  <2> QED BY <2>1, <2>3
<1> QED BY <1>2

LEMMA RemoveOne ==
  ASSUME NEW S, NEW s \in Seq(S), Distinct(s), NEW u \in ToSet(s)
  PROVE  /\ RemoveFirst(s, u) \in Seq(S) /\ Distinct(RemoveFirst(s, u))
         /\ ToSet(RemoveFirst(s, u)) = ToSet(s) \ {u}
<1> DEFINE I == {i \in 1..Len(s) : s[i] = u}
           k == Min(I)
           r == SubSeq(s, 1, k - 1) \o SubSeq(s, k + 1, Len(s))
<1>1. \E i \in 1..Len(s) : s[i] = u
  BY DEF ToSet
<1>2. I # {} /\ I \in SUBSET Nat
  BY <1>1
<1>3. k \in I
  BY <1>2, MinOf
<1>4. RemoveFirst(s, u) = r
  BY <1>1, <1>2 DEF RemoveFirst, RemoveAt, SelectInSeq
<1>5. k \in 1..Len(s) /\ s[k] = u
  BY <1>3
<1> HIDE DEF k
<1>6. /\ r \in Seq(S) /\ Len(r) = Len(s) - 1
      /\ \A i \in 1..(Len(s) - 1) : r[i] = IF i < k THEN s[i] ELSE s[i + 1]
  <2> DEFINE a == SubSeq(s, 1, k - 1)
             b == SubSeq(s, k + 1, Len(s))
  <2>1. /\ a \in Seq(S) /\ Len(a) = k - 1 /\ \A i \in 1..(k - 1) : a[i] = s[i]
    BY <1>5
  <2>2. /\ b \in Seq(S) /\ Len(b) = Len(s) - k /\ \A i \in 1..(Len(s) - k) : b[i] = s[k + i]
    BY <1>5
  <2> HIDE DEF a, b
  <2>3. /\ a \o b \in Seq(S) /\ Len(a \o b) = Len(s) - 1
        /\ \A i \in 1..(Len(s) - 1) : (a \o b)[i] = IF i <= k - 1 THEN a[i] ELSE b[i - (k - 1)]
    <3>1. /\ a \o b \in Seq(S) /\ Len(a \o b) = Len(a) + Len(b)
          /\ \A i \in 1..(Len(a) + Len(b)) : (a \o b)[i] = IF i <= Len(a) THEN a[i] ELSE b[i - Len(a)]
      BY <2>1, <2>2, SMTT(20)
    <3>2. Len(a) = k - 1 /\ Len(a) + Len(b) = Len(s) - 1
      BY <1>5, <2>1, <2>2
    <3> QED BY <3>1, <3>2
  <2>4. ASSUME NEW i \in 1..(Len(s) - 1)
        PROVE  (a \o b)[i] = IF i < k THEN s[i] ELSE s[i + 1]
    <3>1. CASE i < k
      BY <1>5, <2>1, <2>3, <3>1
    <3>2. CASE ~(i < k)
      <4>1. i - (k - 1) \in 1..(Len(s) - k) /\ k + (i - (k - 1)) = i + 1
        BY <1>5, <3>2
      <4>2. (a \o b)[i] = b[i - (k - 1)]
        BY <1>5, <2>3, <3>2
      <4> QED BY <2>2, <3>2, <4>1, <4>2
    <3> QED BY <3>1, <3>2
  <2> QED BY <2>3, <2>4 DEF a, b
<1> HIDE DEF r, I
<1>7. Distinct(r)
  BY <1>6, <1>5, SMTT(20) DEF Distinct
<1>8. ToSet(r) = ToSet(s) \ {u}
  <2>1. ASSUME NEW v \in ToSet(r) PROVE v \in ToSet(s) \ {u}
    <3>1. PICK i \in 1..(Len(s) - 1) : v = r[i]
      BY <1>6 DEF ToSet
    <3>2. PICK j \in 1..Len(s) : v = s[j] /\ j # k
      BY <1>5, <1>6, <3>1
    <3> QED BY <1>5, <3>2 DEF ToSet, Distinct
  <2>2. ASSUME NEW v \in ToSet(s) \ {u} PROVE v \in ToSet(r)
    <3>1. PICK j \in 1..Len(s) : v = s[j]
      BY DEF ToSet
    <3>2. j # k
      BY <1>5, <3>1
    <3>3. CASE j < k
      <4>1. j \in 1..(Len(s) - 1) /\ r[j] = v
        BY <1>5, <1>6, <3>1, <3>3
      <4> QED BY <1>6, <4>1 DEF ToSet
    <3>4. CASE j > k
      <4>1. j - 1 \in 1..(Len(s) - 1) /\ r[j - 1] = v
        BY <1>5, <1>6, <3>1, <3>4
      <4> QED BY <1>6, <4>1 DEF ToSet
    <3> QED BY <1>5, <3>2, <3>3, <3>4
  <2> QED BY <2>1, <2>2
<1> QED BY <1>4, <1>6, <1>7, <1>8

LEMMA Appended ==
  ASSUME NEW S, NEW s \in Seq(S), NEW u \in S
  PROVE  /\ Append(s, u) \in Seq(S) /\ ToSet(Append(s, u)) = ToSet(s) \cup {u}
         /\ Distinct(s) /\ u \notin ToSet(s) => Distinct(Append(s, u))
         /\ Len(Append(s, u)) = Len(s) + 1
<1>1. /\ Append(s, u) \in Seq(S) /\ Len(Append(s, u)) = Len(s) + 1
      /\ \A i \in 1..Len(s) : Append(s, u)[i] = s[i]
      /\ Append(s, u)[Len(s) + 1] = u
  OBVIOUS
<1>2. DOMAIN Append(s, u) = 1..(Len(s) + 1) /\ DOMAIN s = 1..Len(s)
  BY <1>1
<1>3. ToSet(Append(s, u)) = ToSet(s) \cup {u}
  <2>1. ASSUME NEW v \in ToSet(s) \cup {u} PROVE v \in ToSet(Append(s, u))
    <3>1. CASE v \in ToSet(s)
      <4>1. PICK i \in 1..Len(s) : s[i] = v
        BY <1>2, <3>1 DEF ToSet
      <4>2. i \in 1..(Len(s) + 1) /\ Append(s, u)[i] = v
        BY <1>1, <4>1
      <4> QED BY <1>2, <4>2 DEF ToSet
    <3>2. CASE v = u
      <4>1. Len(s) + 1 \in 1..(Len(s) + 1)
        OBVIOUS
      <4> QED BY <1>1, <1>2, <3>2, <4>1 DEF ToSet
    <3> QED BY <3>1, <3>2
  <2>2. ASSUME NEW v \in ToSet(Append(s, u)) PROVE v \in ToSet(s) \cup {u}
    <3>1. PICK i \in 1..(Len(s) + 1) : Append(s, u)[i] = v
      BY <1>2 DEF ToSet
    <3>2. i \in 1..Len(s) \/ i = Len(s) + 1
      OBVIOUS
    <3> QED BY <1>1, <1>2, <3>1, <3>2 DEF ToSet
  <2> QED BY <2>1, <2>2
<1>4. ASSUME Distinct(s), u \notin ToSet(s) PROVE Distinct(Append(s, u))
  <2>1. \A i \in 1..Len(s) : s[i] # u
    BY <1>2, <1>4 DEF ToSet
  <2> QED BY <1>1, <1>2, <1>4, <2>1 DEF Distinct
<1> QED BY <1>1, <1>3, <1>4

LEMMA Joined ==
  ASSUME NEW S, NEW s \in Seq(S), NEW t \in Seq(S)
  PROVE  /\ s \o t \in Seq(S) /\ ToSet(s \o t) = ToSet(s) \cup ToSet(t)
         /\ Distinct(s) /\ Distinct(t) /\ ToSet(s) \cap ToSet(t) = {} => Distinct(s \o t)
<1>1. /\ s \o t \in Seq(S) /\ Len(s \o t) = Len(s) + Len(t)
      /\ \A i \in 1..Len(s) : (s \o t)[i] = s[i]
      /\ \A i \in 1..Len(t) : (s \o t)[Len(s) + i] = t[i]
  OBVIOUS
<1>2. /\ DOMAIN (s \o t) = 1..(Len(s) + Len(t)) /\ DOMAIN s = 1..Len(s)
      /\ DOMAIN t = 1..Len(t)
  BY <1>1
<1>p. \A i \in 1..(Len(s) + Len(t)) :
         i \in 1..Len(s) \/ \E j \in 1..Len(t) : i = Len(s) + j
  <2> SUFFICES ASSUME NEW i \in 1..(Len(s) + Len(t)), i \notin 1..Len(s)
               PROVE  \E j \in 1..Len(t) : i = Len(s) + j
    OBVIOUS
  <2>1. i - Len(s) \in 1..Len(t) /\ i = Len(s) + (i - Len(s))
    OBVIOUS
  <2> QED BY <2>1
<1>q. \A i \in 1..Len(s), j \in 1..Len(t) : /\ i \in 1..(Len(s) + Len(t))
                                            /\ Len(s) + j \in 1..(Len(s) + Len(t))
  OBVIOUS
<1>3. ToSet(s \o t) = ToSet(s) \cup ToSet(t)
  <2>1. ASSUME NEW v \in ToSet(s) \cup ToSet(t) PROVE v \in ToSet(s \o t)
    <3>1. CASE v \in ToSet(s)
      <4>1. PICK i \in 1..Len(s) : s[i] = v
        BY <1>2, <3>1 DEF ToSet
      <4> QED BY <1>1, <1>2, <1>q, <4>1 DEF ToSet
    <3>2. CASE v \in ToSet(t)
      <4>1. PICK i \in 1..Len(t) : t[i] = v
        BY <1>2, <3>2 DEF ToSet
      <4>2. Len(s) + i \in 1..(Len(s) + Len(t)) /\ (s \o t)[Len(s) + i] = v
        BY <1>1, <4>1
      <4> QED BY <1>2, <4>2 DEF ToSet
    <3> QED BY <3>1, <3>2
  <2>2. ASSUME NEW v \in ToSet(s \o t) PROVE v \in ToSet(s) \cup ToSet(t)
    <3>1. PICK i \in 1..(Len(s) + Len(t)) : (s \o t)[i] = v
      BY <1>2 DEF ToSet
    <3>2. CASE i \in 1..Len(s)
      BY <1>1, <1>2, <3>1, <3>2 DEF ToSet
    <3>3. CASE i \notin 1..Len(s)
      <4>1. PICK j \in 1..Len(t) : i = Len(s) + j
        BY <1>p, <3>3
      <4> QED BY <1>1, <1>2, <3>1, <4>1 DEF ToSet
    <3> QED BY <3>2, <3>3
  <2> QED BY <2>1, <2>2
<1>4. ASSUME Distinct(s), Distinct(t), ToSet(s) \cap ToSet(t) = {} PROVE Distinct(s \o t)
  <2>1. \A i \in 1..Len(s), j \in 1..Len(t) : s[i] # t[j]
    BY <1>2, <1>4 DEF ToSet
  <2> SUFFICES ASSUME NEW i \in 1..(Len(s) + Len(t)), NEW j \in 1..(Len(s) + Len(t)),
                      (s \o t)[i] = (s \o t)[j]
               PROVE  i = j
    BY <1>2 DEF Distinct
  <2>2. CASE i \in 1..Len(s) /\ j \in 1..Len(s)
    BY <1>1, <1>2, <1>4, <2>2 DEF Distinct
  <2>3. CASE i \in 1..Len(s) /\ j \notin 1..Len(s)
    <3>1. PICK b \in 1..Len(t) : j = Len(s) + b
      BY <1>p, <2>3
    <3> QED BY <1>1, <2>1, <2>3, <3>1
  <2>4. CASE i \notin 1..Len(s) /\ j \in 1..Len(s)
    <3>1. PICK b \in 1..Len(t) : i = Len(s) + b
      BY <1>p, <2>4
    <3> QED BY <1>1, <2>1, <2>4, <3>1
  <2>5. CASE i \notin 1..Len(s) /\ j \notin 1..Len(s)
    <3>1. PICK a \in 1..Len(t) : i = Len(s) + a
      BY <1>p, <2>5
    <3>2. PICK b \in 1..Len(t) : j = Len(s) + b
      BY <1>p, <2>5
    <3> QED BY <1>1, <1>2, <1>4, <3>1, <3>2 DEF Distinct
  <2> QED BY <2>2, <2>3, <2>4, <2>5
<1> QED BY <1>1, <1>3, <1>4

LEMMA EmptySequence ==
  ASSUME NEW S
  PROVE  <<>> \in Seq(S) /\ ToSet(<<>>) = {} /\ Distinct(<<>>) /\ Len(<<>>) = 0
  BY DEF ToSet, Distinct

LEMMA Popped ==
  ASSUME NEW S, NEW s \in Seq(S), s # <<>>
  PROVE  /\ Tail(s) \in Seq(S) /\ Head(s) \in S /\ Head(s) = s[1] /\ Head(s) \in ToSet(s)
         /\ ToSet(s) = ToSet(Tail(s)) \cup {Head(s)}
<1>1. /\ Tail(s) \in Seq(S) /\ Len(Tail(s)) = Len(s) - 1 /\ Head(s) = s[1] /\ s[1] \in S
      /\ \A i \in 1..(Len(s) - 1) : Tail(s)[i] = s[i + 1]
      /\ Len(s) \in Nat /\ Len(s) >= 1
  OBVIOUS
<1>2. DOMAIN s = 1..Len(s) /\ DOMAIN Tail(s) = 1..(Len(s) - 1)
  BY <1>1
<1>3. \A i \in 1..Len(s) : i = 1 \/ i - 1 \in 1..(Len(s) - 1)
  BY <1>1
<1>4. \A i \in 1..(Len(s) - 1) : i + 1 \in 1..Len(s)
  BY <1>1
<1>5. 1 \in 1..Len(s)
  BY <1>1
<1>6. ASSUME NEW v \in ToSet(s) PROVE v \in ToSet(Tail(s)) \cup {s[1]}
  <2>1. PICK i \in 1..Len(s) : v = s[i]
    BY <1>2 DEF ToSet
  <2>2. CASE i # 1
    <3>1. i - 1 \in 1..(Len(s) - 1) /\ Tail(s)[i - 1] = v
      BY <1>1, <1>3, <2>1, <2>2
    <3> QED BY <1>2, <3>1 DEF ToSet
  <2> QED BY <2>1, <2>2
<1>7. ASSUME NEW v \in ToSet(Tail(s)) PROVE v \in ToSet(s)
  BY <1>1, <1>2, <1>4 DEF ToSet
<1>8. s[1] \in ToSet(s)
  BY <1>2, <1>5 DEF ToSet
<1> QED BY <1>1, <1>6, <1>7, <1>8

-----------------------------------------------------------------------------
(* What a section does to the queue.                                       *)

\* What the sections leave alone, what they stop they report, and URBs go on.
Kept(s, t) ==
    /\ t.short = s.short /\ t.flush = s.flush /\ t.odd = s.odd /\ t.reclaimed = s.reclaimed
    /\ ToSet(s.want) \subseteq ToSet(t.want)
    /\ s.stalled => t.stalled
    /\ t.stalled => s.stalled \/ "reset" \in ToSet(t.want)
    /\ ~t.active => ~s.active \/ t.stalled
    /\ \A u \in URB : /\ t.st[u] = "new" <=> s.st[u] = "new"
                      /\ t.st[u] = "back" <=> s.st[u] = "back"
                      /\ s.st[u] = "gone" => t.st[u] = "gone"
                      /\ s.st[u] \in Held => t.st[u] \in Held \cup {"gone"}

Sec(s, t) == Good(t) /\ Kept(s, t)

\* An URB has not got as far as its completion.
Fresh == IF kind = "control" THEN {"pending", "setup", "setupSent"} ELSE Held
FreshKept(s, t) == \A u \in URB : s.st[u] \in Fresh => t.st[u] \in Fresh

\* Only URBs, the rings and what is counted of them have changed.
Frame(s, t) ==
    /\ t \in Queue
    /\ t.list = s.list /\ t.evq = s.evq /\ t.ghosts = s.ghosts /\ t.giveback = s.giveback
    /\ t.flush = s.flush /\ t.reclaimed = s.reclaimed /\ t.active = s.active
    /\ t.stalled = s.stalled /\ t.want = s.want /\ t.odd = s.odd /\ t.short = s.short

Config ==
    /\ kind \in {"in", "out", "control"} /\ limit \in Nat
    /\ dir \in [URB -> {"in", "out", "none"}]

LEMMA FieldTypes ==
  ASSUME NEW s \in Queue
  PROVE  /\ s.list \in Seq(URB) /\ s.st \in [URB -> Held \cup {"new", "gone", "back"}]
         /\ s.recv \in [URB -> {"no", "ok", "fail"}]
         /\ s.remaining \in Int /\ s.active \in BOOLEAN /\ s.stalled \in BOOLEAN
         /\ s.evq \in Seq(Messages) /\ s.ghosts \in Nat /\ s.giveback \in Seq(URB)
         /\ s.flush \in Seq(URB) /\ s.outPending \in Nat /\ s.want \in Seq(Jobs)
         /\ s.short \in BOOLEAN /\ s.ring \in [Rings -> Seq(URB)]
         /\ s.done \in [Rings -> Seq(Completion)]
  BY DEF Queue

LEMMA KeptTrans ==
  ASSUME NEW s, NEW t, NEW w, Kept(s, t), Kept(t, w)
  PROVE  Kept(s, w)
  BY DEF Kept

LEMMA SecTrans ==
  ASSUME NEW s, NEW t, NEW w, Sec(s, t), Sec(t, w)
  PROVE  Sec(s, w)
  BY KeptTrans DEF Sec

LEMMA SameStep ==
  ASSUME NEW s, Good(s), NEW t, Frame(s, t), t.st = s.st, t.remaining = s.remaining
  PROVE  Sec(s, t)
<1>1. Owned(t)
  BY DEF Good, Owned, Frame
<1>2. Slots(t)
  BY DEF Good, Slots, Running, Waiting, Frame
<1>3. Kept(s, t)
  BY DEF Kept, Frame
<1> QED BY <1>1, <1>2, <1>3 DEF Sec, Good, Frame

LEMMA MoveStep ==
  ASSUME NEW s, Good(s), NEW t, NEW u \in URB, NEW p \in Started,
         s.st[u] \in Started, t.st = [s.st EXCEPT ![u] = p],
         Frame(s, t), t.remaining = s.remaining
  PROVE  Sec(s, t)
<1>0. \A v \in URB : t.st[v] = IF v = u THEN p ELSE s.st[v]
  BY DEF Good, Queue
<1>1. Owned(t)
  <2> SUFFICES ASSUME NEW v \in URB
               PROVE  /\ v \in ToSet(t.list) <=> t.st[v] \in Held
                      /\ v \in ToSet(t.giveback) \/ v \in ToSet(t.flush) <=> t.st[v] = "gone"
                      /\ ~(v \in ToSet(t.giveback) /\ v \in ToSet(t.flush))
    BY DEF Good, Owned, Frame
  <2>1. CASE v = u
    BY <1>0, <2>1 DEF Good, Owned, Held, Started, Frame
  <2>2. CASE v # u
    BY <1>0, <2>2 DEF Good, Owned, Frame
  <2> QED BY <2>1, <2>2
<1>2. Running(t) = Running(s)
  BY <1>0 DEF Running
<1>3. Slots(t)
  BY <1>2 DEF Good, Slots, Waiting, Frame
<1>4. Kept(s, t)
  BY <1>0 DEF Kept, Held, Started, Frame
<1> QED BY <1>1, <1>3, <1>4 DEF Sec, Good, Frame

LEMMA UrbFinite == ASSUME NEW A \in SUBSET URB PROVE IsFiniteSet(A) /\ Cardinality(A) \in Nat
<1>1. 1 \in Int /\ NUrbs \in Int
  BY TransferQueueAssumption
<1>2. IsFiniteSet(1..NUrbs)
  BY <1>1, FS_Interval
<1>3. IsFiniteSet(A)
  BY <1>2, FS_Subset DEF URB
<1> QED BY <1>3, FS_CardinalityType

LEMMA StartStep ==
  ASSUME NEW s, Good(s), NEW t, NEW u \in URB, NEW p \in Started,
         s.st[u] = "pending", t.st = [s.st EXCEPT ![u] = p],
         Frame(s, t), t.remaining = s.remaining - 1, Config
  PROVE  Sec(s, t)
<1>0. \A v \in URB : t.st[v] = IF v = u THEN p ELSE s.st[v]
  BY DEF Good, Queue
<1>1. Owned(t)
  <2> SUFFICES ASSUME NEW v \in URB
               PROVE  /\ v \in ToSet(t.list) <=> t.st[v] \in Held
                      /\ v \in ToSet(t.giveback) \/ v \in ToSet(t.flush) <=> t.st[v] = "gone"
                      /\ ~(v \in ToSet(t.giveback) /\ v \in ToSet(t.flush))
    BY DEF Good, Owned, Frame
  <2>1. CASE v = u
    BY <1>0, <2>1 DEF Good, Owned, Held, Started, Frame
  <2>2. CASE v # u
    BY <1>0, <2>2 DEF Good, Owned, Frame
  <2> QED BY <2>1, <2>2
<1>2. Running(t) = Running(s) \cup {u} /\ u \notin Running(s)
  BY <1>0 DEF Running, Started
<1>3. /\ Cardinality(Running(t)) = Cardinality(Running(s)) + 1
      /\ Cardinality(Running(s)) \in Nat
  <2>1. Running(s) \in SUBSET URB
    BY DEF Running
  <2> QED BY <1>2, <2>1, UrbFinite, FS_AddElement
<1>4. Slots(t)
  <2>1. s.remaining \in Int /\ s.ghosts \in Nat /\ Waiting(s) \in Nat /\ Waiting(t) = Waiting(s)
    BY FieldTypes DEF Good, Waiting, Frame
  <2> QED BY <1>3, <2>1 DEF Good, Slots, Config, Frame
<1>5. Kept(s, t)
  BY <1>0 DEF Kept, Held, Started, Frame
<1> QED BY <1>1, <1>4, <1>5 DEF Sec, Good, Frame

LEMMA UrbCompleteFields ==
  ASSUME NEW s \in Queue, NEW u \in URB, RemoveFirst(s.list, u) \in Seq(URB)
  PROVE  /\ UrbComplete(s, u) \in Queue
         /\ UrbComplete(s, u).list = RemoveFirst(s.list, u)
         /\ UrbComplete(s, u).remaining = IF s.st[u] # "pending" THEN s.remaining + 1 ELSE s.remaining
         /\ UrbComplete(s, u).st = [s.st EXCEPT ![u] = "gone"]
         /\ UrbComplete(s, u).giveback = Append(s.giveback, u)
         /\ UrbComplete(s, u).ghosts = s.ghosts /\ UrbComplete(s, u).flush = s.flush
         /\ UrbComplete(s, u).reclaimed = s.reclaimed /\ UrbComplete(s, u).active = s.active
         /\ UrbComplete(s, u).stalled = s.stalled /\ UrbComplete(s, u).want = s.want
         /\ UrbComplete(s, u).odd = s.odd /\ UrbComplete(s, u).short = s.short
         /\ UrbComplete(s, u).evq = s.evq /\ UrbComplete(s, u).recv = s.recv
<1>1. /\ UrbComplete(s, u).list = RemoveFirst(s.list, u)
      /\ UrbComplete(s, u).remaining = IF s.st[u] # "pending" THEN s.remaining + 1 ELSE s.remaining
      /\ UrbComplete(s, u).st = [s.st EXCEPT ![u] = "gone"]
      /\ UrbComplete(s, u).giveback = Append(s.giveback, u)
  BY DEF UrbComplete, Queue
<1>2. /\ UrbComplete(s, u).ghosts = s.ghosts /\ UrbComplete(s, u).flush = s.flush
      /\ UrbComplete(s, u).reclaimed = s.reclaimed /\ UrbComplete(s, u).active = s.active
      /\ UrbComplete(s, u).stalled = s.stalled /\ UrbComplete(s, u).want = s.want
      /\ UrbComplete(s, u).odd = s.odd /\ UrbComplete(s, u).short = s.short
      /\ UrbComplete(s, u).evq = s.evq /\ UrbComplete(s, u).recv = s.recv
  BY DEF UrbComplete, Queue
<1>3. UrbComplete(s, u) \in Queue
  <2>1. /\ (IF s.st[u] # "pending" THEN s.remaining + 1 ELSE s.remaining) \in Int
        /\ [s.st EXCEPT ![u] = "gone"] \in [URB -> Held \cup {"new", "gone", "back"}]
        /\ Append(s.giveback, u) \in Seq(URB)
    BY DEF Queue
  <2> QED BY <2>1 DEF UrbComplete, Queue
<1> QED BY <1>1, <1>2, <1>3

LEMMA UrbCompleteStep ==
  ASSUME NEW s, Good(s), NEW u \in URB, s.st[u] \in Held, Config
  PROVE  /\ Sec(s, UrbComplete(s, u)) /\ UrbComplete(s, u).evq = s.evq
         /\ ToSet(UrbComplete(s, u).list) = ToSet(s.list) \ {u}
         /\ \A v \in URB : v # u => UrbComplete(s, u).st[v] = s.st[v]
<1> DEFINE t == UrbComplete(s, u)
<1>f. /\ s.list \in Seq(URB) /\ s.giveback \in Seq(URB) /\ s.remaining \in Int
      /\ s.ghosts \in Nat /\ s.flush \in Seq(URB)
      /\ s.st \in [URB -> Held \cup {"new", "gone", "back"}]
  BY FieldTypes DEF Good
<1>l. u \in ToSet(s.list) /\ u \notin ToSet(s.giveback) /\ u \notin ToSet(s.flush)
  BY DEF Good, Owned, Held, Started
<1>r. /\ RemoveFirst(s.list, u) \in Seq(URB) /\ Distinct(RemoveFirst(s.list, u))
      /\ ToSet(RemoveFirst(s.list, u)) = ToSet(s.list) \ {u}
  BY <1>f, <1>l, RemoveOne DEF Good, Owned
<1>a. /\ ToSet(Append(s.giveback, u)) = ToSet(s.giveback) \cup {u}
      /\ Distinct(Append(s.giveback, u))
  BY <1>f, <1>l, Appended DEF Good, Owned
<1>0. /\ t \in Queue /\ t.list = RemoveFirst(s.list, u)
      /\ t.remaining = IF s.st[u] # "pending" THEN s.remaining + 1 ELSE s.remaining
      /\ t.st = [s.st EXCEPT ![u] = "gone"] /\ t.giveback = Append(s.giveback, u)
      /\ t.ghosts = s.ghosts /\ t.flush = s.flush /\ t.reclaimed = s.reclaimed
      /\ t.active = s.active /\ t.stalled = s.stalled /\ t.want = s.want
      /\ t.odd = s.odd /\ t.short = s.short /\ t.evq = s.evq
  BY <1>r, UrbCompleteFields DEF Good
<1> HIDE DEF t
<1>s. \A v \in URB : t.st[v] = IF v = u THEN "gone" ELSE s.st[v]
  BY <1>0, <1>f
<1>1. Owned(t)
  <2> SUFFICES ASSUME NEW v \in URB
               PROVE  /\ v \in ToSet(t.list) <=> t.st[v] \in Held
                      /\ v \in ToSet(t.giveback) \/ v \in ToSet(t.flush) <=> t.st[v] = "gone"
                      /\ ~(v \in ToSet(t.giveback) /\ v \in ToSet(t.flush))
    BY <1>0, <1>a, <1>r DEF Good, Owned
  <2>1. CASE v = u
    BY <1>0, <1>a, <1>l, <1>r, <1>s, <2>1 DEF Held, Started
  <2>2. CASE v # u
    BY <1>0, <1>a, <1>r, <1>s, <2>2 DEF Good, Owned
  <2> QED BY <2>1, <2>2
<1>2. Slots(t)
  <2>1. Running(s) \in SUBSET URB /\ Waiting(t) = Waiting(s) /\ Waiting(s) \in Nat
    BY <1>0, <1>f DEF Running, Waiting
  <2>2. IsFiniteSet(Running(s)) /\ Cardinality(Running(s)) \in Nat
    BY <2>1, UrbFinite
  <2>3. Running(t) = Running(s) \ {u}
    BY <1>s DEF Running, Started
  <2>4. CASE s.st[u] = "pending"
    <3>1. Running(t) = Running(s) /\ t.remaining = s.remaining
      BY <1>0, <2>3, <2>4 DEF Running, Started
    <3> QED BY <1>0, <2>1, <3>1 DEF Good, Slots
  <2>5. CASE s.st[u] # "pending"
    <3>1. u \in Running(s) /\ t.remaining = s.remaining + 1
      BY <1>0, <2>5 DEF Running, Held
    <3>2. Cardinality(Running(t)) = Cardinality(Running(s)) - 1
      BY <2>2, <2>3, <3>1, FS_RemoveElement
    <3> QED BY <1>0, <1>f, <2>1, <2>2, <3>1, <3>2, SMTT(20) DEF Good, Slots, Config
  <2> QED BY <2>4, <2>5
<1>3. Kept(s, t)
  BY <1>0, <1>s DEF Kept, Held, Started
<1>4. ToSet(t.list) = ToSet(s.list) \ {u}
  BY <1>0, <1>r
<1> QED BY <1>0, <1>1, <1>2, <1>3, <1>4, <1>s DEF Sec, Good, t

LEMMA SecSame == ASSUME NEW s, Good(s) PROVE Sec(s, s) /\ FreshKept(s, s)
  BY DEF Sec, Kept, FreshKept

LEMMA FreshTrans ==
  ASSUME NEW s, NEW t, NEW w, FreshKept(s, t), FreshKept(t, w)
  PROVE  FreshKept(s, w)
  BY DEF FreshKept

LEMMA FirstUrb ==
  ASSUME NEW s, Good(s), s.list # <<>>
  PROVE  s.list[1] \in URB /\ s.st[s.list[1]] \in Held
<1>1. s.list \in Seq(URB)
  BY FieldTypes DEF Good
<1>2. s.list[1] \in ToSet(s.list) /\ s.list[1] \in URB
  BY <1>1, Popped
<1> QED BY <1>2 DEF Good, Owned

LEMMA DataTransferInFields ==
  ASSUME NEW s \in Queue, NEW u \in URB
  PROVE  /\ Frame(s, DataTransferIn(s, u)) /\ DataTransferIn(s, u).remaining = s.remaining
         /\ DataTransferIn(s, u).st = [s.st EXCEPT ![u] = "wait"]
<1> DEFINE t == DataTransferIn(s, u)
<1>1. /\ t.list = s.list /\ t.evq = s.evq /\ t.ghosts = s.ghosts /\ t.giveback = s.giveback
      /\ t.flush = s.flush /\ t.reclaimed = s.reclaimed /\ t.active = s.active
      /\ t.stalled = s.stalled /\ t.want = s.want /\ t.odd = s.odd /\ t.short = s.short
      /\ t.remaining = s.remaining /\ t.st = [s.st EXCEPT ![u] = "wait"]
  BY DEF DataTransferIn, Queue
<1>2. t \in Queue
  <2>1. /\ [s.st EXCEPT ![u] = "wait"] \in [URB -> Held \cup {"new", "gone", "back"}]
        /\ [s.ring EXCEPT !["in"] = Append(@, u)] \in [Rings -> Seq(URB)]
    BY DEF Queue, Held, Started, Rings
  <2>2. (s.loose \/ ~s.active) \in BOOLEAN /\ (s.crashed \/ kind = "out") \in BOOLEAN
    OBVIOUS
  <2> QED BY <2>1, <2>2 DEF DataTransferIn, Queue
<1> QED BY <1>1, <1>2 DEF Frame

LEMMA SetState ==
  ASSUME NEW s \in Queue, NEW u \in URB, NEW p \in Held
  PROVE  /\ Frame(s, [s EXCEPT !.st[u] = p]) /\ [s EXCEPT !.st[u] = p].remaining = s.remaining
         /\ [s EXCEPT !.st[u] = p].st = [s.st EXCEPT ![u] = p]
<1>1. [s.st EXCEPT ![u] = p] \in [URB -> Held \cup {"new", "gone", "back"}]
  BY DEF Queue
<1>2. [s EXCEPT !.st[u] = p] \in Queue
  BY <1>1 DEF Queue
<1> QED BY <1>2 DEF Frame, Queue

LEMMA DataStartFields ==
  ASSUME NEW s \in Queue, NEW u \in URB, Config
  PROVE  /\ Frame(s, DataStart(s, u)) /\ DataStart(s, u).remaining = s.remaining
         /\ \E p \in Started : DataStart(s, u).st = [s.st EXCEPT ![u] = p]
<1>1. dir[u] \in {"in", "out", "none"}
  BY DEF Config
<1>2. {"request", "done", "wait"} \subseteq Started /\ Started \subseteq Held
  BY DEF Started, Held
<1>3. CASE dir[u] = "in"
  BY <1>2, <1>3, DataTransferInFields DEF DataStart
<1>4. CASE dir[u] = "out"
  <2>1. DataStart(s, u) = [s EXCEPT !.st[u] = "request"]
    BY <1>4 DEF DataStart
  <2>2. "request" \in Held /\ "request" \in Started
    BY <1>2
  <2> QED BY <2>1, <2>2, SetState
<1>5. CASE dir[u] = "none"
  <2>1. DataStart(s, u) = [s EXCEPT !.st[u] = "done"]
    BY <1>5 DEF DataStart
  <2>2. "done" \in Held /\ "done" \in Started
    BY <1>2
  <2> QED BY <2>1, <2>2, SetState
<1> QED BY <1>1, <1>3, <1>4, <1>5

\* An URB that was started has a slot.
LEMMA UrbInitFields ==
  ASSUME NEW s \in Queue, NEW u \in URB, Config, ~InitFails(s, u)
  PROVE  /\ Frame(s, UrbInit(s, u)) /\ UrbInit(s, u).remaining = s.remaining - 1
         /\ \E p \in Started : /\ kind = "control" => p = "setup"
                               /\ UrbInit(s, u).st = [s.st EXCEPT ![u] = p]
<1> DEFINE w == IF kind = "control" THEN [s EXCEPT !.st[u] = "setup"] ELSE DataStart(s, u)
<1>1. /\ Frame(s, w) /\ w.remaining = s.remaining
      /\ \E p \in Started : /\ kind = "control" => p = "setup"
                            /\ w.st = [s.st EXCEPT ![u] = p]
  <2>1. CASE kind = "control"
    <3>1. "setup" \in Started /\ "setup" \in Held
      BY DEF Started, Held
    <3> QED BY <2>1, <3>1, SetState
  <2>2. CASE kind # "control"
    BY <2>2, DataStartFields
  <2> QED BY <2>1, <2>2
<1>2. UrbInit(s, u) = [w EXCEPT !.remaining = @ - 1]
  BY DEF UrbInit
<1> HIDE DEF w
<1>3. w \in Queue
  BY <1>1 DEF Frame
<1> DEFINE x == [w EXCEPT !.remaining = @ - 1]
<1>4. x \in Queue
  <2>1. w.remaining - 1 \in Int
    BY <1>3, FieldTypes
  <2> QED BY <1>3, <2>1 DEF Queue
<1>5. x.remaining = w.remaining - 1 /\ x.st = w.st
  BY <1>3 DEF Queue
<1>6. Frame(w, x)
  <2>1. /\ x.list = w.list /\ x.evq = w.evq /\ x.ghosts = w.ghosts /\ x.giveback = w.giveback
        /\ x.flush = w.flush /\ x.reclaimed = w.reclaimed /\ x.active = w.active
        /\ x.stalled = w.stalled /\ x.want = w.want /\ x.odd = w.odd /\ x.short = w.short
    BY <1>3 DEF Queue
  <2> QED BY <1>4, <2>1 DEF Frame
<1> HIDE DEF x
<1>7. UrbInit(s, u) = x
  BY <1>2 DEF x
<1>8. Frame(s, x)
  BY <1>1, <1>6 DEF Frame
<1> QED BY <1>1, <1>5, <1>7, <1>8

LEMMA UrbInitStep ==
  ASSUME NEW s, Good(s), NEW u \in URB, Config, s.st[u] = "pending"
  PROVE  Sec(s, UrbInit(s, u)) /\ FreshKept(s, UrbInit(s, u)) /\ UrbInit(s, u).evq = s.evq
<1> DEFINE t == UrbInit(s, u)
<1>1. CASE InitFails(s, u)
  BY <1>1, SecSame DEF UrbInit
<1>2. CASE ~InitFails(s, u)
  <2>1. /\ Frame(s, t) /\ t.remaining = s.remaining - 1
        /\ \E p \in Started : (kind = "control" => p = "setup") /\ t.st = [s.st EXCEPT ![u] = p]
    BY <1>2, UrbInitFields DEF Good
  <2>2. PICK p \in Started : (kind = "control" => p = "setup") /\ t.st = [s.st EXCEPT ![u] = p]
    BY <2>1
  <2> HIDE DEF t
  <2>3. Sec(s, t)
    BY <2>1, <2>2, StartStep
  <2>4. \A v \in URB : t.st[v] = IF v = u THEN p ELSE s.st[v]
    BY <2>2 DEF Good, Queue
  <2>5. FreshKept(s, t)
    BY <2>2, <2>4 DEF FreshKept, Fresh, Held
  <2> QED BY <2>1, <2>3, <2>5 DEF Frame, t
<1> QED BY <1>1, <1>2

LEMMA SendOutDataFields ==
  ASSUME NEW s \in Queue, NEW u \in URB, NEW p \in Started
  PROVE  /\ Frame(s, SendOutData(s, u, p)) /\ SendOutData(s, u, p).remaining = s.remaining
         /\ SendOutData(s, u, p).st = [s.st EXCEPT ![u] = p]
<1> DEFINE t == SendOutData(s, u, p)
<1>1. /\ t.list = s.list /\ t.evq = s.evq /\ t.ghosts = s.ghosts /\ t.giveback = s.giveback
      /\ t.flush = s.flush /\ t.reclaimed = s.reclaimed /\ t.active = s.active
      /\ t.stalled = s.stalled /\ t.want = s.want /\ t.odd = s.odd /\ t.short = s.short
      /\ t.remaining = s.remaining /\ t.st = [s.st EXCEPT ![u] = p]
  BY DEF SendOutData, Queue
<1>2. t \in Queue
  <2>1. /\ [s.st EXCEPT ![u] = p] \in [URB -> Held \cup {"new", "gone", "back"}]
        /\ [s.ring EXCEPT !["out"] = Append(@, u)] \in [Rings -> Seq(URB)]
        /\ s.outPending + 1 \in Nat
    BY DEF Queue, Held, Rings
  <2>2. (s.loose \/ ~s.active) \in BOOLEAN
    OBVIOUS
  <2> QED BY <2>1, <2>2 DEF SendOutData, Queue
<1> QED BY <1>1, <1>2 DEF Frame

\* The queue stops, and a reset is wanted.
LEMMA StallStep ==
  ASSUME NEW s, Good(s), NEW a \in BOOLEAN
  PROVE  LET t == [s EXCEPT !.active = IF a THEN FALSE ELSE @, !.stalled = TRUE,
                            !.want = Append(@, "reset")]
         IN Sec(s, t) /\ t.st = s.st /\ t.evq = s.evq
<1> DEFINE t == [s EXCEPT !.active = IF a THEN FALSE ELSE @, !.stalled = TRUE,
                          !.want = Append(@, "reset")]
<1>1. /\ s.want \in Seq(Jobs) /\ "reset" \in Jobs
  BY FieldTypes DEF Good, Jobs
<1>2. Append(s.want, "reset") \in Seq(Jobs) /\ ToSet(Append(s.want, "reset")) = ToSet(s.want) \cup {"reset"}
  BY <1>1, Appended
<1>3. t \in Queue
  BY <1>2 DEF Good, Queue
<1>4. /\ t.list = s.list /\ t.st = s.st /\ t.remaining = s.remaining /\ t.ghosts = s.ghosts
      /\ t.giveback = s.giveback /\ t.flush = s.flush /\ t.reclaimed = s.reclaimed
      /\ t.stalled = TRUE /\ t.want = Append(s.want, "reset") /\ t.odd = s.odd /\ t.short = s.short
      /\ t.evq = s.evq
  BY DEF Good, Queue
<1> HIDE DEF t
<1>5. Owned(t)
  BY <1>4 DEF Good, Owned
<1>6. Slots(t)
  BY <1>4 DEF Good, Slots, Running, Waiting
<1>7. Kept(s, t)
  BY <1>2, <1>4 DEF Kept
<1> QED BY <1>3, <1>4, <1>5, <1>6, <1>7 DEF Sec, Good, t

LEMMA CheckStatusStep ==
  ASSUME NEW s, Good(s), NEW u \in URB, s.st[u] \in Held, Config
  PROVE  /\ Sec(s, CheckStatus(s, u)) /\ CheckStatus(s, u).evq = s.evq
         /\ \A v \in URB : v # u => CheckStatus(s, u).st[v] = s.st[v]
         /\ s.st[u] \in {"setup", "setupSent"} => CheckStatus(s, u) = s
<1> DEFINE ends == \/ s.st[u] = "done"
                   \/ s.recv[u] = "fail" /\ s.st[u] \notin {"setup", "setupSent"}
           w == UrbComplete(s, u)
<1>0. s.recv[u] \in {"no", "ok", "fail"}
  BY FieldTypes DEF Good
<1>1. CASE s.recv[u] = "no" \/ ~ends
  <2>1. CheckStatus(s, u) = s
    BY <1>0, <1>1 DEF CheckStatus
  <2> QED BY <2>1, SecSame
<1>2. CASE s.recv[u] = "ok" /\ ends
  <2>1. CheckStatus(s, u) = w
    BY <1>2 DEF CheckStatus
  <2> QED BY <1>2, <2>1, UrbCompleteStep
<1>3. CASE s.recv[u] = "fail" /\ ends
  <2> DEFINE t == [w EXCEPT !.active = FALSE, !.stalled = TRUE, !.want = Append(@, "reset")]
  <2>1. CheckStatus(s, u) = t
    BY <1>3 DEF CheckStatus
  <2>2. Sec(s, w) /\ w.evq = s.evq /\ \A v \in URB : v # u => w.st[v] = s.st[v]
    BY UrbCompleteStep
  <2> HIDE DEF w
  <2>3. Sec(w, t) /\ t.st = w.st /\ t.evq = w.evq
    BY <2>2, StallStep, TRUE \in BOOLEAN DEF Sec
  <2> HIDE DEF t
  <2>4. Sec(s, t)
    BY <2>2, <2>3, SecTrans
  <2> QED BY <1>3, <2>1, <2>2, <2>3, <2>4
<1> QED BY <1>0, <1>1, <1>2, <1>3

LEMMA MoveFrame ==
  ASSUME NEW s, Good(s), NEW t, NEW u \in URB, NEW p \in Started, s.st[u] \in Started,
         Frame(s, t), t.remaining = s.remaining, t.st = [s.st EXCEPT ![u] = p]
  PROVE  /\ Sec(s, t) /\ t.evq = s.evq /\ t.st[u] = p
         /\ \A v \in URB : v # u => t.st[v] = s.st[v]
<1>1. Sec(s, t)
  BY MoveStep
<1> QED BY <1>1 DEF Frame, Good, Queue

LEMMA UrbUpdateStep ==
  ASSUME NEW s, Good(s), NEW u \in URB, s.st[u] \in Held, Config, NEW msg \in Messages
  PROVE  /\ Sec(s, UrbUpdate(s, u, msg)) /\ FreshKept(s, UrbUpdate(s, u, msg))
         /\ UrbUpdate(s, u, msg).evq = s.evq
<1>1. CASE UpdateAgain(s, u, msg)
  <2>1. UrbUpdate(s, u, msg) = s
    BY <1>1 DEF UrbUpdate
  <2> QED BY <2>1, SecSame
<1>2. CASE ~UpdateAgain(s, u, msg) /\ msg # "req"
  <2> DEFINE w == [s EXCEPT !.recv[u] = msg]
  <2>1. UrbUpdate(s, u, msg) = CheckStatus(w, u)
    BY <1>2 DEF UrbUpdate
  <2>2. kind = "control" /\ s.st[u] # "pending"
    BY <1>2 DEF UpdateAgain
  <2>3. w \in Queue
    <3>1. [s.recv EXCEPT ![u] = msg] \in [URB -> {"no", "ok", "fail"}]
      BY <1>2, FieldTypes DEF Good, Messages
    <3> QED BY <3>1 DEF Good, Queue
  <2>4. /\ w.list = s.list /\ w.evq = s.evq /\ w.ghosts = s.ghosts /\ w.giveback = s.giveback
        /\ w.flush = s.flush /\ w.reclaimed = s.reclaimed /\ w.active = s.active
        /\ w.stalled = s.stalled /\ w.want = s.want /\ w.odd = s.odd /\ w.short = s.short
        /\ w.st = s.st /\ w.remaining = s.remaining
    BY DEF Good, Queue
  <2> HIDE DEF w
  <2>5. Sec(s, w)
    BY <2>3, <2>4, SameStep DEF Frame
  <2>6. /\ Sec(w, CheckStatus(w, u)) /\ CheckStatus(w, u).evq = w.evq
        /\ \A v \in URB : v # u => CheckStatus(w, u).st[v] = w.st[v]
        /\ w.st[u] \in {"setup", "setupSent"} => CheckStatus(w, u) = w
    BY <2>4, <2>5, CheckStatusStep DEF Sec
  <2>7. FreshKept(s, CheckStatus(w, u))
    <3> SUFFICES ASSUME NEW v \in URB, s.st[v] \in Fresh
                 PROVE  CheckStatus(w, u).st[v] \in Fresh
      BY DEF FreshKept
    <3>1. CASE v # u
      BY <2>4, <2>6, <3>1
    <3>2. CASE v = u
      <4>1. s.st[u] \in {"setup", "setupSent"}
        BY <2>2, <3>2 DEF Fresh
      <4> QED BY <2>4, <2>6, <3>2, <4>1
    <3> QED BY <3>1, <3>2
  <2>8. Sec(s, CheckStatus(w, u))
    BY <2>5, <2>6, SecTrans
  <2> QED BY <2>1, <2>4, <2>6, <2>7, <2>8
<1>3. CASE ~UpdateAgain(s, u, msg) /\ msg = "req" /\ s.st[u] = "setup"
  <2> DEFINE t == SendOutData(s, u, "setupSent")
  <2>1. UrbUpdate(s, u, msg) = t
    BY <1>3 DEF UrbUpdate
  <2>2. "setupSent" \in Started /\ s.st[u] \in Started
    BY <1>3 DEF Started
  <2>3. Frame(s, t) /\ t.remaining = s.remaining /\ t.st = [s.st EXCEPT ![u] = "setupSent"]
    BY <2>2, SendOutDataFields DEF Good
  <2> HIDE DEF t
  <2>4. /\ Sec(s, t) /\ t.evq = s.evq /\ t.st[u] = "setupSent"
        /\ \A v \in URB : v # u => t.st[v] = s.st[v]
    BY <2>2, <2>3, MoveFrame
  <2>5. FreshKept(s, t)
    BY <2>4 DEF FreshKept, Fresh, Held, Started
  <2> QED BY <2>1, <2>4, <2>5
<1>4. CASE ~UpdateAgain(s, u, msg) /\ msg = "req" /\ s.st[u] = "request"
  <2> DEFINE t == SendOutData(s, u, "wait")
  <2>2. "wait" \in Started /\ s.st[u] \in Started /\ "wait" \in Held
    BY <1>4 DEF Started, Held
  <2>3. Frame(s, t) /\ t.remaining = s.remaining /\ t.st = [s.st EXCEPT ![u] = "wait"]
    BY <2>2, SendOutDataFields DEF Good
  <2>4. /\ Sec(s, t) /\ t.evq = s.evq /\ t.st[u] = "wait"
        /\ \A v \in URB : v # u => t.st[v] = s.st[v]
    <3> HIDE DEF t
    <3> QED BY <2>2, <2>3, MoveFrame
  <2>5. CASE kind # "control"
    <3>1. UrbUpdate(s, u, msg) = t
      BY <1>4, <2>5 DEF UrbUpdate
    <3> HIDE DEF t
    <3>2. FreshKept(s, t)
      BY <2>4, <2>5 DEF FreshKept, Fresh, Held, Started
    <3> QED BY <2>4, <3>1, <3>2
  <2>6. CASE kind = "control"
    <3>1. UrbUpdate(s, u, msg) = CheckStatus(t, u)
      BY <1>4, <2>6 DEF UrbUpdate
    <3> HIDE DEF t
    <3>2. /\ Sec(t, CheckStatus(t, u)) /\ CheckStatus(t, u).evq = t.evq
          /\ \A v \in URB : v # u => CheckStatus(t, u).st[v] = t.st[v]
      BY <2>2, <2>4, CheckStatusStep DEF Sec
    <3>3. FreshKept(s, CheckStatus(t, u))
      BY <1>4, <2>4, <2>6, <3>2 DEF FreshKept, Fresh
    <3>4. Sec(s, CheckStatus(t, u))
      BY <2>4, <3>2, SecTrans
    <3> QED BY <2>4, <3>1, <3>2, <3>3, <3>4
  <2> QED BY <2>5, <2>6
<1>5. msg = "req" /\ ~UpdateAgain(s, u, msg) => s.st[u] \in {"request", "setup"}
  BY DEF UpdateAgain
<1> QED BY <1>1, <1>2, <1>3, <1>4, <1>5

-----------------------------------------------------------------------------
(* The loops of a section.                                                 *)

StartNext(t, u) == IF t.remaining > 0 /\ t.st[u] = "pending" THEN UrbInit(t, u) ELSE t

\* The loop of init_pending_urbs, and that it starts URBs and does nothing else
LEMMA InitPendingLoop ==
  ASSUME NEW s, Good(s), Config
  PROVE  /\ Sec(s, InitPendingUrbs(s)) /\ FreshKept(s, InitPendingUrbs(s))
         /\ InitPendingUrbs(s).evq = s.evq
         /\ \E f : /\ InitPendingUrbs(s) = f[1..Len(s.list)] /\ f[{}] = s
                   /\ \A k \in 1..Len(s.list) :
                         f[1..k] = StartNext(f[1..(k - 1)], s.list[k]) /\ s.list[k] \in URB
<1> DEFINE V == {t \in Queue : Sec(s, t) /\ FreshKept(s, t) /\ t.evq = s.evq}
           step == [p \in V \X URB |-> StartNext(p[1], p[2])]
           n == Len(s.list)
           Is(f) == f = [S \in SUBSET (1..n) |->
                          IF S = {} THEN s ELSE StartNext(f[S \ {Max(S)}], s.list[Max(S)])]
           F == CHOOSE f : Is(f)
<1>l. /\ s.list \in Seq(URB) /\ n \in Nat /\ DOMAIN s.list = 1..n
      /\ \A i \in 1..n : s.list[i] \in URB
  BY FieldTypes DEF Good
<1>b. s \in V
  BY SecSame DEF Good
<1>1. ASSUME NEW t \in V, NEW u \in URB PROVE StartNext(t, u) \in V
  <2>1. CASE t.remaining > 0 /\ t.st[u] = "pending"
    <3>1. Sec(t, UrbInit(t, u)) /\ FreshKept(t, UrbInit(t, u)) /\ UrbInit(t, u).evq = t.evq
      BY <2>1, UrbInitStep DEF Sec
    <3>2. Sec(s, UrbInit(t, u)) /\ FreshKept(s, UrbInit(t, u))
      BY <3>1, SecTrans, FreshTrans
    <3> QED BY <2>1, <3>1, <3>2 DEF StartNext, Sec, Good
  <2> QED BY <2>1 DEF StartNext
<1>e. InitPendingUrbs(s) = F[1..n]
  BY <1>l DEF InitPendingUrbs, FoldLeft, MapThenFoldSet, StartNext
<1> HIDE DEF V, n
<1>2. step \in [V \X URB -> V]
  BY <1>1
<1>3. PICK g \in [SUBSET (1..n) -> V] : FoldFcn(g, step, s, s.list, n)
  BY <1>b, <1>l, <1>2, FoldExists DEF n
<1>k. ASSUME NEW S \in SUBSET (1..n), S # {}
      PROVE  s.list[Max(S)] \in URB /\ S \ {Max(S)} \in SUBSET (1..n)
  <2>1. Max(S) \in S
    BY <1>k, <1>l, MaxOf
  <2> QED BY <1>l, <2>1
<1>4. Is(g)
  <2>1. ASSUME NEW S \in SUBSET (1..n), S # {}
        PROVE  step[<<g[S \ {Max(S)}], s.list[Max(S)]>>] = StartNext(g[S \ {Max(S)}], s.list[Max(S)])
    BY <1>3, <1>k, <2>1
  <2> QED BY <1>3, <2>1 DEF FoldFcn
<1>5. Is(F)
  BY <1>4
<1> HIDE DEF F, step
<1>6. F[{}] = s
  BY <1>5
<1>7. \A k \in 1..n : F[1..k] = StartNext(F[1..(k - 1)], s.list[k]) /\ s.list[k] \in URB
  <2> SUFFICES ASSUME NEW k \in 1..n
               PROVE  F[1..k] = StartNext(F[1..(k - 1)], s.list[k]) /\ s.list[k] \in URB
    OBVIOUS
  <2>1. 1..k \in SUBSET (1..n) /\ 1..k # {} /\ Max(1..k) = k /\ (1..k) \ {k} = 1..(k - 1)
    BY <1>l, MaxOfInterval
  <2>2. F[1..k] = StartNext(F[(1..k) \ {Max(1..k)}], s.list[Max(1..k)])
    BY <1>5, <2>1
  <2> QED BY <1>l, <2>1, <2>2
<1>8. F[1..n] \in V
  <2> DEFINE G == [k \in 0..n |-> V]
  <2>1. F[{}] \in G[0]
    BY <1>6, <1>b, <1>l
  <2>2. \A k \in 1..n : F[1..(k - 1)] \in G[k - 1] => F[1..k] \in G[k]
    BY <1>1, <1>7, <1>l
  <2>3. G[n] = V
    BY <1>l
  <2> HIDE DEF G
  <2> QED BY <1>l, <2>1, <2>2, <2>3, FoldInduction
<1>9. /\ Sec(s, InitPendingUrbs(s)) /\ FreshKept(s, InitPendingUrbs(s))
      /\ InitPendingUrbs(s).evq = s.evq
  BY <1>8, <1>e DEF V
<1> QED BY <1>6, <1>7, <1>9, <1>e DEF n

LEMMA InitPendingStep ==
  ASSUME NEW s, Good(s), Config
  PROVE  /\ Sec(s, InitPendingUrbs(s)) /\ FreshKept(s, InitPendingUrbs(s))
         /\ InitPendingUrbs(s).evq = s.evq
  BY InitPendingLoop

LEMMA EvqStep ==
  ASSUME NEW s, Good(s), NEW e \in Seq(Messages)
  PROVE  Sec(s, [s EXCEPT !.evq = e]) /\ FreshKept(s, [s EXCEPT !.evq = e])
<1> DEFINE t == [s EXCEPT !.evq = e]
<1>1. t \in Queue
  BY DEF Good, Queue
<1>2. /\ t.list = s.list /\ t.st = s.st /\ t.remaining = s.remaining /\ t.ghosts = s.ghosts
      /\ t.giveback = s.giveback /\ t.flush = s.flush /\ t.reclaimed = s.reclaimed
      /\ t.active = s.active /\ t.stalled = s.stalled /\ t.want = s.want /\ t.odd = s.odd
      /\ t.short = s.short
  BY DEF Good, Queue
<1> HIDE DEF t
<1>3. Owned(t)
  BY <1>2 DEF Good, Owned
<1>4. Slots(t)
  BY <1>2 DEF Good, Slots, Running, Waiting
<1>5. Kept(s, t) /\ FreshKept(s, t)
  BY <1>2 DEF Kept, FreshKept
<1> QED BY <1>1, <1>3, <1>4, <1>5 DEF Sec, Good, t

LEMMA DeliverFirstStep ==
  ASSUME NEW s, Good(s), Config
  PROVE  Sec(s, DeliverFirst(s)) /\ FreshKept(s, DeliverFirst(s))
<1> DEFINE u == s.list[1]
           w == UrbUpdate(s, u, s.evq[1])
           idle == s.list = <<>> \/ s.evq = <<>> \/ UpdateAgain(s, u, s.evq[1])
<1>1. CASE idle
  <2>1. DeliverFirst(s) = s
    BY <1>1 DEF DeliverFirst
  <2> QED BY <2>1, SecSame
<1>2. CASE ~idle
  <2>1. u \in URB /\ s.st[u] \in Held
    BY <1>2, FirstUrb
  <2>2. s.evq \in Seq(Messages) /\ s.evq # <<>>
    BY <1>2, FieldTypes DEF Good
  <2>3. s.evq[1] \in Messages /\ Tail(s.evq) \in Seq(Messages)
    BY <2>2, Popped
  <2>4. Sec(s, w) /\ FreshKept(s, w) /\ w.evq = s.evq
    BY <2>1, <2>3, UrbUpdateStep
  <2>5. DeliverFirst(s) = [w EXCEPT !.evq = Tail(@)]
    BY <1>2 DEF DeliverFirst
  <2> HIDE DEF w
  <2>6. DeliverFirst(s) = [w EXCEPT !.evq = Tail(s.evq)]
    BY <2>4, <2>5
  <2>7. Sec(w, DeliverFirst(s)) /\ FreshKept(w, DeliverFirst(s))
    BY <2>3, <2>4, <2>6, EvqStep DEF Sec
  <2> QED BY <2>4, <2>7, SecTrans, FreshTrans
<1> QED BY <1>1, <1>2

\* deliver_pending hands out the deferred events and starts URBs.
LEMMA DeliverPendingLoop ==
  ASSUME NEW s, Good(s), Config
  PROVE  /\ Sec(s, DeliverPending(s)) /\ FreshKept(s, DeliverPending(s))
         /\ \E f : /\ DeliverPending(s) = InitPendingUrbs(f[1..Len(s.evq)]) /\ f[{}] = s
                   /\ \A k \in 1..Len(s.evq) : f[1..k] = DeliverFirst(f[1..(k - 1)])
<1> DEFINE V == {t \in Queue : Sec(s, t) /\ FreshKept(s, t)}
           step == [p \in V \X Messages |-> DeliverFirst(p[1])]
           n == Len(s.evq)
           Is(f) == f = [S \in SUBSET (1..n) |-> IF S = {} THEN s ELSE DeliverFirst(f[S \ {Max(S)}])]
           F == CHOOSE f : Is(f)
<1>l. /\ s.evq \in Seq(Messages) /\ n \in Nat /\ DOMAIN s.evq = 1..n
      /\ \A i \in 1..n : s.evq[i] \in Messages
  BY FieldTypes DEF Good
<1>b. s \in V
  BY SecSame DEF Good
<1>1. ASSUME NEW t \in V PROVE DeliverFirst(t) \in V
  <2>1. Sec(t, DeliverFirst(t)) /\ FreshKept(t, DeliverFirst(t))
    BY DeliverFirstStep DEF Sec
  <2>2. Sec(s, DeliverFirst(t)) /\ FreshKept(s, DeliverFirst(t))
    BY <2>1, SecTrans, FreshTrans
  <2> QED BY <2>2 DEF Sec, Good
<1>e. DeliverPending(s) = InitPendingUrbs(F[1..n])
  BY <1>l DEF DeliverPending, FoldLeft, MapThenFoldSet
<1> HIDE DEF V, n
<1>2. step \in [V \X Messages -> V]
  BY <1>1
<1>3. PICK g \in [SUBSET (1..n) -> V] : FoldFcn(g, step, s, s.evq, n)
  BY <1>b, <1>l, <1>2, FoldExists DEF n
<1>k. ASSUME NEW S \in SUBSET (1..n), S # {}
      PROVE  s.evq[Max(S)] \in Messages /\ S \ {Max(S)} \in SUBSET (1..n)
  <2>1. Max(S) \in S
    BY <1>k, <1>l, MaxOf
  <2> QED BY <1>l, <2>1
<1>4. Is(g)
  <2>1. ASSUME NEW S \in SUBSET (1..n), S # {}
        PROVE  step[<<g[S \ {Max(S)}], s.evq[Max(S)]>>] = DeliverFirst(g[S \ {Max(S)}])
    BY <1>3, <1>k, <2>1
  <2> QED BY <1>3, <2>1 DEF FoldFcn
<1>5. Is(F)
  BY <1>4
<1> HIDE DEF F, step
<1>6. F[{}] = s
  BY <1>5
<1>7. \A k \in 1..n : F[1..k] = DeliverFirst(F[1..(k - 1)])
  <2> SUFFICES ASSUME NEW k \in 1..n PROVE F[1..k] = DeliverFirst(F[1..(k - 1)])
    OBVIOUS
  <2>1. 1..k \in SUBSET (1..n) /\ 1..k # {} /\ (1..k) \ {Max(1..k)} = 1..(k - 1)
    BY <1>l, MaxOfInterval
  <2> QED BY <1>5, <2>1
<1>8. F[1..n] \in V
  <2> DEFINE G == [k \in 0..n |-> V]
  <2>1. F[{}] \in G[0]
    BY <1>6, <1>b, <1>l
  <2>2. \A k \in 1..n : F[1..(k - 1)] \in G[k - 1] => F[1..k] \in G[k]
    BY <1>1, <1>7, <1>l
  <2>3. G[n] = V
    BY <1>l
  <2> HIDE DEF G
  <2> QED BY <1>l, <2>1, <2>2, <2>3, FoldInduction
<1> DEFINE t == F[1..n]
<1>9. Sec(s, t) /\ FreshKept(s, t)
  BY <1>8 DEF V
<1> HIDE DEF t
<1>10. Sec(t, InitPendingUrbs(t)) /\ FreshKept(t, InitPendingUrbs(t))
  BY <1>9, InitPendingStep DEF Sec
<1>11. DeliverPending(s) = InitPendingUrbs(t)
  BY <1>e DEF t
<1>12. Sec(s, DeliverPending(s)) /\ FreshKept(s, DeliverPending(s))
  BY <1>9, <1>10, <1>11, SecTrans, FreshTrans
<1> QED BY <1>6, <1>7, <1>12, <1>e DEF n

LEMMA DeliverPendingStep ==
  ASSUME NEW s, Good(s), Config
  PROVE  Sec(s, DeliverPending(s)) /\ FreshKept(s, DeliverPending(s))
  BY DeliverPendingLoop

LEMMA DeferEventStep ==
  ASSUME NEW s, Good(s), NEW msg \in Messages
  PROVE  Sec(s, DeferEvent(s, msg))
<1>1. CASE s.short
  <2> DEFINE t == [s EXCEPT !.active = IF FALSE THEN FALSE ELSE @, !.stalled = TRUE,
                            !.want = Append(@, "reset")]
  <2>1. Sec(s, t)
    BY StallStep, FALSE \in BOOLEAN
  <2>2. [s EXCEPT !.stalled = TRUE, !.want = Append(@, "reset")] = t
    BY DEF Good, Queue
  <2>3. DeferEvent(s, msg) = [s EXCEPT !.stalled = TRUE, !.want = Append(@, "reset")]
    BY <1>1 DEF DeferEvent
  <2> HIDE DEF t
  <2> QED BY <2>1, <2>2, <2>3
<1>2. CASE ~s.short
  <2>1. Append(s.evq, msg) \in Seq(Messages)
    BY FieldTypes, Appended DEF Good
  <2>2. DeferEvent(s, msg) = [s EXCEPT !.evq = Append(s.evq, msg)]
    BY <1>2 DEF DeferEvent
  <2> QED BY <2>1, <2>2, EvqStep
<1> QED BY <1>1, <1>2

LEMMA QueueEventStep ==
  ASSUME NEW s, Good(s), NEW msg \in Messages, Config
  PROVE  Sec(s, QueueEvent(s, msg))
<1> DEFINE t == DeliverPending(s)
           u == t.list[1]
<1>1. Sec(s, t)
  BY DeliverPendingStep
<1>2. CASE ~s.active
  <2>1. QueueEvent(s, msg) \in {s, DeferEvent(s, msg)}
    BY <1>2 DEF QueueEvent
  <2> QED BY <2>1, SecSame, DeferEventStep
<1>3. CASE s.active /\ msg = "req" /\ (t.evq # <<>> \/ t.list = <<>>)
  <2>1. QueueEvent(s, msg) = DeferEvent(t, msg)
    BY <1>3 DEF QueueEvent
  <2> HIDE DEF t
  <2>2. Sec(t, DeferEvent(t, msg))
    BY <1>1, DeferEventStep DEF Sec
  <2> QED BY <1>1, <2>1, <2>2, SecTrans
<1>4. CASE s.active /\ msg # "req" /\ t.list = <<>>
  <2>1. QueueEvent(s, msg) = t
    BY <1>4 DEF QueueEvent
  <2> QED BY <1>1, <2>1
<1>5. CASE s.active /\ t.list # <<>> /\ ~(msg = "req" /\ t.evq # <<>>)
  <2>1. QueueEvent(s, msg) = IF UpdateAgain(t, u, msg) THEN DeferEvent(t, msg)
                             ELSE InitPendingUrbs(UrbUpdate(t, u, msg))
    BY <1>5 DEF QueueEvent
  <2> HIDE DEF t
  <2>2. Sec(t, DeferEvent(t, msg))
    BY <1>1, DeferEventStep DEF Sec
  <2>3. u \in URB /\ t.st[u] \in Held
    BY <1>1, <1>5, FirstUrb DEF Sec
  <2> DEFINE w == UrbUpdate(t, u, msg)
  <2>4. Sec(t, w)
    BY <1>1, <2>3, UrbUpdateStep DEF Sec
  <2> HIDE DEF w, u
  <2>5. Sec(w, InitPendingUrbs(w))
    BY <2>4, InitPendingStep DEF Sec
  <2>6. Sec(s, InitPendingUrbs(w)) /\ Sec(s, DeferEvent(t, msg))
    BY <1>1, <2>2, <2>4, <2>5, SecTrans
  <2> QED BY <2>1, <2>6 DEF w
<1> QED BY <1>2, <1>3, <1>4, <1>5

LEMMA DataTransferCompletionStep ==
  ASSUME NEW s, Good(s), NEW u \in URB, s.st[u] \in Started, Config
  PROVE  /\ Sec(s, DataTransferCompletion(s, u))
         /\ kind = "control" => DataTransferCompletion(s, u).st[u] \in Held
<1> DEFINE t == [s EXCEPT !.st[u] = "done"]
<1>0. "done" \in Started /\ "done" \in Held /\ s.st[u] \in Held
  BY DEF Started, Held
<1>1. CASE s.st[u] # "wait"
  <2>1. DataTransferCompletion(s, u) = s
    BY <1>1 DEF DataTransferCompletion
  <2> QED BY <1>0, <2>1, SecSame
<1>2. CASE s.st[u] = "wait"
  <2>1. DataTransferCompletion(s, u) = IF kind = "control" THEN t ELSE UrbComplete(t, u)
    BY <1>2 DEF DataTransferCompletion
  <2>2. Frame(s, t) /\ t.remaining = s.remaining /\ t.st = [s.st EXCEPT ![u] = "done"]
    BY <1>0, SetState DEF Good
  <2> HIDE DEF t
  <2>3. Sec(s, t) /\ t.st[u] = "done"
    BY <1>0, <2>2, MoveFrame
  <2>4. Sec(t, UrbComplete(t, u))
    BY <1>0, <2>3, UrbCompleteStep DEF Sec
  <2>5. Sec(s, UrbComplete(t, u))
    BY <2>3, <2>4, SecTrans
  <2> QED BY <1>0, <2>1, <2>3, <2>5
<1> QED BY <1>1, <1>2

LEMMA UrbTransferCompletionStep ==
  ASSUME NEW s, Good(s), NEW u \in URB, s.st[u] \in Started, Config
  PROVE  Sec(s, UrbTransferCompletion(s, u))
<1>0. s.st[u] \in Held
  BY DEF Held
<1>1. CASE kind # "control"
  BY <1>1, DataTransferCompletionStep DEF UrbTransferCompletion
<1>2. CASE kind = "control" /\ s.st[u] = "setupSent"
  <2> DEFINE t == DataStart(s, u)
  <2>1. UrbTransferCompletion(s, u) = IF StartFails(s, u) THEN UrbComplete(s, u) ELSE CheckStatus(t, u)
    BY <1>2 DEF UrbTransferCompletion
  <2>2. /\ Frame(s, t) /\ t.remaining = s.remaining
        /\ \E p \in Started : t.st = [s.st EXCEPT ![u] = p]
    BY DataStartFields DEF Good
  <2>3. PICK p \in Started : t.st = [s.st EXCEPT ![u] = p]
    BY <2>2
  <2> HIDE DEF t
  <2>4. Sec(s, t) /\ t.st[u] = p
    BY <2>2, <2>3, MoveFrame
  <2>5. Sec(t, CheckStatus(t, u))
    BY <2>4, CheckStatusStep DEF Sec, Held
  <2> QED BY <1>0, <2>1, <2>4, <2>5, SecTrans, UrbCompleteStep
<1>3. CASE kind = "control" /\ s.st[u] \in {"request", "wait"}
  <2> DEFINE t == DataTransferCompletion(s, u)
  <2>1. UrbTransferCompletion(s, u) = CheckStatus(t, u)
    BY <1>3 DEF UrbTransferCompletion
  <2>2. Sec(s, t) /\ t.st[u] \in Held
    BY <1>3, DataTransferCompletionStep
  <2> HIDE DEF t
  <2>3. Sec(t, CheckStatus(t, u))
    BY <2>2, CheckStatusStep DEF Sec
  <2> QED BY <2>1, <2>2, <2>3, SecTrans
<1>4. CASE kind = "control" /\ s.st[u] \notin {"setupSent", "request", "wait"}
  <2>1. UrbTransferCompletion(s, u) = s
    BY <1>4 DEF UrbTransferCompletion
  <2> QED BY <2>1, SecSame
<1> QED BY <1>1, <1>2, <1>3, <1>4

\* A ghost's completion frees its slot.
LEMMA GhostFreed ==
  ASSUME NEW s, Good(s), s.ghosts > 0, NEW c, Config
  PROVE  Sec(s, [s EXCEPT !.ghosts = @ - 1, !.remaining = @ + 1,
                          !.swallowed = @ \/ c.urb \in Linked(s)])
<1> DEFINE t == [s EXCEPT !.ghosts = @ - 1, !.remaining = @ + 1,
                          !.swallowed = @ \/ c.urb \in Linked(s)]
<1>0. s.ghosts \in Nat /\ s.remaining \in Int /\ s.flush \in Seq(URB)
  BY FieldTypes DEF Good
<1>1. t \in Queue
  <2>1. s.ghosts - 1 \in Nat /\ s.remaining + 1 \in Int
    BY <1>0
  <2>2. (s.swallowed \/ c.urb \in Linked(s)) \in BOOLEAN
    OBVIOUS
  <2> QED BY <2>1, <2>2 DEF Good, Queue
<1>2. /\ t.list = s.list /\ t.st = s.st /\ t.remaining = s.remaining + 1 /\ t.ghosts = s.ghosts - 1
      /\ t.giveback = s.giveback /\ t.flush = s.flush /\ t.reclaimed = s.reclaimed
      /\ t.active = s.active /\ t.stalled = s.stalled /\ t.want = s.want /\ t.odd = s.odd
      /\ t.short = s.short
  BY DEF Good, Queue
<1> HIDE DEF t
<1>3. Owned(t)
  BY <1>2 DEF Good, Owned
<1>4. Slots(t)
  <2>1. Running(t) = Running(s) /\ Waiting(t) = Waiting(s) /\ Waiting(s) \in Nat
    BY <1>0, <1>2 DEF Running, Waiting
  <2>2. Cardinality(Running(s)) \in Nat
    BY UrbFinite DEF Running
  <2> QED BY <1>0, <1>2, <2>1, <2>2 DEF Good, Slots, Config
<1>5. Kept(s, t)
  BY <1>2 DEF Kept
<1>6. Sec(s, t)
  BY <1>1, <1>3, <1>4, <1>5 DEF Sec, Good
<1> QED BY <1>6 DEF t

LEMMA GhostStep ==
  ASSUME NEW s, Good(s), s.ghosts > 0, NEW c, Config
  PROVE  Sec(s, GhostGone(s, c))
<1> DEFINE t == [s EXCEPT !.ghosts = @ - 1, !.remaining = @ + 1,
                          !.swallowed = @ \/ c.urb \in Linked(s)]
<1>1. Sec(s, t)
  BY GhostFreed
<1>2. GhostGone(s, c) = InitPendingUrbs(t)
  BY DEF GhostGone
<1> HIDE DEF t
<1>3. Sec(t, InitPendingUrbs(t))
  BY <1>1, InitPendingStep DEF Sec
<1> QED BY <1>1, <1>2, <1>3, SecTrans

LEMMA OutPendingStep ==
  ASSUME NEW s, Good(s), NEW o \in Nat
  PROVE  LET t == [s EXCEPT !.outPending = o]
         IN Sec(s, t) /\ t.list = s.list /\ t.st = s.st /\ t.ghosts = s.ghosts
<1> DEFINE t == [s EXCEPT !.outPending = o]
<1>1. Frame(s, t) /\ t.st = s.st /\ t.remaining = s.remaining
  BY DEF Good, Queue, Frame
<1> HIDE DEF t
<1>2. Sec(s, t)
  BY <1>1, SameStep
<1> QED BY <1>1, <1>2 DEF t, Frame

\* One completion: it is ignored, a ghost's, or moves the first URB on.
LEMMA OneCompletionStep ==
  ASSUME NEW s, Good(s), NEW r \in Rings, NEW c \in Completion, Config
  PROVE  Sec(s, OneCompletion(s, r, c))
<1> DEFINE o == IF r = "out" THEN IF s.outPending > 0 THEN s.outPending - 1 ELSE 0
                             ELSE s.outPending
           t == [s EXCEPT !.outPending = o]
           u == s.list[1]
<1>0. o \in Nat /\ s \in Queue
  BY FieldTypes DEF Good
<1>7. s.ghosts \in Nat
  BY <1>0, FieldTypes
<1>1. (IF r = "out" THEN [s EXCEPT !.outPending = IF @ > 0 THEN @ - 1 ELSE 0] ELSE s) = t
  BY <1>0 DEF Queue
<1>2. Sec(s, t) /\ t.list = s.list /\ t.st = s.st /\ t.ghosts = s.ghosts
  BY <1>0, OutPendingStep
<1>3. CASE ~c.ok
  <2>1. OneCompletion(s, r, c) = t
    BY <1>1, <1>3 DEF OneCompletion
  <2> QED BY <1>2, <2>1
<1>4. CASE c.ok /\ s.ghosts > 0
  <2>1. OneCompletion(s, r, c) = GhostGone(t, c)
    BY <1>1, <1>4, <1>7 DEF OneCompletion
  <2> HIDE DEF t
  <2>2. Sec(t, GhostGone(t, c))
    BY <1>2, <1>4, GhostStep DEF Sec
  <2> QED BY <1>2, <2>1, <2>2, SecTrans
<1>5. CASE c.ok /\ s.ghosts = 0 /\ (s.list = <<>> \/ s.st[u] = "pending")
  <2>1. OneCompletion(s, r, c) = t
    BY <1>1, <1>5 DEF OneCompletion
  <2> QED BY <1>2, <2>1
<1>6. CASE c.ok /\ s.ghosts = 0 /\ s.list # <<>> /\ s.st[u] # "pending"
  <2>1. OneCompletion(s, r, c) = UrbTransferCompletion(t, u)
    BY <1>1, <1>6 DEF OneCompletion
  <2>2. u \in URB /\ s.st[u] \in Held
    BY <1>6, FirstUrb
  <2>3. t.st[u] \in Started
    BY <1>2, <1>6, <2>2 DEF Held
  <2> HIDE DEF t
  <2>4. Sec(t, UrbTransferCompletion(t, u))
    BY <1>2, <2>2, <2>3, UrbTransferCompletionStep DEF Sec
  <2> QED BY <1>2, <2>1, <2>4, SecTrans
<1> QED BY <1>3, <1>4, <1>5, <1>6, <1>7

LEMMA CompletionsLoop ==
  ASSUME NEW s, Good(s), NEW r \in Rings, Config
  PROVE  /\ Sec(s, Completions(s, r))
         /\ \E f : /\ Completions(s, r) = DeliverPending(f[1..Len(s.done[r])])
                   /\ f[{}] = [s EXCEPT !.done[r] = <<>>] /\ Good(f[{}])
                   /\ \A k \in 1..Len(s.done[r]) :
                         f[1..k] = OneCompletion(f[1..(k - 1)], r, s.done[r][k])
<1> DEFINE d == s.done[r]
           s0 == [s EXCEPT !.done[r] = <<>>]
           V == {t \in Queue : Sec(s, t)}
           step == [p \in V \X Completion |-> OneCompletion(p[1], r, p[2])]
           n == Len(d)
           Is(f) == f = [S \in SUBSET (1..n) |->
                          IF S = {} THEN s0 ELSE OneCompletion(f[S \ {Max(S)}], r, d[Max(S)])]
           F == CHOOSE f : Is(f)
<1>l. /\ d \in Seq(Completion) /\ n \in Nat /\ DOMAIN d = 1..n
      /\ \A i \in 1..n : d[i] \in Completion
  BY FieldTypes DEF Good
<1>b. s0 \in V
  <2>1. Frame(s, s0) /\ s0.st = s.st /\ s0.remaining = s.remaining
    <3>1. [s.done EXCEPT ![r] = <<>>] \in [Rings -> Seq(Completion)]
      BY FieldTypes DEF Good
    <3> QED BY <3>1 DEF Good, Queue, Frame
  <2> HIDE DEF s0
  <2> QED BY <2>1, SameStep DEF Frame
<1>1. ASSUME NEW t \in V, NEW c \in Completion PROVE OneCompletion(t, r, c) \in V
  <2>1. Sec(t, OneCompletion(t, r, c))
    BY OneCompletionStep DEF Sec
  <2>2. Sec(s, OneCompletion(t, r, c))
    BY <2>1, SecTrans
  <2> QED BY <2>2 DEF Sec, Good
<1>e. Completions(s, r) = DeliverPending(F[1..n])
  BY <1>l DEF Completions, FoldLeft, MapThenFoldSet
<1> HIDE DEF V, n, s0, d
<1>2. step \in [V \X Completion -> V]
  BY <1>1
<1>3. PICK g \in [SUBSET (1..n) -> V] : FoldFcn(g, step, s0, d, n)
  BY <1>b, <1>l, <1>2, FoldExists DEF n
<1>k. ASSUME NEW S \in SUBSET (1..n), S # {}
      PROVE  d[Max(S)] \in Completion /\ S \ {Max(S)} \in SUBSET (1..n)
  <2>1. Max(S) \in S
    BY <1>k, <1>l, MaxOf
  <2> QED BY <1>l, <2>1
<1>4. Is(g)
  <2>1. ASSUME NEW S \in SUBSET (1..n), S # {}
        PROVE  step[<<g[S \ {Max(S)}], d[Max(S)]>>] = OneCompletion(g[S \ {Max(S)}], r, d[Max(S)])
    BY <1>3, <1>k, <2>1
  <2> QED BY <1>3, <2>1 DEF FoldFcn
<1>5. Is(F)
  BY <1>4
<1> HIDE DEF F, step
<1>6. F[{}] = s0
  BY <1>5
<1>7. \A k \in 1..n : F[1..k] = OneCompletion(F[1..(k - 1)], r, d[k])
  <2> SUFFICES ASSUME NEW k \in 1..n PROVE F[1..k] = OneCompletion(F[1..(k - 1)], r, d[k])
    OBVIOUS
  <2>1. 1..k \in SUBSET (1..n) /\ 1..k # {} /\ Max(1..k) = k /\ (1..k) \ {k} = 1..(k - 1)
    BY <1>l, MaxOfInterval, SMTT(20)
  <2>2. F[1..k] = OneCompletion(F[(1..k) \ {Max(1..k)}], r, d[Max(1..k)])
    BY <1>5, <2>1
  <2> QED BY <2>1, <2>2
<1>8. F[1..n] \in V
  <2> DEFINE G == [k \in 0..n |-> V]
  <2>1. F[{}] \in G[0]
    BY <1>6, <1>b, <1>l
  <2>2. \A k \in 1..n : F[1..(k - 1)] \in G[k - 1] => F[1..k] \in G[k]
    BY <1>1, <1>7, <1>l
  <2>3. G[n] = V
    BY <1>l
  <2> HIDE DEF G
  <2> QED BY <1>l, <2>1, <2>2, <2>3, FoldInduction
<1> DEFINE t == F[1..n]
<1>9. Sec(s, t)
  BY <1>8 DEF V
<1> HIDE DEF t
<1>10. Sec(t, DeliverPending(t))
  BY <1>9, DeliverPendingStep DEF Sec
<1>11. Completions(s, r) = DeliverPending(t)
  BY <1>e DEF t
<1>12. Sec(s, Completions(s, r))
  BY <1>9, <1>10, <1>11, SecTrans
<1>13. Good(s0)
  BY <1>b DEF V, Sec
<1> QED BY <1>6, <1>7, <1>12, <1>13, <1>e DEF n, s0, d

LEMMA CompletionsStep ==
  ASSUME NEW s, Good(s), NEW r \in Rings, Config
  PROVE  Sec(s, Completions(s, r))
  BY CompletionsLoop

LEMMA UrbResumeStep ==
  ASSUME NEW s, Good(s), NEW u \in URB, Config
  PROVE  Sec(s, UrbResume(s, u))
<1>1. CASE s.st[u] # "wait"
  <2>1. UrbResume(s, u) = s
    BY <1>1 DEF UrbResume
  <2> QED BY <2>1, SecSame
<1>2. CASE s.st[u] = "wait" /\ ~s.short
  <2> DEFINE t == DataTransferIn(s, u)
  <2>1. UrbResume(s, u) = t
    BY <1>2 DEF UrbResume
  <2>2. Frame(s, t) /\ t.remaining = s.remaining /\ t.st = [s.st EXCEPT ![u] = "wait"]
    BY DataTransferInFields DEF Good
  <2> HIDE DEF t
  <2>3. Sec(s, t)
    BY <1>2, <2>2, MoveFrame DEF Started
  <2> QED BY <2>1, <2>3
<1>3. CASE s.st[u] = "wait" /\ s.short
  <2>1. UrbResume(s, u) = UrbComplete(s, u)
    BY <1>3 DEF UrbResume
  <2> QED BY <1>3, <2>1, UrbCompleteStep DEF Held, Started
<1> QED BY <1>1, <1>2, <1>3

\* An URB is started, or told that the endpoint runs again.
LEMMA ResumeOneStep ==
  ASSUME NEW a \in [s : Queue, stop : BOOLEAN], Good(a.s), NEW u \in URB, Config
  PROVE  ResumeOne(a, u) \in [s : Queue, stop : BOOLEAN] /\ Sec(a.s, ResumeOne(a, u).s)
<1>0. a.stop \in BOOLEAN /\ a.s \in Queue
  OBVIOUS
<1>1. CASE a.stop
  <2>1. ResumeOne(a, u) = a
    BY <1>1 DEF ResumeOne
  <2> QED BY <2>1, SecSame
<1>2. CASE ~a.stop /\ a.s.st[u] = "pending" /\ a.s.remaining = 0
  <2>1. ResumeOne(a, u) = [a EXCEPT !.stop = TRUE]
    BY <1>2 DEF ResumeOne
  <2> QED BY <2>1, SecSame
<1>3. CASE ~a.stop /\ a.s.st[u] = "pending" /\ a.s.remaining # 0
  <2> DEFINE t == UrbInit(a.s, u)
  <2>1. ResumeOne(a, u) = [a EXCEPT !.s = t]
    BY <1>3 DEF ResumeOne
  <2>2. Sec(a.s, t)
    BY <1>3, UrbInitStep
  <2> HIDE DEF t
  <2> QED BY <2>1, <2>2 DEF Sec, Good
<1>4. CASE ~a.stop /\ a.s.st[u] # "pending"
  <2> DEFINE t == UrbResume(a.s, u)
  <2>1. ResumeOne(a, u) = [a EXCEPT !.s = t]
    BY <1>4 DEF ResumeOne
  <2>2. Sec(a.s, t)
    BY UrbResumeStep
  <2> HIDE DEF t
  <2> QED BY <2>1, <2>2 DEF Sec, Good
<1> QED BY <1>1, <1>2, <1>3, <1>4

\* Once it runs, the queue stops only because it is stalled.
LEMMA ActivateLoop ==
  ASSUME NEW s, Good(s), Config
  PROVE  /\ Sec(s, Activate(s)) /\ (~Activate(s).active => Activate(s).stalled)
         /\ \E f : /\ Activate(s) = DeliverPending(f[1..Len(s.list)].s)
                   /\ f[{}] = [s |-> [s EXCEPT !.active = TRUE], stop |-> FALSE]
                   /\ Good(f[{}].s)
                   /\ \A k \in 1..Len(s.list) : f[1..k] = ResumeOne(f[1..(k - 1)], s.list[k])
<1> DEFINE s1 == [s EXCEPT !.active = TRUE]
           base == [s |-> s1, stop |-> FALSE]
           V == {a \in [s : Queue, stop : BOOLEAN] : Sec(s1, a.s)}
           step == [p \in V \X URB |-> ResumeOne(p[1], p[2])]
           n == Len(s.list)
           Is(f) == f = [S \in SUBSET (1..n) |->
                          IF S = {} THEN base ELSE ResumeOne(f[S \ {Max(S)}], s.list[Max(S)])]
           F == CHOOSE f : Is(f)
<1>l. /\ s.list \in Seq(URB) /\ n \in Nat /\ DOMAIN s.list = 1..n
      /\ \A i \in 1..n : s.list[i] \in URB
  BY FieldTypes DEF Good
<1>a. Sec(s, s1) /\ s1.active
  <2>1. /\ s1 \in Queue /\ s1.list = s.list /\ s1.st = s.st /\ s1.remaining = s.remaining
        /\ s1.ghosts = s.ghosts /\ s1.giveback = s.giveback /\ s1.flush = s.flush
        /\ s1.reclaimed = s.reclaimed /\ s1.active = TRUE /\ s1.stalled = s.stalled
        /\ s1.want = s.want /\ s1.odd = s.odd /\ s1.short = s.short
    BY DEF Good, Queue
  <2> HIDE DEF s1
  <2>2. Owned(s1) /\ Slots(s1) /\ Kept(s, s1)
    BY <2>1 DEF Good, Owned, Slots, Running, Waiting, Kept
  <2> QED BY <2>1, <2>2 DEF Sec, Good
<1>e. Activate(s) = DeliverPending(F[1..n].s)
  BY <1>l DEF Activate, FoldLeft, MapThenFoldSet
<1> HIDE DEF n, s1
<1>b. base \in V
  BY <1>a, SecSame DEF Sec, Good
<1>1. ASSUME NEW a \in V, NEW u \in URB PROVE ResumeOne(a, u) \in V
  <2>1. ResumeOne(a, u) \in [s : Queue, stop : BOOLEAN] /\ Sec(a.s, ResumeOne(a, u).s)
    BY ResumeOneStep DEF Sec
  <2>2. Sec(s1, ResumeOne(a, u).s)
    BY <2>1, SecTrans
  <2> QED BY <2>1, <2>2
<1> HIDE DEF V, base
<1>2. step \in [V \X URB -> V]
  BY <1>1
<1>3. PICK g \in [SUBSET (1..n) -> V] : FoldFcn(g, step, base, s.list, n)
  BY <1>b, <1>l, <1>2, FoldExists DEF n
<1>k. ASSUME NEW S \in SUBSET (1..n), S # {}
      PROVE  s.list[Max(S)] \in URB /\ S \ {Max(S)} \in SUBSET (1..n)
  <2>1. Max(S) \in S
    BY <1>k, <1>l, MaxOf
  <2> QED BY <1>l, <2>1
<1>4. Is(g)
  <2>1. ASSUME NEW S \in SUBSET (1..n), S # {}
        PROVE  step[<<g[S \ {Max(S)}], s.list[Max(S)]>>] = ResumeOne(g[S \ {Max(S)}], s.list[Max(S)])
    BY <1>3, <1>k, <2>1
  <2> QED BY <1>3, <2>1 DEF FoldFcn
<1>5. Is(F)
  BY <1>4
<1> HIDE DEF F, step
<1>6. F[{}] = base
  BY <1>5
<1>7. \A k \in 1..n : F[1..k] = ResumeOne(F[1..(k - 1)], s.list[k])
  <2> SUFFICES ASSUME NEW k \in 1..n PROVE F[1..k] = ResumeOne(F[1..(k - 1)], s.list[k])
    OBVIOUS
  <2>1. 1..k \in SUBSET (1..n) /\ 1..k # {} /\ Max(1..k) = k /\ (1..k) \ {k} = 1..(k - 1)
    BY <1>l, MaxOfInterval
  <2>2. F[1..k] = ResumeOne(F[(1..k) \ {Max(1..k)}], s.list[Max(1..k)])
    BY <1>5, <2>1
  <2> QED BY <2>1, <2>2
<1>8. F[1..n] \in V
  <2> DEFINE G == [k \in 0..n |-> V]
  <2>1. F[{}] \in G[0]
    BY <1>6, <1>b, <1>l
  <2>2. \A k \in 1..n : F[1..(k - 1)] \in G[k - 1] => F[1..k] \in G[k]
    BY <1>1, <1>7, <1>l
  <2>3. G[n] = V
    BY <1>l
  <2> HIDE DEF G
  <2> QED BY <1>l, <2>1, <2>2, <2>3, FoldInduction
<1> DEFINE t == F[1..n].s
<1>9. Sec(s1, t)
  BY <1>8 DEF V
<1> HIDE DEF t
<1>10. Sec(t, DeliverPending(t))
  BY <1>9, DeliverPendingStep DEF Sec
<1>11. Activate(s) = DeliverPending(t)
  BY <1>e DEF t
<1>12. Sec(s1, DeliverPending(t))
  BY <1>9, <1>10, SecTrans
<1>13. ~DeliverPending(t).active => DeliverPending(t).stalled
  BY <1>12, <1>a DEF Sec, Kept
<1>14. Sec(s, Activate(s)) /\ (~Activate(s).active => Activate(s).stalled)
  BY <1>11, <1>12, <1>13, <1>a, SecTrans
<1>15. Good(base.s)
  BY <1>a DEF base, Sec
<1> QED BY <1>6, <1>7, <1>14, <1>15, <1>e DEF n, base, s1

LEMMA ActivateStep ==
  ASSUME NEW s, Good(s), Config
  PROVE  Sec(s, Activate(s)) /\ (~Activate(s).active => Activate(s).stalled)
  BY ActivateLoop

-----------------------------------------------------------------------------
(* URBs come and go.                                                       *)

\* The URBs of U go on, and none of them starts again.
Onwards(s, t, U) ==
    \A u \in U : /\ t.st[u] = "new" <=> s.st[u] = "new"
                 /\ s.st[u] = "back" => t.st[u] = "back"
                 /\ s.st[u] = "gone" => t.st[u] \in {"gone", "back"}
                 /\ s.st[u] \in Held => t.st[u] \in Held \cup {"gone", "back"}

\* Kept, but for the URBs
Sides(s, t) ==
    /\ t.short = s.short /\ t.flush = s.flush /\ t.odd = s.odd
    /\ ToSet(s.want) \subseteq ToSet(t.want)
    /\ s.stalled => t.stalled
    /\ t.stalled => s.stalled \/ "reset" \in ToSet(t.want)
    /\ ~t.active => ~s.active \/ t.stalled

LEMMA SecSides ==
  ASSUME NEW s, NEW t, Sec(s, t)
  PROVE  Good(t) /\ Sides(s, t) /\ Onwards(s, t, URB)
  BY DEF Sec, Kept, Sides, Onwards, Held, Started

LEMMA SidesTrans ==
  ASSUME NEW s, NEW t, NEW w, Sides(s, t), Sides(t, w)
  PROVE  Sides(s, w)
  BY DEF Sides

LEMMA OnwardsTrans ==
  ASSUME NEW s, NEW t, NEW w, NEW U \in SUBSET URB, Onwards(s, t, U), Onwards(t, w, U)
  PROVE  Onwards(s, w, U)
  BY DEF Onwards, Held, Started

LEMMA GiveBackStep ==
  ASSUME NEW s \in Queue, Owned(s)
  PROVE  LET t == GiveBack(s)
         IN /\ t \in Queue /\ Owned(t) /\ (Slots(s) => Slots(t))
            /\ Sides(s, t) /\ t.want = s.want /\ Onwards(s, t, URB)
            /\ t.stalled = s.stalled /\ t.active = s.active
            /\ \A u \in URB : t.st[u] = IF u \in ToSet(s.giveback) THEN "back" ELSE s.st[u]
<1> DEFINE t == GiveBack(s)
<1>1. /\ t.list = s.list /\ t.remaining = s.remaining /\ t.ghosts = s.ghosts
      /\ t.flush = s.flush /\ t.reclaimed = s.reclaimed /\ t.active = s.active
      /\ t.stalled = s.stalled /\ t.want = s.want /\ t.odd = s.odd /\ t.short = s.short
      /\ t.giveback = <<>>
      /\ t.st = [u \in URB |-> IF u \in ToSet(s.giveback) THEN "back" ELSE s.st[u]]
  BY DEF GiveBack, Queue
<1>2. t \in Queue
  <2>1. [u \in URB |-> IF u \in ToSet(s.giveback) THEN "back" ELSE s.st[u]]
          \in [URB -> Held \cup {"new", "gone", "back"}]
    BY FieldTypes
  <2>2. <<>> \in Seq(URB)
    OBVIOUS
  <2> QED BY <2>1, <2>2 DEF GiveBack, Queue
<1> HIDE DEF t
<1>3. \A u \in URB : t.st[u] = IF u \in ToSet(s.giveback) THEN "back" ELSE s.st[u]
  BY <1>1
<1>4. ToSet(<<>>) = {} /\ Distinct(<<>>)
  BY EmptySequence
<1>5. Owned(t)
  <2> SUFFICES ASSUME NEW u \in URB
               PROVE  /\ u \in ToSet(t.list) <=> t.st[u] \in Held
                      /\ u \in ToSet(t.giveback) \/ u \in ToSet(t.flush) <=> t.st[u] = "gone"
                      /\ ~(u \in ToSet(t.giveback) /\ u \in ToSet(t.flush))
    BY <1>1, <1>4 DEF Owned
  <2> QED BY <1>1, <1>3, <1>4 DEF Owned, Held, Started
<1>6. ASSUME NEW u \in ToSet(s.giveback), u \in URB PROVE s.st[u] = "gone"
  BY <1>6 DEF Owned
<1>7. Slots(s) => Slots(t)
  <2>1. Running(t) = Running(s)
    BY <1>3, <1>6 DEF Running, Started
  <2> QED BY <1>1, <2>1 DEF Slots, Waiting
<1>8. Sides(s, t)
  BY <1>1 DEF Sides
<1>9. Onwards(s, t, URB)
  BY <1>3, <1>6 DEF Onwards, Held, Started
<1> QED BY <1>1, <1>2, <1>3, <1>5, <1>7, <1>8, <1>9 DEF t

\* An URB joins the list ...
Joining(s, u, x) ==
    [[s EXCEPT !.list = Append(@, u)] EXCEPT !.st[u] = "pending", !.want = @ \o x]

Joins(s, u, v) ==
    /\ Good(v) /\ Sides(s, v) /\ Onwards(s, v, URB \ {u})
    /\ v.st = [s.st EXCEPT ![u] = "pending"] /\ v.st[u] = "pending"

LEMMA JoinStep ==
  ASSUME NEW s, Good(s), NEW u \in URB, s.st[u] = "new", NEW x \in Seq(Jobs)
  PROVE  Joins(s, u, Joining(s, u, x))
<1> DEFINE v == Joining(s, u, x)
<1>f. /\ s.list \in Seq(URB) /\ s.st \in [URB -> Held \cup {"new", "gone", "back"}]
      /\ s.want \in Seq(Jobs)
  BY FieldTypes DEF Good
<1>l. u \notin ToSet(s.list) /\ u \notin ToSet(s.giveback) /\ u \notin ToSet(s.flush)
  BY DEF Good, Owned, Held, Started
<1>a. /\ Append(s.list, u) \in Seq(URB) /\ Distinct(Append(s.list, u))
      /\ ToSet(Append(s.list, u)) = ToSet(s.list) \cup {u}
  BY <1>f, <1>l, Appended DEF Good, Owned
<1>1. s.want \o x \in Seq(Jobs) /\ ToSet(s.want \o x) = ToSet(s.want) \cup ToSet(x)
  BY <1>f, Joined
<1>2. [s.st EXCEPT ![u] = "pending"] \in [URB -> Held \cup {"new", "gone", "back"}]
  BY <1>f DEF Held
<1>3. v \in Queue
  BY <1>a, <1>1, <1>2 DEF Good, Queue, Joining
<1>4. /\ v.list = Append(s.list, u) /\ v.st = [s.st EXCEPT ![u] = "pending"]
      /\ v.remaining = s.remaining /\ v.ghosts = s.ghosts /\ v.giveback = s.giveback
      /\ v.flush = s.flush /\ v.reclaimed = s.reclaimed /\ v.active = s.active
      /\ v.stalled = s.stalled /\ v.want = s.want \o x /\ v.odd = s.odd /\ v.short = s.short
  BY DEF Good, Queue, Joining
<1> HIDE DEF v
<1>5. \A y \in URB : v.st[y] = IF y = u THEN "pending" ELSE s.st[y]
  BY <1>f, <1>4
<1>6. Owned(v)
  <2> SUFFICES ASSUME NEW y \in URB
               PROVE  /\ y \in ToSet(v.list) <=> v.st[y] \in Held
                      /\ y \in ToSet(v.giveback) \/ y \in ToSet(v.flush) <=> v.st[y] = "gone"
                      /\ ~(y \in ToSet(v.giveback) /\ y \in ToSet(v.flush))
    BY <1>a, <1>4 DEF Good, Owned
  <2>1. CASE y = u
    BY <1>a, <1>l, <1>4, <1>5, <2>1 DEF Held
  <2>2. CASE y # u
    BY <1>a, <1>4, <1>5, <2>2 DEF Good, Owned
  <2> QED BY <2>1, <2>2
<1>7. Slots(v)
  <2>1. Running(v) = Running(s)
    BY <1>5 DEF Running, Started
  <2> QED BY <1>4, <2>1 DEF Good, Slots, Waiting
<1>8. Sides(s, v)
  BY <1>1, <1>4 DEF Sides
<1>9. Onwards(s, v, URB \ {u})
  BY <1>5 DEF Onwards
<1> QED BY <1>3, <1>4, <1>5, <1>6, <1>7, <1>8, <1>9 DEF Good, Joins, v

\* ... and starts at once.
LEMMA JoinStart ==
  ASSUME NEW s, Good(s), NEW u \in URB, s.st[u] = "new", Config, ~InitFails(s, u)
  PROVE  LET v == Joining(s, u, <<>>)
             linked == [s EXCEPT !.list = Append(@, u)]
             t == UrbInit(linked, u)
         IN /\ linked \in Queue /\ ~InitFails(linked, u) /\ linked.st = s.st
            /\ linked.ring = v.ring /\ linked.done = v.done /\ linked.active = v.active
            /\ linked.loose = v.loose
            /\ Frame(v, t) /\ Sec(v, t) /\ t.st[u] \in Fresh
<1> DEFINE linked == [s EXCEPT !.list = Append(@, u)]
           v == Joining(s, u, <<>>)
           t == UrbInit(linked, u)
<1>f. /\ s.list \in Seq(URB) /\ s.st \in [URB -> Held \cup {"new", "gone", "back"}]
      /\ s.want \in Seq(Jobs) /\ s \in Queue
  BY FieldTypes DEF Good
<1>a. Append(s.list, u) \in Seq(URB)
  BY <1>f
<1>2. Good(v) /\ v.st = [s.st EXCEPT ![u] = "pending"]
  <2>1. <<>> \in Seq(Jobs)
    OBVIOUS
  <2> QED BY <2>1, JoinStep DEF Joins
<1>3. /\ linked \in Queue /\ linked.st = s.st /\ linked.remaining = s.remaining
      /\ linked.short = s.short
  BY <1>a, <1>f DEF Queue
<1>4. ~InitFails(linked, u)
  BY <1>3 DEF InitFails, StartFails
<1>5. /\ Frame(linked, t) /\ t.remaining = linked.remaining - 1
      /\ \E p \in Started : (kind = "control" => p = "setup") /\ t.st = [linked.st EXCEPT ![u] = p]
  <2> HIDE DEF linked
  <2> QED BY <1>3, <1>4, UrbInitFields
<1>6. PICK p \in Started : (kind = "control" => p = "setup") /\ t.st = [linked.st EXCEPT ![u] = p]
  BY <1>5
<1>7. /\ v.list = linked.list /\ v.evq = linked.evq /\ v.ghosts = linked.ghosts
      /\ v.giveback = linked.giveback /\ v.flush = linked.flush /\ v.odd = linked.odd
      /\ v.reclaimed = linked.reclaimed /\ v.active = linked.active /\ v.short = linked.short
      /\ v.stalled = linked.stalled /\ v.want = linked.want /\ v.remaining = linked.remaining
      /\ v.ring = linked.ring /\ v.done = linked.done /\ v.loose = linked.loose
  BY <1>a, <1>f DEF Queue, Joining
<1> HIDE DEF t, v
<1>8. Frame(v, t) /\ t.remaining = v.remaining - 1
  BY <1>5, <1>7 DEF Frame
<1>9. /\ v.st[u] = "pending" /\ t.st = [v.st EXCEPT ![u] = p] /\ t.st[u] = p
  <2> HIDE DEF linked
  <2>1. t.st = [s.st EXCEPT ![u] = p]
    BY <1>3, <1>6
  <2> QED BY <1>f, <1>2, <2>1
<1>10. Sec(v, t)
  BY <1>2, <1>8, <1>9, StartStep
<1>11. t.st[u] \in Fresh
  BY <1>6, <1>9 DEF Fresh, Held
<1> HIDE DEF linked
<1> QED BY <1>3, <1>4, <1>7, <1>8, <1>10, <1>11 DEF t, v, linked

\* An URB that is created joins the list, unless that fails.
LEMMA CreateStep ==
  ASSUME NEW s, Good(s), NEW u \in URB, s.st[u] = "new", Config
  PROVE  LET t == Create(s, u)
         IN /\ Good(t) /\ Sides(s, t) /\ Onwards(s, t, URB \ {u})
            /\ t = s \/ t.st[u] \in Fresh
<1> DEFINE linked == [s EXCEPT !.list = Append(@, u)]
           starts == s.active /\ s.remaining > 0
           wakes == CASE s.active -> <<>>
                   [] ~s.active /\ s.stalled -> <<"reset">>
                   [] ~s.active /\ ~s.stalled ->
                        IF "internal" \in pausedBy THEN <<"resume">> ELSE <<>>
<1>f. s.active \in BOOLEAN /\ s.stalled \in BOOLEAN
  BY FieldTypes DEF Good
<1>1. wakes \in Seq(Jobs) /\ <<>> \in Seq(Jobs)
  <2>1. wakes \in {<<>>, <<"reset">>, <<"resume">>}
    BY <1>f
  <2>2. <<>> \in Seq(Jobs) /\ <<"reset">> \in Seq(Jobs) /\ <<"resume">> \in Seq(Jobs)
    BY DEF Jobs
  <2> HIDE DEF wakes
  <2> QED BY <2>1, <2>2
<1>3. "pending" \in Fresh
  BY DEF Fresh, Held
<1>4. CASE starts /\ InitFails(s, u)
  <2>1. Create(s, u) = s
    BY <1>4 DEF Create
  <2> QED BY <2>1 DEF Sides, Onwards
<1>5. CASE starts /\ ~InitFails(s, u)
  <2> DEFINE v == Joining(s, u, <<>>)
             t == UrbInit(linked, u)
             d == DeliverPending(t)
  <2>1. Create(s, u) = d
    BY <1>5 DEF Create
  <2>2. Good(v) /\ Sides(s, v) /\ Onwards(s, v, URB \ {u})
    BY <1>1, JoinStep DEF Joins
  <2>3. Sec(v, t) /\ t.st[u] \in Fresh
    BY <1>5, JoinStart
  <2> HIDE DEF t, v
  <2>4. Sec(t, d) /\ FreshKept(t, d)
    BY <2>3, DeliverPendingStep DEF Sec
  <2> HIDE DEF d
  <2>5. Sec(v, d)
    BY <2>3, <2>4, SecTrans
  <2>6. Good(d) /\ Sides(v, d) /\ Onwards(v, d, URB \ {u})
    BY <2>5, SecSides DEF Onwards
  <2>7. Sides(s, d) /\ Onwards(s, d, URB \ {u})
    BY <2>2, <2>6, SidesTrans, OnwardsTrans
  <2>8. d.st[u] \in Fresh
    BY <2>3, <2>4 DEF FreshKept
  <2> QED BY <2>1, <2>6, <2>7, <2>8
<1>6. CASE ~starts
  <2> DEFINE v == Joining(s, u, wakes)
             d == DeliverPending(v)
  <2>1. Create(s, u) = d
    BY <1>6 DEF Create, Joining
  <2>2. /\ Good(v) /\ Sides(s, v) /\ Onwards(s, v, URB \ {u}) /\ v.st[u] = "pending"
    <3> HIDE DEF wakes
    <3>1. Joins(s, u, Joining(s, u, wakes))
      BY <1>1, JoinStep
    <3> QED BY <3>1 DEF Joins
  <2> HIDE DEF v
  <2>4. Sec(v, d) /\ FreshKept(v, d)
    BY <2>2, DeliverPendingStep
  <2> HIDE DEF d
  <2>5. Good(d) /\ Sides(v, d) /\ Onwards(v, d, URB \ {u})
    BY <2>4, SecSides DEF Onwards
  <2>6. Sides(s, d) /\ Onwards(s, d, URB \ {u})
    BY <2>2, <2>5, SidesTrans, OnwardsTrans
  <2>7. d.st[u] \in Fresh
    BY <1>3, <2>2, <2>4 DEF FreshKept
  <2> QED BY <2>1, <2>5, <2>6, <2>7
<1> QED BY <1>4, <1>5, <1>6

\* The URBs and the slots are as they were.
Still(s, t) ==
    /\ t \in Queue
    /\ t.list = s.list /\ t.st = s.st /\ t.giveback = s.giveback /\ t.flush = s.flush
    /\ t.remaining = s.remaining /\ t.ghosts = s.ghosts /\ t.reclaimed = s.reclaimed

LEMMA StillStep ==
  ASSUME NEW s, NEW t, Still(s, t)
  PROVE  /\ Owned(s) => Owned(t)
         /\ Slots(s) => Slots(t)
         /\ Onwards(s, t, URB)
<1>1. Owned(s) => Owned(t)
  BY DEF Still, Owned
<1>2. Slots(s) => Slots(t)
  BY DEF Still, Slots, Running, Waiting
<1>3. Onwards(s, t, URB)
  BY DEF Still, Onwards, Held, Started
<1> QED BY <1>1, <1>2, <1>3

\* A cancelled URB is given back, or waits for the flush; its slot is free,
\* or a ghost has it, or the waiting URB.
LEMMA CancelStep ==
  ASSUME NEW s, Good(s), NEW u \in URB, s.st[u] \in Held, Config
  PROVE  LET t == IF FlushFirst(s, u) THEN [Cancel(s, u) EXCEPT !.flush = Append(@, u)]
                                      ELSE [Cancel(s, u) EXCEPT !.st[u] = "back"]
         IN /\ Good(t) /\ Onwards(s, t, URB)
            /\ t.want = s.want /\ t.short = s.short /\ t.stalled = s.stalled
            /\ t.active = s.active /\ t.odd = s.odd
            /\ ~FlushFirst(s, u) => t.flush = s.flush
<1> DEFINE p == IF FlushFirst(s, u) THEN "gone" ELSE "back"
           f == IF FlushFirst(s, u) THEN Append(s.flush, u) ELSE s.flush
           held == s.st[u] # "pending"
           ghost == kind # "control" /\ s.st[u] = "wait"
           g == IF ghost THEN s.ghosts + 1 ELSE s.ghosts
           m == IF held /\ kind # "control" /\ ~ghost THEN s.remaining + 1 ELSE s.remaining
           c == Cancel(s, u)
           t == IF FlushFirst(s, u) THEN [c EXCEPT !.flush = Append(@, u)]
                                    ELSE [c EXCEPT !.st[u] = "back"]
<1>f. /\ s.list \in Seq(URB) /\ s.flush \in Seq(URB) /\ s.remaining \in Int /\ s.ghosts \in Nat
      /\ s.st \in [URB -> Held \cup {"new", "gone", "back"}] /\ s \in Queue
  BY FieldTypes DEF Good
<1>l. u \in ToSet(s.list) /\ u \notin ToSet(s.giveback) /\ u \notin ToSet(s.flush)
  BY DEF Good, Owned, Held, Started
<1>r. /\ RemoveFirst(s.list, u) \in Seq(URB) /\ Distinct(RemoveFirst(s.list, u))
      /\ ToSet(RemoveFirst(s.list, u)) = ToSet(s.list) \ {u}
  BY <1>f, <1>l, RemoveOne DEF Good, Owned
<1>a. /\ Append(s.flush, u) \in Seq(URB) /\ Distinct(Append(s.flush, u))
      /\ ToSet(Append(s.flush, u)) = ToSet(s.flush) \cup {u}
      /\ Len(Append(s.flush, u)) = Len(s.flush) + 1
  BY <1>f, <1>l, Appended DEF Good, Owned
<1>g. g \in Nat /\ m \in Int
  BY <1>f
<1>c. /\ c \in Queue /\ c.list = RemoveFirst(s.list, u) /\ c.st = [s.st EXCEPT ![u] = "gone"]
      /\ c.ghosts = g /\ c.remaining = m /\ c.giveback = s.giveback /\ c.flush = s.flush
      /\ c.reclaimed = s.reclaimed /\ c.want = s.want /\ c.short = s.short
      /\ c.stalled = s.stalled /\ c.active = s.active /\ c.odd = s.odd
  <2>1. [s.st EXCEPT ![u] = "gone"] \in [URB -> Held \cup {"new", "gone", "back"}]
    BY <1>f
  <2>2. Cancel(s, u) = [s EXCEPT !.list = RemoveFirst(s.list, u),
                                 !.st = [s.st EXCEPT ![u] = "gone"],
                                 !.ghosts = g, !.remaining = m]
    BY <1>f DEF Cancel, Queue
  <2> HIDE DEF g, m
  <2> QED BY <1>f, <1>g, <1>r, <2>1, <2>2, ZenonT(60) DEF Queue
<1> HIDE DEF c
<1>t. /\ t \in Queue /\ t.list = c.list /\ t.st = [s.st EXCEPT ![u] = p]
      /\ t.ghosts = g /\ t.remaining = m /\ t.giveback = s.giveback /\ t.flush = f
      /\ t.reclaimed = s.reclaimed /\ t.want = s.want /\ t.short = s.short
      /\ t.stalled = s.stalled /\ t.active = s.active /\ t.odd = s.odd
  <2> HIDE DEF g, m
  <2>1. CASE FlushFirst(s, u)
    BY <1>a, <1>c, <2>1 DEF Queue
  <2>2. CASE ~FlushFirst(s, u)
    <3>1. [s.st EXCEPT ![u] = "back"] \in [URB -> Held \cup {"new", "gone", "back"}]
      BY <1>f
    <3>2. [c.st EXCEPT ![u] = "back"] = [s.st EXCEPT ![u] = "back"]
      BY <1>c, <1>f
    <3>3. t = [c EXCEPT !.st = [s.st EXCEPT ![u] = "back"]]
      BY <1>c, <2>2, <3>2 DEF Queue
    <3> HIDE DEF t
    <3> QED BY <1>c, <2>2, <3>1, <3>3 DEF Queue
  <2> QED BY <2>1, <2>2
<1> HIDE DEF t
<1>s. \A v \in URB : t.st[v] = IF v = u THEN p ELSE s.st[v]
  BY <1>f, <1>t
<1>1. Owned(t)
  <2>1. ToSet(f) = IF FlushFirst(s, u) THEN ToSet(s.flush) \cup {u} ELSE ToSet(s.flush)
    BY <1>a
  <2>2. Distinct(f)
    BY <1>a DEF Good, Owned
  <2> SUFFICES ASSUME NEW v \in URB
               PROVE  /\ v \in ToSet(t.list) <=> t.st[v] \in Held
                      /\ v \in ToSet(t.giveback) \/ v \in ToSet(t.flush) <=> t.st[v] = "gone"
                      /\ ~(v \in ToSet(t.giveback) /\ v \in ToSet(t.flush))
    BY <1>c, <1>r, <1>t, <2>2 DEF Good, Owned
  <2>3. CASE v = u
    BY <1>c, <1>l, <1>r, <1>s, <1>t, <2>1, <2>3 DEF Held, Started
  <2>4. CASE v # u
    <3>1. /\ v \in ToSet(t.list) <=> v \in ToSet(s.list)
          /\ v \in ToSet(t.flush) <=> v \in ToSet(s.flush)
          /\ t.giveback = s.giveback /\ t.st[v] = s.st[v]
      BY <1>c, <1>r, <1>s, <1>t, <2>1, <2>4
    <3> QED BY <3>1 DEF Good, Owned
  <2> QED BY <2>3, <2>4
<1>2. Slots(t)
  <2>1. Running(s) \in SUBSET URB
    BY DEF Running
  <2>2. IsFiniteSet(Running(s)) /\ Cardinality(Running(s)) \in Nat
    BY <2>1, UrbFinite
  <2>3. Running(t) = Running(s) \ {u}
    BY <1>s DEF Running, Started
  <2>4. CASE ~held
    <3>1. Running(t) = Running(s)
      BY <2>3, <2>4 DEF Running, Started
    <3>2. kind = "control" => ~FlushFirst(s, u)
      BY <1>c, <1>f, <2>4 DEF FlushFirst, c, Good, Slots
    <3>3. Waiting(t) = Waiting(s) /\ m = s.remaining /\ g = s.ghosts
      BY <1>t, <2>4, <3>2 DEF Waiting
    <3> QED BY <1>t, <3>1, <3>3 DEF Good, Slots
  <2>5. CASE held
    <3>1. u \in Running(s)
      BY <2>5 DEF Running, Held
    <3>2. Cardinality(Running(t)) = Cardinality(Running(s)) - 1
      BY <2>2, <2>3, <3>1, FS_RemoveElement
    <3>3. CASE kind = "control"
      <4>1. FlushFirst(s, u)
        BY <2>5, <3>3 DEF FlushFirst
      <4>2. /\ Waiting(t) = Waiting(s) + 1 /\ Waiting(s) \in Nat
            /\ m = s.remaining /\ g = s.ghosts
        BY <1>a, <1>f, <1>t, <3>3, <4>1 DEF Waiting
      <4>3. t.remaining = s.remaining /\ t.ghosts = s.ghosts /\ t.reclaimed = s.reclaimed
        BY <1>t, <4>2
      <4>4. s.ghosts = 0
        BY <3>3 DEF Good, Slots
      <4> HIDE DEF m, g
      <4> QED BY <1>f, <2>2, <3>2, <3>3, <4>2, <4>3, <4>4 DEF Good, Slots, Config
    <3>4. CASE kind # "control"
      <4>1. Waiting(t) = 0 /\ Waiting(s) = 0 /\ m + g = s.remaining + s.ghosts + 1
        BY <1>f, <2>5, <3>4 DEF Waiting
      <4> HIDE DEF m, g
      <4> QED BY <1>f, <1>g, <1>t, <2>2, <3>2, <3>4, <4>1, SMTT(20) DEF Good, Slots, Config
    <3> QED BY <3>3, <3>4
  <2> QED BY <2>4, <2>5
<1>3. Onwards(s, t, URB)
  BY <1>s DEF Onwards, Held, Started
<1>4. ~FlushFirst(s, u) => t.flush = s.flush
  BY <1>t
<1> QED BY <1>1, <1>2, <1>3, <1>4, <1>t DEF Good, t, c

\* The URBs put aside for the flush join those to give back.
LEMMA MergeStep ==
  ASSUME NEW s \in Queue, Owned(s), NEW t, t.list = s.list, t.st = s.st,
         t.giveback = s.giveback \o s.flush, t.flush = <<>>
  PROVE  Owned(t) /\ s.giveback \o s.flush \in Seq(URB)
<1>1. s.giveback \in Seq(URB) /\ s.flush \in Seq(URB)
  BY FieldTypes
<1>2. ToSet(s.giveback) \cap ToSet(s.flush) = {}
  <2>1. ToSet(s.giveback) \subseteq URB
    BY <1>1 DEF ToSet
  <2> QED BY <2>1 DEF Owned
<1>3. /\ s.giveback \o s.flush \in Seq(URB) /\ Distinct(s.giveback \o s.flush)
      /\ ToSet(s.giveback \o s.flush) = ToSet(s.giveback) \cup ToSet(s.flush)
  BY <1>1, <1>2, Joined DEF Owned
<1>4. ToSet(<<>>) = {} /\ Distinct(<<>>)
  BY EmptySequence
<1> QED BY <1>3, <1>4 DEF Owned

LEMMA FlushRingsStep ==
  ASSUME NEW s \in Queue
  PROVE  LET t == FlushRings(s)
         IN /\ Still(s, t) /\ t.want = s.want /\ t.short = s.short /\ t.stalled = s.stalled
            /\ t.active = s.active /\ t.odd = s.odd
<1> DEFINE t == FlushRings(s)
           d == [r \in Rings |-> s.done[r] \o [i \in DOMAIN s.ring[r] |->
                                                 [urb |-> s.ring[r][i], ok |-> FALSE]]]
           e == [r \in Rings |-> <<>>]
<1>1. d \in [Rings -> Seq(Completion)] /\ e \in [Rings -> Seq(URB)]
  <2>1. ASSUME NEW r \in Rings
        PROVE  /\ s.done[r] \in Seq(Completion)
               /\ [i \in DOMAIN s.ring[r] |-> [urb |-> s.ring[r][i], ok |-> FALSE]] \in Seq(Completion)
    <3>1. s.ring[r] \in Seq(URB) /\ s.done[r] \in Seq(Completion)
      BY FieldTypes
    <3> DEFINE n == Len(s.ring[r])
    <3>2. n \in Nat /\ DOMAIN s.ring[r] = 1..n /\ \A i \in 1..n : s.ring[r][i] \in URB
      BY <3>1
    <3> HIDE DEF n
    <3>3. [i \in 1..n |-> [urb |-> s.ring[r][i], ok |-> FALSE]] \in [1..n -> Completion]
      BY <3>2 DEF Completion
    <3>4. [i \in 1..n |-> [urb |-> s.ring[r][i], ok |-> FALSE]] \in Seq(Completion)
      BY <3>2, <3>3
    <3> QED BY <3>1, <3>2, <3>4
  <2>2. ASSUME NEW r \in Rings PROVE d[r] \in Seq(Completion)
    BY <2>1, Joined
  <2>3. <<>> \in Seq(URB)
    OBVIOUS
  <2> QED BY <2>2, <2>3
<1>2. t = [s EXCEPT !.done = d, !.ring = e]
  BY DEF FlushRings
<1> HIDE DEF t, d, e
<1> QED BY <1>1, <1>2, ZenonT(20) DEF Still, Queue, t

LEMMA RemoveAny ==
  ASSUME NEW s \in Seq(URB), Distinct(s), NEW u \in URB
  PROVE  RemoveFirst(s, u) \in Seq(URB) /\ Distinct(RemoveFirst(s, u))
<1>1. CASE u \in ToSet(s)
  BY <1>1, RemoveOne
<1>2. CASE u \notin ToSet(s)
  <2>1. ~ \E i \in 1..Len(s) : s[i] = u
    BY <1>2 DEF ToSet
  <2>2. RemoveFirst(s, u) = s
    BY <2>1 DEF RemoveFirst
  <2> QED BY <2>2
<1> QED BY <1>1, <1>2

\* cancel_all takes every URB off the list.
LEMMA CancelAllStep ==
  ASSUME NEW s, Good(s), Config
  PROVE  LET t == FoldLeft(UrbComplete, [s EXCEPT !.active = FALSE], s.list)
         IN /\ Good(t) /\ Onwards(s, t, URB) /\ \A u \in URB : t.st[u] \notin Held
            /\ t.flush = s.flush /\ t.odd = s.odd
            /\ t.want = s.want /\ t.short = s.short /\ t.stalled = s.stalled
<1> DEFINE s1 == [s EXCEPT !.active = FALSE]
           V == {t \in Queue : Distinct(t.list)}
           step == [p \in V \X URB |-> UrbComplete(p[1], p[2])]
           n == Len(s.list)
           Is(f) == f = [S \in SUBSET (1..n) |->
                          IF S = {} THEN s1 ELSE UrbComplete(f[S \ {Max(S)}], s.list[Max(S)])]
           F == CHOOSE f : Is(f)
           Left(k) == {s.list[i] : i \in (k + 1)..n}
           R(k) == {t \in Queue : /\ Sec(s1, t) /\ ToSet(t.list) = Left(k)
                                  /\ t.want = s.want /\ t.short = s.short
                                  /\ t.stalled = s.stalled}
           G == [k \in 0..n |-> R(k)]
<1>l. /\ s.list \in Seq(URB) /\ n \in Nat /\ DOMAIN s.list = 1..n
      /\ \A i \in 1..n : s.list[i] \in URB
  BY FieldTypes DEF Good
<1>d. \A i, j \in 1..n : s.list[i] = s.list[j] => i = j
  BY <1>l DEF Good, Owned, Distinct
<1>a. /\ s1 \in Queue /\ s1.list = s.list /\ s1.st = s.st /\ s1.remaining = s.remaining
      /\ s1.ghosts = s.ghosts /\ s1.giveback = s.giveback /\ s1.flush = s.flush
      /\ s1.reclaimed = s.reclaimed /\ s1.stalled = s.stalled
      /\ s1.want = s.want /\ s1.odd = s.odd /\ s1.short = s.short
  BY DEF Good, Queue
<1>e. FoldLeft(UrbComplete, s1, s.list) = F[1..n]
  BY <1>l DEF FoldLeft, MapThenFoldSet
<1> HIDE DEF n, s1
<1>g. Good(s1) /\ Onwards(s, s1, URB)
  BY <1>a, StillStep DEF Good, Still
<1>b. s1 \in V /\ s1 \in R(0)
  <2>1. ToSet(s.list) = Left(0)
    BY <1>l DEF ToSet
  <2>2. Sec(s1, s1)
    BY <1>g, SecSame
  <2> QED BY <1>a, <1>g, <2>1, <2>2 DEF Good, Owned
<1>1. ASSUME NEW t \in V, NEW u \in URB PROVE UrbComplete(t, u) \in V
  <2>1. t.list \in Seq(URB)
    BY FieldTypes
  <2>2. RemoveFirst(t.list, u) \in Seq(URB) /\ Distinct(RemoveFirst(t.list, u))
    BY <2>1, RemoveAny
  <2> QED BY <2>2, UrbCompleteFields
<1> HIDE DEF V
<1>2. step \in [V \X URB -> V]
  BY <1>1
<1>3. PICK g \in [SUBSET (1..n) -> V] : FoldFcn(g, step, s1, s.list, n)
  BY <1>b, <1>l, <1>2, FoldExists DEF n
<1>k. ASSUME NEW S \in SUBSET (1..n), S # {}
      PROVE  s.list[Max(S)] \in URB /\ S \ {Max(S)} \in SUBSET (1..n)
  <2>1. Max(S) \in S
    BY <1>k, <1>l, MaxOf
  <2> QED BY <1>l, <2>1
<1>4. Is(g)
  <2>1. ASSUME NEW S \in SUBSET (1..n), S # {}
        PROVE  step[<<g[S \ {Max(S)}], s.list[Max(S)]>>] = UrbComplete(g[S \ {Max(S)}], s.list[Max(S)])
    BY <1>3, <1>k, <2>1
  <2> QED BY <1>3, <2>1 DEF FoldFcn
<1>5. Is(F)
  BY <1>4
<1> HIDE DEF F, step
<1>6. F[{}] = s1
  BY <1>5
<1>7. \A k \in 1..n : F[1..k] = UrbComplete(F[1..(k - 1)], s.list[k])
  <2> SUFFICES ASSUME NEW k \in 1..n PROVE F[1..k] = UrbComplete(F[1..(k - 1)], s.list[k])
    OBVIOUS
  <2>1. 1..k \in SUBSET (1..n) /\ 1..k # {} /\ Max(1..k) = k /\ (1..k) \ {k} = 1..(k - 1)
    BY <1>l, MaxOfInterval
  <2>2. F[1..k] = UrbComplete(F[(1..k) \ {Max(1..k)}], s.list[Max(1..k)])
    BY <1>5, <2>1
  <2> QED BY <2>1, <2>2
<1>8. ASSUME NEW k \in 1..n, NEW t \in R(k - 1) PROVE UrbComplete(t, s.list[k]) \in R(k)
  <2> DEFINE u == s.list[k]
             w == UrbComplete(t, u)
  <2>1. u \in URB /\ u \in Left(k - 1) /\ Left(k) = Left(k - 1) \ {u}
    <3>1. k \in ((k - 1) + 1)..n /\ \A i : i \in ((k - 1) + 1)..n <=> i = k \/ i \in (k + 1)..n
      BY <1>l
    <3>2. \A i \in (k + 1)..n : i \in 1..n /\ i # k
      BY <1>l
    <3> QED BY <1>d, <1>l, <3>1, <3>2
  <2> HIDE DEF u, Left
  <2>2. Good(t) /\ u \in ToSet(t.list)
    BY <2>1 DEF Sec
  <2>3. t.st[u] \in Held
    BY <2>1, <2>2 DEF Good, Owned
  <2>4. Sec(t, w) /\ ToSet(w.list) = ToSet(t.list) \ {u}
    BY <2>1, <2>2, <2>3, UrbCompleteStep
  <2>5. w.want = t.want /\ w.short = t.short /\ w.stalled = t.stalled
    <3>1. t.list \in Seq(URB) /\ t \in Queue
      BY <2>2, FieldTypes DEF Good
    <3>2. RemoveFirst(t.list, u) \in Seq(URB)
      BY <2>2, <3>1, RemoveOne DEF Good, Owned
    <3> QED BY <2>1, <3>1, <3>2, UrbCompleteFields
  <2> HIDE DEF w
  <2>6. Sec(s1, w)
    BY <2>4, SecTrans
  <2>7. w \in R(k)
    BY <2>1, <2>4, <2>5, <2>6 DEF Sec, Good
  <2> QED BY <2>7 DEF w, u
<1>9. F[1..n] \in R(n)
  <2>1. F[{}] \in G[0]
    BY <1>6, <1>b, <1>l
  <2>2. \A k \in 1..n : F[1..(k - 1)] \in G[k - 1] => F[1..k] \in G[k]
    <3> SUFFICES ASSUME NEW k \in 1..n, F[1..(k - 1)] \in G[k - 1] PROVE F[1..k] \in G[k]
      OBVIOUS
    <3>1. k - 1 \in 0..n /\ k \in 0..n
      BY <1>l
    <3> HIDE DEF R
    <3>2. F[1..(k - 1)] \in R(k - 1) /\ G[k] = R(k)
      BY <3>1
    <3> QED BY <1>7, <1>8, <3>2
  <2>3. G[n] = R(n)
    BY <1>l
  <2> HIDE DEF G, R
  <2> QED BY <1>l, <2>1, <2>2, <2>3, FoldInduction
<1> DEFINE t == F[1..n]
<1>10. /\ Sec(s1, t) /\ ToSet(t.list) = {} /\ t.want = s.want /\ t.short = s.short
       /\ t.stalled = s.stalled
  <2>1. Left(n) = {}
    BY <1>l
  <2> QED BY <1>9, <2>1
<1> HIDE DEF t
<1>11. Good(t) /\ Sides(s1, t) /\ Onwards(s1, t, URB)
  BY <1>10, SecSides
<1>12. \A u \in URB : t.st[u] \notin Held
  BY <1>10, <1>11 DEF Good, Owned
<1>13. Onwards(s, t, URB)
  BY <1>g, <1>11, OnwardsTrans
<1>14. t.flush = s.flush /\ t.odd = s.odd
  BY <1>a, <1>11 DEF Sides
<1> QED BY <1>10, <1>11, <1>12, <1>13, <1>14, <1>e DEF t, s1

-----------------------------------------------------------------------------
(* The works, and the end of a section.                                    *)

LEMMA EnqueueOne ==
  ASSUME NEW ws \in Seq(Jobs), NEW job \in Jobs
  PROVE  /\ Enqueue(ws, job) \in Seq(Jobs)
         /\ ToSet(ws) \subseteq ToSet(Enqueue(ws, job)) /\ job \in ToSet(Enqueue(ws, job))
<1>1. Append(ws, job) \in Seq(Jobs) /\ ToSet(Append(ws, job)) = ToSet(ws) \cup {job}
  BY Appended
<1> QED BY <1>1 DEF Enqueue

LEMMA EnqueueAll ==
  ASSUME NEW ws \in Seq(Jobs), NEW want \in Seq(Jobs)
  PROVE  LET v == FoldLeft(Enqueue, ws, want)
         IN /\ v \in Seq(Jobs) /\ ToSet(ws) \subseteq ToSet(v) /\ ToSet(want) \subseteq ToSet(v)
<1> DEFINE V == Seq(Jobs)
           step == [p \in V \X Jobs |-> Enqueue(p[1], p[2])]
           n == Len(want)
           Is(f) == f = [S \in SUBSET (1..n) |->
                          IF S = {} THEN ws ELSE Enqueue(f[S \ {Max(S)}], want[Max(S)])]
           F == CHOOSE f : Is(f)
           R(k) == {v \in V : /\ ToSet(ws) \subseteq ToSet(v)
                              /\ \A i \in 1..k : want[i] \in ToSet(v)}
           G == [k \in 0..n |-> R(k)]
<1>l. n \in Nat /\ DOMAIN want = 1..n /\ \A i \in 1..n : want[i] \in Jobs
  OBVIOUS
<1>e. FoldLeft(Enqueue, ws, want) = F[1..n]
  BY <1>l DEF FoldLeft, MapThenFoldSet
<1>b. ws \in V /\ ws \in R(0)
  OBVIOUS
<1> HIDE DEF n
<1>1. ASSUME NEW v \in V, NEW job \in Jobs PROVE Enqueue(v, job) \in V
  BY EnqueueOne
<1>2. step \in [V \X Jobs -> V]
  <2> HIDE DEF V
  <2> QED BY <1>1
<1>3. PICK g \in [SUBSET (1..n) -> V] : FoldFcn(g, step, ws, want, n)
  <2> HIDE DEF V, step
  <2> QED BY <1>b, <1>l, <1>2, FoldExists DEF n
<1>k. ASSUME NEW S \in SUBSET (1..n), S # {}
      PROVE  want[Max(S)] \in Jobs /\ S \ {Max(S)} \in SUBSET (1..n)
  <2>1. Max(S) \in S
    BY <1>k, <1>l, MaxOf
  <2> QED BY <1>l, <2>1
<1>4. Is(g)
  <2> HIDE DEF V
  <2>1. ASSUME NEW S \in SUBSET (1..n), S # {}
        PROVE  step[<<g[S \ {Max(S)}], want[Max(S)]>>] = Enqueue(g[S \ {Max(S)}], want[Max(S)])
    BY <1>3, <1>k, <2>1
  <2> QED BY <1>3, <2>1 DEF FoldFcn
<1>5. Is(F)
  BY <1>4
<1> HIDE DEF F, step
<1>6. F[{}] = ws
  BY <1>5
<1>7. \A k \in 1..n : F[1..k] = Enqueue(F[1..(k - 1)], want[k])
  <2> SUFFICES ASSUME NEW k \in 1..n PROVE F[1..k] = Enqueue(F[1..(k - 1)], want[k])
    OBVIOUS
  <2>1. 1..k \in SUBSET (1..n) /\ 1..k # {} /\ Max(1..k) = k /\ (1..k) \ {k} = 1..(k - 1)
    BY <1>l, MaxOfInterval, SMTT(20)
  <2>2. F[1..k] = Enqueue(F[(1..k) \ {Max(1..k)}], want[Max(1..k)])
    BY <1>5, <2>1
  <2> QED BY <2>1, <2>2
<1>8. ASSUME NEW k \in 1..n, NEW v \in R(k - 1) PROVE Enqueue(v, want[k]) \in R(k)
  <2>1. /\ Enqueue(v, want[k]) \in V /\ ToSet(v) \subseteq ToSet(Enqueue(v, want[k]))
        /\ want[k] \in ToSet(Enqueue(v, want[k]))
    BY <1>l, EnqueueOne
  <2>2. \A i \in 1..k : i = k \/ i \in 1..(k - 1)
    BY <1>l
  <2> HIDE DEF V
  <2> QED BY <2>1, <2>2
<1>9. F[1..n] \in R(n)
  <2>1. F[{}] \in G[0]
    BY <1>6, <1>b, <1>l
  <2>2. \A k \in 1..n : F[1..(k - 1)] \in G[k - 1] => F[1..k] \in G[k]
    <3> SUFFICES ASSUME NEW k \in 1..n, F[1..(k - 1)] \in G[k - 1] PROVE F[1..k] \in G[k]
      OBVIOUS
    <3>1. k - 1 \in 0..n /\ k \in 0..n
      BY <1>l
    <3> HIDE DEF R
    <3>2. F[1..(k - 1)] \in R(k - 1) /\ G[k] = R(k)
      BY <3>1
    <3> QED BY <1>7, <1>8, <3>2
  <2>3. G[n] = R(n)
    BY <1>l
  <2> HIDE DEF G, R
  <2> QED BY <1>l, <2>1, <2>2, <2>3, FoldInduction
<1>10. ToSet(want) \subseteq ToSet(F[1..n])
  BY <1>9, <1>l DEF ToSet
<1> QED BY <1>9, <1>10, <1>e

LEMMA EnqueueEventStep ==
  ASSUME NEW ws \in Seq(Jobs), NEW job \in Jobs
  PROVE  /\ EnqueueEvent(ws, job) \in Seq(Jobs)
         /\ ToSet(ws) \subseteq ToSet(EnqueueEvent(ws, job))
<1> DEFINE last == SelectLastInSeq(ws, LAMBDA j : j \in FirmwareJobs)
           new == last = 0 /\ work.job \notin FirmwareJobs
           i == (IF new THEN Len(ws) ELSE last) + 1
           I == {k \in 1..Len(ws) : ws[k] \in FirmwareJobs}
<1>1. last = IF I # {} THEN Max(I) ELSE 0
  BY DEF SelectLastInSeq
<1>2. last \in 0..Len(ws)
  <2>1. Len(ws) \in Nat /\ I \in SUBSET (1..Len(ws))
    OBVIOUS
  <2>2. I # {} => Max(I) \in I
    BY <2>1, MaxOf
  <2> HIDE DEF last
  <2> QED BY <1>1, <2>1, <2>2
<1> HIDE DEF last
<1>3. i \in 1..(Len(ws) + 1)
  BY <1>2
<1>4. EnqueueEvent(ws, job) = InsertAt(ws, i, job)
  BY DEF EnqueueEvent, last
<1> HIDE DEF i
<1> DEFINE a == SubSeq(ws, 1, i - 1)
           b == SubSeq(ws, i, Len(ws))
<1>5. /\ a \in Seq(Jobs) /\ Len(a) = i - 1 /\ DOMAIN a = 1..(i - 1)
      /\ \A k \in 1..(i - 1) : a[k] = ws[k]
  BY <1>3
<1>6. /\ b \in Seq(Jobs) /\ Len(b) = Len(ws) - i + 1 /\ DOMAIN b = 1..(Len(ws) - i + 1)
      /\ \A k \in 1..(Len(ws) - i + 1) : b[k] = ws[i + k - 1]
  BY <1>3
<1>7. InsertAt(ws, i, job) = (a \o <<job>>) \o b
  BY DEF InsertAt
<1> HIDE DEF a, b
<1>8. <<job>> \in Seq(Jobs)
  OBVIOUS
<1>9. a \o <<job>> \in Seq(Jobs) /\ ToSet(a) \subseteq ToSet(a \o <<job>>)
  <2>1. a \in Seq(Jobs)
    BY <1>5
  <2>2. ToSet(a \o <<job>>) = ToSet(a) \cup ToSet(<<job>>) /\ a \o <<job>> \in Seq(Jobs)
    BY <2>1, <1>8, Joined, ZenonT(25)
  <2> QED BY <2>2
<1>10. /\ (a \o <<job>>) \o b \in Seq(Jobs)
       /\ ToSet(a) \cup ToSet(b) \subseteq ToSet((a \o <<job>>) \o b)
  <2> DEFINE c == a \o <<job>>
  <2>0. b \in Seq(Jobs)
    BY <1>6
  <2>1. c \in Seq(Jobs)
    BY <1>9
  <2>a. ToSet(a) \subseteq ToSet(c)
    BY <1>9
  <2> HIDE DEF c
  <2>2. ToSet(c \o b) = ToSet(c) \cup ToSet(b) /\ c \o b \in Seq(Jobs)
    BY <2>0, <2>1, Joined
  <2>3. c \o b \in Seq(Jobs) /\ ToSet(a) \cup ToSet(b) \subseteq ToSet(c \o b)
    BY <2>a, <2>2
  <2> QED BY <2>3 DEF c
<1>11. ToSet(ws) \subseteq ToSet(a) \cup ToSet(b)
  <2> SUFFICES ASSUME NEW k \in 1..Len(ws) PROVE ws[k] \in ToSet(a) \cup ToSet(b)
    BY DEF ToSet
  <2>1. CASE k < i
    <3>1. k \in 1..(i - 1)
      BY <1>3, <2>1
    <3> QED BY <1>5, <3>1 DEF ToSet
  <2>2. CASE ~(k < i)
    <3>1. k - i + 1 \in 1..(Len(ws) - i + 1) /\ i + (k - i + 1) - 1 = k
      BY <1>3, <2>2
    <3>2. b[k - i + 1] = ws[k]
      BY <1>6, <3>1
    <3> QED BY <1>6, <3>1, <3>2 DEF ToSet
  <2> QED BY <2>1, <2>2
<1> QED BY <1>4, <1>7, <1>10, <1>11

\* A section starts on the queue as it is, ...
LEMMA SectionStart ==
  ASSUME NEW p, Good(p), NEW b \in BOOLEAN
  PROVE  LET s == [p EXCEPT !.short = b]
         IN Good(s) /\ s.st = p.st
<1> DEFINE s == [p EXCEPT !.short = b]
<1>1. Still(p, s)
  BY DEF Good, Queue, Still
<1> HIDE DEF s
<1>2. Good(s)
  BY <1>1, StillStep DEF Good, Still
<1> QED BY <1>1, <1>2 DEF Still, s

\* ... and queues the works that are wanted.
LEMMA SectionEnd ==
  ASSUME NEW p \in Queue, p.want = <<>>, NEW b \in BOOLEAN, NEW s, Good(s),
         Sides([p EXCEPT !.short = b], s), NEW ws \in Seq(Jobs)
  PROVE  LET t == [s EXCEPT !.short = FALSE, !.want = <<>>]
             v == FoldLeft(Enqueue, ws, s.want)
         IN /\ Good(t) /\ t.want = <<>> /\ t.short = FALSE /\ t.st = s.st
            /\ t.flush = p.flush /\ t.odd = p.odd
            /\ v \in Seq(Jobs) /\ ToSet(ws) \subseteq ToSet(v)
            /\ t.stalled => p.stalled \/ "reset" \in ToSet(v)
            /\ ~t.active => ~p.active \/ t.stalled
            /\ p.stalled => t.stalled
            /\ t.active = s.active /\ t.stalled = s.stalled
<1> DEFINE p1 == [p EXCEPT !.short = b]
           t == [s EXCEPT !.short = FALSE, !.want = <<>>]
           v == FoldLeft(Enqueue, ws, s.want)
<1>1. /\ p1.flush = p.flush /\ p1.odd = p.odd /\ p1.stalled = p.stalled /\ p1.active = p.active
  BY DEF Queue
<1>2. s.want \in Seq(Jobs)
  BY FieldTypes DEF Good
<1>3. /\ v \in Seq(Jobs) /\ ToSet(ws) \subseteq ToSet(v) /\ ToSet(s.want) \subseteq ToSet(v)
  BY <1>2, EnqueueAll
<1>4. /\ Still(s, t) /\ t.want = <<>> /\ t.short = FALSE /\ t.odd = s.odd
      /\ t.stalled = s.stalled /\ t.active = s.active
  <2>1. <<>> \in Seq(Jobs)
    OBVIOUS
  <2> QED BY <2>1 DEF Good, Queue, Still
<1> HIDE DEF t, v, p1
<1>5. Good(t)
  BY <1>4, StillStep DEF Good, Still
<1>6. Sides(p1, s)
  BY DEF p1
<1>7. /\ t.flush = p.flush /\ t.odd = p.odd
      /\ t.stalled => p.stalled \/ "reset" \in ToSet(v)
      /\ ~t.active => ~p.active \/ t.stalled
      /\ p.stalled => t.stalled
  BY <1>1, <1>3, <1>4, <1>6 DEF Sides, Still
<1> QED BY <1>3, <1>4, <1>5, <1>7 DEF Still, t, v

-----------------------------------------------------------------------------
(* The steps.                                                              *)

LEMMA Begin ==
  ASSUME IInv
  PROVE  /\ Config /\ q \in Queue /\ Owned(q) /\ q.want = <<>> /\ q.short = FALSE
         /\ Alive => Good(q)
         /\ works \in Seq(Jobs) /\ events \in Seq(Messages) /\ pausedBy \in SUBSET Sources
         /\ lock \in {"none", "wq", "pm"}
  BY DEF IInv, TypeInv, Config, Alive, Good

\* The invariant, part by part.
LEMMA Rebuilt ==
  ASSUME IInv, UNCHANGED config, q' \in Queue, Owned(q'), hcpriv' # "destroyed" => Slots(q'),
         q'.want = <<>>, q'.short = FALSE,
         hcpriv' \in {"set", "cancelled", "null", "destroyed"},
         pausedBy' \in SUBSET Sources, lock' \in {"none", "wq", "pm"},
         works' \in Seq(Jobs), events' \in Seq(Messages),
         WorkInv', PmInv', StoppedHasReason', WorkIsOwed'
  PROVE  IInv'
<1>0. kind' = kind /\ limit' = limit /\ dir' = dir
  BY DEF config
<1>1. TypeInv'
  BY <1>0 DEF IInv, TypeInv
<1>2. Slots(q') => Slots(q)'
  BY <1>0 DEF Slots, Running, Waiting
<1>3. Owned(q)'
  BY DEF Owned
<1>4. (q \in Queue)'
  BY DEF Queue, Completion, URB, Rings
<1> QED BY <1>1, <1>2, <1>3, <1>4 DEF IInv

\* A step that leaves the works, the locks and the pauses alone.
LEMMA CalmStep ==
  ASSUME IInv, UNCHANGED <<config, hcpriv, pausedBy, lock, work, pm>>, Good(q'),
         q'.want = <<>>, q'.short = FALSE, works' \in Seq(Jobs),
         ToSet(works) \subseteq ToSet(works'), events' \in Seq(Messages),
         ~q'.active => ~q.active \/ q'.stalled,
         q.stalled => q'.stalled, q'.odd = q.odd,
         q'.stalled => q.stalled \/ "reset" \in ToSet(works'),
         q'.flush = q.flush \/ "flush" \in ToSet(works')
  PROVE  IInv'
<1>0. /\ UNCHANGED config /\ hcpriv' = hcpriv /\ pausedBy' = pausedBy /\ lock' = lock
      /\ work' = work /\ pm' = pm
  OBVIOUS
<1>1. WorkInv'
  BY <1>0 DEF IInv, WorkInv, JobsAt, Locked, Source
<1>2. PmInv'
  BY <1>0 DEF IInv, PmInv
<1>3. StoppedHasReason'
  BY <1>0 DEF IInv, StoppedHasReason
<1>4. WorkIsOwed'
  BY <1>0 DEF IInv, WorkIsOwed
<1>5. hcpriv' \in {"set", "cancelled", "null", "destroyed"}
  BY <1>0 DEF IInv, TypeInv
<1> QED BY <1>0, <1>1, <1>2, <1>3, <1>4, <1>5, Begin, Rebuilt DEF Good

LEMMA InitIInv == Init => IInv
<1> SUFFICES ASSUME Init PROVE IInv
  OBVIOUS
<1> USE DEF Init
<1>1. limit \in Nat /\ kind \in {"in", "out", "control"}
  BY TransferQueueAssumption
<1>2. q \in Queue
  <2>1. limit \in Int /\ 0 \in Nat /\ <<>> \in Seq(URB) /\ <<>> \in Seq(Messages)
        /\ <<>> \in Seq(Jobs) /\ <<>> \in Seq(Completion)
    BY <1>1
  <2>2. /\ [u \in URB |-> "new"] \in [URB -> Held \cup {"new", "gone", "back"}]
        /\ [u \in URB |-> "no"] \in [URB -> {"no", "ok", "fail"}]
        /\ [r \in Rings |-> <<>>] \in [Rings -> Seq(URB)]
        /\ [r \in Rings |-> <<>>] \in [Rings -> Seq(Completion)]
    BY <2>1
  <2> QED BY <2>1, <2>2 DEF Queue
<1>3. /\ q.list = <<>> /\ q.giveback = <<>> /\ q.flush = <<>> /\ \A u \in URB : q.st[u] = "new"
      /\ q.ghosts = 0 /\ q.remaining = limit /\ q.want = <<>> /\ q.short = FALSE
      /\ q.active /\ ~q.stalled
  OBVIOUS
<1>4. Owned(q)
  BY <1>3, EmptySequence DEF Owned, Held, Started
<1>5. Slots(q)
  <2>1. Running(q) = {}
    BY <1>3 DEF Running, Started
  <2>2. Cardinality(Running(q)) = 0
    BY <2>1, FS_EmptySet
  <2>3. Waiting(q) = 0
    BY <1>3 DEF Waiting
  <2> QED BY <1>1, <1>3, <2>2, <2>3 DEF Slots
<1>6. WorkInv
  BY DEF WorkInv, Idle, JobsAt, Locked
<1>7. PmInv
  BY DEF PmInv
<1>8. StoppedHasReason /\ WorkIsOwed
  BY <1>3 DEF StoppedHasReason, WorkIsOwed
<1>9. TypeInv
  <2>1. dir \in [URB -> {"in", "out", "none"}]
    BY <1>1
  <2>2. works \in Seq(Jobs) /\ events \in Seq(Messages)
    OBVIOUS
  <2> QED BY <1>1, <1>3, <2>1, <2>2 DEF TypeInv, Sources
<1> QED BY <1>2, <1>4, <1>5, <1>6, <1>7, <1>8, <1>9 DEF IInv

LEMMA UrbCreateStep ==
  ASSUME IInv, NEW u \in URB, UrbCreate(u)
  PROVE  /\ IInv' /\ UNCHANGED hcpriv /\ Onwards(q, q', URB \ {u})
         /\ \/ Onwards(q, q', URB)
            \/ q.st[u] = "new" /\ q'.st[u] \in Held
<1>1. PICK b \in BOOLEAN :
         LET s == GiveBack(Create([q EXCEPT !.short = b], u))
         IN /\ q' = [s EXCEPT !.short = FALSE, !.want = <<>>]
            /\ works' = FoldLeft(Enqueue, works, s.want)
  BY DEF UrbCreate, Section
<1> DEFINE q1 == [q EXCEPT !.short = b]
           c == Create(q1, u)
           s == GiveBack(c)
<1>2. /\ q' = [s EXCEPT !.short = FALSE, !.want = <<>>]
      /\ works' = FoldLeft(Enqueue, works, s.want)
  BY <1>1
<1>3. /\ UNCHANGED <<config, hcpriv, pausedBy, lock, work, pm>> /\ events' = events
      /\ q.st[u] = "new" /\ Alive
  BY DEF UrbCreate, Attached
<1>4. Good(q) /\ Config /\ works \in Seq(Jobs) /\ events' \in Seq(Messages) /\ q.want = <<>>
  BY <1>3, Begin
<1>5. Good(q1) /\ q1.st = q.st
  BY <1>4, SectionStart
<1> HIDE DEF q1
<1>6. Good(c) /\ Sides(q1, c) /\ Onwards(q1, c, URB \ {u}) /\ (c = q1 \/ c.st[u] \in Fresh)
  BY <1>3, <1>4, <1>5, CreateStep
<1> HIDE DEF c
<1>7. /\ Good(s) /\ Sides(c, s) /\ Onwards(c, s, URB)
      /\ \A v \in URB : s.st[v] = IF v \in ToSet(c.giveback) THEN "back" ELSE c.st[v]
  BY <1>6, GiveBackStep DEF Good
<1> HIDE DEF s
<1>8. Sides(q1, s)
  BY <1>6, <1>7, SidesTrans
<1> DEFINE t == [s EXCEPT !.short = FALSE, !.want = <<>>]
           v == FoldLeft(Enqueue, works, s.want)
<1>9. /\ Good(t) /\ t.want = <<>> /\ t.short = FALSE /\ t.st = s.st
      /\ t.flush = q.flush /\ t.odd = q.odd
      /\ v \in Seq(Jobs) /\ ToSet(works) \subseteq ToSet(v)
      /\ t.stalled => q.stalled \/ "reset" \in ToSet(v)
      /\ ~t.active => ~q.active \/ t.stalled
      /\ q.stalled => t.stalled
  <2>1. q \in Queue /\ Good(s) /\ Sides([q EXCEPT !.short = b], s)
    BY <1>4, <1>7, <1>8 DEF q1, Good
  <2> QED BY <1>4, <2>1, SectionEnd, ZenonT(20)
<1>10. q' = t /\ works' = v
  BY <1>2
<1> HIDE DEF t, v
<1>11. IInv'
  BY <1>3, <1>4, <1>9, <1>10, CalmStep
<1>12. Onwards(c, s, URB \ {u}) /\ Onwards(q1, s, URB \ {u})
  <2>1. Onwards(c, s, URB \ {u})
    BY <1>7 DEF Onwards
  <2> QED BY <1>6, <2>1, OnwardsTrans
<1>13. Onwards(q, q', URB \ {u})
  BY <1>5, <1>9, <1>10, <1>12 DEF Onwards
<1>14. Onwards(q, q', URB) \/ q'.st[u] \in Held
  <2>1. CASE c = q1
    BY <1>5, <1>7, <1>9, <1>10, <2>1 DEF Onwards
  <2>2. CASE c.st[u] \in Fresh
    <3>1. c.st[u] \in Held
      BY <2>2 DEF Fresh, Held, Started
    <3>2. u \notin ToSet(c.giveback)
      BY <1>6, <3>1 DEF Good, Owned, Held, Started
    <3> QED BY <1>7, <1>9, <1>10, <3>1, <3>2
  <2> QED BY <1>6, <2>1, <2>2
<1> QED BY <1>3, <1>11, <1>13, <1>14

\* A section whose operator gives the URBs back in the end
LEMMA SectionStep ==
  ASSUME IInv, Alive, UNCHANGED <<config, hcpriv, pausedBy, lock, work, pm>>,
         events' \in Seq(Messages), NEW b \in BOOLEAN, NEW c, Sec([q EXCEPT !.short = b], c),
         q' = [GiveBack(c) EXCEPT !.short = FALSE, !.want = <<>>],
         works' = FoldLeft(Enqueue, works, GiveBack(c).want)
  PROVE  IInv' /\ UNCHANGED hcpriv /\ Onwards(q, q', URB)
<1> DEFINE q1 == [q EXCEPT !.short = b]
           s == GiveBack(c)
<1>4. Good(q) /\ Config /\ works \in Seq(Jobs) /\ q.want = <<>>
  BY Begin
<1>5. Good(q1) /\ q1.st = q.st
  BY <1>4, SectionStart
<1> HIDE DEF q1
<1>6. Good(c) /\ Sides(q1, c) /\ Onwards(q1, c, URB)
  BY SecSides DEF q1
<1>7. Good(s) /\ Sides(c, s) /\ Onwards(c, s, URB)
  BY <1>6, GiveBackStep DEF Good
<1>a. /\ q' = [s EXCEPT !.short = FALSE, !.want = <<>>]
      /\ works' = FoldLeft(Enqueue, works, s.want)
  OBVIOUS
<1> HIDE DEF s
<1>8. Sides(q1, s) /\ Onwards(q1, s, URB)
  BY <1>6, <1>7, SidesTrans, OnwardsTrans
<1> DEFINE t == [s EXCEPT !.short = FALSE, !.want = <<>>]
           v == FoldLeft(Enqueue, works, s.want)
<1>9. /\ Good(t) /\ t.want = <<>> /\ t.short = FALSE /\ t.st = s.st
      /\ t.flush = q.flush /\ t.odd = q.odd
      /\ v \in Seq(Jobs) /\ ToSet(works) \subseteq ToSet(v)
      /\ t.stalled => q.stalled \/ "reset" \in ToSet(v)
      /\ ~t.active => ~q.active \/ t.stalled
      /\ q.stalled => t.stalled
  BY <1>4, <1>7, <1>8, SectionEnd, ZenonT(60) DEF q1, Good
<1>10. q' = t /\ works' = v
  BY <1>a
<1> HIDE DEF t, v
<1>11. IInv'
  BY <1>9, <1>10, CalmStep
<1>12. Onwards(q, q', URB)
  <2>1. q1.st = q.st /\ q'.st = s.st
    BY <1>5, <1>9, <1>10
  <2> QED BY <1>8, <2>1 DEF Onwards
<1> QED BY <1>11, <1>12

LEMMA HandleEventStep ==
  ASSUME IInv, HandleEvent
  PROVE  IInv' /\ UNCHANGED hcpriv /\ Onwards(q, q', URB)
<1>1. PICK b \in BOOLEAN :
         LET s == GiveBack(QueueEvent([q EXCEPT !.short = b], Head(events)))
         IN /\ q' = [s EXCEPT !.short = FALSE, !.want = <<>>]
            /\ works' = FoldLeft(Enqueue, works, s.want)
  BY DEF HandleEvent, Section
<1> DEFINE q1 == [q EXCEPT !.short = b]
           c == QueueEvent(q1, Head(events))
<1>2. /\ Alive /\ events # <<>> /\ events' = Tail(events)
      /\ UNCHANGED <<config, hcpriv, pausedBy, lock, work, pm>>
  BY DEF HandleEvent
<1>3. Good(q) /\ Config /\ events \in Seq(Messages)
  BY <1>2, Begin
<1>4. Head(events) \in Messages /\ events' \in Seq(Messages)
  BY <1>2, <1>3, Popped
<1>5. Good(q1)
  BY <1>3, SectionStart
<1>6. Sec(q1, c)
  <2> HIDE DEF q1
  <2> QED BY <1>3, <1>4, <1>5, QueueEventStep
<1>7. /\ q' = [GiveBack(c) EXCEPT !.short = FALSE, !.want = <<>>]
      /\ works' = FoldLeft(Enqueue, works, GiveBack(c).want)
  BY <1>1
<1> HIDE DEF c
<1> QED BY <1>2, <1>4, <1>6, <1>7, SectionStep

LEMMA HandleCompletionsStep ==
  ASSUME IInv, NEW r \in Rings, HandleCompletions(r)
  PROVE  IInv' /\ UNCHANGED hcpriv /\ Onwards(q, q', URB)
<1>1. PICK b \in BOOLEAN :
         LET s == GiveBack(Completions([q EXCEPT !.short = b], r))
         IN /\ q' = [s EXCEPT !.short = FALSE, !.want = <<>>]
            /\ works' = FoldLeft(Enqueue, works, s.want)
  BY DEF HandleCompletions, Section
<1> DEFINE q1 == [q EXCEPT !.short = b]
           c == Completions(q1, r)
<1>2. /\ Alive /\ events' = events
      /\ UNCHANGED <<config, hcpriv, pausedBy, lock, work, pm>>
  BY DEF HandleCompletions
<1>3. Good(q) /\ Config /\ events' \in Seq(Messages)
  BY <1>2, Begin
<1>5. Good(q1)
  BY <1>3, SectionStart
<1>6. Sec(q1, c)
  <2> HIDE DEF q1
  <2> QED BY <1>3, <1>5, CompletionsStep
<1>7. /\ q' = [GiveBack(c) EXCEPT !.short = FALSE, !.want = <<>>]
      /\ works' = FoldLeft(Enqueue, works, GiveBack(c).want)
  BY <1>1
<1> HIDE DEF c
<1> QED BY <1>2, <1>3, <1>6, <1>7, SectionStep

LEMMA UrbRequestCancelStep ==
  ASSUME IInv, NEW u \in URB, UrbRequestCancel(u)
  PROVE  IInv' /\ UNCHANGED hcpriv /\ Onwards(q, q', URB)
<1>1. /\ Alive /\ u \in Linked(q) /\ events' = events
      /\ UNCHANGED <<config, hcpriv, pausedBy, lock, work, pm>>
      /\ IF FlushFirst(q, u)
           THEN q' = [Cancel(q, u) EXCEPT !.flush = Append(@, u)] /\ works' = Enqueue(works, "flush")
           ELSE q' = [Cancel(q, u) EXCEPT !.st[u] = "back"] /\ works' = works
  BY DEF UrbRequestCancel, Attached
<1>2. Good(q) /\ Config /\ works \in Seq(Jobs) /\ events' \in Seq(Messages)
      /\ q.want = <<>> /\ q.short = FALSE
  BY <1>1, Begin
<1>3. q.st[u] \in Held
  BY <1>1, <1>2 DEF Good, Owned, Linked
<1> DEFINE t == IF FlushFirst(q, u) THEN [Cancel(q, u) EXCEPT !.flush = Append(@, u)]
                                    ELSE [Cancel(q, u) EXCEPT !.st[u] = "back"]
<1>4. /\ Good(t) /\ Onwards(q, t, URB)
      /\ t.want = q.want /\ t.short = q.short /\ t.stalled = q.stalled
      /\ t.active = q.active /\ t.odd = q.odd
      /\ ~FlushFirst(q, u) => t.flush = q.flush
  BY <1>2, <1>3, CancelStep
<1>5. q' = t
  BY <1>1
<1> HIDE DEF t
<1>6. /\ works' \in Seq(Jobs) /\ ToSet(works) \subseteq ToSet(works')
      /\ FlushFirst(q, u) => "flush" \in ToSet(works')
  <2>1. "flush" \in Jobs
    BY DEF Jobs
  <2>2. CASE FlushFirst(q, u)
    BY <1>1, <1>2, <2>1, <2>2, EnqueueOne
  <2>3. CASE ~FlushFirst(q, u)
    BY <1>1, <1>2, <2>3
  <2> QED BY <2>2, <2>3
<1>7. IInv'
  BY <1>1, <1>2, <1>4, <1>5, <1>6, CalmStep
<1> QED BY <1>1, <1>4, <1>5, <1>7

\* The queue is as it was.
LEMMA SameOnwards ==
  ASSUME q' = q
  PROVE  Onwards(q, q', URB)
  BY DEF Onwards, Held, Started

\* A step that leaves the queue alone too, but may add works.
LEMMA IdleStep ==
  ASSUME IInv, Alive, UNCHANGED <<config, hcpriv, pausedBy, lock, work, pm>>, q' = q,
         works' \in Seq(Jobs), ToSet(works) \subseteq ToSet(works'), events' \in Seq(Messages)
  PROVE  IInv' /\ UNCHANGED hcpriv /\ Onwards(q, q', URB)
<1>1. Good(q) /\ q.want = <<>> /\ q.short = FALSE
  BY Begin
<1>2. IInv'
  BY <1>1, CalmStep
<1> QED BY <1>2, SameOnwards

LEMMA RequestResetStep ==
  ASSUME IInv, RequestReset
  PROVE  IInv' /\ UNCHANGED hcpriv /\ Onwards(q, q', URB)
<1>1. /\ Alive /\ q' = q /\ events' = events /\ works' = Enqueue(works, "reset")
      /\ UNCHANGED <<config, hcpriv, pausedBy, lock, work, pm>>
  BY DEF RequestReset, Attached
<1>2. "reset" \in Jobs /\ works \in Seq(Jobs) /\ events' \in Seq(Messages)
  BY <1>1, Begin DEF Jobs
<1>3. works' \in Seq(Jobs) /\ ToSet(works) \subseteq ToSet(works')
  BY <1>1, <1>2, EnqueueOne
<1> QED BY <1>1, <1>2, <1>3, IdleStep

LEMMA RecoveryStartStep ==
  ASSUME IInv, RecoveryStart
  PROVE  IInv' /\ UNCHANGED hcpriv /\ Onwards(q, q', URB)
<1>1. /\ Alive /\ q' = q /\ events' = events /\ works' = works
      /\ UNCHANGED <<config, hcpriv, pausedBy, lock, work, pm>>
  BY DEF RecoveryStart
<1> QED BY <1>1, Begin, IdleStep

LEMMA T2AskStep ==
  ASSUME IInv, T2Ask
  PROVE  IInv' /\ UNCHANGED hcpriv /\ Onwards(q, q', URB)
<1>1. /\ Alive /\ q' = q /\ events' = Append(events, "req") /\ works' = works
      /\ UNCHANGED <<config, hcpriv, pausedBy, lock, work, pm>>
  BY DEF T2Ask, T2Step, Post
<1>2. events' \in Seq(Messages)
  BY <1>1, Begin DEF Messages
<1> QED BY <1>1, <1>2, Begin, IdleStep

LEMMA T2StatusStep ==
  ASSUME IInv, T2Status
  PROVE  IInv' /\ UNCHANGED hcpriv /\ Onwards(q, q', URB)
<1>1. /\ Alive /\ q' = q /\ works' = works
      /\ events' = Append(events, "ok") \/ events' = Append(events, "fail")
      /\ UNCHANGED <<config, hcpriv, pausedBy, lock, work, pm>>
  BY DEF T2Status, T2Step, Post
<1>2. events' \in Seq(Messages)
  <2>1. events \in Seq(Messages) /\ "ok" \in Messages /\ "fail" \in Messages
    BY Begin DEF Messages
  <2> QED BY <1>1, <2>1
<1> QED BY <1>1, <1>2, Begin, IdleStep

LEMMA T2StallStep ==
  ASSUME IInv, T2Stall
  PROVE  IInv' /\ UNCHANGED hcpriv /\ Onwards(q, q', URB)
<1>1. /\ Alive /\ q' = q /\ events' = events /\ works' = EnqueueEvent(works, "fwStall")
      /\ UNCHANGED <<config, hcpriv, pausedBy, lock, work, pm>>
  BY DEF T2Stall, T2Step
<1>2. "fwStall" \in Jobs
  BY DEF Jobs
<1>3. works' \in Seq(Jobs) /\ ToSet(works) \subseteq ToSet(works')
  BY <1>1, <1>2, Begin, EnqueueEventStep
<1> QED BY <1>1, <1>3, Begin, IdleStep

LEMMA T2PauseStep ==
  ASSUME IInv, T2Pause
  PROVE  IInv' /\ UNCHANGED hcpriv /\ Onwards(q, q', URB)
<1>1. /\ Alive /\ q' = q /\ events' = events
      /\ \E job \in Jobs : works' = EnqueueEvent(works, job)
      /\ UNCHANGED <<config, hcpriv, pausedBy, lock, work, pm>>
  BY DEF T2Pause, Jobs
<1>3. works' \in Seq(Jobs) /\ ToSet(works) \subseteq ToSet(works')
  BY <1>1, Begin, EnqueueEventStep
<1> QED BY <1>1, <1>3, Begin, IdleStep

LEMMA T2CompleteStep ==
  ASSUME IInv, NEW r \in Rings, T2Complete(r)
  PROVE  IInv' /\ UNCHANGED hcpriv /\ Onwards(q, q', URB)
<1>1. /\ Alive /\ q.ring[r] # <<>> /\ events' = events /\ works' = works
      /\ UNCHANGED <<config, hcpriv, pausedBy, lock, work, pm>>
      /\ q' = [q EXCEPT !.ring[r] = Tail(@),
                        !.done[r] = Append(@, [urb |-> q.ring[r][1], ok |-> TRUE])]
  BY DEF T2Complete, T2Step
<1>2. /\ Good(q) /\ q.want = <<>> /\ q.short = FALSE /\ works \in Seq(Jobs)
      /\ events \in Seq(Messages) /\ q \in Queue
  BY <1>1, Begin
<1>3. /\ [q.ring EXCEPT ![r] = Tail(@)] \in [Rings -> Seq(URB)]
      /\ [q.done EXCEPT ![r] = Append(@, [urb |-> q.ring[r][1], ok |-> TRUE])]
            \in [Rings -> Seq(Completion)]
  <2>1. q.ring \in [Rings -> Seq(URB)] /\ q.done \in [Rings -> Seq(Completion)]
    BY <1>2, FieldTypes
  <2>2. q.ring[r] \in Seq(URB) /\ q.done[r] \in Seq(Completion)
    BY <2>1
  <2>3. Tail(q.ring[r]) \in Seq(URB) /\ q.ring[r][1] \in URB
    BY <1>1, <2>2, Popped
  <2>4. Append(q.done[r], [urb |-> q.ring[r][1], ok |-> TRUE]) \in Seq(Completion)
    BY <2>2, <2>3, Appended DEF Completion
  <2> QED BY <2>1, <2>3, <2>4
<1>4. /\ Still(q, q') /\ q'.want = q.want /\ q'.short = q.short /\ q'.stalled = q.stalled
      /\ q'.active = q.active /\ q'.odd = q.odd
  BY <1>1, <1>2, <1>3 DEF Still, Queue
<1>5. Good(q') /\ Onwards(q, q', URB)
  BY <1>2, <1>4, StillStep DEF Good, Still
<1>6. IInv'
  BY <1>1, <1>2, <1>4, <1>5, CalmStep DEF Still
<1> QED BY <1>1, <1>5, <1>6

-----------------------------------------------------------------------------
(* The works.                                                              *)

\* A work goes on to another place ...
LEMMA WorkMoves ==
  ASSUME WorkInv, NEW pc, Goto(pc), pc # "idle"
  PROVE  work' = [job |-> work.job, pc |-> pc] /\ work'.job = work.job /\ work'.pc = pc
<1>1. work = [job |-> work.job, pc |-> work.pc]
  BY DEF WorkInv
<1>2. work' = [work EXCEPT !.pc = pc]
  BY DEF Goto
<1>3. work' = [job |-> work.job, pc |-> pc]
  BY <1>1, <1>2
<1> QED BY <1>3

\* ... or ends.
LEMMA WorkEnds ==
  ASSUME work' = Idle
  PROVE  work' = [job |-> work'.job, pc |-> work'.pc] /\ work'.job = "none" /\ work'.pc = "idle"
  BY DEF Idle

LEMMA IdleWorkInv ==
  ASSUME work' = Idle
  PROVE  WorkInv'
<1>1. work' = [job |-> work'.job, pc |-> work'.pc] /\ work'.job = "none" /\ work'.pc = "idle"
  BY WorkEnds
<1> QED BY <1>1 DEF WorkInv, JobsAt, Locked

LEMMA WorkStarts ==
  ASSUME NEW job, NEW pc, Start(job, pc), pc # "idle"
  PROVE  work' = [job |-> job, pc |-> pc] /\ work'.job = job /\ work'.pc = pc
<1>1. work' = [job |-> job, pc |-> pc]
  BY DEF Start
<1> QED BY <1>1

\* The first work is taken from the others.
LEMMA WorkTaken ==
  ASSUME IInv, NEW job, NextWork(job)
  PROVE  /\ Tail(works) \in Seq(Jobs) /\ ToSet(works) = ToSet(Tail(works)) \cup {job}
         /\ Alive /\ work.pc = "idle" /\ work.job = "none"
<1>1. Alive /\ work.pc = "idle" /\ works # <<>> /\ Head(works) = job
  BY DEF NextWork
<1>2. works \in Seq(Jobs)
  BY Begin
<1>3. Tail(works) \in Seq(Jobs) /\ ToSet(works) = ToSet(Tail(works)) \cup {job}
  BY <1>1, <1>2, Popped
<1>4. work.job = "none"
  BY <1>1 DEF IInv, WorkInv, JobsAt
<1> QED BY <1>1, <1>3, <1>4

\* What the steps of the works do to the queue.
LEMMA StillQueue ==
  ASSUME IInv, Alive, Still(q, q')
  PROVE  /\ q' \in Queue /\ Owned(q') /\ Slots(q') /\ Onwards(q, q', URB)
         /\ q'.flush = q.flush
<1>1. Good(q)
  BY Begin
<1> QED BY <1>1, StillStep DEF Good, Still

LEMMA DrainStep ==
  ASSUME IInv, Drain
  PROVE  IInv' /\ UNCHANGED hcpriv /\ Onwards(q, q', URB)
<1>1. /\ Alive /\ work.pc = "drain" /\ q' = q
      /\ UNCHANGED <<config, hcpriv, pausedBy, lock, works, pm, events>>
  BY DEF Drain, At
<1>2. work' = [work EXCEPT !.pc = "setPaused"]
  BY DEF Drain
<1>3. work = [job |-> work.job, pc |-> work.pc] /\ work.job \in {"flush", "fwPause"} /\ lock = "wq"
  BY <1>1 DEF IInv, WorkInv, JobsAt, Locked
<1>4. work' = [job |-> work.job, pc |-> "setPaused"]
  BY <1>2, <1>3
<1>5. work'.job = work.job /\ work'.pc = "setPaused" /\ work' = [job |-> work'.job, pc |-> work'.pc]
  BY <1>4
<1>6. WorkInv'
  BY <1>1, <1>3, <1>5 DEF WorkInv, JobsAt, Locked
<1>7. PmInv'
  BY <1>1 DEF IInv, PmInv
<1>8. StoppedHasReason'
  BY <1>5 DEF StoppedHasReason
<1>9. WorkIsOwed'
  BY <1>1, <1>3, <1>5 DEF IInv, WorkIsOwed
<1>10. q \in Queue /\ Owned(q) /\ Slots(q) /\ q.want = <<>> /\ q.short = FALSE
  BY <1>1, Begin DEF Good
<1>11. IInv'
  <2>1. hcpriv' \in {"set", "cancelled", "null", "destroyed"}
    BY <1>1 DEF IInv, TypeInv
  <2> QED BY <1>1, <1>6, <1>7, <1>8, <1>9, <1>10, <2>1, Begin, Rebuilt
<1> QED BY <1>1, <1>11, SameOnwards

LEMMA Worked ==
  ASSUME IInv, UNCHANGED <<config, hcpriv, events>>, Good(q'), Onwards(q, q', URB),
         q'.want = <<>>, q'.short = FALSE, pausedBy' \in SUBSET Sources,
         lock' \in {"none", "wq", "pm"}, works' \in Seq(Jobs),
         WorkInv', PmInv', StoppedHasReason', WorkIsOwed'
  PROVE  IInv' /\ UNCHANGED hcpriv /\ Onwards(q, q', URB)
<1>1. hcpriv' \in {"set", "cancelled", "null", "destroyed"} /\ UNCHANGED config
  BY DEF IInv, TypeInv
<1>2. events' \in Seq(Messages)
  BY Begin
<1>3. q' \in Queue /\ Owned(q') /\ Slots(q')
  BY DEF Good
<1> QED BY <1>1, <1>2, <1>3, Rebuilt

\* What a step may do to the flags of the queue
Flags(s, t, stop) ==
    /\ Still(s, t) /\ t.want = s.want /\ t.short = s.short
    /\ t.stalled = s.stalled /\ t.active = (s.active /\ ~stop)

LEMMA FlagsStep ==
  ASSUME IInv, Alive, NEW stop \in BOOLEAN, Flags(q, q', stop)
  PROVE  /\ Good(q') /\ Onwards(q, q', URB) /\ q'.want = <<>> /\ q'.short = FALSE
         /\ q'.flush = q.flush /\ q'.stalled = q.stalled
         /\ ~stop => q'.active = q.active
<1>1. Good(q) /\ q.want = <<>> /\ q.short = FALSE
  BY Begin
<1>2. q.active \in BOOLEAN
  BY <1>1, FieldTypes DEF Good
<1>3. Good(q')
  BY <1>1, StillStep DEF Flags, Still, Good
<1>4. Onwards(q, q', URB)
  BY StillStep DEF Flags
<1> QED BY <1>1, <1>2, <1>3, <1>4 DEF Flags, Still

LEMMA AfterPauseIs ==
  ASSUME NEW job \in {"flush", "fwPause"}
  PROVE  /\ job = "fwPause" => AfterPause(job) = "idle"
         /\ job = "flush" => AfterPause(job) \in {"epReset", "reclaim"}
  BY DEF AfterPause

LEMMA SourceIn ==
  ASSUME NEW job \in Jobs
  PROVE  /\ Source(job) \in {"internal", "firmware"}
         /\ job \in {"flush", "reset", "resume"} => Source(job) = "internal"
         /\ job \in {"fwPause", "fwResume"} => Source(job) = "firmware"
  BY DEF Source

LEMMA PauseBeginStep ==
  ASSUME IInv, NEW job \in {"flush", "fwPause"}, PauseBegin(job)
  PROVE  IInv' /\ UNCHANGED hcpriv /\ Onwards(q, q', URB)
<1>1. /\ NextWork(job) /\ lock = "none" /\ works' = Tail(works)
      /\ UNCHANGED <<config, hcpriv, events>> /\ pm' = pm
  BY DEF PauseBegin
<1>2. /\ works' \in Seq(Jobs) /\ ToSet(works) = ToSet(works') \cup {job}
      /\ Alive /\ work.pc = "idle" /\ work.job = "none"
  BY <1>1, WorkTaken
<1>3. q \in Queue /\ pausedBy \in SUBSET Sources
  BY Begin
<1>4. Source(job) \in {"internal", "firmware"} /\ (job = "flush" => Source(job) = "internal")
  BY SourceIn DEF Jobs
<1>q. /\ Flags(q, q', pausedBy = {}) /\ q'.odd = q.odd
  <2>2. CASE pausedBy # {}
    <3>1. q' = [q EXCEPT !.loose = @ \/ InFlight(q) # {}]
      BY <2>2 DEF PauseBegin
    <3>2. (q.loose \/ InFlight(q) # {}) \in BOOLEAN /\ q.active \in BOOLEAN
      BY <1>3, FieldTypes
    <3> QED BY <1>3, <2>2, <3>1, <3>2 DEF Queue, Flags, Still
  <2>3. CASE pausedBy = {}
    <3>1. q' = [q EXCEPT !.active = FALSE, !.evq = <<>>, !.loose = @ \/ recovering]
      BY <2>3 DEF PauseBegin
    <3>2. (q.loose \/ recovering) \in BOOLEAN /\ <<>> \in Seq(Messages)
      OBVIOUS
    <3> QED BY <1>3, <2>3, <3>1, <3>2, ZenonT(20) DEF Queue, Flags, Still
  <2> QED BY <2>2, <2>3
<1>5. /\ Good(q') /\ Onwards(q, q', URB) /\ q'.want = <<>> /\ q'.short = FALSE
      /\ q'.flush = q.flush /\ q'.stalled = q.stalled /\ q'.odd = q.odd
      /\ pausedBy # {} => q'.active = q.active
  BY <1>2, <1>q, FlagsStep
<1>6. CASE pausedBy # {} \/ recovering
  <2>1. /\ pausedBy' = pausedBy \cup {Source(job)} /\ Start(job, AfterPause(job)) /\ lock' = lock
    BY <1>6 DEF PauseBegin
  <2>2. pausedBy' \in SUBSET Sources /\ Source(job) \in pausedBy'
    BY <1>3, <1>4, <2>1 DEF Sources
  <2>3. CASE job = "fwPause"
    <3>1. work' = Idle
      BY <2>1, <2>3, AfterPauseIs DEF Start
    <3>2. WorkInv'
      BY <3>1, IdleWorkInv
    <3>3. PmInv'
      BY <1>1, <2>1 DEF IInv, PmInv
    <3>4. StoppedHasReason'
      BY <2>2 DEF StoppedHasReason
    <3>5. work'.pc = "idle"
      BY <3>1, WorkEnds
    <3>6. WorkIsOwed'
      BY <1>1, <1>2, <1>5, <2>3 DEF IInv, WorkIsOwed
    <3> QED BY <1>1, <1>2, <1>5, <2>1, <2>2, <3>2, <3>3, <3>4, <3>6, Begin, Worked
  <2>4. CASE job = "flush"
    <3>1. AfterPause(job) \in {"epReset", "reclaim"}
      BY <2>4, AfterPauseIs
    <3>2. work' = [job |-> job, pc |-> AfterPause(job)] /\ work'.job = "flush" /\ work'.pc \in {"epReset", "reclaim"}
      BY <2>1, <2>4, <3>1, WorkStarts
    <3>3. "internal" \in pausedBy'
      BY <1>4, <2>2, <2>4
    <3>4. WorkInv'
      BY <3>2, <3>3 DEF WorkInv, JobsAt, Locked
    <3>5. PmInv'
      BY <1>1, <2>1 DEF IInv, PmInv
    <3>6. StoppedHasReason'
      BY <2>2 DEF StoppedHasReason
    <3>7. WorkIsOwed'
      BY <1>1, <1>2, <1>5, <2>4, <3>2 DEF IInv, WorkIsOwed
    <3> QED BY <1>1, <1>2, <1>5, <2>1, <2>2, <3>4, <3>5, <3>6, <3>7, Begin, Worked
  <2> QED BY <2>3, <2>4
<1>7. CASE ~(pausedBy # {} \/ recovering)
  <2>1. /\ pausedBy' = pausedBy /\ lock' = "wq"
        /\ \E pc \in {"setPaused", "drain"} : Start(job, pc)
    BY <1>7 DEF PauseBegin
  <2>2. PICK pc \in {"setPaused", "drain"} : Start(job, pc)
    BY <2>1
  <2>3. work' = [job |-> job, pc |-> pc] /\ work'.job = job /\ work'.pc = pc
    BY <2>2, WorkStarts
  <2>4. WorkInv'
    BY <2>1, <2>3 DEF WorkInv, JobsAt, Locked
  <2>5. PmInv'
    BY <1>1, <2>1 DEF IInv, PmInv
  <2>6. StoppedHasReason'
    BY <2>3 DEF StoppedHasReason
  <2>7. WorkIsOwed'
    BY <1>1, <1>2, <1>5, <2>3 DEF IInv, WorkIsOwed
  <2> QED BY <1>1, <1>2, <1>3, <1>5, <2>1, <2>4, <2>5, <2>6, <2>7, Worked
<1> QED BY <1>6, <1>7

LEMMA SetPausedStep ==
  ASSUME IInv, SetPaused
  PROVE  IInv' /\ UNCHANGED hcpriv /\ Onwards(q, q', URB)
<1>1. /\ Alive /\ work.pc = "setPaused"
      /\ UNCHANGED <<config, hcpriv, events>> /\ pm' = pm /\ pausedBy' = pausedBy /\ works' = works
  BY DEF SetPaused, At
<1>2. WorkInv /\ work.job \in {"flush", "fwPause"} /\ lock = "wq"
  BY <1>1 DEF IInv, WorkInv, JobsAt, Locked
<1>3. q \in Queue /\ pausedBy' \in SUBSET Sources /\ works' \in Seq(Jobs)
  BY <1>1, Begin
<1>4. PmInv'
  <2>1. lock' \in {"wq", "none"} /\ lock = "wq" /\ pm' = pm /\ pausedBy' = pausedBy
    BY <1>1, <1>2 DEF SetPaused
  <2> QED BY <2>1 DEF IInv, PmInv
<1>5. CASE Goto("flush") /\ lock' = lock /\ q' = q
  <2>1. Flags(q, q', FALSE)
    BY <1>3, <1>5, FieldTypes DEF Flags, Still
  <2>2. /\ Good(q') /\ Onwards(q, q', URB) /\ q'.want = <<>> /\ q'.short = FALSE
    BY <1>1, <2>1, FlagsStep
  <2>3. work' = [job |-> work.job, pc |-> "flush"] /\ work'.job = work.job /\ work'.pc = "flush"
    BY <1>2, <1>5, WorkMoves
  <2>4. WorkInv'
    BY <1>2, <1>5, <2>3 DEF WorkInv, JobsAt, Locked
  <2>5. StoppedHasReason'
    BY <2>3 DEF StoppedHasReason
  <2>6. WorkIsOwed'
    BY <1>1, <1>2, <1>5, <2>3 DEF IInv, WorkIsOwed
  <2> QED BY <1>1, <1>2, <1>3, <1>4, <1>5, <2>2, <2>4, <2>5, <2>6, Worked
<1>6. CASE /\ q' = [q EXCEPT !.odd = TRUE, !.loose = TRUE]
           /\ Goto(AfterPause(work.job)) /\ lock' = "none"
  <2>1. Flags(q, q', FALSE) /\ q'.odd = TRUE
    <3>1. q.active \in BOOLEAN
      BY <1>3, FieldTypes
    <3> QED BY <1>3, <1>6, <3>1 DEF Flags, Still, Queue
  <2>2. /\ Good(q') /\ Onwards(q, q', URB) /\ q'.want = <<>> /\ q'.short = FALSE
        /\ q'.flush = q.flush /\ q'.stalled = q.stalled
    BY <1>1, <2>1, FlagsStep
  <2>5. StoppedHasReason'
    BY <2>1 DEF StoppedHasReason
  <2>3. CASE work.job = "fwPause"
    <3>1. work' = Idle
      BY <1>6, <2>3, AfterPauseIs DEF Goto
    <3>2. WorkInv'
      BY <3>1, IdleWorkInv
    <3>3. WorkIsOwed'
      BY <1>1, <2>2, <2>3 DEF IInv, WorkIsOwed
    <3> QED BY <1>1, <1>3, <1>4, <1>6, <2>2, <2>5, <3>2, <3>3, Worked
  <2>4. CASE work.job = "flush"
    <3>1. AfterPause(work.job) \in {"epReset", "reclaim"}
      BY <2>4, AfterPauseIs
    <3>2. /\ work' = [job |-> work.job, pc |-> AfterPause(work.job)] /\ work'.job = "flush"
          /\ work'.pc \in {"epReset", "reclaim"}
      BY <1>2, <1>6, <2>4, <3>1, WorkMoves
    <3>3. WorkInv'
      BY <2>1, <3>2 DEF WorkInv, JobsAt, Locked
    <3>4. WorkIsOwed'
      BY <1>1, <2>2, <2>4, <3>2 DEF IInv, WorkIsOwed
    <3> QED BY <1>1, <1>3, <1>4, <1>6, <2>2, <2>5, <3>3, <3>4, Worked
  <2> QED BY <1>2, <2>3, <2>4
<1> QED BY <1>5, <1>6 DEF SetPaused

LEMMA FlushQueuesStep ==
  ASSUME IInv, FlushQueues
  PROVE  IInv' /\ UNCHANGED hcpriv /\ Onwards(q, q', URB)
<1>1. /\ Alive /\ work.pc = "flush"
      /\ UNCHANGED <<config, hcpriv, events>> /\ pm' = pm /\ works' = works
      /\ \/ q' = [FlushRings(q) EXCEPT !.loose = @ \/ \E r \in Rings : q.done[r] # <<>>]
         \/ q' = [q EXCEPT !.loose = TRUE]
  BY DEF FlushQueues, At
<1>2. WorkInv /\ work.job \in {"flush", "fwPause", "reset"} /\ lock = "wq"
  BY <1>1 DEF IInv, WorkInv, JobsAt, Locked
<1>3. q \in Queue /\ pausedBy \in SUBSET Sources /\ works' \in Seq(Jobs)
  BY <1>1, Begin
<1>4. Flags(q, q', FALSE) /\ q'.odd = q.odd
  <2>1. q.active \in BOOLEAN
    BY <1>3, FieldTypes
  <2>2. CASE q' = [q EXCEPT !.loose = TRUE]
    BY <1>3, <2>1, <2>2 DEF Flags, Still, Queue
  <2>3. CASE q' = [FlushRings(q) EXCEPT !.loose = @ \/ \E r \in Rings : q.done[r] # <<>>]
    <3> DEFINE f == FlushRings(q)
    <3>1. /\ Still(q, f) /\ f.want = q.want /\ f.short = q.short /\ f.stalled = q.stalled
          /\ f.active = q.active /\ f.odd = q.odd
      BY <1>3, FlushRingsStep
    <3>2. (f.loose \/ \E r \in Rings : q.done[r] # <<>>) \in BOOLEAN
      OBVIOUS
    <3>3. q' = [f EXCEPT !.loose = f.loose \/ \E r \in Rings : q.done[r] # <<>>]
      BY <2>3
    <3> HIDE DEF f
    <3> QED BY <2>1, <3>1, <3>2, <3>3 DEF Flags, Still, Queue
  <2> QED BY <1>1, <2>2, <2>3
<1>5. /\ Good(q') /\ Onwards(q, q', URB) /\ q'.want = <<>> /\ q'.short = FALSE
      /\ q'.flush = q.flush /\ q'.stalled = q.stalled
  BY <1>1, <1>4, FlagsStep
<1>6. CASE work.job = "reset"
  <2>1. Goto("epReset") /\ pausedBy' = pausedBy /\ lock' = lock
    BY <1>6 DEF FlushQueues
  <2>2. work' = [job |-> work.job, pc |-> "epReset"] /\ work'.job = work.job /\ work'.pc = "epReset"
    BY <1>2, <2>1, WorkMoves
  <2>3. "internal" \in pausedBy
    BY <1>1, <1>2, <1>6 DEF WorkInv
  <2>4. WorkInv'
    BY <1>2, <1>6, <2>1, <2>2, <2>3 DEF WorkInv, JobsAt, Locked
  <2>5. PmInv'
    BY <1>1, <2>1 DEF IInv, PmInv
  <2>6. StoppedHasReason'
    BY <2>2 DEF StoppedHasReason
  <2>7. WorkIsOwed'
    BY <1>1, <1>5, <1>6, <2>2 DEF IInv, WorkIsOwed
  <2> QED BY <1>1, <1>2, <1>3, <1>5, <2>1, <2>4, <2>5, <2>6, <2>7, Worked
<1>7. CASE work.job # "reset"
  <2>1. /\ Goto(AfterPause(work.job)) /\ pausedBy' = pausedBy \cup {Source(work.job)}
        /\ lock' = "none"
    BY <1>7 DEF FlushQueues
  <2>2. work.job \in {"flush", "fwPause"}
    BY <1>2, <1>7
  <2>3. /\ Source(work.job) \in {"internal", "firmware"}
        /\ work.job = "flush" => Source(work.job) = "internal"
    BY <2>2, SourceIn DEF Jobs
  <2>4. pausedBy' \in SUBSET Sources /\ Source(work.job) \in pausedBy'
    BY <1>3, <2>1, <2>3 DEF Sources
  <2>5. PmInv'
    BY <1>1, <1>2, <2>1 DEF IInv, PmInv
  <2>6. StoppedHasReason'
    BY <2>4 DEF StoppedHasReason
  <2>7. CASE work.job = "fwPause"
    <3>1. work' = Idle
      BY <2>1, <2>7, AfterPauseIs DEF Goto
    <3>2. WorkInv'
      BY <3>1, IdleWorkInv
    <3>3. WorkIsOwed'
      BY <1>1, <1>5, <2>7 DEF IInv, WorkIsOwed
    <3> QED BY <1>1, <1>3, <1>5, <2>1, <2>4, <2>5, <2>6, <3>2, <3>3, Worked
  <2>8. CASE work.job = "flush"
    <3>1. AfterPause(work.job) \in {"epReset", "reclaim"}
      BY <2>8, AfterPauseIs
    <3>2. /\ work' = [job |-> work.job, pc |-> AfterPause(work.job)] /\ work'.job = "flush"
          /\ work'.pc \in {"epReset", "reclaim"}
      BY <1>2, <2>1, <2>8, <3>1, WorkMoves
    <3>3. WorkInv'
      BY <2>3, <2>4, <2>8, <3>2 DEF WorkInv, JobsAt, Locked
    <3>4. WorkIsOwed'
      BY <1>1, <1>5, <2>8, <3>2 DEF IInv, WorkIsOwed
    <3> QED BY <1>1, <1>3, <1>5, <2>1, <2>4, <2>5, <2>6, <3>3, <3>4, Worked
  <2> QED BY <2>2, <2>7, <2>8
<1> QED BY <1>6, <1>7

LEMMA EndpointResetStep ==
  ASSUME IInv, EndpointReset
  PROVE  IInv' /\ UNCHANGED hcpriv /\ Onwards(q, q', URB)
<1>1. /\ Alive /\ work.pc = "epReset"
      /\ UNCHANGED <<config, hcpriv, events>> /\ pm' = pm /\ works' = works /\ pausedBy' = pausedBy
  BY DEF EndpointReset, At
<1>2. WorkInv /\ work.job \in {"flush", "reset"} /\ (work.job = "reset" => lock = "wq")
  BY <1>1 DEF IInv, WorkInv, JobsAt, Locked
<1>3. q \in Queue /\ pausedBy' \in SUBSET Sources /\ works' \in Seq(Jobs)
  BY <1>1, Begin
<1>4. Good(q) /\ q.want = <<>> /\ q.short = FALSE /\ lock \in {"none", "wq", "pm"}
  BY <1>1, Begin
<1>5. CASE work.job = "reset"
  <2>1. q' = [q EXCEPT !.stalled = FALSE] /\ lock' = "none" /\ Goto("resume")
    BY <1>5 DEF EndpointReset
  <2>2. /\ Still(q, q') /\ q'.want = <<>> /\ q'.short = FALSE /\ q'.stalled = FALSE
        /\ q'.active = q.active /\ q'.odd = q.odd
    BY <1>3, <1>4, <2>1 DEF Still, Queue
  <2>3. Good(q') /\ Onwards(q, q', URB)
    BY <1>4, <2>2, StillStep DEF Still, Good
  <2>4. work' = [job |-> work.job, pc |-> "resume"] /\ work'.job = work.job /\ work'.pc = "resume"
    BY <1>2, <2>1, WorkMoves
  <2>5. "internal" \in pausedBy'
    BY <1>1, <1>2, <1>5 DEF WorkInv
  <2>6. WorkInv'
    BY <1>5, <2>4, <2>5 DEF WorkInv, JobsAt, Locked
  <2>7. PmInv'
    BY <1>1, <1>2, <1>5, <2>1 DEF IInv, PmInv
  <2>8. StoppedHasReason'
    BY <2>5 DEF StoppedHasReason
  <2>9. WorkIsOwed'
    BY <1>1, <1>5, <2>2, <2>4 DEF IInv, WorkIsOwed, Still
  <2> QED BY <1>1, <1>3, <2>1, <2>2, <2>3, <2>6, <2>7, <2>8, <2>9, Worked
<1>6. CASE work.job = "flush"
  <2>1. q' = q /\ lock' = lock /\ Goto("reclaim")
    BY <1>6 DEF EndpointReset
  <2>2. work' = [job |-> work.job, pc |-> "reclaim"] /\ work'.job = work.job /\ work'.pc = "reclaim"
    BY <1>2, <2>1, WorkMoves
  <2>3. WorkInv'
    BY <1>1, <1>2, <1>6, <2>1, <2>2 DEF WorkInv, JobsAt, Locked
  <2>4. PmInv'
    BY <1>1, <2>1 DEF IInv, PmInv
  <2>5. StoppedHasReason'
    BY <2>2 DEF StoppedHasReason
  <2>6. WorkIsOwed'
    BY <1>1, <1>6, <2>1, <2>2 DEF IInv, WorkIsOwed
  <2> QED BY <1>1, <1>3, <1>4, <2>1, <2>3, <2>4, <2>5, <2>6, Worked, SameOnwards
<1> QED BY <1>2, <1>5, <1>6

\* The flush takes back every slot: that is right if no URB was started.
LEMMA ReclaimStep ==
  ASSUME IInv, Reclaim
  PROVE  IInv' /\ UNCHANGED hcpriv /\ Onwards(q, q', URB)
<1>1. /\ Alive /\ work.pc = "reclaim"
      /\ UNCHANGED <<config, hcpriv, events>> /\ pm' = pm /\ works' = works /\ pausedBy' = pausedBy
      /\ lock' = lock /\ Goto("resume")
      /\ q' = [q EXCEPT !.ghosts = 0, !.remaining = limit,
                        !.giveback = @ \o q.flush, !.flush = <<>>,
                        !.reclaimed = @ \/ \E u \in Linked(q) : q.st[u] # "pending"]
  BY DEF Reclaim, At
<1>2. WorkInv /\ work.job = "flush"
  BY <1>1 DEF IInv, WorkInv, JobsAt, Locked
<1>3. /\ q \in Queue /\ pausedBy' \in SUBSET Sources /\ works' \in Seq(Jobs) /\ Config
      /\ Good(q) /\ q.want = <<>> /\ q.short = FALSE /\ lock \in {"none", "wq", "pm"}
  BY <1>1, Begin
<1>4. /\ q'.list = q.list /\ q'.st = q.st /\ q'.giveback = q.giveback \o q.flush /\ q'.flush = <<>>
      /\ q'.ghosts = 0 /\ q'.remaining = limit /\ q'.want = <<>> /\ q'.short = FALSE
      /\ q'.stalled = q.stalled /\ q'.active = q.active /\ q'.odd = q.odd
      /\ q'.reclaimed = (q.reclaimed \/ \E u \in Linked(q) : q.st[u] # "pending")
  BY <1>1, <1>3 DEF Queue
<1>5. Owned(q') /\ q.giveback \o q.flush \in Seq(URB)
  BY <1>3, <1>4, MergeStep DEF Good
<1>6. q' \in Queue
  <2>1. limit \in Int /\ 0 \in Nat /\ <<>> \in Seq(URB)
    BY <1>3 DEF Config
  <2>2. (q.reclaimed \/ \E u \in Linked(q) : q.st[u] # "pending") \in BOOLEAN
    OBVIOUS
  <2> QED BY <1>1, <1>3, <1>5, <2>1, <2>2 DEF Queue
<1>7. Slots(q')
  <2> SUFFICES ASSUME ~q'.reclaimed
               PROVE  q'.remaining + Cardinality(Running(q')) + q'.ghosts + Waiting(q') = limit
    BY <1>4 DEF Slots
  <2>1. Running(q') = {}
    <3> SUFFICES ASSUME NEW u \in URB, q.st[u] \in Started PROVE FALSE
      BY <1>4 DEF Running
    <3>1. u \in Linked(q)
      BY <1>3 DEF Good, Owned, Held, Linked
    <3> QED BY <1>4, <3>1 DEF Started
  <2>2. Cardinality(Running(q')) = 0
    BY <2>1, FS_EmptySet
  <2>3. Waiting(q') = 0
    BY <1>4 DEF Waiting
  <2> QED BY <1>3, <1>4, <2>2, <2>3 DEF Config
<1>8. Good(q') /\ Onwards(q, q', URB)
  BY <1>4, <1>5, <1>6, <1>7 DEF Good, Onwards, Held, Started
<1>9. work' = [job |-> work.job, pc |-> "resume"] /\ work'.job = work.job /\ work'.pc = "resume"
  BY <1>1, <1>2, WorkMoves
<1>10. WorkInv'
  BY <1>1, <1>2, <1>4, <1>9 DEF WorkInv, JobsAt, Locked
<1>11. PmInv'
  BY <1>1 DEF IInv, PmInv
<1>12. StoppedHasReason'
  BY <1>9 DEF StoppedHasReason
<1>13. WorkIsOwed'
  BY <1>1, <1>2, <1>4 DEF IInv, WorkIsOwed
<1> QED BY <1>1, <1>3, <1>4, <1>8, <1>10, <1>11, <1>12, <1>13, Worked

LEMMA EndedStep ==
  ASSUME NEW s, Good(s), NEW job
  PROVE  LET t == Ended(job, s)
         IN /\ Good(t) /\ Onwards(s, t, URB) /\ Sides(s, t) /\ t.want = s.want
            /\ t.stalled = s.stalled /\ t.active = s.active
<1>1. CASE job = "flush"
  <2>1. Ended(job, s) = GiveBack(s)
    BY <1>1 DEF Ended
  <2> QED BY <2>1, GiveBackStep DEF Good
<1>2. CASE job # "flush"
  <2>1. Ended(job, s) = s
    BY <1>2 DEF Ended
  <2> QED BY <2>1 DEF Onwards, Sides, Held, Started
<1> QED BY <1>1, <1>2

\* A resume starts, or the source no longer pauses the queue.
LEMMA ResumeStep ==
  ASSUME IInv, Alive, NEW job \in Jobs, Resume(job),
         job \in {"flush", "reset", "resume", "fwResume"},
         works' \in Seq(Jobs), ToSet(works) \subseteq ToSet(works') \cup {job},
         \/ work.pc = "resume" /\ work.job = job /\ works' = works
         \/ work.pc = "idle" /\ job \in {"resume", "fwResume"}
  PROVE  IInv' /\ UNCHANGED hcpriv /\ Onwards(q, q', URB)
<1>1. lock = "none" /\ UNCHANGED <<config, hcpriv, events>> /\ pm' = pm
  BY DEF Resume
<1>2. WorkInv /\ Source(job) \in {"internal", "firmware"}
  BY SourceIn DEF IInv
<1>3. /\ q \in Queue /\ pausedBy \in SUBSET Sources
      /\ Good(q) /\ q.want = <<>> /\ q.short = FALSE
  BY Begin
<1>4. /\ q.stalled => {"reset", "fwStall"} \cap ToSet(works') # {}
      /\ q.flush # <<>> => "flush" \in ToSet(works')
  <2>0. hcpriv # "destroyed"
    BY DEF Alive
  <2>1. /\ q.stalled => {"reset", "fwStall"} \cap ToSet(works) # {}
        /\ q.flush # <<>> => "flush" \in ToSet(works)
    BY <2>0, <1>2 DEF IInv, WorkIsOwed, WorkInv, JobsAt
  <2> QED BY <2>1
<1>5. CASE pausedBy = {Source(job)}
  <2>1. lock' = "wq" /\ Start(job, "setActive") /\ q' = q /\ pausedBy' = pausedBy
    BY <1>5 DEF Resume
  <2>2. work' = [job |-> job, pc |-> "setActive"] /\ work'.job = job /\ work'.pc = "setActive"
    BY <2>1, WorkStarts
  <2>3. WorkInv'
    BY <1>5, <2>1, <2>2 DEF WorkInv, JobsAt, Locked, Source
  <2>4. PmInv'
    BY <1>1, <2>1 DEF IInv, PmInv
  <2>5. StoppedHasReason'
    BY <2>2 DEF StoppedHasReason
  <2>6. WorkIsOwed'
    BY <1>4, <2>1 DEF WorkIsOwed
  <2> QED BY <1>1, <1>3, <2>1, <2>3, <2>4, <2>5, <2>6, Worked, SameOnwards
<1>6. CASE pausedBy # {Source(job)}
  <2>1. lock' = lock /\ pausedBy' = pausedBy \ {Source(job)} /\ q' = Ended(job, q) /\ Goto("idle")
    BY <1>6 DEF Resume
  <2>2. /\ Good(q') /\ Onwards(q, q', URB) /\ Sides(q, q') /\ q'.want = q.want
        /\ q'.stalled = q.stalled /\ q'.active = q.active
    BY <1>3, <2>1, EndedStep
  <2>3. q'.flush = q.flush /\ q'.odd = q.odd /\ q'.short = q.short
    BY <2>2 DEF Sides
  <2>4. work' = Idle
    BY <2>1 DEF Goto
  <2>5. WorkInv'
    BY <2>4, IdleWorkInv
  <2>6. PmInv'
    BY <1>1, <1>2, <2>1 DEF IInv, PmInv
  <2>7. StoppedHasReason'
    <3> SUFFICES ASSUME ~q.active, pausedBy \ {Source(job)} = {}
                 PROVE  q.stalled \/ pm # "run" \/ hcpriv # "set" \/ q.odd
      BY <1>1, <2>1, <2>2, <2>3 DEF StoppedHasReason
    <3>1. pausedBy = {}
      BY <1>6
    <3>2. CASE work.pc = "resume"
      BY <1>2, <3>1, <3>2 DEF WorkInv, JobsAt
    <3>3. CASE work.pc = "idle"
      BY <3>1, <3>3 DEF IInv, StoppedHasReason
    <3> QED BY <3>2, <3>3
  <2>8. WorkIsOwed'
    BY <1>4, <2>2, <2>3 DEF WorkIsOwed
  <2> QED BY <1>1, <1>3, <2>1, <2>2, <2>3, <2>5, <2>6, <2>7, <2>8, Worked
<1> QED BY <1>5, <1>6

LEMMA ResumeAfterStep ==
  ASSUME IInv, ResumeAfter
  PROVE  IInv' /\ UNCHANGED hcpriv /\ Onwards(q, q', URB)
<1>1. Alive /\ work.pc = "resume" /\ Resume(work.job) /\ works' = works
  BY DEF ResumeAfter, At
<1>2. work.job \in {"flush", "reset"}
  BY <1>1 DEF IInv, WorkInv, JobsAt
<1>3. work.job \in Jobs
  BY <1>2 DEF Jobs
<1> QED BY <1>1, <1>2, <1>3, Begin, ResumeStep

LEMMA ResumeWorkStep ==
  ASSUME IInv, NEW job \in {"resume", "fwResume"}, ResumeWork(job)
  PROVE  IInv' /\ UNCHANGED hcpriv /\ Onwards(q, q', URB)
<1>1. NextWork(job) /\ Resume(job) /\ works' = Tail(works)
  BY DEF ResumeWork
<1>2. /\ works' \in Seq(Jobs) /\ ToSet(works) = ToSet(works') \cup {job}
      /\ Alive /\ work.pc = "idle"
  BY <1>1, WorkTaken
<1>3. job \in Jobs
  BY DEF Jobs
<1> QED BY <1>1, <1>2, <1>3, ResumeStep

LEMMA SetActiveStep ==
  ASSUME IInv, SetActive
  PROVE  IInv' /\ UNCHANGED hcpriv /\ Onwards(q, q', URB)
<1>1. /\ Alive /\ work.pc = "setActive"
      /\ UNCHANGED <<config, hcpriv, events>> /\ pm' = pm /\ works' = works /\ pausedBy' = pausedBy
  BY DEF SetActive, At
<1>2. WorkInv /\ lock = "wq" /\ pausedBy = {Source(work.job)}
  BY <1>1 DEF IInv, WorkInv, Locked
<1>3. /\ q \in Queue /\ pausedBy' \in SUBSET Sources /\ works' \in Seq(Jobs)
      /\ Good(q) /\ q.want = <<>> /\ q.short = FALSE
  BY <1>1, Begin
<1>4. hcpriv # "destroyed"
  BY <1>1 DEF Alive
<1>5. CASE Goto("activate") /\ q' = q /\ lock' = lock
  <2>1. work' = [job |-> work.job, pc |-> "activate"] /\ work'.job = work.job /\ work'.pc = "activate"
    BY <1>2, <1>5, WorkMoves
  <2>2. WorkInv'
    BY <1>1, <1>2, <1>5, <2>1 DEF WorkInv, JobsAt, Locked, Source
  <2>3. PmInv'
    BY <1>1, <1>5 DEF IInv, PmInv
  <2>4. StoppedHasReason'
    BY <2>1 DEF StoppedHasReason
  <2>5. WorkIsOwed'
    BY <1>1, <1>5, <2>1 DEF IInv, WorkIsOwed
  <2> QED BY <1>1, <1>2, <1>3, <1>5, <2>2, <2>3, <2>4, <2>5, Worked, SameOnwards
<1>6. CASE q' = Ended(work.job, q) /\ Goto("idle") /\ lock' = "none"
  <2>1. /\ Good(q') /\ Onwards(q, q', URB) /\ Sides(q, q') /\ q'.want = q.want
        /\ q'.stalled = q.stalled /\ q'.active = q.active
    BY <1>3, <1>6, EndedStep
  <2>2. q'.flush = q.flush /\ q'.short = q.short
    BY <2>1 DEF Sides
  <2>3. work' = Idle
    BY <1>6 DEF Goto
  <2>4. WorkInv'
    BY <2>3, IdleWorkInv
  <2>5. PmInv'
    BY <1>1, <1>2, <1>6 DEF IInv, PmInv
  <2>6. StoppedHasReason'
    BY <1>1, <1>2 DEF StoppedHasReason
  <2>7. WorkIsOwed'
    BY <1>1, <2>1, <2>2 DEF IInv, WorkIsOwed
  <2> QED BY <1>1, <1>3, <1>6, <2>1, <2>2, <2>4, <2>5, <2>6, <2>7, Worked
<1> QED BY <1>5, <1>6 DEF SetActive

\* The section of do_resume, ended by a work or by the thread that resumes
LEMMA ActivateSection ==
  ASSUME IInv, Alive, NEW b \in BOOLEAN, NEW job,
         q' = [Ended(job, Activate([q EXCEPT !.short = b])) EXCEPT !.short = FALSE, !.want = <<>>],
         works' = FoldLeft(Enqueue, works, Ended(job, Activate([q EXCEPT !.short = b])).want)
  PROVE  /\ Good(q') /\ Onwards(q, q', URB) /\ q'.want = <<>> /\ q'.short = FALSE
         /\ q'.flush = q.flush /\ q'.odd = q.odd
         /\ ~q'.active => q'.stalled
         /\ q'.stalled => q.stalled \/ "reset" \in ToSet(works')
         /\ works' \in Seq(Jobs) /\ ToSet(works) \subseteq ToSet(works')
<1> DEFINE q1 == [q EXCEPT !.short = b]
           c == Activate(q1)
           s == Ended(job, c)
<1>1. Good(q) /\ Config /\ works \in Seq(Jobs) /\ q.want = <<>> /\ q \in Queue
  BY Begin
<1>2. Good(q1) /\ q1.st = q.st
  BY <1>1, SectionStart
<1> HIDE DEF q1
<1>3. Sec(q1, c) /\ (~c.active => c.stalled)
  BY <1>1, <1>2, ActivateStep
<1> HIDE DEF c
<1>4. Good(c) /\ Sides(q1, c) /\ Onwards(q1, c, URB)
  BY <1>3, SecSides
<1>5. /\ Good(s) /\ Onwards(c, s, URB) /\ Sides(c, s) /\ s.stalled = c.stalled
      /\ s.active = c.active
  BY <1>4, EndedStep
<1>a. q' = [s EXCEPT !.short = FALSE, !.want = <<>>] /\ works' = FoldLeft(Enqueue, works, s.want)
  BY DEF c, q1
<1> HIDE DEF s
<1>6. Sides(q1, s) /\ Onwards(q1, s, URB)
  BY <1>4, <1>5, SidesTrans, OnwardsTrans
<1> DEFINE t == [s EXCEPT !.short = FALSE, !.want = <<>>]
           v == FoldLeft(Enqueue, works, s.want)
<1>7. /\ Good(t) /\ t.want = <<>> /\ t.short = FALSE /\ t.st = s.st
      /\ t.flush = q.flush /\ t.odd = q.odd
      /\ v \in Seq(Jobs) /\ ToSet(works) \subseteq ToSet(v)
      /\ t.stalled => q.stalled \/ "reset" \in ToSet(v)
      /\ t.active = s.active /\ t.stalled = s.stalled
  <2>1. Good(s) /\ Sides([q EXCEPT !.short = b], s)
    BY <1>5, <1>6 DEF q1
  <2> QED BY <1>1, <2>1, SectionEnd, ZenonT(20)
<1>8. q' = t /\ works' = v
  BY <1>a
<1> HIDE DEF t, v
<1>9. Onwards(q, q', URB)
  <2>1. q1.st = q.st /\ q'.st = s.st
    BY <1>2, <1>7, <1>8
  <2> QED BY <1>6, <2>1 DEF Onwards
<1> QED BY <1>3, <1>5, <1>7, <1>8, <1>9

LEMMA DoResumeStep ==
  ASSUME IInv, DoResume
  PROVE  IInv' /\ UNCHANGED hcpriv /\ Onwards(q, q', URB)
<1>1. PICK b \in BOOLEAN :
         LET s == Ended(work.job, Activate([q EXCEPT !.short = b]))
         IN /\ q' = [s EXCEPT !.short = FALSE, !.want = <<>>]
            /\ works' = FoldLeft(Enqueue, works, s.want)
  BY DEF DoResume, Section
<1>2. /\ Alive /\ work.pc = "activate" /\ pausedBy' = pausedBy \ {Source(work.job)}
      /\ UNCHANGED <<config, hcpriv, events>> /\ pm' = pm /\ Goto("idle") /\ lock' = "none"
  BY DEF DoResume, At
<1>3. lock = "wq" /\ pausedBy = {Source(work.job)} /\ work.job \in Jobs
  BY <1>2 DEF IInv, WorkInv, Locked, JobsAt, Jobs
<1>4. /\ Good(q') /\ Onwards(q, q', URB) /\ q'.want = <<>> /\ q'.short = FALSE
      /\ q'.flush = q.flush
      /\ ~q'.active => q'.stalled
      /\ q'.stalled => q.stalled \/ "reset" \in ToSet(works')
      /\ works' \in Seq(Jobs) /\ ToSet(works) \subseteq ToSet(works')
  BY <1>1, <1>2, ActivateSection
<1>5. work' = Idle
  BY <1>2 DEF Goto
<1>6. WorkInv'
  BY <1>5, IdleWorkInv
<1>7. PmInv'
  <2>1. "suspend" \notin pausedBy
    BY <1>3, SourceIn
  <2> QED BY <1>2, <1>3, <2>1 DEF IInv, PmInv
<1>8. StoppedHasReason'
  BY <1>4 DEF StoppedHasReason
<1>9. WorkIsOwed'
  BY <1>2, <1>4 DEF IInv, WorkIsOwed
<1>10. pausedBy' \in SUBSET Sources
  BY <1>2, Begin
<1> QED BY <1>2, <1>4, <1>6, <1>7, <1>8, <1>9, <1>10, Worked

LEMMA ResetBeginStep ==
  ASSUME IInv, ResetBegin
  PROVE  IInv' /\ UNCHANGED hcpriv /\ Onwards(q, q', URB)
<1>1. /\ NextWork("reset") /\ lock = "none" /\ works' = Tail(works)
      /\ UNCHANGED <<config, hcpriv, events>> /\ pm' = pm
  BY DEF ResetBegin
<1>2. /\ works' \in Seq(Jobs) /\ ToSet(works) = ToSet(works') \cup {"reset"}
      /\ Alive /\ work.pc = "idle" /\ work.job = "none"
  BY <1>1, WorkTaken
<1>3. /\ q \in Queue /\ pausedBy \in SUBSET Sources
      /\ Good(q) /\ q.want = <<>> /\ q.short = FALSE
  BY <1>2, Begin
<1>4. CASE q.stalled
  <2>1. /\ q' = [q EXCEPT !.active = FALSE] /\ lock' = "wq" /\ Start("reset", "removePending")
        /\ pausedBy' = pausedBy \cup {"internal"}
    BY <1>4 DEF ResetBegin
  <2>2. Flags(q, q', TRUE)
    BY <1>3, <2>1 DEF Flags, Still, Queue
  <2>3. /\ Good(q') /\ Onwards(q, q', URB) /\ q'.want = <<>> /\ q'.short = FALSE
        /\ q'.flush = q.flush /\ q'.stalled = q.stalled
    BY <1>2, <2>2, FlagsStep
  <2>4. work' = [job |-> "reset", pc |-> "removePending"] /\ work'.job = "reset" /\ work'.pc = "removePending"
    BY <2>1, WorkStarts
  <2>5. WorkInv'
    BY <2>1, <2>4 DEF WorkInv, JobsAt, Locked
  <2>6. PmInv'
    BY <1>1, <2>1 DEF IInv, PmInv
  <2>7. StoppedHasReason'
    BY <2>4 DEF StoppedHasReason
  <2>8. WorkIsOwed'
    BY <1>1, <1>2, <2>3, <2>4 DEF IInv, WorkIsOwed
  <2>9. pausedBy' \in SUBSET Sources
    BY <1>3, <2>1 DEF Sources
  <2> QED BY <1>1, <1>2, <2>1, <2>3, <2>5, <2>6, <2>7, <2>8, <2>9, Worked
<1>5. CASE ~q.stalled
  <2>1. q' = q /\ lock' = lock /\ pausedBy' = pausedBy /\ work' = work
    BY <1>5 DEF ResetBegin
  <2>2. WorkInv'
    BY <2>1 DEF IInv, WorkInv, JobsAt, Locked, Source
  <2>3. PmInv'
    BY <1>1, <2>1 DEF IInv, PmInv
  <2>4. StoppedHasReason'
    BY <1>1, <2>1 DEF IInv, StoppedHasReason
  <2>5. WorkIsOwed'
    BY <1>1, <1>2, <1>5, <2>1 DEF IInv, WorkIsOwed
  <2> QED BY <1>1, <1>2, <1>3, <2>1, <2>2, <2>3, <2>4, <2>5, Worked, SameOnwards
<1> QED BY <1>4, <1>5

LEMMA RemovePendingStep ==
  ASSUME IInv, RemovePending
  PROVE  IInv' /\ UNCHANGED hcpriv /\ Onwards(q, q', URB)
<1>1. /\ Alive /\ work.pc = "removePending" /\ q' = [q EXCEPT !.evq = <<>>] /\ Goto("flush")
      /\ UNCHANGED <<config, hcpriv, events>> /\ pm' = pm /\ works' = works
      /\ pausedBy' = pausedBy /\ lock' = lock
  BY DEF RemovePending, At
<1>2. WorkInv /\ work.job = "reset" /\ lock = "wq" /\ "internal" \in pausedBy
  BY <1>1 DEF IInv, WorkInv, JobsAt, Locked
<1>3. q \in Queue /\ pausedBy' \in SUBSET Sources /\ works' \in Seq(Jobs)
  BY <1>1, Begin
<1>4. Flags(q, q', FALSE)
  <2>1. q.active \in BOOLEAN /\ <<>> \in Seq(Messages)
    BY <1>3, FieldTypes
  <2> QED BY <1>1, <1>3, <2>1 DEF Flags, Still, Queue
<1>5. /\ Good(q') /\ Onwards(q, q', URB) /\ q'.want = <<>> /\ q'.short = FALSE
      /\ q'.flush = q.flush /\ q'.stalled = q.stalled
  BY <1>1, <1>4, FlagsStep
<1>6. work' = [job |-> work.job, pc |-> "flush"] /\ work'.job = work.job /\ work'.pc = "flush"
  BY <1>1, <1>2, WorkMoves
<1>7. WorkInv'
  BY <1>1, <1>2, <1>6 DEF WorkInv, JobsAt, Locked
<1>8. PmInv'
  BY <1>1 DEF IInv, PmInv
<1>9. StoppedHasReason'
  BY <1>6 DEF StoppedHasReason
<1>10. WorkIsOwed'
  BY <1>1, <1>2, <1>5, <1>6 DEF IInv, WorkIsOwed
<1> QED BY <1>1, <1>2, <1>3, <1>5, <1>7, <1>8, <1>9, <1>10, Worked

LEMMA FirmwareStallStep ==
  ASSUME IInv, FirmwareStall
  PROVE  IInv' /\ UNCHANGED hcpriv /\ Onwards(q, q', URB)
<1>1. /\ NextWork("fwStall") /\ q' = [q EXCEPT !.active = FALSE, !.stalled = TRUE]
      /\ works' = Enqueue(Tail(works), "reset")
      /\ UNCHANGED <<config, hcpriv, events>> /\ pm' = pm /\ lock' = lock
      /\ pausedBy' = pausedBy /\ work' = work
  BY DEF FirmwareStall
<1>2. /\ Tail(works) \in Seq(Jobs) /\ ToSet(works) = ToSet(Tail(works)) \cup {"fwStall"}
      /\ Alive /\ work.pc = "idle" /\ work.job = "none"
  BY <1>1, WorkTaken
<1>3. /\ works' \in Seq(Jobs) /\ ToSet(Tail(works)) \subseteq ToSet(works')
      /\ "reset" \in ToSet(works')
  BY <1>1, <1>2, EnqueueOne DEF Jobs
<1>4. /\ q \in Queue /\ pausedBy' \in SUBSET Sources /\ lock' \in {"none", "wq", "pm"}
      /\ Good(q) /\ q.want = <<>> /\ q.short = FALSE
  BY <1>1, <1>2, Begin
<1>5. Still(q, q') /\ q'.want = <<>> /\ q'.short = FALSE /\ q'.stalled = TRUE
  BY <1>1, <1>4 DEF Still, Queue
<1>6. Good(q') /\ Onwards(q, q', URB)
  BY <1>4, <1>5, StillStep DEF Still, Good
<1>7. WorkInv'
  BY <1>1 DEF IInv, WorkInv, JobsAt, Locked, Source
<1>8. PmInv'
  BY <1>1 DEF IInv, PmInv
<1>9. StoppedHasReason'
  BY <1>5 DEF StoppedHasReason
<1>10. WorkIsOwed'
  BY <1>1, <1>2, <1>3, <1>5 DEF IInv, WorkIsOwed, Still
<1> QED BY <1>1, <1>3, <1>4, <1>5, <1>6, <1>7, <1>8, <1>9, <1>10, Worked

-----------------------------------------------------------------------------
(* The suspending thread, and the end of the endpoint.                     *)

LEMMA SuspendStep ==
  ASSUME IInv, Suspend
  PROVE  IInv' /\ UNCHANGED hcpriv /\ Onwards(q, q', URB)
<1>1. /\ Alive /\ pm = "run" /\ lock = "none"
      /\ UNCHANGED <<config, hcpriv, events>> /\ works' = works /\ work' = work
  BY DEF Suspend
<1>2. /\ q \in Queue /\ pausedBy \in SUBSET Sources /\ works' \in Seq(Jobs)
      /\ Good(q) /\ q.want = <<>> /\ q.short = FALSE
  BY <1>1, Begin
<1>3. CASE pausedBy = {}
  <2>1. /\ q' = [q EXCEPT !.active = FALSE, !.loose = @ \/ InFlight(q) # {}]
        /\ pm' = "setPaused" /\ lock' = "pm" /\ pausedBy' = pausedBy
    BY <1>3 DEF Suspend
  <2>2. Flags(q, q', TRUE) /\ q'.odd = q.odd
    <3>1. (q.loose \/ InFlight(q) # {}) \in BOOLEAN
      OBVIOUS
    <3> QED BY <1>2, <2>1, <3>1 DEF Flags, Still, Queue
  <2>3. /\ Good(q') /\ Onwards(q, q', URB) /\ q'.want = <<>> /\ q'.short = FALSE
        /\ q'.flush = q.flush /\ q'.stalled = q.stalled
    BY <1>1, <2>2, FlagsStep
  <2>4. WorkInv'
    BY <1>1, <2>1, <2>2 DEF IInv, WorkInv, JobsAt, Locked, Source
  <2>5. PmInv'
    BY <1>3, <2>1 DEF PmInv
  <2>6. StoppedHasReason'
    BY <2>1 DEF StoppedHasReason
  <2>7. WorkIsOwed'
    BY <1>1, <2>3 DEF IInv, WorkIsOwed
  <2> QED BY <1>1, <1>2, <2>1, <2>3, <2>4, <2>5, <2>6, <2>7, Worked
<1>4. CASE pausedBy # {}
  <2>1. /\ q' = q /\ pm' = "asleep" /\ lock' = lock /\ pausedBy' = pausedBy \cup {"suspend"}
    BY <1>4 DEF Suspend
  <2>2. WorkInv'
    BY <1>1, <2>1 DEF IInv, WorkInv, JobsAt, Locked
  <2>3. PmInv'
    BY <2>1 DEF PmInv
  <2>4. StoppedHasReason'
    BY <2>1 DEF StoppedHasReason
  <2>5. WorkIsOwed'
    BY <1>1, <2>1 DEF IInv, WorkIsOwed
  <2>6. pausedBy' \in SUBSET Sources
    BY <1>2, <2>1 DEF Sources
  <2> QED BY <1>1, <1>2, <2>1, <2>2, <2>3, <2>4, <2>5, <2>6, Worked, SameOnwards
<1> QED BY <1>3, <1>4

LEMMA SuspendPausedStep ==
  ASSUME IInv, SuspendPaused
  PROVE  IInv' /\ UNCHANGED hcpriv /\ Onwards(q, q', URB)
<1>1. /\ Alive /\ pm = "setPaused" /\ pausedBy' = {"suspend"} /\ pm' = "asleep" /\ lock' = "none"
      /\ UNCHANGED <<config, hcpriv, events>> /\ works' = works /\ work' = work
      /\ q' = q \/ q' = [q EXCEPT !.loose = TRUE]
  BY DEF SuspendPaused
<1>2. q \in Queue /\ works' \in Seq(Jobs)
  BY <1>1, Begin
<1>3. Flags(q, q', FALSE) /\ q'.odd = q.odd
  <2>1. q.active \in BOOLEAN
    BY <1>2, FieldTypes
  <2> QED BY <1>1, <1>2, <2>1, ZenonT(20) DEF Flags, Still, Queue
<1>4. /\ Good(q') /\ Onwards(q, q', URB) /\ q'.want = <<>> /\ q'.short = FALSE
      /\ q'.flush = q.flush /\ q'.stalled = q.stalled
  BY <1>1, <1>3, FlagsStep
<1>5. lock = "pm" /\ pausedBy = {}
  BY <1>1 DEF IInv, PmInv
<1>6. WorkInv'
  BY <1>1, <1>3, <1>5 DEF IInv, WorkInv, JobsAt, Locked
<1>7. PmInv' /\ StoppedHasReason'
  BY <1>1 DEF PmInv, StoppedHasReason
<1>8. WorkIsOwed'
  BY <1>1, <1>4 DEF IInv, WorkIsOwed
<1>9. pausedBy' \in SUBSET Sources
  BY <1>1 DEF Sources
<1> QED BY <1>1, <1>2, <1>4, <1>6, <1>7, <1>8, <1>9, Worked

LEMMA BusResumeStep ==
  ASSUME IInv, BusResume
  PROVE  IInv' /\ UNCHANGED hcpriv /\ Onwards(q, q', URB)
<1>1. /\ Alive /\ pm = "asleep" /\ lock = "none" /\ q' = q
      /\ UNCHANGED <<config, hcpriv, events>> /\ works' = works /\ work' = work
  BY DEF BusResume
<1>2. /\ q \in Queue /\ works' \in Seq(Jobs) /\ pausedBy \in SUBSET Sources
      /\ Good(q) /\ q.want = <<>> /\ q.short = FALSE
  BY <1>1, Begin
<1>3. "suspend" \in pausedBy
  BY <1>1 DEF IInv, PmInv
<1>4. WorkIsOwed'
  BY <1>1 DEF IInv, WorkIsOwed
<1>5. CASE pausedBy = {"suspend"}
  <2>1. pm' = "setActive" /\ lock' = "pm" /\ pausedBy' = pausedBy
    BY <1>5 DEF BusResume
  <2>2. WorkInv'
    BY <1>1, <2>1 DEF IInv, WorkInv, JobsAt, Locked, Source
  <2>3. PmInv' /\ StoppedHasReason'
    BY <1>5, <2>1 DEF PmInv, StoppedHasReason
  <2> QED BY <1>1, <1>2, <1>4, <2>1, <2>2, <2>3, Worked, SameOnwards
<1>6. CASE pausedBy # {"suspend"}
  <2>1. pm' = "run" /\ lock' = lock /\ pausedBy' = pausedBy \ {"suspend"}
    BY <1>6 DEF BusResume
  <2>2. WorkInv'
    BY <1>1, <2>1 DEF IInv, WorkInv, JobsAt, Locked
  <2>3. pausedBy' # {} /\ pausedBy' \in SUBSET Sources
    BY <1>2, <1>3, <1>6, <2>1
  <2>4. PmInv' /\ StoppedHasReason'
    BY <2>1, <2>3 DEF PmInv, StoppedHasReason
  <2> QED BY <1>1, <1>2, <1>4, <2>1, <2>2, <2>3, <2>4, Worked, SameOnwards
<1> QED BY <1>5, <1>6

LEMMA BusSetActiveStep ==
  ASSUME IInv, BusSetActive
  PROVE  IInv' /\ UNCHANGED hcpriv /\ Onwards(q, q', URB)
<1>1. /\ Alive /\ pm = "setActive" /\ q' = q /\ pausedBy' = pausedBy
      /\ UNCHANGED <<config, hcpriv, events>> /\ works' = works /\ work' = work
      /\ \/ pm' = "activate" /\ lock' = lock
         \/ pm' = "refresh" /\ lock' = "none"
  BY DEF BusSetActive
<1>2. /\ works' \in Seq(Jobs) /\ pausedBy' \in SUBSET Sources
      /\ Good(q) /\ q.want = <<>> /\ q.short = FALSE
  BY <1>1, Begin
<1>3. lock = "pm" /\ pausedBy = {"suspend"}
  BY <1>1 DEF IInv, PmInv
<1>4. WorkIsOwed'
  BY <1>1 DEF IInv, WorkIsOwed
<1>5. WorkInv'
  BY <1>1, <1>3 DEF IInv, WorkInv, JobsAt, Locked
<1>6. PmInv' /\ StoppedHasReason'
  BY <1>1, <1>3 DEF PmInv, StoppedHasReason
<1>7. lock' \in {"none", "wq", "pm"}
  BY <1>1, <1>3
<1> QED BY <1>1, <1>2, <1>4, <1>5, <1>6, <1>7, Worked, SameOnwards

LEMMA BusDoResumeStep ==
  ASSUME IInv, BusDoResume
  PROVE  IInv' /\ UNCHANGED hcpriv /\ Onwards(q, q', URB)
<1>1. PICK b \in BOOLEAN :
         LET s == Activate([q EXCEPT !.short = b])
         IN /\ q' = [s EXCEPT !.short = FALSE, !.want = <<>>]
            /\ works' = FoldLeft(Enqueue, works, s.want)
  BY DEF BusDoResume, Section
<1>2. /\ Alive /\ pm = "activate" /\ pausedBy' = pausedBy \ {"suspend"}
      /\ UNCHANGED <<config, hcpriv, events>> /\ pm' = "run" /\ work' = work /\ lock' = "none"
  BY DEF BusDoResume
<1>3. lock = "pm" /\ pausedBy = {"suspend"}
  BY <1>2 DEF IInv, PmInv
<1>4. Activate([q EXCEPT !.short = b]) = Ended("none", Activate([q EXCEPT !.short = b]))
  BY DEF Ended
<1>5. /\ Good(q') /\ Onwards(q, q', URB) /\ q'.want = <<>> /\ q'.short = FALSE
      /\ q'.flush = q.flush /\ q'.odd = q.odd
      /\ ~q'.active => q'.stalled
      /\ q'.stalled => q.stalled \/ "reset" \in ToSet(works')
      /\ works' \in Seq(Jobs) /\ ToSet(works) \subseteq ToSet(works')
  BY <1>1, <1>2, <1>4, ActivateSection
<1>6. WorkInv'
  BY <1>2, <1>3, <1>5 DEF IInv, WorkInv, JobsAt, Locked
<1>7. PmInv'
  BY <1>2 DEF PmInv
<1>8. StoppedHasReason'
  BY <1>5 DEF StoppedHasReason
<1>9. WorkIsOwed'
  BY <1>2, <1>5 DEF IInv, WorkIsOwed
<1>10. pausedBy' \in SUBSET Sources
  BY <1>2, Begin
<1> QED BY <1>2, <1>5, <1>6, <1>7, <1>8, <1>9, <1>10, Worked

LEMMA CancelAllKeeps ==
  ASSUME IInv, CancelAll
  PROVE  /\ IInv' /\ Onwards(q, q', URB) /\ hcpriv = "set" /\ hcpriv' = "cancelled"
         /\ \A u \in URB : q'.st[u] \notin Held
<1>1. /\ Alive /\ hcpriv = "set" /\ hcpriv' = "cancelled"
      /\ q' = FoldLeft(UrbComplete, [q EXCEPT !.active = FALSE], q.list)
      /\ UNCHANGED config /\ pausedBy' = pausedBy /\ lock' = lock /\ work' = work
      /\ works' = works /\ pm' = pm /\ events' = events
  BY DEF CancelAll
<1>2. /\ Good(q) /\ Config /\ q.want = <<>> /\ q.short = FALSE /\ works' \in Seq(Jobs)
      /\ events' \in Seq(Messages) /\ pausedBy' \in SUBSET Sources /\ lock' \in {"none", "wq", "pm"}
  BY <1>1, Begin
<1>3. /\ Good(q') /\ Onwards(q, q', URB) /\ \A u \in URB : q'.st[u] \notin Held
      /\ q'.flush = q.flush /\ q'.odd = q.odd
      /\ q'.want = q.want /\ q'.short = q.short /\ q'.stalled = q.stalled
  BY <1>1, <1>2, CancelAllStep
<1>4. WorkInv'
  BY <1>1, <1>3 DEF IInv, WorkInv, JobsAt, Locked, Source
<1>5. PmInv'
  BY <1>1 DEF IInv, PmInv
<1>6. StoppedHasReason'
  BY <1>1 DEF StoppedHasReason
<1>7. WorkIsOwed'
  BY <1>1, <1>3 DEF IInv, WorkIsOwed
<1>8. IInv'
  BY <1>1, <1>2, <1>3, <1>4, <1>5, <1>6, <1>7, Rebuilt DEF Good
<1> QED BY <1>1, <1>3, <1>8

LEMMA ClearHcprivStep ==
  ASSUME IInv, ClearHcpriv
  PROVE  IInv' /\ Onwards(q, q', URB) /\ hcpriv = "cancelled" /\ hcpriv' = "null"
<1>1. /\ Alive /\ hcpriv = "cancelled" /\ hcpriv' = "null" /\ q' = GiveBack(q)
      /\ UNCHANGED config /\ pausedBy' = pausedBy /\ lock' = lock /\ work' = work
      /\ works' = works /\ pm' = pm /\ events' = events
  BY DEF ClearHcpriv
<1>2. /\ Good(q) /\ q.want = <<>> /\ q.short = FALSE /\ works' \in Seq(Jobs)
      /\ events' \in Seq(Messages) /\ pausedBy' \in SUBSET Sources /\ lock' \in {"none", "wq", "pm"}
  BY <1>1, Begin
<1>3. /\ q' \in Queue /\ Owned(q') /\ Slots(q') /\ Onwards(q, q', URB)
      /\ Sides(q, q') /\ q'.want = q.want /\ q'.stalled = q.stalled
  BY <1>1, <1>2, GiveBackStep DEF Good
<1>4. q'.flush = q.flush /\ q'.odd = q.odd /\ q'.short = q.short
  BY <1>3 DEF Sides
<1>5. WorkInv'
  BY <1>1, <1>4 DEF IInv, WorkInv, JobsAt, Locked, Source
<1>6. PmInv'
  BY <1>1 DEF IInv, PmInv
<1>7. StoppedHasReason'
  BY <1>1 DEF StoppedHasReason
<1>8. WorkIsOwed'
  BY <1>1, <1>3, <1>4 DEF IInv, WorkIsOwed
<1>9. IInv'
  BY <1>1, <1>2, <1>3, <1>4, <1>5, <1>6, <1>7, <1>8, Rebuilt
<1> QED BY <1>1, <1>3, <1>9

LEMMA DestroyStep ==
  ASSUME IInv, Destroy
  PROVE  /\ IInv' /\ Onwards(q, q', URB) /\ hcpriv' = "destroyed"
         /\ \/ hcpriv = "null"
            \/ hcpriv = "set" /\ \A u \in URB : q.st[u] \notin Held
<1> DEFINE e == [r \in Rings |-> <<>>]
           s == [q EXCEPT !.giveback = @ \o q.flush, !.flush = <<>>, !.evq = <<>>,
                          !.ring = e, !.done = e]
<1>1. /\ Alive /\ work.pc = "idle" /\ hcpriv' = "destroyed" /\ works' = <<>>
      /\ hcpriv = "null" \/ (hcpriv = "set" /\ q.list = <<>> /\ q.flush = <<>>)
      /\ q' = GiveBack(s)
      /\ UNCHANGED config /\ pausedBy' = pausedBy /\ lock' = lock /\ work' = work
      /\ pm' = pm /\ events' = events
  BY DEF Destroy
<1>2. /\ q \in Queue /\ Owned(q) /\ q.want = <<>> /\ q.short = FALSE
      /\ events' \in Seq(Messages) /\ pausedBy' \in SUBSET Sources /\ lock' \in {"none", "wq", "pm"}
  BY <1>1, Begin
<1>3. /\ s.list = q.list /\ s.st = q.st /\ s.giveback = q.giveback \o q.flush /\ s.flush = <<>>
      /\ s.want = <<>> /\ s.short = FALSE /\ s.odd = q.odd
  BY <1>2 DEF Queue
<1>4. Owned(s) /\ q.giveback \o q.flush \in Seq(URB)
  <2> HIDE DEF s
  <2> QED BY <1>2, <1>3, MergeStep
<1>5. s \in Queue
  <2>1. /\ <<>> \in Seq(URB) /\ <<>> \in Seq(Messages) /\ <<>> \in Seq(Completion)
        /\ e \in [Rings -> Seq(URB)] /\ e \in [Rings -> Seq(Completion)]
    OBVIOUS
  <2> HIDE DEF e
  <2> QED BY <1>2, <1>4, <2>1 DEF Queue
<1> HIDE DEF s
<1>6. /\ q' \in Queue /\ Owned(q') /\ Onwards(s, q', URB) /\ Sides(s, q') /\ q'.want = s.want
  BY <1>1, <1>4, <1>5, GiveBackStep
<1>7. q'.short = FALSE /\ q'.odd = q.odd
  BY <1>3, <1>6 DEF Sides
<1>8. Onwards(q, q', URB)
  BY <1>3, <1>6 DEF Onwards
<1>9. WorkInv'
  BY <1>1, <1>7 DEF IInv, WorkInv, JobsAt, Locked, Source
<1>10. PmInv'
  BY <1>1 DEF IInv, PmInv
<1>11. StoppedHasReason' /\ WorkIsOwed'
  BY <1>1 DEF StoppedHasReason, WorkIsOwed
<1>12. IInv'
  <2>1. works' \in Seq(Jobs)
    BY <1>1
  <2> QED BY <1>1, <1>2, <1>3, <1>6, <1>7, <1>9, <1>10, <1>11, <2>1, Rebuilt
<1>13. q.list = <<>> => \A u \in URB : q.st[u] \notin Held
  BY <1>2, EmptySequence DEF Owned
<1> QED BY <1>1, <1>8, <1>12, <1>13

-----------------------------------------------------------------------------
(* The theorems.                                                           *)

\* What a step does to the URBs and to the endpoint
Normal == UNCHANGED hcpriv /\ Onwards(q, q', URB)
Submits(u) ==
    /\ UNCHANGED hcpriv /\ hcpriv \in {"set", "cancelled"} /\ Onwards(q, q', URB \ {u})
    /\ q.st[u] = "new" /\ q'.st[u] \in Held
Closes ==
    /\ Onwards(q, q', URB)
    /\ \/ hcpriv = "set" /\ hcpriv' = "cancelled" /\ \A u \in URB : q'.st[u] \notin Held
       \/ hcpriv = "cancelled" /\ hcpriv' = "null"
       \/ hcpriv = "null" /\ hcpriv' = "destroyed"
       \/ hcpriv = "set" /\ hcpriv' = "destroyed" /\ \A u \in URB : q.st[u] \notin Held

LEMMA StutterStep ==
  ASSUME IInv, UNCHANGED vars
  PROVE  IInv' /\ Normal
<1>1. /\ q' = q /\ hcpriv' = hcpriv /\ pausedBy' = pausedBy /\ lock' = lock /\ work' = work
      /\ works' = works /\ pm' = pm /\ events' = events /\ UNCHANGED config
  BY DEF vars, config
<1>2. WorkInv' /\ PmInv'
  BY <1>1 DEF IInv, WorkInv, JobsAt, Locked, Source, PmInv
<1>3. StoppedHasReason' /\ WorkIsOwed'
  BY <1>1 DEF IInv, StoppedHasReason, WorkIsOwed
<1>4. hcpriv # "destroyed" => Slots(q)
  BY DEF IInv
<1>5. hcpriv' \in {"set", "cancelled", "null", "destroyed"}
  BY <1>1 DEF IInv, TypeInv
<1>6. IInv'
  BY <1>1, <1>2, <1>3, <1>4, <1>5, Begin, Rebuilt
<1> QED BY <1>1, <1>6, SameOnwards DEF Normal

LEMMA NextIInv ==
  ASSUME IInv, [Next]_vars
  PROVE  IInv' /\ (Normal \/ (\E u \in URB : Submits(u)) \/ Closes)
<1> USE DEF Normal
<1>1. ASSUME NEW u \in URB, UrbCreate(u)
      PROVE  IInv' /\ (Normal \/ Submits(u))
  <2>1. hcpriv \in {"set", "cancelled"}
    BY <1>1 DEF UrbCreate, Attached
  <2> QED BY <1>1, <2>1, UrbCreateStep DEF Submits
<1>2. ASSUME NEW u \in URB, UrbRequestCancel(u) PROVE IInv' /\ Normal
  BY <1>2, UrbRequestCancelStep
<1>3. CASE RequestReset
  BY <1>3, RequestResetStep
<1>4. CASE Irq
  BY <1>4, HandleEventStep, HandleCompletionsStep DEF Irq
<1>5. CASE Work
  BY <1>5, PauseBeginStep, ResumeWorkStep, DrainStep, SetPausedStep, FlushQueuesStep,
     EndpointResetStep, ReclaimStep, ResumeAfterStep, SetActiveStep, DoResumeStep,
     ResetBeginStep, RemovePendingStep, FirmwareStallStep DEF Work
<1>6. CASE Suspend
  BY <1>6, SuspendStep
<1>7. CASE Pm
  BY <1>7, SuspendPausedStep, BusResumeStep, BusSetActiveStep, BusDoResumeStep DEF Pm
<1>8. CASE RecoveryStart
  BY <1>8, RecoveryStartStep
<1>9. CASE CancelAll
  BY <1>9, CancelAllKeeps DEF Closes
<1>10. CASE ClearHcpriv
  BY <1>10, ClearHcprivStep DEF Closes
<1>11. CASE Destroy
  BY <1>11, DestroyStep DEF Closes
<1>12. CASE T2
  BY <1>12, T2AskStep, T2StatusStep, T2StallStep, T2PauseStep, T2CompleteStep DEF T2
<1>13. CASE UNCHANGED vars
  BY <1>13, StutterStep
<1> QED BY <1>1, <1>2, <1>3, <1>4, <1>5, <1>6, <1>7, <1>8, <1>9, <1>10, <1>11, <1>12, <1>13
     DEF Next

LEMMA Inductive == Spec => []IInv
<1>1. IInv /\ [Next]_vars => IInv'
  BY NextIInv
<1> QED BY InitIInv, <1>1, PTL DEF Spec

\* remaining_active_requests is right whatever mix of submissions,
\* completions, cancellations, flushes and failed resumes there was: a slot is
\* free, or a started URB, a ghost or a cancelled control URB has it.
THEOREM NoSlotIsLost == Spec => []SlotsAccounted
<1>1. IInv => SlotsAccounted
  <2> SUFFICES ASSUME IInv, ~q.reclaimed, hcpriv # "destroyed"
               PROVE  q.remaining + Cardinality(Active) + q.ghosts
                        + (IF kind = "control" THEN Len(q.flush) ELSE 0) = limit
    BY DEF SlotsAccounted
  <2>1. Slots(q) /\ Owned(q) /\ q \in Queue
    BY DEF IInv
  <2>2. ToSet(q.list) \subseteq URB
    <3>1. q.list \in Seq(URB)
      BY <2>1, FieldTypes
    <3> QED BY <3>1 DEF ToSet
  <2>3. Active = Running(q)
    BY <2>1, <2>2 DEF Active, Running, Linked, Owned, Held, Started
  <2> QED BY <2>1, <2>3 DEF Slots, Waiting
<1> QED BY <1>1, Inductive, PTL

\* A queue that has been stopped will be told to run, unless the T2 answered
\* a pause with another state.
THEOREM NoQueueStaysStopped == Spec => []StoppedHasReason
<1>1. IInv => StoppedHasReason
  BY DEF IInv
<1> QED BY <1>1, Inductive, PTL

\* The reset of a stalled queue, and the flush an URB waits for, are queued
\* or under way.
THEOREM NoWorkIsForgotten == Spec => []WorkIsOwed
<1>1. IInv => WorkIsOwed
  BY DEF IInv
<1> QED BY <1>1, Inductive, PTL

-----------------------------------------------------------------------------
(* The contract.                                                           *)

LEMMA TimesIs ==
  ASSUME NEW s \in Seq(URB), Distinct(s), NEW u
  PROVE  Times(u, s) = IF u \in ToSet(s) THEN 1 ELSE 0
<1> DEFINE I == {i \in DOMAIN s : s[i] = u}
<1>1. CASE u \in ToSet(s)
  <2>1. PICK i \in DOMAIN s : s[i] = u
    BY <1>1 DEF ToSet
  <2>2. I = {i}
    BY <2>1 DEF Distinct
  <2>3. Cardinality({i}) = 1
    BY FS_Singleton
  <2> QED BY <1>1, <2>2, <2>3 DEF Times
<1>2. CASE u \notin ToSet(s)
  <2>1. I = {}
    BY <1>2 DEF ToSet
  <2>2. Cardinality({}) = 0
    BY FS_EmptySet
  <2> QED BY <1>2, <2>1, <2>2 DEF Times
<1> QED BY <1>1, <1>2

\* Who has an URB, by its state
Placed(p, h) ==
    CASE p = "new" -> "driver"
      [] p = "back" -> "back"
      [] p = "gone" -> "leaving"
      [] OTHER -> IF h = "set" THEN "endpoint" ELSE "stranded"

LEMMA PlacedIn ==
  ASSUME NEW s \in Queue, Owned(s), NEW u \in URB
  PROVE  /\ Times(u, s.list) = IF s.st[u] \in Held THEN 1 ELSE 0
         /\ Times(u, s.giveback) + Times(u, s.flush) = IF s.st[u] = "gone" THEN 1 ELSE 0
         /\ s.st[u] \in Held \cup {"new", "gone", "back"}
<1>1. /\ s.list \in Seq(URB) /\ s.giveback \in Seq(URB) /\ s.flush \in Seq(URB)
      /\ s.st \in [URB -> Held \cup {"new", "gone", "back"}]
  BY FieldTypes
<1>2. /\ Times(u, s.list) = IF u \in ToSet(s.list) THEN 1 ELSE 0
      /\ Times(u, s.giveback) = IF u \in ToSet(s.giveback) THEN 1 ELSE 0
      /\ Times(u, s.flush) = IF u \in ToSet(s.flush) THEN 1 ELSE 0
  BY <1>1, TimesIs DEF Owned
<1> QED BY <1>1, <1>2 DEF Owned

LEMMA OwnerIs ==
  ASSUME q \in Queue, Owned(q), NEW u \in URB
  PROVE  Owner(u) = Placed(q.st[u], hcpriv)
<1> DEFINE linked == Times(u, q.list)
           unlinked == Times(u, q.giveback) + Times(u, q.flush)
<1>1. /\ linked = IF q.st[u] \in Held THEN 1 ELSE 0
      /\ unlinked = IF q.st[u] = "gone" THEN 1 ELSE 0
      /\ q.st[u] \in Held \cup {"new", "gone", "back"}
  BY PlacedIn
<1>2. "new" \notin Held /\ "gone" \notin Held /\ "back" \notin Held
  BY DEF Held, Started
<1> HIDE DEF linked, unlinked
<1>3. Owner(u) =
        CASE q.st[u] \in {"new", "back"} /\ linked + unlinked = 0 ->
              IF q.st[u] = "new" THEN "driver" ELSE "back"
         [] q.st[u] = "gone" /\ linked = 0 /\ unlinked = 1 -> "leaving"
         [] q.st[u] \notin {"new", "back", "gone"} /\ linked = 1 /\ unlinked = 0 ->
              IF hcpriv = "set" THEN "endpoint" ELSE "stranded"
         [] OTHER -> "lost"
  BY DEF Owner, linked, unlinked
<1>4. CASE q.st[u] = "new"
  BY <1>1, <1>2, <1>3, <1>4 DEF Placed
<1>5. CASE q.st[u] = "back"
  BY <1>1, <1>2, <1>3, <1>5 DEF Placed
<1>6. CASE q.st[u] = "gone"
  BY <1>1, <1>2, <1>3, <1>6 DEF Placed
<1>7. CASE q.st[u] \in Held
  BY <1>1, <1>2, <1>3, <1>7 DEF Placed
<1> QED BY <1>1, <1>4, <1>5, <1>6, <1>7

LEMMA OwnerIsNext ==
  ASSUME q' \in Queue, Owned(q'), NEW u \in URB
  PROVE  Owner(u)' = Placed(q'.st[u], hcpriv')
<1> DEFINE linked == Times(u, q'.list)
           unlinked == Times(u, q'.giveback) + Times(u, q'.flush)
<1>1. /\ linked = IF q'.st[u] \in Held THEN 1 ELSE 0
      /\ unlinked = IF q'.st[u] = "gone" THEN 1 ELSE 0
      /\ q'.st[u] \in Held \cup {"new", "gone", "back"}
  BY PlacedIn
<1>2. "new" \notin Held /\ "gone" \notin Held /\ "back" \notin Held
  BY DEF Held, Started
<1> HIDE DEF linked, unlinked
<1>3. Owner(u)' =
        CASE q'.st[u] \in {"new", "back"} /\ linked + unlinked = 0 ->
              IF q'.st[u] = "new" THEN "driver" ELSE "back"
         [] q'.st[u] = "gone" /\ linked = 0 /\ unlinked = 1 -> "leaving"
         [] q'.st[u] \notin {"new", "back", "gone"} /\ linked = 1 /\ unlinked = 0 ->
              IF hcpriv' = "set" THEN "endpoint" ELSE "stranded"
         [] OTHER -> "lost"
  BY DEF Owner, Times, linked, unlinked
<1>4. CASE q'.st[u] = "new"
  BY <1>1, <1>2, <1>3, <1>4 DEF Placed
<1>5. CASE q'.st[u] = "back"
  BY <1>1, <1>2, <1>3, <1>5 DEF Placed
<1>6. CASE q'.st[u] = "gone"
  BY <1>1, <1>2, <1>3, <1>6 DEF Placed
<1>7. CASE q'.st[u] \in Held
  BY <1>1, <1>2, <1>3, <1>7 DEF Placed
<1> QED BY <1>1, <1>4, <1>5, <1>6, <1>7

\* How the place of an URB moves on, the endpoint as it was or going
LEMMA PlaceOnward ==
  ASSUME NEW s, NEW t, NEW U \in SUBSET URB, Onwards(s, t, U), NEW u \in U, NEW h, NEW k,
         s.st[u] \in Held \cup {"new", "gone", "back"},
         (h = "set" <=> k = "set") \/ t.st[u] \notin Held
  PROVE  Contract!Onward(Placed(s.st[u], h), Placed(t.st[u], k))
<1>1. /\ t.st[u] = "new" <=> s.st[u] = "new"
      /\ s.st[u] = "back" => t.st[u] = "back"
      /\ s.st[u] = "gone" => t.st[u] \in {"gone", "back"}
      /\ s.st[u] \in Held => t.st[u] \in Held \cup {"gone", "back"}
  BY DEF Onwards
<1>2. \A p \in Held : p \notin {"new", "gone", "back"}
  BY DEF Held, Started
<1>3. \A p \in Held : Placed(p, h) = IF h = "set" THEN "endpoint" ELSE "stranded"
  BY <1>2 DEF Placed
<1>4. \A p \in Held : Placed(p, k) = IF k = "set" THEN "endpoint" ELSE "stranded"
  BY <1>2 DEF Placed
<1>5. /\ Placed("new", h) = "driver" /\ Placed("new", k) = "driver"
      /\ Placed("gone", h) = "leaving" /\ Placed("gone", k) = "leaving"
      /\ Placed("back", h) = "back" /\ Placed("back", k) = "back"
  BY DEF Placed
<1> QED BY <1>1, <1>2, <1>3, <1>4, <1>5 DEF Contract!Onward

\* Every step of the queue is one of the contract, or changes nothing in it.
\* No mix of completion, cancel, flush, failed resume and teardown gives an URB
\* back twice or loses it.
THEOREM TheContractIsKept == Spec => KeepsContract
<1> DEFINE owner == [u \in URB |-> Owner(u)]
           mode == CASE hcpriv = "set" -> "open"
                     [] hcpriv = "cancelled" -> "closing"
                     [] OTHER -> "shut"
<1>1. Init => Contract!Init
  <2> SUFFICES ASSUME Init PROVE Contract!Init
    OBVIOUS
  <2>1. IInv
    BY InitIInv
  <2>2. q \in Queue /\ Owned(q) /\ hcpriv = "set" /\ \A u \in URB : q.st[u] = "new"
    BY <2>1 DEF Init, IInv
  <2>3. \A u \in URB : Owner(u) = "driver"
    BY <2>2, OwnerIs DEF Placed
  <2> QED BY <2>2, <2>3 DEF Contract!Init
<1>2. ASSUME IInv, [Next]_vars PROVE [Contract!Next]_(Contract!vars)
  <2>1. IInv' /\ (Normal \/ (\E u \in URB : Submits(u)) \/ Closes)
    BY <1>2, NextIInv
  <2>2. q \in Queue /\ Owned(q)
    BY <1>2 DEF IInv
  <2>3. q' \in Queue /\ Owned(q')
    BY <2>1 DEF IInv, Queue, Completion, URB, Rings, Owned
  <2>4. \A u \in URB : owner[u] = Placed(q.st[u], hcpriv)
    BY <2>2, OwnerIs
  <2>5. \A u \in URB : owner'[u] = Placed(q'.st[u], hcpriv')
    <3> SUFFICES ASSUME NEW u \in URB PROVE owner'[u] = Placed(q'.st[u], hcpriv')
      OBVIOUS
    <3>1. Owner(u)' = Placed(q'.st[u], hcpriv')
      BY <2>3, OwnerIsNext
    <3>2. owner'[u] = Owner(u)'
      BY DEF URB
    <3> QED BY <3>1, <3>2
  <2>6. \A u \in URB : q.st[u] \in Held \cup {"new", "gone", "back"}
    BY <2>2, FieldTypes
  <2>7. \A u \in URB : /\ q.st[u] \notin Held => Placed(q.st[u], hcpriv) # "endpoint"
                       /\ hcpriv' # "set" => Placed(q'.st[u], hcpriv') # "endpoint"
    BY <2>6 DEF Placed
  <2> HIDE DEF owner
  <2>p. ASSUME NEW U \in SUBSET URB, Onwards(q, q', U), NEW u \in U,
               (hcpriv = "set" <=> hcpriv' = "set") \/ q'.st[u] \notin Held
        PROVE  Contract!Onward(owner[u], owner'[u])
    <3>1. u \in URB
      OBVIOUS
    <3>2. Contract!Onward(Placed(q.st[u], hcpriv), Placed(q'.st[u], hcpriv'))
      BY <2>6, <2>p, <3>1, PlaceOnward
    <3>3. owner[u] = Placed(q.st[u], hcpriv) /\ owner'[u] = Placed(q'.st[u], hcpriv')
      BY <2>4, <2>5, <3>1
    <3> QED BY <3>2, <3>3 DEF Contract!Onward
  <2>8. CASE Normal
    <3>1. mode' = mode
      BY <2>8 DEF Normal
    <3>2. Onwards(q, q', URB) /\ (hcpriv = "set" <=> hcpriv' = "set") /\ URB \in SUBSET URB
      BY <2>8 DEF Normal
    <3>3. ASSUME NEW u \in URB PROVE Contract!Onward(owner[u], owner'[u])
      BY <3>2, <2>p
    <3>4. Contract!Return
      BY <3>1, <3>3 DEF Contract!Return, owner
    <3> QED BY <3>4 DEF Contract!Next
  <2>9. ASSUME NEW u \in URB, Submits(u) PROVE Contract!Next
    <3>1. mode' = mode /\ mode # "shut"
      BY <2>9 DEF Submits
    <3>2. owner[u] = "driver"
      BY <2>4, <2>9 DEF Submits, Placed
    <3>3. owner'[u] = IF mode = "open" THEN "endpoint" ELSE "stranded"
      BY <2>5, <2>9 DEF Submits, Placed, Held, Started
    <3>4. /\ Onwards(q, q', URB \ {u}) /\ (hcpriv = "set" <=> hcpriv' = "set")
          /\ (URB \ {u}) \in SUBSET URB
      BY <2>9 DEF Submits
    <3>5. ASSUME NEW v \in URB \ {u} PROVE Contract!Onward(owner[v], owner'[v])
      BY <3>4, <2>p
    <3>6. Contract!Submit(u)
      BY <3>1, <3>2, <3>3, <3>5 DEF Contract!Submit, owner
    <3> QED BY <3>6 DEF Contract!Next
  <2>10. CASE Closes
    <3> SUFFICES Contract!Next
      OBVIOUS
    <3>1. CASE hcpriv = "set" /\ hcpriv' = "cancelled" /\ \A u \in URB : q'.st[u] \notin Held
      <4>1. mode = "open" /\ mode' = "closing"
        BY <3>1
      <4>2. \A u \in URB : Contract!Onward(owner[u], owner'[u]) /\ owner'[u] # "endpoint"
        BY <2>5, <2>7, <2>10, <2>p, <3>1 DEF Closes
      <4>3. Contract!Close
        BY <4>1, <4>2 DEF Contract!Close, owner
      <4> QED BY <4>3 DEF Contract!Next
    <3>2. CASE hcpriv = "cancelled" /\ hcpriv' = "null"
      <4>1. mode # "shut" /\ mode' = "shut"
        BY <3>2
      <4>2. \A u \in URB : Contract!Onward(owner[u], owner'[u]) /\ owner'[u] # "endpoint"
        BY <2>5, <2>7, <2>10, <2>p, <3>2 DEF Closes
      <4>3. Contract!Shut
        BY <4>1, <4>2 DEF Contract!Shut, owner
      <4> QED BY <4>3 DEF Contract!Next
    <3>3. CASE hcpriv = "null" /\ hcpriv' = "destroyed"
      <4>1. mode' = mode
        BY <3>3
      <4>2. \A u \in URB : Contract!Onward(owner[u], owner'[u])
        BY <2>10, <2>p, <3>3 DEF Closes
      <4>3. Contract!Return
        BY <4>1, <4>2 DEF Contract!Return, owner
      <4> QED BY <4>3 DEF Contract!Next
    <3>4. CASE hcpriv = "set" /\ hcpriv' = "destroyed" /\ \A u \in URB : q.st[u] \notin Held
      <4>1. mode # "shut" /\ mode' = "shut"
        BY <3>4
      <4>2. \A u \in URB : q'.st[u] \notin Held
        BY <2>6, <2>10, <3>4 DEF Closes, Onwards, Held, Started
      <4>3. \A u \in URB : Contract!Onward(owner[u], owner'[u]) /\ owner'[u] # "endpoint"
        BY <2>5, <2>7, <2>10, <2>p, <3>4, <4>2 DEF Closes
      <4>4. Contract!Shut
        BY <4>1, <4>3 DEF Contract!Shut, owner
      <4> QED BY <4>4 DEF Contract!Next
    <3> QED BY <2>10, <3>1, <3>2, <3>3, <3>4 DEF Closes
  <2> QED BY <2>1, <2>8, <2>9, <2>10
<1> QED BY <1>1, <1>2, Inductive, PTL DEF Spec, KeepsContract, Contract!Spec

-----------------------------------------------------------------------------
(* What is lent to the T2, and what will come of it.                       *)

\* An URB that has a submission in a ring, or a completion on its way
Awaiting(s) == {u \in URB : s.st[u] \in {"wait", "setupSent"}}

LentIn(s, r) == Len(s.ring[r])
Lent(s) == LentIn(s, "in") + LentIn(s, "out")
Aside(s) == Len(s.flush)
Expected(s) == Cardinality(Awaiting(s)) + s.ghosts + Aside(s)

\* Lent submissions and x completions on their way are no more than the URBs
\* that wait for one, the ghosts and the URBs that wait for the flush.
Covered(s, x) ==
    \/ s.loose
    \/ kind = "control" /\ s.stalled
    \/ /\ Lent(s) + x <= Expected(s)
       /\ s.list = <<>> /\ s.flush = <<>> => Lent(s) + x = 0

\* The set-up stages are those of the control endpoint.
Stages(s) == kind # "control" => \A u \in URB : s.st[u] \notin {"setup", "setupSent"}

\* The first k completions that are not those of a flush
Oks(d, k) == Cardinality({i \in 1..k : d[i].ok})
UnreadIn(s, r) == Oks(s.done[r], Len(s.done[r]))
Unread(s) == UnreadIn(s, "in") + UnreadIn(s, "out")
Silent(s) == \A r \in Rings : s.ring[r] = <<>>

\* The pauses after which nothing is lent: reset_w is not so far at its first
\* two places.
Stopped == IF work.job = "reset" /\ work.pc \in {"removePending", "flush"}
             THEN pausedBy \ {"internal"} ELSE pausedBy

\* The flags the argument needs ...
FlagInv ==
    /\ t2 = [run |-> t2.run, stage |-> t2.stage, fwPause |-> t2.fwPause]
    /\ "suspend" \in pausedBy => pm # "run"
    /\ hcpriv = "set" =>
         /\ Stages(q)
         /\ q.odd => q.loose
         /\ work.pc \in {"drain", "setPaused", "flush", "removePending"} => ~q.active

\* ... and what is lent. While the machine sleeps completions may lie unread,
\* and flush_w forgets the ghosts they belong to; they are read before the resume.
LentInv ==
    hcpriv = "set" /\ ~q.loose =>
      /\ "suspend" \notin pausedBy => Covered(q, Unread(q))
      /\ pm = "setPaused" => ~q.active /\ Silent(q)
      /\ Stopped # {} =>
           /\ ~q.active /\ Silent(q)
           /\ Unread(q) = 0 \/ ("suspend" \in pausedBy /\ pm = "asleep" /\ ~t2.run)

LEMMA Numbers ==
  ASSUME NEW s \in Queue
  PROVE  /\ Lent(s) \in Nat /\ Expected(s) \in Nat
         /\ Cardinality(Awaiting(s)) \in Nat /\ s.ghosts \in Nat /\ Aside(s) \in Nat
         /\ \A r \in Rings : LentIn(s, r) \in Nat
<1>1. (\A r \in Rings : s.ring[r] \in Seq(URB)) /\ s.ghosts \in Nat /\ s.flush \in Seq(URB)
  BY FieldTypes
<1>2. Cardinality(Awaiting(s)) \in Nat
  BY UrbFinite DEF Awaiting
<1>3. \A r \in Rings : LentIn(s, r) \in Nat
  BY <1>1 DEF LentIn
<1>4. Aside(s) \in Nat
  BY <1>1 DEF Aside
<1>5. Lent(s) \in Nat
  BY <1>3 DEF Lent, Rings
<1>6. Expected(s) \in Nat
  BY <1>1, <1>2, <1>4 DEF Expected
<1> QED BY <1>1, <1>2, <1>3, <1>4, <1>5, <1>6

\* Nothing is lent when the rings are empty, and only then.
LEMMA SilentIs ==
  ASSUME NEW s \in Queue
  PROVE  Silent(s) <=> Lent(s) = 0
<1>1. \A r \in Rings : s.ring[r] \in Seq(URB)
  BY FieldTypes
<1>2. \A r \in Rings : s.ring[r] = <<>> <=> LentIn(s, r) = 0
  BY <1>1 DEF LentIn
<1>3. LentIn(s, "in") \in Nat /\ LentIn(s, "out") \in Nat
  BY Numbers DEF Rings
<1>4. Lent(s) = 0 <=> LentIn(s, "in") = 0 /\ LentIn(s, "out") = 0
  BY <1>3 DEF Lent
<1> QED BY <1>2, <1>4 DEF Silent, Rings

LEMMA NoneAwaits ==
  ASSUME NEW s, Good(s), s.list = <<>>
  PROVE  Cardinality(Awaiting(s)) = 0
<1>1. ToSet(<<>>) = {}
  BY EmptySequence
<1>2. Awaiting(s) = {}
  BY <1>1 DEF Good, Owned, Awaiting, Held, Started
<1> QED BY <1>2, FS_EmptySet

Weight(p) == IF p \in {"wait", "setupSent"} THEN 1 ELSE 0

\* The state of one URB changes.
LEMMA AwaitChange ==
  ASSUME NEW s, s.st \in [URB -> Held \cup {"new", "gone", "back"}], NEW t, NEW u \in URB, NEW p,
         t.st = [s.st EXCEPT ![u] = p]
  PROVE  /\ Cardinality(Awaiting(t)) + Weight(s.st[u]) = Cardinality(Awaiting(s)) + Weight(p)
         /\ Cardinality(Awaiting(t)) \in Nat /\ Cardinality(Awaiting(s)) \in Nat
<1>0. \A v \in URB : t.st[v] = IF v = u THEN p ELSE s.st[v]
  OBVIOUS
<1>1. IsFiniteSet(Awaiting(s)) /\ Cardinality(Awaiting(s)) \in Nat
  BY UrbFinite DEF Awaiting
<1>2. IsFiniteSet(Awaiting(t)) /\ Cardinality(Awaiting(t)) \in Nat
  BY UrbFinite DEF Awaiting
<1> DEFINE A == Awaiting(s) \ {u}
<1>3. IsFiniteSet(A) /\ Cardinality(A) \in Nat /\ u \notin A
  BY UrbFinite DEF Awaiting
<1>4. Cardinality(A \cup {u}) = Cardinality(A) + 1
  BY <1>3, FS_AddElement
<1>5. Awaiting(s) = IF Weight(s.st[u]) = 1 THEN A \cup {u} ELSE A
  BY DEF Awaiting, Weight
<1>6. Awaiting(t) = IF Weight(p) = 1 THEN A \cup {u} ELSE A
  BY <1>0 DEF Awaiting, Weight
<1>7. Weight(p) \in {0, 1} /\ Weight(s.st[u]) \in {0, 1}
  BY DEF Weight
<1> HIDE DEF A
<1> QED BY <1>1, <1>2, <1>3, <1>4, <1>5, <1>6, <1>7

\* How a covered queue becomes another.
LEMMA Weigh ==
  ASSUME NEW s \in Queue, NEW t, Good(t), NEW x \in Nat, NEW y \in Nat, Covered(s, x),
         s.loose => t.loose, s.stalled => t.stalled,
         ~t.loose => /\ Lent(t) + y + Expected(s) <= Lent(s) + x + Expected(t)
                     /\ t.list = <<>> /\ t.flush = <<>> =>
                          \/ t.ghosts = 0
                          \/ s.list = <<>> /\ s.flush = <<>> /\ Lent(t) + y <= Lent(s) + x
  PROVE  Covered(t, y)
<1>1. /\ Lent(s) \in Nat /\ Expected(s) \in Nat /\ Lent(t) \in Nat /\ Expected(t) \in Nat
      /\ t.ghosts \in Nat
  BY Numbers DEF Good
<1>2. CASE ~t.loose /\ ~(kind = "control" /\ t.stalled)
  <2>1. /\ Lent(s) + x <= Expected(s)
        /\ s.list = <<>> /\ s.flush = <<>> => Lent(s) + x = 0
    BY <1>2 DEF Covered
  <2>2. Lent(t) + y <= Expected(t)
    BY <1>1, <1>2, <2>1
  <2>3. ASSUME t.list = <<>>, t.flush = <<>> PROVE Lent(t) + y = 0
    <3>1. CASE t.ghosts = 0
      <4>1. Expected(t) = 0
        BY <2>3, <3>1, NoneAwaits, EmptySequence DEF Expected, Aside
      <4> QED BY <1>1, <2>2, <4>1
    <3>2. CASE s.list = <<>> /\ s.flush = <<>> /\ Lent(t) + y <= Lent(s) + x
      BY <1>1, <2>1, <3>2
    <3> QED BY <1>2, <2>3, <3>1, <3>2
  <2> QED BY <2>2, <2>3 DEF Covered
<1>3. CASE t.loose \/ (kind = "control" /\ t.stalled)
  BY <1>3 DEF Covered
<1> QED BY <1>2, <1>3

LEMMA Lighter ==
  ASSUME NEW s \in Queue, NEW x \in Nat, NEW y \in Nat, y <= x, Covered(s, x)
  PROVE  Covered(s, y)
<1>1. Lent(s) \in Nat /\ Expected(s) \in Nat
  BY Numbers
<1> QED BY <1>1 DEF Covered

\* What nothing is lent from is covered.
LEMMA SilentCovered ==
  ASSUME NEW s \in Queue, Silent(s)
  PROVE  Covered(s, 0)
<1>1. Lent(s) = 0 /\ Expected(s) \in Nat
  BY SilentIs, Numbers
<1> QED BY <1>1 DEF Covered

-----------------------------------------------------------------------------
(* What the sections lend.                                                 *)

\* A stopped queue stays stopped and lends nothing, or is loose.
Calm(s, t) ==
    /\ Stages(s) => Stages(t)
    /\ s.loose => t.loose
    /\ t.active => s.active
    /\ s.active \/ t.loose \/ t.ring = s.ring

\* k completions have been used up, and none has come.
Paid(s, t, k) ==
    /\ Calm(s, t) /\ t.done = s.done
    /\ \A x \in Nat : Covered(s, x + k) => Covered(t, x)

LEMMA PaidSame == ASSUME NEW s PROVE Paid(s, s, 0)
<1>1. \A x \in Nat : x + 0 = x
  OBVIOUS
<1> QED BY <1>1 DEF Paid, Calm

LEMMA PaidTrans ==
  ASSUME NEW s, NEW t, NEW w, NEW j \in Nat, NEW k \in Nat, Paid(s, t, j), Paid(t, w, k)
  PROVE  Paid(s, w, j + k)
<1>1. Calm(s, w) /\ w.done = s.done
  BY DEF Paid, Calm
<1>2. ASSUME NEW x \in Nat, Covered(s, x + (j + k)) PROVE Covered(w, x)
  <2>1. x + (j + k) = (x + k) + j /\ x + k \in Nat
    OBVIOUS
  <2>2. Covered(t, x + k)
    BY <1>2, <2>1 DEF Paid
  <2> QED BY <2>2 DEF Paid
<1> QED BY <1>1, <1>2 DEF Paid

LEMMA EvenTrans ==
  ASSUME NEW s, NEW t, NEW w, Paid(s, t, 0), Paid(t, w, 0)
  PROVE  Paid(s, w, 0)
<1>1. 0 + 0 = 0 /\ 0 \in Nat
  OBVIOUS
<1>2. Paid(s, w, 0 + 0)
  BY <1>1, PaidTrans
<1> QED BY <1>1, <1>2

\* One more completion does no harm.
LEMMA PaidMore ==
  ASSUME NEW s \in Queue, NEW t, Paid(s, t, 0)
  PROVE  Paid(s, t, 1)
<1>1. ASSUME NEW x \in Nat, Covered(s, x + 1) PROVE Covered(t, x)
  <2>1. x + 1 \in Nat /\ x + 0 \in Nat /\ x + 0 <= x + 1
    OBVIOUS
  <2>2. Covered(s, x + 0)
    BY <1>1, <2>1, Lighter
  <2> QED BY <2>2 DEF Paid
<1> QED BY <1>1 DEF Paid

\* Nothing of what is counted changes.
Alike(s, t) ==
    /\ t.list = s.list /\ t.st = s.st /\ t.ring = s.ring /\ t.done = s.done
    /\ t.ghosts = s.ghosts /\ t.flush = s.flush
    /\ s.loose => t.loose
    /\ s.stalled => t.stalled
    /\ t.active => s.active

LEMMA AlikePaid ==
  ASSUME NEW s, NEW t, Alike(s, t)
  PROVE  Paid(s, t, 0)
<1>1. Calm(s, t) /\ t.done = s.done
  BY DEF Alike, Calm, Stages
<1>2. Lent(t) = Lent(s) /\ Expected(t) = Expected(s)
  BY DEF Alike, Lent, LentIn, Expected, Aside, Awaiting
<1>3. \A x : Covered(s, x) => Covered(t, x)
  BY <1>2 DEF Alike, Covered
<1>4. \A x \in Nat : x + 0 = x
  OBVIOUS
<1> QED BY <1>1, <1>3, <1>4 DEF Paid

\* URB u goes on to p, with n more submissions.
Moved(s, t, u, p, n) ==
    /\ Frame(s, t) /\ t.st = [s.st EXCEPT ![u] = p]
    /\ t.done = s.done /\ Lent(t) = Lent(s) + n
    /\ s.loose => t.loose
    /\ s.active \/ t.loose \/ t.ring = s.ring

LEMMA MovedPaid ==
  ASSUME NEW s, Good(s), NEW t, Good(t), NEW u \in URB, s.st[u] \in Held, NEW p,
         NEW n \in Nat, NEW k \in Nat, Moved(s, t, u, p, n),
         n + Weight(s.st[u]) <= Weight(p) + k,
         kind # "control" /\ Stages(s) => p \notin {"setup", "setupSent"}
  PROVE  Paid(s, t, k)
<1>1. s.st \in [URB -> Held \cup {"new", "gone", "back"}] /\ s \in Queue /\ t \in Queue
  BY FieldTypes DEF Good
<1>2. \A v \in URB : t.st[v] = IF v = u THEN p ELSE s.st[v]
  BY <1>1 DEF Moved
<1>3. Calm(s, t) /\ t.done = s.done
  BY <1>2 DEF Moved, Frame, Calm, Stages
<1>4. s.list # <<>> /\ t.list = s.list
  BY EmptySequence DEF Good, Owned, Moved, Frame
<1>5. /\ Cardinality(Awaiting(t)) + Weight(s.st[u]) = Cardinality(Awaiting(s)) + Weight(p)
      /\ Cardinality(Awaiting(t)) \in Nat /\ Cardinality(Awaiting(s)) \in Nat
  BY <1>1, AwaitChange DEF Moved
<1>6. Weight(p) \in {0, 1} /\ Weight(s.st[u]) \in {0, 1}
  BY DEF Weight
<1>7. Lent(s) \in Nat /\ s.ghosts \in Nat /\ Aside(s) \in Nat
  BY <1>1, Numbers
<1>8. ASSUME NEW x \in Nat, Covered(s, x + k) PROVE Covered(t, x)
  <2>0. t.ghosts = s.ghosts /\ Aside(t) = Aside(s)
    BY DEF Moved, Frame, Aside
  <2>1. Expected(t) + Weight(s.st[u]) = Expected(s) + Weight(p)
    BY <1>5, <1>6, <1>7, <2>0 DEF Expected
  <2>2. Expected(s) \in Nat /\ Expected(t) \in Nat /\ x + k \in Nat
    BY <1>1, Numbers
  <2>3. Lent(t) + x + Expected(s) <= Lent(s) + (x + k) + Expected(t)
    BY <1>6, <1>7, <2>1, <2>2 DEF Moved
  <2> QED BY <1>1, <1>4, <1>8, <2>2, <2>3, Weigh DEF Moved, Frame
<1> QED BY <1>3, <1>8 DEF Paid

LEMMA RingGrows ==
  ASSUME NEW s \in Queue, NEW r \in Rings, NEW u \in URB, NEW t,
         t.ring = [s.ring EXCEPT ![r] = Append(@, u)]
  PROVE  Lent(t) = Lent(s) + 1
<1>1. s.ring \in [Rings -> Seq(URB)]
  BY FieldTypes
<1>2. \A i \in Rings : t.ring[i] = IF i = r THEN Append(s.ring[r], u) ELSE s.ring[i]
  BY <1>1
<1>3. Len(Append(s.ring[r], u)) = Len(s.ring[r]) + 1
  BY <1>1, Appended
<1>4. \A i \in Rings : LentIn(t, i) = IF i = r THEN LentIn(s, i) + 1 ELSE LentIn(s, i)
  BY <1>2, <1>3 DEF LentIn
<1>5. LentIn(s, "in") \in Nat /\ LentIn(s, "out") \in Nat
  BY Numbers DEF Rings
<1> QED BY <1>4, <1>5 DEF Lent, Rings

LEMMA DataTransferInMoves ==
  ASSUME NEW s \in Queue, NEW u \in URB
  PROVE  Moved(s, DataTransferIn(s, u), u, "wait", 1)
<1> DEFINE t == DataTransferIn(s, u)
<1>1. Frame(s, t) /\ t.st = [s.st EXCEPT ![u] = "wait"]
  BY DataTransferInFields
<1>2. /\ t.ring = [s.ring EXCEPT !["in"] = Append(@, u)] /\ t.done = s.done
      /\ t.loose = (s.loose \/ ~s.active)
  BY DEF DataTransferIn, Queue
<1> HIDE DEF t
<1>3. Lent(t) = Lent(s) + 1
  BY <1>2, RingGrows DEF Rings
<1> QED BY <1>1, <1>2, <1>3 DEF Moved, t

LEMMA SendOutDataMoves ==
  ASSUME NEW s \in Queue, NEW u \in URB, NEW p \in Started
  PROVE  Moved(s, SendOutData(s, u, p), u, p, 1)
<1> DEFINE t == SendOutData(s, u, p)
<1>1. Frame(s, t) /\ t.st = [s.st EXCEPT ![u] = p]
  BY SendOutDataFields
<1>2. /\ t.ring = [s.ring EXCEPT !["out"] = Append(@, u)] /\ t.done = s.done
      /\ t.loose = (s.loose \/ ~s.active)
  BY DEF SendOutData, Queue
<1> HIDE DEF t
<1>3. Lent(t) = Lent(s) + 1
  BY <1>2, RingGrows DEF Rings
<1> QED BY <1>1, <1>2, <1>3 DEF Moved, t

LEMMA StateMoves ==
  ASSUME NEW s \in Queue, NEW u \in URB, NEW p \in Held
  PROVE  Moved(s, [s EXCEPT !.st[u] = p], u, p, 0)
<1> DEFINE t == [s EXCEPT !.st[u] = p]
<1>1. Frame(s, t) /\ t.st = [s.st EXCEPT ![u] = p]
  BY SetState
<1>2. t.ring = s.ring /\ t.done = s.done /\ t.loose = s.loose
  BY DEF Queue
<1> HIDE DEF t
<1>3. Lent(t) = Lent(s) /\ Lent(s) \in Nat
  BY <1>2, Numbers DEF Lent, LentIn
<1>4. Lent(t) = Lent(s) + 0
  BY <1>3
<1> QED BY <1>1, <1>2, <1>4 DEF Moved, t

\* The start of the data stage lends a buffer to an URB that then waits.
LEMMA DataStartMoves ==
  ASSUME NEW s \in Queue, NEW u \in URB, Config
  PROVE  \E p \in {"wait", "request", "done"} : Moved(s, DataStart(s, u), u, p, Weight(p))
<1>1. dir[u] \in {"in", "out", "none"}
  BY DEF Config
<1>2. /\ Weight("wait") = 1 /\ Weight("request") = 0 /\ Weight("done") = 0
      /\ "request" \in Held /\ "done" \in Held
  BY DEF Weight, Held, Started
<1>3. CASE dir[u] = "in"
  BY <1>2, <1>3, DataTransferInMoves DEF DataStart
<1>4. CASE dir[u] = "out"
  <2>1. DataStart(s, u) = [s EXCEPT !.st[u] = "request"]
    BY <1>4 DEF DataStart
  <2> QED BY <1>2, <2>1, StateMoves
<1>5. CASE dir[u] = "none"
  <2>1. DataStart(s, u) = [s EXCEPT !.st[u] = "done"]
    BY <1>5 DEF DataStart
  <2> QED BY <1>2, <2>1, StateMoves
<1> QED BY <1>1, <1>3, <1>4, <1>5

LEMMA UrbInitMoves ==
  ASSUME NEW s \in Queue, NEW u \in URB, Config, ~InitFails(s, u)
  PROVE  \E p \in Held : /\ kind # "control" => p \notin {"setup", "setupSent"}
                         /\ Moved(s, UrbInit(s, u), u, p, Weight(p))
<1> DEFINE w == IF kind = "control" THEN [s EXCEPT !.st[u] = "setup"] ELSE DataStart(s, u)
<1>1. \E p \in Held : (kind # "control" => p \notin {"setup", "setupSent"})
                      /\ Moved(s, w, u, p, Weight(p))
  <2>1. "setup" \in Held /\ Weight("setup") = 0 /\ {"wait", "request", "done"} \subseteq Held
    BY DEF Held, Started, Weight
  <2>2. CASE kind = "control"
    <3>1. w = [s EXCEPT !.st[u] = "setup"]
      BY <2>2
    <3> QED BY <2>1, <2>2, <3>1, StateMoves
  <2>3. CASE kind # "control"
    <3>1. w = DataStart(s, u)
      BY <2>3
    <3>2. PICK p \in {"wait", "request", "done"} : Moved(s, DataStart(s, u), u, p, Weight(p))
      BY DataStartMoves
    <3> HIDE DEF w
    <3> QED BY <2>1, <3>1, <3>2
  <2> QED BY <2>2, <2>3
<1>2. UrbInit(s, u) = [w EXCEPT !.remaining = @ - 1]
  BY DEF UrbInit
<1> HIDE DEF w
<1>3. PICK p \in Held : (kind # "control" => p \notin {"setup", "setupSent"})
                        /\ Moved(s, w, u, p, Weight(p))
  BY <1>1
<1>4. w \in Queue
  BY <1>3 DEF Moved, Frame
<1> DEFINE t == [w EXCEPT !.remaining = @ - 1]
<1>5. /\ t.st = w.st /\ t.ring = w.ring /\ t.done = w.done /\ t.loose = w.loose
  BY <1>4 DEF Queue
<1>6. Frame(s, UrbInit(s, u))
  BY UrbInitFields
<1>7. t = UrbInit(s, u)
  BY <1>2
<1> HIDE DEF t
<1>8. Lent(t) = Lent(w)
  BY <1>5 DEF Lent, LentIn
<1>9. Moved(s, t, u, p, Weight(p))
  BY <1>3, <1>5, <1>6, <1>7, <1>8 DEF Moved
<1> QED BY <1>3, <1>7, <1>9

LEMMA UrbInitPaid ==
  ASSUME NEW s, Good(s), NEW u \in URB, Config, s.st[u] = "pending"
  PROVE  Paid(s, UrbInit(s, u), 0)
<1>1. CASE InitFails(s, u)
  BY <1>1, PaidSame DEF UrbInit
<1>2. CASE ~InitFails(s, u)
  <2>1. PICK p \in Held : (kind # "control" => p \notin {"setup", "setupSent"})
                          /\ Moved(s, UrbInit(s, u), u, p, Weight(p))
    BY <1>2, UrbInitMoves DEF Good
  <2>2. Good(UrbInit(s, u))
    BY UrbInitStep DEF Sec
  <2>3. /\ s.st[u] \in Held /\ Weight(s.st[u]) = 0 /\ Weight(p) \in Nat /\ 0 \in Nat
        /\ Weight(p) + Weight(s.st[u]) <= Weight(p) + 0
    BY DEF Held, Weight
  <2> QED BY <2>1, <2>2, <2>3, MovedPaid
<1> QED BY <1>1, <1>2

\* An URB that completes while no ghost is left
LEMMA UrbCompletePaid ==
  ASSUME NEW s, Good(s), NEW u \in URB, s.st[u] \in Held, Config, s.ghosts = 0,
         NEW k \in {0, 1}, Weight(s.st[u]) <= k
  PROVE  Paid(s, UrbComplete(s, u), k)
<1> DEFINE t == UrbComplete(s, u)
<1>1. s \in Queue /\ s.list \in Seq(URB) /\ s.st \in [URB -> Held \cup {"new", "gone", "back"}]
  BY FieldTypes DEF Good
<1>2. u \in ToSet(s.list)
  BY DEF Good, Owned
<1>3. RemoveFirst(s.list, u) \in Seq(URB)
  BY <1>1, <1>2, RemoveOne DEF Good, Owned
<1>4. /\ t.st = [s.st EXCEPT ![u] = "gone"] /\ t.ghosts = s.ghosts /\ t.flush = s.flush
      /\ t.active = s.active /\ t.stalled = s.stalled
  BY <1>1, <1>3, UrbCompleteFields
<1>5. t.ring = s.ring /\ t.done = s.done /\ t.loose = s.loose
  BY <1>1 DEF UrbComplete, Queue
<1>6. Good(t)
  BY UrbCompleteStep DEF Sec
<1> HIDE DEF t
<1>7. Calm(s, t)
  BY <1>1, <1>4, <1>5 DEF Calm, Stages
<1>8. /\ Cardinality(Awaiting(t)) + Weight(s.st[u]) = Cardinality(Awaiting(s)) + Weight("gone")
      /\ Cardinality(Awaiting(t)) \in Nat /\ Cardinality(Awaiting(s)) \in Nat
  BY <1>1, <1>4, AwaitChange
<1>9. Weight("gone") = 0 /\ Weight(s.st[u]) \in {0, 1}
  BY DEF Weight
<1>10. /\ Lent(t) = Lent(s) /\ Lent(s) \in Nat /\ s.ghosts \in Nat
       /\ Aside(t) = Aside(s) /\ Aside(s) \in Nat
  BY <1>1, <1>4, <1>5, Numbers DEF Lent, LentIn, Aside
<1>11. ASSUME NEW x \in Nat, Covered(s, x + k) PROVE Covered(t, x)
  <2>1. Lent(t) + x + Expected(s) <= Lent(s) + (x + k) + Expected(t) /\ x + k \in Nat
    BY <1>4, <1>8, <1>9, <1>10 DEF Expected
  <2> QED BY <1>1, <1>4, <1>5, <1>6, <1>11, <2>1, Weigh
<1> QED BY <1>5, <1>7, <1>11 DEF Paid, t

\* The end of a control URB, by its status
LEMMA CheckStatusPaid ==
  ASSUME NEW s, Good(s), NEW u \in URB, s.st[u] \in Held, Config, kind = "control"
  PROVE  Paid(s, CheckStatus(s, u), 0)
<1> DEFINE ends == \/ s.st[u] = "done"
                   \/ s.recv[u] = "fail" /\ s.st[u] \notin {"setup", "setupSent"}
           w == UrbComplete(s, u)
<1>0. s.recv[u] \in {"no", "ok", "fail"} /\ s.ghosts = 0 /\ s \in Queue
  BY FieldTypes DEF Good, Slots
<1>1. CASE s.recv[u] = "no" \/ ~ends
  <2>1. CheckStatus(s, u) = s
    BY <1>0, <1>1 DEF CheckStatus
  <2> QED BY <2>1, PaidSame
<1>2. CASE s.recv[u] = "ok" /\ ends
  <2>1. CheckStatus(s, u) = w
    BY <1>2 DEF CheckStatus
  <2>2. Weight(s.st[u]) <= 0 /\ 0 \in {0, 1}
    BY <1>2 DEF Weight
  <2> QED BY <1>0, <2>1, <2>2, UrbCompletePaid
<1>3. CASE s.recv[u] = "fail" /\ ends
  <2> DEFINE t == [w EXCEPT !.active = FALSE, !.stalled = TRUE, !.want = Append(@, "reset")]
  <2>1. CheckStatus(s, u) = t
    BY <1>3 DEF CheckStatus
  <2>2. Good(w)
    BY UrbCompleteStep DEF Sec
  <2>3. Paid(s, w, 1)
    BY <1>0, UrbCompletePaid DEF Weight
  <2> HIDE DEF w
  <2>4. /\ t.active = FALSE /\ t.stalled = TRUE /\ t.st = w.st /\ t.ring = w.ring
        /\ t.done = w.done /\ t.loose = w.loose
    BY <2>2 DEF Good, Queue
  <2> HIDE DEF t
  <2>5. \A x : Covered(t, x)
    BY <2>4 DEF Covered
  <2>6. Calm(s, t) /\ t.done = s.done
    BY <2>3, <2>4 DEF Paid, Calm, Stages
  <2> QED BY <2>1, <2>5, <2>6 DEF Paid
<1> QED BY <1>0, <1>1, <1>2, <1>3

\* An event moves the first URB on.
LEMMA UrbUpdatePaid ==
  ASSUME NEW s, Good(s), NEW u \in URB, s.st[u] \in Held, Config, NEW msg \in Messages
  PROVE  Paid(s, UrbUpdate(s, u, msg), 0)
<1>1. CASE UpdateAgain(s, u, msg)
  <2>1. UrbUpdate(s, u, msg) = s
    BY <1>1 DEF UrbUpdate
  <2> QED BY <2>1, PaidSame
<1>2. CASE ~UpdateAgain(s, u, msg) /\ msg # "req"
  <2> DEFINE w == [s EXCEPT !.recv[u] = msg]
  <2>1. UrbUpdate(s, u, msg) = CheckStatus(w, u) /\ kind = "control"
    BY <1>2 DEF UrbUpdate, UpdateAgain
  <2>2. Frame(s, w) /\ w.st = s.st /\ w.remaining = s.remaining
    <3>1. [s.recv EXCEPT ![u] = msg] \in [URB -> {"no", "ok", "fail"}]
      BY <1>2, FieldTypes DEF Good, Messages
    <3> QED BY <3>1 DEF Good, Queue, Frame
  <2>3. Alike(s, w)
    BY DEF Good, Queue, Alike
  <2> HIDE DEF w
  <2>4. Good(w)
    BY <2>2, SameStep DEF Sec
  <2>5. Paid(s, w, 0) /\ Paid(w, CheckStatus(w, u), 0)
    BY <2>1, <2>2, <2>3, <2>4, AlikePaid, CheckStatusPaid
  <2> QED BY <2>1, <2>5, EvenTrans
<1>3. CASE ~UpdateAgain(s, u, msg) /\ msg = "req" /\ s.st[u] = "setup"
  <2> DEFINE t == SendOutData(s, u, "setupSent")
  <2>1. UrbUpdate(s, u, msg) = t
    BY <1>3 DEF UrbUpdate
  <2>2. "setupSent" \in Started
    BY DEF Started
  <2>3. Moved(s, t, u, "setupSent", 1)
    BY <2>2, SendOutDataMoves DEF Good
  <2>4. Good(t)
    BY <2>1, UrbUpdateStep DEF Sec
  <2>5. Weight(s.st[u]) = 0 /\ Weight("setupSent") = 1 /\ ~(kind # "control" /\ Stages(s))
    BY <1>3 DEF Weight, Stages
  <2> HIDE DEF t
  <2>6. 1 + Weight(s.st[u]) <= Weight("setupSent") + 0 /\ 0 \in Nat /\ 1 \in Nat
    BY <2>5
  <2> QED BY <2>1, <2>3, <2>4, <2>5, <2>6, MovedPaid
<1>4. CASE ~UpdateAgain(s, u, msg) /\ msg = "req" /\ s.st[u] = "request"
  <2> DEFINE t == SendOutData(s, u, "wait")
  <2>1. "wait" \in Started /\ "wait" \in Held /\ s.st[u] \in Started
    BY <1>4 DEF Started, Held
  <2>2. Moved(s, t, u, "wait", 1)
    BY <2>1, SendOutDataMoves DEF Good
  <2>3. Frame(s, t) /\ t.remaining = s.remaining /\ t.st = [s.st EXCEPT ![u] = "wait"]
    BY <2>1, SendOutDataFields DEF Good
  <2>4. UrbUpdate(s, u, msg) = IF kind = "control" THEN CheckStatus(t, u) ELSE t
    BY <1>4 DEF UrbUpdate
  <2> HIDE DEF t
  <2>5. Good(t) /\ t.st[u] \in Held
    BY <2>1, <2>3, MoveFrame DEF Sec
  <2>6. Weight(s.st[u]) = 0 /\ Weight("wait") = 1
    BY <1>4 DEF Weight
  <2>7. 1 + Weight(s.st[u]) <= Weight("wait") + 0 /\ 0 \in Nat /\ 1 \in Nat
    BY <2>6
  <2>8. Paid(s, t, 0)
    BY <2>2, <2>5, <2>7, MovedPaid
  <2>9. kind = "control" => Paid(t, CheckStatus(t, u), 0)
    BY <2>5, CheckStatusPaid
  <2> QED BY <2>4, <2>8, <2>9, EvenTrans
<1>5. msg = "req" /\ ~UpdateAgain(s, u, msg) => s.st[u] \in {"request", "setup"}
  BY DEF UpdateAgain
<1> QED BY <1>1, <1>2, <1>3, <1>4, <1>5

LEMMA InitPendingPaid ==
  ASSUME NEW s, Good(s), Config
  PROVE  Paid(s, InitPendingUrbs(s), 0)
<1> DEFINE n == Len(s.list)
           V == {t \in Queue : Good(t) /\ Paid(s, t, 0)}
           G == [k \in 0..n |-> V]
<1>1. PICK f : /\ InitPendingUrbs(s) = f[1..n] /\ f[{}] = s
               /\ \A k \in 1..n : f[1..k] = StartNext(f[1..(k - 1)], s.list[k]) /\ s.list[k] \in URB
  BY InitPendingLoop
<1>2. n \in Nat
  BY FieldTypes DEF Good
<1>3. ASSUME NEW t \in V, NEW u \in URB PROVE StartNext(t, u) \in V
  <2>1. CASE t.remaining > 0 /\ t.st[u] = "pending"
    <3>1. Good(UrbInit(t, u)) /\ Paid(t, UrbInit(t, u), 0)
      BY <2>1, UrbInitStep, UrbInitPaid DEF Sec
    <3>2. Paid(s, UrbInit(t, u), 0)
      BY <3>1, EvenTrans
    <3> QED BY <2>1, <3>1, <3>2 DEF StartNext, Good
  <2> QED BY <2>1 DEF StartNext
<1>4. s \in V
  BY PaidSame DEF Good
<1> HIDE DEF n, V
<1>5. /\ f[{}] \in G[0] /\ G[n] = V
      /\ \A k \in 1..n : f[1..(k - 1)] \in G[k - 1] => f[1..k] \in G[k]
  BY <1>1, <1>2, <1>3, <1>4
<1> HIDE DEF G
<1>6. f[1..n] \in G[n]
  BY <1>2, <1>5, FoldInduction
<1> QED BY <1>1, <1>5, <1>6 DEF V

LEMMA EvqAlike ==
  ASSUME NEW s \in Queue, NEW e
  PROVE  Alike(s, [s EXCEPT !.evq = e])
  BY DEF Queue, Alike

LEMMA DeliverFirstPaid ==
  ASSUME NEW s, Good(s), Config
  PROVE  Paid(s, DeliverFirst(s), 0)
<1> DEFINE u == s.list[1]
           w == UrbUpdate(s, u, s.evq[1])
           idle == s.list = <<>> \/ s.evq = <<>> \/ UpdateAgain(s, u, s.evq[1])
<1>1. CASE idle
  <2>1. DeliverFirst(s) = s
    BY <1>1 DEF DeliverFirst
  <2> QED BY <2>1, PaidSame
<1>2. CASE ~idle
  <2>1. u \in URB /\ s.st[u] \in Held
    BY <1>2, FirstUrb
  <2>2. s.evq \in Seq(Messages) /\ s.evq # <<>>
    BY <1>2, FieldTypes DEF Good
  <2>3. s.evq[1] \in Messages
    BY <2>2, Popped
  <2>4. Good(w) /\ Paid(s, w, 0)
    BY <2>1, <2>3, UrbUpdateStep, UrbUpdatePaid DEF Sec
  <2>5. DeliverFirst(s) = [w EXCEPT !.evq = Tail(@)]
    BY <1>2 DEF DeliverFirst
  <2> HIDE DEF w
  <2>6. Paid(w, DeliverFirst(s), 0)
    BY <2>4, <2>5, EvqAlike, AlikePaid DEF Good
  <2> QED BY <2>4, <2>6, EvenTrans
<1> QED BY <1>1, <1>2

LEMMA DeliverPendingPaid ==
  ASSUME NEW s, Good(s), Config
  PROVE  Paid(s, DeliverPending(s), 0)
<1> DEFINE n == Len(s.evq)
           V == {t \in Queue : Good(t) /\ Paid(s, t, 0)}
           G == [k \in 0..n |-> V]
<1>1. PICK f : /\ DeliverPending(s) = InitPendingUrbs(f[1..n]) /\ f[{}] = s
               /\ \A k \in 1..n : f[1..k] = DeliverFirst(f[1..(k - 1)])
  BY DeliverPendingLoop
<1>2. n \in Nat
  BY FieldTypes DEF Good
<1>3. ASSUME NEW t \in V PROVE DeliverFirst(t) \in V
  <2>1. Good(DeliverFirst(t)) /\ Paid(t, DeliverFirst(t), 0)
    BY DeliverFirstStep, DeliverFirstPaid DEF Sec
  <2>2. Paid(s, DeliverFirst(t), 0)
    BY <2>1, EvenTrans
  <2> QED BY <2>1, <2>2 DEF Good
<1>4. s \in V
  BY PaidSame DEF Good
<1> HIDE DEF n, V
<1>5. /\ f[{}] \in G[0] /\ G[n] = V
      /\ \A k \in 1..n : f[1..(k - 1)] \in G[k - 1] => f[1..k] \in G[k]
  BY <1>1, <1>2, <1>3, <1>4
<1> HIDE DEF G
<1>6. f[1..n] \in G[n]
  BY <1>2, <1>5, FoldInduction
<1> DEFINE t == f[1..n]
<1>7. Good(t) /\ Paid(s, t, 0)
  BY <1>5, <1>6 DEF V
<1> HIDE DEF t
<1>8. Paid(t, InitPendingUrbs(t), 0)
  BY <1>7, InitPendingPaid
<1>9. DeliverPending(s) = InitPendingUrbs(t)
  BY <1>1 DEF t
<1> QED BY <1>7, <1>8, <1>9, EvenTrans

LEMMA DeferEventPaid ==
  ASSUME NEW s \in Queue, NEW msg
  PROVE  Paid(s, DeferEvent(s, msg), 0)
<1>1. Alike(s, DeferEvent(s, msg))
  BY DEF DeferEvent, Queue, Alike
<1> QED BY <1>1, AlikePaid

LEMMA QueueEventPaid ==
  ASSUME NEW s, Good(s), NEW msg \in Messages, Config
  PROVE  Paid(s, QueueEvent(s, msg), 0)
<1> DEFINE t == DeliverPending(s)
           u == t.list[1]
<1>1. Good(t) /\ Paid(s, t, 0)
  BY DeliverPendingStep, DeliverPendingPaid DEF Sec
<1>2. CASE ~s.active
  <2>1. QueueEvent(s, msg) \in {s, DeferEvent(s, msg)}
    BY <1>2 DEF QueueEvent
  <2> QED BY <2>1, PaidSame, DeferEventPaid DEF Good
<1>3. CASE s.active /\ msg = "req" /\ (t.evq # <<>> \/ t.list = <<>>)
  <2>1. QueueEvent(s, msg) = DeferEvent(t, msg)
    BY <1>3 DEF QueueEvent
  <2> HIDE DEF t
  <2>2. Paid(t, DeferEvent(t, msg), 0)
    BY <1>1, DeferEventPaid DEF Good
  <2> QED BY <1>1, <2>1, <2>2, EvenTrans
<1>4. CASE s.active /\ msg # "req" /\ t.list = <<>>
  <2>1. QueueEvent(s, msg) = t
    BY <1>4 DEF QueueEvent
  <2> QED BY <1>1, <2>1
<1>5. CASE s.active /\ t.list # <<>> /\ ~(msg = "req" /\ t.evq # <<>>)
  <2>1. QueueEvent(s, msg) = IF UpdateAgain(t, u, msg) THEN DeferEvent(t, msg)
                             ELSE InitPendingUrbs(UrbUpdate(t, u, msg))
    BY <1>5 DEF QueueEvent
  <2> HIDE DEF t
  <2>2. Paid(t, DeferEvent(t, msg), 0)
    BY <1>1, DeferEventPaid DEF Good
  <2>3. u \in URB /\ t.st[u] \in Held
    BY <1>1, <1>5, FirstUrb
  <2> DEFINE w == UrbUpdate(t, u, msg)
  <2>4. Good(w) /\ Paid(t, w, 0)
    BY <1>1, <2>3, UrbUpdateStep, UrbUpdatePaid DEF Sec
  <2> HIDE DEF w, u
  <2>5. Paid(w, InitPendingUrbs(w), 0)
    BY <2>4, InitPendingPaid
  <2>6. Paid(s, InitPendingUrbs(w), 0) /\ Paid(s, DeferEvent(t, msg), 0)
    BY <1>1, <2>2, <2>4, <2>5, EvenTrans
  <2> QED BY <2>1, <2>6 DEF w
<1> QED BY <1>2, <1>3, <1>4, <1>5

LEMMA DataTransferCompletionPaid ==
  ASSUME NEW s, Good(s), NEW u \in URB, s.st[u] \in Started, s.ghosts = 0, Config
  PROVE  Paid(s, DataTransferCompletion(s, u), 1)
<1> DEFINE t == [s EXCEPT !.st[u] = "done"]
<1>0. "done" \in Started /\ "done" \in Held /\ s.st[u] \in Held
  BY DEF Started, Held
<1>1. CASE s.st[u] # "wait"
  <2>1. DataTransferCompletion(s, u) = s
    BY <1>1 DEF DataTransferCompletion
  <2> QED BY <2>1, PaidSame, PaidMore DEF Good
<1>2. CASE s.st[u] = "wait"
  <2>1. DataTransferCompletion(s, u) = IF kind = "control" THEN t ELSE UrbComplete(t, u)
    BY <1>2 DEF DataTransferCompletion
  <2>2. Frame(s, t) /\ t.remaining = s.remaining /\ t.st = [s.st EXCEPT ![u] = "done"]
    BY <1>0, SetState DEF Good
  <2>3. Moved(s, t, u, "done", 0)
    BY <1>0, StateMoves DEF Good
  <2> HIDE DEF t
  <2>4. Good(t) /\ t.st[u] = "done" /\ t.ghosts = 0
    BY <1>0, <2>2, MoveFrame DEF Sec, Frame
  <2>5. Weight(s.st[u]) = 1 /\ Weight("done") = 0
    BY <1>2 DEF Weight
  <2>6. 0 + Weight(s.st[u]) <= Weight("done") + 1 /\ 0 \in Nat /\ 1 \in Nat /\ 1 + 0 = 1
    BY <2>5
  <2>7. Paid(s, t, 1)
    BY <1>0, <2>3, <2>4, <2>6, MovedPaid
  <2>8. Paid(t, UrbComplete(t, u), 0)
    BY <1>0, <2>4, <2>5, UrbCompletePaid
  <2>9. Paid(s, UrbComplete(t, u), 1 + 0)
    BY <2>6, <2>7, <2>8, PaidTrans
  <2> QED BY <2>1, <2>6, <2>7, <2>9
<1> QED BY <1>1, <1>2

\* A completion is paid for by the URB it belongs to.
LEMMA UrbTransferCompletionPaid ==
  ASSUME NEW s, Good(s), NEW u \in URB, s.st[u] \in Started, s.ghosts = 0, Config
  PROVE  Paid(s, UrbTransferCompletion(s, u), 1)
<1>0. s.st[u] \in Held /\ 0 \in Nat /\ 1 \in Nat /\ 1 + 0 = 1
  BY DEF Held
<1>1. CASE kind # "control"
  BY <1>1, DataTransferCompletionPaid DEF UrbTransferCompletion
<1>2. CASE kind = "control" /\ s.st[u] = "setupSent"
  <2> DEFINE t == DataStart(s, u)
  <2>1. UrbTransferCompletion(s, u) = IF StartFails(s, u) THEN UrbComplete(s, u) ELSE CheckStatus(t, u)
    BY <1>2 DEF UrbTransferCompletion
  <2>2. PICK p \in {"wait", "request", "done"} : Moved(s, t, u, p, Weight(p))
    BY DataStartMoves DEF Good
  <2>3. t.remaining = s.remaining
    BY DataStartFields DEF Good
  <2> HIDE DEF t
  <2>4. p \in Started /\ p \in Held
    BY DEF Started, Held
  <2>5. Good(t) /\ t.st[u] \in Held
    <3>1. Frame(s, t) /\ t.st = [s.st EXCEPT ![u] = p]
      BY <2>2 DEF Moved
    <3>2. Sec(s, t)
      BY <2>3, <2>4, <3>1, MoveStep
    <3>3. t.st[u] = p
      BY <3>1 DEF Good, Queue
    <3> QED BY <2>4, <3>2, <3>3 DEF Sec
  <2>6. Weight(s.st[u]) = 1 /\ Weight(p) \in {0, 1}
    BY <1>2 DEF Weight
  <2>7. Weight(p) \in Nat /\ Weight(p) + Weight(s.st[u]) <= Weight(p) + 1
    BY <2>6
  <2>8. Paid(s, t, 1)
    BY <1>0, <1>2, <2>2, <2>5, <2>7, MovedPaid
  <2>9. Paid(t, CheckStatus(t, u), 0)
    BY <1>2, <2>5, CheckStatusPaid
  <2>10. Paid(s, CheckStatus(t, u), 1 + 0)
    BY <1>0, <2>8, <2>9, PaidTrans
  <2>11. Paid(s, UrbComplete(s, u), 1)
    BY <1>0, <2>6, UrbCompletePaid
  <2> QED BY <1>0, <2>1, <2>10, <2>11
<1>3. CASE kind = "control" /\ s.st[u] \in {"request", "wait"}
  <2> DEFINE t == DataTransferCompletion(s, u)
  <2>1. UrbTransferCompletion(s, u) = CheckStatus(t, u)
    BY <1>3 DEF UrbTransferCompletion
  <2>2. Good(t) /\ t.st[u] \in Held /\ Paid(s, t, 1)
    BY <1>3, DataTransferCompletionStep, DataTransferCompletionPaid DEF Sec
  <2> HIDE DEF t
  <2>3. Paid(t, CheckStatus(t, u), 0)
    BY <1>3, <2>2, CheckStatusPaid
  <2>4. Paid(s, CheckStatus(t, u), 1 + 0)
    BY <1>0, <2>2, <2>3, PaidTrans
  <2> QED BY <1>0, <2>1, <2>4
<1>4. CASE kind = "control" /\ s.st[u] \notin {"setupSent", "request", "wait"}
  <2>1. UrbTransferCompletion(s, u) = s
    BY <1>4 DEF UrbTransferCompletion
  <2> QED BY <2>1, PaidSame, PaidMore DEF Good
<1> QED BY <1>1, <1>2, <1>3, <1>4

\* The completion of a ghost pays for the ghost.
LEMMA GhostPaid ==
  ASSUME NEW s, Good(s), s.ghosts > 0, NEW c, Config
  PROVE  Paid(s, GhostGone(s, c), 1)
<1> DEFINE t == [s EXCEPT !.ghosts = @ - 1, !.remaining = @ + 1,
                          !.swallowed = @ \/ c.urb \in Linked(s)]
<1>1. Good(t)
  BY GhostFreed DEF Sec
<1>2. /\ t.list = s.list /\ t.st = s.st /\ t.ghosts = s.ghosts - 1 /\ t.flush = s.flush
      /\ t.active = s.active /\ t.stalled = s.stalled /\ t.ring = s.ring /\ t.done = s.done
      /\ t.loose = s.loose
  BY DEF Good, Queue
<1>3. GhostGone(s, c) = InitPendingUrbs(t)
  BY DEF GhostGone
<1> HIDE DEF t
<1>4. Calm(s, t)
  BY <1>2 DEF Calm, Stages
<1>5. Lent(t) = Lent(s) /\ Aside(t) = Aside(s) /\ Awaiting(t) = Awaiting(s)
  BY <1>2 DEF Lent, LentIn, Aside, Awaiting
<1>6. /\ Lent(s) \in Nat /\ Cardinality(Awaiting(s)) \in Nat /\ s.ghosts \in Nat
      /\ Aside(s) \in Nat
  BY Numbers DEF Good
<1>7. ASSUME NEW x \in Nat, Covered(s, x + 1) PROVE Covered(t, x)
  <2>1. /\ Lent(t) + x + Expected(s) <= Lent(s) + (x + 1) + Expected(t) /\ x + 1 \in Nat
        /\ Lent(t) + x <= Lent(s) + (x + 1)
    BY <1>2, <1>5, <1>6 DEF Expected
  <2> QED BY <1>1, <1>2, <1>7, <2>1, Weigh DEF Good
<1>8. Paid(s, t, 1)
  BY <1>2, <1>4, <1>7 DEF Paid
<1>9. Paid(t, InitPendingUrbs(t), 0)
  BY <1>1, InitPendingPaid
<1>10. 1 + 0 = 1 /\ 0 \in Nat /\ 1 \in Nat
  OBVIOUS
<1>11. Paid(s, InitPendingUrbs(t), 1 + 0)
  BY <1>8, <1>9, <1>10, PaidTrans
<1> QED BY <1>3, <1>10, <1>11

LEMMA OneCompletionPaid ==
  ASSUME NEW s, Good(s), NEW r \in Rings, NEW c \in Completion, Config
  PROVE  Paid(s, OneCompletion(s, r, c), IF c.ok THEN 1 ELSE 0)
<1> DEFINE o == IF r = "out" THEN IF s.outPending > 0 THEN s.outPending - 1 ELSE 0
                             ELSE s.outPending
           t == [s EXCEPT !.outPending = o]
           u == s.list[1]
<1>0. o \in Nat /\ s \in Queue /\ s.ghosts \in Nat
  BY FieldTypes DEF Good
<1>1. (IF r = "out" THEN [s EXCEPT !.outPending = IF @ > 0 THEN @ - 1 ELSE 0] ELSE s) = t
  BY <1>0 DEF Queue
<1>2. Good(t) /\ t.list = s.list /\ t.st = s.st /\ t.ghosts = s.ghosts
  BY <1>0, OutPendingStep DEF Sec
<1>3. Alike(s, t)
  BY <1>0 DEF Queue, Alike
<1>4. 0 + 1 = 1 /\ 0 \in Nat /\ 1 \in Nat
  OBVIOUS
<1>5. Paid(s, t, 0) /\ Paid(s, t, 1)
  BY <1>0, <1>3, AlikePaid, PaidMore
<1>6. CASE ~c.ok
  <2>1. OneCompletion(s, r, c) = t
    BY <1>1, <1>6 DEF OneCompletion
  <2> QED BY <1>5, <1>6, <2>1
<1>7. CASE c.ok /\ s.ghosts > 0
  <2>1. OneCompletion(s, r, c) = GhostGone(t, c)
    BY <1>0, <1>1, <1>7 DEF OneCompletion
  <2> HIDE DEF t
  <2>2. Paid(t, GhostGone(t, c), 1)
    BY <1>2, <1>7, GhostPaid
  <2>3. Paid(s, GhostGone(t, c), 0 + 1)
    BY <1>4, <1>5, <2>2, PaidTrans
  <2> QED BY <1>4, <1>7, <2>1, <2>3
<1>8. CASE c.ok /\ s.ghosts = 0 /\ (s.list = <<>> \/ s.st[u] = "pending")
  <2>1. OneCompletion(s, r, c) = t
    BY <1>1, <1>8 DEF OneCompletion
  <2> QED BY <1>5, <1>8, <2>1
<1>9. CASE c.ok /\ s.ghosts = 0 /\ s.list # <<>> /\ s.st[u] # "pending"
  <2>1. OneCompletion(s, r, c) = UrbTransferCompletion(t, u)
    BY <1>1, <1>9 DEF OneCompletion
  <2>2. u \in URB /\ s.st[u] \in Held
    BY <1>9, FirstUrb
  <2>3. t.st[u] \in Started
    BY <1>2, <1>9, <2>2 DEF Held
  <2> HIDE DEF t
  <2>4. Paid(t, UrbTransferCompletion(t, u), 1)
    BY <1>2, <1>9, <2>2, <2>3, UrbTransferCompletionPaid
  <2>5. Paid(s, UrbTransferCompletion(t, u), 0 + 1)
    BY <1>4, <1>5, <2>4, PaidTrans
  <2> QED BY <1>4, <1>9, <2>1, <2>5
<1> QED BY <1>0, <1>6, <1>7, <1>8, <1>9

LEMMA OksAre ==
  ASSUME NEW d, NEW k \in Nat
  PROVE  /\ Oks(d, k) \in Nat /\ Oks(d, 0) = 0
         /\ k > 0 => Oks(d, k) = Oks(d, k - 1) + (IF d[k].ok THEN 1 ELSE 0)
<1> DEFINE B(j) == {i \in 1..j : d[i].ok}
<1>1. ASSUME NEW j \in Nat PROVE IsFiniteSet(B(j)) /\ Cardinality(B(j)) \in Nat
  <2>1. IsFiniteSet(1..j)
    BY FS_Interval
  <2>2. IsFiniteSet(B(j))
    BY <2>1, FS_Subset
  <2> QED BY <2>2, FS_CardinalityType
<1>2. B(0) = {}
  OBVIOUS
<1>3. CASE k > 0
  <2>1. k - 1 \in Nat /\ k \notin B(k - 1)
    BY <1>3
  <2>2. B(k) = IF d[k].ok THEN B(k - 1) \cup {k} ELSE B(k - 1)
    BY <1>3
  <2>3. IsFiniteSet(B(k - 1)) /\ Cardinality(B(k - 1)) \in Nat
    BY <1>1, <2>1
  <2> HIDE DEF B
  <2>4. Cardinality(B(k - 1) \cup {k}) = Cardinality(B(k - 1)) + 1
    BY <2>1, <2>3, FS_AddElement
  <2>5. Cardinality(B(k)) = Cardinality(B(k - 1)) + (IF d[k].ok THEN 1 ELSE 0)
    BY <2>2, <2>3, <2>4
  <2> QED BY <1>1, <1>2, <2>5, FS_EmptySet DEF Oks, B
<1>4. CASE k = 0
  <2> HIDE DEF B
  <2> QED BY <1>1, <1>2, <1>4, FS_EmptySet DEF Oks, B
<1> QED BY <1>3, <1>4

\* All the completions of a ring are read.
LEMMA CompletionsPaid ==
  ASSUME NEW s, Good(s), NEW r \in Rings, Config
  PROVE  LET t == Completions(s, r)
         IN /\ Calm(s, t) /\ t.done = [s.done EXCEPT ![r] = <<>>]
            /\ UnreadIn(s, r) \in Nat
            /\ \A x \in Nat : Covered(s, x + UnreadIn(s, r)) => Covered(t, x)
<1> DEFINE d == s.done[r]
           n == Len(d)
           s0 == [s EXCEPT !.done[r] = <<>>]
           G == [k \in 0..n |-> {t \in Queue : Good(t) /\ Paid(s0, t, Oks(d, k))}]
<1>1. PICK f : /\ Completions(s, r) = DeliverPending(f[1..n]) /\ f[{}] = s0 /\ Good(f[{}])
               /\ \A k \in 1..n : f[1..k] = OneCompletion(f[1..(k - 1)], r, d[k])
  <2>1. PICK g : /\ Completions(s, r) = DeliverPending(g[1..Len(s.done[r])])
                 /\ g[{}] = [s EXCEPT !.done[r] = <<>>] /\ Good(g[{}])
                 /\ \A k \in 1..Len(s.done[r]) :
                       g[1..k] = OneCompletion(g[1..(k - 1)], r, s.done[r][k])
    BY CompletionsLoop, ZenonT(60)
  <2> QED BY <2>1, Zenon
<1>2. n \in Nat /\ \A k \in 1..n : d[k] \in Completion
  BY FieldTypes DEF Good
<1>3. /\ s0.list = s.list /\ s0.st = s.st /\ s0.ghosts = s.ghosts /\ s0.flush = s.flush
      /\ s0.active = s.active /\ s0.stalled = s.stalled /\ s0.ring = s.ring
      /\ s0.loose = s.loose /\ s0.done = [s.done EXCEPT ![r] = <<>>]
  BY DEF Good, Queue
<1>4. Good(s0) /\ s0 \in Queue
  BY <1>1 DEF Good
<1> HIDE DEF s0, d
<1>5. f[{}] \in G[0]
  <2>1. Oks(d, 0) = 0 /\ Paid(s0, s0, 0)
    BY OksAre, PaidSame
  <2> QED BY <1>1, <1>2, <1>4, <2>1
<1>6. ASSUME NEW k \in 1..n, f[1..(k - 1)] \in G[k - 1] PROVE f[1..k] \in G[k]
  <2> DEFINE t == f[1..(k - 1)]
             m == IF d[k].ok THEN 1 ELSE 0
  <2>0. k - 1 \in 0..n /\ k \in 0..n /\ k \in Nat /\ k - 1 \in Nat /\ k > 0 /\ m \in Nat
    BY <1>2
  <2>1. Good(t) /\ Paid(s0, t, Oks(d, k - 1))
    BY <1>6, <2>0
  <2>2. f[1..k] = OneCompletion(t, r, d[k])
    BY <1>1
  <2> HIDE DEF t
  <2>3. Good(OneCompletion(t, r, d[k])) /\ Paid(t, OneCompletion(t, r, d[k]), m)
    BY <1>2, <2>1, OneCompletionStep, OneCompletionPaid DEF Sec
  <2>4. Oks(d, k - 1) \in Nat /\ Oks(d, k) = Oks(d, k - 1) + m
    BY <2>0, OksAre
  <2> HIDE DEF m
  <2>5. Paid(s0, OneCompletion(t, r, d[k]), Oks(d, k - 1) + m)
    BY <2>0, <2>1, <2>3, <2>4, PaidTrans
  <2> QED BY <2>0, <2>2, <2>3, <2>4, <2>5 DEF Good
<1> HIDE DEF G
<1>7. f[1..n] \in G[n]
  BY <1>2, <1>5, <1>6, FoldInduction
<1> DEFINE t == f[1..n]
<1>8. Good(t) /\ Paid(s0, t, Oks(d, n))
  BY <1>2, <1>7 DEF G
<1>9. Completions(s, r) = DeliverPending(t)
  BY <1>1
<1> HIDE DEF t
<1>10. Paid(t, DeliverPending(t), 0)
  BY <1>8, DeliverPendingPaid
<1>11. Oks(d, n) \in Nat /\ 0 \in Nat
  BY <1>2, OksAre
<1>12. Oks(d, n) + 0 = Oks(d, n)
  BY <1>11
<1>13. Paid(s0, Completions(s, r), Oks(d, n))
  BY <1>8, <1>9, <1>10, <1>11, <1>12, PaidTrans
<1>14. UnreadIn(s, r) = Oks(d, n)
  BY DEF UnreadIn, d
<1>15. \A x : Covered(s, x) => Covered(s0, x)
  BY <1>3 DEF Covered, Lent, LentIn, Expected, Aside, Awaiting
<1>16. Calm(s, Completions(s, r))
  BY <1>3, <1>13 DEF Paid, Calm, Stages
<1> QED BY <1>3, <1>11, <1>13, <1>14, <1>15, <1>16 DEF Paid

LEMMA UnreadNat ==
  ASSUME NEW s \in Queue
  PROVE  Unread(s) \in Nat /\ \A r \in Rings : UnreadIn(s, r) \in Nat
<1>1. \A r \in Rings : Len(s.done[r]) \in Nat
  BY FieldTypes
<1>2. \A r \in Rings : UnreadIn(s, r) \in Nat
  BY <1>1, OksAre DEF UnreadIn
<1> QED BY <1>2 DEF Unread, Rings

\* A section lends no more than it has URBs for, and reads completions.
Quiet(s, t) ==
    /\ Calm(s, t) /\ Unread(t) <= Unread(s)
    /\ Covered(s, Unread(s)) => Covered(t, Unread(t))

LEMMA QuietTrans ==
  ASSUME NEW s \in Queue, NEW t \in Queue, NEW w \in Queue, Quiet(s, t), Quiet(t, w)
  PROVE  Quiet(s, w)
<1>1. Unread(s) \in Nat /\ Unread(t) \in Nat /\ Unread(w) \in Nat
  BY UnreadNat
<1> QED BY <1>1 DEF Quiet, Calm

LEMMA PaidQuiet ==
  ASSUME NEW s \in Queue, NEW t, Paid(s, t, 0)
  PROVE  Quiet(s, t)
<1>1. Unread(s) \in Nat
  BY UnreadNat
<1>2. Unread(t) = Unread(s) /\ Unread(s) + 0 = Unread(s)
  BY <1>1 DEF Paid, Unread, UnreadIn
<1> QED BY <1>1, <1>2 DEF Paid, Quiet

LEMMA CompletionsQuiet ==
  ASSUME NEW s, Good(s), NEW r \in Rings, Config
  PROVE  Quiet(s, Completions(s, r))
<1> DEFINE t == Completions(s, r)
<1>1. /\ Calm(s, t) /\ t.done = [s.done EXCEPT ![r] = <<>>]
      /\ \A x \in Nat : Covered(s, x + UnreadIn(s, r)) => Covered(t, x)
  BY CompletionsPaid
<1>2. Good(t) /\ s \in Queue
  BY CompletionsStep DEF Sec, Good
<1> HIDE DEF t
<1>3. /\ UnreadIn(s, "in") \in Nat /\ UnreadIn(s, "out") \in Nat /\ Unread(t) \in Nat
  BY <1>2, UnreadNat DEF Good, Rings
<1>4. \A i \in Rings : t.done[i] = IF i = r THEN <<>> ELSE s.done[i]
  BY <1>1, <1>2, FieldTypes
<1>5. Len(<<>>) = 0 /\ 0 \in Nat /\ Oks(<<>>, 0) = 0
  BY OksAre
<1>6. \A i \in Rings : UnreadIn(t, i) = IF i = r THEN 0 ELSE UnreadIn(s, i)
  BY <1>4, <1>5 DEF UnreadIn
<1>7. Unread(s) = Unread(t) + UnreadIn(s, r)
  BY <1>3, <1>6 DEF Unread, Rings
<1>8. UnreadIn(s, r) \in Nat
  BY <1>3 DEF Rings
<1>9. Unread(t) <= Unread(s)
  BY <1>3, <1>7, <1>8
<1> QED BY <1>1, <1>3, <1>7, <1>9 DEF Quiet, t

LEMMA GiveBackQuiet ==
  ASSUME NEW s \in Queue, Owned(s)
  PROVE  Paid(s, GiveBack(s), 0)
<1> DEFINE t == GiveBack(s)
<1>1. /\ t.list = s.list /\ t.ring = s.ring /\ t.done = s.done /\ t.ghosts = s.ghosts
      /\ t.flush = s.flush /\ t.loose = s.loose /\ t.stalled = s.stalled
      /\ t.active = s.active
  BY DEF GiveBack, Queue
<1>2. \A u \in URB : t.st[u] = IF u \in ToSet(s.giveback) THEN "back" ELSE s.st[u]
  BY GiveBackStep
<1> HIDE DEF t
<1>3. ASSUME NEW u \in URB, u \in ToSet(s.giveback) PROVE s.st[u] = "gone"
  BY <1>3 DEF Owned
<1>4. Awaiting(t) = Awaiting(s) /\ (Stages(s) => Stages(t))
  BY <1>2, <1>3 DEF Awaiting, Stages
<1>5. Calm(s, t)
  BY <1>1, <1>4 DEF Calm
<1>6. Lent(t) = Lent(s) /\ Expected(t) = Expected(s)
  BY <1>1, <1>4 DEF Lent, LentIn, Expected, Aside
<1>7. \A x : Covered(s, x) => Covered(t, x)
  BY <1>1, <1>6 DEF Covered
<1>8. \A x \in Nat : x + 0 = x
  OBVIOUS
<1> QED BY <1>1, <1>5, <1>7, <1>8 DEF Paid, t

-----------------------------------------------------------------------------
(* Submission, flush and resume.                                           *)

LEMMA JoinPaid ==
  ASSUME NEW s, Good(s), NEW u \in URB, s.st[u] = "new", NEW x \in Seq(Jobs)
  PROVE  Paid(s, Joining(s, u, x), 0) /\ Good(Joining(s, u, x))
<1> DEFINE t == Joining(s, u, x)
<1>1. Good(t) /\ t.st = [s.st EXCEPT ![u] = "pending"] /\ t.st[u] = "pending"
  <2>1. Joins(s, u, Joining(s, u, x))
    BY JoinStep
  <2> QED BY <2>1 DEF Joins
<1>2. /\ t.ring = s.ring /\ t.done = s.done /\ t.ghosts = s.ghosts /\ t.flush = s.flush
      /\ t.loose = s.loose /\ t.stalled = s.stalled /\ t.active = s.active
  BY DEF Joining, Good, Queue
<1> HIDE DEF t
<1>3. t.list # <<>>
  BY <1>1, EmptySequence DEF Good, Owned, Held
<1>4. s.st \in [URB -> Held \cup {"new", "gone", "back"}] /\ s \in Queue
  BY FieldTypes DEF Good
<1>5. \A v \in URB : t.st[v] = IF v = u THEN "pending" ELSE s.st[v]
  BY <1>1, <1>4
<1>6. Awaiting(t) = Awaiting(s)
  BY <1>5 DEF Awaiting
<1>8. Lent(t) = Lent(s) /\ Expected(t) = Expected(s)
  BY <1>2, <1>6 DEF Lent, LentIn, Expected, Aside
<1>9. \A y : Covered(s, y) => Covered(t, y)
  BY <1>2, <1>3, <1>8 DEF Covered
<1>10. Calm(s, t)
  BY <1>2, <1>5 DEF Calm, Stages
<1>11. \A y \in Nat : y + 0 = y
  OBVIOUS
<1> QED BY <1>1, <1>2, <1>9, <1>10, <1>11 DEF Paid, t

LEMMA CreatePaid ==
  ASSUME NEW s, Good(s), NEW u \in URB, s.st[u] = "new", Config
  PROVE  Paid(s, Create(s, u), 0)
<1> DEFINE linked == [s EXCEPT !.list = Append(@, u)]
           starts == s.active /\ s.remaining > 0
           wakes == CASE s.active -> <<>>
                   [] ~s.active /\ s.stalled -> <<"reset">>
                   [] ~s.active /\ ~s.stalled ->
                        IF "internal" \in pausedBy THEN <<"resume">> ELSE <<>>
<1>1. wakes \in Seq(Jobs) /\ <<>> \in Seq(Jobs)
  <2>0. s.active \in BOOLEAN /\ s.stalled \in BOOLEAN
    BY FieldTypes DEF Good
  <2>1. wakes \in {<<>>, <<"reset">>, <<"resume">>}
    BY <2>0
  <2>2. <<>> \in Seq(Jobs) /\ <<"reset">> \in Seq(Jobs) /\ <<"resume">> \in Seq(Jobs)
    BY DEF Jobs
  <2> HIDE DEF wakes
  <2> QED BY <2>1, <2>2
<1>2. CASE starts /\ InitFails(s, u)
  <2>1. Create(s, u) = s
    BY <1>2 DEF Create
  <2> QED BY <2>1, PaidSame
<1>3. CASE starts /\ ~InitFails(s, u)
  <2> DEFINE v == Joining(s, u, <<>>)
             t == UrbInit(linked, u)
  <2>1. Create(s, u) = DeliverPending(t)
    BY <1>3 DEF Create
  <2>2. Good(v) /\ Paid(s, v, 0) /\ v.st = [s.st EXCEPT ![u] = "pending"] /\ v.st[u] = "pending"
    BY <1>1, JoinPaid, JoinStep DEF Joins
  <2>3. /\ linked \in Queue /\ ~InitFails(linked, u) /\ linked.st = s.st
        /\ linked.ring = v.ring /\ linked.done = v.done /\ linked.active = v.active
        /\ linked.loose = v.loose /\ Frame(v, t) /\ Good(t)
    BY <1>3, JoinStart DEF Sec
  <2>4. PICK p \in Held : (kind # "control" => p \notin {"setup", "setupSent"})
                          /\ Moved(linked, t, u, p, Weight(p))
    <3> HIDE DEF linked
    <3> QED BY <2>3, UrbInitMoves
  <2> HIDE DEF linked, v, t
  <2>5. t.st = [v.st EXCEPT ![u] = p]
    <3>1. t.st = [s.st EXCEPT ![u] = p]
      BY <2>3, <2>4 DEF Moved
    <3> QED BY <2>2, <3>1, FieldTypes DEF Good
  <2>6. Lent(v) = Lent(linked)
    BY <2>3 DEF Lent, LentIn
  <2>7. Moved(v, t, u, p, Weight(p))
    BY <2>3, <2>4, <2>5, <2>6 DEF Moved
  <2>8. /\ v.st[u] \in Held /\ Weight(p) \in Nat /\ 0 \in Nat
        /\ Weight(p) + Weight(v.st[u]) <= Weight(p) + 0
    BY <2>2 DEF Held, Weight
  <2>9. Paid(v, t, 0)
    BY <2>2, <2>3, <2>4, <2>7, <2>8, MovedPaid
  <2>10. Paid(t, DeliverPending(t), 0)
    BY <2>3, DeliverPendingPaid
  <2>11. Paid(s, t, 0)
    BY <2>2, <2>9, EvenTrans
  <2> QED BY <2>1, <2>10, <2>11, EvenTrans
<1>4. CASE ~starts
  <2> DEFINE v == Joining(s, u, wakes)
  <2>1. Create(s, u) = DeliverPending(v)
    BY <1>4 DEF Create, Joining
  <2>2. Good(v) /\ Paid(s, v, 0)
    <3> HIDE DEF wakes
    <3> QED BY <1>1, JoinPaid
  <2> HIDE DEF v
  <2>3. Paid(v, DeliverPending(v), 0)
    BY <2>2, DeliverPendingPaid
  <2> QED BY <2>1, <2>2, <2>3, EvenTrans
<1> QED BY <1>2, <1>3, <1>4

\* A flush empties the rings, and none of its completions is read.
LEMMA FlushRingsSilent ==
  ASSUME NEW s \in Queue, \A r \in Rings : s.done[r] = <<>>
  PROVE  Silent(FlushRings(s)) /\ Unread(FlushRings(s)) = 0
<1> DEFINE t == FlushRings(s)
           d(r) == [i \in DOMAIN s.ring[r] |-> [urb |-> s.ring[r][i], ok |-> FALSE]]
<1>1. \A r \in Rings : t.ring[r] = <<>> /\ t.done[r] = <<>> \o d(r)
  BY DEF FlushRings, Queue
<1>2. ASSUME NEW r \in Rings
      PROVE  Len(t.done[r]) \in Nat /\ \A i \in 1..Len(t.done[r]) : ~t.done[r][i].ok
  <2> DEFINE n == Len(s.ring[r])
             e == [i \in 1..n |-> [urb |-> s.ring[r][i], ok |-> FALSE]]
  <2>1. s.ring[r] \in Seq(URB)
    BY FieldTypes
  <2>2. n \in Nat /\ DOMAIN s.ring[r] = 1..n /\ \A i \in 1..n : s.ring[r][i] \in URB
    BY <2>1
  <2>3. d(r) = e
    BY <2>2
  <2> HIDE DEF n
  <2>4. e \in [1..n -> Completion] /\ \A i \in 1..n : ~e[i].ok
    BY <2>2 DEF Completion
  <2>5. e \in Seq(Completion) /\ Len(e) = n
    BY <2>2, <2>4
  <2> HIDE DEF e, d, t
  <2>6. <<>> \o e = e
    BY <2>5
  <2>7. t.done[r] = e
    BY <1>1, <2>3, <2>6
  <2> QED BY <2>2, <2>4, <2>5, <2>7
<1> HIDE DEF t, d
<1>3. ASSUME NEW r \in Rings PROVE UnreadIn(t, r) = 0
  <2>1. {i \in 1..Len(t.done[r]) : t.done[r][i].ok} = {}
    BY <1>2
  <2> QED BY <2>1, FS_EmptySet DEF UnreadIn, Oks
<1>4. UnreadIn(t, "in") = 0 /\ UnreadIn(t, "out") = 0
  BY <1>3 DEF Rings
<1>5. Unread(t) = 0
  BY <1>4 DEF Unread
<1>6. Silent(t)
  BY <1>1 DEF Silent
<1> QED BY <1>5, <1>6 DEF t

\* An URB that is resumed lends a buffer at most if it waits from then on.
LEMMA ResumeOneLends ==
  ASSUME NEW a \in [s : Queue, stop : BOOLEAN], Good(a.s), NEW u \in URB, Config
  PROVE  LET t == ResumeOne(a, u).s
         IN /\ t.done = a.s.done /\ (Stages(a.s) => Stages(t)) /\ (a.s.loose => t.loose)
            /\ \A v \in URB : v # u => t.st[v] = a.s.st[v]
            /\ Lent(t) <= Lent(a.s) + Weight(t.st[u])
<1> DEFINE s == a.s
           t == ResumeOne(a, u).s
<1>0. /\ a.stop \in BOOLEAN /\ s \in Queue /\ Good(s)
      /\ s.st \in [URB -> Held \cup {"new", "gone", "back"}]
  BY FieldTypes
<1>00. \A p : Weight(p) \in {0, 1}
  BY DEF Weight
<1>1. CASE t = s
  <2>1. Lent(s) \in Nat
    BY <1>0, Numbers
  <2> HIDE DEF t, s
  <2>2. Lent(t) <= Lent(s) + Weight(t.st[u])
    BY <1>1, <1>00, <2>1
  <2> QED BY <1>1, <2>2 DEF t, s
<1>2. ASSUME NEW p, Moved(s, t, u, p, Weight(p)), kind # "control" /\ Stages(s) => p \notin {"setup", "setupSent"}
      PROVE  /\ t.done = s.done /\ (Stages(s) => Stages(t)) /\ (s.loose => t.loose)
             /\ \A v \in URB : v # u => t.st[v] = s.st[v]
             /\ Lent(t) <= Lent(s) + Weight(t.st[u])
  <2> HIDE DEF t, s
  <2>1. \A v \in URB : t.st[v] = IF v = u THEN p ELSE s.st[v]
    BY <1>0, <1>2 DEF Moved
  <2>2. Stages(s) => Stages(t)
    BY <1>2, <2>1 DEF Stages
  <2>3. Lent(s) \in Nat /\ Weight(p) \in Nat /\ t.st[u] = p
    BY <1>0, <1>00, <2>1, Numbers
  <2>4. Lent(t) <= Lent(s) + Weight(t.st[u])
    BY <1>2, <2>3 DEF Moved
  <2> QED BY <1>2, <2>1, <2>2, <2>4 DEF Moved
<1>3. CASE a.stop \/ (s.st[u] = "pending" /\ s.remaining = 0)
  <2>1. t = s
    BY <1>3 DEF ResumeOne
  <2> QED BY <1>1, <2>1
<1>4. CASE ~a.stop /\ s.st[u] = "pending" /\ s.remaining # 0
  <2>1. t = UrbInit(s, u)
    BY <1>4 DEF ResumeOne
  <2>2. CASE InitFails(s, u)
    <3>1. UrbInit(s, u) = s
      BY <2>2 DEF UrbInit
    <3> QED BY <1>1, <2>1, <3>1
  <2>3. CASE ~InitFails(s, u)
    <3> HIDE DEF t, s
    <3>1. PICK p \in Held : (kind # "control" => p \notin {"setup", "setupSent"})
                            /\ Moved(s, UrbInit(s, u), u, p, Weight(p))
      BY <1>0, <2>3, UrbInitMoves
    <3> QED BY <1>2, <2>1, <3>1 DEF s, t
  <2> QED BY <2>2, <2>3
<1>5. CASE ~a.stop /\ s.st[u] # "pending"
  <2>1. t = UrbResume(s, u)
    BY <1>5 DEF ResumeOne
  <2>2. CASE s.st[u] # "wait"
    <3>1. UrbResume(s, u) = s
      BY <2>2 DEF UrbResume
    <3> QED BY <1>1, <2>1, <3>1
  <2>3. CASE s.st[u] = "wait" /\ ~s.short
    <3>1. UrbResume(s, u) = DataTransferIn(s, u)
      BY <2>3 DEF UrbResume
    <3> HIDE DEF t, s
    <3>2. Moved(s, t, u, "wait", 1)
      BY <1>0, <2>1, <3>1, DataTransferInMoves
    <3>3. Weight("wait") = 1
      BY DEF Weight
    <3> QED BY <1>2, <3>2, <3>3 DEF s, t
  <2>4. CASE s.st[u] = "wait" /\ s.short
    <3>1. UrbResume(s, u) = UrbComplete(s, u)
      BY <2>4 DEF UrbResume
    <3> HIDE DEF t, s
    <3>2. t.st = [s.st EXCEPT ![u] = "gone"] /\ t.ring = s.ring /\ t.done = s.done /\ t.loose = s.loose
      BY <1>0, <2>1, <3>1 DEF UrbComplete, Queue
    <3>3. \A v \in URB : t.st[v] = IF v = u THEN "gone" ELSE s.st[v]
      BY <1>0, <3>2
    <3>4. Lent(t) = Lent(s) /\ Lent(s) \in Nat
      BY <1>0, <3>2, Numbers DEF Lent, LentIn
    <3>5. Lent(t) <= Lent(s) + Weight(t.st[u])
      BY <1>00, <3>4
    <3>6. Stages(s) => Stages(t)
      BY <3>3 DEF Stages
    <3> QED BY <3>2, <3>3, <3>5, <3>6 DEF s, t
  <2> QED BY <2>2, <2>3, <2>4
<1> QED BY <1>0, <1>3, <1>4, <1>5

\* The URBs that wait, of the first k of the list
Early(t, l, k) == {u \in Awaiting(t) : \E j \in 1..k : l[j] = u}

Grown(s, t, l, k) ==
    /\ Cardinality(Early(s, l, k - 1)) \in Nat
    /\ Cardinality(Early(t, l, k)) = Cardinality(Early(s, l, k - 1)) + Weight(t.st[l[k]])

LEMMA EarlyGrows ==
  ASSUME NEW l \in Seq(URB), Distinct(l), NEW k \in 1..Len(l), NEW s, NEW t,
         \A v \in URB : v # l[k] => t.st[v] = s.st[v]
  PROVE  Grown(s, t, l, k)
<1> DEFINE u == l[k]
           A == Early(s, l, k - 1)
<1>1. /\ u \in URB /\ k \in DOMAIN l /\ k \in 1..k /\ k \in Int
      /\ \A j \in 1..(k - 1) : j \in DOMAIN l /\ j # k /\ j \in 1..k
      /\ \A j \in 1..k : j = k \/ j \in 1..(k - 1)
  OBVIOUS
<1>2. \A j \in 1..(k - 1) : l[j] # u
  BY <1>1 DEF Distinct
<1>3. IsFiniteSet(A) /\ Cardinality(A) \in Nat
  BY UrbFinite DEF Early, Awaiting
<1>4. u \notin A
  BY <1>2 DEF Early
<1>5. \A v \in URB \ {u} : v \in Awaiting(t) <=> v \in Awaiting(s)
  BY DEF Awaiting
<1>6. u \in Awaiting(t) <=> Weight(t.st[u]) = 1
  BY <1>1 DEF Awaiting, Weight
<1>7. Awaiting(t) \subseteq URB /\ Awaiting(s) \subseteq URB
  BY DEF Awaiting
<1> HIDE DEF u
<1>8. Early(t, l, k) = IF Weight(t.st[u]) = 1 THEN A \cup {u} ELSE A
  <2>1. ASSUME NEW v \in URB \ {u} PROVE v \in Early(t, l, k) <=> v \in A
    BY <1>1, <1>5 DEF Early, u
  <2>2. u \in Early(t, l, k) <=> Weight(t.st[u]) = 1
    BY <1>1, <1>6 DEF Early, u
  <2>3. Early(t, l, k) \subseteq URB /\ A \subseteq URB
    BY <1>7 DEF Early
  <2> HIDE DEF A
  <2> QED BY <1>4, <2>1, <2>2, <2>3
<1> HIDE DEF A
<1>9. Cardinality(A \cup {u}) = Cardinality(A) + 1
  BY <1>3, <1>4, FS_AddElement
<1>10. Weight(t.st[u]) \in {0, 1}
  BY DEF Weight
<1>11. Cardinality(Early(t, l, k)) = Cardinality(A) + Weight(t.st[u])
  BY <1>3, <1>8, <1>9, <1>10
<1> QED BY <1>3, <1>11 DEF A, u, Grown

\* When the queue is activated nothing is lent; then what waits is lent again.
LEMMA ActivateCovered ==
  ASSUME NEW s, Good(s), Config
  PROVE  LET t == Activate(s)
         IN /\ t.done = s.done /\ (Stages(s) => Stages(t)) /\ (s.loose => t.loose)
            /\ Silent(s) => Covered(t, 0)
<1> DEFINE l == s.list
           n == Len(l)
           s1 == [s EXCEPT !.active = TRUE]
           V(k) == {a \in [s : Queue, stop : BOOLEAN] :
                      /\ Good(a.s) /\ a.s.done = s.done /\ (Stages(s) => Stages(a.s))
                      /\ s.loose => a.s.loose
                      /\ Silent(s) => Lent(a.s) <= Cardinality(Early(a.s, l, k))}
           G == [k \in 0..n |-> V(k)]
<1>1. PICK f : /\ Activate(s) = DeliverPending(f[1..n].s)
               /\ f[{}] = [s |-> s1, stop |-> FALSE]
               /\ Good(f[{}].s)
               /\ \A k \in 1..n : f[1..k] = ResumeOne(f[1..(k - 1)], l[k])
  BY ActivateLoop
<1>2. l \in Seq(URB) /\ n \in Nat /\ Distinct(l) /\ \A k \in 1..n : l[k] \in URB
  BY FieldTypes DEF Good, Owned
<1>3. /\ s1.ring = s.ring /\ s1.done = s.done /\ s1.st = s.st /\ s1.loose = s.loose
  BY DEF Good, Queue
<1>g. Good(s1)
  <2>1. f[{}].s = s1
    BY <1>1
  <2> HIDE DEF s1
  <2> QED BY <1>1, <2>1
<1> HIDE DEF s1, l, n
<1>4. f[{}] \in G[0]
  <2>1. Silent(s) => Lent(s) = 0
    BY SilentIs DEF Good
  <2>2. (Silent(s) => Lent(s1) = 0) /\ (Stages(s) => Stages(s1))
    BY <1>3, <2>1 DEF Lent, LentIn, Stages
  <2>3. Early(s1, l, 0) = {}
    BY DEF Early
  <2>4. Silent(s) => Lent(s1) <= Cardinality(Early(s1, l, 0))
    BY <2>2, <2>3, FS_EmptySet
  <2>5. f[{}] \in V(0)
    BY <1>1, <1>3, <1>g, <2>2, <2>4 DEF Good
  <2> QED BY <1>2, <2>5
<1>5. ASSUME NEW k \in 1..n, f[1..(k - 1)] \in G[k - 1] PROVE f[1..k] \in G[k]
  <2> DEFINE a == f[1..(k - 1)]
             b == ResumeOne(a, l[k])
  <2>0. k - 1 \in 0..n /\ k \in 0..n
    BY <1>2
  <2>1. a \in V(k - 1)
    BY <1>5, <2>0
  <2>2. b \in [s : Queue, stop : BOOLEAN] /\ Good(b.s)
    BY <1>2, <2>1, ResumeOneStep DEF Sec
  <2>3. /\ b.s.done = a.s.done /\ (Stages(a.s) => Stages(b.s)) /\ (a.s.loose => b.s.loose)
        /\ \A v \in URB : v # l[k] => b.s.st[v] = a.s.st[v]
        /\ Lent(b.s) <= Lent(a.s) + Weight(b.s.st[l[k]])
    BY <1>2, <2>1, ResumeOneLends
  <2>4. /\ Cardinality(Early(a.s, l, k - 1)) \in Nat
        /\ Cardinality(Early(b.s, l, k)) = Cardinality(Early(a.s, l, k - 1)) + Weight(b.s.st[l[k]])
    <3> HIDE DEF a, b
    <3>1. k \in 1..Len(l) /\ \A v \in URB : v # l[k] => b.s.st[v] = a.s.st[v]
      BY <2>3 DEF n
    <3> DEFINE x == a.s
               y == b.s
    <3>2. l \in Seq(URB) /\ Distinct(l) /\ \A v \in URB : v # l[k] => y.st[v] = x.st[v]
      BY <1>2, <3>1
    <3> HIDE DEF x, y, V, G
    <3>3. Grown(x, y, l, k)
      BY <3>1, <3>2, EarlyGrows
    <3> QED BY <3>3 DEF x, y, Grown
  <2>5. Lent(a.s) \in Nat /\ Lent(b.s) \in Nat /\ Weight(b.s.st[l[k]]) \in {0, 1}
    <3> HIDE DEF b
    <3> QED BY <2>1, <2>2, Numbers DEF Weight
  <2>6. Silent(s) => Lent(a.s) <= Cardinality(Early(a.s, l, k - 1))
    BY <2>1
  <2>7. Silent(s) => Lent(b.s) <= Cardinality(Early(b.s, l, k))
    <3> HIDE DEF a, b
    <3> QED BY <2>3, <2>4, <2>5, <2>6
  <2>8. b \in V(k)
    <3>1. a.s.done = s.done /\ (Stages(s) => Stages(a.s)) /\ (s.loose => a.s.loose)
      BY <2>1
    <3> HIDE DEF a, b
    <3> QED BY <2>2, <2>3, <2>7, <3>1
  <2>9. f[1..k] = b
    BY <1>1
  <2> HIDE DEF b
  <2> QED BY <2>0, <2>8, <2>9
<1> HIDE DEF G
<1>6. f[1..n] \in G[n]
  BY <1>2, <1>4, <1>5, FoldInduction
<1> DEFINE w == f[1..n].s
<1>7. /\ Good(w) /\ w.done = s.done /\ (Stages(s) => Stages(w)) /\ (s.loose => w.loose)
      /\ Silent(s) => Lent(w) <= Cardinality(Early(w, l, n))
  BY <1>2, <1>6 DEF G
<1>8. Activate(s) = DeliverPending(w)
  BY <1>1
<1> HIDE DEF w
<1>9. Paid(w, DeliverPending(w), 0)
  BY <1>7, DeliverPendingPaid
<1>10. ASSUME Silent(s) PROVE Covered(w, 0)
  <2>1. IsFiniteSet(Awaiting(w)) /\ Early(w, l, n) \subseteq Awaiting(w)
    BY UrbFinite DEF Awaiting, Early
  <2>2. /\ Cardinality(Early(w, l, n)) <= Cardinality(Awaiting(w))
        /\ Cardinality(Early(w, l, n)) \in Nat
    BY <2>1, FS_Subset, FS_CardinalityType
  <2>3. /\ Lent(w) \in Nat /\ Cardinality(Awaiting(w)) \in Nat /\ w.ghosts \in Nat
        /\ Aside(w) \in Nat
    BY <1>7, Numbers DEF Good
  <2>4. Lent(w) + 0 <= Expected(w)
    BY <1>7, <1>10, <2>2, <2>3 DEF Expected
  <2>5. w.list = <<>> => Lent(w) + 0 = 0
    BY <1>7, <1>10, <2>2, <2>3, NoneAwaits
  <2> QED BY <2>4, <2>5 DEF Covered
<1>11. 0 + 0 = 0 /\ 0 \in Nat
  OBVIOUS
<1>12. Silent(s) => Covered(DeliverPending(w), 0)
  BY <1>9, <1>10, <1>11 DEF Paid
<1> QED BY <1>7, <1>8, <1>9, <1>12 DEF Paid, Calm

-----------------------------------------------------------------------------
(* What is lent, from step to step.                                        *)

\* The same, said of the queue after the step
LEMMA Afterwards ==
  ASSUME UNCHANGED config
  PROVE  /\ Stages(q)' <=> Stages(q')
         /\ Silent(q)' <=> Silent(q')
         /\ Unread(q)' = Unread(q')
         /\ Covered(q, Unread(q))' <=> Covered(q', Unread(q'))
         /\ IInv' => q' \in Queue /\ Owned(q') /\ (hcpriv' # "destroyed" => Good(q'))
<1>0. kind' = kind /\ limit' = limit
  BY DEF config
<1>1. Stages(q)' <=> Stages(q')
  BY <1>0 DEF Stages, URB
<1>2. Silent(q)' <=> Silent(q')
  BY DEF Silent, Rings
<1>3. Unread(q)' = Unread(q')
  BY DEF Unread, UnreadIn, Oks
<1>4. Lent(q)' = Lent(q') /\ Expected(q)' = Expected(q')
  BY DEF Lent, LentIn, Expected, Awaiting, Aside, URB
<1>5. Covered(q, Unread(q))' <=> Covered(q', Unread(q'))
  BY <1>0, <1>3, <1>4 DEF Covered
<1>6. ASSUME IInv' PROVE q' \in Queue /\ Owned(q') /\ (hcpriv' # "destroyed" => Good(q'))
  <2>1. (q \in Queue)' /\ Owned(q)' /\ (hcpriv' # "destroyed" => Slots(q)')
    BY <1>6 DEF IInv
  <2>2. q' \in Queue
    BY <2>1 DEF Queue, Completion, URB, Rings
  <2>3. Owned(q')
    BY <2>1 DEF Owned, URB
  <2>4. Slots(q)' => Slots(q')
    BY <1>0 DEF Slots, Running, Waiting, URB
  <2> QED BY <2>1, <2>2, <2>3, <2>4 DEF Good
<1> QED BY <1>1, <1>2, <1>3, <1>5, <1>6

LEMMA FlowNext ==
  ASSUME UNCHANGED config,
         t2' = [run |-> t2'.run, stage |-> t2'.stage, fwPause |-> t2'.fwPause],
         "suspend" \in pausedBy' => pm' # "run",
         hcpriv' = "set" =>
           /\ Stages(q') /\ (q'.odd => q'.loose)
           /\ work'.pc \in {"drain", "setPaused", "flush", "removePending"} => ~q'.active,
         hcpriv' = "set" /\ ~q'.loose =>
           /\ "suspend" \notin pausedBy' => Covered(q', Unread(q'))
           /\ pm' = "setPaused" => ~q'.active /\ Silent(q')
           /\ Stopped' # {} =>
                /\ ~q'.active /\ Silent(q')
                /\ Unread(q') = 0 \/ ("suspend" \in pausedBy' /\ pm' = "asleep" /\ ~t2'.run)
  PROVE  FlagInv' /\ LentInv'
<1>1. FlagInv'
  BY Afterwards DEF FlagInv
<1>2. LentInv'
  BY Afterwards DEF LentInv
<1> QED BY <1>1, <1>2

\* A step that moves the queue on, and pauses or resumes nothing.
LEMMA GoesOn ==
  ASSUME IInv, IInv', FlagInv, LentInv, UNCHANGED <<config, hcpriv>>,
         "suspend" \in pausedBy' <=> "suspend" \in pausedBy,
         pm' = pm \/ (pm # "asleep" /\ pm' \notin {"setPaused", "run"}),
         t2' = [run |-> t2'.run, stage |-> t2'.stage, fwPause |-> t2'.fwPause],
         t2'.run => t2.run \/ "suspend" \notin pausedBy \/ pm # "asleep",
         Stopped' # {} => Stopped # {} \/ q'.loose,
         work'.pc \in {"drain", "setPaused", "flush", "removePending"} =>
            ~q'.active \/ work.pc \in {"drain", "setPaused", "flush", "removePending"},
         q'.odd => q.odd \/ q'.loose,
         Quiet(q, q')
  PROVE  FlagInv' /\ LentInv'
<1>1. UNCHANGED config /\ hcpriv' = hcpriv
  OBVIOUS
<1>2. Unread(q) \in Nat /\ Unread(q') \in Nat
  BY <1>1, Afterwards, Begin, UnreadNat
<1>3. /\ Calm(q, q') /\ Unread(q') <= Unread(q)
      /\ Covered(q, Unread(q)) => Covered(q', Unread(q'))
  BY DEF Quiet
<1>4. "suspend" \in pausedBy' => pm' # "run"
  BY DEF FlagInv
<1>5. ASSUME hcpriv' = "set"
      PROVE  /\ Stages(q') /\ (q'.odd => q'.loose)
             /\ work'.pc \in {"drain", "setPaused", "flush", "removePending"} => ~q'.active
  BY <1>1, <1>3, <1>5 DEF FlagInv, Calm
<1>6. ASSUME hcpriv' = "set", ~q'.loose
      PROVE  /\ "suspend" \notin pausedBy' => Covered(q', Unread(q'))
             /\ pm' = "setPaused" => ~q'.active /\ Silent(q')
             /\ Stopped' # {} =>
                  /\ ~q'.active /\ Silent(q')
                  /\ Unread(q') = 0 \/ ("suspend" \in pausedBy' /\ pm' = "asleep" /\ ~t2'.run)
  <2>1. hcpriv = "set" /\ ~q.loose
    BY <1>1, <1>3, <1>6 DEF Calm
  <2>2. "suspend" \notin pausedBy' => Covered(q', Unread(q'))
    BY <1>3, <2>1 DEF LentInv
  <2>3. ~q.active /\ Silent(q) => ~q'.active /\ Silent(q')
    BY <1>3, <1>6 DEF Calm, Silent
  <2>4. pm' = "setPaused" => ~q'.active /\ Silent(q')
    BY <2>1, <2>3 DEF LentInv
  <2>5. ASSUME Stopped' # {}
        PROVE  /\ ~q'.active /\ Silent(q')
               /\ Unread(q') = 0 \/ ("suspend" \in pausedBy' /\ pm' = "asleep" /\ ~t2'.run)
    <3>1. /\ ~q.active /\ Silent(q)
          /\ Unread(q) = 0 \/ ("suspend" \in pausedBy /\ pm = "asleep" /\ ~t2.run)
      BY <1>6, <2>1, <2>5 DEF LentInv
    <3>2. Unread(q) = 0 => Unread(q') = 0
      BY <1>2, <1>3
    <3> QED BY <2>3, <3>1, <3>2
  <2> QED BY <2>2, <2>4, <2>5
<1> HIDE DEF FlagInv, LentInv
<1> QED BY <1>1, <1>4, <1>5, <1>6, FlowNext

LEMMA StaysOn ==
  ASSUME IInv, IInv', FlagInv, LentInv, UNCHANGED <<config, hcpriv, pausedBy, work, pm>>,
         t2' = [run |-> t2'.run, stage |-> t2'.stage, fwPause |-> t2'.fwPause],
         t2'.run => t2.run, q'.odd = q.odd, Quiet(q, q')
  PROVE  FlagInv' /\ LentInv'
<1>1. UNCHANGED <<config, hcpriv>> /\ pausedBy' = pausedBy /\ pm' = pm /\ work' = work
  OBVIOUS
<1>2. Stopped' = Stopped
  BY <1>1 DEF Stopped
<1> QED BY <1>1, <1>2, GoesOn

\* The end of a section
LEMMA Shut ==
  ASSUME NEW s \in Queue
  PROVE  LET t == [s EXCEPT !.short = FALSE, !.want = <<>>]
         IN t \in Queue /\ Alike(s, t) /\ t.odd = s.odd
<1>1. <<>> \in Seq(Jobs)
  OBVIOUS
<1> DEFINE t == [s EXCEPT !.short = FALSE, !.want = <<>>]
<1>2. t \in Queue
  BY <1>1 DEF Queue, Alike
<1>3. Alike(s, t) /\ t.odd = s.odd
  BY SMTT(40) DEF Queue, Alike
<1> QED BY <1>2, <1>3

LEMMA SectionQuiet ==
  ASSUME IInv, Alive, NEW b \in BOOLEAN, NEW c, Good(c), Sides([q EXCEPT !.short = b], c),
         Quiet([q EXCEPT !.short = b], c),
         q' = [GiveBack(c) EXCEPT !.short = FALSE, !.want = <<>>]
  PROVE  Quiet(q, q') /\ q'.odd = q.odd
<1> DEFINE q1 == [q EXCEPT !.short = b]
           s == GiveBack(c)
<1>1. Good(q) /\ q \in Queue
  BY Begin
<1>2. Alike(q, q1) /\ q1.odd = q.odd
  BY <1>1 DEF Queue, Alike
<1>3. Good(q1)
  BY <1>1, SectionStart
<1> HIDE DEF q1
<1>4. Quiet(q, q1)
  BY <1>1, <1>2, AlikePaid, PaidQuiet
<1>5. Good(c) /\ Sides(q1, c) /\ Quiet(q1, c)
  BY DEF q1
<1>6. Quiet(q, c)
  BY <1>1, <1>3, <1>4, <1>5, QuietTrans DEF Good
<1>7. Good(s) /\ Sides(c, s) /\ Paid(c, s, 0)
  BY <1>5, GiveBackStep, GiveBackQuiet DEF Good
<1>8. q' = [s EXCEPT !.short = FALSE, !.want = <<>>]
  OBVIOUS
<1> HIDE DEF s
<1>9. Alike(s, q') /\ q'.odd = s.odd
  BY <1>7, <1>8, Shut DEF Good
<1>10. Paid(c, q', 0)
  BY <1>7, <1>9, AlikePaid, EvenTrans
<1>11. Quiet(c, q')
  BY <1>5, <1>10, PaidQuiet DEF Good
<1>12. q' \in Queue
  BY <1>7, <1>8, Shut DEF Good
<1>13. Quiet(q, q')
  BY <1>1, <1>5, <1>6, <1>11, <1>12, QuietTrans DEF Good
<1>14. q'.odd = q.odd
  BY <1>2, <1>5, <1>7, <1>9 DEF Sides
<1> QED BY <1>13, <1>14

\* The step leaves t2 alone, or the T2 moves on.
LEMMA T2Same ==
  ASSUME FlagInv, UNCHANGED t2 \/ \E stage : t2' = [t2 EXCEPT !.stage = stage]
                               \/ t2' = [t2 EXCEPT !.fwPause = ~@]
  PROVE  t2' = [run |-> t2'.run, stage |-> t2'.stage, fwPause |-> t2'.fwPause] /\ t2'.run = t2.run
<1>1. t2 = [run |-> t2.run, stage |-> t2.stage, fwPause |-> t2.fwPause]
  BY DEF FlagInv
<1>2. CASE UNCHANGED t2
  BY <1>1, <1>2
<1>3. ASSUME NEW stage, t2' = [t2 EXCEPT !.stage = stage]
      PROVE  t2' = [run |-> t2'.run, stage |-> t2'.stage, fwPause |-> t2'.fwPause] /\ t2'.run = t2.run
  <2>1. t2' = [run |-> t2.run, stage |-> stage, fwPause |-> t2.fwPause]
    BY <1>1, <1>3
  <2> QED BY <2>1
<1>4. CASE t2' = [t2 EXCEPT !.fwPause = ~@]
  <2>1. t2' = [run |-> t2.run, stage |-> t2.stage, fwPause |-> ~t2.fwPause]
    BY <1>1, <1>4
  <2> QED BY <2>1
<1> QED BY <1>2, <1>3, <1>4

LEMMA UrbCreateFlow ==
  ASSUME IInv, IInv', FlagInv, LentInv, NEW u \in URB, UrbCreate(u)
  PROVE  FlagInv' /\ LentInv'
<1>1. PICK b \in BOOLEAN :
         q' = [GiveBack(Create([q EXCEPT !.short = b], u)) EXCEPT !.short = FALSE, !.want = <<>>]
  BY DEF UrbCreate, Section
<1> DEFINE q1 == [q EXCEPT !.short = b]
           c == Create(q1, u)
<1>2. /\ Alive /\ q.st[u] = "new" /\ UNCHANGED t2
      /\ UNCHANGED <<config, hcpriv, pausedBy, work, pm>>
  BY DEF UrbCreate, Attached
<1>3. Good(q) /\ Config
  BY <1>2, Begin
<1>5. Good(q1) /\ q1.st[u] = "new"
  BY <1>2, <1>3, SectionStart
<1>6. Good(c) /\ Sides(q1, c) /\ Quiet(q1, c)
  <2> HIDE DEF q1
  <2> QED BY <1>3, <1>5, CreateStep, CreatePaid, PaidQuiet DEF Good
<1>7. q' = [GiveBack(c) EXCEPT !.short = FALSE, !.want = <<>>]
  BY <1>1
<1> HIDE DEF c
<1>8. Quiet(q, q') /\ q'.odd = q.odd
  BY <1>2, <1>6, <1>7, SectionQuiet
<1>9. t2' = [run |-> t2'.run, stage |-> t2'.stage, fwPause |-> t2'.fwPause] /\ t2'.run = t2.run
  BY <1>2, T2Same
<1> HIDE DEF FlagInv, LentInv
<1> QED BY <1>2, <1>8, <1>9, StaysOn

LEMMA HandleEventFlow ==
  ASSUME IInv, IInv', FlagInv, LentInv, HandleEvent
  PROVE  FlagInv' /\ LentInv'
<1>1. PICK b \in BOOLEAN :
         q' = [GiveBack(QueueEvent([q EXCEPT !.short = b], Head(events)))
                 EXCEPT !.short = FALSE, !.want = <<>>]
  BY DEF HandleEvent, Section
<1> DEFINE q1 == [q EXCEPT !.short = b]
           c == QueueEvent(q1, Head(events))
<1>2. /\ Alive /\ events # <<>> /\ UNCHANGED t2
      /\ UNCHANGED <<config, hcpriv, pausedBy, work, pm>>
  BY DEF HandleEvent
<1>3. Good(q) /\ Config /\ events \in Seq(Messages)
  BY <1>2, Begin
<1>4. Head(events) \in Messages
  BY <1>2, <1>3, Popped
<1>5. Good(q1)
  BY <1>3, SectionStart
<1>6. Good(c) /\ Sides(q1, c) /\ Quiet(q1, c)
  <2> HIDE DEF q1
  <2> QED BY <1>3, <1>4, <1>5, QueueEventStep, QueueEventPaid, PaidQuiet, SecSides DEF Good
<1>7. q' = [GiveBack(c) EXCEPT !.short = FALSE, !.want = <<>>]
  BY <1>1
<1> HIDE DEF c
<1>8. Quiet(q, q') /\ q'.odd = q.odd
  BY <1>2, <1>6, <1>7, SectionQuiet
<1>9. t2' = [run |-> t2'.run, stage |-> t2'.stage, fwPause |-> t2'.fwPause] /\ t2'.run = t2.run
  BY <1>2, T2Same
<1> QED BY <1>2, <1>8, <1>9, StaysOn

LEMMA HandleCompletionsFlow ==
  ASSUME IInv, IInv', FlagInv, LentInv, NEW r \in Rings, HandleCompletions(r)
  PROVE  FlagInv' /\ LentInv'
<1>1. PICK b \in BOOLEAN :
         q' = [GiveBack(Completions([q EXCEPT !.short = b], r))
                 EXCEPT !.short = FALSE, !.want = <<>>]
  BY DEF HandleCompletions, Section
<1> DEFINE q1 == [q EXCEPT !.short = b]
           c == Completions(q1, r)
<1>2. /\ Alive /\ UNCHANGED t2 /\ UNCHANGED <<config, hcpriv, pausedBy, work, pm>>
  BY DEF HandleCompletions
<1>3. Good(q) /\ Config
  BY <1>2, Begin
<1>5. Good(q1)
  BY <1>3, SectionStart
<1>6. Good(c) /\ Sides(q1, c) /\ Quiet(q1, c)
  <2> HIDE DEF q1
  <2> QED BY <1>3, <1>5, CompletionsStep, CompletionsQuiet, SecSides DEF Good
<1>7. q' = [GiveBack(c) EXCEPT !.short = FALSE, !.want = <<>>]
  BY <1>1
<1> HIDE DEF c
<1>8. Quiet(q, q') /\ q'.odd = q.odd
  BY <1>2, <1>6, <1>7, SectionQuiet
<1>9. t2' = [run |-> t2'.run, stage |-> t2'.stage, fwPause |-> t2'.fwPause] /\ t2'.run = t2.run
  BY <1>2, T2Same
<1> QED BY <1>2, <1>8, <1>9, StaysOn

LEMMA CancelFlow ==
  ASSUME IInv, IInv', FlagInv, LentInv, NEW u \in URB, UrbRequestCancel(u)
  PROVE  FlagInv' /\ LentInv'
<1>1. /\ Alive /\ u \in Linked(q) /\ UNCHANGED t2 /\ hcpriv # "destroyed"
      /\ UNCHANGED <<config, hcpriv, pausedBy, work, pm>>
      /\ IF FlushFirst(q, u) THEN q' = [Cancel(q, u) EXCEPT !.flush = Append(@, u)]
                             ELSE q' = [Cancel(q, u) EXCEPT !.st[u] = "back"]
  BY DEF UrbRequestCancel, Attached, Alive
<1>2. Good(q) /\ Config /\ q \in Queue
  BY <1>1, Begin
<1>3. Good(q') /\ q' \in Queue
  BY <1>1, Afterwards DEF Good
<1>4. q.st[u] \in Held
  BY <1>1, <1>2 DEF Good, Owned, Linked
<1> DEFINE p == IF FlushFirst(q, u) THEN "gone" ELSE "back"
           ghost == kind # "control" /\ q.st[u] = "wait"
           fl == IF FlushFirst(q, u) THEN Append(q.flush, u) ELSE q.flush
<1>5. /\ q'.st = [q.st EXCEPT ![u] = p] /\ q'.flush = fl
      /\ q'.ghosts = IF ghost THEN q.ghosts + 1 ELSE q.ghosts
      /\ q'.list = RemoveFirst(q.list, u)
      /\ q'.ring = q.ring /\ q'.done = q.done /\ q'.loose = q.loose
      /\ q'.stalled = q.stalled /\ q'.active = q.active /\ q'.odd = q.odd
  <2>1. CASE FlushFirst(q, u)
    <3>1. q' = [Cancel(q, u) EXCEPT !.flush = Append(@, u)]
      BY <1>1, <2>1
    <3> QED BY <1>2, <2>1, <3>1 DEF Queue, Cancel
  <2>2. CASE ~FlushFirst(q, u)
    <3>1. q' = [Cancel(q, u) EXCEPT !.st[u] = "back"]
      BY <1>1, <2>2
    <3> QED BY <1>2, <2>2, <3>1 DEF Queue, Cancel
  <2> QED BY <2>1, <2>2
<1>6. /\ Cardinality(Awaiting(q')) + Weight(q.st[u]) = Cardinality(Awaiting(q)) + Weight(p)
      /\ Cardinality(Awaiting(q')) \in Nat /\ Cardinality(Awaiting(q)) \in Nat
  <2>1. q.st \in [URB -> Held \cup {"new", "gone", "back"}]
    BY <1>2, FieldTypes
  <2> HIDE DEF p
  <2> QED BY <1>5, <2>1, AwaitChange
<1>7. Weight(p) = 0
  BY DEF Weight
<1>8. Stages(q) => Stages(q')
  BY <1>5 DEF Stages
<1>9. /\ Aside(q) \in Nat
      /\ FlushFirst(q, u) => Aside(q') = Aside(q) + 1
      /\ ~FlushFirst(q, u) => Aside(q') = Aside(q)
  <2>1. q.flush \in Seq(URB)
    BY <1>2, FieldTypes
  <2> QED BY <1>5, <2>1 DEF Aside
<1> DEFINE a == Cardinality(Awaiting(q))
           b == Cardinality(Awaiting(q'))
           w == Weight(q.st[u])
<1>e. /\ a \in Nat /\ b \in Nat /\ w \in {0, 1} /\ b + w = a
      /\ Expected(q) = a + q.ghosts + Aside(q) /\ Expected(q') = b + q'.ghosts + Aside(q')
  <2>1. w \in {0, 1} /\ Weight(p) = 0
    BY DEF Weight
  <2>2. b + w = a + Weight(p) /\ a \in Nat /\ b \in Nat
    BY <1>6
  <2>3. Expected(q) = a + q.ghosts + Aside(q) /\ Expected(q') = b + q'.ghosts + Aside(q')
    BY DEF Expected
  <2> HIDE DEF a, b, w, p
  <2> QED BY <2>1, <2>2, <2>3
<1>g. q.ghosts \in Nat
  BY <1>2, Numbers
<1>10. ASSUME Stages(q) PROVE Expected(q) <= Expected(q')
  <2>1. CASE ghost
    <3>1. q'.ghosts = q.ghosts + 1
      BY <1>5, <2>1
    <3> HIDE DEF p, ghost, a, b, w
    <3> QED BY <1>9, <1>e, <1>g, <3>1
  <2>2. CASE kind = "control" /\ q.st[u] # "pending"
    <3>1. q'.ghosts = q.ghosts /\ FlushFirst(q, u)
      BY <1>5, <2>2 DEF FlushFirst
    <3> HIDE DEF p, ghost, a, b, w
    <3> QED BY <1>9, <1>e, <1>g, <3>1
  <2>3. CASE ~ghost /\ ~(kind = "control" /\ q.st[u] # "pending")
    <3>1. q'.ghosts = q.ghosts
      BY <1>5, <2>3
    <3>2. w = 0
      BY <1>2, <1>4, <1>10, <2>3 DEF Weight, Stages, Config
    <3> HIDE DEF p, ghost, a, b, w
    <3> QED BY <1>9, <1>e, <1>g, <3>1, <3>2
  <2> QED BY <2>1, <2>2, <2>3
<1> HIDE DEF a, b, w
<1>11. q'.list = <<>> /\ q'.flush = <<>> => q'.ghosts = 0
  <2> SUFFICES ASSUME q'.list = <<>>, q'.flush = <<>> PROVE q'.ghosts = 0
    OBVIOUS
  <2>1. ~FlushFirst(q, u)
    <3> SUFFICES ASSUME FlushFirst(q, u) PROVE FALSE
      OBVIOUS
    <3>1. q'.flush = Append(q.flush, u) /\ q.flush \in Seq(URB)
      BY <1>2, <1>5, FieldTypes
    <3> QED BY <3>1
  <2>2. Cancel(q, u).ghosts = q'.ghosts /\ Cancel(q, u).list = q'.list
    BY <1>2, <1>5 DEF Cancel, Queue
  <2>3. ~(q'.ghosts > 0)
    BY <2>1, <2>2 DEF FlushFirst
  <2>4. q'.ghosts \in Nat
    BY <1>3, Numbers
  <2> QED BY <2>3, <2>4
<1>12. Lent(q') = Lent(q) /\ Unread(q') = Unread(q)
  BY <1>5 DEF Lent, LentIn, Unread, UnreadIn
<1>13. Unread(q) \in Nat /\ Lent(q) \in Nat /\ Expected(q) \in Nat /\ Expected(q') \in Nat
  BY <1>2, <1>3, Numbers, UnreadNat
<1> HIDE DEF p, ghost, fl
<1>s. hcpriv = "set" => Stages(q)
  BY DEF FlagInv
<1>14. ASSUME Stages(q) PROVE Quiet(q, q')
  <2>1. Calm(q, q')
    BY <1>5, <1>8 DEF Calm
  <2>2. ASSUME Covered(q, Unread(q)) PROVE Covered(q', Unread(q'))
    <3>1. Lent(q') + Unread(q') + Expected(q) <= Lent(q) + Unread(q) + Expected(q')
      BY <1>10, <1>12, <1>13, <1>14
    <3> QED BY <1>2, <1>3, <1>5, <1>11, <1>12, <1>13, <2>2, <3>1, Weigh
  <2> QED BY <1>12, <1>13, <2>1, <2>2 DEF Quiet
<1>15. t2' = [run |-> t2'.run, stage |-> t2'.stage, fwPause |-> t2'.fwPause] /\ t2'.run = t2.run
  BY <1>1, T2Same
<1>16. CASE hcpriv = "set"
  BY <1>1, <1>5, <1>14, <1>15, <1>s, <1>16, StaysOn
<1>17. CASE hcpriv # "set"
  <2>1. hcpriv' # "set" /\ ("suspend" \in pausedBy' => pm' # "run")
    BY <1>1, <1>17 DEF FlagInv
  <2> QED BY <1>1, <1>15, <2>1, FlowNext
<1> QED BY <1>16, <1>17

\* The queue is left alone.
LEMMA SameFlow ==
  ASSUME IInv, IInv', FlagInv, LentInv, UNCHANGED <<config, q, hcpriv, pausedBy, work, pm>>,
         t2' = [run |-> t2'.run, stage |-> t2'.stage, fwPause |-> t2'.fwPause], t2'.run = t2.run
  PROVE  FlagInv' /\ LentInv'
<1>1. q' = q /\ UNCHANGED <<config, hcpriv, pausedBy, work, pm>>
  OBVIOUS
<1>2. Quiet(q, q')
  BY <1>1, PaidSame, PaidQuiet, Begin
<1> QED BY <1>1, <1>2, StaysOn

LEMMA OthersFlow ==
  ASSUME IInv, IInv', FlagInv, LentInv,
         RequestReset \/ RecoveryStart \/ T2Ask \/ T2Status \/ T2Stall \/ T2Pause \/ UNCHANGED vars
  PROVE  FlagInv' /\ LentInv'
<1>1. /\ UNCHANGED <<config, q, hcpriv, pausedBy, work, pm>>
      /\ UNCHANGED t2 \/ \E stage : t2' = [t2 EXCEPT !.stage = stage]
                      \/ t2' = [t2 EXCEPT !.fwPause = ~@]
  <2>1. CASE RequestReset \/ RecoveryStart
    BY <2>1 DEF RequestReset, RecoveryStart
  <2>2. CASE T2Ask
    BY <2>2 DEF T2Ask, T2Step
  <2>3. CASE T2Status
    BY <2>3 DEF T2Status, T2Step
  <2>4. CASE T2Stall
    BY <2>4 DEF T2Stall, T2Step
  <2>5. CASE T2Pause
    BY <2>5 DEF T2Pause
  <2>6. CASE UNCHANGED vars
    BY <2>6 DEF vars, config
  <2> QED BY <2>1, <2>2, <2>3, <2>4, <2>5, <2>6
<1>2. t2' = [run |-> t2'.run, stage |-> t2'.stage, fwPause |-> t2'.fwPause] /\ t2'.run = t2.run
  BY <1>1, T2Same
<1> QED BY <1>1, <1>2, SameFlow

\* A completion that is not of a flush is one more.
LEMMA OneMore ==
  ASSUME NEW d \in Seq(Completion), NEW c \in Completion, c.ok
  PROVE  Oks(Append(d, c), Len(Append(d, c))) = Oks(d, Len(d)) + 1
<1> DEFINE e == Append(d, c)
           n == Len(d)
<1>1. n \in Nat /\ Len(e) = n + 1 /\ e[n + 1] = c /\ \A i \in 1..n : e[i] = d[i]
  OBVIOUS
<1> HIDE DEF e, n
<1>2. Oks(e, n) = Oks(d, n)
  <2>1. {i \in 1..n : e[i].ok} = {i \in 1..n : d[i].ok}
    BY <1>1
  <2> QED BY <2>1 DEF Oks
<1>3. n + 1 \in Nat /\ n + 1 > 0 /\ (n + 1) - 1 = n
  BY <1>1
<1>4. Oks(e, n + 1) = Oks(e, n) + (IF e[n + 1].ok THEN 1 ELSE 0)
  BY <1>3, OksAre
<1> QED BY <1>1, <1>2, <1>4 DEF e, n

LEMMA T2CompleteFlow ==
  ASSUME IInv, IInv', FlagInv, LentInv, NEW r \in Rings, T2Complete(r)
  PROVE  FlagInv' /\ LentInv'
<1>1. /\ Alive /\ q.ring[r] # <<>> /\ \E stage : t2' = [t2 EXCEPT !.stage = stage]
      /\ UNCHANGED <<config, hcpriv, pausedBy, work, pm>>
      /\ q' = [q EXCEPT !.ring[r] = Tail(@),
                        !.done[r] = Append(@, [urb |-> q.ring[r][1], ok |-> TRUE])]
  BY DEF T2Complete, T2Step
<1>2. q \in Queue /\ q' \in Queue
  BY <1>1, Begin, Afterwards
<1> DEFINE c == [urb |-> q.ring[r][1], ok |-> TRUE]
<1>3. /\ q'.list = q.list /\ q'.st = q.st /\ q'.ghosts = q.ghosts /\ q'.flush = q.flush
      /\ q'.loose = q.loose /\ q'.stalled = q.stalled /\ q'.active = q.active /\ q'.odd = q.odd
      /\ q'.ring = [q.ring EXCEPT ![r] = Tail(@)]
      /\ q'.done = [q.done EXCEPT ![r] = Append(@, c)]
  BY <1>1, <1>2 DEF Queue
<1>4. /\ q.ring \in [Rings -> Seq(URB)] /\ q.done \in [Rings -> Seq(Completion)]
      /\ q.ring[r] \in Seq(URB) /\ q.done[r] \in Seq(Completion)
  BY <1>2, FieldTypes
<1>5. c \in Completion /\ c.ok
  <2>1. q.ring[r][1] \in URB
    BY <1>1, <1>4, Popped
  <2> QED BY <2>1 DEF Completion
<1> HIDE DEF c
<1>6. LentIn(q', r) + 1 = LentIn(q, r) /\ \A x \in Rings \ {r} : LentIn(q', x) = LentIn(q, x)
  <2>1. q'.ring[r] = Tail(q.ring[r]) /\ \A x \in Rings \ {r} : q'.ring[x] = q.ring[x]
    BY <1>3, <1>4
  <2>2. Len(Tail(q.ring[r])) + 1 = Len(q.ring[r])
    BY <1>1, <1>4
  <2> QED BY <2>1, <2>2 DEF LentIn
<1>7. UnreadIn(q', r) = UnreadIn(q, r) + 1 /\ \A x \in Rings \ {r} : UnreadIn(q', x) = UnreadIn(q, x)
  <2>1. q'.done[r] = Append(q.done[r], c) /\ \A x \in Rings \ {r} : q'.done[x] = q.done[x]
    BY <1>3, <1>4
  <2>2. UnreadIn(q', r) = UnreadIn(q, r) + 1
    BY <1>4, <1>5, <2>1, OneMore DEF UnreadIn
  <2> QED BY <2>1, <2>2 DEF UnreadIn
<1>8. /\ \A x \in Rings : LentIn(q, x) \in Nat /\ LentIn(q', x) \in Nat
      /\ \A x \in Rings : UnreadIn(q, x) \in Nat /\ UnreadIn(q', x) \in Nat
  BY <1>2, Numbers, UnreadNat
<1>9. Lent(q') + Unread(q') = Lent(q) + Unread(q)
  BY <1>6, <1>7, <1>8 DEF Lent, Unread, Rings
<1>10. Expected(q') = Expected(q) /\ (Stages(q) => Stages(q')) /\ ~Silent(q)
  BY <1>1, <1>3 DEF Expected, Awaiting, Aside, Stages, Silent
<1>11. Covered(q, Unread(q)) => Covered(q', Unread(q'))
  BY <1>3, <1>9, <1>10 DEF Covered
<1>12. t2' = [run |-> t2'.run, stage |-> t2'.stage, fwPause |-> t2'.fwPause]
  BY <1>1, T2Same
<1>13. Stopped' = Stopped /\ hcpriv' = hcpriv /\ pausedBy' = pausedBy /\ pm' = pm /\ work' = work
  BY <1>1 DEF Stopped
<1>14. "suspend" \in pausedBy' => pm' # "run"
  BY <1>13 DEF FlagInv
<1>15. ASSUME hcpriv' = "set"
       PROVE  /\ Stages(q') /\ (q'.odd => q'.loose)
              /\ work'.pc \in {"drain", "setPaused", "flush", "removePending"} => ~q'.active
  BY <1>3, <1>10, <1>13, <1>15 DEF FlagInv
<1>16. ASSUME hcpriv' = "set", ~q'.loose
       PROVE  /\ "suspend" \notin pausedBy' => Covered(q', Unread(q'))
              /\ pm' # "setPaused" /\ Stopped' = {}
  BY <1>3, <1>10, <1>11, <1>13, <1>16 DEF LentInv
<1> HIDE DEF FlagInv, LentInv
<1> QED BY <1>1, <1>12, <1>14, <1>15, <1>16, FlowNext

\* The commands change t2 to what the T2 makes of it, or not.
LEMMA T2Changes ==
  ASSUME FlagInv, NEW after, Answered(after) \/ Failed(after),
         (\E b \in BOOLEAN : after = T2SetState(b)) \/ after = T2Reset
  PROVE  /\ t2' = [run |-> t2'.run, stage |-> t2'.stage, fwPause |-> t2'.fwPause]
         /\ after = T2SetState(FALSE) \/ after = T2Reset => (t2'.run => t2.run)
         /\ after = T2SetState(FALSE) /\ Answered(after) => ~t2'.run
<1>1. t2 = [run |-> t2.run, stage |-> t2.stage, fwPause |-> t2.fwPause]
  BY DEF FlagInv
<1>2. t2' = t2 \/ t2' = after
  BY DEF Answered, Failed
<1>3. ASSUME NEW b \in BOOLEAN
      PROVE  /\ \E stage : T2SetState(b) = [run |-> b, stage |-> stage, fwPause |-> t2.fwPause]
             /\ T2SetState(b).run = b
  <2> DEFINE stage == CASE b /\ t2.stage = "asked" -> "idle"
                        [] b /\ t2.stage = "dataAsked" -> "dataOut"
                        [] OTHER -> t2.stage
  <2>1. T2SetState(b) = [t2 EXCEPT !.run = b, !.stage = stage]
    BY <1>1 DEF T2SetState
  <2> HIDE DEF stage
  <2>2. T2SetState(b) = [run |-> b, stage |-> stage, fwPause |-> t2.fwPause]
    BY <1>1, <2>1
  <2> QED BY <2>2
<1>4. T2Reset = [run |-> t2.run, stage |-> "idle", fwPause |-> t2.fwPause]
  BY <1>1 DEF T2Reset
<1>5. \E b, stage : after = [run |-> b, stage |-> stage, fwPause |-> t2.fwPause]
  BY <1>3, <1>4
<1>6. t2' = [run |-> t2'.run, stage |-> t2'.stage, fwPause |-> t2'.fwPause]
  BY <1>1, <1>2, <1>5
<1>7. (after = T2SetState(FALSE) => ~after.run) /\ (after = T2Reset => after.run = t2.run)
  <2>1. ~T2SetState(FALSE).run
    BY <1>3
  <2>2. T2Reset.run = t2.run
    BY <1>4
  <2> QED BY <2>1, <2>2
<1>8. Answered(after) => t2' = after
  BY DEF Answered
<1> QED BY <1>2, <1>6, <1>7, <1>8

LEMMA AlikeQuiet == ASSUME NEW s \in Queue, NEW t, Alike(s, t) PROVE Quiet(s, t)
  BY AlikePaid, PaidQuiet

LEMMA Unlocked ==
  ASSUME IInv, lock # "wq"
  PROVE  /\ Stopped = pausedBy
         /\ work.pc \notin {"drain", "setPaused", "flush", "removePending"}
  BY DEF IInv, WorkInv, Locked, Stopped

LEMMA PauseBeginFlow ==
  ASSUME IInv, IInv', FlagInv, LentInv, NEW job \in {"flush", "fwPause"}, PauseBegin(job)
  PROVE  FlagInv' /\ LentInv'
<1>1. /\ NextWork(job) /\ lock = "none" /\ UNCHANGED <<config, hcpriv>> /\ pm' = pm /\ t2' = t2
  BY DEF PauseBegin
<1>2. q \in Queue /\ Stopped = pausedBy
  BY <1>1, Begin, Unlocked
<1>3. Source(job) # "suspend"
  BY DEF Source
<1>4. t2' = [run |-> t2'.run, stage |-> t2'.stage, fwPause |-> t2'.fwPause]
  BY <1>1, T2Same
<1>5. Alike(q, q') /\ q'.odd = q.odd
  <2>1. CASE pausedBy # {}
    <3>1. q' = [q EXCEPT !.loose = @ \/ InFlight(q) # {}]
      BY <2>1 DEF PauseBegin
    <3> QED BY <1>2, <3>1 DEF Queue, Alike
  <2>2. CASE pausedBy = {}
    <3>1. q' = [q EXCEPT !.active = FALSE, !.evq = <<>>, !.loose = @ \/ recovering]
      BY <2>2 DEF PauseBegin
    <3> QED BY <1>2, <3>1 DEF Queue, Alike
  <2> QED BY <2>1, <2>2
<1>6. Quiet(q, q')
  BY <1>2, <1>5, AlikeQuiet
<1>7. CASE pausedBy # {} \/ recovering
  <2>1. pausedBy' = pausedBy \cup {Source(job)} /\ Start(job, AfterPause(job))
    BY <1>7 DEF PauseBegin
  <2>2. "suspend" \in pausedBy' <=> "suspend" \in pausedBy
    BY <1>3, <2>1
  <2>3. work'.pc \in {"idle", "epReset", "reclaim"}
    <3>1. AfterPause(job) \in {"idle", "epReset", "reclaim"}
      BY AfterPauseIs
    <3>2. work'.pc = AfterPause(job)
      BY <2>1 DEF Start, Idle
    <3> QED BY <3>1, <3>2
  <2>4. Stopped # {} \/ q'.loose
    <3>1. CASE pausedBy = {}
      <4>1. q' = [q EXCEPT !.active = FALSE, !.evq = <<>>, !.loose = @ \/ recovering] /\ recovering
        BY <1>7, <3>1 DEF PauseBegin
      <4> QED BY <1>2, <4>1 DEF Queue
    <3> QED BY <1>2, <3>1
  <2> HIDE DEF FlagInv, LentInv
  <2> QED BY <1>1, <1>4, <1>5, <1>6, <2>2, <2>3, <2>4, GoesOn
<1>8. CASE ~(pausedBy # {} \/ recovering)
  <2>1. pausedBy' = {} /\ pausedBy = {}
    BY <1>8 DEF PauseBegin
  <2>2. Stopped' = {}
    BY <2>1 DEF Stopped
  <2>3. ~q'.active
    <3>1. q' = [q EXCEPT !.active = FALSE, !.evq = <<>>, !.loose = @ \/ recovering]
      BY <1>8 DEF PauseBegin
    <3> QED BY <1>2, <3>1 DEF Queue
  <2> QED BY <1>1, <1>4, <1>5, <1>6, <2>1, <2>2, <2>3, GoesOn
<1> QED BY <1>7, <1>8

LEMMA DrainFlow ==
  ASSUME IInv, IInv', FlagInv, LentInv, Drain
  PROVE  FlagInv' /\ LentInv'
<1>1. /\ Alive /\ work.pc = "drain" /\ q' = q /\ t2' = t2 /\ UNCHANGED <<config, hcpriv>>
      /\ pausedBy' = pausedBy /\ pm' = pm /\ work' = [work EXCEPT !.pc = "setPaused"]
  BY DEF Drain, At
<1>2. work = [job |-> work.job, pc |-> work.pc] /\ work.job # "reset"
  BY <1>1 DEF IInv, WorkInv, JobsAt
<1>3. work' = [job |-> work.job, pc |-> "setPaused"]
  BY <1>1, <1>2
<1>4. Stopped' = Stopped /\ work'.pc = "setPaused"
  BY <1>1, <1>2, <1>3 DEF Stopped
<1>5. Quiet(q, q')
  BY <1>1, Begin, PaidSame, PaidQuiet
<1>6. t2' = [run |-> t2'.run, stage |-> t2'.stage, fwPause |-> t2'.fwPause]
  BY <1>1, T2Same
<1> QED BY <1>1, <1>4, <1>5, <1>6, GoesOn

LEMMA SetPausedFlow ==
  ASSUME IInv, IInv', FlagInv, LentInv, SetPaused
  PROVE  FlagInv' /\ LentInv'
<1>1. /\ Alive /\ work.pc = "setPaused" /\ UNCHANGED <<config, hcpriv>>
      /\ pausedBy' = pausedBy /\ pm' = pm
  BY DEF SetPaused, At
<1>2. WorkInv /\ work.job \in {"flush", "fwPause"} /\ q \in Queue
  BY <1>1, Begin DEF IInv, WorkInv, JobsAt
<1>3. CASE (Answered(T2SetState(FALSE)) \/ Failed(T2SetState(FALSE))) /\ Goto("flush") /\ q' = q
  <2>1. work'.job = work.job /\ work'.pc = "flush"
    BY <1>2, <1>3, WorkMoves
  <2>2. Stopped' = Stopped
    BY <1>1, <1>2, <2>1 DEF Stopped
  <2>3. Quiet(q, q')
    BY <1>2, <1>3, PaidSame, PaidQuiet
  <2>4. /\ t2' = [run |-> t2'.run, stage |-> t2'.stage, fwPause |-> t2'.fwPause]
        /\ t2'.run => t2.run
    BY <1>3, T2Changes
  <2> HIDE DEF FlagInv, LentInv
  <2> QED BY <1>1, <1>3, <2>1, <2>2, <2>3, <2>4, GoesOn
<1>4. CASE q' = [q EXCEPT !.odd = TRUE, !.loose = TRUE] /\ Goto(AfterPause(work.job)) /\ t2' = t2
  <2>1. Alike(q, q') /\ q'.loose
    BY <1>2, <1>4 DEF Queue, Alike
  <2>2. Quiet(q, q')
    BY <1>2, <2>1, AlikeQuiet
  <2>3. t2' = [run |-> t2'.run, stage |-> t2'.stage, fwPause |-> t2'.fwPause]
    BY <1>4, T2Same
  <2> QED BY <1>1, <1>4, <2>1, <2>2, <2>3, GoesOn
<1> QED BY <1>3, <1>4 DEF SetPaused

LEMMA FlushQueuesFlow ==
  ASSUME IInv, IInv', FlagInv, LentInv, FlushQueues
  PROVE  FlagInv' /\ LentInv'
<1>1. /\ Alive /\ work.pc = "flush" /\ UNCHANGED <<config, hcpriv>> /\ pm' = pm
      /\ pausedBy' = pausedBy \/ pausedBy' = pausedBy \cup {Source(work.job)}
  BY DEF FlushQueues, At
<1>2. WorkInv /\ lock = "wq" /\ q \in Queue /\ work.job \in {"flush", "fwPause", "reset"}
  BY <1>1, Begin DEF IInv, WorkInv, Locked, JobsAt
<1>3. pm \notin {"setPaused", "setActive", "activate"}
  BY <1>2 DEF IInv, PmInv
<1>4. "suspend" \in pausedBy' <=> "suspend" \in pausedBy
  BY <1>1 DEF Source
<1>5. work'.pc \in {"idle", "epReset", "reclaim"}
  <2>1. AfterPause(work.job) \in {"idle", "epReset", "reclaim"} \/ work.job = "reset"
    BY <1>2, AfterPauseIs
  <2>2. work = [job |-> work.job, pc |-> work.pc]
    BY <1>2 DEF WorkInv
  <2>3. \E pc \in {"idle", "epReset", "reclaim"} : Goto(pc)
    BY <2>1 DEF FlushQueues
  <2>4. PICK pc \in {"idle", "epReset", "reclaim"} : Goto(pc)
    BY <2>3
  <2>5. CASE pc = "idle"
    BY <2>4, <2>5 DEF Goto, Idle
  <2>6. CASE pc # "idle"
    BY <1>2, <2>4, <2>6, WorkMoves
  <2> QED BY <2>5, <2>6
<1>6. q'.st = q.st /\ q'.active = q.active /\ q'.odd = q.odd /\ (q.loose => q'.loose)
  <2>1. CASE q' = [FlushRings(q) EXCEPT !.loose = @ \/ \E r \in Rings : q.done[r] # <<>>]
    BY <1>2, <2>1 DEF FlushRings, Queue
  <2>2. CASE q' = [q EXCEPT !.loose = TRUE]
    BY <1>2, <2>2 DEF Queue
  <2> QED BY <2>1, <2>2 DEF FlushQueues
<1>7. t2' = [run |-> t2'.run, stage |-> t2'.stage, fwPause |-> t2'.fwPause]
  <2>1. UNCHANGED t2
    BY DEF FlushQueues, Failed
  <2> QED BY <2>1, T2Same
<1>8. "suspend" \in pausedBy' => pm' # "run"
  BY <1>1, <1>4 DEF FlagInv
<1>9. ASSUME hcpriv' = "set" PROVE Stages(q') /\ (q'.odd => q'.loose)
  BY <1>1, <1>6, <1>9 DEF FlagInv, Stages
<1>10. ASSUME hcpriv' = "set", ~q'.loose
       PROVE  ~q'.active /\ Silent(q') /\ Unread(q') = 0 /\ Covered(q', Unread(q'))
  <2>1. ~q'.active
    BY <1>1, <1>6, <1>10 DEF FlagInv
  <2>2. CASE q' = [FlushRings(q) EXCEPT !.loose = @ \/ \E r \in Rings : q.done[r] # <<>>]
    <3> DEFINE s == FlushRings(q)
    <3>1. s.loose = q.loose
      BY <1>2 DEF FlushRings, Queue
    <3>2. \A r \in Rings : q.done[r] = <<>>
      <4>1. q'.loose = (q.loose \/ \E r \in Rings : q.done[r] # <<>>)
        BY <1>2, <2>2 DEF FlushRings, Queue
      <4> QED BY <1>10, <4>1
    <3>3. Silent(s) /\ Unread(s) = 0
      BY <1>2, <3>2, FlushRingsSilent
    <3>4. q'.ring = s.ring /\ q'.done = s.done
      BY <1>2, <2>2 DEF FlushRings, Queue
    <3> HIDE DEF s
    <3>5. Silent(q') /\ Unread(q') = 0
      BY <3>3, <3>4 DEF Silent, Unread, UnreadIn
    <3>6. Covered(q', 0)
      BY <1>1, <3>5, Afterwards, SilentCovered
    <3> QED BY <2>1, <3>5, <3>6
  <2>3. CASE q' = [q EXCEPT !.loose = TRUE]
    BY <1>2, <1>10, <2>3 DEF Queue
  <2> QED BY <2>2, <2>3 DEF FlushQueues
<1> HIDE DEF FlagInv, LentInv
<1> QED BY <1>1, <1>3, <1>5, <1>7, <1>8, <1>9, <1>10, FlowNext

LEMMA EndpointResetFlow ==
  ASSUME IInv, IInv', FlagInv, LentInv, EndpointReset
  PROVE  FlagInv' /\ LentInv'
<1>1. /\ Alive /\ work.pc = "epReset" /\ UNCHANGED <<config, hcpriv>> /\ pm' = pm
      /\ pausedBy' = pausedBy
  BY DEF EndpointReset, At
<1>2. WorkInv /\ q \in Queue /\ work.job \in {"flush", "reset"}
  BY <1>1, Begin DEF IInv, WorkInv, JobsAt
<1>3. /\ t2' = [run |-> t2'.run, stage |-> t2'.stage, fwPause |-> t2'.fwPause]
      /\ t2'.run => t2.run
  <2>1. Answered(T2Reset) \/ Failed(T2Reset)
    BY DEF EndpointReset
  <2> HIDE DEF FlagInv
  <2> QED BY <2>1, T2Changes
<1>4. work'.pc \in {"resume", "reclaim"} /\ work'.job = work.job
  <2>1. Goto("resume") \/ Goto("reclaim")
    BY DEF EndpointReset
  <2> QED BY <1>2, <2>1, WorkMoves
<1>5. Stopped' = pausedBy /\ Stopped = pausedBy
  BY <1>1, <1>4 DEF Stopped
<1>6. CASE work.job = "flush"
  <2>1. q' = q
    BY <1>6 DEF EndpointReset
  <2>2. Quiet(q, q')
    BY <1>2, <2>1, PaidSame, PaidQuiet
  <2> HIDE DEF FlagInv, LentInv
  <2> QED BY <1>1, <1>3, <1>4, <1>5, <2>1, <2>2, GoesOn
<1>7. CASE work.job = "reset"
  <2>1. q' = [q EXCEPT !.stalled = FALSE]
    BY <1>7 DEF EndpointReset
  <2>2. /\ q'.st = q.st /\ q'.ring = q.ring /\ q'.done = q.done /\ q'.loose = q.loose
        /\ q'.odd = q.odd /\ q'.active = q.active
    BY <1>2, <2>1 DEF Queue
  <2>3. "internal" \in pausedBy
    BY <1>1, <1>2, <1>7 DEF WorkInv
  <2>4. ASSUME hcpriv' = "set" PROVE Stages(q') /\ (q'.odd => q'.loose)
    BY <1>1, <2>2, <2>4 DEF FlagInv, Stages
  <2>5. Unread(q') = Unread(q) /\ (Silent(q) => Silent(q'))
    BY <2>2 DEF Unread, UnreadIn, Silent
  <2>6. ASSUME hcpriv' = "set", ~q'.loose
        PROVE  /\ ~q'.active /\ Silent(q')
               /\ Unread(q') = 0 \/ ("suspend" \in pausedBy' /\ pm' = "asleep" /\ ~t2'.run)
    BY <1>1, <1>3, <1>5, <2>2, <2>3, <2>5, <2>6 DEF LentInv
  <2>7. Silent(q') /\ Unread(q') = 0 => Covered(q', Unread(q'))
    BY <1>1, Afterwards, SilentCovered
  <2>8. "suspend" \in pausedBy' => pm' # "run"
    BY <1>1 DEF FlagInv
  <2> HIDE DEF FlagInv, LentInv
  <2> QED BY <1>1, <1>3, <1>4, <2>4, <2>6, <2>7, <2>8, FlowNext
<1> QED BY <1>2, <1>6, <1>7

LEMMA ReclaimFlow ==
  ASSUME IInv, IInv', FlagInv, LentInv, Reclaim
  PROVE  FlagInv' /\ LentInv'
<1>1. /\ Alive /\ work.pc = "reclaim" /\ UNCHANGED <<config, hcpriv>> /\ pm' = pm
      /\ pausedBy' = pausedBy /\ t2' = t2 /\ Goto("resume")
  BY DEF Reclaim, At
<1>2. WorkInv /\ q \in Queue /\ work.job = "flush"
  BY <1>1, Begin DEF IInv, WorkInv, JobsAt
<1>3. work'.pc = "resume" /\ work'.job = "flush"
  BY <1>1, <1>2, WorkMoves
<1>4. Stopped' = pausedBy /\ Stopped = pausedBy
  BY <1>1, <1>3 DEF Stopped
<1>5. /\ q'.st = q.st /\ q'.ring = q.ring /\ q'.done = q.done /\ q'.loose = q.loose
      /\ q'.odd = q.odd /\ q'.active = q.active
  BY <1>2 DEF Reclaim, Queue
<1>6. "internal" \in pausedBy \/ q.odd
  BY <1>1, <1>2 DEF WorkInv
<1>7. ASSUME hcpriv' = "set" PROVE Stages(q') /\ (q'.odd => q'.loose)
  BY <1>1, <1>5, <1>7 DEF FlagInv, Stages
<1>8. Unread(q') = Unread(q) /\ (Silent(q) => Silent(q'))
  BY <1>5 DEF Unread, UnreadIn, Silent
<1>9. ASSUME hcpriv' = "set", ~q'.loose
      PROVE  /\ ~q'.active /\ Silent(q')
             /\ Unread(q') = 0 \/ ("suspend" \in pausedBy' /\ pm' = "asleep" /\ ~t2'.run)
  <2>1. "internal" \in pausedBy
    BY <1>1, <1>5, <1>6, <1>9 DEF FlagInv
  <2> QED BY <1>1, <1>4, <1>5, <1>8, <1>9, <2>1 DEF LentInv
<1>10. Silent(q') /\ Unread(q') = 0 => Covered(q', Unread(q'))
  BY <1>1, Afterwards, SilentCovered
<1>11. "suspend" \in pausedBy' => pm' # "run"
  BY <1>1 DEF FlagInv
<1>12. t2' = [run |-> t2'.run, stage |-> t2'.stage, fwPause |-> t2'.fwPause]
  BY <1>1, T2Same
<1> HIDE DEF FlagInv, LentInv
<1> QED BY <1>1, <1>3, <1>7, <1>9, <1>10, <1>11, <1>12, FlowNext

LEMMA EndedPaid ==
  ASSUME NEW s, Good(s), NEW job
  PROVE  Paid(s, Ended(job, s), 0) /\ Ended(job, s).odd = s.odd
<1>1. CASE job = "flush"
  <2>1. Ended(job, s) = GiveBack(s)
    BY <1>1 DEF Ended
  <2> QED BY <2>1, GiveBackQuiet, GiveBackStep DEF Good, Sides
<1>2. CASE job # "flush"
  <2>1. Ended(job, s) = s
    BY <1>2 DEF Ended
  <2> QED BY <2>1, PaidSame
<1> QED BY <1>1, <1>2

LEMMA ResumeFlow ==
  ASSUME IInv, IInv', FlagInv, LentInv, Alive, NEW job \in Jobs, Resume(job)
  PROVE  FlagInv' /\ LentInv'
<1>1. lock = "none" /\ UNCHANGED <<config, hcpriv>> /\ pm' = pm /\ t2' = t2
  BY DEF Resume
<1>2. Stopped = pausedBy /\ Good(q) /\ q \in Queue /\ Source(job) # "suspend"
  BY <1>1, Begin, Unlocked, SourceIn
<1>3. t2' = [run |-> t2'.run, stage |-> t2'.stage, fwPause |-> t2'.fwPause]
  BY <1>1, T2Same
<1>4. Quiet(q, q') /\ q'.odd = q.odd
  <2>1. CASE q' = q
    BY <1>2, <2>1, PaidSame, PaidQuiet
  <2>2. CASE q' = Ended(job, q)
    BY <1>2, <2>2, EndedPaid, PaidQuiet
  <2> QED BY <2>1, <2>2 DEF Resume
<1>5. work'.pc \in {"idle", "setActive"}
  BY DEF Resume, Goto, Start, Idle
<1>6. Stopped' \subseteq pausedBy /\ ("suspend" \in pausedBy' <=> "suspend" \in pausedBy)
  <2>1. pausedBy' = pausedBy \/ pausedBy' = pausedBy \ {Source(job)}
    BY DEF Resume
  <2> QED BY <1>2, <1>5, <2>1 DEF Stopped
<1> HIDE DEF FlagInv, LentInv
<1> QED BY <1>1, <1>2, <1>3, <1>4, <1>5, <1>6, GoesOn

LEMMA SetActiveFlow ==
  ASSUME IInv, IInv', FlagInv, LentInv, SetActive
  PROVE  FlagInv' /\ LentInv'
<1>1. /\ Alive /\ work.pc = "setActive" /\ UNCHANGED <<config, hcpriv>> /\ pm' = pm
      /\ pausedBy' = pausedBy /\ (Answered(T2SetState(TRUE)) \/ Failed(T2SetState(TRUE)))
  BY DEF SetActive, At
<1>2. /\ WorkInv /\ Good(q) /\ q \in Queue /\ pausedBy = {Source(work.job)}
      /\ "suspend" \notin pausedBy
  BY <1>1, Begin DEF IInv, WorkInv, Source
<1>3. Stopped = pausedBy
  BY <1>1 DEF Stopped
<1>4. t2' = [run |-> t2'.run, stage |-> t2'.stage, fwPause |-> t2'.fwPause]
  BY <1>1, T2Changes
<1>5. Quiet(q, q') /\ q'.odd = q.odd
  <2>1. CASE q' = q
    BY <1>2, <2>1, PaidSame, PaidQuiet
  <2>2. CASE q' = Ended(work.job, q)
    BY <1>2, <2>2, EndedPaid, PaidQuiet
  <2> QED BY <2>1, <2>2 DEF SetActive
<1>6. work'.pc \in {"activate", "idle"}
  <2>1. Goto("activate") \/ Goto("idle")
    BY DEF SetActive
  <2>2. CASE Goto("activate")
    BY <1>2, <2>2, WorkMoves
  <2>3. CASE Goto("idle")
    BY <2>3 DEF Goto, Idle
  <2> QED BY <2>1, <2>2, <2>3
<1>7. Stopped' = pausedBy
  BY <1>1, <1>6 DEF Stopped
<1> HIDE DEF FlagInv, LentInv
<1> QED BY <1>1, <1>2, <1>3, <1>4, <1>5, <1>6, <1>7, GoesOn

LEMMA ActivateFlow ==
  ASSUME IInv, Alive, NEW b \in BOOLEAN, NEW job,
         q' = [Ended(job, Activate([q EXCEPT !.short = b])) EXCEPT !.short = FALSE, !.want = <<>>]
  PROVE  /\ Stages(q) => Stages(q')
         /\ q.loose => q'.loose
         /\ q'.odd = q.odd
         /\ Silent(q) /\ Unread(q) = 0 => Covered(q', Unread(q'))
<1> DEFINE q1 == [q EXCEPT !.short = b]
           c == Activate(q1)
           s == Ended(job, c)
<1>1. Good(q) /\ Config
  BY Begin
<1>2. Good(q1) /\ Alike(q, q1) /\ q1.odd = q.odd
  <2>1. Good(q1)
    BY <1>1, SectionStart
  <2>2. Alike(q, q1) /\ q1.odd = q.odd
    BY <1>1 DEF Good, Queue, Alike
  <2> QED BY <2>1, <2>2
<1> HIDE DEF q1
<1>3. /\ c.done = q1.done /\ (Stages(q1) => Stages(c)) /\ (q1.loose => c.loose)
      /\ Silent(q1) => Covered(c, 0)
  BY <1>1, <1>2, ActivateCovered
<1>4. Good(c) /\ c.odd = q1.odd
  BY <1>1, <1>2, ActivateStep DEF Sec, Kept
<1> HIDE DEF c
<1>5. Paid(c, s, 0) /\ s.odd = c.odd /\ Good(s)
  BY <1>4, EndedPaid, EndedStep
<1>6. q' = [s EXCEPT !.short = FALSE, !.want = <<>>]
  BY DEF c, q1
<1> HIDE DEF s
<1>7. Alike(s, q') /\ q'.odd = s.odd
  BY <1>5, <1>6, Shut DEF Good
<1>8. Paid(c, q', 0)
  BY <1>5, <1>7, AlikePaid, EvenTrans
<1>9. /\ Stages(c) => Stages(q')
      /\ c.loose => q'.loose
      /\ q'.done = c.done
      /\ Covered(c, 0) => Covered(q', 0)
  <2>1. 0 + 0 = 0 /\ 0 \in Nat
    OBVIOUS
  <2>2. Covered(c, 0 + 0) => Covered(q', 0)
    BY <1>8, <2>1 DEF Paid
  <2> QED BY <1>8, <2>1, <2>2 DEF Paid, Calm
<1>10. Unread(q') = Unread(q)
  BY <1>2, <1>3, <1>9 DEF Alike, Unread, UnreadIn
<1>11. (Stages(q) => Stages(q1)) /\ (q.loose => q1.loose) /\ (Silent(q) => Silent(q1))
  BY <1>2 DEF Alike, Stages, Silent
<1> QED BY <1>2, <1>3, <1>4, <1>5, <1>7, <1>9, <1>10, <1>11

LEMMA DoResumeFlow ==
  ASSUME IInv, IInv', FlagInv, LentInv, DoResume
  PROVE  FlagInv' /\ LentInv'
<1>1. PICK b \in BOOLEAN :
         q' = [Ended(work.job, Activate([q EXCEPT !.short = b]))
                 EXCEPT !.short = FALSE, !.want = <<>>]
  BY DEF DoResume, Section
<1>2. /\ Alive /\ work.pc = "activate" /\ pausedBy' = pausedBy \ {Source(work.job)}
      /\ UNCHANGED <<config, hcpriv>> /\ pm' = pm /\ t2' = t2 /\ work' = Idle
  BY DEF DoResume, At, Goto
<1>3. lock = "wq" /\ pausedBy = {Source(work.job)} /\ "suspend" \notin pausedBy
  BY <1>2 DEF IInv, WorkInv, Locked, Source
<1>4. pausedBy' = {} /\ Stopped' = {} /\ Stopped = pausedBy /\ work'.pc = "idle"
  BY <1>2, <1>3 DEF Stopped, Idle
<1>5. pm # "setPaused"
  BY <1>3 DEF IInv, PmInv
<1>6. /\ Stages(q) => Stages(q')
      /\ q.loose => q'.loose
      /\ q'.odd = q.odd
      /\ Silent(q) /\ Unread(q) = 0 => Covered(q', Unread(q'))
  BY <1>1, <1>2, ActivateFlow
<1>7. ASSUME hcpriv' = "set" PROVE Stages(q') /\ (q'.odd => q'.loose)
  BY <1>2, <1>6, <1>7 DEF FlagInv
<1>8. ASSUME hcpriv' = "set", ~q'.loose PROVE Covered(q', Unread(q'))
  BY <1>2, <1>3, <1>4, <1>6, <1>8 DEF LentInv
<1>9. t2' = [run |-> t2'.run, stage |-> t2'.stage, fwPause |-> t2'.fwPause]
  BY <1>2, T2Same
<1> HIDE DEF FlagInv, LentInv
<1> QED BY <1>2, <1>4, <1>5, <1>7, <1>8, <1>9, FlowNext

LEMMA ResetBeginFlow ==
  ASSUME IInv, IInv', FlagInv, LentInv, ResetBegin
  PROVE  FlagInv' /\ LentInv'
<1>1. /\ Alive /\ lock = "none" /\ UNCHANGED <<config, hcpriv>> /\ pm' = pm /\ t2' = t2
  BY DEF ResetBegin, NextWork
<1>2. q \in Queue /\ Stopped = pausedBy
  BY <1>1, Begin, Unlocked
<1>3. t2' = [run |-> t2'.run, stage |-> t2'.stage, fwPause |-> t2'.fwPause]
  BY <1>1, T2Same
<1>4. CASE q.stalled
  <2>1. /\ q' = [q EXCEPT !.active = FALSE] /\ pausedBy' = pausedBy \cup {"internal"}
        /\ Start("reset", "removePending")
    BY <1>4 DEF ResetBegin
  <2>2. Alike(q, q') /\ q'.odd = q.odd /\ ~q'.active
    BY <1>2, <2>1 DEF Queue, Alike
  <2>3. Quiet(q, q')
    BY <1>2, <2>2, AlikeQuiet
  <2>4. work'.job = "reset" /\ work'.pc = "removePending"
    BY <2>1, WorkStarts
  <2>5. Stopped' \subseteq pausedBy /\ ("suspend" \in pausedBy' <=> "suspend" \in pausedBy)
    BY <2>1, <2>4 DEF Stopped
  <2> HIDE DEF FlagInv, LentInv
  <2> QED BY <1>1, <1>2, <1>3, <2>2, <2>3, <2>5, GoesOn
<1>5. CASE ~q.stalled
  <2>1. UNCHANGED <<q, pausedBy, work>>
    BY <1>5 DEF ResetBegin
  <2> HIDE DEF FlagInv, LentInv
  <2> QED BY <1>1, <1>3, <2>1, SameFlow
<1> QED BY <1>4, <1>5

LEMMA RemovePendingFlow ==
  ASSUME IInv, IInv', FlagInv, LentInv, RemovePending
  PROVE  FlagInv' /\ LentInv'
<1>1. /\ Alive /\ work.pc = "removePending" /\ UNCHANGED <<config, hcpriv>> /\ pm' = pm
      /\ pausedBy' = pausedBy /\ t2' = t2 /\ Goto("flush") /\ q' = [q EXCEPT !.evq = <<>>]
  BY DEF RemovePending, At
<1>2. WorkInv /\ q \in Queue /\ work.job = "reset"
  BY <1>1, Begin DEF IInv, WorkInv, JobsAt
<1>3. work'.pc = "flush" /\ work'.job = "reset"
  BY <1>1, <1>2, WorkMoves
<1>4. Stopped' = Stopped
  BY <1>1, <1>2, <1>3 DEF Stopped
<1>5. Quiet(q, q') /\ q'.odd = q.odd
  BY <1>1, <1>2, EvqAlike, AlikeQuiet DEF Queue
<1>6. t2' = [run |-> t2'.run, stage |-> t2'.stage, fwPause |-> t2'.fwPause]
  BY <1>1, T2Same
<1> HIDE DEF FlagInv, LentInv
<1> QED BY <1>1, <1>3, <1>4, <1>5, <1>6, GoesOn

LEMMA FirmwareStallFlow ==
  ASSUME IInv, IInv', FlagInv, LentInv, FirmwareStall
  PROVE  FlagInv' /\ LentInv'
<1>1. /\ Alive /\ UNCHANGED <<config, hcpriv, pausedBy, work, pm>> /\ t2' = t2
      /\ q' = [q EXCEPT !.active = FALSE, !.stalled = TRUE]
  BY DEF FirmwareStall, NextWork
<1>2. q \in Queue
  BY Begin
<1>3. Alike(q, q') /\ q'.odd = q.odd
  BY <1>1, <1>2 DEF Queue, Alike
<1>4. Quiet(q, q')
  BY <1>2, <1>3, AlikeQuiet
<1>5. t2' = [run |-> t2'.run, stage |-> t2'.stage, fwPause |-> t2'.fwPause]
  BY <1>1, T2Same
<1> HIDE DEF FlagInv, LentInv
<1> QED BY <1>1, <1>3, <1>4, <1>5, StaysOn

LEMMA SuspendFlow ==
  ASSUME IInv, IInv', FlagInv, LentInv, Suspend
  PROVE  FlagInv' /\ LentInv'
<1>1. /\ Alive /\ pm = "run" /\ lock = "none" /\ UNCHANGED <<config, hcpriv>> /\ work' = work
      /\ t2' = t2
  BY DEF Suspend
<1>2. /\ q \in Queue /\ Stopped = pausedBy
      /\ work.pc \notin {"drain", "setPaused", "flush", "removePending"}
  BY <1>1, Begin, Unlocked
<1>3. t2' = [run |-> t2'.run, stage |-> t2'.stage, fwPause |-> t2'.fwPause]
  BY <1>1, T2Same
<1>4. Stopped' = pausedBy' /\ "suspend" \notin pausedBy
  BY <1>1, <1>2 DEF Stopped, FlagInv
<1>5. CASE pausedBy = {}
  <2>1. /\ q' = [q EXCEPT !.active = FALSE, !.loose = @ \/ InFlight(q) # {}]
        /\ pm' = "setPaused" /\ pausedBy' = {}
    BY <1>5 DEF Suspend
  <2>2. /\ q'.st = q.st /\ q'.odd = q.odd /\ ~q'.active /\ (q.loose => q'.loose)
        /\ q'.ring = q.ring /\ Alike(q, q')
    BY <1>2, <2>1 DEF Queue, Alike
  <2>3. Quiet(q, q')
    BY <1>2, <2>2, AlikeQuiet
  <2>4. ASSUME ~q'.loose PROVE Silent(q')
    <3>1. InFlight(q) = {}
      BY <1>2, <2>1, <2>4 DEF Queue
    <3>2. \A r \in Rings : ToSet(q.ring[r]) = {}
      BY <3>1 DEF InFlight
    <3>3. ASSUME NEW r \in Rings PROVE q.ring[r] = <<>>
      <4>1. q.ring[r] \in Seq(URB)
        BY <1>2, FieldTypes
      <4> QED BY <3>2, <4>1, Popped
    <3> QED BY <2>2, <3>3 DEF Silent
  <2>5. ASSUME hcpriv' = "set" PROVE Stages(q') /\ (q'.odd => q'.loose)
    BY <1>1, <2>2, <2>5 DEF FlagInv, Stages
  <2>6. ASSUME hcpriv' = "set", ~q'.loose PROVE Covered(q', Unread(q'))
    BY <1>1, <1>4, <2>2, <2>3, <2>6 DEF LentInv, Quiet
  <2> HIDE DEF FlagInv, LentInv
  <2> QED BY <1>1, <1>3, <1>4, <2>1, <2>2, <2>4, <2>5, <2>6, FlowNext
<1>6. CASE pausedBy # {}
  <2>1. q' = q /\ pausedBy' = pausedBy \cup {"suspend"} /\ pm' = "asleep"
    BY <1>6 DEF Suspend
  <2>2. ASSUME hcpriv' = "set" PROVE Stages(q') /\ (q'.odd => q'.loose)
    BY <1>1, <2>1, <2>2 DEF FlagInv
  <2>3. ASSUME hcpriv' = "set", ~q'.loose
        PROVE  ~q'.active /\ Silent(q') /\ Unread(q') = 0
    BY <1>1, <1>2, <1>4, <1>6, <2>1, <2>3 DEF LentInv
  <2> HIDE DEF FlagInv, LentInv
  <2> QED BY <1>1, <1>2, <1>3, <1>4, <2>1, <2>2, <2>3, FlowNext
<1> QED BY <1>5, <1>6

LEMMA SuspendPausedFlow ==
  ASSUME IInv, IInv', FlagInv, LentInv, SuspendPaused
  PROVE  FlagInv' /\ LentInv'
<1>1. /\ Alive /\ pm = "setPaused" /\ UNCHANGED <<config, hcpriv>> /\ work' = work
      /\ pausedBy' = {"suspend"} /\ pm' = "asleep"
  BY DEF SuspendPaused
<1>2. q \in Queue
  BY Begin
<1>3. lock = "pm"
  BY <1>1 DEF IInv, PmInv
<1>4. work.pc \notin {"drain", "setPaused", "flush", "removePending"}
  BY <1>3, Unlocked
<1>5. t2' = [run |-> t2'.run, stage |-> t2'.stage, fwPause |-> t2'.fwPause]
  <2>1. Answered(T2SetState(FALSE)) \/ Failed(T2SetState(FALSE))
    BY DEF SuspendPaused
  <2> HIDE DEF FlagInv
  <2> QED BY <2>1, T2Changes
<1>6. CASE Answered(T2SetState(FALSE)) /\ q' = q
  <2>1. ~t2'.run
    <3> HIDE DEF FlagInv
    <3> QED BY <1>6, T2Changes
  <2>2. ASSUME hcpriv' = "set" PROVE Stages(q') /\ (q'.odd => q'.loose)
    BY <1>1, <1>6, <2>2 DEF FlagInv
  <2>3. ASSUME hcpriv' = "set", ~q'.loose PROVE ~q'.active /\ Silent(q')
    BY <1>1, <1>6, <2>3 DEF LentInv
  <2> HIDE DEF FlagInv, LentInv
  <2> QED BY <1>1, <1>4, <1>5, <2>1, <2>2, <2>3, FlowNext
<1>7. CASE q' = [q EXCEPT !.loose = TRUE]
  <2>1. q'.loose /\ q'.st = q.st
    BY <1>2, <1>7 DEF Queue
  <2>2. ASSUME hcpriv' = "set" PROVE Stages(q')
    BY <1>1, <2>1, <2>2 DEF FlagInv, Stages
  <2> HIDE DEF FlagInv, LentInv
  <2> QED BY <1>1, <1>4, <1>5, <2>1, <2>2, FlowNext
<1> QED BY <1>6, <1>7 DEF SuspendPaused

LEMMA NothingUnread ==
  ASSUME NEW s \in Queue, \A r \in Rings : s.done[r] = <<>>
  PROVE  Unread(s) = 0
<1>1. \A r \in Rings : UnreadIn(s, r) = 0
  BY OksAre DEF UnreadIn
<1> QED BY <1>1 DEF Unread, Rings

LEMMA BusResumeFlow ==
  ASSUME IInv, IInv', FlagInv, LentInv, BusResume
  PROVE  FlagInv' /\ LentInv'
<1>1. /\ Alive /\ pm = "asleep" /\ lock = "none" /\ Settled /\ UNCHANGED <<config, hcpriv>>
      /\ work' = work /\ q' = q /\ t2' = t2
      /\ \/ pm' = "setActive" /\ pausedBy' = pausedBy
         \/ pm' = "run" /\ pausedBy' = pausedBy \ {"suspend"}
  BY DEF BusResume
<1>2. /\ q \in Queue /\ Stopped = pausedBy
      /\ work.pc \notin {"drain", "setPaused", "flush", "removePending"}
  BY <1>1, Begin, Unlocked
<1>3. t2' = [run |-> t2'.run, stage |-> t2'.stage, fwPause |-> t2'.fwPause]
  BY <1>1, T2Same
<1>4. Stopped' = pausedBy' /\ "suspend" \in pausedBy
  <2>1. "suspend" \in pausedBy
    BY <1>1 DEF IInv, PmInv
  <2> QED BY <1>1, <1>2, <2>1 DEF Stopped
<1>5. ASSUME hcpriv' = "set" PROVE Stages(q') /\ (q'.odd => q'.loose)
  BY <1>1, <1>5 DEF FlagInv
<1>6. ASSUME hcpriv' = "set", ~q'.loose
      PROVE  ~q'.active /\ Silent(q') /\ Unread(q') = 0
  <2>1. ~q.active /\ Silent(q) /\ (Unread(q) = 0 \/ ~t2.run)
    BY <1>1, <1>2, <1>4, <1>6 DEF LentInv
  <2>2. t2.run \/ Unread(q) = 0
    BY <1>1, <1>2, NothingUnread DEF Settled
  <2> QED BY <1>1, <2>1, <2>2
<1>7. Silent(q) /\ Unread(q) = 0 => Covered(q, Unread(q))
  BY <1>2, SilentCovered
<1> HIDE DEF FlagInv, LentInv
<1> QED BY <1>1, <1>2, <1>3, <1>5, <1>6, <1>7, FlowNext

LEMMA BusSetActiveFlow ==
  ASSUME IInv, IInv', FlagInv, LentInv, BusSetActive
  PROVE  FlagInv' /\ LentInv'
<1>1. /\ Alive /\ pm = "setActive" /\ pm' \in {"activate", "refresh"}
      /\ UNCHANGED <<config, hcpriv>> /\ work' = work /\ pausedBy' = pausedBy /\ q' = q
      /\ Answered(T2SetState(TRUE)) \/ Failed(T2SetState(TRUE))
  BY DEF BusSetActive
<1>2. Quiet(q, q')
  BY <1>1, Begin, PaidSame, PaidQuiet
<1>3. Stopped' = Stopped
  BY <1>1 DEF Stopped
<1> HIDE DEF FlagInv, LentInv
<1>4. t2' = [run |-> t2'.run, stage |-> t2'.stage, fwPause |-> t2'.fwPause]
  BY <1>1, T2Changes
<1> QED BY <1>1, <1>2, <1>3, <1>4, GoesOn

LEMMA BusDoResumeFlow ==
  ASSUME IInv, IInv', FlagInv, LentInv, BusDoResume
  PROVE  FlagInv' /\ LentInv'
<1>1. PICK b \in BOOLEAN :
         q' = [Activate([q EXCEPT !.short = b]) EXCEPT !.short = FALSE, !.want = <<>>]
  BY DEF BusDoResume, Section
<1>2. /\ Alive /\ pm = "activate" /\ pausedBy' = pausedBy \ {"suspend"} /\ work' = work
      /\ UNCHANGED <<config, hcpriv>> /\ pm' = "run" /\ t2' = t2
  BY DEF BusDoResume
<1>3. lock = "pm" /\ pausedBy = {"suspend"}
  BY <1>2 DEF IInv, PmInv
<1>4. /\ Stopped = pausedBy
      /\ work.pc \notin {"drain", "setPaused", "flush", "removePending"}
  BY <1>3, Unlocked
<1>5. pausedBy' = {} /\ Stopped' = {}
  BY <1>2, <1>3 DEF Stopped
<1>6. q' = [Ended("none", Activate([q EXCEPT !.short = b])) EXCEPT !.short = FALSE, !.want = <<>>]
  BY <1>1 DEF Ended
<1>7. /\ Stages(q) => Stages(q')
      /\ q.loose => q'.loose
      /\ q'.odd = q.odd
      /\ Silent(q) /\ Unread(q) = 0 => Covered(q', Unread(q'))
  BY <1>2, <1>6, ActivateFlow
<1>8. ASSUME hcpriv' = "set" PROVE Stages(q') /\ (q'.odd => q'.loose)
  BY <1>2, <1>7, <1>8 DEF FlagInv
<1>9. ASSUME hcpriv' = "set", ~q'.loose PROVE Covered(q', Unread(q'))
  BY <1>2, <1>3, <1>4, <1>7, <1>9 DEF LentInv
<1>10. t2' = [run |-> t2'.run, stage |-> t2'.stage, fwPause |-> t2'.fwPause]
  BY <1>2, T2Same
<1> HIDE DEF FlagInv, LentInv
<1> QED BY <1>2, <1>4, <1>5, <1>8, <1>9, <1>10, FlowNext

\* The endpoint ends.
LEMMA EndFlow ==
  ASSUME IInv, IInv', FlagInv, LentInv, CancelAll \/ ClearHcpriv \/ Destroy
  PROVE  FlagInv' /\ LentInv'
<1>1. hcpriv' # "set" /\ UNCHANGED config /\ t2' = t2 /\ pausedBy' = pausedBy /\ pm' = pm
  BY DEF CancelAll, ClearHcpriv, Destroy
<1>2. t2' = [run |-> t2'.run, stage |-> t2'.stage, fwPause |-> t2'.fwPause]
  BY <1>1, T2Same
<1>3. "suspend" \in pausedBy' => pm' # "run"
  BY <1>1 DEF FlagInv
<1> HIDE DEF FlagInv, LentInv
<1> QED BY <1>1, <1>2, <1>3, FlowNext

LEMMA InitFlow == Init => FlagInv /\ LentInv
<1> SUFFICES ASSUME Init PROVE FlagInv /\ LentInv
  OBVIOUS
<1>1. q \in Queue
  BY InitIInv DEF IInv
<1>2. FlagInv
  <2>1. ~q.odd /\ \A u \in URB : q.st[u] = "new"
    BY DEF Init
  <2>2. Stages(q)
    BY <2>1 DEF Stages
  <2> QED BY <2>1, <2>2 DEF FlagInv, Init, Idle
<1>3. Silent(q) /\ \A r \in Rings : q.done[r] = <<>>
  BY DEF Init, Silent
<1>4. Covered(q, 0) /\ Unread(q) = 0
  BY <1>1, <1>3, SilentCovered, NothingUnread
<1>5. pausedBy = {} /\ pm = "run" /\ Stopped = {}
  BY DEF Init, Stopped
<1> QED BY <1>2, <1>4, <1>5 DEF LentInv

LEMMA NextFlow ==
  ASSUME IInv, IInv', FlagInv, LentInv, [Next]_vars
  PROVE  FlagInv' /\ LentInv'
<1> USE DEF NextWork
<1>1. ASSUME NEW u \in URB, UrbCreate(u) \/ UrbRequestCancel(u) PROVE FlagInv' /\ LentInv'
  BY <1>1, UrbCreateFlow, CancelFlow
<1>2. CASE Irq
  BY <1>2, HandleEventFlow, HandleCompletionsFlow DEF Irq
<1>3. CASE Work
  <2>1. ASSUME NEW job \in {"resume", "fwResume"}, ResumeWork(job) PROVE FlagInv' /\ LentInv'
    BY <2>1, ResumeFlow DEF ResumeWork, Jobs
  <2>2. CASE ResumeAfter
    <3>1. Alive /\ Resume(work.job) /\ work.job \in Jobs
      BY <2>2 DEF ResumeAfter, At, IInv, WorkInv, JobsAt, Jobs
    <3> QED BY <3>1, ResumeFlow
  <2> QED BY <1>3, <2>1, <2>2, PauseBeginFlow, DrainFlow, SetPausedFlow, FlushQueuesFlow,
          EndpointResetFlow, ReclaimFlow, SetActiveFlow, DoResumeFlow, ResetBeginFlow,
          RemovePendingFlow, FirmwareStallFlow DEF Work
<1>4. CASE Suspend
  BY <1>4, SuspendFlow
<1>5. CASE Pm
  BY <1>5, SuspendPausedFlow, BusResumeFlow, BusSetActiveFlow, BusDoResumeFlow DEF Pm
<1>6. CASE CancelAll \/ ClearHcpriv \/ Destroy
  BY <1>6, EndFlow
<1>7. CASE RequestReset \/ RecoveryStart \/ UNCHANGED vars
  BY <1>7, OthersFlow
<1>8. CASE T2
  BY <1>8, OthersFlow, T2CompleteFlow DEF T2
<1> QED BY <1>1, <1>2, <1>3, <1>4, <1>5, <1>6, <1>7, <1>8 DEF Next

\* When every URB is back with its driver and the works are done, the T2 has
\* no buffer of one: each submission the T2 has is that of an URB that waits
\* for it, of one that waits for the flush, or of a ghost the queue still
\* counts; but for a pause that flushed nothing, or a submission to a stopped
\* endpoint.
THEOREM NothingIsLeftLent == Spec => []QuietWhenIdle
<1>1. IInv /\ FlagInv /\ LentInv => QuietWhenIdle
  <2> SUFFICES ASSUME IInv, FlagInv, LentInv, NothingLeft, ~q.loose PROVE InFlight(q) = {}
    BY DEF QuietWhenIdle
  <2>1. q.list = <<>> /\ works = <<>> /\ work.pc = "idle" /\ hcpriv = "set"
    BY DEF NothingLeft
  <2>2. q \in Queue /\ Stopped = pausedBy
    BY <2>1, Begin DEF Stopped
  <2>3. ~q.stalled /\ q.flush = <<>>
    <3>1. ToSet(works) = {}
      BY <2>1, EmptySequence
    <3>2. work.job = "none"
      BY <2>1 DEF IInv, WorkInv, JobsAt
    <3> QED BY <2>1, <3>1, <3>2 DEF IInv, WorkIsOwed
  <2>4. Silent(q)
    <3>1. CASE "suspend" \in pausedBy
      BY <2>1, <2>2, <3>1 DEF LentInv
    <3>2. CASE "suspend" \notin pausedBy
      <4>1. Covered(q, Unread(q))
        BY <2>1, <3>2 DEF LentInv
      <4>2. Lent(q) + Unread(q) = 0
        BY <2>1, <2>3, <4>1 DEF Covered
      <4>3. Lent(q) \in Nat /\ Unread(q) \in Nat
        BY <2>2, Numbers, UnreadNat
      <4>4. Lent(q) = 0
        BY <4>2, <4>3
      <4> QED BY <2>2, <4>4, SilentIs
    <3> QED BY <3>1, <3>2
  <2>5. \A r \in Rings : ToSet(q.ring[r]) = {}
    BY <2>4, EmptySequence DEF Silent
  <2> QED BY <2>5 DEF InFlight
<1>2. (IInv /\ FlagInv /\ LentInv) /\ [Next]_vars => (IInv /\ FlagInv /\ LentInv)'
  BY NextIInv, NextFlow
<1>3. Init => IInv /\ FlagInv /\ LentInv
  BY InitIInv, InitFlow
<1> QED BY <1>1, <1>2, <1>3, PTL DEF Spec

=============================================================================
