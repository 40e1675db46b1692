------------------------ MODULE QueueRegistry_proofs ------------------------
(***************************************************************************)
(* Proofs about QueueRegistry, for any number of workers, qids and queues. *)
(***************************************************************************)
EXTENDS QueueRegistry, WellFoundedInduction, TLAPS

-----------------------------------------------------------------------------
(* The memory of the queues.                                               *)

Stages == {"idle", "registering", "syncing"} \cup Published
Commands == [w : Workers, no : Nat, op : {"register", "unregister"}, o : Queues]
Replies == [w : Workers, no : Nat, o : Queues, res : {"ok", "error"}]
Elements == [qid : Qids, o : Queues]

TypeInv ==
    /\ created \in 0..MaxQueues /\ alive \subseteq 1..created
    /\ qidUsed \subseteq Qids
    /\ kind \in [Queues -> {"none", "cq", "sq"}]
    /\ qid \in [Queues -> Nat] /\ \A o \in 1..created : qid[o] \in Qids
    /\ cqOf \in [Queues -> Queues \cup {Nil}]
    /\ queues \in [Qids -> Queues \cup {Nil}]
    /\ nextCq \in [CqNodes -> (CqNodes \ {ListHead}) \cup {Nil}]
    /\ pc \in [Workers -> Stages]
    /\ own \in [Workers -> Queues \cup {Nil}]
    /\ cmdNo \in [Workers -> Nat]
    /\ answer \in [Workers -> {"none", "ok", "error", "timeout"}]
    /\ waitsFor \in [Workers -> BOOLEAN]
    /\ removing \in BOOLEAN /\ faulted \in BOOLEAN
    /\ irqPc \in {"idle", "poll", "callbacks"}
    /\ cursor \in CqNodes \cup {Nil}
    /\ held \subseteq Queues /\ harvested \subseteq Replies
    /\ devReg \in [Qids -> Queues \cup {Nil}]
    /\ devCmds \in Seq(Commands)
    /\ submitted \subseteq 1..created
    /\ post \in [CqNodes -> Seq(Replies) \cup Seq(Elements)]
    /\ post[CmdCq] \in Seq(Replies)
    /\ \A n \in Queues : post[n] \in Seq(Elements)

\* Every queue that is worked on has one owner, its memory and a qid of its own.
Owners ==
    /\ \A w \in Workers :
          /\ own[w] = Nil <=> pc[w] = "idle"
          /\ own[w] # Nil => /\ own[w] \in alive /\ qid[own[w]] \in qidUsed
                             /\ kind[own[w]] # "none"
          /\ waitsFor[w] => pc[w] = "syncing" /\ irqPc # "idle"
    /\ \A w, x \in Workers : w # x /\ own[w] # Nil /\ own[x] # Nil =>
          own[w] # own[x] /\ qid[own[w]] # qid[own[x]]

\* The CQs that were taken off the list in the pass in progress.
Grace == {own[w] : w \in {x \in Workers : waitsFor[x] /\ kind[own[x]] = "cq"}}

\* What a reader may still find: a published queue, or one whose destruction waits.
Visible(o) == \E w \in Workers : own[w] = o /\ (pc[w] \in Published \/ waitsFor[w])

\* cq_list is a list: every node but the head has one before it, one node is the
\* last; a CQ that was taken off leads back to it or to another such CQ.
ListSound ==
    /\ nextCq[ListHead] = CmdCq
    /\ \A n \in Linked : nextCq[n] \in Linked \cup {Nil}
    /\ \A m, n \in Linked : nextCq[m] = nextCq[n] => m = n
    /\ \A n \in Linked \ {ListHead} : \E m \in Linked : nextCq[m] = n
    /\ \E n \in Linked : nextCq[n] = Nil
    /\ \A n \in Grace : nextCq[n] \in Linked \cup Grace \cup {Nil}

\* No pointer leads to a CQ that has not been published yet.
NewIsUnknown ==
    \A n \in CqNodes : nextCq[n] \in Queues =>
        /\ nextCq[n] <= created
        /\ \A w \in Workers : pc[w] = "registering" => own[w] # nextCq[n]

\* What the interrupt thread holds, and what it finds in queues[].
ReaderIsSafe ==
    /\ irqPc = "idle" => held = {} /\ cursor = ListHead
    /\ irqPc # "idle" => cursor \in (Linked \ {ListHead}) \cup Grace \cup {Nil}
    /\ irqPc = "callbacks" => cursor = Nil
    /\ irqPc # "poll" => harvested = {}
    /\ \A o \in held : Visible(o)
    /\ \A i \in Qids : queues[i] # Nil =>
          \E w \in Workers : /\ pc[w] \in Published /\ own[w] = queues[i]
                             /\ qid[own[w]] = i

MemInv ==
    /\ TypeInv
    /\ Owners
    /\ ListSound
    /\ NewIsUnknown
    /\ ReaderIsSafe

\* Nodes and queues are told apart.
LEMMA Sizes ==
  /\ MaxQueues \in Nat /\ Qids \subseteq Nat /\ Queues \subseteq Nat
  /\ ListHead \notin Queues /\ CmdCq \notin Queues /\ Nil \notin Queues
  /\ ListHead # CmdCq /\ ListHead # Nil /\ CmdCq # Nil
  /\ \A n : n \in CqNodes <=> n \in Queues \/ n = ListHead \/ n = CmdCq
  /\ \A n : n \in Queues <=> n \in 1..MaxQueues
  BY RegistryAssumption DEF Queues, ListHead, CmdCq, Nil, CqNodes

\* Of a set of naturals that has an element there is a least one.
LEMMA Least == ASSUME NEW S \in SUBSET Nat, S # {} PROVE \E n \in S : \A m \in S : n <= m
<1> DEFINE R == {ss \in Nat \X Nat : ss[1] < ss[2]}
<1>1. IsWellFoundedOn(R, Nat)
  <2>1. R = OpToRel(<, Nat)
    BY Zenon DEF OpToRel
  <2> QED BY <2>1, NatLessThanWellFounded, Zenon
<1>2. \E n \in S : \A m \in S : <<m, n>> \notin R
  BY <1>1, WFMin
<1>3. \A m, n \in Nat : m < n => <<m, n>> \in R
  OBVIOUS
<1> HIDE DEF R
<1>4. PICK n \in S : \A m \in S : <<m, n>> \notin R
  BY <1>2
<1>5. \A m \in S : m \in Nat /\ n \in Nat /\ ~(m < n)
  BY <1>3, <1>4
<1> QED BY <1>5

\* bce_qid_alloc returns a qid that nobody has.
LEMMA QidIsFree == FreeQids # {} => Min(FreeQids) \in Qids /\ Min(FreeQids) \notin qidUsed
<1>1. FreeQids \in SUBSET Nat
  BY Sizes DEF FreeQids
<1>2. FreeQids # {} => Min(FreeQids) \in FreeQids
  BY <1>1, Least DEF Min
<1> QED BY <1>2 DEF FreeQids

\* Who is in the list, and who was taken off.
LEMMA Members ==
  /\ \A n : n \in Linked <=> \/ n = ListHead \/ n = CmdCq
                             \/ \E w \in Workers : /\ pc[w] \in Published
                                                   /\ kind[own[w]] = "cq" /\ n = own[w]
  /\ \A n : n \in Grace <=> \E w \in Workers : waitsFor[w] /\ kind[own[w]] = "cq" /\ n = own[w]
  /\ \A n : n \in Linked' <=> \/ n = ListHead \/ n = CmdCq
                              \/ \E w \in Workers : /\ pc'[w] \in Published
                                                    /\ kind'[own'[w]] = "cq" /\ n = own'[w]
  /\ \A n : n \in Grace' <=>
        \E w \in Workers : waitsFor'[w] /\ kind'[own'[w]] = "cq" /\ n = own'[w]
  BY DEF Linked, Grace, ListHead, CmdCq

\* A step of a worker that publishes nothing and takes nothing away.
LEMMA SameLists ==
  ASSUME MemInv, NEW w \in Workers, UNCHANGED waitsFor, ~waitsFor[w],
         \A x \in Workers \ {w} : /\ pc'[x] = pc[x] /\ own'[x] = own[x]
                                  /\ own[x] # Nil => kind'[own[x]] = kind[own[x]],
         \/ pc[w] \notin Published /\ pc'[w] \notin Published
         \/ /\ pc[w] \in Published /\ pc'[w] \in Published
            /\ own'[w] = own[w] /\ kind'[own[w]] = kind[own[w]]
  PROVE  Linked' = Linked /\ Grace' = Grace /\ \A o : Visible(o) => Visible(o)'
<1>1. \A x \in Workers : pc[x] \in Published \/ waitsFor[x] => own[x] # Nil
  BY DEF MemInv, Owners, Published
<1>2. \A x \in Workers : pc'[x] \in Published <=> pc[x] \in Published
  OBVIOUS
<1>3. \A x \in Workers : pc[x] \in Published \/ waitsFor[x] =>
         own'[x] = own[x] /\ kind'[own[x]] = kind[own[x]]
  BY <1>1
<1>4. Linked' = Linked
  <2>1. \A n : n \in Linked' <=> n \in Linked
    BY <1>2, <1>3, Members
  <2> QED BY <2>1
<1>5. Grace' = Grace
  <2>1. \A n : n \in Grace' <=> n \in Grace
    BY <1>3, Members
  <2> QED BY <2>1
<1> QED BY <1>2, <1>3, <1>4, <1>5 DEF Visible

memVars == <<regVars, pubVars, pc, own, waitsFor, irqVars>>

\* A step that leaves the memory alone.
LEMMA SameMemory ==
  ASSUME MemInv, TypeInv', UNCHANGED memVars
  PROVE  MemInv'
<1>1. Linked' = Linked /\ Grace' = Grace
  BY DEF Linked, Grace, memVars, regVars, ListHead, CmdCq
<1>2. Owners'
  BY DEF MemInv, Owners, memVars, regVars, irqVars
<1>3. ListSound'
  BY <1>1 DEF MemInv, ListSound, memVars, pubVars
<1>4. NewIsUnknown'
  BY DEF MemInv, NewIsUnknown, memVars, pubVars, regVars
<1>5. ReaderIsSafe'
  BY <1>1 DEF MemInv, ReaderIsSafe, Visible, memVars, pubVars, regVars, irqVars
<1> QED BY <1>2, <1>3, <1>4, <1>5 DEF MemInv

LEMMA CreateMem ==
  ASSUME MemInv, NEW w \in Workers, NEW k \in {"cq", "sq"}, Create(w, k)
  PROVE  MemInv' /\ Linked' = Linked /\ Grace' = Grace
<1> DEFINE o == created + 1
           i == Min(FreeQids)
           c == [w |-> w, no |-> cmdNo[w] + 1, op |-> "register", o |-> o]
<1>1. /\ pc[w] = "idle" /\ own[w] = Nil /\ ~waitsFor[w]
      /\ created \in Nat /\ created < MaxQueues /\ o \in Queues /\ o # Nil
      /\ i \in Qids /\ i \notin qidUsed
  <2>1. pc[w] = "idle" /\ created < MaxQueues /\ FreeQids # {}
    BY DEF Create
  <2>2. created \in Nat /\ own[w] = Nil /\ ~waitsFor[w]
    BY <2>1, Sizes DEF MemInv, TypeInv, Owners
  <2>3. o \in Queues /\ o # Nil
    BY <2>1, <2>2, Sizes DEF Queues
  <2> QED BY <2>1, <2>2, <2>3, QidIsFree
<1>2. /\ created' = o /\ alive' = alive \cup {o} /\ qidUsed' = qidUsed \cup {i}
      /\ kind' = [kind EXCEPT ![o] = k] /\ qid' = [qid EXCEPT ![o] = i]
      /\ own' = [own EXCEPT ![w] = o] /\ pc' = [pc EXCEPT ![w] = "registering"]
      /\ cmdNo' = [cmdNo EXCEPT ![w] = cmdNo[w] + 1]
      /\ answer' = [answer EXCEPT ![w] = "none"]
      /\ devCmds' = Append(devCmds, c)
      /\ cqOf' = cqOf \/ \E n \in ReadyCqs : cqOf' = [cqOf EXCEPT ![o] = n]
      /\ UNCHANGED <<pubVars, waitsFor, removing, irqVars, devReg, submitted, post, faulted>>
  BY DEF Create, Issue
<1>3. c \in Commands
  BY <1>1 DEF Commands, MemInv, TypeInv
<1> HIDE DEF o, i, c
<1>4. cqOf' \in [Queues -> Queues \cup {Nil}]
  <2>1. ReadyCqs \subseteq Queues \cup {Nil}
    BY DEF ReadyCqs, MemInv, TypeInv
  <2>2. cqOf \in [Queues -> Queues \cup {Nil}]
    BY DEF MemInv, TypeInv
  <2> QED BY <1>1, <1>2, <2>1, <2>2
<1>5. TypeInv'
  <2>1. /\ created' \in 0..MaxQueues /\ alive' \subseteq 1..created' /\ qidUsed' \subseteq Qids
    <3>1. created' = created + 1
      BY <1>2 DEF o
    <3>2. alive \subseteq 1..created /\ created \in Nat /\ MaxQueues \in Nat
      BY <1>1, Sizes DEF MemInv, TypeInv
    <3>3. alive \cup {o} \subseteq 1..(created + 1)
      BY <3>2 DEF o
    <3> QED BY <1>1, <1>2, <3>1, <3>2, <3>3 DEF MemInv, TypeInv
  <2>2. /\ kind' \in [Queues -> {"none", "cq", "sq"}] /\ qid' \in [Queues -> Nat]
        /\ pc' \in [Workers -> Stages] /\ own' \in [Workers -> Queues \cup {Nil}]
        /\ cmdNo' \in [Workers -> Nat]
        /\ answer' \in [Workers -> {"none", "ok", "error", "timeout"}]
    BY <1>1, <1>2, Sizes DEF MemInv, TypeInv, Stages
  <2>3. devCmds' \in Seq(Commands)
    BY <1>2, <1>3 DEF MemInv, TypeInv
  <2>4. /\ \A q \in 1..created' : qid'[q] \in Qids
        /\ submitted' \subseteq 1..created'
    <3>1. \A q \in 1..created' : q \in Queues /\ (q = o \/ q \in 1..created)
      <4>1. created' = created + 1 /\ created \in Nat /\ created < MaxQueues /\ MaxQueues \in Nat
        BY <1>1, <1>2, Sizes DEF o
      <4>2. \A q \in 1..(created + 1) : q \in 1..MaxQueues /\ (q = created + 1 \/ q \in 1..created)
        BY <4>1
      <4> QED BY <4>1, <4>2, Sizes DEF o
    <3>2. 1..created \subseteq 1..created'
      BY <1>1, <1>2 DEF o
    <3> QED BY <1>1, <1>2, <3>1, <3>2 DEF MemInv, TypeInv
  <2> QED BY <1>2, <1>4, <2>1, <2>2, <2>3, <2>4 DEF MemInv, TypeInv, pubVars, irqVars
<1>6. \A x \in Workers : own[x] # Nil => own[x] \in Queues /\ own[x] # o /\ own[x] \in Nat
  BY <1>1, Sizes DEF MemInv, TypeInv, Owners, o
<1>7. \A x \in Workers \ {w} : /\ pc'[x] = pc[x] /\ own'[x] = own[x]
                               /\ own[x] # Nil => /\ kind'[own[x]] = kind[own[x]]
                                                  /\ qid'[own[x]] = qid[own[x]]
  BY <1>1, <1>2, <1>6 DEF MemInv, TypeInv
<1>8. pc'[w] = "registering" /\ own'[w] = o /\ qid'[o] = i /\ kind'[o] = k
  BY <1>1, <1>2 DEF MemInv, TypeInv
<1>9. Owners'
  BY <1>1, <1>2, <1>6, <1>7, <1>8 DEF MemInv, Owners, irqVars
<1>10. Linked' = Linked /\ Grace' = Grace /\ \A q : Visible(q) => Visible(q)'
  BY <1>1, <1>2, <1>7, <1>8, SameLists DEF Published
<1>11. ListSound'
  BY <1>2, <1>10 DEF MemInv, ListSound, pubVars
<1>12. NewIsUnknown'
  BY <1>1, <1>2, <1>7, <1>8, Sizes DEF MemInv, NewIsUnknown, pubVars, o
<1>13. ReaderIsSafe'
  <2>1. \A n \in Qids : queues'[n] # Nil =>
          \E x \in Workers : pc'[x] \in Published /\ own'[x] = queues'[n] /\ qid'[own'[x]] = n
    <3> SUFFICES ASSUME NEW n \in Qids, queues'[n] # Nil
                 PROVE  \E x \in Workers :
                           pc'[x] \in Published /\ own'[x] = queues'[n] /\ qid'[own'[x]] = n
      OBVIOUS
    <3>1. PICK x \in Workers : pc[x] \in Published /\ own[x] = queues[n] /\ qid[own[x]] = n
      BY <1>2 DEF MemInv, ReaderIsSafe, pubVars
    <3>2. x # w /\ own[x] # Nil
      BY <1>1, <1>2, <3>1 DEF Published, pubVars
    <3> QED BY <1>2, <1>7, <3>1, <3>2 DEF pubVars
  <2> QED BY <1>2, <1>10, <2>1 DEF MemInv, ReaderIsSafe, irqVars
<1> QED BY <1>5, <1>9, <1>10, <1>11, <1>12, <1>13 DEF MemInv

\* A failed creation, or the end of a destruction: memory and qid are given back. No
\* reader has the queue.
LEMMA LeaveMem ==
  ASSUME MemInv, NEW w \in Workers, CreateFails(w) \/ Free(w)
  PROVE  MemInv' /\ Linked' = Linked /\ Grace' = Grace
<1>1. /\ pc[w] \in {"registering", "syncing"} /\ ~waitsFor[w]
      /\ alive' = alive \ {own[w]} /\ qidUsed' = qidUsed \ {qid[own[w]]}
      /\ own' = [own EXCEPT ![w] = Nil] /\ pc' = [pc EXCEPT ![w] = "idle"]
      /\ UNCHANGED <<created, kind, qid, cqOf, pubVars, cmdNo, answer, waitsFor, removing,
                     irqVars, devVars, faulted>>
  BY DEF CreateFails, Free, MemInv, Owners
<1>2. own[w] # Nil
  BY <1>1 DEF MemInv, Owners
<1>3. TypeInv'
  BY <1>1, Sizes DEF MemInv, TypeInv, Stages, pubVars, irqVars, devVars
<1>4. \A x \in Workers \ {w} : /\ pc'[x] = pc[x] /\ own'[x] = own[x]
                               /\ own[x] # Nil => kind'[own[x]] = kind[own[x]]
  BY <1>1 DEF MemInv, TypeInv
<1>5. pc'[w] = "idle" /\ own'[w] = Nil
  BY <1>1 DEF MemInv, TypeInv
<1>6. Owners'
  BY <1>1, <1>2, <1>4, <1>5 DEF MemInv, Owners, irqVars
<1>7. Linked' = Linked /\ Grace' = Grace /\ \A q : Visible(q) => Visible(q)'
  BY <1>1, <1>4, <1>5, SameLists DEF Published
<1>8. ListSound'
  BY <1>1, <1>7 DEF MemInv, ListSound, pubVars
<1>9. NewIsUnknown'
  BY <1>1, <1>4, <1>5 DEF MemInv, NewIsUnknown, pubVars
<1>10. ReaderIsSafe'
  <2>1. \A n \in Qids : queues'[n] # Nil =>
          \E x \in Workers : pc'[x] \in Published /\ own'[x] = queues'[n] /\ qid'[own'[x]] = n
    BY <1>1, <1>4 DEF MemInv, ReaderIsSafe, pubVars, Published
  <2> QED BY <1>1, <1>7, <2>1 DEF MemInv, ReaderIsSafe, irqVars
<1> QED BY <1>3, <1>6, <1>7, <1>8, <1>9, <1>10 DEF MemInv

LEMMA DestroyMem ==
  ASSUME MemInv, NEW w \in Workers, Destroy(w) \/ Unregistered(w)
  PROVE  MemInv' /\ Linked' = Linked /\ Grace' = Grace
<1> DEFINE c == [w |-> w, no |-> cmdNo[w] + 1, op |-> "unregister", o |-> own[w]]
<1>1. PICK s \in Published : pc' = [pc EXCEPT ![w] = s]
  BY DEF Destroy, Unregistered, Published
<1>2. /\ pc[w] \in Published /\ ~waitsFor[w] /\ own[w] # Nil
      /\ \/ UNCHANGED <<cmdNo, answer, devCmds>>
         \/ /\ cmdNo' = [cmdNo EXCEPT ![w] = cmdNo[w] + 1]
            /\ answer' = [answer EXCEPT ![w] = "none"]
            /\ devCmds' = Append(devCmds, c)
      /\ UNCHANGED <<regVars, pubVars, own, waitsFor, removing, irqVars, devReg, submitted,
                     post, faulted>>
  BY DEF Destroy, Unregistered, Issue, Published, MemInv, Owners, devVars
<1>3. c \in Commands
  BY <1>2 DEF Commands, MemInv, TypeInv
<1> HIDE DEF c
<1>4. TypeInv'
  <2>1. pc' \in [Workers -> Stages]
    BY <1>1 DEF MemInv, TypeInv, Stages
  <2>2. /\ devCmds' \in Seq(Commands) /\ cmdNo' \in [Workers -> Nat]
        /\ answer' \in [Workers -> {"none", "ok", "error", "timeout"}]
    <3>1. /\ devCmds \in Seq(Commands) /\ cmdNo \in [Workers -> Nat]
          /\ answer \in [Workers -> {"none", "ok", "error", "timeout"}]
      BY DEF MemInv, TypeInv
    <3>2. devCmds' \in Seq(Commands)
      <4>1. devCmds' = devCmds \/ devCmds' = Append(devCmds, c)
        BY <1>2
      <4> QED BY <1>3, <3>1, <4>1
    <3>3. cmdNo' \in [Workers -> Nat]
      BY <1>2, <3>1
    <3> QED BY <1>2, <3>1, <3>2, <3>3
  <2> QED BY <1>2, <2>1, <2>2 DEF MemInv, TypeInv, regVars, pubVars, irqVars
<1>5. /\ \A x \in Workers \ {w} : pc'[x] = pc[x]
      /\ pc'[w] \in Published
  BY <1>1 DEF MemInv, TypeInv
<1>6. \A x \in Workers : /\ pc'[x] \in Published <=> pc[x] \in Published
                         /\ pc'[x] = "registering" => pc[x] = "registering"
                         /\ pc'[x] = "idle" <=> pc[x] = "idle"
                         /\ pc'[x] = "syncing" <=> pc[x] = "syncing"
  BY <1>2, <1>5 DEF Published
<1>7. Owners'
  BY <1>2, <1>6 DEF MemInv, Owners, regVars, irqVars
<1>8. Linked' = Linked /\ Grace' = Grace /\ \A q : Visible(q) => Visible(q)'
  BY <1>2, <1>5, SameLists DEF regVars
<1>9. ListSound'
  BY <1>2, <1>8 DEF MemInv, ListSound, pubVars
<1>10. NewIsUnknown'
  BY <1>2, <1>6 DEF MemInv, NewIsUnknown, pubVars, regVars
<1>11. ReaderIsSafe'
  BY <1>2, <1>6, <1>8 DEF MemInv, ReaderIsSafe, irqVars, pubVars, regVars
<1> QED BY <1>4, <1>7, <1>8, <1>9, <1>10, <1>11 DEF MemInv

\* Under queues_lock a queue becomes visible; a CQ is the new end of the list.
LEMMA PublishMem ==
  ASSUME MemInv, NEW w \in Workers, Publish(w)
  PROVE  /\ MemInv'
         /\ own[w] \notin Linked \cup Grace /\ Grace' = Grace
         /\ Linked' = Linked \cup (IF kind[own[w]] = "cq" THEN {own[w]} ELSE {})
         /\ LastNode \in Linked /\ nextCq[LastNode] = Nil
         /\ kind[own[w]] # "cq" => nextCq' = nextCq
         /\ kind[own[w]] = "cq" =>
               /\ nextCq'[own[w]] = Nil /\ nextCq'[LastNode] = own[w]
               /\ \A n \in CqNodes : n # own[w] /\ n # LastNode => nextCq'[n] = nextCq[n]
<1> DEFINE o == own[w]
<1>1. /\ pc[w] = "registering" /\ o # Nil /\ o \in Queues /\ qid[o] \in Qids /\ ~waitsFor[w]
      /\ queues' = [queues EXCEPT ![qid[o]] = o]
      /\ kind[o] = "cq" => nextCq' = [nextCq EXCEPT ![o] = Nil, ![LastNode] = o]
      /\ kind[o] # "cq" => nextCq' = nextCq
      /\ pc' = [pc EXCEPT ![w] = "ready"]
      /\ UNCHANGED <<regVars, own, cmdNo, answer, waitsFor, removing, irqVars, devVars, faulted>>
  BY DEF Publish, MemInv, TypeInv, Owners
<1> HIDE DEF o
<1>2. LastNode \in Linked /\ nextCq[LastNode] = Nil
  BY DEF LastNode, MemInv, ListSound
<1>3. /\ \A x \in Workers \ {w} : pc'[x] = pc[x]
      /\ pc'[w] = "ready"
  BY <1>1 DEF MemInv, TypeInv
<1>4. \A x \in Workers \ {w} : own[x] # o
  BY <1>1 DEF MemInv, Owners, o
<1>5. Linked \subseteq CqNodes /\ o \notin Linked /\ o \notin Grace /\ Grace \subseteq CqNodes
  <2>1. \A x \in Workers : pc[x] \in Published \/ waitsFor[x] => x # w /\ own[x] # Nil /\ own[x] \in Queues
    BY <1>1 DEF MemInv, Owners, TypeInv, Published
  <2>2. o \in Queues
    BY <1>1
  <2> QED BY <1>4, <2>1, <2>2, Members, Sizes
<1>51. /\ nextCq \in [CqNodes -> (CqNodes \ {ListHead}) \cup {Nil}]
       /\ LastNode \in CqNodes /\ o \in CqNodes /\ o # ListHead /\ o # LastNode
  BY <1>1, <1>2, <1>5, Sizes DEF MemInv, TypeInv
<1>52. /\ nextCq' \in [CqNodes -> (CqNodes \ {ListHead}) \cup {Nil}]
       /\ kind[o] = "cq" =>
             /\ nextCq'[o] = Nil /\ nextCq'[LastNode] = o
             /\ \A n \in CqNodes : n # o /\ n # LastNode => nextCq'[n] = nextCq[n]
  BY <1>1, <1>51
<1>6. Linked' = Linked \cup (IF kind[o] = "cq" THEN {o} ELSE {})
  <2>1. \A n : n \in Linked' <=> n \in Linked \/ (kind[o] = "cq" /\ n = o)
    BY <1>1, <1>3, Members DEF regVars, Published, o
  <2> QED BY <2>1
<1>7. Grace' = Grace
  BY <1>1 DEF Grace, regVars
<1>8. \A q : Visible(q) => Visible(q)'
  BY <1>1, <1>3 DEF Visible, Published
<1>9. TypeInv'
  <2>1. nextCq' \in [CqNodes -> (CqNodes \ {ListHead}) \cup {Nil}]
    BY <1>52
  <2>2. queues' \in [Qids -> Queues \cup {Nil}] /\ pc' \in [Workers -> Stages]
    BY <1>1 DEF MemInv, TypeInv, Stages, Published
  <2> QED BY <1>1, <2>1, <2>2 DEF MemInv, TypeInv, regVars, irqVars, devVars
<1>10. Owners'
  <2>1. \A x \in Workers : pc'[x] = "idle" <=> pc[x] = "idle"
    BY <1>1, <1>3
  <2>2. \A x \in Workers : waitsFor[x] => pc'[x] = pc[x]
    BY <1>1, <1>3
  <2> QED BY <1>1, <2>1, <2>2 DEF MemInv, Owners, regVars, irqVars
<1>11. ListSound'
  <2>1. CASE kind[o] = "cq"
    <3>1. /\ Linked' = Linked \cup {o} /\ nextCq'[o] = Nil /\ nextCq'[LastNode] = o
          /\ \A n \in CqNodes : n # o /\ n # LastNode => nextCq'[n] = nextCq[n]
      BY <1>52, <1>6, <2>1
    <3>2. LastNode # ListHead /\ ListHead \in Linked /\ ListHead # o
      BY <1>1, <1>2, Members, Sizes DEF MemInv, ListSound
    <3>3. \A n \in Linked : n # LastNode => nextCq[n] \in Linked /\ nextCq[n] # o
      BY <1>2, <1>5 DEF MemInv, ListSound
    <3>4. \A n \in Linked' : nextCq'[n] \in Linked' \cup {Nil}
      BY <1>5, <3>1, <3>3
    <3>5. \A m, n \in Linked' : nextCq'[m] = nextCq'[n] => m = n
      <4>1. Nil \notin Linked /\ o # Nil
        BY <1>1, <1>5, Sizes
      <4> QED BY <1>2, <1>5, <3>1, <3>3, <4>1 DEF MemInv, ListSound
    <3>6. \A n \in Linked' \ {ListHead} : \E m \in Linked' : nextCq'[m] = n
      <4>1. \A n \in Linked \ {ListHead} : \E m \in Linked : nextCq[m] = n /\ m # LastNode
        BY <1>2, <1>5, Sizes DEF MemInv, ListSound
      <4> QED BY <1>2, <1>5, <3>1, <4>1
    <3>7. \A n \in Grace' : nextCq'[n] \in Linked' \cup Grace' \cup {Nil}
      BY <1>2, <1>5, <1>7, <3>1 DEF MemInv, ListSound
    <3>8. nextCq'[ListHead] = CmdCq
      BY <3>1, <3>2, Sizes DEF MemInv, ListSound
    <3>9. \E n \in Linked' : nextCq'[n] = Nil
      BY <3>1
    <3> QED BY <3>4, <3>5, <3>6, <3>7, <3>8, <3>9 DEF ListSound
  <2>2. CASE kind[o] # "cq"
    BY <1>1, <1>6, <1>7, <2>2 DEF MemInv, ListSound
  <2> QED BY <2>1, <2>2
<1>12. NewIsUnknown'
  <2>1. \A n \in CqNodes : nextCq'[n] = nextCq[n] \/ nextCq'[n] = Nil \/ nextCq'[n] = o
    BY <1>1, <1>52
  <2>2. \A x \in Workers : pc'[x] = "registering" => pc[x] = "registering" /\ x # w
    BY <1>3
  <2>3. o <= created
    BY <1>1, Sizes DEF MemInv, Owners, TypeInv, o
  <2> QED BY <1>1, <1>4, <2>1, <2>2, <2>3, Sizes DEF MemInv, NewIsUnknown, regVars
<1>13. ReaderIsSafe'
  <2>1. \A n \in Qids : queues'[n] # Nil =>
          \E x \in Workers : pc'[x] \in Published /\ own'[x] = queues'[n] /\ qid'[own'[x]] = n
    <3> SUFFICES ASSUME NEW n \in Qids, queues'[n] # Nil
                 PROVE  \E x \in Workers :
                           pc'[x] \in Published /\ own'[x] = queues'[n] /\ qid'[own'[x]] = n
      OBVIOUS
    <3>1. CASE n = qid[o]
      BY <1>1, <1>3, <3>1 DEF MemInv, TypeInv, Published, regVars, o
    <3>2. CASE n # qid[o]
      <4>1. queues'[n] = queues[n]
        BY <1>1, <3>2 DEF MemInv, TypeInv
      <4>2. PICK x \in Workers : pc[x] \in Published /\ own[x] = queues[n] /\ qid[own[x]] = n
        BY <4>1 DEF MemInv, ReaderIsSafe
      <4>3. x # w
        BY <1>1, <4>2 DEF Published
      <4> QED BY <1>1, <1>3, <4>1, <4>2, <4>3 DEF regVars
    <3> QED BY <3>1, <3>2
  <2>2. irqPc # "idle" => cursor \in (Linked' \ {ListHead}) \cup Grace' \cup {Nil}
    BY <1>6, <1>7 DEF MemInv, ReaderIsSafe
  <2> QED BY <1>1, <1>8, <2>1, <2>2 DEF MemInv, ReaderIsSafe, irqVars
<1>14. MemInv'
  BY <1>9, <1>10, <1>11, <1>12, <1>13 DEF MemInv
<1> QED BY <1>14, <1>1, <1>2, <1>5, <1>52, <1>6, <1>7 DEF o

\* Under queues_lock a queue is taken away; the pass in progress may still have it.
LEMMA UnpublishMem ==
  ASSUME MemInv, NEW w \in Workers, Unpublish(w)
  PROVE  /\ MemInv'
         /\ Linked' = Linked \ (IF kind[own[w]] = "cq" THEN {own[w]} ELSE {})
         /\ Grace' = Grace \cup (IF kind[own[w]] = "cq" /\ irqPc # "idle" THEN {own[w]} ELSE {})
         /\ kind[own[w]] # "cq" => nextCq' = nextCq
         /\ kind[own[w]] = "cq" =>
               LET p == NodeBefore(own[w])
               IN /\ p \in Linked /\ nextCq[p] = own[w] /\ nextCq'[p] = nextCq[own[w]]
                  /\ \A n \in CqNodes : n # p => nextCq'[n] = nextCq[n]
<1> DEFINE o == own[w]
           p == NodeBefore(o)
<1>1. /\ pc[w] = "unpublish" /\ o # Nil /\ o \in Queues /\ qid[o] \in Qids /\ ~waitsFor[w]
      /\ queues' = [queues EXCEPT ![qid[o]] = Nil]
      /\ kind[o] = "cq" => nextCq' = [nextCq EXCEPT ![p] = nextCq[o]]
      /\ kind[o] # "cq" => nextCq' = nextCq
      /\ waitsFor' = [waitsFor EXCEPT ![w] = irqPc # "idle"]
      /\ pc' = [pc EXCEPT ![w] = "syncing"]
      /\ UNCHANGED <<regVars, own, cmdNo, answer, removing, irqVars, devVars, faulted>>
  BY DEF Unpublish, MemInv, TypeInv, Owners
<1>2. kind[o] = "cq" => o \in Linked
  BY <1>1, Members DEF Published
<1>3. kind[o] = "cq" => p \in Linked /\ nextCq[p] = o
  <2>1. o # ListHead
    BY <1>1, Sizes
  <2> QED BY <1>2, <2>1 DEF NodeBefore, MemInv, ListSound
<1> HIDE DEF o, p
<1>4. /\ \A x \in Workers \ {w} : pc'[x] = pc[x] /\ waitsFor'[x] = waitsFor[x]
      /\ pc'[w] = "syncing" /\ (waitsFor'[w] <=> irqPc # "idle")
  BY <1>1 DEF MemInv, TypeInv
<1>5. \A x \in Workers \ {w} : own[x] # o
  BY <1>1 DEF MemInv, Owners, o
<1>6. /\ Linked \subseteq CqNodes /\ Grace \subseteq Queues /\ Linked \cap Grace = {}
      /\ o \notin Grace /\ Nil \notin Linked /\ (Grace # {} => irqPc # "idle")
  <2>1. \A x \in Workers : pc[x] \in Published \/ waitsFor[x] => own[x] # Nil /\ own[x] \in Queues
    BY DEF MemInv, Owners, TypeInv, Published
  <2>2. \A x, y \in Workers : pc[x] \in Published /\ waitsFor[y] => own[x] # own[y] /\ x # y
    BY <2>1 DEF MemInv, Owners, Published
  <2>3. pc[w] \in Published
    BY <1>1 DEF Published
  <2>4. \A n \in Linked : n \in CqNodes /\ n # Nil
    BY <2>1, Members, Sizes
  <2>5. \A n \in Grace : n \in Queues /\ n \notin Linked /\ n # o /\ irqPc # "idle"
    <3> SUFFICES ASSUME NEW n \in Grace
                 PROVE  n \in Queues /\ n \notin Linked /\ n # o /\ irqPc # "idle"
      OBVIOUS
    <3>1. PICK y \in Workers : waitsFor[y] /\ n = own[y]
      BY Members
    <3> QED BY <2>1, <2>2, <2>3, <3>1, Members, Sizes DEF MemInv, Owners, o
  <2> QED BY <2>4, <2>5
<1>7. Linked' = Linked \ (IF kind[o] = "cq" THEN {o} ELSE {})
  <2>1. \A x \in Workers : pc'[x] \in Published <=> pc[x] \in Published /\ x # w
    BY <1>4 DEF Published
  <2>2. pc[w] \in Published /\ o = own[w] /\ o # ListHead /\ o # CmdCq
    BY <1>1, Sizes DEF Published, o
  <2>3. \A n : n \in Linked' <=> n \in Linked /\ ~(kind[o] = "cq" /\ n = o)
    <3>1. \A n : n \in Linked' <=> \/ n = ListHead \/ n = CmdCq
                                   \/ \E x \in Workers \ {w} : /\ pc[x] \in Published
                                                               /\ kind[own[x]] = "cq" /\ n = own[x]
      BY <1>1, <2>1, Members DEF regVars
    <3> QED BY <1>5, <2>2, <3>1, Members
  <2> QED BY <2>3
<1>8. Grace' = Grace \cup (IF kind[o] = "cq" /\ irqPc # "idle" THEN {o} ELSE {})
  <2>1. \A n : n \in Grace' <=> n \in Grace \/ (kind[o] = "cq" /\ irqPc # "idle" /\ n = o)
    BY <1>1, <1>4, Members DEF regVars, o
  <2> QED BY <2>1
<1>9. irqPc # "idle" => \A q : Visible(q) => Visible(q)'
  BY <1>1, <1>4 DEF Visible, Published
<1>10. /\ nextCq' \in [CqNodes -> (CqNodes \ {ListHead}) \cup {Nil}]
       /\ kind[o] = "cq" => /\ nextCq'[p] = nextCq[o]
                            /\ \A n \in CqNodes : n # p => nextCq'[n] = nextCq[n]
  <2>1. /\ nextCq \in [CqNodes -> (CqNodes \ {ListHead}) \cup {Nil}] /\ o \in CqNodes
        /\ kind[o] = "cq" => p \in CqNodes
    BY <1>1, <1>3, <1>6, Sizes DEF MemInv, TypeInv
  <2> QED BY <1>1, <2>1
<1>11. TypeInv'
  <2>1. /\ queues' \in [Qids -> Queues \cup {Nil}] /\ pc' \in [Workers -> Stages]
        /\ waitsFor' \in [Workers -> BOOLEAN]
    BY <1>1 DEF MemInv, TypeInv, Stages
  <2> QED BY <1>1, <1>10, <2>1 DEF MemInv, TypeInv, regVars, irqVars, devVars
<1>12. Owners'
  <2>1. \A x \in Workers : pc'[x] = "idle" <=> pc[x] = "idle"
    BY <1>1, <1>4
  <2>2. \A x \in Workers : waitsFor'[x] => pc'[x] = "syncing" /\ irqPc # "idle"
    BY <1>4 DEF MemInv, Owners
  <2> QED BY <1>1, <2>1, <2>2 DEF MemInv, Owners, regVars, irqVars
<1>13. ListSound'
  <2>1. CASE kind[o] = "cq"
    <3>1. /\ Linked' = Linked \ {o} /\ nextCq'[p] = nextCq[o] /\ p \in Linked /\ nextCq[p] = o
          /\ \A n \in Linked \cup Grace : n # p => nextCq'[n] = nextCq[n]
          /\ o \in Linked /\ o # ListHead /\ o # CmdCq /\ o # Nil
      BY <1>1, <1>2, <1>3, <1>6, <1>7, <1>10, <2>1, Sizes
    <3>2. \A n \in Linked : nextCq[n] = o => n = p
      BY <3>1 DEF MemInv, ListSound
    <3>3. \A n \in Linked' : nextCq'[n] \in Linked' \cup {Nil}
      BY <3>1, <3>2 DEF MemInv, ListSound
    <3>4. \A m, n \in Linked' : nextCq'[m] = nextCq'[n] => m = n
      BY <3>1 DEF MemInv, ListSound
    <3>5. \A n \in Linked' \ {ListHead} : \E m \in Linked' : nextCq'[m] = n
      <4> SUFFICES ASSUME NEW n \in Linked' \ {ListHead}
                   PROVE  \E m \in Linked' : nextCq'[m] = n
        OBVIOUS
      <4>1. PICK m \in Linked : nextCq[m] = n
        BY <3>1 DEF MemInv, ListSound
      <4>2. CASE m = o
        BY <3>1, <3>2, <4>1, <4>2
      <4>3. CASE m # o
        BY <3>1, <4>1, <4>3
      <4> QED BY <4>2, <4>3
    <3>6. \E n \in Linked' : nextCq'[n] = Nil
      <4>1. PICK n \in Linked : nextCq[n] = Nil
        BY DEF MemInv, ListSound
      <4> QED BY <3>1, <3>2, <4>1
    <3>7. \A n \in Grace' : nextCq'[n] \in Linked' \cup Grace' \cup {Nil}
      <4>1. \A n \in Grace : nextCq'[n] \in Linked \cup Grace \cup {Nil} /\ irqPc # "idle"
        BY <1>6, <3>1 DEF MemInv, ListSound
      <4>2. nextCq'[o] \in Linked \cup {Nil}
        BY <3>1 DEF MemInv, ListSound
      <4> QED BY <1>8, <2>1, <3>1, <4>1, <4>2
    <3>8. nextCq'[ListHead] = CmdCq
      <4>1. ListHead \in Linked /\ ListHead # p
        BY <3>1, Members DEF MemInv, ListSound
      <4> QED BY <3>1, <4>1 DEF MemInv, ListSound
    <3> QED BY <3>3, <3>4, <3>5, <3>6, <3>7, <3>8 DEF ListSound
  <2>2. CASE kind[o] # "cq"
    <3>1. Linked' = Linked /\ Grace' = Grace /\ nextCq' = nextCq
      BY <1>1, <1>7, <1>8, <2>2
    <3> QED BY <3>1 DEF MemInv, ListSound
  <2> QED BY <2>1, <2>2
<1>14. NewIsUnknown'
  <2>1. \A n \in CqNodes : \E m \in CqNodes : nextCq'[n] = nextCq[m]
    BY <1>1, <1>10, Sizes
  <2>2. \A x \in Workers : pc'[x] = "registering" => pc[x] = "registering"
    BY <1>4
  <2>3. own' = own /\ created' = created
    BY <1>1 DEF regVars
  <2> QED BY <2>1, <2>2, <2>3 DEF MemInv, NewIsUnknown
<1>15. ReaderIsSafe'
  <2>1. \A n \in Qids : queues'[n] # Nil =>
          \E x \in Workers : pc'[x] \in Published /\ own'[x] = queues'[n] /\ qid'[own'[x]] = n
    <3> SUFFICES ASSUME NEW n \in Qids, queues'[n] # Nil
                 PROVE  \E x \in Workers :
                           pc'[x] \in Published /\ own'[x] = queues'[n] /\ qid'[own'[x]] = n
      OBVIOUS
    <3>1. n # qid[o] /\ queues'[n] = queues[n]
      BY <1>1 DEF MemInv, TypeInv
    <3>2. PICK x \in Workers : pc[x] \in Published /\ own[x] = queues[n] /\ qid[own[x]] = n
      BY <3>1 DEF MemInv, ReaderIsSafe
    <3>3. x # w
      BY <3>1, <3>2 DEF o
    <3> QED BY <1>1, <1>4, <3>1, <3>2, <3>3 DEF regVars
  <2>2. irqPc # "idle" => cursor \in (Linked' \ {ListHead}) \cup Grace' \cup {Nil}
    BY <1>7, <1>8 DEF MemInv, ReaderIsSafe
  <2> QED BY <1>1, <1>9, <2>1, <2>2 DEF MemInv, ReaderIsSafe, irqVars
<1>16. MemInv'
  BY <1>11, <1>12, <1>13, <1>14, <1>15 DEF MemInv
<1> QED BY <1>16, <1>1, <1>3, <1>7, <1>8, <1>10 DEF o, p

\* The interrupt thread follows pointers to what is visible.
LEMMA IrqMem ==
  ASSUME MemInv, IrqThread
  PROVE  MemInv'
<1>1. CASE IrqStart
  <2>1. /\ irqPc = "idle" /\ irqPc' = "poll" /\ cursor' = nextCq[ListHead]
        /\ UNCHANGED <<held, harvested, regVars, pubVars, workVars, removing, devVars, faulted>>
    BY <1>1 DEF IrqStart
  <2>2. cursor' = CmdCq /\ CmdCq \in Linked \ {ListHead}
    BY <2>1, Members, Sizes DEF MemInv, ListSound
  <2>3. TypeInv'
    BY <2>1, <2>2, Sizes DEF MemInv, TypeInv, regVars, pubVars, workVars, devVars
  <2>4. Linked' = Linked /\ Grace' = Grace
    BY <2>1 DEF Linked, Grace, regVars, workVars, ListHead, CmdCq
  <2>5. Owners'
    BY <2>1 DEF MemInv, Owners, regVars, workVars
  <2>6. ListSound' /\ NewIsUnknown'
    BY <2>1, <2>4 DEF MemInv, ListSound, NewIsUnknown, regVars, workVars, pubVars
  <2>7. ReaderIsSafe'
    BY <2>1, <2>2, <2>4 DEF MemInv, ReaderIsSafe, Visible, regVars, workVars, pubVars
  <2> QED BY <2>3, <2>5, <2>6, <2>7 DEF MemInv
<1>2. CASE PollElement
  <2> DEFINE e == Head(post[cursor])
  <2>1. /\ irqPc = "poll" /\ cursor # Nil /\ post[cursor] # <<>>
        /\ post' = [post EXCEPT ![cursor] = Tail(@)]
        /\ cursor = CmdCq => harvested' = harvested \cup {e} /\ held' = held
        /\ cursor # CmdCq => harvested' = harvested /\ held' = held \cup Target(e.qid)
        /\ UNCHANGED <<irqPc, cursor, regVars, pubVars, workVars, removing, devReg, devCmds,
                       submitted, faulted>>
    BY <1>2 DEF PollElement
  <2>2. cursor \in CqNodes /\ cursor # ListHead /\ (cursor # CmdCq => cursor \in Queues)
    <3>1. \A n \in Grace : n \in Queues
      <4>1. \A x \in Workers : waitsFor[x] => own[x] # Nil /\ own[x] \in Queues
        BY DEF MemInv, Owners, TypeInv
      <4> QED BY <4>1, Members
    <3> QED BY <2>1, <3>1, Sizes DEF MemInv, TypeInv, ReaderIsSafe
  <2>3. /\ cursor = CmdCq => e \in Replies /\ Tail(post[cursor]) \in Seq(Replies)
        /\ cursor # CmdCq => e \in Elements /\ Tail(post[cursor]) \in Seq(Elements)
    <3>1. \A S : \A s \in Seq(S) : s # <<>> => Head(s) \in S /\ Tail(s) \in Seq(S)
      OBVIOUS
    <3> QED BY <2>1, <2>2, <3>1 DEF MemInv, TypeInv
  <2> HIDE DEF e
  <2>4. /\ post' \in [CqNodes -> Seq(Replies) \cup Seq(Elements)]
        /\ post'[CmdCq] \in Seq(Replies)
        /\ \A n \in Queues : post'[n] \in Seq(Elements)
    BY <2>1, <2>2, <2>3, Sizes DEF MemInv, TypeInv
  <2>5. cursor # CmdCq => \A q \in Target(e.qid) : q \in Queues /\ Visible(q)
    <3>1. ASSUME NEW i \in Qids, NEW q \in Target(i) PROVE q \in Queues /\ Visible(q)
      BY <3>1 DEF Target, MemInv, TypeInv, ReaderIsSafe, Visible
    <3>2. cursor # CmdCq => e.qid \in Qids
      BY <2>3 DEF Elements
    <3> QED BY <3>1, <3>2
  <2>6. harvested' \subseteq Replies /\ held' \subseteq Queues
    BY <2>1, <2>3, <2>5 DEF MemInv, TypeInv
  <2>7. TypeInv'
    BY <2>1, <2>4, <2>6 DEF MemInv, TypeInv, regVars, pubVars, workVars
  <2>8. Linked' = Linked /\ Grace' = Grace
    BY <2>1 DEF Linked, Grace, regVars, workVars, ListHead, CmdCq
  <2>9. Owners'
    BY <2>1 DEF MemInv, Owners, regVars, workVars
  <2>10. ListSound' /\ NewIsUnknown'
    BY <2>1, <2>8 DEF MemInv, ListSound, NewIsUnknown, regVars, workVars, pubVars
  <2>11. \A q \in held' : Visible(q)'
    <3>1. \A q \in held' : Visible(q)
      BY <2>1, <2>5 DEF MemInv, ReaderIsSafe
    <3> QED BY <2>1, <3>1 DEF Visible, workVars
  <2>12. ReaderIsSafe'
    BY <2>1, <2>8, <2>11 DEF MemInv, ReaderIsSafe, regVars, workVars, pubVars
  <2> QED BY <2>7, <2>9, <2>10, <2>12 DEF MemInv
<1>3. CASE PollNext
  <2>1. /\ irqPc = "poll" /\ cursor # Nil /\ cursor' = nextCq[cursor]
        /\ UNCHANGED <<irqPc, held, harvested, regVars, pubVars, workVars, removing, devVars,
                       faulted>>
    BY <1>3 DEF PollNext
  <2>2. cursor \in CqNodes /\ cursor \in Linked \cup Grace
    BY <2>1 DEF MemInv, TypeInv, ReaderIsSafe
  <2>3. cursor' \in (Linked \ {ListHead}) \cup Grace \cup {Nil} /\ cursor' \in CqNodes \cup {Nil}
    BY <2>1, <2>2, Sizes DEF MemInv, TypeInv, ListSound
  <2>4. TypeInv'
    BY <2>1, <2>3 DEF MemInv, TypeInv, regVars, pubVars, workVars, devVars
  <2>5. Linked' = Linked /\ Grace' = Grace
    BY <2>1 DEF Linked, Grace, regVars, workVars, ListHead, CmdCq
  <2>6. Owners'
    BY <2>1 DEF MemInv, Owners, regVars, workVars
  <2>7. ListSound' /\ NewIsUnknown'
    BY <2>1, <2>5 DEF MemInv, ListSound, NewIsUnknown, regVars, workVars, pubVars
  <2>8. ReaderIsSafe'
    BY <2>1, <2>3, <2>5 DEF MemInv, ReaderIsSafe, Visible, regVars, workVars, pubVars
  <2> QED BY <2>4, <2>6, <2>7, <2>8 DEF MemInv
<1>4. CASE Dispatch
  <2>1. /\ irqPc = "poll" /\ cursor = Nil /\ harvested' = {} /\ irqPc' = "callbacks"
        /\ UNCHANGED <<cursor, held, regVars, pubVars, pc, own, cmdNo, waitsFor, removing,
                       devVars, faulted>>
    BY <1>4 DEF Dispatch
  <2>2. answer' \in [Workers -> {"none", "ok", "error", "timeout"}]
    <3> DEFINE Mine(w) == {e \in harvested : e.w = w /\ e.no = cmdNo[w]}
               Told(w) == IF Mine(w) # {} /\ answer[w] = "none" THEN (CHOOSE e \in Mine(w) : TRUE).res
                                                                ELSE answer[w]
    <3>1. answer' = [w \in Workers |-> Told(w)]
      BY <1>4 DEF Dispatch
    <3>2. ASSUME NEW w \in Workers PROVE Told(w) \in {"none", "ok", "error", "timeout"}
      <4>1. Mine(w) # {} => (CHOOSE e \in Mine(w) : TRUE) \in Mine(w)
        OBVIOUS
      <4>2. \A e \in Mine(w) : e.res \in {"ok", "error"}
        BY DEF MemInv, TypeInv, Replies
      <4> HIDE DEF Mine
      <4> QED BY <4>1, <4>2 DEF MemInv, TypeInv
    <3> HIDE DEF Told
    <3> QED BY <3>1, <3>2
  <2>3. TypeInv'
    BY <2>1, <2>2 DEF MemInv, TypeInv, regVars, pubVars, devVars
  <2>4. Linked' = Linked /\ Grace' = Grace
    BY <2>1 DEF Linked, Grace, regVars, ListHead, CmdCq
  <2>5. Owners'
    BY <2>1 DEF MemInv, Owners, regVars
  <2>6. ListSound' /\ NewIsUnknown'
    BY <2>1, <2>4 DEF MemInv, ListSound, NewIsUnknown, regVars, pubVars
  <2>7. ReaderIsSafe'
    BY <2>1, <2>4 DEF MemInv, ReaderIsSafe, Visible, regVars, pubVars
  <2> QED BY <2>3, <2>5, <2>6, <2>7 DEF MemInv
<1>5. CASE IrqEnd
  <2>1. /\ irqPc = "callbacks" /\ irqPc' = "idle" /\ cursor' = ListHead /\ held' = {}
        /\ waitsFor' = [w \in Workers |-> FALSE]
        /\ UNCHANGED <<harvested, regVars, pubVars, pc, own, cmdNo, answer, removing, devVars,
                       faulted>>
    BY <1>5 DEF IrqEnd
  <2>2. TypeInv'
    BY <2>1, Sizes DEF MemInv, TypeInv, regVars, pubVars, devVars
  <2>3. Linked' = Linked
    BY <2>1 DEF Linked, regVars, ListHead, CmdCq
  <2>4. Grace' = {}
    BY <2>1 DEF Grace
  <2>5. Owners'
    BY <2>1 DEF MemInv, Owners, regVars
  <2>6. ListSound' /\ NewIsUnknown'
    BY <2>1, <2>3, <2>4 DEF MemInv, ListSound, NewIsUnknown, regVars, pubVars
  <2>7. ReaderIsSafe'
    BY <2>1 DEF MemInv, ReaderIsSafe, regVars, pubVars
  <2> QED BY <2>2, <2>5, <2>6, <2>7 DEF MemInv
<1> QED BY <1>1, <1>2, <1>3, <1>4, <1>5 DEF IrqThread

\* What the steps of the device and the rest do to the types.
LEMMA OtherMem ==
  ASSUME MemInv,
         \/ Device \/ StartRemoval \/ UNCHANGED vars
         \/ \E w \in Workers : CommandTimeout(w) \/ Submit(w)
  PROVE  MemInv'
<1>1. UNCHANGED memVars
  BY DEF Device, StartRemoval, CommandTimeout, Submit, ExecuteCommand, CompleteRequest, vars,
         memVars, workVars
<1>2. \A S : \A s \in Seq(S) : /\ s # <<>> => Head(s) \in S /\ Tail(s) \in Seq(S)
                              /\ \A m \in S : Append(s, m) \in Seq(S)
  OBVIOUS
<1>3. TypeInv'
  <2>1. CASE StartRemoval \/ UNCHANGED vars
    BY <1>1, <2>1 DEF MemInv, TypeInv, StartRemoval, memVars, vars, regVars, pubVars, workVars, irqVars,
              devVars
  <2>2. ASSUME NEW w \in Workers, CommandTimeout(w) PROVE TypeInv'
    <3>1. answer' \in [Workers -> {"none", "ok", "error", "timeout"}]
      BY <2>2 DEF CommandTimeout, MemInv, TypeInv
    <3> QED BY <2>2, <3>1 DEF CommandTimeout, MemInv, TypeInv, regVars, pubVars, irqVars, devVars
  <2>3. ASSUME NEW w \in Workers, Submit(w) PROVE TypeInv'
    <3>1. submitted' \subseteq 1..created
      <4>1. own[w] \in 1..created
        BY <2>3 DEF Submit, MemInv, TypeInv, Owners
      <4>2. submitted \subseteq 1..created /\ submitted' \subseteq submitted \cup {own[w]}
        BY <2>3 DEF Submit, MemInv, TypeInv
      <4> QED BY <4>1, <4>2
    <3> QED BY <2>3, <3>1 DEF Submit, MemInv, TypeInv, regVars, pubVars, irqVars, workVars
  <2>4. ASSUME NEW res \in {"ok", "error"}, ExecuteCommand(res) PROVE TypeInv'
    <3> DEFINE c == Head(devCmds)
               e == [w |-> c.w, no |-> c.no, o |-> c.o, res |-> res]
    <3>1. c \in Commands /\ Tail(devCmds) \in Seq(Commands)
      BY <1>2, <2>4 DEF ExecuteCommand, MemInv, TypeInv
    <3>2. e \in Replies /\ c.o \in Queues
      BY <3>1 DEF Commands, Replies
    <3>3. /\ devReg' = devReg \/ devReg' = [devReg EXCEPT ![qid[c.o]] = c.o]
             \/ devReg' = [devReg EXCEPT ![qid[c.o]] = Nil]
          /\ faulted' \in BOOLEAN
          /\ post' = [post EXCEPT ![CmdCq] = Append(post[CmdCq], e)]
          /\ devCmds' = Tail(devCmds)
          /\ UNCHANGED <<submitted, regVars, pubVars, workVars, removing, irqVars>>
      BY <2>4 DEF ExecuteCommand, MemInv, TypeInv
    <3> HIDE DEF c, e
    <3>4. devReg' \in [Qids -> Queues \cup {Nil}]
      BY <3>2, <3>3 DEF MemInv, TypeInv
    <3>5. Append(post[CmdCq], e) \in Seq(Replies)
      BY <1>2, <3>2 DEF MemInv, TypeInv
    <3>6. /\ post' \in [CqNodes -> Seq(Replies) \cup Seq(Elements)]
          /\ post'[CmdCq] \in Seq(Replies)
          /\ \A n \in Queues : post'[n] \in Seq(Elements)
      BY <3>3, <3>5, Sizes DEF MemInv, TypeInv
    <3> QED BY <3>1, <3>3, <3>4, <3>6 DEF MemInv, TypeInv, regVars, pubVars, workVars, irqVars
  <2>5. ASSUME NEW o \in submitted, CompleteRequest(o) PROVE TypeInv'
    <3> DEFINE e == [qid |-> qid[o], o |-> o]
               n == cqOf[o]
    <3>1. e \in Elements /\ n \in Queues \cup {Nil}
      <4>1. o \in 1..created /\ created \in 0..MaxQueues
        BY DEF MemInv, TypeInv
      <4>2. o \in Queues
        BY <4>1, Sizes
      <4>3. qid[o] \in Qids /\ cqOf[o] \in Queues \cup {Nil}
        BY <4>1, <4>2 DEF MemInv, TypeInv
      <4> QED BY <4>2, <4>3 DEF Elements
    <3>2. /\ submitted' = submitted \ {o}
          /\ post' = [post EXCEPT ![n] = Append(post[n], e)]
          /\ UNCHANGED <<devReg, devCmds, regVars, pubVars, workVars, removing, irqVars, faulted>>
      BY <2>5 DEF CompleteRequest
    <3> HIDE DEF e, n
    <3>3. n \in Queues => Append(post[n], e) \in Seq(Elements)
      BY <1>2, <3>1 DEF MemInv, TypeInv
    <3>4. /\ post' \in [CqNodes -> Seq(Replies) \cup Seq(Elements)]
          /\ post'[CmdCq] \in Seq(Replies)
          /\ \A m \in Queues : post'[m] \in Seq(Elements)
      BY <3>1, <3>2, <3>3, Sizes DEF MemInv, TypeInv
    <3> QED BY <3>2, <3>4 DEF MemInv, TypeInv, regVars, pubVars, workVars, irqVars
  <2> QED BY <2>1, <2>2, <2>3, <2>4, <2>5 DEF Device
<1> QED BY <1>1, <1>3, SameMemory

LEMMA InitMem == Init => MemInv
<1> SUFFICES ASSUME Init PROVE MemInv
  OBVIOUS
<1>1. \A S : <<>> \in Seq(S)
  OBVIOUS
<1>2. TypeInv
  <2>1. nextCq \in [CqNodes -> (CqNodes \ {ListHead}) \cup {Nil}]
    BY Sizes DEF Init
  <2>2. /\ post \in [CqNodes -> Seq(Replies) \cup Seq(Elements)]
        /\ post[CmdCq] \in Seq(Replies)
        /\ \A n \in Queues : post[n] \in Seq(Elements)
    BY <1>1, Sizes DEF Init
  <2>3. devCmds \in Seq(Commands)
    BY <1>1 DEF Init
  <2>4. /\ created \in 0..MaxQueues /\ alive \subseteq 1..created /\ submitted \subseteq 1..created
        /\ \A o \in 1..created : qid[o] \in Qids
    BY Sizes DEF Init
  <2>5. /\ kind \in [Queues -> {"none", "cq", "sq"}] /\ qid \in [Queues -> Nat]
        /\ cqOf \in [Queues -> Queues \cup {Nil}] /\ queues \in [Qids -> Queues \cup {Nil}]
        /\ pc \in [Workers -> Stages] /\ own \in [Workers -> Queues \cup {Nil}]
        /\ cmdNo \in [Workers -> Nat] /\ waitsFor \in [Workers -> BOOLEAN]
        /\ answer \in [Workers -> {"none", "ok", "error", "timeout"}]
        /\ devReg \in [Qids -> Queues \cup {Nil}]
    BY DEF Init, Stages
  <2> QED BY <2>1, <2>2, <2>3, <2>4, <2>5, Sizes DEF Init, TypeInv
<1>3. Linked = {ListHead, CmdCq} /\ Grace = {}
  BY DEF Init, Linked, Grace, Published
<1>4. nextCq[ListHead] = CmdCq /\ nextCq[CmdCq] = Nil /\ \A n \in Queues : nextCq[n] = Nil
  BY Sizes DEF Init
<1>5. ListSound
  BY <1>3, <1>4, Sizes DEF ListSound
<1>6. NewIsUnknown
  BY <1>4, Sizes DEF NewIsUnknown
<1>7. Owners /\ ReaderIsSafe
  BY DEF Init, Owners, ReaderIsSafe
<1> QED BY <1>2, <1>5, <1>6, <1>7 DEF MemInv

LEMMA NextMem == MemInv /\ [Next]_vars => MemInv'
  BY CreateMem, LeaveMem, DestroyMem, PublishMem, UnpublishMem, IrqMem, OtherMem
     DEF Next, User, Worker, Rest

-----------------------------------------------------------------------------
(* The commands and their replies.                                         *)

Same(c, e) == c.w = e.w /\ c.no = e.no

\* A command is in one place: with the device, in the command CQ, or harvested.
OnePlace ==
    /\ \A j, k \in 1..Len(devCmds) : Same(devCmds[j], devCmds[k]) => j = k
    /\ \A j, k \in 1..Len(post[CmdCq]) : Same(post[CmdCq][j], post[CmdCq][k]) => j = k
    /\ \A e, f \in harvested : Same(e, f) => e = f
    /\ \A j \in 1..Len(devCmds), k \in 1..Len(post[CmdCq]) : ~Same(devCmds[j], post[CmdCq][k])
    /\ \A j \in 1..Len(devCmds), e \in harvested : ~Same(devCmds[j], e)
    /\ \A k \in 1..Len(post[CmdCq]), e \in harvested : ~Same(post[CmdCq][k], e)

Waiting(w) == pc[w] \in {"registering", "unregistering"}

\* A command, or the reply c to it, that its worker may still wait for is about the
\* worker's queue, and the worker has had no answer to it; others are older.
Expected(c) ==
    /\ c.no <= cmdNo[c.w] /\ c.o <= created
    /\ c.no = cmdNo[c.w] => /\ answer[c.w] \in {"none", "timeout"}
                            /\ Waiting(c.w) => own[c.w] = c.o

CommandsAreExpected ==
    /\ \A k \in 1..Len(devCmds) :
          LET c == devCmds[k]
          IN /\ Expected(c)
             /\ c.no = cmdNo[c.w] =>
                   /\ pc[c.w] = "registering" => c.op = "register"
                   /\ pc[c.w] = "unregistering" => c.op = "unregister"
    /\ \A k \in 1..Len(post[CmdCq]) : Expected(post[CmdCq][k])
    /\ \A e \in harvested : Expected(e)
    /\ \A w \in Workers : pc[w] = "ready" => answer[w] = "ok"

Registers(c, o) == c.op = "register" /\ c.o = o

\* A queue is registered by one command, and only while its owner registers it;
\* what was to be registered under its qid before is ahead of that command.
RegistersOnce ==
    \A w \in Workers : own[w] # Nil =>
        /\ \A k \in 1..Len(devCmds) : Registers(devCmds[k], own[w]) =>
              pc[w] = "registering" /\ devCmds[k].w = w /\ devCmds[k].no = cmdNo[w]
        /\ \A j \in 1..Len(devCmds) :
              /\ devCmds[j].op = "register" /\ devCmds[j].o # own[w]
              /\ qid[devCmds[j].o] = qid[own[w]]
              => \E k \in (j + 1)..Len(devCmds) : Registers(devCmds[k], own[w])

\* The worker's registration has succeeded, though it may not know yet.
OkReply(w) ==
    \/ \E e \in harvested : e.w = w /\ e.no = cmdNo[w] /\ e.res = "ok"
    \/ \E k \in 1..Len(post[CmdCq]) : /\ post[CmdCq][k].w = w /\ post[CmdCq][k].no = cmdNo[w]
                                      /\ post[CmdCq][k].res = "ok"
Established(w) ==
    \/ pc[w] \in Published \cup {"syncing"}
    \/ pc[w] = "registering" /\ (answer[w] = "ok" \/ OkReply(w))

\* From then on until its qid is freed the device has nothing else under that qid.
QidIsOwn ==
    \A w \in Workers : Established(w) => devReg[qid[own[w]]] \in {own[w], Nil}

CommandInv ==
    /\ OnePlace
    /\ CommandsAreExpected
    /\ RegistersOnce
    /\ QidIsOwn

\* As long as no command fails, what the device has registered is in use: by a queue
\* whose registration has succeeded and whose unregistration it has not executed.
CommandsAreCurrent ==
    ~faulted =>
        /\ \A k \in 1..Len(devCmds) :
              LET c == devCmds[k]
              IN c.no = cmdNo[c.w] /\ Waiting(c.w) /\ answer[c.w] = "none"
        /\ \A w \in Workers : answer[w] # "timeout"
InUse(w) ==
    \/ pc[w] = "ready"
    \/ pc[w] = "registering" /\ (answer[w] = "ok" \/ OkReply(w))
    \/ /\ pc[w] = "unregistering" /\ answer[w] = "none"
       /\ \E k \in 1..Len(devCmds) : devCmds[k].w = w /\ devCmds[k].no = cmdNo[w]
DeviceIsTrue ==
    ~faulted /\ ~removing =>
        \A i \in Qids : devReg[i] # Nil =>
            \E w \in Workers : own[w] = devReg[i] /\ qid[own[w]] = i /\ InUse(w)

DeviceInv ==
    /\ CommandsAreCurrent
    /\ DeviceIsTrue

LEMMA TailIs ==
  ASSUME NEW S, NEW s \in Seq(S), s # <<>>
  PROVE  /\ Len(s) \in Nat /\ 1 \in 1..Len(s) /\ Head(s) = s[1] /\ Head(s) \in S
         /\ Len(Tail(s)) = Len(s) - 1
         /\ \A i \in 1..Len(Tail(s)) : i + 1 \in 1..Len(s) /\ Tail(s)[i] = s[i + 1] /\ i + 1 # 1
         /\ \A i \in 1..Len(s) : i = 1 \/ (i - 1 \in 1..Len(Tail(s)) /\ Tail(s)[i - 1] = s[i])
  OBVIOUS

LEMMA AppendIs ==
  ASSUME NEW S, NEW s \in Seq(S), NEW e \in S
  PROVE  /\ Len(s) \in Nat /\ Len(Append(s, e)) = Len(s) + 1
         /\ Len(s) + 1 \in 1..Len(Append(s, e)) /\ Append(s, e)[Len(s) + 1] = e
         /\ \A i \in 1..Len(s) : i \in 1..Len(Append(s, e)) /\ Append(s, e)[i] = s[i] /\ i # Len(s) + 1
         /\ \A i \in 1..Len(Append(s, e)) : i \in 1..Len(s) \/ i = Len(s) + 1
  OBVIOUS

\* The types of commands and replies.
LEMMA Fields ==
  ASSUME MemInv
  PROVE  /\ \A k \in 1..Len(devCmds) :
               /\ devCmds[k] \in Commands
               /\ devCmds[k].w \in Workers /\ devCmds[k].no \in Nat /\ devCmds[k].o \in Queues
         /\ \A k \in 1..Len(post[CmdCq]) :
               /\ post[CmdCq][k] \in Replies
               /\ post[CmdCq][k].w \in Workers /\ post[CmdCq][k].no \in Nat
         /\ \A e \in harvested : e \in Replies /\ e.w \in Workers /\ e.no \in Nat
         /\ \A w \in Workers : cmdNo[w] \in Nat
<1>1. /\ devCmds \in Seq(Commands) /\ post[CmdCq] \in Seq(Replies) /\ harvested \subseteq Replies
      /\ cmdNo \in [Workers -> Nat]
  BY DEF MemInv, TypeInv
<1>2. \A c \in Commands : c.w \in Workers /\ c.no \in Nat /\ c.o \in Queues
  BY DEF Commands
<1>3. \A c \in Replies : c.w \in Workers /\ c.no \in Nat
  BY DEF Replies
<1>4. \A k \in 1..Len(devCmds) : devCmds[k] \in Commands
  BY <1>1
<1>5. \A k \in 1..Len(post[CmdCq]) : post[CmdCq][k] \in Replies
  BY <1>1
<1> QED BY <1>1, <1>2, <1>3, <1>4, <1>5

\* A step that commands have nothing to do with.
LEMMA SameCommands ==
  ASSUME CommandInv, DeviceInv, UNCHANGED <<devCmds, harvested, cmdNo, answer, pc, own, qid,
         created, devReg, faulted>>, post'[CmdCq] = post[CmdCq], removing => removing'
  PROVE  CommandInv' /\ DeviceInv'
<1>1. OnePlace'
  BY DEF CommandInv, OnePlace
<1>2. CommandsAreExpected'
  BY DEF CommandInv, CommandsAreExpected, Expected, Waiting
<1>3. RegistersOnce'
  BY DEF CommandInv, RegistersOnce
<1>4. QidIsOwn'
  BY DEF CommandInv, QidIsOwn, Established, OkReply
<1>5. DeviceInv'
  BY DEF DeviceInv, CommandsAreCurrent, Waiting, DeviceIsTrue, InUse, OkReply
<1> QED BY <1>1, <1>2, <1>3, <1>4, <1>5 DEF CommandInv

\* A worker goes on, with the answer to its command or without one.
LEMMA MovesOn ==
  ASSUME MemInv, CommandInv, DeviceInv, NEW w \in Workers,
         UNCHANGED <<devCmds, harvested, cmdNo, answer, qid, created, devReg, faulted, removing>>,
         post'[CmdCq] = post[CmdCq],
         \A x \in Workers \ {w} : pc'[x] = pc[x] /\ own'[x] = own[x],
         pc[w] # "idle", pc'[w] \in {"idle", "ready", "unpublish", "syncing"},
         IF pc'[w] = "idle" THEN own'[w] = Nil ELSE own'[w] = own[w] /\ own[w] # Nil,
         Waiting(w) => answer[w] # "none",
         pc[w] = "registering" => pc'[w] \in {"idle", "ready"},
         pc'[w] = "ready" => pc[w] = "registering" /\ answer[w] = "ok",
         ~faulted /\ ~removing /\ InUse(w) => pc'[w] = "ready"
  PROVE  CommandInv' /\ DeviceInv'
<1>1. OnePlace'
  BY DEF CommandInv, OnePlace
<1>2. \A x \in Workers : Waiting(x)' => x # w /\ Waiting(x)
  BY DEF Waiting
<1>3. \A c : c.w \in Workers /\ Expected(c) => Expected(c)'
  BY <1>2 DEF Expected
<1>4. CommandsAreExpected'
  <2>1. \A x \in Workers : pc'[x] \in {"registering", "unregistering"} => pc'[x] = pc[x]
    OBVIOUS
  <2>2. \A x \in Workers : pc'[x] = "ready" => answer'[x] = "ok"
    BY DEF CommandInv, CommandsAreExpected
  <2> QED BY <1>3, <2>1, <2>2, Fields DEF CommandInv, CommandsAreExpected
<1>5. \A k \in 1..Len(devCmds) : Registers(devCmds[k], own[w]) /\ own[w] # Nil => own'[w] = Nil
  <2> SUFFICES ASSUME NEW k \in 1..Len(devCmds), Registers(devCmds[k], own[w]), own[w] # Nil
               PROVE  own'[w] = Nil
    OBVIOUS
  <2>1. pc[w] = "registering" /\ devCmds[k].w = w /\ devCmds[k].no = cmdNo[w]
    BY DEF CommandInv, RegistersOnce
  <2>2. answer[w] \in {"none", "timeout"}
    BY <2>1 DEF CommandInv, CommandsAreExpected, Expected
  <2> QED BY <2>1, <2>2
<1>6. RegistersOnce'
  <2> SUFFICES ASSUME NEW x \in Workers, own'[x] # Nil
               PROVE  /\ \A k \in 1..Len(devCmds) : Registers(devCmds[k], own'[x]) =>
                            pc'[x] = "registering" /\ devCmds[k].w = x /\ devCmds[k].no = cmdNo[x]
                      /\ \A j \in 1..Len(devCmds) :
                            /\ devCmds[j].op = "register" /\ devCmds[j].o # own'[x]
                            /\ qid[devCmds[j].o] = qid[own'[x]]
                            => \E k \in (j + 1)..Len(devCmds) : Registers(devCmds[k], own'[x])
    BY DEF RegistersOnce, Registers
  <2>1. own'[x] = own[x] /\ own[x] # Nil
    OBVIOUS
  <2>2. x = w => \A k \in 1..Len(devCmds) : ~Registers(devCmds[k], own[x])
    BY <1>5, <2>1
  <2>3. x # w => pc'[x] = pc[x]
    OBVIOUS
  <2> QED BY <2>1, <2>2, <2>3 DEF CommandInv, RegistersOnce
<1>7. \A x \in Workers : OkReply(x)' <=> OkReply(x)
  BY DEF OkReply
<1>8. QidIsOwn'
  <2>1. \A x \in Workers : Established(x)' => Established(x) /\ own'[x] = own[x]
    BY <1>7 DEF Established, Published, Waiting, MemInv, TypeInv, Stages
  <2> QED BY <2>1 DEF CommandInv, QidIsOwn
<1>9. CommandsAreCurrent'
  <2>1. ~faulted => \A k \in 1..Len(devCmds) : devCmds[k].w # w
    BY DEF DeviceInv, CommandsAreCurrent
  <2> QED BY <2>1, Fields DEF DeviceInv, CommandsAreCurrent, Waiting
<1>10. DeviceIsTrue'
  <2>1. \A x \in Workers \ {w} : InUse(x) => InUse(x)'
    BY <1>7 DEF InUse
  <2>2. pc'[w] = "ready" => InUse(w)'
    BY DEF InUse
  <2> SUFFICES ASSUME ~faulted, ~removing, NEW i \in Qids, devReg[i] # Nil
               PROVE  \E x \in Workers : own'[x] = devReg[i] /\ qid[own'[x]] = i /\ InUse(x)'
    BY DEF DeviceIsTrue
  <2>3. PICK x \in Workers : own[x] = devReg[i] /\ qid[own[x]] = i /\ InUse(x)
    BY DEF DeviceInv, DeviceIsTrue
  <2>4. own'[x] = own[x] /\ InUse(x)'
    BY <2>1, <2>2, <2>3
  <2> QED BY <2>3, <2>4
<1> QED BY <1>1, <1>4, <1>6, <1>8, <1>9, <1>10 DEF CommandInv, DeviceInv

\* The steps of a worker that issue no command.
LEMMA WorkerCommands ==
  ASSUME MemInv, CommandInv, DeviceInv, NEW w \in Workers,
         CreateFails(w) \/ Free(w) \/ Publish(w) \/ Unregistered(w) \/ Unpublish(w)
         \/ (Destroy(w) /\ removing)
  PROVE  CommandInv' /\ DeviceInv'
<1> USE DEF regVars, pubVars, workVars, irqVars, devVars
<1>t. /\ pc \in [Workers -> Stages] /\ own \in [Workers -> Queues \cup {Nil}]
      /\ pc[w] = "idle" <=> own[w] = Nil
  BY DEF MemInv, TypeInv, Owners
<1>1. CASE CreateFails(w)
  <2>1. ~faulted /\ InUse(w) => FALSE
    <3>1. ~faulted => answer[w] = "error"
      BY <1>1 DEF CreateFails, DeviceInv, CommandsAreCurrent
    <3>2. answer[w] = "error" => ~OkReply(w)
      BY Fields DEF OkReply, CommandInv, CommandsAreExpected, Expected
    <3> QED BY <3>1, <3>2, <1>1 DEF CreateFails, InUse
  <2>2. pc'[w] = "idle" /\ own'[w] = Nil /\ \A x \in Workers \ {w} : pc'[x] = pc[x] /\ own'[x] = own[x]
    BY <1>1, <1>t DEF CreateFails
  <2> QED BY <1>1, <2>1, <2>2, MovesOn DEF CreateFails, Waiting
<1>2. CASE Free(w)
  <2>1. pc'[w] = "idle" /\ own'[w] = Nil /\ \A x \in Workers \ {w} : pc'[x] = pc[x] /\ own'[x] = own[x]
    BY <1>2, <1>t DEF Free
  <2>2. ~InUse(w)
    BY <1>2 DEF Free, InUse
  <2> QED BY <1>2, <2>1, <2>2, MovesOn DEF Free, Waiting
<1>3. CASE Publish(w)
  <2>1. pc'[w] = "ready" /\ own' = own /\ \A x \in Workers \ {w} : pc'[x] = pc[x]
    BY <1>3, <1>t DEF Publish
  <2>2. pc[w] = "registering" /\ answer[w] = "ok"
    BY <1>3 DEF Publish
  <2> QED BY <1>3, <1>t, <2>1, <2>2, MovesOn DEF Publish, Waiting
<1>4. CASE Unregistered(w)
  <2>1. pc'[w] = "unpublish" /\ own' = own /\ \A x \in Workers \ {w} : pc'[x] = pc[x]
    BY <1>4, <1>t DEF Unregistered
  <2>2. pc[w] = "unregistering" /\ answer[w] # "none" /\ ~InUse(w)
    BY <1>4 DEF Unregistered, InUse
  <2> QED BY <1>4, <1>t, <2>1, <2>2, MovesOn DEF Unregistered, Waiting
<1>5. CASE Unpublish(w)
  <2>1. pc'[w] = "syncing" /\ own' = own /\ \A x \in Workers \ {w} : pc'[x] = pc[x]
    BY <1>5, <1>t DEF Unpublish
  <2>2. pc[w] = "unpublish" /\ ~InUse(w)
    BY <1>5 DEF Unpublish, InUse
  <2> QED BY <1>5, <1>t, <2>1, <2>2, MovesOn DEF Unpublish, Waiting
<1>6. CASE Destroy(w) /\ removing
  <2>1. pc'[w] = "unpublish" /\ own' = own /\ \A x \in Workers \ {w} : pc'[x] = pc[x]
    BY <1>6, <1>t DEF Destroy
  <2>2. pc[w] = "ready" /\ UNCHANGED <<devCmds, harvested, cmdNo, answer, qid, created, devReg,
                                        faulted, removing, post>>
    BY <1>6 DEF Destroy
  <2> QED BY <1>6, <1>t, <2>1, <2>2, MovesOn DEF Waiting
<1> QED BY <1>1, <1>2, <1>3, <1>4, <1>5, <1>6

\* The steps that commands have nothing to do with.
LEMMA IdleCommands ==
  ASSUME MemInv, CommandInv, DeviceInv,
         \/ \E w \in Workers : Submit(w)
         \/ StartRemoval \/ IrqStart \/ PollNext \/ IrqEnd \/ UNCHANGED vars
         \/ \E o \in submitted : CompleteRequest(o)
         \/ PollElement /\ cursor # CmdCq
  PROVE  CommandInv' /\ DeviceInv'
<1> USE DEF regVars, pubVars, workVars, irqVars, devVars, vars
<1>t. post \in [CqNodes -> Seq(Replies) \cup Seq(Elements)] /\ CmdCq \in CqNodes
      /\ cursor \in CqNodes \cup {Nil}
  BY Sizes DEF MemInv, TypeInv
<1>1. CASE \E w \in Workers : Submit(w)
  BY <1>1, SameCommands DEF Submit
<1>2. CASE StartRemoval
  BY <1>2, SameCommands DEF StartRemoval
<1>3. CASE IrqStart
  BY <1>3, SameCommands DEF IrqStart
<1>4. CASE PollNext
  BY <1>4, SameCommands DEF PollNext
<1>5. CASE IrqEnd
  BY <1>5, SameCommands DEF IrqEnd
<1>6. CASE UNCHANGED vars
  BY <1>6, SameCommands
<1>7. ASSUME NEW o \in submitted, CompleteRequest(o)
      PROVE  CommandInv' /\ DeviceInv'
  <2>0. o \in 1..created /\ created \in 0..MaxQueues /\ cqOf \in [Queues -> Queues \cup {Nil}]
    BY DEF MemInv, TypeInv
  <2>1. o \in Queues /\ cqOf[o] \in Queues \cup {Nil} /\ CmdCq # Nil /\ CmdCq \notin Queues
    BY <2>0, Sizes
  <2>2. post'[CmdCq] = post[CmdCq]
    BY <1>7, <1>t, <2>1 DEF CompleteRequest
  <2> QED BY <1>7, <2>2, SameCommands DEF CompleteRequest
<1>8. CASE PollElement /\ cursor # CmdCq
  <2>1. post'[CmdCq] = post[CmdCq] /\ harvested' = harvested
    BY <1>8, <1>t DEF PollElement
  <2>2. UNCHANGED <<devCmds, cmdNo, answer, pc, own, qid, created, devReg, faulted, removing>>
    BY <1>8 DEF PollElement
  <2> QED BY <2>1, <2>2, SameCommands
<1> QED BY <1>1, <1>2, <1>3, <1>4, <1>5, <1>6, <1>7, <1>8

\* A worker gives up: from then on nothing is said about what the device has.
LEMMA TimeoutCommands ==
  ASSUME MemInv, CommandInv, DeviceInv, NEW w \in Workers, CommandTimeout(w)
  PROVE  CommandInv' /\ DeviceInv'
<1>t. answer \in [Workers -> {"none", "ok", "error", "timeout"}]
  BY DEF MemInv, TypeInv
<1>1. /\ Waiting(w) /\ answer[w] = "none" /\ faulted' = TRUE /\ answer'[w] = "timeout"
      /\ \A x \in Workers \ {w} : answer'[x] = answer[x]
      /\ UNCHANGED <<devCmds, harvested, cmdNo, pc, own, qid, created, devReg, removing, post>>
  BY <1>t DEF CommandTimeout, Waiting, regVars, pubVars, irqVars, devVars
<1>2. OnePlace'
  BY <1>1 DEF CommandInv, OnePlace
<1>3. \A c : c.w \in Workers /\ Expected(c) => Expected(c)'
  BY <1>1 DEF Expected, Waiting
<1>4. CommandsAreExpected'
  <2>1. \A x \in Workers : pc'[x] = "ready" => answer'[x] = "ok"
    BY <1>1 DEF CommandInv, CommandsAreExpected, Waiting
  <2> QED BY <1>1, <1>3, <2>1, Fields DEF CommandInv, CommandsAreExpected
<1>5. RegistersOnce'
  BY <1>1 DEF CommandInv, RegistersOnce
<1>6. QidIsOwn'
  <2>1. \A x \in Workers : Established(x)' => Established(x)
    BY <1>1 DEF Established, OkReply
  <2> QED BY <1>1, <2>1 DEF CommandInv, QidIsOwn
<1>7. DeviceInv'
  BY <1>1 DEF DeviceInv, CommandsAreCurrent, DeviceIsTrue
<1> QED BY <1>2, <1>4, <1>5, <1>6, <1>7 DEF CommandInv

\* A worker issues a command: to register a new queue, or to unregister its queue.
LEMMA IssueCommands ==
  ASSUME MemInv, MemInv', CommandInv, DeviceInv, NEW w \in Workers, NEW op, NEW o,
         Issue(w, op, o), UNCHANGED <<harvested, post, devReg, faulted, removing>>,
         created <= created', \A q \in 1..created : qid'[q] = qid[q],
         \A x \in Workers \ {w} : pc'[x] = pc[x] /\ own'[x] = own[x],
         own'[w] = o,
         \/ /\ pc[w] = "idle" /\ pc'[w] = "registering" /\ op = "register"
            /\ o = created + 1 /\ created' = created + 1 /\ qid'[o] \notin qidUsed
         \/ /\ pc[w] = "ready" /\ pc'[w] = "unregistering" /\ op = "unregister"
            /\ own[w] = o /\ created' = created
  PROVE  CommandInv' /\ DeviceInv'
<1> DEFINE new == [w |-> w, no |-> cmdNo[w] + 1, op |-> op, o |-> o]
<1>t. /\ created \in Nat /\ created' \in Nat /\ devCmds \in Seq(Commands)
      /\ cmdNo \in [Workers -> Nat] /\ answer \in [Workers -> {"none", "ok", "error", "timeout"}]
      /\ own \in [Workers -> Queues \cup {Nil}]
      /\ created' \in 0..MaxQueues /\ alive \subseteq 1..created
  BY Sizes DEF MemInv, TypeInv
<1>o. o \in Queues /\ o # Nil /\ o <= created'
  <2>1. CASE o = created + 1 /\ created' = created + 1
    <3>1. o \in 1..MaxQueues /\ o <= created'
      BY <2>1, <1>t, Sizes
    <3> QED BY <3>1, Sizes
  <2>2. CASE own[w] = o /\ created' = created /\ pc[w] = "ready"
    <3>1. own[w] \in alive /\ own[w] # Nil
      BY <2>2 DEF MemInv, Owners
    <3> QED BY <3>1, <2>2, <1>t, Sizes
  <2> QED BY <2>1, <2>2
<1>n. /\ new \in Commands /\ new.w = w /\ new.no = cmdNo'[w] /\ new.op = op /\ new.o = o
      /\ cmdNo'[w] = cmdNo[w] + 1 /\ answer'[w] = "none"
      /\ \A x \in Workers \ {w} : cmdNo'[x] = cmdNo[x] /\ answer'[x] = answer[x]
      /\ devCmds' = Append(devCmds, new)
  <2>1. new \in Commands
    BY <1>t, <1>o DEF Commands
  <2> QED BY <2>1, <1>t DEF Issue
<1> HIDE DEF new
<1> DEFINE n == Len(devCmds) + 1
<1>a. /\ Len(devCmds) \in Nat /\ Len(devCmds') = n /\ n \in 1..Len(devCmds') /\ devCmds'[n] = new
      /\ \A k \in 1..Len(devCmds) : k \in 1..Len(devCmds') /\ devCmds'[k] = devCmds[k] /\ k # n
      /\ \A k \in 1..Len(devCmds') : k \in 1..Len(devCmds) \/ k = n
  BY <1>n, <1>t, AppendIs
<1> HIDE DEF n
<1>e. /\ \A k \in 1..Len(devCmds) : Expected(devCmds[k])
      /\ \A k \in 1..Len(post[CmdCq]) : Expected(post[CmdCq][k])
      /\ \A e \in harvested : Expected(e)
  BY DEF CommandInv, CommandsAreExpected
<1>l. \A c : c.w \in Workers /\ c.no \in Nat /\ Expected(c) => c.w # w \/ c.no # cmdNo'[w]
  BY <1>n, <1>t DEF Expected
<1>f. \A c : c.w \in Workers /\ c.no \in Nat /\ Expected(c) => ~Same(c, new) /\ ~Same(new, c)
  BY <1>l, <1>n DEF Same
<1>1. OnePlace'
  <2>1. ASSUME NEW j \in 1..Len(devCmds'), NEW k \in 1..Len(devCmds'),
               Same(devCmds'[j], devCmds'[k])
        PROVE  j = k
    <3>1. CASE j \in 1..Len(devCmds) /\ k \in 1..Len(devCmds)
      BY <2>1, <3>1, <1>a DEF CommandInv, OnePlace
    <3>2. ASSUME NEW i \in 1..Len(devCmds)
          PROVE  ~Same(devCmds[i], new) /\ ~Same(new, devCmds[i])
      BY <1>e, <1>f, Fields
    <3> QED BY <2>1, <3>1, <3>2, <1>a
  <2>2. \A j \in 1..Len(devCmds'), k \in 1..Len(post[CmdCq]) : ~Same(devCmds'[j], post[CmdCq][k])
    BY <1>a, <1>e, <1>f, Fields DEF CommandInv, OnePlace
  <2>3. \A j \in 1..Len(devCmds'), e \in harvested : ~Same(devCmds'[j], e)
    BY <1>a, <1>e, <1>f, Fields DEF CommandInv, OnePlace
  <2> QED BY <2>1, <2>2, <2>3 DEF CommandInv, OnePlace, Same
<1>2. CommandsAreExpected'
  <2>0. \A q \in Queues : q <= created => q <= created'
    BY <1>t, Sizes
  <2>1. \A c : c.w \in Workers /\ c.no \in Nat /\ c.o \in Queues /\ Expected(c) => Expected(c)'
    <3> SUFFICES ASSUME NEW c, c.w \in Workers, c.no \in Nat, c.o \in Queues, Expected(c)
                 PROVE  Expected(c)'
      OBVIOUS
    <3>1. c.o <= created'
      BY <2>0 DEF Expected
    <3>2. CASE c.w = w
      BY <3>1, <3>2, <1>n, <1>t DEF Expected
    <3>3. CASE c.w # w
      BY <3>1, <3>3, <1>n DEF Expected, Waiting
    <3> QED BY <3>2, <3>3
  <2>2. \A c \in Replies : c.o \in Queues
    BY DEF Replies
  <2>4. ASSUME NEW k \in 1..Len(devCmds'), NEW c, c = devCmds'[k]
        PROVE  /\ Expected(c)'
               /\ c.no = cmdNo'[c.w] =>
                     /\ pc'[c.w] = "registering" => c.op = "register"
                     /\ pc'[c.w] = "unregistering" => c.op = "unregister"
    <3>1. CASE k \in 1..Len(devCmds)
      <4>0. c = devCmds[k] /\ c.w \in Workers /\ c.no \in Nat /\ c.o \in Queues
        BY <1>a, <3>1, <2>4, Fields
      <4>1. Expected(c)' /\ (c.w # w \/ c.no # cmdNo'[w])
        BY <3>1, <4>0, <2>1, <1>e, <1>l
      <4>2. c.w # w => pc'[c.w] = pc[c.w] /\ cmdNo'[c.w] = cmdNo[c.w]
        BY <4>0, <1>n
      <4>3. c.no = cmdNo[c.w] => /\ pc[c.w] = "registering" => c.op = "register"
                                 /\ pc[c.w] = "unregistering" => c.op = "unregister"
        BY <3>1, <4>0 DEF CommandInv, CommandsAreExpected
      <4> QED BY <4>1, <4>2, <4>3
    <3>2. CASE k = n
      <4>1. c.w = w /\ c.no = cmdNo'[w] /\ c.o = o /\ c.op = op /\ cmdNo'[w] \in Nat
        BY <3>2, <2>4, <1>a, <1>n, <1>t
      <4> QED BY <4>1, <1>n, <1>o DEF Expected
    <3> QED BY <3>1, <3>2, <1>a
  <2>5. /\ \A k \in 1..Len(post[CmdCq]) : \A c : c = post[CmdCq][k] => Expected(c)'
        /\ \A e \in harvested : Expected(e)'
    BY <2>1, <2>2, <1>e, Fields
  <2>6. \A x \in Workers : pc'[x] = "ready" => answer'[x] = "ok"
    BY <1>n DEF CommandInv, CommandsAreExpected
  <2>7. \A k \in 1..Len(post'[CmdCq]) : \A c : c = post'[CmdCq][k] => Expected(c)'
    BY <2>5
  <2>8. \A e \in harvested' : Expected(e)'
    BY <2>5
  <2> QED BY <2>4, <2>6, <2>7, <2>8 DEF CommandsAreExpected, Expected, Waiting
<1>3. \A k \in 1..Len(devCmds) : devCmds[k].o \in 1..created
  BY <1>e, <1>t, Sizes, Fields DEF Expected
<1>4. \A x \in Workers : own[x] # Nil => own[x] \in 1..created /\ qid[own[x]] \in qidUsed
  BY <1>t DEF MemInv, Owners
<1>5. RegistersOnce'
  <2> SUFFICES ASSUME NEW x \in Workers, own'[x] # Nil
               PROVE  /\ \A k \in 1..Len(devCmds') : Registers(devCmds'[k], own'[x]) =>
                            /\ pc'[x] = "registering"
                            /\ devCmds'[k].w = x /\ devCmds'[k].no = cmdNo'[x]
                      /\ \A j \in 1..Len(devCmds') :
                            /\ devCmds'[j].op = "register" /\ devCmds'[j].o # own'[x]
                            /\ qid'[devCmds'[j].o] = qid'[own'[x]]
                            => \E k \in (j + 1)..Len(devCmds') : Registers(devCmds'[k], own'[x])
    BY DEF RegistersOnce, Registers
  <2>i. \A j \in 1..Len(devCmds) : \A k \in (j + 1)..Len(devCmds) :
            k \in (j + 1)..Len(devCmds') /\ devCmds'[k] = devCmds[k]
    BY <1>a DEF n
  <2>j. \A j \in 1..Len(devCmds) : n \in (j + 1)..Len(devCmds')
    BY <1>a DEF n
  <2>1. CASE x # w
    <3>1. own'[x] = own[x] /\ own[x] \in 1..created /\ qid'[own[x]] = qid[own[x]] /\ own[x] # Nil
      BY <2>1, <1>4
    <3>2. ~Registers(new, own[x])
      BY <3>1, <1>n, <1>t DEF Registers
    <3>3. ~(new.op = "register" /\ qid'[new.o] = qid[own[x]])
      BY <3>1, <1>n, <1>4
    <3>4. \A k \in 1..Len(devCmds') : Registers(devCmds'[k], own'[x]) =>
            pc'[x] = "registering" /\ devCmds'[k].w = x /\ devCmds'[k].no = cmdNo'[x]
      BY <2>1, <3>1, <3>2, <1>a, <1>n DEF CommandInv, RegistersOnce
    <3>5. ASSUME NEW j \in 1..Len(devCmds'), devCmds'[j].op = "register",
                 devCmds'[j].o # own'[x], qid'[devCmds'[j].o] = qid'[own'[x]]
          PROVE  \E k \in (j + 1)..Len(devCmds') : Registers(devCmds'[k], own'[x])
      <4>1. j \in 1..Len(devCmds) /\ devCmds'[j] = devCmds[j]
        BY <3>5, <3>1, <3>3, <1>a
      <4>2. qid[devCmds[j].o] = qid[own[x]]
        BY <4>1, <3>1, <3>5, <1>3
      <4>3. PICK k \in (j + 1)..Len(devCmds) : Registers(devCmds[k], own[x])
        BY <4>1, <4>2, <3>1, <3>5 DEF CommandInv, RegistersOnce
      <4> QED BY <4>1, <4>3, <3>1, <2>i
    <3> QED BY <3>4, <3>5
  <2>2. CASE x = w /\ op = "register"
    <3>1. o = created + 1 /\ pc'[w] = "registering"
      BY <2>2
    <3>2. \A k \in 1..Len(devCmds) : ~Registers(devCmds[k], o)
      BY <3>1, <1>3, <1>t DEF Registers
    <3>3. Registers(new, o)
      BY <1>n, <2>2 DEF Registers
    <3>4. \A k \in 1..Len(devCmds') : Registers(devCmds'[k], own'[x]) =>
            pc'[x] = "registering" /\ devCmds'[k].w = x /\ devCmds'[k].no = cmdNo'[x]
      BY <2>2, <3>1, <3>2, <1>a, <1>n
    <3>5. ASSUME NEW j \in 1..Len(devCmds'), devCmds'[j].o # own'[x]
          PROVE  \E k \in (j + 1)..Len(devCmds') : Registers(devCmds'[k], own'[x])
      <4>1. j \in 1..Len(devCmds)
        BY <3>5, <2>2, <1>a, <1>n
      <4> QED BY <4>1, <2>2, <2>j, <3>3, <1>a
    <3> QED BY <3>4, <3>5
  <2>3. CASE x = w /\ op = "unregister"
    <3>1. pc[w] = "ready" /\ own'[w] = own[w] /\ own[w] = o /\ o \in 1..created
          /\ qid'[o] = qid[o]
      BY <2>3, <1>o, <1>4
    <3>2. \A k \in 1..Len(devCmds) : ~Registers(devCmds[k], o)
      <4>1. own[w] # Nil
        BY <3>1, <1>o, <1>t DEF Nil
      <4>2. RegistersOnce
        BY DEF CommandInv
      <4>3. \A k \in 1..Len(devCmds) : Registers(devCmds[k], own[w]) => pc[w] = "registering"
        BY <4>1, <4>2 DEF RegistersOnce
      <4> QED BY <3>1, <4>3
    <3>3. \A k \in 1..Len(devCmds') : ~Registers(devCmds'[k], own'[x])
      BY <2>3, <3>1, <3>2, <1>a, <1>n DEF Registers
    <3>5. ASSUME NEW j \in 1..Len(devCmds'), devCmds'[j].op = "register",
                 devCmds'[j].o # own'[x], qid'[devCmds'[j].o] = qid'[own'[x]]
          PROVE  FALSE
      <4>1. j \in 1..Len(devCmds) /\ devCmds'[j] = devCmds[j]
        BY <3>5, <2>3, <1>a, <1>n
      <4>2. qid[devCmds[j].o] = qid[o]
        BY <4>1, <3>1, <3>5, <2>3, <1>3
      <4>3. /\ devCmds[j].op = "register" /\ devCmds[j].o # own[w]
            /\ qid[devCmds[j].o] = qid[own[w]] /\ own[w] # Nil
        BY <4>1, <4>2, <3>1, <3>5, <2>3, <1>o
      <4>5. PICK k \in (j + 1)..Len(devCmds) : Registers(devCmds[k], own[w])
        BY <4>1, <4>3 DEF CommandInv, RegistersOnce
      <4>4. k \in 1..Len(devCmds)
        BY <4>1, <1>a
      <4> QED BY <4>5, <4>4, <3>1, <3>2
    <3> QED BY <3>3, <3>5
  <2> QED BY <2>1, <2>2, <2>3
<1>6. ~OkReply(w)'
  BY <1>e, <1>l, Fields DEF OkReply
<1>7. \A x \in Workers \ {w} : OkReply(x)' <=> OkReply(x)
  BY <1>n DEF OkReply
<1>8. QidIsOwn'
  <2> SUFFICES ASSUME NEW x \in Workers, Established(x)'
               PROVE  devReg[qid'[own'[x]]] \in {own'[x], Nil}
    BY DEF QidIsOwn
  <2>1. Established(x) /\ own'[x] = own[x]
    BY <1>6, <1>7, <1>n DEF Established, Published
  <2>2. own[x] # Nil
    BY <2>1 DEF Established, MemInv, Owners, Published
  <2>3. qid'[own[x]] = qid[own[x]]
    BY <2>2, <1>4
  <2> QED BY <2>1, <2>3 DEF CommandInv, QidIsOwn
<1>9. CommandsAreCurrent'
  <2>0. SUFFICES ASSUME ~faulted
                 PROVE  /\ \A k \in 1..Len(devCmds') : \A c : c = devCmds'[k] =>
                             /\ c.no = cmdNo'[c.w] /\ answer'[c.w] = "none"
                             /\ pc'[c.w] \in {"registering", "unregistering"}
                        /\ \A x \in Workers : answer'[x] # "timeout"
    BY DEF CommandsAreCurrent, Waiting
  <2>1. \A k \in 1..Len(devCmds) : \A c : c = devCmds[k] =>
           /\ c.no = cmdNo[c.w] /\ c.w \in Workers \ {w} /\ answer[c.w] = "none"
           /\ pc[c.w] \in {"registering", "unregistering"}
    BY <2>0, Fields DEF DeviceInv, CommandsAreCurrent, Waiting
  <2>4. \A x \in Workers : answer'[x] # "timeout"
    BY <1>n, <2>0 DEF DeviceInv, CommandsAreCurrent
  <2>5. ASSUME NEW k \in 1..Len(devCmds'), NEW c, c = devCmds'[k]
        PROVE  /\ c.no = cmdNo'[c.w] /\ answer'[c.w] = "none"
               /\ pc'[c.w] \in {"registering", "unregistering"}
    <3>1. CASE k \in 1..Len(devCmds)
      <4>1. c = devCmds[k]
        BY <3>1, <1>a, <2>5
      <4> QED BY <3>1, <4>1, <2>1, <1>n
    <3>2. CASE k = n
      BY <3>2, <2>5, <1>a, <1>n
    <3> QED BY <3>1, <3>2, <1>a
  <2> QED BY <2>4, <2>5
<1>10. DeviceIsTrue'
  <2> SUFFICES ASSUME ~faulted, ~removing, NEW i \in Qids, devReg[i] # Nil
               PROVE  \E x \in Workers : own'[x] = devReg[i] /\ qid'[own'[x]] = i /\ InUse(x)'
    BY DEF DeviceIsTrue
  <2>1. PICK x \in Workers : own[x] = devReg[i] /\ qid[own[x]] = i /\ InUse(x)
    BY DEF DeviceInv, DeviceIsTrue
  <2>2. qid'[own[x]] = i
    BY <2>1, <1>4
  <2>3. CASE x # w
    <3>1. InUse(x)'
      BY <2>1, <2>3, <1>7, <1>a, <1>n DEF InUse
    <3> QED BY <2>1, <2>2, <2>3, <3>1
  <2>4. CASE x = w
    <3>1. pc[w] = "ready" /\ pc'[w] = "unregistering" /\ own'[w] = own[w]
      BY <2>1, <2>4 DEF InUse
    <3>2. InUse(w)'
      BY <3>1, <1>a, <1>n DEF InUse
    <3> QED BY <2>1, <2>2, <2>4, <3>1, <3>2
  <2> QED BY <2>3, <2>4
<1> QED BY <1>1, <1>2, <1>5, <1>8, <1>9, <1>10 DEF CommandInv, DeviceInv

\* Creation and destruction issue a command.
LEMMA UserCommands ==
  ASSUME MemInv, MemInv', CommandInv, DeviceInv, NEW w \in Workers,
         \/ \E k \in {"cq", "sq"} : Create(w, k)
         \/ Destroy(w) /\ ~removing
  PROVE  CommandInv' /\ DeviceInv'
<1> USE DEF regVars, pubVars, workVars, irqVars, devVars
<1>t. /\ pc \in [Workers -> Stages] /\ own \in [Workers -> Queues \cup {Nil}]
      /\ created \in Nat /\ qid \in [Queues -> Nat] /\ created \in 0..MaxQueues
  BY Sizes DEF MemInv, TypeInv
<1>1. ASSUME NEW k \in {"cq", "sq"}, Create(w, k)
      PROVE  CommandInv' /\ DeviceInv'
  <2>1. /\ pc[w] = "idle" /\ created < MaxQueues /\ created' = created + 1
        /\ qid' = [qid EXCEPT ![created + 1] = Min(FreeQids)] /\ FreeQids # {}
        /\ own' = [own EXCEPT ![w] = created + 1]
        /\ pc' = [pc EXCEPT ![w] = "registering"]
        /\ Issue(w, "register", created + 1)
        /\ UNCHANGED <<harvested, post, devReg, faulted, removing>>
    BY <1>1 DEF Create
  <2>2. created + 1 \in Queues /\ \A q \in 1..created : q \in Queues /\ q # created + 1
    BY <2>1, <1>t, Sizes
  <2>3. qid'[created + 1] \notin qidUsed /\ \A q \in 1..created : qid'[q] = qid[q]
    BY <2>1, <2>2, <1>t, QidIsFree
  <2>4. /\ own'[w] = created + 1 /\ pc'[w] = "registering" /\ created <= created'
        /\ \A x \in Workers \ {w} : pc'[x] = pc[x] /\ own'[x] = own[x]
    BY <2>1, <1>t
  <2> QED BY <2>1, <2>3, <2>4, IssueCommands
<1>2. CASE Destroy(w) /\ ~removing
  <2>1. /\ pc[w] = "ready" /\ own' = own /\ created' = created /\ qid' = qid
        /\ pc' = [pc EXCEPT ![w] = "unregistering"]
        /\ Issue(w, "unregister", own[w])
        /\ UNCHANGED <<harvested, post, devReg, faulted, removing>>
    BY <1>2 DEF Destroy
  <2>2. pc'[w] = "unregistering" /\ \A x \in Workers \ {w} : pc'[x] = pc[x] /\ own'[x] = own[x]
    BY <2>1, <1>t
  <2>3. created <= created' /\ (\A q \in 1..created : qid'[q] = qid[q]) /\ own'[w] = own[w]
    BY <2>1, <1>t
  <2> QED BY <2>1, <2>2, <2>3, IssueCommands
<1> QED BY <1>1, <1>2

\* The device executes a command: its reply takes the place of the command.
LEMMA ExecuteCommands ==
  ASSUME MemInv, CommandInv, DeviceInv, NEW res \in {"ok", "error"}, ExecuteCommand(res)
  PROVE  CommandInv' /\ DeviceInv'
<1> DEFINE c == Head(devCmds)
           i == qid[c.o]
           r == [w |-> c.w, no |-> c.no, o |-> c.o, res |-> res]
           n == Len(post[CmdCq]) + 1
<1>t. /\ devCmds \in Seq(Commands) /\ devReg \in [Qids -> Queues \cup {Nil}]
      /\ post[CmdCq] \in Seq(Replies) /\ post \in [CqNodes -> Seq(Replies) \cup Seq(Elements)]
      /\ \A o \in 1..created : qid[o] \in Qids
      /\ created \in Nat /\ CmdCq \in CqNodes
  BY Sizes DEF MemInv, TypeInv
<1>u. /\ devCmds # <<>> /\ devCmds' = Tail(devCmds)
      /\ devReg' = IF res = "ok" THEN [devReg EXCEPT ![i] = IF c.op = "register" THEN c.o ELSE Nil]
                                 ELSE devReg
      /\ faulted' = (faulted \/ (res = "error" /\ c.op = "unregister"))
      /\ post' = [post EXCEPT ![CmdCq] = Append(@, r)]
      /\ UNCHANGED <<harvested, cmdNo, answer, pc, own, qid, created, removing>>
  BY DEF ExecuteCommand, regVars, pubVars, workVars, irqVars, devVars
<1>s. /\ Len(devCmds) \in Nat /\ 1 \in 1..Len(devCmds) /\ devCmds[1] = c
      /\ \A k \in 1..Len(devCmds') : k + 1 \in 1..Len(devCmds) /\ devCmds'[k] = devCmds[k + 1] /\ k + 1 # 1
      /\ \A k \in 1..Len(devCmds) : k = 1 \/ (k - 1 \in 1..Len(devCmds') /\ devCmds'[k - 1] = devCmds[k])
      /\ Len(devCmds') = Len(devCmds) - 1
  BY <1>u, <1>t, TailIs
<1>c. /\ c \in Commands /\ c.w \in Workers /\ c.no \in Nat /\ c.o \in Queues
      /\ c.op \in {"register", "unregister"}
  <2>1. c \in Commands
    BY <1>s, Fields
  <2> QED BY <2>1 DEF Commands
<1>x. /\ Expected(c)
      /\ c.no = cmdNo[c.w] => /\ pc[c.w] = "registering" => c.op = "register"
                              /\ pc[c.w] = "unregistering" => c.op = "unregister"
  BY <1>s DEF CommandInv, CommandsAreExpected
<1>i. i \in Qids
  BY <1>x, <1>c, <1>t, Sizes DEF Expected
<1>r. r \in Replies /\ r.w = c.w /\ r.no = c.no /\ r.o = c.o /\ r.res = res
  BY <1>c DEF Replies
<1>p. /\ n \in 1..Len(post'[CmdCq]) /\ post'[CmdCq][n] = r /\ Len(post[CmdCq]) \in Nat
      /\ \A k \in 1..Len(post[CmdCq]) : /\ k \in 1..Len(post'[CmdCq])
                                        /\ post'[CmdCq][k] = post[CmdCq][k] /\ k # n
      /\ \A k \in 1..Len(post'[CmdCq]) : k \in 1..Len(post[CmdCq]) \/ k = n
  <2>1. post'[CmdCq] = Append(post[CmdCq], r)
    BY <1>u, <1>t
  <2> QED BY <2>1, <1>r, <1>t, AppendIs
<1> HIDE DEF c, r, n, i
<1>v. UNCHANGED <<harvested, cmdNo, answer, pc, own, qid, created, removing>>
  BY <1>u
<1>1. OnePlace'
  <2>0. \A e : (Same(r, e) <=> Same(devCmds[1], e)) /\ (Same(e, r) <=> Same(devCmds[1], e))
    BY <1>r, <1>s DEF Same
  <2>1. \A j, k \in 1..Len(devCmds') : Same(devCmds'[j], devCmds'[k]) => j = k
    <3> SUFFICES ASSUME NEW j \in 1..Len(devCmds'), NEW k \in 1..Len(devCmds'),
                        Same(devCmds'[j], devCmds'[k])
                 PROVE  j = k
      OBVIOUS
    <3>1. j + 1 = k + 1
      BY <1>s DEF CommandInv, OnePlace
    <3>2. Len(devCmds') \in Nat
      BY <1>s
    <3> QED BY <3>1, <3>2
  <2>2. \A j, k \in 1..Len(post'[CmdCq]) : Same(post'[CmdCq][j], post'[CmdCq][k]) => j = k
    BY <1>p, <1>s, <2>0 DEF CommandInv, OnePlace
  <2>3. \A k \in 1..Len(devCmds') : ~Same(devCmds[1], devCmds'[k])
    BY <1>s DEF CommandInv, OnePlace
  <2>4. \A j \in 1..Len(devCmds'), k \in 1..Len(post'[CmdCq]) : ~Same(devCmds'[j], post'[CmdCq][k])
    BY <1>p, <1>s, <2>0, <2>3 DEF CommandInv, OnePlace
  <2>5. \A j \in 1..Len(devCmds'), e \in harvested : ~Same(devCmds'[j], e)
    BY <1>s DEF CommandInv, OnePlace
  <2>6. \A k \in 1..Len(post'[CmdCq]), e \in harvested : ~Same(post'[CmdCq][k], e)
    BY <1>p, <1>s, <2>0 DEF CommandInv, OnePlace
  <2>7. harvested' = harvested
    BY <1>u
  <2> QED BY <2>1, <2>2, <2>4, <2>5, <2>6, <2>7 DEF CommandInv, OnePlace, Same
<1>2. CommandsAreExpected'
  <2>1. \A e : Expected(e) => Expected(e)'
    BY <1>u DEF Expected, Waiting
  <2>2. Expected(r)
    BY <1>x, <1>r DEF Expected
  <2>3. \A k \in 1..Len(post'[CmdCq]) : Expected(post'[CmdCq][k])
    BY <2>2, <1>p DEF CommandInv, CommandsAreExpected
  <2>4. \A k \in 1..Len(devCmds') : \A d : d = devCmds'[k] =>
           /\ Expected(d)'
           /\ d.no = cmdNo'[d.w] => /\ pc'[d.w] = "registering" => d.op = "register"
                                    /\ pc'[d.w] = "unregistering" => d.op = "unregister"
    BY <2>1, <1>s, <1>u DEF CommandInv, CommandsAreExpected
  <2>5. \A k \in 1..Len(post'[CmdCq]) : \A d : d = post'[CmdCq][k] => Expected(d)'
    BY <2>1, <2>3
  <2>6. \A e \in harvested' : Expected(e)'
    BY <2>1, <1>u DEF CommandInv, CommandsAreExpected
  <2>7. \A w \in Workers : pc'[w] = "ready" => answer'[w] = "ok"
    BY <1>u DEF CommandInv, CommandsAreExpected
  <2> QED BY <2>4, <2>5, <2>6, <2>7 DEF CommandsAreExpected, Expected, Waiting
<1>3. RegistersOnce'
  <2> SUFFICES ASSUME NEW w \in Workers, own[w] # Nil
               PROVE  /\ \A k \in 1..Len(devCmds') : Registers(devCmds'[k], own[w]) =>
                            pc[w] = "registering" /\ devCmds'[k].w = w /\ devCmds'[k].no = cmdNo[w]
                      /\ \A j \in 1..Len(devCmds') :
                            /\ devCmds'[j].op = "register" /\ devCmds'[j].o # own[w]
                            /\ qid[devCmds'[j].o] = qid[own[w]]
                            => \E k \in (j + 1)..Len(devCmds') : Registers(devCmds'[k], own[w])
    BY <1>v DEF RegistersOnce, Registers
  <2>1. \A k \in 1..Len(devCmds') : Registers(devCmds'[k], own[w]) =>
            pc[w] = "registering" /\ devCmds'[k].w = w /\ devCmds'[k].no = cmdNo[w]
    BY <1>s DEF CommandInv, RegistersOnce
  <2>2. ASSUME NEW j \in 1..Len(devCmds'), devCmds'[j].op = "register",
               devCmds'[j].o # own[w], qid[devCmds'[j].o] = qid[own[w]]
        PROVE  \E k \in (j + 1)..Len(devCmds') : Registers(devCmds'[k], own[w])
    <3>1. PICK k \in (j + 1 + 1)..Len(devCmds) : Registers(devCmds[k], own[w])
      <4>1. j + 1 \in 1..Len(devCmds) /\ devCmds'[j] = devCmds[j + 1]
        BY <1>s
      <4>2. /\ devCmds[j + 1].op = "register" /\ devCmds[j + 1].o # own[w]
            /\ qid[devCmds[j + 1].o] = qid[own[w]]
        BY <4>1, <2>2
      <4> QED BY <4>1, <4>2 DEF CommandInv, RegistersOnce
    <3>2. k - 1 \in (j + 1)..Len(devCmds') /\ k \in 1..Len(devCmds) /\ k # 1
      BY <1>s
    <3> QED BY <3>1, <3>2, <1>s
  <2> QED BY <2>1, <2>2
<1>4. /\ res # "ok" => devReg' = devReg
      /\ \A q \in Qids : q # i => devReg'[q] = devReg[q]
      /\ res = "ok" => devReg'[i] = IF c.op = "register" THEN c.o ELSE Nil
  BY <1>u, <1>t, <1>i
<1>5. \A w \in Workers : OkReply(w) => OkReply(w)'
  BY <1>p, <1>u DEF OkReply
<1>6. \A w \in Workers : OkReply(w)' => OkReply(w) \/ (c.w = w /\ c.no = cmdNo[w] /\ res = "ok")
  BY <1>p, <1>u, <1>r DEF OkReply
<1>o. \A w \in Workers : own[w] # Nil => qid[own[w]] \in Qids
  BY DEF MemInv, TypeInv, Owners
<1>7. QidIsOwn'
  <2> SUFFICES ASSUME NEW w \in Workers, Established(w)'
               PROVE  devReg'[qid[own[w]]] \in {own[w], Nil}
    BY <1>u DEF QidIsOwn
  <2>w. own[w] # Nil
    BY <1>u DEF Established, Published, MemInv, Owners
  <2>1. CASE ~Established(w)
    <3>1. c.w = w /\ c.no = cmdNo[w] /\ res = "ok" /\ pc[w] = "registering"
      BY <2>1, <1>6, <1>u DEF Established
    <3>2. c.op = "register" /\ own[w] = c.o
      BY <3>1, <1>x DEF Expected, Waiting
    <3> QED BY <3>1, <3>2, <1>4 DEF i
  <2>2. CASE Established(w)
    <3>1. devReg[qid[own[w]]] \in {own[w], Nil}
      BY <2>2 DEF CommandInv, QidIsOwn
    <3>2. CASE res = "ok" /\ c.op = "register" /\ c.o # own[w] /\ i = qid[own[w]]
      <4>1. PICK k \in (1 + 1)..Len(devCmds) : Registers(devCmds[k], own[w])
        BY <3>2, <2>w, <1>s DEF CommandInv, RegistersOnce, i
      <4>2. k \in 1..Len(devCmds)
        BY <1>s
      <4>3. pc[w] = "registering" /\ devCmds[k].w = w /\ devCmds[k].no = cmdNo[w]
        BY <4>1, <4>2, <2>w DEF CommandInv, RegistersOnce
      <4>4. answer[w] \in {"none", "timeout"}
        BY <4>2, <4>3 DEF CommandInv, CommandsAreExpected, Expected
      <4>5. ~OkReply(w)
        BY <4>2, <4>3 DEF CommandInv, OnePlace, Same, OkReply
      <4> QED BY <2>2, <4>3, <4>4, <4>5 DEF Established, Published
    <3>3. CASE ~(res = "ok" /\ c.op = "register" /\ c.o # own[w] /\ i = qid[own[w]])
      BY <3>1, <3>3, <1>4, <1>o, <2>w
    <3> QED BY <3>2, <3>3
  <2> QED BY <2>1, <2>2
<1>8. CommandsAreCurrent'
  <2> SUFFICES ASSUME ~faulted'
               PROVE  /\ \A k \in 1..Len(devCmds') : \A d : d = devCmds'[k] =>
                            d.no = cmdNo[d.w] /\ Waiting(d.w) /\ answer[d.w] = "none"
                      /\ \A w \in Workers : answer[w] # "timeout"
    BY <1>u DEF CommandsAreCurrent, Waiting
  <2>1. ~faulted
    BY <1>u
  <2> QED BY <2>1, <1>s DEF DeviceInv, CommandsAreCurrent
<1>9. DeviceIsTrue'
  <2> SUFFICES ASSUME ~faulted', ~removing, NEW q \in Qids, devReg'[q] # Nil
               PROVE  \E w \in Workers : own[w] = devReg'[q] /\ qid[own[w]] = q /\ InUse(w)'
    BY <1>u DEF DeviceIsTrue
  <2>1. ~faulted /\ ~(res = "error" /\ c.op = "unregister")
    BY <1>u
  <2>2. c.no = cmdNo[c.w] /\ Waiting(c.w) /\ answer[c.w] = "none" /\ own[c.w] = c.o
    <3>1. c.no = cmdNo[c.w] /\ Waiting(c.w) /\ answer[c.w] = "none"
      BY <2>1, <1>s DEF DeviceInv, CommandsAreCurrent
    <3> QED BY <3>1, <1>x DEF Expected
  <2>3. CASE res = "ok" /\ c.op = "register" /\ q = i
    <3>1. pc[c.w] = "registering"
      BY <2>2, <2>3, <1>x DEF Waiting
    <3>4. own[c.w] = devReg'[q] /\ qid[own[c.w]] = q
      BY <2>2, <2>3, <1>4 DEF i
    <3>5. \A w \in Workers : w = c.w => InUse(w)'
      BY <3>1, <1>v, <2>2, <2>3, <1>p, <1>r DEF InUse, OkReply
    <3> QED BY <3>4, <3>5, <1>c
  <2>4. CASE ~(res = "ok" /\ c.op = "register" /\ q = i)
    <3>1. devReg'[q] = devReg[q]
      BY <2>4, <1>4
    <3>2. PICK w \in Workers : own[w] = devReg[q] /\ qid[own[w]] = q /\ InUse(w)
      BY <3>1, <2>1 DEF DeviceInv, DeviceIsTrue
    <3>3. CASE pc[w] # "unregistering"
      <4>1. InUse(w)'
        BY <3>2, <3>3, <1>5, <1>u DEF InUse
      <4> QED BY <4>1, <3>1, <3>2
    <3>4. CASE pc[w] = "unregistering"
      <4>1. PICK k \in 1..Len(devCmds) : devCmds[k].w = w /\ devCmds[k].no = cmdNo[w]
        BY <3>2, <3>4 DEF InUse
      <4>2. CASE k = 1
        <5>1. c.w = w /\ c.op = "unregister" /\ own[w] = c.o
          BY <4>1, <4>2, <3>4, <2>2, <1>s, <1>x
        <5>2. res = "ok" /\ q = i
          BY <5>1, <2>1, <3>2 DEF i
        <5> QED BY <5>1, <5>2, <1>4
      <4>3. CASE k # 1
        <5>1. InUse(w)'
          <6>1. k - 1 \in 1..Len(devCmds') /\ devCmds'[k - 1] = devCmds[k]
            BY <4>3, <1>s
          <6> QED BY <6>1, <4>1, <3>2, <3>4, <1>v DEF InUse
        <5> QED BY <5>1, <3>1, <3>2
      <4> QED BY <4>2, <4>3
    <3> QED BY <3>3, <3>4
  <2> QED BY <2>3, <2>4
<1> QED BY <1>1, <1>2, <1>3, <1>7, <1>8, <1>9 DEF CommandInv, DeviceInv

\* The interrupt thread takes a reply from the command CQ.
LEMMA HarvestCommands ==
  ASSUME MemInv, CommandInv, DeviceInv, PollElement, cursor = CmdCq
  PROVE  CommandInv' /\ DeviceInv'
<1> DEFINE r == Head(post[CmdCq])
<1>t. /\ post[CmdCq] \in Seq(Replies) /\ CmdCq \in CqNodes
      /\ post \in [CqNodes -> Seq(Replies) \cup Seq(Elements)]
  BY Sizes DEF MemInv, TypeInv
<1>u. /\ post[CmdCq] # <<>> /\ post' = [post EXCEPT ![CmdCq] = Tail(@)]
      /\ harvested' = harvested \cup {r}
  BY DEF PollElement
<1>v. UNCHANGED <<devCmds, cmdNo, answer, pc, own, qid, created, devReg, faulted, removing>>
  BY DEF PollElement, regVars, pubVars, workVars
<1>s. /\ Len(post[CmdCq]) \in Nat /\ 1 \in 1..Len(post[CmdCq]) /\ post[CmdCq][1] = r
      /\ \A k \in 1..Len(post'[CmdCq]) :
            k + 1 \in 1..Len(post[CmdCq]) /\ post'[CmdCq][k] = post[CmdCq][k + 1] /\ k + 1 # 1
      /\ \A k \in 1..Len(post[CmdCq]) :
            k = 1 \/ (k - 1 \in 1..Len(post'[CmdCq]) /\ post'[CmdCq][k - 1] = post[CmdCq][k])
      /\ Len(post'[CmdCq]) = Len(post[CmdCq]) - 1
  <2>1. post'[CmdCq] = Tail(post[CmdCq])
    BY <1>u, <1>t
  <2> QED BY <2>1, <1>u, <1>t, TailIs
<1>h. r \in harvested' /\ \A e \in harvested' : e \in harvested \/ e = r
  BY <1>u
<1> HIDE DEF r
<1>1. OnePlace'
  <2>1. \A j, k \in 1..Len(post'[CmdCq]) : Same(post'[CmdCq][j], post'[CmdCq][k]) => j = k
    <3> SUFFICES ASSUME NEW j \in 1..Len(post'[CmdCq]), NEW k \in 1..Len(post'[CmdCq]),
                        Same(post'[CmdCq][j], post'[CmdCq][k])
                 PROVE  j = k
      OBVIOUS
    <3>1. j + 1 = k + 1
      BY <1>s DEF CommandInv, OnePlace
    <3>2. Len(post'[CmdCq]) \in Nat
      BY <1>s
    <3> QED BY <3>1, <3>2
  <2>2. \A e, f \in harvested' : Same(e, f) => e = f
    BY <1>h, <1>s DEF CommandInv, OnePlace, Same
  <2>3. \A j \in 1..Len(devCmds), k \in 1..Len(post'[CmdCq]) : ~Same(devCmds[j], post'[CmdCq][k])
    BY <1>s DEF CommandInv, OnePlace
  <2>4. \A j \in 1..Len(devCmds), e \in harvested' : ~Same(devCmds[j], e)
    BY <1>h, <1>s DEF CommandInv, OnePlace
  <2>5. \A k \in 1..Len(post'[CmdCq]), e \in harvested' : ~Same(post'[CmdCq][k], e)
    BY <1>h, <1>s DEF CommandInv, OnePlace
  <2> QED BY <1>v, <2>1, <2>2, <2>3, <2>4, <2>5 DEF CommandInv, OnePlace, Same
<1>2. CommandsAreExpected'
  <2>1. \A e : Expected(e) => Expected(e)'
    BY <1>v DEF Expected, Waiting
  <2>2. \A k \in 1..Len(post'[CmdCq]) : \A d : d = post'[CmdCq][k] => Expected(d)'
    BY <2>1, <1>s DEF CommandInv, CommandsAreExpected
  <2>3. \A e \in harvested' : Expected(e)'
    BY <2>1, <1>h, <1>s DEF CommandInv, CommandsAreExpected
  <2> QED BY <1>v, <2>1, <2>2, <2>3 DEF CommandInv, CommandsAreExpected, Expected, Waiting
<1>3. RegistersOnce'
  BY <1>v DEF CommandInv, RegistersOnce
<1>4. \A w \in Workers : OkReply(w)' <=> OkReply(w)
  <2> SUFFICES ASSUME NEW w \in Workers PROVE OkReply(w)' <=> OkReply(w)
    OBVIOUS
  <2> DEFINE Ok(e) == e.w = w /\ e.no = cmdNo[w] /\ e.res = "ok"
  <2>1. OkReply(w) <=> (\E e \in harvested : Ok(e)) \/ \E k \in 1..Len(post[CmdCq]) : Ok(post[CmdCq][k])
    BY DEF OkReply
  <2>2. OkReply(w)' <=> (\E e \in harvested' : Ok(e)) \/ \E k \in 1..Len(post'[CmdCq]) : Ok(post'[CmdCq][k])
    BY <1>v DEF OkReply
  <2> HIDE DEF Ok
  <2>3. (\E e \in harvested' : Ok(e)) <=> (\E e \in harvested : Ok(e)) \/ Ok(r)
    BY <1>u
  <2>4. (\E k \in 1..Len(post[CmdCq]) : Ok(post[CmdCq][k]))
           <=> Ok(r) \/ \E k \in 1..Len(post'[CmdCq]) : Ok(post'[CmdCq][k])
    BY <1>s
  <2> QED BY <2>1, <2>2, <2>3, <2>4
<1>5. QidIsOwn'
  BY <1>4, <1>v DEF CommandInv, QidIsOwn, Established
<1>6. DeviceInv'
  BY <1>4, <1>v DEF DeviceInv, CommandsAreCurrent, Waiting, DeviceIsTrue, InUse
<1> QED BY <1>1, <1>2, <1>3, <1>5, <1>6 DEF CommandInv

\* The callback of the command queue hands the replies over.
LEMMA DispatchCommands ==
  ASSUME MemInv, CommandInv, DeviceInv, Dispatch
  PROVE  CommandInv' /\ DeviceInv'
<1> DEFINE Mine(w) == {e \in harvested : e.w = w /\ e.no = cmdNo[w]}
           reply(w) == CHOOSE e \in Mine(w) : TRUE
<1>u. /\ harvested' = {}
      /\ \A w \in Workers : answer'[w] = IF Mine(w) # {} /\ answer[w] = "none" THEN reply(w).res
                                                                                ELSE answer[w]
  BY DEF Dispatch
<1>v. UNCHANGED <<devCmds, cmdNo, post, pc, own, qid, created, devReg, faulted, removing>>
  BY DEF Dispatch, regVars, pubVars, devVars
<1>r. \A w \in Workers : Mine(w) # {} => reply(w) \in Mine(w)
  OBVIOUS
<1>m. \A w \in Workers : \A e \in Mine(w) : /\ e \in harvested /\ e.w = w /\ e.no = cmdNo[w]
                                            /\ e.res \in {"ok", "error"}
  BY DEF MemInv, TypeInv, Replies
<1>e. \A e \in harvested : e.w \in Workers /\ (e.no = cmdNo[e.w] => e \in Mine(e.w))
  BY Fields
<1>n. \A c : c.w \in Workers /\ c.no = cmdNo[c.w] /\ (\A e \in harvested : ~Same(c, e))
         => answer'[c.w] = answer[c.w]
  BY <1>u DEF Same
<1> HIDE DEF Mine, reply
<1>1. OnePlace'
  BY <1>u, <1>v DEF CommandInv, OnePlace, Same
<1>2. CommandsAreExpected'
  <2>1. \A c : c.w \in Workers /\ Expected(c) /\ (\A e \in harvested : ~Same(c, e)) => Expected(c)'
    BY <1>n, <1>v DEF Expected, Waiting
  <2>2. \A k \in 1..Len(devCmds) : \A d : d = devCmds[k] =>
            Expected(d)' /\ (d.no = cmdNo[d.w] => /\ pc[d.w] = "registering" => d.op = "register"
                                                  /\ pc[d.w] = "unregistering" => d.op = "unregister")
    BY <2>1, Fields DEF CommandInv, CommandsAreExpected, OnePlace
  <2>3. \A k \in 1..Len(post[CmdCq]) : \A d : d = post[CmdCq][k] => Expected(d)'
    BY <2>1, Fields DEF CommandInv, CommandsAreExpected, OnePlace
  <2>4. \A w \in Workers : pc[w] = "ready" => answer'[w] = "ok"
    BY <1>u DEF CommandInv, CommandsAreExpected
  <2> QED BY <1>u, <1>v, <2>2, <2>3, <2>4 DEF CommandsAreExpected, Expected, Waiting
<1>3. RegistersOnce'
  BY <1>v DEF CommandInv, RegistersOnce
<1>4. QidIsOwn'
  <2>1. \A w \in Workers : OkReply(w)' => OkReply(w)
    BY <1>u, <1>v DEF OkReply
  <2>2. \A w \in Workers : answer'[w] = "ok" => answer[w] = "ok" \/ OkReply(w)
    BY <1>u, <1>r, <1>m DEF OkReply
  <2>3. \A w \in Workers : Established(w)' => Established(w)
    BY <2>1, <2>2, <1>v DEF Established
  <2> QED BY <2>3, <1>v DEF CommandInv, QidIsOwn
<1>5. CommandsAreCurrent'
  <2> SUFFICES ASSUME ~faulted
               PROVE  /\ \A k \in 1..Len(devCmds) : \A d : d = devCmds[k] =>
                            d.no = cmdNo[d.w] /\ Waiting(d.w) /\ answer'[d.w] = "none"
                      /\ \A w \in Workers : answer'[w] # "timeout"
    BY <1>v DEF CommandsAreCurrent, Waiting
  <2>1. \A k \in 1..Len(devCmds) : \A d : d = devCmds[k] =>
           /\ d.no = cmdNo[d.w] /\ Waiting(d.w) /\ answer[d.w] = "none"
           /\ d.w \in Workers /\ \A e \in harvested : ~Same(d, e)
    BY Fields DEF DeviceInv, CommandsAreCurrent, CommandInv, OnePlace
  <2>2. \A w \in Workers : answer[w] # "timeout"
    BY DEF DeviceInv, CommandsAreCurrent
  <2>3. \A w \in Workers : answer'[w] # "timeout"
    BY <2>2, <1>u, <1>r, <1>m
  <2> QED BY <2>1, <2>3, <1>n
<1>6. DeviceIsTrue'
  <2> SUFFICES ASSUME ~faulted, NEW w \in Workers, InUse(w)
               PROVE  InUse(w)'
    BY <1>v DEF DeviceInv, DeviceIsTrue
  <2>1. CASE pc[w] = "ready"
    BY <2>1, <1>v DEF InUse
  <2>2. CASE pc[w] = "registering"
    <3>1. CASE answer[w] = "ok"
      BY <2>2, <3>1, <1>u, <1>v DEF InUse
    <3>2. ASSUME NEW e \in harvested, e.w = w, e.no = cmdNo[w], e.res = "ok"
          PROVE  InUse(w)'
      <4>1. e \in Mine(w)
        BY <3>2, <1>e
      <4>2. answer[w] = "none"
        BY <3>2 DEF CommandInv, CommandsAreExpected, Expected, DeviceInv, CommandsAreCurrent
      <4>3. reply(w) = e
        <5>1. reply(w) \in harvested /\ Same(reply(w), e)
          BY <4>1, <3>2, <1>r, <1>m DEF Same
        <5> QED BY <5>1 DEF CommandInv, OnePlace
      <4>4. answer'[w] = "ok"
        BY <4>1, <4>2, <4>3, <3>2, <1>u
      <4> QED BY <4>4, <2>2, <1>v DEF InUse
    <3>3. CASE \E k \in 1..Len(post[CmdCq]) : /\ post[CmdCq][k].w = w /\ post[CmdCq][k].no = cmdNo[w]
                                              /\ post[CmdCq][k].res = "ok"
      BY <2>2, <3>3, <1>v DEF InUse, OkReply
    <3> QED BY <2>2, <3>1, <3>2, <3>3 DEF InUse, OkReply
  <2>3. CASE pc[w] = "unregistering"
    <3>1. PICK k \in 1..Len(devCmds) : devCmds[k].w = w /\ devCmds[k].no = cmdNo[w]
      BY <2>3 DEF InUse
    <3>2. \A e \in harvested : ~Same(devCmds[k], e)
      BY DEF CommandInv, OnePlace
    <3>3. answer'[w] = answer[w]
      BY <3>1, <3>2, <1>n
    <3>4. answer[w] = "none"
      BY <2>3 DEF InUse
    <3> QED BY <2>3, <3>1, <3>3, <3>4, <1>v DEF InUse
  <2> QED BY <2>1, <2>2, <2>3 DEF InUse
<1> QED BY <1>1, <1>2, <1>3, <1>4, <1>5, <1>6 DEF CommandInv, DeviceInv

LEMMA InitCommands == Init => CommandInv /\ DeviceInv
<1> SUFFICES ASSUME Init PROVE CommandInv /\ DeviceInv
  OBVIOUS
<1>1. /\ devCmds = <<>> /\ post[CmdCq] = <<>> /\ harvested = {}
      /\ \A w \in Workers : pc[w] = "idle" /\ answer[w] = "none"
      /\ \A i \in Qids : devReg[i] = Nil
  BY Sizes DEF Init
<1>2. 1..Len(devCmds) = {} /\ 1..Len(post[CmdCq]) = {}
  BY <1>1
<1>3. OnePlace /\ CommandsAreExpected /\ RegistersOnce
  BY <1>1, <1>2 DEF OnePlace, CommandsAreExpected, RegistersOnce
<1>4. QidIsOwn
  BY <1>1, <1>2 DEF QidIsOwn, Established, Published
<1>5. DeviceInv
  BY <1>1, <1>2 DEF DeviceInv, CommandsAreCurrent, DeviceIsTrue
<1> QED BY <1>3, <1>4, <1>5 DEF CommandInv

LEMMA NextCommands ==
  MemInv /\ MemInv' /\ CommandInv /\ DeviceInv /\ [Next]_vars => CommandInv' /\ DeviceInv'
<1> SUFFICES ASSUME MemInv, MemInv', CommandInv, DeviceInv, [Next]_vars
             PROVE  CommandInv' /\ DeviceInv'
  OBVIOUS
<1>1. ASSUME NEW w \in Workers, User(w) PROVE CommandInv' /\ DeviceInv'
  <2>1. CASE \E k \in {"cq", "sq"} : Create(w, k)
    BY <2>1, UserCommands
  <2>2. CASE Submit(w)
    BY <2>2, IdleCommands
  <2>3. CASE Destroy(w)
    BY <2>3, UserCommands, WorkerCommands
  <2> QED BY <1>1, <2>1, <2>2, <2>3 DEF User
<1>2. ASSUME NEW w \in Workers, Worker(w) PROVE CommandInv' /\ DeviceInv'
  BY <1>2, WorkerCommands, TimeoutCommands DEF Worker
<1>3. CASE StartRemoval \/ Rest \/ UNCHANGED vars
  BY <1>3, IdleCommands DEF Rest
<1>4. CASE IrqThread
  BY <1>4, IdleCommands, HarvestCommands, DispatchCommands DEF IrqThread
<1>5. CASE Device
  BY <1>5, IdleCommands, ExecuteCommands DEF Device
<1> QED BY <1>1, <1>2, <1>3, <1>4, <1>5 DEF Next

\* What the interrupt thread may find is in memory, and so is what the device uses.
LEMMA AliveFromInv == MemInv /\ CommandInv /\ DeviceInv => NoUseAfterFree
<1> SUFFICES ASSUME MemInv, CommandInv, DeviceInv PROVE NoUseAfterFree
  OBVIOUS
<1>1. \A w \in Workers : pc[w] # "idle" => own[w] \in alive
  BY DEF MemInv, Owners
<1>2. \A w \in Workers : pc[w] \in Published \/ waitsFor[w] => own[w] \in alive
  BY <1>1 DEF MemInv, Owners, Published
<1>3. held \subseteq alive
  BY <1>2 DEF MemInv, ReaderIsSafe, Visible
<1>4. \A n \in Queues : n \in Linked \cup Grace => n \in alive
  BY <1>2, Members, Sizes
<1>5. cursor \in Queues => cursor \in alive
  BY <1>4, Sizes DEF MemInv, ReaderIsSafe
<1>6. ~faulted /\ ~removing => \A i \in Qids : devReg[i] \in alive \cup {Nil}
  <2>1. \A w \in Workers : InUse(w) => pc[w] # "idle"
    BY DEF InUse
  <2> QED BY <1>1, <2>1 DEF DeviceInv, DeviceIsTrue
<1> QED BY <1>3, <1>5, <1>6 DEF NoUseAfterFree

\* bce_destroy_cq and bce_destroy_sq unpublish a queue and wait with synchronize_srcu
\* before they free it, for every number of workers, qids and queues: the interrupt
\* thread never uses a freed queue, whatever commands fail, and the device has none
\* registered as long as no unregistration fails and the device is not being removed.
THEOREM QueuesAreAlive == Spec => []NoUseAfterFree
<1>1. Init => MemInv /\ CommandInv /\ DeviceInv
  BY InitMem, InitCommands
<1>2. MemInv /\ CommandInv /\ DeviceInv /\ [Next]_vars => (MemInv /\ CommandInv /\ DeviceInv)'
  BY NextMem, NextCommands
<1> QED BY <1>1, <1>2, AliveFromInv, PTL DEF Spec

-----------------------------------------------------------------------------
(* The sweep of the completion queues.                                     *)

\* The CQ n can be reached from x by the pointers next: it is in every set of nodes
\* that has x and, with a node, the next one.
Closed(next, S) == \A m \in S \ {Nil} : next[m] \in S
Reach(next, x, n) ==
    \A S \in SUBSET (CqNodes \cup {Nil}) : x \in S /\ Closed(next, S) => n \in S

\* Among the elements s there is one for another queue that had the qid i of o.
Stale(s, i, o) == \E k \in 1..Len(s) : s[k].qid = i /\ s[k].o # o

\* The completion queue of an SQ has been published before the SQ is created, and
\* elements are only written to such queues.
CqComesFirst ==
    /\ \A o \in Queues :
          /\ kind[o] # "none" => o <= created
          /\ kind[o] = "sq" =>
                /\ cqOf[o] \in 1..created
                /\ \A w \in Workers : pc[w] = "registering" => own[w] # cqOf[o]
          /\ post[o] # <<>> =>
                /\ o <= created
                /\ \A w \in Workers : pc[w] = "registering" => own[w] # o
    /\ \A o \in submitted : kind[o] = "sq"

\* Every CQ of the list can be reached from the command CQ, the first one.
Connected == \A n \in Linked \ {ListHead} : Reach(nextCq, CmdCq, n)

\* When the reply to a registration has been harvested, what is stale for the queue
\* is in CQs that the pass has still to come to; ...
Announced(e) == e.res = "ok" /\ e.no = cmdNo[e.w] /\ pc[e.w] = "registering"
StaleIsAhead ==
    \A e \in harvested : Announced(e) =>
        \A n \in Linked \cap Queues :
            Stale(post[n], qid[own[e.w]], own[e.w]) => Reach(nextCq, cursor, n)

\* ... and when its owner knows, nothing stale is left in a CQ that will be polled.
Settled(w) == pc[w] \in Published \/ (pc[w] = "registering" /\ answer[w] = "ok")
StaleIsGone ==
    \A w \in Workers : Settled(w) =>
        \A n \in Queues : n \in Linked \/ (n \in Grace /\ irqPc = "poll") =>
            ~Stale(post[n], qid[own[w]], own[w])

SweepInv ==
    /\ CqComesFirst
    /\ Connected
    /\ StaleIsAhead
    /\ StaleIsGone
    /\ NoMisroutedCompletion

\* A step that creates no queue and registers none.
LEMMA FirstKeeps ==
  ASSUME MemInv, CqComesFirst, UNCHANGED <<kind, created, cqOf>>,
         \A x \in Workers : pc'[x] = "registering" => pc[x] = "registering" /\ own'[x] = own[x],
         \A o \in Queues : post'[o] # <<>> => post[o] # <<>> \/ \E p \in submitted : o = cqOf[p],
         \A o \in submitted' : kind[o] = "sq"
  PROVE  CqComesFirst'
<1>1. submitted \subseteq Queues /\ \A o \in submitted : kind[o] = "sq"
  <2>1. submitted \subseteq 1..created /\ created \in 0..MaxQueues
    BY DEF MemInv, TypeInv
  <2> QED BY <2>1, Sizes DEF CqComesFirst
<1>2. \A o \in Queues : kind[o] # "none" => o <= created
  BY DEF CqComesFirst
<1>3. \A o \in Queues : kind[o] = "sq" =>
          /\ cqOf[o] \in 1..created
          /\ \A w \in Workers : pc'[w] = "registering" => own'[w] # cqOf[o]
  BY DEF CqComesFirst
<1>4. \A o \in Queues : post'[o] # <<>> =>
          o <= created /\ \A w \in Workers : pc'[w] = "registering" => own'[w] # o
  BY <1>1, <1>3 DEF CqComesFirst
<1> QED BY <1>2, <1>3, <1>4 DEF CqComesFirst

\* An SQ is created on a CQ that is ready.
LEMMA CreateFirst ==
  ASSUME MemInv, CqComesFirst, NEW w \in Workers, NEW k \in {"cq", "sq"}, Create(w, k)
  PROVE  CqComesFirst'
<1> DEFINE o == created + 1
<1>t. /\ pc \in [Workers -> Stages] /\ own \in [Workers -> Queues \cup {Nil}]
      /\ created \in 0..MaxQueues /\ cqOf \in [Queues -> Queues \cup {Nil}]
      /\ kind \in [Queues -> {"none", "cq", "sq"}] /\ MaxQueues \in Nat
      /\ submitted \subseteq 1..created /\ alive \subseteq 1..created
  BY Sizes DEF MemInv, TypeInv
<1>u. /\ created < MaxQueues /\ created' = o /\ UNCHANGED <<post, submitted>>
      /\ kind' = [kind EXCEPT ![o] = k] /\ own' = [own EXCEPT ![w] = o]
      /\ pc' = [pc EXCEPT ![w] = "registering"]
      /\ \/ k = "cq" /\ cqOf' = cqOf
         \/ k = "sq" /\ \E c \in ReadyCqs : cqOf' = [cqOf EXCEPT ![o] = c]
  BY DEF Create
<1>o. o \in Queues /\ o \notin 1..created /\ 1..created \subseteq Queues /\ \A p \in 1..created : p <= o /\ p # o
  BY <1>u, <1>t, Sizes
<1>v. /\ own'[w] = o /\ \A x \in Workers \ {w} : pc'[x] = pc[x] /\ own'[x] = own[x]
      /\ kind'[o] = k /\ \A p \in Queues : p # o => kind'[p] = kind[p] /\ cqOf'[p] = cqOf[p]
  BY <1>u, <1>t, <1>o
<1>c. \A c \in ReadyCqs : c \in 1..created /\ \A x \in Workers : pc[x] = "registering" => own[x] # c
  <2> SUFFICES ASSUME NEW c \in ReadyCqs
               PROVE  c \in 1..created /\ \A x \in Workers : pc[x] = "registering" => own[x] # c
    OBVIOUS
  <2>1. PICK y \in Workers : pc[y] = "ready" /\ c = own[y]
    BY DEF ReadyCqs
  <2>2. own[y] # Nil /\ own[y] \in alive
    BY <2>1 DEF MemInv, Owners
  <2>3. \A x \in Workers : pc[x] = "registering" => own[x] # own[y]
    BY <2>1, <2>2 DEF MemInv, Owners
  <2> QED BY <2>1, <2>2, <2>3, <1>t
<1>d. k = "sq" => cqOf'[o] \in ReadyCqs
  BY <1>u, <1>t, <1>o
<1> HIDE DEF o
<1>1. \A p \in Queues : kind'[p] # "none" => p <= created'
  <2>1. \A p \in Queues : kind[p] # "none" => p \in 1..created
    BY <1>t, Sizes DEF CqComesFirst
  <2>2. o <= created'
    BY <1>u, <1>t DEF o
  <2> QED BY <2>1, <2>2, <1>u, <1>v, <1>o
<1>2. \A c \in 1..created : c \in 1..created' /\ c # o
  BY <1>u, <1>o, <1>t DEF o
<1>3. ASSUME NEW p \in Queues, kind'[p] = "sq"
      PROVE  /\ cqOf'[p] \in 1..created'
             /\ \A x \in Workers : pc'[x] = "registering" => own'[x] # cqOf'[p]
  <2>1. cqOf'[p] \in 1..created /\ \A x \in Workers : pc[x] = "registering" => own[x] # cqOf'[p]
    <3>1. CASE p = o
      BY <3>1, <1>3, <1>c, <1>d, <1>v
    <3>2. CASE p # o
      BY <3>2, <1>3, <1>v DEF CqComesFirst
    <3> QED BY <3>1, <3>2
  <2> QED BY <2>1, <1>2, <1>v
<1>4. ASSUME NEW p \in Queues, post'[p] # <<>>
      PROVE  p <= created' /\ \A x \in Workers : pc'[x] = "registering" => own'[x] # p
  <2>1. p <= created /\ \A x \in Workers : pc[x] = "registering" => own[x] # p
    BY <1>4, <1>u DEF CqComesFirst
  <2>2. p \in 1..created
    BY <2>1, <1>t, Sizes
  <2>3. p <= created' /\ p # o
    BY <2>2, <1>o, <1>u
  <2> QED BY <2>1, <2>3, <1>v
<1>5. \A p \in submitted' : kind'[p] = "sq"
  BY <1>u, <1>v, <1>o, <1>t DEF CqComesFirst
<1> QED BY <1>1, <1>3, <1>4, <1>5 DEF CqComesFirst

\* Elements are written to published CQs, whoever takes a step.
LEMMA NextFirst ==
  ASSUME MemInv, CqComesFirst, [Next]_vars
  PROVE  CqComesFirst'
<1> USE DEF regVars, pubVars, workVars, irqVars, devVars, vars
<1>t. /\ pc \in [Workers -> Stages] /\ own \in [Workers -> Queues \cup {Nil}]
      /\ post \in [CqNodes -> Seq(Replies) \cup Seq(Elements)]
      /\ \A o \in submitted : kind[o] = "sq"
      /\ \A n \in Queues : post[n] \in Seq(Elements)
      /\ cursor \in CqNodes \cup {Nil} /\ Queues \subseteq CqNodes /\ CmdCq \notin Queues
  BY Sizes DEF MemInv, TypeInv, CqComesFirst
<1>1. ASSUME NEW w \in Workers, User(w) PROVE CqComesFirst'
  <2>1. CASE \E k \in {"cq", "sq"} : Create(w, k)
    BY <2>1, CreateFirst
  <2>2. CASE Submit(w)
    BY <2>2, <1>t, FirstKeeps DEF Submit
  <2>3. CASE Destroy(w)
    BY <2>3, <1>t, FirstKeeps DEF Destroy
  <2> QED BY <1>1, <2>1, <2>2, <2>3 DEF User
<1>2. ASSUME NEW w \in Workers, Worker(w) PROVE CqComesFirst'
  <2>1. CASE CreateFails(w)
    BY <2>1, <1>t, FirstKeeps DEF CreateFails
  <2>2. CASE Publish(w)
    BY <2>2, <1>t, FirstKeeps DEF Publish
  <2>3. CASE CommandTimeout(w)
    BY <2>3, <1>t, FirstKeeps DEF CommandTimeout
  <2>4. CASE Unregistered(w)
    BY <2>4, <1>t, FirstKeeps DEF Unregistered
  <2>5. CASE Unpublish(w)
    BY <2>5, <1>t, FirstKeeps DEF Unpublish
  <2>6. CASE Free(w)
    BY <2>6, <1>t, FirstKeeps DEF Free
  <2> QED BY <1>2, <2>1, <2>2, <2>3, <2>4, <2>5, <2>6 DEF Worker
<1>3. CASE StartRemoval \/ Rest \/ UNCHANGED vars
  BY <1>3, <1>t, FirstKeeps DEF StartRemoval, Rest
<1>4. CASE IrqThread
  <2>1. CASE PollElement
    <3>1. \A o \in Queues : post'[o] # <<>> => post[o] # <<>>
      BY <2>1, <1>t DEF PollElement
    <3> QED BY <2>1, <3>1, <1>t, FirstKeeps DEF PollElement
  <2>2. CASE IrqStart \/ PollNext \/ Dispatch \/ IrqEnd
    BY <2>2, <1>t, FirstKeeps DEF IrqStart, PollNext, Dispatch, IrqEnd
  <2> QED BY <1>4, <2>1, <2>2 DEF IrqThread
<1>5. ASSUME NEW res \in {"ok", "error"}, ExecuteCommand(res) PROVE CqComesFirst'
  <2>1. \A o \in Queues : post'[o] = post[o]
    BY <1>5, <1>t DEF ExecuteCommand
  <2>2. UNCHANGED <<kind, created, cqOf, pc, own, submitted>>
    BY <1>5 DEF ExecuteCommand
  <2> QED BY <2>1, <2>2, <1>t, FirstKeeps
<1>6. ASSUME NEW o \in submitted, CompleteRequest(o) PROVE CqComesFirst'
  <2>1. \A n \in Queues : n # cqOf[o] => post'[n] = post[n]
    BY <1>6, <1>t DEF CompleteRequest
  <2>2. UNCHANGED <<kind, created, cqOf, pc, own>> /\ submitted' \subseteq submitted
    BY <1>6 DEF CompleteRequest
  <2> QED BY <2>1, <2>2, <1>t, FirstKeeps
<1> QED BY <1>1, <1>2, <1>3, <1>4, <1>5, <1>6 DEF Next, Device

LEMMA Nodes ==
  ASSUME MemInv
  PROVE  /\ \A x \in Workers : pc[x] # "idle" => own[x] # Nil
         /\ \A x \in Workers : own[x] # Nil => own[x] \in Queues /\ own[x] <= created
         /\ Linked \subseteq CqNodes /\ Grace \subseteq Queues /\ Nil \notin Linked
<1>1. \A x \in Workers : pc[x] # "idle" => own[x] # Nil
  BY DEF MemInv, Owners
<1>2. \A x \in Workers : own[x] # Nil => own[x] \in Queues /\ own[x] \in alive
  BY DEF MemInv, Owners, TypeInv
<1>3. \A q \in alive : q <= created
  BY DEF MemInv, TypeInv
<1>4. \A x \in Workers : pc[x] \in Published \/ waitsFor[x] => own[x] \in Queues
  BY <1>1, <1>2 DEF MemInv, Owners, Published
<1>5. Linked \subseteq CqNodes /\ Nil \notin Linked
  BY <1>4, Members, Sizes
<1>6. Grace \subseteq Queues
  BY <1>4, Members
<1> QED BY <1>1, <1>2, <1>3, <1>5, <1>6

\* list_add_tail_rcu cuts no way.
LEMMA PublishReach ==
  ASSUME MemInv, NEW w \in Workers, Publish(w), NEW x, x # own[w], NEW n, n # Nil,
         Reach(nextCq, x, n)
  PROVE  Reach(nextCq', x, n)
<1>1. CASE kind[own[w]] # "cq"
  BY <1>1, PublishMem
<1>2. CASE kind[own[w]] = "cq"
  <2> DEFINE o == own[w]
  <2>1. pc[w] = "registering"
    BY DEF Publish
  <2>2. /\ o \in Queues /\ o # Nil /\ Linked \subseteq CqNodes /\ o \notin Linked
        /\ nextCq[LastNode] = Nil /\ LastNode \in Linked
        /\ nextCq'[o] = Nil /\ nextCq'[LastNode] = o
        /\ \A m \in CqNodes : m # o /\ m # LastNode => nextCq'[m] = nextCq[m]
    BY <1>2, <2>1, Nodes, PublishMem
  <2>3. \A m \in CqNodes : nextCq[m] # o
    BY <2>1, <2>2 DEF MemInv, NewIsUnknown
  <2> HIDE DEF o
  <2> SUFFICES ASSUME NEW S \in SUBSET (CqNodes \cup {Nil}), x \in S, Closed(nextCq', S)
               PROVE  n \in S
    BY DEF Reach
  <2> DEFINE T == (S \ {o}) \cup {Nil}
  <2>4. T \in SUBSET (CqNodes \cup {Nil}) /\ x \in T
    BY DEF o
  <2>5. Closed(nextCq, T)
    <3> SUFFICES ASSUME NEW m \in T, m # Nil PROVE nextCq[m] \in T
      BY DEF Closed
    <3>1. m \in S /\ m # o /\ m \in CqNodes
      OBVIOUS
    <3>2. CASE m = LastNode
      BY <3>2, <2>2
    <3>3. CASE m # LastNode
      BY <3>1, <3>3, <2>2, <2>3 DEF Closed
    <3> QED BY <3>2, <3>3
  <2>6. n \in T
    BY <2>4, <2>5 DEF Reach
  <2> QED BY <2>6
<1> QED BY <1>1, <1>2

\* list_del_rcu cuts no way to another CQ, not even from the CQ it takes off.
LEMMA UnpublishReach ==
  ASSUME MemInv, NEW w \in Workers, Unpublish(w), NEW x, NEW n, n # own[w],
         Reach(nextCq, x, n)
  PROVE  Reach(nextCq', x, n)
<1>1. CASE kind[own[w]] # "cq"
  BY <1>1, UnpublishMem
<1>2. CASE kind[own[w]] = "cq"
  <2> DEFINE o == own[w]
             p == NodeBefore(o)
  <2>1. pc[w] = "unpublish"
    BY DEF Unpublish
  <2>2. /\ o \in Queues /\ o # Nil /\ o \in CqNodes
        /\ p \in CqNodes /\ nextCq[p] = o /\ nextCq'[p] = nextCq[o]
        /\ \A m \in CqNodes : m # p => nextCq'[m] = nextCq[m]
    BY <1>2, <2>1, Nodes, UnpublishMem, Sizes
  <2>3. p # Nil
    BY <2>2, Sizes
  <2> HIDE DEF o, p
  <2> SUFFICES ASSUME NEW S \in SUBSET (CqNodes \cup {Nil}), x \in S, Closed(nextCq', S)
               PROVE  n \in S
    BY DEF Reach
  <2> DEFINE T == IF p \in S THEN S \cup {o} ELSE S
  <2>4. T \in SUBSET (CqNodes \cup {Nil}) /\ x \in T
    BY <2>2
  <2>5. Closed(nextCq, T)
    <3> SUFFICES ASSUME NEW m \in T, m # Nil PROVE nextCq[m] \in T
      BY DEF Closed
    <3>1. CASE m = p
      <4>1. p \in S \/ p = o
        BY <3>1
      <4> QED BY <3>1, <4>1, <2>2
    <3>2. CASE m # p /\ m \in S
      <4>1. m \in CqNodes /\ nextCq'[m] = nextCq[m]
        BY <3>2, <2>2
      <4> QED BY <3>2, <4>1 DEF Closed
    <3>3. CASE m # p /\ m \notin S
      <4>1. m = o /\ p \in S
        BY <3>3
      <4>2. nextCq'[p] \in S
        BY <4>1, <2>3 DEF Closed
      <4> QED BY <4>1, <4>2, <2>2
    <3> QED BY <3>1, <3>2, <3>3
  <2>6. n \in T
    BY <2>4, <2>5 DEF Reach
  <2> QED BY <2>6 DEF o
<1> QED BY <1>1, <1>2

\* A new CQ is behind the one that was the last, and that one could be reached.
LEMMA PublishConnected ==
  ASSUME MemInv, Connected, NEW w \in Workers, Publish(w)
  PROVE  Connected'
<1>1. pc[w] = "registering" /\ own[w] \in Queues /\ own[w] # CmdCq
  <2>1. pc[w] = "registering"
    BY DEF Publish
  <2> QED BY <2>1, Nodes, Sizes
<1>2. Linked' = Linked \cup (IF kind[own[w]] = "cq" THEN {own[w]} ELSE {})
  BY PublishMem
<1>3. \A n \in Linked \ {ListHead} : Reach(nextCq', CmdCq, n)
  BY <1>1, PublishReach, Nodes DEF Connected
<1>4. CASE kind[own[w]] = "cq"
  <2>1. LastNode \in Linked /\ nextCq[LastNode] = Nil /\ nextCq'[LastNode] = own[w]
    BY <1>4, PublishMem
  <2>2. LastNode # ListHead /\ LastNode # Nil
    BY <2>1, Sizes, Nodes DEF MemInv, ListSound
  <2>3. Reach(nextCq', CmdCq, LastNode)
    BY <1>3, <2>1, <2>2
  <2>4. Reach(nextCq', CmdCq, own[w])
    BY <2>1, <2>2, <2>3 DEF Reach, Closed
  <2> QED BY <1>2, <1>3, <1>4, <2>4 DEF Connected, ListHead, CmdCq
<1>5. CASE kind[own[w]] # "cq"
  BY <1>2, <1>3, <1>5 DEF Connected, ListHead, CmdCq
<1> QED BY <1>4, <1>5

LEMMA UnpublishConnected ==
  ASSUME MemInv, Connected, NEW w \in Workers, Unpublish(w)
  PROVE  Connected'
<1>1. Linked' = Linked \ (IF kind[own[w]] = "cq" THEN {own[w]} ELSE {})
  BY UnpublishMem
<1>2. kind[own[w]] # "cq" => nextCq' = nextCq
  BY UnpublishMem
<1>3. CASE kind[own[w]] = "cq"
  BY <1>1, <1>3, UnpublishReach DEF Connected, ListHead, CmdCq
<1>4. CASE kind[own[w]] # "cq"
  BY <1>1, <1>2, <1>4 DEF Connected, ListHead, CmdCq
<1> QED BY <1>3, <1>4

\* Whose registration is announced or known has it established.
LEMMA SettledIs ==
  ASSUME MemInv
  PROVE  /\ \A e \in harvested : Announced(e) => e.w \in Workers /\ Established(e.w)
         /\ \A x \in Workers : Settled(x) => Established(x)
         /\ \A x \in Workers : Established(x) => own[x] # Nil /\ own[x] \in Queues
<1>1. \A e \in harvested : Announced(e) => e.w \in Workers /\ Established(e.w)
  BY Fields DEF Announced, Established, OkReply
<1>2. \A x \in Workers : Settled(x) => Established(x)
  BY DEF Settled, Established
<1>3. \A x \in Workers : Established(x) => pc[x] # "idle"
  BY DEF Established, Published
<1> QED BY <1>1, <1>2, <1>3, Nodes

\* A step that moves no pointer and writes no stale element.
LEMMA SweepKeeps ==
  ASSUME MemInv, StaleIsAhead, StaleIsGone,
         UNCHANGED <<nextCq, cursor, irqPc, harvested>>, Linked' = Linked, Grace' = Grace,
         \A e \in harvested : Announced(e)' => Announced(e) /\ own'[e.w] = own[e.w],
         \A x \in Workers : Settled(x)' => Settled(x) /\ own'[x] = own[x],
         \A x \in Workers : own[x] # Nil => qid'[own[x]] = qid[own[x]],
         \A x \in Workers, n \in Queues : Established(x) /\ Stale(post'[n], qid[own[x]], own[x])
            => Stale(post[n], qid[own[x]], own[x])
  PROVE  StaleIsAhead' /\ StaleIsGone'
<1>1. StaleIsAhead'
  <2> SUFFICES ASSUME NEW e \in harvested, Announced(e)', NEW n \in Linked \cap Queues,
                      Stale(post'[n], qid'[own'[e.w]], own'[e.w])
               PROVE  Reach(nextCq, cursor, n)
    BY DEF StaleIsAhead, Queues
  <2>1. Announced(e) /\ own'[e.w] = own[e.w]
    OBVIOUS
  <2>2. e.w \in Workers /\ Established(e.w) /\ own[e.w] # Nil
    BY <2>1, SettledIs
  <2>3. Stale(post[n], qid[own[e.w]], own[e.w])
    BY <2>1, <2>2
  <2> QED BY <2>1, <2>3 DEF StaleIsAhead
<1>2. StaleIsGone'
  <2> SUFFICES ASSUME NEW x \in Workers, Settled(x)', NEW n \in Queues,
                      n \in Linked \/ (n \in Grace /\ irqPc = "poll"),
                      Stale(post'[n], qid'[own'[x]], own'[x])
               PROVE  FALSE
    BY DEF StaleIsGone, Queues
  <2>1. Settled(x) /\ own'[x] = own[x]
    OBVIOUS
  <2>2. Established(x) /\ own[x] # Nil
    BY <2>1, SettledIs
  <2>3. Stale(post[n], qid[own[x]], own[x])
    BY <2>1, <2>2
  <2> QED BY <2>1, <2>3 DEF StaleIsGone
<1> QED BY <1>1, <1>2

\* The steps of a worker that leave the list alone.
LEMMA WorkerSweep ==
  ASSUME MemInv, CommandInv, Connected, StaleIsAhead, StaleIsGone, NEW w \in Workers,
         \/ \E k \in {"cq", "sq"} : Create(w, k)
         \/ CreateFails(w) \/ Free(w) \/ Destroy(w) \/ Unregistered(w)
         \/ Submit(w) \/ CommandTimeout(w)
  PROVE  Connected' /\ StaleIsAhead' /\ StaleIsGone'
<1> USE DEF regVars, pubVars, workVars, irqVars, devVars
<1>t. /\ pc \in [Workers -> Stages] /\ own \in [Workers -> Queues \cup {Nil}]
      /\ answer \in [Workers -> {"none", "ok", "error", "timeout"}]
      /\ cmdNo \in [Workers -> Nat] /\ created \in 0..MaxQueues /\ qid \in [Queues -> Nat]
  BY DEF MemInv, TypeInv
<1>l. Linked' = Linked /\ Grace' = Grace
  <2>1. CASE Submit(w) \/ CommandTimeout(w)
    BY <2>1 DEF Submit, CommandTimeout, Linked, Grace, ListHead, CmdCq
  <2> QED BY <2>1, CreateMem, LeaveMem, DestroyMem
<1>u. UNCHANGED <<nextCq, cursor, irqPc, harvested, post>>
  BY DEF Create, CreateFails, Free, Destroy, Unregistered, Submit, CommandTimeout
<1>p. \A x \in Workers, n \in Queues : Established(x) /\ Stale(post'[n], qid[own[x]], own[x])
         => Stale(post[n], qid[own[x]], own[x])
  BY <1>u
<1>1. Connected'
  BY <1>l, <1>u DEF Connected, ListHead, CmdCq
<1>e. \A e \in harvested : e.w \in Workers /\ e.no \in Nat /\ e.no <= cmdNo[e.w]
  BY Fields DEF CommandInv, CommandsAreExpected, Expected
<1>2. ASSUME NEW k \in {"cq", "sq"}, Create(w, k)
      PROVE  StaleIsAhead' /\ StaleIsGone'
  <2>1. /\ created' = created + 1 /\ created < MaxQueues
        /\ qid' = [qid EXCEPT ![created + 1] = Min(FreeQids)]
        /\ own' = [own EXCEPT ![w] = created + 1] /\ pc' = [pc EXCEPT ![w] = "registering"]
        /\ cmdNo' = [cmdNo EXCEPT ![w] = @ + 1] /\ answer' = [answer EXCEPT ![w] = "none"]
    BY <1>2 DEF Create, Issue
  <2>2. /\ pc'[w] = "registering" /\ answer'[w] = "none" /\ cmdNo'[w] = cmdNo[w] + 1
        /\ \A x \in Workers \ {w} : /\ pc'[x] = pc[x] /\ own'[x] = own[x]
                                    /\ cmdNo'[x] = cmdNo[x] /\ answer'[x] = answer[x]
    BY <2>1, <1>t
  <2>3. \A e \in harvested : Announced(e)' => Announced(e) /\ own'[e.w] = own[e.w]
    <3>1. \A e \in harvested : e.w = w => e.no # cmdNo'[e.w]
      BY <2>2, <1>e, <1>t
    <3> QED BY <3>1, <2>2, <1>e DEF Announced
  <2>4. \A x \in Workers : Settled(x)' => Settled(x) /\ own'[x] = own[x]
    BY <2>2 DEF Settled, Published
  <2>5. \A x \in Workers : own[x] # Nil => qid'[own[x]] = qid[own[x]]
    <3>1. \A x \in Workers : own[x] # Nil => own[x] \in Queues /\ own[x] # created + 1
      BY Nodes, <1>t, Sizes
    <3>2. created + 1 \in Queues
      BY <2>1, <1>t, Sizes
    <3> QED BY <3>1, <3>2, <2>1, <1>t
  <2> QED BY <1>l, <1>u, <2>3, <2>4, <2>5, SweepKeeps
<1>3. CASE CreateFails(w) \/ Free(w)
  <2>1. /\ pc' = [pc EXCEPT ![w] = "idle"] /\ own' = [own EXCEPT ![w] = Nil]
        /\ UNCHANGED <<qid, cmdNo, answer>>
    BY <1>3 DEF CreateFails, Free
  <2>2. pc'[w] = "idle" /\ \A x \in Workers \ {w} : pc'[x] = pc[x] /\ own'[x] = own[x]
    BY <2>1, <1>t
  <2>3. \A e \in harvested : Announced(e)' => Announced(e) /\ own'[e.w] = own[e.w]
    BY <2>1, <2>2, <1>e DEF Announced
  <2>4. \A x \in Workers : Settled(x)' => Settled(x) /\ own'[x] = own[x]
    BY <2>1, <2>2 DEF Settled, Published
  <2>6. \A x \in Workers : own[x] # Nil => qid'[own[x]] = qid[own[x]]
    BY <2>1
  <2> QED BY <1>1, <1>l, <1>u, <1>p, <2>3, <2>4, <2>6, SweepKeeps
<1>4. CASE Destroy(w) \/ Unregistered(w)
  <2>0. PICK s \in {"unregistering", "unpublish"} : pc' = [pc EXCEPT ![w] = s]
    BY <1>4 DEF Destroy, Unregistered
  <2>1. /\ pc[w] \in Published /\ UNCHANGED <<qid, own>>
        /\ \A x \in Workers \ {w} : cmdNo'[x] = cmdNo[x] /\ answer'[x] = answer[x]
    BY <1>4, <1>t DEF Destroy, Unregistered, Published, Issue
  <2>2. pc'[w] \in {"unregistering", "unpublish"} /\ \A x \in Workers \ {w} : pc'[x] = pc[x]
    BY <2>0, <1>t
  <2>3. \A e \in harvested : Announced(e)' => Announced(e) /\ own'[e.w] = own[e.w]
    BY <2>1, <2>2, <1>e DEF Announced
  <2>4. \A x \in Workers : Settled(x)' => Settled(x) /\ own'[x] = own[x]
    BY <2>1, <2>2 DEF Settled, Published
  <2>6. \A x \in Workers : own[x] # Nil => qid'[own[x]] = qid[own[x]]
    BY <2>1
  <2> QED BY <1>1, <1>l, <1>u, <1>p, <2>3, <2>4, <2>6, SweepKeeps
<1>5. CASE Submit(w) \/ CommandTimeout(w)
  <2>1. UNCHANGED <<qid, own, pc, cmdNo>> /\ \A x \in Workers : answer'[x] \in {answer[x], "timeout"}
    BY <1>5, <1>t DEF Submit, CommandTimeout
  <2>2. \A x \in Workers : Settled(x)' => Settled(x)
    BY <2>1 DEF Settled
  <2>3. \A e \in harvested : Announced(e)' => Announced(e)
    BY <2>1 DEF Announced
  <2>6. \A x \in Workers : own[x] # Nil => qid'[own[x]] = qid[own[x]]
    BY <2>1
  <2>7. \A x \in Workers : own'[x] = own[x]
    BY <2>1
  <2>8. \A e \in harvested : own'[e.w] = own[e.w]
    BY <2>1
  <2> QED BY <1>1, <1>l, <1>u, <1>p, <2>2, <2>3, <2>6, <2>7, <2>8, SweepKeeps
<1> QED BY <1>1, <1>2, <1>3, <1>4, <1>5

\* A new CQ has no elements; a CQ that is taken off had none that were stale.
LEMMA ListSweep ==
  ASSUME MemInv, CqComesFirst, Connected, StaleIsAhead, StaleIsGone, NEW w \in Workers,
         Publish(w) \/ Unpublish(w)
  PROVE  Connected' /\ StaleIsAhead' /\ StaleIsGone'
<1>t. /\ pc \in [Workers -> Stages] /\ post \in [CqNodes -> Seq(Replies) \cup Seq(Elements)]
      /\ \A n \in Queues : post[n] \in Seq(Elements)
  BY DEF MemInv, TypeInv
<1>u. UNCHANGED <<qid, own, cmdNo, answer, harvested, cursor, irqPc, post>>
  BY DEF Publish, Unpublish, regVars, irqVars, devVars
<1>1. Connected'
  BY PublishConnected, UnpublishConnected
<1>w. pc[w] # "idle" /\ own[w] \in Queues
  BY Nodes DEF Publish, Unpublish
<1>2. CASE Publish(w)
  <2>1. /\ pc[w] = "registering" /\ answer[w] = "ok" /\ pc'[w] = "ready"
        /\ \A x \in Workers \ {w} : pc'[x] = pc[x]
    BY <1>2, <1>t DEF Publish
  <2>2. /\ Linked' \subseteq Linked \cup {own[w]} /\ own[w] \notin Linked \cup Grace
        /\ Grace' = Grace
    BY <1>2, PublishMem
  <2>3. cursor # own[w]
    BY <2>2, <1>w, Sizes DEF MemInv, ReaderIsSafe
  <2>4. \A i, o : ~Stale(post[own[w]], i, o)
    <3>1. post[own[w]] = <<>>
      BY <2>1, <1>w DEF CqComesFirst
    <3> QED BY <3>1 DEF Stale
  <2>5. StaleIsAhead'
    <3> SUFFICES ASSUME NEW e \in harvested, Announced(e)', NEW n \in Linked' \cap Queues,
                        Stale(post[n], qid[own[e.w]], own[e.w])
                 PROVE  Reach(nextCq', cursor, n)
      BY <1>u DEF StaleIsAhead, Queues
    <3>1. Announced(e)
      BY <2>1, <1>u, Fields DEF Announced
    <3>2. n \in Linked /\ n # Nil
      BY <2>2, <2>4, Sizes
    <3>3. Reach(nextCq, cursor, n)
      BY <3>1, <3>2 DEF StaleIsAhead
    <3> QED BY <1>2, <2>3, <3>2, <3>3, PublishReach
  <2>6. StaleIsGone'
    <3> SUFFICES ASSUME NEW x \in Workers, Settled(x)', NEW n \in Queues,
                        n \in Linked' \/ (n \in Grace' /\ irqPc = "poll"),
                        Stale(post[n], qid[own[x]], own[x])
                 PROVE  FALSE
      BY <1>u DEF StaleIsGone, Queues
    <3>1. Settled(x)
      BY <2>1, <1>u DEF Settled
    <3>2. n # own[w]
      BY <2>4
    <3> QED BY <3>1, <3>2, <2>2 DEF StaleIsGone
  <2> QED BY <1>1, <2>5, <2>6
<1>3. CASE Unpublish(w)
  <2>1. /\ pc[w] = "unpublish" /\ pc'[w] = "syncing"
        /\ \A x \in Workers \ {w} : pc'[x] = pc[x]
    BY <1>3, <1>t DEF Unpublish
  <2>2. /\ Linked' = Linked \ (IF kind[own[w]] = "cq" THEN {own[w]} ELSE {})
        /\ Grace' = Grace \cup (IF kind[own[w]] = "cq" /\ irqPc # "idle" THEN {own[w]} ELSE {})
        /\ kind[own[w]] # "cq" => nextCq' = nextCq
    BY <1>3, UnpublishMem
  <2>3. kind[own[w]] = "cq" => own[w] \in Linked
    BY <2>1, Members DEF Published
  <2>4. StaleIsAhead'
    <3> SUFFICES ASSUME NEW e \in harvested, Announced(e)', NEW n \in Linked' \cap Queues,
                        Stale(post[n], qid[own[e.w]], own[e.w])
                 PROVE  Reach(nextCq', cursor, n)
      BY <1>u DEF StaleIsAhead, Queues
    <3>1. Announced(e)
      BY <2>1, <1>u, Fields DEF Announced
    <3>2. n \in Linked /\ (kind[own[w]] = "cq" => n # own[w])
      BY <2>2
    <3>3. Reach(nextCq, cursor, n)
      BY <3>1, <3>2 DEF StaleIsAhead
    <3> QED BY <1>3, <2>2, <3>2, <3>3, UnpublishReach
  <2>5. StaleIsGone'
    <3> SUFFICES ASSUME NEW x \in Workers, Settled(x)', NEW n \in Queues,
                        n \in Linked' \/ (n \in Grace' /\ irqPc = "poll"),
                        Stale(post[n], qid[own[x]], own[x])
                 PROVE  FALSE
      BY <1>u DEF StaleIsGone, Queues
    <3>1. Settled(x)
      BY <2>1, <1>u DEF Settled, Published
    <3>2. n \in Linked \/ (n \in Grace /\ irqPc = "poll")
      BY <2>2, <2>3
    <3> QED BY <3>1, <3>2 DEF StaleIsGone
  <2> QED BY <1>1, <2>4, <2>5
<1> QED BY <1>2, <1>3

\* The device posts stale elements for no queue whose registration it has accepted.
LEMMA DeviceSweep ==
  ASSUME MemInv, CommandInv, CqComesFirst, Connected, StaleIsAhead, StaleIsGone,
         \/ \E res \in {"ok", "error"} : ExecuteCommand(res)
         \/ \E o \in submitted : CompleteRequest(o)
         \/ StartRemoval \/ UNCHANGED vars
  PROVE  Connected' /\ StaleIsAhead' /\ StaleIsGone'
<1> USE DEF regVars, pubVars, workVars, irqVars, devVars, vars
<1>t. /\ post \in [CqNodes -> Seq(Replies) \cup Seq(Elements)] /\ CmdCq \notin Queues
      /\ \A n \in Queues : post[n] \in Seq(Elements) /\ n \in CqNodes
      /\ submitted \subseteq 1..created /\ created \in 0..MaxQueues
      /\ \A o \in 1..created : qid[o] \in Qids
      /\ cqOf \in [Queues -> Queues \cup {Nil}]
  BY Sizes DEF MemInv, TypeInv
<1>u. UNCHANGED <<nextCq, cursor, irqPc, harvested, kind, qid, pc, own, cmdNo, answer, waitsFor>>
  BY DEF ExecuteCommand, CompleteRequest, StartRemoval
<1>l. Linked' = Linked /\ Grace' = Grace
  BY <1>u DEF Linked, Grace, ListHead, CmdCq
<1>1. Connected'
  BY <1>l, <1>u DEF Connected, ListHead, CmdCq
<1>2. \A e \in harvested : Announced(e)' => Announced(e) /\ own'[e.w] = own[e.w]
  BY <1>u DEF Announced
<1>3. \A x \in Workers : Settled(x)' => Settled(x) /\ own'[x] = own[x]
  BY <1>u DEF Settled
<1>4. \A x \in Workers, n \in Queues : Established(x) /\ Stale(post'[n], qid[own[x]], own[x])
         => Stale(post[n], qid[own[x]], own[x])
  <2>1. CASE StartRemoval \/ UNCHANGED vars
    BY <2>1 DEF StartRemoval
  <2>2. CASE \E res \in {"ok", "error"} : ExecuteCommand(res)
    <3>1. \A n \in Queues : post'[n] = post[n]
      BY <2>2, <1>t DEF ExecuteCommand
    <3> QED BY <3>1
  <2>3. ASSUME NEW o \in submitted, CompleteRequest(o), NEW x \in Workers, NEW n \in Queues,
               Established(x), Stale(post'[n], qid[own[x]], own[x])
        PROVE  Stale(post[n], qid[own[x]], own[x])
    <3> DEFINE e == [qid |-> qid[o], o |-> o]
    <3>0. o \in 1..created /\ o \in Queues /\ o # Nil
      <4>1. o \in 1..created /\ created \in 0..MaxQueues
        BY <1>t
      <4>2. o \in 1..MaxQueues
        BY <4>1, Sizes
      <4> QED BY <4>1, <4>2, Sizes
    <3>1. o \in Queues /\ o # Nil /\ qid[o] \in Qids /\ cqOf[o] \in Queues \cup {Nil}
      BY <1>t, <3>0
    <3>2. e \in Elements /\ e.qid = qid[o] /\ e.o = o
      BY <3>1 DEF Elements
    <3>3. post' = [post EXCEPT ![cqOf[o]] = Append(@, e)] /\ devReg[qid[o]] = o
      BY <2>3 DEF CompleteRequest
    <3> HIDE DEF e
    <3>4. ~(qid[o] = qid[own[x]] /\ o # own[x])
      BY <2>3, <3>1, <3>3 DEF CommandInv, QidIsOwn
    <3>5. CASE n # cqOf[o]
      BY <2>3, <3>3, <3>5, <1>t
    <3>6. CASE n = cqOf[o]
      <4>1. post'[n] = Append(post[n], e) /\ post[n] \in Seq(Elements)
        BY <3>3, <3>6, <1>t
      <4>2. PICK k \in 1..Len(post'[n]) : post'[n][k].qid = qid[own[x]] /\ post'[n][k].o # own[x]
        BY <2>3 DEF Stale
      <4>3. k \in 1..Len(post[n]) /\ post'[n][k] = post[n][k]
        <5>1. k # Len(post[n]) + 1
          BY <4>1, <4>2, <3>2, <3>4, AppendIs
        <5> QED BY <5>1, <4>1, <3>2, AppendIs
      <4> QED BY <4>2, <4>3 DEF Stale
    <3> QED BY <3>5, <3>6
  <2> QED BY <2>1, <2>2, <2>3
<1>5. \A x \in Workers : own[x] # Nil => qid'[own[x]] = qid[own[x]]
  BY <1>u
<1> QED BY <1>1, <1>l, <1>u, <1>2, <1>3, <1>4, <1>5, SweepKeeps

\* The pass begins with the command CQ and visits every other CQ after it; when it
\* hands the replies over it has been through the list.
LEMMA PassSweep ==
  ASSUME MemInv, CommandInv, Connected, StaleIsAhead, StaleIsGone,
         IrqStart \/ PollNext \/ Dispatch \/ IrqEnd
  PROVE  Connected' /\ StaleIsAhead' /\ StaleIsGone'
<1> USE DEF regVars, pubVars, workVars, irqVars, devVars
<1>u. UNCHANGED <<nextCq, kind, qid, pc, own, cmdNo, post>>
  BY DEF IrqStart, PollNext, Dispatch, IrqEnd
<1>l. Linked' = Linked
  BY <1>u DEF Linked, ListHead, CmdCq
<1>1. Connected'
  BY <1>l, <1>u DEF Connected, ListHead, CmdCq
<1>2. CASE IrqStart
  <2>1. /\ irqPc = "idle" /\ harvested = {} /\ harvested' = {} /\ UNCHANGED <<answer, waitsFor>>
    BY <1>2 DEF IrqStart, MemInv, ReaderIsSafe
  <2>2. Grace' = {}
    BY <2>1, Members DEF MemInv, Owners
  <2>3. StaleIsGone'
    BY <2>1, <2>2, <1>l, <1>u DEF StaleIsGone, Settled, Queues
  <2> QED BY <1>1, <2>1, <2>3 DEF StaleIsAhead
<1>3. CASE IrqEnd
  <2>1. /\ harvested = {} /\ harvested' = {} /\ UNCHANGED answer /\ irqPc' = "idle"
    BY <1>3 DEF IrqEnd, MemInv, ReaderIsSafe
  <2>2. StaleIsGone'
    BY <2>1, <1>l, <1>u DEF StaleIsGone, Settled, Queues
  <2> QED BY <1>1, <2>1, <2>2 DEF StaleIsAhead
<1>4. CASE PollNext
  <2>1. /\ irqPc = "poll" /\ irqPc' = "poll" /\ cursor # Nil /\ post[cursor] = <<>>
        /\ cursor' = nextCq[cursor] /\ UNCHANGED <<harvested, answer, waitsFor>>
    BY <1>4 DEF PollNext
  <2>2. Grace' = Grace
    BY <2>1, <1>u DEF Grace
  <2>3. cursor \in CqNodes
    BY <2>1 DEF MemInv, TypeInv
  <2>4. \A n : n # cursor /\ Reach(nextCq, cursor, n) => Reach(nextCq, cursor', n)
    <3> SUFFICES ASSUME NEW n, n # cursor, Reach(nextCq, cursor, n),
                        NEW S \in SUBSET (CqNodes \cup {Nil}), cursor' \in S, Closed(nextCq, S)
                 PROVE  n \in S
      BY DEF Reach
    <3> DEFINE T == S \cup {cursor}
    <3>1. T \in SUBSET (CqNodes \cup {Nil}) /\ cursor \in T
      BY <2>3
    <3>2. Closed(nextCq, T)
      BY <2>1 DEF Closed
    <3>3. n \in T
      BY <3>1, <3>2 DEF Reach
    <3> QED BY <3>3
  <2>5. \A i, o : ~Stale(post[cursor], i, o)
    BY <2>1 DEF Stale
  <2>6. StaleIsAhead'
    BY <2>1, <2>4, <2>5, <1>l, <1>u DEF StaleIsAhead, Announced, Queues
  <2>7. StaleIsGone'
    BY <2>1, <2>2, <1>l, <1>u DEF StaleIsGone, Settled, Queues
  <2> QED BY <1>1, <2>6, <2>7
<1>5. CASE Dispatch
  <2>1. /\ irqPc' = "callbacks" /\ cursor = Nil /\ harvested' = {}
        /\ \A x \in Workers : answer'[x] =
              LET mine == {e \in harvested : e.w = x /\ e.no = cmdNo[x]}
              IN IF mine # {} /\ answer[x] = "none" THEN (CHOOSE e \in mine : TRUE).res
                                                    ELSE answer[x]
    BY <1>5 DEF Dispatch
  <2>2. \A n : Reach(nextCq, Nil, n) => n = Nil
    <3>1. {Nil} \in SUBSET (CqNodes \cup {Nil}) /\ Nil \in {Nil} /\ Closed(nextCq, {Nil})
      BY DEF Closed
    <3> QED BY <3>1 DEF Reach
  <2>3. \A e \in harvested, n \in Linked \cap Queues :
           Announced(e) => ~Stale(post[n], qid[own[e.w]], own[e.w])
    BY <2>1, <2>2, Sizes DEF StaleIsAhead
  <2>4. \A x \in Workers : answer'[x] = "ok" =>
           answer[x] = "ok" \/ \E e \in harvested : e.w = x /\ e.no = cmdNo[x] /\ e.res = "ok"
    <3> SUFFICES ASSUME NEW x \in Workers, answer'[x] = "ok", answer[x] # "ok"
                 PROVE  \E e \in harvested : e.w = x /\ e.no = cmdNo[x] /\ e.res = "ok"
      OBVIOUS
    <3> DEFINE mine == {e \in harvested : e.w = x /\ e.no = cmdNo[x]}
    <3>1. mine # {} /\ (CHOOSE e \in mine : TRUE).res = "ok"
      BY <2>1
    <3>2. (CHOOSE e \in mine : TRUE) \in mine
      BY <3>1
    <3> QED BY <3>1, <3>2
  <2>5. StaleIsGone'
    <3> SUFFICES ASSUME NEW x \in Workers, Settled(x)', NEW n \in Queues, n \in Linked,
                        Stale(post[n], qid[own[x]], own[x])
                 PROVE  FALSE
      BY <2>1, <1>l, <1>u DEF StaleIsGone, Queues
    <3>1. CASE Settled(x)
      BY <3>1 DEF StaleIsGone
    <3>2. CASE ~Settled(x)
      <4>1. pc[x] = "registering" /\ answer'[x] = "ok" /\ answer[x] # "ok"
        BY <3>2, <1>u DEF Settled
      <4>2. PICK e \in harvested : e.w = x /\ e.no = cmdNo[x] /\ e.res = "ok"
        BY <4>1, <2>4
      <4> QED BY <4>1, <4>2, <2>3 DEF Announced
    <3> QED BY <3>1, <3>2
  <2> QED BY <1>1, <2>1, <2>5 DEF StaleIsAhead
<1> QED BY <1>2, <1>3, <1>4, <1>5

\* An element is taken. From the command CQ, the first of the list, all that is stale
\* is ahead; from another CQ, what is found in queues[] is whom the element is for.
LEMMA ElementSweep ==
  ASSUME MemInv, SweepInv, PollElement
  PROVE  Connected' /\ StaleIsAhead' /\ StaleIsGone' /\ NoMisroutedCompletion'
<1> USE DEF regVars, pubVars, workVars, irqVars, devVars
<1>t. /\ post \in [CqNodes -> Seq(Replies) \cup Seq(Elements)] /\ CmdCq \notin Queues
      /\ \A n \in Queues : post[n] \in Seq(Elements) /\ n \in CqNodes
      /\ CmdCq \in CqNodes /\ harvested \subseteq Replies /\ post[CmdCq] \in Seq(Replies)
  BY Sizes DEF MemInv, TypeInv
<1>s. Connected /\ StaleIsAhead /\ StaleIsGone /\ ~misrouted
  BY DEF SweepInv, NoMisroutedCompletion
<1>u. /\ irqPc = "poll" /\ cursor # Nil /\ post[cursor] # <<>>
      /\ post' = [post EXCEPT ![cursor] = Tail(@)]
      /\ UNCHANGED <<irqPc, cursor, nextCq, kind, qid, pc, own, cmdNo, answer, waitsFor>>
  BY DEF PollElement
<1>l. Linked' = Linked /\ Grace' = Grace
  BY <1>u DEF Linked, Grace, ListHead, CmdCq
<1>1. Connected'
  BY <1>s, <1>l, <1>u DEF Connected, ListHead, CmdCq
<1>p. \A n \in Queues : \A i, o : Stale(post'[n], i, o) => Stale(post[n], i, o)
  <2> SUFFICES ASSUME NEW n \in Queues, NEW i, NEW o, Stale(post'[n], i, o)
               PROVE  Stale(post[n], i, o)
    OBVIOUS
  <2>1. CASE n # cursor
    BY <2>1, <1>u, <1>t
  <2>2. CASE n = cursor
    <3>1. post'[n] = Tail(post[n]) /\ post[n] \in Seq(Elements) /\ post[n] # <<>>
      BY <2>2, <1>u, <1>t
    <3>2. \A k \in 1..Len(post'[n]) : k + 1 \in 1..Len(post[n]) /\ post'[n][k] = post[n][k + 1]
      BY <3>1, TailIs
    <3> QED BY <3>2 DEF Stale
  <2> QED BY <2>1, <2>2
<1>g. StaleIsGone'
  BY <1>s, <1>l, <1>u, <1>p DEF StaleIsGone, Settled, Queues
<1>2. CASE cursor = CmdCq
  <2>1. /\ harvested' = harvested \cup {Head(post[CmdCq])} /\ misrouted' = misrouted
    BY <1>2 DEF PollElement
  <2>2. \A n \in Linked \cap Queues : Reach(nextCq, cursor, n)
    BY <1>2, <1>s, Sizes DEF Connected
  <2>3. StaleIsAhead'
    BY <2>2, <1>l, <1>u DEF StaleIsAhead, Queues
  <2> QED BY <1>1, <1>g, <1>s, <2>1, <2>3 DEF NoMisroutedCompletion
<1>3. CASE cursor # CmdCq
  <2> DEFINE e == Head(post[cursor])
  <2>1. /\ harvested' = harvested
        /\ misrouted' = (misrouted \/ Target(e.qid) \ {e.o} # {})
    BY <1>3 DEF PollElement
  <2>2. cursor \in Queues /\ (cursor \in Linked \/ cursor \in Grace)
    <3>1. cursor \in (Linked \ {ListHead}) \cup Grace
      BY <1>u DEF MemInv, ReaderIsSafe
    <3> QED BY <3>1, <1>3, Nodes, Sizes
  <2>3. e \in Elements /\ e.qid \in Qids /\ 1 \in 1..Len(post[cursor]) /\ post[cursor][1] = e
    <3>1. e \in Elements /\ 1 \in 1..Len(post[cursor]) /\ post[cursor][1] = e
      BY <2>2, <1>t, <1>u, TailIs
    <3> QED BY <3>1 DEF Elements
  <2> HIDE DEF e
  <2>4. Target(e.qid) \ {e.o} = {}
    <3> SUFFICES ASSUME NEW q \in Target(e.qid), q # e.o PROVE FALSE
      OBVIOUS
    <3>1. q = queues[e.qid] /\ q # Nil
      BY DEF Target
    <3>2. PICK x \in Workers : pc[x] \in Published /\ own[x] = q /\ qid[own[x]] = e.qid
      BY <3>1, <2>3 DEF MemInv, ReaderIsSafe
    <3>3. Stale(post[cursor], qid[own[x]], own[x])
      BY <3>2, <2>3 DEF Stale
    <3>4. Settled(x)
      BY <3>2 DEF Settled
    <3> QED BY <3>3, <3>4, <2>2, <1>s, <1>u DEF StaleIsGone
  <2>5. StaleIsAhead'
    BY <2>1, <1>s, <1>l, <1>u, <1>p DEF StaleIsAhead, Announced, Queues
  <2> QED BY <1>1, <1>g, <1>s, <2>1, <2>4, <2>5 DEF NoMisroutedCompletion
<1> QED BY <1>2, <1>3

LEMMA InitSweep == Init => SweepInv
<1> SUFFICES ASSUME Init PROVE SweepInv
  OBVIOUS
<1>1. /\ harvested = {} /\ submitted = {} /\ misrouted = FALSE
      /\ \A w \in Workers : pc[w] = "idle"
      /\ \A o \in Queues : kind[o] = "none" /\ post[o] = <<>>
  BY Sizes DEF Init
<1>2. CqComesFirst
  BY <1>1 DEF CqComesFirst
<1>3. Linked = {ListHead, CmdCq}
  <2>1. \A n : n \in Linked <=> n = ListHead \/ n = CmdCq
    BY <1>1, Members DEF Published
  <2> QED BY <2>1
<1>4. Connected
  BY <1>3 DEF Connected, Reach
<1>5. StaleIsAhead /\ StaleIsGone
  BY <1>1 DEF StaleIsAhead, StaleIsGone, Settled, Published
<1> QED BY <1>1, <1>2, <1>4, <1>5 DEF SweepInv, NoMisroutedCompletion

LEMMA NextSweep == MemInv /\ CommandInv /\ SweepInv /\ [Next]_vars => SweepInv'
<1> SUFFICES ASSUME MemInv, CommandInv, SweepInv, [Next]_vars PROVE SweepInv'
  OBVIOUS
<1> USE DEF SweepInv
<1>1. CqComesFirst'
  BY NextFirst
<1>2. CASE PollElement
  BY <1>1, <1>2, ElementSweep
<1>3. ASSUME ~PollElement
      PROVE  Connected' /\ StaleIsAhead' /\ StaleIsGone'
  BY <1>3, WorkerSweep, ListSweep, DeviceSweep, PassSweep
     DEF Next, User, Worker, IrqThread, Device, Rest
<1>4. ASSUME ~PollElement
      PROVE  NoMisroutedCompletion'
  <2>1. misrouted' = misrouted
    BY <1>4 DEF Next, User, Worker, IrqThread, Device, Rest, Create, Submit, Destroy, CreateFails,
       Publish, CommandTimeout, Unregistered, Unpublish, Free, StartRemoval, IrqStart, PollNext,
       Dispatch, IrqEnd, ExecuteCommand, CompleteRequest, vars
  <2> QED BY <2>1 DEF NoMisroutedCompletion
<1> QED BY <1>1, <1>2, <1>3, <1>4

\* A qid is used again as soon as its queue is freed, while completions for that queue
\* may still be in memory: for every number of workers, qids and queues, and whatever
\* commands fail, bce_handle_cq_completion gives none of them to the new queue.
THEOREM CompletionsGoHome == Spec => []NoMisroutedCompletion
<1>1. Init => MemInv /\ CommandInv /\ DeviceInv /\ SweepInv
  BY InitMem, InitCommands, InitSweep
<1>2. MemInv /\ CommandInv /\ DeviceInv /\ SweepInv /\ [Next]_vars
         => (MemInv /\ CommandInv /\ DeviceInv /\ SweepInv)'
  BY NextMem, NextCommands, NextSweep
<1>3. SweepInv => NoMisroutedCompletion
  BY DEF SweepInv
<1> QED BY <1>1, <1>2, <1>3, PTL DEF Spec

=============================================================================
