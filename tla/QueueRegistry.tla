---------------------------- MODULE QueueRegistry ----------------------------
(***************************************************************************)
(* The life of a queue (queue.c): bce_create_cq, bce_create_sq_with_flags, *)
(* bce_destroy_cq and bce_destroy_sq, run by any number of threads, against*)
(* the DMA interrupt thread (bce_handle_dma_irq in apple_bce.c), which     *)
(* walks cq_list and queues[] under SRCU and without the lock of the       *)
(* writers. What the thread holds is a set of pointers: the model says     *)
(* when they may dangle.                                                   *)
(*                                                                         *)
(* The command queue is reduced to a sequence of commands the device       *)
(* executes in order (CommandQueue has the details), an SQ to one slot.    *)
(***************************************************************************)
EXTENDS Integers, Sequences, FiniteSets, FiniteSetsExt

CONSTANTS
    Workers,      \* threads that create and destroy queues
    Qids,         \* the user range of dev->queue_ida
    MaxQueues     \* bound: queues created

ASSUME RegistryAssumption ==
    /\ IsFiniteSet(Workers)
    /\ IsFiniteSet(Qids) /\ Qids \subseteq Nat
    /\ MaxQueues \in Nat

Queues == 1..MaxQueues
ListHead == 0                  \* the head of dev->cq_list
CmdCq == MaxQueues + 1         \* dev->cmd_cq, published by the probe
Nil == MaxQueues + 2           \* NULL
CqNodes == Queues \cup {ListHead, CmdCq}

VARIABLES
    qidUsed,      \* dev->queue_ida
    alive,        \* queues allocated and not freed
    created,      \* queues created so far; they are numbered in order
    kind, qid, cqOf,  \* of each queue: CQ or SQ, its qid, the CQ of an SQ
    queues,       \* dev->queues
    nextCq,       \* the next pointers of dev->cq_list
    pc, own,      \* where each worker is, the queue it works on
    cmdNo,        \* commands each worker has issued
    answer,       \* what became of its current command
    waitsFor,     \* synchronize_srcu waits for the pass in progress
    removing,     \* dev->is_being_removed
    irqRaised, irqPc,
    cursor,       \* the CQ the interrupt thread is polling
    held,         \* the SQs it has a pointer to
    harvested,    \* command completions it has harvested and not dispatched
    devReg,       \* device: what it has registered under a qid
    devCmds,      \* device: commands it has not executed
    submitted,    \* device: SQs with a request
    post,         \* the elements in the memory of each CQ
    faulted,      \* a command timed out, or the device refused to unregister
    misrouted     \* a completion was given to a queue it is not for

regVars == <<qidUsed, alive, created, kind, qid, cqOf>>
pubVars == <<queues, nextCq>>
workVars == <<pc, own, cmdNo, answer, waitsFor>>
irqVars == <<irqPc, cursor, held, harvested>>
devVars == <<devReg, devCmds, submitted, post>>
vars == <<regVars, pubVars, workVars, removing, irqRaised, irqVars, devVars,
          faulted, misrouted>>

\* bce_create_command_queues has published the command queues.
Init ==
    /\ qidUsed = {} /\ alive = {} /\ created = 0
    /\ kind = [o \in Queues |-> "none"]
    /\ qid = [o \in Queues |-> 0]
    /\ cqOf = [o \in Queues |-> Nil]
    /\ queues = [i \in Qids |-> Nil]
    /\ nextCq = [n \in CqNodes |-> IF n = ListHead THEN CmdCq ELSE Nil]
    /\ pc = [w \in Workers |-> "idle"]
    /\ own = [w \in Workers |-> Nil]
    /\ cmdNo = [w \in Workers |-> 0]
    /\ answer = [w \in Workers |-> "none"]
    /\ waitsFor = [w \in Workers |-> FALSE]
    /\ removing = FALSE
    /\ irqRaised = FALSE /\ irqPc = "idle"
    /\ cursor = ListHead /\ held = {} /\ harvested = {}
    /\ devReg = [i \in Qids |-> Nil]
    /\ devCmds = <<>>
    /\ submitted = {}
    /\ post = [n \in CqNodes |-> <<>>]
    /\ faulted = FALSE /\ misrouted = FALSE

-----------------------------------------------------------------------------
(* Creation.                                                               *)

\* bce_cmd_register_queue, bce_cmd_unregister_memory_queue: the command is
\* put into the command queue, and the worker waits.
Issue(w, op, o) ==
    /\ cmdNo' = [cmdNo EXCEPT ![w] = @ + 1]
    /\ answer' = [answer EXCEPT ![w] = "none"]
    /\ devCmds' = Append(devCmds, [w |-> w, no |-> cmdNo[w] + 1, op |-> op, o |-> o])

\* bce_qid_alloc: what ida_alloc_range chooses from; it takes the smallest.
FreeQids == Qids \ qidUsed

ReadyCqs == {own[w] : w \in {x \in Workers : pc[x] = "ready" /\ kind[own[x]] = "cq"}}

\* The qid, the memory of the queue, and the registration. Without a qid the
\* call returns NULL and nothing changes.
Create(w, k) ==
    /\ pc[w] = "idle" /\ created < MaxQueues
    /\ FreeQids # {}
    /\ LET o == created + 1
           i == Min(FreeQids)
       IN /\ \/ k = "cq" /\ cqOf' = cqOf
             \/ k = "sq" /\ \E c \in ReadyCqs : cqOf' = [cqOf EXCEPT ![o] = c]
          /\ qidUsed' = qidUsed \cup {i}
          /\ alive' = alive \cup {o}
          /\ kind' = [kind EXCEPT ![o] = k]
          /\ qid' = [qid EXCEPT ![o] = i]
          /\ own' = [own EXCEPT ![w] = o]
          /\ Issue(w, "register", o)
    /\ created' = created + 1
    /\ pc' = [pc EXCEPT ![w] = "registering"]
    /\ UNCHANGED <<pubVars, waitsFor, removing, irqRaised, irqVars, devReg, submitted,
                   post, faulted, misrouted>>

\* The registration failed: memory and qid are freed, nothing was published.
CreateFails(w) ==
    /\ pc[w] = "registering" /\ answer[w] \in {"error", "timeout"}
    /\ alive' = alive \ {own[w]}
    /\ qidUsed' = qidUsed \ {qid[own[w]]}
    /\ own' = [own EXCEPT ![w] = Nil]
    /\ pc' = [pc EXCEPT ![w] = "idle"]
    /\ UNCHANGED <<created, kind, qid, cqOf, pubVars, cmdNo, answer, waitsFor,
                   removing, irqRaised, irqVars, devVars, faulted, misrouted>>

\* The nodes of cq_list: the CQs that list_add_tail_rcu has put there and list_del_rcu
\* has not taken away. Its last node, and the one before a given node.
Published == {"ready", "unregistering", "unpublish"}
Linked == {ListHead, CmdCq} \cup
          {own[w] : w \in {x \in Workers : pc[x] \in Published /\ kind[own[x]] = "cq"}}
LastNode == CHOOSE n \in Linked : nextCq[n] = Nil
NodeBefore(n) == CHOOSE m \in Linked : nextCq[m] = n

\* Mutant of Publish: list_add_rcu, at the front of the list.
PublishInFront(w) ==
    /\ pc[w] = "registering" /\ answer[w] = "ok"
    /\ queues' = [queues EXCEPT ![qid[own[w]]] = own[w]]
    /\ nextCq' = IF kind[own[w]] = "cq"
                   THEN [nextCq EXCEPT ![own[w]] = nextCq[ListHead], ![ListHead] = own[w]]
                   ELSE nextCq
    /\ pc' = [pc EXCEPT ![w] = "ready"]
    /\ UNCHANGED <<regVars, own, cmdNo, answer, waitsFor, removing, irqRaised, irqVars,
                   devVars, faulted, misrouted>>

\* Under queues_lock: rcu_assign_pointer, and for a CQ list_add_tail_rcu.
Publish(w) ==
    /\ pc[w] = "registering" /\ answer[w] = "ok"
    /\ queues' = [queues EXCEPT ![qid[own[w]]] = own[w]]
    /\ nextCq' = IF kind[own[w]] = "cq"
                   THEN [nextCq EXCEPT ![own[w]] = Nil, ![LastNode] = own[w]]
                   ELSE nextCq
    /\ pc' = [pc EXCEPT ![w] = "ready"]
    /\ UNCHANGED <<regVars, own, cmdNo, answer, waitsFor, removing, irqRaised, irqVars,
                   devVars, faulted, misrouted>>

\* The 5 s of bce_cmd_finish are over; the command stays with the device.
CommandTimeout(w) ==
    /\ pc[w] \in {"registering", "unregistering"} /\ answer[w] = "none"
    /\ answer' = [answer EXCEPT ![w] = "timeout"]
    /\ faulted' = TRUE
    /\ UNCHANGED <<regVars, pubVars, pc, own, cmdNo, waitsFor, removing, irqRaised,
                   irqVars, devVars, misrouted>>

\* The owner of an SQ submits a request.
Submit(w) ==
    /\ pc[w] = "ready" /\ kind[own[w]] = "sq" /\ own[w] \notin submitted
    /\ \A n \in CqNodes : \A i \in DOMAIN post[n] : post[n][i].o # own[w]
    /\ submitted' = submitted \cup {own[w]}
    /\ UNCHANGED <<regVars, pubVars, workVars, removing, irqRaised, irqVars, devReg,
                   devCmds, post, faulted, misrouted>>

-----------------------------------------------------------------------------
(* Destruction.                                                            *)

\* bce_destroy_cq or _sq: the queue is unregistered first, unless the device
\* is being removed. The users destroy a CQ after the SQs on it.
Destroy(w) ==
    /\ pc[w] = "ready"
    /\ kind[own[w]] = "cq" =>
          \A x \in Workers : own[x] \in Queues => cqOf[own[x]] # own[w]
    /\ \/ /\ ~removing
          /\ Issue(w, "unregister", own[w])
          /\ pc' = [pc EXCEPT ![w] = "unregistering"]
       \/ /\ removing
          /\ pc' = [pc EXCEPT ![w] = "unpublish"]
          /\ UNCHANGED <<cmdNo, answer, devCmds>>
    /\ UNCHANGED <<regVars, pubVars, own, waitsFor, removing, irqRaised, irqVars,
                   devReg, submitted, post, faulted, misrouted>>

\* "SQ unregister failed" is logged and the destruction goes on.
Unregistered(w) ==
    /\ pc[w] = "unregistering" /\ answer[w] # "none"
    /\ pc' = [pc EXCEPT ![w] = "unpublish"]
    /\ UNCHANGED <<regVars, pubVars, own, cmdNo, answer, waitsFor, removing, irqRaised,
                   irqVars, devVars, faulted, misrouted>>

\* Under queues_lock: queues[qid] = NULL and, for a CQ, list_del_rcu, which
\* leaves the next pointer of the node alone; then synchronize_srcu starts.
Unpublish(w) ==
    /\ pc[w] = "unpublish"
    /\ queues' = [queues EXCEPT ![qid[own[w]]] = Nil]
    /\ nextCq' = IF kind[own[w]] = "cq"
                   THEN [nextCq EXCEPT ![NodeBefore(own[w])] = nextCq[own[w]]]
                   ELSE nextCq
    /\ waitsFor' = [waitsFor EXCEPT ![w] = irqPc # "idle"]
    /\ pc' = [pc EXCEPT ![w] = "syncing"]
    /\ UNCHANGED <<regVars, own, cmdNo, answer, removing, irqRaised, irqVars, devVars,
                   faulted, misrouted>>

\* Mutant of Free: without synchronize_srcu.
FreeWithoutSync(w) ==
    /\ pc[w] = "syncing"
    /\ qidUsed' = qidUsed \ {qid[own[w]]}
    /\ alive' = alive \ {own[w]}
    /\ own' = [own EXCEPT ![w] = Nil]
    /\ pc' = [pc EXCEPT ![w] = "idle"]
    /\ UNCHANGED <<created, kind, qid, cqOf, pubVars, cmdNo, answer, waitsFor, removing,
                   irqRaised, irqVars, devVars, faulted, misrouted>>

\* synchronize_srcu returns; the qid and the memory are freed.
Free(w) ==
    /\ pc[w] = "syncing" /\ ~waitsFor[w]
    /\ qidUsed' = qidUsed \ {qid[own[w]]}
    /\ alive' = alive \ {own[w]}
    /\ own' = [own EXCEPT ![w] = Nil]
    /\ pc' = [pc EXCEPT ![w] = "idle"]
    /\ UNCHANGED <<created, kind, qid, cqOf, pubVars, cmdNo, answer, waitsFor, removing,
                   irqRaised, irqVars, devVars, faulted, misrouted>>

\* apple_bce_remove or _shutdown begins.
StartRemoval ==
    /\ ~removing
    /\ removing' = TRUE
    /\ UNCHANGED <<regVars, pubVars, workVars, irqRaised, irqVars, devVars, faulted,
                   misrouted>>

-----------------------------------------------------------------------------
(* The DMA interrupt thread, inside srcu_read_lock.                        *)

IrqStart ==
    /\ irqPc = "idle" /\ irqRaised
    /\ irqRaised' = FALSE
    /\ irqPc' = "poll"
    /\ cursor' = nextCq[ListHead]
    /\ UNCHANGED <<held, harvested, regVars, pubVars, workVars, removing, devVars,
                   faulted, misrouted>>

\* bce_handle_cq_completion looks a qid up in queues[]: it takes only an SQ,
\* otherwise the element is reported and dropped. Its comparison of completion
\* indices is not modelled here (SubmissionQueue has it): what is shown does
\* not rest on it.
Target(i) == {o \in {queues[i]} \ {Nil} : kind[o] = "sq"}

\* bce_poll_cq: an element is taken.
PollElement ==
    /\ irqPc = "poll" /\ cursor # Nil
    /\ post[cursor] # <<>>
    /\ post' = [post EXCEPT ![cursor] = Tail(@)]
    /\ LET e == Head(post[cursor]) IN
       IF cursor = CmdCq
         THEN /\ harvested' = harvested \cup {e}
              /\ UNCHANGED <<held, misrouted>>
         ELSE /\ UNCHANGED harvested
              /\ held' = held \cup Target(e.qid)
              /\ misrouted' = (misrouted \/ Target(e.qid) \ {e.o} # {})
    /\ UNCHANGED <<irqPc, cursor, irqRaised, regVars, pubVars, workVars, removing,
                   devReg, devCmds, submitted, faulted>>

\* The CQ is drained: its doorbell, and the next pointer, wherever it leads.
PollNext ==
    /\ irqPc = "poll" /\ cursor # Nil
    /\ post[cursor] = <<>>
    /\ cursor' = nextCq[cursor]
    /\ UNCHANGED <<irqPc, held, harvested, irqRaised, regVars, pubVars, workVars,
                   removing, devVars, faulted, misrouted>>

\* bce_dispatch_sq_completions: the callback of the command queue wakes the
\* workers, unless they have given up; the other callbacks use their SQs.
Dispatch ==
    /\ irqPc = "poll" /\ cursor = Nil
    /\ answer' = [w \in Workers |->
          LET mine == {e \in harvested : e.w = w /\ e.no = cmdNo[w]} IN
          IF mine # {} /\ answer[w] = "none" THEN (CHOOSE e \in mine : TRUE).res
                                             ELSE answer[w]]
    /\ harvested' = {}
    /\ irqPc' = "callbacks"
    /\ UNCHANGED <<cursor, held, irqRaised, regVars, pubVars, pc, own, cmdNo, waitsFor,
                   removing, devVars, faulted, misrouted>>

\* srcu_read_unlock: whoever waited for this pass need not wait any longer.
IrqEnd ==
    /\ irqPc = "callbacks"
    /\ irqPc' = "idle"
    /\ cursor' = ListHead
    /\ held' = {}
    /\ waitsFor' = [w \in Workers |-> FALSE]
    /\ UNCHANGED <<harvested, irqRaised, regVars, pubVars, pc, own, cmdNo, answer,
                   removing, devVars, faulted, misrouted>>

IrqThread == IrqStart \/ PollElement \/ PollNext \/ Dispatch \/ IrqEnd

-----------------------------------------------------------------------------
(* The device (external).                                                  *)

\* It executes the commands in order and posts the outcome to the command CQ.
\* A refused unregistration leaves the queue registered.
ExecuteCommand(res) ==
    /\ devCmds # <<>>
    /\ LET c == Head(devCmds)
           i == qid[c.o]
       IN /\ devReg' = IF res = "ok"
                         THEN [devReg EXCEPT ![i] = IF c.op = "register" THEN c.o ELSE Nil]
                         ELSE devReg
          /\ faulted' = (faulted \/ (res = "error" /\ c.op = "unregister"))
          /\ post' = [post EXCEPT ![CmdCq] =
                         Append(@, [w |-> c.w, no |-> c.no, o |-> c.o, res |-> res])]
    /\ devCmds' = Tail(devCmds)
    /\ irqRaised' = TRUE
    /\ UNCHANGED <<submitted, regVars, pubVars, workVars, removing, irqVars, misrouted>>

\* It completes the request of a registered SQ into the SQ's CQ.
CompleteRequest(o) ==
    /\ o \in submitted /\ devReg[qid[o]] = o
    /\ devReg[qid[cqOf[o]]] = cqOf[o]
    /\ submitted' = submitted \ {o}
    /\ post' = [post EXCEPT ![cqOf[o]] = Append(@, [qid |-> qid[o], o |-> o])]
    /\ irqRaised' = TRUE
    /\ UNCHANGED <<devReg, devCmds, regVars, pubVars, workVars, removing, irqVars,
                   faulted, misrouted>>

Device ==
    \/ \E res \in {"ok", "error"} : ExecuteCommand(res)
    \/ \E o \in submitted : CompleteRequest(o)

Worker(w) ==
    \/ CreateFails(w) \/ Publish(w) \/ CommandTimeout(w)
    \/ Unregistered(w) \/ Unpublish(w) \/ Free(w)
User(w) == (\E k \in {"cq", "sq"} : Create(w, k)) \/ Submit(w) \/ Destroy(w)

\* Nothing is left to do once every queue of the instance is gone.
Rest ==
    /\ created = MaxQueues /\ alive = {} /\ irqPc = "idle"
    /\ UNCHANGED vars

Next ==
    \/ \E w \in Workers : User(w) \/ Worker(w)
    \/ StartRemoval \/ IrqThread \/ Device \/ Rest

Spec == Init /\ [][Next]_vars

-----------------------------------------------------------------------------
(* Properties.                                                             *)

\* "Teardown unpublishes a queue and then synchronize_srcu()s before freeing
\* it": the interrupt thread never has a pointer to a freed queue, neither
\* the CQ it polls nor an SQ it will call back, whatever commands fail.
\* Nor has the device, as long as no unregistration has failed or timed out and
\* the queues are not torn down for a removal, which does not unregister them.
NoUseAfterFree ==
    /\ held \cup ({cursor} \cap Queues) \subseteq alive
    /\ ~faulted /\ ~removing => \A i \in Qids : devReg[i] \in alive \cup {Nil}

\* No completion reaches a queue that has inherited the qid of a destroyed one,
\* not even after a refused or unanswered unregistration: the interrupt pass
\* that hands over the answer to the new registration took it from the command
\* CQ, the first of cq_list, and polled every other CQ after that, so whatever
\* the device posted for the old queue was dropped before the new one is
\* published.
NoMisroutedCompletion == ~misrouted

=============================================================================
