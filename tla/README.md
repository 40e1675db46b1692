# A TLA+ model of apple-bce-drv

`apple-bce-drv` is the Linux driver for the T2 chip of Intel Macs (BCE, "buffer
copy engine"). It is a PCI driver with a small message-passing core (a mailbox,
DMA queues, a command queue) on which two larger clients are built: a virtual USB
host controller (`vhci/`), behind which keyboard, trackpad, camera and Touch Bar
sit, and an ALSA sound card (`audio/`).

Everything of interest in the driver happens between three kinds of actors that
share memory: kernel threads (system calls, work items, the PM core), interrupt
handlers, and the T2 itself, which reads and writes rings in host memory and
answers when it likes or not at all. The modules here state what each part
promises under all interleavings of those actors, TLC checks it on small
instances, and TLAPS proves most of the invariants for every instance: any number of
threads, queues, ring sizes, suspends and faults.

Contents: [inventory](#inventory) · [plan](#plan) · [modules](#modules) ·
[runs](#runs) · [fairness](#fairness) · [refinement](#refinement) · [proofs](#proofs) ·
[what the models show](#what-the-models-show) · [limits](#limits)

## Inventory

| component | source | state it keeps | operations | hard behaviours |
|---|---|---|---|---|
| DMA rings | `queue.c` 8–200, `queue.h` | per SQ: `available_commands`, `head`, `tail`, `completion_cidx`, `completion_tail`, `completion_data`, `has_pending_completions`; per CQ: `index` | reserve, cancel, next_submission, submit_to_device, poll_cq, next_completion, notify_submission_complete | slots taken by several threads, sleepers and wake-ups, consumers concurrent with the harvest, repeated completions |
| DMA interrupt thread | `apple_bce.c` 247–268 | `int_sq_list` | poll every CQ, then dispatch | runs against every submitter and against destruction |
| Queue registry | `queue.c` 300–480 | `queue_ida`, `queues[]`, `cq_list` | create/destroy CQ and SQ | lock-free readers under SRCU, qid reuse, registrations that time out |
| Command queue | `queue.c` 203–330 | `tres[]` with pointers to callers' stacks | register, unregister, flush | timeout against late completion, slot recycling |
| Mailbox | `mailbox.c` 7–85 | `mb_status`, `mb_completion`, `mb_result` | send, interrupt handler | replies carry no sender, late replies |
| Timestamp service | `mailbox.c` 87–150 | timer, `stopped` | start, stop, timer handler | self-rearming timer against stop |
| T2 power management | `apple_bce.c` 320–500 | `saved_data_dma_ptr`, irq depth | suspend, resume, save, restore | refusals, lost replies, early returns |
| Probe/remove | `apple_bce.c` | `is_being_removed` | probe, remove, shutdown | unwinding, removal during use |
| VHCI event queues | `vhci/queue.c` 74–186 | `draining`, `queue_empty_completion`, lent buffers | handler, pause, resume | pause racing the handler, late flushes |
| VHCI message/command queue | `vhci/queue.c` 1–72, 188–298 | current completion, `result` | send, cancel | replies matched by command code only, cancel after timeout |
| VHCI firmware events | `vhci/vhci.c` 1020–1084 | look-ahead message | worker | aborted look-ahead, re-lending while draining |
| VHCI transfer queues | `vhci/transfer.c` | URB state, ghosts, `remaining_active_requests`, pause sources | enqueue, dequeue, completions, stall, reset, flush, pause | cancelled transfers completing later, several pausers |
| VHCI hub, devices, recovery | `vhci/vhci.c` | port masks, devices, watchdog | hub control, enable/disable, suspend, resume, recover | recovery against suspend and users |
| Audio protocol | `audio/protocol_bce.c`, `audio/protocol.c` | tags, pending entries, message buffers | send, reply and message handlers | tag reuse after a timeout, sending from the interrupt thread |
| Audio PCM | `audio/pcm.c` | `started`, timestamps, period timer | open, trigger, close, timer, pointer | timer, works and suspend read `started` without its lock |
| Audio device | `audio/audio.c` | device tree, jack state | notifications, works, suspend, discovery, controls | works that overtake each other, stale timestamps |

How they interact: probe creates the mailbox, agrees on the firmware version over
it, starts the timestamp timer, registers the command queues by mailbox and every
further queue by a command. VHCI and audio create CQs and SQs and give each SQ a
completion callback, which runs in the DMA interrupt thread, inline or as a trigger
for a work item. Suspend and resume go over the mailbox; VHCI pauses its event
queues with flush commands first. All waits for the T2 have a timeout, so the T2's
answer to an abandoned request is a normal event for every one of these layers.

The correctness that matters, by component:

- rings: no slot is lost or invented, driver and device keep their order around
  the ring, what a callback reads belongs to its request, nobody misses a wake-up,
  no completion is forgotten;
- registry: the interrupt thread never holds freed memory, a completion never
  reaches another queue's callback;
- command queue: no write to a dead stack frame, no foreign result, truthful
  return values;
- mailbox: replies are shifted only after a failed call, which needs a wait that ran out;
- timestamp and power: stop is final, start is effective, the state buffer is neither
  leaked nor freed under the T2;
- event queues: events once and in order, a pause leaves the queue quiet, a resume
  leaves it listening;
- VHCI command queue: no write through a dead pointer, no unwritten reply is read,
  replies are confused only after a failure, every call returns;
- transfer queues: an URB is given back once, and after the T2 has let go of its
  buffer; the count of active requests is right; a queue that is stopped is started
  again; a reset or a flush that was asked for happens;
- hub and recovery: ports, device table and T2 agree on who is who, a port that is
  hidden is shown again, endpoints that are paused or cut off come back, the watchdog
  survives, nothing runs after removal;
- audio: a reply is written to a live caller and belongs to its command, the T2 plays
  exactly what is started, the position comes from this run, timer and work do not
  outlive their substream, the reported jack state is the last one.

`PROJECT.json` lists the hazards behind these, at the lines where they bite.

## Plan

Order: the layers from the bottom, because everything above uses them.

1. Done, modelled and checked: `SubmissionQueue`, `CommandQueue`, `Mailbox`,
   `Timestamp` and `PowerManagement`, `QueueRegistry`, `EventQueue` with the
   firmware-event worker, `VhciCommandQueue`, `TransferQueue` with the abstract
   `UrbContract` it implements, `VhciController`, `AudioProtocol` and `AudioStream`.
2. Done, proved for every value of the constants: every invariant the runs check, and
   that `TransferQueue` implements `UrbContract`.
3. Left to model: the unwinding of a failing probe and the arithmetic of the PCM
   pointer; see [limits](#limits) for what is left out for good.

## Modules

Each module has one action per operation or, where no lock makes the operation
atomic, per access to shared state. `PROJECT.json` maps every definition to its
lines. Definitions whose comment begins with "Mutant" are plausible bugs of the
definition after them; they show that the properties are sensitive to it.

**`SubmissionQueue`** – rings and DMA interrupt thread. Variables carry the names of
the C fields; `reserved`, `sleeping` and `awake` count threads inside
`bce_reserve_submission`. `HarvestData` and `HarvestPublish` are the two sides of the
`smp_wmb()` in `bce_handle_cq_completion`. The constant `Deferred` holds the SQs
whose callback only queues a work item (the firmware event queue); their consumer
interleaves with later harvests. The device is external: it completes announced
elements in order, keeps one CQ element free, and in up to `MaxFaults` cases repeats
a completion or names an unknown queue. `genuine` marks elements for the properties;
no driver step reads it.

**`CommandQueue`** – callers with result elements on their stacks. Critical sections
under `cmdq->lck` are single actions, everything between is a step. The ring below is
reduced to `head`, `tail` and `completion_tail`. `outcome` records what the device did
with every command.

**`Mailbox`** – lock-free, so every access to `mb_status`, the completion and
`mb_result` is a step. Messages are numbered and a reply is the number of the message
it answers, which the driver cannot see.

**`Timestamp`**, **`PowerManagement`** – the timer and its handler, and the PM core's
thread. `PowerManagement` extends `Timestamp` and adds the T2's sleep state and the
state buffers; a mailbox exchange is one step that succeeds, is refused or loses its
reply. The T2 acts on a message whose reply is lost or does not, both are possible.

**`QueueRegistry`** – any number of workers create and destroy queues. `nextCq` is the
linked list of CQs that the interrupt thread walks pointer by pointer, `held` the SQ
pointers it has in `int_sq_list`; `alive` says which are memory. Commands are a
sequence the device executes in order, refuses or leaves unanswered. Freed queue
objects are never renumbered, so a stale pointer is visible as such.

**`EventQueue`** – one event queue against the thread that pauses and resumes it. It is
of either kind: one whose handler runs in the interrupt thread, or `ev_commands`, whose
completions the firmware-event worker takes, with its look-ahead for a cancellation
(`ahead` is `msg2`). `bce_next_submission` has no lock: if two threads are in
`submit_pending` at once the variable `raced` is set and the model stops there, since
the ring is undefined from then on.

**`VhciCommandQueue`** – callers take turns under `cq->mutex`; what competes with the
holder is the event handler, which writes through `completion.result` under
`completion_lock`, and the destruction of the queue. The T2 answers commands and
cancellations in any order or not at all; a reply carries the command code. The number
of the call in a message exists for the properties only. The recovery worker appears
as the flags `recovery`, `recovering` and `dead` that the calls read and set.

**`TransferQueue`** – one endpoint. A section under `urb_lock` is an operator from a
queue to a queue, with the C function's name (`UrbInit`, `DeliverPending`,
`QueueEvent`, `Completions`...), and an action applies one such section and puts the
result back; this is how the code calls them, and it keeps the order of their effects.
The queue `q` is a record: the URB list, the URB states, `remaining`, `active`,
`stalled`, the deferred events, the two lists of URBs to give back, and the two rings.
The ordered workqueue is a sequence of works and the place in the one that runs; the
firmware-event worker handles several events in a run, so its events join the run that
is queued. Commands to the T2 are steps between which the others run. `pause_lock` is
a variable, since suspend and the workqueue compete for it. The T2 follows the
protocol the driver expects: it asks for OUT data and for setup packets, completes
each ring in order and posts a status for a control transfer. `Settled` uses the order
of an interrupt pass, as in `QueueRegistry`: when a command after the pause has been
answered, the completions from before it have been handled. Interrupt and isochronous
endpoints take the bulk path. Not covered: transfers in parts, bulk URBs without data,
and a firmware event that is being handled while the queue is destroyed.

**`UrbContract`** – the abstract specification of an endpoint: an URB it accepts is
given back, once; an endpoint that closes gives up all it has, and a shut one accepts
nothing. `TransferQueue` maps its lists and states to an owner per URB (`Owner`,
"lost" if an URB is in two lists or in none, which no abstract state allows) and
`hcpriv` to the mode of the endpoint. The one thing the abstraction has to concede is
"stranded": an URB enqueued between the section of `cancel_all` and the clearing of
`hcpriv` (`transfer.c` 190) may be left behind.

**`VhciController`** – root hub, device table, bus suspend, recovery and watchdog
(`vhci/vhci.c`). The USB core's hub thread, the recovery worker, the watchdog and the
event handler share the port masks and the table without a common lock; each read or
write that another party can separate is a step (`RecoveryLook` and `RecoveryCut`,
`RecoveryTest` and `RecoverySet`, `FreeDevice` and `FreeDeviceDestroy`). A command is
one step whose outcome is `ok`, `lost` (not executed) or `late` (executed, not
confirmed); while the event queues are paused no answer arrives. Each command that times
out may find its cancellation unanswered too, which queues the recovery unless one is
under way (`Charge`); `EndpointTimeout` is such a command of an endpoint's work. Two
commands last while others act on what they are about, and are not one step: the
watchdog fires, waits for its probe and reports (`WatchdogFires`, `WatchdogProbe`,
`WatchdogReport`), with the rest of the system, its removal included, between these
steps; and `Stop` cancels the watchdog before `controller_disable`, after which it may
have been started again. The USB core is
external and does what `hub.c` does with what the driver reports: it reads the status
of a port, drops, resets, initialises and configures devices. An endpoint is a member
of `eps`, with flags for the suspend pause and for the cut of the recovery; what
happens inside it is in `TransferQueue`. `raced`, `wiped`, `abandoned`, `off` and
`straddled` record the exceptions that the properties name. If the worker uses a device that the hub thread
has freed, `uaf` is set and the model goes no further.

**`AudioProtocol`** – the transport of the audio function: tags, `pending_entries`
with the callers' entries, the out queue with its slots and the in queue with its data
slots. `__aaudio_send_prepare` takes the spinlock and `__aaudio_send` releases it, so
what is between them is one step. Commands are numbered for the properties; the driver
sees the tag only.

**`AudioStream`** – extends it with one PCM stream, the period timer and its work, the
timestamp and jack works, and suspend. Callers are the holder of the stream lock, the
PM thread and the jack works. A timestamp is identified by the `start_io` it followed,
which is the distinction that matters when a stream is started again. Whether the
application wants period wake-ups (`no_period_wakeup`) is chosen anew at each start, as
hardware parameters may be set between two runs.

## Runs

| run | instance | checks | result |
|---|---|---|---|
| `sq_ring` | 1 SQ × 3 elements, 1 CQ × 3, 2 request values, deferred consumer, 1 sleeper, 1 device fault | `SlotAccounting`, `RingOrder`, `ResultMatchesRequest`, `NoSleepWithFreeSlot` | hold, 1.4 million states |
| `sq_live` | 2 SQs on 2 CQs of 2 elements, one inline and cancelable, one deferred, 1 sleeper | `NoLostCompletion`, `SubmissionsComplete` | hold |
| `cmdq` | 2 callers × 3 commands on 3 slots (two usable) | `NoDanglingResult`, `OwnResult` | hold, 0.7 million states |
| `mailbox` | 2 senders, 4 messages | `OwnReplyUntilFailure` | hold, 0.3 million states |
| `pm` | 3 suspends, up to 5 attempts each | `StopIsFinal`, `SyncKeepsGoing`, `NoBufferLeak` | hold, 0.14 million states |
| `registry` | 3 workers, 3 queues, 2 qids | `NoUseAfterFree`, `NoMisroutedCompletion` | hold, 5.2 million states |
| `event` | either kind of queue, ring of 6, 2 buffers lent, 3 events, 2 pauses | `EventsInOrder`, `QuietWhenPaused`, `KeepsListening`, `RaceNeedsLeftover` | hold, 5.3 million states |
| `vhci_cmdq` | 2 callers, 3 calls, 2 commands, 1 message slot | `NoDanglingResult`, `NoUninitialisedReply`, `ForeignReplyNeedsFailure`, `CallsReturn` | hold |
| `transfer` | 2 URBs on a bulk IN, bulk OUT or control endpoint, 1 or 2 active, 2 troubles (control: 1) | `KeepsContract` (refinement), `SlotsAccounted`, `StoppedHasReason`, `WorkIsOwed`, `QuietWhenIdle` | hold, 2.4 million states |
| `controller` | 2 ports, one with a bulk endpoint, 3 device ids, 3 device objects, fresh or after a failed recovery, 2 incidents, dead after 2 failed recoveries | `MappingIsSound`, `ReenumerationIsNoticed`, `CancelledIsReenumerated`, `SuspendPauseIsLifted`, `NoWorkLeft`, `WatchdogIsKept` | hold, 1.8 million states |
| `audio` | 1 stream, suspend, 1 jack work, 2 tags, 2 elements per queue, 3 commands, 2 incidents | `NoDanglingEntry`, `LateByALap`, `TimestampOfThisRun`, `IoFollowsStarted`, `PeriodTimerRuns`, `JackIsCurrent` | hold, 2.7 million states |
| `transfer_ghost` | 2 URBs, bulk IN, no trouble | `GhostsAreCancelled` | violated, see below |

`TypeOK` of the rings is checked in `sq_ring` too. Each property of a passing
run has a mutant in `PROJECT.json` that TLC finds to violate it.

Why the bounds are enough to be interesting:

- `sq_ring`: with 3 elements the ring has two in flight, so a batch of two is
  harvested in one pass and the ring wraps; unbounded laps are covered because no
  variable counts them. Two request values tell a stale result from the right one.
  One fault reaches both refusal branches. One sleeper is enough for a missed
  wake-up; the proof covers any number.
- `sq_live`: two queues are needed for a completion to be pending while another
  queue is dispatched, two CQs for an element that arrives behind the poll position.
- `cmdq`: six commands on two usable slots recycle every slot twice, which is the case
  the 32 slots of the driver reach after a lap; two in flight let one be answered while
  the other is given up.
- `mailbox`: four messages let a late reply shift and the shift be passed on twice.
- `pm`: three suspends let the consequences of a failed resume meet a successful
  suspend and another resume; the number of attempts is the code's.
- `registry`: 2 qids and 3 queues force qid reuse; CQ and SQ of one user and a third
  queue that inherits a qid are all there. Symmetry over workers is used for the
  invariants only.
- `event`: the ring is larger than twice the lent buffers as in the driver (256
  and 32), and wraps; two pauses let a late flush of the first meet the second. Three
  events are a request, its cancellation and an event behind them.
- `vhci_cmdq`: three calls let the reply of a failed call be taken by the second and
  the second's own reply by the third; with one slot a cancellation finds the queue
  full when the T2 has not read the command.
- `transfer`: two URBs are enough for one to be in flight, or to wait for a slot, when
  the other is cancelled, and with one slot for a ghost to hold it. A trouble is a
  pause by the firmware, a stall, a suspend, a command that fails, a driver's reset
  request, the start of a recovery, or a section that finds no memory or no slot; two
  of them meet in every pair. The control endpoint has three kinds of transfers and
  more stages, and one trouble.
- `controller`: two ports let the device id of one be handed to the other; three ids
  leave the T2 a choice. An incident is a command that is lost or late, a
  cancellation that is not answered either, a command of an endpoint that is not, a probe
  of the watchdog, a device plugged or unplugged, a reset notification, a suspend or a
  device reset. Two are enough for a
  suspend to meet a recovery, a recovery to fail, and a reset to fail half-way; every
  command of every operation may be the one. With two ports the loops of recovery and
  resume have a port before and one behind the one that is being worked on. A recovery
  that fails must be one the controller survives and one it does not, at the same limit of
  failures: the run has two kinds of initial states (`MCSpec`), and the second is the
  controller with a failed recovery behind it, which the first would take two incidents to
  reach.
- `audio`: with two tags the third command uses the tag of the first; three commands are
  start, stop and start, or the suspend of a running stream. An incident
  is a command that times out, a suspend, or a timestamp, jack change or boot message.
  There is one jack work at a time; with two, which the proof covers, an older answer can
  be reported last. `misled` excepts that: it is reset by a work that begins alone, and set
  by one that begins beside another or whose query fails.

Deadlock is checked in every run but those of `TransferQueue`, where all URBs may be
back and the T2 quiet, and `audio`, where the application may have closed its stream and
the commands be used up; the other modules have an explicit action for "the bounds are
used up and everyone is at rest".

## Fairness

The kernel runs interrupt threads, queued work and woken threads, and timers expire;
these get weak fairness. `SubmissionQueue` uses strong fairness for the device serving
each queue: without a device that completes what was announced no submission
completes. Nothing is assumed of the submitters. `VhciCommandQueue` assumes nothing of
the T2: its liveness property says that the driver's own timeouts are enough. The other
modules state no fairness. Where the driver has something left to do they say what is
owed and to whom (`WorkIsOwed`, `StoppedHasReason`, `ReenumerationIsNoticed`,
`SuspendPauseIsLifted`, `WatchdogIsKept`): a state in which nobody is going to act
violates the invariant, which is the failure to be afraid of, and it needs no fairness.

## Refinement

`TransferQueue` implements `UrbContract` (`KeepsContract`, run `transfer`). Every step of
the queue maps to a step of the contract or a stutter: cancels that are put aside for the
flush and completions that wait for `giveback` are "leaving", a teardown is `Close` and
`Shut`. An URB that is given back twice, forgotten between two lists, or accepted by a
queue that is shut is a step the contract does not have. TLC checks it on the runs'
instances and `TheContractIsKept` states it for any number of URBs.

## Proofs

Eight modules hold proofs. Seven are named after the component they are about;
`T2Link_proofs` holds the proofs about the three small modules through which the driver
talks to the T2 itself, `Mailbox`, `PowerManagement` (with `Timestamp`) and
`CommandQueue`. Each follows the same plan: an inductive invariant as a conjunction of named parts, one lemma per action or
group of actions that shows the parts it can disturb, frame lemmas for the rest, and a
theorem for each property that a run checks, so that the run and the theorem are about
the same definition. Every invariant was checked by TLC on the instance of the run before
it was proved. The only assumptions are the named ASSUMEs of the modules, which TLC
evaluates on every run: the types of the constants, rings of at least two elements, and
that a null value (`None`, `NoThread`, `NoCmd`, `NoQueue`) is none of the things it
could be confused with. Bounds such as `MaxCommands` are arbitrary natural numbers.

### `SubmissionQueue_proofs`

For every set of SQs, number of CQs, ring size of at least 2, assignment of SQs to CQs,
number of sleepers and number of device faults:

- `TypeCorrect`: `TypeOK`; `SlotsAccounted`: `SlotAccounting`; `RingOrdered`:
  `RingOrder`; `ResultsMatch`: `ResultMatchesRequest`; `NoMissedWakeup`:
  `NoSleepWithFreeSlot`; `NothingIsForgotten`: `NoLostCompletion`;
- `RepeatsRefused`: `bce_handle_cq_completion` accepts no completion the device
  repeated (`RepeatsAreRefused`, which only the proof is about).

The safety properties are not inductive: that `bce_handle_cq_completion` may trust
an element whose index equals `completion_tail` depends on what else can be in the
CQ. The inductive invariant is

    IInv == TypeOK /\ SlotAccounting /\ RingOrder /\ ResultMatchesRequest
            /\ CqWindow /\ CqContents /\ CqSorted /\ CqComplete /\ IrqPosition

- `CqWindow`: the flagged elements of a CQ are those between `cq->index` and the
  device's position;
- `CqContents`, `CqSorted`: give each element the interval `From..Upto` of slots it
  stands for, counted from `completion_tail` (one slot for a genuine completion, an
  empty interval for a repeated one); the intervals lie before `devNext` and follow
  one another in CQ order;
- `CqComplete`: every slot completed and not harvested has its element in the CQ;
- `IrqPosition`: what is known between the write of `completion_data` and its
  publication.

Lemma `FrontElement` draws the conclusion: the element at `cq->index`, if its index
is `completion_tail`, is genuine, because the element of that slot exists, and
nothing can be sorted before it but elements with an interval that ends there; a
repeated element has an index behind. `NothingIsForgotten` adds `PendingIsListed`:
`has_pending_completions`, which keeps an SQ from being listed twice, is set only while
the SQ is in `int_sq_list` and not yet dispatched.

### `T2Link_proofs`

**Mailbox.** For any number of senders and messages, `RepliesAreOwnUntilFailure`
(`OwnReplyUntilFailure`). `OneSender`: the compare-and-exchange of `mb_status` admits one
sender. `InStep`: until a call fails, at most one reply is anywhere between the T2 and
`mb_result`, and it is to the last message. `WakesMatch`: until a wait runs out, nothing
is left in the completion that would wake a sender before its reply; so no call fails
before a wait has run out.

**Timer and power.** For any number of suspends. `TimerIsDead` (`StopIsFinal`) and `TimerIsAlive`
(`SyncKeepsGoing`) follow from `StopStages`: once `timer_delete_sync` has returned, no
handler is left that could arm the timer, because it would have seen `stopped`; this lasts
until a start clears the flag. `BuffersAreKept` (`NoBufferLeak`) follows from `BufferInv`,
which says at each place of suspend and resume which buffers the driver and the T2 have.

**Command queue.** For every finite set of callers, every ring size of at least 2 and any number of
commands: `NoDanglingResults` (`NoDanglingResult`: an entry of `tres` belongs to a caller
that is still inside `bce_cmd_finish`, for that slot and that command) and
`ResultsAreOwn` (`OwnResult`). The inductive invariant is

    IInv == TypeInv /\ Capacity /\ HarvestIsTrue /\ ResultIsTrue
            /\ NoDanglingResult /\ OwnResult

- `Capacity`: free slots, callers between reservation and submission, and slots in
  flight are `el_count - 1` together. Without it a submission could overwrite a slot in
  flight, and two entries of `tres` could be for one slot. It counts threads, so the
  proof uses the cardinality theorems of the library;
- `HarvestIsTrue`: a harvested slot holds what the device did with the command in it;
- `ResultIsTrue`: so does a completed result element, and one that is reserved is not
  completed.

`NoDanglingResult` is what makes the completion handler safe: because an entry names its
slot and every caller has one slot, the handler wakes each caller at most once per pass,
and gives it the answer of the slot it waits for. That the clean-up after a timeout
clears whatever is at `tres[res->slot]` only removes entries, and keeps all parts.

### `QueueRegistry_proofs`

For any number of workers, qids and queues.

- `QueuesAreAlive` (`NoUseAfterFree`). `ListSound` describes `cq_list` while it is read
  without a lock: every linked CQ has a predecessor, and a CQ that was taken off in the
  pass in progress still leads back into the list or to another such CQ. `ReaderIsSafe`:
  what the interrupt thread holds is published, or its owner waits in
  `synchronize_srcu` for this pass. The part about the device needs `CommandInv` (a
  command and its reply are in one place, and are expected by the worker that issued them)
  and `DeviceInv` (without faults, what is registered is in use).
- `CompletionsGoHome` (`NoMisroutedCompletion`). `SweepInv` is about the heir of a qid:
  when the reply to its registration has been harvested, every element that is stale for it
  lies in a CQ the pass has still to come to (`StaleIsAhead`), and when the worker knows
  of the reply none is left (`StaleIsGone`). This is where the position of the command
  CQ at the head of the list and "harvest everything, then dispatch" are used.
  Reachability in the list is stated with sets closed under `next`, not by recursion.

### `EventQueue_proofs`

For any ring larger than twice the lent buffers, any number of events and pauses, and both
kinds of queue: `EventOrder` (`EventsInOrder`), `PausedIsQuiet` (`QuietWhenPaused`),
`Listening` (`KeepsListening`) and `RaceCause` (`RaceNeedsLeftover`).

    IInv == RingInv /\ PlaceInv /\ OrderInv /\ PauseInv /\ LeftoverInv /\ FlushInv /\ ListenInv

- `RingInv`: head, completion tail, the device's position, doorbell and tail follow one
  another around the ring, and what is not lent is available. Distances are taken from the
  head, so a step that moves the head moves all of them (`HeadMoves`, `RingMoves`);
- `PlaceInv`: where the two threads are, and that `draining` is set exactly within a pause;
- `OrderInv`: the completed slots hold the events that are produced and not delivered, each
  once and ascending, unless an aborted look-ahead was `replayed`;
- `PauseInv`: a handler that read `draining` in time has nothing to lend, and after a pause
  that found the queue empty nobody has;
- `LeftoverInv`: when a pause has found the queue empty, with the handler and the firmware
  worker past the point where they lend, the resume after it starts on an empty ring and a
  handler with nothing to lend, so no two threads are in `submit_pending`. `leftover` is
  about the last pause only: it is cleared when a pause starts;
- `FlushInv`: a flush that was not given up is over when its pause or resume goes on;
- `ListenInv`: while the queue runs, the buffers it was given are lent to the T2 or owed by
  the handler, and none comes back aborted.

### `VhciCommandQueue_proofs`

For any number of callers, calls, command codes and message slots: `ResultIsAlive`
(`NoDanglingResult`), `RepliesAreWritten` (`NoUninitialisedReply`) and `CodeIsEnough`
(`ForeignReplyNeedsFailure`).

    IInv == TypeInv /\ OneCaller /\ LentPointer /\ OpenMessages /\ Replies /\ Undisturbed

`LentPointer`: `completion.result` points to the holder of the mutex from `Arm` to the
reply or the end of the call. `OpenMessages` and `Replies`: a message without answer, and
a reply that was written, belong to the call in progress or to a command that failed.
`Undisturbed`: until a wait runs out or the queue is destroyed there is no cancellation
and no abort.

### `TransferQueue_proofs`

For any number of URBs, slots and troubles, and each kind of endpoint: `NoSlotIsLost`
(`SlotsAccounted`), `NoQueueStaysStopped` (`StoppedHasReason`), `NoWorkIsForgotten`
(`WorkIsOwed`), the refinement, `TheContractIsKept` (`KeepsContract`), and
`NothingIsLeftLent` (`QuietWhenIdle`).

    IInv == TypeInv /\ q \in Queue /\ Owned(q) /\ (hcpriv # "destroyed" => Slots(q))
            /\ WorkInv /\ PmInv /\ StoppedHasReason /\ WorkIsOwed

- `Owned`: every URB is in the one place its state tells (the endpoint's list, `giveback`,
  the flush list), once;
- `Slots`: the slots that are free, and those held by running URBs, by ghosts and by
  cancelled control URBs, are all there are. `SlotsAccounted` follows, with
  `Cardinality` of what is running;
- `WorkInv`, `PmInv`: at each place of a work and of suspend and resume, who has the lock
  and which sources have paused the queue. `StoppedHasReason` and `WorkIsOwed` need them,
  and hold each other up: a queue that a work has stopped is started by the rest of it.

Actions change the queue record through sections of code, each an operator on the record
(`UrbInit`, `UrbComplete`, `DeliverPending`, ...). There is one lemma per operator, from
`Good(s)` to `Good(op(s))` with what it leaves alone, and an action follows from the sections it calls.
The driver's loops over its lists are folds; `FoldExists` (what `FoldLeft` chooses exists)
and `FoldInduction` (what every step keeps holds in the end) are proved once, by the
well-foundedness of the naturals, and used for every loop.

For the refinement, `Owned` makes the owner of an URB a function of its state and of
`hcpriv` (`Placed`), and each step is shown to move the states of URBs only onward
(`Onwards`), apart from the URB that is submitted. A step then is the contract's `Submit`,
`Return`, `Close` or `Shut`, or changes nothing in it.

`QuietWhenIdle` is about an idle queue, and its invariant about every other: while the
endpoint is open and not `loose`, what the T2 has been lent and has completed unread
(`Lent + Unread`) is at most what the queue still expects (`Expected`): the URBs that await a
completion, the ghosts, and the cancelled URBs that wait for the flush; and it is nothing when
the list and the flush list are empty (`Covered`). A stalled control endpoint is excepted until
its reset has flushed. Three things are needed beside the count:

- the sections are shown to balance it, by the same operators and loops as before: `Paid(s,
  t, k)` says that `t` expects at most k completions less, for which k have been read;
- a queue that a source has paused (`Stopped`) lends nothing, so that `flush_w` may forget
  the ghosts and a reset may clear `stalled` (`LentInv`);
- while the machine sleeps the count may be wrong, because `flush_w` forgets the ghosts of
  completions that nobody has read. They are read before the resume (`Settled`), so the
  invariant says only that the T2 has stopped, and the count is right again when the
  queue runs.

### `VhciController_proofs`

For any number of ports, device ids and device objects:

- `TableIsSound` (`MappingIsSound`) from `MapInv`: the table is injective, and what the
  hub thread and the worker hold between two steps is not in it;
- `WorkersAreGone` (`NoWorkLeft`) and `WatchdogGoesOn` (`WatchdogIsKept`) from `WorkInv`,
  which relates the states of the bus to those of the worker, the watchdog and the hub
  thread. While the bus is up the watchdog is due or at its probe, or has handed over to the
  worker, which is queued or running and passes `RecoveryOut` whether it succeeds or not;
  during the removal it says, stage by stage, who may still be started;
- `HiddenPortsComeBack` (`ReenumerationIsNoticed`) from `MaskInv`: where a hidden port is
  on its way to be shown;
- `CutIsFollowedUp` (`CancelledIsReenumerated`) and `PauseIsLifted`
  (`SuspendPauseIsLifted`) from `EndpointInv`: for each endpoint that is cut off or paused,
  who has still to come by it (`Ahead`, `ResumeAhead`, `QueuesPaused`).

### `AudioStream_proofs`

`AudioProtocol` and `AudioStream`, for any number of tags, queue elements, jack works,
commands and incidents:

- `EntriesAreAlive` (`NoDanglingEntry`) and `RepliesAreOwnOrALapLate` (`LateByALap`) from
  `TagInv`: a command, reply or entry with number k and tag n is as old as the tag says,
  up to whole laps (`Age`);
- `TimerRuns` (`PeriodTimerRuns`) from `TimerInv`: no timer is left when a stream starts,
  although nothing there cancels one, so a run without period wake-ups has none;
- `IoIsAsStarted` (`IoFollowsStarted`) from `IoInv`: `Going`, whether the T2 will do IO
  when it has carried out the commands in the queue, is what `started` or the call in
  progress asks for;
- `JackIsReported` (`JackIsCurrent`): `SlotInv` (`lent` and `posted` divide the ring of
  data slots between them, and what is not posted holds no message), `NumberInv` (numbers
  are unique, and no command is answered before it was taken) and `JackInv` (whoever is
  going to ask, or has a query that the T2 has not served yet, will learn the state);
- `TimestampsAreOfThisRun` (`TimestampOfThisRun`): `StopInv` (nothing is started behind a
  `stop_io`, so its reply comes after the last timestamp) gives that a confirmed stop
  leaves the T2 `Calm`, and `StampInv` follows the timestamps of one `start_io` from the
  queue through the data slots and `ts_work` to `remote_timestamp`.

### Only model-checked

The liveness properties `SubmissionsComplete` and `CallsReturn`, since fairness is out of
the prover's reach. Every invariant a run checks is stated by a theorem.

## What the models show

- **A command can be robbed of its result.** After a timeout
  `bce_cmd_finish` clears `tres[res->slot]` without checking that the entry is its
  own (`queue.c` 290). If the completion arrives just before the lock is taken and
  the ring laps, the entry of another command is cleared, and its punctual answer
  is "discarded as late". Nothing is written to a wrong place: `OwnResult` and
  `NoDanglingResult` hold, and are proved; the victim times out.
- **A mailbox reply can be the previous one's.** Replies carry no identification, so
  after one `-ETIMEDOUT` the next call can get the late reply. The property that
  holds is `OwnReplyUntilFailure`.
- **Freed memory can stay registered with the T2**, when a registration times out and
  is executed later, when an unregistration fails, or during removal
  (the second part of `NoUseAfterFree` excepts exactly these). The interrupt thread is
  not harmed: its part and `NoMisroutedCompletion` hold without exception. The latter
  rests on two facts worth knowing: the command CQ is polled before all others, and
  a pass harvests everything before it dispatches anything.
- **A cancelled reservation wakes nobody** (`queue.c` 176): a thread asleep on that
  queue waits for its timer; `NoSleepWithFreeSlot` excepts such queues.
- **An event queue can lose buffers.** If the flush of a pause times out and the T2
  executes it after the resume, the new buffers are aborted and the handler lends no
  others. A handler that has read `draining` before the pause lends a buffer during
  it. Only after such a pause can handler and resume fill the ring at once
  (`RaceNeedsLeftover`). A resume does not wait for a pass of the handler that was under way
  when the pause ended (`vhci/queue.c` 171–185): after a pause that timed out, or that
  ended while the handler or the firmware worker had still to lend its buffers, both can be
  in `submit_pending`.
- **The firmware worker can replay an old event** (`vhci.c` 1044, 1031): it keeps the
  message it looked ahead to, and forgets whether that completion was aborted. After a
  flush it handles what an earlier event left in the buffer (`EventsInOrder` excepts
  `replayed`). It does not read `draining` either, so a pause of `ev_commands` can end
  while it is about to lend buffers again.
- **A reply of the controller can be an earlier call's**, if that call had the same
  command code and failed; a late reply to a cancellation makes an innocent call fail
  with `-EIO` (`ForeignReplyNeedsFailure`).
- **The T2's state buffer**: if the reply to the save message is lost, the driver
  frees the buffer and cannot know whether the T2 sleeps with its state in it;
  `NoBufferLeak` excepts this case. A resume that finds the link down keeps the
  saved buffer, and a later suspend forgets it.
- **A completion can be absorbed for the wrong URB** (`transfer_ghost`). The driver
  counts the completions it owes to cancelled URBs and drops that many, the next ones
  to come. If the cancelled URB is not the oldest in the ring, the oldest loses its
  completion and is ended by that of the cancelled one, with its length.
- **A cancelled URB can be given back before the flush.**
  `flush_w` does not look at the result of the pause, and a queue that suspend has
  paused is not flushed at all. The exceptions of `QuietWhenIdle` (`loose`) are these
  cases and an URB that `deliver_pending` starts on a stopped queue, which the resume
  then submits a second time.
- **A pause answered with an unexpected state stops a queue for good** (`transfer.c`
  357): it is inactive and no source will resume it; `StoppedHasReason` excepts this
  case (`odd`).
- **`flush_w` gives slots away** (`transfer.c` 659): URBs started since the flush was
  asked for hold slots that it counts as free; `SlotsAccounted` holds until then.
- **An OUT URB cannot be resumed** (`transfer.c` 955): after a reset, or a pause whose
  wait ran out, one that waits for its completion is resumed as if it were an IN URB.
  A bulk OUT endpoint has no `sq_in`; the model stops there (`crashed`).
- **The watchdog can stop for good** (`vhci.c` 1320): when its
  probe times out it relies on the recovery worker, "Recovery worker will restart
  watchdog", but the worker returns within the cooldown of an earlier recovery (1186–1191)
  without doing so. The cooldown is shorter than the watchdog's period, but a recovery that
  was not started by the watchdog leaves its pending timer as it is
  (`schedule_delayed_work` does not move it), and so the next probe can come right after
  it. A suspend whose `controller_pause` fails leaves the watchdog off as well.
  `WatchdogIsKept` excepts these two (`off`), until the watchdog is started again. A
  recovery that fails starts it again (1298–1300), and is not excepted.
- **The recovery worker can be queued after the removal has cancelled it** (`vhci.c` 92).
  `bce_vhci_destroy` sets `controller_dead` and cancels the worker, then the watchdog. A
  probe that was sent before `controller_dead` was set can time out between the two
  cancels: its cancellation, if unanswered, queues the worker (`vhci/queue.c` 270), and so
  does the watchdog itself (1319). Likewise, if the T2 has not answered
  `controller_disable` and sends a reset notification before the event queues are gone.
  Nothing cancels the worker again; it would find `controller_dead` in memory that
  `bce_vhci_destroy` has gone on to release. `NoWorkLeft` excepts these two cases
  (`straddled`, `enabled`), and shows that there is no other.
- **A recovery that fails leaves its devices cut off** (`vhci.c` 1268): phase 1 has
  cleared `hcpriv` of every endpoint, and only a later recovery enumerates them again;
  `CancelledIsReenumerated` excepts devices as long as the last recovery is a failed one. A
  suspend in between wipes `port_reenumerate_mask`, with the same effect (`wiped`).
- **The masks of a port can be set behind the hub's back** (`vhci.c` 1284): the recovery
  tests `port_to_device` and then sets the masks. If the hub thread frees the device in
  between, the port is hidden and no removal will show it again; `ReenumerationIsNoticed`
  excepts such ports (`raced`). Phase 1 holds a device pointer across the same gap (`uaf`).
- **A resume that meets a recovery leaves everything to it** (`vhci.c` 608–611). That
  works if the recovery is still going to enumerate the ports, and
  `SuspendPauseIsLifted` says so; a recovery that then fails leaves the endpoints paused.
- **The tags of the audio protocol keep their promise differently.** The comment at
  `audio/protocol_bce.h` 10–14 counts 80 commands before a stale reply is misdelivered;
  the code gives the table's size as the distance (`LateByALap`). Nothing limits the
  commands that wait for a reply to the depth of the queue: a slot is free again when the
  T2 has read the command.
- **A restarted stream can get the timestamp of the previous run** (`audio/pcm.c` 418),
  if `aaudio_ts_work` had not finished or the T2 did not confirm the stop;
  `TimestampOfThisRun` excepts these cases (`leftover`). The result of `start_io` is not
  looked at: a stream runs whose IO the T2 may not have started, and
  `IoFollowsStarted` excepts a command that could not be sent.
- **A stream without period wake-ups runs without the period timer** (`audio/pcm.c` 276).
  What `PeriodTimerRuns` shows is that it has none, rather than one an earlier run left.
- **The interrupt thread waits for itself** (`audio/audio.c` 891): the answer to a boot
  notification may wait up to 500 ms for a slot of the out queue, and slots are returned
  by the same thread. The notification is dropped then; nothing else suffers.
- **An older jack state can be reported last**: each notification has a work of its own
  and they run beside each other; `JackIsCurrent` excepts overtaken and failed queries.

## Limits

Not modelled, and why:

- the unwinding of a failing probe, and `apple_bce_shutdown`: sequential; what a removal
  does to the timer, the queues and the controller is in their modules;
- the arithmetic of the PCM pointer (`audio/pcm.c` 295–327) and the mapping of its
  buffers: it depends on the clock, and its one discrete input, which run the timestamp is
  from, is in `AudioStream`;
- discovery of the audio devices and the ALSA controls (`audio/audio.c`): straight-line
  sequences of commands before the card is registered, and single commands after it;
- the encoders and parsers of `audio/protocol.c` and `vhci/command.h`: they fill and read
  fields; a message is its type, its tag and what it is about;
- two streams of one audio device: `stop_io` is sent per device, so stopping one also
  stops the other; the model has one stream;
- creation of VHCI and audio queues: sequences of the operations of `QueueRegistry`;
- interrupt and isochronous endpoints apart from the bulk path, transfers in parts, and
  bulk URBs without data;
- the formatting of commands and messages, PCI, DMA and MSI set-up, ALSA and USB
  boilerplate: straight-line code whose outcome is a success or a failure, and the
  failures that matter are in the actions that use them;
- memory ordering below the level of the driver's explicit barriers: each read or
  write of a shared field is atomic here and the barriers are taken to work;
- the T2: its firmware is not available, so it is modelled from what the driver
  sends and expects, with the misbehaviour the driver has code for.

Out of the reach of the prover, and left to TLC: liveness under fairness.
