--------------------------- MODULE PowerManagement ---------------------------
(***************************************************************************)
(* System sleep (apple_bce.c): apple_bce_suspend, apple_bce_resume,        *)
(* bce_save_state_and_sleep, bce_restore_state_and_wake, and the ends of   *)
(* probe, remove and shutdown that start and stop the timestamp service.   *)
(* The PM core calls them one after the other from one thread; they run    *)
(* against the timestamp timer and against the T2, which saves its state   *)
(* into a buffer of the host before it sleeps.                             *)
(*                                                                         *)
(* A mailbox exchange is one step here: the T2 acts on the message, and    *)
(* the call returns its reply, or an error if the reply does not come      *)
(* (Mailbox has the steps inside).                                         *)
(***************************************************************************)
EXTENDS Timestamp

CONSTANTS
    MaxSuspends   \* bound: system suspends

ASSUME PowerAssumption == MaxSuspends \in Nat

MaxAttempts == 5  \* of bce_save_state_and_sleep
NoBuffer == 0     \* buffers are numbered as they are allocated

VARIABLES
    pm,           \* where the thread of the PM core is
    attempt,      \* attempts to save made in this suspend
    buffer,       \* dma_ptr of bce_save_state_and_sleep
    saved,        \* bce->saved_data_dma_ptr
    live,         \* buffers allocated and not freed
    allocs,       \* buffers allocated so far
    irqDepth,     \* disable_irq depth of the DMA vector
    t2,           \* the T2: awake, asleep with or without saved state
    t2Buffer,     \* the buffer the T2 has its state in
    suspends,     \* suspends so far
    lost,         \* a reply got lost or made no sense
    skipped       \* a resume gave up before it restored the T2

bufVars == <<attempt, buffer, saved, live, allocs>>
t2Vars == <<t2, t2Buffer, lost>>
pmVars == <<pm, bufVars, irqDepth, t2Vars, suspends, skipped>>
powerVars == <<pmVars, tsVars>>

PowerInit ==
    /\ TimestampInit
    /\ pm = "new"
    /\ attempt = 0
    /\ buffer = NoBuffer /\ saved = NoBuffer
    /\ live = {} /\ allocs = 0
    /\ irqDepth = 0
    /\ t2 = "awake" /\ t2Buffer = NoBuffer
    /\ suspends = 0
    /\ lost = FALSE /\ skipped = FALSE

\* The PM thread goes on when its call of start or stop has returned.
At(place) == pm = place /\ tsPc = "idle"

\* apple_bce_probe: bce_timestamp_start(&bce->timestamp, true).
Probe ==
    /\ At("new")
    /\ tsPc' = "startInitial"
    /\ pm' = "running"
    /\ UNCHANGED <<bufVars, irqDepth, t2Vars, suspends, skipped, timerVars, stopped, reg>>

\* apple_bce_suspend: bce_timestamp_stop, then bce_save_state_and_sleep.
Suspend ==
    /\ At("running") /\ suspends < MaxSuspends
    /\ tsPc' = "stop"
    /\ pm' = "save"
    /\ attempt' = 0
    /\ suspends' = suspends + 1
    /\ UNCHANGED <<buffer, saved, live, allocs, irqDepth, t2Vars, skipped,
                   timerVars, stopped, reg>>

\* One more attempt is allowed and dma_alloc_coherent succeeds.
SaveAlloc ==
    /\ At("save") /\ attempt < MaxAttempts
    /\ attempt' = attempt + 1
    /\ allocs' = allocs + 1
    /\ buffer' = allocs + 1
    /\ live' = live \cup {allocs + 1}
    /\ pm' = "send"
    /\ UNCHANGED <<saved, irqDepth, t2Vars, suspends, skipped, tsVars>>

\* dma_alloc_coherent fails, or the attempts are used up: the T2 is to sleep
\* without saving its state.
SaveGiveUp ==
    /\ At("save")
    /\ pm' = "sleepNoState"
    /\ UNCHANGED <<bufVars, irqDepth, t2Vars, suspends, skipped, tsVars>>

\* The buffer is not aligned: the WARN_ON_ONCE branch frees it.
SaveMisaligned ==
    /\ At("send")
    /\ live' = live \ {buffer}
    /\ buffer' = NoBuffer
    /\ pm' = "suspendFailed"
    /\ UNCHANGED <<attempt, saved, allocs, irqDepth, t2Vars, suspends, skipped, tsVars>>

\* BCE_MB_SAVE_RESTORE_STATE_COMPLETE: the T2 sleeps; the buffer is kept for
\* the resume and apple_bce_suspend disables the DMA interrupt.
SaveComplete ==
    /\ At("send")
    /\ t2' = "asleepState" /\ t2Buffer' = buffer
    /\ saved' = buffer
    /\ buffer' = NoBuffer
    /\ pm' = "asleep"
    /\ irqDepth' = irqDepth + 1
    /\ UNCHANGED <<attempt, live, allocs, lost, suspends, skipped, tsVars>>

\* Mutant of SaveRefused: the small buffer is not freed.
RefusedNotFreed ==
    /\ At("send")
    /\ buffer' = NoBuffer
    /\ pm' = "save"
    /\ UNCHANGED <<attempt, live, saved, allocs, irqDepth, t2Vars, suspends, skipped,
                   tsVars>>
\* BCE_MB_SAVE_STATE_AND_SLEEP_FAILURE: the T2 wants a larger buffer.
SaveRefused ==
    /\ At("send")
    /\ live' = live \ {buffer}
    /\ buffer' = NoBuffer
    /\ pm' = "save"
    /\ UNCHANGED <<attempt, saved, allocs, irqDepth, t2Vars, suspends, skipped, tsVars>>

\* The reply does not come in time, or it is none of the two: the buffer is
\* freed and the suspend fails, whatever the T2 made of the message.
SaveLost ==
    /\ At("send")
    /\ \/ t2' = "asleepState" /\ t2Buffer' = buffer
       \/ UNCHANGED <<t2, t2Buffer>>
    /\ lost' = TRUE
    /\ live' = live \ {buffer}
    /\ buffer' = NoBuffer
    /\ pm' = "suspendFailed"
    /\ UNCHANGED <<attempt, saved, allocs, irqDepth, suspends, skipped, tsVars>>

\* BCE_MB_SLEEP_NO_STATE is answered; the type of the reply is not looked at.
SleepNoState ==
    /\ At("sleepNoState")
    /\ t2' = "asleepNoState" /\ t2Buffer' = NoBuffer
    /\ pm' = "asleep"
    /\ irqDepth' = irqDepth + 1
    /\ UNCHANGED <<bufVars, lost, suspends, skipped, tsVars>>

SleepNoStateLost ==
    /\ At("sleepNoState")
    /\ t2' \in {t2, "asleepNoState"}
    /\ t2Buffer' = IF t2' = t2 THEN t2Buffer ELSE NoBuffer
    /\ lost' = TRUE
    /\ pm' = "suspendFailed"
    /\ UNCHANGED <<bufVars, irqDepth, suspends, skipped, tsVars>>

\* apple_bce_suspend fails: bce_timestamp_start(&bce->timestamp, false).
SuspendFails ==
    /\ At("suspendFailed")
    /\ tsPc' = "startAgain"
    /\ pm' = "running"
    /\ UNCHANGED <<bufVars, irqDepth, t2Vars, suspends, skipped, timerVars, stopped, reg>>

\* apple_bce_resume: the link does not come back; -ENODEV. The T2 is not
\* woken, the saved state stays, and the timestamp service stays stopped.
ResumeNoLink ==
    /\ At("asleep")
    /\ irqDepth' = irqDepth - 1
    /\ skipped' = TRUE
    /\ pm' = "running"
    /\ UNCHANGED <<bufVars, t2Vars, suspends, tsVars>>

\* bce_restore_state_and_wake frees the saved state, if there is one, with or
\* without success.
ReleaseSaved ==
    /\ live' = live \ {saved}
    /\ saved' = NoBuffer
    /\ UNCHANGED <<attempt, buffer, allocs>>

\* The T2 is restored: the timestamp service starts and the DMA interrupt is
\* enabled after it.
ResumeRestored ==
    /\ At("asleep")
    /\ ReleaseSaved
    /\ t2' = "awake" /\ t2Buffer' = NoBuffer
    /\ tsPc' = "startAgain"
    /\ pm' = "enableIrq"
    /\ UNCHANGED <<irqDepth, lost, suspends, skipped, timerVars, stopped, reg>>

EnableIrq ==
    /\ At("enableIrq")
    /\ irqDepth' = irqDepth - 1
    /\ pm' = "running"
    /\ UNCHANGED <<bufVars, t2Vars, suspends, skipped, tsVars>>

\* The exchange fails or the reply is wrong: the interrupt is enabled, the
\* timestamp service stays stopped.
ResumeLost ==
    /\ At("asleep")
    /\ ReleaseSaved
    /\ \/ t2' = "awake" /\ t2Buffer' = NoBuffer
       \/ UNCHANGED <<t2, t2Buffer>>
    /\ lost' = TRUE
    /\ irqDepth' = irqDepth - 1
    /\ pm' = "running"
    /\ UNCHANGED <<suspends, skipped, tsVars>>

\* apple_bce_remove and apple_bce_shutdown: bce_timestamp_stop; afterwards
\* the registers are unmapped.
PciRemove ==
    /\ At("running")
    /\ tsPc' = "stop"
    /\ pm' = "gone"
    /\ UNCHANGED <<bufVars, irqDepth, t2Vars, suspends, skipped, timerVars, stopped, reg>>

Gone == At("gone") /\ UNCHANGED powerVars

PmThread ==
    \/ Suspend \/ SaveAlloc \/ SaveGiveUp \/ SaveMisaligned \/ SaveComplete
    \/ SaveRefused \/ SaveLost \/ SleepNoState \/ SleepNoStateLost \/ SuspendFails
    \/ ResumeNoLink \/ ResumeRestored \/ EnableIrq \/ ResumeLost \/ Probe \/ PciRemove

PowerNext ==
    \/ PmThread
    \/ TimestampCall /\ UNCHANGED pmVars
    \/ TimerHandler /\ UNCHANGED pmVars
    \/ Gone

PowerSpec == PowerInit /\ [][PowerNext]_powerVars

-----------------------------------------------------------------------------
(* Properties.                                                             *)

\* When bce_timestamp_stop has returned, the timer is dead: it is not
\* pending, its handler is not running, and the last thing the device was
\* told is that the service stopped. remove unmaps the registers after it.
StopIsFinal ==
    tsPc = "idle" /\ stopped => ~armed /\ handler = "idle" /\ reg = "stop"

\* Once bce_timestamp_start has returned, and until the next stop has told the
\* device, the timer never dies: it is pending or its handler is about to arm
\* it again. (The flag of an earlier stop does not outlive the start.)
SyncKeepsGoing ==
    tsPc = "idle" /\ reg \in {"initial", "again", "time"} => armed \/ handler # "idle"

\* No state buffer leaks: one that is allocated is the one being offered to
\* the T2 or the saved one. A resume that gives up before the restore leaves
\* its buffer behind, and a later suspend forgets it; that case is excepted.
\* And none is freed too early: as long as every exchange with the T2 was
\* answered, the T2 has its state in a buffer that is still allocated, and the
\* resume hands it that buffer.
NoBufferLeak ==
    /\ skipped \/ live \subseteq {buffer, saved}
    /\ ~lost =>
        /\ t2Buffer # NoBuffer => t2Buffer \in live
        /\ pm = "asleep" /\ ~skipped => saved = t2Buffer
        /\ pm = "running" /\ ~skipped => t2 = "awake"

=============================================================================
