----------------------------- MODULE AudioStream -----------------------------
(***************************************************************************)
(* One audio stream (audio/pcm.c, audio/audio.c) over the transport of     *)
(* AudioProtocol: the PCM callbacks an application reaches through ALSA,   *)
(* the period timer and its work, the timestamps and notifications of the  *)
(* T2, the jack works, and suspend. Timestamps are told apart by the       *)
(* start_io they followed, which is what a restarted stream depends on.    *)
(*                                                                         *)
(* The PCM is nonatomic: its stream lock is held through a trigger, also   *)
(* while that waits for a reply. `stream' is the caller of whoever holds   *)
(* it; `pm' and the members of Jacks are the other callers.                *)
(***************************************************************************)
EXTENDS AudioProtocol

CONSTANTS
    stream, pm, Jacks  \* the callers; incidents are also suspends and messages
                       \* that the T2 sends of its own accord

ASSUME StreamAssumption ==
    /\ Callers = {stream, pm} \cup Jacks
    /\ stream # pm /\ {stream, pm} \cap Jacks = {}
    /\ None \notin {"start_io", "stop_io", "get", "access"} \cup {"app", "work", "ts"}

VARIABLES
    alsa,        \* state of the substream, and where a callback of it stands
    lock,        \* holder of the stream lock
    started,
    waiting_for_first_ts,
    remote,      \* remote_timestamp: the start_io it followed
    period_timer,  \* "off", "armed", "firing": the callback has seen started
    period_work, \* queued, pc
    no_period_wakeup,  \* runtime->no_period_wakeup, which applications may ask for
    ts_work,     \* queued, pc, and the time it has read
    ts_time_os,  \* the start_io that the latest timestamp followed
    pc,          \* of suspend and resume
    jackWorks,   \* scheduled property change works
    reported,    \* what snd_jack_report was told last
    io,          \* T2: the start_io that is in force, or None
    plugged,     \* T2: the state of the jack
    run,         \* history: the last start_io that was sent
    lastIo,      \* history: how the last start_io or stop_io went
    leftover,    \* history: a timestamp of an earlier run may still come
    misled       \* history: a jack query since the last one that began alone failed
                 \* or ran beside another

pcmVars == <<alsa, lock, started, waiting_for_first_ts, remote, run, leftover>>
timerVars == <<period_timer, period_work, no_period_wakeup>>
tsVars == <<ts_work, ts_time_os>>
jackVars == <<jackWorks, reported, misled>>
t2Vars == <<io, plugged>>
streamVars == <<pcmVars, timerVars, tsVars, pc, jackVars, t2Vars, lastIo>>
vars == <<protocolVars, streamVars>>
notCall == <<tag_num, pending_entries, sent, outVars, inVars, replies, incidents>>

Idle == [queued |-> FALSE, pc |-> "idle"]
TsIdle == [queued |-> FALSE, pc |-> "idle", time |-> None]

\* The devices are found, remote access is on, the jack has been looked at.
Init ==
    /\ ProtocolInit
    /\ alsa = "closed" /\ lock = None /\ started = FALSE
    /\ waiting_for_first_ts = FALSE /\ remote = None
    /\ period_timer = "off" /\ period_work = Idle /\ no_period_wakeup = FALSE
    /\ ts_work = TsIdle /\ ts_time_os = None
    /\ pc = "up"
    /\ jackWorks = 0 /\ reported = FALSE /\ plugged = FALSE /\ misled = FALSE
    /\ io = None /\ run = None /\ leftover = FALSE
    /\ lastIo = [sent |-> TRUE, answered |-> TRUE]

\* How the call of t went, once it has returned.
Answered(t) == call[t].pc = "ok" /\ call[t].got.id = call[t].id
IoResult(t) == [sent |-> call[t].id # 0, answered |-> Answered(t)]

-----------------------------------------------------------------------------
(* The application, which is frozen while the system suspends.             *)

App == pc = "up" /\ lock = None

\* aaudio_pcm_open: INIT_WORK and hrtimer_setup write over what was there.
Open ==
    /\ App /\ alsa = "closed"
    /\ alsa' = "open"
    /\ period_work' = [period_work EXCEPT !.queued = FALSE] /\ period_timer' = "off"
    /\ UNCHANGED <<protocolVars, lock, started, waiting_for_first_ts, remote, run, leftover,
                   no_period_wakeup, tsVars, pc, jackVars, t2Vars, lastIo>>

\* Mutant of Start: the timestamp of the previous run is not discarded.
StartNotWaiting ==
    /\ App /\ alsa = "open"
    /\ alsa' = "starting" /\ lock' = "app"
    /\ leftover' = (ts_work.queued \/ ts_work.pc = "read" \/ ~lastIo.answered)
    /\ no_period_wakeup' \in BOOLEAN
    /\ Begin(stream, "start_io")
    /\ UNCHANGED <<notCall, started, waiting_for_first_ts, remote, run, period_timer, period_work,
                   tsVars, pc, jackVars, t2Vars, lastIo>>

\* aaudio_pcm_trigger, SNDRV_PCM_TRIGGER_START: aaudio_pcm_start. The parameters of the
\* substream may have been set anew since it ran last, with or without period wake-ups,
\* which aaudio_create_hw_info lets the application choose.
Start ==
    /\ App /\ alsa = "open"
    /\ alsa' = "starting" /\ lock' = "app"
    /\ waiting_for_first_ts' = TRUE
    /\ leftover' = (ts_work.queued \/ ts_work.pc = "read" \/ ~lastIo.answered)
    /\ no_period_wakeup' \in BOOLEAN
    /\ Begin(stream, "start_io")
    /\ UNCHANGED <<notCall, started, remote, run, period_timer, period_work, tsVars, pc, jackVars,
                   t2Vars, lastIo>>

\* Mutant of StartDone: the timer is started before started is set.
StartDoneTimerFirst ==
    /\ \/ /\ alsa = "starting" /\ Returned(stream)
          /\ alsa' = "arming"
          /\ period_timer' = IF no_period_wakeup THEN period_timer ELSE "armed"
          /\ run' = call[stream].id /\ lastIo' = IoResult(stream) /\ End(stream)
          /\ UNCHANGED <<lock, started>>
       \/ /\ alsa = "arming"
          /\ alsa' = "running" /\ started' = TRUE /\ lock' = None
          /\ UNCHANGED <<period_timer, run, lastIo, call>>
    /\ UNCHANGED <<notCall, waiting_for_first_ts, remote, leftover, period_work, no_period_wakeup,
                   tsVars, pc, jackVars, t2Vars>>

\* ... which ignores the result of start_io; then started is set, then, with period
\* wake-ups, the timer is started.
StartDone ==
    /\ \/ /\ alsa = "starting" /\ Returned(stream)
          /\ alsa' = "arming" /\ started' = TRUE
          /\ run' = call[stream].id /\ lastIo' = IoResult(stream) /\ End(stream)
          /\ UNCHANGED <<lock, period_timer>>
       \/ /\ alsa = "arming"
          /\ alsa' = "running" /\ lock' = None
          /\ period_timer' = IF no_period_wakeup THEN period_timer ELSE "armed"
          /\ UNCHANGED <<started, run, lastIo, call>>
    /\ UNCHANGED <<notCall, waiting_for_first_ts, remote, leftover, period_work, no_period_wakeup,
                   tsVars, pc, jackVars, t2Vars>>

\* SNDRV_PCM_TRIGGER_STOP, by the application or by who sees an underrun.
StopBy(holder) ==
    /\ lock = None /\ alsa = "running"
    /\ lock' = holder /\ alsa' = "stopping"
    /\ Begin(stream, "stop_io")
    /\ UNCHANGED <<notCall, started, waiting_for_first_ts, remote, run, leftover, timerVars, tsVars,
                   pc, jackVars, t2Vars, lastIo>>

Stop == pc = "up" /\ StopBy("app")

\* The stream is stopped; then hrtimer_cancel waits for the callback.
StopDone ==
    \/ /\ alsa = "stopping" /\ Returned(stream)
       /\ alsa' = "cancelling" /\ started' = FALSE
       /\ lastIo' = IoResult(stream) /\ End(stream)
       /\ UNCHANGED <<notCall, lock, waiting_for_first_ts, remote, run, leftover, timerVars, tsVars,
                      pc, jackVars, t2Vars>>
    \/ /\ alsa = "cancelling" /\ period_timer # "firing"
       /\ alsa' = "open" /\ period_timer' = "off" /\ lock' = None
       /\ period_work' = IF lock = "work" THEN [period_work EXCEPT !.pc = "idle"] ELSE period_work
       /\ ts_work' = IF lock = "ts" THEN [ts_work EXCEPT !.pc = "idle"] ELSE ts_work
       /\ UNCHANGED <<protocolVars, started, waiting_for_first_ts, remote, run, leftover,
                      no_period_wakeup, ts_time_os, pc, jackVars, t2Vars, lastIo>>

\* aaudio_pcm_close: the timer is cancelled, then the work, each waited for. The
\* runtime of the substream goes with it.
Close ==
    /\ \/ /\ App /\ alsa = "open" /\ period_timer # "firing"
          /\ alsa' = "closing" /\ period_timer' = "off"
          /\ UNCHANGED <<period_work, no_period_wakeup>>
       \/ /\ alsa = "closing" /\ period_work.pc = "idle"
          /\ alsa' = "closed" /\ period_work' = Idle /\ no_period_wakeup' = FALSE
          /\ UNCHANGED period_timer
    /\ UNCHANGED <<protocolVars, lock, started, waiting_for_first_ts, remote, run, leftover, tsVars,
                   pc, jackVars, t2Vars, lastIo>>

-----------------------------------------------------------------------------
(* The period timer and its work, which are not frozen.                    *)

\* aaudio_pcm_period_timer reads started, ...
TimerFires ==
    /\ period_timer = "armed"
    /\ period_timer' = IF started THEN "firing" ELSE "off"
    /\ UNCHANGED <<protocolVars, pcmVars, period_work, no_period_wakeup, tsVars, pc, jackVars,
                   t2Vars, lastIo>>

\* ... queues the work and goes on.
TimerQueues ==
    /\ period_timer = "firing"
    /\ period_timer' = "armed" /\ period_work' = [period_work EXCEPT !.queued = TRUE]
    /\ UNCHANGED <<protocolVars, pcmVars, no_period_wakeup, tsVars, pc, jackVars, t2Vars, lastIo>>

\* aaudio_pcm_period_work.
PeriodWork ==
    /\ period_work.queued /\ period_work.pc = "idle"
    /\ period_work' = [queued |-> FALSE, pc |-> IF started THEN "elapsed" ELSE "idle"]
    /\ UNCHANGED <<protocolVars, pcmVars, period_timer, no_period_wakeup, tsVars, pc, jackVars,
                   t2Vars, lastIo>>

\* snd_pcm_period_elapsed takes the stream lock, and stops a stream that ran dry.
PeriodElapsed ==
    /\ period_work.pc = "elapsed" /\ lock = None
    /\ \/ StopBy("work")
       \/ /\ period_work' = [period_work EXCEPT !.pc = "idle"]
          /\ UNCHANGED <<protocolVars, pcmVars, period_timer, no_period_wakeup, tsVars, pc,
                         jackVars, t2Vars, lastIo>>

-----------------------------------------------------------------------------
(* Messages of the T2 in the interrupt thread, and the works they schedule. *)

\* aaudio_handle_cmd_timestamp; the response is dropped when the queue is full.
HandleTimestamp ==
    /\ Handling("timestamp")
    /\ ts_time_os' = Current.val
    /\ ts_work' = [ts_work EXCEPT !.queued = TRUE]
    /\ SendFromIrq(Message("response", None, 0, 0, None))
    /\ NextIn
    /\ UNCHANGED <<callVars, replies, incidents, pcmVars, timerVars, pc, jackVars, t2Vars, lastIo>>

\* aaudio_ts_work.
TsRun ==
    /\ ts_work.queued /\ ts_work.pc = "idle"
    /\ ts_work' = [queued |-> FALSE, pc |-> "read", time |-> ts_time_os]
    /\ UNCHANGED <<protocolVars, pcmVars, timerVars, ts_time_os, pc, jackVars, t2Vars, lastIo>>

\* aaudio_handle_stream_timestamp with the stream lock; a closed substream has
\* no runtime.
TsApply ==
    /\ ts_work.pc = "read" /\ lock = None
    /\ IF alsa = "closed" THEN UNCHANGED remote ELSE remote' = ts_work.time
    /\ waiting_for_first_ts' = (waiting_for_first_ts /\ alsa = "closed")
    /\ ts_work' = [ts_work EXCEPT !.time = None,
           !.pc = IF waiting_for_first_ts \/ alsa = "closed" THEN "idle" ELSE "elapsed"]
    /\ UNCHANGED <<protocolVars, alsa, lock, started, run, leftover, timerVars, ts_time_os, pc,
                   jackVars, t2Vars, lastIo>>

\* ... and, but for the first one, snd_pcm_period_elapsed.
TsElapsed ==
    /\ ts_work.pc = "elapsed" /\ lock = None
    /\ \/ StopBy("ts")
       \/ /\ ts_work' = [ts_work EXCEPT !.pc = "idle"]
          /\ UNCHANGED <<protocolVars, pcmVars, timerVars, ts_time_os, pc, jackVars, t2Vars,
                         lastIo>>

\* Mutant of HandleChanged: no further work while one is busy.
HandleChangedOnce ==
    /\ Handling("changed")
    /\ jackWorks' = IF \E j \in Jacks : InCall(j) THEN jackWorks ELSE 1
    /\ NextIn
    /\ UNCHANGED <<callVars, outVars, replies, incidents, reported, misled, pcmVars, timerVars,
                   tsVars, pc, t2Vars, lastIo>>

\* aaudio_handle_prop_change: a work for every notification.
HandleChanged ==
    /\ Handling("changed")
    /\ jackWorks' = jackWorks + 1
    /\ NextIn
    /\ UNCHANGED <<callVars, outVars, replies, incidents, reported, misled, pcmVars, timerVars,
                   tsVars, pc, t2Vars, lastIo>>

\* aaudio_handle_jack_connection_change asks the T2, ...
JackAsk(j) ==
    /\ jackWorks > 0 /\ jackWorks' = jackWorks - 1
    /\ call[j].pc = "idle" /\ Begin(j, "get")
    /\ misled' = (\E i \in Jacks \ {j} : call[i].pc # "idle")
    /\ UNCHANGED <<notCall, reported, pcmVars, timerVars, tsVars, pc, t2Vars, lastIo>>

\* ... and reports what it was told. Works run beside each other: one may report
\* an older answer after a younger one.
JackReport(j) ==
    /\ Returned(j)
    /\ reported' = IF call[j].pc = "ok" THEN call[j].got.val ELSE reported
    /\ misled' = (misled \/ ~Answered(j))
    /\ End(j)
    /\ UNCHANGED <<notCall, jackWorks, pcmVars, timerVars, tsVars, pc, t2Vars, lastIo>>

-----------------------------------------------------------------------------
(* Suspend and resume.                                                     *)

\* Mutant of Quiesce: the stream is marked stopped, its IO goes on.
QuiesceNoStop ==
    /\ pc = "up" /\ lock # "app" /\ alsa # "closing"
    /\ Incident
    /\ pc' = "suspend_all" /\ started' = FALSE
    /\ UNCHANGED <<transportVars, alsa, lock, waiting_for_first_ts, remote, run, leftover,
                   timerVars, tsVars, jackVars, t2Vars, lastIo>>

\* aaudio_quiesce: streams that run are marked stopped, without their lock, and
\* their IO is stopped. The application has been frozen outside the kernel.
Quiesce ==
    /\ pc = "up" /\ lock # "app" /\ alsa # "closing"
    /\ Incident
    /\ started' = FALSE
    /\ IF started THEN pc' = "stop" /\ Begin(pm, "stop_io")
                  ELSE pc' = "suspend_all" /\ UNCHANGED call
    /\ UNCHANGED <<tag_num, pending_entries, sent, outVars, inVars, replies, alsa, lock,
                   waiting_for_first_ts, remote, run, leftover, timerVars, tsVars, jackVars,
                   t2Vars, lastIo>>

IoStopped ==
    /\ pc = "stop" /\ Returned(pm)
    /\ pc' = "suspend_all" /\ lastIo' = IoResult(pm) /\ End(pm)
    /\ UNCHANGED <<notCall, pcmVars, timerVars, tsVars, jackVars, t2Vars>>

\* snd_pcm_suspend_all, with SNDRV_PCM_TRIGGER_SUSPEND for a stream that runs;
\* then the T2 is told.
SuspendAll ==
    /\ pc = "suspend_all" /\ lock = None
    /\ alsa = "running" => period_timer # "firing"
    /\ period_timer' = IF alsa = "running" THEN "off" ELSE period_timer
    /\ alsa' = IF alsa = "running" THEN "open" ELSE alsa
    /\ pc' = "access_off" /\ Begin(pm, "access")
    /\ UNCHANGED <<notCall, lock, started, waiting_for_first_ts, remote, run, leftover, period_work,
                   no_period_wakeup, tsVars, jackVars, t2Vars, lastIo>>

\* aaudio_suspend ends; aaudio_resume begins; it ends. Results are only returned.
SuspendResume ==
    /\ \/ pc = "access_off" /\ Returned(pm) /\ pc' = "asleep" /\ End(pm)
       \/ pc = "asleep" /\ pc' = "access_on" /\ Begin(pm, "access")
       \/ pc = "access_on" /\ Returned(pm) /\ pc' = "up" /\ End(pm)
    /\ UNCHANGED <<notCall, pcmVars, timerVars, tsVars, jackVars, t2Vars, lastIo>>

-----------------------------------------------------------------------------
(* The T2 (external).                                                      *)

\* It carries out the commands in their order.
T2Serves ==
    /\ T2Takes(plugged)
    /\ io' = CASE Head(out).cmd = "start_io" -> Head(out).id
               [] Head(out).cmd = "stop_io" -> None
               [] OTHER -> io
    /\ UNCHANGED <<incidents, pcmVars, timerVars, tsVars, pc, jackVars, plugged, lastIo>>

\* Timestamps while IO runs, a jack that is plugged or unplugged, a boot.
T2Sends ==
    /\ Incident
    /\ \/ /\ io # None /\ T2Posts(Message("timestamp", None, 0, 0, io))
          /\ UNCHANGED plugged
       \/ /\ T2Posts(Message("changed", None, 0, 0, None))
          /\ plugged' = ~plugged
       \/ /\ T2Posts(Message("boot", None, 0, 0, None))
          /\ UNCHANGED plugged
    /\ UNCHANGED <<callVars, outVars, replies, pcmVars, timerVars, tsVars, pc, jackVars, io,
                   lastIo>>

-----------------------------------------------------------------------------

Next ==
    \/ Transport /\ UNCHANGED streamVars
    \/ Open \/ Start \/ StartDone \/ Stop \/ StopDone \/ Close
    \/ TimerFires \/ TimerQueues \/ PeriodWork \/ PeriodElapsed
    \/ HandleTimestamp \/ TsRun \/ TsApply \/ TsElapsed \/ HandleChanged
    \/ \E j \in Jacks : JackAsk(j) \/ JackReport(j)
    \/ Quiesce \/ IoStopped \/ SuspendAll \/ SuspendResume
    \/ T2Serves \/ T2Sends

Spec == Init /\ [][Next]_vars

-----------------------------------------------------------------------------
(* Properties.                                                             *)

\* A running stream computes its position from a timestamp of this run of the IO
\* (pcm.c:302-306); the exceptions are those that `leftover' records when it is
\* started: ts_work had not finished, or the T2 did not confirm the last stop.
TimestampOfThisRun ==
    alsa = "running" /\ ~waiting_for_first_ts /\ remote # run => leftover

\* When all commands are carried out the T2 does IO exactly for a started stream,
\* whoever stopped it, unless the last command could not be sent.
IoFollowsStarted ==
    /\ lock = None /\ pc # "stop" /\ lastIo.sent
    /\ \A i \in DOMAIN out : out[i].type # "command"
    => (io # None) = started

\* A stream that runs has its period timer exactly when the application wants period
\* wake-ups, though timer and suspend read and write started without the lock and no
\* start cancels what an earlier run left; and neither timer nor work is left when
\* aaudio_pcm_close returns: the next open initialises both anew.
PeriodTimerRuns ==
    /\ alsa = "running" /\ lock = None /\ started => (period_timer = "off") = no_period_wakeup
    /\ alsa = "closed" => period_timer = "off" /\ period_work = Idle

\* When every notification has been dealt with, the state of the jack that was
\* reported is the true one.
JackIsCurrent ==
    /\ jackWorks = 0 /\ \A j \in Jacks : call[j].pc = "idle"
    /\ \A i \in DOMAIN posted : data[posted[i]].type # "changed"
    => reported = plugged \/ misled

=============================================================================
