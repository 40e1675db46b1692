------------------------------ MODULE Timestamp ------------------------------
(***************************************************************************)
(* The timestamp service (mailbox.c): a self-rearming timer that writes    *)
(* the boot time to the device, and bce_timestamp_start and _stop, which   *)
(* run in process context concurrently with the timer handler. The steps   *)
(* of the two calls are actions here; PowerManagement makes the calls.     *)
(***************************************************************************)
EXTENDS Integers

VARIABLES
    armed,        \* ts->timer is pending
    handler,      \* where bc_send_timestamp is
    stopped,      \* ts->stopped
    reg,          \* what the device was told last
    tsPc          \* where the current call of start or stop is

timerVars == <<armed, handler>>
tsVars == <<timerVars, stopped, reg, tsPc>>

\* bce_timestamp_init, before the first start.
TimestampInit ==
    /\ armed = FALSE
    /\ handler = "idle"
    /\ stopped = FALSE
    /\ reg = "none"
    /\ tsPc = "idle"

\* The timer expires. timestamp_interval_ms is read once, at the start, and
\* may be changed at any time; 0 disables the write.
TimerFires ==
    /\ armed /\ handler = "idle"
    /\ armed' = FALSE
    /\ handler' \in {"write", "rearm"}
    /\ UNCHANGED <<stopped, reg, tsPc>>

WriteTime ==
    /\ handler = "write"
    /\ reg' = "time"
    /\ handler' = "rearm"
    /\ UNCHANGED <<armed, stopped, tsPc>>

\* Under stop_sl: mod_timer unless stopped.
Rearm ==
    /\ handler = "rearm"
    /\ armed' = ~stopped
    /\ handler' = "idle"
    /\ UNCHANGED <<stopped, reg, tsPc>>

TimerHandler == TimerFires \/ WriteTime \/ Rearm

\* bce_timestamp_stop: the flag, under stop_sl.
StopMark ==
    /\ tsPc = "stop"
    /\ stopped' = TRUE
    /\ tsPc' = "delete"
    /\ UNCHANGED <<timerVars, reg>>

\* Mutant of StopDelete: timer_delete, which does not wait.
StopDeleteNoSync ==
    /\ tsPc = "delete"
    /\ armed' = FALSE
    /\ tsPc' = "tellStop"
    /\ UNCHANGED <<handler, stopped, reg>>

\* timer_delete_sync: the handler has finished and the timer is not pending.
StopDelete ==
    /\ tsPc = "delete"
    /\ handler = "idle"
    /\ armed' = FALSE
    /\ tsPc' = "tellStop"
    /\ UNCHANGED <<handler, stopped, reg>>

\* The device is told that no more timestamps come (-2).
StopWrite ==
    /\ tsPc = "tellStop"
    /\ reg' = "stop"
    /\ tsPc' = "idle"
    /\ UNCHANGED <<timerVars, stopped>>

\* bce_timestamp_start: the device is told first (-4, after a resume -3).
StartWrite ==
    /\ tsPc \in {"startInitial", "startAgain"}
    /\ reg' = IF tsPc = "startInitial" THEN "initial" ELSE "again"
    /\ tsPc' = "clear"
    /\ UNCHANGED <<timerVars, stopped>>

\* Mutant of StartClear: the flag is left set.
StartNoClear ==
    /\ tsPc = "clear"
    /\ tsPc' = "arm"
    /\ UNCHANGED <<timerVars, stopped, reg>>

StartClear ==
    /\ tsPc = "clear"
    /\ stopped' = FALSE
    /\ tsPc' = "arm"
    /\ UNCHANGED <<timerVars, reg>>

StartArm ==
    /\ tsPc = "arm"
    /\ armed' = TRUE
    /\ tsPc' = "idle"
    /\ UNCHANGED <<handler, stopped, reg>>

\* A step of the call in progress.
TimestampCall ==
    StopMark \/ StopDelete \/ StopWrite \/ StartWrite \/ StartClear \/ StartArm

=============================================================================
