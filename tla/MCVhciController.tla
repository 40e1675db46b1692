-------------------------- MODULE MCVhciController --------------------------
(* Small instances of VhciController for TLC.                              *)
EXTENDS VhciController

\* The controller later, all else as at the start: a recovery has failed, has left
\* every device cut off, and has started the watchdog again.
AfterFailedRecovery ==
    /\ port_to_device = [p \in Ports |-> p]
    /\ devices = [d \in DevIds |-> IF d \in Ports THEN d ELSE None]
    /\ vdev = [o \in Objs |-> IF o \in Ports THEN [FreshVdev({0, 1}) EXCEPT !.cut = TRUE]
                                             ELSE NoVdev]
    /\ port_resume_mask = {} /\ port_reenumerate_mask = {}
    /\ port_suppress_connect_mask = {}
    /\ port_resume_skip_reset = [p \in Ports |-> 0]
    /\ recovering = FALSE /\ recovery_fail_count = 1 /\ controller_dead = FALSE
    /\ last_recovery = TRUE
    /\ rec = [pc |-> "idle", port |-> 1, dev |-> None]
    /\ queued = FALSE /\ timer = TRUE /\ watchdog = "idle" /\ off = FALSE
    /\ listening = TRUE
    /\ bus = "up" /\ hub = HubIdle
    /\ udev = Ports /\ scan = {} /\ reset_resume = {}
    /\ t2dev = devices
    /\ connected = Ports /\ changed = {} /\ events = {} /\ enabled = TRUE
    /\ incidents = 0
    /\ raced = {} /\ wiped = {} /\ abandoned = TRUE /\ straddled = FALSE /\ uaf = FALSE

\* With MaxFailures = 2 a recovery that fails leaves the controller alive in the
\* behaviours that begin with Init, and is its end in the others.
MCSpec == (Init \/ AfterFailedRecovery) /\ [][Next]_vars
=============================================================================
