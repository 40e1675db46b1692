--------------------------- MODULE VhciController ---------------------------
(***************************************************************************)
(* The virtual USB host controller (vhci/vhci.c): its root hub, the table  *)
(* of devices, bus suspend and resume, the watchdog and the recovery       *)
(* worker.                                                                 *)
(*                                                                         *)
(* Four parties touch its state, and no lock is common to them: the USB    *)
(* core's hub thread, which calls the hc_driver operations one after the   *)
(* other; the recovery worker; the watchdog; and the interrupt thread,     *)
(* which handles system events. A command to the T2 is one step with a     *)
(* result: VhciCommandQueue models how it is executed.                     *)
(***************************************************************************)
EXTENDS Integers, FiniteSets

CONSTANTS
    NPorts,        \* ports of the controller
    NDevIds,       \* device ids the T2 hands out
    NObjs,         \* struct bce_vhci_device the allocator has
    Bulk,          \* ports whose device has a bulk endpoint besides EP0
    MaxFailures,   \* BCE_VHCI_MAX_RECOVERY_FAILURES
    MaxIncidents   \* bound: commands and cancellations that fail or time out, probes
                   \* of the watchdog, devices plugged or unplugged, reset
                   \* notifications, suspends and device resets

Ports == 1..NPorts
DevIds == 1..NDevIds
Objs == 1..NObjs
None == 0

ASSUME ControllerAssumption ==
    /\ NPorts \in Nat \ {0} /\ NDevIds \in NPorts..15 /\ NObjs \in Nat /\ NObjs >= NPorts
    /\ Bulk \subseteq 1..NPorts
    /\ MaxFailures \in Nat \ {0}
    /\ MaxIncidents \in Nat

VARIABLES
    port_to_device,   \* the device id of each port, None if it has no device
    devices,          \* the object of each device id
    vdev,             \* the objects: live, eps (tq_mask), paused (its queues carry
                      \* BCE_VHCI_PAUSE_SUSPEND), cut (cancel_all cleared hcpriv)
    port_resume_mask, port_reenumerate_mask, port_suppress_connect_mask,
    port_resume_skip_reset,
    recovering, recovery_fail_count, controller_dead,
    last_recovery,    \* last_recovery_jiffies is set
    rec,              \* recovery worker: pc, port of its loop, vdev
    queued,           \* w_recovery is queued
    timer,            \* the timer of recovery_watchdog runs
    watchdog,         \* its work: idle, at the probe, or at what follows a time-out
    off,              \* history: a failed suspend or a skipped recovery has left the
                      \* watchdog off
    listening,        \* the event queues are not paused
    bus,              \* up, suspended, or a stage of the removal
    hub,              \* hub thread: pc, port, dev and id (locals), connected (the
                      \* portstatus it read), left (resets hub_port_init makes)
    udev,             \* USB core: ports that have a usb_device
    scan,             \* USB core: ports to look at though nothing is reported
    reset_resume,     \* USB core: devices it has to reset on resume
    t2dev,            \* T2: the port of each device id, None if it is free
    connected, changed,   \* T2: bits 4 and 0x40000 of the port status
    events,           \* T2: PORT_STATUS_CHANGE not delivered yet
    enabled,          \* T2: no controller_disable has been answered
    incidents,        \* incidents so far
    raced,            \* history: ports for which the recovery set the masks while
                      \* the hub was at them or had freed their device
    wiped,            \* history: ports whose re-enumeration a suspend or a failed
                      \* resume cancelled
    abandoned,        \* history: a suspend failed, or a recovery failed or was
                      \* skipped for the cooldown
    straddled,        \* history: a probe was under way when destroy cancelled w_recovery
    uaf               \* the worker used a device that was freed

mapVars == <<port_to_device, devices, vdev>>
askVars == <<port_resume_mask, port_reenumerate_mask>>
maskVars == <<askVars, port_suppress_connect_mask, port_resume_skip_reset>>
recVars == <<recovering, recovery_fail_count, controller_dead, last_recovery, rec>>
workVars == <<timer, watchdog, off, listening>>
usbVars == <<udev, scan, reset_resume>>
t2Vars == <<t2dev, connected, changed, events, enabled>>
costVars == <<incidents, queued>>
history == <<raced, wiped, abandoned, straddled, uaf>>
vars == <<mapVars, maskVars, recVars, workVars, bus, hub, usbVars, t2Vars, costVars, history>>

NoVdev == [live |-> FALSE, eps |-> {}, paused |-> FALSE, cut |-> FALSE]
FreshVdev(eps) == [live |-> TRUE, eps |-> eps, paused |-> FALSE, cut |-> FALSE]
HubIdle == [pc |-> "idle", port |-> 1, dev |-> None, id |-> None, connected |-> FALSE,
            left |-> 0]
Mapped == {p \in Ports : port_to_device[p] # None}
VdevOf(p) == devices[port_to_device[p]]
HubAt(p) == hub.pc # "idle" /\ hub.port = p

\* bce_vhci_start has returned and the first devices are enumerated.
Init ==
    /\ port_to_device = [p \in Ports |-> p]
    /\ devices = [d \in DevIds |-> IF d \in Ports THEN d ELSE None]
    /\ vdev = [o \in Objs |-> IF o \in Ports THEN FreshVdev({0, 1}) ELSE NoVdev]
    /\ port_resume_mask = {} /\ port_reenumerate_mask = {}
    /\ port_suppress_connect_mask = {}
    /\ port_resume_skip_reset = [p \in Ports |-> 0]
    /\ recovering = FALSE /\ recovery_fail_count = 0 /\ controller_dead = FALSE
    /\ last_recovery = FALSE
    /\ rec = [pc |-> "idle", port |-> 1, dev |-> None]
    /\ queued = FALSE /\ timer = TRUE /\ watchdog = "idle" /\ off = FALSE
    /\ listening = TRUE
    /\ bus = "up" /\ hub = HubIdle
    /\ udev = Ports /\ scan = {} /\ reset_resume = {}
    /\ t2dev = devices
    /\ connected = Ports /\ changed = {} /\ events = {} /\ enabled = TRUE
    /\ incidents = 0
    /\ raced = {} /\ wiped = {} /\ abandoned = FALSE /\ straddled = FALSE /\ uaf = FALSE

-----------------------------------------------------------------------------
(* Commands. They are refused once the controller is dead; else the T2     *)
(* executes them and answers ("ok"), does not execute them ("lost"), or    *)
(* executes them and the answer comes too late ("late"), as it does when   *)
(* the event queues are paused: answers are events.                        *)

Outcomes ==
    CASE controller_dead -> {"refused"}
      [] ~controller_dead /\ ~listening -> {"late"}
      [] OTHER -> IF incidents < MaxIncidents THEN {"ok", "lost", "late"} ELSE {"ok"}

Executed(o) == o \in {"ok", "late"}
TimedOut(o) == o \in {"lost", "late"}

Incident == incidents < MaxIncidents /\ incidents' = incidents + 1
Cost(o) == IF listening /\ TimedOut(o) THEN 1 ELSE 0

\* A command that is not answered in time is cancelled; if the cancellation, an
\* incident of its own, is not answered either, w_recovery is queued, unless a
\* recovery is under way.
CancelTimesOut(o) == TimedOut(o) /\ ~recovering /\ queued' = TRUE

Charge(o) ==
    \/ incidents' = incidents + Cost(o) /\ UNCHANGED queued
    \/ /\ CancelTimesOut(o)
       /\ incidents' = incidents + 2 * Cost(o) /\ incidents' <= MaxIncidents

FreeIds == {d \in DevIds : t2dev[d] = None}

\* bce_vhci_cmd_device_create for port p: the T2 picks a free id, if it has one.
DeviceCreate(p, d, o) ==
    /\ IF FreeIds = {} THEN d = None ELSE d \in FreeIds
    /\ t2dev' = IF Executed(o) /\ d # None THEN [t2dev EXCEPT ![d] = p] ELSE t2dev

Created(d, o) == o = "ok" /\ d # None

\* bce_vhci_cmd_device_destroy.
DeviceDestroy(d, o) == t2dev' = IF Executed(o) THEN [t2dev EXCEPT ![d] = None] ELSE t2dev

-----------------------------------------------------------------------------
(* The hub thread: hub_control.                                            *)

\* bce_vhci_hub_status_data.
HubStatusData == port_resume_mask

\* GetPortStatus: a dead controller shows nothing; a port that is to be
\* enumerated again shows a change and no connection, and the T2 is not asked.
GetPortStatus(p) ==
    /\ hub.pc = "idle" /\ bus = "up" /\ p \in HubStatusData \cup scan
    /\ scan' = scan \ {p}
    /\ \/ /\ controller_dead \/ p \in port_reenumerate_mask
          /\ hub' = IF controller_dead THEN hub ELSE [hub EXCEPT !.pc = "clear", !.port = p]
          /\ UNCHANGED costVars
       \/ /\ ~controller_dead /\ p \notin port_reenumerate_mask
          /\ \E o \in Outcomes :
                /\ hub' = IF o = "ok" /\ p \in changed \cup port_resume_mask
                            THEN [hub EXCEPT !.pc = "clear", !.port = p,
                                             !.connected = p \in connected]
                            ELSE hub
                /\ Charge(o)
    /\ UNCHANGED <<mapVars, maskVars, recVars, workVars, bus, udev, reset_resume, t2Vars,
                   history>>

\* ClearPortFeature of C_CONNECTION. Then the USB core acts on the status it has
\* read: it may find that a device it knows still answers, or drops it, and
\* connects the new one.
ClearConnection ==
    /\ hub.pc = "clear"
    /\ port_resume_mask' = port_resume_mask \ {hub.port}
    /\ \E o \in Outcomes :
          /\ changed' = IF Executed(o) THEN changed \ {hub.port} ELSE changed
          /\ Charge(o)
    /\ \/ hub.port \in udev /\ hub' = [hub EXCEPT !.pc = "drop"]
       \/ hub.port \in udev /\ hub.connected /\ hub' = HubIdle
       \/ /\ hub.port \notin udev
          /\ hub' = IF hub.connected THEN [hub EXCEPT !.pc = "reset", !.left = 2] ELSE HubIdle
    /\ UNCHANGED <<mapVars, port_reenumerate_mask, port_suppress_connect_mask,
                   port_resume_skip_reset, recVars, workVars, bus, usbVars, t2dev, connected,
                   events, enabled, history>>

-----------------------------------------------------------------------------
(* The hub thread: endpoints and devices.                                  *)

\* bce_vhci_drop_endpoint for every endpoint but EP0: when the device goes
\* ("drop"), or before its endpoints are added again ("redrop").
DropEndpoint ==
    /\ hub.pc \in {"drop", "redrop"}
    /\ vdev' = IF hub.port \in Mapped
                 THEN [vdev EXCEPT ![VdevOf(hub.port)].eps = @ \cap {0}] ELSE vdev
    /\ hub' = [hub EXCEPT !.pc = IF hub.pc = "drop" THEN "free" ELSE "add"]
    /\ UNCHANGED <<port_to_device, devices, maskVars, recVars, workVars, bus, usbVars, t2Vars,
                   costVars, history>>

\* bce_vhci_add_endpoint: if the T2 does not create it, its queue is destroyed.
AddEndpoint ==
    /\ hub.pc = "add"
    /\ \E o \in Outcomes :
          /\ vdev' = IF hub.port \in Mapped /\ o = "ok"
                       THEN [vdev EXCEPT ![VdevOf(hub.port)].eps = @ \cup {1}] ELSE vdev
          /\ Charge(o)
    /\ hub' = HubIdle
    /\ reset_resume' = reset_resume \ {hub.port}
    /\ UNCHANGED <<port_to_device, devices, maskVars, recVars, workVars, bus, udev, scan,
                   t2Vars, history>>

\* Mutant of Unmap: the port keeps its device id.
UnmapIdOnly(p) ==
    /\ devices' = [devices EXCEPT ![port_to_device[p]] = None]
    /\ UNCHANGED port_to_device

\* A device leaves both tables.
Unmap(p) ==
    /\ devices' = [devices EXCEPT ![port_to_device[p]] = None]
    /\ port_to_device' = [port_to_device EXCEPT ![p] = None]

\* A port that is to be enumerated again shows its connection now.
SignalReconnect(p) ==
    /\ port_reenumerate_mask' = port_reenumerate_mask \ {p}
    /\ port_resume_mask' = port_resume_mask \cup (port_reenumerate_mask \cap {p})

\* USB core: the usb_device is gone. The hub connects what it saw on the port,
\* or gives it up.
Released ==
    \/ hub.connected /\ bus = "up"
       /\ hub' = [HubIdle EXCEPT !.pc = "reset", !.port = hub.port, !.connected = TRUE,
                                 !.left = 2]
    \/ hub' = HubIdle

\* bce_vhci_free_device: the mappings are cleared first,
FreeDevice ==
    /\ hub.pc = "free"
    /\ udev' = udev \ {hub.port}
    /\ reset_resume' = reset_resume \ {hub.port}
    /\ IF hub.port \in Mapped
         THEN /\ hub' = [hub EXCEPT !.pc = "destroy", !.dev = VdevOf(hub.port),
                                    !.id = port_to_device[hub.port]]
              /\ Unmap(hub.port)
              /\ UNCHANGED askVars
         ELSE /\ SignalReconnect(hub.port)
              /\ Released
              /\ UNCHANGED <<devices, port_to_device>>
    /\ UNCHANGED <<vdev, port_suppress_connect_mask, port_resume_skip_reset, recVars,
                   workVars, bus, scan, t2Vars, costVars, history>>

\* kfree of an object; -1 is the pointer to it that the worker may hold.
Kfree(o) ==
    /\ vdev' = [vdev EXCEPT ![o] = NoVdev]
    /\ rec' = IF rec.dev = o THEN [rec EXCEPT !.dev = -1] ELSE rec

\* ... then its queues and the T2's device are destroyed, it is freed, and the
\* port is shown again.
FreeDeviceDestroy ==
    /\ hub.pc = "destroy"
    /\ \E o \in Outcomes : DeviceDestroy(hub.id, o) /\ Charge(o)
    /\ Kfree(hub.dev)
    /\ SignalReconnect(hub.port)
    /\ Released
    /\ UNCHANGED <<port_to_device, devices, port_suppress_connect_mask, port_resume_skip_reset,
                   recovering, recovery_fail_count, controller_dead, last_recovery, workVars,
                   bus, usbVars, connected, changed, events, enabled, history>>

\* USB core: hub_port_init failed. A device it knew is disconnected, a new one
\* released.
InitFailed == [HubIdle EXCEPT !.pc = IF hub.port \in udev THEN "drop" ELSE "free",
                              !.port = hub.port, !.connected = TRUE]

\* A driver, or the resume, has a device reset.
ResetRequest(p) ==
    /\ hub.pc = "idle" /\ bus = "up" /\ p \in udev
    /\ \/ p \in reset_resume /\ UNCHANGED costVars
       \/ Incident /\ UNCHANGED queued
    /\ hub' = [hub EXCEPT !.pc = "reset", !.port = p, !.left = 2]
    /\ UNCHANGED <<mapVars, maskVars, recVars, workVars, bus, usbVars, t2Vars, history>>

\* bce_vhci_reset_device: skipped after a refresh; else the device's queues and
\* the T2's device are destroyed, or there is none and the port is reset.
ResetDevice ==
    /\ hub.pc = "reset"
    /\ \/ /\ port_resume_skip_reset[hub.port] > 0
          /\ port_resume_skip_reset' = [port_resume_skip_reset EXCEPT ![hub.port] = @ - 1]
          /\ hub' = [hub EXCEPT !.pc = "enable"]
          /\ UNCHANGED <<port_to_device, devices, t2dev, costVars>>
       \/ /\ port_resume_skip_reset[hub.port] = 0 /\ hub.port \in Mapped
          /\ hub' = [hub EXCEPT !.pc = "rebuild", !.dev = VdevOf(hub.port)]
          /\ Unmap(hub.port)
          /\ \E o \in Outcomes : DeviceDestroy(port_to_device[hub.port], o) /\ Charge(o)
          /\ UNCHANGED port_resume_skip_reset
       \/ /\ port_resume_skip_reset[hub.port] = 0 /\ hub.port \notin Mapped
          /\ \E o \in Outcomes :
                /\ hub' = IF o = "ok" THEN [hub EXCEPT !.pc = "enable"] ELSE InitFailed
                /\ Charge(o)
          /\ UNCHANGED <<port_to_device, devices, t2dev, port_resume_skip_reset>>
    /\ UNCHANGED <<vdev, askVars, port_suppress_connect_mask, recVars, workVars, bus, usbVars,
                   connected, changed, events, enabled, history>>

Attach(p, d, o, eps) ==
    /\ port_to_device' = [port_to_device EXCEPT ![p] = d]
    /\ devices' = [devices EXCEPT ![d] = o]
    /\ vdev' = [vdev EXCEPT ![o] = FreshVdev(eps)]

\* ... the port is reset, whatever comes of it, and the device created again
\* with the queues it had, but those that fail. When the T2 does not create it,
\* nothing refers to the object any more.
ResetDeviceRebuild ==
    /\ hub.pc = "rebuild"
    /\ \E o \in Outcomes, d \in DevIds \cup {None}, failed \in {{}, {1}} :
          /\ DeviceCreate(hub.port, d, o)
          /\ \/ failed = {} /\ Charge(o)
             \/ failed # {} /\ Created(d, o) /\ Incident /\ UNCHANGED queued
          /\ IF Created(d, o) THEN /\ Attach(hub.port, d, hub.dev, vdev[hub.dev].eps \ failed)
                                   /\ hub' = [hub EXCEPT !.pc = "enable", !.dev = None]
                              ELSE hub' = InitFailed /\ UNCHANGED mapVars
    /\ UNCHANGED <<maskVars, recVars, workVars, bus, usbVars, connected, changed, events,
                   enabled, history>>

\* USB core: the device is there. hub_port_init resets it once more, then its
\* endpoints are added.
Initialised ==
    IF hub.left > 1
      THEN hub' = [hub EXCEPT !.pc = "reset", !.left = @ - 1] /\ UNCHANGED udev
      ELSE /\ hub' = [hub EXCEPT !.pc = IF hub.port \in udev THEN "redrop" ELSE "add",
                                 !.left = 0]
           /\ udev' = udev \cup {hub.port}

\* bce_vhci_enable_device. An id out of range, a failed allocation or queue end
\* like a create that failed. USB core may then fail to read the device.
EnableDevice ==
    /\ hub.pc = "enable"
    /\ \/ /\ hub.port \in Mapped
          /\ Initialised
          /\ UNCHANGED <<mapVars, t2dev, costVars>>
       \/ /\ hub.port \in Mapped /\ Incident /\ UNCHANGED queued
          /\ hub' = InitFailed
          /\ UNCHANGED <<mapVars, t2dev, udev>>
       \/ /\ hub.port \notin Mapped
          /\ \E o \in Outcomes, d \in DevIds \cup {None} :
                /\ DeviceCreate(hub.port, d, o) /\ Charge(o)
                /\ IF Created(d, o) /\ \E n \in Objs : ~vdev[n].live
                     THEN /\ Attach(hub.port, d, CHOOSE n \in Objs : ~vdev[n].live, {0})
                          /\ Initialised
                     ELSE hub' = InitFailed /\ UNCHANGED <<mapVars, udev>>
    /\ UNCHANGED <<maskVars, recVars, workVars, bus, scan, reset_resume, connected, changed,
                   events, enabled, history>>

HubThread ==
    \/ \E p \in Ports : GetPortStatus(p) \/ ResetRequest(p)
    \/ ClearConnection \/ DropEndpoint \/ AddEndpoint
    \/ FreeDevice \/ FreeDeviceDestroy
    \/ ResetDevice \/ ResetDeviceRebuild \/ EnableDevice

-----------------------------------------------------------------------------
(* Bus suspend and resume, in the thread of the hub.                       *)

\* cancel_delayed_work_sync of the watchdog waits for its work.
CancelWatchdog == watchdog = "idle" /\ timer' = FALSE /\ UNCHANGED watchdog

\* The watchdog is stopped, the masks are forgotten, the endpoints paused. Pausing
\* an endpoint is a command like any other.
BusSuspend ==
    /\ hub.pc = "idle" /\ bus = "up" /\ Incident
    /\ CancelWatchdog /\ off' = FALSE
    /\ port_resume_skip_reset' = [p \in Ports |-> 0]
    /\ port_resume_mask' = {} /\ port_reenumerate_mask' = {}
    /\ wiped' = wiped \cup port_reenumerate_mask
    /\ vdev' = [o \in Objs |-> IF \E p \in Mapped : VdevOf(p) = o
                                 THEN [vdev[o] EXCEPT !.paused = TRUE] ELSE vdev[o]]
    /\ hub' = [hub EXCEPT !.pc = "pause"]
    /\ UNCHANGED <<port_to_device, devices, port_suppress_connect_mask, recVars, queued,
                   listening, bus, usbVars, t2Vars, raced, abandoned, straddled, uaf>>

WatchdogOff == ~timer /\ watchdog = "idle"

\* controller_pause, and the event queues are paused; or the suspend fails.
BusSuspendPause ==
    /\ hub.pc = "pause"
    /\ hub' = HubIdle
    /\ \E o \in Outcomes :
          /\ Charge(o)
          /\ \/ /\ o = "ok"
                /\ port_suppress_connect_mask' = Mapped
                /\ listening' = FALSE
                /\ bus' = "suspended"
                /\ UNCHANGED <<abandoned, off>>
             \/ /\ o # "ok"
                /\ abandoned' = TRUE /\ off' = WatchdogOff
                /\ UNCHANGED <<port_suppress_connect_mask, listening, bus>>
    /\ UNCHANGED <<mapVars, askVars, port_resume_skip_reset, recVars, timer, watchdog, usbVars,
                   t2Vars, raced, wiped, straddled, uaf>>

\* A recovery is running and the resume leaves all to it; else the event queues
\* are resumed.
BusResume ==
    /\ bus = "suspended" /\ hub.pc = "idle"
    /\ IF recovering
         THEN bus' = "up" /\ scan' = Ports /\ UNCHANGED <<listening, hub>>
         ELSE /\ listening' = TRUE
              /\ hub' = [hub EXCEPT !.pc = "start"]
              /\ UNCHANGED <<bus, scan>>
    /\ UNCHANGED <<mapVars, maskVars, recVars, timer, watchdog, off, udev, reset_resume, t2Vars,
                   costVars, history>>

\* controller_start. When it fails the recovery is to put things right.
BusResumeStart ==
    /\ hub.pc = "start"
    /\ \E o \in Outcomes :
          /\ incidents' = incidents + Cost(o)
          /\ \/ /\ o = "ok"
                /\ hub' = [hub EXCEPT !.pc = "ports", !.port = 1]
                /\ UNCHANGED <<port_suppress_connect_mask, port_reenumerate_mask, queued, bus,
                               scan, wiped>>
             \/ /\ o # "ok"
                /\ port_suppress_connect_mask' = {} /\ port_reenumerate_mask' = {}
                /\ wiped' = wiped \cup port_reenumerate_mask
                /\ queued' = TRUE
                /\ hub' = HubIdle /\ bus' = "up" /\ scan' = Ports
    /\ UNCHANGED <<mapVars, port_resume_mask, port_resume_skip_reset, recVars, workVars,
                   udev, reset_resume, t2Vars, raced, abandoned, straddled, uaf>>

\* bce_vhci_device_persistable.
Persistable(p) == ~(p \in Bulk /\ 1 \in vdev[VdevOf(p)].eps)

NextPort == [HubIdle EXCEPT !.pc = "ports", !.port = hub.port + 1]

\* Mutant of Reenumerate: the hub is not told to look at the port.
ReenumerateUnnoticed(p) ==
    /\ port_reenumerate_mask' = port_reenumerate_mask \cup {p}
    /\ UNCHANGED port_resume_mask

\* Mutant of Reenumerate: the port goes on showing its connection.
ReenumerateInSight(p) ==
    /\ port_resume_mask' = port_resume_mask \cup {p}
    /\ UNCHANGED port_reenumerate_mask

\* A port is hidden until its device is gone, and the hub told to look at it.
Reenumerate(p) ==
    /\ port_reenumerate_mask' = port_reenumerate_mask \cup {p}
    /\ port_resume_mask' = port_resume_mask \cup {p}

\* One port of the loop. The T2 is asked for its status: a port that has changed,
\* is gone or does not answer is enumerated again. The queues of a device that
\* the T2 preserves are resumed; any other is taken down to be refreshed.
BusResumePort ==
    /\ hub.pc = "ports" /\ hub.port \in Ports
    /\ \/ /\ hub.port \notin Mapped
          /\ hub' = NextPort
          /\ UNCHANGED <<mapVars, askVars, changed, costVars>>
       \/ /\ hub.port \in Mapped
          /\ \E o \in Outcomes :
                /\ Charge(o)
                /\ o # "ok" \/ hub.port \in changed \/ hub.port \notin connected
                /\ changed' = IF o = "ok" THEN changed \ {hub.port} ELSE changed
          /\ Reenumerate(hub.port)
          /\ hub' = NextPort
          /\ UNCHANGED mapVars
       \/ /\ hub.port \in Mapped /\ hub.port \notin changed /\ hub.port \in connected
          /\ \E o \in Outcomes :
                /\ Charge(o)
                /\ \/ /\ o = "ok" /\ Persistable(hub.port)
                      /\ vdev' = [vdev EXCEPT ![VdevOf(hub.port)].paused = FALSE]
                      /\ hub' = NextPort
                      /\ UNCHANGED <<port_to_device, devices>>
                   \/ /\ o # "ok" <=> Persistable(hub.port)
                      /\ hub' = [hub EXCEPT !.pc = "refresh", !.dev = VdevOf(hub.port),
                                            !.id = port_to_device[hub.port]]
                      /\ vdev' = [vdev EXCEPT ![VdevOf(hub.port)] = FreshVdev({})]
                      /\ Unmap(hub.port)
          /\ UNCHANGED <<askVars, changed>>
    /\ UNCHANGED <<port_suppress_connect_mask, port_resume_skip_reset, recVars, workVars, bus,
                   usbVars, t2dev, connected, events, enabled, history>>

\* The refresh: the T2's device is destroyed, the port reset and a device created
\* with EP0 only.
BusResumeRefresh ==
    /\ hub.pc = "refresh"
    /\ ~controller_dead /\ listening
    /\ \E d \in {d \in DevIds : t2dev[d] = None \/ d = hub.id} :
          /\ t2dev' = [t2dev EXCEPT ![hub.id] = None, ![d] = hub.port]
          /\ Attach(hub.port, d, hub.dev, {0})
    /\ port_resume_skip_reset' = [port_resume_skip_reset EXCEPT ![hub.port] = 2]
    /\ reset_resume' = reset_resume \cup ({hub.port} \cap udev)
    /\ hub' = NextPort
    /\ UNCHANGED <<askVars, port_suppress_connect_mask, recVars, workVars, bus, udev, scan,
                   connected, changed, events, enabled, costVars, history>>

\* A command of the refresh fails, or EP0's queue: the object is freed and the
\* port enumerated again. The T2 may have the old device, or a new one, or none.
BusResumeRefreshFail ==
    /\ hub.pc = "refresh"
    /\ \E o \in Outcomes \ {"ok"} :
          /\ \/ DeviceDestroy(hub.id, o)
             \/ \E d \in {d \in DevIds : t2dev[d] = None \/ d = hub.id} :
                   /\ o = "late" /\ t2dev' = [t2dev EXCEPT ![hub.id] = None, ![d] = hub.port]
          /\ Charge(o)
    /\ Kfree(hub.dev)
    /\ Reenumerate(hub.port)
    /\ hub' = NextPort
    /\ UNCHANGED <<port_to_device, devices, port_suppress_connect_mask, port_resume_skip_reset,
                   recovering, recovery_fail_count, controller_dead, last_recovery, workVars, bus,
                   usbVars, connected, changed, events, enabled, history>>

\* schedule_delayed_work of the watchdog.
StartWatchdog == timer' = TRUE /\ off' = FALSE /\ UNCHANGED watchdog

\* The suppression ends and the watchdog starts.
BusResumeEnd ==
    /\ hub.pc = "ports" /\ hub.port \notin Ports
    /\ port_suppress_connect_mask' = {}
    /\ StartWatchdog
    /\ bus' = "up" /\ scan' = Ports
    /\ hub' = HubIdle
    /\ UNCHANGED <<mapVars, askVars, port_resume_skip_reset, recVars, listening, udev,
                   reset_resume, t2Vars, costVars, history>>

Pm == \/ BusSuspend \/ BusSuspendPause \/ BusResume \/ BusResumeStart \/ BusResumePort
      \/ BusResumeRefresh \/ BusResumeRefreshFail \/ BusResumeEnd

-----------------------------------------------------------------------------
(* The recovery worker.                                                    *)

RecGo(pc, port, dev) == rec' = [pc |-> pc, port |-> port, dev |-> dev]

\* The next port of a loop over those that have a device, or past the last one.
NextMapped(from) ==
    CHOOSE p \in from..(NPorts + 1) : /\ p \in Mapped \/ p = NPorts + 1
                                      /\ \A q \in from..(p - 1) : q \notin Mapped

\* It returns if the controller is dead, or if there was a recovery before and it
\* is too recent.
RecoveryStart ==
    /\ queued /\ rec.pc = "idle"
    /\ queued' = FALSE
    /\ \/ /\ controller_dead \/ last_recovery
          /\ abandoned' = TRUE /\ off' = (off \/ WatchdogOff)
          /\ UNCHANGED <<recovering, last_recovery, rec>>
       \/ /\ ~controller_dead
          /\ recovering' = TRUE /\ last_recovery' = TRUE
          /\ RecGo("look", 1, None)
          /\ UNCHANGED <<abandoned, off>>
    /\ UNCHANGED <<mapVars, maskVars, recovery_fail_count, controller_dead, timer, watchdog,
                   listening, bus, hub, usbVars, t2Vars, incidents, raced, wiped, straddled,
                   uaf>>

\* Phase 1: the device of a port is looked up,
RecoveryLook ==
    /\ rec.pc = "look"
    /\ LET p == NextMapped(rec.port)
       IN IF p \in Ports THEN RecGo("cut", p, VdevOf(p)) ELSE RecGo("pause", 1, None)
    /\ UNCHANGED <<mapVars, maskVars, recovering, recovery_fail_count, controller_dead,
                   last_recovery, workVars, bus, hub, usbVars, t2Vars, costVars, history>>

\* ... and the URBs of its queues are cancelled: cancel_all clears hcpriv.
RecoveryCut ==
    /\ rec.pc = "cut"
    /\ IF rec.dev = -1 THEN uaf' = TRUE /\ UNCHANGED vdev
                       ELSE vdev' = [vdev EXCEPT ![rec.dev].cut = TRUE] /\ UNCHANGED uaf
    /\ RecGo("look", rec.port + 1, None)
    /\ UNCHANGED <<port_to_device, devices, maskVars, recovering, recovery_fail_count,
                   controller_dead, last_recovery, workVars, bus, hub, usbVars, t2Vars, costVars,
                   raced, wiped, abandoned, straddled>>

\* Phases 2 and 3: whatever controller_pause returns, the event queues are paused
\* and resumed.
RecoveryPause ==
    /\ rec.pc \in {"pause", "resume"}
    /\ listening' = (rec.pc = "resume")
    /\ RecGo(IF rec.pc = "pause" THEN "resume" ELSE "restart", 1, None)
    /\ UNCHANGED <<mapVars, maskVars, recovering, recovery_fail_count, controller_dead,
                   last_recovery, timer, watchdog, off, bus, hub, usbVars, t2Vars, costVars,
                   history>>

\* Phase 4: the controller is restarted, or this recovery has failed.
RecoveryRestart ==
    /\ rec.pc = "restart"
    /\ \E o \in Outcomes :
          /\ Charge(o)
          /\ \/ /\ o = "ok"
                /\ recovery_fail_count' = 0
                /\ RecGo("test", 1, None)
                /\ UNCHANGED <<controller_dead, abandoned>>
             \/ /\ o # "ok"
                /\ recovery_fail_count' = recovery_fail_count + 1
                /\ controller_dead' =
                      (controller_dead \/ recovery_fail_count + 1 >= MaxFailures)
                /\ RecGo("out", 1, None)
                /\ abandoned' = TRUE
    /\ UNCHANGED <<mapVars, maskVars, recovering, last_recovery, workVars, bus, hub, usbVars,
                   t2Vars, raced, wiped, straddled, uaf>>

\* Mutant of RecoveryTest: the loop starts one port late.
RecoveryTestOffByOne ==
    /\ rec.pc = "test"
    /\ LET p == NextMapped(rec.port + 1)
       IN IF p \in Ports THEN RecGo("set", p, None) ELSE RecGo("out", 1, None)
    /\ UNCHANGED <<mapVars, maskVars, recovering, recovery_fail_count, controller_dead,
                   last_recovery, workVars, bus, hub, usbVars, t2Vars, costVars, history>>

\* Phase 5: a port is found to have a device,
RecoveryTest ==
    /\ rec.pc = "test"
    /\ LET p == NextMapped(rec.port)
       IN IF p \in Ports THEN RecGo("set", p, None) ELSE RecGo("out", 1, None)
    /\ UNCHANGED <<mapVars, maskVars, recovering, recovery_fail_count, controller_dead,
                   last_recovery, workVars, bus, hub, usbVars, t2Vars, costVars, history>>

\* ... and is to be enumerated again.
RecoverySet ==
    /\ rec.pc = "set"
    /\ Reenumerate(rec.port)
    /\ raced' = IF HubAt(rec.port) \/ rec.port \notin Mapped THEN raced \cup {rec.port}
                                                             ELSE raced
    /\ RecGo("test", rec.port + 1, None)
    /\ UNCHANGED <<mapVars, port_suppress_connect_mask, port_resume_skip_reset, recovering,
                   recovery_fail_count, controller_dead, last_recovery, workVars, bus, hub, usbVars,
                   t2Vars, costVars, wiped, abandoned, straddled, uaf>>

\* Mutant of RecoveryOut: the watchdog is not started again.
RecoveryOutNoWatchdog ==
    /\ rec.pc = "out"
    /\ recovering' = FALSE
    /\ RecGo("idle", 1, None)
    /\ UNCHANGED <<mapVars, maskVars, recovery_fail_count, controller_dead, last_recovery,
                   workVars, bus, hub, usbVars, t2Vars, costVars, history>>

\* The worker is done; the watchdog goes on unless the controller is dead.
RecoveryOut ==
    /\ rec.pc = "out"
    /\ recovering' = FALSE
    /\ IF controller_dead THEN UNCHANGED <<timer, watchdog, off>> ELSE StartWatchdog
    /\ RecGo("idle", 1, None)
    /\ UNCHANGED <<mapVars, maskVars, recovery_fail_count, controller_dead, last_recovery,
                   listening, bus, hub, usbVars, t2Vars, costVars, history>>

Recovery ==
    \/ RecoveryStart \/ RecoveryLook \/ RecoveryCut \/ RecoveryPause \/ RecoveryRestart
    \/ RecoveryTest \/ RecoverySet \/ RecoveryOut

\* The watchdog's timer runs out. It waits for a recovery to end, stops with the
\* controller, and otherwise goes on to probe the T2.
WatchdogFires ==
    /\ timer /\ watchdog = "idle"
    /\ \/ recovering /\ UNCHANGED <<timer, watchdog, incidents>>
       \/ ~recovering /\ controller_dead /\ timer' = FALSE /\ UNCHANGED <<watchdog, incidents>>
       \/ ~recovering /\ ~controller_dead /\ timer' = FALSE /\ watchdog' = "probe" /\ Incident
    /\ UNCHANGED <<mapVars, maskVars, recVars, off, listening, bus, hub, usbVars, t2Vars,
                   queued, history>>

\* The probe is answered, or refused because the controller has died, or its wait
\* runs out, whatever has become of the controller since it was sent.
WatchdogProbe ==
    /\ watchdog = "probe"
    /\ \/ /\ listening \/ controller_dead
          /\ watchdog' = "idle" /\ timer' = TRUE /\ off' = FALSE
          /\ UNCHANGED costVars
       \/ /\ UNCHANGED costVars \/ (CancelTimesOut("lost") /\ Incident)
          /\ watchdog' = "report"
          /\ UNCHANGED <<timer, off>>
    /\ UNCHANGED <<mapVars, maskVars, recVars, listening, bus, hub, usbVars, t2Vars, history>>

\* Then it queues the recovery, which is to start the timer again.
WatchdogReport ==
    /\ watchdog = "report"
    /\ watchdog' = "idle" /\ queued' = TRUE
    /\ UNCHANGED <<mapVars, maskVars, recVars, timer, off, listening, bus, hub, usbVars, t2Vars,
                   incidents, history>>

Watchdog == WatchdogFires \/ WatchdogProbe \/ WatchdogReport

-----------------------------------------------------------------------------
(* System events, in the interrupt thread.                                 *)

\* The event queues are there until destroy has cancelled both works.
Notified == listening /\ enabled /\ bus # "gone"

PortStatusChange(p) ==
    /\ Notified /\ p \in events
    /\ events' = events \ {p}
    /\ port_resume_mask' = port_resume_mask \cup ({p} \ port_suppress_connect_mask)
    /\ UNCHANGED <<mapVars, port_reenumerate_mask, port_suppress_connect_mask,
                   port_resume_skip_reset, recVars, workVars, bus, hub, usbVars, t2dev,
                   connected, changed, enabled, costVars, history>>

ControllerResetNotify ==
    /\ Notified /\ Incident
    /\ queued' = TRUE
    /\ UNCHANGED <<mapVars, maskVars, recVars, workVars, bus, hub, usbVars, t2Vars, history>>

\* A command of an endpoint's work (TransferQueue) times out, and its cancellation,
\* whatever has become of the controller since it was sent. There is no such work
\* once the USB core has dropped the devices.
EndpointTimeout ==
    /\ bus \in {"up", "suspended", "removing"} /\ Mapped # {} /\ ~recovering /\ Incident
    /\ queued' = TRUE
    /\ UNCHANGED <<mapVars, maskVars, recVars, workVars, bus, hub, usbVars, t2Vars, history>>

\* A device is plugged in or unplugged (external).
Plug(p) ==
    /\ bus \in {"up", "suspended"} /\ Incident
    /\ connected' = IF p \in connected THEN connected \ {p} ELSE connected \cup {p}
    /\ changed' = changed \cup {p} /\ events' = events \cup {p}
    /\ UNCHANGED <<mapVars, maskVars, recVars, workVars, bus, hub, usbVars, t2dev,
                   enabled, queued, history>>

-----------------------------------------------------------------------------
(* Removal: usb_remove_hcd, which drops the devices and calls              *)
(* bce_vhci_stop, and the rest of bce_vhci_destroy. The T2 sends no event  *)
(* once it has answered controller_disable.                                *)

Remove ==
    /\ bus = "up" /\ hub.pc = "idle"
    /\ bus' = "removing"
    /\ UNCHANGED <<mapVars, maskVars, recVars, workVars, hub, usbVars, t2Vars, costVars, history>>

RemoveDevice(p) ==
    /\ bus = "removing" /\ hub.pc = "idle" /\ p \in udev
    /\ hub' = [hub EXCEPT !.pc = "drop", !.port = p]
    /\ UNCHANGED <<mapVars, maskVars, recVars, workVars, bus, usbVars, t2Vars, costVars, history>>

\* bce_vhci_stop: the watchdog is cancelled, but a recovery that ends while
\* controller_disable is under way starts it again.
Stop ==
    /\ hub.pc = "idle"
    /\ \/ /\ bus = "removing" /\ udev = {} /\ bus' = "disabling"
          /\ CancelWatchdog
          /\ UNCHANGED <<enabled, costVars>>
       \/ /\ bus = "disabling" /\ bus' = "stopped"
          /\ \E o \in Outcomes : Charge(o) /\ enabled' = (o # "ok")
          /\ UNCHANGED <<timer, watchdog>>
    /\ UNCHANGED <<mapVars, maskVars, recVars, off, listening, hub, usbVars, t2dev, connected,
                   changed, events, history>>

\* Mutant of Destroy: controller_dead is not set.
DestroyAlive ==
    /\ \/ /\ bus = "stopped" /\ bus' = "dead"
          /\ UNCHANGED <<queued, straddled, timer, watchdog>>
       \/ /\ bus = "dead" /\ rec.pc = "idle" /\ queued' = FALSE /\ bus' = "cancelled"
          /\ straddled' = (watchdog # "idle")
          /\ UNCHANGED <<timer, watchdog>>
       \/ /\ bus = "cancelled" /\ CancelWatchdog /\ bus' = "gone"
          /\ UNCHANGED <<queued, straddled>>
    /\ UNCHANGED <<mapVars, maskVars, recVars, off, listening, hub, usbVars, t2Vars, incidents,
                   raced, wiped, abandoned, uaf>>

\* controller_dead, then the worker and the watchdog are cancelled, in this order.
Destroy ==
    /\ \/ /\ bus = "stopped" /\ controller_dead' = TRUE /\ bus' = "dead"
          /\ UNCHANGED <<queued, straddled, timer, watchdog>>
       \/ /\ bus = "dead" /\ rec.pc = "idle" /\ queued' = FALSE /\ bus' = "cancelled"
          /\ straddled' = (watchdog # "idle")
          /\ UNCHANGED <<controller_dead, timer, watchdog>>
       \/ /\ bus = "cancelled" /\ CancelWatchdog /\ bus' = "gone"
          /\ UNCHANGED <<controller_dead, queued, straddled>>
    /\ UNCHANGED <<mapVars, maskVars, recovering, recovery_fail_count, last_recovery, rec,
                   off, listening, hub, usbVars, t2Vars, incidents, raced, wiped, abandoned, uaf>>

\* Nothing is said about what follows the use of a freed device.
Next ==
    \/ ~uaf /\ (HubThread \/ Pm \/ Recovery \/ Watchdog)
    \/ ~uaf /\ \E p \in Ports : PortStatusChange(p) \/ Plug(p) \/ RemoveDevice(p)
    \/ ~uaf /\ (ControllerResetNotify \/ EndpointTimeout \/ Remove \/ Stop \/ Destroy)
    \/ (uaf \/ bus = "gone") /\ UNCHANGED vars

Spec == Init /\ [][Next]_vars

-----------------------------------------------------------------------------
(* Properties.                                                             *)

\* A port's device id leads to a live object and belongs, on the T2, to that
\* port: it is not destroyed there while the port refers to it, which would let
\* another port get it; and no object is in the table that no port leads to.
MappingIsSound ==
    /\ \A p \in Mapped : /\ VdevOf(p) # None /\ vdev[VdevOf(p)].live
                         /\ t2dev[port_to_device[p]] = p
    /\ \A d \in DevIds : devices[d] # None => \E p \in Ports : port_to_device[p] = d

\* A port hidden for re-enumeration is going to be looked at, and the USB core
\* has a device there whose removal shows it again. Excepted are ports for which
\* the recovery set the masks while the hub thread was busy with them.
ReenumerationIsNoticed ==
    \A p \in port_reenumerate_mask \ raced :
        \/ HubAt(p)
        \/ p \in udev /\ p \in port_resume_mask \cup scan

\* A device whose endpoints the recovery has cut off is enumerated again, unless
\* that recovery failed, or a suspend or a failed resume cancelled it.
CancelledIsReenumerated ==
    \A p \in Mapped :
        vdev[VdevOf(p)].cut =>
            \/ p \in port_reenumerate_mask \/ rec.pc # "idle"
            \/ recovery_fail_count > 0 \/ p \in wiped

\* The pause of a suspend does not outlast it: the endpoints run again, or their
\* port is enumerated again; or the event queues are still paused as well, and
\* the watchdog is going to find out. Excepted is an abandoned suspend or recovery.
SuspendPauseIsLifted ==
    bus = "up" /\ hub.pc = "idle" /\ rec.pc = "idle" /\ ~queued =>
        \A p \in Mapped : \/ ~vdev[VdevOf(p)].paused \/ p \in port_reenumerate_mask
                          \/ abandoned \/ (~listening /\ ~WatchdogOff)

\* When the driver is gone no work of it runs and the watchdog, which the worker can
\* start until the controller is dead, is not due again. The worker can still be
\* queued, if a probe that began before the controller was dead was under way when the
\* worker was cancelled, or if the T2 did not answer controller_disable and sends
\* events all the while.
NoWorkLeft ==
    bus = "gone" => /\ rec.pc = "idle" /\ WatchdogOff
                    /\ queued => straddled \/ enabled

\* While the bus is up the watchdog is on, or the recovery that starts it again is on
\* its way, also after recoveries that failed, unless the controller is dead. Excepted
\* is what leaves the watchdog off until it is started again: a suspend that failed,
\* and a recovery that was skipped for the cooldown.
WatchdogIsKept ==
    bus = "up" => \/ ~WatchdogOff \/ queued \/ rec.pc # "idle" \/ controller_dead
                  \/ hub.pc = "pause" \/ off

=============================================================================
