------------------------ MODULE VhciController_proofs ------------------------
(***************************************************************************)
(* Proofs about VhciController, for any number of ports, device ids and    *)
(* objects, any limit on failed recoveries and any number of incidents.    *)
(***************************************************************************)
EXTENDS VhciController, WellFoundedInduction, TLAPS

-----------------------------------------------------------------------------
(* The table of devices.                                                   *)

VdevRecords == [live : BOOLEAN, eps : SUBSET {0, 1}, paused : BOOLEAN, cut : BOOLEAN]
HubPcs == {"idle", "clear", "drop", "free", "destroy", "reset", "rebuild", "enable", "redrop",
           "add", "pause", "start", "ports", "refresh"}
Resets == 0..2
HubRecords == [pc : HubPcs, port : 1..(NPorts + 1), dev : Objs \cup {None},
               id : DevIds \cup {None}, connected : BOOLEAN, left : Resets]
RecPcs == {"idle", "look", "cut", "pause", "resume", "restart", "test", "set", "out"}
RecRecords == [pc : RecPcs, port : 1..(NPorts + 1), dev : Objs \cup {None, -1}]

TableTypes ==
    /\ port_to_device \in [Ports -> DevIds \cup {None}]
    /\ devices \in [DevIds -> Objs \cup {None}]
    /\ vdev \in [Objs -> VdevRecords]
    /\ t2dev \in [DevIds -> Ports \cup {None}]

\* No object has two device ids.
OneIdEach ==
    \A d, e \in DevIds : devices[d] # None /\ devices[d] = devices[e] => d = e

TableInv ==
    /\ TableTypes
    /\ OneIdEach
    /\ MappingIsSound

\* While the hub thread holds an object, because it destroys, rebuilds or refreshes
\* its device, the table does not have it, and the port has none; nor does the table
\* have the id that is destroyed on the T2.
HubHolds ==
    /\ hub \in HubRecords
    /\ hub.pc # "ports" => hub.port \in Ports
    /\ hub.pc \in {"destroy", "rebuild", "refresh"} =>
          /\ hub.port \in Ports /\ hub.port \notin Mapped
          /\ hub.dev \in Objs /\ \A d \in DevIds : devices[d] # hub.dev
    /\ hub.pc \in {"destroy", "refresh"} => hub.id \in DevIds /\ devices[hub.id] = None

\* What the worker holds on to between two steps.
WorkerHolds ==
    /\ rec \in RecRecords
    /\ rec.pc \in {"cut", "set"} => rec.port \in Ports
    /\ rec.pc = "cut" => rec.dev # None

MapInv ==
    /\ TableInv
    /\ HubHolds
    /\ WorkerHolds

\* None is no port, no device id and no object.
LEMMA Sizes ==
  /\ NPorts \in Nat /\ NPorts >= 1 /\ NDevIds \in Nat /\ NDevIds >= NPorts
  /\ NObjs \in Nat /\ NObjs >= NPorts
  /\ None \notin Ports /\ None \notin DevIds /\ None \notin Objs /\ -1 \notin Objs
  BY ControllerAssumption DEF None, Ports, DevIds, Objs

\* The table is kept when only objects that no port leads to, or ids that no port
\* has, go.
LEMMA SameTable ==
  ASSUME TableInv, UNCHANGED <<port_to_device, devices>>,
         vdev' \in [Objs -> VdevRecords], t2dev' \in [DevIds -> Ports \cup {None}],
         \A p \in Mapped : vdev'[VdevOf(p)].live /\ t2dev'[port_to_device[p]] = p
  PROVE  TableInv'
BY DEF TableInv, TableTypes, OneIdEach, MappingIsSound, Mapped, VdevOf

\* A port's device goes: neither its id nor its object is found any more.
LEMMA Unmapped ==
  ASSUME TableInv, NEW p \in Mapped, Unmap(p),
         vdev' \in [Objs -> VdevRecords], t2dev' \in [DevIds -> Ports \cup {None}],
         \A q \in Mapped \ {p} : vdev'[VdevOf(q)].live /\ t2dev'[port_to_device[q]] = q
  PROVE  /\ TableInv'
         /\ VdevOf(p) \in Objs /\ \A d \in DevIds : devices'[d] # VdevOf(p)
         /\ port_to_device[p] \in DevIds /\ devices'[port_to_device[p]] = None
         /\ p \in Ports /\ Mapped' = Mapped \ {p}
<1>1. /\ p \in Ports /\ port_to_device[p] \in DevIds /\ VdevOf(p) \in Objs
      /\ t2dev[port_to_device[p]] = p
  BY DEF TableInv, TableTypes, MappingIsSound, Mapped, VdevOf
<1>2. /\ port_to_device' = [port_to_device EXCEPT ![p] = None]
      /\ devices' = [devices EXCEPT ![port_to_device[p]] = None]
  BY DEF Unmap
<1>3. TableTypes'
  BY <1>1, <1>2 DEF TableInv, TableTypes
<1>4. Mapped' = Mapped \ {p}
  BY <1>1, <1>2 DEF Mapped, TableInv, TableTypes
<1>5. \A q \in Mapped \ {p} : /\ q \in Ports /\ port_to_device[q] \in DevIds
                              /\ port_to_device[q] # port_to_device[p]
                              /\ devices[port_to_device[q]] # None
  BY <1>1, Sizes DEF TableInv, TableTypes, MappingIsSound, Mapped, VdevOf
<1>6. \A q \in Mapped' : /\ port_to_device'[q] = port_to_device[q]
                        /\ devices'[port_to_device'[q]] = devices[port_to_device[q]]
  BY <1>1, <1>2, <1>4, <1>5 DEF TableInv, TableTypes
<1>7. \A d \in DevIds : devices'[d] # None => devices'[d] = devices[d] /\ d # port_to_device[p]
  BY <1>1, <1>2 DEF TableInv, TableTypes
<1>8. OneIdEach'
  BY <1>7 DEF TableInv, OneIdEach
<1>9. \A d \in DevIds : devices'[d] # None => \E q \in Ports : port_to_device'[q] = d
  BY <1>1, <1>2, <1>7 DEF TableInv, TableTypes, MappingIsSound
<1>10. MappingIsSound'
  BY <1>4, <1>5, <1>6, <1>9 DEF MappingIsSound, VdevOf
<1>11. \A d \in DevIds : devices'[d] # VdevOf(p)
  BY <1>1, <1>2, <1>7, Sizes DEF TableInv, OneIdEach, VdevOf
<1>12. devices'[port_to_device[p]] = None
  BY <1>1, <1>2 DEF TableInv, TableTypes
<1> QED BY <1>1, <1>3, <1>4, <1>8, <1>10, <1>11, <1>12 DEF TableInv

\* A device is put in the table, under an id and with an object that are not in it.
LEMMA Attached ==
  ASSUME TableInv, NEW p \in Ports \ Mapped, NEW d \in DevIds, NEW o \in Objs,
         NEW eps \in SUBSET {0, 1}, Attach(p, d, o, eps),
         devices[d] = None, \A e \in DevIds : devices[e] # o,
         t2dev' \in [DevIds -> Ports \cup {None}], t2dev'[d] = p,
         \A q \in Mapped : t2dev'[port_to_device[q]] = q
  PROVE  TableInv' /\ Mapped' = Mapped \cup {p}
<1>1. /\ port_to_device' = [port_to_device EXCEPT ![p] = d]
      /\ devices' = [devices EXCEPT ![d] = o]
      /\ vdev' = [vdev EXCEPT ![o] = FreshVdev(eps)]
  BY DEF Attach
<1>2. FreshVdev(eps) \in VdevRecords /\ FreshVdev(eps).live
  BY DEF FreshVdev, VdevRecords
<1>3. TableTypes'
  BY <1>1, <1>2 DEF TableInv, TableTypes
<1>4. Mapped' = Mapped \cup {p}
  BY <1>1, Sizes DEF Mapped, TableInv, TableTypes
<1>5. \A q \in Mapped : /\ q \in Ports /\ q # p /\ port_to_device[q] \in DevIds
                        /\ port_to_device[q] # d /\ VdevOf(q) \in Objs /\ VdevOf(q) # o
                        /\ VdevOf(q) # None /\ vdev[VdevOf(q)].live
  BY DEF TableInv, TableTypes, MappingIsSound, Mapped, VdevOf
<1>6. \A q \in Mapped : /\ port_to_device'[q] = port_to_device[q]
                       /\ VdevOf(q)' = VdevOf(q) /\ vdev'[VdevOf(q)] = vdev[VdevOf(q)]
  BY <1>1, <1>5 DEF TableInv, TableTypes, VdevOf
<1>7. port_to_device'[p] = d /\ VdevOf(p)' = o /\ vdev'[o].live
  BY <1>1, <1>2 DEF TableInv, TableTypes, VdevOf
<1>8. \A e \in DevIds : (e = d /\ devices'[e] = o) \/ (e # d /\ devices'[e] = devices[e])
  BY <1>1 DEF TableInv, TableTypes
<1>9. OneIdEach'
  BY <1>8 DEF TableInv, OneIdEach
<1>10. \A e \in DevIds : devices'[e] # None => \E q \in Ports : port_to_device'[q] = e
  <2> SUFFICES ASSUME NEW e \in DevIds, devices'[e] # None
               PROVE  \E q \in Ports : port_to_device'[q] = e
    OBVIOUS
  <2>1. CASE e = d
    BY <2>1, <1>7
  <2>2. CASE e # d
    <3>1. PICK q \in Ports : port_to_device[q] = e
      BY <2>2, <1>8 DEF TableInv, MappingIsSound
    <3>2. q \in Mapped
      BY <3>1, Sizes DEF Mapped
    <3> QED BY <3>1, <3>2, <1>6
  <2> QED BY <2>1, <2>2
<1>11. MappingIsSound'
  <2>1. \A q \in Mapped' : /\ VdevOf(q)' # None /\ vdev'[VdevOf(q)'].live
                           /\ t2dev'[port_to_device'[q]] = q
    BY <1>4, <1>5, <1>6, <1>7, Sizes
  <2> QED BY <2>1, <1>10 DEF MappingIsSound
<1> QED BY <1>3, <1>4, <1>9, <1>11 DEF TableInv

-----------------------------------------------------------------------------
(* Every step keeps the table.                                             *)

\* A value of hub with which the hub thread holds no object.
Loose(h) ==
    /\ h \in HubRecords
    /\ h.pc \notin {"destroy", "rebuild", "refresh"}
    /\ h.pc # "ports" => h.port \in Ports

LEMMA LooseKeeps == ASSUME MapInv, TableInv', Loose(hub'), UNCHANGED rec PROVE MapInv'
BY DEF MapInv, HubHolds, WorkerHolds, Loose

LEMMA Unmoved ==
  ASSUME TableInv, UNCHANGED <<mapVars, t2dev>> PROVE TableInv' /\ Mapped' = Mapped
<1>1. Mapped' = Mapped
  BY DEF mapVars, Mapped
<1> QED BY <1>1, SameTable DEF TableInv, TableTypes, MappingIsSound, VdevOf, mapVars

LEMMA HubValues ==
  /\ {"idle", "clear", "drop", "free", "destroy", "reset", "rebuild", "enable", "redrop", "add",
      "pause", "start", "ports", "refresh"} \subseteq HubPcs
  /\ 0 \in Resets /\ 2 \in Resets
BY DEF HubPcs, Resets

LEMMA PortsAreLess == \A p \in Ports : p \in 1..(NPorts + 1) /\ p + 1 \in 1..(NPorts + 1)
BY Sizes DEF Ports

\* The stages that the hub thread goes through without an object.
LEMMA IdleIsLoose == Loose(HubIdle) /\ HubIdle.pc = "idle" /\ ~HubIdle.connected
BY Sizes DEF HubIdle, Loose, HubRecords, HubPcs, Ports, None, Resets

LEMMA InitFailedIsLoose ==
  ASSUME HubHolds, hub.port \in Ports, hub' = InitFailed
  PROVE  /\ Loose(hub') /\ hub'.port = hub.port
         /\ hub'.pc = IF hub.port \in udev THEN "drop" ELSE "free"
<1> DEFINE pc == IF hub.port \in udev THEN "drop" ELSE "free"
<1>1. pc \in HubPcs /\ pc \in {"drop", "free"}
  BY DEF HubPcs
<1> HIDE DEF pc
<1>2. hub' = [HubIdle EXCEPT !.pc = pc, !.port = hub.port, !.connected = TRUE]
  BY DEF InitFailed, pc
<1>3. HubIdle \in HubRecords
  BY IdleIsLoose DEF Loose
<1>4. hub' \in HubRecords /\ hub'.pc = pc /\ hub'.port = hub.port
  BY <1>1, <1>2, <1>3, PortsAreLess DEF HubRecords
<1> QED BY <1>1, <1>4 DEF Loose, pc

LEMMA ReleasedIsLoose ==
  ASSUME HubHolds, hub.port \in Ports, Released
  PROVE  /\ Loose(hub')
         /\ hub' = HubIdle \/ (hub'.pc = "reset" /\ hub'.port = hub.port /\ bus = "up")
<1>1. CASE hub' = HubIdle
  BY <1>1, IdleIsLoose
<1>2. CASE /\ hub' = [HubIdle EXCEPT !.pc = "reset", !.port = hub.port, !.connected = TRUE,
                                     !.left = 2]
           /\ bus = "up"
  <2>1. HubIdle \in HubRecords /\ "reset" \in HubPcs /\ 2 \in Resets
    BY IdleIsLoose DEF Loose, HubPcs, Resets
  <2>2. hub' \in HubRecords /\ hub'.pc = "reset" /\ hub'.port = hub.port
    BY <1>2, <2>1, PortsAreLess DEF HubRecords
  <2> QED BY <1>2, <2>2 DEF Loose
<1> QED BY <1>1, <1>2 DEF Released

LEMMA InitialisedIsLoose ==
  ASSUME HubHolds, hub.port \in Ports, Initialised
  PROVE  /\ Loose(hub') /\ hub'.port = hub.port
         /\ \/ hub'.pc = "reset" /\ UNCHANGED udev
            \/ hub'.pc \in {"redrop", "add"} /\ udev' = udev \cup {hub.port}
<1>1. hub \in HubRecords /\ hub.left \in 0..2 /\ 0 \in Resets
  BY DEF HubHolds, HubRecords, Resets
<1>2. CASE hub.left > 1
  <2>1. hub' = [hub EXCEPT !.pc = "reset", !.left = hub.left - 1] /\ UNCHANGED udev
    BY <1>2 DEF Initialised
  <2>2. "reset" \in HubPcs /\ hub.left - 1 \in Resets
    BY <1>1, <1>2 DEF HubPcs, Resets
  <2>3. hub' \in HubRecords /\ hub'.pc = "reset" /\ hub'.port = hub.port
    BY <1>1, <2>1, <2>2 DEF HubRecords
  <2> QED BY <2>1, <2>3 DEF Loose
<1>3. CASE ~(hub.left > 1)
  <2> DEFINE pc == IF hub.port \in udev THEN "redrop" ELSE "add"
  <2>1. pc \in HubPcs /\ pc \in {"redrop", "add"}
    BY DEF HubPcs
  <2>2. hub' = [hub EXCEPT !.pc = pc, !.left = 0] /\ udev' = udev \cup {hub.port}
    BY <1>3 DEF Initialised
  <2> HIDE DEF pc
  <2>3. hub' \in HubRecords /\ hub'.pc = pc /\ hub'.port = hub.port
    BY <1>1, <2>1, <2>2 DEF HubRecords
  <2> QED BY <2>1, <2>2, <2>3 DEF Loose
<1> QED BY <1>2, <1>3

LEMMA NextPortIsLoose ==
  ASSUME HubHolds, hub.port \in Ports, hub' = NextPort
  PROVE  Loose(hub') /\ hub'.pc = "ports" /\ hub'.port = hub.port + 1
<1>1. hub.port + 1 \in 1..(NPorts + 1)
  BY Sizes DEF Ports
<1>2. HubIdle \in HubRecords
  BY IdleIsLoose DEF Loose
<1> QED BY <1>1, <1>2 DEF NextPort, Loose, HubRecords, HubPcs

\* What the hub thread does that leaves the table alone.
LEMMA HubLooksMap ==
  ASSUME MapInv,
         \/ \E p \in Ports : GetPortStatus(p) \/ ResetRequest(p) \/ RemoveDevice(p)
         \/ ClearConnection
  PROVE  MapInv'
<1>1. UNCHANGED <<mapVars, t2dev, rec>>
  BY DEF GetPortStatus, ResetRequest, RemoveDevice, ClearConnection, t2Vars, recVars
<1>2. hub \in HubRecords /\ ("clear" \in HubPcs /\ "reset" \in HubPcs /\ "drop" \in HubPcs)
  BY HubValues DEF MapInv, HubHolds
<1>3. Loose(hub')
  <2>1. ASSUME NEW p \in Ports, GetPortStatus(p) PROVE Loose(hub')
    <3> DEFINE c == p \in connected
    <3>1. c \in BOOLEAN
      OBVIOUS
    <3>2. \/ UNCHANGED hub
          \/ hub' = [hub EXCEPT !.pc = "clear", !.port = p]
          \/ hub' = [hub EXCEPT !.pc = "clear", !.port = p, !.connected = c]
      BY <2>1 DEF GetPortStatus
    <3> HIDE DEF c
    <3>3. CASE UNCHANGED hub
      <4>1. hub.pc = "idle" /\ hub.port \in Ports
        BY <2>1 DEF GetPortStatus, MapInv, HubHolds
      <4> QED BY <1>2, <3>3, <4>1 DEF Loose
    <3>4. CASE hub' # hub
      <4>1. hub' \in HubRecords /\ hub'.pc = "clear" /\ hub'.port = p
        BY <1>2, <3>1, <3>2, <3>4, PortsAreLess DEF HubRecords
      <4> QED BY <4>1 DEF Loose
    <3> QED BY <3>3, <3>4
  <2>2. ASSUME NEW p \in Ports, ResetRequest(p) PROVE Loose(hub')
    <3>1. hub' = [hub EXCEPT !.pc = "reset", !.port = p, !.left = 2]
      BY <2>2 DEF ResetRequest
    <3>2. hub' \in HubRecords /\ hub'.pc = "reset" /\ hub'.port = p
      BY <1>2, <3>1, PortsAreLess, HubValues DEF HubRecords
    <3> QED BY <3>2 DEF Loose
  <2>3. ASSUME NEW p \in Ports, RemoveDevice(p) PROVE Loose(hub')
    <3>1. hub' = [hub EXCEPT !.pc = "drop", !.port = p]
      BY <2>3 DEF RemoveDevice
    <3>2. hub' \in HubRecords /\ hub'.pc = "drop" /\ hub'.port = p
      BY <1>2, <3>1, PortsAreLess DEF HubRecords
    <3> QED BY <3>2 DEF Loose
  <2>4. CASE ClearConnection
    <3>1. hub.port \in Ports
      BY <2>4 DEF ClearConnection, MapInv, HubHolds
    <3>2. \/ hub' = [hub EXCEPT !.pc = "drop"] \/ hub' = HubIdle
          \/ hub' = [hub EXCEPT !.pc = "reset", !.left = 2]
      BY <2>4 DEF ClearConnection
    <3>3. CASE hub' = [hub EXCEPT !.pc = "drop"]
      <4>1. hub' \in HubRecords /\ hub'.pc = "drop" /\ hub'.port = hub.port
        BY <1>2, <3>3 DEF HubRecords
      <4> QED BY <3>1, <4>1 DEF Loose
    <3>4. CASE hub' = [hub EXCEPT !.pc = "reset", !.left = 2]
      <4>1. hub' \in HubRecords /\ hub'.pc = "reset" /\ hub'.port = hub.port
        BY <1>2, <3>4, HubValues DEF HubRecords
      <4> QED BY <3>1, <4>1 DEF Loose
    <3> QED BY <3>2, <3>3, <3>4, IdleIsLoose
  <2> QED BY <2>1, <2>2, <2>3, <2>4
<1> QED BY <1>1, <1>3, Unmoved, LooseKeeps DEF MapInv

\* An endpoint of the port's device goes or comes.
LEMMA EndpointsMap == ASSUME MapInv, DropEndpoint \/ AddEndpoint PROVE MapInv'
<1>1. UNCHANGED <<port_to_device, devices, t2dev, rec>> /\ hub.port \in Ports
  BY DEF DropEndpoint, AddEndpoint, t2Vars, recVars, MapInv, HubHolds
<1>2. Loose(hub')
  BY IdleIsLoose DEF DropEndpoint, AddEndpoint, MapInv, HubHolds, Loose, HubRecords, HubPcs, Ports
<1>3. \/ UNCHANGED vdev
      \/ /\ hub.port \in Mapped
         /\ \E eps \in SUBSET {0, 1} : vdev' = [vdev EXCEPT ![VdevOf(hub.port)].eps = eps]
  <2>1. CASE hub.port \in Mapped
    <3>1. VdevOf(hub.port) \in Objs /\ vdev[VdevOf(hub.port)].eps \in SUBSET {0, 1}
      BY <2>1 DEF MapInv, TableInv, TableTypes, MappingIsSound, VdevOf, VdevRecords, Mapped
    <3> DEFINE eps == vdev[VdevOf(hub.port)].eps
    <3>2. /\ DropEndpoint => vdev' = [vdev EXCEPT ![VdevOf(hub.port)].eps = eps \cap {0}]
          /\ AddEndpoint => \/ vdev' = [vdev EXCEPT ![VdevOf(hub.port)].eps = eps \cup {1}]
                            \/ UNCHANGED vdev
      BY <2>1 DEF DropEndpoint, AddEndpoint
    <3>3. eps \cap {0} \in SUBSET {0, 1} /\ eps \cup {1} \in SUBSET {0, 1}
      BY <3>1
    <3> HIDE DEF eps
    <3> QED BY <2>1, <3>2, <3>3
  <2>2. CASE hub.port \notin Mapped
    BY <2>2 DEF DropEndpoint, AddEndpoint
  <2> QED BY <2>1, <2>2
<1>4. /\ vdev' \in [Objs -> VdevRecords]
      /\ \A p \in Mapped : vdev'[VdevOf(p)].live /\ t2dev'[port_to_device[p]] = p
  <2>1. \A p \in Mapped : /\ VdevOf(p) \in Objs /\ vdev[VdevOf(p)].live
                          /\ t2dev[port_to_device[p]] = p
    BY DEF MapInv, TableInv, TableTypes, MappingIsSound, VdevOf, Mapped
  <2>2. CASE UNCHANGED vdev
    BY <1>1, <2>1, <2>2 DEF MapInv, TableInv, TableTypes
  <2>3. ASSUME NEW eps \in SUBSET {0, 1}, hub.port \in Mapped,
               vdev' = [vdev EXCEPT ![VdevOf(hub.port)].eps = eps]
        PROVE  <1>4!:
    <3> DEFINE o == VdevOf(hub.port)
               new == [vdev[o] EXCEPT !.eps = eps]
    <3>1. o \in Objs /\ vdev[o] \in VdevRecords
      BY <2>1, <2>3 DEF MapInv, TableInv, TableTypes
    <3>2. new \in VdevRecords /\ (new.live <=> vdev[o].live)
      BY <3>1 DEF VdevRecords
    <3>3. vdev' = [vdev EXCEPT ![o] = new]
      BY <2>3, <3>1 DEF MapInv, TableInv, TableTypes
    <3> HIDE DEF o, new
    <3> QED BY <1>1, <2>1, <3>1, <3>2, <3>3 DEF MapInv, TableInv, TableTypes
  <2> QED BY <1>3, <2>2, <2>3
<1>5. TableInv'
  BY <1>1, <1>4, SameTable DEF MapInv, TableInv, TableTypes
<1> QED BY <1>1, <1>2, <1>5, LooseKeeps

\* A device is freed in two steps.
LEMMA FreeDeviceMap == ASSUME MapInv, FreeDevice PROVE MapInv'
<1>1. /\ hub.pc = "free" /\ hub.port \in Ports /\ hub \in HubRecords
      /\ UNCHANGED <<vdev, t2dev, rec>>
  BY DEF FreeDevice, MapInv, HubHolds, t2Vars, recVars
<1>2. CASE hub.port \in Mapped
  <2> DEFINE o == VdevOf(hub.port)
             d == port_to_device[hub.port]
  <2>1. Unmap(hub.port) /\ hub' = [hub EXCEPT !.pc = "destroy", !.dev = o, !.id = d]
    BY <1>2 DEF FreeDevice
  <2>2. \A q \in Mapped \ {hub.port} : vdev'[VdevOf(q)].live /\ t2dev'[port_to_device[q]] = q
    BY <1>1 DEF MapInv, TableInv, MappingIsSound
  <2>3. /\ TableInv'
        /\ o \in Objs /\ \A e \in DevIds : devices'[e] # o
        /\ d \in DevIds /\ devices'[d] = None
        /\ hub.port \notin Mapped'
    BY <1>1, <1>2, <2>1, <2>2, Unmapped DEF MapInv, TableInv, TableTypes
  <2> HIDE DEF o, d
  <2>4. /\ hub' \in HubRecords /\ hub'.pc = "destroy" /\ hub'.port = hub.port
        /\ hub'.dev = o /\ hub'.id = d
    BY <1>1, <2>1, <2>3, HubValues DEF HubRecords
  <2>5. HubHolds'
    BY <1>1, <2>3, <2>4 DEF HubHolds
  <2> QED BY <1>1, <2>3, <2>5 DEF MapInv, WorkerHolds
<1>3. CASE hub.port \notin Mapped
  <2>1. UNCHANGED <<mapVars, t2dev>> /\ Released
    BY <1>1, <1>3 DEF FreeDevice, mapVars
  <2>2. Loose(hub')
    BY <1>1, <2>1, ReleasedIsLoose DEF MapInv
  <2> QED BY <1>1, <2>1, <2>2, Unmoved, LooseKeeps DEF MapInv
<1> QED BY <1>2, <1>3

\* What Kfree leaves of an object that is not in the table.
LEMMA KfreeMap ==
  ASSUME MapInv, NEW o \in Objs, \A d \in DevIds : devices[d] # o, Kfree(o)
  PROVE  /\ vdev' \in [Objs -> VdevRecords] /\ \A p \in Mapped : vdev'[VdevOf(p)].live
         /\ WorkerHolds'
<1>1. NoVdev \in VdevRecords
  BY DEF NoVdev, VdevRecords
<1>2. \A p \in Mapped : VdevOf(p) \in Objs /\ VdevOf(p) # o /\ vdev[VdevOf(p)].live
  BY DEF MapInv, TableInv, TableTypes, MappingIsSound, VdevOf, Mapped
<1>3. vdev' \in [Objs -> VdevRecords] /\ \A p \in Mapped : vdev'[VdevOf(p)].live
  BY <1>1, <1>2 DEF Kfree, MapInv, TableInv, TableTypes
<1>4. /\ rec' \in RecRecords /\ rec'.pc = rec.pc /\ rec'.port = rec.port
      /\ rec'.dev = rec.dev \/ rec'.dev = -1
  BY DEF Kfree, MapInv, WorkerHolds, RecRecords
<1>5. WorkerHolds'
  BY <1>4 DEF MapInv, WorkerHolds, None
<1> QED BY <1>3, <1>5

LEMMA FreeDeviceDestroyMap == ASSUME MapInv, FreeDeviceDestroy PROVE MapInv'
<1>1. /\ hub.port \in Ports /\ hub.dev \in Objs /\ hub.id \in DevIds
      /\ devices[hub.id] = None /\ \A d \in DevIds : devices[d] # hub.dev
      /\ UNCHANGED <<port_to_device, devices>> /\ Kfree(hub.dev) /\ Released
  BY DEF FreeDeviceDestroy, MapInv, HubHolds
<1>2. t2dev' = t2dev \/ t2dev' = [t2dev EXCEPT ![hub.id] = None]
  BY DEF FreeDeviceDestroy, DeviceDestroy
<1>3. /\ t2dev' \in [DevIds -> Ports \cup {None}]
      /\ \A p \in Mapped : t2dev'[port_to_device[p]] = p
  BY <1>1, <1>2 DEF MapInv, TableInv, TableTypes, MappingIsSound, VdevOf, Mapped
<1>4. /\ vdev' \in [Objs -> VdevRecords] /\ \A p \in Mapped : vdev'[VdevOf(p)].live
      /\ WorkerHolds'
  BY <1>1, KfreeMap
<1>5. TableInv'
  BY <1>1, <1>3, <1>4, SameTable DEF MapInv
<1>6. Loose(hub')
  BY <1>1, ReleasedIsLoose DEF MapInv
<1> QED BY <1>4, <1>5, <1>6 DEF MapInv, HubHolds, Loose

\* A device is reset in two steps.
LEMMA ResetDeviceMap == ASSUME MapInv, ResetDevice PROVE MapInv'
<1>1. /\ hub.pc = "reset" /\ hub.port \in Ports /\ hub \in HubRecords
      /\ UNCHANGED <<vdev, rec>>
  BY DEF ResetDevice, MapInv, HubHolds, recVars
<1>2. CASE port_resume_skip_reset[hub.port] = 0 /\ hub.port \in Mapped
  <2> DEFINE o == VdevOf(hub.port)
             d == port_to_device[hub.port]
  <2>1. /\ Unmap(hub.port) /\ hub' = [hub EXCEPT !.pc = "rebuild", !.dev = o]
        /\ t2dev' = t2dev \/ t2dev' = [t2dev EXCEPT ![d] = None]
    BY <1>2 DEF ResetDevice, DeviceDestroy
  <2>2. \A q \in Mapped \ {hub.port} :
           /\ port_to_device[q] # d /\ port_to_device[q] \in DevIds
           /\ vdev[VdevOf(q)].live /\ t2dev[port_to_device[q]] = q
    BY <1>2 DEF MapInv, TableInv, TableTypes, MappingIsSound, Mapped
  <2>3. /\ t2dev' \in [DevIds -> Ports \cup {None}]
        /\ \A q \in Mapped \ {hub.port} : vdev'[VdevOf(q)].live /\ t2dev'[port_to_device[q]] = q
    BY <1>1, <2>1, <2>2 DEF MapInv, TableInv, TableTypes
  <2>4. /\ TableInv'
        /\ o \in Objs /\ \A e \in DevIds : devices'[e] # o
        /\ hub.port \notin Mapped'
    BY <1>1, <1>2, <2>1, <2>3, Unmapped DEF MapInv, TableInv, TableTypes
  <2> HIDE DEF o, d
  <2>5. hub' \in HubRecords /\ hub'.pc = "rebuild" /\ hub'.port = hub.port /\ hub'.dev = o
    BY <1>1, <2>1, <2>4, HubValues DEF HubRecords
  <2>6. HubHolds'
    BY <1>1, <2>4, <2>5 DEF HubHolds
  <2> QED BY <1>1, <2>4, <2>6 DEF MapInv, WorkerHolds
<1>3. CASE ~(port_resume_skip_reset[hub.port] = 0 /\ hub.port \in Mapped)
  <2>1. /\ UNCHANGED <<mapVars, t2dev>>
        /\ hub' = [hub EXCEPT !.pc = "enable"] \/ hub' = InitFailed
    BY <1>1, <1>3 DEF ResetDevice, mapVars
  <2>2. CASE hub' = [hub EXCEPT !.pc = "enable"]
    <3>1. hub' \in HubRecords /\ hub'.pc = "enable" /\ hub'.port = hub.port
      BY <1>1, <2>2, HubValues DEF HubRecords
    <3>2. Loose(hub')
      BY <1>1, <3>1 DEF Loose
    <3> QED BY <1>1, <2>1, <3>2, Unmoved, LooseKeeps DEF MapInv
  <2>3. CASE hub' = InitFailed
    <3>1. Loose(hub')
      BY <1>1, <2>3, InitFailedIsLoose DEF MapInv
    <3> QED BY <1>1, <2>1, <3>1, Unmoved, LooseKeeps DEF MapInv
  <2> QED BY <2>1, <2>2, <2>3
<1> QED BY <1>2, <1>3

\* The T2 hands out an id that it has free, which the table does not have.
LEMMA CreatedId ==
  ASSUME MapInv, NEW p \in Ports, NEW d, NEW o, DeviceCreate(p, d, o)
  PROVE  /\ t2dev' \in [DevIds -> Ports \cup {None}]
         /\ \A q \in Mapped : t2dev'[port_to_device[q]] = q
         /\ Created(d, o) => d \in DevIds /\ devices[d] = None /\ t2dev'[d] = p
<1>1. d = None \/ d \in FreeIds
  BY DEF DeviceCreate
<1>2. d # None => d \in DevIds /\ t2dev[d] = None
  BY <1>1 DEF FreeIds
<1>3. d # None => devices[d] = None
  BY <1>2, Sizes DEF MapInv, TableInv, MappingIsSound, Mapped
<1>4. \A q \in Mapped : /\ q \in Ports /\ port_to_device[q] \in DevIds
                        /\ t2dev[port_to_device[q]] = q /\ port_to_device[q] # d
  BY <1>2, Sizes DEF MapInv, TableInv, TableTypes, MappingIsSound, Mapped
<1>5. /\ t2dev' = t2dev \/ (d # None /\ t2dev' = [t2dev EXCEPT ![d] = p])
      /\ Created(d, o) => d # None /\ t2dev' = [t2dev EXCEPT ![d] = p]
  BY DEF DeviceCreate, Created, Executed
<1> QED BY <1>2, <1>3, <1>4, <1>5 DEF MapInv, TableInv, TableTypes

LEMMA RebuildMap == ASSUME MapInv, ResetDeviceRebuild PROVE MapInv'
<1>1. /\ hub.pc = "rebuild" /\ hub.port \in Ports /\ hub.port \notin Mapped /\ hub \in HubRecords
      /\ hub.dev \in Objs /\ \A e \in DevIds : devices[e] # hub.dev
      /\ UNCHANGED rec
  BY DEF ResetDeviceRebuild, MapInv, HubHolds, recVars
<1>2. PICK o \in Outcomes, d \in DevIds \cup {None}, failed \in {{}, {1}} :
        /\ DeviceCreate(hub.port, d, o)
        /\ IF Created(d, o) THEN /\ Attach(hub.port, d, hub.dev, vdev[hub.dev].eps \ failed)
                                 /\ hub' = [hub EXCEPT !.pc = "enable", !.dev = None]
                            ELSE hub' = InitFailed /\ UNCHANGED mapVars
  BY DEF ResetDeviceRebuild
<1>3. /\ t2dev' \in [DevIds -> Ports \cup {None}]
      /\ \A q \in Mapped : t2dev'[port_to_device[q]] = q
      /\ Created(d, o) => d \in DevIds /\ devices[d] = None /\ t2dev'[d] = hub.port
  BY <1>1, <1>2, CreatedId
<1>4. CASE Created(d, o)
  <2> DEFINE eps == vdev[hub.dev].eps \ failed
  <2>1. eps \in SUBSET {0, 1}
    BY <1>1 DEF MapInv, TableInv, TableTypes, VdevRecords
  <2>2. Attach(hub.port, d, hub.dev, eps) /\ hub' = [hub EXCEPT !.pc = "enable", !.dev = None]
    BY <1>2, <1>4
  <2> HIDE DEF eps
  <2>3. TableInv'
    BY <1>1, <1>3, <1>4, <2>1, <2>2, Attached DEF MapInv
  <2>4. hub' \in HubRecords /\ hub'.pc = "enable" /\ hub'.port = hub.port
    BY <1>1, <2>2, HubValues DEF HubRecords
  <2> QED BY <1>1, <2>3, <2>4, LooseKeeps DEF Loose
<1>5. CASE ~Created(d, o)
  <2>1. Loose(hub')
    BY <1>1, <1>2, <1>5, InitFailedIsLoose DEF MapInv
  <2>2. TableInv'
    BY <1>2, <1>3, <1>5, SameTable
       DEF MapInv, TableInv, TableTypes, MappingIsSound, mapVars
  <2> QED BY <1>1, <2>1, <2>2, LooseKeeps
<1> QED BY <1>4, <1>5

\* A device that the port has not is created; the USB core may fail to use it.
LEMMA EnableDeviceMap == ASSUME MapInv, EnableDevice PROVE MapInv'
<1>1. hub.pc = "enable" /\ hub.port \in Ports /\ UNCHANGED rec
  BY DEF EnableDevice, MapInv, HubHolds, recVars
<1>2. CASE UNCHANGED <<mapVars, t2dev>> /\ (Initialised \/ hub' = InitFailed)
  <2>1. Loose(hub')
    BY <1>1, <1>2, InitFailedIsLoose, InitialisedIsLoose DEF MapInv
  <2> QED BY <1>1, <1>2, <2>1, Unmoved, LooseKeeps DEF MapInv
<1>3. ASSUME hub.port \notin Mapped, NEW o \in Outcomes, NEW d \in DevIds \cup {None},
             DeviceCreate(hub.port, d, o),
             IF Created(d, o) /\ \E n \in Objs : ~vdev[n].live
               THEN /\ Attach(hub.port, d, CHOOSE n \in Objs : ~vdev[n].live, {0})
                    /\ Initialised
               ELSE hub' = InitFailed /\ UNCHANGED <<mapVars, udev>>
      PROVE  MapInv'
  <2>1. /\ t2dev' \in [DevIds -> Ports \cup {None}]
        /\ \A q \in Mapped : t2dev'[port_to_device[q]] = q
        /\ Created(d, o) => d \in DevIds /\ devices[d] = None /\ t2dev'[d] = hub.port
    BY <1>1, <1>3, CreatedId
  <2>2. CASE Created(d, o) /\ \E n \in Objs : ~vdev[n].live
    <3> DEFINE n == CHOOSE n \in Objs : ~vdev[n].live
    <3>1. n \in Objs /\ ~vdev[n].live
      BY <2>2
    <3>2. Attach(hub.port, d, n, {0}) /\ Initialised
      BY <1>3, <2>2
    <3> HIDE DEF n
    <3>3. \A e \in DevIds : devices[e] # n
      BY <3>1, Sizes DEF MapInv, TableInv, TableTypes, MappingIsSound, Mapped, VdevOf
    <3>4. TableInv'
      BY <1>1, <1>3, <2>1, <2>2, <3>1, <3>2, <3>3, Attached DEF MapInv
    <3>5. Loose(hub')
      BY <1>1, <3>2, InitialisedIsLoose DEF MapInv
    <3> QED BY <1>1, <3>4, <3>5, LooseKeeps
  <2>3. CASE ~(Created(d, o) /\ \E n \in Objs : ~vdev[n].live)
    <3>1. hub' = InitFailed /\ UNCHANGED mapVars
      BY <1>3, <2>3
    <3>2. Loose(hub')
      BY <1>1, <3>1, InitFailedIsLoose DEF MapInv
    <3>3. TableInv'
      BY <2>1, <3>1, SameTable DEF MapInv, TableInv, TableTypes, MappingIsSound, mapVars
    <3> QED BY <1>1, <3>2, <3>3, LooseKeeps
  <2> QED BY <2>2, <2>3
<1> QED BY <1>2, <1>3 DEF EnableDevice

\* A suspend pauses the endpoints and leaves the table alone.
LEMMA SuspendMap == ASSUME MapInv, BusSuspend PROVE MapInv'
<1>1. /\ UNCHANGED <<port_to_device, devices, t2dev, rec>>
      /\ hub.pc = "idle" /\ hub.port \in Ports /\ hub \in HubRecords
      /\ hub' = [hub EXCEPT !.pc = "pause"]
  BY DEF BusSuspend, MapInv, HubHolds, t2Vars, recVars
<1>2. \A o \in Objs : /\ vdev'[o] \in VdevRecords
                      /\ vdev'[o].live <=> vdev[o].live
  <2> SUFFICES ASSUME NEW o \in Objs
               PROVE  vdev'[o] \in VdevRecords /\ (vdev'[o].live <=> vdev[o].live)
    OBVIOUS
  <2> DEFINE v == vdev[o]
             new == [v EXCEPT !.paused = TRUE]
  <2>1. v \in VdevRecords
    BY DEF MapInv, TableInv, TableTypes
  <2>2. vdev'[o] = new \/ vdev'[o] = v
    BY DEF BusSuspend
  <2>3. new \in VdevRecords /\ (new.live <=> v.live)
    BY <2>1 DEF VdevRecords
  <2> HIDE DEF new
  <2> QED BY <2>1, <2>2, <2>3
<1>3. vdev' \in [Objs -> VdevRecords]
  <2>1. \E f : vdev' = [o \in Objs |-> f[o]]
    <3> DEFINE f == [o \in Objs |-> IF \E p \in Mapped : VdevOf(p) = o
                                      THEN [vdev[o] EXCEPT !.paused = TRUE] ELSE vdev[o]]
    <3>1. vdev' = f
      BY DEF BusSuspend
    <3>2. f = [o \in Objs |-> f[o]]
      OBVIOUS
    <3> QED BY <3>1, <3>2
  <2> QED BY <1>2, <2>1
<1>4. \A p \in Mapped : vdev'[VdevOf(p)].live /\ t2dev'[port_to_device[p]] = p
  BY <1>1, <1>2 DEF MapInv, TableInv, TableTypes, MappingIsSound, VdevOf, Mapped
<1>5. TableInv'
  BY <1>1, <1>3, <1>4, SameTable DEF MapInv, TableInv, TableTypes
<1>6. hub' \in HubRecords /\ hub'.pc = "pause" /\ hub'.port = hub.port
  BY <1>1, HubValues DEF HubRecords
<1> QED BY <1>1, <1>5, <1>6, LooseKeeps DEF Loose

\* The stages of a suspend and of a resume between the ports.
LEMMA PmStagesMap ==
  ASSUME MapInv, BusSuspendPause \/ BusResume \/ BusResumeStart \/ BusResumeEnd
  PROVE  MapInv'
<1>1. UNCHANGED <<mapVars, t2dev, rec>>
  BY DEF BusSuspendPause, BusResume, BusResumeStart, BusResumeEnd, t2Vars, recVars
<1>2. hub \in HubRecords
  BY DEF MapInv, HubHolds
<1>3. \/ hub' = HubIdle
      \/ UNCHANGED hub /\ hub.pc = "idle"
      \/ hub' = [hub EXCEPT !.pc = "start"] /\ hub.port \in Ports
      \/ hub' = [hub EXCEPT !.pc = "ports", !.port = 1]
  BY DEF BusSuspendPause, BusResume, BusResumeStart, BusResumeEnd, MapInv, HubHolds
<1>4. Loose(hub')
  <2>1. CASE UNCHANGED hub /\ hub.pc = "idle"
    BY <2>1 DEF Loose, MapInv, HubHolds
  <2>2. CASE hub' = [hub EXCEPT !.pc = "start"] /\ hub.port \in Ports
    <3>1. hub' \in HubRecords /\ hub'.pc = "start" /\ hub'.port = hub.port
      BY <1>2, <2>2, HubValues DEF HubRecords
    <3> QED BY <2>2, <3>1 DEF Loose
  <2>3. CASE hub' = [hub EXCEPT !.pc = "ports", !.port = 1]
    <3>1. 1 \in 1..(NPorts + 1)
      BY Sizes
    <3>2. hub' \in HubRecords /\ hub'.pc = "ports"
      BY <1>2, <2>3, <3>1, HubValues DEF HubRecords
    <3> QED BY <3>2 DEF Loose
  <2> QED BY <1>3, <2>1, <2>2, <2>3, IdleIsLoose
<1> QED BY <1>1, <1>4, Unmoved, LooseKeeps DEF MapInv

\* The port of the loop: its device is resumed, or taken down.
LEMMA ResumePortMap == ASSUME MapInv, BusResumePort PROVE MapInv'
<1>1. /\ hub.pc = "ports" /\ hub.port \in Ports /\ hub \in HubRecords
      /\ UNCHANGED <<t2dev, rec>>
  BY DEF BusResumePort, MapInv, HubHolds, recVars
<1>2. CASE UNCHANGED mapVars /\ hub' = NextPort
  BY <1>1, <1>2, NextPortIsLoose, Unmoved, LooseKeeps DEF MapInv
<1>3. CASE /\ hub.port \in Mapped
           /\ vdev' = [vdev EXCEPT ![VdevOf(hub.port)].paused = FALSE]
           /\ hub' = NextPort
           /\ UNCHANGED <<port_to_device, devices>>
  <2> DEFINE o == VdevOf(hub.port)
             new == [vdev[o] EXCEPT !.paused = FALSE]
  <2>1. o \in Objs /\ vdev[o] \in VdevRecords
    BY <1>3 DEF MapInv, TableInv, TableTypes, MappingIsSound, VdevOf, Mapped
  <2>2. new \in VdevRecords /\ (new.live <=> vdev[o].live)
    BY <2>1 DEF VdevRecords
  <2>3. vdev' = [vdev EXCEPT ![o] = new]
    BY <1>3, <2>1 DEF MapInv, TableInv, TableTypes
  <2> HIDE DEF o, new
  <2>4. /\ vdev' \in [Objs -> VdevRecords]
        /\ \A p \in Mapped : vdev'[VdevOf(p)].live /\ t2dev'[port_to_device[p]] = p
    BY <1>1, <2>1, <2>2, <2>3
       DEF MapInv, TableInv, TableTypes, MappingIsSound, VdevOf, Mapped
  <2>5. TableInv'
    BY <1>1, <1>3, <2>4, SameTable DEF MapInv, TableInv, TableTypes
  <2> QED BY <1>1, <1>3, <2>5, NextPortIsLoose, LooseKeeps DEF MapInv
<1>4. CASE /\ hub.port \in Mapped
           /\ hub' = [hub EXCEPT !.pc = "refresh", !.dev = VdevOf(hub.port),
                                 !.id = port_to_device[hub.port]]
           /\ vdev' = [vdev EXCEPT ![VdevOf(hub.port)] = FreshVdev({})]
           /\ Unmap(hub.port)
  <2> DEFINE o == VdevOf(hub.port)
             d == port_to_device[hub.port]
  <2>1. o \in Objs /\ FreshVdev({}) \in VdevRecords
    BY <1>4 DEF MapInv, TableInv, TableTypes, MappingIsSound, VdevOf, Mapped, FreshVdev,
                VdevRecords
  <2>2. \A q \in Mapped \ {hub.port} :
           /\ VdevOf(q) \in Objs /\ VdevOf(q) # o
           /\ vdev[VdevOf(q)].live /\ t2dev[port_to_device[q]] = q
    BY <1>4 DEF MapInv, TableInv, TableTypes, OneIdEach, MappingIsSound, VdevOf, Mapped
  <2>3. /\ vdev' \in [Objs -> VdevRecords]
        /\ \A q \in Mapped \ {hub.port} : vdev'[VdevOf(q)].live /\ t2dev'[port_to_device[q]] = q
    BY <1>1, <1>4, <2>1, <2>2 DEF MapInv, TableInv, TableTypes
  <2>4. /\ TableInv'
        /\ o \in Objs /\ \A e \in DevIds : devices'[e] # o
        /\ d \in DevIds /\ devices'[d] = None
        /\ hub.port \notin Mapped'
    BY <1>1, <1>4, <2>3, Unmapped DEF MapInv, TableInv, TableTypes
  <2>5. hub' = [hub EXCEPT !.pc = "refresh", !.dev = o, !.id = d]
    BY <1>4
  <2> HIDE DEF o, d
  <2>6. /\ hub' \in HubRecords /\ hub'.pc = "refresh" /\ hub'.port = hub.port
        /\ hub'.dev = o /\ hub'.id = d
    BY <1>1, <2>4, <2>5, HubValues DEF HubRecords
  <2>7. HubHolds'
    BY <1>1, <2>4, <2>6 DEF HubHolds
  <2> QED BY <1>1, <2>4, <2>7 DEF MapInv, WorkerHolds
<1> QED BY <1>2, <1>3, <1>4 DEF BusResumePort

\* The T2 answers a refresh with the id it had or with a free one.
LEMMA RefreshedId ==
  ASSUME MapInv, hub.pc = "refresh", NEW d \in DevIds, t2dev[d] = None \/ d = hub.id,
         t2dev' = [t2dev EXCEPT ![hub.id] = None, ![d] = hub.port]
  PROVE  /\ t2dev' \in [DevIds -> Ports \cup {None}]
         /\ \A q \in Mapped : t2dev'[port_to_device[q]] = q
         /\ devices[d] = None /\ t2dev'[d] = hub.port
<1>1. hub.port \in Ports /\ hub.id \in DevIds /\ devices[hub.id] = None
  BY DEF MapInv, HubHolds
<1>2. devices[d] = None
  BY <1>1, Sizes DEF MapInv, TableInv, MappingIsSound, Mapped
<1>3. \A q \in Mapped : /\ q \in Ports /\ port_to_device[q] \in DevIds
                        /\ t2dev[port_to_device[q]] = q
                        /\ port_to_device[q] # d /\ port_to_device[q] # hub.id
  BY <1>1, <1>2 DEF MapInv, TableInv, TableTypes, MappingIsSound, Mapped, VdevOf
<1> QED BY <1>1, <1>2, <1>3 DEF MapInv, TableInv, TableTypes

LEMMA RefreshMap == ASSUME MapInv, BusResumeRefresh PROVE MapInv'
<1>1. /\ hub.pc = "refresh" /\ hub.port \in Ports /\ hub.port \notin Mapped
      /\ hub.dev \in Objs /\ \A e \in DevIds : devices[e] # hub.dev
      /\ UNCHANGED rec /\ hub' = NextPort
  BY DEF BusResumeRefresh, MapInv, HubHolds, recVars
<1>2. PICK d \in DevIds :
        /\ t2dev[d] = None \/ d = hub.id
        /\ t2dev' = [t2dev EXCEPT ![hub.id] = None, ![d] = hub.port]
        /\ Attach(hub.port, d, hub.dev, {0})
  BY DEF BusResumeRefresh
<1>3. TableInv'
  <2>1. /\ t2dev' \in [DevIds -> Ports \cup {None}]
        /\ \A q \in Mapped : t2dev'[port_to_device[q]] = q
        /\ devices[d] = None /\ t2dev'[d] = hub.port
    BY <1>1, <1>2, RefreshedId
  <2>2. {0} \in SUBSET {0, 1}
    OBVIOUS
  <2> QED BY <1>1, <1>2, <2>1, <2>2, Attached DEF MapInv
<1> QED BY <1>1, <1>3, NextPortIsLoose, LooseKeeps DEF MapInv

LEMMA RefreshFailMap == ASSUME MapInv, BusResumeRefreshFail PROVE MapInv'
<1>1. /\ hub.pc = "refresh" /\ hub.port \in Ports /\ hub.id \in DevIds
      /\ devices[hub.id] = None
      /\ hub.dev \in Objs /\ \A e \in DevIds : devices[e] # hub.dev
      /\ UNCHANGED <<port_to_device, devices>> /\ Kfree(hub.dev) /\ hub' = NextPort
  BY DEF BusResumeRefreshFail, MapInv, HubHolds
<1>2. \/ t2dev' = t2dev \/ t2dev' = [t2dev EXCEPT ![hub.id] = None]
      \/ \E d \in DevIds : /\ t2dev[d] = None \/ d = hub.id
                           /\ t2dev' = [t2dev EXCEPT ![hub.id] = None, ![d] = hub.port]
  BY DEF BusResumeRefreshFail, DeviceDestroy
<1>3. /\ t2dev' \in [DevIds -> Ports \cup {None}]
      /\ \A p \in Mapped : t2dev'[port_to_device[p]] = p
  <2>1. CASE t2dev' = t2dev \/ t2dev' = [t2dev EXCEPT ![hub.id] = None]
    BY <1>1, <2>1 DEF MapInv, TableInv, TableTypes, MappingIsSound, VdevOf, Mapped
  <2>2. CASE \E d \in DevIds : /\ t2dev[d] = None \/ d = hub.id
                               /\ t2dev' = [t2dev EXCEPT ![hub.id] = None, ![d] = hub.port]
    BY <1>1, <2>2, RefreshedId
  <2> QED BY <1>2, <2>1, <2>2
<1>4. /\ vdev' \in [Objs -> VdevRecords] /\ \A p \in Mapped : vdev'[VdevOf(p)].live
      /\ WorkerHolds'
  BY <1>1, KfreeMap
<1>5. TableInv'
  BY <1>1, <1>3, <1>4, SameTable DEF MapInv
<1>6. Loose(hub')
  BY <1>1, NextPortIsLoose DEF MapInv
<1> QED BY <1>4, <1>5, <1>6 DEF MapInv, HubHolds, Loose

\* Of a set of naturals that has an element there is a least one.
LEMMA Least == ASSUME NEW S \in SUBSET Nat, S # {} PROVE \E n \in S : \A m \in S : n <= m
<1> DEFINE R == {ss \in Nat \X Nat : ss[1] < ss[2]}
<1>1. IsWellFoundedOn(R, Nat)
  <2>1. R = OpToRel(<, Nat)
    BY Zenon DEF OpToRel
  <2> QED BY <2>1, NatLessThanWellFounded, Zenon
<1>2. \E n \in S : \A m \in S : <<m, n>> \notin R
  BY <1>1, WFMin
<1>3. \A m, n \in Nat : m < n => <<m, n>> \in R
  OBVIOUS
<1> HIDE DEF R
<1>4. PICK n \in S : \A m \in S : <<m, n>> \notin R
  BY <1>2
<1>5. \A m \in S : m \in Nat /\ n \in Nat /\ ~(m < n)
  BY <1>3, <1>4
<1> QED BY <1>5

\* What the loops of the worker find: the next port that has a device, or the end.
LEMMA NextMappedIs ==
  ASSUME NEW from \in 1..(NPorts + 1)
  PROVE  /\ NextMapped(from) \in from..(NPorts + 1)
         /\ NextMapped(from) \in Ports => NextMapped(from) \in Mapped
         /\ NextMapped(from) \notin Ports => NextMapped(from) = NPorts + 1
         /\ \A q \in Mapped : q >= from => q >= NextMapped(from)
<1> DEFINE S == {p \in from..(NPorts + 1) : p \in Mapped \/ p = NPorts + 1}
<1>1. S \in SUBSET Nat /\ NPorts + 1 \in S
  BY Sizes
<1>2. PICK p \in S : \A m \in S : p <= m
  BY <1>1, Least
<1>3. /\ p \in from..(NPorts + 1)
      /\ p \in Mapped \/ p = NPorts + 1
      /\ \A q \in from..(p - 1) : q \notin Mapped
  BY <1>2, Sizes
<1>4. /\ NextMapped(from) \in from..(NPorts + 1)
      /\ NextMapped(from) \in Mapped \/ NextMapped(from) = NPorts + 1
      /\ \A q \in from..(NextMapped(from) - 1) : q \notin Mapped
  BY <1>3 DEF NextMapped
<1> HIDE DEF S
<1>5. NPorts + 1 \notin Ports /\ Mapped \subseteq Ports
  BY Sizes DEF Ports, Mapped
<1>6. NextMapped(from) \in from..(NPorts + 1) /\ NextMapped(from) \notin Ports
         => NextMapped(from) = NPorts + 1
  BY Sizes DEF Ports
<1>7. \A q \in Mapped : q >= from => q >= NextMapped(from)
  BY <1>4, <1>5, Sizes DEF Ports
<1> QED BY <1>4, <1>5, <1>6, <1>7

\* The worker leaves the table alone, but for the endpoints it cuts off.
LEMMA RecoveryMap == ASSUME MapInv, Recovery PROVE MapInv'
<1>1. /\ UNCHANGED <<port_to_device, devices, t2dev, hub>> /\ rec \in RecRecords
      /\ rec.port \in 1..(NPorts + 1)
  BY DEF Recovery, RecoveryStart, RecoveryLook, RecoveryCut, RecoveryPause, RecoveryRestart,
         RecoveryTest, RecoverySet, RecoveryOut, mapVars, t2Vars, MapInv, WorkerHolds, RecRecords
<1>2. \A p \in Mapped : p \in Ports /\ VdevOf(p) \in Objs
  BY DEF MapInv, TableInv, TableTypes, MappingIsSound, VdevOf, Mapped
<1>3. WorkerHolds'
  <2>1. \A p \in 1..(NPorts + 1), a \in RecPcs, o \in Objs \cup {None, -1} :
           /\ RecGo(a, p, o) => rec' \in RecRecords /\ rec'.pc = a /\ rec'.port = p /\ rec'.dev = o
    BY DEF RecGo, RecRecords
  <2>2. 1 \in 1..(NPorts + 1) /\ None \in Objs \cup {None, -1}
    BY Sizes
  <2>3. {"idle", "look", "cut", "pause", "resume", "restart", "test", "set", "out"} \subseteq RecPcs
    BY DEF RecPcs
  <2>4. \A a \in {"look", "idle", "pause", "resume", "restart", "test", "out"},
           p \in 1..(NPorts + 1) : RecGo(a, p, None) => WorkerHolds'
    BY <2>1, <2>2, <2>3 DEF WorkerHolds
  <2>5. CASE RecoveryLook
    <3> DEFINE p == NextMapped(rec.port)
    <3>1. (p \in Ports => p \in Mapped)
      BY <1>1, NextMappedIs
    <3>2. IF p \in Ports THEN RecGo("cut", p, VdevOf(p)) ELSE RecGo("pause", 1, None)
      BY <2>5 DEF RecoveryLook
    <3> HIDE DEF p
    <3>3. CASE p \in Ports
      <4>1. VdevOf(p) \in Objs
        BY <1>2, <3>1, <3>3
      <4>2. rec' \in RecRecords /\ rec'.pc = "cut" /\ rec'.port = p /\ rec'.dev = VdevOf(p)
        BY <2>1, <2>3, <3>2, <3>3, <4>1, PortsAreLess
      <4> QED BY <3>3, <4>1, <4>2, Sizes DEF WorkerHolds
    <3> QED BY <2>2, <2>4, <3>2, <3>3
  <2>6. CASE RecoveryTest
    <3> DEFINE p == NextMapped(rec.port)
    <3>1. IF p \in Ports THEN RecGo("set", p, None) ELSE RecGo("out", 1, None)
      BY <2>6 DEF RecoveryTest
    <3> HIDE DEF p
    <3>2. CASE p \in Ports
      <4>1. rec' \in RecRecords /\ rec'.pc = "set" /\ rec'.port = p
        BY <2>1, <2>2, <2>3, <3>1, <3>2, PortsAreLess
      <4> QED BY <3>2, <4>1 DEF WorkerHolds
    <3> QED BY <2>2, <2>4, <3>1, <3>2
  <2>7. CASE RecoveryCut \/ RecoverySet
    <3>1. rec.port + 1 \in 1..(NPorts + 1)
      BY <2>7, PortsAreLess DEF RecoveryCut, RecoverySet, MapInv, WorkerHolds
    <3> QED BY <2>4, <2>7, <3>1 DEF RecoveryCut, RecoverySet
  <2>8. CASE RecoveryPause
    BY <2>2, <2>4, <2>8 DEF RecoveryPause
  <2>9. CASE RecoveryStart
    BY <2>2, <2>4, <2>9 DEF RecoveryStart, MapInv, WorkerHolds
  <2>10. CASE RecoveryRestart \/ RecoveryOut
    BY <2>2, <2>4, <2>10 DEF RecoveryRestart, RecoveryOut
  <2> QED BY <2>5, <2>6, <2>7, <2>8, <2>9, <2>10 DEF Recovery
<1>4. /\ vdev' \in [Objs -> VdevRecords]
      /\ \A p \in Mapped : vdev'[VdevOf(p)].live /\ t2dev'[port_to_device[p]] = p
  <2>1. CASE UNCHANGED vdev
    BY <1>1, <2>1 DEF MapInv, TableInv, TableTypes, MappingIsSound
  <2>2. CASE RecoveryCut /\ rec.dev # -1
    <3> DEFINE o == rec.dev
               new == [vdev[o] EXCEPT !.cut = TRUE]
    <3>1. o \in Objs /\ vdev[o] \in VdevRecords
      BY <2>2 DEF RecoveryCut, MapInv, TableInv, TableTypes, WorkerHolds, RecRecords
    <3>2. new \in VdevRecords /\ (new.live <=> vdev[o].live)
      BY <3>1 DEF VdevRecords
    <3>3. vdev' = [vdev EXCEPT ![o] = new]
      BY <2>2, <3>1 DEF RecoveryCut, MapInv, TableInv, TableTypes
    <3> HIDE DEF o, new
    <3> QED BY <1>1, <1>2, <3>1, <3>2, <3>3 DEF MapInv, TableInv, TableTypes, MappingIsSound
  <2> QED BY <2>1, <2>2
          DEF Recovery, RecoveryStart, RecoveryLook, RecoveryCut, RecoveryPause, RecoveryRestart,
              RecoveryTest, RecoverySet, RecoveryOut, mapVars
<1>5. TableInv'
  BY <1>1, <1>4, SameTable DEF MapInv, TableInv, TableTypes
<1> QED BY <1>1, <1>3, <1>5 DEF MapInv, HubHolds, Mapped

LEMMA NextMap == MapInv /\ [Next]_vars => MapInv'
<1> SUFFICES ASSUME MapInv, [Next]_vars PROVE MapInv'
  OBVIOUS
<1>1. CASE UNCHANGED <<mapVars, t2dev, hub, rec>>
  <2>1. TableInv' /\ Mapped' = Mapped
    BY <1>1, Unmoved DEF MapInv
  <2> QED BY <1>1, <2>1 DEF MapInv, HubHolds, WorkerHolds, mapVars
<1>2. CASE HubThread
  BY <1>2, HubLooksMap, EndpointsMap, FreeDeviceMap, FreeDeviceDestroyMap, ResetDeviceMap,
     RebuildMap, EnableDeviceMap
     DEF HubThread
<1>3. CASE Pm
  BY <1>3, SuspendMap, PmStagesMap, ResumePortMap, RefreshMap, RefreshFailMap DEF Pm
<1>4. CASE Recovery
  BY <1>4, RecoveryMap
<1>5. CASE \E p \in Ports : RemoveDevice(p)
  BY <1>5, HubLooksMap
<1>6. CASE \/ Watchdog \/ ControllerResetNotify \/ EndpointTimeout \/ Remove \/ Stop \/ Destroy
           \/ \E p \in Ports : PortStatusChange(p) \/ Plug(p)
  BY <1>1, <1>6
     DEF Watchdog, WatchdogFires, WatchdogProbe, WatchdogReport, ControllerResetNotify,
         EndpointTimeout, Remove, Stop, Destroy, PortStatusChange, Plug, mapVars, t2Vars, recVars
<1>7. CASE UNCHANGED vars
  BY <1>1, <1>7 DEF vars, mapVars, t2Vars, recVars
<1> QED BY <1>2, <1>3, <1>4, <1>5, <1>6, <1>7 DEF Next

LEMMA InitMap == Init => MapInv
<1> SUFFICES ASSUME Init PROVE MapInv
  OBVIOUS
<1>1. \A p \in Ports : p \in DevIds /\ p \in Objs /\ p # None
  BY Sizes DEF Ports, DevIds, Objs
<1>2. FreshVdev({0, 1}) \in VdevRecords /\ FreshVdev({0, 1}).live /\ NoVdev \in VdevRecords
  BY DEF FreshVdev, NoVdev, VdevRecords
<1>3. /\ port_to_device = [p \in Ports |-> p]
      /\ devices = [d \in DevIds |-> IF d \in Ports THEN d ELSE None]
      /\ vdev = [o \in Objs |-> IF o \in Ports THEN FreshVdev({0, 1}) ELSE NoVdev]
      /\ t2dev = devices
      /\ hub = HubIdle /\ rec = [pc |-> "idle", port |-> 1, dev |-> None]
  BY DEF Init
<1>4. TableTypes
  <2>1. /\ port_to_device \in [Ports -> DevIds \cup {None}]
        /\ devices \in [DevIds -> Objs \cup {None}] /\ t2dev \in [DevIds -> Ports \cup {None}]
    BY <1>1, <1>3
  <2>2. vdev \in [Objs -> VdevRecords]
    BY <1>2, <1>3
  <2> QED BY <2>1, <2>2 DEF TableTypes
<1>5. OneIdEach
  BY <1>3 DEF OneIdEach
<1>6. MappingIsSound
  <2>1. \A p \in Mapped : VdevOf(p) = p /\ port_to_device[p] = p /\ p \in Ports
    BY <1>1, <1>3 DEF Mapped, VdevOf
  <2>2. \A p \in Mapped : /\ VdevOf(p) # None /\ vdev[VdevOf(p)].live
                          /\ t2dev[port_to_device[p]] = p
    BY <1>1, <1>2, <1>3, <2>1
  <2>3. \A d \in DevIds : devices[d] # None => \E p \in Ports : port_to_device[p] = d
    BY <1>3
  <2> QED BY <2>2, <2>3 DEF MappingIsSound
<1>7. HubHolds
  BY <1>3, IdleIsLoose DEF HubHolds, Loose
<1>8. WorkerHolds
  BY <1>3, Sizes DEF WorkerHolds, RecRecords, RecPcs
<1> QED BY <1>4, <1>5, <1>6, <1>7, <1>8 DEF MapInv, TableInv

\* A port's device id leads to a live object and belongs to the port on the T2 too,
\* and no object is in the table that no port leads to: bce_vhci_free_device,
\* bce_vhci_reset_device, bce_vhci_enable_device and the refresh of
\* bce_vhci_bus_resume change port_to_device, devices and the T2 in different orders
\* and with commands that may fail half-way.
THEOREM TableIsSound == Spec => []MappingIsSound
<1>1. MapInv => MappingIsSound
  BY DEF MapInv, TableInv
<1> QED BY <1>1, InitMap, NextMap, PTL DEF Spec

-----------------------------------------------------------------------------
(* The workers.                                                            *)

\* Which stages of the hub thread and of the worker go with a state of the bus.
BusStages ==
    /\ hub.pc \in {"start", "ports", "refresh"} => bus = "suspended"
    /\ bus = "suspended" => hub.pc \in {"idle", "start", "ports", "refresh"}
    /\ hub.pc = "pause" => bus = "up"
    /\ bus \in {"disabling", "stopped", "dead", "cancelled", "gone"} => hub.pc = "idle"
    /\ bus \in {"dead", "cancelled", "gone"} => controller_dead
    /\ bus \in {"cancelled", "gone"} => rec.pc = "idle"

\* A controller dies of a recovery that failed, unless it is removed.
WorkStages ==
    /\ recovering <=> rec.pc # "idle"
    /\ controller_dead /\ bus \in {"up", "suspended"} => abandoned

\* What is left once the worker is cancelled: the probe that was under way then, and
\* what queued the worker since.
LeftStages ==
    bus \in {"cancelled", "gone"} => /\ watchdog # "idle" => straddled
                                     /\ queued => straddled \/ enabled

WorkInv ==
    /\ BusStages
    /\ WorkStages
    /\ LeftStages
    /\ NoWorkLeft
    /\ WatchdogIsKept

PmPcs == {"pause", "start", "ports", "refresh"}

\* The hub thread in one of its operations is not in a suspend or resume, and leaves
\* the workers alone, but that its commands may queue the recovery.
LEMMA HubThreadWork ==
  ASSUME MapInv, HubThread
  PROVE  /\ hub.pc \notin PmPcs /\ hub'.pc \notin PmPcs
         /\ hub.pc = "idle" => bus = "up"
         /\ UNCHANGED <<bus, timer, watchdog, off, listening, recovering, recovery_fail_count,
                        controller_dead, enabled, raced, wiped, abandoned, straddled>>
         /\ queued => queued'
         /\ rec'.pc = rec.pc /\ rec'.port = rec.port
<1>1. hub \in HubRecords /\ rec \in RecRecords /\ HubHolds
  BY DEF MapInv, HubHolds, WorkerHolds
<1>2. UNCHANGED <<bus, timer, watchdog, off, listening, recovering, recovery_fail_count,
                  controller_dead, enabled, raced, wiped, abandoned, straddled>>
  BY DEF HubThread, GetPortStatus, ResetRequest, ClearConnection, DropEndpoint, AddEndpoint,
         FreeDevice, FreeDeviceDestroy, ResetDevice, ResetDeviceRebuild, EnableDevice, recVars,
         workVars, t2Vars, history
<1>7. queued => queued'
  BY DEF HubThread, GetPortStatus, ResetRequest, ClearConnection, DropEndpoint, AddEndpoint,
         FreeDevice, FreeDeviceDestroy, ResetDevice, ResetDeviceRebuild, EnableDevice, costVars,
         Charge, CancelTimesOut
<1>3. rec'.pc = rec.pc /\ rec'.port = rec.port
  <2>1. UNCHANGED rec \/ Kfree(hub.dev)
    BY DEF HubThread, GetPortStatus, ResetRequest, ClearConnection, DropEndpoint, AddEndpoint,
           FreeDevice, FreeDeviceDestroy, ResetDevice, ResetDeviceRebuild, EnableDevice, recVars
  <2> QED BY <1>1, <2>1 DEF Kfree, RecRecords
<1>4. /\ hub.pc \notin PmPcs
      /\ hub.pc = "idle" => bus = "up"
  BY DEF HubThread, GetPortStatus, ResetRequest, ClearConnection, DropEndpoint, AddEndpoint,
         FreeDevice, FreeDeviceDestroy, ResetDevice, ResetDeviceRebuild, EnableDevice, PmPcs
<1>5. \A a : hub.pc \notin PmPcs => hub.port \in Ports
  BY <1>1 DEF HubHolds, PmPcs
<1>6. hub'.pc \notin PmPcs
  <2>1. ASSUME NEW p \in Ports, GetPortStatus(p) PROVE hub'.pc \notin PmPcs
    <3>1. hub' = hub \/ hub'.pc = "clear"
      BY <1>1, <2>1 DEF GetPortStatus, HubRecords
    <3> QED BY <1>4, <3>1 DEF PmPcs
  <2>2. ASSUME NEW p \in Ports, ResetRequest(p) PROVE hub'.pc \notin PmPcs
    BY <1>1, <2>2 DEF ResetRequest, HubRecords, PmPcs
  <2>3. CASE ClearConnection \/ DropEndpoint \/ AddEndpoint
    <3>1. hub' = HubIdle \/ hub'.pc \in {"drop", "reset", "free", "add"}
      BY <1>1, <2>3 DEF ClearConnection, DropEndpoint, AddEndpoint, HubRecords
    <3> QED BY <3>1, IdleIsLoose DEF PmPcs
  <2>4. CASE FreeDevice \/ FreeDeviceDestroy
    <3>1. Released \/ hub'.pc = "destroy"
      BY <1>1, <2>4 DEF FreeDevice, FreeDeviceDestroy, HubRecords
    <3> QED BY <1>1, <1>4, <1>5, <3>1, ReleasedIsLoose, IdleIsLoose DEF PmPcs
  <2>5. CASE ResetDevice \/ ResetDeviceRebuild \/ EnableDevice
    <3>1. hub' = InitFailed \/ hub'.pc \in {"enable", "rebuild"} \/ Initialised
      BY <1>1, <2>5 DEF ResetDevice, ResetDeviceRebuild, EnableDevice, HubRecords
    <3> QED BY <1>1, <1>4, <1>5, <3>1, InitFailedIsLoose, InitialisedIsLoose DEF PmPcs
  <2> QED BY <2>1, <2>2, <2>3, <2>4, <2>5 DEF HubThread
<1> QED BY <1>2, <1>3, <1>4, <1>6, <1>7

LEMMA HubThreadWorkInv == ASSUME MapInv, WorkInv, HubThread PROVE WorkInv'
<1>1. bus \notin {"cancelled", "gone"}
  BY HubThreadWork DEF WorkInv, BusStages
<1> QED BY <1>1, HubThreadWork
        DEF WorkInv, BusStages, WorkStages, LeftStages, NoWorkLeft, WatchdogIsKept, WatchdogOff,
            PmPcs

\* A suspend stops the watchdog; a resume starts it again, or a recovery, or it has
\* left all to the one that runs.
LEMMA PmWorkInv == ASSUME MapInv, WorkInv, Pm PROVE WorkInv'
<1>1. hub \in HubRecords /\ rec \in RecRecords /\ HubHolds
  BY DEF MapInv, HubHolds, WorkerHolds
<1> USE DEF WorkInv, BusStages, WorkStages, LeftStages, NoWorkLeft, WatchdogIsKept, WatchdogOff
<1>2. CASE BusSuspend
  <2>1. hub'.pc = "pause" /\ UNCHANGED <<bus, rec, queued, recovering, controller_dead, abandoned>>
    BY <1>1, <1>2 DEF BusSuspend, HubRecords, recVars
  <2> QED BY <1>2, <2>1 DEF BusSuspend
<1>3. CASE BusSuspendPause
  <2>1. /\ hub.pc = "pause" /\ hub'.pc = "idle"
        /\ UNCHANGED <<rec, timer, watchdog, recovering, controller_dead>>
        /\ \/ bus' = "suspended" /\ UNCHANGED abandoned
           \/ bus' = bus /\ abandoned' /\ (WatchdogOff => off')
    BY <1>3, IdleIsLoose DEF BusSuspendPause, recVars
  <2> QED BY <2>1
<1>4. CASE BusResume
  <2>1. /\ bus = "suspended" /\ hub.pc = "idle"
        /\ UNCHANGED <<rec, queued, timer, recovering, controller_dead, abandoned>>
        /\ \/ recovering /\ bus' = "up" /\ hub'.pc = "idle"
           \/ UNCHANGED bus /\ hub'.pc = "start"
    BY <1>1, <1>4 DEF BusResume, HubRecords, recVars, costVars, history
  <2> QED BY <2>1
<1>5. CASE BusResumeStart
  <2>1. /\ hub.pc = "start"
        /\ UNCHANGED <<rec, timer, recovering, controller_dead, abandoned>>
        /\ \/ UNCHANGED <<queued, bus>> /\ hub'.pc = "ports"
           \/ queued' /\ bus' = "up" /\ hub'.pc = "idle"
    BY <1>1, <1>5, IdleIsLoose DEF BusResumeStart, HubRecords, recVars, workVars
  <2> QED BY <2>1
<1>6. CASE BusResumePort \/ BusResumeRefresh \/ BusResumeRefreshFail
  <2>1. /\ hub.pc \in {"ports", "refresh"} /\ hub'.pc \in {"ports", "refresh"}
        /\ UNCHANGED <<bus, timer, recovering, controller_dead, abandoned>>
    <3>1. hub.port \in Ports
      BY <1>1, <1>6 DEF BusResumePort, BusResumeRefresh, BusResumeRefreshFail, HubHolds
    <3>2. hub' = NextPort \/ hub'.pc = "refresh"
      BY <1>1, <1>6 DEF BusResumePort, BusResumeRefresh, BusResumeRefreshFail, HubRecords
    <3> QED BY <1>1, <1>6, <3>1, <3>2, NextPortIsLoose
            DEF BusResumePort, BusResumeRefresh, BusResumeRefreshFail, recVars, workVars, history
  <2>2. rec'.pc = rec.pc
    <3>1. UNCHANGED rec \/ Kfree(hub.dev)
      BY <1>6 DEF BusResumePort, BusResumeRefresh, BusResumeRefreshFail, recVars
    <3> QED BY <1>1, <3>1 DEF Kfree, RecRecords
  <2> QED BY <2>1, <2>2
<1>7. CASE BusResumeEnd
  <2>1. hub.pc = "ports" /\ hub'.pc = "idle" /\ timer' /\ bus' = "up"
        /\ UNCHANGED <<rec, queued, recovering, controller_dead, abandoned>>
    BY <1>7, IdleIsLoose DEF BusResumeEnd, StartWatchdog, recVars, costVars, history
  <2> QED BY <2>1
<1> QED BY <1>2, <1>3, <1>4, <1>5, <1>6, <1>7 DEF Pm

\* The worker gives up, fails, or starts the watchdog again when it is done.
LEMMA RecoveryWorkInv == ASSUME MapInv, WorkInv, Recovery PROVE WorkInv'
<1>1. UNCHANGED <<bus, hub, straddled, enabled>>
  BY DEF Recovery, RecoveryStart, RecoveryLook, RecoveryCut, RecoveryPause, RecoveryRestart,
         RecoveryTest, RecoverySet, RecoveryOut, history, t2Vars
<1>2. \A a, p, o : RecGo(a, p, o) => rec'.pc = a
  BY DEF RecGo
<1> USE DEF WorkInv, BusStages, WorkStages, LeftStages, NoWorkLeft, WatchdogIsKept, WatchdogOff
<1>3. CASE RecoveryStart
  <2>1. /\ queued /\ rec.pc = "idle" /\ queued' = FALSE
        /\ UNCHANGED <<controller_dead, timer, watchdog>>
        /\ \/ UNCHANGED <<recovering, rec>> /\ abandoned' /\ (off \/ WatchdogOff => off')
           \/ ~controller_dead /\ recovering' /\ rec'.pc = "look" /\ UNCHANGED abandoned
    BY <1>2, <1>3 DEF RecoveryStart
  <2> QED BY <1>1, <2>1
<1>4. CASE RecoveryLook \/ RecoveryCut \/ RecoveryPause \/ RecoveryTest \/ RecoverySet
  <2>1. /\ rec.pc # "idle" /\ rec'.pc # "idle"
        /\ UNCHANGED <<recovering, controller_dead, queued, timer, watchdog, abandoned>>
    BY <1>2, <1>4 DEF RecoveryLook, RecoveryCut, RecoveryPause, RecoveryTest, RecoverySet,
                      workVars, costVars, history
  <2> QED BY <1>1, <2>1
<1>5. CASE RecoveryRestart
  <2>1. /\ rec.pc # "idle" /\ rec'.pc # "idle"
        /\ UNCHANGED <<recovering, timer, watchdog>>
        /\ UNCHANGED <<controller_dead, abandoned>> \/ (abandoned' /\ (controller_dead => controller_dead'))
    BY <1>2, <1>5 DEF RecoveryRestart, workVars
  <2> QED BY <1>1, <2>1
<1>6. CASE RecoveryOut
  <2>1. /\ rec.pc = "out" /\ rec'.pc = "idle" /\ ~recovering'
        /\ timer' \/ (controller_dead /\ UNCHANGED <<timer, watchdog>>)
        /\ UNCHANGED <<controller_dead, queued, abandoned>>
    BY <1>2, <1>6 DEF RecoveryOut, StartWatchdog, costVars, history
  <2> QED BY <1>1, <2>1
<1> QED BY <1>3, <1>4, <1>5, <1>6 DEF Recovery

\* A probe that times out leaves the watchdog to the recovery that it queues.
LEMMA WatchdogWorkInv == ASSUME MapInv, WorkInv, Watchdog PROVE WorkInv'
<1>1. UNCHANGED <<bus, hub, rec, recovering, controller_dead, abandoned, straddled, enabled>>
  BY DEF Watchdog, WatchdogFires, WatchdogProbe, WatchdogReport, recVars, t2Vars, history
<1> USE DEF WorkInv, BusStages, WorkStages, LeftStages, NoWorkLeft, WatchdogIsKept, WatchdogOff
<1>2. CASE WatchdogFires
  <2>1. timer /\ UNCHANGED queued
    BY <1>2 DEF WatchdogFires
  <2>2. \/ UNCHANGED <<timer, watchdog>>
        \/ controller_dead /\ ~timer' /\ UNCHANGED watchdog
        \/ ~controller_dead /\ watchdog' = "probe"
    BY <1>2 DEF WatchdogFires
  <2> QED BY <1>1, <2>1, <2>2
<1>3. CASE WatchdogProbe
  <2>1. /\ watchdog = "probe" /\ (queued => queued')
        /\ (watchdog' = "idle" /\ timer' /\ UNCHANGED queued) \/ watchdog' = "report"
    BY <1>3 DEF WatchdogProbe, costVars, CancelTimesOut
  <2> QED BY <1>1, <2>1
<1>4. CASE WatchdogReport
  <2>1. watchdog = "report" /\ watchdog' = "idle" /\ queued' /\ UNCHANGED timer
    BY <1>4 DEF WatchdogReport
  <2> QED BY <1>1, <2>1
<1> QED BY <1>2, <1>3, <1>4 DEF Watchdog

\* Events, and the steps of the removal.
LEMMA RestWorkInv ==
  ASSUME MapInv, WorkInv,
         \/ \E p \in Ports : PortStatusChange(p) \/ Plug(p) \/ RemoveDevice(p)
         \/ ControllerResetNotify \/ EndpointTimeout \/ Remove \/ Stop \/ Destroy
         \/ UNCHANGED vars
  PROVE  WorkInv'
<1>1. UNCHANGED <<rec, recovering, abandoned>>
  BY DEF PortStatusChange, Plug, RemoveDevice, ControllerResetNotify, EndpointTimeout, Remove,
         Stop, Destroy, vars, recVars, history
<1> USE DEF WorkInv, BusStages, WorkStages, LeftStages, NoWorkLeft, WatchdogIsKept, WatchdogOff
<1>2. CASE \/ \E p \in Ports : PortStatusChange(p) \/ Plug(p)
           \/ UNCHANGED vars
  <2>1. UNCHANGED <<bus, hub, controller_dead, queued, timer, watchdog, off, straddled, enabled>>
    BY <1>2 DEF PortStatusChange, Plug, vars, recVars, workVars, costVars, t2Vars, history
  <2> QED BY <1>1, <2>1
<1>3. ASSUME NEW p \in Ports, RemoveDevice(p) PROVE WorkInv'
  <2>1. hub'.pc = "drop"
    BY <1>3 DEF RemoveDevice, MapInv, HubHolds, HubRecords
  <2>2. bus = "removing" /\ UNCHANGED <<bus, controller_dead>>
    BY <1>3 DEF RemoveDevice, recVars
  <2> QED BY <1>1, <2>1, <2>2
<1>4. CASE ControllerResetNotify \/ EndpointTimeout
  <2>1. /\ queued' /\ UNCHANGED <<bus, hub, controller_dead, timer, watchdog, straddled, enabled>>
        /\ bus = "gone" => FALSE
        /\ bus = "cancelled" => enabled
    BY <1>4 DEF ControllerResetNotify, EndpointTimeout, Notified, recVars, workVars, t2Vars, history
  <2> QED BY <1>1, <2>1
<1>5. CASE Remove
  BY <1>1, <1>5 DEF Remove, recVars
<1>6. CASE Stop
  BY <1>1, <1>6 DEF Stop, recVars
<1>7. CASE Destroy
  <2>1. UNCHANGED <<hub, enabled>>
    BY <1>7 DEF Destroy, t2Vars
  <2>2. \/ bus = "stopped" /\ controller_dead' /\ bus' = "dead"
        \/ /\ bus = "dead" /\ rec.pc = "idle" /\ ~queued' /\ bus' = "cancelled"
           /\ (watchdog # "idle" => straddled') /\ UNCHANGED <<controller_dead, watchdog>>
        \/ /\ bus = "cancelled" /\ watchdog' = "idle" /\ ~timer' /\ bus' = "gone"
           /\ UNCHANGED <<controller_dead, queued, straddled>>
    BY <1>7 DEF Destroy, CancelWatchdog
  <2> QED BY <1>1, <2>1, <2>2
<1> QED BY <1>2, <1>3, <1>4, <1>5, <1>6, <1>7

LEMMA NextWork == MapInv /\ WorkInv /\ [Next]_vars => WorkInv'
<1> SUFFICES ASSUME MapInv, WorkInv, [Next]_vars PROVE WorkInv'
  OBVIOUS
<1> QED BY HubThreadWorkInv, PmWorkInv, RecoveryWorkInv, WatchdogWorkInv, RestWorkInv DEF Next

LEMMA InitWork == Init => WorkInv
BY IdleIsLoose
   DEF Init, WorkInv, BusStages, WorkStages, LeftStages, NoWorkLeft, WatchdogIsKept, WatchdogOff

\* When bce_vhci_destroy is done the recovery worker does not run and the watchdog is
\* not due: each of them starts the other, and they are cancelled one after the other.
\* The worker can be queued all the same, by a probe or an event that comes between.
THEOREM WorkersAreGone == Spec => []NoWorkLeft
<1>1. WorkInv => NoWorkLeft
  BY DEF WorkInv
<1> QED BY <1>1, InitMap, NextMap, InitWork, NextWork, PTL DEF Spec

\* While the bus is up the watchdog runs, or a recovery is due that starts it again:
\* bce_vhci_bus_suspend stops it, its probe does not start it again when it times out,
\* and the recovery, also when it fails, the resume and its failure each start it or
\* see that it starts. Only a suspend that fails or a recovery that is skipped leaves
\* it off.
THEOREM WatchdogGoesOn == Spec => []WatchdogIsKept
<1>1. WorkInv => WatchdogIsKept
  BY DEF WorkInv
<1> QED BY <1>1, InitMap, NextMap, InitWork, NextWork, PTL DEF Spec

-----------------------------------------------------------------------------
(* The port masks.                                                         *)

\* A port with a device has a usb_device, or the hub thread is about to give it one
\* or to free the device.
DevicesAreKnown ==
    /\ \A p \in Mapped : p \in udev \/ (HubAt(p) /\ hub.pc \in {"free", "reset", "enable"})
    /\ hub.pc = "refresh" => hub.port \in udev
    /\ hub.pc = "idle" => ~hub.connected

\* Where a hidden port is on its way to be shown again. The hub thread that is at it
\* has read no connection; once it drops the device the port will be shown.
HiddenStages ==
    \A p \in port_reenumerate_mask \ raced :
        IF HubAt(p) /\ hub.pc \in {"clear", "drop", "free", "destroy"}
          THEN hub.pc = "clear" => ~hub.connected /\ p \in udev
          ELSE p \in udev /\ p \in port_resume_mask

MaskInv ==
    /\ DevicesAreKnown
    /\ HiddenStages

\* Which ports have a device after one goes, or comes.
LEMMA MappedAfter ==
  ASSUME MapInv, NEW p \in Ports
  PROVE  /\ UNCHANGED port_to_device => Mapped' = Mapped
         /\ Unmap(p) => Mapped' = Mapped \ {p}
         /\ \A d, o, eps : d \in DevIds /\ Attach(p, d, o, eps) => Mapped' = Mapped \cup {p}
<1>1. port_to_device \in [Ports -> DevIds \cup {None}]
  BY DEF MapInv, TableInv, TableTypes
<1>2. Unmap(p) => Mapped' = Mapped \ {p}
  BY <1>1 DEF Unmap, Mapped
<1>3. \A d, o, eps : d \in DevIds /\ Attach(p, d, o, eps) => Mapped' = Mapped \cup {p}
  BY <1>1, Sizes DEF Attach, Mapped
<1> QED BY <1>2, <1>3 DEF Mapped

\* What happens while the hub thread is at a port concerns no other port; the thread
\* stays there or becomes idle.
LEMMA AtOnePort ==
  ASSUME MaskInv, hub.pc # "idle",
         hub' = HubIdle \/ (hub'.port = hub.port /\ hub'.pc # "idle"),
         \A p \in Mapped' : p # hub.port => p \in Mapped,
         \A p \in udev : p # hub.port => p \in udev',
         port_reenumerate_mask' \subseteq port_reenumerate_mask \cup {hub.port},
         \A p \in port_resume_mask : p # hub.port => p \in port_resume_mask',
         raced' = raced,
         hub.port \in Mapped' => \/ hub.port \in udev'
                                 \/ hub'.pc \in {"free", "reset", "enable"},
         hub'.pc = "refresh" => hub.port \in udev',
         hub.port \in port_reenumerate_mask' \ raced =>
            IF hub'.pc \in {"clear", "drop", "free", "destroy"}
              THEN hub'.pc = "clear" => ~hub'.connected /\ hub.port \in udev'
              ELSE hub.port \in udev' /\ hub.port \in port_resume_mask'
  PROVE  MaskInv'
<1> DEFINE q == hub.port
<1>1. HubIdle.pc = "idle" /\ ~HubIdle.connected
  BY IdleIsLoose
<1>2. \A p : HubAt(p) <=> p = q
  BY DEF HubAt
<1>3. \A p : HubAt(p)' => p = q
  BY <1>1 DEF HubAt
<1>4. DevicesAreKnown'
  <2>1. \A p \in Mapped' : \/ p \in udev'
                           \/ HubAt(p)' /\ hub'.pc \in {"free", "reset", "enable"}
    BY <1>1, <1>2 DEF MaskInv, DevicesAreKnown, HubAt
  <2>2. hub'.pc = "refresh" => hub'.port \in udev'
    BY <1>1
  <2>3. hub'.pc = "idle" => ~hub'.connected
    BY <1>1
  <2> QED BY <2>1, <2>2, <2>3 DEF DevicesAreKnown
<1>5. HiddenStages'
  <2> SUFFICES ASSUME NEW p \in port_reenumerate_mask' \ raced'
               PROVE  IF HubAt(p)' /\ hub'.pc \in {"clear", "drop", "free", "destroy"}
                        THEN hub'.pc = "clear" => ~hub'.connected /\ p \in udev'
                        ELSE p \in udev' /\ p \in port_resume_mask'
    BY DEF HiddenStages
  <2>1. CASE p = q
    BY <1>1, <2>1 DEF HubAt
  <2>2. CASE p # q
    <3>1. ~HubAt(p) /\ ~HubAt(p)' /\ p \in port_reenumerate_mask \ raced
      BY <1>2, <1>3, <2>2
    <3>2. p \in udev /\ p \in port_resume_mask
      BY <3>1 DEF MaskInv, HiddenStages
    <3> QED BY <2>2, <3>1, <3>2
  <2> QED BY <2>1, <2>2
<1> QED BY <1>4, <1>5 DEF MaskInv

\* While the hub thread is idle, or in a suspend or resume, every device is known and
\* every hidden port is to be looked at.
LEMMA BetweenOperations ==
  ASSUME MaskInv, hub.pc \in {"idle"} \cup PmPcs, hub'.pc \in {"idle"} \cup PmPcs,
         \A p \in Mapped' : p \in Mapped \/ p \in udev',
         udev' = udev,
         \A p \in port_reenumerate_mask' \ raced' :
            \/ /\ p \in port_reenumerate_mask \ raced
               /\ p \in port_resume_mask => p \in port_resume_mask'
            \/ p \in udev /\ p \in port_resume_mask',
         hub'.pc = "refresh" => hub'.port \in udev,
         hub'.pc = "idle" => ~hub'.connected
  PROVE  MaskInv'
<1>1. \A p \in Mapped : p \in udev
  BY DEF MaskInv, DevicesAreKnown, PmPcs
<1>2. DevicesAreKnown'
  <2>1. \A p \in Mapped' : p \in udev'
    BY <1>1
  <2> QED BY <2>1 DEF DevicesAreKnown
<1>3. \A p \in port_reenumerate_mask \ raced : p \in udev /\ p \in port_resume_mask
  BY DEF MaskInv, HiddenStages, PmPcs
<1>4. \A p \in port_reenumerate_mask' \ raced' : p \in udev' /\ p \in port_resume_mask'
  BY <1>3
<1>5. HiddenStages'
  BY <1>4 DEF HiddenStages, PmPcs
<1> QED BY <1>2, <1>5 DEF MaskInv

\* What the other threads do to the masks.
LEMMA ElsewhereMask ==
  ASSUME MaskInv, UNCHANGED <<port_to_device, udev, hub>>,
         \A p \in port_reenumerate_mask' \ raced' :
            \/ p \in port_reenumerate_mask \ raced
            \/ ~HubAt(p) /\ p \in udev /\ p \in port_resume_mask',
         port_resume_mask \subseteq port_resume_mask'
  PROVE  MaskInv'
<1>1. DevicesAreKnown'
  BY DEF MaskInv, DevicesAreKnown, Mapped, HubAt
<1>2. HiddenStages'
  BY DEF MaskInv, HiddenStages, HubAt
<1> QED BY <1>1, <1>2 DEF MaskInv

\* The hub thread looks at a port, or begins an operation on it.
LEMMA HubBeginsMask ==
  ASSUME MapInv, MaskInv, NEW p \in Ports, GetPortStatus(p) \/ ResetRequest(p) \/ RemoveDevice(p)
  PROVE  MaskInv'
<1>1. /\ UNCHANGED <<port_to_device, udev, port_reenumerate_mask, port_resume_mask, raced>>
      /\ hub.pc = "idle" /\ ~hub.connected /\ hub \in HubRecords /\ Mapped' = Mapped
  BY DEF GetPortStatus, ResetRequest, RemoveDevice, MaskInv, DevicesAreKnown, mapVars, maskVars,
         askVars, usbVars, history, MapInv, HubHolds, Mapped
<1>2. CASE UNCHANGED hub
  BY <1>1, <1>2, ElsewhereMask
<1>3. CASE hub' # hub
  <2>1. /\ hub'.port = p /\ hub'.pc \in {"clear", "reset", "drop"}
        /\ hub'.pc = "clear" /\ p \in port_reenumerate_mask => ~hub'.connected
        /\ hub'.pc = "drop" => p \in udev
    <3>1. CASE GetPortStatus(p)
      <4> DEFINE c == p \in connected
      <4>1. \/ hub' = [hub EXCEPT !.pc = "clear", !.port = p]
            \/ /\ hub' = [hub EXCEPT !.pc = "clear", !.port = p, !.connected = c]
               /\ p \notin port_reenumerate_mask
        BY <1>3, <3>1 DEF GetPortStatus
      <4> HIDE DEF c
      <4> QED BY <1>1, <4>1 DEF HubRecords
    <3>2. CASE ResetRequest(p)
      BY <1>1, <3>2 DEF ResetRequest, HubRecords
    <3>3. CASE RemoveDevice(p)
      BY <1>1, <3>3 DEF RemoveDevice, HubRecords
    <3> QED BY <3>1, <3>2, <3>3
  <2>2. \A q \in Mapped : q \in udev
    BY <1>1 DEF MaskInv, DevicesAreKnown
  <2>3. \A q \in port_reenumerate_mask \ raced : q \in udev /\ q \in port_resume_mask
    BY <1>1 DEF MaskInv, HiddenStages
  <2>4. DevicesAreKnown'
    BY <1>1, <2>1, <2>2 DEF DevicesAreKnown
  <2>5. HiddenStages'
    BY <1>1, <2>1, <2>3 DEF HiddenStages, HubAt
  <2> QED BY <2>4, <2>5 DEF MaskInv
<1> QED BY <1>2, <1>3

\* Its other operations, at the port where it is.
LEMMA ClearConnectionMask == ASSUME MapInv, MaskInv, ClearConnection PROVE MaskInv'
<1>1. /\ UNCHANGED <<port_to_device, udev, port_reenumerate_mask, raced>>
      /\ hub.pc = "clear" /\ hub \in HubRecords /\ Mapped' = Mapped
      /\ port_resume_mask' = port_resume_mask \ {hub.port}
  BY DEF ClearConnection, mapVars, usbVars, history, MapInv, HubHolds, Mapped
<1>2. /\ hub' = HubIdle \/ (hub'.port = hub.port /\ hub'.pc \in {"drop", "reset"})
      /\ hub' = HubIdle => hub.connected \/ hub.port \notin udev
      /\ hub'.pc = "reset" => hub.port \notin udev
  <2>1. \/ hub' = [hub EXCEPT !.pc = "drop"]
        \/ hub' = HubIdle /\ (hub.connected \/ hub.port \notin udev)
        \/ hub' = [hub EXCEPT !.pc = "reset", !.left = 2] /\ hub.port \notin udev
    BY DEF ClearConnection
  <2> QED BY <1>1, <2>1, IdleIsLoose DEF HubRecords
<1>3. hub.port \in port_reenumerate_mask \ raced => ~hub.connected /\ hub.port \in udev
  BY <1>1 DEF MaskInv, HiddenStages, HubAt
<1>4. hub.port \in Mapped => hub.port \in udev
  BY <1>1 DEF MaskInv, DevicesAreKnown, HubAt
<1> QED BY <1>1, <1>2, <1>3, <1>4, IdleIsLoose, AtOnePort

LEMMA EndpointsMask == ASSUME MapInv, MaskInv, DropEndpoint \/ AddEndpoint PROVE MaskInv'
<1>1. /\ UNCHANGED <<port_to_device, udev, port_reenumerate_mask, port_resume_mask, raced>>
      /\ hub.pc \in {"drop", "redrop", "add"} /\ hub \in HubRecords /\ Mapped' = Mapped
  BY DEF DropEndpoint, AddEndpoint, maskVars, askVars, usbVars, history, MapInv, HubHolds, Mapped
<1>2. \/ hub' = HubIdle /\ hub.pc = "add"
      \/ hub'.port = hub.port /\ hub'.pc = "free" /\ hub.pc = "drop"
      \/ hub'.port = hub.port /\ hub'.pc = "add" /\ hub.pc = "redrop"
  <2>1. \/ hub' = HubIdle /\ hub.pc = "add"
        \/ hub' = [hub EXCEPT !.pc = "free"] /\ hub.pc = "drop"
        \/ hub' = [hub EXCEPT !.pc = "add"] /\ hub.pc = "redrop"
    BY DEF DropEndpoint, AddEndpoint
  <2> QED BY <1>1, <2>1 DEF HubRecords
<1>3. hub.port \in Mapped => hub.port \in udev
  BY <1>1 DEF MaskInv, DevicesAreKnown, HubAt
<1>4. hub.pc # "drop" /\ hub.port \in port_reenumerate_mask \ raced =>
         hub.port \in udev /\ hub.port \in port_resume_mask
  BY <1>1 DEF MaskInv, HiddenStages, HubAt
<1> QED BY <1>1, <1>2, <1>3, <1>4, IdleIsLoose, AtOnePort

LEMMA FreeMask == ASSUME MapInv, MaskInv, FreeDevice \/ FreeDeviceDestroy PROVE MaskInv'
<1>1. hub.pc \in {"free", "destroy"} /\ hub \in HubRecords /\ hub.port \in Ports
  BY DEF FreeDevice, FreeDeviceDestroy, MapInv, HubHolds
<1>2. CASE Released /\ SignalReconnect(hub.port) /\ UNCHANGED <<port_to_device, raced>>
           /\ hub.port \notin Mapped /\ udev \ {hub.port} \subseteq udev'
  <2>1. hub' = HubIdle \/ (hub'.pc = "reset" /\ hub'.port = hub.port)
    BY <1>1, <1>2, ReleasedIsLoose DEF MapInv
  <2>2. Mapped' = Mapped
    BY <1>2 DEF Mapped
  <2>3. /\ port_reenumerate_mask' = port_reenumerate_mask \ {hub.port}
        /\ port_resume_mask \subseteq port_resume_mask'
    BY <1>2 DEF SignalReconnect
  <2> QED BY <1>1, <1>2, <2>1, <2>2, <2>3, IdleIsLoose, AtOnePort
<1>3. CASE FreeDevice /\ hub.port \in Mapped
  <2>1. /\ UNCHANGED <<port_reenumerate_mask, port_resume_mask, raced>>
        /\ udev' = udev \ {hub.port} /\ Unmap(hub.port)
    BY <1>3 DEF FreeDevice, askVars, history
  <2>2. hub'.pc = "destroy" /\ hub'.port = hub.port
    BY <1>1, <1>3 DEF FreeDevice, HubRecords
  <2>3. Mapped' = Mapped \ {hub.port}
    BY <1>1, <2>1, MappedAfter
  <2> QED BY <1>1, <2>1, <2>2, <2>3, AtOnePort
<1>4. FreeDeviceDestroy => hub.port \notin Mapped
  BY DEF FreeDeviceDestroy, MapInv, HubHolds
<1> QED BY <1>2, <1>3, <1>4 DEF FreeDevice, FreeDeviceDestroy, history, usbVars

LEMMA ResetMask ==
  ASSUME MapInv, MaskInv, ResetDevice \/ ResetDeviceRebuild \/ EnableDevice PROVE MaskInv'
<1>1. /\ UNCHANGED <<port_reenumerate_mask, port_resume_mask, raced>>
      /\ hub.pc \in {"reset", "rebuild", "enable"}
      /\ hub \in HubRecords /\ hub.port \in Ports
  BY DEF ResetDevice, ResetDeviceRebuild, EnableDevice, maskVars, askVars, history, MapInv,
         HubHolds
<1>2. hub.port \in port_reenumerate_mask \ raced =>
         hub.port \in udev /\ hub.port \in port_resume_mask
  BY <1>1 DEF MaskInv, HiddenStages, HubAt
<1>3. \/ UNCHANGED port_to_device /\ UNCHANGED udev /\ hub' = InitFailed
      \/ hub' = [hub EXCEPT !.pc = "enable"] /\ UNCHANGED <<port_to_device, udev>>
      \/ hub'.pc = "rebuild" /\ hub'.port = hub.port /\ Unmap(hub.port) /\ UNCHANGED udev
      \/ /\ hub' = [hub EXCEPT !.pc = "enable", !.dev = None] /\ UNCHANGED udev
         /\ \E d \in DevIds : \E o, eps : Attach(hub.port, d, o, eps)
      \/ UNCHANGED port_to_device /\ Initialised /\ hub.port \in Mapped
      \/ Initialised /\ \E d \in DevIds : \E o, eps : Attach(hub.port, d, o, eps)
  <2>1. CASE ResetDevice
    BY <1>1, <2>1 DEF ResetDevice, usbVars, HubRecords
  <2>2. CASE ResetDeviceRebuild
    BY <2>2 DEF ResetDeviceRebuild, usbVars, mapVars, Created, MapInv, HubHolds
  <2>3. CASE EnableDevice
    BY <2>3 DEF EnableDevice, mapVars, Created
  <2> QED BY <2>1, <2>2, <2>3
<1>4. Mapped' \subseteq Mapped \cup {hub.port}
  BY <1>1, <1>3, MappedAfter
<1>5. udev \subseteq udev'
  BY <1>1, <1>3, InitialisedIsLoose DEF MapInv
<1>6. CASE hub' = InitFailed /\ UNCHANGED <<port_to_device, udev>>
  <2>1. hub'.port = hub.port /\ hub'.pc = IF hub.port \in udev THEN "drop" ELSE "free"
    BY <1>1, <1>6, InitFailedIsLoose DEF MapInv
  <2> QED BY <1>1, <1>4, <1>6, <2>1, AtOnePort
<1>7. CASE hub' = [hub EXCEPT !.pc = "enable"] \/ hub' = [hub EXCEPT !.pc = "enable", !.dev = None]
  <2>1. hub'.port = hub.port /\ hub'.pc = "enable"
    BY <1>1, <1>7 DEF HubRecords
  <2> QED BY <1>1, <1>2, <1>4, <1>5, <2>1, AtOnePort
<1>8. CASE hub'.pc = "rebuild" /\ hub'.port = hub.port /\ Unmap(hub.port) /\ UNCHANGED udev
  <2>1. Mapped' = Mapped \ {hub.port}
    BY <1>1, <1>8, MappedAfter
  <2> QED BY <1>1, <1>2, <1>8, <2>1, AtOnePort
<1>9. CASE Initialised
  <2>1. /\ hub'.port = hub.port
        /\ hub'.pc = "reset" \/ (hub'.pc \in {"redrop", "add"} /\ udev' = udev \cup {hub.port})
    BY <1>1, <1>9, InitialisedIsLoose DEF MapInv
  <2> QED BY <1>1, <1>2, <1>4, <1>5, <2>1, AtOnePort
<1> QED BY <1>3, <1>6, <1>7, <1>8, <1>9

\* A suspend forgets the masks; a resume hides the ports it cannot resume.
LEMMA PmMask == ASSUME MapInv, MaskInv, Pm PROVE MaskInv'
<1>1. hub \in HubRecords /\ HubHolds
  BY DEF MapInv, HubHolds
<1>2. CASE BusSuspend
  <2>1. /\ hub.pc = "idle" /\ hub'.pc = "pause" /\ port_reenumerate_mask' = {}
        /\ UNCHANGED <<port_to_device, udev>>
    BY <1>1, <1>2 DEF BusSuspend, HubRecords, usbVars
  <2> QED BY <2>1, BetweenOperations DEF PmPcs, Mapped
<1>3. CASE BusSuspendPause \/ BusResume \/ BusResumeStart \/ BusResumeEnd
  <2>1. /\ UNCHANGED <<port_to_device, udev, port_resume_mask, raced>>
        /\ port_reenumerate_mask' \subseteq port_reenumerate_mask
    BY <1>3 DEF BusSuspendPause, BusResume, BusResumeStart, BusResumeEnd, mapVars, maskVars,
                askVars, usbVars, history
  <2>2. /\ hub.pc \in {"idle"} \cup PmPcs
        /\ hub' = hub \/ hub' = HubIdle \/ hub'.pc \in {"start", "ports"}
    BY <1>1, <1>3 DEF BusSuspendPause, BusResume, BusResumeStart, BusResumeEnd, HubRecords, PmPcs
  <2>3. hub' = hub => hub.pc # "refresh"
    BY <1>3 DEF BusSuspendPause, BusResume, BusResumeStart, BusResumeEnd
  <2>4. hub' = hub /\ hub.pc = "idle" => ~hub'.connected
    BY DEF MaskInv, DevicesAreKnown
  <2> QED BY <2>1, <2>2, <2>3, <2>4, IdleIsLoose, BetweenOperations DEF PmPcs, Mapped
<1>4. CASE BusResumePort
  <2>1. hub.pc = "ports" /\ hub.port \in Ports /\ UNCHANGED <<udev, raced>>
    BY <1>4 DEF BusResumePort, usbVars, history
  <2>2. \A p \in Mapped : p \in udev
    BY <2>1 DEF MaskInv, DevicesAreKnown
  <2>3. Mapped' \subseteq Mapped
    <3>1. UNCHANGED port_to_device \/ Unmap(hub.port)
      BY <1>4 DEF BusResumePort, mapVars
    <3> QED BY <2>1, <3>1, MappedAfter
  <2>4. \/ UNCHANGED askVars
        \/ Reenumerate(hub.port) /\ hub.port \in Mapped
    BY <1>4 DEF BusResumePort
  <2>5. \/ hub'.pc = "ports"
        \/ hub'.pc = "refresh" /\ hub'.port = hub.port /\ hub.port \in Mapped
    <3>1. \/ hub' = NextPort
          \/ /\ hub' = [hub EXCEPT !.pc = "refresh", !.dev = VdevOf(hub.port),
                                   !.id = port_to_device[hub.port]]
             /\ hub.port \in Mapped
      BY <1>4 DEF BusResumePort
    <3> QED BY <1>1, <2>1, <3>1, NextPortIsLoose DEF HubRecords
  <2> QED BY <2>1, <2>2, <2>3, <2>4, <2>5, BetweenOperations DEF PmPcs, askVars, Reenumerate
<1>5. CASE BusResumeRefresh \/ BusResumeRefreshFail
  <2>1. /\ hub.pc = "refresh" /\ hub.port \in Ports /\ hub.port \in udev
        /\ UNCHANGED <<udev, raced>> /\ hub'.pc = "ports"
    BY <1>1, <1>5, NextPortIsLoose
       DEF BusResumeRefresh, BusResumeRefreshFail, usbVars, history, HubHolds, MaskInv,
           DevicesAreKnown
  <2>2. Mapped' \subseteq Mapped \cup {hub.port}
    <3>1. \/ UNCHANGED port_to_device
          \/ \E d \in DevIds : Attach(hub.port, d, hub.dev, {0})
      BY <1>5 DEF BusResumeRefresh, BusResumeRefreshFail
    <3> QED BY <2>1, <3>1, MappedAfter
  <2>3. UNCHANGED askVars \/ Reenumerate(hub.port)
    BY <1>5 DEF BusResumeRefresh, BusResumeRefreshFail
  <2> QED BY <2>1, <2>2, <2>3, BetweenOperations DEF PmPcs, askVars, Reenumerate
<1> QED BY <1>2, <1>3, <1>4, <1>5 DEF Pm

\* The worker hides a port, at a time of its own.
LEMMA RecoverySetMask == ASSUME MaskInv, RecoverySet PROVE MaskInv'
<1> DEFINE p == rec.port
<1>1. /\ UNCHANGED <<port_to_device, udev, hub>>
      /\ port_reenumerate_mask' = port_reenumerate_mask \cup {p}
      /\ port_resume_mask' = port_resume_mask \cup {p}
      /\ raced' = IF HubAt(p) \/ p \notin Mapped THEN raced \cup {p} ELSE raced
  BY DEF RecoverySet, Reenumerate, mapVars, usbVars
<1>2. ~HubAt(p) /\ p \in Mapped => p \in udev
  BY DEF MaskInv, DevicesAreKnown
<1> HIDE DEF p
<1> QED BY <1>1, <1>2, ElsewhereMask

LEMMA NextMask == MapInv /\ MaskInv /\ [Next]_vars => MaskInv'
<1> SUFFICES ASSUME MapInv, MaskInv, [Next]_vars PROVE MaskInv'
  OBVIOUS
<1>1. CASE UNCHANGED <<port_to_device, udev, hub, port_reenumerate_mask, raced>>
           /\ port_resume_mask \subseteq port_resume_mask'
  BY <1>1, ElsewhereMask
<1>2. CASE HubThread
  BY <1>2, HubBeginsMask, ClearConnectionMask, EndpointsMask, FreeMask, ResetMask DEF HubThread
<1>3. CASE Pm
  BY <1>3, PmMask
<1>4. CASE Recovery
  <2>1. CASE RecoverySet
    BY <2>1, RecoverySetMask
  <2>2. CASE ~RecoverySet
    BY <1>1, <1>4, <2>2
       DEF Recovery, RecoveryStart, RecoveryLook, RecoveryCut, RecoveryPause, RecoveryRestart,
           RecoveryTest, RecoveryOut, mapVars, maskVars, askVars, usbVars, history
  <2> QED BY <2>1, <2>2
<1>5. CASE \E p \in Ports : RemoveDevice(p)
  BY <1>5, HubBeginsMask
<1>6. CASE \/ Watchdog \/ ControllerResetNotify \/ EndpointTimeout \/ Remove \/ Stop \/ Destroy
           \/ \E p \in Ports : PortStatusChange(p) \/ Plug(p)
  BY <1>1, <1>6
     DEF Watchdog, WatchdogFires, WatchdogProbe, WatchdogReport, ControllerResetNotify,
         EndpointTimeout, Remove, Stop, Destroy, PortStatusChange, Plug, mapVars, maskVars,
         askVars, usbVars, history
<1>7. CASE UNCHANGED vars
  BY <1>1, <1>7 DEF vars, mapVars, maskVars, askVars, usbVars, history
<1> QED BY <1>2, <1>3, <1>4, <1>5, <1>6, <1>7 DEF Next

LEMMA InitMask == Init => MaskInv
<1> SUFFICES ASSUME Init PROVE MaskInv
  OBVIOUS
<1>1. DevicesAreKnown
  BY IdleIsLoose DEF Init, DevicesAreKnown, Mapped
<1>2. HiddenStages
  BY DEF Init, HiddenStages
<1> QED BY <1>1, <1>2 DEF MaskInv

\* A port that shows no connection until it is enumerated again is going to be looked
\* at, and has a usb_device whose removal shows it: GetPortStatus, the clearing of
\* C_CONNECTION, bce_vhci_free_device, the resume and the recovery work on
\* port_reenumerate_mask and port_resume_mask without a lock.
THEOREM HiddenPortsComeBack == Spec => []ReenumerationIsNoticed
<1>1. MaskInv => ReenumerationIsNoticed
  BY DEF MaskInv, HiddenStages, ReenumerationIsNoticed
<1> QED BY <1>1, InitMap, NextMap, InitMask, NextMask, PTL DEF Spec

-----------------------------------------------------------------------------
(* Endpoints that were cut off or paused.                                  *)

\* The recovery that runs has still to come to port p in its last phase.
Ahead(p) ==
    \/ rec.pc \in {"look", "cut", "pause", "resume", "restart"}
    \/ rec.pc \in {"test", "set"} /\ p >= rec.port

CutStages ==
    \A p \in Mapped : vdev[VdevOf(p)].cut =>
        p \in port_reenumerate_mask \/ Ahead(p) \/ recovery_fail_count > 0 \/ p \in wiped

\* Who is going to lift the pause of a suspend: the resume, a recovery that runs or is
\* queued, or the watchdog that finds the event queues paused.
ResumeAhead(p) ==
    \/ hub.pc \in {"pause", "start"}
    \/ hub.pc \in {"ports", "refresh"} /\ p >= hub.port
    \/ bus = "suspended" /\ hub.pc = "idle" /\ rec.pc = "idle"

QueuesPaused ==
    ~listening /\ (~WatchdogOff \/ rec.pc # "idle" \/ (bus = "suspended" /\ hub.pc = "idle"))

PauseStages ==
    bus \in {"up", "suspended"} =>
        \A p \in Mapped : vdev[VdevOf(p)].paused =>
            \/ p \in port_reenumerate_mask \/ Ahead(p) \/ abandoned \/ queued
            \/ ResumeAhead(p) \/ QueuesPaused

EndpointInv ==
    /\ CutStages
    /\ PauseStages

FailsAreCounted == recovery_fail_count \in Nat

LEMMA NextFails == FailsAreCounted /\ [Next]_vars => FailsAreCounted'
<1> SUFFICES ASSUME FailsAreCounted, [Next]_vars PROVE FailsAreCounted'
  OBVIOUS
<1>1. CASE RecoveryRestart
  BY <1>1 DEF RecoveryRestart, FailsAreCounted
<1>2. CASE UNCHANGED recovery_fail_count
  BY <1>2 DEF FailsAreCounted
<1>3. CASE HubThread
  BY <1>2, <1>3
     DEF HubThread, GetPortStatus, ResetRequest, ClearConnection, DropEndpoint, AddEndpoint,
         FreeDevice, FreeDeviceDestroy, ResetDevice, ResetDeviceRebuild, EnableDevice, recVars
<1>4. CASE Pm
  BY <1>2, <1>4
     DEF Pm, BusSuspend, BusSuspendPause, BusResume, BusResumeStart, BusResumePort,
         BusResumeRefresh, BusResumeRefreshFail, BusResumeEnd, recVars
<1>5. CASE Recovery
  BY <1>1, <1>2, <1>5
     DEF Recovery, RecoveryStart, RecoveryLook, RecoveryCut, RecoveryPause, RecoveryTest,
         RecoverySet, RecoveryOut
<1>6. CASE \/ Watchdog \/ ControllerResetNotify \/ EndpointTimeout \/ Remove \/ Stop \/ Destroy
           \/ \E p \in Ports : PortStatusChange(p) \/ Plug(p) \/ RemoveDevice(p)
  BY <1>2, <1>6
     DEF Watchdog, WatchdogFires, WatchdogProbe, WatchdogReport, ControllerResetNotify,
         EndpointTimeout, Remove, Stop, Destroy, PortStatusChange, Plug, RemoveDevice, recVars
<1>7. CASE UNCHANGED vars
  BY <1>2, <1>7 DEF vars, recVars
<1> QED BY <1>3, <1>4, <1>5, <1>6, <1>7 DEF Next

\* A step that brings no endpoint to be cut off or paused: a port's device is the one
\* it was, or a fresh one; and a device that is to be enumerated again stays hidden.
Carried ==
    \A p \in Mapped' :
        /\ p \in port_reenumerate_mask => p \in port_reenumerate_mask'
        /\ vdev'[VdevOf(p)'].cut => p \in Mapped /\ vdev[VdevOf(p)].cut
        /\ vdev'[VdevOf(p)'].paused => p \in Mapped /\ vdev[VdevOf(p)].paused

\* The steps that the properties of a port's endpoints survive.
LEMMA CarriedUnmap ==
  ASSUME MapInv, NEW p \in Mapped, Unmap(p),
         \A q \in Mapped \ {p} : vdev'[VdevOf(q)] = vdev[VdevOf(q)],
         port_reenumerate_mask \subseteq port_reenumerate_mask'
  PROVE  Carried
<1>1. /\ port_to_device' = [port_to_device EXCEPT ![p] = None]
      /\ devices' = [devices EXCEPT ![port_to_device[p]] = None]
  BY DEF Unmap
<1>2. p \in Ports /\ Mapped' = Mapped \ {p}
  BY MappedAfter DEF Mapped, Unmap
<1>3. \A q \in Mapped \ {p} : /\ q \in Ports /\ port_to_device[q] \in DevIds
                              /\ port_to_device[q] # port_to_device[p]
  BY <1>2 DEF MapInv, TableInv, TableTypes, MappingIsSound, Mapped
<1>4. \A q \in Mapped' : VdevOf(q)' = VdevOf(q)
  BY <1>1, <1>2, <1>3 DEF MapInv, TableInv, TableTypes, VdevOf
<1> QED BY <1>2, <1>4 DEF Carried

LEMMA CarriedAttach ==
  ASSUME MapInv, NEW p \in Ports, NEW d \in DevIds, NEW o \in Objs, NEW eps, Attach(p, d, o, eps),
         p \notin Mapped, devices[d] = None, \A e \in DevIds : devices[e] # o,
         port_reenumerate_mask \subseteq port_reenumerate_mask'
  PROVE  Carried
<1>1. /\ port_to_device' = [port_to_device EXCEPT ![p] = d]
      /\ devices' = [devices EXCEPT ![d] = o]
      /\ vdev' = [vdev EXCEPT ![o] = FreshVdev(eps)]
  BY DEF Attach
<1>2. Mapped' = Mapped \cup {p}
  BY MappedAfter
<1>3. \A q \in Mapped : /\ q \in Ports /\ q # p /\ port_to_device[q] \in DevIds
                        /\ port_to_device[q] # d /\ VdevOf(q) \in Objs /\ VdevOf(q) # o
  BY DEF MapInv, TableInv, TableTypes, MappingIsSound, Mapped, VdevOf
<1>4. \A q \in Mapped : VdevOf(q)' = VdevOf(q) /\ vdev'[VdevOf(q)] = vdev[VdevOf(q)]
  BY <1>1, <1>3 DEF MapInv, TableInv, TableTypes, VdevOf
<1>5. VdevOf(p)' = o /\ vdev'[o] = FreshVdev(eps)
  BY <1>1 DEF MapInv, TableInv, TableTypes, VdevOf
<1>6. ~FreshVdev(eps).cut /\ ~FreshVdev(eps).paused
  BY DEF FreshVdev
<1> QED BY <1>2, <1>4, <1>5, <1>6 DEF Carried

LEMMA CarriedSame ==
  ASSUME MapInv, UNCHANGED <<port_to_device, devices>>,
         \A p \in Mapped : /\ vdev'[VdevOf(p)].cut => vdev[VdevOf(p)].cut
                           /\ vdev'[VdevOf(p)].paused => vdev[VdevOf(p)].paused
                           /\ p \in port_reenumerate_mask => p \in port_reenumerate_mask'
  PROVE  Carried
<1>1. Mapped' = Mapped /\ \A p : VdevOf(p)' = VdevOf(p)
  BY DEF Mapped, VdevOf
<1> QED BY <1>1 DEF Carried

\* The hub thread carries the endpoints from step to step.
LEMMA HubThreadCarries == ASSUME MapInv, HubThread PROVE Carried
<1>1. \A p \in Mapped : p \in Ports /\ VdevOf(p) \in Objs
  BY DEF MapInv, TableInv, TableTypes, MappingIsSound, Mapped, VdevOf
<1>2. hub.pc \notin PmPcs => hub.port \in Ports
  BY DEF MapInv, HubHolds, PmPcs
<1>3. CASE UNCHANGED <<mapVars, port_reenumerate_mask>>
  BY <1>3, CarriedSame DEF mapVars
<1>4. CASE DropEndpoint \/ AddEndpoint
  <2>1. UNCHANGED <<port_to_device, devices, port_reenumerate_mask>>
    BY <1>4 DEF DropEndpoint, AddEndpoint, maskVars, askVars
  <2>2. \/ UNCHANGED vdev
        \/ /\ hub.port \in Mapped
           /\ \E eps : vdev' = [vdev EXCEPT ![VdevOf(hub.port)].eps = eps]
    BY <1>4 DEF DropEndpoint, AddEndpoint
  <2>3. \A p \in Mapped : /\ vdev'[VdevOf(p)].cut = vdev[VdevOf(p)].cut
                          /\ vdev'[VdevOf(p)].paused = vdev[VdevOf(p)].paused
    <3>1. \A p \in Mapped : vdev[VdevOf(p)] \in VdevRecords
      BY <1>1 DEF MapInv, TableInv, TableTypes
    <3>2. ASSUME NEW eps, hub.port \in Mapped,
                 vdev' = [vdev EXCEPT ![VdevOf(hub.port)].eps = eps]
          PROVE  <2>3!:
      <4> DEFINE o == VdevOf(hub.port)
                 new == [vdev[o] EXCEPT !.eps = eps]
      <4>1. o \in Objs /\ vdev[o] \in VdevRecords
        BY <1>1, <3>1, <3>2
      <4>2. new.cut = vdev[o].cut /\ new.paused = vdev[o].paused
        BY <4>1 DEF VdevRecords
      <4>3. vdev' = [vdev EXCEPT ![o] = new]
        BY <3>2, <4>1 DEF MapInv, TableInv, TableTypes
      <4> HIDE DEF o, new
      <4> QED BY <1>1, <4>1, <4>2, <4>3 DEF MapInv, TableInv, TableTypes
    <3> QED BY <2>2, <3>2
  <2> QED BY <2>1, <2>3, CarriedSame
<1>5. CASE Unmap(hub.port) /\ hub.port \in Mapped /\ UNCHANGED <<vdev, port_reenumerate_mask>>
  BY <1>5, CarriedUnmap
<1>6. CASE FreeDevice
  <2>1. CASE hub.port \in Mapped
    BY <1>5, <1>6, <2>1 DEF FreeDevice, askVars
  <2>2. CASE hub.port \notin Mapped
    BY <1>6, <2>2, CarriedSame DEF FreeDevice, SignalReconnect
  <2> QED BY <2>1, <2>2
<1>7. CASE FreeDeviceDestroy
  <2>1. /\ UNCHANGED <<port_to_device, devices>> /\ hub.port \notin Mapped
        /\ hub.dev \in Objs /\ \A d \in DevIds : devices[d] # hub.dev
        /\ vdev' = [vdev EXCEPT ![hub.dev] = NoVdev]
        /\ port_reenumerate_mask' = port_reenumerate_mask \ {hub.port}
    BY <1>7 DEF FreeDeviceDestroy, Kfree, SignalReconnect, MapInv, HubHolds
  <2>2. \A p \in Mapped : VdevOf(p) # hub.dev
    BY <2>1 DEF MapInv, TableInv, TableTypes, MappingIsSound, Mapped, VdevOf
  <2>3. \A p \in Mapped : vdev'[VdevOf(p)] = vdev[VdevOf(p)]
    BY <1>1, <2>1, <2>2 DEF MapInv, TableInv, TableTypes
  <2> QED BY <2>1, <2>3, CarriedSame
<1>8. CASE ResetDevice
  BY <1>3, <1>5, <1>8 DEF ResetDevice, mapVars, askVars
<1>9. CASE ResetDeviceRebuild
  <2>1. /\ hub.port \in Ports /\ hub.port \notin Mapped
        /\ hub.dev \in Objs /\ \A e \in DevIds : devices[e] # hub.dev
        /\ UNCHANGED port_reenumerate_mask
    BY <1>9 DEF ResetDeviceRebuild, MapInv, HubHolds, maskVars, askVars
  <2>2. PICK o \in Outcomes, d \in DevIds \cup {None}, failed \in {{}, {1}} :
          /\ DeviceCreate(hub.port, d, o)
          /\ IF Created(d, o) THEN Attach(hub.port, d, hub.dev, vdev[hub.dev].eps \ failed)
                              ELSE UNCHANGED mapVars
    BY <1>9 DEF ResetDeviceRebuild
  <2>3. Created(d, o) => d \in DevIds /\ devices[d] = None
    BY <2>1, <2>2, CreatedId
  <2> QED BY <1>3, <2>1, <2>2, <2>3, CarriedAttach
<1>10. CASE EnableDevice
  <2>1. hub.port \in Ports /\ UNCHANGED port_reenumerate_mask
    BY <1>10 DEF EnableDevice, MapInv, HubHolds, maskVars, askVars
  <2>2. CASE ~UNCHANGED mapVars
    <3>1. PICK o \in Outcomes, d \in DevIds \cup {None} :
            /\ hub.port \notin Mapped /\ DeviceCreate(hub.port, d, o)
            /\ Created(d, o) /\ \E n \in Objs : ~vdev[n].live
            /\ Attach(hub.port, d, CHOOSE n \in Objs : ~vdev[n].live, {0})
      BY <1>10, <2>2 DEF EnableDevice
    <3> DEFINE n == CHOOSE n \in Objs : ~vdev[n].live
    <3>2. n \in Objs /\ ~vdev[n].live /\ Attach(hub.port, d, n, {0})
      BY <3>1
    <3> HIDE DEF n
    <3>3. \A e \in DevIds : devices[e] # n
      BY <3>2, Sizes DEF MapInv, TableInv, TableTypes, MappingIsSound, Mapped, VdevOf
    <3>4. d \in DevIds /\ devices[d] = None
      BY <2>1, <3>1, CreatedId
    <3> QED BY <2>1, <3>1, <3>2, <3>3, <3>4, CarriedAttach
  <2> QED BY <1>3, <2>1, <2>2
<1>11. CASE ClearConnection \/ \E p \in Ports : GetPortStatus(p) \/ ResetRequest(p)
  BY <1>3, <1>11 DEF ClearConnection, GetPortStatus, ResetRequest, maskVars, askVars
<1> QED BY <1>4, <1>6, <1>7, <1>8, <1>9, <1>10, <1>11 DEF HubThread

\* A step of the hub thread, or one that changes none of this, keeps the stages.
LEMMA CarriedKeeps ==
  ASSUME EndpointInv, Carried, rec'.pc = rec.pc, rec'.port = rec.port,
         UNCHANGED <<bus, timer, watchdog, listening, recovery_fail_count, abandoned>>,
         queued => queued', wiped \subseteq wiped',
         \/ UNCHANGED hub
         \/ hub.pc \notin PmPcs /\ bus # "suspended"
  PROVE  EndpointInv'
<1>1. \A p : Ahead(p) => Ahead(p)'
  BY DEF Ahead
<1>2. CutStages'
  BY <1>1 DEF EndpointInv, CutStages, Carried
<1>3. \A p : ResumeAhead(p) => ResumeAhead(p)'
  BY DEF ResumeAhead, PmPcs
<1>4. QueuesPaused => QueuesPaused'
  BY DEF QueuesPaused, WatchdogOff
<1>5. PauseStages'
  BY <1>1, <1>3, <1>4 DEF EndpointInv, PauseStages, Carried
<1> QED BY <1>2, <1>5 DEF EndpointInv

\* A suspend pauses all endpoints, and who was to enumerate a port again is told to
\* forget it; the resume lifts the pause of each port, or leaves it to the recovery.
LEMMA SuspendEndpoints == ASSUME MapInv, EndpointInv, BusSuspend PROVE EndpointInv'
<1>1. /\ UNCHANGED <<port_to_device, devices, rec, recovery_fail_count, abandoned>> /\ Mapped' = Mapped
      /\ hub'.pc = "pause" /\ wiped' = wiped \cup port_reenumerate_mask
  BY DEF BusSuspend, recVars, MapInv, HubHolds, HubRecords, Mapped
<1>2. \A p \in Mapped : vdev'[VdevOf(p)'].cut => vdev[VdevOf(p)].cut
  <2> SUFFICES ASSUME NEW p \in Mapped, vdev'[VdevOf(p)'].cut PROVE vdev[VdevOf(p)].cut
    OBVIOUS
  <2> DEFINE o == VdevOf(p)
             new == [vdev[o] EXCEPT !.paused = TRUE]
  <2>1. o \in Objs /\ vdev[o] \in VdevRecords /\ VdevOf(p)' = o
    BY <1>1 DEF MapInv, TableInv, TableTypes, MappingIsSound, Mapped, VdevOf
  <2>2. vdev'[o] = new \/ vdev'[o] = vdev[o]
    BY <2>1 DEF BusSuspend
  <2>3. new.cut = vdev[o].cut
    BY <2>1 DEF VdevRecords
  <2> HIDE DEF o, new
  <2> QED BY <2>1, <2>2, <2>3 DEF o
<1>3. \A p : Ahead(p)' <=> Ahead(p)
  BY <1>1 DEF Ahead
<1>4. CutStages'
  BY <1>1, <1>2, <1>3 DEF EndpointInv, CutStages
<1>5. PauseStages'
  BY <1>1 DEF PauseStages, ResumeAhead
<1> QED BY <1>4, <1>5 DEF EndpointInv

LEMMA PmStagesEndpoints ==
  ASSUME MapInv, WorkInv, EndpointInv,
         BusSuspendPause \/ BusResume \/ BusResumeStart \/ BusResumeEnd
  PROVE  EndpointInv'
<1>1. /\ UNCHANGED <<mapVars, rec, recovery_fail_count>> /\ hub \in HubRecords /\ Mapped' = Mapped
      /\ \A p : VdevOf(p)' = VdevOf(p)
      /\ \A p \in Mapped : p \in Ports /\ p \in Int /\ p >= 1
  BY DEF BusSuspendPause, BusResume, BusResumeStart, BusResumeEnd, mapVars, recVars, MapInv,
         HubHolds, Mapped, VdevOf, Ports
<1>2. \A p : Ahead(p)' <=> Ahead(p)
  BY <1>1 DEF Ahead
<1>3. CASE BusSuspendPause
  <2>1. /\ UNCHANGED <<port_reenumerate_mask, wiped>>
        /\ hub'.pc = "idle"
        /\ \/ UNCHANGED abandoned /\ ~listening' /\ bus' = "suspended"
           \/ abandoned'
    BY <1>3, IdleIsLoose DEF BusSuspendPause, askVars
  <2>2. CutStages'
    BY <1>1, <1>2, <2>1 DEF EndpointInv, CutStages, mapVars
  <2>3. PauseStages'
    BY <2>1 DEF PauseStages, QueuesPaused
  <2> QED BY <2>2, <2>3 DEF EndpointInv
<1>4. CASE BusResume
  <2>1. /\ UNCHANGED <<port_reenumerate_mask, wiped, abandoned, queued, timer, watchdog>>
        /\ bus = "suspended" /\ hub.pc = "idle"
        /\ \/ recovering /\ bus' = "up" /\ UNCHANGED <<listening, hub>>
           \/ hub'.pc = "start"
    BY <1>1, <1>4 DEF BusResume, maskVars, askVars, costVars, history, HubRecords
  <2>2. CutStages'
    BY <1>1, <1>2, <2>1 DEF EndpointInv, CutStages, mapVars
  <2>3. CASE hub'.pc = "start"
    <3>1. PauseStages'
      BY <2>3 DEF PauseStages, ResumeAhead
    <3> QED BY <2>2, <3>1 DEF EndpointInv
  <2>4. CASE recovering /\ bus' = "up" /\ UNCHANGED <<listening, hub>>
    <3>1. rec.pc # "idle"
      BY <2>4 DEF WorkInv, WorkStages
    <3>2. \A p : ~ResumeAhead(p)
      BY <2>1, <3>1 DEF ResumeAhead
    <3>3. QueuesPaused => QueuesPaused'
      BY <1>1, <2>4, <3>1 DEF QueuesPaused
    <3>4. PauseStages'
      BY <1>1, <1>2, <2>1, <3>2, <3>3 DEF EndpointInv, PauseStages, mapVars
    <3> QED BY <2>2, <3>4 DEF EndpointInv
  <2> QED BY <2>1, <2>3, <2>4
<1>5. CASE BusResumeStart
  <2>1. /\ UNCHANGED abandoned
        /\ \/ /\ UNCHANGED <<port_reenumerate_mask, wiped>>
              /\ hub'.pc = "ports" /\ hub'.port = 1
           \/ wiped' = wiped \cup port_reenumerate_mask /\ queued'
    BY <1>1, <1>5 DEF BusResumeStart, HubRecords
  <2>2. CutStages'
    BY <1>1, <1>2, <2>1 DEF EndpointInv, CutStages, mapVars
  <2>3. PauseStages'
    BY <1>1, <2>1 DEF PauseStages, ResumeAhead
  <2> QED BY <2>2, <2>3 DEF EndpointInv
<1>6. CASE BusResumeEnd
  <2>1. /\ UNCHANGED <<port_reenumerate_mask, wiped, abandoned, queued, listening>> /\ timer'
        /\ hub.pc = "ports" /\ hub.port \notin Ports
    BY <1>6 DEF BusResumeEnd, StartWatchdog, askVars, costVars, history
  <2>2. CutStages'
    BY <1>1, <1>2, <2>1 DEF EndpointInv, CutStages, mapVars
  <2>3. \A p \in Mapped : ~ResumeAhead(p)
    <3>1. hub.port = NPorts + 1
      BY <1>1, <2>1, Sizes DEF Ports, HubRecords
    <3>2. \A p \in Mapped : ~(p >= hub.port)
      BY <1>1, <3>1, Sizes DEF Ports
    <3> QED BY <2>1, <3>2 DEF ResumeAhead
  <2>4. QueuesPaused => QueuesPaused'
    BY <2>1 DEF QueuesPaused, WatchdogOff
  <2>5. bus = "suspended"
    BY <2>1 DEF WorkInv, BusStages
  <2>6. PauseStages'
    BY <1>1, <1>2, <2>1, <2>3, <2>4, <2>5 DEF EndpointInv, PauseStages, mapVars
  <2> QED BY <2>2, <2>6 DEF EndpointInv
<1> QED BY <1>3, <1>4, <1>5, <1>6

\* The loop of the resume over the ports.
LEMMA LoopEndpoints ==
  ASSUME MapInv, WorkInv, EndpointInv, BusResumePort \/ BusResumeRefresh \/ BusResumeRefreshFail
  PROVE  EndpointInv'
<1>1. /\ hub \in HubRecords /\ rec \in RecRecords /\ HubHolds
      /\ hub.pc \in {"ports", "refresh"} /\ hub.port \in Ports
      /\ UNCHANGED <<bus, timer, watchdog, listening, recovery_fail_count, abandoned, wiped>>
      /\ queued => queued'
  BY DEF BusResumePort, BusResumeRefresh, BusResumeRefreshFail, MapInv, WorkerHolds, HubHolds,
         workVars, recVars, costVars, history, Charge, CancelTimesOut
<1>2. \A p \in Mapped : p \in Ports /\ VdevOf(p) \in Objs
  BY DEF MapInv, TableInv, TableTypes, MappingIsSound, Mapped, VdevOf
<1>3. port_reenumerate_mask \subseteq port_reenumerate_mask'
  BY DEF BusResumePort, BusResumeRefresh, BusResumeRefreshFail, askVars, Reenumerate
<1>4. rec'.pc = rec.pc /\ rec'.port = rec.port
  <2>1. UNCHANGED rec \/ Kfree(hub.dev)
    BY DEF BusResumePort, BusResumeRefresh, BusResumeRefreshFail, recVars
  <2> QED BY <1>1, <2>1 DEF Kfree, RecRecords
<1>5. /\ hub' = NextPort => hub'.pc = "ports" /\ hub'.port = hub.port + 1
  BY <1>1, NextPortIsLoose
<1>6. \A p : Ahead(p) => Ahead(p)'
  BY <1>4 DEF Ahead
<1>7. QueuesPaused => QueuesPaused'
  BY <1>1, <1>4 DEF QueuesPaused, WatchdogOff
<1>8. ASSUME Carried,
             \/ hub'.pc = "refresh" /\ hub'.port = hub.port
             \/ /\ hub' = NextPort
                /\ \A q \in Mapped' : q = hub.port =>
                      q \in port_reenumerate_mask' \/ ~vdev'[VdevOf(q)'].paused
      PROVE  EndpointInv'
  <2>1. CutStages'
    BY <1>1, <1>6, <1>8 DEF EndpointInv, CutStages, Carried
  <2>2. \A p \in Mapped' : \/ ResumeAhead(p)' \/ ~ResumeAhead(p)
                           \/ p \in port_reenumerate_mask' \/ ~vdev'[VdevOf(p)'].paused
    <3> SUFFICES ASSUME NEW p \in Mapped', ~ResumeAhead(p)', ResumeAhead(p)
                 PROVE  p \in port_reenumerate_mask' \/ ~vdev'[VdevOf(p)'].paused
      OBVIOUS
    <3>1. p >= hub.port
      BY <1>1 DEF ResumeAhead
    <3>2. hub' = NextPort
      BY <1>8, <3>1 DEF ResumeAhead
    <3>3. p \in Int /\ hub.port \in Int
      BY <1>1 DEF Mapped, Ports
    <3>4. p = hub.port
      BY <1>5, <3>1, <3>2, <3>3 DEF ResumeAhead
    <3>5. hub'.pc # "refresh"
      BY <1>5, <3>2
    <3> QED BY <1>8, <3>4, <3>5
  <2>3. PauseStages'
    BY <1>1, <1>6, <1>7, <1>8, <2>2 DEF EndpointInv, PauseStages, Carried
  <2> QED BY <2>1, <2>3 DEF EndpointInv
<1>9. CASE BusResumePort /\ UNCHANGED mapVars /\ hub' = NextPort
           /\ (hub.port \in Mapped => Reenumerate(hub.port))
  <2>1. Carried
    BY <1>3, <1>9, CarriedSame DEF mapVars
  <2>2. \A q \in Mapped' : q = hub.port => q \in port_reenumerate_mask'
    BY <1>9 DEF Reenumerate, mapVars, Mapped
  <2> QED BY <1>8, <1>9, <2>1, <2>2
<1>10. CASE /\ BusResumePort /\ hub.port \in Mapped
            /\ vdev' = [vdev EXCEPT ![VdevOf(hub.port)].paused = FALSE]
            /\ hub' = NextPort
            /\ UNCHANGED <<port_to_device, devices>>
  <2> DEFINE o == VdevOf(hub.port)
             new == [vdev[o] EXCEPT !.paused = FALSE]
  <2>1. o \in Objs /\ vdev[o] \in VdevRecords
    BY <1>2, <1>10 DEF MapInv, TableInv, TableTypes
  <2>2. ~new.paused /\ new.cut = vdev[o].cut
    BY <2>1 DEF VdevRecords
  <2>3. vdev' = [vdev EXCEPT ![o] = new]
    BY <1>10, <2>1 DEF MapInv, TableInv, TableTypes
  <2>4. \A q : q = hub.port => VdevOf(q)' = o
    BY <1>10 DEF VdevOf
  <2> HIDE DEF o, new
  <2>5. \A p \in Mapped : /\ vdev'[VdevOf(p)].cut => vdev[VdevOf(p)].cut
                          /\ vdev'[VdevOf(p)].paused => vdev[VdevOf(p)].paused
    BY <1>2, <2>1, <2>2, <2>3 DEF MapInv, TableInv, TableTypes
  <2>6. Carried
    BY <1>3, <1>10, <2>5, CarriedSame
  <2>7. \A q : q = hub.port => ~vdev'[VdevOf(q)'].paused
    BY <2>1, <2>2, <2>3, <2>4 DEF MapInv, TableInv, TableTypes
  <2> QED BY <1>8, <1>10, <2>6, <2>7
<1>11. CASE /\ BusResumePort /\ hub.port \in Mapped
            /\ hub' = [hub EXCEPT !.pc = "refresh", !.dev = VdevOf(hub.port),
                                  !.id = port_to_device[hub.port]]
            /\ vdev' = [vdev EXCEPT ![VdevOf(hub.port)] = FreshVdev({})]
            /\ Unmap(hub.port)
  <2>1. hub'.pc = "refresh" /\ hub'.port = hub.port
    BY <1>1, <1>11 DEF HubRecords
  <2>2. \A q \in Mapped \ {hub.port} : VdevOf(q) # VdevOf(hub.port)
    BY <1>11 DEF MapInv, TableInv, TableTypes, OneIdEach, MappingIsSound, Mapped, VdevOf
  <2>3. \A q \in Mapped \ {hub.port} : vdev'[VdevOf(q)] = vdev[VdevOf(q)]
    BY <1>2, <1>11, <2>2 DEF MapInv, TableInv, TableTypes
  <2>4. Carried
    BY <1>3, <1>11, <2>3, CarriedUnmap
  <2> QED BY <1>8, <2>1, <2>4
<1>12. CASE BusResumeRefresh
  <2>1. /\ hub.port \notin Mapped /\ hub.dev \in Objs /\ \A e \in DevIds : devices[e] # hub.dev
        /\ hub' = NextPort /\ hub.pc = "refresh"
    BY <1>12 DEF BusResumeRefresh, MapInv, HubHolds
  <2>2. PICK d \in DevIds : /\ t2dev[d] = None \/ d = hub.id
                            /\ t2dev' = [t2dev EXCEPT ![hub.id] = None, ![d] = hub.port]
                            /\ Attach(hub.port, d, hub.dev, {0})
    BY <1>12 DEF BusResumeRefresh
  <2>3. devices[d] = None
    BY <2>1, <2>2, RefreshedId
  <2>4. Carried
    BY <1>1, <1>3, <2>1, <2>2, <2>3, CarriedAttach
  <2>5. \A q : q = hub.port => VdevOf(q)' = hub.dev
    BY <1>1, <2>2 DEF Attach, VdevOf, MapInv, TableInv, TableTypes
  <2>6. ~vdev'[hub.dev].paused
    BY <2>1, <2>2 DEF Attach, FreshVdev, MapInv, TableInv, TableTypes
  <2> QED BY <1>8, <2>1, <2>4, <2>5, <2>6
<1>13. CASE BusResumeRefreshFail
  <2>1. /\ hub.port \notin Mapped /\ hub.dev \in Objs /\ \A e \in DevIds : devices[e] # hub.dev
        /\ hub' = NextPort /\ UNCHANGED <<port_to_device, devices>>
        /\ vdev' = [vdev EXCEPT ![hub.dev] = NoVdev]
    BY <1>13 DEF BusResumeRefreshFail, MapInv, HubHolds, Kfree
  <2>2. \A p \in Mapped : VdevOf(p) # hub.dev
    BY <2>1 DEF MapInv, TableInv, TableTypes, MappingIsSound, Mapped, VdevOf
  <2>3. \A p \in Mapped : vdev'[VdevOf(p)] = vdev[VdevOf(p)]
    BY <1>2, <2>1, <2>2 DEF MapInv, TableInv, TableTypes
  <2>4. Carried
    BY <1>3, <2>1, <2>3, CarriedSame
  <2>5. hub.port \notin Mapped'
    BY <2>1 DEF Mapped
  <2> QED BY <1>8, <2>1, <2>4, <2>5
<1> QED BY <1>9, <1>10, <1>11, <1>12, <1>13 DEF BusResumePort

\* The worker cuts endpoints off before its last phase, in which it comes to every port
\* that has a device; or it gives up.
LEMMA RecoveryEndpoints ==
  ASSUME MapInv, WorkInv, EndpointInv, FailsAreCounted, Recovery PROVE EndpointInv'
<1>1. /\ UNCHANGED <<port_to_device, devices, bus, hub, wiped>> /\ Mapped' = Mapped
      /\ \A p : VdevOf(p)' = VdevOf(p)
      /\ rec \in RecRecords
  BY DEF Recovery, RecoveryStart, RecoveryLook, RecoveryCut, RecoveryPause, RecoveryRestart,
         RecoveryTest, RecoverySet, RecoveryOut, mapVars, history, MapInv, WorkerHolds, Mapped,
         VdevOf
<1>2. \A a, p, o : RecGo(a, p, o) => rec'.pc = a /\ rec'.port = p
  BY DEF RecGo
<1>3. ASSUME \A p \in Mapped : Ahead(p)' PROVE EndpointInv'
  BY <1>1, <1>3 DEF EndpointInv, CutStages, PauseStages
<1>4. ASSUME abandoned', CutStages' PROVE EndpointInv'
  BY <1>4 DEF EndpointInv, PauseStages
<1>5. CASE RecoveryStart
  <2>1. CASE rec'.pc = "look"
    BY <1>3, <2>1 DEF Ahead
  <2>2. CASE abandoned' /\ UNCHANGED rec
    <3>1. UNCHANGED <<vdev, port_reenumerate_mask, recovery_fail_count>>
      BY <1>5 DEF RecoveryStart, mapVars, maskVars, askVars
    <3>2. CutStages'
      BY <1>1, <2>2, <3>1 DEF EndpointInv, CutStages, Ahead
    <3> QED BY <1>4, <2>2, <3>2
  <2> QED BY <1>2, <1>5, <2>1, <2>2 DEF RecoveryStart
<1>6. CASE RecoveryLook \/ RecoveryCut \/ RecoveryPause
  <2>1. rec'.pc \in {"cut", "pause", "look", "resume", "restart"}
    BY <1>2, <1>6 DEF RecoveryLook, RecoveryCut, RecoveryPause
  <2> QED BY <1>3, <2>1 DEF Ahead
<1>7. CASE RecoveryRestart
  <2>1. \/ abandoned' /\ recovery_fail_count' = recovery_fail_count + 1
        \/ rec'.pc = "test" /\ rec'.port = 1
    BY <1>2, <1>7 DEF RecoveryRestart
  <2>2. \A p \in Mapped : p >= 1
    BY DEF Mapped, Ports
  <2>3. recovery_fail_count' = recovery_fail_count + 1 => CutStages'
    BY DEF CutStages, FailsAreCounted
  <2> QED BY <1>3, <1>4, <2>1, <2>2, <2>3 DEF Ahead
<1>8. ASSUME UNCHANGED <<vdev, listening, queued, recovery_fail_count, abandoned>>,
             port_reenumerate_mask \subseteq port_reenumerate_mask',
             \A p \in Mapped : Ahead(p) => Ahead(p)' \/ p \in port_reenumerate_mask',
             rec.pc # "idle",
             \/ rec'.pc # "idle"
             \/ timer' \/ (bus \in {"up", "suspended"} => abandoned)
      PROVE  EndpointInv'
  <2>1. CutStages'
    BY <1>1, <1>8 DEF EndpointInv, CutStages
  <2>2. \A p : ResumeAhead(p) => ResumeAhead(p)'
    BY <1>1, <1>8 DEF ResumeAhead
  <2>3. QueuesPaused => QueuesPaused' \/ (bus \in {"up", "suspended"} => abandoned)
    BY <1>1, <1>8 DEF QueuesPaused, WatchdogOff
  <2>4. PauseStages'
    BY <1>1, <1>8, <2>2, <2>3 DEF EndpointInv, PauseStages
  <2> QED BY <2>1, <2>4 DEF EndpointInv
<1>9. CASE RecoveryTest
  <2> DEFINE n == NextMapped(rec.port)
  <2>1. /\ rec.pc = "test"
        /\ UNCHANGED <<mapVars, listening, queued, recovery_fail_count, abandoned,
                       port_reenumerate_mask>>
        /\ IF n \in Ports THEN rec'.pc = "set" /\ rec'.port = n ELSE rec'.pc = "out"
    BY <1>2, <1>9 DEF RecoveryTest, workVars, costVars, history, maskVars, askVars
  <2>2. rec.port \in 1..(NPorts + 1)
    BY <1>1 DEF RecRecords
  <2>3. /\ n \notin Ports => n = NPorts + 1
        /\ \A q \in Mapped : q >= rec.port => q >= n
    BY <2>2, NextMappedIs
  <2> HIDE DEF n
  <2>4. \A p \in Mapped : Ahead(p) => Ahead(p)'
    <3> SUFFICES ASSUME NEW p \in Mapped, Ahead(p) PROVE Ahead(p)'
      OBVIOUS
    <3>1. p >= n
      BY <2>1, <2>3 DEF Ahead
    <3>2. n \in Ports
      BY <2>3, <3>1, Sizes DEF Mapped, Ports
    <3> QED BY <2>1, <3>1, <3>2 DEF Ahead
  <2> QED BY <1>8, <2>1, <2>4 DEF mapVars
<1>10. CASE RecoverySet
  <2>1. /\ rec.pc = "set" /\ rec'.pc = "test" /\ rec'.port = rec.port + 1 /\ rec.port \in Ports
        /\ UNCHANGED <<mapVars, listening, queued, recovery_fail_count, abandoned>>
        /\ port_reenumerate_mask' = port_reenumerate_mask \cup {rec.port}
    BY <1>2, <1>10 DEF RecoverySet, Reenumerate, workVars, costVars, MapInv, WorkerHolds
  <2>2. \A p \in Mapped : Ahead(p) => Ahead(p)' \/ p = rec.port
    BY <2>1 DEF Ahead, Mapped, Ports
  <2> QED BY <1>8, <2>1, <2>2 DEF mapVars
<1>11. CASE RecoveryOut
  <2>1. /\ rec.pc = "out" /\ (timer' \/ controller_dead)
        /\ UNCHANGED <<mapVars, listening, queued, recovery_fail_count, abandoned,
                       port_reenumerate_mask>>
    BY <1>11 DEF RecoveryOut, StartWatchdog, costVars, history, maskVars, askVars
  <2>2. timer' \/ (bus \in {"up", "suspended"} => abandoned)
    BY <2>1 DEF WorkInv, WorkStages
  <2>3. \A p : ~Ahead(p)
    BY <2>1 DEF Ahead
  <2> QED BY <1>8, <2>1, <2>2, <2>3 DEF mapVars
<1> QED BY <1>5, <1>6, <1>7, <1>9, <1>10, <1>11 DEF Recovery

\* With the event queues paused the probe of the watchdog is not answered, and it
\* queues the recovery.
LEMMA WatchdogEndpoints == ASSUME WorkInv, EndpointInv, Watchdog PROVE EndpointInv'
<1>1. /\ UNCHANGED <<mapVars, maskVars, recVars, listening, bus, hub, wiped, abandoned>>
      /\ Mapped' = Mapped /\ (\A p : VdevOf(p)' = VdevOf(p)) /\ \A p : Ahead(p)' <=> Ahead(p)
  BY DEF Watchdog, WatchdogFires, WatchdogProbe, WatchdogReport, recVars, history, mapVars,
         Mapped, VdevOf, Ahead
<1>2. CutStages'
  BY <1>1 DEF EndpointInv, CutStages, mapVars, maskVars, askVars, recVars
<1>3. \A p : ResumeAhead(p)' <=> ResumeAhead(p)
  BY <1>1 DEF ResumeAhead, recVars
<1>4. queued => queued'
  BY DEF Watchdog, WatchdogFires, WatchdogProbe, WatchdogReport, costVars, CancelTimesOut
<1>5. bus \in {"up", "suspended"} /\ QueuesPaused => QueuesPaused' \/ queued' \/ abandoned
  <2> SUFFICES ASSUME bus \in {"up", "suspended"}, ~listening, ~abandoned
               PROVE  QueuesPaused' \/ queued'
    BY DEF QueuesPaused
  <2>1. ~controller_dead /\ ~listening'
    BY <1>1 DEF WorkInv, WorkStages
  <2>2. CASE WatchdogFires
    <3>1. timer' \/ watchdog' = "probe"
      BY <2>1, <2>2 DEF WatchdogFires
    <3> QED BY <2>1, <3>1 DEF QueuesPaused, WatchdogOff
  <2>3. CASE WatchdogProbe
    BY <2>1, <2>3 DEF WatchdogProbe, QueuesPaused, WatchdogOff
  <2>4. CASE WatchdogReport
    BY <2>4 DEF WatchdogReport
  <2> QED BY <2>2, <2>3, <2>4 DEF Watchdog
<1>6. PauseStages'
  BY <1>1, <1>3, <1>4, <1>5 DEF EndpointInv, PauseStages, mapVars, maskVars, askVars
<1> QED BY <1>2, <1>6 DEF EndpointInv

\* Events, and the steps of the removal.
LEMMA RestEndpoints ==
  ASSUME MapInv, EndpointInv,
         \/ \E p \in Ports : PortStatusChange(p) \/ Plug(p) \/ RemoveDevice(p)
         \/ ControllerResetNotify \/ EndpointTimeout \/ Remove \/ Stop \/ Destroy
         \/ UNCHANGED vars
  PROVE  EndpointInv'
<1>1. /\ UNCHANGED <<mapVars, port_reenumerate_mask, rec, recovery_fail_count, abandoned, wiped,
                     listening>>
      /\ Mapped' = Mapped /\ (\A p : VdevOf(p)' = VdevOf(p)) /\ \A p : Ahead(p)' <=> Ahead(p)
  BY DEF PortStatusChange, Plug, RemoveDevice, ControllerResetNotify, EndpointTimeout, Remove,
         Stop, Destroy, vars, recVars, history, mapVars, maskVars, askVars, workVars, Mapped,
         VdevOf, Ahead
<1>2. CutStages'
  BY <1>1 DEF EndpointInv, CutStages, mapVars
<1>3. CASE bus' \notin {"up", "suspended"}
  BY <1>2, <1>3 DEF EndpointInv, PauseStages
<1>4. CASE bus' \in {"up", "suspended"}
  <2>1. \/ \E p \in Ports : PortStatusChange(p) \/ Plug(p)
        \/ ControllerResetNotify \/ EndpointTimeout \/ UNCHANGED vars
    BY <1>4 DEF RemoveDevice, Remove, Stop, Destroy
  <2>2. UNCHANGED <<bus, hub, timer, watchdog>> /\ (queued => queued')
    BY <2>1 DEF PortStatusChange, Plug, ControllerResetNotify, EndpointTimeout, vars, workVars,
                costVars
  <2>3. (\A p : ResumeAhead(p)' <=> ResumeAhead(p)) /\ (QueuesPaused' <=> QueuesPaused)
    BY <1>1, <2>2 DEF ResumeAhead, QueuesPaused, WatchdogOff
  <2>4. PauseStages'
    BY <1>1, <2>2, <2>3 DEF EndpointInv, PauseStages, mapVars
  <2> QED BY <1>2, <2>4 DEF EndpointInv
<1> QED BY <1>3, <1>4

LEMMA NextEndpoints ==
  MapInv /\ WorkInv /\ EndpointInv /\ FailsAreCounted /\ [Next]_vars => EndpointInv'
<1> SUFFICES ASSUME MapInv, WorkInv, EndpointInv, FailsAreCounted, [Next]_vars
             PROVE  EndpointInv'
  OBVIOUS
<1>1. CASE HubThread
  <2>1. bus # "suspended"
    BY <1>1, HubThreadWork DEF WorkInv, BusStages, PmPcs
  <2> QED BY <1>1, <2>1, HubThreadWork, HubThreadCarries, CarriedKeeps
<1>2. CASE Pm
  BY <1>2, SuspendEndpoints, PmStagesEndpoints, LoopEndpoints DEF Pm
<1> QED BY <1>1, <1>2, RecoveryEndpoints, WatchdogEndpoints, RestEndpoints DEF Next

LEMMA InitEndpoints == Init => EndpointInv
<1> SUFFICES ASSUME Init PROVE EndpointInv
  OBVIOUS
<1>1. \A p \in Mapped : ~vdev[VdevOf(p)].cut /\ ~vdev[VdevOf(p)].paused
  <2> SUFFICES ASSUME NEW p \in Mapped PROVE ~vdev[VdevOf(p)].cut /\ ~vdev[VdevOf(p)].paused
    OBVIOUS
  <2>1. p \in Ports /\ p \in DevIds /\ p \in Objs
    BY Sizes DEF Mapped, Ports, DevIds, Objs
  <2>2. VdevOf(p) = p
    BY <2>1 DEF Init, VdevOf
  <2>3. vdev[p] = FreshVdev({0, 1})
    BY <2>1 DEF Init
  <2> QED BY <2>2, <2>3 DEF FreshVdev
<1> QED BY <1>1 DEF EndpointInv, CutStages, PauseStages

LEMMA InitFails == Init => FailsAreCounted
BY DEF Init, FailsAreCounted

\* A device whose endpoints the recovery has cut off is enumerated again: the worker
\* cuts them in its first phase and asks for the enumeration in its last one, and until
\* then the hub thread may free, reset or create the devices it has cut.
THEOREM CutIsFollowedUp == Spec => []CancelledIsReenumerated
<1>1. EndpointInv => CancelledIsReenumerated
  BY DEF EndpointInv, CutStages, CancelledIsReenumerated, Ahead
<1> QED BY <1>1, InitMap, NextMap, InitWork, NextWork, InitFails, NextFails, InitEndpoints,
           NextEndpoints, PTL DEF Spec

\* The pause that bce_vhci_bus_suspend gives to all queues is lifted after the resume,
\* whichever of bce_vhci_bus_resume, the recovery and the watchdog is the one to do it.
THEOREM PauseIsLifted == Spec => []SuspendPauseIsLifted
<1>1. EndpointInv => SuspendPauseIsLifted
  BY DEF EndpointInv, PauseStages, SuspendPauseIsLifted, Ahead, ResumeAhead, QueuesPaused
<1> QED BY <1>1, InitMap, NextMap, InitWork, NextWork, InitFails, NextFails, InitEndpoints,
           NextEndpoints, PTL DEF Spec

=============================================================================
