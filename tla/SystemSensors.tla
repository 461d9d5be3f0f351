----------------------------- MODULE SystemSensors -----------------------------
(***************************************************************************)
(* The half of the system adapter that only reads (adapters/system/src):   *)
(* the processor, the thermal zones and the drives, as the operating       *)
(* system lists them.  A zone or a drive has no name of its own here: its  *)
(* device id is its place in the list it was described from                *)
(* (component_device_id, disk_device_id), and a reading looks that place   *)
(* up in the list of a later moment.                                       *)
(*                                                                         *)
(* Memory, load and clock have one device each and are left out, as are    *)
(* the values: what a reading says is which zone or volume was measured.   *)
(***************************************************************************)
EXTENDS Integers, Sequences, FiniteSets

CONSTANTS
    Zones,      \* the thermal zones
    Volumes,    \* the mounted volumes
    CpuScore,   \* zone -> how much its label looks like a processor's, 0 not at all
    Useful,     \* the zones whose label says something to a person
    Derived,    \* the calibration zones
    Removable,  \* the volumes of removable drives
    DriveOf,    \* volume -> the drive it is on, by name and capacity
    Fickle,     \* the zones and volumes that may come, go or fall silent
    MaxZones    \* MAX_THERMAL_ZONE_DEVICES

ASSUME SensorsAssumption ==
    /\ IsFiniteSet(Zones) /\ IsFiniteSet(Volumes) /\ Zones \cap Volumes = {}
    /\ CpuScore \in [Zones -> 0 .. 100]
    /\ Useful \cup Derived \subseteq Zones /\ Removable \subseteq Volumes
    /\ Fickle \subseteq Zones \cup Volumes /\ MaxZones \in Nat

VARIABLES
    present,   \* the zones and volumes there are
    warm,      \* of each zone: what its temperature looks like
    lists,     \* what sysinfo listed at the last refresh
    places,    \* the devices, as the last discovery described them
    looked,    \* what the last poll measured: a device, and where
    intact     \* history: nothing listed has gone since that discovery

sensors == <<present, warm, lists, places, looked, intact>>

Nowhere == "nowhere"

\* None, out of the range a processor can have, or plausible.
Warmths == {"silent", "absurd", "plausible"}

Rows(list) == {list[k] : k \in DOMAIN list}

Orders(S) ==
    {o \in [1 .. Cardinality(S) -> S] : \A j, k \in DOMAIN o : o[j] = o[k] => j = k}

-----------------------------------------------------------------------------
(* The lists.  A refresh drops what has gone, and what is new comes last.    *)

\* Of a set of places, how many come no later than k.
Rank(k, S) == Cardinality({j \in S : j <= k})

\* What has not gone, in its order.
Remaining(list) ==
    LET there == {k \in DOMAIN list : list[k] \in present}
    IN [n \in 1 .. Cardinality(there) |-> list[CHOOSE k \in there : Rank(k, there) = n]]

Refreshed(list, all) ==
    {Remaining(list) \o new : new \in Orders((all \cap present) \ Rows(list))}

Refresh ==
    /\ \E z \in Refreshed(lists.zones, Zones), v \in Refreshed(lists.volumes, Volumes) :
          lists' = [zones |-> z, volumes |-> v, warm |-> warm]
    /\ intact' = (intact /\ Rows(lists.zones) \cup Rows(lists.volumes) \subseteq present)

-----------------------------------------------------------------------------
(* What is described *)

\* A device keeps the place its zone has among all of them.
ZonePlaces(list, chosen) ==
    {[kind |-> "zone", place |-> k, at |-> k, of |-> list[k]] : k \in chosen}

\* select_thermal_zones: the weight is a u8 and saturates.
Weight(z) ==
    LET score == 200 + CpuScore[z] IN
    IF z \notin Useful THEN 100 ELSE IF score > 255 THEN 255 ELSE score

Outranks(list, j, k) ==
    Weight(list[j]) > Weight(list[k]) \/ (Weight(list[j]) = Weight(list[k]) /\ j < k)

Selected(list, temperature) ==
    LET candidates == {k \in DOMAIN list : /\ temperature[list[k]] # "silent"
                                           /\ list[k] \notin Derived}
    IN {k \in candidates : Cardinality({j \in candidates : Outranks(list, j, k)}) < MaxZones}

\* build_devices: one device per drive that stays, and they are counted as they
\* are described.
Kept(list) ==
    {k \in DOMAIN list : /\ list[k] \notin Removable
                         /\ \A j \in 1 .. k - 1 : /\ list[j] \notin Removable
                                                  => DriveOf[list[j]] # DriveOf[list[k]]}

DrivePlaces(list) ==
    {[kind |-> "drive", place |-> Rank(k, Kept(list)), at |-> k, of |-> list[k]]
        : k \in Kept(list)}

Processor == [kind |-> "cpu", place |-> 1, at |-> 1, of |-> Nowhere]

Built ==
    {Processor} \cup ZonePlaces(lists.zones, Selected(lists.zones, lists.warm))
                \cup DrivePlaces(lists.volumes)

-----------------------------------------------------------------------------
(* What is read *)

\* cpu_component_temperature: the first of the zones that look most like one.
CpuZones(list, temperature) ==
    {k \in DOMAIN list : /\ list[k] \notin Derived
                         /\ temperature[list[k]] = "plausible" /\ CpuScore[list[k]] > 0}

CpuZone(list, temperature) ==
    LET zones == CpuZones(list, temperature) IN
    IF zones = {} THEN Nowhere
    ELSE list[CHOOSE k \in zones : \A j \in zones :
                 CpuScore[list[k]] > CpuScore[list[j]]
                 \/ (CpuScore[list[k]] = CpuScore[list[j]] /\ k <= j)]

\* read_one: a zone that is silent, a place there is no more, are said to be so.
ZoneAt(k, now) ==
    IF k \in DOMAIN now.zones /\ now.warm[now.zones[k]] # "silent" THEN now.zones[k] ELSE Nowhere

VolumeAt(k, now) == IF k \in DOMAIN now.volumes THEN now.volumes[k] ELSE Nowhere

LookedUp(d, now) ==
    CASE d.kind = "cpu"   -> CpuZone(now.zones, now.warm)
      [] d.kind = "zone"  -> ZoneAt(d.place, now)
      [] d.kind = "drive" -> VolumeAt(d.place, now)

-----------------------------------------------------------------------------
SensorsInit ==
    /\ present \in {(Zones \cup Volumes) \ gone : gone \in SUBSET Fickle}
    /\ warm = [z \in Zones |-> "plausible"]
    /\ lists \in [zones : Orders(Zones \cap present), volumes : Orders(Volumes \cap present),
                  warm : {warm}]
    /\ places = {} /\ looked = {} /\ intact = TRUE

\* probe looks, and says whether the processor has a temperature.
SensorsProbe == Refresh /\ UNCHANGED <<present, warm, places, looked>>

\* discover describes what was listed at the last refresh.
SensorsDiscover ==
    /\ places' = Built /\ looked' = {} /\ intact' = TRUE
    /\ UNCHANGED <<present, warm, lists>>

\* read_all: one refresh for the whole cycle.
SensorsPoll ==
    /\ places # {} /\ Refresh
    /\ looked' = {[device |-> d, source |-> LookedUp(d, lists')] : d \in places}
    /\ UNCHANGED <<present, warm, places>>

\* A volume is mounted or goes, a driver is loaded or goes, a zone falls silent.
SensorTurns(x) ==
    /\ \/ present' = (IF x \in present THEN present \ {x} ELSE present \cup {x})
          /\ UNCHANGED warm
       \/ x \in Zones /\ \E t \in Warmths \ {warm[x]} : warm' = [warm EXCEPT ![x] = t]
          /\ UNCHANGED present
    /\ UNCHANGED <<lists, places, looked, intact>>

SensorsNext ==
    SensorsProbe \/ SensorsDiscover \/ SensorsPoll \/ \E x \in Fickle : SensorTurns(x)

-----------------------------------------------------------------------------
\* No list has anything twice, and no two devices have one id.
SensorsTypeOK ==
    /\ present \subseteq Zones \cup Volumes /\ warm \in [Zones -> Warmths]
    /\ lists.zones \in Orders(Rows(lists.zones)) /\ Rows(lists.zones) \subseteq Zones
    /\ lists.volumes \in Orders(Rows(lists.volumes)) /\ Rows(lists.volumes) \subseteq Volumes
    /\ intact \in BOOLEAN
    /\ \A d, e \in places : d.kind = e.kind /\ d.place = e.place => d = e

InPlace(d) == d.place = d.at

\* What is shown for a zone is that zone's temperature, or that there is none,
\* however many zones were not worth a device, as long as nothing listed has
\* gone since the discovery; and so for a drive, unless a volume listed before
\* it has no device (build_devices numbers the devices, read_one the volumes).
ReadingsAreOwn ==
    /\ \A d \in places : d.kind = "zone" => InPlace(d)
    /\ intact => \A r \in looked :
          r.device.kind # "cpu" /\ InPlace(r.device) => r.source \in {r.device.of, Nowhere}

\* A drive is described once however often it is mounted, and a stick never.
DrivesAreDrives ==
    /\ \A d \in places : d.kind = "drive" => d.of \notin Removable
    /\ \A d, e \in {p \in places : p.kind = "drive"} : DriveOf[d.of] = DriveOf[e.of] => d = e

SensorsAreSound == SensorsTypeOK /\ ReadingsAreOwn /\ DrivesAreDrives
=============================================================================
