------------------------------ MODULE Providers -------------------------------
(***************************************************************************)
(* The providers of a runtime (discovery.rs, device_table.rs, runtime.rs): *)
(* discovery cycles that probe every adapter, let one stand by for another *)
(* that describes the same hardware, and carry what was found into the     *)
(* device table, while the poll loop reads the devices of the table, the   *)
(* user switches adapters and devices, and providers come and go.          *)
(*                                                                         *)
(* A step lies between two `await`s; nothing is locked over one.  Cycles   *)
(* are begun by the discovery loop and by the user (tray, scan_devices),   *)
(* and may overlap.  Durations, details, events and the seeding of the     *)
(* reading store (RuntimeWrites) are left out.                             *)
(***************************************************************************)
EXTENDS Integers, Sequences, FiniteSets

CONSTANTS
    NoRecord, NoAnswer, NoAdapter,
    Order,       \* the adapters, in the order build_adapters registers them
    YieldsTo,    \* the adapter each one stands by for, or NoAdapter
    DevicesOf,   \* the devices each adapter may describe
    Nvml,        \* the adapters that read NVML, a library loaded when they are made
    Fans,        \* the devices with a writable duty control
    HandsBack,   \* the adapters whose shutdown returns their channels
    Runners,     \* who begins discovery cycles
    MaxEvents,   \* bound on the steps of the user and of the machine
    MaxFaults    \* bound on probes, scans, reads and releases that fail

Adapters == {Order[k] : k \in DOMAIN Order}
Devices  == UNION {DevicesOf[a] : a \in Adapters}

DeviceStatus == {"online", "degraded", "offline", "disabled"}

\* control: the description has the fan control of a device in Fans.
Record == [enabled : BOOLEAN, status : DeviceStatus, control : BOOLEAN]

ASSUME ProvidersAssumption ==
    /\ Order \in Seq(Adapters) /\ Cardinality(Adapters) = Len(Order) /\ Order # <<>>
    /\ YieldsTo \in [Adapters -> Adapters \cup {NoAdapter}]
    \* as build_adapters wires them: nobody stands by for one that stands by
    /\ \A a \in Adapters : YieldsTo[a] # NoAdapter => YieldsTo[YieldsTo[a]] = NoAdapter
    /\ \A a, b \in Adapters : a # b => DevicesOf[a] \cap DevicesOf[b] = {}
    /\ Fans \subseteq Devices /\ HandsBack \subseteq Adapters /\ Nvml \subseteq Adapters
    /\ NoRecord \notin Record /\ "loop" \in Runners /\ MaxEvents \in Nat /\ MaxFaults \in Nat

VARIABLES
    there,     \* the adapters behind which there is a working provider
    shown,     \* the devices the hardware has
    duty,      \* of each fan: the firmware's, ours, or the fail-safe
    off,       \* settings: disabled_adapters and disabled_devices
    statuses,  \* DiscoveryManager.statuses
    table,     \* the device table: a Record or NoRecord
    cycle,     \* the discovery cycle of each runner
    poll,      \* the poll loop
    stage,     \* of the runtime: running, releasing, stopped
    targets,   \* the fans whose release is still to come
    failed,    \* the fans the exit path reports as not released
    missed,    \* history: the fans the last scan that answered for them left
               \* out, or described without their control
    excused,   \* history: the fans missed or switched off as the release began,
               \* and those written since
    events, faults

machine == <<there, shown, duty>>
exit == <<stage, targets, failed, excused>>
vars == <<machine, off, statuses, table, cycle, poll, exit, missed, events, faults>>

\* AdapterState, with the two reasons for Unavailable the code sets itself.
States == {"not_probed", "available", "degraded", "unavailable", "error",
           "disabled", "standing_by"}

\* AdapterState::is_usable.  Error counts: the next scan may go well.
Usable == {"available", "degraded", "error"}

\* What a scan says of a device.
Description == [device : Devices, control : BOOLEAN]
Switches == [adapters : SUBSET Adapters, devices : SUBSET Devices]

NoCycle ==
    [at |-> "idle", next |-> 1, off |-> [adapters |-> {}, devices |-> {}],
     probed |-> [a \in Adapters |-> "not_probed"],
     found |-> [a \in Adapters |-> NoAnswer]]
NoPoll == [at |-> "idle", targets |-> {}, got |-> <<>>]

Init ==
    /\ there \in SUBSET Adapters /\ shown = Devices
    /\ duty = [f \in Fans |-> "firmware"]
    /\ off = [adapters |-> {}, devices |-> {}]
    /\ statuses = [a \in Adapters |-> "not_probed"]
    /\ table = [d \in Devices |-> NoRecord]
    /\ cycle = [r \in Runners |-> NoCycle] /\ poll = NoPoll
    /\ stage = "running" /\ targets = {} /\ failed = {} /\ missed = Fans /\ excused = {}
    /\ events = 0 /\ faults = 0

-----------------------------------------------------------------------------
(* The discovery cycle: a copy of the settings, a probe of every adapter,  *)
(* a decision and a scan for every adapter, and the table.                 *)

\* The loop looks whether it is to stop; a refresh of the user does not.
CycleStart(r) ==
    /\ stage = "running" \/ r # "loop"
    /\ cycle[r].at = "idle"
    /\ cycle' = [cycle EXCEPT ![r].at = "probing", ![r].off = off]
    /\ \/ r = "loop" /\ UNCHANGED events
       \/ r # "loop" /\ events < MaxEvents /\ events' = events + 1
    /\ UNCHANGED <<machine, off, statuses, table, poll, exit, missed, faults>>

At(r) == Order[cycle[r].next]
Last(r) == cycle[r].next = Len(Order)

\* validate_devices: what is described twice or wrongly is left out.
Listed(a) == DevicesOf[a] \cap shown

Descriptions(a) == [device : Listed(a), control : {TRUE}]

\* What a probe answers.  A provider without devices calls itself degraded
\* (LibreHardwareMonitor) or unavailable (NVML).
ProbeAnswer(a) ==
    IF a \notin there THEN "unavailable"
    ELSE IF Listed(a) # {} THEN "available"
    ELSE IF a \in Nvml THEN "unavailable" ELSE "degraded"

Probe(r) ==
    /\ cycle[r].at = "probing"
    /\ \E answer \in States :
        /\ \/ At(r) \in cycle[r].off.adapters /\ answer = "disabled" /\ UNCHANGED faults
           \/ /\ At(r) \notin cycle[r].off.adapters
              /\ \/ answer = ProbeAnswer(At(r)) /\ UNCHANGED faults
                 \/ answer = "error" /\ faults < MaxFaults /\ faults' = faults + 1
        /\ statuses' = [statuses EXCEPT ![At(r)] = answer]
        /\ cycle' = [cycle EXCEPT
                        ![r].probed[At(r)] = answer,
                        ![r].at = IF Last(r) THEN "deciding" ELSE "probing",
                        ![r].next = IF Last(r) THEN 1 ELSE @ + 1]
    /\ UNCHANGED <<machine, off, table, poll, exit, missed, events>>

\* Mutant of StandsBy: decided from the settings, as it once was.
StandsByIntent(c, a) ==
    YieldsTo[a] # NoAdapter /\ YieldsTo[a] \notin c.off.adapters

StandsBy(c, a) == YieldsTo[a] # NoAdapter /\ c.probed[YieldsTo[a]] \in Usable

\* What the second pass makes of an adapter: its status, and what it found.
Verdict(c, a) ==
    IF StandsBy(c, a) THEN <<"standing_by", NoAnswer>>
    ELSE IF c.probed[a] \notin Usable THEN <<c.probed[a], NoAnswer>>
    ELSE IF a \notin there THEN <<"error", NoAnswer>>
    ELSE <<IF Listed(a) = {} THEN "degraded" ELSE "available", Descriptions(a)>>

\* A scan that goes wrong.  LibreHardwareMonitor answers an error.  NVML answers
\* without the cards (gpu_indices) or without a fan of a card (num_fans), as if
\* they were not there.
Slips(c, a) ==
    IF Verdict(c, a)[2] = NoAnswer THEN {}
    ELSE IF a \in Nvml
    THEN {<<"degraded", {}>>,
          <<Verdict(c, a)[1], {[x EXCEPT !.control = FALSE] : x \in Descriptions(a)}>>}
    ELSE {<<"error", NoAnswer>>}

Decide(r) ==
    /\ cycle[r].at = "deciding"
    /\ \E verdict \in {Verdict(cycle[r], At(r))} \cup Slips(cycle[r], At(r)) :
        /\ \/ verdict = Verdict(cycle[r], At(r)) /\ UNCHANGED faults
           \/ /\ verdict # Verdict(cycle[r], At(r))
              /\ faults < MaxFaults /\ faults' = faults + 1
        /\ statuses' = [statuses EXCEPT ![At(r)] = verdict[1]]
        /\ cycle' = [cycle EXCEPT
                        ![r].probed[At(r)] = verdict[1],
                        ![r].found[At(r)] = verdict[2],
                        ![r].at = IF Last(r) THEN "found" ELSE "deciding",
                        ![r].next = IF Last(r) THEN 1 ELSE @ + 1]
    /\ UNCHANGED <<machine, off, table, poll, exit, missed, events>>

-----------------------------------------------------------------------------
(* The device table *)

\* Mutant of WithStatus: the switch is not looked at.
WithStatusOfReading(record, status) ==
    IF record = NoRecord THEN NoRecord ELSE [record EXCEPT !.status = status]

\* set_status, mark_offline: a disabled device stays disabled.
WithStatus(record, status) ==
    IF record = NoRecord THEN NoRecord
    ELSE [record EXCEPT !.status = IF record.enabled THEN status ELSE "disabled"]

\* upsert: the description is the new one; an old record keeps its switch,
\* whatever the cycle has copied.
Upserted(record, disabled, control) ==
    IF record = NoRecord
    THEN [enabled |-> ~disabled, control |-> control,
          status |-> IF disabled THEN "disabled" ELSE "online"]
    ELSE [record EXCEPT !.control = control,
                        !.status = IF @ = "offline" THEN "online" ELSE @]

Whole(d) == [device |-> d, control |-> TRUE]
AdapterOf(d) == CHOOSE a \in Adapters : d \in DevicesOf[a]

\* mark_adapter_offline, then reconcile.  An adapter that ended in an error is
\* usable and has no answer: its devices stay as they are.
Reconciled(c) ==
    [d \in Devices |->
        LET a == AdapterOf(d) IN
        IF c.found[a] # NoAnswer
        THEN IF \E x \in c.found[a] : x.device = d
             THEN Upserted(table[d], d \in c.off.devices,
                           Whole(d) \in c.found[a])
             ELSE NoRecord
        ELSE IF c.probed[a] \notin Usable THEN WithStatus(table[d], "offline")
        ELSE table[d]]

Reconcile(r) ==
    /\ cycle[r].at = "found"
    /\ table' = Reconciled(cycle[r])
    /\ cycle' = [cycle EXCEPT ![r] = NoCycle]
    /\ missed' = {f \in Fans : IF cycle[r].found[AdapterOf(f)] = NoAnswer THEN f \in missed
                               ELSE Whole(f) \notin cycle[r].found[AdapterOf(f)]}
    /\ UNCHANGED <<machine, off, statuses, poll, exit, events, faults>>

Cycle(r) == stage # "stopped" /\ (CycleStart(r) \/ Probe(r) \/ Decide(r) \/ Reconcile(r))

-----------------------------------------------------------------------------
(* The poll loop: the enabled devices, adapter by adapter, read in one     *)
(* step and marked in a later one.                                         *)

PollStart ==
    /\ stage = "running" /\ poll = NoPoll
    /\ LET due == {d \in Devices : table[d] # NoRecord /\ table[d].enabled}
       IN poll' = [at |-> IF due = {} THEN "idle" ELSE "reading", targets |-> due, got |-> <<>>]
    /\ UNCHANGED <<machine, off, statuses, table, cycle, exit, missed, events, faults>>

\* What reading a device gives.  NVML has no hotspot sensor, and says so each
\* time.
ReadState(a, d) ==
    IF ~(a \in there /\ d \in shown) THEN "nothing"
    ELSE IF a \in Nvml THEN "some" ELSE "all"

\* apply_state_status
Readings(batch, a) ==
    [d \in batch |-> CASE ReadState(a, d) = "nothing" -> "offline"
                       [] ReadState(a, d) = "some" -> "degraded"
                       [] ReadState(a, d) = "all" -> "online"]

\* The batch of the next adapter that has one.
Batch ==
    LET k == CHOOSE i \in DOMAIN Order :
                /\ poll.targets \cap DevicesOf[Order[i]] # {}
                /\ \A j \in 1 .. i - 1 : poll.targets \cap DevicesOf[Order[j]] = {}
    IN Readings(poll.targets \cap DevicesOf[Order[k]], Order[k])

PollRead ==
    /\ poll.at = "reading"
    /\ \/ poll' = [poll EXCEPT !.at = "read", !.got = Batch] /\ UNCHANGED faults
       \/ /\ faults < MaxFaults /\ faults' = faults + 1
          /\ \E d \in DOMAIN Batch, status \in {"degraded", "offline"} :
                poll' = [poll EXCEPT !.at = "read", !.got = [Batch EXCEPT ![d] = status]]
    /\ UNCHANGED <<machine, off, statuses, table, cycle, exit, missed, events>>

PollStore ==
    /\ poll.at = "read"
    /\ table' = [d \in Devices |-> IF d \in DOMAIN poll.got
                                   THEN WithStatus(table[d], poll.got[d]) ELSE table[d]]
    /\ LET left == poll.targets \ DOMAIN poll.got
       IN poll' = IF left = {} THEN NoPoll
                  ELSE [at |-> "reading", targets |-> left, got |-> <<>>]
    /\ UNCHANGED <<machine, off, statuses, cycle, exit, missed, events, faults>>

Poll == stage # "stopped" /\ (PollStart \/ PollRead \/ PollStore)

-----------------------------------------------------------------------------
(* The user, a rule that writes, and the machine *)

\* set_device_enabled: the table, then the settings.
SwitchDevice(d) ==
    /\ table[d] # NoRecord
    /\ \E on \in BOOLEAN :
        /\ table' = [table EXCEPT
              ![d].enabled = on,
              ![d].status = IF ~on THEN "disabled" ELSE IF @ = "disabled" THEN "online" ELSE @]
        /\ off' = [off EXCEPT !.devices = IF on THEN @ \ {d} ELSE @ \cup {d}]
    /\ UNCHANGED machine

\* set_adapter_enabled: the settings only; the next cycle acts on them.
SwitchAdapter(a) ==
    /\ off' \in {[off EXCEPT !.adapters = @ \cup {a}], [off EXCEPT !.adapters = @ \ {a}]}
    /\ UNCHANGED <<machine, table>>

\* LibreHardwareMonitor is started or closed; NVML is as it was at the start.
ProviderTurns(a) ==
    /\ a \notin Nvml
    /\ there' = IF a \in there THEN there \ {a} ELSE there \cup {a}
    /\ UNCHANGED <<shown, duty, off, table>>

DeviceTurns(d) ==
    /\ shown' = IF d \in shown THEN shown \ {d} ELSE shown \cup {d}
    /\ UNCHANGED <<there, duty, off, table>>

Reaches(d) == AdapterOf(d) \in there /\ d \in shown

\* What write_with_origin looks at: the switch of the record, not its status.
Accepted(f) == table[f] # NoRecord /\ table[f].enabled /\ table[f].control /\ Reaches(f)

Write(f) ==
    /\ Accepted(f)
    /\ duty' = [duty EXCEPT ![f] = "ours"]
    /\ UNCHANGED <<there, shown, off, table>>

\* A person's write and switches wait for nothing and nothing waits for them:
\* they may come while the outputs are released, and a write still after it.
Environment ==
    /\ events < MaxEvents /\ events' = events + 1
    /\ \/ /\ stage # "stopped" /\ UNCHANGED excused
          /\ \/ \E d \in Devices : SwitchDevice(d) \/ DeviceTurns(d)
             \/ \E a \in Adapters : SwitchAdapter(a) \/ ProviderTurns(a)
       \/ \E f \in Fans :
             Write(f) /\ excused' = IF stage = "running" THEN excused ELSE excused \cup {f}
    /\ UNCHANGED <<statuses, cycle, poll, stage, targets, failed, missed, faults>>

-----------------------------------------------------------------------------
(* shutdown, with relinquish_on_exit: the loops are given two seconds each,  *)
(* whatever they are at; the outputs the table knows by then are written one *)
(* by one, and the adapters are shut down.                                   *)

\* Mutant of ReleaseTargets: a device that is offline is not written.
ReleaseTargetsOnline ==
    {f \in Fans : /\ table[f] # NoRecord /\ table[f].control
                  /\ table[f].status \in {"online", "degraded"}}

ReleaseTargets == {f \in Fans : table[f] # NoRecord /\ table[f].enabled /\ table[f].control}

Shutdown ==
    /\ stage = "running" /\ stage' = "releasing"
    /\ targets' = ReleaseTargets
    /\ excused' = missed \cup {f \in Fans : table[f] # NoRecord /\ ~table[f].enabled}
    /\ UNCHANGED <<machine, off, statuses, table, cycle, poll, failed, missed, events, faults>>

\* The write of one output: the record may have gone by now, the device be out
\* of reach, and the driver may refuse.
Release(f) ==
    /\ stage = "releasing" /\ f \in targets
    /\ targets' = targets \ {f}
    /\ \/ /\ Accepted(f)
          /\ duty' = [duty EXCEPT ![f] = "failsafe"] /\ UNCHANGED <<failed, faults>>
       \/ /\ ~Accepted(f)
          /\ failed' = failed \cup {f} /\ UNCHANGED <<duty, faults>>
       \/ /\ Accepted(f) /\ faults < MaxFaults /\ faults' = faults + 1
          /\ failed' = failed \cup {f} /\ UNCHANGED duty
    /\ UNCHANGED <<there, shown, off, statuses, table, cycle, poll, stage, missed, excused, events>>

\* shutdown_all: the adapters that hand channels back do so, or fail to.  With
\* that the process ends, and what its tasks were at.
HandBack ==
    /\ stage = "releasing" /\ targets = {} /\ stage' = "stopped"
    /\ \E refuse \in SUBSET (HandsBack \cap there) :
          /\ faults + Cardinality(refuse) <= MaxFaults
          /\ faults' = faults + Cardinality(refuse)
          /\ duty' = [f \in Fans |->
                 IF AdapterOf(f) \in (HandsBack \cap there) \ refuse THEN "firmware" ELSE duty[f]]
    /\ cycle' = [r \in Runners |-> NoCycle] /\ poll' = NoPoll
    /\ UNCHANGED <<there, shown, off, statuses, table, targets, failed, missed, excused, events>>

Exit == Shutdown \/ HandBack \/ \E f \in Fans : Release(f)

Next ==
    \/ \E r \in Runners : Cycle(r)
    \/ Poll \/ Environment \/ Exit

\* Both loops are timers; nobody has to refresh, switch or quit.
Spec == Init /\ [][Next]_vars /\ WF_vars(Cycle("loop")) /\ WF_vars(Poll)

-----------------------------------------------------------------------------
(* Types; and a device its user switched off is shown as disabled, whatever  *)
(* reading or verdict from before arrives late (set_status).                 *)
TypeOK ==
    /\ there \subseteq Adapters /\ shown \subseteq Devices
    /\ duty \in [Fans -> {"firmware", "ours", "failsafe"}]
    /\ off \in Switches /\ statuses \in [Adapters -> States]
    /\ table \in [Devices -> Record \cup {NoRecord}]
    /\ \A r \in Runners :
          /\ cycle[r].at \in {"idle", "probing", "deciding", "found"}
          /\ cycle[r].next \in DOMAIN Order /\ cycle[r].off \in Switches
          /\ cycle[r].probed \in [Adapters -> States]
          /\ cycle[r].found \in [Adapters -> {NoAnswer} \cup SUBSET Description]
    /\ poll.at \in {"idle", "reading", "read"}
    /\ poll.targets \subseteq Devices /\ DOMAIN poll.got \subseteq Devices
    /\ stage \in {"running", "releasing", "stopped"}
    /\ targets \subseteq Fans /\ failed \subseteq Fans
    /\ missed \subseteq Fans /\ excused \subseteq Fans
    /\ events \in 0 .. MaxEvents /\ faults \in 0 .. MaxFaults
    /\ \A d \in Devices : table[d] # NoRecord =>
          (table[d].status = "disabled" <=> ~table[d].enabled)

Listing(d) == table[d] # NoRecord /\ table[d].status # "offline"

\* The adapter nobody stands before: its primary is not there, or switched off.
Serving(a) ==
    /\ a \in there \ off.adapters /\ Listed(a) # {}
    /\ YieldsTo[a] # NoAdapter => YieldsTo[a] \notin there \ off.adapters

\* As long as a provider works and nothing it yields to does, its hardware is in
\* the table and not offline: neither cycles that overlap and decide from what
\* was there before, nor a scan that missed it once, nor a poll that marks what
\* it read before, nor a primary that is enabled and absent leave the user
\* without it.  (Which way a switch ends that was turned while two cycles
\* overlap is not said: a cycle may add a device with the switch it copied.)
CardIsReported ==
    \A a \in Adapters :
        <>[](stage = "running" /\ Serving(a)) => <>[](\E d \in Listed(a) : Listing(d))

\* A fan we drove is not left at our duty unnoticed: when the runtime has
\* stopped it has been written the fail-safe duty, was handed back, or is
\* reported, also if its adapter stands by, is gone, was switched off or ended in
\* an error by then, if it was offline, or vanished while others were released
\* (mark_offline, reconcile, release_control).  Not spoken of are fans that are
\* switched off, fans that the last scan that answered left out, which the table
\* has forgotten, and those a person wrote when the release had begun.
NothingStaysDriven ==
    stage = "stopped" => \A f \in Fans \ excused : duty[f] = "ours" => f \in failed
=============================================================================
