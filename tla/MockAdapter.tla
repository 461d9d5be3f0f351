------------------------------ MODULE MockAdapter ------------------------------
(***************************************************************************)
(* The simulated machine (adapters/mock): a provider like any other, with  *)
(* devices that a person reconfigures while it runs, a thermal model, and  *)
(* injected faults.  It is what the demo, the tests and a machine without  *)
(* supported hardware drive, so it has to be as honest as a real board.    *)
(*                                                                         *)
(* A rule is bound to it through the device table of the last discovery,   *)
(* which may describe devices the machine no longer has.  Temperatures are *)
(* whole degrees, loads and duties percent, times seconds; rpm and noise   *)
(* follow from the duty and are left out.                                  *)
(***************************************************************************)
EXTENDS Suggestions

CONSTANTS
    MaxFans, MaxPumps,   \* the largest machine
    Profiles,            \* load profiles, see LoadsAt
    Ambients,            \* room temperatures
    Faults,              \* sets of injected faults, see NoFaults
    MockDrafts,          \* the rules a person tries to save
    Requests,            \* the duties a rule asks for
    Steps,               \* how far the clock moves at once
    MaxMoves             \* bound on reconfigurations and on clock steps

LoadProfiles ==
    [kind : {"constant"}, load : Int] \cup [kind : {"wave"}, low : Int, high : Int]
    \cup [kind : {"steps"}, steps : Seq([length : Nat, load : Int])]

ASSUME MockAssumption ==
    /\ MaxFans \in Nat /\ MaxPumps \in Nat /\ MaxMoves \in Nat
    /\ Requests \subseteq Int /\ Steps \subseteq Nat /\ Ambients \subseteq Int
    /\ Profiles \subseteq LoadProfiles /\ Unset \notin Int
    /\ \A draft \in MockDrafts : Parsed(draft)

InitialDuty == 40      \* MockConfig.initial_fan_duty
PumpFloor   == 60

Cpu     == <<"cpu", 0>>
Gpu     == <<"gpu", 0>>
Ssd     == <<"ssd", 0>>
FanNo(i)  == <<"fan", i>>
PumpNo(i) == <<"pump", i>>
Probe   == <<"temperature", 0>>

VARIABLES
    conf,    \* MockConfig: devices, lock, room, load, faults, overrides
    slots,   \* the duty of each fan, each pump and the GPU
    heat,    \* the temperatures, and the simulated time
    table,   \* the device table, as the last discovery filled it
    bound,   \* the rule that was saved, or Unset
    reply,   \* what the last save or write answered
    fit,     \* history: the table is the one the rule was checked against
    moves

mock == <<conf, slots, heat, table, bound, reply, fit, moves>>

-----------------------------------------------------------------------------
(* The devices *)

\* build_devices; sensors that nothing tells apart are one.
Described(c) ==
    LET fans  == {FanNo(i) : i \in 0 .. c.fans - 1}
        pumps == {PumpNo(i) : i \in 0 .. c.pumps - 1}
        Fan0To100 == Actuator("percent", 0, 100)
    IN
    [d \in {Cpu, Gpu, Ssd, Probe} \cup fans \cup pumps |->
        CASE d = Cpu -> [temperature |-> Sensor("celsius"), load |-> Sensor("percent")]
          [] d = Gpu -> [temperature |-> Sensor("celsius"), load |-> Sensor("percent"),
                         speed |-> IF c.locked THEN Sensor("percent") ELSE Fan0To100]
          [] d \in {Ssd, Probe} -> [temperature |-> Sensor("celsius")]
          [] d \in fans  -> [speed |-> Fan0To100]
          [] d \in pumps -> [speed |-> Actuator("percent", PumpFloor, 100)]]

\* discover: what a fault has unplugged is left out.
Discovered(c) ==
    LET all == Described(c) IN [d \in DOMAIN all \ c.faults.unplugged |-> all[d]]

-----------------------------------------------------------------------------
(* The machine *)

NoFaults == [writes |-> {}, unconfirmed |-> {}, silent |-> {}, unplugged |-> {}]

\* LoadProfile::load_at: the loads a profile may give at a time.  Of a wave it
\* is known that it stays between its ends.
LoadsAt(profile, t) ==
    CASE profile.kind = "constant" -> {Bounded(0, profile.load, 100)}
      [] profile.kind = "wave" ->
            {Bounded(0, load, 100) : load \in {profile.low, profile.high}}
      [] profile.kind = "steps" ->
            LET steps  == profile.steps
                End(k) == Total([j \in DOMAIN steps |-> steps[j].length], 1 .. k)
                whole  == End(Len(steps))
                Now    == IF whole = 0 THEN 0 ELSE t % whole
                ahead  == {k \in DOMAIN steps : Now < End(k)}
                k      == IF ahead = {} THEN Len(steps) ELSE Min(ahead)
            IN IF steps = <<>> THEN {0} ELSE {Bounded(0, steps[k].load, 100)}

SystemDuty(s) ==
    IF s.fan = <<>> THEN 0
    ELSE Total(s.fan, DOMAIN s.fan) \div Len(s.fan)

\* The GPU is cooled by its own fan and by the chassis fans.
Airflow(s) == (s.gpu + SystemDuty(s)) \div 2

GpuTarget(s, load) == conf.ambient + (72 * load - 38 * Airflow(s)) \div 100
CpuTarget(s, load) == conf.ambient + (58 * load - 26 * SystemDuty(s)) \div 100
SsdTarget(load)    == conf.ambient + 8 + (9 * load) \div 200

\* First order relaxation, never below the room.
Relaxed(from, to, dt, constant) ==
    Max({conf.ambient,
         IF dt >= constant THEN to ELSE from + ((to - from) * dt) \div constant})

Warmed(s, gpuLoad, cpuLoad, dt) ==
    [gpu |-> Relaxed(heat.gpu, GpuTarget(s, gpuLoad), dt, 7),
     cpu |-> Relaxed(heat.cpu, CpuTarget(s, cpuLoad), dt, 5),
     ssd |-> Relaxed(heat.ssd, SsdTarget(Max({gpuLoad, cpuLoad})), dt, 45),
     time |-> heat.time + dt]

\* Vec::resize
Resized(duties, n, start) ==
    [i \in 1 .. n |-> IF i \in DOMAIN duties THEN duties[i] ELSE start]

\* MockState::new
NewSlots(c) ==
    [fan |-> Resized(<<>>, c.fans, InitialDuty),
     pump |-> Resized(<<>>, c.pumps, Max({InitialDuty, PumpFloor})),
     gpu |-> InitialDuty]

-----------------------------------------------------------------------------
(* Reading.  A device of the table that the machine no longer has reads as   *)
(* if it were at its resting duty.                                           *)

DutyAt(duties, d, resting) == IF d[2] + 1 \in DOMAIN duties THEN duties[d[2] + 1] ELSE resting

Measured(d, name) ==
    CASE name = "load" -> Max(LoadsAt(conf.load, heat.time))
      [] name = "temperature" ->
            (CASE d = Cpu -> heat.cpu [] d = Gpu -> heat.gpu [] d = Ssd -> heat.ssd
               [] d = Probe -> (heat.cpu + heat.gpu) \div 2 - 6)
      [] name = "speed" ->
            (CASE d = Gpu -> slots.gpu
               [] d[1] = "fan"  -> DutyAt(slots.fan, d, 0)
               [] d[1] = "pump" -> DutyAt(slots.pump, d, PumpFloor))

\* reading: a fault hides it, an override replaces it.
Reading(d, name) ==
    IF Ref(d, name) \in conf.faults.silent \/ d \in conf.faults.unplugged THEN Unset
    ELSE IF Ref(d, name) \in DOMAIN conf.pinned THEN conf.pinned[Ref(d, name)]
    ELSE Measured(d, name)

-----------------------------------------------------------------------------
(* Writing *)

NothingSaid == [answer |-> "nothing", ref |-> Unset, duty |-> 0]
Said(answer, ref, duty) == [answer |-> answer, ref |-> ref, duty |-> duty]

\* A locked GPU fan is refused whatever a stale capability says.
Accepts(ref, capability, x) ==
    /\ ref \notin conf.faults.writes
    /\ ref.name = "speed" /\ ~(ref.device = Gpu /\ conf.locked)
    /\ Validates(capability, x)

HasSlot(d) ==
    \/ d = Gpu
    \/ d[1] = "fan" /\ d[2] < Len(slots.fan)
    \/ d[1] = "pump" /\ d[2] < Len(slots.pump)

Driven(d, duty) ==
    CASE d = Gpu -> [slots EXCEPT !.gpu = duty]
      [] d[1] = "fan"  -> [slots EXCEPT !.fan[d[2] + 1] = duty]
      [] d[1] = "pump" -> [slots EXCEPT !.pump[d[2] + 1] = duty]

\* run_rule and write_with_origin find the target in the table; then write.
MockWrite(x) ==
    /\ bound # Unset /\ bound.enabled
    /\ LET ref  == bound.target
           capability == Resolved(table, ref)
           duty == ClampTo(capability, x)
       IN
       IF ~Drivable(table, ref) THEN reply' = Said("unresolved", ref, 0) /\ UNCHANGED slots
       ELSE IF ~Accepts(ref, capability, x) \/ ~HasSlot(ref.device)
       THEN reply' = Said("refused", ref, 0) /\ UNCHANGED slots
       ELSE /\ slots' = Driven(ref.device, duty)
            /\ reply' = Said(IF ref \in conf.faults.unconfirmed THEN "unconfirmed"
                            ELSE "simulated", ref, duty)
    /\ UNCHANGED <<conf, heat, table, bound, fit, moves>>

-----------------------------------------------------------------------------
(* What else happens *)

\* save_rule and set_rule_enabled: both are checked against the table as it is.
MockSave(draft) ==
    LET errors == CheckRule(table, draft).errors IN
    /\ bound # draft
    /\ bound' = IF errors = {} THEN draft ELSE bound
    /\ fit' = IF errors = {} THEN TRUE ELSE fit
    /\ reply' = Said(IF errors = {} THEN "saved" ELSE "invalid", Unset, 0)
    /\ UNCHANGED <<conf, slots, heat, table, moves>>

Rebound == {draft \in MockDrafts : TRUE} \cup
           IF bound = Unset THEN {} ELSE {[bound EXCEPT !.enabled = ~@]}

\* ensure_example, when the application has started and has no rule.
MockExample ==
    /\ bound = Unset
    /\ \E rule \in FirstRule(table, Shipped(Ref(Gpu, "temperature"), Ref(FanNo(0), "speed"))) :
          MockSave(rule)

\* A discovery cycle of the runtime.
MockDiscover ==
    /\ table # Discovered(conf) /\ table' = Discovered(conf) /\ fit' = FALSE
    /\ UNCHANGED <<conf, slots, heat, bound, reply, moves>>

\* update_config: the slots follow the number of devices at once, the table
\* with the next discovery.
Reconfigured ==
    {[conf EXCEPT !.fans = n] : n \in 0 .. MaxFans}
    \cup {[conf EXCEPT !.pumps = n] : n \in 0 .. MaxPumps}
    \cup {[conf EXCEPT !.locked = ~@]}
    \cup {[conf EXCEPT !.ambient = a] : a \in Ambients}
    \cup {[conf EXCEPT !.load = profile] : profile \in Profiles}
    \cup {[conf EXCEPT !.faults = f] : f \in Faults \cup {NoFaults}}
    \cup {[conf EXCEPT !.pinned = pin] : pin \in {<<>>, [r \in {Ref(Gpu, "temperature")} |-> 95]}}

MockUpdate ==
    /\ moves < MaxMoves /\ moves' = moves + 1
    /\ conf' \in Reconfigured \ {conf}
    /\ slots' = [slots EXCEPT !.fan = Resized(@, conf'.fans, InitialDuty),
                              !.pump = Resized(@, conf'.pumps, Max({InitialDuty, PumpFloor}))]
    /\ reply' = NothingSaid
    /\ UNCHANGED <<heat, table, bound, fit>>

\* tick and advance_clock: a clock that stands still or steps back moves nothing.
MockTick(dt) ==
    /\ moves < MaxMoves /\ moves' = moves + 1
    /\ \E gpuLoad, cpuLoad \in LoadsAt(conf.load, heat.time + dt) :
          heat' = IF dt = 0 THEN heat ELSE Warmed(slots, gpuLoad, cpuLoad, dt)
    /\ UNCHANGED <<conf, slots, table, bound, reply, fit>>

\* MockConfig::default, with the largest machine.
MockInit ==
    /\ conf = [fans |-> MaxFans, pumps |-> MaxPumps, locked |-> FALSE, ambient |-> 25,
               load |-> [kind |-> "constant", load |-> 5], faults |-> NoFaults, pinned |-> <<>>]
    /\ slots = NewSlots(conf)
    /\ heat = [gpu |-> 42, cpu |-> 38, ssd |-> 33, time |-> 0]
    /\ table = Discovered(conf) /\ bound = Unset /\ reply = NothingSaid
    /\ fit = TRUE /\ moves = 0

MockNext ==
    \/ \E x \in Requests : MockWrite(x)
    \/ \E draft \in Rebound : MockSave(draft)
    \/ MockExample
    \/ MockDiscover \/ MockUpdate
    \/ \E dt \in Steps : MockTick(dt)

-----------------------------------------------------------------------------
(* The simulated machine has its type; and through any resizing of the machine *)
(* and any writes to it, as many slots as devices, and no pump below its floor. *)
MockTypeOK ==
    /\ Len(slots.fan) = conf.fans /\ Len(slots.pump) = conf.pumps
    /\ \A i \in DOMAIN slots.fan : slots.fan[i] \in 0 .. 100
    /\ \A i \in DOMAIN slots.pump : slots.pump[i] \in PumpFloor .. 100
    /\ slots.gpu \in 0 .. 100
    /\ moves \in 0 .. MaxMoves

\* A write that was simulated is what the next reading shows, for the device it
\* was meant for, as long as no fault hides it (duty_slot and readings_for find
\* the slot each in its own way).
WritesReadBack ==
    reply.answer = "simulated" => Reading(reply.ref.device, reply.ref.name) \in {reply.duty, Unset}

\* A rule that passed check_rule finds its target as long as the devices are the
\* ones it was checked against, and its curve is not changed by the device's
\* range unless the check reply so.
CheckedRulesRun ==
    /\ reply.answer = "unresolved" => ~fit
    /\ bound # Unset /\ fit /\ "range" \notin CheckRule(table, bound).warnings =>
          \A x \in 0 .. 100 : LET duty == CurveAt(bound.curve, x) IN
              duty = ClampTo(Resolved(table, bound.target), duty)

Full(s) == [s EXCEPT !.fan = [i \in DOMAIN s.fan |-> 100]]
Still(s) == [s EXCEPT !.fan = [i \in DOMAIN s.fan |-> 0]]

\* More air from the chassis never leaves the card hotter, and in the long run
\* leaves it cooler ("a case fan rule must visibly change the GPU temperature,
\* otherwise the whole loop would be untestable", MockState::advance).
ChassisCoolsTheCard ==
    \A load \in LoadsAt(conf.load, heat.time) :
        /\ Warmed(Full(slots), load, load, 1).gpu <= Warmed(slots, load, load, 1).gpu
        /\ slots.fan # <<>> /\ load > 60 =>
              Warmed(Full(slots), load, load, 60).gpu < Warmed(Still(slots), load, load, 60).gpu

SimulationIsSound ==
    /\ MockTypeOK /\ WritesReadBack /\ CheckedRulesRun /\ ChassisCoolsTheCard
    /\ bound = Unset => SuggestionsFit(table)

\* A locked fan of the card is not moved, whatever the table still says of it;
\* and a write that was refused has moved nothing.
RefusalsMoveNothing ==
    [][/\ conf.locked /\ conf' = conf => slots'.gpu = slots.gpu
       /\ reply' # reply /\ reply'.answer \in {"refused", "unresolved", "invalid"} => slots' = slots]_mock
=============================================================================
