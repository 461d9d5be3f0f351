------------------------------ MODULE RuleBinding ------------------------------
(***************************************************************************)
(* What a rule may be bound to: the capabilities of a device               *)
(* (capability.rs), finding one in the device table (registry.rs), and the *)
(* check every rule passes before it is saved (check_rule in engine.rs).   *)
(*                                                                         *)
(* A table maps a device to its capabilities, each under its name; a       *)
(* reference is a device and a name.  A device is <<type, number>>.        *)
(* Enumerated values and quantised steps are left out: no adapter declares *)
(* either.                                                                 *)
(***************************************************************************)
EXTENDS RuleShape

Ref(device, name) == [device |-> device, name |-> name]

\* Capability::sensor and Capability::actuator
Sensor(unit) ==
    [kind |-> "sensor", unit |-> unit, readable |-> TRUE, writable |-> FALSE,
     min |-> Unset, max |-> Unset]
Actuator(unit, min, max) ==
    [kind |-> "actuator", unit |-> unit, readable |-> TRUE, writable |-> TRUE,
     min |-> min, max |-> max]

IsSource(capability) == capability.kind = "sensor" /\ capability.readable

IsDutyControl(capability) ==
    capability.kind = "actuator" /\ capability.unit \in {"percent", "pwm"}

Low(capability, otherwise)  == IF capability.min = Unset THEN otherwise ELSE capability.min
High(capability, otherwise) == IF capability.max = Unset THEN otherwise ELSE capability.max

\* Capability::validate, of a number.
Validates(capability, x) ==
    capability.writable /\ x \in Low(capability, x) .. High(capability, x)

\* Capability::clamp
ClampTo(capability, x) == Bounded(Low(capability, x), x, High(capability, x))

-----------------------------------------------------------------------------
(* CapabilityRegistry *)

InTable(table, ref) == ref.device \in DOMAIN table /\ ref.name \in DOMAIN table[ref.device]

Resolved(table, ref) == table[ref.device][ref.name]

\* resolve_source and resolve_target
Readable(table, ref) == InTable(table, ref) /\ IsSource(Resolved(table, ref))
Drivable(table, ref) == InTable(table, ref) /\ Resolved(table, ref).writable

-----------------------------------------------------------------------------
(* check_rule.  Errors refuse the rule, warnings are shown with it.  That an *)
(* output has one enabled rule (conflicting_rule) is ControlEngine's part.   *)

Outputs(curve) == {curve[k].output : k \in DOMAIN curve}

Errors(table, rule) ==
    {e \in {"rule", "source", "target", "when"} :
        CASE e = "rule"   -> ~ValidRule(rule)
          [] e = "source" -> \E s \in rule.sensors : ~Readable(table, s)
          [] e = "target" -> ~Drivable(table, rule.target)
          [] e = "when"   -> rule.when # Unset /\ ~Readable(table, rule.when.source)}

SourceWarnings(table, rule) ==
    {"unit" : s \in {s \in rule.sensors : /\ Readable(table, s)
                                          /\ Resolved(table, s).unit # "celsius"}}

TargetWarnings(table, rule) ==
    LET target == Resolved(table, rule.target)
        low    == Low(target, 0)
        high   == High(target, 100)
    IN
    IF ~InTable(table, rule.target) THEN {}
    ELSE {w \in {"floor", "range", "min", "duty"} :
            CASE w = "floor" -> /\ rule.target.device[1] \in {"fan", "pump"}
                                /\ target.unit \notin {"percent", "pwm"}
              [] w = "range" -> Min(Outputs(rule.curve)) < low \/ Max(Outputs(rule.curve)) > high
              [] w = "min"   -> rule.min # Unset /\ rule.min < low
              [] w = "duty"  -> ~IsDutyControl(target)}

\* The text of "unmet" says that the condition can never be satisfied; what is
\* compared is the threshold alone, whatever the operator.
WhenWarnings(table, rule) ==
    IF rule.when = Unset \/ ~InTable(table, rule.when.source) THEN {}
    ELSE {w \in {"equality", "unmet"} :
            CASE w = "equality" -> rule.when.op \in {"eq", "ne"}
              [] w = "unmet" -> /\ Resolved(table, rule.when.source).unit = "percent"
                                /\ ~Percent(rule.when.threshold)}

CheckRule(table, rule) ==
    [errors |-> Errors(table, rule),
     warnings |-> SourceWarnings(table, rule) \cup TargetWarnings(table, rule)
                  \cup WhenWarnings(table, rule)
                  \cup {w \in {"hysteresis"} : rule.hysteresis = 0}]
=============================================================================
