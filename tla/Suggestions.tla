------------------------------ MODULE Suggestions ------------------------------
(***************************************************************************)
(* The ready made rules (examples.rs): the shipped example, and the rules  *)
(* that are suggested for the devices of the table, from the index of what *)
(* can be read and driven (registry.rs).                                   *)
(*                                                                         *)
(* A device has one temperature and one output here, so an index sorted by *)
(* qualified id is sorted by device.  The switch of a device is Providers' *)
(* part.                                                                   *)
(***************************************************************************)
EXTENDS RuleBinding

\* Rule::new; a dead band of half a percent is none in whole ones.
NewRule(sensors, target, curve) ==
    [enabled |-> TRUE, sensors |-> sensors, aggregate |-> "max", when |-> Unset,
     target |-> target, curve |-> curve, hysteresis |-> 2, deadband |-> 0,
     min |-> Unset, max |-> Unset, onMissing |-> SafeDefault, onFailure |-> SafeDefault,
     grace |-> 0]

Point(input, output) == [input |-> input, output |-> output]

\* gpu_cooling_curve
CardCurve == <<Point(40, 20), Point(60, 35), Point(70, 50), Point(80, 80), Point(85, 100)>>
ProcessorCurve == <<Point(45, 25), Point(60, 40), Point(75, 65), Point(85, 100)>>

-----------------------------------------------------------------------------
(* CapabilityRegistry::index *)

IsTarget(capability) == capability.kind = "actuator" /\ capability.writable

References(table) == UNION {{Ref(d, name) : name \in DOMAIN table[d]} : d \in DOMAIN table}
Targets(table) == {r \in References(table) : IsTarget(Resolved(table, r))}
Temperatures(table) ==
    {r \in References(table) : /\ IsSource(Resolved(table, r))
                               /\ Resolved(table, r).unit = "celsius"}

DeviceTypes == <<"cpu", "fan", "gpu", "pump", "ssd", "temperature">>

\* The order of the ids.
Precedes(a, b) ==
    LET Rank(r) == CHOOSE k \in DOMAIN DeviceTypes : DeviceTypes[k] = r.device[1] IN
    Rank(a) < Rank(b) \/ (Rank(a) = Rank(b) /\ a.device[2] < b.device[2])

\* Those of a set that fewer than n others precede.
Foremost(refs, n) == {r \in refs : Cardinality({q \in refs : Precedes(q, r)}) < n}

\* The entry at a position, or the last: index.targets[position.min(len - 1)].
Entry(refs, n) == CHOOSE r \in Foremost(refs, n) : ~\E q \in Foremost(refs, n) : Precedes(r, q)

(***************************************************************************)
(* suggest_for.  The rule of the card and the combined one have the same   *)
(* output, the processor's the next if there is one.                       *)
(***************************************************************************)
SuggestFor(table) ==
    LET heat  == Temperatures(table)
        outs  == Targets(table)
        Of(type) == {s \in heat : s.device[1] = type}
        Each(type, curve, n) ==
            IF Of(type) = {} THEN <<>>
            ELSE <<NewRule(Foremost(Of(type), 1), Entry(outs, n), curve)>>
    IN
    IF heat = {} \/ outs = {} THEN <<>>
    ELSE Each("gpu", CardCurve, 1) \o Each("cpu", ProcessorCurve, 2)
         \o IF Of("gpu") # {} /\ Of("cpu") # {}
            THEN <<NewRule(Foremost(heat, 4), Entry(outs, 1), CardCurve)>> ELSE <<>>

\* gpu_cooling_example, which names simulated devices.
Shipped(card, fan) == NewRule({card}, fan, CardCurve)

\* ensure_example: the shipped rule if it fits, else the first suggestion.
FirstRule(table, shipped) ==
    IF CheckRule(table, shipped).errors = {} THEN {shipped}
    ELSE {SuggestFor(table)[k] : k \in DOMAIN SuggestFor(table) \cap {1}}

\* What is suggested passes the check it will be saved through, for any devices
\* that come and go; and the rules of the card and of the processor are for two
\* outputs, if there are two (suggest_for; the combined rule takes the card's).
SuggestionsFit(table) ==
    /\ \A k \in DOMAIN SuggestFor(table) : CheckRule(table, SuggestFor(table)[k]).errors = {}
    /\ Len(SuggestFor(table)) = 3 /\ Cardinality(Targets(table)) > 1 =>
          SuggestFor(table)[1].target # SuggestFor(table)[2].target
=============================================================================
