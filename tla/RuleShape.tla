----------------------------- MODULE RuleShape ------------------------------
(***************************************************************************)
(* What a rule is (rule.rs, curve.rs) and how a rule file becomes one      *)
(* (store.rs): the curve, the reduction of several sensors to one value,   *)
(* the gate, the failure policies, the structural validation every path    *)
(* into the engine goes through, and the substitution of `release`.        *)
(*                                                                         *)
(* Temperatures and duties are whole numbers, interpolation rounds down.   *)
(* Readings that are not finite numbers are left out, the code drops them; *)
(* settings that are not are refused.                                      *)
(***************************************************************************)
EXTENDS Integers, Sequences, FiniteSetsExt

CONSTANTS Unset  \* a field that is absent: None in the code

Bounded(low, x, high) == IF x < low THEN low ELSE IF x > high THEN high ELSE x

-----------------------------------------------------------------------------
(* Curves *)

\* Curve::new: sorted by input, whatever order the file has them in.
Sorted(points) ==
    LET Before(i, j) == \/ points[i].input < points[j].input
                        \/ points[i].input = points[j].input /\ i < j
    IN [k \in DOMAIN points |->
            LET i == CHOOSE i \in DOMAIN points :
                        Cardinality({j \in DOMAIN points : Before(j, i)}) = k - 1
            IN points[i]]

\* Curve::validate: at least two points, all of them finite numbers, no two at
\* one input.
ValidCurve(points) ==
    /\ Len(points) >= 2
    /\ \A k \in DOMAIN points : points[k].input \in Int /\ points[k].output \in Int
    /\ \A k \in 2 .. Len(points) : points[k - 1].input < points[k].input

\* On the line between two control points.
Interpolated(low, high, x) ==
    low.output + ((high.output - low.output) * (x - low.input))
                 \div (high.input - low.input)

\* Curve::eval: flat outside the points, linear between two of them.
CurveAt(curve, x) ==
    IF x <= curve[1].input THEN curve[1].output
    ELSE IF x >= curve[Len(curve)].input THEN curve[Len(curve)].output
    ELSE LET k == CHOOSE k \in 2 .. Len(curve) :
                     curve[k - 1].input <= x /\ x <= curve[k].input
         IN Interpolated(curve[k - 1], curve[k], x)

-----------------------------------------------------------------------------
(* Sources and gates *)

Total(readings, sensors) == MapThenSumSet(LAMBDA s : readings[s], sensors)

\* Aggregate::reduce over the sensors that answer; a source of one sensor has
\* no aggregate and takes the first answer.
Reduced(aggregate, readings) ==
    LET answering == {s \in DOMAIN readings : readings[s] # Unset}
        values == {readings[s] : s \in answering}
    IN
    IF answering = {} THEN Unset
    ELSE CASE aggregate = "max" -> Max(values)
           [] aggregate = "min" -> Min(values)
           [] aggregate = "avg" -> Total(readings, answering) \div Cardinality(answering)

\* Comparator::satisfied_by, of readings that are whole numbers.
Satisfied(op, reading, threshold) ==
    CASE op = "gt"  -> reading > threshold
      [] op = "gte" -> reading >= threshold
      [] op = "lt"  -> reading < threshold
      [] op = "lte" -> reading <= threshold
      [] op = "eq"  -> reading = threshold
      [] op = "ne"  -> reading # threshold

-----------------------------------------------------------------------------
(* Failure policies *)

Hold == [kind |-> "hold", percent |-> 0]
SafeDefault == [kind |-> "safe_default", percent |-> 0]
Fixed(percent) == [kind |-> "fixed", percent |-> percent]
Release == [kind |-> "release", percent |-> 0]

\* FallbackAction::duty and OtherwiseAction::duty, with the evaluator's
\* defence for an action that names none: the fail-safe duty.
PolicyDuty(action, safe) ==
    IF action.kind = "fixed" THEN action.percent ELSE safe

-----------------------------------------------------------------------------
(* Validation and loading *)

Percent(x) == x \in 0 .. 100

\* What serde makes of a rule file or a form, whatever its values: a list of
\* points, a finite number of sensors, one of the aggregates there are.
Parsed(draft) ==
    /\ {"curve", "sensors", "aggregate", "onMissing", "onFailure", "grace"} \subseteq DOMAIN draft
    /\ Len(draft.curve) \in Nat /\ DOMAIN draft.curve = 1 .. Len(draft.curve)
    /\ IsFiniteSet(draft.sensors)
    /\ draft.aggregate \in {"max", "min", "avg"}

ValidWhen(rule) ==
    rule.when # Unset =>
        /\ rule.when.threshold \in Int
        /\ rule.when.otherwise.kind = "fixed" => Percent(rule.when.otherwise.percent)
        /\ rule.when.source # rule.target

ValidLimits(rule) ==
    /\ rule.min # Unset /\ rule.max # Unset => rule.min <= rule.max
    /\ rule.min # Unset => Percent(rule.min)
    /\ rule.max # Unset => Percent(rule.max)

ValidPolicy(action) ==
    /\ action.kind # "release"
    /\ action.kind = "fixed" => Percent(action.percent)

\* Rule::validate
ValidRule(rule) ==
    /\ ValidCurve(rule.curve)
    /\ rule.sensors # {}
    /\ ValidWhen(rule)
    /\ rule.hysteresis \in Nat /\ rule.deadband \in Nat
    /\ ValidLimits(rule)
    /\ ValidPolicy(rule.onMissing) /\ ValidPolicy(rule.onFailure)

Performable(action) == IF action.kind = "release" THEN SafeDefault ELSE action

\* RuleStore::load_file: `release` is substituted in memory, then the rule is
\* validated like any other; the curve was sorted when it was parsed.
Loaded(draft) ==
    [draft EXCEPT !.curve = Sorted(@),
                  !.onMissing = Performable(@), !.onFailure = Performable(@)]

\* What a directory of rule files gives the engine: a file that does not load
\* is reported and skipped.
RulesOf(drafts) == {rule \in {Loaded(draft) : draft \in drafts} : ValidRule(rule)}

\* What the form or an import may save: no substitution there.
Savable(drafts) ==
    {rule \in {[draft EXCEPT !.curve = Sorted(@)] : draft \in drafts} : ValidRule(rule)}

\* Rule::clamp_output
Limited(rule, x) ==
    Bounded(IF rule.min = Unset THEN x ELSE rule.min, x,
            IF rule.max = Unset THEN x ELSE rule.max)
=============================================================================
