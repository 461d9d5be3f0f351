--------------------------- MODULE RuleEvaluation ---------------------------
(***************************************************************************)
(* One automation rule over time (evaluator.rs, with the part of run_rule  *)
(* and apply_rule_change in engine.rs that keeps its memory): the grace    *)
(* period of a silent sensor, the `when` gate, curve, limits, hysteresis   *)
(* and deadband, the fallback, what each outcome of a write leaves in the  *)
(* rule's memory, and what an edit of the rule drops from it.              *)
(*                                                                         *)
(* Evaluate and the answer to the write it asks for are two steps, as they *)
(* are in the tick: run_rule works on a copy of the memory that replaces   *)
(* the original when the write is answered.  Time is counted in units of   *)
(* the rule's interval; an age is the time since an anchor was set, capped *)
(* at MaxAge, beyond every grace period.                                   *)
(***************************************************************************)
EXTENDS RuleShape

CONSTANTS
    Drafts,          \* rules as files or forms present them
    Temps,           \* what a sensor can read: with two values, all between them
    TargetMin, TargetMax,  \* range of the target capability
    SafeDuty,        \* settings.safety.fail_safe_duty_percent
    Floor,           \* the lowest duty the safety policy lets through
    MaxUnconfirmed,  \* MAX_CONSECUTIVE_UNCONFIRMED
    MaxLag,          \* bound on the time between two evaluations
    MaxAge,          \* bound of the ages
    MaxEdits,        \* bound on the edits of a behaviour
    Overlapping      \* may an edit land while a write is under way?

ASSUME EvaluationAssumption ==
    /\ {TargetMin, Floor, TargetMax} \subseteq Int
    /\ TargetMin <= Floor /\ Floor <= TargetMax
    /\ SafeDuty \in Int
    /\ Temps \subseteq Int /\ \A low, high \in Temps : low .. high \subseteq Temps
    /\ MaxUnconfirmed \in Nat \ {0} /\ MaxLag \in Nat /\ MaxEdits \in Nat
    /\ MaxAge \in Nat /\ Overlapping \in BOOLEAN
    /\ \A draft \in Drafts : Parsed(draft) /\ draft.grace \in 0 .. MaxAge

VARIABLES
    rule,     \* the rule in force
    memory,   \* its RuleState: output, hysteresis anchor, last readings
    status,   \* RuleState.last_status
    job,      \* the write in flight
    channel,  \* the duty the output is really at
    steered,  \* the source value of the last evaluation that used the curve (history)
    blind,    \* time since the rule's present sensors were really read (history)
    doubt,    \* the last write failed: the channel may be anywhere (history)
    edits

history == <<steered, blind, doubt>>
vars == <<rule, memory, status, job, channel, history, edits>>

Older(age, lag) == Bounded(0, age + lag, MaxAge)

FreshMemory == [applied |-> Unset, armed |-> Unset, input |-> Unset,
                inputAge |-> MaxAge, condition |-> Unset,
                conditionAge |-> MaxAge, unconfirmed |-> 0]

NoJob == [busy |-> FALSE, duty |-> Unset, verdict |-> "idle", memory |-> FreshMemory]

Aged(m, lag) == [m EXCEPT !.inputAge = Older(@, lag), !.conditionAge = Older(@, lag)]

-----------------------------------------------------------------------------
(* Readings, fresh or reused *)

\* stale_value_within_grace; a grace period of zero reacts to the first gap.
Reusable(value, age) == value # Unset /\ age < rule.grace

\* Mutant of WithSource: a reused value sets the anchor as well.
WithSourceSliding(m, value) ==
    IF value # Unset THEN [m EXCEPT !.input = value, !.inputAge = 0]
    ELSE IF Reusable(m.input, m.inputAge) THEN [m EXCEPT !.inputAge = 0]
    ELSE m

\* Only a fresh reading moves the anchor.
WithSource(m, value) ==
    IF value = Unset THEN m ELSE [m EXCEPT !.input = value, !.inputAge = 0]

\* resolve_gate, the same discipline for the condition's sensor.
WithCondition(m, gauge) ==
    IF gauge = Unset THEN m ELSE [m EXCEPT !.condition = gauge, !.conditionAge = 0]

SourceOf(m, value) ==
    IF value # Unset \/ Reusable(m.input, m.inputAge) THEN m.input ELSE Unset

GateOf(m, gauge) ==
    IF rule.when = Unset THEN "open"
    ELSE IF gauge = Unset /\ ~Reusable(m.condition, m.conditionAge) THEN "unavailable"
    ELSE IF Satisfied(rule.when.op, m.condition, rule.when.threshold)
         THEN "open" ELSE "closed"

-----------------------------------------------------------------------------
(* What the curve wants *)

\* Mutant of Wanted: the rule's own limits are applied last.
WantedUnclamped(x) == Limited(rule, Bounded(TargetMin, CurveAt(rule.curve, x), TargetMax))

\* Curve, then the rule's limits, then the hardware's.
Wanted(x) == Bounded(TargetMin, Limited(rule, CurveAt(rule.curve, x)), TargetMax)

\* Mutant of HeldBack: a rising output is held back as well.
HeldBackBothWays(m, x) ==
    /\ m.applied # Unset /\ Wanted(x) # m.applied
    /\ m.armed # Unset /\ x > m.armed - rule.hysteresis

\* Hysteresis: falling only after a real drop from the anchor.
HeldBack(m, x) ==
    /\ m.applied # Unset /\ Wanted(x) < m.applied
    /\ m.armed # Unset /\ x > m.armed - rule.hysteresis

Target(m, x) == IF HeldBack(m, x) THEN m.applied ELSE Wanted(x)

Rearmed(m, x) ==
    IF HeldBack(m, x) \/ (m.applied = Wanted(x) /\ m.armed # Unset)
    THEN m ELSE [m EXCEPT !.armed = x]

Distance(a, b) == IF a < b THEN b - a ELSE a - b

\* Deadband: a change too small to matter is not written.
WorthWriting(m, duty) ==
    \/ m.applied = Unset
    \/ Distance(duty, m.applied) >= rule.deadband /\ duty # m.applied

-----------------------------------------------------------------------------
(* The evaluation *)

\* The decision is taken on a copy; with nothing to write it is remembered at
\* once, otherwise when the write was answered.
Decide(verdict, duty, write, m) ==
    IF write
    THEN /\ job' = [busy |-> TRUE, duty |-> duty, verdict |-> verdict, memory |-> m]
         /\ UNCHANGED <<memory, status>>
    ELSE /\ memory' = m /\ status' = verdict /\ UNCHANGED job

\* Curve, hysteresis, deadband.
Steer(m, x) ==
    LET duty == Target(m, x)
        write == WorthWriting(m, duty)
    IN
    /\ Decide(IF write THEN "applied" ELSE "held", duty, write, Rearmed(m, x))
    /\ steered' = x

\* Mutant of Disarmed: the anchor survives a closed gate.
DisarmedNever(m) == m

Disarmed(m) == [m EXCEPT !.armed = Unset]

\* evaluate_gated: the condition is false, its `otherwise` duty is in force and
\* the hysteresis anchor is dropped.
StandDown(m) ==
    LET duty == Bounded(TargetMin, PolicyDuty(rule.when.otherwise, SafeDuty), TargetMax)
    IN
    /\ Decide("gated", duty, m.applied # duty, Disarmed(m))
    /\ steered' = Unset

\* evaluate_fallback: the source, or the gate's sensor, is silent for longer
\* than the grace period.
FallBack(m) ==
    LET duty == Bounded(TargetMin, PolicyDuty(rule.onMissing, SafeDuty), TargetMax)
    IN
    /\ IF rule.onMissing = Hold
       THEN Decide("fallback", m.applied, FALSE, m)
       ELSE Decide("fallback", duty, m.applied # duty, m)
    /\ steered' = Unset

\* The condition's sensor is looked at only once a source value is at hand.
Observed(lag, value, gauge) ==
    LET m == WithSource(Aged(memory, lag), value) IN
    IF rule.when = Unset \/ SourceOf(m, value) = Unset THEN m
    ELSE WithCondition(m, gauge)

Evaluate(lag, value, gauge) ==
    LET m == Observed(lag, value, gauge)
        x == SourceOf(m, value)
        gate == IF x = Unset THEN "unavailable" ELSE GateOf(m, gauge)
    IN
    /\ rule.enabled /\ ~job.busy
    /\ \/ gate = "open" /\ Steer(m, x)
       \/ gate = "closed" /\ StandDown(m)
       \/ gate = "unavailable" /\ FallBack(m)
    /\ blind' = [source |-> IF value # Unset THEN 0 ELSE Older(blind.source, lag),
                 gate |-> IF gauge # Unset THEN 0 ELSE Older(blind.gate, lag)]
    /\ UNCHANGED <<rule, channel, doubt, edits>>

\* read_source and read_condition: each sensor gives a reading or none.
EvaluateReadings(lag) ==
    \E readings \in [rule.sensors -> Temps \cup {Unset}],
       gauge \in {Unset} \cup (IF rule.when = Unset THEN {} ELSE Temps) :
        Evaluate(lag, Reduced(rule.aggregate, readings), gauge)

-----------------------------------------------------------------------------
(* The answer to the write *)

\* Capability::validate: what is asked for lies in the range of the target, or
\* the write is refused before anything is sent.
Accepted(duty) == duty \in TargetMin .. TargetMax

\* The runtime raises a duty below the floor of the safety policy; its ramp
\* limit is off, as it is by default.
Granted(duty) == IF duty < Floor THEN Floor ELSE duty

\* Where the runtime's own fail-safe write after a failure may leave the output.
FailSafe == IF Accepted(SafeDuty) THEN {Granted(SafeDuty)} ELSE {}

Remember(m, verdict) ==
    memory' = m /\ status' = verdict /\ job' = NoJob
    /\ UNCHANGED <<rule, steered, blind, edits>>

\* The device is known to be at a value: the one it reported.
Confirmed ==
    LET duty == Granted(job.duty) IN
    /\ job.busy
    /\ channel' = duty /\ doubt' = FALSE
    /\ Remember([job.memory EXCEPT !.applied = duty, !.unconfirmed = 0], job.verdict)

\* handle_write_failure: the rule's own policy, once, and whatever comes of it.
\* A second failure leaves the rule's idea of the output as it was.
PolicyOutcomes(m, places) ==
    LET asked == PolicyDuty(rule.onFailure, SafeDuty)
        duty == Granted(asked)
    IN
    IF rule.onFailure = Hold \/ ~Accepted(asked) THEN {m} \X places
    ELSE {<<[m EXCEPT !.applied = duty], duty>>}
         \cup {[m EXCEPT !.applied = Unset]} \X (places \cup {duty})
         \cup {m} \X (places \cup {duty} \cup FailSafe)

RunPolicy(m, places) ==
    \E out \in PolicyOutcomes(m, places) :
        /\ channel' = out[2] /\ doubt' = TRUE
        /\ Remember(out[1], "error")

\* The output is unknown: the next evaluation has to try again.
Forgotten(m, duty) == [m EXCEPT !.applied = Unset]

\* Accepted, and nobody knows what the device is at now.
Unconfirmed ==
    LET places == {channel, Granted(job.duty)}
        count == job.memory.unconfirmed + 1
        forgot == Forgotten(job.memory, Granted(job.duty))
    IN
    /\ job.busy
    /\ IF count >= MaxUnconfirmed
       THEN RunPolicy([forgot EXCEPT !.unconfirmed = 0], places)
       ELSE /\ channel' \in places
            /\ Remember([forgot EXCEPT !.unconfirmed = count], "unconfirmed")
            /\ UNCHANGED doubt

\* Refused or lost: the runtime has tried its own fail-safe duty by then.
Failed ==
    /\ job.busy
    /\ RunPolicy(job.memory, {channel, Granted(job.duty)} \cup FailSafe)

\* supervise_safety drives every output to full speed, past the rules.
Forced ==
    /\ channel' = TargetMax
    /\ UNCHANGED <<rule, memory, status, job, history, edits>>

-----------------------------------------------------------------------------
(* Edits *)

\* RuleChange::between
ControlChanged(new) ==
    <<rule.curve, rule.hysteresis, rule.deadband, rule.min, rule.max,
      rule.onMissing, rule.onFailure, rule.grace>>
    # <<new.curve, new.hysteresis, new.deadband, new.min, new.max,
        new.onMissing, new.onFailure, new.grace>>

SourceChanged(new) == rule.sensors # new.sensors \/ rule.aggregate # new.aggregate

\* apply_rule_change: what was measured for another output, from another
\* sensor, against another condition or under another mapping is dropped.
Reconciled(m, new) ==
    [m EXCEPT
        !.applied = IF rule.enabled # new.enabled THEN Unset ELSE @,
        !.armed = IF rule.enabled # new.enabled \/ SourceChanged(new) \/ ControlChanged(new)
                  THEN Unset ELSE @,
        !.input = IF SourceChanged(new) THEN Unset ELSE @,
        !.inputAge = IF SourceChanged(new) THEN MaxAge ELSE @,
        !.condition = IF rule.when # new.when THEN Unset ELSE @,
        !.conditionAge = IF rule.when # new.when THEN MaxAge ELSE @]

\* save_rule and set_rule_enabled.
Edit(new) ==
    /\ edits < MaxEdits /\ new # rule
    /\ Overlapping \/ ~job.busy
    /\ rule' = new
    /\ memory' = Reconciled(memory, new)
    /\ status' = IF new.enabled THEN status ELSE "disabled"
    /\ steered' = Unset
    /\ blind' = [source |-> IF SourceChanged(new) THEN MaxAge ELSE blind.source,
                 gate |-> IF rule.when # new.when THEN MaxAge ELSE blind.gate]
    /\ edits' = edits + 1
    /\ UNCHANGED <<job, channel, doubt>>

-----------------------------------------------------------------------------
(* Specification *)

Init ==
    /\ rule \in RulesOf(Drafts)
    /\ memory = FreshMemory /\ status = "idle" /\ job = NoJob
    /\ channel = TargetMin
    /\ steered = Unset /\ blind = [source |-> MaxAge, gate |-> MaxAge]
    /\ doubt = FALSE /\ edits = 0

Evaluation == \E lag \in 1 .. MaxLag : EvaluateReadings(lag)

Next == \/ Evaluation
        \/ Confirmed \/ Unconfirmed \/ Failed \/ Forced
        \/ \E new \in Savable(Drafts) : Edit(new)

Spec == Init /\ [][Next]_vars

-----------------------------------------------------------------------------
(* Properties *)

Duties == TargetMin .. TargetMax
Memory == [applied : Duties \cup {Unset}, armed : Temps \cup {Unset},
           input : Temps \cup {Unset}, inputAge : 0 .. MaxAge,
           condition : Temps \cup {Unset}, conditionAge : 0 .. MaxAge,
           unconfirmed : 0 .. MaxUnconfirmed - 1]

\* Every variable has its type: what is asked of the device, whichever branch
\* asked for it, lies in the range of the target capability (the clamps of
\* evaluate, evaluate_gated and evaluate_fallback), whatever the rule's own
\* limits say.
TypeOK ==
    /\ rule \in RulesOf(Drafts) \cup Savable(Drafts)
    /\ memory \in Memory
    /\ status \in {"idle", "disabled", "applied", "held", "gated", "fallback",
                   "unconfirmed", "error"}
    /\ job.busy => /\ job.duty \in Duties /\ job.memory \in Memory
                   /\ job.verdict \in {"applied", "gated", "fallback"}
    /\ channel \in Duties
    /\ steered \in Temps \cup {Unset}
    /\ blind \in [source : 0 .. MaxAge, gate : 0 .. MaxAge]
    /\ edits \in 0 .. MaxEdits

Known(age) == age = 0 \/ age < rule.grace

\* The curve is followed only while each of the rule's present sensors has
\* really been read, now or less than a grace period ago: no chain of reused
\* values, and no reading of a sensor the rule had before an edit, keeps it
\* steering.
NeverSteersBlind ==
    steered # Unset => /\ Known(blind.source)
                       /\ rule.when # Unset => Known(blind.gate)

\* Hysteresis, deadband and failed attempts never leave the output slower than
\* the curve asks for, by a deadband or more, while the rule calls it applied
\* or held and the device answers.
NeverTooSlow ==
    status \in {"applied", "held"} /\ steered # Unset /\ ~job.busy /\ ~doubt
    => \/ channel >= Wanted(steered)
       \/ Wanted(steered) - channel < rule.deadband

\* Between two control points the curve never leaves their outputs, and outside
\* it never leaves the last of them.
CurveStaysBetween ==
    \A x \in Temps : \E k, n \in DOMAIN rule.curve :
        /\ k = 1 \/ rule.curve[k].input <= x
        /\ n = Len(rule.curve) \/ x <= rule.curve[n].input
        /\ n \in {k, k + 1}
        /\ LET ends == {rule.curve[k].output, rule.curve[n].output} IN
           CurveAt(rule.curve, x) \in Min(ends) .. Max(ends)

\* The two together: the duty that reaches the fan follows the curve the user
\* drew, and the curve itself is sound at every input.
CoolingFollowsCurve == NeverTooSlow /\ CurveStaysBetween

\* The output is where the curve wants it, or not a whole deadband away.
Near(m, x) ==
    /\ m.applied # Unset
    /\ Wanted(x) = m.applied \/ ~(Distance(Wanted(x), m.applied) >= rule.deadband)

\* The next evaluation follows the curve and finds nothing worth writing.
FirstHeld == ~job.busy /\ ~job'.busy /\ status' = "held"

\* A rule that stood down behind its gate resumes from the reading it sees when
\* the gate reopens: its first answer is the curve's, not one held back by an
\* anchor from before.
ReopensAfresh == [][FirstHeld /\ status = "gated" => Near(memory, steered')]_vars
=============================================================================
