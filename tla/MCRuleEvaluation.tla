-------------------------- MODULE MCRuleEvaluation --------------------------
(* Values of RuleEvaluation's constants, for TLC: rules whose grace period,  *)
(* gate, limits and policies differ, a file that still says `release`, one   *)
(* that no path into the engine may accept, and a curve written backwards.   *)
EXTENDS RuleEvaluation

Point(input, output) == [input |-> input, output |-> output]
Gentle == <<Point(0, 2), Point(3, 6)>>
Backwards == <<Point(3, 6), Point(1, 1)>>

Plain == [enabled |-> TRUE, sensors |-> {"gpu"}, aggregate |-> "max",
          when |-> Unset, target |-> "fan", curve |-> Gentle,
          hysteresis |-> 2, deadband |-> 2, min |-> Unset, max |-> Unset,
          onMissing |-> SafeDefault, onFailure |-> SafeDefault, grace |-> 2]

Gate == [source |-> "load", op |-> "gte", threshold |-> 2, otherwise |-> Fixed(6)]

MCDrafts ==
    {Plain,
     [Plain EXCEPT !.enabled = FALSE],
     [Plain EXCEPT !.sensors = {"gpu", "cpu"}, !.aggregate = "avg", !.grace = 0],
     [Plain EXCEPT !.when = Gate, !.deadband = 1],
     [Plain EXCEPT !.curve = Backwards, !.onMissing = Release, !.onFailure = Hold],
     [Plain EXCEPT !.min = 8, !.max = 9, !.onMissing = Fixed(9),
                   !.onFailure = Fixed(9), !.hysteresis = 0],
     [Plain EXCEPT !.min = 5, !.max = 4]}
MCTemps == 1 .. 3
=============================================================================
