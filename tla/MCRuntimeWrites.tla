-------------------------- MODULE MCRuntimeWrites ---------------------------
(* Values of the constants of RuntimeWrites for TLC.                       *)
EXTENDS RuntimeWrites, TLC

CONSTANTS pump, rule

OneDevice == {pump}
PumpType == (pump :> "pump")
OneCaller == {rule}

BaseLimits ==
    [enabled |-> TRUE, require_min_duty |-> TRUE, min_duty |-> 25,
     pump_min_duty |-> 60, fail_safe |-> 50, emergency_temp |-> 90,
     emergency_duty |-> 100, override |-> TRUE, max_delta |-> 0,
     relinquish |-> TRUE]

RampedLimits == [BaseLimits EXCEPT !.max_delta = 50]

CoolAndHot == {40, 95}
OnlyLow == {0}
=============================================================================
