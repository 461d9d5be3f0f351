---------------------------- MODULE SafetyPolicy ----------------------------
(***************************************************************************)
(* The hardware protection of ohm-runtime (safety.rs): the limits a user   *)
(* may set, what sanitise makes of them, and check_duty, the gate every    *)
(* duty passes before an adapter sees it.  Duties are whole percents and   *)
(* temperatures whole degrees; a value that is not finite never reaches a  *)
(* limit (validate and check_duty refuse it) and is left out.              *)
(***************************************************************************)
EXTENDS Integers

CONSTANT None    \* "no reading"

ASSUME NoneAssumption == None \notin Int

Full == 100
Duty == 0 .. Full
DeviceTypes == {"fan", "pump", "gpu", "sensor"}

(* The fields of SafetyPolicy that decide something here, as a user's      *)
(* settings file may hold them.                                            *)
RawPolicy ==
    [enabled : BOOLEAN, require_min_duty : BOOLEAN,
     min_duty : Int, pump_min_duty : Int, fail_safe : Int,
     emergency_temp : Int, emergency_duty : Int, override : BOOLEAN,
     max_delta : Int, relinquish : BOOLEAN]

Higher(a, b) == IF a >= b THEN a ELSE b
Clamp(v, low, high) == IF v < low THEN low ELSE IF v > high THEN high ELSE v

(* sanitise, in the order of the code: a later limit is repaired against   *)
(* the already clamped value of an earlier one.                            *)
Sanitised(p) ==
    LET min_duty == Clamp(p.min_duty, 0, Full)
        pump_min == Clamp(p.pump_min_duty, 10, Full)
        safe == Clamp(p.fail_safe, 0, Full)
    IN  [p EXCEPT !.min_duty = min_duty,
                  !.pump_min_duty = IF pump_min < min_duty
                                    THEN Higher(min_duty, 10) ELSE pump_min,
                  !.emergency_duty = Clamp(p.emergency_duty, 50, Full),
                  !.fail_safe = IF safe < min_duty THEN min_duty ELSE safe,
                  !.emergency_temp = Clamp(p.emergency_temp, 50, 130),
                  !.max_delta = Clamp(p.max_delta, 0, Full)]

(* What sanitise leaves: the policies the program runs with.               *)
Policies ==
    {p \in RawPolicy :
        /\ p.min_duty \in Duty /\ p.pump_min_duty \in 10 .. Full
        /\ p.pump_min_duty >= p.min_duty
        /\ p.fail_safe \in p.min_duty .. Full
        /\ p.emergency_duty \in 50 .. Full
        /\ p.emergency_temp \in 50 .. 130
        /\ p.max_delta \in Duty}

DutyFloor(p, type) ==
    CASE type = "pump" -> Higher(p.pump_min_duty, p.min_duty)
      [] type = "fan" /\ p.require_min_duty /\ p.enabled -> p.min_duty
      [] OTHER -> 0

(* A slip: the floor added to the fail-safe duty, not taken for its least.  *)
FailSafeDutySummed(p, type) == p.fail_safe + DutyFloor(p, type)

FailSafeDuty(p, type) == Higher(p.fail_safe, DutyFloor(p, type))
EmergencyDuty(p, type) == Higher(p.emergency_duty, DutyFloor(p, type))

(* emergency_override for the hottest of a set of temperatures.            *)
IsEmergency(p, temperatures) ==
    /\ p.override
    /\ p.emergency_temp > 0
    /\ \E t \in temperatures : t >= p.emergency_temp

(* A slip: a ramp that starts below the floor stays below it.              *)
RampStepUnfloored(p, type, requested, current) ==
    Clamp(IF requested > current THEN current + p.max_delta
                                 ELSE current - p.max_delta, 0, Full)

(* One ramp step from the current reading towards what was asked for.      *)
RampStep(p, type, requested, current) ==
    LET stepped == IF requested > current THEN current + p.max_delta
                                          ELSE current - p.max_delta
    IN  Clamp(Higher(stepped, DutyFloor(p, type)), 0, Full)

RampLimited(p, requested, current) ==
    /\ p.max_delta > 0
    /\ current # None
    /\ \/ requested - current > p.max_delta
       \/ current - requested > p.max_delta

(* A slip: the emergency left to the supervisor alone.                     *)
CheckDutyUnaware(p, type, requested, current, emergency) ==
    IF requested < DutyFloor(p, type) THEN DutyFloor(p, type)
    ELSE IF RampLimited(p, requested, current)
         THEN RampStep(p, type, requested, current)
         ELSE requested

(* check_duty: the value it allows.  An emergency comes first and knows no *)
(* ramp, then the floor, then the ramp.                                    *)
CheckDuty(p, type, requested, current, emergency) ==
    IF emergency THEN Higher(requested, EmergencyDuty(p, type))
    ELSE IF requested < DutyFloor(p, type) THEN DutyFloor(p, type)
    ELSE IF RampLimited(p, requested, current)
         THEN RampStep(p, type, requested, current)
         ELSE requested
=============================================================================
