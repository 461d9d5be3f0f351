------------------------ MODULE RuntimeWrites_proofs ------------------------
(***************************************************************************)
(* What the limits and the gate of SafetyPolicy promise for every policy,  *)
(* every kind of device and every reading; and what RuntimeWrites keeps    *)
(* for any devices, callers, limits and temperatures, and any number of    *)
(* failures and hot-plugs.                                                 *)
(***************************************************************************)
EXTENDS RuntimeWrites, TLAPS

-----------------------------------------------------------------------------
(* The limits and the gate                                                  *)

LEMMA PolicyEdited ==
    ASSUME NEW p \in RawPolicy, NEW a \in Int, NEW b \in Int, NEW c \in Int,
           NEW d \in Int, NEW e \in Int, NEW f \in Int
    PROVE  [p EXCEPT !.min_duty = a, !.pump_min_duty = b, !.emergency_duty = c,
                     !.fail_safe = d, !.emergency_temp = e, !.max_delta = f]
             \in RawPolicy
BY DEF RawPolicy

(* Whatever a settings file holds, sanitise makes a policy of it that does *)
(* not defeat itself: a pump is never allowed less than a fan, and the     *)
(* fail-safe duty is never below the floor (SafetyPolicy::sanitise).       *)
THEOREM SanitiseRepairs ==
    ASSUME NEW p \in RawPolicy
    PROVE  Sanitised(p) \in Policies
<1>1. Sanitised(p) \in RawPolicy
    <2>. DEFINE a == Clamp(p.min_duty, 0, Full)
                pump_min == Clamp(p.pump_min_duty, 10, Full)
                safe == Clamp(p.fail_safe, 0, Full)
                b == IF pump_min < a THEN Higher(a, 10) ELSE pump_min
                c == Clamp(p.emergency_duty, 50, Full)
                d == IF safe < a THEN a ELSE safe
                e == Clamp(p.emergency_temp, 50, 130)
                f == Clamp(p.max_delta, 0, Full)
    <2>1. /\ p.min_duty \in Int /\ p.pump_min_duty \in Int /\ p.fail_safe \in Int
          /\ p.emergency_temp \in Int /\ p.emergency_duty \in Int /\ p.max_delta \in Int
        BY DEF RawPolicy
    <2>2. a \in Int /\ pump_min \in Int /\ safe \in Int
        BY <2>1, SMT DEF Clamp, Full
    <2>3. c \in Int /\ e \in Int /\ f \in Int
        BY <2>1, SMT DEF Clamp, Full
    <2>4. b \in Int /\ d \in Int
        BY <2>2, SMT DEF Higher
    <2>5. Sanitised(p) = [p EXCEPT !.min_duty = a, !.pump_min_duty = b,
                                   !.emergency_duty = c, !.fail_safe = d,
                                   !.emergency_temp = e, !.max_delta = f]
        BY Zenon DEF Sanitised
    <2>. HIDE DEF a, b, c, d, e, f
    <2>6. [p EXCEPT !.min_duty = a, !.pump_min_duty = b, !.emergency_duty = c,
                    !.fail_safe = d, !.emergency_temp = e, !.max_delta = f]
            \in RawPolicy
        BY <2>2, <2>3, <2>4, PolicyEdited, Zenon
    <2>. QED  BY <2>5, <2>6, Zenon
<1>2. /\ Sanitised(p).min_duty \in Duty
      /\ Sanitised(p).pump_min_duty \in 10 .. Full
      /\ Sanitised(p).pump_min_duty >= Sanitised(p).min_duty
      /\ Sanitised(p).fail_safe \in Sanitised(p).min_duty .. Full
    BY SMT DEF RawPolicy, Sanitised, Clamp, Higher, Full, Duty
<1>3. /\ Sanitised(p).emergency_duty \in 50 .. Full
      /\ Sanitised(p).emergency_temp \in 50 .. 130
      /\ Sanitised(p).max_delta \in Duty
    BY SMT DEF RawPolicy, Sanitised, Clamp, Higher, Full, Duty
<1>. QED  BY <1>1, <1>2, <1>3 DEF Policies

LEMMA LimitTypes ==
    ASSUME NEW p \in Policies, NEW type \in DeviceTypes
    PROVE  /\ p.min_duty \in Duty /\ p.pump_min_duty \in Duty
           /\ p.fail_safe \in Duty /\ p.emergency_duty \in Duty
           /\ p.max_delta \in Duty
           /\ DutyFloor(p, type) \in Duty
           /\ FailSafeDuty(p, type) \in Duty
           /\ FailSafeDuty(p, type) >= DutyFloor(p, type)
           /\ EmergencyDuty(p, type) \in Duty
           /\ EmergencyDuty(p, type) >= DutyFloor(p, type)
<1>1. /\ p.min_duty \in Duty /\ p.pump_min_duty \in Duty
      /\ p.fail_safe \in Duty /\ p.emergency_duty \in Duty
      /\ p.max_delta \in Duty
    BY SMT DEF Policies, Duty, Full
<1>2. DutyFloor(p, type) \in Duty
    <2>1. CASE type = "pump"  BY <1>1, <2>1, SMT DEF DutyFloor, Higher
    <2>2. CASE type = "fan" /\ p.require_min_duty /\ p.enabled
        BY <1>1, <2>2, SMT DEF DutyFloor
    <2>3. CASE type # "pump" /\ ~ (type = "fan" /\ p.require_min_duty /\ p.enabled)
        BY <2>3, SMT DEF DutyFloor, Duty, Full
    <2>. QED  BY <2>1, <2>2, <2>3
<1>3. /\ FailSafeDuty(p, type) \in Duty
      /\ FailSafeDuty(p, type) >= DutyFloor(p, type)
    BY <1>1, <1>2, SMT DEF FailSafeDuty, Higher, Duty, Full
<1>4. /\ EmergencyDuty(p, type) \in Duty
      /\ EmergencyDuty(p, type) >= DutyFloor(p, type)
    BY <1>1, <1>2, SMT DEF EmergencyDuty, Higher, Duty, Full
<1>. QED  BY <1>1, <1>2, <1>3, <1>4

LEMMA RampStepBounds ==
    ASSUME NEW p \in Policies, NEW type \in DeviceTypes,
           NEW requested \in Duty, NEW current \in Duty
    PROVE  /\ RampStep(p, type, requested, current) \in Duty
           /\ RampStep(p, type, requested, current) >= DutyFloor(p, type)
           /\ current >= DutyFloor(p, type)
              => /\ RampStep(p, type, requested, current) - current <= p.max_delta
                 /\ current - RampStep(p, type, requested, current) <= p.max_delta
<1>. DEFINE floor == DutyFloor(p, type)
<1>1. p.max_delta \in Duty /\ floor \in Duty
    BY LimitTypes
<1>. HIDE DEF floor
<1>2. RampStep(p, type, requested, current)
        = Clamp(Higher(IF requested > current THEN current + p.max_delta
                                              ELSE current - p.max_delta, floor), 0, Full)
    BY DEF RampStep, floor
<1>. DEFINE delta == p.max_delta
            step == RampStep(p, type, requested, current)
<1>3. delta \in 0 .. 100 /\ floor \in 0 .. 100 /\ current \in 0 .. 100
    BY <1>1 DEF Duty, Full
<1>. SUFFICES /\ step \in 0 .. 100 /\ step >= floor
              /\ current >= floor => step - current <= delta /\ current - step <= delta
    BY DEF floor, Duty, Full
<1>4. CASE requested > current
    <2>1. step = Clamp(Higher(current + delta, floor), 0, 100)
        BY <1>2, <1>4 DEF Full
    <2>. HIDE DEF delta, step
    <2>. QED  BY <1>3, <2>1, SMT DEF Clamp, Higher
<1>5. CASE ~ (requested > current)
    <2>1. step = Clamp(Higher(current - delta, floor), 0, 100)
        BY <1>2, <1>5 DEF Full
    <2>. HIDE DEF delta, step
    <2>. QED  BY <1>3, <2>1, SMT DEF Clamp, Higher
<1>. QED  BY <1>4, <1>5

(* The gate never lets a duty below the floor of its device through, and   *)
(* none outside the range; in an emergency, none below the emergency duty, *)
(* and it never lowers what was asked for (SafetyPolicy::check_duty).      *)
THEOREM GateProtects ==
    ASSUME NEW p \in Policies, NEW type \in DeviceTypes,
           NEW requested \in Duty, NEW current \in Duty \cup {None},
           NEW emergency \in BOOLEAN
    PROVE  LET allowed == CheckDuty(p, type, requested, current, emergency)
           IN  /\ allowed \in Duty
               /\ allowed >= DutyFloor(p, type)
               /\ emergency => allowed >= EmergencyDuty(p, type)
               /\ emergency => allowed >= requested
<1>. DEFINE allowed == CheckDuty(p, type, requested, current, emergency)
<1>. DEFINE floor == DutyFloor(p, type)
<1>1. /\ floor \in Duty
      /\ EmergencyDuty(p, type) \in Duty /\ EmergencyDuty(p, type) >= floor
    BY LimitTypes
<1>2. CASE emergency
    <2>1. allowed = Higher(requested, EmergencyDuty(p, type))
        BY <1>2 DEF CheckDuty
    <2>. HIDE DEF floor, allowed
    <2>2. /\ allowed \in Duty /\ allowed >= floor
          /\ allowed >= EmergencyDuty(p, type) /\ allowed >= requested
        BY <1>1, <2>1, SMT DEF Higher, Duty, Full
    <2>. QED  BY <2>2 DEF floor, allowed
<1>3. CASE ~ emergency /\ requested < floor
    <2>1. allowed = floor
        BY <1>3 DEF CheckDuty
    <2>. QED  BY <1>1, <1>3, <2>1, SMT DEF Duty, Full
<1>4. CASE ~ emergency /\ ~ (requested < floor) /\ RampLimited(p, requested, current)
    <2>1. allowed = RampStep(p, type, requested, current)
        BY <1>4 DEF CheckDuty
    <2>2. current \in Duty
        BY <1>4 DEF RampLimited
    <2>. QED  BY <1>4, <2>1, <2>2, RampStepBounds
<1>5. CASE ~ emergency /\ ~ (requested < floor) /\ ~ RampLimited(p, requested, current)
    <2>1. allowed = requested
        BY <1>5 DEF CheckDuty
    <2>2. requested >= floor
        BY <1>1, <1>5, SMT DEF Duty, Full
    <2>. QED  BY <1>5, <2>1, <2>2
<1>. QED  BY <1>2, <1>3, <1>4, <1>5

(* Outside an emergency, and if neither the request nor the reading lies   *)
(* below the floor, a write moves an output by no more than the ramp limit *)
(* away from its last reading (SafetyPolicy::max_write_delta_percent).     *)
THEOREM RampIsKept ==
    ASSUME NEW p \in Policies, NEW type \in DeviceTypes,
           NEW requested \in Duty, NEW current \in Duty,
           p.max_delta > 0,
           requested >= DutyFloor(p, type), current >= DutyFloor(p, type)
    PROVE  LET allowed == CheckDuty(p, type, requested, current, FALSE)
           IN  allowed - current <= p.max_delta /\ current - allowed <= p.max_delta
<1>. DEFINE allowed == CheckDuty(p, type, requested, current, FALSE)
<1>1. DutyFloor(p, type) \in Duty /\ p.max_delta \in Duty
    BY LimitTypes
<1>2. ~ (requested < DutyFloor(p, type))
    BY <1>1, SMT DEF Duty, Full
<1>3. CASE RampLimited(p, requested, current)
    <2>1. allowed = RampStep(p, type, requested, current)
        BY <1>2, <1>3 DEF CheckDuty
    <2>. QED  BY <2>1, RampStepBounds
<1>4. CASE ~ RampLimited(p, requested, current)
    <2>1. allowed = requested
        BY <1>2, <1>4 DEF CheckDuty
    <2>2. current # None
        BY NoneAssumption DEF Duty
    <2>3. ~ (requested - current > p.max_delta) /\ ~ (current - requested > p.max_delta)
        BY <1>4, <2>2 DEF RampLimited
    <2>4. requested - current <= p.max_delta /\ current - requested <= p.max_delta
        BY <1>1, <2>3, SMT DEF Duty, Full
    <2>. QED  BY <2>1, <2>4
<1>. QED  BY <1>3, <1>4

-----------------------------------------------------------------------------
(* The writes                                                               *)

(* Every write under way has a value its output may have.                  *)
JobsKeepFloor ==
    \A w \in Writers :
        jobs[w] # None => jobs[w].value >= DutyFloor(Limits, Type[jobs[w].device])

(* Of the devices that are not in the table, a discovery cycle's copy of   *)
(* the settings is no older than the settings, unless a draft was saved    *)
(* over them.                                                              *)
CopyIsCurrent ==
    scan.at \in {"probing", "found"}
    => \A d \in Devices \ (known \cup overruled) : d \in scan.disabled <=> d \in disabled

(* The supervisor writes while a poll waits for it.                        *)
SupervisorWaits == jobs["supervisor"] # None => poll.at = "forcing"

(* Before the release nothing is released.                                 *)
ReleaseNotBegun ==
    stage \in {"running", "stopping"}
    => /\ jobs["release"] = None /\ unreleased = {}
       /\ \A o \in Outputs : report[o] = None

(* From then on no loop is under way.                                      *)
LoopsAreOver ==
    stage \in {"releasing", "stopped"}
    => /\ poll.at = "idle" \/ poll.by = "person"
       /\ scan.at = "idle" \/ scan.by = "person"

ReleaseOver ==
    stage = "stopped" => unreleased = {} /\ jobs["release"] = None

(* Each output is written once: it waits, or is being written, or has been *)
(* reported.                                                               *)
ReleaseCounts ==
    /\ jobs["release"] # None
       => jobs["release"].device \notin unreleased /\ ~ jobs["release"].fallback
    /\ stage \in {"releasing", "stopped"} /\ Limits.relinquish
       => \A o \in (Outputs \cap enabled) \ touched :
             \/ o \in unreleased \/ report[o] # None
             \/ jobs["release"] # None /\ jobs["release"].device = o

(* An output that was reported is not written again, but by a person.      *)
ReportStands ==
    \A o \in Outputs :
        report[o] # None
        => /\ o \notin unreleased
           /\ jobs["release"] # None => jobs["release"].device # o
           /\ report[o].bucket = "confirmed" /\ o \notin touched
              => /\ duty[o] = report[o].applied
                 /\ duty[o] >= DutyFloor(Limits, Type[o])

Inv ==
    /\ TypeOK /\ JobsKeepFloor /\ SwitchIsKept /\ CopyIsCurrent /\ SupervisorWaits
    /\ ReleaseNotBegun /\ LoopsAreOver /\ ReleaseOver /\ ReleaseCounts
    /\ ReportStands

(* The part of Inv that speaks of the release.                             *)
ReleaseInv ==
    /\ ReleaseNotBegun /\ LoopsAreOver /\ ReleaseOver /\ ReleaseCounts
    /\ ReportStands

-----------------------------------------------------------------------------
(* Whatever is judged is a write its output may have.                      *)
LEMMA JudgedIsSound ==
    ASSUME TypeOK, NEW o \in Outputs, NEW requested \in Duty, NEW fallback \in BOOLEAN
    PROVE  /\ Judged(o, requested, fallback) \in Job
           /\ Judged(o, requested, fallback).device = o
           /\ Judged(o, requested, fallback).fallback = fallback
           /\ Judged(o, requested, fallback).value >= DutyFloor(Limits, Type[o])
<1>. DEFINE allowed == CheckDuty(Limits, Type[o], requested, CurrentDuty(o), Emergency)
<1>1. o \in Devices /\ Type[o] \in DeviceTypes /\ Limits \in Policies
    BY RuntimeAssumption
<1>2. CurrentDuty(o) \in Duty \cup {None}
    BY <1>1 DEF TypeOK, Reading, CurrentDuty
<1>3. Emergency \in BOOLEAN
    BY Zenon DEF Emergency, IsEmergency
<1>4. allowed \in Duty /\ allowed >= DutyFloor(Limits, Type[o])
    BY <1>1, <1>2, <1>3, GateProtects, Zenon
<1>5. Judged(o, requested, fallback)
        = [device |-> o, value |-> allowed, fallback |-> fallback]
    BY DEF Judged
<1>. HIDE DEF allowed
<1>. QED  BY <1>4, <1>5 DEF Job

LEMMA JobIsSound ==
    ASSUME TypeOK, JobsKeepFloor, NEW w \in Writers, jobs[w] # None
    PROVE  /\ jobs[w] \in Job
           /\ jobs[w].device \in Outputs /\ jobs[w].value \in Duty
           /\ jobs[w].value >= DutyFloor(Limits, Type[jobs[w].device])
<1>1. jobs[w] \in Job
    BY DEF TypeOK
<1>. QED  BY <1>1 DEF Job, JobsKeepFloor

(* The second write after a failure.                                       *)
LEMMA AfterFailureIsSound ==
    ASSUME TypeOK, NEW job \in Job
    PROVE  /\ AfterFailure(job) \in Job \cup {None}
           /\ AfterFailure(job) # None
              => /\ AfterFailure(job).device = job.device
                 /\ AfterFailure(job).value >= DutyFloor(Limits, Type[job.device])
           /\ ~ job.fallback => AfterFailure(job) = None
<1>1. job.device \in Outputs
    BY DEF Job
<1>2. Type[job.device] \in DeviceTypes /\ Limits \in Policies
    BY <1>1, RuntimeAssumption
<1>3. FailSafeDuty(Limits, Type[job.device]) \in Duty
    BY <1>2, LimitTypes
<1>4. FALSE \in BOOLEAN
    OBVIOUS
<1>5. CASE job.fallback /\ Accepts(job.device)
    <2>1. AfterFailure(job)
            = Judged(job.device, FailSafeDuty(Limits, Type[job.device]), FALSE)
        BY <1>5, Zenon DEF AfterFailure
    <2>. QED  BY <1>1, <1>3, <1>4, <1>5, <2>1, JudgedIsSound, Zenon
<1>6. CASE ~ (job.fallback /\ Accepts(job.device))
    BY <1>6, Zenon DEF AfterFailure
<1>. QED  BY <1>5, <1>6

(* A state before the release says nothing that could be wrong about it.   *)
LEMMA BeforeRelease ==
    ASSUME stage \in {"running", "stopping"}, ReleaseNotBegun
    PROVE  ReleaseInv
BY DEF ReleaseInv, ReleaseNotBegun, LoopsAreOver, ReleaseOver, ReleaseCounts,
       ReportStands

LEMMA BeforeReleasePrimed ==
    ASSUME stage' \in {"running", "stopping"}, ReleaseNotBegun'
    PROVE  ReleaseInv'
BY DEF ReleaseInv, ReleaseNotBegun, LoopsAreOver, ReleaseOver, ReleaseCounts,
       ReportStands

(* What the release has done stands whatever else happens that moves no    *)
(* output and switches none on unrecorded.                                 *)
LEMMA ReleaseFrame ==
    ASSUME Inv, UNCHANGED <<stage, unreleased, report, duty>>,
           jobs'["release"] = jobs["release"],
           touched \subseteq touched',
           stage \in {"releasing", "stopped"}
              => Outputs \cap (enabled' \ enabled) \subseteq touched',
           LoopsAreOver'
    PROVE  ReleaseInv'
<1>1. ReleaseNotBegun' /\ ReleaseOver'
    BY DEF Inv, ReleaseNotBegun, ReleaseOver
<1>2. ReleaseCounts'
    BY DEF Inv, ReleaseCounts
<1>3. ReportStands'
    BY DEF Inv, ReportStands
<1>. QED  BY <1>1, <1>2, <1>3 DEF ReleaseInv

LEMMA InitInv ==
    ASSUME Init
    PROVE  Inv
<1>1. FirmwareDuty \in Duty /\ Temperatures \subseteq Nat /\ MaxEvents \in Nat
      /\ MaxFaults \in Nat /\ Outputs \subseteq Devices /\ Thermal \subseteq Devices
    BY RuntimeAssumption
<1>2. \A d \in Devices : ReadingOf(d) \in Reading
    BY <1>1 DEF Init, ReadingOf, Reading
<1>3. TypeOK
    BY <1>1, <1>2 DEF Init, TypeOK, Idle, NoScan, Starters
<1>4. JobsKeepFloor /\ SwitchIsKept /\ CopyIsCurrent /\ SupervisorWaits
    BY DEF Init, JobsKeepFloor, SwitchIsKept, CopyIsCurrent, NoScan, SupervisorWaits, Writers
<1>5. ReleaseNotBegun /\ stage = "running"
    BY DEF Init, ReleaseNotBegun, Writers
<1>6. ReleaseInv
    BY <1>5, BeforeRelease
<1>. QED  BY <1>3, <1>4, <1>6 DEF Inv, ReleaseInv

-----------------------------------------------------------------------------
(* The callers, the polls and the discovery.                               *)
LEMMA CallerStep ==
    ASSUME Inv, NEW w \in Callers, CallerWrites(w)
    PROVE  Inv'
<1>1. PICK o \in Outputs, requested \in Requests :
          Accepts(o) /\ jobs' = [jobs EXCEPT ![w] = Judged(o, requested, TRUE)]
    BY DEF CallerWrites
<1>. DEFINE job == Judged(o, requested, TRUE)
<1>2. /\ w \in Writers /\ w # "release" /\ w # "supervisor" /\ requested \in Duty
      /\ "release" \in Writers /\ "supervisor" \in Writers
    BY RuntimeAssumption DEF Writers
<1>3. job \in Job /\ job.device = o /\ job.value >= DutyFloor(Limits, Type[o])
    BY <1>2, JudgedIsSound DEF Inv
<1>. HIDE DEF job
<1>4. jobs' = [jobs EXCEPT ![w] = job]
    BY <1>1 DEF job
<1>5. UNCHANGED <<temp, duty, plugged, known, enabled, disabled, automation, draft,
                  overruled, store, poll, scan, stage, unreleased, report, touched,
                  events, faults>>
    BY DEF CallerWrites, machine, table, exit
<1>6. TypeOK'
    BY <1>2, <1>3, <1>4, <1>5 DEF Inv, TypeOK
<1>7. JobsKeepFloor'
    BY <1>2, <1>3, <1>4 DEF Inv, TypeOK, JobsKeepFloor
<1>8. jobs'["release"] = jobs["release"] /\ jobs'["supervisor"] = jobs["supervisor"]
    BY <1>2, <1>4 DEF Inv, TypeOK
<1>9. SwitchIsKept' /\ CopyIsCurrent' /\ SupervisorWaits' /\ LoopsAreOver'
    BY <1>5, <1>8 DEF Inv, SwitchIsKept, CopyIsCurrent, SupervisorWaits, LoopsAreOver
<1>10. ReleaseInv'
    BY <1>5, <1>8, <1>9, ReleaseFrame
<1>. QED  BY <1>6, <1>7, <1>9, <1>10 DEF Inv, ReleaseInv

(* The types of what a poll changes.                                       *)
PollTypes ==
    /\ poll \in [at : {"idle", "reading", "read", "forcing"}, by : Starters,
                 todo : SUBSET Devices, device : Devices \cup {None},
                 got : Reading \cup {None}]
    /\ poll.at = "read" => poll.device \in Devices
    /\ poll.at = "forcing" => poll.todo \subseteq Outputs
    /\ store \in [Devices -> Reading \cup {None}]
    /\ faults \in 0 .. MaxFaults

(* A poll but for its writes: it changes itself and the store.             *)
LEMMA PollReadsStep ==
    ASSUME Inv,
           \/ PollStart \/ PollStore \/ Supervise \/ ForcingDone
           \/ \E d \in Devices : PollRead(d)
    PROVE  Inv'
<1>1. UNCHANGED <<temp, duty, plugged, known, enabled, disabled, automation, draft,
                  overruled, scan, jobs, stage, unreleased, report, touched, events>>
    BY DEF PollStart, PollStore, Supervise, ForcingDone, PollRead, machine, table, exit
<1>2. PollTypes'
    <2>0. /\ Temperatures \subseteq Nat /\ MaxFaults \in Nat
          /\ Outputs \subseteq Devices
        BY RuntimeAssumption
    <2>1. CASE PollStart
        BY <2>1 DEF PollTypes, Inv, TypeOK, PollStart, PollBegins, Starters
    <2>2. CASE PollStore  BY <2>2 DEF PollTypes, Inv, TypeOK, PollStore
    <2>3. CASE Supervise
        BY <2>0, <2>3 DEF PollTypes, Inv, TypeOK, Supervise, Idle, CoolingOutputs, Starters
    <2>4. CASE ForcingDone
        BY <2>4 DEF PollTypes, Inv, TypeOK, ForcingDone, Idle, Starters
    <2>5. ASSUME NEW d \in Devices, PollRead(d)
          PROVE  PollTypes'
        <3>1. ReadingOf(d) \in Reading
            BY <2>0 DEF Inv, TypeOK, ReadingOf, Reading
        <3>2. [ReadingOf(d) EXCEPT !.heat = None] \in Reading
            BY <3>1 DEF Reading
        <3>3. PICK got \in Reading \cup {None} :
                  poll' = [poll EXCEPT !.at = "read", !.todo = @ \ {d},
                                       !.device = d, !.got = got]
            BY <2>5, <3>1, <3>2 DEF PollRead
        <3>4. store' = store
            BY <2>5 DEF PollRead
        <3>5. faults' = faults \/ (faults < MaxFaults /\ faults' = faults + 1)
            BY <2>5 DEF PollRead
        <3>6. faults' \in 0 .. MaxFaults
            BY <2>0, <3>5 DEF Inv, TypeOK
        <3>7. /\ poll.todo \ {d} \in SUBSET Devices
              /\ poll \in [at : {"idle", "reading", "read", "forcing"}, by : Starters,
                          todo : SUBSET Devices, device : Devices \cup {None},
                          got : Reading \cup {None}]
            BY DEF Inv, TypeOK
        <3>8. /\ poll' \in [at : {"idle", "reading", "read", "forcing"}, by : Starters,
                           todo : SUBSET Devices, device : Devices \cup {None},
                           got : Reading \cup {None}]
              /\ poll'.at = "read" /\ poll'.device = d
            BY <3>3, <3>7
        <3>. QED  BY <3>4, <3>6, <3>8 DEF PollTypes, Inv, TypeOK
    <2>. QED  BY <2>1, <2>2, <2>3, <2>4, <2>5
<1>3. TypeOK'
    BY <1>1, <1>2 DEF Inv, TypeOK, PollTypes
<1>4. JobsKeepFloor' /\ SwitchIsKept' /\ CopyIsCurrent'
    BY <1>1 DEF Inv, JobsKeepFloor, SwitchIsKept, CopyIsCurrent
<1>5. SupervisorWaits'
    BY <1>1 DEF Inv, TypeOK, SupervisorWaits, PollStart, PollBegins, PollStore, Supervise,
               ForcingDone, PollRead
<1>6. LoopsAreOver'
    <2>1. CASE PollStart
        BY <1>1, <2>1 DEF LoopsAreOver, PollStart
    <2>2. CASE Supervise \/ ForcingDone
        <3>0. poll.at = "reading" \/ poll.at = "forcing"
            BY <2>2, Zenon DEF Supervise, ForcingDone
        <3>1. poll' = Idle \/ poll' = [poll EXCEPT !.at = "forcing", !.todo = CoolingOutputs]
            BY <2>2, Zenon DEF Supervise, ForcingDone
        <3>2. poll'.at = "idle" \/ poll'.by = poll.by
            <4>1. CASE poll' = Idle
                BY <4>1 DEF Idle
            <4>2. CASE poll' = [poll EXCEPT !.at = "forcing", !.todo = CoolingOutputs]
                BY <4>2 DEF Inv, TypeOK
            <4>. QED  BY <3>1, <4>1, <4>2
        <3>. QED  BY <1>1, <3>0, <3>2 DEF Inv, LoopsAreOver
    <2>3. CASE PollStore \/ \E d \in Devices : PollRead(d)
        BY <1>1, <2>3 DEF Inv, TypeOK, LoopsAreOver, PollStore, PollRead
    <2>. QED  BY <2>1, <2>2, <2>3
<1>7. ReleaseInv'
    BY <1>1, <1>6, ReleaseFrame
<1>. QED  BY <1>3, <1>4, <1>5, <1>7 DEF Inv, ReleaseInv

LEMMA ForceStep ==
    ASSUME Inv, NEW o \in Outputs, ForceOutput(o)
    PROVE  Inv'
<1>. DEFINE job == IF CoolEnough(o) \/ ~ Accepts(o) THEN None
                   ELSE Judged(o, Limits.emergency_duty, FALSE)
<1>1. UNCHANGED <<temp, duty, plugged, known, enabled, disabled, automation, draft,
                  overruled, store, scan, stage, unreleased, report, touched, events,
                  faults>>
    BY DEF ForceOutput, machine, table, exit
<1>2. "supervisor" \in Writers /\ "supervisor" # "release" /\ "release" \in Writers
    BY DEF Writers
<1>3. Limits.emergency_duty \in Duty
    BY RuntimeAssumption DEF Policies, Duty, Full
<1>4. /\ job \in Job \cup {None}
      /\ job # None => job.device = o /\ job.value >= DutyFloor(Limits, Type[o])
    BY <1>3, JudgedIsSound, Zenon DEF Inv
<1>5. jobs' = [jobs EXCEPT !["supervisor"] = job]
    BY DEF ForceOutput
<1>. HIDE DEF job
<1>6. poll' = [poll EXCEPT !.todo = poll.todo \ {o}] /\ poll.at = "forcing"
    BY DEF ForceOutput
<1>7. jobs' \in [Writers -> Job \cup {None}]
    BY <1>2, <1>4, <1>5 DEF Inv, TypeOK
<1>8. TypeOK'
    BY <1>1, <1>6, <1>7 DEF Inv, TypeOK
<1>9. JobsKeepFloor'
    BY <1>2, <1>4, <1>5 DEF Inv, TypeOK, JobsKeepFloor
<1>10. poll'.at = poll.at /\ poll'.by = poll.by /\ jobs'["release"] = jobs["release"]
    BY <1>2, <1>5, <1>6 DEF Inv, TypeOK
<1>11. SwitchIsKept' /\ CopyIsCurrent' /\ SupervisorWaits' /\ LoopsAreOver'
    BY <1>1, <1>6, <1>10 DEF Inv, SwitchIsKept, CopyIsCurrent, SupervisorWaits, LoopsAreOver
<1>12. ReleaseInv'
    BY <1>1, <1>10, <1>11, ReleaseFrame
<1>. QED  BY <1>8, <1>9, <1>11, <1>12 DEF Inv, ReleaseInv

(* What a discovery cycle or a rescan may disturb.                         *)
ScanInv ==
    /\ known \subseteq Devices /\ enabled \subseteq known
    /\ store \in [Devices -> Reading \cup {None}]
    /\ scan \in [at : {"idle", "probing", "found", "seeding", "done"}, by : Starters,
                 disabled : SUBSET Devices, found : SUBSET Devices,
                 added : SUBSET Devices, removed : SUBSET Devices]
    /\ touched \subseteq Outputs
    /\ SwitchIsKept /\ CopyIsCurrent /\ LoopsAreOver

(* A discovery cycle: its copy of the settings is current for whatever it  *)
(* adds, but for what a draft has overruled.                               *)
LEMMA ScanStep ==
    ASSUME Inv, ScanLoop \/ RescanStart
    PROVE  Inv'
<1>1. /\ UNCHANGED <<temp, duty, plugged, disabled, automation, draft, overruled, poll,
                     jobs, stage, unreleased, report, faults>>
      /\ touched \subseteq touched' /\ events' \in 0 .. MaxEvents
    <2>1. UNCHANGED <<temp, duty, plugged, disabled, automation, draft, overruled, poll,
                      jobs, stage, unreleased, report, faults>>
        BY DEF ScanLoop, ScanStart, ScanBegins, ScanAnswer, Reconcile, SeedStore,
               RescanStart, machine, table, exit
    <2>2. touched \subseteq touched'
        BY DEF ScanLoop, ScanStart, ScanBegins, ScanAnswer, Reconcile, SeedStore,
               RescanStart, exit, Touch
    <2>3. events' = events \/ (events < MaxEvents /\ events' = events + 1)
        BY DEF ScanLoop, ScanStart, ScanAnswer, Reconcile, SeedStore, RescanStart
    <2>4. events' \in 0 .. MaxEvents
        BY <2>3, RuntimeAssumption DEF Inv, TypeOK
    <2>. QED  BY <2>1, <2>2, <2>4
<1>2. ASSUME ScanInv',
             stage \in {"releasing", "stopped"}
                => Outputs \cap (enabled' \ enabled) \subseteq touched'
      PROVE  Inv'
    <2>1. TypeOK'
        BY <1>1, <1>2 DEF Inv, TypeOK, ScanInv
    <2>2. JobsKeepFloor' /\ SupervisorWaits'
        BY <1>1 DEF Inv, JobsKeepFloor, SupervisorWaits
    <2>3. ReleaseInv'
        BY <1>1, <1>2, ReleaseFrame DEF ScanInv
    <2>. QED  BY <1>2, <2>1, <2>2, <2>3 DEF Inv, ScanInv, ReleaseInv
<1>3. ASSUME NEW starter \in Starters, ScanBegins(starter),
             stage = "running" \/ starter = "person"
      PROVE  Inv'
    <2>1. UNCHANGED <<known, enabled, store, touched>>
        BY <1>3 DEF ScanBegins, table, exit
    <2>2. scan' = [scan EXCEPT !.at = "probing", !.by = starter, !.disabled = disabled]
        BY <1>3 DEF ScanBegins
    <2>3. scan'.disabled = disabled /\ scan'.by = starter
        BY <2>2 DEF Inv, TypeOK
    <2>4. SwitchIsKept' /\ CopyIsCurrent' /\ LoopsAreOver'
        BY <1>1, <1>3, <2>1, <2>3 DEF Inv, TypeOK, SwitchIsKept, CopyIsCurrent, LoopsAreOver
    <2>5. ScanInv'
        BY <2>1, <2>2, <2>4 DEF Inv, TypeOK, ScanInv
    <2>. QED  BY <1>2, <2>1, <2>5
<1>4. CASE ScanStart
    BY <1>3, <1>4 DEF ScanStart, Starters
<1>5. CASE RescanStart
    BY <1>3, <1>5 DEF RescanStart, Starters
<1>6. CASE ScanAnswer
    <2>1. /\ scan' = [scan EXCEPT !.at = "found", !.found = plugged]
          /\ scan.at = "probing" /\ UNCHANGED <<known, enabled, store, touched>>
        BY <1>6 DEF ScanAnswer, table, exit
    <2>2. ScanInv'
        BY <1>1, <2>1 DEF Inv, TypeOK, ScanInv, SwitchIsKept, CopyIsCurrent, LoopsAreOver
    <2>. QED  BY <1>2, <2>1, <2>2
<1>7. CASE Reconcile
    <2>. DEFINE added == scan.found \ known
    <2>1. PICK kept \in SUBSET (known \ scan.found) :
              /\ known' = scan.found \cup kept
              /\ enabled' = EnabledAfter(known', added)
              /\ Touch(Outputs \cap (enabled' \ enabled))
              /\ scan' = [scan EXCEPT !.at = "seeding", !.added = added,
                                      !.removed = known \ known']
        BY <1>7 DEF Reconcile
    <2>2. enabled' = (enabled \cap known') \cup (added \ scan.disabled)
        BY <2>1 DEF EnabledAfter
    <2>3. scan.at = "found" /\ UNCHANGED store
        BY <1>7 DEF Reconcile
    <2>4. scan.found \subseteq Devices /\ known \subseteq Devices
        BY DEF Inv, TypeOK
    <2>5. SwitchIsKept'
        <3>1. SUFFICES ASSUME NEW d \in known' \ overruled
                       PROVE  d \in enabled' <=> d \notin disabled
            BY <1>1 DEF SwitchIsKept
        <3>2. CASE d \in known
            BY <2>1, <2>2, <3>2 DEF Inv, SwitchIsKept
        <3>3. CASE d \notin known
            <4>1. d \in added /\ d \in Devices \ (known \cup overruled)
                BY <2>1, <2>4, <3>3
            <4>2. d \in scan.disabled <=> d \in disabled
                BY <2>3, <4>1 DEF Inv, CopyIsCurrent
            <4>3. enabled \subseteq known
                BY DEF Inv, TypeOK
            <4>. QED  BY <2>2, <3>3, <4>1, <4>2, <4>3
        <3>. QED  BY <3>2, <3>3
    <2>6. CopyIsCurrent'
        BY <2>1 DEF Inv, TypeOK, CopyIsCurrent
    <2>7. scan'.by = scan.by /\ scan.at # "idle"
        BY <2>1, <2>3 DEF Inv, TypeOK
    <2>8. LoopsAreOver'
        BY <1>1, <2>7 DEF Inv, LoopsAreOver
    <2>9. touched' \subseteq Outputs
        BY <2>1 DEF Inv, TypeOK, Touch
    <2>10. ScanInv'
        BY <2>1, <2>2, <2>3, <2>4, <2>5, <2>6, <2>8, <2>9 DEF Inv, TypeOK, ScanInv
    <2>. QED  BY <1>2, <2>1, <2>10 DEF Touch
<1>8. CASE SeedStore
    <2>1. store' \in [Devices -> Reading \cup {None}]
        BY <1>8 DEF Inv, TypeOK, SeedStore, Blank, Reading
    <2>2. /\ scan.at = "seeding" /\ UNCHANGED <<known, enabled, touched>>
          /\ scan' = IF scan.by = "loop" THEN NoScan
                     ELSE [NoScan EXCEPT !.at = "done", !.by = "person"]
        BY <1>8 DEF SeedStore, table, exit
    <2>3. scan' \in {NoScan, [NoScan EXCEPT !.at = "done", !.by = "person"]}
        BY <2>2
    <2>4. /\ scan' \in [at : {"idle", "probing", "found", "seeding", "done"}, by : Starters,
                        disabled : SUBSET Devices, found : SUBSET Devices,
                        added : SUBSET Devices, removed : SUBSET Devices]
          /\ scan'.at \in {"idle", "done"}
          /\ scan'.at = "idle" \/ scan'.by = "person"
        <3>1. CASE scan' = NoScan
            BY <3>1, SMT DEF NoScan, Starters
        <3>2. CASE scan' = [NoScan EXCEPT !.at = "done", !.by = "person"]
            <4>1. scan' = [at |-> "done", by |-> "person", disabled |-> {}, found |-> {},
                           added |-> {}, removed |-> {}]
                BY <3>2 DEF NoScan
            <4>. QED  BY <4>1, SMT DEF Starters
        <3>. QED  BY <2>3, <3>1, <3>2
    <2>5. ScanInv'
        BY <1>1, <2>1, <2>2, <2>4 DEF Inv, TypeOK, ScanInv, SwitchIsKept, CopyIsCurrent,
                                      LoopsAreOver
    <2>. QED  BY <1>2, <2>2, <2>5
<1>. QED  BY <1>4, <1>5, <1>6, <1>7, <1>8 DEF ScanLoop

(* The poll of a rescan begins.                                            *)
LEMMA RescanPollsStep ==
    ASSUME Inv, RescanPolls
    PROVE  Inv'
<1>1. UNCHANGED <<temp, duty, plugged, known, enabled, disabled, automation, draft,
                  overruled, store, jobs, stage, unreleased, report, touched, events,
                  faults>>
    BY DEF RescanPolls, machine, table, exit
<1>2. /\ poll.at = "idle" /\ scan' = NoScan
      /\ poll' = [poll EXCEPT !.at = "reading", !.by = "person", !.todo = enabled]
    BY DEF RescanPolls, PollBegins
<1>3. /\ poll' \in [at : {"idle", "reading", "read", "forcing"}, by : Starters,
                   todo : SUBSET Devices, device : Devices \cup {None},
                   got : Reading \cup {None}]
      /\ poll'.at = "reading" /\ poll'.by = "person"
    BY <1>2 DEF Inv, TypeOK, Starters
<1>4. TypeOK'
    BY <1>1, <1>2, <1>3 DEF Inv, TypeOK, NoScan, Starters
<1>5. JobsKeepFloor' /\ SwitchIsKept' /\ CopyIsCurrent' /\ SupervisorWaits'
    BY <1>1, <1>2, <1>3 DEF Inv, JobsKeepFloor, SwitchIsKept, CopyIsCurrent, NoScan,
                            SupervisorWaits
<1>6. LoopsAreOver'
    BY <1>2, <1>3 DEF LoopsAreOver, NoScan
<1>7. ReleaseInv'
    BY <1>1, <1>6, ReleaseFrame
<1>. QED  BY <1>4, <1>5, <1>7 DEF Inv, ReleaseInv

(* What the environment may disturb.                                       *)
SwitchInv ==
    /\ temp \in [Thermal -> Temperatures] /\ plugged \subseteq Devices
    /\ enabled \subseteq known /\ disabled \subseteq Devices
    /\ automation \in BOOLEAN
    /\ draft \in [disabled : SUBSET Devices, automation : BOOLEAN]
    /\ overruled \subseteq Devices /\ touched \subseteq Outputs
    /\ SwitchIsKept /\ CopyIsCurrent

(* A switch changes the table and the settings together, and of devices    *)
(* that are in the table only; a draft changes the settings alone, and is  *)
(* on record for it.                                                       *)
LEMMA EnvironmentStep ==
    ASSUME Inv, Environment
    PROVE  Inv'
<1>1. UNCHANGED <<store, poll, scan, jobs, stage, unreleased, report, faults, known, duty>>
    BY DEF Environment, SetDeviceEnabled, SetAutomation, ReadDraft, SaveDraft,
           TemperatureMoves, Hotplug, table, machine
<1>2. events' \in 0 .. MaxEvents
    BY RuntimeAssumption DEF Inv, TypeOK, Environment
<1>3. JobsKeepFloor' /\ SupervisorWaits' /\ LoopsAreOver'
    BY <1>1 DEF Inv, JobsKeepFloor, SupervisorWaits, LoopsAreOver
<1>4. /\ SwitchInv'
      /\ touched \subseteq touched'
      /\ stage \in {"releasing", "stopped"}
            => Outputs \cap (enabled' \ enabled) \subseteq touched'
    <2>1. ASSUME NEW d \in Devices, SetDeviceEnabled(d)
          PROVE  /\ SwitchInv'
                 /\ touched \subseteq touched'
                 /\ stage \in {"releasing", "stopped"}
                       => Outputs \cap (enabled' \ enabled) \subseteq touched'
        <3>1. /\ \/ enabled' = enabled \cup {d} /\ disabled' = disabled \ {d}
                 \/ enabled' = enabled \ {d} /\ disabled' = disabled \cup {d}
              /\ d \in known /\ overruled' = overruled \ {d}
              /\ UNCHANGED <<temp, plugged, automation, draft>>
            BY <2>1 DEF SetDeviceEnabled, machine
        <3>2. /\ touched \subseteq touched' /\ touched' \subseteq Outputs
              /\ stage \in {"releasing", "stopped"}
                    => Outputs \cap (enabled' \ enabled) \subseteq touched'
            BY <2>1 DEF Inv, TypeOK, SetDeviceEnabled, Touch
        <3>3. SwitchIsKept' /\ CopyIsCurrent'
            BY <1>1, <3>1 DEF Inv, TypeOK, SwitchIsKept, CopyIsCurrent
        <3>4. /\ enabled' \subseteq known' /\ disabled' \subseteq Devices
              /\ overruled' \subseteq Devices
            BY <1>1, <3>1 DEF Inv, TypeOK
        <3>. QED  BY <3>1, <3>2, <3>3, <3>4 DEF Inv, TypeOK, SwitchInv
    <2>2. CASE SetAutomation
        BY <1>1, <2>2 DEF SwitchInv, Inv, TypeOK, SetAutomation, machine, SwitchIsKept,
                          CopyIsCurrent
    <2>3. CASE ReadDraft
        BY <1>1, <2>3 DEF SwitchInv, Inv, TypeOK, ReadDraft, machine, SwitchIsKept,
                          CopyIsCurrent
    <2>4. CASE SaveDraft
        <3>1. /\ disabled' = draft.disabled /\ automation' = draft.automation
              /\ overruled' = overruled
                    \cup {d \in Devices : (d \in disabled) # (d \in disabled')}
              /\ UNCHANGED <<temp, plugged, enabled, draft, touched>>
            BY <2>4 DEF SaveDraft, machine
        <3>2. \A d \in Devices \ overruled' : d \in disabled' <=> d \in disabled
            BY <3>1
        <3>3. disabled' \subseteq Devices /\ automation' \in BOOLEAN
              /\ overruled' \subseteq Devices /\ overruled \subseteq overruled'
            BY <3>1 DEF Inv, TypeOK
        <3>4. SwitchIsKept' /\ CopyIsCurrent'
            BY <1>1, <3>1, <3>2, <3>3 DEF Inv, TypeOK, SwitchIsKept, CopyIsCurrent
        <3>. QED  BY <1>1, <3>1, <3>3, <3>4 DEF Inv, TypeOK, SwitchInv
    <2>5. CASE TemperatureMoves
        BY <1>1, <2>5 DEF SwitchInv, Inv, TypeOK, TemperatureMoves, table, SwitchIsKept,
                          CopyIsCurrent
    <2>6. CASE Hotplug
        BY <1>1, <2>6 DEF SwitchInv, Inv, TypeOK, Hotplug, table, SwitchIsKept, CopyIsCurrent
    <2>. QED  BY <2>1, <2>2, <2>3, <2>4, <2>5, <2>6 DEF Environment
<1>5. TypeOK'
    BY <1>1, <1>2, <1>4 DEF SwitchInv, Inv, TypeOK
<1>6. ReleaseInv'
    BY <1>1, <1>3, <1>4, ReleaseFrame
<1>. QED  BY <1>3, <1>4, <1>5, <1>6 DEF SwitchInv, Inv, ReleaseInv

LEMMA ShutdownStep ==
    ASSUME Inv, Shutdown
    PROVE  Inv'
<1>1. stage' = "stopping" /\ stage = "running"
      /\ UNCHANGED <<machine, table, store, poll, scan, jobs, unreleased, report,
                     touched, events, faults>>
    BY DEF Shutdown
<1>2. TypeOK' /\ JobsKeepFloor' /\ SwitchIsKept' /\ CopyIsCurrent' /\ SupervisorWaits'
    BY <1>1 DEF Inv, TypeOK, JobsKeepFloor, SwitchIsKept, CopyIsCurrent, SupervisorWaits,
               machine, table
<1>3. ReleaseNotBegun'
    BY <1>1 DEF Inv, ReleaseNotBegun
<1>4. ReleaseInv'
    BY <1>1, <1>3, BeforeReleasePrimed
<1>. QED  BY <1>2, <1>4 DEF Inv, ReleaseInv

-----------------------------------------------------------------------------
(* A write that ends, whoever it is of.                                    *)
LEMMA WriteEffect ==
    ASSUME Inv, NEW w \in Writers, WriteEnds(w)
    PROVE  /\ jobs[w] # None
           /\ UNCHANGED <<temp, plugged, known, enabled, disabled, automation, draft,
                          overruled, store, poll, scan, stage, unreleased, events>>
           /\ Touch(IF ByPerson(w) THEN {jobs[w].device} ELSE {})
           /\ faults' \in 0 .. MaxFaults
           /\ duty' \in {duty, [duty EXCEPT ![jobs[w].device] = jobs[w].value]}
           /\ jobs' \in {[jobs EXCEPT ![w] = None],
                          [jobs EXCEPT ![w] = AfterFailure(jobs[w])]}
           /\ \E bucket \in Bucket, applied \in Duty \cup {None} :
                 /\ Reported(w, bucket, applied)
                 /\ bucket = "confirmed"
                    => /\ applied = jobs[w].value
                       /\ duty' = [duty EXCEPT ![jobs[w].device] = jobs[w].value]
<1>1. /\ jobs[w] # None
      /\ UNCHANGED <<temp, plugged, table, store, poll, scan, stage, unreleased, events>>
      /\ Touch(IF ByPerson(w) THEN {jobs[w].device} ELSE {})
    BY DEF WriteEnds
<1>2. UNCHANGED <<known, enabled, disabled, automation, draft, overruled>>
    BY <1>1 DEF table
<1>3. jobs[w].value \in Duty
    BY <1>1, JobIsSound DEF Inv
<1>4. faults \in 0 .. MaxFaults /\ MaxFaults \in Nat
    BY RuntimeAssumption DEF Inv, TypeOK
<1>5. faults' = faults \/ (faults < MaxFaults /\ faults' = faults + 1)
    BY DEF WriteEnds, Confirmed, Unconfirmed, Rejected, Failed
<1>6. faults' \in 0 .. MaxFaults
    BY <1>4, <1>5
<1>7. duty' \in {duty, [duty EXCEPT ![jobs[w].device] = jobs[w].value]}
    BY DEF WriteEnds, Confirmed, Unconfirmed, Rejected, Failed
<1>8. jobs' \in {[jobs EXCEPT ![w] = None],
                [jobs EXCEPT ![w] = AfterFailure(jobs[w])]}
    BY DEF WriteEnds, Confirmed, Unconfirmed, Rejected, Failed
<1>9. \E bucket \in Bucket, applied \in Duty \cup {None} :
         /\ Reported(w, bucket, applied)
         /\ bucket = "confirmed"
            => /\ applied = jobs[w].value
               /\ duty' = [duty EXCEPT ![jobs[w].device] = jobs[w].value]
    <2>1. CASE Confirmed(w)
        <3>1. Reported(w, "confirmed", jobs[w].value)
              /\ duty' = [duty EXCEPT ![jobs[w].device] = jobs[w].value]
            BY <2>1 DEF Confirmed
        <3>. QED  BY <1>3, <3>1 DEF Bucket
    <2>2. CASE Unconfirmed(w)
        <3>1. Reported(w, "unconfirmed", None)
            BY <2>2 DEF Unconfirmed
        <3>. QED  BY <3>1 DEF Bucket
    <2>3. CASE Rejected(w)
        <3>1. Reported(w, "rejected", None)
            BY <2>3 DEF Rejected
        <3>. QED  BY <3>1 DEF Bucket
    <2>4. CASE Failed(w)
        <3>1. Reported(w, "failed", None)
            BY <2>4 DEF Failed
        <3>. QED  BY <3>1 DEF Bucket
    <2>. QED  BY <2>1, <2>2, <2>3, <2>4 DEF WriteEnds
<1>. QED  BY <1>1, <1>2, <1>6, <1>7, <1>8, <1>9

LEMMA WriteStep ==
    ASSUME Inv, NEW w \in Writers, WriteEnds(w)
    PROVE  Inv'
<1>. DEFINE o == jobs[w].device
            value == jobs[w].value
<1>1. /\ jobs[w] # None
      /\ UNCHANGED <<temp, plugged, known, enabled, disabled, automation, draft,
                     overruled, store, poll, scan, stage, unreleased, events>>
      /\ Touch(IF ByPerson(w) THEN {o} ELSE {})
      /\ faults' \in 0 .. MaxFaults
      /\ duty' \in {duty, [duty EXCEPT ![o] = value]}
      /\ jobs' \in {[jobs EXCEPT ![w] = None],
                     [jobs EXCEPT ![w] = AfterFailure(jobs[w])]}
    BY WriteEffect
<1>2. PICK bucket \in Bucket, applied \in Duty \cup {None} :
          /\ Reported(w, bucket, applied)
          /\ bucket = "confirmed"
             => applied = value /\ duty' = [duty EXCEPT ![o] = value]
    BY WriteEffect
<1>3. /\ jobs[w] \in Job /\ o \in Outputs /\ value \in Duty
      /\ value >= DutyFloor(Limits, Type[o])
    BY <1>1, JobIsSound DEF Inv
<1>4. PICK next \in Job \cup {None} :
          /\ jobs' = [jobs EXCEPT ![w] = next]
          /\ next # None => next.device = o /\ next.value >= DutyFloor(Limits, Type[o])
          /\ ~ jobs[w].fallback => next = None
    BY <1>1, <1>3, AfterFailureIsSound, Zenon DEF Inv
<1>5. report' = IF w = "release"
                THEN [report EXCEPT ![o] = [bucket |-> bucket, applied |-> applied]]
                ELSE report
    BY <1>2, Zenon DEF Reported
<1>. HIDE DEF o, value
<1>6. duty' \in [Outputs -> Duty]
    BY <1>1, <1>3 DEF Inv, TypeOK
<1>7. jobs' \in [Writers -> Job \cup {None}]
    BY <1>4 DEF Inv, TypeOK
<1>8. report' \in [Outputs -> [bucket : Bucket, applied : Duty \cup {None}] \cup {None}]
    BY <1>2, <1>3, <1>5 DEF Inv, TypeOK
<1>9. touched \subseteq touched' /\ touched' \subseteq Outputs
    BY <1>1, <1>3 DEF Inv, TypeOK, Touch
<1>10. TypeOK'
    BY <1>1, <1>6, <1>7, <1>8, <1>9 DEF Inv, TypeOK
<1>11. JobsKeepFloor'
    BY <1>4 DEF Inv, TypeOK, JobsKeepFloor
<1>12. SwitchIsKept' /\ CopyIsCurrent' /\ LoopsAreOver'
    BY <1>1 DEF Inv, SwitchIsKept, CopyIsCurrent, LoopsAreOver
<1>13. "release" \in Writers /\ "supervisor" \in Writers
    BY DEF Writers
<1>14. SupervisorWaits'
    BY <1>1, <1>4, <1>13 DEF Inv, TypeOK, SupervisorWaits
<1>15. \A p \in Outputs \ {o} : duty'[p] = duty[p]
    BY <1>1, <1>3 DEF Inv, TypeOK
<1>16. CASE stage \in {"running", "stopping"}
    <2>1. w # "release" /\ jobs["release"] = None
        BY <1>1, <1>16 DEF Inv, ReleaseNotBegun
    <2>2. jobs'["release"] = None /\ report' = report
        BY <1>4, <1>5, <1>13, <2>1 DEF Inv, TypeOK
    <2>3. ReleaseNotBegun'
        BY <1>1, <2>2 DEF Inv, ReleaseNotBegun
    <2>4. ReleaseInv'
        BY <1>1, <1>16, <2>3, BeforeReleasePrimed
    <2>. QED  BY <1>10, <1>11, <1>12, <1>14, <2>4 DEF Inv, ReleaseInv
<1>17. CASE stage \in {"releasing", "stopped"} /\ w = "release"
    <2>1. stage = "releasing" /\ ~ jobs[w].fallback /\ o \notin unreleased
        BY <1>1, <1>17 DEF Inv, ReleaseOver, ReleaseCounts, o
    <2>2. jobs' = [jobs EXCEPT !["release"] = None] /\ jobs'["release"] = None
        BY <1>4, <1>17, <2>1 DEF Inv, TypeOK
    <2>3. report' = [report EXCEPT ![o] = [bucket |-> bucket, applied |-> applied]]
        BY <1>5, <1>17
    <2>4. report'[o] = [bucket |-> bucket, applied |-> applied] /\ report'[o] # None
          /\ \A p \in Outputs \ {o} : report'[p] = report[p]
        BY <1>2, <1>3, <2>3, NoneIsNothing DEF Inv, TypeOK
    <2>5. ReleaseNotBegun' /\ ReleaseOver'
        BY <1>1, <2>1, <2>2 DEF ReleaseNotBegun, ReleaseOver
    <2>6. ReleaseCounts'
        BY <1>1, <1>9, <1>17, <2>1, <2>2, <2>4 DEF Inv, ReleaseCounts, o
    <2>7. bucket = "confirmed" => duty'[o] = value /\ applied = value
        BY <1>2, <1>3 DEF Inv, TypeOK
    <2>8. ASSUME NEW p \in Outputs, report'[p] # None
          PROVE  /\ p \notin unreleased'
                 /\ report'[p].bucket = "confirmed" /\ p \notin touched'
                    => /\ duty'[p] = report'[p].applied
                       /\ duty'[p] >= DutyFloor(Limits, Type[p])
        <3>1. CASE p = o
            BY <1>1, <1>3, <2>1, <2>4, <2>7, <3>1
        <3>2. CASE p # o
            BY <1>1, <1>9, <1>15, <2>4, <2>8, <3>2 DEF Inv, ReportStands
        <3>. QED  BY <3>1, <3>2
    <2>9. ReportStands'
        BY <2>2, <2>8 DEF ReportStands
    <2>. QED  BY <1>10, <1>11, <1>12, <1>14, <2>5, <2>6, <2>9 DEF Inv
<1>18. CASE stage \in {"releasing", "stopped"} /\ w # "release"
    <2>1. jobs'["release"] = jobs["release"] /\ report' = report
        BY <1>4, <1>5, <1>13, <1>18 DEF Inv, TypeOK
    <2>2. ByPerson(w)
        BY <1>1, <1>18 DEF Inv, TypeOK, SupervisorWaits, LoopsAreOver, ByPerson, Writers
    <2>3. o \in touched'
        BY <1>1, <1>18, <2>2 DEF Touch
    <2>4. ReleaseNotBegun' /\ ReleaseOver' /\ ReleaseCounts'
        BY <1>1, <1>9, <2>1 DEF Inv, ReleaseNotBegun, ReleaseOver, ReleaseCounts
    <2>5. ReportStands'
        <3>1. SUFFICES ASSUME NEW p \in Outputs, report'[p] # None
              PROVE  /\ p \notin unreleased'
                     /\ jobs'["release"] # None => jobs'["release"].device # p
                     /\ report'[p].bucket = "confirmed" /\ p \notin touched'
                        => /\ duty'[p] = report'[p].applied
                           /\ duty'[p] >= DutyFloor(Limits, Type[p])
            BY DEF ReportStands
        <3>2. p \notin touched' => p \notin touched /\ duty'[p] = duty[p]
            BY <1>9, <1>15, <2>3
        <3>. QED  BY <1>1, <2>1, <3>1, <3>2 DEF Inv, ReportStands
    <2>. QED  BY <1>10, <1>11, <1>12, <1>14, <2>4, <2>5 DEF Inv
<1>. QED  BY <1>16, <1>17, <1>18 DEF Inv, TypeOK

-----------------------------------------------------------------------------
(* The steps of the release.                                               *)
LEMMA ReleaseControlStep ==
    ASSUME Inv, ReleaseControl
    PROVE  Inv'
<1>1. /\ stage = "stopping" /\ stage' = "releasing"
      /\ poll.at = "idle" \/ poll.by = "person"
      /\ scan.at = "idle" \/ scan.by = "person"
      /\ unreleased' = ReleaseTargets
      /\ UNCHANGED <<temp, duty, plugged, known, enabled, disabled, automation, draft,
                     overruled, store, poll, scan, jobs, report, touched, events, faults>>
    BY DEF ReleaseControl, machine, table
<1>2. jobs["release"] = None /\ \A o \in Outputs : report[o] = None
    BY <1>1 DEF Inv, ReleaseNotBegun
<1>3. TypeOK'
    BY <1>1 DEF Inv, TypeOK, ReleaseTargets
<1>4. JobsKeepFloor' /\ SwitchIsKept' /\ CopyIsCurrent' /\ SupervisorWaits'
    BY <1>1 DEF Inv, JobsKeepFloor, SwitchIsKept, CopyIsCurrent, SupervisorWaits
<1>5. ReleaseNotBegun' /\ LoopsAreOver' /\ ReleaseOver'
    BY <1>1 DEF ReleaseNotBegun, LoopsAreOver, ReleaseOver
<1>6. ReleaseCounts'
    BY <1>1, <1>2 DEF ReleaseCounts, ReleaseTargets
<1>7. ReportStands'
    BY <1>1, <1>2 DEF ReportStands
<1>. QED  BY <1>3, <1>4, <1>5, <1>6, <1>7 DEF Inv

LEMMA ReleaseOutputStep ==
    ASSUME Inv, NEW o \in Outputs, ReleaseOutput(o)
    PROVE  Inv'
<1>. DEFINE job == Judged(o, FailSafeDuty(Limits, Type[o]), FALSE)
<1>1. /\ stage = "releasing" /\ o \in unreleased /\ jobs["release"] = None
      /\ unreleased' = unreleased \ {o}
      /\ UNCHANGED <<temp, duty, plugged, known, enabled, disabled, automation, draft,
                     overruled, store, poll, scan, stage, touched, events, faults>>
    BY DEF ReleaseOutput, machine, table
<1>2. "release" \in Writers /\ "supervisor" \in Writers /\ "release" # "supervisor"
    BY DEF Writers
<1>3. report[o] = None
    BY <1>1 DEF Inv, ReportStands
<1>4. SwitchIsKept' /\ CopyIsCurrent' /\ LoopsAreOver'
    BY <1>1 DEF Inv, SwitchIsKept, CopyIsCurrent, LoopsAreOver
<1>5. ReleaseNotBegun' /\ ReleaseOver'
    BY <1>1 DEF ReleaseNotBegun, ReleaseOver
<1>6. CASE jobs' = [jobs EXCEPT !["release"] = job] /\ UNCHANGED report
    <2>1. FailSafeDuty(Limits, Type[o]) \in Duty
        BY RuntimeAssumption, LimitTypes
    <2>2. /\ job \in Job /\ job.device = o /\ job.fallback = FALSE
          /\ job.value >= DutyFloor(Limits, Type[o])
        BY <2>1, JudgedIsSound DEF Inv
    <2>3. job # None
        BY <2>2, NoneIsNothing
    <2>. HIDE DEF job
    <2>4. jobs'["release"] = job /\ \A v \in Writers \ {"release"} : jobs'[v] = jobs[v]
        BY <1>2, <1>6 DEF Inv, TypeOK
    <2>5. jobs' \in [Writers -> Job \cup {None}]
        BY <1>6, <2>2 DEF Inv, TypeOK
    <2>6. TypeOK'
        BY <1>1, <1>6, <2>5 DEF Inv, TypeOK
    <2>7. JobsKeepFloor' /\ SupervisorWaits'
        BY <1>1, <1>2, <2>2, <2>4 DEF Inv, JobsKeepFloor, SupervisorWaits
    <2>8. ReleaseCounts'
        BY <1>1, <1>6, <2>2, <2>3, <2>4 DEF Inv, ReleaseCounts
    <2>9. ReportStands'
        BY <1>1, <1>3, <1>6, <2>2, <2>4 DEF Inv, ReportStands
    <2>. QED  BY <1>4, <1>5, <2>6, <2>7, <2>8, <2>9 DEF Inv
<1>7. CASE /\ report' = [report EXCEPT ![o] = [bucket |-> "failed", applied |-> None]]
           /\ UNCHANGED jobs
    <2>. DEFINE entry == [bucket |-> "failed", applied |-> None]
    <2>1. entry \in [bucket : Bucket, applied : Duty \cup {None}] /\ entry # None
          /\ entry.bucket = "failed"
        BY NoneIsNothing DEF Bucket
    <2>. HIDE DEF entry
    <2>2. report'[o] = entry /\ \A p \in Outputs \ {o} : report'[p] = report[p]
        BY <1>7, <2>1 DEF Inv, TypeOK, entry
    <2>3. TypeOK'
        <3>1. report' \in [Outputs -> [bucket : Bucket, applied : Duty \cup {None}] \cup {None}]
            BY <1>7, <2>1 DEF Inv, TypeOK, entry
        <3>2. jobs' \in [Writers -> Job \cup {None}] /\ unreleased' \subseteq Outputs
            BY <1>1, <1>7 DEF Inv, TypeOK
        <3>. QED  BY <1>1, <3>1, <3>2 DEF Inv, TypeOK
    <2>4. JobsKeepFloor' /\ SupervisorWaits'
        BY <1>1, <1>7 DEF Inv, JobsKeepFloor, SupervisorWaits
    <2>5. ReleaseCounts'
        BY <1>1, <1>7, <2>1, <2>2 DEF Inv, ReleaseCounts
    <2>6. ReportStands'
        BY <1>1, <1>7, <2>1, <2>2 DEF Inv, ReportStands
    <2>. QED  BY <1>4, <1>5, <2>3, <2>4, <2>5, <2>6 DEF Inv
<1>. QED  BY <1>6, <1>7 DEF ReleaseOutput

LEMMA ReleasedStep ==
    ASSUME Inv, Released
    PROVE  Inv'
<1>1. /\ stage = "releasing" /\ unreleased = {} /\ jobs["release"] = None
      /\ stage' = "stopped"
      /\ UNCHANGED <<temp, duty, plugged, known, enabled, disabled, automation, draft,
                     overruled, store, poll, scan, jobs, unreleased, report, touched,
                     events, faults>>
    BY DEF Released, machine, table
<1>2. TypeOK'
    BY <1>1 DEF Inv, TypeOK
<1>3. JobsKeepFloor' /\ SwitchIsKept' /\ CopyIsCurrent' /\ SupervisorWaits'
    BY <1>1 DEF Inv, JobsKeepFloor, SwitchIsKept, CopyIsCurrent, SupervisorWaits
<1>4. ReleaseNotBegun' /\ LoopsAreOver' /\ ReleaseOver' /\ ReleaseCounts'
    BY <1>1 DEF Inv, ReleaseNotBegun, LoopsAreOver, ReleaseOver, ReleaseCounts
<1>5. ReportStands'
    BY <1>1 DEF Inv, ReportStands
<1>. QED  BY <1>2, <1>3, <1>4, <1>5 DEF Inv

LEMMA InvStep ==
    ASSUME Inv, [Next]_vars
    PROVE  Inv'
<1>1. CASE \E w \in Callers : CallerWrites(w)  BY <1>1, CallerStep
<1>2. CASE \E w \in Writers : WriteEnds(w)     BY <1>2, WriteStep
<1>3. CASE PollLoop
    BY <1>3, PollReadsStep, ForceStep DEF PollLoop
<1>4. CASE ScanLoop \/ Rescan
    BY <1>4, ScanStep, RescanPollsStep DEF Rescan
<1>5. CASE Environment  BY <1>5, EnvironmentStep
<1>6. CASE Shutdown     BY <1>6, ShutdownStep
<1>7. CASE Release
    BY <1>7, ReleaseControlStep, ReleaseOutputStep, ReleasedStep DEF Release
<1>8. CASE UNCHANGED vars
    <2>1. UNCHANGED <<temp, duty, plugged, known, enabled, disabled, automation, draft,
                      overruled, store, poll, scan, jobs, stage, unreleased, report,
                      touched, events, faults>>
        BY <1>8 DEF vars, machine, table, exit
    <2>2. TypeOK'
        BY <2>1 DEF Inv, TypeOK
    <2>3. JobsKeepFloor' /\ SwitchIsKept' /\ CopyIsCurrent' /\ SupervisorWaits'
        BY <2>1 DEF Inv, JobsKeepFloor, SwitchIsKept, CopyIsCurrent, SupervisorWaits
    <2>4. LoopsAreOver'
        BY <2>1 DEF Inv, LoopsAreOver
    <2>5. ReleaseInv'
        BY <2>1, <2>4, ReleaseFrame
    <2>. QED  BY <2>2, <2>3, <2>5 DEF Inv, ReleaseInv
<1>. QED  BY <1>1, <1>2, <1>3, <1>4, <1>5, <1>6, <1>7, <1>8 DEF Next

LEMMA InvAlways ==
    Spec => []Inv
<1>1. Init => Inv
    BY InitInv
<1>2. Inv /\ [Next]_vars => Inv'
    BY InvStep
<1>. QED  BY <1>1, <1>2, PTL DEF Spec

-----------------------------------------------------------------------------
(* Whatever the loops, the callers, the switches and the hardware do, the  *)
(* runtime's table, store, loops, writes and report are well typed.        *)
THEOREM TypeCorrect ==
    Spec => []TypeOK
<1>1. Inv => TypeOK
    BY DEF Inv
<1>. QED  BY <1>1, InvAlways, PTL

(* No step moves an output below the floor of its type: every write was    *)
(* judged (write_with_origin), the one after a failure too, and nothing    *)
(* but a write moves an output.                                            *)
THEOREM OutputsKeepTheirFloor ==
    Spec => FloorHolds
<1>1. ASSUME Inv, [Next]_vars
      PROVE  [\A o \in Outputs : duty'[o] # duty[o]
                                  => duty'[o] >= DutyFloor(Limits, Type[o])]_vars
    <2>1. CASE \E w \in Writers : WriteEnds(w)
        <3>1. PICK w \in Writers : WriteEnds(w)
            BY <2>1
        <3>2. /\ jobs[w] # None
              /\ duty' \in {duty, [duty EXCEPT ![jobs[w].device] = jobs[w].value]}
            BY <1>1, <3>1, WriteEffect
        <3>3. jobs[w].value >= DutyFloor(Limits, Type[jobs[w].device])
            BY <1>1, <3>2, JobIsSound DEF Inv
        <3>4. duty \in [Outputs -> Duty]
            BY <1>1 DEF Inv, TypeOK
        <3>. QED  BY <3>2, <3>3, <3>4
    <2>2. CASE ~ \E w \in Writers : WriteEnds(w)
        <3>1. duty' = duty
            BY <1>1, <2>2
               DEF Next, CallerWrites, PollLoop, PollStart, PollRead, PollStore,
                   Supervise, ForceOutput, ForcingDone, ScanLoop, ScanStart, ScanBegins,
                   ScanAnswer, Reconcile, SeedStore, Rescan, RescanStart, RescanPolls,
                   Environment, SetDeviceEnabled, SetAutomation, ReadDraft, SaveDraft,
                   TemperatureMoves, Hotplug, Shutdown, Release, ReleaseControl,
                   ReleaseOutput, Released, machine, vars
        <3>. QED  BY <3>1
    <2>. QED  BY <2>1, <2>2
<1>2. Inv /\ [Next]_vars
      => [\A o \in Outputs : duty'[o] # duty[o]
                              => duty'[o] >= DutyFloor(Limits, Type[o])]_vars
    BY <1>1
<1>. QED  BY <1>2, InvAlways, PTL DEF Spec, FloorHolds

(* The user's switch and the table agree, through discovery cycles one     *)
(* after another, hot-plugs and drafts of the settings, but for the        *)
(* switches a draft turned (set_device_enabled, reconcile,                 *)
(* update_settings).                                                       *)
THEOREM SwitchesAreKept ==
    Spec => []SwitchIsKept
<1>1. Inv => SwitchIsKept
    BY DEF Inv
<1>. QED  BY <1>1, InvAlways, PTL

(* The account of a shutdown is complete, and what it calls confirmed is   *)
(* the duty the output has, whatever writes, rescans and switches of       *)
(* persons are under way when the release begins or come after it, but for *)
(* the outputs these reach (shutdown, release_control, ControlRelease).    *)
THEOREM ReportsAreTrue ==
    Spec => []ReportIsTrue
<1>1. Inv => ReportIsTrue
    BY DEF Inv, ReleaseOver, ReleaseCounts, ReportStands, ReportIsTrue
<1>. QED  BY <1>1, InvAlways, PTL
=============================================================================
