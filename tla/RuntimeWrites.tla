--------------------------- MODULE RuntimeWrites ----------------------------
(***************************************************************************)
(* The runtime's threads (runtime.rs) around its device table and reading  *)
(* store: the poll loop with the emergency supervisor behind it, the       *)
(* discovery loop, the callers of write_value, the user's switches and     *)
(* rescans, and the release of every output on shutdown.                   *)
(*                                                                         *)
(* Only the loops end with the runtime.  What a person asks for (a write,  *)
(* a switch, settings saved whole, a rescan) is served in every stage, and *)
(* nobody waits for it.                                                    *)
(*                                                                         *)
(* A step lies between two `await`s or between two locks.  A write is      *)
(* judged from the table, the store and the settings in one step and       *)
(* reaches the hardware in a later one, which is the section under the     *)
(* write gate: the gate makes it one step, and no more than that.  Every   *)
(* device has an adapter of its own.  A discovery cycle of the loop and a  *)
(* person's do not overlap, nor do two polls.  The slower cadence an       *)
(* adapter may ask for, events, audit and statistics are left out, and so  *)
(* is the dry run, which ends a write after it has been judged.  An online *)
(* or offline mark decides nothing here.                                   *)
(***************************************************************************)
EXTENDS SafetyPolicy, FiniteSets

CONSTANTS
    Devices,
    Type,         \* the type of each device
    Outputs,      \* the devices with a writable duty control
    Thermal,      \* the devices with a temperature
    Callers,      \* those who call write_value: rules, commands
    Limits,       \* settings.safety
    Temperatures, \* the temperatures the environment chooses from
    Requests,     \* the duties the callers ask for
    Scanning,     \* does the discovery loop run?
    FirmwareDuty, \* where an output stands before anything is written
    MaxEvents,    \* bound on the environment's and the user's steps
    MaxFaults     \* bound on failed reads and writes

Writers == Callers \cup {"supervisor", "release"}

ASSUME RuntimeAssumption ==
    /\ Type \in [Devices -> DeviceTypes]
    /\ Outputs \subseteq Devices /\ Thermal \subseteq Devices
    /\ "supervisor" \notin Callers /\ "release" \notin Callers
    /\ Limits \in Policies
    /\ Temperatures \subseteq Nat /\ Temperatures # {}
    /\ Requests \subseteq Duty /\ FirmwareDuty \in Duty
    /\ Scanning \in BOOLEAN
    /\ MaxEvents \in Nat /\ MaxFaults \in Nat

Reading == [heat : Nat \cup {None}, duty : Duty \cup {None}]
Job     == [device : Outputs, value : Duty, fallback : BOOLEAN]
Bucket  == {"confirmed", "unconfirmed", "rejected", "failed"}

ASSUME NoneIsNothing ==
    /\ None \notin Reading /\ None \notin Job
    /\ None \notin [bucket : Bucket, applied : Duty \cup {None}]
    /\ None \notin Devices

VARIABLES
    temp,       \* the real temperature of a thermal device
    duty,       \* the real duty of an output
    plugged,    \* the devices that are there
    known,      \* the device table
    enabled,    \* those of its records that are enabled
    disabled,   \* settings.disabled_devices
    automation, \* settings.automation_enabled
    draft,      \* the settings as a person's settings page once read them
    overruled,  \* history: switches that saved settings changed, and
                \* nobody has turned since
    store,      \* the last state of each device, or None
    poll,       \* a poll: whose, where it is, its targets, what it has read
    scan,       \* a discovery cycle: whose, where it is, what it has copied
    jobs,       \* the write each writer is at, or None
    stage,      \* running, stopping, releasing or stopped
    unreleased, \* the outputs the release has yet to write
    report,     \* what the release reports of an output, or None
    touched,    \* history: outputs that callers wrote to and persons
                \* switched on since the release began
    events,     \* steps of the environment so far
    faults      \* failures so far

machine == <<temp, duty, plugged>>
table   == <<known, enabled, disabled, automation, draft, overruled>>
exit    == <<stage, unreleased, report, touched>>
vars    == <<machine, table, store, poll, scan, jobs, exit, events, faults>>

Blank == [heat |-> None, duty |-> None]
Idle  == [at |-> "idle", by |-> "loop", todo |-> {}, device |-> None, got |-> None]
NoScan == [at |-> "idle", by |-> "loop", disabled |-> {}, found |-> {},
           added |-> {}, removed |-> {}]

(* Who begins a poll or a discovery cycle.                                 *)
Starters == {"loop", "person"}

TypeOK ==
    /\ temp \in [Thermal -> Temperatures]
    /\ duty \in [Outputs -> Duty]
    /\ plugged \subseteq Devices
    /\ known \subseteq Devices /\ enabled \subseteq known
    /\ disabled \subseteq Devices /\ automation \in BOOLEAN
    /\ draft \in [disabled : SUBSET Devices, automation : BOOLEAN]
    /\ overruled \subseteq Devices
    /\ store \in [Devices -> Reading \cup {None}]
    /\ poll \in [at : {"idle", "reading", "read", "forcing"}, by : Starters,
                 todo : SUBSET Devices, device : Devices \cup {None},
                 got : Reading \cup {None}]
    /\ poll.at = "read" => poll.device \in Devices
    /\ poll.at = "forcing" => poll.todo \subseteq Outputs
    /\ scan \in [at : {"idle", "probing", "found", "seeding", "done"}, by : Starters,
                 disabled : SUBSET Devices, found : SUBSET Devices,
                 added : SUBSET Devices, removed : SUBSET Devices]
    /\ jobs \in [Writers -> Job \cup {None}]
    /\ stage \in {"running", "stopping", "releasing", "stopped"}
    /\ unreleased \subseteq Outputs /\ touched \subseteq Outputs
    /\ report \in [Outputs -> [bucket : Bucket, applied : Duty \cup {None}] \cup {None}]
    /\ events \in 0 .. MaxEvents /\ faults \in 0 .. MaxFaults

(* start() has scanned and polled once before the loops begin.             *)
ReadingOf(d) == [heat |-> IF d \in Thermal THEN temp[d] ELSE None,
                 duty |-> IF d \in Outputs THEN duty[d] ELSE None]

Init ==
    /\ temp \in [Thermal -> Temperatures]
    /\ duty = [o \in Outputs |-> FirmwareDuty]
    /\ plugged = Devices /\ known = Devices /\ enabled = Devices
    /\ disabled = {} /\ automation = TRUE
    /\ draft = [disabled |-> {}, automation |-> TRUE] /\ overruled = {}
    /\ store = [d \in Devices |-> ReadingOf(d)]
    /\ poll = Idle /\ scan = NoScan
    /\ jobs = [w \in Writers |-> None]
    /\ stage = "running" /\ unreleased = {}
    /\ report = [o \in Outputs |-> None] /\ touched = {}
    /\ events = 0 /\ faults = 0

-----------------------------------------------------------------------------
(* hottest_temperature: every state in the store counts, as long as the    *)
(* table knows the unit of its capability from any device that has it.     *)
StoredHeat ==
    IF known \cap Thermal = {} THEN {}
    ELSE {store[d].heat : d \in {e \in Devices : store[e] # None}} \ {None}

Emergency == IsEmergency(Limits, StoredHeat)

CurrentDuty(o) == IF store[o] = None THEN None ELSE store[o].duty

(* write_with_origin up to the gate: refused, or judged.                   *)
Accepts(o) == o \in known /\ o \in enabled

Judged(o, requested, fallback) ==
    [device |-> o,
     value |-> CheckDuty(Limits, Type[o], requested, CurrentDuty(o), Emergency),
     fallback |-> fallback]

(* Once the release has begun, what a person does is recorded.             *)
Touch(outputs) ==
    touched' = IF stage \in {"releasing", "stopped"} THEN touched \cup outputs
                                                    ELSE touched

(* A caller of write_value: a rule, or a person, whose command nothing     *)
(* waits for and no stage refuses (write_with_origin does not ask whether  *)
(* the runtime is running).                                                *)
CallerWrites(w) ==
    /\ jobs[w] = None
    /\ \E o \in Outputs, requested \in Requests :
        /\ Accepts(o)
        /\ jobs' = [jobs EXCEPT ![w] = Judged(o, requested, TRUE)]
    /\ UNCHANGED <<machine, table, store, poll, scan, exit, events, faults>>

(* The release keeps what is known of each of its writes.                  *)
Reported(w, bucket, applied) ==
    report' = IF w = "release"
              THEN [report EXCEPT ![jobs[w].device] =
                        [bucket |-> bucket, applied |-> applied]]
              ELSE report

Confirmed(w) ==
    /\ jobs[w].device \in plugged
    /\ duty' = [duty EXCEPT ![jobs[w].device] = jobs[w].value]
    /\ Reported(w, "confirmed", jobs[w].value)
    /\ jobs' = [jobs EXCEPT ![w] = None]
    /\ UNCHANGED faults

(* Written but not read back: the hardware may have moved or not.          *)
Unconfirmed(w) ==
    /\ jobs[w].device \in plugged
    /\ faults < MaxFaults /\ faults' = faults + 1
    /\ duty' \in {duty, [duty EXCEPT ![jobs[w].device] = jobs[w].value]}
    /\ Reported(w, "unconfirmed", None)
    /\ jobs' = [jobs EXCEPT ![w] = None]

(* The adapter answers that the device refused: not an error, no fallback. *)
Rejected(w) ==
    /\ jobs[w].device \in plugged
    /\ faults < MaxFaults /\ faults' = faults + 1
    /\ Reported(w, "rejected", None)
    /\ jobs' = [jobs EXCEPT ![w] = None]
    /\ UNCHANGED duty

(* An error.  The write of a caller is followed by one of the fail-safe    *)
(* duty, which is judged again and has no fallback of its own.             *)
AfterFailure(job) ==
    IF job.fallback /\ Accepts(job.device)
    THEN Judged(job.device, FailSafeDuty(Limits, Type[job.device]), FALSE)
    ELSE None

Failed(w) ==
    /\ \/ /\ jobs[w].device \notin plugged
          /\ UNCHANGED <<duty, faults>>
       \/ /\ faults < MaxFaults /\ faults' = faults + 1
          /\ duty' \in {duty, [duty EXCEPT ![jobs[w].device] = jobs[w].value]}
    /\ Reported(w, "failed", None)
    /\ jobs' = [jobs EXCEPT ![w] = AfterFailure(jobs[w])]

(* A caller's write, or that of the supervisor after a person's poll.      *)
ByPerson(w) == w \in Callers \/ (w = "supervisor" /\ poll.by = "person")

WriteEnds(w) ==
    /\ jobs[w] # None
    /\ Confirmed(w) \/ Unconfirmed(w) \/ Rejected(w) \/ Failed(w)
    /\ Touch(IF ByPerson(w) THEN {jobs[w].device} ELSE {})
    /\ UNCHANGED <<temp, plugged, table, store, poll, scan, stage, unreleased, events>>

-----------------------------------------------------------------------------
(* A poll.  Its targets are copied when it begins; a state is read under   *)
(* no lock and stored later, whatever the table has become.                *)
PollBegins(starter) ==
    /\ poll.at = "idle"
    /\ poll' = [poll EXCEPT !.at = "reading", !.by = starter, !.todo = enabled]

PollStart ==
    /\ stage = "running"
    /\ PollBegins("loop")
    /\ UNCHANGED <<machine, table, store, scan, jobs, exit, events, faults>>

(* A read fails if the device has gone, may fail otherwise, and may come   *)
(* back without the reading of a sensor.                                   *)
PollRead(d) ==
    /\ poll.at = "reading" /\ d \in poll.todo
    /\ \/ /\ d \in plugged
          /\ poll' = [poll EXCEPT !.at = "read", !.todo = @ \ {d},
                                  !.device = d, !.got = ReadingOf(d)]
          /\ UNCHANGED faults
       \/ /\ d \in plugged
          /\ faults < MaxFaults /\ faults' = faults + 1
          /\ \E got \in {None, [ReadingOf(d) EXCEPT !.heat = None]} :
                poll' = [poll EXCEPT !.at = "read", !.todo = @ \ {d},
                                     !.device = d, !.got = got]
       \/ /\ d \notin plugged
          /\ poll' = [poll EXCEPT !.at = "read", !.todo = @ \ {d},
                                  !.device = d, !.got = None]
          /\ UNCHANGED faults
    /\ UNCHANGED <<machine, table, store, scan, jobs, exit, events>>

PollStore ==
    /\ poll.at = "read"
    /\ store' = IF poll.got = None THEN store
                ELSE [store EXCEPT ![poll.device] = poll.got]
    /\ poll' = [poll EXCEPT !.at = "reading", !.device = None, !.got = None]
    /\ UNCHANGED <<machine, table, scan, jobs, exit, events, faults>>

(* supervise_safety: the fans and pumps, and nothing while automation is   *)
(* switched off.                                                           *)
CoolingOutputs == {o \in Outputs \cap enabled : Type[o] \in {"fan", "pump"}}

Supervise ==
    /\ poll.at = "reading" /\ poll.todo = {}
    /\ poll' = IF automation /\ Emergency
               THEN [poll EXCEPT !.at = "forcing", !.todo = CoolingOutputs]
               ELSE Idle
    /\ UNCHANGED <<machine, table, store, scan, jobs, exit, events, faults>>

CoolEnough(o) ==
    CurrentDuty(o) # None /\ CurrentDuty(o) >= Limits.emergency_duty

ForceOutput(o) ==
    /\ poll.at = "forcing" /\ o \in poll.todo
    /\ jobs["supervisor"] = None
    /\ jobs' = [jobs EXCEPT !["supervisor"] =
                    IF CoolEnough(o) \/ ~ Accepts(o) THEN None
                    ELSE Judged(o, Limits.emergency_duty, FALSE)]
    /\ poll' = [poll EXCEPT !.todo = @ \ {o}]
    /\ UNCHANGED <<machine, table, store, scan, exit, events, faults>>

ForcingDone ==
    /\ poll.at = "forcing" /\ poll.todo = {}
    /\ jobs["supervisor"] = None
    /\ poll' = Idle
    /\ UNCHANGED <<machine, table, store, scan, jobs, exit, events, faults>>

PollLoop ==
    \/ PollStart \/ PollStore \/ Supervise \/ ForcingDone
    \/ \E d \in Devices : PollRead(d)
    \/ \E o \in Outputs : ForceOutput(o)

-----------------------------------------------------------------------------
(* A discovery cycle: a copy of the settings, the answer of the adapters,  *)
(* the table under its lock, and the store after the lock was given up.    *)
ScanBegins(starter) ==
    /\ scan.at = "idle"
    /\ scan' = [scan EXCEPT !.at = "probing", !.by = starter, !.disabled = disabled]
    /\ UNCHANGED <<machine, table, store, poll, jobs, exit, faults>>

ScanStart ==
    /\ Scanning /\ stage = "running"
    /\ ScanBegins("loop")
    /\ UNCHANGED events

ScanAnswer ==
    /\ scan.at = "probing"
    /\ scan' = [scan EXCEPT !.at = "found", !.found = plugged]
    /\ UNCHANGED <<machine, table, store, poll, jobs, exit, events, faults>>

(* upsert: a new record takes its switch from the copy of the settings, an *)
(* old one keeps the switch it has.                                        *)
EnabledAsCopied(now, added) == now \ scan.disabled    \* a slip: all do

EnabledAfter(now, added) ==
    (enabled \cap now) \cup (added \ scan.disabled)

(* A device that was not found is removed if its adapter answered, and     *)
(* stays in the table if the adapter was unusable.                         *)
Reconcile ==
    /\ scan.at = "found"
    /\ \E kept \in SUBSET (known \ scan.found) :
        LET added == scan.found \ known
        IN  /\ known' = scan.found \cup kept
            /\ enabled' = EnabledAfter(known', added)
            /\ Touch(Outputs \cap (enabled' \ enabled))
            /\ scan' = [scan EXCEPT !.at = "seeding", !.added = added,
                                    !.removed = known \ known']
    /\ UNCHANGED <<machine, disabled, automation, draft, overruled, store, poll,
                   jobs, stage, unreleased, report, events, faults>>

SeedStore ==
    /\ scan.at = "seeding"
    /\ store' = [d \in Devices |-> IF d \in scan.removed THEN None
                                   ELSE IF d \in scan.added THEN Blank
                                   ELSE store[d]]
    /\ scan' = IF scan.by = "loop" THEN NoScan
               ELSE [NoScan EXCEPT !.at = "done", !.by = "person"]
    /\ UNCHANGED <<machine, table, poll, jobs, exit, events, faults>>

ScanLoop == ScanStart \/ ScanAnswer \/ Reconcile \/ SeedStore

(* A person's rescan is a discovery cycle and then a poll, with the        *)
(* supervisor behind it.                                                   *)
RescanStart ==
    /\ events < MaxEvents /\ events' = events + 1
    /\ ScanBegins("person")

RescanPolls ==
    /\ scan.at = "done" /\ scan' = NoScan
    /\ PollBegins("person")
    /\ UNCHANGED <<machine, table, store, jobs, exit, events, faults>>

Rescan == RescanStart \/ RescanPolls

-----------------------------------------------------------------------------
(* The user's switches, and the machine.  set_device_enabled takes the     *)
(* table and then the settings; the two are one step here.                 *)
SetDeviceEnabled(d) ==
    /\ d \in known
    /\ \/ /\ enabled' = enabled \cup {d} /\ disabled' = disabled \ {d}
          /\ Touch(Outputs \cap {d})
       \/ /\ enabled' = enabled \ {d} /\ disabled' = disabled \cup {d}
          /\ UNCHANGED touched
    /\ overruled' = overruled \ {d}
    /\ UNCHANGED <<machine, known, automation, draft>>

SetAutomation ==
    /\ automation' = ~ automation
    /\ UNCHANGED <<machine, known, enabled, disabled, draft, overruled, touched>>

(* The settings page reads the settings, and later saves all of them, over *)
(* whatever they have become.  The table's switches stay as they are.      *)
ReadDraft ==
    /\ draft' = [disabled |-> disabled, automation |-> automation]
    /\ UNCHANGED <<machine, known, enabled, disabled, automation, overruled, touched>>

SaveDraft ==
    /\ disabled' = draft.disabled /\ automation' = draft.automation
    /\ overruled' = overruled \cup {d \in Devices : (d \in disabled) # (d \in disabled')}
    /\ UNCHANGED <<machine, known, enabled, draft, touched>>

TemperatureMoves ==
    /\ \E d \in Thermal, t \in Temperatures : temp' = [temp EXCEPT ![d] = t]
    /\ UNCHANGED <<duty, plugged, table, touched>>

Hotplug ==
    /\ \E d \in Devices : plugged' \in {plugged \cup {d}, plugged \ {d}}
    /\ UNCHANGED <<temp, duty, table, touched>>

Environment ==
    /\ events < MaxEvents /\ events' = events + 1
    /\ \/ \E d \in Devices : SetDeviceEnabled(d)
       \/ SetAutomation \/ ReadDraft \/ SaveDraft
       \/ TemperatureMoves
       \/ Hotplug
    /\ UNCHANGED <<store, poll, scan, jobs, stage, unreleased, report, faults>>

-----------------------------------------------------------------------------
(* shutdown: no loop begins another cycle, those under way are waited for, *)
(* then every enabled output is written once.                              *)
Shutdown ==
    /\ stage = "running"
    /\ stage' = "stopping"
    /\ UNCHANGED <<machine, table, store, poll, scan, jobs, unreleased, report,
                   touched, events, faults>>

(* releasable_devices: whatever has a writable duty control.               *)
ReleaseTargets == IF Limits.relinquish THEN Outputs \cap enabled ELSE {}

(* A slip: the poll under way is not waited for.                           *)
ReleaseControlAtOnce ==
    /\ stage = "stopping"
    /\ stage' = "releasing" /\ unreleased' = ReleaseTargets
    /\ UNCHANGED <<machine, table, store, poll, scan, jobs, report, touched,
                   events, faults>>

(* The loops' own tasks are joined; what a person began is not.            *)
ReleaseControl ==
    /\ stage = "stopping"
    /\ poll.at = "idle" \/ poll.by = "person"
    /\ scan.at = "idle" \/ scan.by = "person"
    /\ stage' = "releasing" /\ unreleased' = ReleaseTargets
    /\ UNCHANGED <<machine, table, store, poll, scan, jobs, report, touched,
                   events, faults>>

(* An output that has gone or was switched off meanwhile is reported as    *)
(* failed.                                                                 *)
ReleaseOutput(o) ==
    /\ stage = "releasing" /\ o \in unreleased
    /\ jobs["release"] = None
    /\ unreleased' = unreleased \ {o}
    /\ \/ /\ Accepts(o)
          /\ jobs' = [jobs EXCEPT !["release"] =
                          Judged(o, FailSafeDuty(Limits, Type[o]), FALSE)]
          /\ UNCHANGED report
       \/ /\ ~ Accepts(o)
          /\ report' = [report EXCEPT ![o] = [bucket |-> "failed", applied |-> None]]
          /\ UNCHANGED jobs
    /\ UNCHANGED <<machine, table, store, poll, scan, stage, touched, events, faults>>

Released ==
    /\ stage = "releasing" /\ unreleased = {}
    /\ jobs["release"] = None
    /\ stage' = "stopped"
    /\ UNCHANGED <<machine, table, store, poll, scan, jobs, unreleased, report,
                   touched, events, faults>>

Release == ReleaseControl \/ Released \/ \E o \in Outputs : ReleaseOutput(o)

Next ==
    \/ \E w \in Callers : CallerWrites(w)
    \/ \E w \in Writers : WriteEnds(w)
    \/ PollLoop \/ ScanLoop \/ Rescan \/ Environment \/ Shutdown \/ Release

(* The loops are timers that come round, and an adapter answers.  Nobody   *)
(* has to call write_value or to quit; a rescan that was begun goes on.    *)
Fairness ==
    /\ WF_vars(PollLoop) /\ WF_vars(ScanLoop) /\ WF_vars(RescanPolls)
    /\ WF_vars(Release)
    /\ \A w \in Writers : WF_vars(WriteEnds(w))

Spec == Init /\ [][Next]_vars /\ Fairness

-----------------------------------------------------------------------------
(* Whoever writes (a rule, a person, the fallback after a failure, the     *)
(* supervisor, the release), from whatever reading the ramp starts and     *)
(* however old that reading is, no output is ever moved below the floor of *)
(* its type.                                                               *)
FloorHolds ==
    [][\A o \in Outputs : duty'[o] # duty[o]
                          => duty'[o] >= DutyFloor(Limits, Type[o])]_vars

(* What a person has switched off stays off, and what was switched on      *)
(* stays on, although a discovery cycle carries a copy of the settings     *)
(* from before its adapters answered into the table, and although the      *)
(* settings page saves other switches over it: of these, only the ones     *)
(* that the save turned may part from the table.                           *)
SwitchIsKept ==
    \A d \in known \ overruled : d \in enabled <=> d \notin disabled

(* Once the runtime has stopped, its report names every enabled output,    *)
(* and what it says was confirmed is the duty the output has and keeps:    *)
(* no write of the loops lands after it.  Excepted is what a caller's      *)
(* write or a person's switch or rescan did to the output after the        *)
(* release had begun, which nothing in the code holds back.                *)
ReportIsTrue ==
    \A o \in Outputs \ touched :
        /\ stage = "stopped" /\ Limits.relinquish /\ o \in enabled
              => report[o] # None
        /\ report[o] # None /\ report[o].bucket = "confirmed"
              => /\ duty[o] = report[o].applied
                 /\ duty[o] >= DutyFloor(Limits, Type[o])

(* If a device that is polled stays too hot, every enabled fan and pump    *)
(* ends at the emergency duty and stays there, whatever the rules go on    *)
(* asking for, and although writes judged before the heat was seen may     *)
(* still land after the supervisor's.                                      *)
TooHot ==
    /\ stage = "running" /\ automation
    /\ \E d \in Thermal \cap enabled \cap plugged :
          IsEmergency(Limits, {temp[d]})

Driven(o) == o \in enabled \cap plugged /\ Type[o] \in {"fan", "pump"}

HeatIsAnswered ==
    \A o \in Outputs :
        <>[](TooHot /\ Driven(o)) => <>[](duty[o] >= Limits.emergency_duty)
=============================================================================
