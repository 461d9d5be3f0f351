-------------------------- MODULE ServiceOwnership --------------------------
(***************************************************************************)
(* One writer at a time: the state file a background service claims        *)
(* (service.rs), the life of the processes that look at it (`service run`  *)
(* in the CLI, and the desktop, which only asks before it starts its rule  *)
(* loop), and the hand-off of a fan channel a dead owner left in manual    *)
(* mode (the system adapter over hwmon).                                   *)
(*                                                                         *)
(* A step is one file operation, or one stretch of a process's work        *)
(* between two of them.  The clock counts heartbeat intervals.  What a     *)
(* service reports about its rules is left out; of the channels it took    *)
(* over there is one, since the `taken` list treats each alike.            *)
(***************************************************************************)
EXTENDS Naturals

CONSTANTS
    Services,    \* processes running `service run`; each starts once
    Desktops,    \* processes running the desktop application; likewise
    None,
    Absent,      \* the state file does not exist
    Tolerance,   \* HEARTBEAT_TOLERANCE
    Originals,   \* what pwm<N>_enable may hold that is not "manual"
    PidCheck,    \* can this platform tell whether a pid exists? (Linux)
    Racing,      \* may two processes' file operations interleave?
    Faults       \* which faults the environment performs

Processes == Services \cup Desktops

Modes == Originals \cup {"manual"}
Memo == Originals \cup {None}

\* What the state file may say.
Contents == [by : Services, whole : BOOLEAN, age : 0 .. Tolerance + 1, taken : Memo]

ASSUME OwnershipAssumption ==
    /\ Services \cap Desktops = {}
    /\ Absent \notin Contents
    /\ None \notin Originals \cup Processes /\ "manual" \notin Originals
    /\ Tolerance \in Nat \ {0}
    /\ PidCheck \in BOOLEAN /\ Racing \in BOOLEAN
    /\ Faults \subseteq {"crash", "freeze", "disk"}

VARIABLES
    file,      \* the state file: Absent, or whose it is and what it says
    pc,        \* where each process is
    due,       \* it owes a heartbeat for the current interval
    driving,   \* its rule loop runs
    mode,      \* pwm<N>_enable of the channel
    taken,     \* what the process remembers the channel's mode was
    adopt,     \* what its predecessor's record says that was
    notice,    \* the `taken` list it is about to publish
    stalled,   \* it slept, or had not begun to beat, since it last looked at
               \* the file (history)
    firmware,  \* the mode the channel had before any of them ran (history)
    faulted    \* a process crashed or gave up on an error (history)

history == <<firmware, faulted>>
vars == <<file, pc, due, driving, mode, taken, adopt, notice, stalled, history>>

-----------------------------------------------------------------------------
(* The state file *)

Record(p, was) == [by |-> p, whole |-> TRUE, age |-> 0, taken |-> was]
EmptyFile(p)   == [by |-> p, whole |-> FALSE, age |-> 0, taken |-> None]

\* read_state: a file that does not parse reads as none.
Readable == file # Absent /\ file.whole

Exists(p) == pc[p] \notin {"off", "gone"}

\* Mutant of Fresh: the window is one interval short.
FreshTooBriefly == file.age < Tolerance /\ (PidCheck => Exists(file.by))

\* is_fresh, and pid_plausible.
Fresh == file.age <= Tolerance /\ (PidCheck => Exists(file.by))

\* verify_ownership
Owns(p) == Readable /\ file.by = p

\* channels_owned_elsewhere, through service::running.
OwnedElsewhere(p) == Readable /\ Fresh /\ file.by # p

-----------------------------------------------------------------------------
(* The processes *)

\* In the middle of a sequence of operations on the file.
MidFile == {"read", "probe", "remove", "create", "fill", "publish", "unlink"}

At(p, where) ==
    /\ pc[p] = where
    /\ Racing \/ \A q \in Processes \ {p} : pc[q] \notin MidFile

Go(p, where) == pc' = [pc EXCEPT ![p] = where]

\* ServiceGuard::acquire reads the file first.
Start(p) ==
    /\ p \in Services /\ At(p, "off")
    /\ Go(p, "read")
    /\ UNCHANGED <<file, due, driving, mode, taken, adopt, notice, stalled, history>>

\* AlreadyRunning (exit code 3), an abandoned record, or nothing readable.
ReadRecord(p) ==
    /\ At(p, "read")
    /\ IF ~Readable THEN Go(p, "probe") /\ UNCHANGED adopt
       ELSE IF Fresh THEN Go(p, "gone") /\ UNCHANGED adopt
       ELSE Go(p, "remove") /\ adopt' = [adopt EXCEPT ![p] = file.taken]
    /\ UNCHANGED <<file, due, driving, mode, taken, notice, stalled, history>>

\* path.exists(), asked after the read.
ProbePath(p) ==
    /\ At(p, "probe")
    /\ Go(p, IF file = Absent THEN "create" ELSE "remove")
    /\ UNCHANGED <<file, due, driving, mode, taken, adopt, notice, stalled, history>>

RemoveAbandoned(p) ==
    /\ At(p, "remove")
    /\ file' = Absent /\ Go(p, "create")
    /\ UNCHANGED <<due, driving, mode, taken, adopt, notice, stalled, history>>

\* open with create_new: exactly one of two gets the file.
CreateNew(p) ==
    /\ At(p, "create")
    /\ IF file = Absent THEN file' = EmptyFile(p) /\ Go(p, "fill")
                        ELSE Go(p, "gone") /\ UNCHANGED file
    /\ stalled' = [stalled EXCEPT ![p] = FALSE]
    /\ UNCHANGED <<due, driving, mode, taken, adopt, notice, history>>

\* write_all, to the file that was opened, whatever the path names by now.
FillRecord(p) ==
    /\ At(p, "fill")
    /\ file' = IF file # Absent /\ file.by = p
               THEN [file EXCEPT !.whole = TRUE] ELSE file
    /\ Go(p, "claimed")
    /\ UNCHANGED <<due, driving, mode, taken, adopt, notice, stalled, history>>

\* The disk is full: the path is removed and the service does not start.
FillFails(p) ==
    /\ "disk" \in Faults /\ At(p, "fill")
    /\ file' = Absent /\ Go(p, "gone")
    /\ faulted' = TRUE
    /\ UNCHANGED <<due, driving, mode, taken, adopt, notice, stalled, firmware>>

\* adopt_taken_controls: the recorded mode becomes this process's original and
\* is written back straight away, unless the channel is not in the tree.
Adopt(p) ==
    /\ At(p, "claimed")
    /\ Go(p, "adopted")
    /\ IF adopt[p] = None THEN UNCHANGED <<mode, taken, adopt>>
       ELSE /\ taken' = [taken EXCEPT ![p] = adopt[p]]
            /\ adopt' = [adopt EXCEPT ![p] = None]
            /\ mode' = adopt[p] \/ UNCHANGED mode
    /\ UNCHANGED <<file, due, driving, notice, stalled, history>>

\* AutomationEngine::start: the loop is not started next to a live owner.
StartEngine(p) ==
    /\ \/ At(p, "adopted") /\ Go(p, "up")
       \/ p \in Desktops /\ At(p, "off") /\ Go(p, "open")
    /\ driving' = [driving EXCEPT ![p] = ~OwnedElsewhere(p)]
    /\ UNCHANGED <<file, due, mode, taken, adopt, notice, stalled, history>>

\* Mutant of WriteChannel: the mode found is taken for the original, whatever
\* it is.
WriteChannelRecordsAny(p) ==
    /\ driving[p]
    /\ mode' = "manual" /\ taken' = [taken EXCEPT ![p] = mode]
    /\ UNCHANGED <<file, pc, due, driving, adopt, notice, stalled, history>>

\* One rule writes the channel (SystemAdapter::write): take_control first, and
\* a duty that is refused gives the channel back at once.
WriteChannel(p) ==
    LET was == IF mode = "manual" THEN taken[p] ELSE mode IN
    /\ driving[p]
    /\ \/ mode' = "manual" /\ taken' = [taken EXCEPT ![p] = was]
       \/ mode' = (IF was = None THEN mode ELSE was)
          /\ taken' = [taken EXCEPT ![p] = None]
    /\ UNCHANGED <<file, pc, due, driving, adopt, notice, stalled, history>>

\* heartbeat, when its interval is over or the `taken` list has changed: that
\* list is noted, then the file is checked, ...
MustBeat(p) == due[p] \/ taken[p] # notice[p]

\* Mutant of CheckOwnership: a process that lost the file exits at once.
CheckOwnershipExits(p) ==
    /\ At(p, "up") \/ (At(p, "running") /\ MustBeat(p))
    /\ notice' = [notice EXCEPT ![p] = taken[p]]
    /\ stalled' = [stalled EXCEPT ![p] = FALSE]
    /\ IF Owns(p) THEN Go(p, "publish") /\ UNCHANGED <<driving, taken>>
       ELSE /\ Go(p, "drop")
            /\ driving' = [driving EXCEPT ![p] = FALSE]
            /\ taken' = [taken EXCEPT ![p] = None]
    /\ UNCHANGED <<file, due, mode, adopt, history>>

\* Mutant of CheckOwnership: it only ever publishes, the loop is not stopped.
CheckOwnershipDrivesOn(p) ==
    /\ At(p, "up") \/ (At(p, "running") /\ MustBeat(p))
    /\ notice' = [notice EXCEPT ![p] = taken[p]]
    /\ stalled' = [stalled EXCEPT ![p] = FALSE]
    /\ Go(p, IF Owns(p) THEN "publish" ELSE "leaving")
    /\ UNCHANGED <<file, due, driving, mode, taken, adopt, history>>

CheckOwnership(p) ==
    /\ At(p, "up") \/ (At(p, "running") /\ MustBeat(p))
    /\ notice' = [notice EXCEPT ![p] = taken[p]]
    /\ stalled' = [stalled EXCEPT ![p] = FALSE]
    /\ IF Owns(p) THEN Go(p, "publish") /\ UNCHANGED driving
       ELSE Go(p, "leaving") /\ driving' = [driving EXCEPT ![p] = FALSE]
    /\ UNCHANGED <<file, due, mode, taken, adopt, history>>

\* ... and then replaced by a rename.
Publish(p) ==
    /\ At(p, "publish")
    /\ file' = Record(p, notice[p])
    /\ due' = [due EXCEPT ![p] = FALSE]
    /\ Go(p, "running")
    /\ UNCHANGED <<driving, mode, taken, adopt, notice, stalled, history>>

\* The write fails: service_run returns without stopping the session.
PublishFails(p) ==
    /\ "disk" \in Faults /\ At(p, "publish")
    /\ Go(p, "drop")
    /\ driving' = [driving EXCEPT ![p] = FALSE]
    /\ taken' = [taken EXCEPT ![p] = None]
    /\ faulted' = TRUE
    /\ UNCHANGED <<file, due, mode, adopt, notice, stalled, firmware>>

\* Ctrl-C, SIGTERM, or the window closing: AutomationEngine::stop.
StopRequested(p) ==
    /\ At(p, "running") \/ At(p, "open")
    /\ Go(p, "leaving")
    /\ driving' = [driving EXCEPT ![p] = FALSE]
    /\ UNCHANGED <<file, due, mode, taken, adopt, notice, stalled, history>>

\* Mutant of Release: every channel is left to the automatic mode, whichever
\* of the driver's modes it came from.
ReleaseToAutomatic(p) ==
    /\ At(p, "leaving")
    /\ mode' = IF mode = "manual" /\ taken[p] # None THEN "automatic" ELSE mode
    /\ taken' = [taken EXCEPT ![p] = None]
    /\ Go(p, IF p \in Services THEN "drop" ELSE "gone")
    /\ UNCHANGED <<file, due, driving, adopt, notice, stalled, history>>

\* Runtime::shutdown: the fail-safe duty (which may take the channel once
\* more), then the adapter puts the mode back.
Release(p) ==
    /\ At(p, "leaving")
    /\ mode' = IF mode = "manual" /\ taken[p] # None THEN taken[p] ELSE mode
    /\ taken' = [taken EXCEPT ![p] = None]
    /\ Go(p, IF p \in Services THEN "drop" ELSE "gone")
    /\ UNCHANGED <<file, due, driving, adopt, notice, stalled, history>>

\* Mutant of DropGuard: the file is removed whoever it belongs to.
DropGuardBlindly(p) ==
    /\ At(p, "drop")
    /\ Go(p, "unlink")
    /\ UNCHANGED <<file, due, driving, mode, taken, adopt, notice, stalled, history>>

\* Drop for ServiceGuard: only this process's own record is removed.
DropGuard(p) ==
    /\ At(p, "drop")
    /\ Go(p, IF Owns(p) THEN "unlink" ELSE "gone")
    /\ UNCHANGED <<file, due, driving, mode, taken, adopt, notice, stalled, history>>

Unlink(p) ==
    /\ At(p, "unlink")
    /\ file' = Absent /\ Go(p, "gone")
    /\ UNCHANGED <<due, driving, mode, taken, adopt, notice, stalled, history>>

-----------------------------------------------------------------------------
(* The environment *)

\* SIGKILL, or the power of this process's session.
Crash(p) ==
    /\ "crash" \in Faults /\ Exists(p)
    /\ Go(p, "gone")
    /\ driving' = [driving EXCEPT ![p] = FALSE]
    /\ taken' = [taken EXCEPT ![p] = None]
    /\ faulted' = TRUE
    /\ UNCHANGED <<file, due, mode, adopt, notice, stalled, firmware>>

\* One heartbeat interval.  A process that is suspended, stopped or starved
\* takes no step while the clock does: unless "freeze" is among the faults,
\* every service that runs has beaten before the next interval.
Runs(p) == pc[p] \in {"running", "publish"}
Unbeaten(p) == (due[p] /\ Runs(p)) \/ pc[p] \in {"fill", "claimed", "adopted", "up"}

Clock ==
    /\ "freeze" \in Faults \/ \A p \in Services : ~(due[p] /\ Runs(p))
    /\ due' = [p \in Processes |-> Runs(p)]
    /\ stalled' = [p \in Processes |-> stalled[p] \/ Unbeaten(p)]
    /\ file' = IF file = Absent \/ file.age > Tolerance THEN file
               ELSE [file EXCEPT !.age = @ + 1]
    /\ UNCHANGED <<pc, driving, mode, taken, adopt, notice, history>>

-----------------------------------------------------------------------------
(* Specification *)

Init ==
    /\ file = Absent
    /\ pc = [p \in Processes |-> "off"]
    /\ stalled = [p \in Processes |-> FALSE]
    /\ due = [p \in Processes |-> FALSE]
    /\ driving = [p \in Processes |-> FALSE]
    /\ taken = [p \in Processes |-> None]
    /\ adopt = [p \in Processes |-> None]
    /\ notice = [p \in Processes |-> None]
    /\ firmware \in Originals /\ mode = firmware
    /\ faulted = FALSE

Acquire(p) == \/ ReadRecord(p) \/ ProbePath(p) \/ RemoveAbandoned(p)
              \/ CreateNew(p) \/ FillRecord(p) \/ FillFails(p)
Beat(p)    == CheckOwnership(p) \/ Publish(p) \/ PublishFails(p)
Leave(p)   == Release(p) \/ DropGuard(p) \/ Unlink(p)
Work(p)    == Acquire(p) \/ Adopt(p) \/ StartEngine(p) \/ Beat(p) \/ Leave(p)

Next ==
    \/ \E p \in Processes : \/ Start(p) \/ Work(p) \/ WriteChannel(p)
                            \/ StopRequested(p) \/ Crash(p)
    \/ Clock

Spec == Init /\ [][Next]_vars

-----------------------------------------------------------------------------
(* Properties *)

Places == {"off", "claimed", "adopted", "up", "running", "open", "leaving",
           "drop", "gone"} \cup MidFile
\* Every variable has its type: whatever is done to the state file, what it
\* says is one service's claim, and no desktop's.
TypeOK ==
    /\ file \in {Absent} \cup Contents
    /\ pc \in [Processes -> Places]
    /\ mode \in Modes /\ firmware \in Originals
    /\ taken \in [Processes -> Memo] /\ adopt \in [Processes -> Memo]
    /\ notice \in [Processes -> Memo]
    /\ stalled \in [Processes -> BOOLEAN]
    /\ due \in [Processes -> BOOLEAN] /\ driving \in [Processes -> BOOLEAN]
    /\ faulted \in BOOLEAN

\* Has the file, as far as it knows.
Holds(p) == pc[p] \in {"claimed", "adopted", "up", "running", "publish"}

\* Two processes never both hold the file, save for the time one that was not
\* running needs to look at it again.
OneClaim ==
    \A p, q \in Services :
        Holds(p) /\ Holds(q) /\ ~stalled[p] /\ ~stalled[q] => p = q

\* Whatever chain of takeovers a channel goes through, every record of its
\* original mode is the mode it had before any of these programs ran: manual
\* mode is never mistaken for it.
RecordIsTrue ==
    /\ \A p \in Processes : {taken[p], adopt[p], notice[p]} \subseteq {firmware, None}
    /\ file # Absent => file.taken \in {firmware, None}

\* When every process has ended without a crash or an error, however they
\* froze, raced and took over from each other, the channel is back under its
\* driver and no state file is left.
HandedBack ==
    (\A p \in Processes : ~Exists(p)) /\ ~faulted
    => mode = firmware /\ file = Absent

\* A record whose owner lives and beats is replaced or removed by nobody else.
LiveRecordKept ==
    [][\A p \in Services :
          Owns(p) /\ Fresh /\ Exists(p) /\ ~Owns(p)' => pc[p] = "unlink"]_vars

\* A process that lost the file while it was not running stops driving.
LoserStandsDown ==
    \A p \in Services :
        (driving[p] /\ ~Owns(p)) ~> (~driving[p] \/ Owns(p))

\* Every process is scheduled, and time passes.
Fairness == WF_vars(Clock) /\ \A p \in Services : SF_vars(Work(p))
FairSpec == Spec /\ Fairness
=============================================================================
