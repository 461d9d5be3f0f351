---------------------------- MODULE HardwareAdapters ----------------------------
(***************************************************************************)
(* The providers that can write a fan header, and the half of the system   *)
(* adapter that only reads.  Which of them a machine has is decided by its *)
(* platform and its settings: hwmon is compiled for Linux,                 *)
(* LibreHardwareMonitor runs on Windows, and a machine may have only       *)
(* simulated devices.  The read-only half is everywhere; it shares nothing *)
(* with the others and is looked at on a machine that has nothing else.    *)
(* The state of the rest stays as it was built.                            *)
(***************************************************************************)
EXTENDS HwmonAdapter, LhmAdapter, MockAdapter, SystemSensors, Functions

CONSTANT Platforms   \* the machines looked at

ASSUME PlatformAssumption == Platforms \subseteq {"linux", "windows", "simulated", "readonly"}

VARIABLE platform

adapterVars == <<platform, hwmon, lhm, mock, sensors>>

\* What the adapter of another platform holds: nothing was scanned or fetched.
NoHwmon ==
    /\ HwmonInit
    /\ enable = [c \in Chips |-> NoFile]
    /\ dir = CHOOSE d \in [Chips -> Dirs] : IsInjective(d)

NoLhm == LhmInit /\ ~up /\ web = CHOOSE t \in Trees : TRUE

NoSensors ==
    /\ SensorsInit /\ present = Zones \cup Volumes
    /\ lists = CHOOSE l \in [zones : Orders(Zones), volumes : Orders(Volumes), warm : {warm}] : TRUE

AdaptersInit ==
    /\ platform \in Platforms
    /\ MockInit
    /\ \/ platform = "linux" /\ HwmonInit /\ NoLhm /\ NoSensors
       \/ platform = "windows" /\ LhmInit /\ NoHwmon /\ NoSensors
       \/ platform = "simulated" /\ NoHwmon /\ NoLhm /\ NoSensors
       \/ platform = "readonly" /\ SensorsInit /\ NoHwmon /\ NoLhm

AdaptersNext ==
    \/ platform = "linux" /\ HwmonNext /\ UNCHANGED <<platform, lhm, mock, sensors>>
    \/ platform = "windows" /\ LhmNext /\ UNCHANGED <<platform, hwmon, mock, sensors>>
    \/ platform = "simulated" /\ MockNext /\ UNCHANGED <<platform, hwmon, lhm, sensors>>
    \/ platform = "readonly" /\ SensorsNext /\ UNCHANGED <<platform, hwmon, lhm, mock>>

AdaptersSpec == AdaptersInit /\ [][AdaptersNext]_adapterVars

-----------------------------------------------------------------------------
\* The state of each provider has its type; in particular the byte written to
\* pwm<N> is one, two devices of a mapping never share an id, and the simulated
\* machine has a slot for each of its outputs and no pump below its floor.
AdaptersTypeOK == platform \in Platforms /\ HwmonTypeOK /\ LhmTypeOK /\ MockTypeOK

\* What reaches a chip's files is a byte, and reaches a confirmed channel's only;
\* what reaches the simulated machine reaches the device it was meant for; and
\* what is shown for a zone or a drive was measured there.
\* (A provider of another platform is as it was built: see AdaptersInit.)
AccessIsSound ==
    /\ AdaptersTypeOK /\ OnlyConfirmedChannels
    /\ platform = "simulated" => SimulationIsSound
    /\ platform = "readonly" => SensorsAreSound

\* What a write answers is so: "applied" was held when it was asked, a refusal
\* has moved nothing, and a fan that may not be driven was not.
AnswersAreTrue == AppliedWasHeld /\ RefusalsMoveNothing
=============================================================================
