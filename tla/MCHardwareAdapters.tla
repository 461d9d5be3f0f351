--------------------------- MODULE MCHardwareAdapters ---------------------------
(* A Linux machine with two chips, one of which may be written, and a Windows  *)
(* machine with a board whose control k2 is numbered by its path only (it      *)
(* drives fan 3, while tachometer t2 measures fan 2), a pump on the board's    *)
(* first channel, and a card whose fan has no number in its names; and a       *)
(* simulated machine that is resized, locked and broken under its rules.  The  *)
(* machine that only reads has two zones of the processor and a calibration    *)
(* zone, a drive that is mounted twice, and a stick.                           *)
EXTENDS HardwareAdapters

CONSTANTS c1, c2, i1, i2, board, card, t1, t2, t3, k1, k2, k3,
          package, tctl, tcal, root, home, stick, disk

MCAll     == {"linux", "windows", "simulated", "readonly"}

MCChips    == {c1, c2}
MCIds      == {i1, i2}
MCIdOf     == [c \in MCChips |-> IF c = c1 THEN i1 ELSE i2]
MCAllowed  == {i1}
MCPercents == {120}

MCHardware == {board, card}
MCTachs    == {t1, t2, t3}
MCControls == {k1, k2, k3}
MCSensors  == MCTachs \cup MCControls
MCHwOf     == [s \in MCSensors |-> IF s \in {t3, k3} THEN card ELSE board]
MCKeyOf    == [h \in MCHardware |-> h]
MCNameNo   == [s \in MCSensors |-> CASE s \in {t1, k1} -> 1 [] s = t2 -> 2 [] OTHER -> None]
MCPathNo   == [s \in MCSensors |-> CASE s \in {t1, k1, t2} -> 9 [] s = k2 -> 2 [] OTHER -> 1]
MCFan      == [s \in MCSensors |->
                  CASE s \in {t1, k1} -> 1 [] s = t2 -> 2 [] s = k2 -> 3 [] OTHER -> 4]
MCPumps    == {t1}
MCUnsteady == {t1, t2}
MCDuties   == {40}
MCVendor   == {90}

Line(low, high) == <<[input |-> 30, output |-> low], [input |-> 80, output |-> high]>>
Draft(source, target, curve) ==
    [enabled |-> TRUE, sensors |-> {source}, aggregate |-> "max", when |-> Unset,
     target |-> target, curve |-> curve, hysteresis |-> 2, deadband |-> 2,
     min |-> Unset, max |-> Unset, onMissing |-> SafeDefault, onFailure |-> SafeDefault,
     grace |-> 0]
GpuHeat == Ref(Gpu, "temperature")
Busy == [source |-> Ref(Gpu, "load"), op |-> "gte", threshold |-> 20, otherwise |-> Fixed(30)]
MCMockDrafts ==
    {[Draft(GpuHeat, Ref(FanNo(1), "speed"), Line(20, 100)) EXCEPT !.when = Busy],
     Draft(GpuHeat, Ref(Gpu, "speed"), Line(0, 100)),
     Draft(Ref(Ssd, "temperature"), Ref(PumpNo(0), "speed"), Line(40, 100)),
     Draft(GpuHeat, Ref(Probe, "temperature"), Line(20, 100))}
MCRequests == {0, 100}
MCProfiles ==
    {[kind |-> "wave", low |-> 15, high |-> 85],
     [kind |-> "steps", steps |-> <<[length |-> 10, load |-> 8], [length |-> 15, load |-> 95]>>]}
MCAmbients == {25, 60}
MCFaults ==
    {[NoFaults EXCEPT !.writes = {Ref(FanNo(1), "speed"), Ref(PumpNo(0), "speed")}],
     [NoFaults EXCEPT !.unconfirmed = {Ref(FanNo(1), "speed")}],
     [NoFaults EXCEPT !.unplugged = {FanNo(1)}, !.silent = {GpuHeat}]}
MCSteps == {0, 60}

MCZones     == {package, tctl, tcal}
MCVolumes   == {root, home, stick}
MCCpuScore  == [z \in MCZones |-> CASE z = package -> 100 [] z = tctl -> 95 [] OTHER -> 0]
MCUseful    == {package}
MCDerived   == {tcal}
MCRemovable == {stick}
MCDriveOf   == [v \in MCVolumes |-> IF v = stick THEN stick ELSE disk]
MCFickle    == {package, home}
=============================================================================
