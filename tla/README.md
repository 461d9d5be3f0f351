# OpenHardwareOS: a TLA+ model of its control path

OpenHardwareOS drives fans from rules. The expensive mistakes of such a program are a channel
that stays at the value a forgotten rule asked for, two writers that alternate values on one
fan, a fan left in manual mode by a process that died, a rule that steers by a sensor that has
gone, and a duty that reaches another channel than the one it was meant for. This directory
models the parts of the program that are there to prevent them, from the curve to the bytes on
the wire, checks them with TLC on small instances, and proves the invariants the core rests on
with TLAPS.

## 1. The system

### 1.1 Components, their state and how they interact

| component | state it keeps | operations | talks to |
|---|---|---|---|
| `ohm-automation::engine` | the active rules, one `RuleState` per rule (what it holds, unconfirmed writes, cached inputs), `dirty`, `persistence_error`, the tick counter | `tick`, `save_rule`, `set_rule_enabled`, `delete_rule`, `load_rules`, `retry_failed_handover(s)`, `start`, `stop`, recovery | the book, the store, the record, `Runtime::write_value` |
| `ohm-automation::handover` | the open handovers and a bounded history | `queue`, `mark_awaiting`, `park_unmet_claim`, `release_claim`, `restore`, `verified`, `fail_recovered`, `record_attempt`, `confirm`, `supersede`, `retry_failed(_one)` | called by the engine under a lock, one call at a time |
| `ohm-automation::recovery` | `control-state.json` | `save` (temporary file, rename), `load`, `clear` | engine |
| `ohm-automation::evaluator`, `rule`, `curve` | none of their own (the `RuleState` is passed in) | `validate`, `evaluate`: gate, hysteresis, curve, dead band, grace period, fallback | engine |
| `ohm-automation::store`, `examples` | rule files | save, delete, load | engine, CLI |
| `ohm-runtime::runtime` | device table, reading store, settings, write gate, emergency flag | `write_value`, poll, discovery, `supervise_safety`, `shutdown` | adapters, bus, audit |
| `ohm-runtime::safety`, `release` | none | `check_duty`, `emergency_override`, the account of a shutdown | runtime |
| `ohm-runtime::device_table`, `discovery`, `registry`, `store` | devices, their status, the state of each adapter, last readings | probe, stand by, scan, reconcile, mark, resolve a reference | adapters, runtime, `check_rule` |
| `ohm-runtime::service` | the service state file and its guard | `acquire`, `heartbeat`, `verify_ownership`, drop | CLI service, desktop, engine start |
| `ohm-runtime::bus`, `audit`, `config`, `snapshot` | events, log files, settings file | publish, record, load, save | everything |
| `adapters/system` (hwmon) | the channels switched to manual, with their original mode | `write` (take control first), `adopt_taken_controls`, `shutdown` (restore) | sysfs |
| `adapters/libre-hardware-monitor` | the channels it took, the last mapping | map the sensor tree, write with read-back, release | another program, over HTTP |
| `adapters/nvidia` | the loaded library | probe, scan, read, write; nothing to hand back | NVML |
| `adapters/mock` | a simulated machine: devices, loads, temperatures, faults | configure, step, read, write, override | none |
| `adapters/open-protocol` | a serial link | the calls of the protocol | `ohm-protocol` |
| `ohm-protocol` | decoder buffers, frames waiting; the device's duty, fallback timer, firmware | framing, transport, the reference device | open-protocol adapter |
| `apps/cli` | one `Session` | `service run`, `service status`, `watch`, `handovers`, `rules`, `demo` | all crates |
| `apps/desktop` | one engine and runtime, the boot task, `settings.json`, the startup entry | launch, boot, commands, quit, close | all crates |
| `ohm-core`, `ohm-device-model`, `ohm-adapter-api` | none | data types and traits | all crates |

A desktop application or a service process holds one runtime and one engine. The runtime's poll
and discovery loops, the engine's tick loop and the user's commands run on different threads.
The tick holds no lock while it waits for the hardware. Between processes there are only files:
the rule files, `control-state.json`, and the service state file that says who drives.

### 1.2 What is hard, and the property that answers it

* The tick works on copies (of the open handovers, of the rules, of the state of the rule it
  runs) and awaits the hardware between reading and storing them. Users edit meanwhile.
  *Every channel a rule moved is driven by that rule or owed the fail-safe duty*
  (`Accountable`); *one channel is one job* (`OneJobPerChannel`).
* A channel may be claimed by a rule that never drives it, may never answer, or may lose its
  claim again. *The fail-safe is not written under a claimant* (`NoFightWithClaimant`); *writes
  are bounded and spaced* (`BoundedWrites`, `RetryCadence`); *spent means parked until the user
  says so* (`SpentStaysParked`); *a decision comes* (`HandoversDecided`).
* The process may die between any two steps. *What would be lost is on disk, or the user was
  told it is not* (`RecordCoversOwed`); *it stays owed until it is settled* (`OwedUntilSettled`,
  `UnverifiedWriteKept`).
* Processes sleep, die and take over from each other by means of one file. *Two never both hold
  it, but for the time one needs to notice that it slept* (`OneClaim`); *the loser stops*
  (`LoserStandsDown`); *nobody else's live record is removed* (`LiveRecordKept`).
* A fan taken from its driver must be given back with the mode it had before the *first* of a
  chain of owners (`RecordIsTrue`, `HandedBack`, `SwitchedIsRecorded`).
* Writes of several threads are judged early and land late: a rule's write that was judged
  before the heat was seen lands after the supervisor's. *No output goes below its floor*
  (`FloorHolds`); *lasting heat ends in the emergency duty, for good* (`HeatIsAnswered`).
* A discovery cycle carries a copy of the settings over an await, while devices come and go, the
  user switches them, and the settings page saves all settings as it read them some time ago.
  *A switch is kept, in the table and in the settings, but for those a saved draft turns*
  (`SwitchIsKept`).
* The exit path must tell the user what became of every output, while a person's commands, which
  no shutdown waits for, go on. *The account is complete, and what it calls confirmed is the duty
  the output has and keeps, where no person has interfered* (`ReportIsTrue`).
* Sensors fall silent, come back and repeat themselves while hysteresis, dead band and grace
  period each remember something else. *A rule steers only by values it has really seen, now or
  less than a grace period ago* (`NeverSteersBlind`); *nothing keeps the output below the curve*
  (`CoolingFollowsCurve`); *a gate that reopens starts afresh* (`ReopensAfresh`).
* A serial line cuts, drops and damages bytes, and answers come late. *Frames arrive whole, once
  and in order, or not at all* (`FramesArriveInOrder`); *a write is credited as often as it was
  applied* (`CreditIsEarned`); *firmware is installed whole* (`InstalledWhole`); *a host that
  falls silent is replaced by the fallback duty* (`SilentHostIsCovered`).
* Numbers under which hardware is found change while ids are kept. *A duty or a mode reaches the
  channel its id named, and what is shown for a sensor was measured there* (`AccessIsSound`,
  `MappingIsSound`, `ModesAreReturned`), *and the answer says what happened to it*
  (`AnswersAreTrue`).
* Two providers describe one card; discovery cycles overlap. *The card is reported as long as one
  of them works* (`CardIsReported`), *and is not left driven at the exit* (`NothingStaysDriven`).
* The application is asked to leave while it starts, ticks or saves, a person writes, and an
  adapter refuses. *It leaves, and no fan keeps the duty it gave it* (`QuitEnds`,
  `ExitHandsBack`); *its settings survive and promise no start with the
  system that will not happen* (`SettingsAreSafe`, `StartIsTrue`).
* Not answered here: a shutdown of the runtime that goes on without a loop that does not end
  (`runtime.rs:338`), the process that dies while a confirmed write is on its way, and the other
  hazards that carry a note and no property.

`PROJECT.json` lists these at their lines under `hazards`, with what a property leaves out.

## 2. The modules

| module | models | extends |
|---|---|---|
| `HandoverBook` | `handover.rs`: the operations on one channel's items, as operators | |
| `ControlEngine` | `engine.rs`, `recovery.rs`: tick, edits, record, crash and restart | `HandoverBook` |
| `MCControlEngine` | rules and channels for TLC | `ControlEngine` |
| `ControlEngine_proofs` | theorems about `ControlEngine` | `ControlEngine` |
| `ServiceOwnership` | `service.rs`, `service run`, the hwmon hand-off, the desktop's question | |
| `MCServiceOwnership` | processes for TLC | `ServiceOwnership` |
| `ServiceOwnership_proofs` | theorems about `ServiceOwnership` | `ServiceOwnership` |
| `SafetyPolicy` | `safety.rs`: the limits, `sanitise`, `check_duty` | |
| `RuntimeWrites` | `runtime.rs` with `device_table.rs`, `store.rs`, `release.rs`: write path, poll loop, supervisor, discovery, switches, release | `SafetyPolicy` |
| `MCRuntimeWrites` | a GPU, a pump and a rule for TLC | `RuntimeWrites` |
| `RuntimeWrites_proofs` | theorems about the gate and about `RuntimeWrites` | `RuntimeWrites` |
| `RuleShape` | `rule.rs`, `curve.rs`, the sanitising of `store.rs`: curve, aggregation, gate, policies, `validate` | |
| `RuleEvaluation` | `evaluator.rs` and what `engine.rs` keeps of a rule's memory | `RuleShape` |
| `MCRuleEvaluation` | seven rules for TLC | `RuleEvaluation` |
| `RuleEvaluation_proofs` | what sums, averages, maxima and curves compute; theorems about `RuleEvaluation` | `RuleEvaluation` |
| `RuleBinding` | `capability.rs`, `registry.rs`, `check_rule` | `RuleShape` |
| `Framing` | `framing.rs`: frames, CRC-8, decoder | |
| `FrameChannel` | what framing promises, abstractly | |
| `OpenFan` | `mock.rs` of `ohm-protocol`, the reference device | `Framing` |
| `DeviceLink` | `transport.rs`, the open-protocol adapter, the wire | `OpenFan`, instances of `FrameChannel` |
| `MCDeviceLink` | requests, answers and an image for TLC | `DeviceLink` |
| `DeviceLink_proofs` | theorems about the decoder and about `DeviceLink` | `DeviceLink` |
| `HwmonAdapter` | the Linux half of `adapters/system` | |
| `LhmAdapter` | `adapters/libre-hardware-monitor` | |
| `Suggestions` | `examples.rs`: the rules suggested for a device table, the first rule | `RuleBinding` |
| `MockAdapter` | `adapters/mock` | `Suggestions` |
| `SystemSensors` | the half of `adapters/system` that only reads: zones, drives, processor | |
| `HardwareAdapters` | the adapter set of a platform (`crates/adapters`) | the three adapters and `SystemSensors` |
| `MCHardwareAdapters` | four machines for TLC | `HardwareAdapters` |
| `HardwareAdapters_proofs` | theorems about `HardwareAdapters` | `HardwareAdapters`, `RuleEvaluation_proofs` (for the lemmas on curves) |
| `Providers` | `discovery.rs`, `device_table.rs`, the poll and switches of `runtime.rs`, `adapters/nvidia` | |
| `MCProviders` | one card with two providers for TLC | `Providers` |
| `Providers_proofs` | theorems about `Providers` | `Providers` |
| `DesktopApp` | the desktop process: `lib.rs`, `tray.rs`, `commands.rs`, `autostart.rs`, `config.rs` | |
| `MCDesktopApp` | `DesktopApp` for TLC | `DesktopApp` |
| `DesktopApp_proofs` | theorems about `DesktopApp` | `DesktopApp` |

Composition is by extension where components share state (`ControlEngine` with its book,
`MockAdapter` with the binding and the suggestion of rules, `HardwareAdapters` with its
providers), and by a
common interface otherwise: `RuntimeWrites` uses `SafetyPolicy` as `write_value` uses
`check_duty`; what `ControlEngine` leaves to choice (does the rule write? was it confirmed?) is
what `RuleEvaluation` and `RuntimeWrites` compute; `DesktopApp` has a boolean for an engine and
one for a runtime. The one instance of an abstract specification is `FrameChannel`, which
`DeviceLink` implements twice, once for requests and once for answers.

### 2.1 HandoverBook and ControlEngine

*State.* `rules` and `files` are the active set and the rule files; a rule is enabled or not and
has one target channel. `memory[r]` is the part of `RuleState` that decides responsibility:
`control` with or without a confirmed value (`hold`) and `consecutive_unconfirmed`. `book[c]` is
the queue of open items of a channel; every operation of the code works on the *first* item of
its channel, so one vector and a queue per channel are the same thing. `phase`, `todo`, `plan`
and `job` say where a tick is, the copies it works on, and the write it waits for. `record`,
`dirty` and `persistError` are `control-state.json` and what the engine knows about it.
`mover`, `tries` and `rest` are history: which rule last moved a channel, how often the
fail-safe write was tried since the environment last interfered, and how long ago. No action
reads history.

*Steps.* A step is what the tick does between two awaits, or one pass of one of its loops:
`BeginTick` (verify what was recovered, copy the open items), then for each copied item
`Supersede`, `AwaitOwner`, `LeaveParked` or `AttemptHandover` with `FinishHandover`, then
`BeginRules` and for each rule `SkipRule` or `WriteRule` with `RuleApplied` or
`RuleNotConfirmed` (and `FinishPolicy` when the failure policy writes once more), then
`EndTick`. What a rule computes is a choice: it writes or it does not. The outcomes of
`write_value` are a choice too, save that a dry run is always reported as simulated.

*User operations* are one step each, since each takes the locks it needs and never waits for the
tick; the order of the steps inside one matters for what it writes to disk (`apply_rule_change`
flushes *before* it forgets the hold, `delete_rule` after) and is kept. The process may also die
between the two files an edit writes (`CrashInEdit`). The constant
`Overlapping` says whether they may run while a tick is under way.

*Numbers.* The rules are numbered in order of precedence. `next_attempt_tick` is kept relative
to the tick counter. `RetryTicks`, `MaxAttempts`, `OwnerWaitTicks` and `MaxUnconfirmed` are the
code's constants (5, 5, 50, 3). `MaxEdits` and `MaxCrashes` bound the environment.

*Abstracted.* Texts and time stamps; the history of resolved handovers; the evaluation's
`release`, which `Rule::validate` and the sanitising of loaded files make unreachable; a damaged
record; conflict notes. `Crash` and `Stop` end the process and `Restart` starts one over the
same files. `Stop` is taken between ticks (the code waits two seconds for the tick and then goes
on), and the shutdown's own fail-safe writes are left out: they only move channels to the value
that is owed anyway.

### 2.2 ServiceOwnership

*State.* `file` is the state file: who wrote it, whether the JSON is there yet, how many
heartbeat intervals old it is, and the `taken` list, reduced to one channel. `pc`, `driving`,
`taken`, `adopt`, `notice` and `due` belong to a process; `mode` is the channel's
`pwm_enable`. `stalled`, `firmware`, `gap` and `faulted` are history.

*Steps.* Each file operation of `acquire`, `heartbeat` and `Drop` is a step: read, look at the
path, remove, create, fill; check, rename; check, unlink. Between them lie `Adopt`,
`StartEngine`, `WriteChannel` and `Release`. `Clock` is one heartbeat interval. Time may pass
anywhere: that is a suspended, stopped or starved process, and without `"freeze"` among the
faults every service that runs beats in time.

*`Racing`* says whether the sequences of file operations of two processes may interleave. The
run and two of the theorems exclude it, since with it the claim is not exclusive (§5, 6): the
rest is then shown under the assumption that such a sequence, milliseconds long, is not cut by
another one.

*`PidCheck`* is Linux's `/proc` test. It is off in the run, which is the weaker protection; the
theorems hold for both.

*Abstracted.* One channel, since each is treated alike; each process runs once; what a service
reports about its rules; `WakeupDetector`, which only words the report.

### 2.3 SafetyPolicy and RuntimeWrites

*The gate.* `SafetyPolicy` has `check_duty` as an operator: an emergency comes first and knows no
ramp, then the floor of the device's type, then the ramp limit from the last reading. Percents
and degrees are whole numbers. `Policies` is what `sanitise` leaves; that it does is a theorem,
so `RuntimeWrites` may assume it of its `Limits`.

*State.* `temp`, `duty` and `plugged` are the machine. `known` and `enabled` are the device table,
`disabled` and `automation` the settings a step reads while they change, `store` the last state
of each device with its temperature and duty. `poll` and `scan` say where the two loops are and
what they carry over an await; `jobs[w]` is the write a caller, the supervisor or the release is
at; `unreleased` and `report` belong to the exit path; `draft` is what the settings page shows.
`overruled` and `touched` are history: the devices whose switch a saved draft turned, and the
outputs a person wrote or switched on once the release had begun.

*Steps.* A write is judged in one step (`CallerWrites`, `ForceOutput`, `ReleaseOutput`), from the
table, the store and the settings as they are then, and reaches the hardware in another
(`WriteEnds`): confirmed, unconfirmed, refused, or with an error, after which the fail-safe duty
is judged and written once more if the write was a caller's. The write gate makes the second
step atomic and nothing else. The poll reads a state (`PollRead`) and stores it later
(`PollStore`), whatever the table has become; then comes `Supervise`. Discovery copies the
settings, waits for the adapters, changes the table under its lock and the store after it
(`ScanStart`, `ScanAnswer`, `Reconcile`, `SeedStore`). A person's rescan is such a cycle and a
poll with its supervisor (`RescanStart`, `RescanPolls`). `SetDeviceEnabled` turns one switch in the
table and in the settings; `SaveDraft` replaces the settings by a draft, and leaves the table as it
is. `Shutdown` stops the loops' new cycles; the release begins when those of the loops have ended.
What a person asks for is refused in no stage and awaited by nobody, as in `write_with_origin`,
which does not look at `running`: callers, rescans and switches go on during the release and after
it.

*Abstracted.* Every device has an adapter of its own, and one duty control at most (several
devices of one adapter, and adapters that share hardware, are in `Providers`). The dry run,
events, audit and statistics, slower poll cadences and online marks are left out, and so is what
adapters hand back after the release. The limits do not change during a behaviour. The loops'
tasks end within the two seconds they are given, and one discovery cycle and one poll are under way
at a time, a loop's or a person's (cycles that overlap are in `Providers`). `set_device_enabled` takes two locks, one after the other, in what is one
step here.

### 2.4 RuleShape and RuleEvaluation

*The algorithms* are operators of `RuleShape`: `CurveAt` by segments as `curve.rs` has it,
`Reduced` readings, the gate's comparison, `ValidRule` for `validate`. `RulesOf` and `Savable` are
the two ways into the engine: a file (with `release` substituted) and a save. `Parsed` is what
serde gives before any of it is validated: a list of points, finitely many sensors.

*State.* `memory` is the part of `RuleState` an evaluation reads: the output applied, the
anchor of the hysteresis, the cached input and gate value with their ages, the unconfirmed
count. `job` is the write that waits for an answer, with the copy of the memory that will
replace it. `channel` is what the hardware has. `steered`, `blind` and `doubt` are history.

*Steps.* The environment changes each sensor between two evaluations (a value, the same value
again, or nothing); `Evaluate` is one whole `evaluate`, in the order of the code: disabled, gate,
source, curve, limits, hysteresis, dead band, and each of their fallbacks. The answer to its
write is a step of its own. An edit replaces the rule and drops from the memory what
`apply_rule_change` drops; with `Overlapping` it may come between the two.

*Numbers.* Temperatures and duties are whole numbers (the range of the target is a constant, and
a sensor that can read two values can read all between them), ages are in ticks and stop at
`MaxAge`, past every grace period. Of the runtime's write path this module has what changes a
duty: `Accepted` (a value out of the target's range is refused before anything is sent, which
can happen to a failure policy, that `evaluate` does not clamp) and `Granted` (the floor). The
ramp limit is off, its default.

### 2.5 RuleBinding and Suggestions

A device table maps a device to its capabilities, a reference is a device and a name.
`check_rule` is translated with its order of refusals; `MockAdapter` binds its rules with it, and
keeps them over reconfigurations as the engine keeps a rule whose device was there once.
`Suggestions` builds the rules that `suggest_for` offers for a table, from the index of its
temperatures and outputs in the order of their ids; `MockExample` is `ensure_example`, which saves
the shipped rule, or else the first suggestion, for an application without rules.

### 2.6 Framing, OpenFan, DeviceLink and FrameChannel

Bytes are bytes here: `Framing` has the real magic, the real length field and the real CRC-8, and
`Decoded` is the loop of `Decoder::push` that drops what is not a frame. `Decoded` and the checksum
are recursive functions, and exclusive or is arithmetic (`Xor`), so that they can be proved about.
A JSON document is one
byte (`RequestCode`, `AnswerCode`); two codes are magic bytes, so that payloads look like
headers. `OpenFan` is the reference device as a record and one operator, `Answered`, with a case
per request, `get_state` to `update_firmware`, in boot loader mode and out of it. Of an upload it
has what the device keeps (the bytes, the total and the checksum it was told, the offset), and,
as history, the chunks they came in (`chunks`, and `built` for what runs). A host may send chunks
of several images in any order (`Images`, `IsChunk`): one that announces another total resets the
checksum and leaves the bytes and the offset standing (`mock.rs:425`), so an upload can be joined
from two images, which the property speaks of and section 5 reports.

`DeviceLink` puts a host at the other end of two byte streams. The host makes one call at a time,
since the adapter has a mutex; `Ask` sends the bytes of a request; the wire delivers them in
pieces, loses the rest, inserts noise or spoils a byte; the device answers each frame it
decodes; the host takes the first frame that arrives for its answer, or gives up. `Tick` is the
device's clock; the host may leave for good. `requestsSent`, `requestsGot`, `answersSent`,
`answersTaken`, `credited` and `applied` are history, and the first four are what the refinement
maps to `sent` and `got` of `FrameChannel`.

### 2.7 HwmonAdapter, LhmAdapter, MockAdapter, SystemSensors

`HwmonAdapter` has chips with directory numbers. A chip may be pulled at any moment (`Pull`), while
the process runs or not, and comes back under any free number (`Plug`): a reboot, or a hot-plug
between two scans. A scan (`Rescan`, and one in `Start`) maps directory numbers to ids, made of the
chip's name (`IdOf`, which need not be injective: chips of one model share it). Every later access
looks an id up in that scan, takes the first directory that has it (`Channel`), and reaches whatever
chip has that number now (`At`), or none (`Leads`, `Miss`). A write takes control of a channel,
remembering its mode, and writes a byte; it does not read it back. `Start` adopts what a predecessor
published and puts it back where the channel is in the tree, and only remembers it otherwise;
`Shutdown` puts modes back, and a channel that is gone is a failure it reports. `Mishaps` bounds the
file accesses that fail and the chips that are pulled. `trace` is history: which mode each chip is
owed, which chips were written, and which were used by id between their move and the next scan
(`strayed`). What the properties say of such a chip, or of one that shares its id, would not hold
in the code (section 5, 20 and 21), so they except these chips and no others.

`LhmAdapter` has a sensor tree whose nodes drop out and come back; a fetch
pairs tachometers with controls by the numbers in their names or paths, as `mapping.rs` does, and
a write goes to what the last mapping says. `MockAdapter` is the simulated machine with its
thermal step, profiles, faults and overrides, and rules that are bound to it.

`SystemSensors` has `lists`, the zones and volumes as the operating system listed them at the last
refresh, and `places`, the devices described from them: which zones are worth a device, which
volumes are the same drive, and the place in the list each id is made of. A poll looks that place
up in the list of its own refresh; `looked` says which zone or volume was measured for a device.
`intact` is history: nothing that was listed has gone since the discovery.

`HardwareAdapters` is one state space of four machines; a behaviour stays on the one it began on.
The read-only half runs beside the others in the code and shares nothing with them, so it has a
machine of its own here.

### 2.8 Providers

*State.* `there` and `shown` are the machine: adapters that answer a probe, devices that a scan
would show. `off` is the user's switches, `statuses` and `table` what the runtime knows,
`cycle[r]` what each runner of a discovery carries over an await, `poll` what the poll loop does.
*Steps* are a cycle's probe of each adapter in order, the decision who stands by, the scan of
each, the reconciliation under the table's lock; the poll's read and store; switches, writes,
and hot-plug. The exit is the release (`Shutdown` collects the outputs of the table and waits for no
task that is under way; `Release` writes them one by one, each of which the driver may refuse, or
which may have lost its record by then, and is then reported), and the hand-back of the adapters
that have one, of which each may fail. Cycles, polls, switches and writes go on beside it.
`missed` and `excused` are history: the fans that the last scan of their adapter that answered left
out, and those that are also switched off, or written by a person, when it is too late. NVML's calls whose failure the code
swallows (`device_count`, `num_fans`) are `Slips`: an answer that looks like less hardware.

### 2.9 DesktopApp

One process with a boot task, an engine loop, a person who writes (a command, or the supervisor
after a rescan), two ways to ask it to leave and two commands that save settings, each at its own
place in the sequence the code gives it; one fan stands for the channels. `stop()` waits for the
engine's write, nobody for the person's, which may land at any moment until the process ends.
`Release` may be refused and `HandBack` may fail. `update_settings` replaces all settings by a draft read earlier, `set_device_enabled`
one switch; both save after they gave up the lock, over one temporary file: begin, fill, rename.
The startup entry follows the settings and corrects them. `Crash` ends the process anywhere.
`excuse` is history: what happened that a property excepts by name.

## 3. The runs

| run | constants | shows |
|---|---|---|
| `engine_edits` | 2 rules, 1 channel, 5 user operations between ticks (save, delete, automation on/off); retry 3, attempts 3, owner wait 2, unconfirmed 2 | types, `Accountable`, `RecordCoversOwed`, `NoFightWithClaimant`, `SpentStaysParked` |
| `engine_overlap` | 2 rules, 1 channel, 4 user operations *anywhere in a tick* (save, delete, deletes that fail, retry, dry run, reload); retry 2, attempts 2, owner wait 1, unconfirmed 1 | `OneRulePerOutput`, `HandoversPaced` (bounded, spaced, one job per channel), and the liveness `HandoversDecided` |
| `engine_restart` | 1 rule, 2 channels, 2 user operations (save, delete, reload), saves of the record that fail, a crash or shutdown anywhere, also between the two files of an edit | `OwedUntilSettled` |
| `engine_in_flight` (violation) | 1 rule, edits during its write | a forgotten channel |
| `service_takeover` | 2 services, 1 desktop, a channel that starts in either of two modes of the firmware (automatic, curve), tolerance 1, crash, freeze, full disk | the claim, the records, the hand-off |
| `runtime_loops` | a pump below its floor, one rule that asks for 0 %, temperatures 40 and 95, ramp limit 50, discovery; 3 events (heat, hot-plug, switches, drafts, rescans), 1 failure; writes of the caller in every stage | floor, heat, account, switches |
| `rule_evaluation` | 7 rules (plain, off, two sensors without grace, gated, a `release` file, limits outside the range, limits that exclude each other), 3 temperatures, duties 0 .. 7, 1 edit | types and ranges, `NeverSteersBlind`, `CoolingFollowsCurve`, `ReopensAfresh` |
| `device_link` | 3 calls, 1 trouble on the wire, payloads of at most 2 bytes, 2 images of different length of which a chunk each can be joined under one checksum | the refinement of `FrameChannel`, credit, firmware, fallback |
| `hardware_adapters` | 2 chips of which 1 may be written, 3 mishaps (file failures and pulled chips); a board and a card with 3 tachometers and 3 controls numbered by name and by path; a machine of 2 fans and a pump, 4 rules, 2 moves; 3 zones of which 1 is shown and 3 volumes of which 2 are one drive | reach, mapping, modes, answers, readings, suggestions |
| `providers` | 1 card, 2 providers, 2 runners of cycles, 2 events, 1 failure (also of a release or a hand-back) | the table, `NothingStaysDriven`, and the liveness `CardIsReported` |
| `desktop` | 2 launches, 2 events (changes, a person's writes, what fails), a window that ends the process | the exit, the settings on disk, the startup entry, and the liveness `QuitEnds` |
| `desktop_dry_run` (violation) | `--dry-run`, 1 event | the override is saved |

*Why these bounds are enough to be interesting.* Two rules and one channel are the least with
which a claim, a takeover and a conflict exist, two channels add retargets; five edits fit a rule
that drives, leaves, is claimed by another, loses that claim and is edited again while its
handover is parked. Attempts, waits and cooldown are small but larger than one and, in
`engine_edits`, larger than the unconfirmed limit, so that "one too many" and "one too early"
are visible. A channel's queue depends on no other channel. A takeover needs two services. A
tolerance of one interval leaves a stale, a fresh and a last acceptable age. In `runtime_loops`
the pump starts below its floor, and the ramp limit is smaller than the way to the emergency
duty. In `rule_evaluation` the temperatures lie on the slope of the curve and at its last
control point (and, for the curve written backwards, at its first), so that hysteresis and dead
band of 2 both hold back and let go; grace periods are none or the whole of `MaxAge`. In `device_link` one spoiled, lost or added byte is what
desynchronises a decoder, and three calls let a late answer meet the next call and the one after it. In
`hardware_adapters` one control is numbered by its path only and one tachometer is a pump's, the
cases of the pairing; the requests lie outside the range on both sides; a zone and a volume that
come and go stand before and after ones that stay; two chips are the least that can exchange their
numbers, and three mishaps pull both and fail one access (chips that share a name are in the proofs,
which take any `IdOf`; the run's have one each). In `engine_overlap` four operations are the
least with which a handover parked by a claim is re-armed and resumes. In `providers` two cycles
are what overlaps. In `desktop` two savers share one temporary file and a second launch reads
what the first left.

*Checked by which change.* Every property of a passing run is shown to depend on the code: a
mutated definition (an item renewed by an edit, an owner wait that is not counted, a record
without unconfirmed holds, a freshness window one interval short, ...) breaks it under the same
configuration. The mutants stand before the definitions they replace.

*Deadlock* is checked in `engine_overlap` and `engine_restart`. In `engine_edits` an engine
whose automation is off and whose waits have run down has nothing left to do; in the service
run each process runs once and the last one ends; the other systems stop for good: a runtime
that was shut down, a link whose host left, a rule whose last edit and age have been counted, a
machine whose moves are used up, an application that ended.

### 3.1 Fairness

`ControlEngine`: weak fairness of the tick (its loop is a task that sleeps and ticks; a write
returns, successfully or not), and strong fairness of `BeginTick`, that is: a tick with fresh
readings comes again and again. `HandoversDecided` therefore says "while the runtime polls"; a
runtime that stays stale for ever leaves recovered items unverified, as the code wants it.
Nothing is assumed of user operations or of the hardware's answers.

`ServiceOwnership`: time passes, and a process that can work again and again does. Freezing is
thus finite, as a suspend is. Nothing forces a process to start, write, stop or crash.

`RuntimeWrites`: weak fairness of the poll loop and the discovery loop (timers), of the release,
and of the end of each write (an adapter answers), and of the poll of a rescan whose cycle is done.
Nobody has to write, rescan or quit, the environment
is free, failures are bounded by `MaxFaults`: a machine whose reads or writes fail for ever is
promised nothing.

`DeviceLink`: the device's clock ticks. Nothing is assumed of the wire or of the host;
`SilentHostIsCovered` says that a host which is gone needs no more than that clock.

`Providers`: weak fairness of the loop's discovery cycle and of the poll, both timers; cycles the
user begins need not come or end. `CardIsReported` is conditional: a provider that works, and
nothing it yields to that does, from some time on.

`DesktopApp`: the boot task, each leaving task, each save and the entry go on when they can (the
async runtime runs them), and each write returns. Nobody has to launch, quit or change anything.
`RuleEvaluation` and `HardwareAdapters` have no liveness properties and no fairness.

## 4. What is proved

The theorems hold for every value of the constants that the `ASSUME`s of the modules admit: any
finite set of numbered rules, any finite set of channels, any positive retry and attempt limits,
any operations and bounds; any sets of services and desktops, any tolerance above zero; any
devices, callers and temperatures, any limits that `sanitise` leaves; any providers in any order
with any devices and runners; any rules whose grace periods are bounded, any readings; any
switches a draft may change and any number of launches; any chips with any names, moved at any time, and any tree of sensors; any
simulated machine, load profiles and rules that can be parsed; any requests that can be asked and
any set of images, any documents of a byte each and any noise; any number of events and failures.

| theorem | statement | condition |
|---|---|---|
| `ControlEngine_proofs!TypeCorrect` | `Spec => []TypeOK` | none |
| `OutputsHaveOneRule` | `Spec => []OneRulePerOutput` | none |
| `FailsafeKeepsClear` | `Spec => []NoFightWithClaimant` | edits between ticks |
| `RecordIsKept` | `Spec => []RecordCoversOwed` | edits between ticks |
| `HandoversArePaced` | `Spec => []HandoversPaced` | no restart |
| `SpentStays` | `Spec => SpentStaysParked` | no restart, no re-arming |
| `ChannelsAreAccountable` | `Spec => []Accountable` | edits between ticks, no restart, plain edits |
| `OwedStaysOwed` | `Spec => OwedUntilSettled` | edits between ticks, plain edits |
| `ServiceOwnership_proofs!TypeCorrect` | `Spec => []TypeOK` | none |
| `RecordsStayTrue` | `Spec => []RecordIsTrue` | none, races included |
| `ClaimIsExclusive` | `Spec => []OneClaim` | no interleaved file operations |
| `LiveRecordStays` | `Spec => LiveRecordKept` | no interleaved file operations |
| `AllIsHandedBack` | `Spec => []HandedBack` | none, races included |
| `SanitiseRepairs` | `Sanitised(p) \in Policies` for every raw policy | none |
| `GateProtects` | what `CheckDuty` allows is a duty, not below the floor, in an emergency not below the emergency duty nor below the request | a sanitised policy |
| `RampIsKept` | it is within the ramp limit of the last reading | no emergency; request and reading not below the floor |
| `RuntimeWrites_proofs!TypeCorrect` | `Spec => []TypeOK` | none |
| `OutputsKeepTheirFloor` | `Spec => FloorHolds` | none |
| `SwitchesAreKept` | `Spec => []SwitchIsKept` | none but the switches a saved draft turned |
| `ReportsAreTrue` | `Spec => []ReportIsTrue` | none but the outputs a person wrote or switched on after the release began |
| `Providers_proofs!TypeCorrect` | `Spec => []TypeOK` | none |
| `NothingIsLeftDriven` | `Spec => []NothingStaysDriven` | none but the fans the property excepts |
| `RuleEvaluation_proofs!TypeCorrect` | `Spec => []TypeOK` | none |
| `SteersOnlyBySight` | `Spec => []NeverSteersBlind` | edits wait for the answer to a write |
| `ResumesAfresh` | `Spec => ReopensAfresh` | none, edits during a write included |
| `CoolingStaysOnCurve` | `Spec => []CoolingFollowsCurve` | the same |
| `DesktopApp_proofs!TypeCorrect` | `Spec => []TypeOK` | none |
| `ExitsHandBack` | `Spec => []ExitHandsBack` | none but the exceptions the property names |
| `SettingsStaySafe` | `Spec => []SettingsAreSafe` | the same |
| `StartsAreTrue` | `Spec => []StartIsTrue` | the same |
| `ModesReturn` | `AdaptersSpec => []ModesAreReturned` | a scan that finds a mode can read it; chips with a name of their own, not used between a move and the next scan |
| `OnlyConfirmedWritten` | `AdaptersSpec => []OnlyConfirmedChannels` (a part of `AccessIsSound`) | chips not reached between a move and the next scan |
| `MappingStaysSound` | `AdaptersSpec => []MappingIsSound` | devices that differ, numbers that mean something |
| `AnswersStayTrue` | `AdaptersSpec => AnswersAreTrue` | none |
| `SensorsStaySound` | `AdaptersSpec => []SensorsAreSound` (a part of `AccessIsSound`) | none |
| `AccessStaysSound` | `AdaptersSpec => []AccessIsSound` | as `OnlyConfirmedWritten` |
| `LinkTypes` | `Spec => []TypeOK` | none, damage included |
| `ImageStaysWhole` | `Spec => []InstalledWhole` | none, damage included |
| `FrameSurvives` | `Decoded[Encode(payload) \o rest]` is the payload, then what is in `rest` | a payload that is not too long |
| `FrameIsAwaited` | `Decoded` of a part of a frame keeps every byte of it | the same |
| `LinkImplementsChannel` | `Spec /\ [](faults = 0) => FramesArriveInOrder` | no damaged byte; cuts, delays, a dead host |
| `CreditFollowsOrder` | `Spec => [](`the answers taken are a subsequence of those sent` => CreditIsEarned)` | the hypothesis of the property |
| `CreditIsEarnedUndamaged` | `Spec => [](faults = 0 => CreditIsEarned)` | no damaged byte |

*The engine.* `TypeOK` is not inductive: that `attempts` never exceeds the maximum needs that an
item which may still be tried has attempts left, and that the item a write answers for is still
there when the answer comes. `Inv` adds both: `SoundBook` (a pending or waiting item has
attempts left, a waiting one has ticks left), `SoundDisk` (the same of the record, since a
restart turns it into a book) and `InFlight` (the write under way belongs to a pending item at
the head of its queue, or to a rule; no tick outlives its process). `OutputsHaveOneRule` needs
no more than the types of `rules` and `files`: `save_rule` refuses a second owner, and
`resolve_loaded_conflicts` (`StandDown`) makes any set of files conflict-free; the proof splits
by what a step may do to the rules (`RuleSteps`). `FailsafeKeepsClear` adds that the claimant is
asked in the same stretch of the tick as the write and that, outputs having one rule each, the
first rule that matches is the only one; an edit between the question and the answer breaks
it, hence its condition. `RecordIsKept` goes through every action that adds to what is owed and
shows that it writes the record or raises `persistError` before it lets go; its condition is
used for the hold that the failure policy puts back after a second write (`Remembered`).

*The handovers.* `HandoversPaced` counts what the program does not: how often a channel was
written since the environment last interfered, and how long ago (`tries`, `rest`). `Pace` ties
these to what the program does count (`Fits`): the attempts of the one item a channel has
(`Single`), its cooldown, whether a claim parked it. It holds with edits anywhere in a tick. Its
condition is that no process took over the record of another: a recovered item starts with counts
of its own, and a crash in the middle of an edit may bring two. `SpentStays` is read off the same
invariant: only a claim that comes to nothing sets `parked_by_claim`, and then attempts are left. A
re-arm and a restart keep the mark, and without the conditions TLC finds the spent item that
resumes.

*Who answers for a channel.* `ChannelsAreAccountable` rests on `Tracked`: the rule that last moved
a channel still holds it, or the channel has an open item. An edit that makes a rule leave queues
the item in the step that drops the hold; a tick closes one only by the device's answer or to a
rule that really drives the channel (`TickBooks`). For that, the rules a tick runs must drive what
they did when it copied them (`TickDriven`), and a hold must be on its rule's own channel
(`HoldsDriven`). `OwedStaysOwed` goes through every step: what is owed (an item, or an unconfirmed
hold) is settled by the answer, or taken by a rule that drives the channel, and a crash and a
restart find it in the record; there may be any number of both. *Plain edits* (`PlainEdits`) are
all user operations but three: a delete whose file stays, the dry-run switch, and a reload of
hand-edited files for more than one rule. All three are in the code, and TLC finds a
counterexample with each (§5).

*The service file.* `RecordsStayTrue` rests on `ModeKnown`: the channel is in the firmware's
mode or in manual, and `take_control` remembers a mode only when it is not manual.
`ClaimIsExclusive` rests on `Claims`: at most one process is inside a sequence of file
operations (`Alone`), what such a process knows about the file is still so (`Informed`), a file
has a writer that was started (`Written`), and a process that has looked at the file since it
last stalled still finds its own, fresh, record (`Held`). The heart is that such a record is
fresh for everyone else, so that no successor removes it. `AllIsHandedBack` needs none of this
and holds with races: a channel in manual mode has a process that remembers its mode and has not
released it yet (`InCharge`, `Answered`), and a file that exists has an owner on its way to
`DropGuard`, unless something crashed or failed.

*The gate and the writes.* `GateProtects` splits by the cases of `check_duty`; its only
arithmetic is in the ramp step (`RampStepBounds`). `RuntimeWrites` cites it once, for whatever is
judged (`JudgedIsSound`), and so every write under way has a value its output may have
(`JobsKeepFloor`): `FloorHolds` follows, since only a write moves an output. `SwitchIsKept` needs
`CopyIsCurrent`: a switch can be turned only for a device that is in the table, so of the
devices a cycle may *add*, its copy of the settings is never old; a draft saved meanwhile makes it
so for the devices it turned, which are `overruled` from then on. `ReportIsTrue` needs that once the
release has begun the loops are over, so that the supervisor writes for a person's poll only
(`LoopsAreOver`, `SupervisorWaits`; it rests on the loops having ended in time), that every write
that lands then and is not the release's is a person's, and so in `touched` (`ReleaseFrame`), and
that each output is in exactly one of three places, waiting, being written or reported
(`ReleaseCounts`, `ReportStands`).

*The providers.* `TypeOK` says more than types: a device is shown as disabled exactly if it is
switched off. It is not inductive alone, since a poll or a scan could carry "disabled" over an
await and store it; `IInv` adds what a cycle and a poll may carry (`CycleType`, `PollType`), and
`WithStatusKeeps` and `UpsertedKeeps` are the two ways a record changes. `NothingIsLeftDriven`
rests on two facts that every cycle, poll, switch and fault must keep. `Described`: a fan that no
scan has missed is in the table with its control, so the release finds it, whatever its status or
that of its adapter. `Pending`: once the release has begun, a fan at our duty is still to be written,
is reported, or is excused; a refused write reports it, and a cycle that drops the record of a fan
that waits makes its write fail and be reported. That needs `Described` when the targets are
collected, and the types (`IInv`) throughout.

*The rule.* `NeverSteersBlind` speaks of how long ago the rule's sensors were really read, the
code of anchors in a memory. `IInv` ties the two: no value the memory holds is younger, by its
anchor, than it is in the world (`Covers`), where the memory that counts is the copy a write
carries while one is under way (`Held`). A fresh reading sets both ages to zero
(`ObservedCovers`), an answer changes outputs only (`SameReadings`), and an edit drops a value
together with its sensor (`EditKeeps`). An edit during a write is undone when the copy comes
back, hence the condition. `ResumesAfresh` ties the anchor to the verdict: whoever counts as gated,
now or once its write is answered, has none (`DownInv`). `CoolingStaysOnCurve` rests on two facts:
nothing is ever *written* to hold an output back, so a write that follows the curve asks for what
the curve wants (`SteersToCurve`), and what a rule believes of its output is not above what the
output has, full speed having been forced or not, unless the last write is in doubt (`Trusted`).
`TypeCorrect` uses the same: an output is held back only by not being written.

*Numbers.* The prover's library theorems for induction take an operator as a parameter and cannot
be instantiated, but that every set of numbers has a least one (`Least`) can be cited, and an
induction be done by hand as the least counterexample (`Climbing`), or stated of a set instead of
a predicate (`SetInduction`). `SumExists` gives the recursive
fold its solution, `SumBetween` bounds the sum of n numbers, hence an average lies among the
readings (`ReducedWithin`); `EndsExist` gives a finite set its maximum and minimum. That a curve
stays between two neighbouring points (`CurveBetween`) is the first point not below the input, and
one division (`DivBounds`).

*The desktop.* `ExitsHandBack` needs `LeavingInv`: unless something the property excepts has
happened, the task that leaves is the only one, has taken the handle of the rule loop and finds
the runtime running (`Orderly`), so each place it has reached tells what it has done: the engine
is off, its write is over, the fail-safe duty stands, the fan was handed back. A person's write may
be sent and land anywhere in this: before the release it is undone by it, between the release and
the hand-back it leaves the fan to the hand-back alone, and after that it is the exception. For
`SettingsStaySafe`, `DiskInv` says that of two commands at most one is saving, that the
temporary file is its own, and that what it saves is still in force (`Current`): a rename then
puts the truth on disk. `StartsAreTrue` rests on `PromiseInv`: while no update is under way, the
settings in memory and on disk promise only what the entry does.

*The adapters.* `ModesReturn` rests on `Modal`: each channel that was switched, has a name of its own
and has not strayed has its original mode in `taken` while the process lives and in what it had
published when it died, and the last scan has each chip that has not moved since at the directory
it has. An id then leads to its own chip or to none (`OnlyOne`, `ReachedIs`). The steps that must
be looked at most closely are the write whose path leads nowhere, the restart, which puts back the
modes it adopted through a scan of its own and only remembers those whose chip is not there, and
the shutdown, which reports a chip that is gone. The condition is that the scan can read the mode
it finds (§5, 13). `OnlyConfirmedWritten` rests on `Confined`: ids in `taken`, in the record and in a
write are confirmed ones, and a file reached through one is of a chip that has the id, unless the
chip moved since the scan; for chips that share a name it holds as well, since they share the
confirmation. `MappingStaysSound` says what a device id stands for
(`Stands`): a node's own path and a number a sensor carries, or one sensor. Whatever order the
nodes come in and whichever drop out, `map_tree` gives one id to one device and pairs a control
with a tachometer only when both carry the number in the same way (`MappedIsSound`). It assumes
that two sensors of a kind on one board never carry one number (`Distinct`), and that a number
shared in the same way means one fan (`Honest`): where a board breaks these, the text of its names
is all the code has. `AnswersStayTrue` then needs that a control found for an id is one control.
`SensorsStaySound` rests on what a refresh does to a list (`RefreshedDistinct`): it never lists
anything twice, and what was listed keeps its place unless something listed has gone. So as long as
nothing has, each device stands where its zone or volume is in the list of now (`AllStand`), and
a poll that looks its place up finds it. Drives are numbered by their rank among those that are kept; that
ranks are a numbering is `Ranks`.
`AccessStaysSound` puts these together with the types of the providers (`HwmonTyped`, `LhmTyped`)
and with the simulated machine, for any number of fans and pumps, any load profiles, faults and
rules. Its invariant `MockInv` says that there are as many slots as devices, that the table is what
some machine described (`TableOK`: not the machine of now), that a reply that a write was simulated
names an output whose slot still has the duty (`Holds`), and that a bound rule passed its check if
the table is still the one it was checked against (`BoundOK`). That such a table can only be driven
through the card's fan, a fan or a pump is `DrivableIs`; a curve whose points lie in the range of
its output stays in it (`CurveFits`, from `CurveBetween`). For the suggestions, the ids of the
outputs are put in order (`TargetsAreOrdered`), so there is a first and a last of any of them
(`EntryIs`) and the first two differ (`TwoEntries`); every suggestion is made of temperatures and
outputs of the table (`SuggestedAre`), and so passes the check (`SuggestibleFits`). That air cools
is arithmetic with rounding: the mean of the fans (`ChassisDuty`), a load between 0 and 100
whatever the profile (`LoadsAre`), and a relaxation that keeps the order (`ChassisCools`).

*The link.* `Decoded` is a recursive function on buffers of every length, so it must first be shown
to be one: by induction over n there is a decoder for the buffers shorter than n
(`DecodersExist`), any two agree (`DecodersAgree`), and together they obey the equation of
`Decoded` (`DecodedRound`), each round of which looks at a shorter buffer only (`TailShrinks`,
`DropShrinks`). From it come the type of what is decoded and the bound on what is left
(`DecodedType`), that a frame is found whatever follows it (`FrameSurvives`) and waited for
wherever it is cut (`FrameIsAwaited`). The checksum, computed the same way on both sides, needs
no more than a type. `LinkInv` is the inductive invariant. To the types it adds that what a device
keeps of an upload are as many bytes as its offset says, each in its place in some image, and the
beginning of an image if all chunks were of that one (`Uploading`, `UpdateSound`: `InstalledWhole`
alone says nothing of an upload under way), that the duties the device applied are the ones its answers
announce, one for each (`Tells`), and that a duty credited was read from an answer taken, no answer
twice (`CreditIsRead`). It holds whatever the wire does. `LinkOrder` says where a message is when
nothing was damaged: what was sent is what was taken, what is ready, and the messages whose bytes
are in the buffer and on the wire, in that order (`InOrder`); that a stream of frames, read at any
point, splits into whole messages and the beginning of the next is `StreamIsSplit`. So each step
is one of `FrameChannel`, or a stutter (`RequestStep`, `AnswerStep`). `CreditFollowsOrder` puts
`Tells` and `CreditIsRead` together through the order of the answers.

On a wire that damages bytes, `FramesArriveInOrder` and `CreditIsEarned` are checked but not
proved, and could not be: a checksum of eight bits does not tell every damaged frame from a sound
one, and one it takes for sound is delivered. With the one trouble of `device_link` none is.

*Only model-checked.* The liveness properties (`HandoversDecided`, `HeatIsAnswered`,
`LoserStandsDown`, `SilentHostIsCovered`, `CardIsReported`, `QuitEnds`), since the prover does
not do fairness; `FramesArriveInOrder` and `CreditIsEarned` with damage on the wire, as above; and
the two properties that are violated.

## 5. Where code and documentation part

Two of these are runs that must end in a violation; the others were met while modelling, and
are where a property is stated more narrowly than one would like.

1. *An edit during a write forgets the channel* (`engine_in_flight`). The rule's hold is stored
   (`engine.rs:1172`) after the edit has looked for it.
2. *A dry run is persisted* (`desktop_dry_run`). `--dry-run` is folded into the settings the
   runtime keeps (`lib.rs:78`), and the first change of any setting saves them whole.
3. *A retry leaves `parked_by_claim` set* (`handover.rs:589`). A handover parked by an unmet
   claim, re-armed by the user and spent again, resumes without being asked to, at once and with a
   second budget, when the claim goes. `docs/verification-log.md:659` says that "a handover parked
   by its *own* failed writes still needs an explicit retry", `docs/requirements.md:88` that such
   writes are paced. `HandoversPaced` excepts the first write after a re-arm from the pause.
4. *A restart drops an unconfirmed hold whose rule is enabled* (`engine.rs:1578`), and with it
   the handover a later disable would owe.
5. *A rule whose sensor has vanished cannot be switched off* (`engine.rs:2171`): switching off
   goes through the checks of a save.
6. *Taking over is not atomic* (`service.rs:357`): removal is by path, and the file is empty
   between its creation and its first write, so three racing services can leave two owners.
7. *A takeover deletes the record it is about to adopt* (same place): a service that dies between
   the two leaves channels in manual that nobody will give back, which
   `docs/background-service.md:69` promises.
8. *The exit write obeys the ramp limit* (`runtime.rs:1126`): with `max_write_delta_percent` set
   it is one step towards the fail-safe duty, is not repeated, and is reported as confirmed at
   it. The same holds of the fail-safe write after a failure and of a handover's, so what
   `ControlEngine` calls confirmed is at the fail-safe duty for the default of 0 only.
9. *The warning about a condition that is never met* (`engine.rs:1807`) is also given for a
   threshold outside the sensor's range that is *always* met.
10. *A switch turned while two discovery cycles overlap can be lost*: each cycle adds devices with
    the settings it copied. `SwitchIsKept` has one cycle at a time.
11. *One failed `device_count` or `num_fans` of NVML* (`adapters/nvidia/src/lib.rs:163`) is
    answered like a machine without the card or its fans; the exit then does not know the fan.
12. *A second request to leave, or one during the boot, may end the process before the fans are
    handed back* (`lib.rs:427`): `is_running` is false long before the release is done.
13. *A mode that cannot be read at a rescan is forgotten* (`hwmon.rs:396`, `.ok()`): the channel
    then looks as if it had no mode to restore, and `restore_control` writes nothing and answers
    ok. `ScanFaults` is `FALSE` in the run and in `ModesReturn`.
14. *A drive behind a volume without a device shows another volume's numbers*
    (`adapters/system/src/lib.rs:765`). `build_devices` numbers the drives it keeps, `read_one`
    looks the number up among all volumes; a removable or twice mounted volume listed earlier
    shifts them. `devices.rs:24` says "one per non-removable volume", `docs/device-model.md:351`
    that removable volumes are skipped and duplicates collapsed. `ReadingsAreOwn` speaks of drives
    in place (`InPlace`). The ids of zones and drives are places too: when a listed one goes, those
    behind it take each other's ids with the next discovery.
15. *Two of the three suggestions conflict* (`examples.rs:140`): the rule of the card and the
    combined rule have the first output for their target, so `ohm-cli rules suggest` ends
    with a conflict at the third, where `docs/automation.md:385` lists three saved rules. The
    desktop adds suggestions switched off.
16. *A person's write may land after the fail-safe duty that was reported as confirmed*
    (`runtime.rs:328`, `runtime.rs:800`). `shutdown` joins its two loops; a `write_capability`
    (`commands.rs:145`) or a rescan with its supervisor (`commands.rs:85`, `tray.rs:80`) is a task of
    its own, and `write_with_origin` does not look at `running`. In the desktop such a write may also
    land after the adapters handed their channels back. `ReportIsTrue`, `NothingStaysDriven` and
    `ExitHandsBack` except the outputs this happens to, and nothing else.
17. *Saved settings do not turn the table's switches* (`runtime.rs:1257`, `commands.rs:198`).
    `update_settings` replaces `disabled_devices` by those of a draft, which may be older than a
    switch the user has turned; the table keeps the switch, the settings and the next launch have
    the draft's. `SwitchIsKept` speaks of the other devices.
18. *Another total keeps the offset of an upload* (`mock.rs:425`). The device then resets the
    checksum, not `firmware_received` or the bytes. `docs/protocol.md:401` and `:472` promise a reset
    of the checksum and the counters. Chunks of two images can be joined, and are installed when
    the checksum does not tell (`device_link` reaches this); a host that starts over at offset 0 is
    refused. `InstalledWhole` claims one image only for chunks of one.
19. *A refused release is reported once and not tried again* (`runtime.rs:1126`,
    `adapters/nvidia/src/lib.rs:523`): a fan of an adapter without a hand-back then stays where it
    was. `NothingStaysDriven` counts it as reported.
20. *Two chips of one name share their device id* (`hwmon.rs:122`), and every lookup takes the first
    in the order of enumeration (`hwmon.rs:329`, `adapters/system/src/lib.rs:615`), where `hwmon.rs:117`
    says that the id is "never enumeration order": a confirmation of one is one of both, and a mode
    may be put back on the other. `ModesAreReturned` speaks of chips with a name of their own.
21. *A path is as old as its scan* (`adapters/system/src/lib.rs:611`): when a chip is pulled and
    another takes its number before the next scan, a write or a restore reaches that one.

`Accountable` and `SpentStaysParked` hold in `engine_edits`, where the operation that breaks
them (an edit in a tick; a retry) does not occur: the run shows that it takes that operation. What
is claimed has two further limits. `Accountable` is checked and proved without deletes that fail
(`delete_rule` then drops the rule and returns before it hands anything over), without the dry-run
switch (a simulated write closes a handover) and without a reload that switches off, in memory
alone, a rule that drives its output because another file claims it too (`engine.rs:1851`: nothing
is queued, and if the other rule is switched off before it writes, nobody answers for the channel). `OneJobPerChannel` holds for the life of a process (a crash between
the flush and the forgetting of a hold brings back two items for one channel, which costs one more
fail-safe write). `PROJECT.json` lists them among the hazards.

## 6. What is not modelled, and what would come next

*Not modelled.* The event bus, the audit log and the snapshot (they report and decide nothing);
the core types; the front end; the CLI's subcommands other than `service run`, which print; HTTP,
JSON, TOML and sysfs parsing, units and texts; memory, load and clock readings and the storage
temperatures of Windows; subscriptions of the Open Device Protocol, which the reference device
only counts. Each component's `note` in `PROJECT.json` names what is left out of a component that is modelled.

*Left out of modelled components, and why.* A tick, poll or write that outlives the two seconds
its join waits (everything said of the exit would need an exception; `DesktopApp` has it, as
"slow", for the one fan, and in `Providers` no task is waited for). A process that dies while a confirmed write is on its way: the design
keeps no journal of it. A service whose heartbeat cannot be written: the step is there,
`HandedBack` excepts it.

*Next.* An abstract specification of what the engine promises for one channel (at its fail-safe,
driven by a rule, owed), with `ControlEngine` shown to implement it under `Overlapping = FALSE`;
a straggling loop and a second call of `shutdown` in `RuntimeWrites`.
