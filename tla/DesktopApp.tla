------------------------------ MODULE DesktopApp ------------------------------
(***************************************************************************)
(* The process of the desktop application (src-tauri/src/lib.rs, tray.rs,  *)
(* commands.rs, autostart.rs): the task that starts the runtime and the    *)
(* engine, the ways to leave, the settings in memory and on disk, and the  *)
(* startup entry the settings promise.                                     *)
(*                                                                         *)
(* One fan stands for the channels; its adapter hands it back on shutdown. *)
(* The engine (ControlEngine) is a loop that writes; so is a person, whom   *)
(* nobody waits for.  The settings are the switches that matter here:      *)
(* dry_run, start_with_windows, and `off`, for disabled_devices.  The IPC  *)
(* self-test and what the windows show are left out.                       *)
(***************************************************************************)
EXTENDS Naturals, FiniteSets

CONSTANTS
    NoFile, Torn, NoDraft, NoChange,
    Flags,       \* is the process launched with --dry-run?
    Drafted,     \* the switches a draft of the settings screen may change
    CloseEnds,   \* does closing the window end the process (close_to_tray)?
    MaxEvents,   \* bound on a person's changes and writes, on what fails (saves,
                 \* registry calls, the release, the hand-back) and on writes of
                 \* the engine that outlive the two seconds of stop()
    MaxLives     \* bound on the number of times the process is launched

Switches == {"dry", "auto", "off"}

\* The tasks that lead out of the process: by the tray's menu, by the window.
Tasks == {"tray", "window"}

\* Who writes: the engine's loop; a command of a person's (write_capability, or a
\* rescan, after which the supervisor writes), a task of the async runtime.
Writers == {"engine", "person"}

Settings == [Switches -> BOOLEAN]

ASSUME DesktopAssumption ==
    /\ Drafted \subseteq Switches /\ Flags \subseteq BOOLEAN /\ CloseEnds \in BOOLEAN
    /\ MaxEvents \in Nat /\ MaxLives \in Nat
    /\ NoFile \notin Settings /\ Torn \notin Settings /\ NoFile # Torn
    /\ NoDraft \notin Settings /\ NoChange # "apply"

Default  == [s \in Switches |-> FALSE]

\* update_settings is a task of its own, the other commands run one by one.
Savers == {"update", "switch"}

VARIABLES
    life,     \* [at, flag, launches]: off, on or ended; was --dry-run given?
    boot,     \* the task that starts the runtime and the engine
    running,  \* Runtime.running
    engine,   \* [on, handle]: its running flag, and its loop to wait for
    writes,   \* the write of each writer: none, or sent to the adapter
    exits,    \* where each leaving task is
    fan,      \* whose duty the fan is at
    mem,      \* Runtime.settings
    file, tmp, \* settings.json and settings.json.tmp
    saves,    \* what each command has still to save
    draft,    \* what the settings screen shows
    entry,    \* the startup entry of the operating system
    events,
    excuse    \* what went on that the properties except

disk   == <<file, tmp, saves>>
conf   == <<mem, disk, draft, entry, events>>
vars   == <<life, boot, running, engine, writes, exits, fan, conf, excuse>>

NoSave == [at |-> "idle", what |-> Default, into |-> "tmp", auto |-> NoChange]

Init ==
    /\ life = [at |-> "off", flag |-> FALSE, launches |-> 0]
    /\ boot = "off" /\ running = FALSE /\ engine = [on |-> FALSE, handle |-> FALSE]
    /\ writes = [w \in Writers |-> "none"] /\ exits = [t \in Tasks |-> "none"]
    /\ fan = "firmware" /\ mem = Default
    /\ file \in {NoFile, Default} /\ tmp = NoFile
    /\ saves = [s \in Savers |-> NoSave] /\ draft = NoDraft /\ entry = FALSE
    /\ events = 0 /\ excuse = {}

On == life.at = "on"

-----------------------------------------------------------------------------
(* Starting *)

\* SettingsStore::load: a torn file is set aside and forgotten.
Loaded == IF file \in {NoFile, Torn} THEN Default ELSE file

\* apply_startup_overrides folds --dry-run into what was loaded.
Overridden(settings, flag) == [settings EXCEPT !["dry"] = @ \/ flag]

Launch ==
    /\ life.at = "off" /\ life.launches < MaxLives
    /\ \E flag \in Flags :
        /\ life' = [at |-> "on", flag |-> flag, launches |-> life.launches + 1]
        /\ mem' = Overridden(Loaded, flag)
    /\ file' = IF file = Torn THEN NoFile ELSE file
    /\ boot' = "created" /\ saves' = [s \in Savers |-> NoSave]
    /\ UNCHANGED <<running, engine, writes, exits, fan, tmp, draft, entry, events, excuse>>

\* runtime.start: the flag first, then a scan and a poll.
BootRuntime ==
    /\ On /\ boot = "created"
    /\ boot' = "starting" /\ running' = TRUE
    /\ UNCHANGED <<life, engine, writes, exits, fan, conf, excuse>>

\* engine.start, whatever became of the runtime in the meantime.
BootEngine ==
    /\ On /\ boot = "starting"
    /\ boot' = "done" /\ engine' = [on |-> TRUE, handle |-> TRUE]
    /\ UNCHANGED <<life, running, writes, exits, fan, conf, excuse>>

Boot == BootRuntime \/ BootEngine

-----------------------------------------------------------------------------
(* Writing.  write_with_origin looks at dry_run, not at running: a person   *)
(* may write at any time, and stop() and shutdown() wait for the loops only. *)

Sends(w) ==
    /\ On /\ writes[w] = "none" /\ ~mem["dry"]
    /\ writes' = [writes EXCEPT ![w] = "sent"]
    /\ UNCHANGED <<life, boot, running, engine, exits, fan, mem, disk, draft, entry, excuse>>

TickWrites == engine.on /\ Sends("engine") /\ UNCHANGED events

PersonWrites == events < MaxEvents /\ events' = events + 1 /\ Sends("person")

\* What a write that lands undoes: the fail-safe duty, or the hand-back.
Undoes == {IF exits[t] = "handing" THEN "undone" ELSE "late" :
              t \in {u \in Tasks : exits[u] \in {"handing", "leaving"}}}

WriteLands(w) ==
    /\ On /\ writes[w] = "sent"
    /\ writes' = [writes EXCEPT ![w] = "none"] /\ fan' = "ours"
    /\ excuse' = excuse \cup Undoes
    /\ UNCHANGED <<life, boot, running, engine, exits, conf>>

-----------------------------------------------------------------------------
(* Leaving: the tray's Quit, or a window that closes.                      *)

Asked == {t \in Tasks : exits[t] # "none"}

\* What a reader of ExitHandsBack has to know: who asked when.
Noted == excuse' = excuse \cup (IF boot # "done" THEN {"early"} ELSE {})
                          \cup (IF Asked # {} THEN {"again"} ELSE {})

Quit ==
    /\ On /\ exits["tray"] = "none"
    /\ exits' = [exits EXCEPT !["tray"] = "stopping"] /\ Noted
    /\ UNCHANGED <<life, boot, running, engine, writes, fan, conf>>

\* What was under way in a process ends with it.
Dies ==
    /\ running' = FALSE /\ engine' = [on |-> FALSE, handle |-> FALSE] /\ boot' = "off"
    /\ writes' = [w \in Writers |-> "none"] /\ exits' = [t \in Tasks |-> "none"]
    /\ draft' = NoDraft /\ mem' = Default

\* What can go wrong while a process leaves.
Departures == {"early", "again", "slow", "undone", "kept", "late"}

\* What the properties have to know of the life that has ended.
Remembered == (excuse \ Departures)
              \cup (IF saves["update"].at # "idle" THEN {"cut"} ELSE {})

Ends == life' = [life EXCEPT !.at = "ended"] /\ Dies

\* Mutant of ExitRequested: the last chance is not taken.
ExitAtOnce(t) ==
    /\ Ends /\ UNCHANGED disk

\* RunEvent::ExitRequested: prevented while the runtime runs, to leave by a task.
ExitRequested(t) ==
    \/ /\ running
       /\ exits' = [exits EXCEPT ![t] = "stopping"]
       /\ UNCHANGED <<life, boot, running, engine, writes, mem, disk, draft>>
    \/ /\ ~running /\ Ends
       /\ UNCHANGED disk

CloseWindow ==
    /\ CloseEnds /\ On /\ exits["window"] = "none"
    /\ Noted /\ ExitRequested("window")
    /\ UNCHANGED <<fan, entry, events>>

\* engine.stop takes the loop's handle; who comes second has nothing to wait for.
EngineStop(t) ==
    /\ On /\ exits[t] = "stopping"
    /\ engine' = [on |-> FALSE, handle |-> FALSE]
    /\ exits' = [exits EXCEPT ![t] = IF engine.handle THEN "waiting" ELSE "stopped"]
    /\ UNCHANGED <<life, boot, running, writes, fan, conf, excuse>>

\* The loop has ended, or two seconds have passed.
EngineStopped(t) ==
    /\ On /\ exits[t] = "waiting"
    /\ \/ writes["engine"] = "none" /\ UNCHANGED <<events, excuse>>
       \/ /\ writes["engine"] # "none" /\ events < MaxEvents /\ events' = events + 1
          /\ excuse' = excuse \cup {"slow"}
    /\ exits' = [exits EXCEPT ![t] = "stopped"]
    /\ UNCHANGED <<life, boot, running, engine, writes, fan, mem, disk, draft, entry>>

\* Mutant of RuntimeStop: the flag is cleared when all is done.
RuntimeStopLate(t) ==
    /\ On /\ exits[t] = "stopped"
    /\ exits' = [exits EXCEPT ![t] = IF running THEN "releasing" ELSE "leaving"]
    /\ UNCHANGED <<life, boot, running, engine, writes, fan, conf, excuse>>

\* runtime.shutdown: the flag is swapped first, a second call returns at once.
RuntimeStop(t) ==
    /\ On /\ exits[t] = "stopped"
    /\ running' = FALSE
    /\ exits' = [exits EXCEPT ![t] = IF running THEN "releasing" ELSE "leaving"]
    /\ UNCHANGED <<life, boot, engine, writes, fan, conf, excuse>>

\* The fail-safe duty: simulated in a dry run, refused where the channel is
\* switched off, and the adapter may refuse it.
Release(t) ==
    /\ On /\ exits[t] = "releasing"
    /\ \/ ~mem["dry"] /\ ~mem["off"] /\ fan' = "failsafe" /\ UNCHANGED <<events, excuse>>
       \/ /\ mem["dry"] \/ mem["off"]
          /\ excuse' = excuse \cup {"undone"} /\ UNCHANGED <<fan, events>>
       \/ /\ events < MaxEvents /\ events' = events + 1
          /\ excuse' = excuse \cup {"undone"} /\ UNCHANGED fan
    /\ exits' = [exits EXCEPT ![t] = "handing"]
    /\ UNCHANGED <<life, boot, running, engine, writes, mem, disk, draft, entry>>

\* The adapters' shutdown; one that fails is noted, and the process leaves.
HandBack(t) ==
    /\ On /\ exits[t] = "handing"
    /\ \/ fan' = "firmware" /\ UNCHANGED <<events, excuse>>
       \/ /\ events < MaxEvents /\ events' = events + 1
          /\ excuse' = excuse \cup {"kept"} /\ UNCHANGED fan
    /\ exits' = [exits EXCEPT ![t] = "leaving"]
    /\ UNCHANGED <<life, boot, running, engine, writes, mem, disk, draft, entry>>

\* app.exit(0) asks once more.
Leave(t) ==
    /\ On /\ exits[t] = "leaving"
    /\ ExitRequested(t)
    /\ UNCHANGED <<fan, entry, events, excuse>>

Exit(t) ==
    \/ EngineStop(t) \/ EngineStopped(t) \/ RuntimeStop(t)
    \/ Release(t) \/ HandBack(t) \/ Leave(t)

-----------------------------------------------------------------------------
(* Settings *)

\* A change takes the lock, and is saved after it was given up.
Changed(s, settings, auto) ==
    /\ mem' = settings
    /\ saves' = [saves EXCEPT ![s] =
           [at |-> "changed", what |-> settings, into |-> "tmp", auto |-> auto]]
    /\ excuse' = IF \E o \in Savers \ {s} : saves[o].at # "idle"
                 THEN excuse \cup {"overlap"} ELSE excuse

OpenDraft ==
    /\ On /\ draft = NoDraft /\ events < MaxEvents
    /\ draft' = mem /\ events' = events + 1
    /\ UNCHANGED <<life, boot, running, engine, writes, exits, fan, mem, disk, entry,
                   excuse>>

\* The update_settings command: the whole draft replaces what there is.
SaveDraft ==
    /\ On /\ draft # NoDraft /\ saves["update"].at = "idle"
    /\ \E s \in Drafted :
         LET new == [draft EXCEPT ![s] = ~@]
         IN Changed("update", new,
                    IF new["auto"] # mem["auto"] THEN "apply" ELSE NoChange)
    /\ draft' = NoDraft
    /\ UNCHANGED <<life, boot, running, engine, writes, exits, fan, file, tmp, entry,
                   events>>

\* set_device_enabled: one switch of the settings there are.
SwitchOff ==
    /\ On /\ events < MaxEvents /\ events' = events + 1 /\ saves["switch"].at = "idle"
    /\ Changed("switch", [mem EXCEPT !["off"] = ~@], NoChange)
    /\ UNCHANGED <<life, boot, running, engine, writes, exits, fan, file, tmp, draft,
                   entry>>

\* fs::write empties the file before it fills it.
SaveBegins(s) ==
    /\ On /\ saves[s].at = "changed"
    /\ tmp' = Torn
    /\ saves' = [saves EXCEPT ![s].at = "writing", ![s].into = "tmp"]
    /\ UNCHANGED <<life, boot, running, engine, writes, exits, fan, mem, file, draft,
                   entry, events, excuse>>

\* What is written goes to the file that was opened, whatever its name is now.
SaveWritten(s) ==
    /\ On /\ saves[s].at = "writing"
    /\ tmp'  = IF saves[s].into = "tmp" THEN saves[s].what ELSE tmp
    /\ file' = IF saves[s].into = "file" THEN saves[s].what ELSE file
    /\ saves' = [saves EXCEPT ![s].at = "written"]
    /\ UNCHANGED <<life, boot, running, engine, writes, exits, fan, mem, draft, entry,
                   events, excuse>>

\* Where the file that o has open is, after a rename.
Renamed(o) ==
    CASE saves[o].into = "tmp" -> "file"
      [] OTHER -> "nowhere"

AfterSave(s) == IF saves[s].auto = NoChange THEN NoSave ELSE [saves[s] EXCEPT !.at = "entry"]

\* Mutant of SaveRenames: renamed before it is filled.
SaveRenamesEarly(s) ==
    /\ On /\ saves[s].at = "writing" /\ tmp # NoFile
    /\ file' = tmp /\ tmp' = NoFile
    /\ saves' = [saves EXCEPT ![s] = AfterSave(s)]
    /\ UNCHANGED <<life, boot, running, engine, writes, exits, fan, mem, draft, entry,
                   events, excuse>>

SaveRenames(s) ==
    /\ On /\ saves[s].at = "written"
    /\ IF tmp = NoFile
       THEN saves' = [saves EXCEPT ![s] = NoSave] /\ UNCHANGED <<file, tmp>>
       ELSE /\ file' = tmp /\ tmp' = NoFile
            /\ saves' = [o \in Savers |-> IF o = s THEN AfterSave(s)
                            ELSE IF saves[o].at = "writing"
                                 THEN [saves[o] EXCEPT !.into = Renamed(o)] ELSE saves[o]]
    /\ UNCHANGED <<life, boot, running, engine, writes, exits, fan, mem, draft, entry,
                   events, excuse>>

\* An error of the file system: the user is told, and the change stays in force.
SaveFails(s) ==
    /\ On /\ saves[s].at \in {"changed", "writing", "written"}
    /\ events < MaxEvents /\ events' = events + 1
    /\ saves' = [saves EXCEPT ![s] = NoSave] /\ excuse' = excuse \cup {"told"}
    /\ UNCHANGED <<life, boot, running, engine, writes, exits, fan, mem, file, tmp,
                   draft, entry>>

Save(s) == SaveBegins(s) \/ SaveWritten(s) \/ SaveRenames(s) \/ SaveFails(s)

\* Mutant of Corrected: the setting is left as the user wanted it.
CorrectedNever(wanted, actual) == wanted

\* What the setting is made to say when the entry did not become what it says.
Corrected(wanted, actual) == actual

\* autostart::set_enabled asks what there is after a change.  It fails if an
\* entry cannot be added, or `reg` cannot be run; the setting is then off.
ApplyEntry ==
    LET wanted == saves["update"].what["auto"]
        answers(actual) ==
            IF Corrected(wanted, actual) = wanted
            THEN /\ saves' = [saves EXCEPT !["update"] = NoSave]
                 /\ UNCHANGED <<mem, excuse>>
            ELSE Changed("update", [mem EXCEPT !["auto"] = Corrected(wanted, actual)], NoChange)
    IN  /\ On /\ saves["update"].at = "entry"
        /\ \/ entry' = wanted /\ answers(wanted) /\ UNCHANGED events
           \/ /\ events < MaxEvents /\ events' = events + 1
              /\ entry' = entry
              /\ answers(FALSE) \/ (~wanted /\ answers(entry))
        /\ UNCHANGED <<life, boot, running, engine, writes, exits, fan, file, tmp, draft>>

Conf == OpenDraft \/ SaveDraft \/ SwitchOff \/ ApplyEntry \/ \E s \in Savers : Save(s)

-----------------------------------------------------------------------------
\* Killed, with the whole machine; or launched again later.  The machine comes
\* back with its fans at the firmware's duty.
Crash ==
    /\ On /\ life.launches < MaxLives
    /\ life' = [life EXCEPT !.at = "off"] /\ Dies
    /\ fan' = "firmware" /\ excuse' = Remembered
    /\ UNCHANGED <<disk, entry, events>>

Again ==
    /\ life.at = "ended" /\ life.launches < MaxLives
    /\ life' = [life EXCEPT !.at = "off"]
    /\ fan' = "firmware" /\ excuse' = Remembered
    /\ UNCHANGED <<boot, running, engine, writes, exits, conf>>

Next ==
    \/ Launch \/ Boot \/ TickWrites \/ PersonWrites \/ \E w \in Writers : WriteLands(w)
    \/ Quit \/ CloseWindow \/ \E t \in Tasks : Exit(t)
    \/ Conf \/ Crash \/ Again

\* Tasks go on; nobody has to launch, quit or change anything.
Spec ==
    /\ Init /\ [][Next]_vars
    /\ WF_vars(Boot) /\ \A w \in Writers : WF_vars(WriteLands(w))
    /\ \A t \in Tasks : WF_vars(Exit(t))
    /\ \A s \in Savers : WF_vars(Save(s))
    /\ WF_vars(ApplyEntry)

-----------------------------------------------------------------------------
\* Every variable has its type, as long as the process lives and after it.
TypeOK ==
    /\ life \in [at : {"off", "on", "ended"}, flag : BOOLEAN, launches : 0 .. MaxLives]
    /\ boot \in {"off", "created", "starting", "done"}
    /\ running \in BOOLEAN /\ engine \in [on : BOOLEAN, handle : BOOLEAN]
    /\ writes \in [Writers -> {"none", "sent"}]
    /\ exits \in [Tasks -> {"none", "stopping", "waiting", "stopped", "releasing",
                            "handing", "leaving"}]
    /\ fan \in {"firmware", "ours", "failsafe"}
    /\ mem \in Settings /\ file \in Settings \cup {NoFile, Torn}
    /\ tmp \in Settings \cup {NoFile, Torn} /\ draft \in Settings \cup {NoDraft}
    /\ saves \in [Savers -> [at : {"idle", "changed", "writing", "written", "entry"},
                             what : Settings, into : {"tmp", "file", "nowhere"},
                             auto : {"apply", NoChange}]]
    /\ entry \in BOOLEAN /\ events \in 0 .. MaxEvents
    /\ excuse \subseteq Departures \cup {"overlap", "told", "cut"}

\* A process that leaves by the tray or by its window leaves no fan at the
\* duty it gave it, whatever its engine and its user wrote before: the engine
\* has ended before the release begins, and the process goes on until the
\* adapters were asked to hand their channels back.  Where an adapter did not
\* ("kept"), the fail-safe duty stands, unless that was refused or written over
\* in between ("undone").  Except when the process was asked to leave before it
\* had started or while it was leaving already, when a write of the engine
\* outlived the two seconds stop() waits for it, and when a person's write, for
\* which nobody waits, landed after the hand-back ("late").
ExitHandsBack ==
    /\ life.at = "ended" /\ excuse \cap {"early", "again", "slow", "late"} = {}
    /\ ~({"kept", "undone"} \subseteq excuse)
    => fan # "ours"

\* Once no command is saving, settings.json says what is in force, and it is
\* whole at every moment, so that a kill loses at most what was being saved.
\* Except for what --dry-run folded in, for a save whose error the user saw,
\* and for saves that overlapped.
FileIsCurrent ==
    On /\ excuse \cap {"overlap", "told"} = {} =>
        /\ file # Torn
        /\ (\A s \in Savers : saves[s].at \in {"idle", "entry"}) /\ file # NoFile
           => \A x \in Switches : file[x] = mem[x] \/ (x = "dry" /\ life.flag)

\* The state is well typed and the settings are safe on disk.
SettingsAreSafe == TypeOK /\ FileIsCurrent

\* The settings do not promise a start with the system that will not happen
\* (commands.rs): once its command has answered, the entry is there.  Except
\* where a save failed, or the process ended, before the command had answered.
StartIsTrue ==
    On /\ saves["update"].at = "idle" /\ excuse \cap {"overlap", "told", "cut"} = {}
    => (mem["auto"] => entry)

\* Whoever asks the process to leave sees it leave.
QuitEnds ==
    \A t \in Tasks : exits[t] # "none" ~> ~On

\* docs/architecture.md says that --dry-run is not persisted, by design: where
\* no draft ever changed it, the file does not say dry run.
DryRunIsNotPersisted == file \notin {NoFile, Torn} => ~file["dry"]
=============================================================================
