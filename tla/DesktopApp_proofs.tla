-------------------------- MODULE DesktopApp_proofs --------------------------
(***************************************************************************)
(* What DesktopApp keeps, whichever switches a draft may change, with or   *)
(* without --dry-run, for any number of launches and mishaps.              *)
(***************************************************************************)
EXTENDS DesktopApp, TLAPS

-----------------------------------------------------------------------------
(* Types *)

Excuses == Departures \cup {"overlap", "told", "cut"}

Places == {"none", "stopping", "waiting", "stopped", "releasing", "handing", "leaving"}

Saving == [at : {"idle", "changed", "writing", "written", "entry"}, what : Settings,
           into : {"tmp", "file", "nowhere"}, auto : {"apply", NoChange}]

(* The half of TypeOK that starting and leaving change.                     *)
ProcessOK ==
    /\ life \in [at : {"off", "on", "ended"}, flag : BOOLEAN, launches : 0 .. MaxLives]
    /\ boot \in {"off", "created", "starting", "done"}
    /\ running \in BOOLEAN /\ engine \in [on : BOOLEAN, handle : BOOLEAN]
    /\ writes \in [Writers -> {"none", "sent"}] /\ exits \in [Tasks -> Places]
    /\ fan \in {"firmware", "ours", "failsafe"} /\ excuse \subseteq Excuses

(* The half that the settings change.                                       *)
ConfOK ==
    /\ mem \in Settings /\ file \in Settings \cup {NoFile, Torn}
    /\ tmp \in Settings \cup {NoFile, Torn} /\ draft \in Settings \cup {NoDraft}
    /\ saves \in [Savers -> Saving] /\ entry \in BOOLEAN /\ events \in 0 .. MaxEvents

LEMMA TypeHalves == TypeOK <=> ProcessOK /\ ConfOK
  BY DEF TypeOK, ProcessOK, ConfOK, Excuses, Places, Saving

LEMMA DefaultType == Default \in Settings /\ NoSave \in Saving
<1>1. Default \in Settings
  BY DEF Default, Settings
<1> QED BY <1>1 DEF NoSave, Saving

LEMMA InitType == Init => ProcessOK /\ ConfOK
<1> SUFFICES ASSUME Init PROVE ProcessOK /\ ConfOK
  OBVIOUS
<1>1. ProcessOK
  <2>1. 0 \in 0 .. MaxLives
    BY DesktopAssumption
  <2>2. life \in [at : {"off", "on", "ended"}, flag : BOOLEAN, launches : 0 .. MaxLives]
    BY <2>1 DEF Init
  <2>3. engine \in [on : BOOLEAN, handle : BOOLEAN] /\ exits \in [Tasks -> Places]
    BY DEF Init, Places
  <2> QED BY <2>2, <2>3 DEF Init, ProcessOK
<1>2. ConfOK
  <2>1. saves \in [Savers -> Saving]
    BY DefaultType DEF Init
  <2>2. 0 \in 0 .. MaxEvents
    BY DesktopAssumption
  <2> QED BY <2>1, <2>2, DefaultType DEF Init, ConfOK
<1> QED BY <1>1, <1>2

(* Starting a process and its end.                                          *)
LEMMA LaunchType == ProcessOK /\ ConfOK /\ Launch => ProcessOK' /\ ConfOK'
<1> SUFFICES ASSUME ProcessOK, ConfOK, Launch PROVE ProcessOK' /\ ConfOK'
  OBVIOUS
<1> PICK flag \in Flags :
        /\ life' = [at |-> "on", flag |-> flag, launches |-> life.launches + 1]
        /\ mem' = Overridden(Loaded, flag)
  BY DEF Launch
<1>1. flag \in BOOLEAN
  BY DesktopAssumption
<1>2. ProcessOK'
  BY <1>1, DesktopAssumption DEF Launch, ProcessOK
<1>3. Loaded \in Settings
  BY DefaultType DEF Loaded, ConfOK
<1>4. mem' \in Settings
  BY <1>1, <1>3 DEF Overridden, Settings, Switches
<1>5. ConfOK'
  BY <1>4, DefaultType DEF Launch, ConfOK
<1> QED BY <1>2, <1>5

LEMMA DiesType ==
    ASSUME ProcessOK, Dies
    PROVE  /\ boot' \in {"off", "created", "starting", "done"}
           /\ running' \in BOOLEAN /\ engine' \in [on : BOOLEAN, handle : BOOLEAN]
           /\ writes' \in [Writers -> {"none", "sent"}] /\ exits' \in [Tasks -> Places]
           /\ mem' \in Settings /\ draft' \in Settings \cup {NoDraft}
  BY DefaultType DEF Dies, Places

LEMMA EndsType ==
    ASSUME ProcessOK, ConfOK, Ends, UNCHANGED <<fan, disk, entry, events>>,
           excuse' \subseteq Excuses
    PROVE  ProcessOK' /\ ConfOK'
<1>1. life' \in [at : {"off", "on", "ended"}, flag : BOOLEAN, launches : 0 .. MaxLives]
  BY DEF Ends, ProcessOK
<1>2. ProcessOK'
  BY <1>1, DiesType DEF Ends, ProcessOK
<1>3. ConfOK'
  BY DiesType DEF Ends, ConfOK, disk
<1> QED BY <1>2, <1>3

LEMMA NotedType == ProcessOK /\ Noted => excuse' \subseteq Excuses
  BY DEF ProcessOK, Noted, Excuses, Departures

LEMMA AskedType ==
    ASSUME ProcessOK, ConfOK, NEW t \in Tasks, ExitRequested(t),
           UNCHANGED <<fan, entry, events>>, excuse' \subseteq Excuses
    PROVE  ProcessOK' /\ ConfOK'
<1>1. CASE running
  <2>1. ProcessOK'
    BY <1>1 DEF ExitRequested, ProcessOK, Places
  <2>2. ConfOK'
    BY <1>1 DEF ExitRequested, ConfOK, disk
  <2> QED BY <2>1, <2>2
<1>2. CASE ~running
  BY <1>2, EndsType DEF ExitRequested
<1> QED BY <1>1, <1>2

LEMMA ConfKept == ConfOK /\ UNCHANGED conf => ConfOK'
  BY DEF ConfOK, conf, disk

LEMMA ExitType ==
    ASSUME ProcessOK, ConfOK, NEW t \in Tasks, Exit(t)
    PROVE  ProcessOK' /\ ConfOK'
<1>1. CASE EngineStop(t)
  <2>1. engine' \in [on : BOOLEAN, handle : BOOLEAN] /\ exits' \in [Tasks -> Places]
    BY <1>1 DEF EngineStop, ProcessOK, Places
  <2> QED BY <1>1, <2>1, ConfKept DEF EngineStop, ProcessOK
<1>2. CASE EngineStopped(t)
  <2>1. exits' \in [Tasks -> Places] /\ excuse' \subseteq Excuses
    BY <1>2 DEF EngineStopped, ProcessOK, Places, Excuses, Departures
  <2>2. events' \in 0 .. MaxEvents
    BY <1>2, DesktopAssumption DEF EngineStopped, ConfOK
  <2> QED BY <1>2, <2>1, <2>2 DEF EngineStopped, ProcessOK, ConfOK, disk
<1>3. CASE RuntimeStop(t)
  BY <1>3, ConfKept DEF RuntimeStop, ProcessOK, Places
<1>4. CASE Release(t) \/ HandBack(t)
  <2>1. exits' \in [Tasks -> Places]
    BY <1>4 DEF Release, HandBack, ProcessOK, Places
  <2>2. /\ fan' \in {"firmware", "ours", "failsafe"} /\ excuse' \subseteq Excuses
        /\ UNCHANGED <<life, boot, running, engine, writes>>
    BY <1>4 DEF Release, HandBack, ProcessOK, Excuses, Departures
  <2>3. events' \in 0 .. MaxEvents /\ UNCHANGED <<mem, disk, draft, entry>>
    BY <1>4, DesktopAssumption DEF Release, HandBack, ConfOK
  <2>4. ProcessOK'
    BY <2>1, <2>2 DEF ProcessOK
  <2> QED BY <2>3, <2>4 DEF ConfOK, disk
<1>6. CASE Leave(t)
  BY <1>6, AskedType DEF Leave, ProcessOK
<1> QED BY <1>1, <1>2, <1>3, <1>4, <1>6 DEF Exit

(* What a command does to the settings.                                     *)
LEMMA ChangedType ==
    ASSUME ProcessOK, ConfOK, NEW s \in Savers, NEW settings \in Settings,
           NEW auto \in {"apply", NoChange}, Changed(s, settings, auto)
    PROVE  mem' \in Settings /\ saves' \in [Savers -> Saving] /\ excuse' \subseteq Excuses
  BY DEF Changed, ProcessOK, ConfOK, Saving, Excuses

LEMMA DraftType ==
    ProcessOK /\ ConfOK /\ (OpenDraft \/ SaveDraft \/ SwitchOff) => ProcessOK' /\ ConfOK'
<1> SUFFICES ASSUME ProcessOK, ConfOK, OpenDraft \/ SaveDraft \/ SwitchOff
             PROVE  ProcessOK' /\ ConfOK'
  OBVIOUS
<1>1. CASE OpenDraft
  BY <1>1, DesktopAssumption DEF OpenDraft, ProcessOK, ConfOK, disk
<1>2. CASE SaveDraft
  <2> PICK s \in Drafted :
        LET new == [draft EXCEPT ![s] = ~@]
        IN Changed("update", new, IF new["auto"] # mem["auto"] THEN "apply" ELSE NoChange)
    BY <1>2 DEF SaveDraft
  <2>1. draft \in Settings /\ s \in Switches
    BY <1>2, DesktopAssumption DEF SaveDraft, ConfOK
  <2> DEFINE new == [draft EXCEPT ![s] = ~@]
  <2>2. new \in Settings
    BY <2>1 DEF Settings
  <2>3. "update" \in Savers
    BY DEF Savers
  <2>4. mem' \in Settings /\ saves' \in [Savers -> Saving] /\ excuse' \subseteq Excuses
    <3> HIDE DEF new
    <3> QED BY <2>2, <2>3, ChangedType DEF new
  <2> QED BY <1>2, <2>4 DEF SaveDraft, ProcessOK, ConfOK
<1>3. CASE SwitchOff
  <2>1. [mem EXCEPT !["off"] = ~@] \in Settings
    BY DEF ConfOK, Settings, Switches
  <2>2. mem' \in Settings /\ saves' \in [Savers -> Saving] /\ excuse' \subseteq Excuses
    BY <1>3, <2>1, ChangedType DEF SwitchOff, Savers
  <2> QED BY <1>3, <2>2, DesktopAssumption DEF SwitchOff, ProcessOK, ConfOK
<1> QED BY <1>1, <1>2, <1>3

LEMMA SaveType ==
    ASSUME ProcessOK, ConfOK, NEW s \in Savers, Save(s)
    PROVE  ProcessOK' /\ ConfOK'
<1>1. saves[s] \in Saving /\ NoSave \in Saving
  BY DefaultType DEF ConfOK
<1>2. AfterSave(s) \in Saving
  BY <1>1 DEF AfterSave, Saving
<1>3. CASE SaveBegins(s)
  <2>1. [saves[s] EXCEPT !.at = "writing", !.into = "tmp"] \in Saving
    BY <1>1 DEF Saving
  <2>2. saves' \in [Savers -> Saving]
    BY <1>3, <2>1 DEF SaveBegins, ConfOK
  <2> QED BY <1>3, <2>2 DEF SaveBegins, ProcessOK, ConfOK
<1>4. CASE SaveWritten(s)
  BY <1>1, <1>4 DEF SaveWritten, ProcessOK, ConfOK, Saving
<1>5. CASE SaveRenames(s)
  <2>1. \A o \in Savers : [saves[o] EXCEPT !.into = Renamed(o)] \in Saving
    BY DEF ConfOK, Saving, Renamed
  <2>2. saves' \in [Savers -> Saving]
    <3>1. CASE tmp = NoFile
      BY <1>1, <1>5, <3>1 DEF SaveRenames, ConfOK
    <3>2. CASE tmp # NoFile
      BY <1>2, <1>5, <2>1, <3>2 DEF SaveRenames, ConfOK
    <3> QED BY <3>1, <3>2
  <2> QED BY <1>5, <2>2 DEF SaveRenames, ProcessOK, ConfOK
<1>6. CASE SaveFails(s)
  BY <1>1, <1>6, DesktopAssumption DEF SaveFails, ProcessOK, ConfOK, Excuses
<1> QED BY <1>3, <1>4, <1>5, <1>6 DEF Save

LEMMA EntryType == ProcessOK /\ ConfOK /\ ApplyEntry => ProcessOK' /\ ConfOK'
<1> SUFFICES ASSUME ProcessOK, ConfOK, ApplyEntry PROVE ProcessOK' /\ ConfOK'
  OBVIOUS
<1> DEFINE wanted == saves["update"].what["auto"]
           answers(actual) ==
               IF Corrected(wanted, actual) = wanted
               THEN /\ saves' = [saves EXCEPT !["update"] = NoSave]
                    /\ UNCHANGED <<mem, excuse>>
               ELSE Changed("update", [mem EXCEPT !["auto"] = Corrected(wanted, actual)],
                            NoChange)
<1>1. wanted \in BOOLEAN /\ "update" \in Savers
  BY DEF ConfOK, Saving, Settings, Savers, Switches
<1>2. ASSUME NEW actual \in BOOLEAN, answers(actual)
      PROVE  mem' \in Settings /\ saves' \in [Savers -> Saving] /\ excuse' \subseteq Excuses
  <2>1. CASE Corrected(wanted, actual) = wanted
    BY <1>1, <1>2, <2>1, DefaultType DEF ProcessOK, ConfOK
  <2>2. CASE Corrected(wanted, actual) # wanted
    <3>1. [mem EXCEPT !["auto"] = Corrected(wanted, actual)] \in Settings
      BY <1>2 DEF ConfOK, Settings, Switches, Corrected
    <3>2. Changed("update", [mem EXCEPT !["auto"] = Corrected(wanted, actual)], NoChange)
      BY <1>2, <2>2
    <3> QED BY <1>1, <3>1, <3>2, ChangedType
  <2> QED BY <2>1, <2>2
<1>3. \E actual \in BOOLEAN : answers(actual)
  BY <1>1 DEF ApplyEntry, ConfOK
<1>4. mem' \in Settings /\ saves' \in [Savers -> Saving] /\ excuse' \subseteq Excuses
  <2> HIDE DEF answers
  <2> QED BY <1>2, <1>3
<1>5. entry' \in BOOLEAN /\ events' \in 0 .. MaxEvents
  <2>1. \/ entry' = wanted /\ events' = events
        \/ entry' = entry /\ events < MaxEvents /\ events' = events + 1
    BY Zenon DEF ApplyEntry
  <2> HIDE DEF answers
  <2> QED BY <1>1, <2>1, DesktopAssumption DEF ConfOK
<1> QED BY <1>4, <1>5 DEF ApplyEntry, ProcessOK, ConfOK

LEMMA RememberedType == ProcessOK => Remembered \subseteq Excuses
  BY DEF ProcessOK, Remembered, Excuses

LEMMA SendsType == ProcessOK /\ ConfOK /\ (TickWrites \/ PersonWrites) => ProcessOK' /\ ConfOK'
<1> SUFFICES ASSUME ProcessOK, ConfOK, TickWrites \/ PersonWrites PROVE ProcessOK' /\ ConfOK'
  OBVIOUS
<1>1. writes' \in [Writers -> {"none", "sent"}]
  BY DEF TickWrites, PersonWrites, Sends, ProcessOK
<1>2. events' \in 0 .. MaxEvents
  BY DesktopAssumption DEF TickWrites, PersonWrites, ConfOK
<1> QED BY <1>1, <1>2 DEF TickWrites, PersonWrites, Sends, ProcessOK, ConfOK, disk

LEMMA LandsType ==
    ASSUME ProcessOK, ConfOK, NEW w \in Writers, WriteLands(w)
    PROVE  ProcessOK' /\ ConfOK'
<1>1. writes' \in [Writers -> {"none", "sent"}]
  BY DEF WriteLands, ProcessOK
<1>2. excuse' \subseteq Excuses
  BY DEF WriteLands, Undoes, ProcessOK, Excuses, Departures
<1> QED BY <1>1, <1>2, ConfKept DEF WriteLands, ProcessOK

LEMMA NextType == ProcessOK /\ ConfOK /\ [Next]_vars => ProcessOK' /\ ConfOK'
<1> SUFFICES ASSUME ProcessOK, ConfOK, [Next]_vars PROVE ProcessOK' /\ ConfOK'
  OBVIOUS
<1>1. CASE Launch
  BY <1>1, LaunchType
<1>2. CASE Boot
  <2>1. CASE BootRuntime
    BY <2>1, ConfKept DEF BootRuntime, ProcessOK
  <2>2. CASE BootEngine
    BY <2>2, ConfKept DEF BootEngine, ProcessOK
  <2> QED BY <1>2, <2>1, <2>2 DEF Boot
<1>3. CASE TickWrites \/ PersonWrites
  BY <1>3, SendsType
<1>4. CASE \E w \in Writers : WriteLands(w)
  BY <1>4, LandsType
<1>5. CASE Quit
  BY <1>5, NotedType, ConfKept DEF Quit, ProcessOK, Places
<1>6. CASE CloseWindow
  BY <1>6, NotedType, AskedType DEF CloseWindow, Tasks
<1>7. CASE \E t \in Tasks : Exit(t)
  BY <1>7, ExitType
<1>8. CASE Conf
  BY <1>8, DraftType, EntryType, SaveType DEF Conf
<1>9. CASE Crash
  <2>1. ProcessOK'
    BY <1>9, DiesType, RememberedType DEF Crash, ProcessOK
  <2>2. ConfOK'
    BY <1>9, DiesType DEF Crash, ConfOK, disk
  <2> QED BY <2>1, <2>2
<1>10. CASE Again
  BY <1>10, RememberedType, ConfKept DEF Again, ProcessOK
<1>11. CASE UNCHANGED vars
  BY <1>11, ConfKept DEF vars, ProcessOK
<1> QED BY <1>1, <1>2, <1>3, <1>4, <1>5, <1>6, <1>7, <1>8, <1>9, <1>10, <1>11 DEF Next

(* Whatever a user, a crash or the file system does, each variable has its  *)
(* type; in particular the settings in memory are always whole.             *)
THEOREM TypeCorrect == Spec => []TypeOK
<1>1. Init => ProcessOK /\ ConfOK
  BY InitType
<1>2. (ProcessOK /\ ConfOK) /\ [Next]_vars => (ProcessOK /\ ConfOK)'
  BY NextType
<1>3. ProcessOK /\ ConfOK => TypeOK
  BY TypeHalves
<1> QED BY <1>1, <1>2, <1>3, PTL DEF Spec

-----------------------------------------------------------------------------
(* Leaving *)

Undisturbed ==
    /\ excuse \cap {"early", "again", "slow", "late"} = {}
    /\ ~({"kept", "undone"} \subseteq excuse)

(* Where a leaving task is, of one that nobody disturbs: it has the engine's
   loop to wait for, and the runtime to stop, because it is the only one.   *)
Orderly ==
    /\ \A t, u \in Tasks : exits[t] # "none" /\ exits[u] # "none" => t = u
    /\ \A t \in Tasks : exits[t] # "none" => boot = "done"
    /\ boot \in {"starting", "done"}
          /\ (\A t \in Tasks : exits[t] \in {"none", "stopping", "waiting", "stopped"})
       => running
    /\ boot = "done" /\ (\A t \in Tasks : exits[t] \in {"none", "stopping"}) => engine.handle
    /\ \A t \in Tasks :
          /\ exits[t] \notin {"none", "stopping"} => ~engine.on
          /\ exits[t] \notin {"none", "stopping", "waiting"} => writes["engine"] = "none"
          /\ exits[t] \in {"releasing", "handing", "leaving"} => ~running
          /\ exits[t] = "handing" /\ "undone" \notin excuse => fan # "ours"
          /\ exits[t] = "leaving" => fan # "ours"

LeavingInv ==
    /\ ~On => boot = "off" /\ \A t \in Tasks : exits[t] = "none"
    /\ life.at = "ended" /\ Undisturbed => fan # "ours"
    /\ On /\ Undisturbed => Orderly

LEMMA InitLeaving == Init => LeavingInv
  BY DEF Init, LeavingInv, On

LEMMA LeavingKept ==
    ASSUME LeavingInv, UNCHANGED <<life, boot, running, engine, writes, exits, fan>>,
           Undisturbed' => Undisturbed, excuse \subseteq excuse'
    PROVE  LeavingInv'
  BY DEF LeavingInv, Orderly, On

(* What a command does to the settings disturbs nobody who leaves.          *)
LEMMA ConfLeaving == LeavingInv /\ Conf => LeavingInv'
<1> SUFFICES ASSUME LeavingInv, Conf PROVE LeavingInv'
  OBVIOUS
<1>1. /\ UNCHANGED <<life, boot, running, engine, writes, exits, fan>>
      /\ excuse' = excuse \/ excuse' = excuse \cup {"told"} \/ excuse' = excuse \cup {"overlap"}
  <2>1. CASE OpenDraft
    BY <2>1 DEF OpenDraft
  <2>2. CASE SaveDraft
    BY <2>2 DEF SaveDraft, Changed
  <2>3. CASE SwitchOff
    BY <2>3 DEF SwitchOff, Changed
  <2>4. CASE ApplyEntry
    BY <2>4 DEF ApplyEntry, Changed
  <2>5. CASE \E s \in Savers : Save(s)
    BY <2>5 DEF Save, SaveBegins, SaveWritten, SaveRenames, SaveFails
  <2> QED BY <2>1, <2>2, <2>3, <2>4, <2>5 DEF Conf
<1>2. Undisturbed' => Undisturbed
  BY <1>1 DEF Undisturbed
<1> QED BY <1>1, <1>2, LeavingKept

LEMMA DiesLeaving ==
    ASSUME Dies PROVE boot' = "off" /\ \A t \in Tasks : exits[t]' = "none"
  BY DEF Dies

(* Who asks without disturbing anyone is the first, after the boot.         *)
LEMMA NotedAlone ==
    ASSUME Noted, Undisturbed'
    PROVE  Undisturbed /\ boot = "done" /\ \A t \in Tasks : exits[t] = "none"
  BY DEF Noted, Undisturbed, Asked

LEMMA AskLeaving == ProcessOK /\ LeavingInv /\ (Quit \/ CloseWindow) => LeavingInv'
<1> SUFFICES ASSUME ProcessOK, LeavingInv, NEW t \in Tasks, On, Noted,
                    fan' = fan,
                    \/ /\ exits' = [exits EXCEPT ![t] = "stopping"]
                       /\ UNCHANGED <<life, boot, running, engine, writes>>
                    \/ ~running /\ Ends
             PROVE  LeavingInv'
  BY DEF Quit, CloseWindow, ExitRequested, conf, Tasks
<1>1. CASE Undisturbed'
  <2>1. boot = "done" /\ (\A u \in Tasks : exits[u] = "none") /\ Orderly
    BY <1>1, NotedAlone DEF LeavingInv
  <2>2. running /\ engine.handle
    BY <2>1 DEF Orderly
  <2>3. exits' = [exits EXCEPT ![t] = "stopping"] /\ UNCHANGED <<life, boot, running, engine, writes>>
    BY <2>2
  <2>4. \A u \in Tasks : exits'[u] = IF u = t THEN "stopping" ELSE "none"
    BY <2>1, <2>3 DEF ProcessOK
  <2> QED BY <2>1, <2>2, <2>3, <2>4 DEF LeavingInv, Orderly, On
<1>2. CASE ~Undisturbed'
  <2>1. CASE UNCHANGED life
    BY <1>2, <2>1 DEF LeavingInv, On
  <2>2. CASE Ends
    BY <1>2, <2>2, DiesLeaving DEF LeavingInv, On, Ends
  <2> QED BY <2>1, <2>2
<1> QED BY <1>1, <1>2

(* The sequence of one leaving task.                                        *)
LEMMA ExitLeaving ==
    ASSUME ProcessOK, LeavingInv, NEW t \in Tasks, Exit(t)
    PROVE  LeavingInv'
<1>1. On
  BY DEF Exit, EngineStop, EngineStopped, RuntimeStop, Release, HandBack, Leave
<1>2. CASE ~Undisturbed'
  <2>1. CASE UNCHANGED life
    BY <1>1, <1>2, <2>1 DEF LeavingInv, On
  <2>2. CASE Ends
    BY <1>2, <2>2, DiesLeaving DEF LeavingInv, On, Ends
  <2> QED BY <2>1, <2>2 DEF Exit, EngineStop, EngineStopped, RuntimeStop, Release, HandBack,
                             Leave, ExitRequested
<1>3. CASE Undisturbed'
  <2>1. Undisturbed /\ excuse \subseteq excuse'
    BY <1>3 DEF Undisturbed, Exit, EngineStop, EngineStopped, RuntimeStop, Release, HandBack, Leave
  <2>2. Orderly
    BY <1>1, <2>1 DEF LeavingInv
  <2>3. exits[t] # "none"
    BY DEF Exit, EngineStop, EngineStopped, RuntimeStop, Release, HandBack, Leave
  <2>4. boot = "done" /\ \A u \in Tasks \ {t} : exits[u] = "none"
    BY <2>2, <2>3 DEF Orderly
  <2>5. ASSUME NEW place \in Places, exits' = [exits EXCEPT ![t] = place]
        PROVE  \A u \in Tasks : exits'[u] = IF u = t THEN place ELSE "none"
    BY <2>4, <2>5 DEF ProcessOK
  <2>6. CASE EngineStop(t)
    <3>1. engine.handle
      BY <2>2, <2>4, <2>6 DEF EngineStop, Orderly
    <3>2. running
      BY <2>2, <2>4, <2>6 DEF EngineStop, Orderly
    <3>3. \A u \in Tasks : exits'[u] = IF u = t THEN "waiting" ELSE "none"
      BY <2>5, <2>6, <3>1 DEF EngineStop, Places
    <3> QED BY <1>1, <2>2, <2>4, <2>6, <3>2, <3>3 DEF EngineStop, LeavingInv, Orderly, On
  <2>7. CASE EngineStopped(t)
    <3>1. writes["engine"] = "none"
      BY <1>3, <2>7 DEF EngineStopped, Undisturbed
    <3>2. running /\ ~engine.on
      BY <2>2, <2>4, <2>7 DEF EngineStopped, Orderly
    <3>3. \A u \in Tasks : exits'[u] = IF u = t THEN "stopped" ELSE "none"
      BY <2>5, <2>7 DEF EngineStopped, Places
    <3> QED BY <1>1, <2>2, <2>4, <2>7, <3>1, <3>2, <3>3 DEF EngineStopped, LeavingInv, Orderly, On
  <2>8. CASE RuntimeStop(t)
    <3>1. running /\ ~engine.on /\ writes["engine"] = "none"
      BY <2>2, <2>4, <2>8 DEF RuntimeStop, Orderly
    <3>2. \A u \in Tasks : exits'[u] = IF u = t THEN "releasing" ELSE "none"
      BY <2>5, <2>8, <3>1 DEF RuntimeStop, Places
    <3> QED BY <1>1, <2>2, <2>4, <2>8, <3>1, <3>2 DEF RuntimeStop, LeavingInv, Orderly, On
  <2>9. CASE Release(t)
    <3>1. ~running /\ ~engine.on /\ writes["engine"] = "none"
      BY <2>2, <2>9 DEF Release, Orderly
    <3>2. \A u \in Tasks : exits'[u] = IF u = t THEN "handing" ELSE "none"
      BY <2>5, <2>9 DEF Release, Places
    <3>3. "undone" \notin excuse' => fan' # "ours"
      BY <2>9 DEF Release
    <3>4. UNCHANGED <<life, boot, running, engine, writes>>
      BY <2>9 DEF Release
    <3> QED BY <1>1, <2>2, <2>4, <3>1, <3>2, <3>3, <3>4 DEF LeavingInv, Orderly, On
  <2>10. CASE HandBack(t)
    <3>1. ~running /\ ~engine.on /\ writes["engine"] = "none"
      BY <2>2, <2>10 DEF HandBack, Orderly
    <3>2. \A u \in Tasks : exits'[u] = IF u = t THEN "leaving" ELSE "none"
      BY <2>5, <2>10 DEF HandBack, Places
    <3>3. fan' # "ours"
      <4>1. CASE fan' = "firmware"
        BY <4>1
      <4>2. CASE excuse' = excuse \cup {"kept"} /\ fan' = fan
        BY <1>3, <2>2, <2>10, <4>2 DEF HandBack, Orderly, Undisturbed
      <4> QED BY <2>10, <4>1, <4>2 DEF HandBack
    <3>4. UNCHANGED <<life, boot, running, engine, writes>>
      BY <2>10 DEF HandBack
    <3> QED BY <1>1, <2>2, <2>4, <3>1, <3>2, <3>3, <3>4 DEF LeavingInv, Orderly, On
  <2>11. CASE Leave(t)
    <3>1. ~running /\ fan # "ours"
      BY <2>2, <2>11 DEF Leave, Orderly
    <3>2. Ends /\ fan' = fan
      BY <2>11, <3>1 DEF Leave, ExitRequested
    <3> QED BY <3>1, <3>2, DiesLeaving DEF LeavingInv, Ends, On, ProcessOK
  <2> QED BY <2>6, <2>7, <2>8, <2>9, <2>10, <2>11 DEF Exit
<1> QED BY <1>2, <1>3

(* The engine writes only before it was stopped; a person's write that lands *)
(* once the release was made is noted.                                       *)
LEMMA SendsLeaving == ProcessOK /\ LeavingInv /\ (TickWrites \/ PersonWrites) => LeavingInv'
<1> SUFFICES ASSUME ProcessOK, LeavingInv, TickWrites \/ PersonWrites, Undisturbed
             PROVE  LeavingInv'
  BY DEF TickWrites, PersonWrites, Sends, LeavingInv, Undisturbed, On
<1>1. On /\ Orderly /\ UNCHANGED <<life, boot, running, engine, exits, fan, excuse>>
  BY DEF TickWrites, PersonWrites, Sends, LeavingInv
<1>2. engine.on \/ writes'["engine"] = writes["engine"]
  BY DEF TickWrites, PersonWrites, Sends, ProcessOK, Writers
<1> QED BY <1>1, <1>2 DEF LeavingInv, Orderly, On

LEMMA LandsLeaving ==
    ASSUME ProcessOK, LeavingInv, NEW w \in Writers, WriteLands(w)
    PROVE  LeavingInv'
<1>1. On /\ On' /\ UNCHANGED <<life, boot, running, engine, exits>>
  BY DEF WriteLands, On
<1>2. excuse \subseteq excuse'
  BY DEF WriteLands
<1>3. Undisturbed' => Undisturbed
  BY <1>2 DEF Undisturbed
<1>4. writes'["engine"] \in {"none", writes["engine"]}
  BY DEF WriteLands, ProcessOK, Writers
<1>5. ASSUME NEW t \in Tasks, exits[t] = "handing" PROVE "undone" \in excuse'
  BY <1>5 DEF WriteLands, Undoes
<1>6. ASSUME NEW t \in Tasks, exits[t] = "leaving" PROVE "late" \in excuse'
  BY <1>6 DEF WriteLands, Undoes
<1>7. ASSUME Undisturbed' PROVE Orderly'
  <2>1. Orderly
    BY <1>1, <1>3, <1>7 DEF LeavingInv
  <2>2. \A t \in Tasks : exits[t] # "leaving"
    BY <1>6, <1>7 DEF Undisturbed
  <2> QED BY <1>1, <1>4, <1>5, <2>1, <2>2 DEF Orderly
<1> QED BY <1>1, <1>7 DEF LeavingInv, On

LEMMA NextLeaving == ProcessOK /\ LeavingInv /\ [Next]_vars => LeavingInv'
<1> SUFFICES ASSUME ProcessOK, LeavingInv, [Next]_vars PROVE LeavingInv'
  OBVIOUS
<1>1. CASE Launch
  <2>1. \A t \in Tasks : exits'[t] = "none"
    BY <1>1 DEF Launch, LeavingInv, On
  <2>2. life'.at = "on" /\ boot' = "created"
    BY <1>1 DEF Launch
  <2> QED BY <2>1, <2>2 DEF LeavingInv, Orderly, On
<1>2. CASE BootRuntime
  BY <1>2 DEF BootRuntime, LeavingInv, Orderly, On, Undisturbed
<1>3. CASE BootEngine
  BY <1>3 DEF BootEngine, LeavingInv, Orderly, On, Undisturbed
<1>4. CASE TickWrites \/ PersonWrites
  BY <1>4, SendsLeaving
<1>5. CASE \E w \in Writers : WriteLands(w)
  BY <1>5, LandsLeaving
<1>6. CASE Quit \/ CloseWindow
  BY <1>6, AskLeaving
<1>7. CASE \E t \in Tasks : Exit(t)
  BY <1>7, ExitLeaving
<1>8. CASE Conf
  BY <1>8, ConfLeaving
<1>9. CASE Crash
  BY <1>9, DiesLeaving DEF Crash, LeavingInv, On, ProcessOK
<1>10. CASE Again
  BY <1>10 DEF Again, LeavingInv, On, ProcessOK
<1>11. CASE UNCHANGED vars
  BY <1>11, LeavingKept DEF vars, Undisturbed
<1> QED BY <1>1, <1>2, <1>3, <1>4, <1>5, <1>6, <1>7, <1>8, <1>9, <1>10, <1>11 DEF Next, Boot

(* Whoever leaves the application after its boot, asked once and with no     *)
(* write of the engine that outlives its two seconds, leaves no fan at the   *)
(* duty it gave it, whatever a person writes meanwhile, up to the hand-back: *)
(* the adapter has handed it back, or the fail-safe duty stands.             *)
THEOREM ExitsHandBack == Spec => []ExitHandsBack
<1>1. Init => ProcessOK /\ ConfOK /\ LeavingInv
  BY InitType, InitLeaving
<1>2. (ProcessOK /\ ConfOK /\ LeavingInv) /\ [Next]_vars => (ProcessOK /\ ConfOK /\ LeavingInv)'
  BY NextType, NextLeaving
<1>3. ProcessOK /\ ConfOK /\ LeavingInv => ExitHandsBack
  BY DEF LeavingInv, ExitHandsBack, Undisturbed
<1> QED BY <1>1, <1>2, <1>3, PTL DEF Spec

-----------------------------------------------------------------------------
(* Settings *)

Clean == excuse \cap {"overlap", "told"} = {}

Agrees == \A x \in Switches : file[x] = mem[x] \/ (x = "dry" /\ life.flag)

(* One command saves at a time, what is in force, by way of its own file.   *)
Current ==
    /\ \A s, o \in Savers : saves[s].at # "idle" /\ saves[o].at # "idle" => s = o
    /\ \A s \in Savers :
          /\ saves[s].at # "idle" => saves[s].what = mem
          /\ saves[s].at \in {"writing", "written"} => saves[s].into = "tmp"
          /\ saves[s].at = "written" => tmp = saves[s].what
    /\ (\A s \in Savers : saves[s].at \in {"idle", "entry"}) /\ file # NoFile => Agrees

DiskInv ==
    /\ Clean => file # Torn
    /\ On /\ Clean => Current

LEMMA DiskIsCurrent == DiskInv => FileIsCurrent
  BY DEF DiskInv, Clean, Current, Agrees, FileIsCurrent

LEMMA InitDisk == Init => DiskInv
  BY DesktopAssumption, DefaultType DEF Init, DiskInv, On

LEMMA DiskKept ==
    ASSUME DiskInv, UNCHANGED <<life, mem, disk>>, Clean' => Clean
    PROVE  DiskInv'
  BY DEF DiskInv, Current, Agrees, On, disk

(* What a process leaves behind when it ends.                               *)
LEMMA DiskLeft ==
    ASSUME DiskInv, ~On', UNCHANGED file, Clean' => Clean
    PROVE  DiskInv'
  BY DEF DiskInv

LEMMA LaunchDisk == ProcessOK /\ ConfOK /\ DiskInv /\ Launch => DiskInv'
<1> SUFFICES ASSUME ProcessOK, ConfOK, DiskInv, Launch, Clean' PROVE DiskInv'
  BY DEF DiskInv
<1> PICK flag \in Flags :
        /\ life' = [at |-> "on", flag |-> flag, launches |-> life.launches + 1]
        /\ mem' = Overridden(Loaded, flag)
  BY DEF Launch
<1>1. file # Torn /\ file' = file
  BY DEF DiskInv, Launch, Clean
<1>2. \A s \in Savers : saves'[s].at = "idle"
  BY DEF Launch, NoSave
<1>3. file # NoFile => Agrees'
  <2> SUFFICES ASSUME file # NoFile, NEW x \in Switches
               PROVE  file'[x] = mem'[x] \/ (x = "dry" /\ life'.flag)
    BY DEF Agrees
  <2>1. Loaded = file /\ file \in Settings
    BY <1>1 DEF Loaded, ConfOK
  <2>2. flag \in BOOLEAN /\ file["dry"] \in BOOLEAN
    BY <2>1, DesktopAssumption DEF Settings, Switches
  <2>3. mem' = [file EXCEPT !["dry"] = @ \/ flag]
    BY <2>1 DEF Overridden
  <2>4. CASE x = "dry"
    BY <1>1, <2>1, <2>2, <2>3, <2>4 DEF Settings, Switches
  <2>5. CASE x # "dry"
    BY <1>1, <2>1, <2>3, <2>5 DEF Settings, Switches
  <2> QED BY <2>4, <2>5
<1> QED BY <1>1, <1>2, <1>3 DEF DiskInv, Current

(* A command that is alone puts what it saves into force.                   *)
LEMMA ChangedDisk ==
    ASSUME ProcessOK, ConfOK, DiskInv, On, NEW s \in Savers, NEW settings \in Settings,
           NEW auto, Changed(s, settings, auto), UNCHANGED <<life, file, tmp>>
    PROVE  DiskInv'
<1> SUFFICES ASSUME Clean' PROVE DiskInv'
  BY DEF DiskInv
<1>1. Clean /\ \A o \in Savers \ {s} : saves[o].at = "idle"
  BY DEF Changed, Clean
<1>2. \A o \in Savers : saves'[o] =
          IF o = s THEN [at |-> "changed", what |-> settings, into |-> "tmp", auto |-> auto]
                   ELSE saves[o]
  BY DEF Changed, ConfOK
<1>3. saves'[s].at = "changed" /\ saves'[s].what = mem'
  BY <1>2 DEF Changed
<1> QED BY <1>1, <1>2, <1>3 DEF DiskInv, Current

LEMMA SaveDisk ==
    ASSUME ProcessOK, ConfOK, DiskInv, NEW s \in Savers, Save(s)
    PROVE  DiskInv'
<1> SUFFICES ASSUME Clean' PROVE DiskInv'
  BY DEF DiskInv
<1>1. Clean /\ On /\ UNCHANGED <<life, mem>> /\ ~SaveFails(s)
  BY DEF Save, SaveBegins, SaveWritten, SaveRenames, SaveFails, Clean
<1>2. Current /\ file # Torn
  BY <1>1 DEF DiskInv
<1>3. saves[s].at # "idle"
  BY <1>1 DEF Save, SaveBegins, SaveWritten, SaveRenames
<1>4. (\A o \in Savers \ {s} : saves[o].at = "idle") /\ saves[s].what = mem
  BY <1>2, <1>3 DEF Current
<1>5. CASE SaveBegins(s)
  <2>1. \A o \in Savers : saves'[o] =
            IF o = s THEN [saves[s] EXCEPT !.at = "writing", !.into = "tmp"] ELSE saves[o]
    BY <1>5 DEF SaveBegins, ConfOK
  <2>2. saves[s] \in Saving /\ saves'[s] = [saves[s] EXCEPT !.at = "writing", !.into = "tmp"]
    BY <2>1 DEF ConfOK
  <2>3. saves'[s].at = "writing" /\ saves'[s].into = "tmp" /\ saves'[s].what = mem
    <3>1. saves'[s].at = "writing" /\ saves'[s].into = "tmp" /\ saves'[s].what = saves[s].what
      BY ONLY <2>2 DEF Saving
    <3> QED BY <1>4, <3>1
  <2>4. \A o \in Savers \ {s} : saves'[o].at = "idle"
    BY <1>4, <2>1
  <2>5. file' = file /\ mem' = mem
    BY <1>5 DEF SaveBegins
  <2> QED BY <1>1, <1>2, <2>3, <2>4, <2>5 DEF DiskInv, Current
<1>6. CASE SaveWritten(s)
  <2>1. saves[s].into = "tmp"
    BY <1>2, <1>6 DEF SaveWritten, Current
  <2>2. \A o \in Savers : saves'[o] =
            IF o = s THEN [saves[s] EXCEPT !.at = "written"] ELSE saves[o]
    BY <1>6 DEF SaveWritten, ConfOK
  <2>3. saves'[s].at = "written" /\ saves'[s].into = "tmp" /\ saves'[s].what = mem
    BY <1>4, <2>1, <2>2 DEF ConfOK, Saving
  <2>4. tmp' = mem /\ file' = file
    BY <1>4, <1>6, <2>1 DEF SaveWritten
  <2> QED BY <1>1, <1>2, <1>4, <2>2, <2>3, <2>4 DEF DiskInv, Current
<1>7. CASE SaveRenames(s)
  <2>1. tmp = mem /\ tmp # NoFile
    BY <1>2, <1>4, <1>7, DesktopAssumption DEF SaveRenames, Current, ConfOK
  <2>2. file' = mem /\ mem # Torn
    BY <1>7, <2>1, DesktopAssumption DEF SaveRenames, ConfOK
  <2>3. \A o \in Savers : saves'[o] = IF o = s THEN AfterSave(s) ELSE saves[o]
    BY <1>4, <1>7, <2>1 DEF SaveRenames
  <2>4. /\ AfterSave(s).at \in {"idle", "entry"}
        /\ AfterSave(s).at # "idle" => AfterSave(s).what = mem
    BY <1>4 DEF AfterSave, NoSave, ConfOK, Saving
  <2>5. Agrees'
    BY <1>1, <2>2 DEF Agrees
  <2> QED BY <1>1, <1>4, <2>2, <2>3, <2>4, <2>5 DEF DiskInv, Current
<1> QED BY <1>1, <1>5, <1>6, <1>7 DEF Save

(* What ApplyEntry does: the entry is as wanted, or the settings are made   *)
(* to say what it is.                                                       *)
LEMMA EntryOutcome ==
    ASSUME ProcessOK, ConfOK, ApplyEntry
    PROVE  LET wanted == saves["update"].what["auto"] IN
           /\ On /\ saves["update"].at = "entry" /\ UNCHANGED <<life, file, tmp>>
           /\ \/ /\ saves' = [saves EXCEPT !["update"] = NoSave] /\ UNCHANGED <<mem, excuse>>
                 /\ entry' = wanted \/ ~wanted
              \/ \E actual \in BOOLEAN :
                    /\ Changed("update", [mem EXCEPT !["auto"] = actual], NoChange)
                    /\ entry' = entry /\ (actual => entry)
<1> DEFINE wanted == saves["update"].what["auto"]
           answers(actual) ==
               IF Corrected(wanted, actual) = wanted
               THEN /\ saves' = [saves EXCEPT !["update"] = NoSave]
                    /\ UNCHANGED <<mem, excuse>>
               ELSE Changed("update", [mem EXCEPT !["auto"] = Corrected(wanted, actual)],
                            NoChange)
<1>1. wanted \in BOOLEAN /\ entry \in BOOLEAN
  BY DEF ConfOK, Saving, Settings, Savers, Switches
<1>2. On /\ saves["update"].at = "entry" /\ UNCHANGED <<life, file, tmp>>
  BY Zenon DEF ApplyEntry
<1>3. \/ entry' = wanted /\ answers(wanted)
      \/ entry' = entry /\ (answers(FALSE) \/ (~wanted /\ answers(entry)))
  BY Zenon DEF ApplyEntry
<1>4. CASE entry' = wanted /\ answers(wanted)
  BY <1>1, <1>2, <1>4 DEF Corrected
<1>5. CASE entry' = entry /\ answers(FALSE)
  <2>1. CASE ~wanted
    BY <1>1, <1>2, <1>5, <2>1 DEF Corrected
  <2>2. CASE wanted
    BY <1>1, <1>2, <1>5, <2>2 DEF Corrected
  <2> QED BY <2>1, <2>2
<1>6. CASE entry' = entry /\ ~wanted /\ answers(entry)
  <2>1. CASE ~entry
    BY <1>1, <1>2, <1>6, <2>1 DEF Corrected
  <2>2. CASE entry
    BY <1>1, <1>2, <1>6, <2>2 DEF Corrected
  <2> QED BY <2>1, <2>2
<1> QED BY <1>3, <1>4, <1>5, <1>6

LEMMA EntryDisk == ProcessOK /\ ConfOK /\ DiskInv /\ ApplyEntry => DiskInv'
<1> SUFFICES ASSUME ProcessOK, ConfOK, DiskInv, ApplyEntry PROVE DiskInv'
  OBVIOUS
<1>1. On /\ saves["update"].at = "entry" /\ UNCHANGED <<life, file, tmp>>
  BY EntryOutcome
<1>2. CASE saves' = [saves EXCEPT !["update"] = NoSave] /\ UNCHANGED <<mem, excuse>>
  <2> SUFFICES ASSUME Clean PROVE DiskInv'
    BY <1>2 DEF DiskInv, Clean
  <2>1. Current /\ file # Torn
    BY <1>1 DEF DiskInv
  <2>2. \A s \in Savers \ {"update"} : saves[s].at = "idle"
    BY <1>1, <2>1 DEF Current, Savers
  <2>3. \A s \in Savers : saves'[s].at = "idle"
    BY <1>2, <2>2 DEF NoSave, ConfOK
  <2>4. file # NoFile => Agrees
    BY <1>1, <2>1, <2>2 DEF Current
  <2> QED BY <1>1, <1>2, <2>1, <2>3, <2>4 DEF DiskInv, Current, Agrees
<1>3. ASSUME NEW actual \in BOOLEAN,
             Changed("update", [mem EXCEPT !["auto"] = actual], NoChange)
      PROVE  DiskInv'
  <2>1. [mem EXCEPT !["auto"] = actual] \in Settings /\ "update" \in Savers
    BY DEF ConfOK, Settings, Switches, Savers
  <2> QED BY <1>1, <1>3, <2>1, ChangedDisk
<1> QED BY <1>2, <1>3, EntryOutcome

(* Saving a draft, and turning one switch.                                  *)
LEMMA DraftOutcome ==
    ASSUME ProcessOK, ConfOK, SaveDraft
    PROVE  \E new \in Settings :
              /\ Changed("update", new, IF new["auto"] # mem["auto"] THEN "apply" ELSE NoChange)
              /\ On /\ UNCHANGED <<life, file, tmp, entry>>
<1> PICK s \in Drafted :
       LET new == [draft EXCEPT ![s] = ~@]
       IN Changed("update", new, IF new["auto"] # mem["auto"] THEN "apply" ELSE NoChange)
  BY DEF SaveDraft
<1>1. draft \in Settings /\ s \in Switches
  BY DesktopAssumption DEF SaveDraft, ConfOK
<1>2. [draft EXCEPT ![s] = ~@] \in Settings
  BY <1>1 DEF Settings
<1> WITNESS [draft EXCEPT ![s] = ~@] \in Settings
<1> QED BY DEF SaveDraft

LEMMA SwitchOutcome ==
    ASSUME ProcessOK, ConfOK, SwitchOff
    PROVE  /\ [mem EXCEPT !["off"] = ~@] \in Settings
           /\ Changed("switch", [mem EXCEPT !["off"] = ~@], NoChange)
           /\ On /\ UNCHANGED <<life, file, tmp, entry>>
  BY DEF SwitchOff, ConfOK, Settings, Switches

LEMMA ConfDisk == ProcessOK /\ ConfOK /\ DiskInv /\ Conf => DiskInv'
<1> SUFFICES ASSUME ProcessOK, ConfOK, DiskInv, Conf PROVE DiskInv'
  OBVIOUS
<1> USE DEF Savers
<1>1. CASE OpenDraft
  BY <1>1, DiskKept DEF OpenDraft, Clean
<1>2. CASE SaveDraft
  <2> PICK new \in Settings :
        /\ Changed("update", new, IF new["auto"] # mem["auto"] THEN "apply" ELSE NoChange)
        /\ On /\ UNCHANGED <<life, file, tmp, entry>>
    BY <1>2, DraftOutcome
  <2> QED BY ChangedDisk
<1>3. CASE SwitchOff
  BY <1>3, SwitchOutcome, ChangedDisk
<1>4. CASE ApplyEntry
  BY <1>4, EntryDisk
<1>5. CASE \E s \in Savers : Save(s)
  BY <1>5, SaveDisk
<1> QED BY <1>1, <1>2, <1>3, <1>4, <1>5 DEF Conf

(* Every other step leaves the settings and their files alone, or ends the  *)
(* process.                                                                 *)
LEMMA Elsewhere ==
    ASSUME ProcessOK, [Next]_vars, ~Launch, ~Conf
    PROVE  /\ UNCHANGED <<disk, entry>> /\ (Clean' => Clean)
           /\ "cut" \in excuse => "cut" \in excuse'
           /\ \/ UNCHANGED <<life, mem>>
              \/ /\ ~On' /\ (life'.at = "off" => Remembered \subseteq excuse')
<1>1. CASE \/ Boot \/ TickWrites \/ PersonWrites \/ (\E w \in Writers : WriteLands(w))
           \/ Quit \/ UNCHANGED vars
  <2>1. CASE Boot \/ Quit \/ UNCHANGED vars
    BY <2>1 DEF Boot, BootRuntime, BootEngine, Quit, Noted, conf, disk, vars, Clean
  <2>2. CASE TickWrites \/ PersonWrites
    BY <2>2 DEF TickWrites, PersonWrites, Sends, Clean
  <2>3. CASE \E w \in Writers : WriteLands(w)
    BY <2>3 DEF WriteLands, Undoes, Clean, conf
  <2> QED BY <1>1, <2>1, <2>2, <2>3
<1>2. ASSUME NEW t \in Tasks, ExitRequested(t), UNCHANGED <<entry>>,
             excuse' = excuse \/ Noted
      PROVE  /\ UNCHANGED <<disk, entry>> /\ (Clean' => Clean)
             /\ "cut" \in excuse => "cut" \in excuse'
             /\ \/ UNCHANGED <<life, mem>>
                \/ /\ ~On' /\ (life'.at = "off" => Remembered \subseteq excuse')
  <2>1. (Clean' => Clean) /\ ("cut" \in excuse => "cut" \in excuse')
    BY <1>2 DEF Noted, Clean
  <2>2. CASE running
    BY <1>2, <2>1, <2>2 DEF ExitRequested
  <2>3. CASE ~running
    <3>1. life'.at = "ended"
      BY <1>2, <2>3 DEF ExitRequested, Ends, ProcessOK
    <3> QED BY <1>2, <2>1, <2>3, <3>1 DEF ExitRequested, On
  <2> QED BY <2>2, <2>3
<1>3. CASE CloseWindow
  BY <1>2, <1>3 DEF CloseWindow, Tasks
<1>4. CASE \E t \in Tasks : Exit(t)
  <2> PICK t \in Tasks : Exit(t)
    BY <1>4
  <2>1. CASE EngineStop(t) \/ EngineStopped(t) \/ RuntimeStop(t) \/ Release(t) \/ HandBack(t)
    BY <2>1 DEF EngineStop, EngineStopped, RuntimeStop, Release, HandBack, conf, disk, Clean
  <2>2. CASE Leave(t)
    BY <1>2, <2>2 DEF Leave
  <2> QED BY <2>1, <2>2 DEF Exit
<1>5. CASE Crash \/ Again
  BY <1>5 DEF Crash, Again, Remembered, Departures, Clean, On, ProcessOK, conf
<1> QED BY <1>1, <1>3, <1>4, <1>5 DEF Next

LEMMA NextDisk == ProcessOK /\ ConfOK /\ DiskInv /\ [Next]_vars => DiskInv'
  BY LaunchDisk, ConfDisk, Elsewhere, DiskKept, DiskLeft DEF disk

(* settings.json is whole at every moment and says what is in force once    *)
(* nothing is being saved, for any draft and through any crash.             *)
THEOREM SettingsStaySafe == Spec => []SettingsAreSafe
<1>1. Init => ProcessOK /\ ConfOK /\ DiskInv
  BY InitType, InitDisk
<1>2. (ProcessOK /\ ConfOK /\ DiskInv) /\ [Next]_vars => (ProcessOK /\ ConfOK /\ DiskInv)'
  BY NextType, NextDisk
<1>3. ProcessOK /\ ConfOK /\ DiskInv => SettingsAreSafe
  BY TypeHalves, DiskIsCurrent DEF SettingsAreSafe
<1> QED BY <1>1, <1>2, <1>3, PTL DEF Spec

-----------------------------------------------------------------------------
(* The startup entry *)

Uncut == Clean /\ "cut" \notin excuse

Idle == saves["update"].at = "idle"

(* The settings promise a start only if it will happen, but for the time    *)
(* their command is under way; and so do the settings a next launch reads.  *)
PromiseInv ==
    Uncut =>
        /\ life.at = "off" => Idle
        /\ Idle /\ file # NoFile => (file["auto"] => entry)
        /\ On => /\ Idle \/ saves["update"].auto = NoChange => (mem["auto"] => entry)
                 /\ Idle /\ file # NoFile => file["auto"] = mem["auto"]

LEMMA PromiseIsKept == PromiseInv => StartIsTrue
  BY DEF PromiseInv, Uncut, Clean, Idle, StartIsTrue

LEMMA InitPromise == Init => PromiseInv
  BY DesktopAssumption DEF Init, PromiseInv, Idle, On, Default, NoSave, Savers, Switches

LEMMA LaunchPromise == ProcessOK /\ ConfOK /\ DiskInv /\ PromiseInv /\ Launch => PromiseInv'
<1> SUFFICES ASSUME ProcessOK, ConfOK, DiskInv, PromiseInv, Launch, Uncut' PROVE PromiseInv'
  BY DEF PromiseInv
<1> PICK flag \in Flags :
        /\ life' = [at |-> "on", flag |-> flag, launches |-> life.launches + 1]
        /\ mem' = Overridden(Loaded, flag)
  BY DEF Launch
<1>1. Uncut /\ Idle /\ Idle' /\ UNCHANGED entry
  BY DEF Launch, PromiseInv, Uncut, Clean, Idle, NoSave, Savers
<1>2. file # Torn /\ file' = file
  BY <1>1 DEF DiskInv, Launch, Uncut
<1>3. Loaded \in Settings /\ mem'["auto"] = Loaded["auto"]
  <2>1. Loaded \in Settings
    BY DefaultType DEF Loaded, ConfOK
  <2> QED BY <2>1 DEF Overridden, Settings, Switches
<1>4. CASE file = NoFile
  BY <1>1, <1>2, <1>3, <1>4 DEF PromiseInv, Loaded, Default, Switches
<1>5. CASE file # NoFile
  BY <1>1, <1>2, <1>3, <1>5 DEF PromiseInv, Loaded
<1> QED BY <1>4, <1>5

(* A command that keeps the promise by itself may change the settings.      *)
LEMMA ChangedPromise ==
    ASSUME ProcessOK, ConfOK, PromiseInv, On, UNCHANGED <<life, file>>,
           NEW settings \in Settings, NEW auto \in {"apply", NoChange},
           \/ /\ Changed("update", settings, auto)
              /\ Uncut /\ auto = NoChange => (settings["auto"] => entry')
           \/ /\ Changed("switch", settings, auto) /\ UNCHANGED entry
              /\ settings["auto"] = mem["auto"]
    PROVE  PromiseInv'
<1> SUFFICES ASSUME Uncut' PROVE PromiseInv'
  BY DEF PromiseInv
<1>1. Uncut /\ On' /\ life'.at # "off"
  BY DEF Changed, Uncut, Clean, On
<1>2. CASE Changed("update", settings, auto) /\ (Uncut /\ auto = NoChange => (settings["auto"] => entry'))
  <2>1. saves'["update"].at = "changed" /\ saves'["update"].auto = auto /\ mem' = settings
    BY <1>2 DEF Changed, ConfOK, Savers
  <2> QED BY <1>1, <1>2, <2>1 DEF PromiseInv, Idle
<1>3. CASE Changed("switch", settings, auto) /\ entry' = entry /\ settings["auto"] = mem["auto"]
  <2>1. saves'["update"] = saves["update"] /\ mem' = settings
    BY <1>3 DEF Changed, ConfOK, Savers
  <2> QED BY <1>1, <1>3, <2>1 DEF PromiseInv, Idle
<1> QED BY <1>2, <1>3

LEMMA SavePromise ==
    ASSUME ProcessOK, ConfOK, DiskInv, PromiseInv, NEW s \in Savers, Save(s)
    PROVE  PromiseInv'
<1> SUFFICES ASSUME Uncut' PROVE PromiseInv'
  BY DEF PromiseInv
<1>1. Uncut /\ On /\ On' /\ life'.at = "on" /\ UNCHANGED <<life, mem, entry>> /\ ~SaveFails(s)
  BY DEF Save, SaveBegins, SaveWritten, SaveRenames, SaveFails, Uncut, Clean, On
<1>2. Current
  BY <1>1 DEF DiskInv, Uncut
<1>3. saves[s].at # "idle" /\ saves[s] \in Saving
  BY <1>1 DEF Save, SaveBegins, SaveWritten, SaveRenames, ConfOK
<1>4. (\A o \in Savers \ {s} : saves[o].at = "idle") /\ saves[s].what = mem
  BY <1>2, <1>3 DEF Current
<1>5. CASE SaveBegins(s) \/ SaveWritten(s)
  <2>1. file' = file
    BY <1>2, <1>5 DEF SaveBegins, SaveWritten, Current
  <2>2. saves'["update"].auto = saves["update"].auto /\ (Idle' <=> Idle)
    <3>1. saves["update"] \in Saving
      BY DEF ConfOK, Savers
    <3>2. saves' \in [Savers -> Saving]
      BY SaveType DEF ConfOK
    <3> QED BY <1>3, <1>5, <3>1 DEF SaveBegins, SaveWritten, Idle, ConfOK, Saving, Savers
  <2> QED BY <1>1, <2>1, <2>2 DEF PromiseInv
<1>6. CASE SaveRenames(s)
  <2>1. tmp = mem /\ tmp # NoFile
    BY <1>2, <1>4, <1>6, DesktopAssumption DEF SaveRenames, Current, ConfOK
  <2>2. file' = mem
    BY <1>6, <2>1 DEF SaveRenames
  <2>3. \A o \in Savers : saves'[o] = IF o = s THEN AfterSave(s) ELSE saves[o]
    BY <1>4, <1>6, <2>1 DEF SaveRenames
  <2>4. mem["auto"] \in BOOLEAN
    BY DEF ConfOK, Settings, Switches
  <2>5. CASE s = "update"
    <3>1. saves'["update"] = AfterSave(s)
      BY <2>3, <2>5 DEF Savers
    <3>2. CASE saves[s].auto = NoChange
      BY <1>1, <2>2, <2>4, <2>5, <3>2 DEF PromiseInv
    <3>3. CASE saves[s].auto # NoChange
      <4>1. saves'["update"].at = "entry" /\ saves'["update"].auto # NoChange
        BY <1>3, <3>1, <3>3 DEF AfterSave, Saving
      <4> QED BY <1>1, <4>1 DEF PromiseInv, Idle
    <3> QED BY <3>2, <3>3
  <2>6. CASE s # "update"
    <3>1. saves'["update"] = saves["update"] /\ Idle
      BY <1>4, <2>3, <2>6 DEF Savers, Idle
    <3> QED BY <1>1, <2>2, <2>4, <3>1 DEF PromiseInv, Idle
  <2> QED BY <2>5, <2>6
<1> QED BY <1>1, <1>5, <1>6 DEF Save

LEMMA EntryPromise == ProcessOK /\ ConfOK /\ DiskInv /\ PromiseInv /\ ApplyEntry => PromiseInv'
<1> SUFFICES ASSUME ProcessOK, ConfOK, DiskInv, PromiseInv, ApplyEntry PROVE PromiseInv'
  OBVIOUS
<1> DEFINE wanted == saves["update"].what["auto"]
<1>1. On /\ saves["update"].at = "entry" /\ UNCHANGED <<life, file, tmp>>
  BY EntryOutcome
<1>2. CASE /\ saves' = [saves EXCEPT !["update"] = NoSave] /\ UNCHANGED <<mem, excuse>>
           /\ entry' = wanted \/ ~wanted
  <2> SUFFICES ASSUME Uncut' PROVE PromiseInv'
    BY DEF PromiseInv
  <2>1. Uncut /\ On' /\ life'.at = "on"
    BY <1>1, <1>2 DEF Uncut, Clean, On
  <2>2. Current
    BY <1>1, <2>1 DEF DiskInv, Uncut
  <2>3. \A s \in Savers \ {"update"} : saves[s].at = "idle"
    BY <1>1, <2>2 DEF Current, Savers
  <2>4. wanted = mem["auto"]
    BY <1>1, <2>2 DEF Current, Savers
  <2>5. file # NoFile => file["auto"] = mem["auto"]
    BY <1>1, <2>2, <2>3 DEF Current, Agrees, Switches
  <2>6. mem["auto"] => entry'
    BY <1>2, <2>4 DEF ConfOK, Settings, Switches
  <2> QED BY <1>1, <1>2, <2>1, <2>5, <2>6 DEF PromiseInv
<1>3. ASSUME NEW actual \in BOOLEAN, entry' = entry, actual => entry,
             Changed("update", [mem EXCEPT !["auto"] = actual], NoChange)
      PROVE  PromiseInv'
  <2> DEFINE settings == [mem EXCEPT !["auto"] = actual]
  <2>1. settings \in Settings /\ settings["auto"] = actual
    BY DEF ConfOK, Settings, Switches
  <2>2. Changed("update", settings, NoChange)
    BY <1>3
  <2> HIDE DEF settings
  <2> QED BY <1>1, <1>3, <2>1, <2>2, ChangedPromise
<1> QED BY <1>2, <1>3, EntryOutcome

LEMMA ConfPromise == ProcessOK /\ ConfOK /\ DiskInv /\ PromiseInv /\ Conf => PromiseInv'
<1> SUFFICES ASSUME ProcessOK, ConfOK, DiskInv, PromiseInv, Conf PROVE PromiseInv'
  OBVIOUS
<1>1. CASE OpenDraft
  BY <1>1 DEF OpenDraft, PromiseInv, Uncut, Clean, Idle, On, disk
<1>2. CASE SaveDraft
  <2> PICK new \in Settings :
        /\ Changed("update", new, IF new["auto"] # mem["auto"] THEN "apply" ELSE NoChange)
        /\ On /\ UNCHANGED <<life, file, tmp, entry>>
    BY <1>2, DraftOutcome
  <2>1. Idle
    BY <1>2 DEF SaveDraft, Idle
  <2>2. CASE new["auto"] # mem["auto"]
    BY <2>2, ChangedPromise, DesktopAssumption
  <2>3. CASE new["auto"] = mem["auto"]
    <3>1. Uncut => (new["auto"] => entry')
      BY <2>1, <2>3 DEF PromiseInv
    <3> QED BY <2>3, <3>1, ChangedPromise
  <2> QED BY <2>2, <2>3
<1>3. CASE SwitchOff
  <2>1. [mem EXCEPT !["off"] = ~@]["auto"] = mem["auto"]
    BY DEF ConfOK, Settings, Switches
  <2> QED BY <1>3, <2>1, SwitchOutcome, ChangedPromise
<1>4. CASE ApplyEntry
  BY <1>4, EntryPromise
<1>5. CASE \E s \in Savers : Save(s)
  BY <1>5, SavePromise
<1> QED BY <1>1, <1>2, <1>3, <1>4, <1>5 DEF Conf

LEMMA NextPromise == ProcessOK /\ ConfOK /\ DiskInv /\ PromiseInv /\ [Next]_vars => PromiseInv'
<1> SUFFICES ASSUME ProcessOK, ConfOK, DiskInv, PromiseInv, [Next]_vars, ~Launch, ~Conf
             PROVE  PromiseInv'
  BY LaunchPromise, ConfPromise
<1> SUFFICES ASSUME Uncut' PROVE PromiseInv'
  BY DEF PromiseInv
<1>1. Uncut /\ UNCHANGED <<file, saves, entry>>
  BY Elsewhere DEF Uncut, disk
<1>2. CASE UNCHANGED <<life, mem>>
  BY <1>1, <1>2 DEF PromiseInv, Idle, On
<1>3. CASE ~On' /\ (life'.at = "off" => Remembered \subseteq excuse')
  BY <1>1, <1>3 DEF PromiseInv, Idle, On, Uncut, Remembered
<1> QED BY <1>2, <1>3, Elsewhere

(* Where every command was answered and every save went well, the settings  *)
(* never promise a start with the system that will not happen.              *)
THEOREM StartsAreTrue == Spec => []StartIsTrue
<1>1. Init => ProcessOK /\ ConfOK /\ DiskInv /\ PromiseInv
  BY InitType, InitDisk, InitPromise
<1>2. (ProcessOK /\ ConfOK /\ DiskInv /\ PromiseInv) /\ [Next]_vars
      => (ProcessOK /\ ConfOK /\ DiskInv /\ PromiseInv)'
  BY NextType, NextDisk, NextPromise
<1>3. ProcessOK /\ ConfOK /\ DiskInv /\ PromiseInv => StartIsTrue
  BY PromiseIsKept
<1> QED BY <1>1, <1>2, <1>3, PTL DEF Spec
=============================================================================
