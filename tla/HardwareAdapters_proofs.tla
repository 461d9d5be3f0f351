------------------------ MODULE HardwareAdapters_proofs ------------------------
(***************************************************************************)
(* Proofs about the providers that can write a fan header, for any         *)
(* machine.                                                                *)
(*                                                                         *)
(* hwmon: every mode the adapter displaced is written back or on record,   *)
(* if no rescan fails to read an ownership file that is there (ScanFaults  *)
(* is FALSE): with one, the adapter forgets that the channel has such a    *)
(* file, and a later restore writes nothing.                               *)
(*                                                                         *)
(* The lemmas on curves and how readings are reduced, which the fan rules  *)
(* of every adapter need, are those of RuleEvaluation_proofs.              *)
(***************************************************************************)
EXTENDS HardwareAdapters, RuleEvaluation_proofs, SequenceTheorems

-----------------------------------------------------------------------------
(* Types *)

Marks == Modes \cup {Nothing}
Files == [Chips -> Modes \cup {NoFile, Garbled}]

LEMMA EveryMark ==
    /\ Nothing \in Marks /\ Manual \in Modes
    /\ \A m \in Marks : m # Nothing => m \in Modes
    /\ \A m \in Modes \cup {NoFile, Garbled} : m \notin {NoFile, Garbled} => m \in Modes
    /\ \A m \in Modes : m \notin {NoFile, Garbled, Nothing} /\ m \in Marks
  BY DEF Marks, Modes, Nothing, Manual, NoFile, Garbled

\* A share of the mishaps that are left leaves the rest.
LEMMA FaultsLast ==
    ASSUME HwmonTypeOK, NEW n \in Nat, n <= faults, faults' = faults - n
    PROVE  faults' \in 0 .. Mishaps
  BY HwmonAssumption DEF HwmonTypeOK

LEMMA FewFail ==
    ASSUME NEW S, S \subseteq Ids
    PROVE  Cardinality(S) \in Nat
  BY HwmonAssumption, FS_Subset, FS_CardinalityType

\* The percentage of a caller becomes a byte.
LEMMA RawIsByte ==
    ASSUME NEW p \in Percents
    PROVE  RawDuty(p) \in 0 .. 255
  <1> DEFINE q == Clamped(p)
  <1>1. q \in 0 .. 100
    BY HwmonAssumption DEF Clamped
  <1> HIDE DEF q
  <1>2. (q * 255 + 50) \div 100 \in 0 .. 255
    BY <1>1
  <1>3. QED
    BY <1>2 DEF RawDuty, q

\* A path that leads somewhere leads to one chip.
LEMMA PathsLead ==
    ASSUME Enumerated, NEW n, Leads(n)
    PROVE  /\ At(n) \in Chips /\ dir[At(n)] = n
           /\ n # NoDir => \A c \in Chips : dir[c] = n => c = At(n)
  <1>1. At(n) \in Chips /\ dir[At(n)] = n
    BY DEF Leads, At
  <1>2. QED
    BY <1>1 DEF Enumerated

LEMMA Places ==
    /\ NoDir \notin Dirs /\ Dirs \subseteq Nat
    /\ Enumerated => \A c \in Chips : dir[c] # NoDir => dir[c] \in Dirs
  BY HwmonAssumption, FS_CardinalityType DEF NoDir, Dirs, Enumerated

LEMMA ScanIsTyped ==
    ASSUME Enumerated, NEW unread
    PROVE  Scanned(unread) \in [Dirs -> Entries]
  <1>1. ASSUME NEW n \in Dirs, Leads(n)
        PROVE  [id |-> DeviceId(At(n)), mode |-> enable[At(n)] # NoFile /\ At(n) \notin unread]
               \in Entries
    <2>1. IdOf[At(n)] \in Ids
      BY <1>1, PathsLead, HwmonAssumption
    <2>2. (enable[At(n)] # NoFile /\ At(n) \notin unread) \in BOOLEAN
      BY Zenon
    <2>3. QED
      BY <2>1, <2>2 DEF Entries, DeviceId
  <1>2. [id |-> Vacant, mode |-> FALSE] \in Entries
    BY DEF Entries
  <1>3. QED
    BY <1>1, <1>2 DEF Scanned

LEMMA NoTreeIsTyped == NoTree \in [Dirs -> Entries]
  BY DEF NoTree, Entries

\* What is written back are modes.
LEMMA BackIsTyped ==
    ASSUME HwmonTypeOK, NEW t, NEW ids \in SUBSET Ids, NEW modes \in [Ids -> Marks],
           \A id \in ids : modes[id] # Nothing, PutBack(t, ids, modes)
    PROVE  /\ enable' \in Files /\ StillOwed(t, ids, modes) \in [Chips -> Marks]
           /\ Handed(t, ids) \in SUBSET Chips
           /\ \A c \in Chips : enable'[c] = IF c \in Handed(t, ids) THEN modes[t[dir[c]].id]
                                            ELSE enable[c]
  <1>1. enable \in Files /\ trace.owed \in [Chips -> Marks]
    BY DEF HwmonTypeOK, Files, Marks, Traces
  <1>2. \A c \in Handed(t, ids) : t[dir[c]].id \in ids
    BY DEF Handed
  <1>3. \A c \in Handed(t, ids) : modes[t[dir[c]].id] \in Modes
    BY <1>2, EveryMark
  <1>4. Handed(t, ids) \in SUBSET Chips
    BY DEF Handed
  <1>5. enable' = [c \in Chips |-> IF c \in Handed(t, ids) THEN modes[t[dir[c]].id] ELSE enable[c]]
    BY DEF PutBack
  <1>6. enable' \in Files
    BY <1>1, <1>3, <1>5 DEF Files
  <1>7. StillOwed(t, ids, modes) \in [Chips -> Marks]
    BY <1>1, EveryMark DEF StillOwed
  <1>8. QED
    BY <1>4, <1>5, <1>6, <1>7

LEMMA HwmonStartsTyped == HwmonInit => HwmonTypeOK
  <1> SUFFICES ASSUME HwmonInit PROVE HwmonTypeOK
    OBVIOUS
  <1>1. {NoFile, Garbled, Manual, 0, 2, 3} \subseteq Modes \cup {NoFile, Garbled}
    BY DEF Modes, Manual
  <1>2. enable \in Files /\ pwm \in [Chips -> 0 .. 255]
    BY <1>1 DEF HwmonInit, Files
  <1>3. faults \in 0 .. Mishaps
    BY HwmonAssumption DEF HwmonInit
  <1>4. running \in BOOLEAN
    BY Zenon DEF HwmonInit
  <1>5. tree \in [Dirs -> Entries]
    BY NoTreeIsTyped DEF HwmonInit
  <1>6. [c \in Chips |-> Nothing] \in [Chips -> Marks] /\ [id \in Ids |-> Nothing] \in [Ids -> Marks]
    BY DEF Marks
  <1>7. trace \in Traces
    BY <1>6 DEF HwmonInit, Traces, Marks
  <1>8. QED
    BY <1>2, <1>3, <1>4, <1>5, <1>6, <1>7 DEF HwmonInit, HwmonTypeOK, Files, Marks

LEMMA RescanTyped ==
    ASSUME HwmonTypeOK, Rescan
    PROVE  HwmonTypeOK'
  <1>1. PICK unread \in {{}} \cup {{c} : c \in Chips} :
           /\ unread # {} => faults > 0
           /\ tree' = Scanned(unread) /\ faults' = faults - Cardinality(unread)
    BY DEF Rescan
  <1>2. Cardinality(unread) \in Nat /\ Cardinality(unread) <= faults
    <2>1. CASE unread = {}
      BY <2>1, FS_EmptySet DEF HwmonTypeOK
    <2>2. CASE unread # {}
      <3>1. PICK c \in Chips : unread = {c}
        BY <2>2
      <3>2. Cardinality({c}) = 1
        BY FS_Singleton
      <3>3. QED
        BY <1>1, <2>2, <3>1, <3>2 DEF HwmonTypeOK
    <2>3. QED
      BY <2>1, <2>2
  <1>3. faults' \in 0 .. Mishaps
    BY <1>1, <1>2, FaultsLast
  <1>4. tree' \in [Dirs -> Entries]
    BY <1>1, ScanIsTyped DEF HwmonTypeOK
  <1>5. trace' \in Traces
    BY DEF Rescan, HwmonTypeOK, Traces
  <1>6. QED
    BY <1>3, <1>4, <1>5 DEF Rescan, HwmonTypeOK, Enumerated

LEMMA CrashTyped ==
    ASSUME HwmonTypeOK, Crash
    PROVE  HwmonTypeOK'
  <1>1. /\ running' = FALSE /\ taken' = [id \in Ids |-> Nothing] /\ tree' = NoTree
        /\ trace' = [trace EXCEPT !.abandoned = trace.abandoned \cup Unrecorded, !.moved = {}]
        /\ UNCHANGED <<enable, pwm, dir, faults, published, said>>
    BY DEF Crash
  <1>2. Unrecorded \subseteq Chips /\ taken' \in [Ids -> Marks]
    BY <1>1, EveryMark DEF Unrecorded
  <1>3. trace' \in Traces
    BY <1>1, <1>2 DEF HwmonTypeOK, Traces
  <1>4. running' \in BOOLEAN
    BY <1>1, Zenon
  <1>5. tree' \in [Dirs -> Entries]
    BY <1>1, NoTreeIsTyped
  <1>6. QED
    BY <1>1, <1>2, <1>3, <1>4, <1>5 DEF HwmonTypeOK, Marks, Enumerated

LEMMA MovesTyped ==
    ASSUME HwmonTypeOK, NEW c \in Chips, Pull(c) \/ Plug(c)
    PROVE  HwmonTypeOK'
  <1>1. dir \in [Chips -> Dirs \cup {NoDir}]
    BY DEF HwmonTypeOK, Enumerated
  <1>2. Enumerated'
    <2>1. CASE Pull(c)
      BY <2>1, <1>1 DEF Pull, HwmonTypeOK, Enumerated
    <2>2. CASE Plug(c)
      <3>1. PICK n \in Dirs : ~Leads(n) /\ dir' = [dir EXCEPT ![c] = n]
        BY <2>2 DEF Plug
      <3>2. \A d \in Chips : dir[d] # n
        BY <3>1 DEF Leads
      <3>3. QED
        BY <1>1, <3>1, <3>2 DEF HwmonTypeOK, Enumerated
    <2>3. QED
      BY <2>1, <2>2
  <1>3. trace' \in Traces
    <2>1. \E moved \in SUBSET Chips : trace' = [trace EXCEPT !.moved = moved]
      <3>1. trace.moved \in SUBSET Chips /\ trace.moved \cup {c} \in SUBSET Chips
        BY DEF HwmonTypeOK, Traces
      <3>2. trace' = [trace EXCEPT !.moved = IF running THEN trace.moved \cup {c} ELSE trace.moved]
        BY DEF Pull, Plug
      <3>3. CASE running
        BY <3>1, <3>2, <3>3
      <3>4. CASE ~running
        BY <3>1, <3>2, <3>4
      <3>5. QED
        BY <3>3, <3>4
    <2>2. QED
      BY <2>1 DEF HwmonTypeOK, Traces
  <1>4. faults' \in 0 .. Mishaps
    <2>1. CASE Pull(c)
      BY <2>1, HwmonAssumption DEF Pull, HwmonTypeOK
    <2>2. CASE Plug(c)
      BY <2>2 DEF Plug, HwmonTypeOK
    <2>3. QED
      BY <2>1, <2>2
  <1>5. UNCHANGED <<enable, pwm, running, tree, taken, published, said>>
    BY DEF Pull, Plug
  <1>6. QED
    BY <1>2, <1>3, <1>4, <1>5 DEF HwmonTypeOK

LEMMA StartTyped ==
    ASSUME HwmonTypeOK, Start
    PROVE  HwmonTypeOK'
  <1> DEFINE mine == {id \in Allowed : published[id] # Nothing}
             scan == Scanned({})
  <1>1. running' = TRUE /\ tree' = scan /\ said' = "nothing"
        /\ taken' = [id \in Ids |-> IF id \in mine THEN published[id] ELSE Nothing]
        /\ UNCHANGED <<pwm, dir, published>>
    BY DEF Start
  <1>2. PICK failing \in SUBSET {id \in mine : Writable(scan, id)} :
           LET back == {id \in mine : Writable(scan, id)} \ failing IN
           /\ Cardinality(failing) <= faults /\ faults' = faults - Cardinality(failing)
           /\ PutBack(scan, back, published)
           /\ trace' = [trace EXCEPT !.owed = StillOwed(scan, back, published),
                 !.touched = @ \cup Handed(scan, back), !.abandoned = @ \cup Unrecorded]
    BY DEF Start
  <1> DEFINE back == {id \in mine : Writable(scan, id)} \ failing
             owed == StillOwed(scan, back, published)
             touched == trace.touched \cup Handed(scan, back)
             abandoned == trace.abandoned \cup Unrecorded
  <1>3. /\ enable \in Files /\ published \in [Ids -> Marks] /\ Allowed \subseteq Ids
        /\ trace \in [owed : [Chips -> Marks], abandoned : SUBSET Chips, touched : SUBSET Chips,
                      moved : SUBSET Chips, strayed : SUBSET Chips]
    BY HwmonAssumption DEF HwmonTypeOK, Files, Marks, Traces
  <1>4. back \in SUBSET Ids /\ failing \subseteq Ids /\ \A id \in back : published[id] # Nothing
    BY <1>3
  <1>5. PutBack(scan, back, published)
    BY <1>2
  <1>6. trace' = [trace EXCEPT !.owed = owed, !.touched = touched, !.abandoned = abandoned]
    BY <1>2
  <1>7. taken' \in [Ids -> Marks]
    BY <1>1, <1>3, EveryMark
  <1>8. faults' \in 0 .. Mishaps
    BY <1>2, <1>4, FewFail, FaultsLast
  <1>9. tree' \in [Dirs -> Entries]
    BY <1>1, ScanIsTyped DEF HwmonTypeOK
  <1> HIDE DEF mine, scan, back
  <1>10. enable' \in Files /\ owed \in [Chips -> Marks] /\ Handed(scan, back) \in SUBSET Chips
    BY <1>3, <1>4, <1>5, BackIsTyped
  <1>11. touched \in SUBSET Chips /\ abandoned \in SUBSET Chips
    BY <1>3, <1>10 DEF Unrecorded
  <1> HIDE DEF owed, touched, abandoned
  <1>12. trace' \in Traces
    BY <1>3, <1>6, <1>10, <1>11 DEF Traces, Marks
  <1>13. running' \in BOOLEAN
    BY <1>1, Zenon
  <1>14. QED
    BY <1>1, <1>7, <1>8, <1>9, <1>10, <1>12, <1>13 DEF HwmonTypeOK, Files, Marks, Enumerated

LEMMA ShutdownTyped ==
    ASSUME HwmonTypeOK, Shutdown
    PROVE  HwmonTypeOK'
  <1> DEFINE owing == {id \in Ids : taken[id] # Nothing}
  <1>1. /\ running' = FALSE /\ taken' = [id \in Ids |-> Nothing]
        /\ published' = [id \in Ids |-> Nothing] /\ tree' = NoTree /\ UNCHANGED <<pwm, dir>>
    BY DEF Shutdown
  <1>2. PICK failing \in SUBSET {id \in owing : Writable(tree, id)} :
           LET back == {id \in owing : Writable(tree, id)} \ failing IN
           /\ Cardinality(failing) <= faults /\ faults' = faults - Cardinality(failing)
           /\ PutBack(tree, back, taken)
           /\ said' = Answer(owing, back)
           /\ trace' = [trace EXCEPT
                 !.owed = StillOwed(tree, back, taken),
                 !.touched = @ \cup Handed(tree, back),
                 !.strayed = @ \cup UNION {Astray(id, Handed(tree, back)) : id \in owing},
                 !.moved = {}]
    BY DEF Shutdown
  <1> DEFINE back == {id \in owing : Writable(tree, id)} \ failing
             owed == StillOwed(tree, back, taken)
             touched == trace.touched \cup Handed(tree, back)
             strayed == trace.strayed \cup UNION {Astray(id, Handed(tree, back)) : id \in owing}
  <1>3. /\ enable \in Files /\ taken \in [Ids -> Marks]
        /\ trace \in [owed : [Chips -> Marks], abandoned : SUBSET Chips, touched : SUBSET Chips,
                      moved : SUBSET Chips, strayed : SUBSET Chips]
    BY DEF HwmonTypeOK, Files, Marks, Traces
  <1>4. back \in SUBSET Ids /\ failing \subseteq Ids /\ \A id \in back : taken[id] # Nothing
    OBVIOUS
  <1>5. PutBack(tree, back, taken) /\ said' = Answer(owing, back)
    BY <1>2
  <1>6. trace' = [trace EXCEPT !.owed = owed, !.touched = touched, !.strayed = strayed, !.moved = {}]
    BY <1>2
  <1>7. faults' \in 0 .. Mishaps
    BY <1>2, <1>4, FewFail, FaultsLast
  <1> HIDE DEF owing, back
  <1>8. enable' \in Files /\ owed \in [Chips -> Marks] /\ Handed(tree, back) \in SUBSET Chips
    BY <1>3, <1>4, <1>5, BackIsTyped
  <1>9. touched \in SUBSET Chips /\ strayed \in SUBSET Chips
    BY <1>3, <1>8 DEF Astray
  <1> HIDE DEF owed, touched, strayed
  <1>10. trace' \in Traces
    BY <1>3, <1>6, <1>8, <1>9 DEF Traces, Marks
  <1>11. taken' \in [Ids -> Marks] /\ published' \in [Ids -> Marks]
    BY <1>1, EveryMark
  <1>12. running' \in BOOLEAN
    BY <1>1, Zenon
  <1>13. tree' \in [Dirs -> Entries] /\ said' \in {"nothing", "released", "failed"}
    BY <1>1, <1>5, NoTreeIsTyped DEF Answer
  <1>14. QED
    BY <1>1, <1>7, <1>8, <1>10, <1>11, <1>12, <1>13 DEF HwmonTypeOK, Files, Marks, Enumerated

-----------------------------------------------------------------------------
(* A write *)

\* What take_control may have found in the chip that was reached.
Found(c, was) ==
    \/ was = Nothing
    \/ was \in Modes \ {Manual} /\ enable[c] = was

\* Its mode is put on record if it is switched; if the duty is then refused, a
\* mode is written back, or the debt is dropped.
Switched(id, c, was) ==
    /\ enable' = IF was = Nothing THEN enable ELSE [enable EXCEPT ![c] = Manual]
    /\ taken' = [taken EXCEPT ![id] = IF was = Nothing THEN @ ELSE was]
    /\ trace'.owed = [trace.owed EXCEPT ![c] = IF was = Nothing THEN @ ELSE was]
    /\ trace'.abandoned = trace.abandoned

Returned(id, c, was) ==
    LET kept == IF was = Nothing THEN taken[id] ELSE was
        owe  == IF was = Nothing THEN trace.owed[c] ELSE was
    IN
    /\ kept # Nothing /\ enable[c] # NoFile /\ enable' = [enable EXCEPT ![c] = kept]
    /\ taken' = [taken EXCEPT ![id] = Nothing]
    /\ trace'.owed = [trace.owed EXCEPT ![c] = IF owe = kept THEN Nothing ELSE owe]
    /\ trace'.abandoned = trace.abandoned

Dropped(id, c, was) ==
    /\ enable' = IF was = Nothing THEN enable ELSE [enable EXCEPT ![c] = Manual]
    /\ taken' = [taken EXCEPT ![id] = Nothing]
    /\ trace'.owed = [trace.owed EXCEPT ![c] = IF was = Nothing THEN @ ELSE was]
    /\ trace'.abandoned = IF trace'.owed[c] = Nothing THEN trace.abandoned
                          ELSE trace.abandoned \cup {c}

\* A write that reaches chip c under an id: one of the three, and the history.
Reaches(id, c) ==
    /\ id \in Allowed /\ Channels(tree, id) # {} /\ dir[c] = Channel(tree, id)
    /\ trace'.touched = trace.touched \cup {c} /\ trace'.moved = trace.moved
    /\ trace'.strayed = trace.strayed \cup Astray(id, {c})
    /\ trace' \in Traces
    /\ \E was \in Marks : Found(c, was) /\ (\/ Switched(id, c, was) \/ Returned(id, c, was)
                                            \/ Dropped(id, c, was))

LEMMA DriveDoes ==
    ASSUME HwmonTypeOK, NEW id \in Ids, NEW c \in Chips, NEW was \in Marks, NEW raw \in 0 .. 255,
           NEW failing \in [read : BOOLEAN, switch : BOOLEAN, duty : BOOLEAN, restore : BOOLEAN],
           Found(c, was), Drive(id, c, was, raw, failing)
    PROVE  /\ pwm' \in [Chips -> 0 .. 255] /\ trace' \in Traces
           /\ trace'.touched = trace.touched \cup {c} /\ trace'.moved = trace.moved
           /\ trace'.strayed = trace.strayed \cup Astray(id, {c})
           /\ Switched(id, c, was) \/ Returned(id, c, was) \/ Dropped(id, c, was)
  <1> DEFINE kept == IF was = Nothing THEN taken[id] ELSE was
             owed == IF was = Nothing \/ enable[c] = Manual THEN trace.owed
                     ELSE [trace.owed EXCEPT ![c] = enable[c]]
             touch == trace.touched \cup {c}
             stray == trace.strayed \cup Astray(id, {c})
             switched == IF was = Nothing THEN enable ELSE [enable EXCEPT ![c] = Manual]
             restored == /\ kept # Nothing /\ enable[c] # NoFile
                         /\ tree[Channel(tree, id)].mode /\ ~failing.restore
  <1>1. /\ pwm \in [Chips -> 0 .. 255] /\ taken \in [Ids -> Marks] /\ enable \in Files
        /\ trace \in [owed : [Chips -> Marks], abandoned : SUBSET Chips, touched : SUBSET Chips,
                      moved : SUBSET Chips, strayed : SUBSET Chips]
    BY DEF HwmonTypeOK, Marks, Files, Traces
  <1>2. owed = [trace.owed EXCEPT ![c] = IF was = Nothing THEN @ ELSE was]
    BY <1>1 DEF Found
  <1>3. owed \in [Chips -> Marks] /\ touch \in SUBSET Chips /\ stray \in SUBSET Chips
    BY <1>1, <1>2 DEF Astray
  <1>4. CASE ~failing.duty
    <2>1. /\ pwm' = [pwm EXCEPT ![c] = raw] /\ enable' = switched
          /\ taken' = [taken EXCEPT ![id] = kept]
          /\ trace' = [trace EXCEPT !.owed = owed, !.touched = touch, !.strayed = stray]
      BY <1>4 DEF Drive
    <2>2. pwm' \in [Chips -> 0 .. 255]
      BY <1>1, <2>1
    <2>3. taken' = [taken EXCEPT ![id] = IF was = Nothing THEN @ ELSE was]
      BY <1>1, <2>1
    <2> HIDE DEF owed, touch, stray, kept, switched
    <2>4. /\ trace'.owed = owed /\ trace'.abandoned = trace.abandoned
          /\ trace'.touched = touch /\ trace'.moved = trace.moved /\ trace'.strayed = stray
          /\ trace' \in Traces
      BY <1>1, <1>3, <2>1 DEF Traces, Marks
    <2>5. Switched(id, c, was)
      BY <1>2, <2>1, <2>3, <2>4 DEF Switched, switched
    <2>6. QED
      BY <2>2, <2>4, <2>5 DEF touch, stray
  <1>5. CASE failing.duty
    <2> DEFINE settled == [owed EXCEPT ![c] = IF owed[c] = kept THEN Nothing ELSE owed[c]]
               left == IF owed[c] # Nothing /\ ~restored
                       THEN trace.abandoned \cup {c} ELSE trace.abandoned
    <2>1. /\ pwm' = pwm /\ taken' = [taken EXCEPT ![id] = Nothing]
          /\ enable' = IF restored THEN [switched EXCEPT ![c] = kept] ELSE switched
          /\ trace' = [trace EXCEPT !.owed = IF restored THEN settled ELSE owed,
                                    !.touched = touch, !.strayed = stray, !.abandoned = left]
      BY <1>5 DEF Drive, Settled
    <2>2. settled \in [Chips -> Marks] /\ left \in SUBSET Chips
      <3> HIDE DEF owed, restored, kept
      <3>1. QED
        BY <1>1, <1>3, EveryMark
    <2>3. owed[c] = IF was = Nothing THEN trace.owed[c] ELSE was
      BY <1>1, <1>2
    <2>4. CASE restored
      <3>1. enable' = [switched EXCEPT ![c] = kept] /\ left = trace.abandoned
            /\ kept # Nothing /\ enable[c] # NoFile
            /\ trace' = [trace EXCEPT !.owed = settled, !.touched = touch, !.strayed = stray,
                                      !.abandoned = left]
        BY <2>1, <2>4
      <3>2. enable' = [enable EXCEPT ![c] = kept]
        BY <1>1, <3>1 DEF Files
      <3>3. settled = [trace.owed EXCEPT ![c] = IF owed[c] = kept THEN Nothing ELSE owed[c]]
        BY <1>1, <1>2
      <3> HIDE DEF owed, touch, stray, settled, left, switched, restored
      <3>4. /\ trace'.owed = settled /\ trace'.abandoned = left
            /\ trace'.touched = touch /\ trace'.moved = trace.moved /\ trace'.strayed = stray
            /\ trace' \in Traces
        BY <1>1, <1>3, <2>2, <3>1 DEF Traces, Marks
      <3>5. Returned(id, c, was)
        BY <2>1, <2>3, <3>1, <3>2, <3>3, <3>4 DEF Returned, kept
      <3>6. QED
        BY <1>1, <2>1, <3>4, <3>5 DEF touch, stray
    <2>5. CASE ~restored
      <3>1. enable' = switched
            /\ trace' = [trace EXCEPT !.owed = owed, !.touched = touch, !.strayed = stray,
                                      !.abandoned = left]
        BY <2>1, <2>5
      <3>2. left = IF owed[c] = Nothing THEN trace.abandoned ELSE trace.abandoned \cup {c}
        BY <2>5
      <3> HIDE DEF owed, touch, stray, left, switched, restored, kept
      <3>3. /\ trace'.owed = owed /\ trace'.abandoned = left
            /\ trace'.touched = touch /\ trace'.moved = trace.moved /\ trace'.strayed = stray
            /\ trace' \in Traces
        BY <1>1, <1>3, <2>2, <3>1 DEF Traces, Marks
      <3>4. Dropped(id, c, was)
        BY <1>2, <2>1, <3>1, <3>2, <3>3 DEF Dropped, switched
      <3>5. QED
        BY <1>1, <2>1, <3>3, <3>4 DEF touch, stray
    <2>6. QED
      BY <2>4, <2>5
  <1>6. QED
    BY <1>4, <1>5

\* A write is refused, goes nowhere, or reaches a chip.
LEMMA WriteDoes ==
    ASSUME HwmonTypeOK, NEW id \in Ids, NEW p \in Percents, Write(id, p)
    PROVE  /\ running /\ UNCHANGED <<dir, running, tree, published, said>>
           /\ faults' \in 0 .. Mishaps /\ pwm' \in [Chips -> 0 .. 255]
           /\ \/ UNCHANGED <<enable, taken, trace>>
              \/ /\ id \in Allowed /\ Channels(tree, id) # {} /\ ~Leads(Channel(tree, id))
                 /\ Miss(id)
              \/ \E c \in Chips : Reaches(id, c)
  <1>1. running /\ UNCHANGED <<dir, running, tree, published, said>>
    BY DEF Write
  <1> DEFINE n == Channel(tree, id)
  <1>2. PICK failing \in [read : BOOLEAN, switch : BOOLEAN, duty : BOOLEAN, restore : BOOLEAN] :
           LET count == Cardinality({k \in DOMAIN failing : failing[k]})
               answer == TakeControl(n, failing.read, failing.switch)
           IN /\ count <= faults /\ faults' = faults - count
              /\ \/ Refuse
                 \/ /\ id \in Allowed /\ Channels(tree, id) # {} /\ ~Leads(n) /\ Miss(id)
                 \/ /\ id \in Allowed /\ Channels(tree, id) # {} /\ Leads(n)
                    /\ Drive(id, At(n), answer.was, RawDuty(p), failing)
    BY DEF Write
  <1>3. faults' \in 0 .. Mishaps
    <2> DEFINE failed == {k \in DOMAIN failing : failing[k]}
    <2>1. failed \in SUBSET ({"read"} \cup ({"switch"} \cup ({"duty"} \cup {"restore"})))
      OBVIOUS
    <2> HIDE DEF failed
    <2>2. IsFiniteSet({"read"} \cup ({"switch"} \cup ({"duty"} \cup {"restore"})))
      BY FS_Singleton, FS_Union
    <2>3. Cardinality(failed) \in Nat
      BY <2>1, <2>2, FS_Subset, FS_CardinalityType
    <2>4. QED
      BY <1>2, <2>3, FaultsLast DEF failed
  <1>4. pwm \in [Chips -> 0 .. 255]
    BY DEF HwmonTypeOK
  <1>5. CASE Refuse
    BY <1>1, <1>3, <1>4, <1>5 DEF Refuse
  <1>6. CASE id \in Allowed /\ Channels(tree, id) # {} /\ ~Leads(n) /\ Miss(id)
    BY <1>1, <1>3, <1>4, <1>6 DEF Miss
  <1>7. ASSUME id \in Allowed, Channels(tree, id) # {}, Leads(n),
               Drive(id, At(n), TakeControl(n, failing.read, failing.switch).was, RawDuty(p), failing)
        PROVE  pwm' \in [Chips -> 0 .. 255] /\ \E c \in Chips : Reaches(id, c)
    <2> DEFINE c == At(n)
               was == TakeControl(n, failing.read, failing.switch).was
    <2>1. c \in Chips /\ dir[c] = n
      BY <1>7, PathsLead DEF HwmonTypeOK
    <2>2. was \in Marks /\ Found(c, was)
      <3> DEFINE mode == ModeAt(n, failing.read)
      <3>1. mode = NoFile \/ mode = enable[c]
        BY <1>7 DEF ModeAt
      <3>2. mode \in Modes \cup {NoFile, Garbled}
        BY <2>1, <3>1 DEF HwmonTypeOK
      <3> HIDE DEF mode, n, c
      <3>3. \/ was = Nothing
            \/ was = mode /\ mode \notin {Garbled, NoFile, Manual}
        BY DEF TakeControl, mode
      <3>4. QED
        BY <3>1, <3>2, <3>3, EveryMark DEF Found
    <2>3. RawDuty(p) \in 0 .. 255
      BY RawIsByte
    <2>4. Drive(id, c, was, RawDuty(p), failing)
      BY <1>7
    <2> HIDE DEF was, c
    <2>5. /\ pwm' \in [Chips -> 0 .. 255] /\ trace' \in Traces
          /\ trace'.touched = trace.touched \cup {c} /\ trace'.moved = trace.moved
          /\ trace'.strayed = trace.strayed \cup Astray(id, {c})
          /\ Switched(id, c, was) \/ Returned(id, c, was) \/ Dropped(id, c, was)
      BY <2>1, <2>2, <2>3, <2>4, DriveDoes
    <2>6. Reaches(id, c)
      BY <1>7, <2>1, <2>2, <2>5 DEF Reaches
    <2>7. QED
      BY <2>1, <2>5, <2>6
  <1>8. QED
    BY <1>1, <1>2, <1>3, <1>5, <1>6, <1>7

LEMMA WriteTyped ==
    ASSUME HwmonTypeOK, NEW id \in Ids, NEW p \in Percents, Write(id, p)
    PROVE  HwmonTypeOK'
  <1>1. /\ UNCHANGED <<dir, running, tree, published, said>>
        /\ faults' \in 0 .. Mishaps /\ pwm' \in [Chips -> 0 .. 255]
    BY WriteDoes
  <1>2. enable \in Files /\ taken \in [Ids -> Marks]
    BY DEF HwmonTypeOK, Files, Marks
  <1>3. enable' \in Files /\ taken' \in [Ids -> Marks] /\ trace' \in Traces
    <2>1. CASE UNCHANGED <<enable, taken, trace>>
      BY <1>2, <2>1 DEF HwmonTypeOK
    <2>2. CASE Miss(id)
      <3>1. taken' = [taken EXCEPT ![id] = Nothing] /\ enable' = enable
            /\ trace' = [trace EXCEPT !.strayed = trace.strayed \cup Astray(id, {})]
        BY <2>2 DEF Miss
      <3>2. trace.strayed \cup Astray(id, {}) \in SUBSET Chips
        BY DEF HwmonTypeOK, Traces, Astray
      <3>3. trace' \in Traces
        BY <3>1, <3>2 DEF HwmonTypeOK, Traces
      <3>4. QED
        BY <1>2, <3>1, <3>3, EveryMark
    <2>3. ASSUME NEW c \in Chips, Reaches(id, c)
          PROVE  enable' \in Files /\ taken' \in [Ids -> Marks] /\ trace' \in Traces
      <3>1. PICK was \in Marks : Found(c, was) /\ (\/ Switched(id, c, was) \/ Returned(id, c, was)
                                                   \/ Dropped(id, c, was))
        BY <2>3 DEF Reaches
      <3>2. trace' \in Traces
        BY <2>3 DEF Reaches
      <3>3. CASE Switched(id, c, was)
        BY <1>2, <3>2, <3>3, EveryMark DEF Switched, Files
      <3>4. CASE Returned(id, c, was)
        BY <1>2, <3>2, <3>4, EveryMark DEF Returned, Files
      <3>5. CASE Dropped(id, c, was)
        BY <1>2, <3>2, <3>5, EveryMark DEF Dropped, Files
      <3>6. QED
        BY <3>1, <3>3, <3>4, <3>5
    <2>4. QED
      BY <2>1, <2>2, <2>3, WriteDoes
  <1>4. QED
    BY <1>1, <1>3 DEF HwmonTypeOK, Files, Marks, Enumerated

LEMMA HwmonTypedStep == HwmonTypeOK /\ [HwmonNext]_hwmon => HwmonTypeOK'
  <1> SUFFICES ASSUME HwmonTypeOK, [HwmonNext]_hwmon PROVE HwmonTypeOK'
    OBVIOUS
  <1>1. CASE Publish
    BY <1>1 DEF Publish, HwmonTypeOK, Enumerated
  <1>2. ASSUME NEW c \in Chips, DriverReclaims(c) PROVE HwmonTypeOK'
    <2>1. /\ enable' = [enable EXCEPT ![c] = 2]
          /\ trace' = [trace EXCEPT !.owed = [trace.owed EXCEPT ![c] = Nothing]]
          /\ UNCHANGED <<pwm, dir, faults, running, tree, taken, published, said>>
      BY <1>2 DEF DriverReclaims
    <2>2. enable' \in Files /\ [trace.owed EXCEPT ![c] = Nothing] \in [Chips -> Marks]
      BY <2>1 DEF HwmonTypeOK, Files, Marks, Modes, Traces
    <2>3. trace' \in Traces
      BY <2>1, <2>2 DEF HwmonTypeOK, Marks, Traces
    <2>4. QED
      BY <2>1, <2>2, <2>3 DEF HwmonTypeOK, Files, Enumerated
  <1>3. CASE UNCHANGED hwmon
    BY <1>3 DEF hwmon, HwmonTypeOK, Enumerated
  <1>4. QED
    BY <1>1, <1>2, <1>3, RescanTyped, WriteTyped, CrashTyped, MovesTyped, StartTyped,
       ShutdownTyped DEF HwmonNext

-----------------------------------------------------------------------------
(* Whose files are written, whatever a scan could read *)

\* A scan tells the name of each chip that has not moved since, and nothing else
\* under a name that is only one chip's.
Tells(t, moved) ==
    \A c \in Chips \ moved :
        /\ dir[c] # NoDir => t[dir[c]].id = IdOf[c]
        /\ c \in Unique => \A n \in Dirs : t[n].id = IdOf[c] => dir[c] = n

Told == running => Tells(tree, trace.moved)

\* Nothing is remembered of a channel nobody confirmed.
Permitted == \A id \in Ids : (taken[id] # Nothing \/ published[id] # Nothing) => id \in Allowed

Confined == HwmonTypeOK /\ Told /\ Permitted /\ OnlyConfirmedChannels

LEMMA ScanTells ==
    ASSUME Enumerated, NEW unread, NEW moved
    PROVE  /\ Tells(Scanned(unread), moved)
           /\ \A c \in Chips : dir[c] # NoDir =>
                 Scanned({})[dir[c]].mode = (enable[c] # NoFile)
  <1>1. ASSUME NEW c \in Chips, dir[c] # NoDir
        PROVE  dir[c] \in Dirs /\ Leads(dir[c]) /\ At(dir[c]) = c
    BY <1>1, Places, PathsLead DEF Leads
  <1>2. ASSUME NEW c \in Chips, dir[c] # NoDir
        PROVE  /\ Scanned(unread)[dir[c]].id = IdOf[c]
               /\ Scanned({})[dir[c]].mode = (enable[c] # NoFile)
    <2>1. dir[c] \in Dirs /\ Leads(dir[c]) /\ At(dir[c]) = c
      BY <1>1, <1>2
    <2>2. Scanned(unread)[dir[c]] = [id |-> DeviceId(At(dir[c])),
             mode |-> enable[At(dir[c])] # NoFile /\ At(dir[c]) \notin unread]
      BY <2>1 DEF Scanned
    <2>3. Scanned({})[dir[c]] = [id |-> DeviceId(At(dir[c])),
             mode |-> enable[At(dir[c])] # NoFile /\ At(dir[c]) \notin {}]
      BY <2>1 DEF Scanned
    <2>4. Scanned({})[dir[c]].mode = (enable[c] # NoFile)
      BY <2>1, <2>3
    <2>5. QED
      BY <2>1, <2>2, <2>4 DEF DeviceId
  <1>3. ASSUME NEW c \in Unique, NEW n \in Dirs, Scanned(unread)[n].id = IdOf[c]
        PROVE  dir[c] = n
    <2>1. c \in Chips /\ IdOf[c] # Vacant /\ \A d \in Chips : IdOf[d] = IdOf[c] => d = c
      BY HwmonAssumption DEF Unique
    <2>2. Leads(n)
      BY <1>3, <2>1 DEF Scanned
    <2>3. Scanned(unread)[n].id = IdOf[At(n)]
      BY <2>2 DEF Scanned, DeviceId
    <2>4. QED
      BY <1>3, <2>1, <2>2, <2>3, PathsLead
  <1>4. QED
    BY <1>2, <1>3 DEF Tells

\* The first directory with an id has that id.
LEMMA FirstIs ==
    ASSUME NEW t, NEW id, Channels(t, id) # {}
    PROVE  Channel(t, id) \in Dirs /\ t[Channel(t, id)].id = id
  <1> DEFINE some == Channels(t, id)
  <1>1. some # {} /\ some \subseteq Nat
    BY Places DEF Channels
  <1> HIDE DEF some
  <1>2. \E n \in some : \A k \in some : n <= k
    BY <1>1, Least
  <1>3. Channel(t, id) \in some
    BY <1>2 DEF Channel, some
  <1>4. QED
    BY <1>3 DEF some, Channels

\* A chip that is alone with its name and has not moved is where its id leads.
LEMMA OnlyOne ==
    ASSUME Enumerated, NEW t, NEW moved, Tells(t, moved), NEW c \in Unique \ moved
    PROVE  /\ dir[c] = NoDir => Channels(t, IdOf[c]) = {}
           /\ dir[c] # NoDir => /\ Channels(t, IdOf[c]) # {} /\ Channel(t, IdOf[c]) = dir[c]
                                /\ t[dir[c]].id = IdOf[c]
  <1>1. c \in Chips /\ \A n \in Dirs : t[n].id = IdOf[c] => dir[c] = n
    BY DEF Unique, Tells
  <1>2. CASE dir[c] = NoDir
    BY <1>1, <1>2, Places DEF Channels
  <1>3. CASE dir[c] # NoDir
    <2>1. dir[c] \in Dirs /\ t[dir[c]].id = IdOf[c]
      BY <1>1, <1>3, Places DEF Tells
    <2>2. Channels(t, IdOf[c]) # {}
      BY <2>1 DEF Channels
    <2>3. Channel(t, IdOf[c]) = dir[c]
      BY <1>1, <2>2, FirstIs
    <2>4. QED
      BY <1>3, <2>1, <2>2, <2>3
  <1>4. QED
    BY <1>2, <1>3

\* A chip that has not moved is reached under its own id only.
LEMMA ReachedIs ==
    ASSUME NEW t, NEW moved, Tells(t, moved), NEW c \in Chips \ moved, dir[c] # NoDir
    PROVE  /\ \A id : Channels(t, id) # {} /\ Channel(t, id) = dir[c] => IdOf[c] = id
           /\ \A ids : c \in Handed(t, ids) => IdOf[c] \in ids
  <1>1. t[dir[c]].id = IdOf[c]
    BY DEF Tells
  <1>2. QED
    BY <1>1, FirstIs DEF Handed

LEMMA WriteConfined ==
    ASSUME Confined, NEW id \in Ids, NEW p \in Percents, Write(id, p)
    PROVE  Confined'
  <1>1. running /\ UNCHANGED <<dir, running, tree, published, said>>
    BY WriteDoes DEF Confined
  <1>2. HwmonTypeOK'
    BY WriteTyped DEF Confined
  <1>3. taken \in [Ids -> Marks] /\ Tells(tree, trace.moved) /\ Enumerated
        /\ trace \in Traces
    BY <1>1 DEF Confined, HwmonTypeOK, Marks, Told
  <1>4. CASE UNCHANGED <<enable, taken, trace>>
    BY <1>1, <1>2, <1>4 DEF Confined, Told, Tells, Permitted, OnlyConfirmedChannels
  <1>5. CASE id \in Allowed /\ Miss(id)
    <2>1. taken' = [taken EXCEPT ![id] = Nothing]
          /\ trace' = [trace EXCEPT !.strayed = trace.strayed \cup Astray(id, {})]
      BY <1>5 DEF Miss
    <2>2. trace'.moved = trace.moved /\ trace'.touched = trace.touched
          /\ trace.strayed \subseteq trace'.strayed
      BY <1>3, <2>1 DEF Traces
    <2>3. Told'
      BY <1>1, <2>2 DEF Confined, Told, Tells
    <2>4. Permitted' /\ OnlyConfirmedChannels'
      BY <1>1, <1>3, <2>1, <2>2 DEF Confined, Permitted, OnlyConfirmedChannels
    <2>5. QED
      BY <1>2, <2>3, <2>4 DEF Confined
  <1>6. ASSUME NEW c \in Chips, Reaches(id, c)
        PROVE  Confined'
    <2>1. /\ id \in Allowed /\ Channels(tree, id) # {} /\ dir[c] = Channel(tree, id)
          /\ trace'.touched = trace.touched \cup {c} /\ trace'.moved = trace.moved
          /\ trace'.strayed = trace.strayed \cup Astray(id, {c})
      BY <1>6 DEF Reaches
    <2>2. \E mark : taken' = [taken EXCEPT ![id] = mark]
      BY <1>6 DEF Reaches, Switched, Returned, Dropped
    <2>3. Told'
      BY <1>1, <2>1 DEF Confined, Told, Tells
    <2>4. Permitted'
      BY <1>1, <1>3, <2>1, <2>2 DEF Confined, Permitted
    <2>5. c \notin trace'.strayed => IdOf[c] = id
      <3> SUFFICES ASSUME c \notin trace'.strayed PROVE IdOf[c] = id
        OBVIOUS
      <3>1. c \notin trace.moved
        BY <2>1 DEF Astray
      <3>2. dir[c] # NoDir
        BY <2>1, FirstIs, Places
      <3>3. QED
        BY <1>3, <2>1, <3>1, <3>2, ReachedIs
    <2>6. OnlyConfirmedChannels'
      BY <2>1, <2>5 DEF Confined, OnlyConfirmedChannels
    <2>7. QED
      BY <1>2, <2>3, <2>4, <2>6 DEF Confined
  <1>7. QED
    BY <1>4, <1>5, <1>6, WriteDoes DEF Confined

LEMMA StartConfined ==
    ASSUME Confined, Start
    PROVE  Confined'
  <1> DEFINE mine == {id \in Allowed : published[id] # Nothing}
             scan == Scanned({})
  <1>1. PICK back \in SUBSET mine : \E owed, left :
           trace' = [trace EXCEPT !.owed = owed, !.touched = @ \cup Handed(scan, back),
                                  !.abandoned = left]
    BY Zenon DEF Start
  <1>2. tree' = scan /\ UNCHANGED <<dir, published>>
        /\ taken' = [id \in Ids |-> IF id \in mine THEN published[id] ELSE Nothing]
    BY DEF Start
  <1>3. Enumerated /\ trace \in Traces
    BY DEF Confined, HwmonTypeOK
  <1>4. /\ trace'.touched = trace.touched \cup Handed(scan, back)
        /\ trace'.strayed = trace.strayed /\ trace'.moved = trace.moved
    <2> HIDE DEF scan
    <2>1. QED
      BY <1>1, <1>3 DEF Traces
  <1>5. Tells(scan, {}) /\ Tells(scan, trace.moved)
    BY <1>3, ScanTells
  <1>6. Told'
    BY <1>2, <1>4, <1>5 DEF Told, Tells
  <1>7. Permitted'
    BY <1>2 DEF Confined, Permitted
  <1>8. \A c \in Handed(scan, back) : IdOf[c] \in Allowed
    <2> HIDE DEF scan
    <2>1. \A c \in Handed(scan, back) : c \in Chips /\ dir[c] # NoDir
      BY DEF Handed
    <2>2. QED
      BY <1>5, <2>1, ReachedIs
  <1>9. OnlyConfirmedChannels'
    BY <1>4, <1>8 DEF Confined, OnlyConfirmedChannels
  <1>10. QED
    BY <1>6, <1>7, <1>9, StartTyped DEF Confined

LEMMA ShutdownConfined ==
    ASSUME Confined, Shutdown
    PROVE  Confined'
  <1> DEFINE owing == {id \in Ids : taken[id] # Nothing}
  <1>1. PICK back \in SUBSET owing : \E owed :
           trace' = [trace EXCEPT
                 !.owed = owed,
                 !.touched = @ \cup Handed(tree, back),
                 !.strayed = @ \cup UNION {Astray(id, Handed(tree, back)) : id \in owing},
                 !.moved = {}]
    <2>1. PICK failing \in SUBSET {id \in owing : Writable(tree, id)} :
             LET back == {id \in owing : Writable(tree, id)} \ failing IN
             trace' = [trace EXCEPT
                 !.owed = StillOwed(tree, back, taken),
                 !.touched = @ \cup Handed(tree, back),
                 !.strayed = @ \cup UNION {Astray(id, Handed(tree, back)) : id \in owing},
                 !.moved = {}]
      BY DEF Shutdown
    <2>2. {id \in owing : Writable(tree, id)} \ failing \in SUBSET owing
      OBVIOUS
    <2>3. QED
      BY <2>1, <2>2
  <1>2. /\ running /\ running' = FALSE /\ dir' = dir
        /\ taken' = [id \in Ids |-> Nothing] /\ published' = [id \in Ids |-> Nothing]
    BY DEF Shutdown
  <1>3. trace \in Traces /\ Tells(tree, trace.moved)
    BY <1>2 DEF Confined, HwmonTypeOK, Told
  <1>4. owing \subseteq Allowed
    BY DEF Confined, Permitted
  <1> HIDE DEF owing
  <1> DEFINE went == UNION {Astray(id, Handed(tree, back)) : id \in owing}
  <1>5. /\ trace'.touched = trace.touched \cup Handed(tree, back)
        /\ trace'.strayed = trace.strayed \cup went
    <2>1. PICK owed : trace' = [trace EXCEPT !.owed = owed, !.touched = @ \cup Handed(tree, back),
                                             !.strayed = @ \cup went, !.moved = {}]
      BY <1>1
    <2> HIDE DEF went
    <2>2. QED
      BY <1>3, <2>1 DEF Traces
  <1>6. ASSUME NEW c \in Handed(tree, back), c \notin trace'.strayed
        PROVE  IdOf[c] \in Allowed
    <2>1. c \in Chips /\ dir[c] # NoDir /\ tree[dir[c]].id \in back
      BY <1>6 DEF Handed
    <2>2. c \notin trace.moved
      BY <1>5, <1>6, <2>1 DEF Astray
    <2>3. IdOf[c] \in back
      BY <1>3, <1>6, <2>1, <2>2, ReachedIs
    <2>4. QED
      BY <1>4, <2>3
  <1>7. OnlyConfirmedChannels'
    BY <1>5, <1>6 DEF Confined, OnlyConfirmedChannels
  <1>8. Told' /\ Permitted'
    BY <1>2 DEF Told, Permitted
  <1>9. QED
    BY <1>7, <1>8, ShutdownTyped DEF Confined

LEMMA ConfinedStep == Confined /\ [HwmonNext]_hwmon => Confined'
  <1> SUFFICES ASSUME Confined, [HwmonNext]_hwmon
               PROVE  Confined'
    OBVIOUS
  <1>1. HwmonTypeOK' /\ Enumerated /\ trace \in Traces
    BY HwmonTypedStep DEF Confined, HwmonTypeOK
  <1>2. CASE Rescan
    <2>1. PICK unread : tree' = Scanned(unread)
      BY <1>2 DEF Rescan
    <2>2. trace' = [trace EXCEPT !.moved = {}] /\ UNCHANGED <<dir, taken, published>>
      BY <1>2 DEF Rescan
    <2>3. trace'.moved = {} /\ trace'.touched = trace.touched /\ trace'.strayed = trace.strayed
      BY <1>1, <2>2 DEF Traces
    <2>4. Tells(Scanned(unread), {})
      BY <1>1, ScanTells
    <2>5. Told'
      BY <2>1, <2>2, <2>3, <2>4 DEF Told, Tells
    <2>6. QED
      BY <1>1, <2>2, <2>3, <2>5 DEF Confined, Permitted, OnlyConfirmedChannels
  <1>3. CASE Publish
    BY <1>1, <1>3 DEF Publish, Confined, Told, Tells, Permitted, OnlyConfirmedChannels
  <1>4. CASE Crash
    <2>1. /\ ~running' /\ taken' = [id \in Ids |-> Nothing] /\ published' = published
          /\ trace' = [trace EXCEPT !.abandoned = @ \cup Unrecorded, !.moved = {}]
      BY <1>4 DEF Crash
    <2>2. trace'.touched = trace.touched /\ trace'.strayed = trace.strayed
      BY <1>1, <2>1 DEF Traces
    <2>3. QED
      BY <1>1, <2>1, <2>2 DEF Confined, Told, Permitted, OnlyConfirmedChannels
  <1>5. ASSUME NEW c \in Chips, Pull(c) \/ Plug(c)
        PROVE  Confined'
    <2>1. /\ UNCHANGED <<running, tree, taken, published>>
          /\ trace' = [trace EXCEPT !.moved = IF running THEN @ \cup {c} ELSE @]
      BY <1>5 DEF Pull, Plug
    <2>2. /\ trace'.touched = trace.touched /\ trace'.strayed = trace.strayed
          /\ running => trace'.moved = trace.moved \cup {c}
      BY <1>1, <2>1 DEF Traces
    <2>3. \A d \in Chips \ {c} : dir'[d] = dir[d]
      BY <1>1, <1>5 DEF Pull, Plug, Enumerated
    <2>4. Told'
      BY <2>1, <2>2, <2>3 DEF Confined, Told, Tells
    <2>5. QED
      BY <1>1, <2>1, <2>2, <2>4 DEF Confined, Permitted, OnlyConfirmedChannels
  <1>6. ASSUME NEW c \in Chips, DriverReclaims(c)
        PROVE  Confined'
    <2>1. /\ UNCHANGED <<running, dir, tree, taken, published>>
          /\ trace' = [trace EXCEPT !.owed = [@ EXCEPT ![c] = Nothing]]
      BY <1>6 DEF DriverReclaims
    <2>2. /\ trace'.touched = trace.touched /\ trace'.strayed = trace.strayed
          /\ trace'.moved = trace.moved
      BY <1>1, <2>1 DEF Traces
    <2>3. QED
      BY <1>1, <2>1, <2>2 DEF Confined, Told, Tells, Permitted, OnlyConfirmedChannels
  <1>7. CASE UNCHANGED hwmon
    BY <1>1, <1>7 DEF hwmon, Confined, Told, Tells, Permitted, OnlyConfirmedChannels
  <1>8. QED
    BY <1>2, <1>3, <1>4, <1>5, <1>6, <1>7, StartConfined, ShutdownConfined, WriteConfined
       DEF HwmonNext

LEMMA InitConfined == HwmonInit => Confined
  BY HwmonStartsTyped DEF HwmonInit, Confined, Told, Permitted, OnlyConfirmedChannels

\* On any platform the adapter takes its own steps or none.
LEMMA HwmonMoves == [AdaptersNext]_adapterVars => [HwmonNext]_hwmon
  BY DEF AdaptersNext, adapterVars, hwmon

LEMMA ConfinedAlways == AdaptersSpec => []Confined
  <1>1. AdaptersInit => Confined
    BY InitConfined DEF AdaptersInit, NoHwmon
  <1>2. Confined /\ [AdaptersNext]_adapterVars => Confined'
    BY ConfinedStep, HwmonMoves
  <1>3. QED
    BY <1>1, <1>2, PTL DEF AdaptersSpec

\* OnlyConfirmedChannels (a part of AccessIsSound), with scans that read
\* nothing too, for any chips and ids and any coming and going of them: a file
\* that is written, by a rule, by the restore at the start or by the one at the
\* end, is that of a chip whose id was confirmed, or of one that had moved since
\* the tree was scanned.
THEOREM OnlyConfirmedWritten == AdaptersSpec => []OnlyConfirmedChannels
  <1>1. Confined => OnlyConfirmedChannels
    BY DEF Confined
  <1>2. QED
    BY <1>1, ConfinedAlways, PTL

-----------------------------------------------------------------------------
(* The debt of every channel that was switched away from its driver *)

\* A scan saw which chips have an ownership file; none gains or loses one.
ModesSeen == running => \A c \in Chips \ trace.moved : dir[c] # NoDir =>
                      tree[dir[c]].mode = (enable[c] # NoFile)

\* A channel that owes its mode is still in manual.
HeldManual == \A c \in Answerable : trace.owed[c] # Nothing => enable[c] = Manual

\* The record of a debt, by who is there to know it.
Debt ==
    \A c \in Answerable : trace.owed[c] # Nothing =>
        IF running THEN trace.owed[c] = taken[IdOf[c]]
        ELSE said = "failed" \/ (said = "nothing" /\ trace.owed[c] = published[IdOf[c]])

Quiet == running => said = "nothing"

Modal == Confined /\ ModesSeen /\ HeldManual /\ Debt /\ Quiet

LEMMA InitModal == HwmonInit => Modal
  <1> SUFFICES ASSUME HwmonInit
               PROVE  Modal
    OBVIOUS
  <1>1. ~running /\ \A c \in Chips : trace.owed[c] = Nothing
    BY DEF HwmonInit
  <1>2. QED
    BY <1>1, InitConfined DEF Modal, ModesSeen, HeldManual, Debt, Quiet, Answerable, Unique

\* What answerability comes to.
LEMMA StillAnswerable ==
    ASSUME trace.abandoned \subseteq trace'.abandoned, trace.strayed \subseteq trace'.strayed
    PROVE  Answerable' \subseteq Answerable
  BY DEF Answerable, Unique

LEMMA WriteKeepsModal ==
    ASSUME Modal, NEW id \in Ids, NEW p \in Percents, Write(id, p)
    PROVE  Modal'
  <1>1. /\ running /\ UNCHANGED <<dir, running, tree, published, said>>
    BY WriteDoes DEF Modal, Confined
  <1>2. Confined'
    BY WriteConfined DEF Modal
  <1>3. /\ taken \in [Ids -> Marks] /\ enable \in Files /\ trace.owed \in [Chips -> Marks]
        /\ trace \in Traces /\ Enumerated /\ Tells(tree, trace.moved)
    BY <1>1 DEF Modal, Confined, HwmonTypeOK, Marks, Files, Traces, Told
  <1>4. Quiet'
    BY <1>1 DEF Modal, Quiet
  <1>5. CASE UNCHANGED <<enable, taken, trace>>
    BY <1>1, <1>2, <1>4, <1>5 DEF Modal, ModesSeen, HeldManual, Debt, Answerable, Unique
  <1>6. \A c \in Unique : IdOf[c] \in Ids
    BY HwmonAssumption DEF Unique
  <1>7. CASE Channels(tree, id) # {} /\ ~Leads(Channel(tree, id)) /\ Miss(id)
    <2>1. /\ taken' = [taken EXCEPT ![id] = Nothing] /\ enable' = enable
          /\ trace' = [trace EXCEPT !.strayed = trace.strayed \cup Astray(id, {})]
      BY <1>7 DEF Miss
    <2>2. /\ trace'.moved = trace.moved /\ trace'.owed = trace.owed
          /\ trace'.abandoned = trace.abandoned
          /\ trace'.strayed = trace.strayed \cup Astray(id, {})
      BY <1>3, <2>1 DEF Traces
    <2>3. Answerable' \subseteq Answerable
      BY <2>2, StillAnswerable
    <2>4. ASSUME NEW c \in Answerable'
          PROVE  IdOf[c] # id
      <3> SUFFICES ASSUME IdOf[c] = id PROVE FALSE
        OBVIOUS
      <3>1. c \in Unique \ trace.moved /\ c \in Chips
        BY <2>2, <2>4 DEF Answerable, Unique, Astray
      <3>2. dir[c] = Channel(tree, id)
        BY <1>3, <1>7, <3>1, OnlyOne
      <3>3. QED
        BY <1>7, <3>1, <3>2 DEF Leads
    <2>5. ModesSeen' /\ HeldManual'
      BY <1>1, <2>1, <2>2, <2>3 DEF Modal, ModesSeen, HeldManual
    <2>6. Debt'
      <3> SUFFICES ASSUME NEW c \in Answerable', trace'.owed[c] # Nothing
                   PROVE  trace'.owed[c] = taken'[IdOf[c]]
        BY <1>1 DEF Debt
      <3>1. c \in Answerable /\ c \in Unique
        BY <2>3 DEF Answerable
      <3>2. trace.owed[c] = taken[IdOf[c]]
        BY <1>1, <2>2, <3>1 DEF Modal, Debt
      <3>3. QED
        BY <1>3, <1>6, <2>1, <2>2, <2>4, <3>1, <3>2
    <2>7. QED
      BY <1>2, <1>4, <2>5, <2>6 DEF Modal
  <1>8. ASSUME NEW r \in Chips, Reaches(id, r)
        PROVE  Modal'
    <2>1. /\ Channels(tree, id) # {} /\ dir[r] = Channel(tree, id)
          /\ trace'.moved = trace.moved
          /\ trace'.strayed = trace.strayed \cup Astray(id, {r})
      BY <1>8 DEF Reaches
    <2>2. PICK was \in Marks : Found(r, was) /\ (\/ Switched(id, r, was) \/ Returned(id, r, was)
                                                 \/ Dropped(id, r, was))
      BY <1>8 DEF Reaches
    <2>3. trace.abandoned \subseteq trace'.abandoned
      BY <2>2 DEF Switched, Returned, Dropped
    <2>4. Answerable' \subseteq Answerable
      BY <2>1, <2>3, StillAnswerable
    <2>5. dir[r] # NoDir
      BY <2>1, FirstIs, Places
    \* An answerable chip is the one that was reached, under its own id, or has
    \* nothing to do with this write.
    <2>6. ASSUME NEW c \in Answerable'
          PROVE  c \in Chips /\ IdOf[c] \in Ids /\ (c = r <=> IdOf[c] = id)
      <3>1. c \in Unique /\ c \in Chips /\ IdOf[c] \in Ids
        BY <1>6, <2>4, <2>6 DEF Answerable, Unique
      <3>2. (c = r \/ IdOf[c] = id) => c \notin trace.moved
        BY <2>1, <2>6 DEF Answerable, Astray
      <3>3. c = r => IdOf[c] = id
        BY <1>3, <2>1, <2>5, <3>1, <3>2, ReachedIs
      <3>4. IdOf[c] = id => c = r
        <4> SUFFICES ASSUME IdOf[c] = id PROVE c = r
          OBVIOUS
        <4>1. dir[c] = Channel(tree, id) /\ dir[c] # NoDir
          BY <1>3, <2>1, <3>1, <3>2, OnlyOne
        <4>2. QED
          BY <1>3, <2>1, <3>1, <4>1 DEF Enumerated
      <3>5. QED
        BY <3>1, <3>3, <3>4
    <2>7. /\ \A c \in Chips \ {r} : enable'[c] = enable[c] /\ trace'.owed[c] = trace.owed[c]
          /\ \A k \in Ids \ {id} : taken'[k] = taken[k]
      BY <1>3, <2>2 DEF Switched, Returned, Dropped, Files
    <2>8. ASSUME r \in Answerable', trace'.owed[r] # Nothing
          PROVE  enable'[r] = Manual /\ trace'.owed[r] = taken'[id]
      <3>1. r \in Answerable /\ IdOf[r] = id
        BY <2>4, <2>6, <2>8
      <3>2. trace.owed[r] # Nothing => enable[r] = Manual /\ trace.owed[r] = taken[id]
        BY <1>1, <3>1 DEF Modal, HeldManual, Debt
      <3>3. CASE Switched(id, r, was)
        BY <1>3, <2>8, <3>2, <3>3 DEF Switched, Files
      <3>4. CASE Returned(id, r, was)
        BY <1>3, <2>8, <3>2, <3>4 DEF Returned, Files
      <3>5. CASE Dropped(id, r, was)
        BY <2>8, <3>5 DEF Dropped, Answerable
      <3>6. QED
        BY <2>2, <3>3, <3>4, <3>5
    <2>9. (enable'[r] # NoFile) = (enable[r] # NoFile)
      <3>1. Manual # NoFile /\ (was # Nothing => was # NoFile /\ enable[r] = was)
            /\ (was # Nothing => was \in Modes) /\ \A k \in Modes : k # NoFile
        BY <2>2, EveryMark DEF Found, Manual, NoFile
      <3>2. CASE Switched(id, r, was) \/ Dropped(id, r, was)
        BY <1>3, <3>1, <3>2 DEF Switched, Dropped, Files
      <3>3. CASE Returned(id, r, was)
        <4>1. taken[id] # Nothing => taken[id] \in Modes
          BY <1>3, EveryMark
        <4>2. QED
          BY <1>3, <3>1, <3>3, <4>1 DEF Returned, Files
      <3>4. QED
        BY <2>2, <3>2, <3>3
    <2>10. ModesSeen'
      BY <1>1, <2>1, <2>7, <2>9 DEF Modal, ModesSeen
    <2>11. HeldManual'
      <3> SUFFICES ASSUME NEW c \in Answerable', trace'.owed[c] # Nothing
                   PROVE  enable'[c] = Manual
        BY DEF HeldManual
      <3>1. CASE c = r
        BY <2>8, <3>1
      <3>2. CASE c # r
        BY <2>4, <2>6, <2>7, <3>2 DEF Modal, HeldManual
      <3>3. QED
        BY <3>1, <3>2
    <2>12. Debt'
      <3> SUFFICES ASSUME NEW c \in Answerable', trace'.owed[c] # Nothing
                   PROVE  trace'.owed[c] = taken'[IdOf[c]]
        BY <1>1 DEF Debt
      <3>1. CASE c = r
        BY <2>6, <2>8, <3>1
      <3>2. CASE c # r
        BY <1>1, <2>4, <2>6, <2>7, <3>2 DEF Modal, Debt
      <3>3. QED
        BY <3>1, <3>2
    <2>13. QED
      BY <1>2, <1>4, <2>10, <2>11, <2>12 DEF Modal
  <1>9. QED
    BY <1>5, <1>7, <1>8, WriteDoes DEF Modal, Confined

LEMMA StartKeepsModal ==
    ASSUME Modal, Start
    PROVE  Modal'
  <1> DEFINE mine == {id \in Allowed : published[id] # Nothing}
             scan == Scanned({})
  <1>1. /\ ~running /\ running' /\ tree' = scan /\ said' = "nothing" /\ dir' = dir
        /\ taken' = [id \in Ids |-> IF id \in mine THEN published[id] ELSE Nothing]
        /\ published' = published
    BY Zenon DEF Start
  <1>2. PICK back \in SUBSET {id \in mine : Writable(scan, id)} :
           /\ PutBack(scan, back, published)
           /\ trace' = [trace EXCEPT !.owed = StillOwed(scan, back, published),
                 !.touched = @ \cup Handed(scan, back), !.abandoned = @ \cup Unrecorded]
    BY Zenon DEF Start
  <1>3. Confined' /\ HwmonTypeOK /\ Enumerated /\ trace \in Traces
    BY StartConfined DEF Modal, Confined, HwmonTypeOK
  <1>4. /\ back \in SUBSET Ids /\ published \in [Ids -> Marks]
        /\ \A id \in back : published[id] # Nothing /\ Writable(scan, id)
    BY <1>2, HwmonAssumption DEF Modal, Confined, HwmonTypeOK, Marks
  <1>5. Tells(scan, {})
    BY <1>3, ScanTells
  <1>6. \A c \in Chips : dir[c] # NoDir => scan[dir[c]].mode = (enable[c] # NoFile)
    BY <1>3, ScanTells
  <1> HIDE DEF scan
  <1>7. \A c \in Chips : enable'[c] = IF c \in Handed(scan, back)
                                      THEN published[scan[dir[c]].id] ELSE enable[c]
    BY <1>2, <1>3, <1>4, BackIsTyped
  <1>8. /\ trace'.owed = StillOwed(scan, back, published) /\ trace'.moved = trace.moved
        /\ trace'.abandoned = trace.abandoned \cup Unrecorded /\ trace'.strayed = trace.strayed
    BY <1>2, <1>3 DEF Traces
  <1>9. Answerable' \subseteq Answerable
    BY <1>8, StillAnswerable
  <1>10. \A c \in Chips : (enable'[c] # NoFile) = (enable[c] # NoFile)
    <2> SUFFICES ASSUME NEW c \in Handed(scan, back)
                 PROVE  enable[c] # NoFile /\ published[scan[dir[c]].id] # NoFile
      BY <1>7
    <2> DEFINE id == scan[dir[c]].id
    <2>1. c \in Chips /\ dir[c] # NoDir /\ id \in back /\ Channel(scan, id) = dir[c]
      BY DEF Handed
    <2>2. published[id] \in Modes /\ \A k \in Modes : k # NoFile
      BY <1>4, <2>1, EveryMark DEF NoFile
    <2>3. ModeAt(dir[c], FALSE) # NoFile
      BY <1>4, <2>1 DEF Writable
    <2>4. Leads(dir[c]) /\ At(dir[c]) = c
      BY <1>3, <2>1, PathsLead DEF Leads
    <2>5. QED
      BY <2>2, <2>3, <2>4 DEF ModeAt
  <1>11. ModesSeen'
    BY <1>1, <1>6, <1>10 DEF ModesSeen
  <1>12. ASSUME NEW c \in Answerable', trace'.owed[c] # Nothing
         PROVE  /\ c \in Answerable /\ c \in Chips /\ IdOf[c] \in Ids
                /\ trace.owed[c] # Nothing /\ trace'.owed[c] = trace.owed[c]
                /\ trace.owed[c] = published[IdOf[c]] /\ c \notin Handed(scan, back)
    <2>1. c \in Answerable /\ c \in Unique /\ c \in Chips /\ IdOf[c] \in Ids
      BY <1>9, <1>12, HwmonAssumption DEF Answerable, Unique
    <2>2. /\ trace'.owed[c] = trace.owed[c] /\ trace.owed[c] # Nothing
          /\ ~(c \in Handed(scan, back) /\ trace.owed[c] = published[scan[dir[c]].id])
      BY <1>8, <1>12, <2>1 DEF StillOwed
    <2>3. c \notin Unrecorded
      BY <1>8, <1>12 DEF Answerable
    <2>4. trace.owed[c] = published[IdOf[c]]
      BY <2>1, <2>2, <2>3 DEF Unrecorded
    <2>5. c \in Handed(scan, back) => scan[dir[c]].id = IdOf[c]
      BY <1>3, <1>5, <2>1, OnlyOne DEF Handed
    <2>6. QED
      BY <2>1, <2>2, <2>4, <2>5
  <1>13. HeldManual'
    BY <1>7, <1>12 DEF Modal, HeldManual
  <1>14. Debt'
    <2> SUFFICES ASSUME NEW c \in Answerable', trace'.owed[c] # Nothing
                 PROVE  trace'.owed[c] = taken'[IdOf[c]]
      BY <1>1 DEF Debt
    <2>1. IdOf[c] \in mine
      BY <1>12 DEF Modal, Confined, Permitted
    <2>2. QED
      BY <1>1, <1>12, <2>1
  <1>15. QED
    BY <1>1, <1>3, <1>11, <1>13, <1>14 DEF Modal, Quiet

LEMMA ShutdownKeepsModal ==
    ASSUME Modal, Shutdown
    PROVE  Modal'
  <1> DEFINE owing == {id \in Ids : taken[id] # Nothing}
  <1>1. running /\ ~running'
    BY Zenon DEF Shutdown
  <1>2. PICK failing \in SUBSET {id \in owing : Writable(tree, id)} :
           LET back == {id \in owing : Writable(tree, id)} \ failing IN
           /\ PutBack(tree, back, taken)
           /\ said' = Answer(owing, back)
           /\ trace' = [trace EXCEPT
                 !.owed = StillOwed(tree, back, taken),
                 !.touched = @ \cup Handed(tree, back),
                 !.strayed = @ \cup UNION {Astray(id, Handed(tree, back)) : id \in owing},
                 !.moved = {}]
    BY DEF Shutdown
  <1> DEFINE back == {id \in owing : Writable(tree, id)} \ failing
             went == UNION {Astray(id, Handed(tree, back)) : id \in owing}
  <1>3. /\ Confined' /\ HwmonTypeOK /\ Enumerated /\ trace \in Traces
        /\ taken \in [Ids -> Marks] /\ Tells(tree, trace.moved)
    BY <1>1, ShutdownConfined DEF Modal, Confined, HwmonTypeOK, Marks, Told
  <1>4. /\ back \in SUBSET Ids /\ \A id \in back : taken[id] # Nothing
        /\ \A id \in back : HasMode(tree, id) /\ Channels(tree, id) # {}
    BY DEF Writable, HasMode
  <1>5. /\ PutBack(tree, back, taken) /\ said' = Answer(owing, back)
        /\ trace' = [trace EXCEPT !.owed = StillOwed(tree, back, taken),
                 !.touched = @ \cup Handed(tree, back), !.strayed = @ \cup went, !.moved = {}]
    BY <1>2
  <1> HIDE DEF back
  <1>6. \A c \in Chips : enable'[c] = IF c \in Handed(tree, back)
                                      THEN taken[tree[dir[c]].id] ELSE enable[c]
    BY <1>3, <1>4, <1>5, BackIsTyped
  <1>7. /\ trace'.owed = StillOwed(tree, back, taken)
        /\ trace'.abandoned = trace.abandoned
        /\ trace'.strayed = trace.strayed \cup went
    <2> HIDE DEF went
    <2>1. QED
      BY <1>3, <1>5 DEF Traces
  <1>8. Answerable' \subseteq Answerable
    BY <1>7, StillAnswerable
  <1>9. ASSUME NEW c \in Answerable', trace'.owed[c] # Nothing
        PROVE  said' = "failed" /\ enable'[c] = Manual
    <2> DEFINE id == IdOf[c]
    <2>1. c \in Answerable /\ c \in Unique /\ c \in Chips /\ id \in Ids
      BY <1>8, <1>9, HwmonAssumption DEF Answerable, Unique
    <2>2. /\ trace'.owed[c] = trace.owed[c] /\ trace.owed[c] # Nothing
          /\ ~(c \in Handed(tree, back) /\ trace.owed[c] = taken[tree[dir[c]].id])
      BY <1>7, <1>9, <2>1 DEF StillOwed
    <2>3. trace.owed[c] = taken[id] /\ enable[c] = Manual
      BY <1>1, <2>1, <2>2 DEF Modal, Debt, HeldManual
    <2>4. id \in owing
      BY <2>1, <2>2, <2>3
    <2>5. c \notin trace.moved
      BY <1>7, <1>9, <2>4 DEF Answerable, Astray
    <2>6. CASE dir[c] = NoDir
      <3>1. Channels(tree, id) = {}
        BY <1>3, <2>1, <2>5, <2>6, OnlyOne
      <3>2. id \notin back
        BY <1>4, <3>1
      <3>3. said' = "failed"
        BY <1>5, <2>4, <3>1, <3>2 DEF Answer
      <3>4. c \notin Handed(tree, back)
        BY <2>6 DEF Handed
      <3>5. QED
        BY <1>6, <2>1, <2>3, <3>3, <3>4
    <2>7. CASE dir[c] # NoDir
      <3>1. Channels(tree, id) # {} /\ Channel(tree, id) = dir[c] /\ tree[dir[c]].id = id
        BY <1>3, <2>1, <2>5, <2>7, OnlyOne
      <3>2. tree[dir[c]].mode
        <4>1. enable[c] # NoFile
          BY <2>3 DEF Manual, NoFile
        <4>2. ModesSeen /\ running
          BY <1>1 DEF Modal
        <4>3. tree[dir[c]].mode = (enable[c] # NoFile)
          BY <2>1, <2>5, <2>7, <4>2, Zenon DEF ModesSeen
        <4>4. QED
          BY <4>1, <4>3, Zenon
      <3>3. HasMode(tree, id)
        BY <3>1, <3>2 DEF HasMode
      <3>4. c \notin Handed(tree, back)
        BY <2>2, <2>3, <3>1
      <3>5. id \notin back
        BY <2>1, <2>7, <3>1, <3>4 DEF Handed
      <3>6. said' = "failed"
        BY <1>5, <2>4, <3>3, <3>5 DEF Answer
      <3>7. QED
        BY <1>6, <2>1, <2>3, <3>4, <3>6
    <2>8. QED
      BY <2>6, <2>7
  <1>10. QED
    BY <1>1, <1>3, <1>9 DEF Modal, ModesSeen, HeldManual, Debt, Quiet

LEMMA ModalStep ==
    ASSUME ~ScanFaults
    PROVE  Modal /\ [HwmonNext]_hwmon => Modal'
  <1> SUFFICES ASSUME Modal, [HwmonNext]_hwmon
               PROVE  Modal'
    OBVIOUS
  <1>1. Confined' /\ Enumerated /\ trace \in Traces
    BY ConfinedStep DEF Modal, Confined, HwmonTypeOK
  <1>2. CASE Rescan
    <2>1. tree' = Scanned({}) /\ trace' = [trace EXCEPT !.moved = {}]
          /\ UNCHANGED <<enable, dir, running, taken, published, said>>
      BY <1>2 DEF Rescan
    <2>2. trace'.owed = trace.owed /\ Answerable' = Answerable
      BY <1>1, <2>1 DEF Traces, Answerable, Unique
    <2>3. \A c \in Chips : dir[c] # NoDir => Scanned({})[dir[c]].mode = (enable[c] # NoFile)
      BY <1>1, ScanTells
    <2>4. ModesSeen'
      BY <2>1, <2>3 DEF ModesSeen
    <2>5. QED
      BY <1>1, <2>1, <2>2, <2>4 DEF Modal, HeldManual, Debt, Quiet
  <1>3. CASE Publish
    <2>1. running /\ UNCHANGED <<enable, dir, running, tree, taken, said, trace>>
      BY <1>3 DEF Publish
    <2>2. QED
      BY <1>1, <2>1 DEF Modal, ModesSeen, HeldManual, Debt, Quiet, Answerable, Unique
  <1>4. CASE Crash
    <2>1. /\ running /\ ~running' /\ UNCHANGED <<enable, published, said>>
          /\ trace' = [trace EXCEPT !.abandoned = @ \cup Unrecorded, !.moved = {}]
      BY <1>4, Zenon DEF Crash
    <2>2. trace'.owed = trace.owed /\ trace'.abandoned = trace.abandoned \cup Unrecorded
          /\ trace'.strayed = trace.strayed
      BY <1>1, <2>1 DEF Traces
    <2>3. Answerable' \subseteq Answerable /\ Answerable' \subseteq Chips \ Unrecorded
      BY <2>2, StillAnswerable DEF Answerable, Unique
    <2>4. HeldManual' /\ ModesSeen' /\ Quiet'
      BY <2>1, <2>2, <2>3 DEF Modal, HeldManual, ModesSeen, Quiet
    <2>5. Debt'
      BY <2>1, <2>2, <2>3 DEF Modal, Quiet, Debt, Unrecorded
    <2>6. QED
      BY <1>1, <2>4, <2>5 DEF Modal
  <1>5. ASSUME NEW c \in Chips, Pull(c) \/ Plug(c)
        PROVE  Modal'
    <2>1. /\ UNCHANGED <<enable, running, tree, taken, published, said>>
          /\ trace' = [trace EXCEPT !.moved = IF running THEN @ \cup {c} ELSE @]
      BY <1>5 DEF Pull, Plug
    <2>2. /\ trace'.owed = trace.owed /\ Answerable' = Answerable
          /\ running => trace'.moved = trace.moved \cup {c}
      BY <1>1, <2>1 DEF Traces, Answerable, Unique
    <2>3. \A d \in Chips \ {c} : dir'[d] = dir[d]
      BY <1>1, <1>5 DEF Pull, Plug, Enumerated
    <2>4. ModesSeen'
      BY <2>1, <2>2, <2>3 DEF Modal, ModesSeen
    <2>5. QED
      BY <1>1, <2>1, <2>2, <2>4 DEF Modal, HeldManual, Debt, Quiet
  <1>6. ASSUME NEW c \in Chips, DriverReclaims(c)
        PROVE  Modal'
    <2>1. /\ enable[c] = Manual /\ enable' = [enable EXCEPT ![c] = 2]
          /\ UNCHANGED <<dir, running, tree, taken, published, said>>
          /\ trace' = [trace EXCEPT !.owed = [trace.owed EXCEPT ![c] = Nothing]]
      BY <1>6 DEF DriverReclaims
    <2>2. trace'.owed = [trace.owed EXCEPT ![c] = Nothing] /\ Answerable' = Answerable
          /\ trace'.moved = trace.moved
      BY <1>1, <2>1 DEF Traces, Answerable, Unique
    <2>3. enable \in Files /\ trace.owed \in [Chips -> Marks] /\ Answerable \subseteq Chips
      BY DEF Modal, Confined, HwmonTypeOK, Files, Marks, Traces, Answerable, Unique
    <2>4. \A d \in Chips : /\ (enable'[d] # NoFile) = (enable[d] # NoFile)
                           /\ trace'.owed[d] # Nothing
                                 => enable'[d] = enable[d] /\ trace'.owed[d] = trace.owed[d]
      BY <2>1, <2>2, <2>3 DEF Files, Manual, NoFile
    <2>5. ModesSeen' /\ Quiet'
      BY <2>1, <2>2, <2>4 DEF Modal, ModesSeen, Quiet
    <2>6. HeldManual' /\ Debt'
      BY <2>1, <2>2, <2>3, <2>4 DEF Modal, HeldManual, Debt
    <2>7. QED
      BY <1>1, <2>5, <2>6 DEF Modal
  <1>7. CASE UNCHANGED hwmon
    BY <1>1, <1>7 DEF hwmon, Modal, ModesSeen, HeldManual, Debt, Quiet, Answerable, Unique
  <1>8. QED
    BY <1>2, <1>3, <1>4, <1>5, <1>6, <1>7, StartKeepsModal, ShutdownKeepsModal, WriteKeepsModal
       DEF HwmonNext

\* ModesAreReturned, for any chips and ids, any of them allowed, any number of
\* file accesses that fail, crashes, restarts and chips that are pulled and come
\* back under other numbers at any time, the process running or not: the debt of
\* a channel is in `taken` while the process lives, in what it published when it
\* died, and nowhere only if a restore failed or was never recorded.  It says
\* nothing of chips that share their name, nor of one whose id was used while it
\* had moved and no scan had seen it yet.
THEOREM ModesReturn ==
    ASSUME ~ScanFaults
    PROVE  AdaptersSpec => []ModesAreReturned
  <1>1. AdaptersInit => Modal
    BY InitModal DEF AdaptersInit, NoHwmon
  <1>2. Modal /\ [AdaptersNext]_adapterVars => Modal'
    BY ModalStep, HwmonMoves
  <1>3. Modal => ModesAreReturned
    BY DEF Modal, Debt, ModesAreReturned, NothingForgotten, OkMeansHandedBack
  <1>4. QED
    BY <1>1, <1>2, <1>3, PTL DEF AdaptersSpec

-----------------------------------------------------------------------------
(* LibreHardwareMonitor: the mapping of a tree to devices *)

\* A tree shows every node at one place.
LEMMA EveryNode ==
    ASSUME NEW t \in Trees, NEW hw \in Hardware
    PROVE  Slot(hw, t.order) \in Nat \ {0} /\ t.order[Slot(hw, t.order)] = hw
  <1> DEFINE n == Cardinality(Hardware)
  <1>1. IsFiniteSet(Hardware) /\ n \in Nat
    BY LhmAssumption, FS_CardinalityType
  <1>2. t.order \in [1 .. n -> Hardware] /\ \A i, j \in DOMAIN t.order : t.order[i] = t.order[j] => i = j
    BY DEF Trees
  <1> HIDE DEF n
  <1>3. IsFiniteSet(1 .. n) /\ Cardinality(1 .. n) = n
    BY <1>1, FS_Interval
  <1>4. t.order \in Injection(1 .. n, Hardware)
    BY <1>2 DEF Injection, IsInjective
  <1>5. t.order \in Surjection(1 .. n, Hardware)
    BY <1>1, <1>3, <1>4, FS_Injection DEF n
  <1>6. \E i \in DOMAIN t.order : t.order[i] = hw
    BY <1>2, <1>5 DEF Surjection
  <1>7. Slot(hw, t.order) \in DOMAIN t.order /\ t.order[Slot(hw, t.order)] = hw
    BY <1>6 DEF Slot
  <1>8. QED
    BY <1>1, <1>2, <1>7

\* What a sensor set holds at most.
LEMMA FirstIsOne ==
    ASSUME NEW S
    PROVE  /\ First(S) \subseteq S
           /\ \A x, y \in First(S) : x = y
  BY DEF First

\* A channel's sensors hang below its node and carry its number, or define it.
LEMMA ChannelSensors ==
    ASSUME NEW hw \in Hardware, NEW shown, NEW ch \in FanChannels(hw, shown)
    PROVE  /\ ch.tach \subseteq Tachs /\ ch.control \subseteq Controls
           /\ \A s \in ch.tach \cup ch.control : HwOf[s] = hw /\ AnchorOf(s).number = ch.number
           /\ \A x, y \in ch.tach : x = y
           /\ \A x, y \in ch.control : x = y
           /\ ch.number = None => \E s : ch.tach \cup ch.control = {s}
  <1> DEFINE tachs    == {t \in Tachs \cap shown : HwOf[t] = hw}
             controls == {c \in Controls \cap shown : HwOf[c] = hw}
             numbers  == {AnchorOf(s).number : s \in tachs \cup controls} \ {None}
  <1>1. CASE ch \in {[number |-> n, tach |-> First(Claiming(tachs, n)),
                      control |-> First(Claiming(controls, n)),
                      withheld |-> Ambiguous(Claiming(tachs, n), Claiming(controls, n))]
                        : n \in numbers}
    <2>1. PICK n \in numbers : ch.number = n /\ ch.tach = First(Claiming(tachs, n))
                               /\ ch.control = First(Claiming(controls, n))
      BY <1>1
    <2>2. ch.tach \subseteq Claiming(tachs, n) /\ ch.control \subseteq Claiming(controls, n)
      BY <2>1, FirstIsOne
    <2>3. (\A x, y \in ch.tach : x = y) /\ (\A x, y \in ch.control : x = y)
      BY <2>1 DEF First
    <2>4. QED
      BY <2>1, <2>2, <2>3 DEF Claiming
  <1>2. CASE ch \in {[number |-> None, tach |-> {t}, control |-> {}, withheld |-> FALSE] :
                        t \in Claiming(tachs, None)}
    <2>1. PICK t \in Claiming(tachs, None) :
             ch = [number |-> None, tach |-> {t}, control |-> {}, withheld |-> FALSE]
      BY <1>2
    <2>2. ch.number = None /\ ch.tach = {t} /\ ch.control = {}
      BY <2>1
    <2>3. t \in Tachs /\ HwOf[t] = hw /\ AnchorOf(t).number = None
      BY DEF Claiming
    <2>4. QED
      BY <2>2, <2>3
  <1>3. CASE ch \in {[number |-> None, tach |-> {}, control |-> {c}, withheld |-> TRUE] :
                        c \in Claiming(controls, None)}
    <2>1. PICK c \in Claiming(controls, None) :
             ch = [number |-> None, tach |-> {}, control |-> {c}, withheld |-> TRUE]
      BY <1>3
    <2>2. ch.number = None /\ ch.tach = {} /\ ch.control = {c}
      BY <2>1
    <2>3. c \in Controls /\ HwOf[c] = hw /\ AnchorOf(c).number = None
      BY DEF Claiming
    <2>4. QED
      BY <2>2, <2>3
  <1>4. QED
    BY <1>1, <1>2, <1>3, Zenon DEF FanChannels

\* Two channels of a node with one key are one channel.
LEMMA KeyNamesChannel ==
    ASSUME NEW hw \in Hardware, NEW shown, NEW slot,
           NEW a \in FanChannels(hw, shown), NEW b \in FanChannels(hw, shown),
           ChannelKey(hw, a, slot) = ChannelKey(hw, b, slot)
    PROVE  a = b
  <1> DEFINE tachs    == {t \in Tachs \cap shown : HwOf[t] = hw}
             controls == {c \in Controls \cap shown : HwOf[c] = hw}
             numbers  == {AnchorOf(s).number : s \in tachs \cup controls} \ {None}
             Numbers  == {[number |-> n, tach |-> First(Claiming(tachs, n)),
                           control |-> First(Claiming(controls, n)),
                           withheld |-> Ambiguous(Claiming(tachs, n), Claiming(controls, n))]
                             : n \in numbers}
             Bare     == {[number |-> None, tach |-> {t}, control |-> {}, withheld |-> FALSE] :
                             t \in Claiming(tachs, None)}
             Loose    == {[number |-> None, tach |-> {}, control |-> {c}, withheld |-> TRUE] :
                             c \in Claiming(controls, None)}
  <1>1. a \in Numbers \cup Bare \cup Loose /\ b \in Numbers \cup Bare \cup Loose
    BY Zenon DEF FanChannels
  <1>2. a.number = b.number
        /\ (a.number = None => a.tach \cup a.control = b.tach \cup b.control)
    BY DEF ChannelKey
  <1>3. /\ \A x \in Numbers : x.number # None
        /\ \A x, y \in Numbers : x.number = y.number => x = y
    <2> DEFINE T(n) == First(Claiming(tachs, n))
               C(n) == First(Claiming(controls, n))
               W(n) == Ambiguous(Claiming(tachs, n), Claiming(controls, n))
    <2>1. Numbers = {[number |-> n, tach |-> T(n), control |-> C(n), withheld |-> W(n)] : n \in numbers}
      OBVIOUS
    <2> HIDE DEF T, C, W, Numbers
    <2>2. \A x \in Numbers : \E n \in numbers :
             x = [number |-> n, tach |-> T(n), control |-> C(n), withheld |-> W(n)]
      BY <2>1
    <2>3. \A n \in numbers : n # None
      OBVIOUS
    <2> HIDE DEF numbers
    <2>4. \A x \in Numbers :
             /\ x.number \in numbers
             /\ x = [number |-> x.number, tach |-> T(x.number), control |-> C(x.number),
                     withheld |-> W(x.number)]
      <3> SUFFICES ASSUME NEW x \in Numbers
                   PROVE  /\ x.number \in numbers
                          /\ x = [number |-> x.number, tach |-> T(x.number),
                                  control |-> C(x.number), withheld |-> W(x.number)]
        OBVIOUS
      <3>1. PICK n \in numbers :
               x = [number |-> n, tach |-> T(n), control |-> C(n), withheld |-> W(n)]
        BY <2>2
      <3>2. x.number = n
        BY <3>1
      <3>3. QED
        BY <3>1, <3>2
    <2>5. QED
      BY <2>3, <2>4, Zenon
  <1>4. \A x \in Bare \cup Loose : x.number = None
    <2>1. \A x \in Bare : \E k : x = [number |-> None, tach |-> {k}, control |-> {}, withheld |-> FALSE]
      OBVIOUS
    <2>2. \A x \in Loose : \E k : x = [number |-> None, tach |-> {}, control |-> {k}, withheld |-> TRUE]
      OBVIOUS
    <2> HIDE DEF Bare, Loose
    <2>3. QED
      BY <2>1, <2>2
  <1>5. \A x, y \in Bare : x.tach \cup x.control = y.tach \cup y.control => x = y
    <2>1. \A x \in Bare : \E k : x = [number |-> None, tach |-> {k}, control |-> {}, withheld |-> FALSE]
      OBVIOUS
    <2> HIDE DEF Bare
    <2> SUFFICES ASSUME NEW x \in Bare, NEW y \in Bare, x.tach \cup x.control = y.tach \cup y.control
                 PROVE  x = y
      OBVIOUS
    <2>2. PICK k : x = [number |-> None, tach |-> {k}, control |-> {}, withheld |-> FALSE]
      BY <2>1
    <2>3. PICK j : y = [number |-> None, tach |-> {j}, control |-> {}, withheld |-> FALSE]
      BY <2>1
    <2>4. x.tach \cup x.control = {k} /\ y.tach \cup y.control = {j}
      BY <2>2, <2>3
    <2>5. k = j
      BY <2>4
    <2>6. QED
      BY <2>2, <2>3, <2>5
  <1>6. \A x, y \in Loose : x.tach \cup x.control = y.tach \cup y.control => x = y
    <2>1. \A x \in Loose : \E k : x = [number |-> None, tach |-> {}, control |-> {k}, withheld |-> TRUE]
      OBVIOUS
    <2> HIDE DEF Loose
    <2> SUFFICES ASSUME NEW x \in Loose, NEW y \in Loose, x.tach \cup x.control = y.tach \cup y.control
                 PROVE  x = y
      OBVIOUS
    <2>2. PICK k : x = [number |-> None, tach |-> {}, control |-> {k}, withheld |-> TRUE]
      BY <2>1
    <2>3. PICK j : y = [number |-> None, tach |-> {}, control |-> {j}, withheld |-> TRUE]
      BY <2>1
    <2>4. x.tach \cup x.control = {k} /\ y.tach \cup y.control = {j}
      BY <2>2, <2>3
    <2>5. k = j
      BY <2>4
    <2>6. QED
      BY <2>2, <2>3, <2>5
  <1>7. \A x \in Bare, y \in Loose : x.tach \cup x.control # y.tach \cup y.control
    BY LhmAssumption DEF Claiming
  <1> HIDE DEF Numbers, Bare, Loose
  <1>8. QED
    BY <1>1, <1>2, <1>3, <1>4, <1>5, <1>6, <1>7

\* No two devices of a mapping have one id, whatever the tree looks like.
LEMMA IdsAreUnique ==
    ASSUME NEW t \in Trees, NEW d \in MapTree(t), NEW e \in MapTree(t), d.id = e.id
    PROVE  d = e
  <1>1. PICK h1 \in Hardware : \E ch \in FanChannels(h1, t.shown) : d = Device(h1, ch, t)
    BY DEF MapTree
  <1>2. PICK c1 \in FanChannels(h1, t.shown) : d = Device(h1, c1, t)
    BY <1>1
  <1>3. PICK h2 \in Hardware : \E ch \in FanChannels(h2, t.shown) : e = Device(h2, ch, t)
    BY DEF MapTree
  <1>4. PICK c2 \in FanChannels(h2, t.shown) : e = Device(h2, c2, t)
    BY <1>3
  <1> DEFINE p1 == PlainId(h1, c1, t.order)
             p2 == PlainId(h2, c2, t.order)
  <1>5. /\ p1.slot = None /\ p2.slot = None
        /\ p1.key = ChannelKey(h1, c1, Slot(h1, t.order)) /\ p1.type = TypeOf(c1)
        /\ p2.key = ChannelKey(h2, c2, Slot(h2, t.order)) /\ p2.type = TypeOf(c2)
        /\ d.id = IF ClaimedBefore(h1, c1, t) THEN [p1 EXCEPT !.slot = Slot(h1, t.order)] ELSE p1
        /\ e.id = IF ClaimedBefore(h2, c2, t) THEN [p2 EXCEPT !.slot = Slot(h2, t.order)] ELSE p2
    BY <1>2, <1>4 DEF Device, Claim, PlainId
  <1>6. /\ p1 = [type |-> p1.type, key |-> p1.key, slot |-> p1.slot]
        /\ p2 = [type |-> p2.type, key |-> p2.key, slot |-> p2.slot]
    BY DEF PlainId
  <1>7. /\ Slot(h1, t.order) \in Nat \ {0} /\ t.order[Slot(h1, t.order)] = h1
        /\ Slot(h2, t.order) \in Nat \ {0} /\ t.order[Slot(h2, t.order)] = h2
    BY EveryNode
  <1>8. (ClaimedBefore(h1, c1, t) <=> ClaimedBefore(h2, c2, t)) /\ p1.key = p2.key /\ p1.type = p2.type
        /\ (ClaimedBefore(h1, c1, t) => Slot(h1, t.order) = Slot(h2, t.order))
    <2> HIDE DEF p1, p2
    <2>1. d.id.slot = IF ClaimedBefore(h1, c1, t) THEN Slot(h1, t.order) ELSE None
      BY <1>5, <1>6
    <2>2. e.id.slot = IF ClaimedBefore(h2, c2, t) THEN Slot(h2, t.order) ELSE None
      BY <1>5, <1>6
    <2>3. d.id.key = p1.key /\ d.id.type = p1.type /\ e.id.key = p2.key /\ e.id.type = p2.type
      BY <1>5, <1>6
    <2>4. QED
      BY <1>7, <2>1, <2>2, <2>3 DEF None
  <1>9. p1 = p2
    <2> HIDE DEF p1, p2
    <2>1. QED
      BY <1>5, <1>6, <1>8
  <1>10. h1 = h2
    <2>1. CASE ClaimedBefore(h1, c1, t)
      BY <1>7, <1>8, <2>1
    <2>2. CASE ~ClaimedBefore(h1, c1, t)
      <3>1. ~(Slot(h2, t.order) < Slot(h1, t.order))
        BY <1>4, <1>9, <2>2 DEF ClaimedBefore
      <3>2. ~(Slot(h1, t.order) < Slot(h2, t.order))
        BY <1>2, <1>8, <1>9, <2>2 DEF ClaimedBefore
      <3>3. QED
        BY <1>7, <3>1, <3>2
    <2>3. QED
      BY <2>1, <2>2
  <1>11. c1 = c2
    <2>1. ChannelKey(h1, c1, Slot(h1, t.order)) = ChannelKey(h1, c2, Slot(h1, t.order))
      BY <1>5, <1>8, <1>10
    <2>2. QED
      BY <1>2, <1>4, <1>10, <2>1, KeyNamesChannel
  <1>12. QED
    BY <1>2, <1>4, <1>10, <1>11

-----------------------------------------------------------------------------
(* What an id means, and what an answer says *)

\* The sensors of a machine can be told apart: two nodes have two keys, and two
\* tachometers, or two controls, of one node two numbers, if they have any.
Distinct ==
    /\ \A g, h \in Hardware : KeyOf[g] = KeyOf[h] => g = h
    /\ \A S \in {Tachs, Controls} : \A x, y \in S :
          HwOf[x] = HwOf[y] /\ AnchorOf(x).number = AnchorOf(y).number
          /\ AnchorOf(x).number # None => x = y

\* Where a tachometer and a control carry one number in the same way, the board
\* means one fan by it.
Honest ==
    \A t \in Tachs, c \in Controls :
        HwOf[t] = HwOf[c] /\ AnchorOf(t) = AnchorOf(c) /\ AnchorOf(t).number # None
            => Fan[t] = Fan[c]

\* An id stands for a sensor of its node with its number, or for the one sensor
\* it is made of.
Stands(id, s) ==
    /\ s \in Sensors /\ id.key.base = KeyOf[HwOf[s]] /\ id.key.number = AnchorOf(s).number
    /\ id.key.number = None => id.key.sensor = {s}

\* What is true of every device of a mapping.
DeviceIsSound(d) ==
    /\ d.tach \subseteq Tachs /\ d.control \subseteq Controls
    /\ \A x, y \in d.control : x = y
    /\ \A s \in d.tach \cup d.control : Stands(d.id, s)
    /\ \A t \in d.tach, c \in d.control :
          HwOf[t] = HwOf[c] /\ AnchorOf(t) = AnchorOf(c) /\ AnchorOf(t).number # None

LEMMA PairsShareAnchor ==
    ASSUME NEW hw \in Hardware, NEW shown, NEW ch \in FanChannels(hw, shown), ~ch.withheld,
           NEW t \in ch.tach, NEW c \in ch.control
    PROVE  AnchorOf(t) = AnchorOf(c) /\ AnchorOf(t).number # None
  <1> DEFINE tachs    == {x \in Tachs \cap shown : HwOf[x] = hw}
             controls == {x \in Controls \cap shown : HwOf[x] = hw}
             numbers  == {AnchorOf(s).number : s \in tachs \cup controls} \ {None}
  <1>1. CASE ch \in {[number |-> n, tach |-> First(Claiming(tachs, n)),
                      control |-> First(Claiming(controls, n)),
                      withheld |-> Ambiguous(Claiming(tachs, n), Claiming(controls, n))]
                        : n \in numbers}
    <2>1. PICK n \in numbers : ch.tach = First(Claiming(tachs, n))
                               /\ ch.control = First(Claiming(controls, n))
                               /\ ch.withheld = Ambiguous(Claiming(tachs, n), Claiming(controls, n))
      BY <1>1
    <2>2. t \in Claiming(tachs, n) /\ c \in Claiming(controls, n)
      BY <2>1, FirstIsOne
    <2>3. ~Mismatched(Claiming(tachs, n), Claiming(controls, n))
      BY <2>1 DEF Ambiguous
    <2>4. QED
      BY <2>2, <2>3 DEF Mismatched, Claiming
  <1>2. CASE ch \in {[number |-> None, tach |-> {x}, control |-> {}, withheld |-> FALSE] :
                        x \in Claiming(tachs, None)}
    <2>1. \E x : ch = [number |-> None, tach |-> {x}, control |-> {}, withheld |-> FALSE]
      BY <1>2
    <2>2. ch.control = {}
      BY <2>1
    <2>3. QED
      BY <2>2
  <1>3. CASE ch \in {[number |-> None, tach |-> {}, control |-> {x}, withheld |-> TRUE] :
                        x \in Claiming(controls, None)}
    <2>1. \E x : ch = [number |-> None, tach |-> {}, control |-> {x}, withheld |-> TRUE]
      BY <1>3
    <2>2. ch.tach = {}
      BY <2>1
    <2>3. QED
      BY <2>2
  <1>4. QED
    BY <1>1, <1>2, <1>3, Zenon DEF FanChannels

LEMMA MappedIsSound ==
    ASSUME NEW t \in Trees, NEW d \in MapTree(t)
    PROVE  DeviceIsSound(d)
  <1>1. PICK hw \in Hardware : \E ch \in FanChannels(hw, t.shown) : d = Device(hw, ch, t)
    BY DEF MapTree
  <1>2. PICK ch \in FanChannels(hw, t.shown) : d = Device(hw, ch, t)
    BY <1>1
  <1>3. /\ d.tach = ch.tach /\ d.control = IF ch.withheld THEN {} ELSE ch.control
        /\ d.id.key = ChannelKey(hw, ch, Slot(hw, t.order))
    BY <1>2 DEF Device, Claim, PlainId
  <1>4. /\ ch.tach \subseteq Tachs /\ ch.control \subseteq Controls
        /\ \A s \in ch.tach \cup ch.control : HwOf[s] = hw /\ AnchorOf(s).number = ch.number
        /\ \A x, y \in ch.control : x = y
        /\ ch.number = None => \E s : ch.tach \cup ch.control = {s}
    <2> DEFINE shown == t.shown
    <2>1. ch \in FanChannels(hw, shown)
      OBVIOUS
    <2> HIDE DEF shown
    <2>2. ch.tach \subseteq Tachs /\ ch.control \subseteq Controls
      BY <2>1, ChannelSensors
    <2>3. \A s \in ch.tach \cup ch.control : HwOf[s] = hw /\ AnchorOf(s).number = ch.number
      BY <2>1, ChannelSensors
    <2>4. \A x, y \in ch.control : x = y
      BY <2>1, ChannelSensors
    <2>5. ch.number = None => \E s : ch.tach \cup ch.control = {s}
      BY <2>1, ChannelSensors
    <2>6. QED
      BY <2>2, <2>3, <2>4, <2>5
  <1>5. \A s \in ch.tach \cup ch.control : Stands(d.id, s)
    <2> SUFFICES ASSUME NEW s \in ch.tach \cup ch.control
                 PROVE  Stands(d.id, s)
      OBVIOUS
    <2>1. s \in Sensors /\ HwOf[s] = hw /\ AnchorOf(s).number = ch.number
      BY <1>4 DEF Sensors
    <2>2. /\ d.id.key.base = KeyOf[hw] /\ d.id.key.number = ch.number
          /\ d.id.key.sensor = IF ch.number # None THEN {} ELSE ch.tach \cup ch.control
      BY <1>3 DEF ChannelKey
    <2>3. ch.number = None => ch.tach \cup ch.control = {s}
      BY <1>4
    <2>4. QED
      BY <2>1, <2>2, <2>3 DEF Stands
  <1>6. \A x \in d.tach, c \in d.control :
           HwOf[x] = HwOf[c] /\ AnchorOf(x) = AnchorOf(c) /\ AnchorOf(x).number # None
    <2> SUFFICES ASSUME NEW x \in d.tach, NEW c \in d.control
                 PROVE  HwOf[x] = HwOf[c] /\ AnchorOf(x) = AnchorOf(c) /\ AnchorOf(x).number # None
      OBVIOUS
    <2>1. ~ch.withheld /\ x \in ch.tach /\ c \in ch.control
      BY <1>3
    <2>2. QED
      BY <1>4, <2>1, PairsShareAnchor
  <1>7. QED
    BY <1>3, <1>4, <1>5, <1>6 DEF DeviceIsSound

Duty == {Firmware} \cup 0 .. 100

\* The mapping is of devices; a call is for one control, which its id stands for;
\* and what an id has meant it stands for.
Mapped ==
    /\ web \in Trees /\ duty \in [Controls -> Duty]
    /\ \A d \in mapping : DeviceIsSound(d)
    /\ \A d, e \in mapping : d.id = e.id => d = e
    /\ call.step \in {"set", "get"} =>
          /\ call.control # {} /\ call.control \subseteq Controls /\ call.want \in 0 .. 100
          /\ \A x, y \in call.control : x = y
          /\ \A c \in call.control : Stands(call.id, c)
    /\ call \in [step : {"idle", "set", "get"}, id : {call.id}, control : {call.control},
                 want : {call.want}]
    /\ \A m \in meant : Stands(m[1], m[2])

LEMMA InitMapped == LhmInit => Mapped
  <1> SUFFICES ASSUME LhmInit
               PROVE  Mapped
    OBVIOUS
  <1>1. duty \in [Controls -> Duty]
    BY DEF LhmInit, Duty
  <1>2. call.step = "idle"
        /\ call \in [step : {"idle", "set", "get"}, id : {call.id}, control : {call.control},
                     want : {call.want}]
    BY DEF LhmInit, Idle
  <1>3. QED
    BY <1>1, <1>2 DEF LhmInit, Mapped

LEMMA FetchedIsSound ==
    ASSUME Mapped
    PROVE  /\ \A d \in Fetched : DeviceIsSound(d)
           /\ \A d, e \in Fetched : d.id = e.id => d = e
  <1>1. CASE up
    BY <1>1, MappedIsSound, IdsAreUnique DEF Mapped, Fetched
  <1>2. CASE ~up
    BY <1>2 DEF Mapped, Fetched
  <1>3. QED
    BY <1>1, <1>2

\* The control of a device, by its id.
LEMMA ControlIsOne ==
    ASSUME NEW devices, \A d \in devices : DeviceIsSound(d),
           \A d, e \in devices : d.id = e.id => d = e, NEW id
    PROVE  /\ ControlOf(devices, id) \subseteq Controls
           /\ \A x, y \in ControlOf(devices, id) : x = y
           /\ \A c \in ControlOf(devices, id) : Stands(id, c)
  BY DEF ControlOf, DeviceIsSound

LEMMA MappedStep == Mapped /\ [LhmNext]_lhm => Mapped'
  <1> SUFFICES ASSUME Mapped, [LhmNext]_lhm
               PROVE  Mapped'
    OBVIOUS
  <1> USE DEF Mapped
  <1>1. CASE Poll
    <2>1. mapping' = Fetched /\ UNCHANGED <<web, duty, call>>
          /\ meant' \subseteq meant \cup Read(Fetched)
      BY <1>1 DEF Poll
    <2>2. \A m \in Read(Fetched) : Stands(m[1], m[2])
      BY FetchedIsSound DEF Read, DeviceIsSound
    <2>3. QED
      BY <2>1, <2>2, FetchedIsSound
  <1>2. ASSUME NEW d \in mapping, NEW p \in RuleDuties, WriteFetch(d.id, p)
        PROVE  Mapped'
    <2>1. mapping' = Fetched /\ UNCHANGED <<web, duty, meant>>
      BY <1>2 DEF WriteFetch
    <2>2. CASE call' = [step |-> "set", id |-> d.id, control |-> ControlOf(Fetched, d.id), want |-> p]
               /\ ControlOf(Fetched, d.id) # {}
      <3> DEFINE control == ControlOf(Fetched, d.id)
      <3>1. /\ control \subseteq Controls /\ \A x, y \in control : x = y
            /\ \A c \in control : Stands(d.id, c)
        BY FetchedIsSound, ControlIsOne
      <3>2. p \in 0 .. 100
        BY LhmAssumption
      <3> HIDE DEF control
      <3>3. call' = [step |-> "set", id |-> d.id, control |-> control, want |-> p] /\ control # {}
        BY <2>2 DEF control
      <3>4. /\ call'.control = control /\ call'.id = d.id /\ call'.want = p /\ call'.step = "set"
            /\ call' \in [step : {"idle", "set", "get"}, id : {call'.id}, control : {call'.control},
                          want : {call'.want}]
        BY <3>3
      <3>5. QED
        BY <2>1, <3>1, <3>2, <3>3, <3>4, FetchedIsSound
    <2>3. CASE UNCHANGED call
      BY <2>1, <2>3, FetchedIsSound
    <2>4. QED
      BY <1>2, <2>1, <2>2, <2>3 DEF WriteFetch
  <1>3. CASE WriteSet
    <2>1. call.step = "set" /\ UNCHANGED <<web, mapping>>
      BY <1>3 DEF WriteSet
    <2>2. CASE call' = Idle /\ UNCHANGED <<duty, meant>>
      <3>1. call'.step = "idle" /\ call' \in [step : {"idle", "set", "get"}, id : {call'.id},
                                             control : {call'.control}, want : {call'.want}]
        BY <2>2 DEF Idle
      <3>2. QED
        BY <2>1, <2>2, <3>1
    <2>3. CASE /\ call' = [call EXCEPT !.step = "get"]
               /\ \/ duty' = [c \in Controls |-> IF c \in call.control THEN call.want ELSE duty[c]]
                  \/ UNCHANGED duty
               /\ meant' = meant \cup {<<call.id, c>> : c \in call.control}
      <3>1. /\ call'.step = "get" /\ call'.id = call.id /\ call'.control = call.control
            /\ call'.want = call.want
            /\ call' \in [step : {"idle", "set", "get"}, id : {call'.id}, control : {call'.control},
                          want : {call'.want}]
        BY <2>3
      <3>2. duty' \in [Controls -> Duty]
        BY <2>1, <2>3 DEF Duty
      <3>3. \A m \in meant' : Stands(m[1], m[2])
        BY <2>1, <2>3
      <3>4. QED
        BY <2>1, <3>1, <3>2, <3>3
    <2>4. QED
      BY <1>3, <2>2, <2>3 DEF WriteSet
  <1>4. CASE WriteGet
    <2>1. call' = Idle /\ UNCHANGED <<web, duty, mapping, meant>>
      BY <1>4 DEF WriteGet
    <2>2. call'.step = "idle" /\ call' \in [step : {"idle", "set", "get"}, id : {call'.id},
                                           control : {call'.control}, want : {call'.want}]
      BY <2>1 DEF Idle
    <2>3. QED
      BY <2>1, <2>2
  <1>5. CASE LhmShutdown
    <2>1. UNCHANGED <<web, mapping, call, meant>> /\ duty' \in [Controls -> Duty]
      BY <1>5 DEF LhmShutdown, Duty
    <2>2. QED
      BY <2>1
  <1>6. CASE ServerTurns \/ TreeChanges
    BY <1>6 DEF ServerTurns, TreeChanges
  <1>7. ASSUME NEW c \in call.control, NEW d \in VendorDuties, VendorSets(c, d)
        PROVE  Mapped'
    <2>1. UNCHANGED <<web, mapping, call, meant>> /\ duty' = [duty EXCEPT ![c] = d]
      BY <1>7 DEF VendorSets
    <2>2. d \in Duty
      BY LhmAssumption DEF Duty
    <2>3. QED
      BY <2>1, <2>2
  <1>8. CASE UNCHANGED lhm
    BY <1>8 DEF lhm
  <1>9. QED
    BY <1>1, <1>2, <1>3, <1>4, <1>5, <1>6, <1>7, <1>8 DEF LhmNext

LEMMA LhmMoves == [AdaptersNext]_adapterVars => [LhmNext]_lhm
  BY DEF AdaptersNext, adapterVars, lhm

LEMMA MappedAlways == AdaptersSpec => []Mapped
  <1>1. AdaptersInit => Mapped
    BY InitMapped DEF AdaptersInit, NoLhm
  <1>2. Mapped /\ [AdaptersNext]_adapterVars => Mapped'
    BY MappedStep, LhmMoves
  <1>3. QED
    BY <1>1, <1>2, PTL DEF AdaptersSpec

\* MappingIsSound, for any tree, any order of its nodes and any sensors that drop
\* out of it and return, on a board that can be told apart (Distinct) and whose
\* numbers mean something (Honest): map_tree gives an id to a node's own path and
\* a number, and leaves a control writable only beside a tachometer that carries
\* its number in the same way.
THEOREM MappingStaysSound ==
    ASSUME Distinct, Honest
    PROVE  AdaptersSpec => []MappingIsSound
  <1>1. Mapped => IdKeepsItsChannel
    <2> SUFFICES ASSUME Mapped, NEW a \in meant, NEW b \in meant, a[1] = b[1], a[2] # b[2]
                 PROVE  {a[2], b[2]} \cap Tachs # {} /\ {a[2], b[2]} \cap Controls # {}
      BY DEF IdKeepsItsChannel
    <2> DEFINE x == a[2]
               y == b[2]
               id == a[1]
    <2>1. Stands(id, x) /\ Stands(id, y)
      BY DEF Mapped
    <2> HIDE DEF x, y, id
    <2>2. /\ x \in Tachs \cup Controls /\ y \in Tachs \cup Controls
          /\ KeyOf[HwOf[x]] = KeyOf[HwOf[y]] /\ AnchorOf(x).number = AnchorOf(y).number
          /\ AnchorOf(x).number = None => x = y
      BY <2>1 DEF Stands, Sensors
    <2>3. HwOf[x] = HwOf[y]
      BY <2>2, LhmAssumption DEF Distinct, Sensors
    <2>4. x # y
      BY DEF x, y
    <2>5. ~(x \in Tachs /\ y \in Tachs) /\ ~(x \in Controls /\ y \in Controls)
      BY <2>2, <2>3, <2>4 DEF Distinct
    <2>6. {x, y} \cap Tachs # {} /\ {x, y} \cap Controls # {}
      BY <2>2, <2>5
    <2>7. QED
      BY <2>6 DEF x, y
  <1>2. Mapped => PairsAreReal
    BY DEF Mapped, DeviceIsSound, PairsAreReal, Honest
  <1>3. QED
    BY <1>1, <1>2, MappedAlways, PTL DEF MappingIsSound

\* The simulated machine always has a card.
Equipped == "gpu" \in DOMAIN slots

LEMMA EquippedAlways == AdaptersSpec => []Equipped
  <1>1. AdaptersInit => Equipped
    BY DEF AdaptersInit, MockInit, NewSlots, Equipped
  <1>2. Equipped /\ [AdaptersNext]_adapterVars => Equipped'
    <2> SUFFICES ASSUME Equipped, [MockNext]_mock
                 PROVE  Equipped'
      BY DEF AdaptersNext, adapterVars, mock
    <2>1. ASSUME NEW x \in Requests, MockWrite(x)
          PROVE  Equipped'
      <3>1. \/ UNCHANGED slots
            \/ \E d, duty2 : HasSlot(d) /\ slots' = Driven(d, duty2)
        BY <2>1, Zenon DEF MockWrite
      <3>2. \A d, duty2 : HasSlot(d) => DOMAIN Driven(d, duty2) = DOMAIN slots
        BY DEF HasSlot, Driven
      <3>3. QED
        BY <3>1, <3>2 DEF Equipped
    <2>2. CASE MockUpdate
      BY <2>2 DEF MockUpdate, Equipped
    <2>3. CASE UNCHANGED slots
      BY <2>3 DEF Equipped
    <2>4. QED
      BY <2>1, <2>2, <2>3 DEF MockNext, MockSave, MockExample, MockDiscover, MockTick, mock
  <1>3. QED
    BY <1>1, <1>2, PTL DEF AdaptersSpec

\* AnswersAreTrue, for any tree and any duties a vendor tool sets meanwhile:
\* "applied" is said of the value read back, and an id leads to one control, so
\* the value is that control's; and the simulated machine refuses without moving.
THEOREM AnswersStayTrue == AdaptersSpec => AnswersAreTrue
  <1>1. Mapped /\ [AdaptersNext]_adapterVars =>
           [call.step = "get" /\ call'.step = "idle" /\ report' = "applied" =>
              \A c \in call.control :
                 duty[c] \in (call.want - Tolerance) .. (call.want + Tolerance)]_lhm
    <2> SUFFICES ASSUME Mapped, [LhmNext]_lhm, lhm' # lhm,
                        call.step = "get", call'.step = "idle", report' = "applied",
                        NEW c \in call.control
                 PROVE  duty[c] \in (call.want - Tolerance) .. (call.want + Tolerance)
      BY LhmMoves
    <2>1. WriteGet
      <3>1. ~Poll /\ ~WriteSet /\ ~LhmShutdown /\ \A d \in mapping, p \in RuleDuties : ~WriteFetch(d.id, p)
        BY DEF Poll, WriteSet, LhmShutdown, WriteFetch
      <3>2. ~ServerTurns /\ ~TreeChanges
            /\ \A k \in call.control, d \in VendorDuties : ~VendorSets(k, d)
        BY DEF ServerTurns, TreeChanges, VendorSets
      <3>3. QED
        BY <3>1, <3>2 DEF LhmNext
    <2>2. PICK answer \in {NotShown} \cup {duty[k] : k \in {d \in call.control : up}} :
             report' = Judged(answer, call.want)
      BY <2>1 DEF WriteGet
    <2>3. /\ answer # NotShown
          /\ ~(answer - call.want > Tolerance \/ call.want - answer > Tolerance)
      BY <2>2 DEF Judged
    <2>4. answer = duty[c]
      BY <2>2, <2>3 DEF Mapped
    <2>5. duty[c] \in Int /\ call.want \in Int /\ Tolerance \in Int
      BY LhmAssumption DEF Mapped, Duty, Firmware
    <2>6. QED
      BY <2>3, <2>4, <2>5
  <1>2. Equipped /\ [AdaptersNext]_adapterVars =>
           [/\ conf.locked /\ conf' = conf => slots'.gpu = slots.gpu
            /\ reply' # reply /\ reply'.answer \in {"refused", "unresolved", "invalid"}
                  => slots' = slots]_mock
    <2> SUFFICES ASSUME Equipped, [AdaptersNext]_adapterVars, mock' # mock
                 PROVE  /\ conf.locked /\ conf' = conf => slots'.gpu = slots.gpu
                        /\ reply' # reply /\ reply'.answer \in {"refused", "unresolved", "invalid"}
                              => slots' = slots
      OBVIOUS
    <2>1. MockNext
      BY DEF AdaptersNext, adapterVars, mock
    <2>2. ASSUME NEW x \in Requests, MockWrite(x)
          PROVE  /\ conf.locked => slots'.gpu = slots.gpu
                 /\ reply'.answer \in {"refused", "unresolved", "invalid"} => slots' = slots
      <3> DEFINE ref == bound.target
                 d == ref.device
                 duty2 == ClampTo(Resolved(table, ref), x)
      <3>1. CASE slots' = slots
        BY <3>1
      <3>2. CASE slots' # slots
        <4>1. /\ Accepts(ref, Resolved(table, ref), x) /\ HasSlot(d)
              /\ slots' = Driven(d, duty2)
              /\ reply' = Said(IF ref \in conf.faults.unconfirmed THEN "unconfirmed"
                               ELSE "simulated", ref, duty2)
          BY <2>2, <3>2, Zenon DEF MockWrite
        <4>2. reply'.answer \in {"unconfirmed", "simulated"}
          BY <4>1 DEF Said
        <4>3. conf.locked => d # Gpu
          BY <4>1 DEF Accepts
        <4>4. d # Gpu => slots'.gpu = slots.gpu
          <5> SUFFICES ASSUME d # Gpu
                       PROVE  slots'.gpu = slots.gpu
            OBVIOUS
          <5>1. d[1] = "fan" \/ d[1] = "pump"
            BY <4>1 DEF HasSlot
          <5>2. \/ slots' = [slots EXCEPT !.fan[d[2] + 1] = duty2]
                \/ slots' = [slots EXCEPT !.pump[d[2] + 1] = duty2]
            BY <4>1, <5>1 DEF Driven
          <5> HIDE DEF d, duty2
          <5>3. QED
            BY <5>2 DEF Equipped
        <4>5. QED
          BY <4>2, <4>3, <4>4
      <3>3. QED
        BY <3>1, <3>2
    <2>3. ASSUME NEW draft, MockSave(draft)
          PROVE  slots' = slots
      BY <2>3 DEF MockSave
    <2>4. CASE MockUpdate
      <3>1. conf' # conf
        BY <2>4 DEF MockUpdate
      <3>2. reply'.answer = "nothing"
        BY <2>4 DEF MockUpdate, NothingSaid
      <3>3. QED
        BY <3>1, <3>2
    <2>5. CASE MockDiscover \/ \E dt \in Steps : MockTick(dt)
      BY <2>5 DEF MockDiscover, MockTick
    <2>6. QED
      BY <2>1, <2>2, <2>3, <2>4, <2>5 DEF MockNext, MockExample
  <1>3. QED
    BY <1>1, <1>2, MappedAlways, EquippedAlways, PTL
       DEF AdaptersSpec, AnswersAreTrue, AppliedWasHeld, RefusalsMoveNothing

-----------------------------------------------------------------------------
(* The sensors: lists and places *)

\* Among the places of a set, each has a rank of its own, the later one the
\* higher, and every rank up to their number is somebody's.
LEMMA Ranks ==
    ASSUME NEW n \in Nat, NEW S, S \subseteq 1 .. n
    PROVE  /\ IsFiniteSet(S) /\ Cardinality(S) \in Nat
           /\ \A k \in S : Rank(k, S) \in 1 .. Cardinality(S)
           /\ \A j, k \in S : Rank(j, S) = Rank(k, S) => j = k
           /\ \A r \in 1 .. Cardinality(S) : \E k \in S : Rank(k, S) = r
  <1>1. IsFiniteSet(1 .. n)
    BY FS_Interval
  <1>2. IsFiniteSet(S) /\ Cardinality(S) \in Nat
    BY <1>1, FS_Subset, FS_CardinalityType
  <1>3. ASSUME NEW k \in S
        PROVE  /\ IsFiniteSet({j \in S : j <= k}) /\ Rank(k, S) \in 1 .. Cardinality(S)
    <2> DEFINE T == {j \in S : j <= k}
    <2>1. T \in SUBSET S /\ k \in T
      OBVIOUS
    <2> HIDE DEF T
    <2>2. IsFiniteSet(T) /\ Cardinality(T) \in Nat /\ Cardinality(T) <= Cardinality(S)
      BY <1>2, <2>1, FS_Subset, FS_CardinalityType
    <2>3. Cardinality(T) # 0
      BY <2>1, <2>2, FS_EmptySet
    <2>4. QED
      BY <1>2, <2>2, <2>3 DEF Rank, T
  <1>4. ASSUME NEW j \in S, NEW k \in S, j < k
        PROVE  Rank(j, S) # Rank(k, S)
    <2> DEFINE T == {i \in S : i <= j}
               U == {i \in S : i <= k}
    <2>1. T \in SUBSET U /\ k \in U /\ k \notin T
      <3>1. j \in Int /\ k \in Int /\ \A i \in S : i \in Int
        OBVIOUS
      <3>2. \A i \in S : i <= j => i <= k
        BY <1>4, <3>1
      <3>3. k <= k /\ ~(k <= j)
        BY <1>4, <3>1
      <3>4. QED
        BY <3>2, <3>3
    <2>2. IsFiniteSet(U)
      BY <1>3
    <2> HIDE DEF T, U
    <2>3. Cardinality(U) # Cardinality(T)
      BY <2>1, <2>2, FS_Subset
    <2>4. QED
      BY <2>3 DEF Rank, T, U
  <1>5. \A j, k \in S : Rank(j, S) = Rank(k, S) => j = k
    <2>1. \A j, k \in S : j < k \/ k < j \/ j = k
      OBVIOUS
    <2>2. QED
      BY <1>4, <2>1
  <1>6. \A r \in 1 .. Cardinality(S) : \E k \in S : Rank(k, S) = r
    <2> DEFINE c == Cardinality(S)
               rank == [k \in S |-> Rank(k, S)]
    <2>1. rank \in Injection(S, 1 .. c)
      BY <1>3, <1>5 DEF Injection, IsInjective
    <2>2. IsFiniteSet(1 .. c) /\ Cardinality(1 .. c) = c
      <3>1. c \in Nat
        BY <1>2
      <3> HIDE DEF c
      <3>2. QED
        BY <3>1, FS_Interval
    <2> HIDE DEF c, rank
    <2>3. rank \in Surjection(S, 1 .. c)
      BY <1>2, <2>1, <2>2, FS_Injection DEF c
    <2>4. \A r \in 1 .. c : \E k \in S : rank[k] = r
      BY <2>3 DEF Surjection
    <2>5. QED
      BY <2>4 DEF rank, c
  <1>7. QED
    BY <1>2, <1>3, <1>5, <1>6

\* In a list that nothing is missing from, the rank of a place is the place.
LEMMA RanksOfAll ==
    ASSUME NEW n \in Nat
    PROVE  Cardinality(1 .. n) = n /\ \A k \in 1 .. n : Rank(k, 1 .. n) = k
  <1>1. Cardinality(1 .. n) = n
    BY FS_Interval
  <1>2. ASSUME NEW k \in 1 .. n PROVE Rank(k, 1 .. n) = k
    <2>1. {j \in 1 .. n : j <= k} = 1 .. k
      OBVIOUS
    <2>2. Cardinality(1 .. k) = k
      BY FS_Interval
    <2>3. QED
      BY <2>1, <2>2 DEF Rank
  <1>3. QED
    BY <1>1, <1>2

\* A list of members of a set, nothing twice.
NoRepeats(l, S) == l \in Seq(S) /\ \A j, k \in DOMAIN l : l[j] = l[k] => j = k

LEMMA DistinctIsOrder ==
    ASSUME NEW l, NEW S, NoRepeats(l, S)
    PROVE  l \in Orders(Rows(l)) /\ Rows(l) \subseteq S
  <1> DEFINE n == Len(l)
  <1>1. n \in Nat /\ DOMAIN l = 1 .. n /\ l \in [1 .. n -> S]
    BY DEF NoRepeats
  <1>2. l \in [1 .. n -> Rows(l)] /\ Rows(l) \subseteq S
    BY <1>1 DEF Rows
  <1>3. \A j, k \in 1 .. n : l[j] = l[k] => j = k
    BY <1>1 DEF NoRepeats
  <1> HIDE DEF n
  <1>4. l \in Surjection(1 .. n, Rows(l)) /\ l \in Injection(1 .. n, Rows(l))
    BY <1>1, <1>2, <1>3 DEF Surjection, Injection, IsInjective, Rows
  <1>5. IsFiniteSet(1 .. n) /\ Cardinality(1 .. n) = n
    BY <1>1, FS_Interval
  <1>6. Cardinality(Rows(l)) = n
    BY <1>4, <1>5, FS_Surjection
  <1>7. QED
    BY <1>1, <1>2, <1>3, <1>6 DEF Orders

LEMMA OrderIsDistinct ==
    ASSUME NEW S, IsFiniteSet(S), NEW l \in Orders(S)
    PROVE  NoRepeats(l, S)
  <1>1. Cardinality(S) \in Nat
    BY FS_CardinalityType
  <1>2. l \in [1 .. Cardinality(S) -> S] /\ \A j, k \in DOMAIN l : l[j] = l[k] => j = k
    BY DEF Orders
  <1>3. l \in Seq(S)
    BY <1>1, <1>2
  <1>4. QED
    BY <1>2, <1>3 DEF NoRepeats

\* What has not gone is a list of its own, and the same one if nothing has.
LEMMA RemainingDistinct ==
    ASSUME NEW list, NEW S, NoRepeats(list, S)
    PROVE  /\ NoRepeats(Remaining(list), Rows(list))
           /\ Rows(list) \subseteq present => Remaining(list) = list
  <1> DEFINE n == Len(list)
             there == {k \in DOMAIN list : list[k] \in present}
             c == Cardinality(there)
             pick == [r \in 1 .. c |-> CHOOSE k \in there : Rank(k, there) = r]
  <1>1. /\ n \in Nat /\ DOMAIN list = 1 .. n /\ list \in [1 .. n -> S]
        /\ \A j, k \in 1 .. n : list[j] = list[k] => j = k
    BY DEF NoRepeats
  <1>2. there \subseteq 1 .. n
    BY <1>1
  <1>3. Remaining(list) = [r \in 1 .. c |-> list[CHOOSE k \in there : Rank(k, there) = r]]
    BY Zenon DEF Remaining
  <1>4. Rows(list) \subseteq present => there = 1 .. n
    BY <1>1 DEF Rows
  <1> HIDE DEF n, there
  <1>5. /\ c \in Nat
        /\ \A r \in 1 .. c : pick[r] \in there /\ Rank(pick[r], there) = r
    BY <1>1, <1>2, Ranks
  <1>6. Remaining(list) = [r \in 1 .. c |-> list[pick[r]]]
    BY <1>3
  <1> HIDE DEF c, pick
  <1>7. NoRepeats(Remaining(list), Rows(list))
    <2>1. \A r \in 1 .. c : list[pick[r]] \in Rows(list)
      BY <1>1, <1>2, <1>5 DEF Rows
    <2>2. Remaining(list) \in [1 .. c -> Rows(list)]
      BY <1>6, <2>1
    <2>3. Remaining(list) \in Seq(Rows(list)) /\ DOMAIN Remaining(list) = 1 .. c
      BY <1>5, <2>2
    <2>4. \A j, k \in 1 .. c : list[pick[j]] = list[pick[k]] => j = k
      BY <1>1, <1>2, <1>5
    <2>5. \A j, k \in 1 .. c : Remaining(list)[j] = Remaining(list)[k] => j = k
      BY <1>6, <2>4
    <2>6. QED
      BY <2>3, <2>5 DEF NoRepeats
  <1>8. ASSUME Rows(list) \subseteq present PROVE Remaining(list) = list
    <2>1. c = n /\ \A r \in 1 .. n : pick[r] = r
      BY <1>1, <1>4, <1>5, <1>8, RanksOfAll DEF c
    <2>2. list = [r \in 1 .. n |-> list[r]]
      BY <1>1
    <2>3. QED
      BY <1>6, <2>1, <2>2
  <1>9. QED
    BY <1>7, <1>8

\* A refresh lists nothing twice; as long as nothing goes, what was listed
\* keeps its place.
LEMMA RefreshedDistinct ==
    ASSUME NEW all, IsFiniteSet(all), NEW list, NoRepeats(list, all),
           NEW next \in Refreshed(list, all)
    PROVE  /\ NoRepeats(next, all)
           /\ Rows(list) \subseteq present =>
                  \A k \in DOMAIN list : k \in DOMAIN next /\ next[k] = list[k]
  <1> DEFINE B == (all \cap present) \ Rows(list)
             old == Remaining(list)
  <1>1. PICK new \in Orders(B) : next = old \o new
    BY Zenon DEF Refreshed
  <1>2. IsFiniteSet(B) /\ B \subseteq all /\ B \cap Rows(list) = {}
    <2>1. B \in SUBSET all
      OBVIOUS
    <2>2. QED
      BY <2>1, FS_Subset
  <1>3. NoRepeats(new, B)
    BY <1>2, OrderIsDistinct
  <1>4. NoRepeats(old, Rows(list)) /\ Rows(list) \subseteq all
    BY RemainingDistinct, DistinctIsOrder
  <1>5. Rows(list) \subseteq present => old = list
    BY RemainingDistinct
  <1>6. DOMAIN list = 1 .. Len(list) /\ Len(list) \in Nat
    BY DEF NoRepeats
  <1> DEFINE R == Rows(list)
             p == Len(old)
             q == Len(new)
  <1> HIDE DEF B, old, R
  <1>7. /\ p \in Nat /\ q \in Nat /\ DOMAIN old = 1 .. p /\ DOMAIN new = 1 .. q
        /\ old \in Seq(R) /\ new \in Seq(B) /\ R \subseteq all
        /\ \A k \in 1 .. p : old[k] \in R
        /\ \A k \in 1 .. q : new[k] \in B
        /\ \A j, k \in 1 .. p : old[j] = old[k] => j = k
        /\ \A j, k \in 1 .. q : new[j] = new[k] => j = k
    BY <1>3, <1>4 DEF NoRepeats, R
  <1>8. /\ next \in Seq(all) /\ Len(next) = p + q /\ DOMAIN next = 1 .. p + q
        /\ \A k \in 1 .. p : next[k] = old[k]
        /\ \A k \in p + 1 .. p + q : next[k] = new[k - p]
    <2>1. old \in Seq(all) /\ new \in Seq(all)
      BY <1>2, <1>7
    <2>2. QED
      BY <1>1, <1>7, <2>1
  <1> HIDE DEF p, q
  <1>9. ASSUME NEW j \in 1 .. p + q, NEW k \in 1 .. p + q, next[j] = next[k]
        PROVE  j = k
    <2>1. CASE j \in 1 .. p /\ k \in 1 .. p
      BY <1>7, <1>8, <1>9, <2>1
    <2>2. CASE j \in p + 1 .. p + q /\ k \in p + 1 .. p + q
      <3>1. j - p \in 1 .. q /\ k - p \in 1 .. q /\ new[j - p] = new[k - p]
        BY <1>7, <1>8, <1>9, <2>2
      <3>2. j - p = k - p
        BY <1>7, <3>1
      <3>3. QED
        BY <1>7, <3>2
    <2>3. ASSUME NEW i \in 1 .. p, NEW m \in p + 1 .. p + q PROVE next[i] # next[m]
      <3>1. next[i] \in R /\ m - p \in 1 .. q /\ next[m] = new[m - p]
        BY <1>7, <1>8
      <3>2. next[m] \in B
        BY <1>7, <3>1
      <3>3. QED
        BY <1>2, <3>1, <3>2 DEF R
    <2>4. QED
      BY <1>7, <1>9, <2>1, <2>2, <2>3
  <1>10. NoRepeats(next, all)
    BY <1>8, <1>9 DEF NoRepeats
  <1>11. ASSUME Rows(list) \subseteq present, NEW k \in DOMAIN list
         PROVE  k \in DOMAIN next /\ next[k] = list[k]
    <2>1. old = list /\ p = Len(list) /\ k \in 1 .. p
      BY <1>5, <1>6, <1>11 DEF p
    <2>2. QED
      BY <1>7, <1>8, <2>1
  <1>12. QED
    BY <1>10, <1>11


\* The lists, and what the devices and the last poll owe to them: a device
\* stands at its zone's place in the list of now, if nothing has gone since.
ListsInv ==
  /\ present \subseteq Zones \cup Volumes /\ warm \in [Zones -> Warmths]
  /\ NoRepeats(lists.zones, Zones) /\ NoRepeats(lists.volumes, Volumes)
  /\ intact \in BOOLEAN

PlacesInv ==
  /\ \A d, e \in places : d.kind = e.kind /\ d.place = e.place => d = e
  /\ \A d \in places : d.kind \in {"cpu", "zone", "drive"} /\ (d.kind = "zone" => InPlace(d))
  /\ DrivesAreDrives

OnPlace(d, list) == d.at \in DOMAIN list /\ list[d.at] = d.of

DeviceStands(d) ==
  /\ d.kind = "zone" => OnPlace(d, lists.zones)
  /\ d.kind = "drive" => OnPlace(d, lists.volumes)

AllStand == \A d \in places : DeviceStands(d)

IsOwn(r) == r.device.kind # "cpu" /\ InPlace(r.device) => r.source \in {r.device.of, Nowhere}

SensorsInv ==
  /\ ListsInv /\ PlacesInv
  /\ intact => AllStand
  /\ intact => \A r \in looked : IsOwn(r)

LEMMA FiniteSensors == IsFiniteSet(Zones) /\ IsFiniteSet(Volumes)
  BY SensorsAssumption

LEMMA InvIsSound == SensorsInv => SensorsAreSound
  <1> SUFFICES ASSUME SensorsInv PROVE SensorsAreSound
    OBVIOUS
  <1>1. /\ lists.zones \in Orders(Rows(lists.zones)) /\ Rows(lists.zones) \subseteq Zones
        /\ lists.volumes \in Orders(Rows(lists.volumes)) /\ Rows(lists.volumes) \subseteq Volumes
    BY DistinctIsOrder DEF SensorsInv, ListsInv
  <1>2. SensorsTypeOK
    BY <1>1 DEF SensorsInv, ListsInv, PlacesInv, SensorsTypeOK
  <1>3. ReadingsAreOwn
    BY DEF SensorsInv, PlacesInv, IsOwn, ReadingsAreOwn
  <1>4. QED
    BY <1>2, <1>3 DEF SensorsInv, PlacesInv, SensorsAreSound

LEMMA SensorsStart == SensorsInit => SensorsInv
  <1> SUFFICES ASSUME SensorsInit PROVE SensorsInv
    OBVIOUS
  <1>1. present \subseteq Zones \cup Volumes /\ warm \in [Zones -> Warmths]
    BY DEF SensorsInit, Warmths
  <1>2. /\ lists.zones \in Orders(Zones \cap present)
        /\ lists.volumes \in Orders(Volumes \cap present)
    BY DEF SensorsInit
  <1>3. IsFiniteSet(Zones \cap present) /\ IsFiniteSet(Volumes \cap present)
    <2>1. Zones \cap present \in SUBSET Zones /\ Volumes \cap present \in SUBSET Volumes
      OBVIOUS
    <2>2. QED
      BY <2>1, FiniteSensors, FS_Subset
  <1>4. /\ NoRepeats(lists.zones, Zones \cap present)
        /\ NoRepeats(lists.volumes, Volumes \cap present)
    BY <1>2, <1>3, OrderIsDistinct
  <1>5. NoRepeats(lists.zones, Zones) /\ NoRepeats(lists.volumes, Volumes)
    BY <1>4 DEF NoRepeats
  <1>6. QED
    BY <1>1, <1>5 DEF SensorsInit, SensorsInv, ListsInv, PlacesInv, AllStand, DrivesAreDrives

\* A refresh moves no device off its place, unless something listed has gone.
LEMMA RefreshKeeps ==
    ASSUME ListsInv, Refresh, UNCHANGED <<present, warm>>
    PROVE  /\ ListsInv'
           /\ intact' => intact /\ \A d : DeviceStands(d) => DeviceStands(d)'
  <1>1. PICK z \in Refreshed(lists.zones, Zones), v \in Refreshed(lists.volumes, Volumes) :
           lists' = [zones |-> z, volumes |-> v, warm |-> warm]
    BY DEF Refresh
  <1>2. lists'.zones = z /\ lists'.volumes = v
    BY <1>1
  <1>3. /\ NoRepeats(z, Zones)
        /\ Rows(lists.zones) \subseteq present =>
              \A k \in DOMAIN lists.zones : k \in DOMAIN z /\ z[k] = lists.zones[k]
    BY FiniteSensors, RefreshedDistinct DEF ListsInv
  <1>4. /\ NoRepeats(v, Volumes)
        /\ Rows(lists.volumes) \subseteq present =>
              \A k \in DOMAIN lists.volumes : k \in DOMAIN v /\ v[k] = lists.volumes[k]
    BY FiniteSensors, RefreshedDistinct DEF ListsInv
  <1>5. intact' = (intact /\ Rows(lists.zones) \cup Rows(lists.volumes) \subseteq present)
    BY DEF Refresh
  <1>6. ListsInv'
    BY <1>2, <1>3, <1>4, <1>5 DEF ListsInv
  <1>7. ASSUME intact' PROVE intact /\ \A d : DeviceStands(d) => DeviceStands(d)'
    <2>1. /\ intact
          /\ Rows(lists.zones) \subseteq present /\ Rows(lists.volumes) \subseteq present
      BY <1>5, <1>7
    <2>2. QED
      BY <1>2, <1>3, <1>4, <2>1 DEF DeviceStands, OnPlace
  <1>8. QED
    BY <1>6, <1>7

\* What discovery describes: each device by a number of its own, each zone at
\* its place, each drive once.
LEMMA BuiltIsSound ==
    ASSUME ListsInv
    PROVE  /\ \A d, e \in Built : d.kind = e.kind /\ d.place = e.place => d = e
           /\ \A d \in Built : /\ d.kind \in {"cpu", "zone", "drive"}
                               /\ d.kind = "zone" => InPlace(d)
                               /\ DeviceStands(d)
           /\ \A d \in Built : d.kind = "drive" => d.of \notin Removable
           /\ \A d, e \in {p \in Built : p.kind = "drive"} :
                 DriveOf[d.of] = DriveOf[e.of] => d = e
  <1> DEFINE zones == lists.zones
             volumes == lists.volumes
             chosen == Selected(zones, lists.warm)
             kept == Kept(volumes)
             drive(k) == [kind |-> "drive", place |-> Rank(k, kept), at |-> k, of |-> volumes[k]]
             zone(k) == [kind |-> "zone", place |-> k, at |-> k, of |-> zones[k]]
  <1>1. chosen \subseteq DOMAIN zones
    BY DEF Selected
  <1>2. kept \subseteq DOMAIN volumes /\ DOMAIN volumes = 1 .. Len(volumes) /\ Len(volumes) \in Nat
    BY DEF Kept, ListsInv, NoRepeats
  <1>3. \A d \in Built : \/ d = Processor
                         \/ \E k \in chosen : d = zone(k)
                         \/ \E k \in kept : d = drive(k)
    BY DEF Built, ZonePlaces, DrivePlaces
  <1>4. \A j, k \in kept : Rank(j, kept) = Rank(k, kept) => j = k
    BY <1>2, Ranks
  <1>5. \A k \in kept : volumes[k] \notin Removable
    BY DEF Kept
  <1>6. \A j, k \in kept : DriveOf[volumes[j]] = DriveOf[volumes[k]] => j = k
    <2>1. ASSUME NEW j \in kept, NEW k \in kept, j < k
          PROVE  DriveOf[volumes[j]] # DriveOf[volumes[k]]
      <3>1. j \in 1 .. k - 1
        BY <1>2, <2>1
      <3>2. QED
        BY <1>5, <3>1 DEF Kept
    <2>2. \A j, k \in kept : j < k \/ k < j \/ j = k
      BY <1>2
    <2>3. QED
      BY <2>1, <2>2
  <1> HIDE DEF zones, volumes, chosen, kept
  <1>7. \A d, e \in Built : d.kind = e.kind /\ d.place = e.place => d = e
    BY <1>3, <1>4 DEF Processor
  <1>8. \A d \in Built : /\ d.kind \in {"cpu", "zone", "drive"}
                         /\ d.kind = "zone" => InPlace(d)
                         /\ DeviceStands(d)
    BY <1>1, <1>2, <1>3 DEF Processor, InPlace, DeviceStands, OnPlace, zones, volumes
  <1>9. \A d \in Built : d.kind = "drive" => \E k \in kept : d = drive(k)
    BY <1>3 DEF Processor
  <1>10. \A d \in Built : d.kind = "drive" => d.of \notin Removable
    BY <1>5, <1>9
  <1>11. \A d, e \in {p \in Built : p.kind = "drive"} :
            DriveOf[d.of] = DriveOf[e.of] => d = e
    BY <1>6, <1>9
  <1>12. QED
    BY <1>7, <1>8, <1>10, <1>11

LEMMA SensorsStep == SensorsInv /\ [SensorsNext]_sensors => SensorsInv'
  <1> SUFFICES ASSUME SensorsInv, [SensorsNext]_sensors PROVE SensorsInv'
    OBVIOUS
  <1> USE DEF SensorsInv
  <1>1. CASE SensorsProbe
    <2>1. UNCHANGED <<present, warm, places, looked>> /\ Refresh
      BY <1>1 DEF SensorsProbe
    <2>2. /\ ListsInv'
          /\ intact' => intact /\ \A d : DeviceStands(d) => DeviceStands(d)'
      BY <2>1, RefreshKeeps
    <2>3. PlacesInv'
      BY <2>1 DEF PlacesInv, DrivesAreDrives
    <2>4. intact' => AllStand'
      BY <2>1, <2>2 DEF AllStand
    <2>5. QED
      BY <2>1, <2>2, <2>3, <2>4
  <1>2. CASE SensorsDiscover
    <2>1. /\ places' = Built /\ looked' = {} /\ intact' = TRUE
          /\ UNCHANGED <<present, warm, lists>>
      BY <1>2 DEF SensorsDiscover
    <2>2. ListsInv'
      BY <2>1 DEF ListsInv
    <2>3. PlacesInv'
      BY <2>1, BuiltIsSound DEF PlacesInv, DrivesAreDrives
    <2>4. AllStand'
      <3>1. \A d : DeviceStands(d)' <=> DeviceStands(d)
        BY <2>1 DEF DeviceStands
      <3>2. QED
        BY <2>1, <3>1, BuiltIsSound DEF AllStand
    <2>5. QED
      BY <2>1, <2>2, <2>3, <2>4
  <1>3. CASE SensorsPoll
    <2>1. /\ UNCHANGED <<present, warm, places>> /\ Refresh
          /\ looked' = {[device |-> d, source |-> LookedUp(d, lists')] : d \in places}
      BY <1>3 DEF SensorsPoll
    <2>2. /\ ListsInv'
          /\ intact' => intact /\ \A d : DeviceStands(d) => DeviceStands(d)'
      BY <2>1, RefreshKeeps
    <2>3. PlacesInv'
      BY <2>1 DEF PlacesInv, DrivesAreDrives
    <2>4. intact' => AllStand'
      BY <2>1, <2>2 DEF AllStand
    <2>5. ASSUME intact', NEW d \in places PROVE IsOwn([device |-> d, source |-> LookedUp(d, lists')])
      <3>1. d.kind \in {"cpu", "zone", "drive"} /\ DeviceStands(d)'
        BY <2>1, <2>4, <2>5 DEF PlacesInv, AllStand
      <3>2. CASE d.kind # "cpu" /\ InPlace(d)
        <4>1. LookedUp(d, lists') \in {d.of, Nowhere}
          BY <3>1, <3>2 DEF DeviceStands, OnPlace, InPlace, LookedUp, ZoneAt, VolumeAt
        <4>2. QED
          BY <4>1 DEF IsOwn
      <3>3. QED
        BY <3>2 DEF IsOwn
    <2>6. intact' => \A r \in looked' : IsOwn(r)
      BY <2>1, <2>5
    <2>7. QED
      BY <2>2, <2>3, <2>4, <2>6 DEF IsOwn, InPlace
  <1>4. ASSUME NEW x \in Fickle, SensorTurns(x) PROVE SensorsInv'
    <2>1. UNCHANGED <<lists, places, looked, intact>>
      BY <1>4 DEF SensorTurns
    <2>2. present' \subseteq Zones \cup Volumes
      BY <1>4, SensorsAssumption DEF SensorTurns, ListsInv
    <2>3. warm' \in [Zones -> Warmths]
      BY <1>4 DEF SensorTurns, ListsInv
    <2>4. ListsInv'
      BY <2>1, <2>2, <2>3 DEF ListsInv
    <2>5. QED
      BY <2>1, <2>4 DEF PlacesInv, DrivesAreDrives, AllStand, DeviceStands
  <1>5. CASE UNCHANGED sensors
    BY <1>5 DEF sensors, ListsInv, PlacesInv, DrivesAreDrives, AllStand, DeviceStands
  <1>6. QED
    BY <1>1, <1>2, <1>3, <1>4, <1>5 DEF SensorsNext

\* SensorsAreSound, for any zones and volumes that come, go and fall silent as
\* they like: no two devices have one id, a drive is described once, and what
\* is shown for a zone was measured there as long as nothing listed has gone.
THEOREM SensorsStaySound == AdaptersSpec => []SensorsAreSound
  <1>1. AdaptersInit => SensorsInv
    BY SensorsStart DEF AdaptersInit, NoSensors
  <1>2. SensorsInv /\ [AdaptersNext]_adapterVars => SensorsInv'
    BY SensorsStep DEF AdaptersNext, adapterVars
  <1>3. QED
    BY <1>1, <1>2, InvIsSound, PTL DEF AdaptersSpec

-----------------------------------------------------------------------------
(* Types of the mapping *)

\* The mapping keeps the ids of its devices apart, and a call names controls.
LhmTyped ==
  /\ Mapped /\ up \in BOOLEAN /\ call.control \subseteq Controls
  /\ report \in {"nothing", "applied", "unconfirmed", "rejected", "released"}

LEMMA LhmTypedIs == LhmTyped => LhmTypeOK
  BY DEF LhmTyped, Mapped, Duty, LhmTypeOK

LEMMA LhmTypedStep == LhmTyped /\ [LhmNext]_lhm => LhmTyped'
  <1> SUFFICES ASSUME LhmTyped, [LhmNext]_lhm
               PROVE  /\ up' \in BOOLEAN /\ call'.control \subseteq Controls
                      /\ report' \in {"nothing", "applied", "unconfirmed", "rejected", "released"}
    BY MappedStep DEF LhmTyped
  <1> USE DEF LhmTyped
  <1>1. CASE Poll
    BY <1>1 DEF Poll
  <1>2. ASSUME NEW d \in mapping, NEW p \in RuleDuties, WriteFetch(d.id, p)
        PROVE  /\ up' \in BOOLEAN /\ call'.control \subseteq Controls
               /\ report' \in {"nothing", "applied", "unconfirmed", "rejected", "released"}
    <2>1. mapping' = Fetched /\ up' = up /\ report' \in {"nothing", "rejected"}
          /\ \/ UNCHANGED call
             \/ call' = [step |-> "set", id |-> d.id, control |-> ControlOf(Fetched, d.id),
                         want |-> p]
      BY <1>2 DEF WriteFetch
    <2>2. ControlOf(Fetched, d.id) \subseteq Controls
      BY FetchedIsSound, ControlIsOne
    <2>3. QED
      BY <2>1, <2>2
  <1>3. CASE WriteSet
    <2>1. up' = up /\ report' \in {"nothing", "rejected"}
          /\ (call' = Idle \/ call' = [call EXCEPT !.step = "get"])
      BY <1>3 DEF WriteSet
    <2>2. [call EXCEPT !.step = "get"].control = call.control
      BY DEF Mapped
    <2>3. Idle.control = {}
      BY DEF Idle
    <2>4. up' \in BOOLEAN
      BY <2>1, Zenon
    <2>5. call'.control = {} \/ call'.control = call.control
      BY <2>1, <2>2, <2>3, Zenon
    <2>6. QED
      BY <2>1, <2>4, <2>5
  <1>4. CASE WriteGet
    BY <1>4 DEF WriteGet, Judged, Idle
  <1>5. CASE LhmShutdown
    BY <1>5 DEF LhmShutdown
  <1>6. CASE ServerTurns \/ TreeChanges \/ UNCHANGED lhm
    <2>1. UNCHANGED <<call, report>> /\ (up' = up \/ up' = ~up)
      BY <1>6 DEF ServerTurns, TreeChanges, lhm
    <2>2. up' \in BOOLEAN
      BY <2>1, Zenon
    <2>3. QED
      BY <2>1, <2>2
  <1>7. ASSUME NEW c \in call.control, NEW d \in VendorDuties, VendorSets(c, d)
        PROVE  UNCHANGED <<up, call, report>>
    BY <1>7 DEF VendorSets
  <1>8. QED
    BY <1>1, <1>2, <1>3, <1>4, <1>5, <1>6, <1>7 DEF LhmNext

-----------------------------------------------------------------------------
(* The simulated machine: its devices, its slots and what a reading shows *)

Speed(d) == Ref(d, "speed")

\* What tables are made of, and a number of fans and pumps of a machine.
Machine(c) == c.fans \in Nat /\ c.pumps \in Nat

Loads == Profiles \cup {[kind |-> "constant", load |-> 5]}
Pins  == {<<>>, [r \in {Ref(Gpu, "temperature")} |-> 95]}

ConfOK ==
  conf \in [fans : 0 .. MaxFans, pumps : 0 .. MaxPumps, locked : BOOLEAN, ambient : Int,
            load : Loads, faults : Faults \cup {NoFaults}, pinned : Pins]

SlotsOK ==
  slots \in [fan : [1 .. conf.fans -> 0 .. 100], pump : [1 .. conf.pumps -> PumpFloor .. 100],
             gpu : 0 .. 100]

HeatOK == heat.gpu \in Int /\ heat.cpu \in Int /\ heat.ssd \in Int /\ heat.time \in Nat

TableOK == \E c : Machine(c) /\ table = Discovered(c)

\* A reply that a write was simulated names an output, which still has the duty.
Holds(d, x) ==
  /\ d = Gpu => slots.gpu = x
  /\ d # Gpu => /\ d[1] \in {"fan", "pump"} /\ d[2] \in Nat
                /\ d[1] = "fan" => d[2] + 1 \in DOMAIN slots.fan /\ slots.fan[d[2] + 1] = x
                /\ d[1] = "pump" => d[2] + 1 \in DOMAIN slots.pump /\ slots.pump[d[2] + 1] = x

ReplyOK ==
  /\ reply.answer = "simulated" => reply.ref.name = "speed" /\ Holds(reply.ref.device, reply.duty)
  /\ reply.answer = "unresolved" => ~fit

\* A rule that is there can be read; and the table it was checked against, if it
\* is still that one, has what it needs.
BoundOK ==
  bound # Unset =>
    /\ "curve" \in DOMAIN bound /\ List(bound.curve)
    /\ fit => CheckRule(table, bound).errors = {}

MockInv ==
  /\ ConfOK /\ SlotsOK /\ HeatOK /\ TableOK /\ ReplyOK /\ BoundOK
  /\ moves \in 0 .. MaxMoves

LEMMA RoomFor ==
    ASSUME NEW duties, NEW S, NEW m \in Nat, NEW n \in Nat, NEW start \in S, duties \in [1 .. m -> S]
    PROVE  Resized(duties, n, start) \in [1 .. n -> S]
  BY DEF Resized

LEMMA RoomForAll ==
    ASSUME NEW S, NEW n \in Nat, NEW start \in S
    PROVE  Resized(<<>>, n, start) \in [1 .. n -> S]
  <1>1. DOMAIN <<>> = {}
    OBVIOUS
  <1>2. Resized(<<>>, n, start) = [i \in 1 .. n |-> start]
    BY <1>1, Zenon DEF Resized
  <1>3. QED
    BY <1>2

LEMMA PairMax ==
    ASSUME NEW a \in Int, NEW b \in Int
    PROVE  Max({a, b}) = IF a >= b THEN a ELSE b
  <1>1. \E x \in {a, b} : \A y \in {a, b} : x >= y
    OBVIOUS
  <1>2. Max({a, b}) \in {a, b} /\ \A y \in {a, b} : Max({a, b}) >= y
    BY <1>1 DEF Max
  <1>3. QED
    BY <1>2

LEMMA PumpStart == Max({InitialDuty, PumpFloor}) = 60 /\ PumpFloor = 60 /\ InitialDuty = 40
  BY PairMax DEF InitialDuty, PumpFloor

\* An entry of the table that can be driven is the speed of the card's fan, of a
\* fan or of a pump.
Output(ref, capability) ==
  /\ ref.name = "speed"
  /\ \/ ref.device = Gpu /\ capability = Actuator("percent", 0, 100)
     \/ \E i \in Nat : ref.device = FanNo(i) /\ capability = Actuator("percent", 0, 100)
     \/ \E i \in Nat : ref.device = PumpNo(i) /\ capability = Actuator("percent", PumpFloor, 100)

LEMMA Kinds ==
  /\ Cpu # Gpu /\ Ssd # Gpu /\ Probe # Gpu /\ Cpu # Ssd /\ Cpu # Probe /\ Ssd # Probe
  /\ \A i \in Nat : /\ FanNo(i) \notin {Cpu, Gpu, Ssd, Probe}
                    /\ PumpNo(i) \notin {Cpu, Gpu, Ssd, Probe}
                    /\ \A j \in Nat : FanNo(i) # PumpNo(j)
  BY DEF Cpu, Gpu, Ssd, Probe, FanNo, PumpNo

\* What build_devices says of each device.
LEMMA DescribedAre ==
    ASSUME NEW c, Machine(c)
    PROVE  /\ DOMAIN Described(c) = {Cpu, Gpu, Ssd, Probe} \cup {FanNo(i) : i \in 0 .. c.fans - 1}
                                    \cup {PumpNo(i) : i \in 0 .. c.pumps - 1}
           /\ Described(c)[Cpu] = [temperature |-> Sensor("celsius"), load |-> Sensor("percent")]
           /\ Described(c)[Gpu] =
                 [temperature |-> Sensor("celsius"), load |-> Sensor("percent"),
                  speed |-> IF c.locked THEN Sensor("percent") ELSE Actuator("percent", 0, 100)]
           /\ Described(c)[Ssd] = [temperature |-> Sensor("celsius")]
           /\ Described(c)[Probe] = [temperature |-> Sensor("celsius")]
           /\ \A i \in 0 .. c.fans - 1 :
                 Described(c)[FanNo(i)] = [speed |-> Actuator("percent", 0, 100)]
           /\ \A i \in 0 .. c.pumps - 1 :
                 Described(c)[PumpNo(i)] = [speed |-> Actuator("percent", PumpFloor, 100)]
  <1> DEFINE fans == {FanNo(i) : i \in 0 .. c.fans - 1}
             pumps == {PumpNo(i) : i \in 0 .. c.pumps - 1}
             devices == {Cpu, Gpu, Ssd, Probe} \cup fans \cup pumps
             sensor == Sensor("celsius")
             load == Sensor("percent")
             free == Actuator("percent", 0, 100)
             floored == Actuator("percent", PumpFloor, 100)
  <1>1. \A i \in 0 .. c.fans - 1 : i \in Nat
    BY DEF Machine
  <1>2. \A i \in 0 .. c.pumps - 1 : i \in Nat
    BY DEF Machine
  <1>3. /\ \A d \in fans : d \notin {Cpu, Gpu, Ssd, Probe} /\ d \notin pumps
        /\ \A d \in pumps : d \notin {Cpu, Gpu, Ssd, Probe} /\ d \notin fans
    BY <1>1, <1>2, Kinds
  <1>4. Described(c) = [d \in devices |->
            CASE d = Cpu -> [temperature |-> sensor, load |-> load]
              [] d = Gpu -> [temperature |-> sensor, load |-> load,
                             speed |-> IF c.locked THEN load ELSE free]
              [] d \in {Ssd, Probe} -> [temperature |-> sensor]
              [] d \in fans  -> [speed |-> free]
              [] d \in pumps -> [speed |-> floored]]
    BY DEF Described
  <1>5. /\ \A i \in 0 .. c.fans - 1 : FanNo(i) \in fans
        /\ \A i \in 0 .. c.pumps - 1 : PumpNo(i) \in pumps
    OBVIOUS
  <1> HIDE DEF fans, pumps, sensor, load, free, floored
  <1>6. Cpu \in devices /\ Gpu \in devices /\ Ssd \in devices /\ Probe \in devices
        /\ \A d \in fans \cup pumps : d \in devices
    OBVIOUS
  <1>7. DOMAIN Described(c) = devices
    BY <1>4
  <1> HIDE DEF devices
  <1>8. Described(c)[Cpu] = [temperature |-> sensor, load |-> load]
    BY <1>3, <1>4, <1>6, Kinds
  <1>9. Described(c)[Gpu] = [temperature |-> sensor, load |-> load,
                             speed |-> IF c.locked THEN load ELSE free]
    BY <1>3, <1>4, <1>6, Kinds
  <1>10. Described(c)[Ssd] = [temperature |-> sensor] /\ Described(c)[Probe] = [temperature |-> sensor]
    BY <1>3, <1>4, <1>6, Kinds
  <1>11. \A d \in fans : Described(c)[d] = [speed |-> free]
    BY <1>3, <1>4, <1>6
  <1>12. \A d \in pumps : Described(c)[d] = [speed |-> floored]
    BY <1>3, <1>4, <1>6
  <1>13. QED
    BY <1>5, <1>7, <1>8, <1>9, <1>10, <1>11, <1>12
       DEF devices, fans, pumps, sensor, load, free, floored

LEMMA DrivableIs ==
    ASSUME TableOK, NEW ref, Drivable(table, ref)
    PROVE  Output(ref, Resolved(table, ref))
  <1>1. PICK c : Machine(c) /\ table = Discovered(c)
    BY DEF TableOK
  <1> DEFINE d == ref.device
             all == Described(c)
  <1>2. d \in DOMAIN all /\ ref.name \in DOMAIN all[d]
        /\ all[d][ref.name].writable /\ Resolved(table, ref) = all[d][ref.name]
    BY <1>1 DEF Discovered, Drivable, InTable, Resolved
  <1>3. /\ DOMAIN all = {Cpu, Gpu, Ssd, Probe} \cup {FanNo(i) : i \in 0 .. c.fans - 1}
                        \cup {PumpNo(i) : i \in 0 .. c.pumps - 1}
        /\ all[Cpu] = [temperature |-> Sensor("celsius"), load |-> Sensor("percent")]
        /\ all[Gpu] =
              [temperature |-> Sensor("celsius"), load |-> Sensor("percent"),
               speed |-> IF c.locked THEN Sensor("percent") ELSE Actuator("percent", 0, 100)]
        /\ all[Ssd] = [temperature |-> Sensor("celsius")]
        /\ all[Probe] = [temperature |-> Sensor("celsius")]
        /\ \A i \in 0 .. c.fans - 1 : all[FanNo(i)] = [speed |-> Actuator("percent", 0, 100)]
        /\ \A i \in 0 .. c.pumps - 1 :
              all[PumpNo(i)] = [speed |-> Actuator("percent", PumpFloor, 100)]
    BY <1>1, DescribedAre
  <1>4. c.fans \in Nat /\ c.pumps \in Nat
    BY <1>1 DEF Machine
  <1> HIDE DEF all, d
  <1>5. \/ d \in {Cpu, Gpu, Ssd, Probe}
        \/ \E i \in 0 .. c.fans - 1 : d = FanNo(i)
        \/ \E i \in 0 .. c.pumps - 1 : d = PumpNo(i)
    BY <1>2, <1>3
  <1>6. d \notin {Cpu, Ssd, Probe}
    BY <1>2, <1>3 DEF Sensor
  <1>7. CASE d = Gpu
    <2>1. ref.name = "speed" /\ ~c.locked
      BY <1>2, <1>3, <1>7 DEF Sensor
    <2>2. all[d][ref.name] = Actuator("percent", 0, 100)
      BY <1>3, <1>7, <2>1
    <2>3. QED
      BY <1>2, <1>7, <2>1, <2>2 DEF Output, d
  <1>8. ASSUME NEW i \in 0 .. c.fans - 1, d = FanNo(i) PROVE Output(ref, Resolved(table, ref))
    <2>1. all[d] = [speed |-> Actuator("percent", 0, 100)] /\ i \in Nat
      BY <1>3, <1>4, <1>8
    <2>2. ref.name = "speed" /\ all[d][ref.name] = Actuator("percent", 0, 100)
      BY <1>2, <2>1
    <2>3. QED
      BY <1>2, <1>8, <2>1, <2>2 DEF Output, d
  <1>9. ASSUME NEW i \in 0 .. c.pumps - 1, d = PumpNo(i) PROVE Output(ref, Resolved(table, ref))
    <2>1. all[d] = [speed |-> Actuator("percent", PumpFloor, 100)] /\ i \in Nat
      BY <1>3, <1>4, <1>9
    <2>2. ref.name = "speed" /\ all[d][ref.name] = Actuator("percent", PumpFloor, 100)
      BY <1>2, <2>1
    <2>3. QED
      BY <1>2, <1>9, <2>1, <2>2 DEF Output, d
  <1>10. QED
    BY <1>5, <1>6, <1>7, <1>8, <1>9

-----------------------------------------------------------------------------
(* Loads and heat of the simulated machine *)

\* What a load profile gives is a share of a processor.
LEMMA LoadsAre ==
    ASSUME NEW profile \in Loads, NEW t
    PROVE  LoadsAt(profile, t) \subseteq 0 .. 100 /\ LoadsAt(profile, t) # {}
  <1>1. \A load \in Int : Bounded(0, load, 100) \in 0 .. 100
    BY DEF Bounded
  <1>2. profile \in LoadProfiles
    BY MockAssumption DEF Loads, LoadProfiles
  <1>3. CASE profile \in [kind : {"constant"}, load : Int]
    BY <1>1, <1>3 DEF LoadsAt
  <1>4. CASE profile \in [kind : {"wave"}, low : Int, high : Int]
    BY <1>1, <1>4 DEF LoadsAt
  <1>5. CASE profile \in [kind : {"steps"}, steps : Seq([length : Nat, load : Int])]
    <2> DEFINE steps == profile.steps
               End(k) == Total([j \in DOMAIN steps |-> steps[j].length], 1 .. k)
               whole == End(Len(steps))
               Now == IF whole = 0 THEN 0 ELSE t % whole
               ahead == {k \in DOMAIN steps : Now < End(k)}
               k == IF ahead = {} THEN Len(steps) ELSE Min(ahead)
    <2>1. LoadsAt(profile, t) = IF steps = <<>> THEN {0} ELSE {Bounded(0, steps[k].load, 100)}
      BY <1>5 DEF LoadsAt
    <2>2. steps \in Seq([length : Nat, load : Int])
      BY <1>5
    <2> HIDE DEF Now, steps, End
    <2>3. CASE steps = <<>>
      BY <2>1, <2>3
    <2>4. CASE steps # <<>>
      <3>1. DOMAIN steps = 1 .. Len(steps) /\ Len(steps) \in Nat /\ Len(steps) # 0
        BY <2>2, <2>4
      <3>2. IsFiniteSet(ahead) /\ ahead \subseteq Int /\ ahead \subseteq DOMAIN steps
        <4>1. ahead \subseteq 1 .. Len(steps) /\ IsFiniteSet(1 .. Len(steps))
          BY <3>1, FS_Interval
        <4>2. QED
          BY <3>1, <4>1, FS_Subset
      <3> HIDE DEF ahead
      <3>3. ahead # {} => Min(ahead) \in ahead
        BY <3>2, EndsType
      <3>4. Len(steps) \in DOMAIN steps
        BY <3>1
      <3>5. k \in DOMAIN steps
        BY <3>2, <3>3, <3>4
      <3> HIDE DEF k
      <3>6. steps[k] \in [length : Nat, load : Int]
        <4>1. k \in 1 .. Len(steps)
          BY <3>1, <3>5
        <4> DEFINE Segment == [length : Nat, load : Int]
        <4>2. steps \in Seq(Segment)
          BY <2>2
        <4> HIDE DEF Segment
        <4>3. steps[k] \in Segment
          BY <4>1, <4>2
        <4>4. QED
          BY <4>3 DEF Segment
      <3>7. Bounded(0, steps[k].load, 100) \in 0 .. 100
        BY <1>1, <3>6
      <3>8. QED
        BY <2>1, <2>4, <3>7
    <2>5. QED
      BY <2>3, <2>4
  <1>6. QED
    BY <1>2, <1>3, <1>4, <1>5 DEF LoadProfiles

\* The duty of the chassis is between those of its fans.
LEMMA ChassisDuty ==
    ASSUME NEW s, NEW n \in Nat, s.fan \in [1 .. n -> 0 .. 100]
    PROVE  SystemDuty(s) \in 0 .. 100 /\ (s.fan = <<>> <=> n = 0)
  <1>1. IsFiniteSet(1 .. n) /\ Cardinality(1 .. n) = n
    BY FS_Interval
  <1>2. DOMAIN s.fan = 1 .. n
    OBVIOUS
  <1>3. s.fan = <<>> <=> n = 0
    <2>1. ASSUME n = 0 PROVE s.fan = <<>>
      BY <2>1
    <2>2. ASSUME s.fan = <<>> PROVE n = 0
      BY <1>2, <2>2
    <2>3. QED
      BY <2>1, <2>2
  <1>4. CASE n = 0
    BY <1>3, <1>4 DEF SystemDuty
  <1>5. CASE n # 0
    <2>1. Len(s.fan) = n
      BY <1>2
    <2> DEFINE sum == Total(s.fan, 1 .. n)
    <2>2. sum \in n * 0 .. n * 100
      <3> DEFINE fan == s.fan
      <3>1. \A i \in 1 .. n : fan[i] \in 0 .. 100
        OBVIOUS
      <3> HIDE DEF fan
      <3>2. Total(fan, 1 .. n) \in Cardinality(1 .. n) * 0 .. Cardinality(1 .. n) * 100
        <4>1. 0 \in Int /\ 100 \in Int
          OBVIOUS
        <4>2. QED
          BY <1>1, <3>1, <4>1, SumBetween, Zenon
      <3>3. QED
        BY <1>1, <3>2 DEF fan
    <2>3. SystemDuty(s) = sum \div n
      BY <1>2, <1>3, <1>5, <2>1 DEF SystemDuty
    <2> HIDE DEF sum
    <2>4. sum \in Int /\ 0 * n <= sum /\ sum <= 100 * n /\ n > 0
      BY <1>5, <2>2
    <2> DEFINE mean == sum \div n
    <2>5. mean \in Int /\ 0 <= mean /\ mean <= 100
      BY <2>4, DivBounds
    <2>6. SystemDuty(s) = mean
      BY <2>3
    <2> HIDE DEF mean
    <2>7. mean \in 0 .. 100
      BY <2>5
    <2>8. QED
      BY <1>3, <2>6, <2>7, Zenon
  <1>6. QED
    BY <1>4, <1>5

\* The seconds in which the processor, the card and a drive follow.
Lags == {5, 7, 45}

LEMMA RelaxedIs ==
    ASSUME conf.ambient \in Int, NEW from \in Int, NEW to \in Int, NEW dt \in Nat,
           NEW constant \in Lags
    PROVE  LET there == IF dt >= constant THEN to ELSE from + ((to - from) * dt) \div constant
           IN /\ there \in Int
              /\ Relaxed(from, to, dt, constant) =
                    IF conf.ambient >= there THEN conf.ambient ELSE there
  <1> DEFINE way == (to - from) * dt
             there == IF dt >= constant THEN to ELSE from + way \div constant
  <1>1. way \in Int
    OBVIOUS
  <1> HIDE DEF way
  <1>2. way \div constant \in Int
    <2>1. way \div 5 \in Int /\ way \div 7 \in Int /\ way \div 45 \in Int
      BY <1>1
    <2>2. QED
      BY <2>1 DEF Lags
  <1>3. there \in Int
    BY <1>2 DEF Lags
  <1>4. Relaxed(from, to, dt, constant) = Max({conf.ambient, there})
    BY Zenon DEF Relaxed, way
  <1> HIDE DEF there
  <1>5. Max({conf.ambient, there}) = IF conf.ambient >= there THEN conf.ambient ELSE there
    BY <1>3, PairMax
  <1>6. QED
    BY <1>3, <1>4, <1>5 DEF there, way

\* What a duty and a load make of the temperatures, and what air does to the card's.
LEMMA GpuTargetIs ==
    ASSUME conf.ambient \in Int, NEW s, s.gpu \in 0 .. 100, SystemDuty(s) \in 0 .. 100,
           NEW load \in 0 .. 100
    PROVE  /\ Airflow(s) \in 0 .. 100 /\ GpuTarget(s, load) \in Int
           /\ GpuTarget(s, load) = conf.ambient + (72 * load - 38 * Airflow(s)) \div 100
  <1> DEFINE air == (s.gpu + SystemDuty(s)) \div 2
  <1>1. air \in 0 .. 100 /\ Airflow(s) = air
    BY DEF Airflow
  <1> HIDE DEF air
  <1>2. conf.ambient + (72 * load - 38 * air) \div 100 \in Int
    <2> DEFINE room == conf.ambient
    <2>1. room \in Int
      OBVIOUS
    <2> HIDE DEF room
    <2>2. room + (72 * load - 38 * air) \div 100 \in Int
      BY <1>1, <2>1
    <2>3. QED
      BY <2>2 DEF room
  <1>3. QED
    BY <1>1, <1>2, Zenon DEF GpuTarget

LEMMA Warms ==
    ASSUME ConfOK, SlotsOK, HeatOK, NEW g \in 0 .. 100, NEW p \in 0 .. 100, NEW dt \in Nat
    PROVE  LET warmed == Warmed(slots, g, p, dt)
           IN warmed.gpu \in Int /\ warmed.cpu \in Int /\ warmed.ssd \in Int /\ warmed.time \in Nat
  <1>1. conf.ambient \in Int /\ conf.fans \in Nat
    BY DEF ConfOK
  <1>2. slots.gpu \in 0 .. 100 /\ slots.fan \in [1 .. conf.fans -> 0 .. 100]
    BY DEF SlotsOK
  <1>3. SystemDuty(slots) \in 0 .. 100
    BY <1>1, <1>2, ChassisDuty
  <1>4. GpuTarget(slots, g) \in Int
    BY <1>1, <1>2, <1>3, GpuTargetIs
  <1>5. CpuTarget(slots, p) \in Int
    <2> DEFINE air == SystemDuty(slots)
               room == conf.ambient
    <2>1. air \in 0 .. 100 /\ room \in Int
      BY <1>1, <1>3
    <2> HIDE DEF air, room
    <2>2. room + (58 * p - 26 * air) \div 100 \in Int
      BY <2>1
    <2>3. QED
      BY <2>2, Zenon DEF CpuTarget, air, room
  <1>6. Max({g, p}) \in 0 .. 100
    <2>1. g \in Int /\ p \in Int
      OBVIOUS
    <2>2. Max({g, p}) = IF g >= p THEN g ELSE p
      BY <2>1, PairMax, Zenon
    <2>3. QED
      BY <2>2
  <1>7. SsdTarget(Max({g, p})) \in Int
    <2> DEFINE load == Max({g, p})
               room == conf.ambient
    <2>1. load \in 0 .. 100 /\ room \in Int
      BY <1>1, <1>6
    <2> HIDE DEF load, room
    <2>2. room + 8 + (9 * load) \div 200 \in Int
      BY <2>1
    <2>3. QED
      BY <2>2, Zenon DEF SsdTarget, load, room
  <1>8. heat.gpu \in Int /\ heat.cpu \in Int /\ heat.ssd \in Int /\ heat.time \in Nat
    BY DEF HeatOK
  <1> DEFINE gpu == GpuTarget(slots, g)
             cpu == CpuTarget(slots, p)
             ssd == SsdTarget(Max({g, p}))
  <1>9. Warmed(slots, g, p, dt) =
           [gpu |-> Relaxed(heat.gpu, gpu, dt, 7), cpu |-> Relaxed(heat.cpu, cpu, dt, 5),
            ssd |-> Relaxed(heat.ssd, ssd, dt, 45), time |-> heat.time + dt]
    BY Zenon DEF Warmed
  <1>10. gpu \in Int /\ cpu \in Int /\ ssd \in Int
    BY <1>4, <1>5, <1>7
  <1> HIDE DEF gpu, cpu, ssd
  <1>11. ASSUME NEW from \in Int, NEW to \in Int, NEW constant \in Lags
         PROVE  Relaxed(from, to, dt, constant) \in Int
    <2> DEFINE there == IF dt >= constant THEN to ELSE from + ((to - from) * dt) \div constant
    <2>1. /\ there \in Int
          /\ Relaxed(from, to, dt, constant) = IF conf.ambient >= there THEN conf.ambient ELSE there
      BY <1>1, RelaxedIs, Zenon
    <2> HIDE DEF there
    <2>2. QED
      BY <1>1, <2>1
  <1>12. Relaxed(heat.gpu, gpu, dt, 7) \in Int /\ Relaxed(heat.cpu, cpu, dt, 5) \in Int
         /\ Relaxed(heat.ssd, ssd, dt, 45) \in Int
    BY <1>8, <1>10, <1>11 DEF Lags
  <1>13. QED
    BY <1>8, <1>9, <1>12

\* More air, a cooler card.
LEMMA ChassisCools ==
    ASSUME ConfOK, SlotsOK, HeatOK, NEW load \in 0 .. 100
    PROVE  /\ Warmed(Full(slots), load, load, 1).gpu <= Warmed(slots, load, load, 1).gpu
           /\ slots.fan # <<>> /\ load > 60 =>
                 Warmed(Full(slots), load, load, 60).gpu < Warmed(Still(slots), load, load, 60).gpu
  <1>1. conf.ambient \in Int /\ conf.fans \in Nat /\ heat.gpu \in Int
    BY DEF ConfOK, HeatOK
  <1>2. slots.gpu \in 0 .. 100 /\ slots.fan \in [1 .. conf.fans -> 0 .. 100]
    BY DEF SlotsOK
  <1> DEFINE full == Full(slots)
             still == Still(slots)
  <1>3. /\ full.gpu = slots.gpu /\ full.fan = [i \in 1 .. conf.fans |-> 100]
        /\ still.gpu = slots.gpu /\ still.fan = [i \in 1 .. conf.fans |-> 0]
    BY <1>2 DEF SlotsOK, Full, Still
  <1> HIDE DEF full, still
  <1>4. SystemDuty(slots) \in 0 .. 100 /\ (slots.fan = <<>> <=> conf.fans = 0)
    BY <1>1, <1>2, ChassisDuty
  <1>5. \A x \in {0, 100} : \A s : s.fan = [i \in 1 .. conf.fans |-> x] =>
           SystemDuty(s) = IF conf.fans = 0 THEN 0 ELSE x
    <2> SUFFICES ASSUME NEW x \in {0, 100}, NEW s, s.fan = [i \in 1 .. conf.fans |-> x]
                 PROVE  SystemDuty(s) = IF conf.fans = 0 THEN 0 ELSE x
      OBVIOUS
    <2> DEFINE n == conf.fans
    <2>1. IsFiniteSet(1 .. n) /\ Cardinality(1 .. n) = n
      BY <1>1, FS_Interval
    <2>2. s.fan = <<>> <=> n = 0
      <3>1. s.fan \in [1 .. n -> 0 .. 100]
        OBVIOUS
      <3>2. QED
        BY <1>1, <3>1, ChassisDuty
    <2>3. CASE n = 0
      BY <2>2, <2>3 DEF SystemDuty
    <2>4. CASE n # 0
      <3> DEFINE fan == [i \in 1 .. n |-> x]
                 sum == Total(fan, 1 .. n)
      <3>1. \A i \in 1 .. n : fan[i] \in x .. x
        OBVIOUS
      <3>2. x \in Int
        OBVIOUS
      <3> HIDE DEF fan
      <3>3. sum \in Cardinality(1 .. n) * x .. Cardinality(1 .. n) * x
        BY <2>1, <3>1, <3>2, SumBetween, ZenonT(30)
      <3> HIDE DEF sum
      <3>4. sum \in Int /\ x * n <= sum /\ sum <= x * n /\ n \in Int /\ n > 0
        BY <1>1, <2>1, <2>4, <3>3
      <3> DEFINE mean == sum \div n
      <3>5. mean \in Int /\ x <= mean /\ mean <= x
        BY <3>2, <3>4, DivBounds
      <3>6. SystemDuty(s) = mean
        <4>1. DOMAIN s.fan = 1 .. n /\ Len(s.fan) = n /\ s.fan = fan
          BY <1>1 DEF fan
        <4>2. QED
          BY <2>2, <2>4, <4>1 DEF SystemDuty, sum
      <3> HIDE DEF mean
      <3>7. mean = x
        BY <3>2, <3>5
      <3>8. QED
        BY <2>4, <3>6, <3>7
    <2>5. QED
      BY <2>3, <2>4
  <1> DEFINE g == slots.gpu
             most == SystemDuty(full)
             now == SystemDuty(slots)
             least == SystemDuty(still)
  <1>6. most = (IF conf.fans = 0 THEN 0 ELSE 100) /\ least = 0
    BY <1>3, <1>5
  <1>7. now \in 0 .. 100 /\ (conf.fans = 0 => now = 0)
    BY <1>4, Zenon DEF SystemDuty
  <1> HIDE DEF most, now, least
  <1>8. now <= most /\ most \in {0, 100}
    BY <1>6, <1>7
  <1>9. g \in 0 .. 100
    BY <1>2
  <1>10. most \in 0 .. 100 /\ least \in 0 .. 100
    BY <1>6, <1>8
  <1> DEFINE a == conf.ambient
             Air(x) == (g + x) \div 2
             To(x) == a + (72 * load - 38 * Air(x)) \div 100
  <1>11. \A x \in 0 .. 100 : Air(x) \in 0 .. 100 /\ To(x) \in Int
    BY <1>1, <1>9, SMTT(30)
  <1>12. To(most) <= To(now)
    <2>1. Air(now) <= Air(most)
      BY <1>7, <1>8, <1>9, <1>10
    <2> DEFINE x == Air(now)
               y == Air(most)
    <2>2. x \in 0 .. 100 /\ y \in 0 .. 100 /\ x <= y
      BY <1>7, <1>10, <1>11, <2>1
    <2> HIDE DEF x, y
    <2>3. a + (72 * load - 38 * y) \div 100 <= a + (72 * load - 38 * x) \div 100
      BY <1>1, <2>2
    <2>4. QED
      BY <2>3 DEF x, y
  <1>13. load > 60 /\ conf.fans # 0 => To(most) < To(least) /\ a < To(least)
    <2> SUFFICES ASSUME load > 60, conf.fans # 0 PROVE To(100) < To(0) /\ a < To(0)
      BY <1>6
    <2> DEFINE x == Air(0)
               y == Air(100)
    <2>1. x \in 0 .. 50 /\ y = x + 50
      BY <1>9
    <2> HIDE DEF x, y
    <2>2. /\ a + (72 * load - 38 * y) \div 100 < a + (72 * load - 38 * x) \div 100
          /\ a < a + (72 * load - 38 * x) \div 100
      BY <1>1, <2>1
    <2>3. QED
      BY <2>2 DEF x, y
  <1>14. /\ GpuTarget(slots, load) = To(now) /\ GpuTarget(full, load) = To(most)
         /\ GpuTarget(still, load) = To(least)
    BY <1>3, Zenon DEF GpuTarget, Airflow, now, most, least
  <1> DEFINE from == heat.gpu
             Into(to) == from + ((to - from) * 1) \div 7
  <1> HIDE DEF To
  <1>15. To(most) \in Int /\ To(now) \in Int /\ To(least) \in Int
    BY <1>7, <1>10, <1>11
  <1>16. \A to \in Int : /\ Relaxed(from, to, 1, 7) = IF a >= Into(to) THEN a ELSE Into(to)
                         /\ Relaxed(from, to, 60, 7) = IF a >= to THEN a ELSE to
                         /\ Into(to) \in Int
    <2> TAKE to \in Int
    <2>1. conf.ambient \in Int /\ from \in Int /\ 1 \in Nat /\ 60 \in Nat /\ 7 \in Lags
      BY <1>1 DEF Lags
    <2> DEFINE Closer(dt) == IF dt >= 7 THEN to ELSE from + ((to - from) * dt) \div 7
    <2>2. \A dt \in Nat : /\ Closer(dt) \in Int
                         /\ Relaxed(from, to, dt, 7) = IF a >= Closer(dt) THEN a ELSE Closer(dt)
      BY <2>1, RelaxedIs, Zenon
    <2>3. Closer(1) = Into(to) /\ Closer(60) = to
      OBVIOUS
    <2> HIDE DEF Closer, Into
    <2>4. QED
      BY <2>1, <2>2, <2>3
  <1>17. Into(To(most)) <= Into(To(now))
    <2> DEFINE x == To(most)
               y == To(now)
    <2>1. x \in Int /\ y \in Int /\ x <= y
      BY <1>12, <1>15
    <2> HIDE DEF x, y
    <2>2. from + ((x - from) * 1) \div 7 <= from + ((y - from) * 1) \div 7
      BY <1>1, <2>1
    <2>3. QED
      BY <2>2 DEF x, y
  <1> HIDE DEF Into
  <1>18. /\ Warmed(full, load, load, 1).gpu = Relaxed(from, To(most), 1, 7)
         /\ Warmed(slots, load, load, 1).gpu = Relaxed(from, To(now), 1, 7)
         /\ Warmed(full, load, load, 60).gpu = Relaxed(from, To(most), 60, 7)
         /\ Warmed(still, load, load, 60).gpu = Relaxed(from, To(least), 60, 7)
    BY <1>14 DEF Warmed
  <1> HIDE DEF a, from
  <1>19. Relaxed(from, To(most), 1, 7) <= Relaxed(from, To(now), 1, 7)
    BY <1>15, <1>16, <1>17, <1>1 DEF a
  <1>20. load > 60 /\ conf.fans # 0 =>
            Relaxed(from, To(most), 60, 7) < Relaxed(from, To(least), 60, 7)
    BY <1>1, <1>13, <1>15, <1>16 DEF a
  <1>21. QED
    BY <1>4, <1>18, <1>19, <1>20 DEF full, still

-----------------------------------------------------------------------------
(* The index of what can be read and driven, and what is suggested from it *)

LEMMA ImageIsFinite ==
    ASSUME NEW S, IsFiniteSet(S), NEW g, DOMAIN g = S
    PROVE  IsFiniteSet({g[x] : x \in S})
  <1> DEFINE T == {g[x] : x \in S}
             h == [x \in S |-> g[x]]
  <1>1. h \in [S -> T] /\ \A y \in T : \E x \in S : h[x] = y
    OBVIOUS
  <1>2. h \in Surjection(S, T)
    BY <1>1, Zenon DEF Surjection
  <1> HIDE DEF T, h
  <1>3. IsFiniteSet(T)
    BY <1>2, FS_Surjection
  <1>4. QED
    BY <1>3 DEF T

\* A position in the order of ids, for entries that it tells apart.
Ordered(refs, key) ==
  /\ IsFiniteSet(refs) /\ key \in [refs -> Nat]
  /\ \A a, b \in refs : /\ Precedes(a, b) <=> key[a] < key[b]
                        /\ key[a] = key[b] => a = b

LEMMA LeastEntry ==
    ASSUME NEW refs, NEW key, Ordered(refs, key), NEW some \in SUBSET refs, some # {}
    PROVE  \E r \in some : \A q \in some \ {r} : Precedes(r, q) /\ ~Precedes(q, r)
  <1> DEFINE keys == {key[q] : q \in some}
  <1>1. keys # {} /\ keys \subseteq Nat
    BY DEF Ordered
  <1> HIDE DEF keys
  <1>2. PICK low \in keys : \A y \in keys : low <= y
    BY <1>1, Least
  <1>3. PICK r \in some : key[r] = low
    BY <1>2 DEF keys
  <1>4. \A q \in some : key[q] \in keys
    BY DEF keys
  <1>5. \A q \in some : key[q] \in Nat /\ key[r] <= key[q]
    BY <1>1, <1>2, <1>3, <1>4
  <1>6. ASSUME NEW q \in some \ {r} PROVE Precedes(r, q) /\ ~Precedes(q, r)
    <2>1. key[q] # key[r]
      BY <1>3, <1>6 DEF Ordered
    <2>2. key[r] < key[q] /\ ~(key[q] < key[r])
      BY <1>5, <1>6, <2>1
    <2>3. QED
      BY <1>3, <1>6, <2>2 DEF Ordered
  <1>7. QED
    BY <1>3, <1>6

LEMMA EntryIs ==
    ASSUME NEW refs, NEW key, Ordered(refs, key), refs # {}, NEW n \in Nat, n > 0
    PROVE  /\ Foremost(refs, n) # {} /\ Entry(refs, n) \in Foremost(refs, n)
           /\ \A q \in Foremost(refs, n) : ~Precedes(Entry(refs, n), q)
  <1>1. PICK r \in refs : \A q \in refs \ {r} : Precedes(r, q) /\ ~Precedes(q, r)
    BY LeastEntry
  <1>2. {q \in refs : Precedes(q, r)} = {}
    <2>1. ~Precedes(r, r)
      BY <1>1 DEF Ordered
    <2>2. QED
      BY <1>1, <2>1
  <1>3. r \in Foremost(refs, n)
    BY <1>1, <1>2, FS_EmptySet DEF Foremost
  <1> DEFINE front == Foremost(refs, n)
             keys == {key[q] : q \in front}
             f == [q \in front |-> key[q]]
  <1>4. front \subseteq refs /\ front # {}
    BY <1>3 DEF Foremost
  <1>5. IsFiniteSet(front)
    BY <1>4, FS_Subset DEF Ordered
  <1> HIDE DEF front
  <1>6. IsFiniteSet({f[q] : q \in front}) /\ {f[q] : q \in front} = keys
    BY <1>5, ImageIsFinite
  <1>7. keys # {} /\ keys \subseteq Int
    BY <1>4 DEF Ordered
  <1>8. PICK high \in keys : \A y \in keys : high >= y
    BY <1>6, <1>7, EndsExist
  <1>9. PICK last \in front : \A q \in front : ~Precedes(last, q)
    <2>1. PICK last \in front : key[last] = high
      BY <1>8
    <2>2. ASSUME NEW q \in front PROVE ~Precedes(last, q)
      <3>1. key[q] \in keys /\ key[q] \in Nat /\ key[last] \in Nat
        BY <1>4, <2>1, <2>2 DEF Ordered
      <3>2. ~(key[last] < key[q])
        BY <1>8, <2>1, <3>1
      <3>3. QED
        BY <1>4, <2>1, <2>2, <3>2 DEF Ordered
    <2>3. QED
      BY <2>1, <2>2
  <1>10. Entry(refs, n) = CHOOSE q \in front : ~\E p \in front : Precedes(q, p)
    BY DEF Entry, front
  <1>11. \E q \in front : ~\E p \in front : Precedes(q, p)
    BY <1>9
  <1>12. Entry(refs, n) \in front /\ ~\E p \in front : Precedes(Entry(refs, n), p)
    BY <1>10, <1>11, Zenon
  <1>13. QED
    BY <1>4, <1>12 DEF front

LEMMA TwoEntries ==
    ASSUME NEW refs, NEW key, Ordered(refs, key), Cardinality(refs) > 1
    PROVE  Entry(refs, 1) # Entry(refs, 2)
  <1>1. IsFiniteSet(refs) /\ Cardinality(refs) \in Nat
    BY FS_CardinalityType DEF Ordered
  <1>2. refs # {}
    BY <1>1, FS_EmptySet
  <1>3. PICK first \in refs : \A q \in refs \ {first} : Precedes(first, q) /\ ~Precedes(q, first)
    BY <1>2, LeastEntry
  <1>4. refs \ {first} # {}
    <2>1. ASSUME refs = {first} PROVE FALSE
      BY <1>1, <2>1, FS_Singleton
    <2>2. QED
      BY <1>2, <2>1
  <1>5. PICK second \in refs \ {first} :
           \A q \in (refs \ {first}) \ {second} : Precedes(second, q) /\ ~Precedes(q, second)
    <2>1. refs \ {first} \in SUBSET refs
      OBVIOUS
    <2>2. QED
      BY <1>4, <2>1, LeastEntry
  <1>6. Entry(refs, 1) = first
    <2>1. Entry(refs, 1) \in Foremost(refs, 1)
      BY <1>2, EntryIs
    <2> DEFINE r == Entry(refs, 1)
               before == {q \in refs : Precedes(q, r)}
    <2>2. r \in refs /\ Cardinality(before) < 1
      BY <2>1 DEF Foremost
    <2>3. IsFiniteSet(before) /\ Cardinality(before) \in Nat
      <3>1. before \subseteq refs
        OBVIOUS
      <3>2. QED
        BY <1>1, <3>1, FS_Subset, FS_CardinalityType
    <2>4. before = {}
      BY <2>2, <2>3, FS_EmptySet
    <2>5. ~Precedes(first, r)
      BY <1>3, <2>4
    <2> HIDE DEF r
    <2>6. r = first
      BY <1>3, <2>2, <2>5
    <2>7. QED
      BY <2>6 DEF r
  <1>7. {q \in refs : Precedes(q, second)} = {first}
    <2>1. ~Precedes(second, second)
      BY <1>5 DEF Ordered
    <2>2. Precedes(first, second)
      BY <1>3, <1>5
    <2>3. QED
      BY <1>3, <1>5, <2>1, <2>2
  <1>8. second \in Foremost(refs, 2)
    <2>1. Cardinality({first}) = 1
      BY FS_Singleton
    <2>2. QED
      BY <1>5, <1>7, <2>1 DEF Foremost
  <1>9. ~Precedes(Entry(refs, 2), second)
    BY <1>2, <1>8, EntryIs
  <1>10. QED
    BY <1>3, <1>5, <1>6, <1>9

\* An entry of the index is a capability of a device that the machine has.
LEMMA EntryHas ==
    ASSUME NEW c, Machine(c), table = Discovered(c), NEW r \in References(table)
    PROVE  /\ r = Ref(r.device, r.name) /\ InTable(table, r)
           /\ r.device \in DOMAIN Described(c) /\ r.name \in DOMAIN Described(c)[r.device]
           /\ Resolved(table, r) = Described(c)[r.device][r.name]
  <1>1. PICK d \in DOMAIN table : r \in {Ref(d, name) : name \in DOMAIN table[d]}
    BY DEF References
  <1>2. PICK name \in DOMAIN table[d] : r = Ref(d, name)
    BY <1>1
  <1>3. r.device = d /\ r.name = name
    BY <1>2 DEF Ref
  <1>4. d \in DOMAIN Described(c) /\ table[d] = Described(c)[d]
    BY <1>1 DEF Discovered
  <1>5. QED
    BY <1>1, <1>2, <1>3, <1>4 DEF InTable, Resolved

\* What shows degrees is the temperature of one of four devices.
LEMMA HeatIs ==
    ASSUME TableOK, NEW r \in Temperatures(table)
    PROVE  /\ r = Ref(r.device, "temperature") /\ r.device \in {Cpu, Gpu, Ssd, Probe}
           /\ Readable(table, r)
  <1>1. PICK c : Machine(c) /\ table = Discovered(c)
    BY DEF TableOK
  <1> DEFINE all == Described(c)
             d == r.device
             name == r.name
  <1>2. r \in References(table) /\ IsSource(Resolved(table, r))
        /\ Resolved(table, r).unit = "celsius"
    BY DEF Temperatures
  <1>3. /\ r = Ref(d, name) /\ InTable(table, r) /\ d \in DOMAIN all /\ name \in DOMAIN all[d]
        /\ Resolved(table, r) = all[d][name]
    BY <1>1, <1>2, EntryHas
  <1>4. /\ DOMAIN all = {Cpu, Gpu, Ssd, Probe} \cup {FanNo(i) : i \in 0 .. c.fans - 1}
                        \cup {PumpNo(i) : i \in 0 .. c.pumps - 1}
        /\ all[Cpu] = [temperature |-> Sensor("celsius"), load |-> Sensor("percent")]
        /\ all[Gpu] =
              [temperature |-> Sensor("celsius"), load |-> Sensor("percent"),
               speed |-> IF c.locked THEN Sensor("percent") ELSE Actuator("percent", 0, 100)]
        /\ all[Ssd] = [temperature |-> Sensor("celsius")]
        /\ all[Probe] = [temperature |-> Sensor("celsius")]
        /\ \A i \in 0 .. c.fans - 1 : all[FanNo(i)] = [speed |-> Actuator("percent", 0, 100)]
        /\ \A i \in 0 .. c.pumps - 1 :
              all[PumpNo(i)] = [speed |-> Actuator("percent", PumpFloor, 100)]
    BY <1>1, DescribedAre
  <1> HIDE DEF all, d, name
  <1>5. all[d][name].unit = "celsius"
    BY <1>2, <1>3
  <1>6. Sensor("percent").unit = "percent" /\ Actuator("percent", 0, 100).unit = "percent"
        /\ Actuator("percent", PumpFloor, 100).unit = "percent"
    BY DEF Sensor, Actuator
  <1>7. d \in {Cpu, Gpu, Ssd, Probe} /\ name = "temperature"
    BY <1>3, <1>4, <1>5, <1>6
  <1>8. QED
    BY <1>2, <1>3, <1>7 DEF Readable, d, name

\* What is driven is the speed of the card, of a fan or of a pump of the machine.
Position(c, r) ==
  IF r.device = Gpu THEN c.fans ELSE IF r.device[1] = "fan" THEN r.device[2]
  ELSE c.fans + 1 + r.device[2]

LEMMA TargetIs ==
    ASSUME NEW c, Machine(c), table = Discovered(c), NEW r \in Targets(table)
    PROVE  /\ Drivable(table, r) /\ r = Ref(r.device, "speed")
           /\ \/ r.device = Gpu
              \/ \E i \in 0 .. c.fans - 1 : r.device = FanNo(i)
              \/ \E i \in 0 .. c.pumps - 1 : r.device = PumpNo(i)
  <1>1. r \in References(table) /\ IsTarget(Resolved(table, r))
    BY DEF Targets
  <1>2. r = Ref(r.device, r.name) /\ InTable(table, r) /\ r.device \in DOMAIN Described(c)
    BY <1>1, EntryHas
  <1>3. Drivable(table, r)
    BY <1>1, <1>2 DEF Drivable, IsTarget
  <1>4. Output(r, Resolved(table, r))
    BY <1>3, DrivableIs DEF TableOK
  <1>5. r.name = "speed" /\ r.device \notin {Cpu, Ssd, Probe}
    BY <1>4, Kinds DEF Output
  <1>6. r.device \in {Cpu, Gpu, Ssd, Probe} \cup {FanNo(i) : i \in 0 .. c.fans - 1}
                     \cup {PumpNo(i) : i \in 0 .. c.pumps - 1}
    BY <1>2, DescribedAre
  <1>7. QED
    BY <1>2, <1>3, <1>5, <1>6

TypeRank(type) == CHOOSE k \in DOMAIN DeviceTypes : DeviceTypes[k] = type

LEMMA TypesRank ==
  /\ TypeRank("cpu") = 1 /\ TypeRank("fan") = 2 /\ TypeRank("gpu") = 3
  /\ TypeRank("pump") = 4 /\ TypeRank("ssd") = 5 /\ TypeRank("temperature") = 6
  <1>1. /\ DOMAIN DeviceTypes = 1 .. 6
        /\ DeviceTypes[1] = "cpu" /\ DeviceTypes[2] = "fan" /\ DeviceTypes[3] = "gpu"
        /\ DeviceTypes[4] = "pump" /\ DeviceTypes[5] = "ssd" /\ DeviceTypes[6] = "temperature"
    BY DEF DeviceTypes
  <1>2. \A k \in DOMAIN DeviceTypes :
           /\ DeviceTypes[k] = "cpu" <=> k = 1
           /\ DeviceTypes[k] = "fan" <=> k = 2
           /\ DeviceTypes[k] = "gpu" <=> k = 3
           /\ DeviceTypes[k] = "pump" <=> k = 4
           /\ DeviceTypes[k] = "ssd" <=> k = 5
           /\ DeviceTypes[k] = "temperature" <=> k = 6
    BY <1>1
  <1>3. \A k \in 1 .. 6 : k \in DOMAIN DeviceTypes
    BY <1>1
  <1>4. QED
    BY <1>2, <1>3 DEF TypeRank

LEMMA PrecedesIs ==
    ASSUME NEW a, NEW b
    PROVE  Precedes(a, b) <=>
              \/ TypeRank(a.device[1]) < TypeRank(b.device[1])
              \/ /\ TypeRank(a.device[1]) = TypeRank(b.device[1])
                 /\ a.device[2] < b.device[2]
  BY Zenon DEF Precedes, TypeRank

LEMMA TargetsAreOrdered ==
    ASSUME NEW c, Machine(c), table = Discovered(c)
    PROVE  Ordered(Targets(table), [r \in Targets(table) |-> Position(c, r)])
  <1> DEFINE outs == Targets(table)
             key == [r \in outs |-> Position(c, r)]
             fans == {FanNo(i) : i \in 0 .. c.fans - 1}
             pumps == {PumpNo(i) : i \in 0 .. c.pumps - 1}
             Kind(r) == TypeRank(r.device[1])
             Nth(r) == r.device[2]
  <1>1. c.fans \in Nat /\ c.pumps \in Nat
    BY DEF Machine
  <1>2. \A r \in outs : /\ r = Ref(r.device, "speed")
                        /\ \/ r.device = Gpu
                           \/ \E i \in 0 .. c.fans - 1 : r.device = FanNo(i)
                           \/ \E i \in 0 .. c.pumps - 1 : r.device = PumpNo(i)
    BY TargetIs
  <1>3. IsFiniteSet(outs)
    <2> DEFINE devices == {Gpu} \cup fans \cup pumps
               g == [d \in devices |-> Ref(d, "speed")]
               nth == [i \in 0 .. c.fans - 1 |-> FanNo(i)]
               pth == [i \in 0 .. c.pumps - 1 |-> PumpNo(i)]
    <2>1. IsFiniteSet(0 .. c.fans - 1) /\ IsFiniteSet(0 .. c.pumps - 1)
      <3> HIDE DEF outs, key, fans, pumps, devices, g, nth, pth
      <3>1. 0 \in Int /\ c.fans - 1 \in Int /\ c.pumps - 1 \in Int
        BY <1>1
      <3>2. QED
        BY <3>1, FS_Interval
    <2>2. IsFiniteSet({nth[i] : i \in 0 .. c.fans - 1}) /\ {nth[i] : i \in 0 .. c.fans - 1} = fans
      BY <2>1, ImageIsFinite
    <2>3. IsFiniteSet({pth[i] : i \in 0 .. c.pumps - 1}) /\ {pth[i] : i \in 0 .. c.pumps - 1} = pumps
      BY <2>1, ImageIsFinite
    <2>4. \A r \in outs : r.device \in devices /\ r = g[r.device]
      BY <1>2
    <2> HIDE DEF fans, pumps
    <2>5. IsFiniteSet(devices)
      BY <2>2, <2>3, FS_Singleton, FS_Union
    <2>6. DOMAIN g = devices
      OBVIOUS
    <2> HIDE DEF devices, g, outs
    <2>7. IsFiniteSet({g[d] : d \in devices})
      BY <2>5, <2>6, ImageIsFinite
    <2>8. outs \subseteq {g[d] : d \in devices}
      BY <2>4
    <2>9. QED
      BY <2>7, <2>8, FS_Subset
  <1>4. \A r \in outs : /\ r = Ref(r.device, "speed") /\ r.device = <<r.device[1], Nth(r)>>
                        /\ \/ /\ r.device[1] = "gpu" /\ Nth(r) = 0 /\ Position(c, r) = c.fans
                           \/ /\ r.device[1] = "fan" /\ Nth(r) \in 0 .. c.fans - 1
                              /\ Position(c, r) = Nth(r)
                           \/ /\ r.device[1] = "pump" /\ Nth(r) \in 0 .. c.pumps - 1
                              /\ Position(c, r) = c.fans + 1 + Nth(r)
    <2> SUFFICES ASSUME NEW r \in outs
                 PROVE  /\ r = Ref(r.device, "speed") /\ r.device = <<r.device[1], Nth(r)>>
                        /\ \/ /\ r.device[1] = "gpu" /\ Nth(r) = 0 /\ Position(c, r) = c.fans
                           \/ /\ r.device[1] = "fan" /\ Nth(r) \in 0 .. c.fans - 1
                              /\ Position(c, r) = Nth(r)
                           \/ /\ r.device[1] = "pump" /\ Nth(r) \in 0 .. c.pumps - 1
                              /\ Position(c, r) = c.fans + 1 + Nth(r)
      OBVIOUS
    <2>1. CASE r.device = Gpu
      BY <1>2, <2>1 DEF Gpu, Position
    <2>2. ASSUME NEW i \in 0 .. c.fans - 1, r.device = FanNo(i)
          PROVE  /\ r.device = <<"fan", i>> /\ Nth(r) = i /\ Position(c, r) = Nth(r)
      BY <2>2 DEF Gpu, FanNo, Position
    <2>3. ASSUME NEW i \in 0 .. c.pumps - 1, r.device = PumpNo(i)
          PROVE  /\ r.device = <<"pump", i>> /\ Nth(r) = i
                 /\ Position(c, r) = c.fans + 1 + Nth(r)
      BY <2>3 DEF Gpu, PumpNo, Position
    <2>4. QED
      BY <1>2, <2>1, <2>2, <2>3
  <1>5. \A a, b \in outs : Precedes(a, b) <=>
           Kind(a) < Kind(b) \/ (Kind(a) = Kind(b) /\ Nth(a) < Nth(b))
    BY PrecedesIs
  <1>6. \A r \in outs : \/ r.device[1] = "gpu" /\ Kind(r) = 3
                        \/ r.device[1] = "fan" /\ Kind(r) = 2
                        \/ r.device[1] = "pump" /\ Kind(r) = 4
    BY <1>4, TypesRank
  <1> HIDE DEF outs, Kind, Nth
  <1>7. \A r \in outs : /\ Kind(r) \in {2, 3, 4}
                        /\ Kind(r) = 3 => Nth(r) = 0 /\ Position(c, r) = c.fans
                        /\ Kind(r) = 2 => /\ Nth(r) \in 0 .. c.fans - 1
                                          /\ Position(c, r) = Nth(r)
                        /\ Kind(r) = 4 => /\ Nth(r) \in 0 .. c.pumps - 1
                                          /\ Position(c, r) = c.fans + 1 + Nth(r)
    BY <1>4, <1>6
  <1>8. \A a, b \in outs : Kind(a) = Kind(b) /\ Nth(a) = Nth(b) => a = b
    <2> SUFFICES ASSUME NEW a \in outs, NEW b \in outs, Kind(a) = Kind(b), Nth(a) = Nth(b)
                 PROVE  a = b
      OBVIOUS
    <2>1. a.device[1] = b.device[1]
      BY <1>6
    <2>2. a.device = b.device
      BY <1>4, <2>1
    <2>3. QED
      BY <1>4, <2>2
  <1>9. \A r \in outs : Position(c, r) \in Nat
    <2> TAKE r \in outs
    <2>1. Kind(r) \in {2, 3, 4}
      BY <1>7
    <2>2. CASE Kind(r) = 2
      BY <1>1, <1>7, <2>2
    <2>3. CASE Kind(r) = 3
      BY <1>1, <1>7, <2>3
    <2>4. CASE Kind(r) = 4
      BY <1>1, <1>7, <2>4
    <2>5. QED
      BY <2>1, <2>2, <2>3, <2>4
  <1>10. key \in [outs -> Nat] /\ \A r \in outs : key[r] = Position(c, r)
    BY <1>9
  <1> HIDE DEF key
  <1>11. ASSUME NEW a \in outs, NEW b \in outs
         PROVE  /\ Precedes(a, b) <=> Position(c, a) < Position(c, b)
                /\ Position(c, a) = Position(c, b) => Kind(a) = Kind(b) /\ Nth(a) = Nth(b)
    <2> DEFINE ra == Kind(a)
               rb == Kind(b)
               na == Nth(a)
               nb == Nth(b)
               pa == Position(c, a)
               pb == Position(c, b)
               n == c.fans
               m == c.pumps
    <2>1. /\ ra \in {2, 3, 4}
          /\ ra = 3 => na = 0 /\ pa = n
          /\ ra = 2 => na \in 0 .. n - 1 /\ pa = na
          /\ ra = 4 => na \in 0 .. m - 1 /\ pa = n + 1 + na
      BY <1>7
    <2>2. /\ rb \in {2, 3, 4}
          /\ rb = 3 => nb = 0 /\ pb = n
          /\ rb = 2 => nb \in 0 .. n - 1 /\ pb = nb
          /\ rb = 4 => nb \in 0 .. m - 1 /\ pb = n + 1 + nb
      BY <1>7
    <2>3. Precedes(a, b) <=> ra < rb \/ (ra = rb /\ na < nb)
      BY <1>5
    <2> HIDE DEF ra, rb, na, nb, pa, pb, n, m
    <2>4. n \in Nat /\ m \in Nat
      BY <1>1 DEF n, m
    <2>5. (ra < rb \/ (ra = rb /\ na < nb)) <=> pa < pb
      BY <2>1, <2>2, <2>4
    <2>6. pa = pb => ra = rb /\ na = nb
      BY <2>1, <2>2, <2>4
    <2>7. QED
      BY <2>3, <2>5, <2>6 DEF ra, rb, na, nb, pa, pb
  <1>12. \A a, b \in outs : (Precedes(a, b) <=> key[a] < key[b]) /\ (key[a] = key[b] => a = b)
    BY <1>8, <1>10, <1>11
  <1>13. QED
    BY <1>3, <1>10, <1>12 DEF Ordered, key, outs

LEMMA CurvesAreFine ==
  \A curve \in {CardCurve, ProcessorCurve} : List(curve) /\ ValidCurve(curve)
  <1>1. List(CardCurve) /\ ValidCurve(CardCurve)
    <2>1. DOMAIN CardCurve = 1 .. 5 /\ Len(CardCurve) = 5
      BY DEF CardCurve
    <2>2. \A k \in 1 .. 5 : CardCurve[k].input \in Int /\ CardCurve[k].output \in Int
      BY DEF CardCurve, Point
    <2>3. \A k \in 2 .. 5 : CardCurve[k - 1].input < CardCurve[k].input
      BY DEF CardCurve, Point
    <2>4. QED
      BY <2>1, <2>2, <2>3 DEF List, ValidCurve
  <1>2. List(ProcessorCurve) /\ ValidCurve(ProcessorCurve)
    <2>1. DOMAIN ProcessorCurve = 1 .. 4 /\ Len(ProcessorCurve) = 4
      BY DEF ProcessorCurve
    <2>2. \A k \in 1 .. 4 : ProcessorCurve[k].input \in Int /\ ProcessorCurve[k].output \in Int
      BY DEF ProcessorCurve, Point
    <2>3. \A k \in 2 .. 4 : ProcessorCurve[k - 1].input < ProcessorCurve[k].input
      BY DEF ProcessorCurve, Point
    <2>4. QED
      BY <2>1, <2>2, <2>3 DEF List, ValidCurve
  <1>3. QED
    BY <1>1, <1>2

\* The rules that may be suggested: some of the temperatures, one of the outputs.
Suggestible ==
  {NewRule(S, t, curve) : S \in (SUBSET Temperatures(table)) \ {{}}, t \in Targets(table),
                          curve \in {CardCurve, ProcessorCurve}}

LEMMA SuggestibleFits ==
    ASSUME TableOK, NEW made \in Suggestible
    PROVE  /\ CheckRule(table, made).errors = {}
           /\ "curve" \in DOMAIN made /\ List(made.curve)
  <1>1. PICK S \in (SUBSET Temperatures(table)) \ {{}}, t \in Targets(table),
             curve \in {CardCurve, ProcessorCurve} : made = NewRule(S, t, curve)
    BY DEF Suggestible
  <1>2. /\ made.sensors = S /\ made.when = Unset /\ made.target = t /\ made.curve = curve
        /\ made.hysteresis = 2 /\ made.deadband = 0 /\ made.min = Unset /\ made.max = Unset
        /\ made.onMissing = SafeDefault /\ made.onFailure = SafeDefault
        /\ "curve" \in DOMAIN made
    BY <1>1 DEF NewRule
  <1>3. List(curve) /\ ValidCurve(curve)
    BY <1>1, CurvesAreFine
  <1>4. ValidRule(made)
    <2>1. SafeDefault.kind = "safe_default"
      BY DEF SafeDefault
    <2>2. QED
      BY <1>1, <1>2, <1>3, <2>1 DEF ValidRule, ValidWhen, ValidLimits, ValidPolicy
  <1>5. \A r \in made.sensors : Readable(table, r)
    BY <1>1, <1>2, HeatIs
  <1>6. Drivable(table, made.target)
    <2>1. PICK c : Machine(c) /\ table = Discovered(c)
      BY DEF TableOK
    <2>2. QED
      BY <1>2, <2>1, TargetIs
  <1>7. Errors(table, made) = {}
    BY <1>2, <1>4, <1>5, <1>6, Zenon DEF Errors
  <1>8. QED
    BY <1>2, <1>3, <1>7 DEF CheckRule

LEMMA TwoTargets ==
    ASSUME TableOK, Cardinality(Targets(table)) > 1
    PROVE  Entry(Targets(table), 1) # Entry(Targets(table), 2)
  <1>1. PICK c : Machine(c) /\ table = Discovered(c)
    BY DEF TableOK
  <1>2. QED
    BY <1>1, TargetsAreOrdered, TwoEntries

LEMMA ATarget ==
    ASSUME TableOK, Targets(table) # {}, NEW n \in {1, 2}
    PROVE  Entry(Targets(table), n) \in Targets(table)
  <1>1. PICK c : Machine(c) /\ table = Discovered(c)
    BY DEF TableOK
  <1>2. PICK key : Ordered(Targets(table), key)
    BY <1>1, TargetsAreOrdered
  <1>3. n \in Nat /\ n > 0
    OBVIOUS
  <1>4. Entry(Targets(table), n) \in Foremost(Targets(table), n)
    BY <1>2, <1>3, EntryIs
  <1>5. QED
    BY <1>4 DEF Foremost

\* Of the temperatures of one device, and of all of them, some come first.
LEMMA OfOneDevice ==
    ASSUME TableOK, NEW d \in {Cpu, Gpu},
           NEW some, some = {r \in Temperatures(table) : r.device[1] = d[1]}, some # {}
    PROVE  Foremost(some, 1) # {} /\ Foremost(some, 1) \subseteq Temperatures(table)
  <1> DEFINE r == Ref(d, "temperature")
  <1>1. d[1] \in {"cpu", "gpu"} /\ (d[1] = "cpu" <=> d = Cpu) /\ (d[1] = "gpu" <=> d = Gpu)
    BY DEF Cpu, Gpu
  <1>2. \A q \in some : q = r
    <2> TAKE q \in some
    <2>1. q = Ref(q.device, "temperature") /\ q.device \in {Cpu, Gpu, Ssd, Probe}
      BY HeatIs
    <2>2. q.device[1] = d[1]
      OBVIOUS
    <2>3. q.device = d
      BY <1>1, <2>1, <2>2 DEF Cpu, Gpu, Ssd, Probe
    <2>4. QED
      BY <2>1, <2>3
  <1>3. some = {r}
    BY <1>2
  <1>4. ~Precedes(r, r)
    <2>1. r.device[1] \in {"cpu", "gpu"} /\ r.device[2] = 0
      BY DEF Ref, Cpu, Gpu
    <2>2. QED
      BY <2>1, PrecedesIs, TypesRank
  <1> HIDE DEF r
  <1>5. {q \in some : Precedes(q, r)} = {}
    BY <1>3, <1>4
  <1>6. r \in Foremost(some, 1)
    <2>1. Cardinality({q \in some : Precedes(q, r)}) < 1 /\ r \in some
      BY <1>3, <1>5, FS_EmptySet
    <2>2. QED
      BY <2>1, Zenon DEF Foremost
  <1>7. Foremost(some, 1) \subseteq some
    BY DEF Foremost
  <1>8. QED
    BY <1>6, <1>7

LEMMA OfAllDevices ==
    ASSUME TableOK, NEW r \in Temperatures(table), r.device = Cpu
    PROVE  Foremost(Temperatures(table), 4) # {}
  <1> DEFINE heats == Temperatures(table)
  <1>1. \A q \in heats : ~Precedes(q, r)
    <2> TAKE q \in heats
    <2>1. q.device \in {Cpu, Gpu, Ssd, Probe}
      BY HeatIs
    <2>2. /\ q.device[1] \in {"cpu", "gpu", "ssd", "temperature"} /\ q.device[2] = 0
          /\ r.device[1] = "cpu" /\ r.device[2] = 0
      BY <2>1 DEF Cpu, Gpu, Ssd, Probe
    <2>3. QED
      BY <2>2, PrecedesIs, TypesRank
  <1> HIDE DEF heats
  <1>2. {q \in heats : Precedes(q, r)} = {}
    BY <1>1
  <1>3. r \in Foremost(heats, 4)
    BY <1>2, FS_EmptySet DEF Foremost, heats
  <1>4. QED
    BY <1>3 DEF heats

\* What is suggested: for the card, for the processor, and for both.
LEMMA SuggestedAre ==
    ASSUME TableOK
    PROVE  /\ SuggestFor(table) \in Seq(Suggestible)
           /\ SuggestionsFit(table)
  <1> DEFINE heats == Temperatures(table)
             outs == Targets(table)
             Of(type) == {s \in heats : s.device[1] = type}
             Each(type, curve, n) ==
                IF Of(type) = {} THEN <<>>
                ELSE <<NewRule(Foremost(Of(type), 1), Entry(outs, n), curve)>>
             forCard == Each("gpu", CardCurve, 1)
             forProcessor == Each("cpu", ProcessorCurve, 2)
             forBoth == IF Of("gpu") # {} /\ Of("cpu") # {}
                        THEN <<NewRule(Foremost(heats, 4), Entry(outs, 1), CardCurve)>> ELSE <<>>
  <1>1. SuggestFor(table) = IF heats = {} \/ outs = {} THEN <<>>
                            ELSE (forCard \o forProcessor) \o forBoth
    BY DEF SuggestFor
  <1>2. CASE heats = {} \/ outs = {}
    <2>1. SuggestFor(table) = <<>>
      BY <1>1, <1>2
    <2>2. QED
      BY <2>1 DEF SuggestionsFit
  <1>3. CASE heats # {} /\ outs # {}
    <2>1. Entry(outs, 1) \in outs /\ Entry(outs, 2) \in outs
      BY <1>3, ATarget
    <2>2. Gpu[1] = "gpu" /\ Cpu[1] = "cpu"
      BY DEF Gpu, Cpu
    <2>3. Of("gpu") # {} => Foremost(Of("gpu"), 1) \in (SUBSET heats) \ {{}}
      BY <2>2, OfOneDevice
    <2>4. Of("cpu") # {} => Foremost(Of("cpu"), 1) \in (SUBSET heats) \ {{}}
      BY <2>2, OfOneDevice
    <2>5. Of("cpu") # {} => Foremost(heats, 4) \in (SUBSET heats) \ {{}}
      <3>1. ASSUME NEW r \in Of("cpu") PROVE r \in heats /\ r.device = Cpu
        BY <3>1, HeatIs DEF Cpu, Gpu, Ssd, Probe
      <3>2. Foremost(heats, 4) \subseteq heats
        BY DEF Foremost
      <3>3. QED
        BY <3>1, <3>2, OfAllDevices
    <2>6. /\ Of("gpu") # {} => NewRule(Foremost(Of("gpu"), 1), Entry(outs, 1), CardCurve) \in Suggestible
          /\ Of("cpu") # {} =>
                /\ NewRule(Foremost(Of("cpu"), 1), Entry(outs, 2), ProcessorCurve) \in Suggestible
                /\ NewRule(Foremost(heats, 4), Entry(outs, 1), CardCurve) \in Suggestible
      <3>1. \A S \in (SUBSET heats) \ {{}} : \A t \in outs :
               \A curve \in {CardCurve, ProcessorCurve} : NewRule(S, t, curve) \in Suggestible
        <4> SUFFICES ASSUME NEW S \in (SUBSET heats) \ {{}}, NEW t \in outs,
                            NEW curve \in {CardCurve, ProcessorCurve}
                     PROVE  NewRule(S, t, curve) \in Suggestible
          BY Zenon
        <4>1. QED
          BY DEF Suggestible
      <3>2. CardCurve \in {CardCurve, ProcessorCurve} /\ ProcessorCurve \in {CardCurve, ProcessorCurve}
        OBVIOUS
      <3>3. QED
        BY <2>1, <2>3, <2>4, <2>5, <3>1, <3>2, Zenon
    <2>7. forCard \in Seq(Suggestible) /\ Len(forCard) <= 1
      BY <2>6
    <2>8. forProcessor \in Seq(Suggestible) /\ Len(forProcessor) <= 1
      BY <2>6
    <2>9. forBoth \in Seq(Suggestible) /\ Len(forBoth) <= 1
      BY <2>6
    <2>10. Len(forCard) = 1 /\ Len(forProcessor) = 1 =>
              /\ forCard[1].target = Entry(outs, 1)
              /\ forProcessor[1].target = Entry(outs, 2)
      BY DEF NewRule
    <2>11. SuggestFor(table) = (forCard \o forProcessor) \o forBoth
      BY <1>1, <1>3, Zenon
    <2> HIDE DEF forCard, forProcessor, forBoth, outs
    <2> DEFINE all == SuggestFor(table)
               pair == forCard \o forProcessor
    <2>12. /\ pair \in Seq(Suggestible) /\ Len(pair) = Len(forCard) + Len(forProcessor)
           /\ \A i \in 1 .. Len(forCard) + Len(forProcessor) :
                 pair[i] = IF i <= Len(forCard) THEN forCard[i] ELSE forProcessor[i - Len(forCard)]
      BY <2>7, <2>8, ConcatProperties
    <2>13. /\ pair \o forBoth \in Seq(Suggestible)
           /\ Len(pair \o forBoth) = Len(pair) + Len(forBoth)
           /\ \A i \in 1 .. Len(pair) + Len(forBoth) :
                 (pair \o forBoth)[i] = IF i <= Len(pair) THEN pair[i] ELSE forBoth[i - Len(pair)]
      BY <2>9, <2>12, ConcatProperties
    <2>14. all = pair \o forBoth
      BY <2>11
    <2> HIDE DEF pair, all
    <2>15. all \in Seq(Suggestible)
      BY <2>13, <2>14
    <2>16. \A k \in DOMAIN all : CheckRule(table, all[k]).errors = {}
      <3>1. \A k \in DOMAIN all : all[k] \in Suggestible
        BY <2>15
      <3>2. QED
        BY <3>1, SuggestibleFits
    <2>17. ASSUME Len(all) = 3, Cardinality(outs) > 1 PROVE all[1].target # all[2].target
      <3>1. Len(forCard) \in Nat /\ Len(forProcessor) \in Nat /\ Len(forBoth) \in Nat
        BY <2>7, <2>8, <2>9
      <3>2. Len(forCard) = 1 /\ Len(forProcessor) = 1 /\ Len(forBoth) = 1
        <4>1. Len(all) = Len(pair) + Len(forBoth)
          BY <2>13, <2>14, Zenon
        <4>2. Len(pair) = Len(forCard) + Len(forProcessor)
          BY <2>12
        <4>3. Len(forCard) <= 1 /\ Len(forProcessor) <= 1 /\ Len(forBoth) <= 1 /\ Len(all) = 3
          BY <2>7, <2>8, <2>9, <2>17
        <4>4. QED
          BY <3>1, <4>1, <4>2, <4>3
      <3>3. all[1] = pair[1] /\ all[2] = pair[2]
        BY <2>12, <2>13, <2>14, <3>2
      <3>4. pair[1] = forCard[1] /\ pair[2] = forProcessor[1]
        BY <2>12, <3>2
      <3>5. Entry(outs, 1) # Entry(outs, 2)
        BY <2>17, TwoTargets DEF outs
      <3>6. QED
        BY <2>10, <3>2, <3>3, <3>4, <3>5
    <2>18. QED
      BY <2>15, <2>16, <2>17 DEF SuggestionsFit, all, outs
  <1>4. QED
    BY <1>2, <1>3

-----------------------------------------------------------------------------
(* Whatever happens to the simulated machine, MockInv *)

LEMMA MockStarts == MockInit => MockInv
  <1> SUFFICES ASSUME MockInit PROVE MockInv
    OBVIOUS
  <1>1. MaxFans \in Nat /\ MaxPumps \in Nat /\ MaxMoves \in Nat
    BY MockAssumption
  <1>2. conf = [fans |-> MaxFans, pumps |-> MaxPumps, locked |-> FALSE, ambient |-> 25,
                load |-> [kind |-> "constant", load |-> 5], faults |-> NoFaults, pinned |-> <<>>]
    BY DEF MockInit
  <1>3. ConfOK
    <2>1. [kind |-> "constant", load |-> 5] \in Loads /\ <<>> \in Pins
          /\ NoFaults \in Faults \cup {NoFaults}
      BY DEF Loads, Pins
    <2>2. QED
      BY <1>1, <1>2, <2>1 DEF ConfOK
  <1>4. conf.fans = MaxFans /\ conf.pumps = MaxPumps
    BY <1>2
  <1>5. SlotsOK
    <2> DEFINE fan == Resized(<<>>, conf.fans, InitialDuty)
               pump == Resized(<<>>, conf.pumps, Max({InitialDuty, PumpFloor}))
    <2>1. /\ conf.fans \in Nat /\ conf.pumps \in Nat /\ InitialDuty \in 0 .. 100
          /\ Max({InitialDuty, PumpFloor}) \in PumpFloor .. 100
      BY <1>1, <1>4, PumpStart
    <2>2. fan \in [1 .. conf.fans -> 0 .. 100]
      BY <2>1, RoomForAll, Zenon
    <2>3. pump \in [1 .. conf.pumps -> PumpFloor .. 100]
      BY <2>1, RoomForAll, Zenon
    <2>4. slots = [fan |-> fan, pump |-> pump, gpu |-> InitialDuty]
      BY DEF MockInit, NewSlots
    <2>5. InitialDuty \in 0 .. 100
      BY PumpStart
    <2> HIDE DEF fan, pump
    <2>6. QED
      BY <2>2, <2>3, <2>4, <2>5 DEF SlotsOK
  <1>6. HeatOK
    BY DEF MockInit, HeatOK
  <1>7. TableOK
    BY <1>1, <1>4 DEF MockInit, TableOK, Machine
  <1>8. ReplyOK /\ BoundOK
    BY DEF MockInit, NothingSaid, ReplyOK, BoundOK
  <1>9. QED
    BY <1>1, <1>3, <1>5, <1>6, <1>7, <1>8 DEF MockInv, MockInit

LEMMA MockWriteKeeps ==
    ASSUME MockInv, NEW x \in Requests, MockWrite(x)
    PROVE  MockInv'
  <1> DEFINE ref == bound.target
             capability == Resolved(table, ref)
             given == ClampTo(capability, x)
             d == ref.device
  <1>1. UNCHANGED <<conf, heat, table, bound, fit, moves>> /\ bound # Unset
    BY DEF MockWrite
  <1>2. ConfOK' /\ HeatOK' /\ TableOK' /\ BoundOK' /\ moves' \in 0 .. MaxMoves
    BY <1>1 DEF MockInv, ConfOK, HeatOK, TableOK, BoundOK
  <1>3. CASE ~Drivable(table, ref)
    <2>1. reply' = Said("unresolved", ref, 0) /\ slots' = slots
      BY <1>3 DEF MockWrite
    <2>2. ~fit
      <3>1. fit => Errors(table, bound) = {}
        BY <1>1 DEF MockInv, BoundOK, CheckRule
      <3>2. "target" \in Errors(table, bound)
        BY <1>3 DEF Errors
      <3>3. QED
        BY <3>1, <3>2
    <2>3. SlotsOK'
      BY <1>1, <2>1 DEF MockInv, SlotsOK
    <2>4. ReplyOK'
      BY <1>1, <2>1, <2>2 DEF ReplyOK, Said
    <2>5. QED
      BY <1>2, <2>3, <2>4 DEF MockInv
  <1>4. CASE Drivable(table, ref) /\ (~Accepts(ref, capability, x) \/ ~HasSlot(d))
    <2>1. reply' = Said("refused", ref, 0) /\ slots' = slots
      BY <1>4 DEF MockWrite
    <2>2. SlotsOK'
      BY <1>1, <2>1 DEF MockInv, SlotsOK
    <2>3. ReplyOK'
      BY <2>1 DEF ReplyOK, Said
    <2>4. QED
      BY <1>2, <2>2, <2>3 DEF MockInv
  <1>5. CASE Drivable(table, ref) /\ Accepts(ref, capability, x) /\ HasSlot(d)
    <2>1. slots' = Driven(d, given)
          /\ reply' = Said(IF ref \in conf.faults.unconfirmed THEN "unconfirmed" ELSE "simulated",
                           ref, given)
      BY <1>5 DEF MockWrite
    <2>2. Output(ref, capability)
      BY <1>5, DrivableIs DEF MockInv
    <2>3. x \in Int /\ Unset \notin Int
      BY MockAssumption
    <2>4. PumpFloor = 60
      BY PumpStart
    <2>5. conf.fans \in Nat /\ conf.pumps \in Nat
      BY DEF MockInv, ConfOK
    <2>6. /\ slots \in [fan : [1 .. conf.fans -> 0 .. 100], pump : [1 .. conf.pumps -> PumpFloor .. 100],
                        gpu : 0 .. 100]
      BY DEF MockInv, SlotsOK
    <2>7. \A low \in {0, 60} : capability = Actuator("percent", low, 100) => given \in low .. 100
      BY <2>3 DEF ClampTo, Low, High, Actuator, Bounded
    <2> DEFINE SlotsFit == slots' \in [fan : [1 .. conf.fans -> 0 .. 100],
                                       pump : [1 .. conf.pumps -> PumpFloor .. 100], gpu : 0 .. 100]
               Shown == /\ d = Gpu => slots'.gpu = given
                        /\ d # Gpu =>
                              /\ d[1] \in {"fan", "pump"} /\ d[2] \in Nat
                              /\ d[1] = "fan" =>
                                    d[2] + 1 \in DOMAIN slots'.fan /\ slots'.fan[d[2] + 1] = given
                              /\ d[1] = "pump" =>
                                    d[2] + 1 \in DOMAIN slots'.pump /\ slots'.pump[d[2] + 1] = given
    <2> HIDE DEF given, capability
    <2>8. ASSUME d = Gpu, capability = Actuator("percent", 0, 100) PROVE SlotsFit /\ Shown
      <3>1. slots' = [slots EXCEPT !.gpu = given]
        BY <2>1, <2>8 DEF Driven, Gpu
      <3>2. given \in 0 .. 100
        BY <2>7, <2>8
      <3>3. QED
        BY <2>6, <2>8, <3>1, <3>2
    <2>9. ASSUME NEW i \in Nat, d = FanNo(i), capability = Actuator("percent", 0, 100)
          PROVE  SlotsFit /\ Shown
      <3>1. d # Gpu /\ d[1] = "fan" /\ d[2] = i
        BY <2>9 DEF Gpu, FanNo
      <3>2. i + 1 \in 1 .. conf.fans
        <4>1. i < Len(slots.fan) /\ slots.fan \in [1 .. conf.fans -> 0 .. 100]
          BY <1>5, <2>6, <3>1 DEF HasSlot
        <4>2. QED
          BY <2>5, <4>1
      <3>3. slots' = [slots EXCEPT !.fan = [slots.fan EXCEPT ![i + 1] = given]]
        BY <2>1, <3>1 DEF Driven
      <3>4. given \in 0 .. 100
        BY <2>7, <2>9
      <3>5. [slots.fan EXCEPT ![i + 1] = given] \in [1 .. conf.fans -> 0 .. 100]
            /\ [slots.fan EXCEPT ![i + 1] = given][i + 1] = given
        BY <2>6, <3>2, <3>4
      <3>6. QED
        BY <2>6, <3>1, <3>2, <3>3, <3>5
    <2>10. ASSUME NEW i \in Nat, d = PumpNo(i), capability = Actuator("percent", PumpFloor, 100)
           PROVE  SlotsFit /\ Shown
      <3>1. d # Gpu /\ d[1] = "pump" /\ d[2] = i
        BY <2>10 DEF Gpu, PumpNo
      <3>2. i + 1 \in 1 .. conf.pumps
        <4>1. i < Len(slots.pump) /\ slots.pump \in [1 .. conf.pumps -> PumpFloor .. 100]
          BY <1>5, <2>6, <3>1 DEF HasSlot
        <4>2. QED
          BY <2>5, <4>1
      <3>3. slots' = [slots EXCEPT !.pump = [slots.pump EXCEPT ![i + 1] = given]]
        BY <2>1, <3>1 DEF Driven
      <3>4. given \in PumpFloor .. 100
        BY <2>4, <2>7, <2>10
      <3>5. [slots.pump EXCEPT ![i + 1] = given] \in [1 .. conf.pumps -> PumpFloor .. 100]
            /\ [slots.pump EXCEPT ![i + 1] = given][i + 1] = given
        BY <2>6, <3>2, <3>4
      <3>6. QED
        BY <2>6, <3>1, <3>2, <3>3, <3>5
    <2>11. SlotsFit /\ Shown
      BY <2>2, <2>8, <2>9, <2>10 DEF Output
    <2>12. SlotsOK'
      BY <1>1, <2>11 DEF SlotsOK
    <2>13. reply'.ref = ref /\ reply'.duty = given /\ reply'.answer # "unresolved"
      BY <2>1 DEF Said
    <2>14. ref.name = "speed"
      BY <2>2 DEF Output
    <2>15. ReplyOK'
      BY <2>11, <2>13, <2>14 DEF ReplyOK, Holds
    <2>16. QED
      BY <1>2, <2>12, <2>15 DEF MockInv
  <1>6. QED
    BY <1>3, <1>4, <1>5

LEMMA DiscoverKeeps == MockInv /\ MockDiscover => MockInv'
  <1> SUFFICES ASSUME MockInv, MockDiscover PROVE MockInv'
    OBVIOUS
  <1>1. table' = Discovered(conf) /\ fit' = FALSE
        /\ UNCHANGED <<conf, slots, heat, bound, reply, moves>>
    BY DEF MockDiscover
  <1>2. Machine(conf)
    BY MockAssumption DEF MockInv, ConfOK, Machine
  <1>3. TableOK'
    <2>1. Machine(conf)' /\ table' = Discovered(conf)'
      BY <1>1, <1>2 DEF Machine, Discovered, Described
    <2>2. QED
      BY <2>1 DEF TableOK
  <1>4. ConfOK' /\ SlotsOK' /\ HeatOK' /\ moves' \in 0 .. MaxMoves
    BY <1>1 DEF MockInv, ConfOK, SlotsOK, HeatOK
  <1>5. ReplyOK' /\ BoundOK'
    BY <1>1 DEF MockInv, ReplyOK, BoundOK, Holds
  <1>6. QED
    BY <1>3, <1>4, <1>5 DEF MockInv

LEMMA TickKeeps ==
    ASSUME MockInv, NEW dt \in Steps, MockTick(dt)
    PROVE  MockInv'
  <1>1. PICK g, p \in LoadsAt(conf.load, heat.time + dt) :
           heat' = IF dt = 0 THEN heat ELSE Warmed(slots, g, p, dt)
    BY DEF MockTick
  <1>2. moves < MaxMoves /\ moves' = moves + 1
        /\ UNCHANGED <<conf, slots, table, bound, reply, fit>>
    BY DEF MockTick
  <1>3. dt \in Nat /\ MaxMoves \in Nat /\ moves \in 0 .. MaxMoves
    BY MockAssumption DEF MockInv
  <1>4. g \in 0 .. 100 /\ p \in 0 .. 100
    BY LoadsAre DEF MockInv, ConfOK
  <1>5. HeatOK'
    <2>1. CASE dt = 0
      BY <1>1, <2>1 DEF MockInv, HeatOK
    <2>2. CASE dt # 0
      BY <1>1, <1>3, <1>4, <2>2, Warms DEF MockInv, HeatOK
    <2>3. QED
      BY <2>1, <2>2
  <1>6. moves' \in 0 .. MaxMoves
    BY <1>2, <1>3
  <1>7. ConfOK' /\ SlotsOK' /\ TableOK'
    BY <1>2 DEF MockInv, ConfOK, SlotsOK, TableOK
  <1>8. ReplyOK' /\ BoundOK'
    BY <1>2 DEF MockInv, ReplyOK, BoundOK, Holds
  <1>9. QED
    BY <1>5, <1>6, <1>7, <1>8 DEF MockInv

LEMMA UpdateKeeps == MockInv /\ MockUpdate => MockInv'
  <1> SUFFICES ASSUME MockInv, MockUpdate PROVE MockInv'
    OBVIOUS
  <1> DEFINE fan == Resized(slots.fan, conf'.fans, InitialDuty)
             pump == Resized(slots.pump, conf'.pumps, Max({InitialDuty, PumpFloor}))
  <1>1. /\ moves < MaxMoves /\ moves' = moves + 1 /\ conf' \in Reconfigured
        /\ slots' = [slots EXCEPT !.fan = fan, !.pump = pump]
        /\ reply' = NothingSaid /\ UNCHANGED <<heat, table, bound, fit>>
    BY DEF MockUpdate
  <1>2. ConfOK'
    <2>1. conf \in [fans : 0 .. MaxFans, pumps : 0 .. MaxPumps, locked : BOOLEAN, ambient : Int,
                    load : Loads, faults : Faults \cup {NoFaults}, pinned : Pins]
      BY DEF MockInv, ConfOK
    <2>2. Profiles \subseteq Loads /\ Ambients \subseteq Int
      BY MockAssumption DEF Loads
    <2>3. ASSUME NEW n \in 0 .. MaxFans, conf' = [conf EXCEPT !.fans = n] PROVE ConfOK'
      BY <2>1, <2>3 DEF ConfOK
    <2>4. ASSUME NEW n \in 0 .. MaxPumps, conf' = [conf EXCEPT !.pumps = n] PROVE ConfOK'
      BY <2>1, <2>4 DEF ConfOK
    <2>5. ASSUME conf' = [conf EXCEPT !.locked = ~@] PROVE ConfOK'
      <3>1. conf.locked = TRUE \/ conf.locked = FALSE
        BY <2>1
      <3>2. (~conf.locked) = TRUE \/ (~conf.locked) = FALSE
        BY <3>1, Zenon
      <3>3. CASE (~conf.locked) = TRUE
        <4>1. conf' = [conf EXCEPT !.locked = TRUE]
          BY <2>5, <3>3, Zenon
        <4>2. QED
          BY <2>1, <4>1 DEF ConfOK
      <3>4. CASE (~conf.locked) = FALSE
        <4>1. conf' = [conf EXCEPT !.locked = FALSE]
          BY <2>5, <3>4, Zenon
        <4>2. QED
          BY <2>1, <4>1 DEF ConfOK
      <3>5. QED
        BY <3>2, <3>3, <3>4, Zenon
    <2>6. ASSUME NEW a \in Ambients, conf' = [conf EXCEPT !.ambient = a] PROVE ConfOK'
      BY <2>1, <2>2, <2>6 DEF ConfOK
    <2>7. ASSUME NEW profile \in Profiles, conf' = [conf EXCEPT !.load = profile] PROVE ConfOK'
      BY <2>1, <2>2, <2>7 DEF ConfOK
    <2>8. ASSUME NEW broken \in Faults \cup {NoFaults}, conf' = [conf EXCEPT !.faults = broken]
          PROVE  ConfOK'
      BY <2>1, <2>8 DEF ConfOK
    <2>9. ASSUME NEW pin \in Pins, conf' = [conf EXCEPT !.pinned = pin] PROVE ConfOK'
      BY <2>1, <2>9 DEF ConfOK
    <2>10. QED
      BY <1>1, <2>3, <2>4, <2>5, <2>6, <2>7, <2>8, <2>9, Zenon DEF Reconfigured, Pins
  <1>3. SlotsOK'
    <2>1. /\ conf'.fans \in Nat /\ conf'.pumps \in Nat /\ conf.fans \in Nat /\ conf.pumps \in Nat
      BY <1>2, MockAssumption DEF MockInv, ConfOK
    <2>2. /\ slots \in [fan : [1 .. conf.fans -> 0 .. 100], pump : [1 .. conf.pumps -> PumpFloor .. 100],
                        gpu : 0 .. 100]
      BY DEF MockInv, SlotsOK
    <2>3. InitialDuty \in 0 .. 100 /\ Max({InitialDuty, PumpFloor}) \in PumpFloor .. 100
      BY PumpStart
    <2>4. slots.fan \in [1 .. conf.fans -> 0 .. 100] /\ slots.pump \in [1 .. conf.pumps -> PumpFloor .. 100]
      BY <2>2
    <2>5. fan \in [1 .. conf'.fans -> 0 .. 100]
      BY <2>1, <2>3, <2>4, RoomFor, Zenon
    <2>6. pump \in [1 .. conf'.pumps -> PumpFloor .. 100]
      BY <2>1, <2>3, <2>4, RoomFor, Zenon
    <2> HIDE DEF fan, pump
    <2>7. QED
      BY <1>1, <2>2, <2>5, <2>6 DEF SlotsOK
  <1>4. HeatOK' /\ TableOK' /\ BoundOK'
    BY <1>1 DEF MockInv, HeatOK, TableOK, BoundOK
  <1>5. ReplyOK'
    BY <1>1 DEF ReplyOK, NothingSaid
  <1>6. moves' \in 0 .. MaxMoves
    BY <1>1, MockAssumption DEF MockInv
  <1>7. QED
    BY <1>2, <1>3, <1>4, <1>5, <1>6 DEF MockInv

\* What is saved was checked, and can be read back as a rule.
LEMMA SaveKeeps ==
    ASSUME MockInv, NEW draft, "curve" \in DOMAIN draft, List(draft.curve), MockSave(draft)
    PROVE  MockInv'
  <1> DEFINE errors == CheckRule(table, draft).errors
  <1>1. /\ bound' = IF errors = {} THEN draft ELSE bound
        /\ fit' = IF errors = {} THEN TRUE ELSE fit
        /\ reply' = Said(IF errors = {} THEN "saved" ELSE "invalid", Unset, 0)
        /\ UNCHANGED <<conf, slots, heat, table, moves>>
    BY DEF MockSave
  <1>2. ConfOK' /\ SlotsOK' /\ HeatOK' /\ TableOK' /\ moves' \in 0 .. MaxMoves
    BY <1>1 DEF MockInv, ConfOK, SlotsOK, HeatOK, TableOK
  <1>3. ReplyOK'
    BY <1>1 DEF ReplyOK, Said
  <1>4. BoundOK'
    <2>1. CASE errors = {}
      BY <1>1, <2>1 DEF BoundOK
    <2>2. CASE errors # {}
      BY <1>1, <2>2 DEF MockInv, BoundOK
    <2>3. QED
      BY <2>1, <2>2
  <1>5. QED
    BY <1>2, <1>3, <1>4 DEF MockInv

LEMMA ExampleKeeps == MockInv /\ MockExample => MockInv'
  <1> SUFFICES ASSUME MockInv, MockExample PROVE MockInv'
    OBVIOUS
  <1> DEFINE shipped == Shipped(Ref(Gpu, "temperature"), Ref(FanNo(0), "speed"))
  <1>1. PICK made \in FirstRule(table, shipped) : MockSave(made)
    BY DEF MockExample
  <1>2. "curve" \in DOMAIN made /\ List(made.curve)
    <2>1. CASE made = shipped
      <3>1. made.curve = CardCurve /\ "curve" \in DOMAIN made
        BY <2>1 DEF Shipped, NewRule
      <3>2. QED
        BY <3>1, CurvesAreFine
    <2>2. CASE \E k \in DOMAIN SuggestFor(table) : made = SuggestFor(table)[k]
      <3>1. made \in Suggestible
        BY <2>2, SuggestedAre DEF MockInv
      <3>2. QED
        BY <3>1, SuggestibleFits DEF MockInv
    <2>3. QED
      BY <2>1, <2>2 DEF FirstRule
  <1>3. QED
    BY <1>1, <1>2, SaveKeeps

LEMMA MockStep == MockInv /\ [MockNext]_mock => MockInv'
  <1> SUFFICES ASSUME MockInv, [MockNext]_mock PROVE MockInv'
    OBVIOUS
  <1>1. ASSUME NEW draft \in Rebound, MockSave(draft) PROVE MockInv'
    <2>1. CASE draft \in MockDrafts
      <3>1. Parsed(draft)
        BY <2>1, MockAssumption
      <3>2. "curve" \in DOMAIN draft /\ List(draft.curve)
        BY <3>1 DEF Parsed, List
      <3>3. QED
        BY <1>1, <3>2, SaveKeeps
    <2>2. CASE bound # Unset /\ draft = [bound EXCEPT !.enabled = ~@]
      <3>1. "curve" \in DOMAIN bound /\ List(bound.curve)
        BY <2>2 DEF MockInv, BoundOK
      <3>2. DOMAIN draft = DOMAIN bound /\ draft.curve = bound.curve
        BY <2>2, <3>1
      <3>3. QED
        BY <1>1, <3>1, <3>2, SaveKeeps
    <2>3. QED
      BY <2>1, <2>2 DEF Rebound
  <1>2. CASE UNCHANGED mock
    BY <1>2 DEF mock, MockInv, ConfOK, SlotsOK, HeatOK, TableOK, ReplyOK, BoundOK, Holds
  <1>3. QED
    BY <1>1, <1>2, MockWriteKeeps, ExampleKeeps, DiscoverKeeps, UpdateKeeps, TickKeeps DEF MockNext

-----------------------------------------------------------------------------
(* What MockInv says of the simulated machine *)

LEMMA MockIsTyped == MockInv => MockTypeOK
  <1> SUFFICES ASSUME MockInv PROVE MockTypeOK
    OBVIOUS
  <1>1. conf.fans \in Nat /\ conf.pumps \in Nat
    BY MockAssumption DEF MockInv, ConfOK
  <1>2. slots.fan \in [1 .. conf.fans -> 0 .. 100] /\ slots.pump \in [1 .. conf.pumps -> PumpFloor .. 100]
        /\ slots.gpu \in 0 .. 100
    BY DEF MockInv, SlotsOK
  <1>3. Len(slots.fan) = conf.fans /\ Len(slots.pump) = conf.pumps
    BY <1>1, <1>2
  <1>4. QED
    BY <1>2, <1>3 DEF MockInv, MockTypeOK

LEMMA WritesAreShown == MockInv => WritesReadBack
  <1> SUFFICES ASSUME MockInv, reply.answer = "simulated"
               PROVE  Reading(reply.ref.device, reply.ref.name) \in {reply.duty, Unset}
    BY DEF WritesReadBack
  <1> DEFINE d == reply.ref.device
  <1>1. reply.ref.name = "speed" /\ Holds(d, reply.duty)
    BY DEF MockInv, ReplyOK
  <1>2. Ref(d, "speed") \notin DOMAIN conf.pinned
    <2>1. DOMAIN conf.pinned \subseteq {Ref(Gpu, "temperature")}
      BY DEF MockInv, ConfOK, Pins
    <2>2. Ref(d, "speed") # Ref(Gpu, "temperature")
      BY DEF Ref
    <2>3. QED
      BY <2>1, <2>2
  <1>3. Measured(d, "speed") = reply.duty
    <2>1. CASE d = Gpu
      BY <1>1, <2>1 DEF Measured, Holds, Gpu
    <2>2. CASE d # Gpu /\ d[1] = "fan"
      BY <1>1, <2>2 DEF Measured, Holds, DutyAt
    <2>3. CASE d # Gpu /\ d[1] = "pump"
      BY <1>1, <2>3 DEF Measured, Holds, DutyAt
    <2>4. QED
      BY <1>1, <2>1, <2>2, <2>3 DEF Holds
  <1>4. QED
    BY <1>1, <1>2, <1>3 DEF Reading

\* A curve stays between the ends of its points, which the range was compared with.
LEMMA CurveFits ==
    ASSUME NEW curve, List(curve), ValidCurve(curve), NEW x \in 0 .. 100
    PROVE  /\ CurveAt(curve, x) \in Int
           /\ Min(Outputs(curve)) \in Int /\ Max(Outputs(curve)) \in Int
           /\ Min(Outputs(curve)) <= CurveAt(curve, x) /\ CurveAt(curve, x) <= Max(Outputs(curve))
  <1> DEFINE outputs == Outputs(curve)
             n == Len(curve)
             y == CurveAt(curve, x)
             h == [k \in 1 .. n |-> curve[k].output]
  <1>1. n \in Nat /\ n >= 2 /\ DOMAIN curve = 1 .. n
        /\ \A k \in 1 .. n : curve[k].output \in Int
    BY DEF List, ValidCurve
  <1>2. outputs = {h[k] : k \in 1 .. n}
    BY <1>1 DEF Outputs
  <1>3. IsFiniteSet(outputs)
    <2>1. IsFiniteSet(1 .. n) /\ DOMAIN h = 1 .. n
      BY <1>1, FS_Interval
    <2> HIDE DEF h, n, outputs
    <2>2. QED
      BY <1>2, <2>1, ImageIsFinite, ZenonT(30)
  <1>4. outputs \subseteq Int /\ outputs # {}
    BY <1>1 DEF Outputs
  <1>5. y \in Int /\ \E k, m \in DOMAIN curve : Between(curve, x, k, m)
    BY CurveBetween
  <1>6. PICK k, m \in DOMAIN curve : Between(curve, x, k, m)
    BY <1>5
  <1>7. curve[k].output \in outputs /\ curve[m].output \in outputs
    BY DEF Outputs
  <1> DEFINE two == {curve[k].output, curve[m].output}
  <1>8. y \in Min(two) .. Max(two)
    BY <1>6 DEF Between
  <1>9. IsFiniteSet(two) /\ two \subseteq Int /\ two # {} /\ two \subseteq outputs
    <2>1. two = {curve[k].output} \cup {curve[m].output}
      OBVIOUS
    <2>2. IsFiniteSet({curve[k].output}) /\ IsFiniteSet({curve[m].output})
      BY FS_Singleton, Zenon
    <2>3. IsFiniteSet(two)
      BY <2>1, <2>2, FS_Union, ZenonT(30)
    <2>4. QED
      BY <1>4, <1>7, <2>3
  <1> HIDE DEF outputs, two, y
  <1>10. Min(two) \in outputs /\ Max(two) \in outputs
    BY <1>9, EndsType
  <1>11. /\ Max(outputs) \in outputs /\ Min(outputs) \in outputs
         /\ \A z \in outputs : Max(outputs) >= z /\ Min(outputs) <= z
    BY <1>3, <1>4, EndsType
  <1>12. Min(outputs) \in Int /\ Max(outputs) \in Int /\ Min(two) \in Int /\ Max(two) \in Int
    BY <1>4, <1>10, <1>11
  <1>13. Min(outputs) <= y /\ y <= Max(outputs)
    BY <1>5, <1>8, <1>10, <1>11, <1>12
  <1>14. QED
    BY <1>5, <1>12, <1>13 DEF outputs, y

LEMMA RulesRun == MockInv => CheckedRulesRun
  <1> SUFFICES ASSUME MockInv PROVE CheckedRulesRun
    OBVIOUS
  <1>1. reply.answer = "unresolved" => ~fit
    BY DEF MockInv, ReplyOK
  <1>2. ASSUME bound # Unset, fit, "range" \notin CheckRule(table, bound).warnings, NEW x \in 0 .. 100
        PROVE  CurveAt(bound.curve, x) = ClampTo(Resolved(table, bound.target), CurveAt(bound.curve, x))
    <2> DEFINE y == CurveAt(bound.curve, x)
               capability == Resolved(table, bound.target)
    <2>1. List(bound.curve) /\ Errors(table, bound) = {}
      BY <1>2 DEF MockInv, BoundOK, CheckRule
    <2>2. ValidRule(bound) /\ Drivable(table, bound.target)
      <3>1. "rule" \notin Errors(table, bound) /\ "target" \notin Errors(table, bound)
        BY <2>1
      <3>2. QED
        BY <3>1 DEF Errors
    <2>3. /\ y \in Int
          /\ Min(Outputs(bound.curve)) \in Int /\ Max(Outputs(bound.curve)) \in Int
          /\ Min(Outputs(bound.curve)) <= y /\ y <= Max(Outputs(bound.curve))
      BY <2>1, <2>2, CurveFits DEF ValidRule
    <2>4. PICK low \in {0, 60} : capability = Actuator("percent", low, 100)
      BY <2>2, DrivableIs, PumpStart DEF MockInv, Output
    <2>5. "range" \notin TargetWarnings(table, bound)
      BY <1>2 DEF CheckRule
    <2>6. InTable(table, bound.target)
      BY <2>2 DEF Drivable
    <2>7. Unset \notin Int
      BY MockAssumption
    <2>8. Low(capability, 0) = low /\ High(capability, 100) = 100
          /\ Low(capability, y) = low /\ High(capability, y) = 100
      BY <2>4, <2>7 DEF Actuator, Low, High
    <2>9. ~(Min(Outputs(bound.curve)) < low \/ Max(Outputs(bound.curve)) > 100)
      BY <2>5, <2>6, <2>8, Zenon DEF TargetWarnings
    <2> HIDE DEF y, capability
    <2>10. y = ClampTo(capability, y)
      BY <2>3, <2>4, <2>8, <2>9 DEF ClampTo, Bounded
    <2>11. QED
      BY <2>10 DEF y, capability
  <1>3. QED
    BY <1>1, <1>2 DEF CheckedRulesRun

LEMMA SimulationStands == MockInv => SimulationIsSound
  <1> SUFFICES ASSUME MockInv PROVE SimulationIsSound
    OBVIOUS
  <1>1. ChassisCoolsTheCard
    <2>1. LoadsAt(conf.load, heat.time) \subseteq 0 .. 100
      BY LoadsAre DEF MockInv, ConfOK
    <2>2. QED
      BY <2>1, ChassisCools DEF MockInv, ChassisCoolsTheCard
  <1>2. SuggestionsFit(table)
    BY SuggestedAre DEF MockInv
  <1>3. QED
    BY <1>1, <1>2, MockIsTyped, WritesAreShown, RulesRun DEF SimulationIsSound

-----------------------------------------------------------------------------
(* The four providers together *)

\* AccessIsSound, for any chips, boards, simulated machines, rules and zones:
\* each provider keeps its type, no file of an unconfirmed channel is written, a
\* simulated write is what the next reading shows and stays within the range of
\* its output, a rule that was checked finds its target and is not cut by its
\* range, what is suggested passes that check, and more air cools the card.
THEOREM AccessStaysSound == AdaptersSpec => []AccessIsSound
  <1> DEFINE SoundNow == /\ platform \in Platforms /\ Confined /\ LhmTyped /\ MockInv
                      /\ SensorsInv
  <1>1. AdaptersInit => SoundNow
    <2> SUFFICES ASSUME AdaptersInit PROVE SoundNow
      OBVIOUS
    <2>1. HwmonInit /\ LhmInit /\ MockInit /\ SensorsInit /\ platform \in Platforms
      BY DEF AdaptersInit, NoHwmon, NoLhm, NoSensors
    <2>2. Confined
      BY <2>1, InitConfined
    <2>3. Mapped
      BY <2>1, InitMapped
    <2>4. LhmTyped
      BY <2>1, <2>3, Zenon DEF LhmTyped, LhmInit, Idle
    <2>5. QED
      BY <2>1, <2>2, <2>4, MockStarts, SensorsStart
  <1>2. SoundNow /\ [AdaptersNext]_adapterVars => SoundNow'
    <2> SUFFICES ASSUME SoundNow, [AdaptersNext]_adapterVars PROVE SoundNow'
      OBVIOUS
    <2>1. [HwmonNext]_hwmon /\ [LhmNext]_lhm
      BY HwmonMoves, LhmMoves
    <2>2. [MockNext]_mock /\ [SensorsNext]_sensors /\ platform' = platform
      BY DEF AdaptersNext, adapterVars, mock, sensors
    <2>3. Confined' /\ LhmTyped'
      BY <2>1, ConfinedStep, LhmTypedStep
    <2>4. MockInv' /\ SensorsInv'
      BY <2>2, MockStep, SensorsStep
    <2>5. QED
      BY <2>2, <2>3, <2>4
  <1>3. SoundNow => AccessIsSound
    BY LhmTypedIs, MockIsTyped, SimulationStands, InvIsSound
       DEF AccessIsSound, AdaptersTypeOK, Confined
  <1>4. QED
    BY <1>1, <1>2, <1>3, PTL DEF AdaptersSpec
=============================================================================
