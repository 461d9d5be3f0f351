----------------------- MODULE ServiceOwnership_proofs -----------------------
(***************************************************************************)
(* Proofs about the ownership of the state file and of the channel, for    *)
(* any number of services and desktops.                                    *)
(*                                                                         *)
(* The types, RecordIsTrue and HandedBack hold however the processes' file *)
(* operations interleave.  OneClaim and LiveRecordKept hold if a sequence  *)
(* of them is not interrupted by another process's (~Racing), which is     *)
(* what the code relies on and does not enforce.                           *)
(***************************************************************************)
EXTENDS ServiceOwnership, TLAPS

-----------------------------------------------------------------------------
(* Types, and what the records say *)

\* A desktop never touches the file.
Placed ==
    /\ \A d \in Desktops : pc[d] \in {"off", "open", "leaving", "gone"}
    /\ \A p \in Processes : pc[p] = "open" => p \in Desktops

\* Nobody puts the channel into a third mode.
ModeKnown == mode \in {firmware, "manual"}

Inv == TypeOK /\ RecordIsTrue /\ Placed /\ ModeKnown

\* A process that is doing anything at all to the file is a service.
LEMMA FileIsForServices ==
    ASSUME Inv, NEW p \in Processes,
           pc[p] \notin {"off", "open", "leaving", "gone"}
    PROVE  p \in Services
  BY DEF Inv, Placed, Processes

\* What is written to the file.
LEMMA FileTypes ==
    ASSUME NEW p \in Services, NEW was \in Memo
    PROVE  {EmptyFile(p), Record(p, was)}
               \subseteq Contents
  <1>1. 0 \in 0 .. Tolerance + 1 /\ None \in Memo
    BY OwnershipAssumption DEF Memo
  <1>2. TRUE \in BOOLEAN /\ FALSE \in BOOLEAN
    OBVIOUS
  <1>3. EmptyFile(p) \in Contents
    BY <1>1, <1>2, Zenon DEF EmptyFile, Contents
  <1>4. Record(p, was) \in Contents
    BY <1>1, <1>2, Zenon DEF Record, Contents
  <1>5. QED
    BY <1>3, <1>4

LEMMA InitInv == Init => Inv
  <1> SUFFICES ASSUME Init
               PROVE  Inv
    OBVIOUS
  <1>1. TypeOK
    <2>1. /\ file \in {Absent} /\ pc \in [Processes -> Places]
          /\ mode \in Modes /\ firmware \in Originals
      BY DEF Init, Places, Modes
    <2>2. /\ taken \in [Processes -> Memo] /\ adopt \in [Processes -> Memo]
          /\ notice \in [Processes -> Memo]
      BY DEF Init, Memo
    <2>3. /\ stalled \in [Processes -> BOOLEAN] /\ due \in [Processes -> BOOLEAN]
          /\ driving \in [Processes -> BOOLEAN]
          /\ faulted \in BOOLEAN
      BY Zenon DEF Init
    <2>4. QED
      BY <2>1, <2>2, <2>3 DEF TypeOK
  <1>2. RecordIsTrue /\ Placed /\ ModeKnown
    BY DEF Init, RecordIsTrue, Placed, ModeKnown, Processes
  <1>3. QED
    BY <1>1, <1>2 DEF Inv

LEMMA AcquireKeepsInv ==
    ASSUME Inv, NEW p \in Processes, Acquire(p)
    PROVE  Inv'
  <1>1. p \in Services
    BY FileIsForServices DEF Acquire, At, ReadRecord, ProbePath, RemoveAbandoned, CreateNew,
       FillRecord, FillFails
  <1> USE OwnershipAssumption DEF Inv, TypeOK, RecordIsTrue, Placed, ModeKnown, Processes,
          Places, MidFile, Modes, Memo, Contents, history, At, Go
  <1>2. CASE ReadRecord(p)
    BY <1>1, <1>2 DEF ReadRecord, Readable
  <1>3. CASE ProbePath(p)
    BY <1>1, <1>3 DEF ProbePath
  <1>4. CASE RemoveAbandoned(p)
    BY <1>1, <1>4 DEF RemoveAbandoned
  <1>5. CASE CreateNew(p)
    <2>1. EmptyFile(p) \in Contents
      <3> QED
        BY <1>1, FileTypes
    <2>2. EmptyFile(p).taken = None
      BY DEF EmptyFile
    <2>3. QED
      BY <1>1, <1>5, <2>1, <2>2 DEF CreateNew
  <1>6. CASE FillRecord(p)
    BY <1>1, <1>6 DEF FillRecord
  <1>7. CASE FillFails(p)
    BY <1>1, <1>7 DEF FillFails
  <1>8. QED
    BY <1>2, <1>3, <1>4, <1>5, <1>6, <1>7 DEF Acquire

LEMMA BeatKeepsInv ==
    ASSUME Inv, NEW p \in Processes, Beat(p)
    PROVE  Inv'
  <1>1. p \in Services
    BY FileIsForServices DEF Beat, At, CheckOwnership, Publish, PublishFails
  <1>2. notice[p] \in Memo
    BY DEF Inv, TypeOK
  <1>3. Record(p, notice[p]) \in Contents
    BY <1>1, <1>2, FileTypes
  <1>4. Record(p, notice[p]).taken = notice[p]
    BY DEF Record
  <1> USE OwnershipAssumption DEF Inv, TypeOK, RecordIsTrue, Placed, ModeKnown, Processes,
          Places, MidFile, Modes, Memo, history, At, Go
  <1>5. CASE CheckOwnership(p)
    <2>0. \/ pc' = [pc EXCEPT ![p] = "publish"] /\ driving' = driving
          \/ pc' = [pc EXCEPT ![p] = "leaving"] /\ driving' = [driving EXCEPT ![p] = FALSE]
      BY <1>5, Zenon DEF CheckOwnership
    <2>1. /\ notice' \in [Processes -> Memo] /\ stalled' \in [Processes -> BOOLEAN]
          /\ driving' \in [Processes -> BOOLEAN]
      BY <1>5, <2>0 DEF CheckOwnership
    <2>2. /\ pc' \in [Processes -> Places]
          /\ \A q \in Processes : pc'[q] = pc[q] \/ (q = p /\ pc'[q] \in {"publish", "leaving"})
      <3>1. pc \in [Processes -> Places] /\ {"publish", "leaving"} \subseteq Places
        OBVIOUS
      <3>2. PICK x \in {"publish", "leaving"} : pc' = [pc EXCEPT ![p] = x]
        BY <2>0
      <3> HIDE DEF Places
      <3>3. pc' \in [Processes -> Places]
        BY <3>1, <3>2
      <3>4. \A q \in Processes : pc'[q] = IF q = p THEN x ELSE pc[q]
        BY <3>1, <3>2
      <3>5. QED
        BY <3>2, <3>3, <3>4, Zenon
    <2>3. \A q \in Processes : notice'[q] \in {firmware, None}
      BY <1>5 DEF CheckOwnership
    <2>4. UNCHANGED <<file, due, mode, taken, adopt, firmware, faulted>>
      BY <1>5 DEF CheckOwnership
    <2>5. QED
      BY <1>1, <2>1, <2>2, <2>3, <2>4
  <1>6. CASE Publish(p)
    BY <1>1, <1>3, <1>4, <1>6 DEF Publish
  <1>7. CASE PublishFails(p)
    BY <1>1, <1>7 DEF PublishFails
  <1>8. QED
    BY <1>5, <1>6, <1>7 DEF Beat

LEMMA LeaveKeepsInv ==
    ASSUME Inv, NEW p \in Processes, Leave(p)
    PROVE  Inv'
  <1> USE OwnershipAssumption DEF Inv, TypeOK, RecordIsTrue, Placed, ModeKnown, Processes,
          Places, MidFile, Modes, Memo, Contents, history, At, Go
  <1>1. CASE Release(p)
    BY <1>1 DEF Release
  <1>2. CASE DropGuard(p)
    BY <1>2 DEF DropGuard
  <1>3. CASE Unlink(p)
    BY <1>3 DEF Unlink
  <1>4. QED
    BY <1>1, <1>2, <1>3 DEF Leave

LEMMA RestKeepsInv ==
    ASSUME Inv, NEW p \in Processes,
           \/ Start(p) \/ Adopt(p) \/ StartEngine(p) \/ WriteChannel(p)
           \/ StopRequested(p) \/ Crash(p)
    PROVE  Inv'
  <1> USE OwnershipAssumption DEF Inv, TypeOK, RecordIsTrue, Placed, ModeKnown, Processes,
          Places, MidFile, Modes, Memo, Contents, history, At, Go
  <1>1. CASE Start(p)
    BY <1>1 DEF Start
  <1>2. CASE Adopt(p)
    BY <1>2 DEF Adopt
  <1>3. CASE StartEngine(p)
    BY <1>3 DEF StartEngine
  <1>4. CASE WriteChannel(p)
    BY <1>4 DEF WriteChannel
  <1>5. CASE StopRequested(p)
    BY <1>5 DEF StopRequested
  <1>6. CASE Crash(p)
    BY <1>6 DEF Crash
  <1>7. QED
    BY <1>1, <1>2, <1>3, <1>4, <1>5, <1>6

LEMMA ClockKeepsInv == ASSUME Inv, Clock PROVE Inv'
  <1> USE OwnershipAssumption DEF Inv, TypeOK, RecordIsTrue, Placed, ModeKnown, Processes,
          Places, MidFile, Modes, Memo, Contents, history, Clock
  <1>1. file' \in {Absent} \cup Contents
        /\ (file' # Absent => file'.taken \in {firmware, None})
    OBVIOUS
  <1>2. due' \in [Processes -> BOOLEAN] /\ stalled' \in [Processes -> BOOLEAN]
    BY DEF Runs, Unbeaten
  <1>3. QED
    BY <1>1, <1>2

LEMMA InvStep == Inv /\ [Next]_vars => Inv'
  <1> SUFFICES ASSUME Inv, [Next]_vars
               PROVE  Inv'
    OBVIOUS
  <1>1. CASE UNCHANGED vars
    BY <1>1 DEF vars, history, Inv, TypeOK, RecordIsTrue, Placed, ModeKnown
  <1>2. ASSUME NEW p \in Processes,
               \/ Start(p) \/ Work(p) \/ WriteChannel(p)
               \/ StopRequested(p) \/ Crash(p)
        PROVE  Inv'
    BY <1>2, AcquireKeepsInv, BeatKeepsInv, LeaveKeepsInv, RestKeepsInv DEF Work
  <1>3. CASE Clock
    BY <1>3, ClockKeepsInv
  <1>4. QED
    BY <1>1, <1>2, <1>3 DEF Next

LEMMA InvAlways == Spec => []Inv
  BY InitInv, InvStep, PTL DEF Spec

\* TypeOK, for any processes and however their operations interleave.
THEOREM TypeCorrect == Spec => []TypeOK
  <1>1. Inv => TypeOK
    BY DEF Inv
  <1>2. QED
    BY <1>1, InvAlways, PTL

\* RecordIsTrue, likewise: through any chain of crashes and takeovers, manual
\* mode is never put on record as the mode to restore, since take_control
\* only remembers a mode that is not manual and adopt_taken_controls passes on
\* what it read.
THEOREM RecordsStayTrue == Spec => []RecordIsTrue
  <1>1. Inv => RecordIsTrue
    BY DEF Inv
  <1>2. QED
    BY <1>1, InvAlways, PTL

-----------------------------------------------------------------------------
(* One owner at a time, if sequences of file operations are not interrupted *)

\* One process at most is in the middle of such a sequence.
Alone ==
    \A p, q \in Processes : pc[p] \in MidFile /\ pc[q] \in MidFile => p = q

\* What a process in the middle of one knows of the file.
Informed ==
    \A p \in Processes :
        /\ pc[p] \in {"probe", "remove"} => ~(Readable /\ Fresh)
        /\ pc[p] = "create" => file = Absent
        /\ pc[p] = "fill" => file # Absent /\ file.by = p /\ ~file.whole
        /\ pc[p] \in {"publish", "unlink"} => Owns(p)

\* A file has a process that wrote it.
Written == file # Absent => pc[file.by] # "off"

\* A process that holds the file and has looked at it lately finds it its own,
\* and its heartbeat recent.
Held ==
    \A p \in Services :
        /\ pc[p] = "fill" /\ ~stalled[p] => file.age = 0
        /\ Holds(p) /\ ~stalled[p] =>
              /\ Owns(p)
              /\ pc[p] \in {"claimed", "adopted", "up"} => file.age = 0
              /\ pc[p] = "running" => file.age <= IF due[p] THEN 1 ELSE 0

Claims == Alone /\ Informed /\ Written /\ Held

\* Such a process is in nobody's way: what it holds is fresh.
LEMMA HeldIsFresh ==
    ASSUME Inv, Claims, NEW p \in Services, Holds(p), ~stalled[p], pc[p] # "publish"
    PROVE  Owns(p) /\ Readable /\ Fresh
  <1>1. Owns(p)
    BY DEF Claims, Held
  <1>2. file.age \in Nat
    BY <1>1 DEF Inv, TypeOK, Contents, Owns, Readable
  <1>3. file.age <= 1
    BY <1>2 DEF Claims, Held, Holds
  <1>4. Exists(p) /\ file.by = p /\ Readable
    BY <1>1 DEF Holds, Exists, Owns
  <1>5. file.age <= Tolerance
    BY <1>2, <1>3, OwnershipAssumption
  <1>6. QED
    BY <1>1, <1>4, <1>5 DEF Fresh

\* The types this part of the proof uses.
LEMMA ClaimTypes ==
    ASSUME Inv
    PROVE  /\ pc \in [Processes -> Places] /\ stalled \in [Processes -> BOOLEAN]
           /\ due \in [Processes -> BOOLEAN] /\ Services \subseteq Processes
           /\ file # Absent => /\ file.by \in Services /\ file.whole \in BOOLEAN
                               /\ file.age \in 0 .. Tolerance + 1
  BY DEF Inv, TypeOK, Processes, Contents

\* A file that is written is there, and its owner's.
LEMMA NewFile ==
    ASSUME NEW p \in Services, NEW was \in Memo
    PROVE  /\ EmptyFile(p) # Absent /\ Record(p, was) # Absent
           /\ EmptyFile(p).by = p /\ EmptyFile(p).age = 0 /\ EmptyFile(p).whole = FALSE
           /\ Record(p, was).by = p /\ Record(p, was).age = 0 /\ Record(p, was).whole = TRUE
  <1>1. EmptyFile(p) # Absent /\ Record(p, was) # Absent
    BY FileTypes, OwnershipAssumption
  <1>2. QED
    BY <1>1 DEF EmptyFile, Record

LEMMA PublishedFile ==
    ASSUME Inv, NEW p \in Services, Publish(p)
    PROVE  file' # Absent /\ file'.by = p /\ file'.age = 0 /\ file'.whole = TRUE
  <1>1. notice[p] \in Memo /\ file' = Record(p, notice[p])
    BY DEF Publish, Inv, TypeOK, Processes
  <1>2. /\ Record(p, notice[p]) # Absent /\ Record(p, notice[p]).by = p
        /\ Record(p, notice[p]).age = 0 /\ Record(p, notice[p]).whole = TRUE
    <2> DEFINE was == notice[p]
    <2>1. was \in Memo
      BY <1>1
    <2> HIDE DEF was
    <2>2. /\ Record(p, was) # Absent /\ Record(p, was).by = p
          /\ Record(p, was).age = 0 /\ Record(p, was).whole = TRUE
      BY <2>1, NewFile, Zenon
    <2>3. QED
      BY <2>2 DEF was
  <1>3. QED
    BY <1>1, <1>2, Zenon

LEMMA InitClaims == Init => Claims
  BY DEF Init, Claims, Alone, Informed, Written, Held, MidFile, Holds, Processes

LEMMA AcquireKeepsClaims ==
    ASSUME Inv, Claims, ~Racing, NEW p \in Processes, Acquire(p)
    PROVE  Claims'
  <1>1. p \in Services /\ pc[p] \in MidFile
    BY FileIsForServices DEF Acquire, At, ReadRecord, ProbePath, RemoveAbandoned, CreateNew,
       FillRecord, FillFails, MidFile
  <1>2. \A q \in Processes \ {p} : pc[q] \notin MidFile
    BY <1>1 DEF Claims, Alone
  <1>3. \A q \in Services \ {p} : Holds(q) /\ ~stalled[q] => Owns(q) /\ Readable /\ Fresh
    BY <1>2, HeldIsFresh DEF MidFile, Processes
  <1> USE ClaimTypes DEF Claims, Alone, Informed, Written, Held, At, Go, MidFile, Holds,
          Owns, Readable
  <1>4. CASE ReadRecord(p)
    <2>1. Alone'
      BY <1>1, <1>2, <1>4 DEF ReadRecord
    <2>2. Informed'
      BY <1>1, <1>2, <1>4 DEF ReadRecord, Fresh, Exists
    <2>3. Written'
      BY <1>1, <1>4 DEF ReadRecord
    <2>4. Held'
      BY <1>1, <1>2, <1>3, <1>4 DEF ReadRecord
    <2>5. QED
      BY <2>1, <2>2, <2>3, <2>4
  <1>5. CASE ProbePath(p)
    BY <1>1, <1>2, <1>5 DEF ProbePath, Fresh, Exists
  <1>6. CASE RemoveAbandoned(p)
    <2>1. Alone'
      BY <1>1, <1>2, <1>6 DEF RemoveAbandoned
    <2>2. Informed'
      BY <1>1, <1>2, <1>6 DEF RemoveAbandoned
    <2>3. Written'
      BY <1>1, <1>6 DEF RemoveAbandoned
    <2>4. Held'
      BY <1>1, <1>2, <1>3, <1>6 DEF RemoveAbandoned
    <2>5. QED
      BY <2>1, <2>2, <2>3, <2>4
  <1>7. CASE CreateNew(p)
    <2>0. /\ EmptyFile(p) # Absent /\ EmptyFile(p).by = p /\ EmptyFile(p).age = 0
          /\ ~EmptyFile(p).whole
      <3>1. None \in Memo
        BY DEF Memo
      <3>2. QED
        BY <1>1, <3>1, NewFile
    <2>1. Alone'
      BY <1>1, <1>2, <1>7 DEF CreateNew
    <2>2. Informed'
      BY <1>1, <1>2, <1>7, <2>0 DEF CreateNew
    <2>3. Written'
      BY <1>1, <1>7, <2>0 DEF CreateNew
    <2>4. Held'
      BY <1>1, <1>2, <1>3, <1>7, <2>0 DEF CreateNew
    <2>5. QED
      BY <2>1, <2>2, <2>3, <2>4
  <1>8. CASE FillRecord(p)
    <2>0. /\ file # Absent /\ file.by = p
          /\ file'.by = p /\ file'.age = file.age /\ file'.whole = TRUE /\ file' # Absent
      <3>1. file \in Contents /\ file.by = p
        BY <1>8 DEF FillRecord, Inv, TypeOK
      <3>2. [file EXCEPT !.whole = TRUE] \in Contents
        BY <3>1 DEF Contents
      <3>3. file' = [file EXCEPT !.whole = TRUE]
        BY <1>8, <3>1 DEF FillRecord
      <3>4. QED
        BY <3>1, <3>2, <3>3, OwnershipAssumption DEF Contents
    <2>1. Alone'
      BY <1>1, <1>2, <1>8 DEF FillRecord
    <2>2. Informed'
      BY <1>1, <1>2, <1>8, <2>0 DEF FillRecord
    <2>3. Written'
      BY <1>1, <1>8, <2>0 DEF FillRecord
    <2>4. Held'
      BY <1>1, <1>2, <1>3, <1>8, <2>0 DEF FillRecord
    <2>5. QED
      BY <2>1, <2>2, <2>3, <2>4
  <1>9. CASE FillFails(p)
    BY <1>1, <1>2, <1>3, <1>9 DEF FillFails
  <1>10. QED
    BY <1>4, <1>5, <1>6, <1>7, <1>8, <1>9 DEF Acquire

LEMMA BeatKeepsClaims ==
    ASSUME Inv, Claims, ~Racing, NEW p \in Processes, Beat(p)
    PROVE  Claims'
  <1>1. p \in Services /\ \A q \in Processes \ {p} : pc[q] \notin MidFile
    BY FileIsForServices DEF Beat, At, CheckOwnership, Publish, PublishFails
  <1> USE ClaimTypes DEF Claims, Alone, Informed, Written, Held, At, Go, MidFile, Holds,
          Owns, Readable
  <1>2. CASE CheckOwnership(p)
    <2>1. /\ file' = file /\ due' = due /\ stalled' = [stalled EXCEPT ![p] = FALSE]
          /\ \/ Owns(p) /\ pc' = [pc EXCEPT ![p] = "publish"]
             \/ pc' = [pc EXCEPT ![p] = "leaving"]
      BY <1>2, Zenon DEF CheckOwnership
    <2>2. Alone' /\ Informed' /\ Written'
      BY <1>1, <2>1
    <2>3. Held'
      BY <1>1, <2>1
    <2>4. QED
      BY <2>2, <2>3
  <1>3. CASE Publish(p)
    <2>1. /\ file' # Absent /\ file'.by = p /\ file'.age = 0 /\ file'.whole = TRUE
      BY <1>1, <1>3, PublishedFile
    <2>2. /\ pc[p] = "publish" /\ pc' = [pc EXCEPT ![p] = "running"]
          /\ due' = [due EXCEPT ![p] = FALSE] /\ stalled' = stalled
      BY <1>3 DEF Publish
    <2>3. Alone' /\ Informed' /\ Written'
      BY <1>1, <2>1, <2>2
    <2>4. \A q \in Services \ {p} : ~(Holds(q) /\ ~stalled[q])
      BY <2>2
    <2>5. Held'
      BY <1>1, <2>1, <2>2, <2>4
    <2>6. QED
      BY <2>3, <2>5
  <1>4. CASE PublishFails(p)
    BY <1>1, <1>4 DEF PublishFails
  <1>5. QED
    BY <1>2, <1>3, <1>4 DEF Beat

LEMMA LeaveKeepsClaims ==
    ASSUME Inv, Claims, ~Racing, NEW p \in Processes, Leave(p)
    PROVE  Claims'
  <1>1. \A q \in Processes \ {p} : pc[q] \notin MidFile
    BY DEF Leave, At, Release, DropGuard, Unlink
  <1> USE ClaimTypes DEF Claims, Alone, Informed, Written, Held, At, Go, MidFile, Holds,
          Owns, Readable
  <1>2. CASE Release(p)
    BY <1>1, <1>2 DEF Release
  <1>3. CASE DropGuard(p)
    BY <1>1, <1>3 DEF DropGuard
  <1>4. CASE Unlink(p)
    <2>1. \A q \in Services : ~(Holds(q) /\ ~stalled[q])
      BY <1>4 DEF Unlink
    <2>2. QED
      BY <1>1, <1>4, <2>1 DEF Unlink
  <1>5. QED
    BY <1>2, <1>3, <1>4 DEF Leave

LEMMA RestKeepsClaims ==
    ASSUME Inv, Claims, ~Racing, NEW p \in Processes,
           \/ Start(p) \/ Adopt(p) \/ StartEngine(p) \/ WriteChannel(p)
           \/ StopRequested(p) \/ Crash(p)
    PROVE  Claims'
  <1> USE ClaimTypes DEF Claims, Alone, Informed, Written, Held, At, Go, MidFile, Holds,
          Owns, Readable
  <1>1. CASE Start(p)
    BY <1>1 DEF Start
  <1>2. CASE Adopt(p)
    BY <1>2, FileIsForServices DEF Adopt, Fresh, Exists
  <1>3. CASE StartEngine(p)
    BY <1>3 DEF StartEngine, Fresh, Exists
  <1>4. CASE WriteChannel(p)
    BY <1>4 DEF WriteChannel, Fresh, Exists
  <1>5. CASE StopRequested(p)
    BY <1>5 DEF StopRequested, Fresh, Exists
  <1>6. CASE Crash(p)
    BY <1>6 DEF Crash, Fresh, Exists
  <1>7. QED
    BY <1>1, <1>2, <1>3, <1>4, <1>5, <1>6

LEMMA ClockKeepsClaims ==
    ASSUME Inv, Claims, Clock
    PROVE  Claims'
  <1>1. /\ pc' = pc /\ due' = [p \in Processes |-> Runs(p)]
        /\ stalled' = [p \in Processes |-> stalled[p] \/ Unbeaten(p)]
    BY DEF Clock
  <1>2. CASE file = Absent
    BY <1>1, <1>2, ClaimTypes DEF Clock, Claims, Alone, Informed, Written, Held, Holds,
                                  Owns, Readable, MidFile
  <1>3. CASE file # Absent
    <2>1. /\ file' # Absent /\ file'.by = file.by /\ file'.whole = file.whole
          /\ file'.age \in {file.age, file.age + 1} /\ file.age \in Nat
          /\ (file.age > Tolerance => file'.age = file.age)
      <3>1. file \in Contents /\ Tolerance \in Nat
        BY <1>3, OwnershipAssumption DEF Inv, TypeOK
      <3>2. file.age \in Nat
        BY <3>1 DEF Contents
      <3>3. CASE file.age > Tolerance
        <4>1. file' = file
          BY <1>3, <3>3 DEF Clock
        <4>2. QED
          BY <1>3, <3>2, <4>1
      <3>4. CASE ~(file.age > Tolerance)
        <4>1. file' = [file EXCEPT !.age = @ + 1]
          BY <1>3, <3>4 DEF Clock
        <4>2. /\ file'.by = file.by /\ file'.whole = file.whole
              /\ file'.age = file.age + 1
          BY <3>1, <4>1 DEF Contents
        <4>3. file' \in Contents
          BY <3>1, <3>2, <3>4, <4>1 DEF Contents
        <4>4. QED
          BY <3>2, <3>4, <4>2, <4>3, OwnershipAssumption
      <3>5. QED
        BY <3>3, <3>4
    <2>2. Alone'
      BY <1>1 DEF Claims, Alone
    <2>3. Informed'
      <3>1. (Readable /\ Fresh)' => Readable /\ Fresh
        BY <1>1, <1>3, <2>1, OwnershipAssumption DEF Readable, Fresh, Exists
      <3>2. \A q \in Processes : Owns(q) => Owns(q)'
        BY <1>3, <2>1 DEF Owns, Readable
      <3>3. QED
        BY <1>1, <1>3, <2>1, <3>1, <3>2 DEF Claims, Informed
    <2>4. Written'
      <3>1. pc[file.by] # "off"
        BY <1>3 DEF Claims, Written
      <3>2. pc'[file'.by] = pc[file.by]
        BY <1>1, <2>1
      <3>3. QED
        BY <3>1, <3>2 DEF Written
    <2>5. Held'
      <3> SUFFICES ASSUME NEW p \in Services
                   PROVE  /\ pc'[p] = "fill" /\ ~stalled'[p] => file'.age = 0
                          /\ (Holds(p) /\ ~stalled[p])' =>
                                /\ Owns(p)'
                                /\ pc'[p] \in {"claimed", "adopted", "up"} => file'.age = 0
                                /\ pc'[p] = "running" => file'.age <= IF due'[p] THEN 1 ELSE 0
        BY DEF Held
      <3>1. p \in Processes
        BY DEF Processes
      <3>2. stalled'[p] = (stalled[p] \/ Unbeaten(p)) /\ due'[p] = Runs(p) /\ pc'[p] = pc[p]
        BY <1>1, <3>1
      <3>3. pc[p] \in {"fill", "claimed", "adopted", "up"} => stalled'[p]
        BY <3>2 DEF Unbeaten
      <3>4. CASE Holds(p) /\ ~stalled'[p]
        <4>1. ~stalled[p] /\ pc[p] \in {"running", "publish"} /\ ~due[p]
          BY <3>2, <3>3, <3>4, ClaimTypes, <3>1 DEF Holds, Unbeaten, Runs
        <4>2. Owns(p) /\ (pc[p] = "running" => file.age <= 0)
          BY <3>4, <4>1 DEF Claims, Held
        <4>3. Owns(p)'
          BY <1>3, <2>1, <4>2 DEF Owns, Readable
        <4>4. pc[p] = "running" => file'.age <= 1
          BY <2>1, <4>2
        <4>5. due'[p]
          BY <3>2, <4>1, Zenon DEF Runs
        <4>6. QED
          BY <3>2, <4>1, <4>3, <4>4, <4>5
      <3>5. CASE ~(Holds(p) /\ ~stalled'[p])
        BY <3>2, <3>3, <3>5 DEF Holds
      <3>6. QED
        BY <3>4, <3>5
    <2>6. QED
      BY <2>2, <2>3, <2>4, <2>5 DEF Claims
  <1>4. QED
    BY <1>2, <1>3

LEMMA ClaimsStep ==
    ASSUME ~Racing
    PROVE  Inv /\ Claims /\ [Next]_vars => Claims'
  <1> SUFFICES ASSUME Inv, Claims, [Next]_vars
               PROVE  Claims'
    OBVIOUS
  <1>1. CASE UNCHANGED vars
    BY <1>1 DEF vars, history, Claims, Alone, Informed, Written, Held, Holds, Owns,
                Readable, Fresh, Exists
  <1>2. ASSUME NEW p \in Processes,
               \/ Start(p) \/ Work(p) \/ WriteChannel(p)
               \/ StopRequested(p) \/ Crash(p)
        PROVE  Claims'
    BY <1>2, AcquireKeepsClaims, BeatKeepsClaims, LeaveKeepsClaims, RestKeepsClaims DEF Work
  <1>3. CASE Clock
    BY <1>3, ClockKeepsClaims
  <1>4. QED
    BY <1>1, <1>2, <1>3 DEF Next

LEMMA ClaimsAlways ==
    ASSUME ~Racing
    PROVE  Spec => []Claims
  BY InitClaims, ClaimsStep, InvAlways, PTL DEF Spec

\* OneClaim, for any number of services, with or without the pid check, under
\* crashes, freezes and full disks: a service that has not been stopped since
\* its last look at the file is the only such owner of it.
THEOREM ClaimIsExclusive ==
    ASSUME ~Racing
    PROVE  Spec => []OneClaim
  <1>1. Claims => OneClaim
    BY DEF Claims, Held, OneClaim, Owns
  <1>2. QED
    BY <1>1, ClaimsAlways, PTL

\* LiveRecordKept, under the same conditions: a successor removes a record
\* only when it found it stale, and an owner that leaves only its own.
THEOREM LiveRecordStays ==
    ASSUME ~Racing
    PROVE  Spec => LiveRecordKept
  <1>1. Inv /\ Claims /\ [Next]_vars
        => [\A p \in Services :
              Owns(p) /\ Fresh /\ Exists(p) /\ ~Owns(p)' => pc[p] = "unlink"]_vars
    <2> SUFFICES ASSUME Inv, Claims, [Next]_vars, NEW p \in Services,
                        Owns(p), Fresh, Exists(p), ~Owns(p)'
                 PROVE  pc[p] = "unlink"
      OBVIOUS
    <2>1. ASSUME NEW q \in Processes, Acquire(q)
          PROVE  FALSE
      <3>1. CASE RemoveAbandoned(q)
        BY <3>1 DEF RemoveAbandoned, At, Claims, Informed, Owns
      <3>2. CASE CreateNew(q)
        BY <3>2 DEF CreateNew, At, Claims, Informed, Owns, Readable
      <3>3. CASE FillRecord(q) \/ FillFails(q)
        BY <3>3 DEF FillRecord, FillFails, At, Claims, Informed, Owns, Readable
      <3>4. CASE ReadRecord(q) \/ ProbePath(q)
        BY <3>4 DEF ReadRecord, ProbePath, Owns, Readable
      <3>5. QED
        BY <2>1, <3>1, <3>2, <3>3, <3>4 DEF Acquire
    <2>2. ASSUME NEW q \in Processes, Beat(q)
          PROVE  FALSE
      <3>1. CASE CheckOwnership(q) \/ PublishFails(q)
        BY <3>1 DEF CheckOwnership, PublishFails, Owns, Readable
      <3>2. CASE Publish(q)
        <4>1. q = p
          BY <3>2 DEF Publish, At, Claims, Informed, Owns
        <4>2. file' = Record(p, notice[p]) /\ notice[p] \in Memo
          BY <3>2, <4>1, ClaimTypes DEF Publish, Inv, TypeOK
        <4>3. Owns(p)'
          BY <4>2, NewFile DEF Owns, Readable
        <4>4. QED
          BY <4>3
      <3>3. QED
        BY <2>2, <3>1, <3>2 DEF Beat
    <2>3. ASSUME NEW q \in Processes, Leave(q)
          PROVE  pc[p] = "unlink"
      BY <2>3 DEF Leave, Release, DropGuard, Unlink, At, Claims, Informed, Owns, Readable
    <2>4. ASSUME NEW q \in Processes,
                 \/ Start(q) \/ Adopt(q) \/ StartEngine(q) \/ WriteChannel(q)
                 \/ StopRequested(q) \/ Crash(q)
          PROVE  FALSE
      BY <2>4 DEF Start, Adopt, StartEngine, WriteChannel, StopRequested, Crash,
                  Owns, Readable
    <2>5. CASE Clock
      <3>1. file # Absent /\ file.by = p /\ file.whole
        BY DEF Owns, Readable
      <3>2. file \in Contents
        BY <3>1 DEF Inv, TypeOK
      <3>3. /\ file' \in Contents /\ file'.by = p /\ file'.whole
        <4>1. CASE file' = file
          BY <3>1, <3>2, <4>1
        <4>2. CASE file' = [file EXCEPT !.age = @ + 1] /\ file.age <= Tolerance
          BY <3>1, <3>2, <4>2, OwnershipAssumption DEF Contents
        <4>3. QED
          BY <2>5, <3>1, <3>2, <4>1, <4>2, OwnershipAssumption DEF Clock, Contents
      <3>4. QED
        BY <3>3, OwnershipAssumption DEF Owns, Readable
    <2>6. CASE UNCHANGED vars
      BY <2>6 DEF vars, Owns, Readable
    <2>7. QED
      BY <2>1, <2>2, <2>3, <2>4, <2>5, <2>6 DEF Next, Work
  <1>2. QED
    BY <1>1, InvAlways, ClaimsAlways, PTL DEF Spec, LiveRecordKept

-----------------------------------------------------------------------------
(* What is handed back, however the operations interleave *)

\* Where a process may remember a mode, and where it may own the file.
Working == {"adopted", "up", "running", "publish", "open", "leaving"}
Owning == {"fill", "claimed", "adopted", "up", "running", "publish", "leaving",
           "drop", "unlink"}

\* Nothing is remembered, and nothing driven, by a process that will not pass
\* through its own Release.
InCharge ==
    \A p \in Processes :
        /\ taken[p] # None => pc[p] \in Working
        /\ driving[p] => pc[p] \in Working \ {"adopted", "leaving"}

\* A channel in manual mode has a process that remembers its mode, and a file
\* has an owner that will come to its DropGuard and find the file its own.
Answered ==
    /\ mode = "manual" => \E p \in Processes : taken[p] # None
    /\ file # Absent => /\ pc[file.by] \in Owning
                        /\ ~file.whole => pc[file.by] = "fill"

Charges == InCharge /\ (~faulted => Answered)

LEMMA InitCharges == Init => Charges
  BY OwnershipAssumption DEF Init, Charges, InCharge, Answered, Processes

LEMMA AcquireKeepsCharges ==
    ASSUME Inv, Charges, NEW p \in Processes, Acquire(p)
    PROVE  Charges'
  <1>1. p \in Services /\ pc[p] \in MidFile
    BY FileIsForServices DEF Acquire, At, ReadRecord, ProbePath, RemoveAbandoned, CreateNew,
       FillRecord, FillFails, MidFile
  <1>2. UNCHANGED <<mode, taken, driving>>
    BY DEF Acquire, ReadRecord, ProbePath, RemoveAbandoned, CreateNew, FillRecord, FillFails
  <1> USE ClaimTypes DEF Charges, InCharge, Answered, Owning, Working, At, Go
  <1>3. CASE ReadRecord(p)
    BY <1>1, <1>2, <1>3 DEF ReadRecord, history
  <1>4. CASE ProbePath(p)
    BY <1>1, <1>2, <1>4 DEF ProbePath, history
  <1>5. CASE RemoveAbandoned(p)
    BY <1>1, <1>2, <1>5 DEF RemoveAbandoned, history
  <1>6. CASE CreateNew(p)
    <2>1. EmptyFile(p).by = p /\ ~EmptyFile(p).whole
      BY DEF EmptyFile
    <2>2. QED
      BY <1>1, <1>2, <1>6, <2>1 DEF CreateNew, history
  <1>7. CASE FillRecord(p)
    <2>1. file # Absent /\ file.by = p
             => file' # Absent /\ file'.by = p /\ file'.whole
      <3> SUFFICES ASSUME file # Absent, file.by = p
                   PROVE  file' # Absent /\ file'.by = p /\ file'.whole
        OBVIOUS
      <3>1. file \in Contents /\ file' = [file EXCEPT !.whole = TRUE]
        BY <1>7 DEF FillRecord, Inv, TypeOK
      <3>2. file' \in Contents /\ file'.by = p /\ file'.whole
        BY <3>1 DEF Contents
      <3>3. QED
        BY <3>2, OwnershipAssumption
    <2>2. ~(file # Absent /\ file.by = p) => file' = file
      BY <1>7 DEF FillRecord
    <2>3. pc' = [pc EXCEPT ![p] = "claimed"] /\ faulted' = faulted /\ pc[p] = "fill"
      BY <1>7 DEF FillRecord, history
    <2>4. QED
      BY <1>1, <1>2, <2>1, <2>2, <2>3
  <1>8. CASE FillFails(p)
    BY <1>1, <1>2, <1>8 DEF FillFails
  <1>9. QED
    BY <1>3, <1>4, <1>5, <1>6, <1>7, <1>8 DEF Acquire

LEMMA BeatKeepsCharges ==
    ASSUME Inv, Charges, NEW p \in Processes, Beat(p)
    PROVE  Charges'
  <1>1. p \in Services
    BY FileIsForServices DEF Beat, At, CheckOwnership, Publish, PublishFails
  <1>2. taken \in [Processes -> Memo] /\ driving \in [Processes -> BOOLEAN]
    BY DEF Inv, TypeOK
  <1> USE ClaimTypes DEF Charges, InCharge, Answered, Owning, Working, At, Go
  <1>3. CASE CheckOwnership(p)
    <2>1. /\ \/ pc' = [pc EXCEPT ![p] = "publish"] /\ driving' = driving
             \/ pc' = [pc EXCEPT ![p] = "leaving"] /\ driving' = [driving EXCEPT ![p] = FALSE]
          /\ pc[p] \in {"up", "running"}
          /\ UNCHANGED <<file, mode, taken, faulted>>
      BY <1>3, Zenon DEF CheckOwnership, history
    <2>2. InCharge'
      BY <1>1, <1>2, <2>1
    <2>3. ~faulted => Answered'
      BY <1>1, <2>1
    <2>4. QED
      BY <2>1, <2>2, <2>3
  <1>4. CASE Publish(p)
    <2>1. file' # Absent /\ file'.by = p /\ file'.whole
      BY <1>1, <1>4, PublishedFile
    <2>2. QED
      BY <1>1, <1>2, <1>4, <2>1 DEF Publish, history
  <1>5. CASE PublishFails(p)
    BY <1>1, <1>2, <1>5 DEF PublishFails
  <1>6. QED
    BY <1>3, <1>4, <1>5 DEF Beat

LEMMA LeaveKeepsCharges ==
    ASSUME Inv, Charges, NEW p \in Processes, Leave(p)
    PROVE  Charges'
  <1>1. taken \in [Processes -> Memo] /\ driving \in [Processes -> BOOLEAN]
    BY DEF Inv, TypeOK
  <1> USE ClaimTypes DEF Charges, InCharge, Answered, Owning, Working, At, Go
  <1>2. CASE Release(p)
    <2>1. pc[p] = "leaving" /\ ~driving[p]
      BY <1>2 DEF Release
    <2>2. InCharge'
      BY <1>1, <1>2, <2>1 DEF Release
    <2>3. ASSUME ~faulted, mode' = "manual"
          PROVE  \E q \in Processes : taken'[q] # None
      <3>1. mode = "manual" /\ taken[p] = None
        BY <1>1, <1>2, <2>3, OwnershipAssumption DEF Release, Memo
      <3>2. PICK q \in Processes : taken[q] # None
        BY <2>3, <3>1
      <3>3. taken'[q] # None
        BY <1>1, <1>2, <3>1, <3>2 DEF Release
      <3>4. QED
        BY <3>3
    <2>4. ASSUME ~faulted, file' # Absent
          PROVE  pc'[file'.by] \in Owning /\ (~file'.whole => pc'[file'.by] = "fill")
      BY <1>2, <2>1, <2>4 DEF Release, Inv, Placed, Processes
    <2>5. QED
      BY <1>2, <2>2, <2>3, <2>4 DEF Release, history
  <1>3. CASE DropGuard(p)
    BY <1>1, <1>3 DEF DropGuard, Owns, Readable, history
  <1>4. CASE Unlink(p)
    BY <1>1, <1>4 DEF Unlink, history
  <1>5. QED
    BY <1>2, <1>3, <1>4 DEF Leave

LEMMA WriteKeepsCharges ==
    ASSUME Inv, Charges, NEW p \in Processes, WriteChannel(p)
    PROVE  Charges'
  <1>1. /\ taken \in [Processes -> Memo] /\ mode \in Modes
        /\ None \notin Originals /\ "manual" \notin Originals
    BY OwnershipAssumption DEF Inv, TypeOK
  <1>2. driving[p] /\ UNCHANGED <<file, pc, driving, faulted>>
    BY DEF WriteChannel, history
  <1> USE DEF Charges, InCharge, Answered, Working
  <1>3. pc[p] \in Working
    BY <1>2
  <1>4. \A q \in Processes \ {p} : taken'[q] = taken[q]
    BY <1>1 DEF WriteChannel
  <1>5. InCharge'
    BY <1>2, <1>3, <1>4
  <1>6. ASSUME ~faulted, mode' = "manual"
        PROVE  \E q \in Processes : taken'[q] # None
    <2> DEFINE was == IF mode = "manual" THEN taken[p] ELSE mode
    <2>1. mode # "manual" => was # None
      BY <1>1 DEF Modes
    <2>2. CASE taken' = [taken EXCEPT ![p] = was]
      <3>1. CASE mode = "manual" /\ taken[p] = None
        <4>1. PICK q \in Processes : taken[q] # None
          BY <1>6, <3>1
        <4>2. QED
          BY <1>4, <3>1, <4>1
      <3>2. CASE ~(mode = "manual" /\ taken[p] = None)
        <4>1. taken'[p] # None
          BY <1>1, <2>1, <2>2, <3>2
        <4>2. QED
          BY <4>1
      <3>3. QED
        BY <3>1, <3>2
    <2>3. CASE mode' = (IF was = None THEN mode ELSE was)
               /\ taken' = [taken EXCEPT ![p] = None]
      <3>1. was \in Memo
        BY <1>1 DEF Modes, Memo
      <3>2. was = None /\ mode = "manual"
        BY <1>1, <1>6, <2>3, <3>1 DEF Memo
      <3>3. PICK q \in Processes : taken[q] # None
        BY <1>6, <3>2
      <3>4. QED
        BY <1>4, <3>2, <3>3
    <2>4. QED
      BY <2>2, <2>3 DEF WriteChannel
  <1>7. QED
    BY <1>2, <1>5, <1>6

LEMMA RestKeepsCharges ==
    ASSUME Inv, Charges, NEW p \in Processes,
           \/ Start(p) \/ Adopt(p) \/ StartEngine(p)
           \/ StopRequested(p) \/ Crash(p)
    PROVE  Charges'
  <1>1. /\ taken \in [Processes -> Memo] /\ driving \in [Processes -> BOOLEAN]
        /\ adopt \in [Processes -> Memo]
    BY DEF Inv, TypeOK
  <1> USE ClaimTypes DEF Charges, InCharge, Answered, Owning, Working, At, Go
  <1>2. CASE Start(p)
    BY <1>1, <1>2 DEF Start, history
  <1>3. CASE Adopt(p)
    <2>1. /\ pc[p] = "claimed" /\ pc' = [pc EXCEPT ![p] = "adopted"]
          /\ UNCHANGED <<file, driving, faulted>>
      BY <1>3 DEF Adopt, history
    <2>2. CASE adopt[p] = None
      BY <1>1, <1>3, <2>1, <2>2 DEF Adopt
    <2>3. CASE adopt[p] # None
      <3>1. taken' = [taken EXCEPT ![p] = adopt[p]]
        BY <1>3, <2>3 DEF Adopt
      <3>2. taken'[p] # None
        BY <1>1, <2>3, <3>1
      <3>3. QED
        BY <1>1, <2>1, <3>1, <3>2
    <2>4. QED
      BY <2>2, <2>3
  <1>4. CASE StartEngine(p)
    <2>1. /\ \/ pc[p] = "adopted" /\ pc' = [pc EXCEPT ![p] = "up"]
             \/ p \in Desktops /\ pc[p] = "off" /\ pc' = [pc EXCEPT ![p] = "open"]
          /\ UNCHANGED <<file, mode, taken, faulted>>
          /\ \A q \in Processes \ {p} : driving'[q] = driving[q]
      BY <1>1, <1>4 DEF StartEngine, history
    <2>2. QED
      BY <1>1, <2>1
  <1>5. CASE StopRequested(p)
    <2>1. file # Absent /\ file.by = p => pc[p] # "open"
      BY OwnershipAssumption DEF Inv, Placed
    <2>2. QED
      BY <1>1, <1>5, <2>1 DEF StopRequested, history
  <1>6. CASE Crash(p)
    BY <1>1, <1>6 DEF Crash
  <1>7. QED
    BY <1>2, <1>3, <1>4, <1>5, <1>6

LEMMA ClockKeepsCharges == ASSUME Inv, Charges, Clock PROVE Charges'
  <1>1. UNCHANGED <<pc, driving, mode, taken, faulted>>
    BY DEF Clock, history
  <1>2. CASE file = Absent
    BY <1>1, <1>2 DEF Clock, Charges, InCharge, Answered
  <1>3. CASE file # Absent
    <2>1. file \in Contents
      BY <1>3 DEF Inv, TypeOK
    <2>2. file'.by = file.by /\ file'.whole = file.whole
      BY <1>3, <2>1 DEF Clock, Contents
    <2>3. QED
      BY <1>1, <1>3, <2>2 DEF Charges, InCharge, Answered
  <1>4. QED
    BY <1>2, <1>3

LEMMA ChargesStep == Inv /\ Charges /\ [Next]_vars => Charges'
  <1> SUFFICES ASSUME Inv, Charges, [Next]_vars
               PROVE  Charges'
    OBVIOUS
  <1>1. CASE UNCHANGED vars
    BY <1>1 DEF vars, history, Charges, InCharge, Answered
  <1>2. ASSUME NEW p \in Processes,
               \/ Start(p) \/ Work(p) \/ WriteChannel(p)
               \/ StopRequested(p) \/ Crash(p)
        PROVE  Charges'
    BY <1>2, AcquireKeepsCharges, BeatKeepsCharges, LeaveKeepsCharges, WriteKeepsCharges,
       RestKeepsCharges DEF Work
  <1>3. CASE Clock
    BY <1>3, ClockKeepsCharges
  <1>4. QED
    BY <1>1, <1>2, <1>3 DEF Next

\* HandedBack, for any number of processes, with or without the pid check and
\* however their file operations interleave (Racing): a process that puts the
\* channel into manual mode remembers the mode until its own Release, or finds
\* one that does; and a file that is left is left by a crash or an error.
THEOREM AllIsHandedBack == Spec => []HandedBack
  <1>1. Inv /\ Charges => HandedBack
    <2> SUFFICES ASSUME Inv, Charges, \A p \in Processes : ~Exists(p), ~faulted
                 PROVE  mode = firmware /\ file = Absent
      BY DEF HandedBack
    <2>1. mode # "manual"
      BY DEF Charges, InCharge, Answered, Working, Exists
    <2>2. mode = firmware
      BY <2>1 DEF Inv, ModeKnown
    <2>3. file = Absent
      BY ClaimTypes DEF Charges, Answered, Owning, Exists
    <2>4. QED
      BY <2>2, <2>3
  <1>2. Spec => []Charges
    BY InitCharges, ChargesStep, InvAlways, PTL DEF Spec
  <1>3. QED
    BY <1>1, <1>2, InvAlways, PTL

=============================================================================
