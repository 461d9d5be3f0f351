------------------------------ MODULE HwmonAdapter ------------------------------
(***************************************************************************)
(* The Linux half of the system adapter (adapters/system/src): the fan     *)
(* channels under /sys/class/hwmon, the ones a person allowed to be        *)
(* written, and the debt of every channel switched away from its driver.   *)
(*                                                                         *)
(* A chip has one fan channel, of the same number in each.  Its directory  *)
(* number is the kernel's and is dealt out anew whenever a chip comes; its *)
(* name is what a device id is made of.  The adapter keeps paths from its  *)
(* last scan, so every file access goes through a directory number, which  *)
(* by then may be nobody's or another chip's.                              *)
(***************************************************************************)
EXTENDS Integers, FiniteSets

CONSTANTS
    Chips,          \* the chips this machine has ever had plugged in
    Ids,            \* device ids
    IdOf,           \* the id made of a chip's name; chips of one model share it
    Allowed,        \* the ids in pwm_write_allow
    Percents,       \* the duties a caller may ask for
    Mishaps,        \* bound on the file accesses that fail and the chips pulled
    ScanFaults      \* may pwm_enable be unreadable while the tree is scanned

Vacant    == "none"                \* the directory was not in the last scan

ASSUME HwmonAssumption ==
    /\ IsFiniteSet(Chips) /\ IsFiniteSet(Ids) /\ IdOf \in [Chips -> Ids]
    /\ Allowed \subseteq Ids /\ Vacant \notin Ids
    /\ Percents \subseteq Int /\ Mishaps \in Nat /\ ScanFaults \in BOOLEAN

NoFile  == -1                    \* there is no pwm<N>_enable
Garbled == -2                    \* there is one, and it holds no number
Nothing == -3
Manual  == 1
Modes   == 0 .. 3                \* 0 full speed, 2 and 3 the driver's
Dirs    == 1 .. Cardinality(Chips)
NoDir   == 0                     \* the chip is not plugged in
Entries == [id : Ids \cup {Vacant}, mode : BOOLEAN]
NoTree  == [n \in Dirs |-> [id |-> Vacant, mode |-> FALSE]]

VARIABLES
    enable,     \* pwm<N>_enable of each chip
    pwm,        \* pwm<N> of each chip, the kernel's byte
    dir,        \* the directory number of each chip
    faults,     \* mishaps that may still happen
    running,    \* is the process there
    tree,       \* the last scan: whose name each directory had, and whether
                \* its pwm_enable could be read
    taken,      \* device id -> the mode it had before this program
    published,  \* the same, in the state file of the service
    said,       \* what the last shutdown returned
    trace       \* history, see below

hwmon == <<enable, pwm, dir, faults, running, tree, taken, published, said, trace>>

(***************************************************************************)
(* trace.owed[c] is the mode the program displaced in chip c and has not   *)
(* put back; abandoned, the chips whose debt the program dropped after a   *)
(* restore of them had failed or a crash left no record of it; touched,    *)
(* the chips a file of which was written; moved, those that came or went   *)
(* since the tree was scanned; and strayed, those whose id was used, or    *)
(* whose files were reached, while they had moved.                         *)
(***************************************************************************)
Traces == [owed : [Chips -> Modes \cup {Nothing}], abandoned : SUBSET Chips,
           touched : SUBSET Chips, moved : SUBSET Chips, strayed : SUBSET Chips]

Enumerated ==
    /\ dir \in [Chips -> Dirs \cup {NoDir}]
    /\ \A c, d \in Chips : dir[c] = dir[d] /\ dir[c] # NoDir => c = d

HwmonTypeOK ==
    /\ enable \in [Chips -> Modes \cup {NoFile, Garbled}]
    /\ pwm \in [Chips -> 0 .. 255]
    /\ Enumerated
    /\ faults \in 0 .. Mishaps /\ running \in BOOLEAN
    /\ tree \in [Dirs -> Entries]
    /\ taken \in [Ids -> Modes \cup {Nothing}]
    /\ published \in [Ids -> Modes \cup {Nothing}]
    /\ said \in {"nothing", "released", "failed"}
    /\ trace \in Traces

\* Whose files the paths of directory n lead to, if anybody's.
Leads(n) == \E c \in Chips : dir[c] = n
At(n)    == CHOOSE c \in Chips : dir[c] = n

-----------------------------------------------------------------------------
(***************************************************************************)
(* The scan.  Directories are read by number; a channel's ownership file   *)
(* is remembered only if it could be read at that moment.  Device ids are  *)
(* made of the chip's name and the channel number, which chips of one      *)
(* model share.                                                            *)
(***************************************************************************)
\* Mutant of DeviceId: the id is the channel's place in the enumeration.
DeviceIdByPosition(c) ==
    LET places == CHOOSE p \in [Dirs -> Chips] :
                     \A n, m \in Dirs : p[n] = p[m] => n = m
    IN  IdOf[places[dir[c]]]

DeviceId(c) == IdOf[c]

Scanned(unread) ==
    [n \in Dirs |-> IF Leads(n)
                    THEN [id |-> DeviceId(At(n)),
                          mode |-> enable[At(n)] # NoFile /\ At(n) \notin unread]
                    ELSE [id |-> Vacant, mode |-> FALSE]]

\* channel_by_device_id, hwmon_channel: the first directory with that id.
Channels(t, id) == {n \in Dirs : t[n].id = id}
Channel(t, id)  == CHOOSE n \in Channels(t, id) : \A k \in Channels(t, id) : n <= k

-----------------------------------------------------------------------------
\* pwm<N>_enable as it reads now, through the path of directory n.
ModeAt(n, unreadable) == IF unreadable \/ ~Leads(n) THEN NoFile ELSE enable[At(n)]

(***************************************************************************)
(* take_control.  What it answers: the mode it displaced, Nothing when     *)
(* there was nothing to switch, or a refusal.                              *)
(***************************************************************************)
TakeControl(n, unreadable, unwritable) ==
    LET mode == ModeAt(n, unreadable) IN
    IF ~tree[n].mode THEN [ok |-> TRUE, was |-> Nothing]
    ELSE IF mode \in {Garbled, NoFile} THEN [ok |-> FALSE, was |-> Nothing]
    ELSE IF mode = Manual THEN [ok |-> TRUE, was |-> Nothing]
    ELSE [ok |-> ~unwritable, was |-> IF unwritable THEN Nothing ELSE mode]

\* set_pwm: the percentage, clamped, as the byte the kernel expects.
Clamped(p) == IF p < 0 THEN 0 ELSE IF p > 100 THEN 100 ELSE p
RawDuty(p) == (Clamped(p) * 255 + 50) \div 100

\* Writing a mode settles the debt of that mode (history).
Settled(owed, c, mode) == [owed EXCEPT ![c] = IF @ = mode THEN Nothing ELSE @]

\* The chips the use of an id concerns that are not where the scan saw them.
Astray(id, reached) == {c \in trace.moved : IdOf[c] = id \/ c \in reached}

-----------------------------------------------------------------------------
HwmonInit ==
    /\ enable \in [Chips -> {NoFile, Garbled, Manual, 0, 2, 3}] /\ pwm = [c \in Chips |-> 128]
    /\ dir \in [Chips -> Dirs] /\ Enumerated
    /\ faults = Mishaps /\ running = FALSE
    /\ tree = NoTree /\ said = "nothing"
    /\ taken = [id \in Ids |-> Nothing] /\ published = [id \in Ids |-> Nothing]
    /\ trace = [owed |-> [c \in Chips |-> Nothing], abandoned |-> {},
                touched |-> {}, moved |-> {}, strayed |-> {}]

\* discover, every discovery interval: scan_hwmon and build_devices.
Rescan ==
    /\ running
    /\ \E unread \in {{}} \cup {{c} : c \in Chips} :
          /\ (unread # {}) => (ScanFaults /\ faults > 0)
          /\ tree' = Scanned(unread)
          /\ faults' = faults - Cardinality(unread)
    /\ trace' = [trace EXCEPT !.moved = {}]
    /\ UNCHANGED <<enable, pwm, dir, running, taken, published, said>>

(***************************************************************************)
(* write: the capability is advertised only for allowed channels, the      *)
(* channel must be in the tree, then control is taken and the duty is      *)
(* written.  A duty that could not be written gives control back.          *)
(***************************************************************************)
Refuse == UNCHANGED <<enable, pwm, taken, trace>>

\* The path leads nowhere any more: the duty is not written, and what was on
\* record for the channel is dropped.
Miss(id) ==
    /\ taken' = [taken EXCEPT ![id] = Nothing]
    /\ trace' = [trace EXCEPT !.strayed = @ \cup Astray(id, {})]
    /\ UNCHANGED <<enable, pwm>>

\* The paths lead to chip c: the one meant, or the one that has the number now.
Drive(id, c, was, raw, failing) ==
    LET kept  == IF was = Nothing THEN taken[id] ELSE was
        owed  == IF was = Nothing \/ enable[c] = Manual THEN trace.owed
                 ELSE [trace.owed EXCEPT ![c] = enable[c]]
        touch == trace.touched \cup {c}
        stray == trace.strayed \cup Astray(id, {c})
    IN
    IF ~failing.duty
    THEN /\ pwm' = [pwm EXCEPT ![c] = raw]
         /\ enable' = IF was = Nothing THEN enable ELSE [enable EXCEPT ![c] = Manual]
         /\ taken' = [taken EXCEPT ![id] = kept]
         /\ trace' = [trace EXCEPT !.owed = owed, !.touched = touch, !.strayed = stray]
    ELSE \* taken.remove, then restore_control with its answer dropped
         /\ pwm' = pwm
         /\ taken' = [taken EXCEPT ![id] = Nothing]
         /\ LET switched == IF was = Nothing THEN enable ELSE [enable EXCEPT ![c] = Manual]
                restored == /\ kept # Nothing /\ enable[c] # NoFile
                            /\ tree[Channel(tree, id)].mode /\ ~failing.restore
            IN  /\ enable' = IF restored THEN [switched EXCEPT ![c] = kept] ELSE switched
                /\ trace' = [trace EXCEPT
                      !.owed = IF restored THEN Settled(owed, c, kept) ELSE owed,
                      !.touched = touch, !.strayed = stray,
                      !.abandoned = IF owed[c] # Nothing /\ ~restored
                                    THEN @ \cup {c} ELSE @]

Write(id, percent) ==
    /\ running
    /\ UNCHANGED <<dir, running, tree, published, said>>
    /\ \E failing \in [read : BOOLEAN, switch : BOOLEAN, duty : BOOLEAN, restore : BOOLEAN] :
          LET count == Cardinality({k \in DOMAIN failing : failing[k]}) IN
          /\ count <= faults /\ faults' = faults - count
          /\ IF id \notin Allowed \/ Channels(tree, id) = {} THEN Refuse
             ELSE LET n == Channel(tree, id)
                      answer == TakeControl(n, failing.read, failing.switch)
                  IN  IF ~answer.ok THEN Refuse
                      ELSE IF ~Leads(n) THEN Miss(id)
                      ELSE Drive(id, At(n), answer.was, RawDuty(percent), failing)

-----------------------------------------------------------------------------
\* The heartbeat of the service publishes taken_controls.
Publish ==
    /\ running /\ published' = taken /\ taken # published
    /\ UNCHANGED <<enable, pwm, dir, faults, running, tree, taken, said, trace>>

\* The chips whose debt no record tells.
Unrecorded == {c \in Chips : trace.owed[c] \notin {Nothing, published[IdOf[c]]}}

\* The process is killed.  What it had not published is known to nobody; that
\* gap is the subject of ServiceOwnership and is set aside here.
Crash ==
    /\ running /\ running' = FALSE
    /\ taken' = [id \in Ids |-> Nothing] /\ tree' = NoTree
    /\ trace' = [trace EXCEPT !.abandoned = @ \cup Unrecorded, !.moved = {}]
    /\ UNCHANGED <<enable, pwm, dir, faults, published, said>>

\* A chip is unplugged, or its driver unloaded; one comes back, under any
\* number that is free.  Together: a reboot, or a hot-plug between two scans.
Pull(c) ==
    /\ dir[c] # NoDir /\ dir' = [dir EXCEPT ![c] = NoDir]
    /\ faults > 0 /\ faults' = faults - 1
    /\ trace' = [trace EXCEPT !.moved = IF running THEN @ \cup {c} ELSE @]
    /\ UNCHANGED <<enable, pwm, running, tree, taken, published, said>>

Plug(c) ==
    /\ dir[c] = NoDir
    /\ \E n \in Dirs : ~Leads(n) /\ dir' = [dir EXCEPT ![c] = n]
    /\ trace' = [trace EXCEPT !.moved = IF running THEN @ \cup {c} ELSE @]
    /\ UNCHANGED <<enable, pwm, faults, running, tree, taken, published, said>>

(***************************************************************************)
(* The modes are written back for these ids, through the paths of a scan:  *)
(* each reaches the chip that has the number of the first directory with   *)
(* the id.  The others could not be reached, or the write failed.          *)
(***************************************************************************)
Handed(t, ids) == {c \in Chips : dir[c] # NoDir /\ t[dir[c]].id \in ids
                                /\ Channel(t, t[dir[c]].id) = dir[c]}

PutBack(t, ids, modes) ==
    enable' = [c \in Chips |-> IF c \in Handed(t, ids) THEN modes[t[dir[c]].id] ELSE enable[c]]

StillOwed(t, ids, modes) ==
    [c \in Chips |-> IF c \in Handed(t, ids) /\ trace.owed[c] = modes[t[dir[c]].id]
                     THEN Nothing ELSE trace.owed[c]]

\* restore_control writes a file only for a channel that was seen to have one,
\* and fails where there is none any more.
HasMode(t, id)   == Channels(t, id) # {} /\ t[Channel(t, id)].mode
Writable(t, id)  == HasMode(t, id) /\ ModeAt(Channel(t, id), FALSE) # NoFile

(***************************************************************************)
(* A process starts: it scans, then adopt_taken_controls goes through the  *)
(* predecessor's list.  A recorded mode of an allowed channel is           *)
(* remembered, and put back at once if the channel is in the tree.         *)
(***************************************************************************)
Start ==
    LET mine == {id \in Allowed : published[id] # Nothing}
        scan == Scanned({})
    IN
    /\ ~running /\ running' = TRUE
    /\ tree' = scan /\ said' = "nothing"
    /\ taken' = [id \in Ids |-> IF id \in mine THEN published[id] ELSE Nothing]
    /\ \E failing \in SUBSET {id \in mine : Writable(scan, id)} :
          LET back == {id \in mine : Writable(scan, id)} \ failing IN
          /\ Cardinality(failing) <= faults /\ faults' = faults - Cardinality(failing)
          /\ PutBack(scan, back, published)
          /\ trace' = [trace EXCEPT
                !.owed = StillOwed(scan, back, published),
                !.touched = @ \cup Handed(scan, back),
                !.abandoned = @ \cup Unrecorded]
    /\ UNCHANGED <<pwm, dir, published>>

\* Mutant of Answer: a channel that is gone is passed over in silence.
AnswerOfThoseThere(owing, back) ==
    IF \A id \in owing \ back : Channels(tree, id) = {} \/ ~HasMode(tree, id)
    THEN "released" ELSE "failed"

\* What shutdown answers: a channel that is gone is a failure, as one that
\* could not be written is; one without an ownership file is not.
Answer(owing, back) ==
    IF \A id \in owing \ back : Channels(tree, id) # {} /\ ~HasMode(tree, id)
    THEN "released" ELSE "failed"

(***************************************************************************)
(* shutdown: the list is cleared, then every channel is attempted; one     *)
(* failure is reported and stops none of the others.                       *)
(***************************************************************************)
Shutdown ==
    LET owing == {id \in Ids : taken[id] # Nothing} IN
    /\ running /\ running' = FALSE
    /\ taken' = [id \in Ids |-> Nothing] /\ published' = [id \in Ids |-> Nothing]
    /\ tree' = NoTree
    /\ \E failing \in SUBSET {id \in owing : Writable(tree, id)} :
          LET back == {id \in owing : Writable(tree, id)} \ failing IN
          /\ Cardinality(failing) <= faults /\ faults' = faults - Cardinality(failing)
          /\ PutBack(tree, back, taken)
          /\ said' = Answer(owing, back)
          /\ trace' = [trace EXCEPT
                !.owed = StillOwed(tree, back, taken),
                !.touched = @ \cup Handed(tree, back),
                !.strayed = @ \cup UNION {Astray(id, Handed(tree, back)) : id \in owing},
                !.moved = {}]
    /\ UNCHANGED <<pwm, dir>>

\* A suspend, a vendor tool, a power cycle or the driver takes the channel back.
DriverReclaims(c) ==
    /\ enable[c] = Manual /\ trace.owed[c] # Nothing
    /\ enable' = [enable EXCEPT ![c] = 2]
    /\ trace' = [trace EXCEPT !.owed = [@ EXCEPT ![c] = Nothing]]
    /\ UNCHANGED <<pwm, dir, faults, running, tree, taken, published, said>>

HwmonNext ==
    \/ Rescan \/ Publish \/ Crash \/ Start \/ Shutdown
    \/ \E id \in Ids, p \in Percents : Write(id, p)
    \/ \E c \in Chips : Pull(c) \/ Plug(c) \/ DriverReclaims(c)

-----------------------------------------------------------------------------
\* The chips that share their id with none.
Unique == {c \in Chips : \A d \in Chips : IdOf[d] = IdOf[c] => d = c}

\* The debts the adapter can answer for.
Answerable == Unique \ (trace.abandoned \cup trace.strayed)

\* A channel this program switched is remembered with the mode it displaced,
\* by the process or, once it is dead, by the record it published, until that
\* mode is written back: through any order of writes that fail half-way,
\* rescans, reclaims, crashes and chips that go and come back under another
\* number (taken, adopt_taken_controls); a shutdown that failed has said so.
\* Set aside are chips that share their name, and chips whose id was used
\* between their move and the next scan.
NothingForgotten ==
    \A c \in Answerable : trace.owed[c] # Nothing /\ said # "failed" =>
        trace.owed[c] = IF running THEN taken[IdOf[c]] ELSE published[IdOf[c]]

\* A shutdown that answers Ok left no channel in the mode this program put it
\* in: not even one whose chip is gone, which it has to report.
OkMeansHandedBack ==
    said = "released" /\ ~running => \A c \in Answerable : trace.owed[c] = Nothing

\* The two together: every displaced mode is written back or still on record.
ModesAreReturned == NothingForgotten /\ OkMeansHandedBack

\* Only a channel whose id a person confirmed ever has a file written, whatever
\* numbers the kernel deals out and whatever a dead process left behind
\* (pwm_write_allow, "never enumeration order"), if it is where the last scan
\* saw it.  (A second chip of the same name has the same id.)
OnlyConfirmedChannels ==
    \A c \in trace.touched \ trace.strayed : IdOf[c] \in Allowed
=============================================================================
