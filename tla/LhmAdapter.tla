------------------------------- MODULE LhmAdapter -------------------------------
(***************************************************************************)
(* The Windows half: adapters/libre-hardware-monitor.  Another program     *)
(* owns the hardware and shows it as a tree of sensors over HTTP; this     *)
(* adapter maps the tree to devices on every fetch, drives the control     *)
(* channels and reads each one back.                                       *)
(*                                                                         *)
(* A device id outlives the tree it came from: rules keep it.  So the      *)
(* questions are which physical channel an id means as sensors drop out,   *)
(* come back and change places, and what an outcome or a shutdown claims.  *)
(***************************************************************************)
EXTENDS Integers, FiniteSets, Sequences

CONSTANTS
    Tachs, Controls,   \* the tachometers and the control channels
    Hardware,          \* the nodes they hang below
    HwOf,              \* sensor -> its node
    KeyOf,             \* node -> the slug of its path
    NameNo, PathNo,    \* sensor -> the number its name, its path carries, or None
    Pumps,             \* the sensors whose name says "pump"
    Fan,               \* sensor -> the physical fan or pump behind it
    Unsteady,          \* the sensors that may drop out of the tree
    RuleDuties,        \* what a rule writes
    VendorDuties,      \* what a vendor tool writes meanwhile
    Tolerance          \* READ_BACK_TOLERANCE_PERCENT

Sensors == Tachs \cup Controls

ASSUME LhmAssumption ==
    /\ Tachs \cap Controls = {} /\ Unsteady \subseteq Sensors
    /\ HwOf \in [Sensors -> Hardware]
    /\ NameNo \in [Sensors -> Nat \cup {-1}] /\ PathNo \in [Sensors -> Nat \cup {-1}]
    /\ IsFiniteSet(Hardware)
    /\ RuleDuties \cup VendorDuties \subseteq 0 .. 100 /\ Tolerance \in Nat

None     == -1         \* no number, no slot
Firmware == -1         \* the channel follows the firmware's own curve
NotShown == -2         \* answered as `N/A`

VARIABLES
    web,        \* what the web server shows: [shown, order of the nodes]
    up,         \* is the web server reachable
    duty,       \* what the chip holds for each control
    mapping,    \* the devices of the last successful fetch
    call,       \* the write in progress
    report,     \* what the last write, or the shutdown, answered
    meant       \* history: [id, sensor] pairs an id has stood for

lhm == <<web, up, duty, mapping, call, report, meant>>

-----------------------------------------------------------------------------
(***************************************************************************)
(* Anchors: the number of a sensor and the carrier it was read from.       *)
(***************************************************************************)
NoAnchor == [from |-> "nothing", number |-> None]

AnchorOf(s) == IF NameNo[s] # None THEN [from |-> "name", number |-> NameNo[s]]
               ELSE IF PathNo[s] # None THEN [from |-> "path", number |-> PathNo[s]]
               ELSE NoAnchor

Claiming(sensors, n) == {s \in sensors : AnchorOf(s).number = n}

\* A tachometer and a control whose number comes from different carriers.
Mismatched(tachs, controls) == \E t \in tachs, c \in controls : AnchorOf(t) # AnchorOf(c)

\* Only an unambiguous pairing leaves the control writable.
Ambiguous(tachs, controls) ==
    \/ Cardinality(tachs) > 1
    \/ Cardinality(controls) > 1
    \/ Mismatched(tachs, controls)

\* The first claimant.  Which one that is, is the tree's order; as long as no two
\* sensors of a kind on one node carry one number, there is but one.
First(sensors) == IF sensors = {} THEN {} ELSE {CHOOSE s \in sensors : TRUE}

(***************************************************************************)
(* fan_channels of one node: one channel per number, then one for every    *)
(* sensor that has none.  A channel is [number, tach, control, withheld];  *)
(* the sets hold the first claimant, or nobody.                            *)
(***************************************************************************)
FanChannels(hw, shown) ==
    LET tachs    == {t \in Tachs \cap shown : HwOf[t] = hw}
        controls == {c \in Controls \cap shown : HwOf[c] = hw}
        numbers  == {AnchorOf(s).number : s \in tachs \cup controls} \ {None}
    IN  {[number |-> n, tach |-> First(Claiming(tachs, n)),
          control |-> First(Claiming(controls, n)),
          withheld |-> Ambiguous(Claiming(tachs, n), Claiming(controls, n))] : n \in numbers}
        \cup {[number |-> None, tach |-> {t}, control |-> {}, withheld |-> FALSE] :
                 t \in Claiming(tachs, None)}
        \cup {[number |-> None, tach |-> {}, control |-> {c}, withheld |-> TRUE] :
                 c \in Claiming(controls, None)}

\* A channel is a pump if either of its sensors is named one.
TypeOf(channel) ==
    IF (channel.tach \cup channel.control) \cap Pumps # {} THEN "pump" ELSE "fan"

\* Mutant of ChannelKey: the position of the node in the tree, as it once was.
ChannelKeyByPosition(hw, channel, slot) ==
    [base |-> slot, number |-> channel.number,
     sensor |-> IF channel.number # None THEN {} ELSE channel.tach \cup channel.control]

\* hardware_key and channel_key: the node's own path, then the number, or the
\* sensor that defines a channel without one.  Position is no part of it.
ChannelKey(hw, channel, slot) ==
    [base |-> KeyOf[hw], number |-> channel.number,
     sensor |-> IF channel.number # None THEN {} ELSE channel.tach \cup channel.control]

(***************************************************************************)
(* map_tree.  Ids are claimed in tree order; a key that is taken already   *)
(* is made unique by the node's position.  A channel with a withheld       *)
(* control and no tachometer has no capability and is no device.           *)
(***************************************************************************)
Slot(hw, order) == CHOOSE n \in DOMAIN order : order[n] = hw

PlainId(hw, channel, order) ==
    [type |-> TypeOf(channel), key |-> ChannelKey(hw, channel, Slot(hw, order)), slot |-> None]

ClaimedBefore(hw, channel, t) ==
    \E other \in Hardware : /\ Slot(other, t.order) < Slot(hw, t.order)
                            /\ \E ch \in FanChannels(other, t.shown) :
                                  PlainId(other, ch, t.order) = PlainId(hw, channel, t.order)

Claim(hw, channel, t) ==
    IF ClaimedBefore(hw, channel, t)
    THEN [PlainId(hw, channel, t.order) EXCEPT !.slot = Slot(hw, t.order)]
    ELSE PlainId(hw, channel, t.order)

Device(hw, channel, t) ==
    [id |-> Claim(hw, channel, t), tach |-> channel.tach,
     control |-> IF channel.withheld THEN {} ELSE channel.control]

MapTree(t) ==
    {d \in UNION {{Device(hw, ch, t) : ch \in FanChannels(hw, t.shown)} : hw \in Hardware} :
        d.tach \cup d.control # {}}

ControlOf(devices, id) == UNION {d.control : d \in {e \in devices : e.id = id}}

-----------------------------------------------------------------------------
Trees == [shown : {Sensors \ gone : gone \in SUBSET Unsteady},
          order : {o \in [1 .. Cardinality(Hardware) -> Hardware] :
                      \A i, j \in DOMAIN o : o[i] = o[j] => i = j}]

NoId == [type |-> "none", key |-> [base |-> None, number |-> None, sensor |-> {}], slot |-> None]
Idle == [step |-> "idle", id |-> NoId, control |-> {}, want |-> 0]

LhmTypeOK ==
    /\ web \in Trees /\ up \in BOOLEAN
    /\ duty \in [Controls -> {Firmware} \cup 0 .. 100]
    /\ \A d, e \in mapping : d.id = e.id => d = e
    /\ call.step \in {"idle", "set", "get"} /\ call.control \subseteq Controls
    /\ report \in {"nothing", "applied", "unconfirmed", "rejected", "released"}

LhmInit ==
    /\ web \in Trees /\ up \in BOOLEAN
    /\ duty = [c \in Controls |-> Firmware]
    /\ mapping = {} /\ call = Idle /\ report = "nothing" /\ meant = {}

\* refresh: a fetch that succeeds replaces the mapping, one that fails keeps it.
Fetched == IF up THEN MapTree(web) ELSE mapping

\* The tachometers that are read under each id.
Read(devices) == UNION {{<<d.id, t>> : t \in d.tach} : d \in devices}

\* probe, discover and read_all: one fetch, and a state for every device of it.
\* state_from_tree reads each capability from the sensor the mapping names.
Poll ==
    /\ call.step = "idle" /\ mapping' = Fetched
    /\ meant' = IF up THEN meant \cup Read(mapping') ELSE meant
    /\ report' = "nothing" /\ UNCHANGED <<web, up, duty, call>>

(***************************************************************************)
(* write: fetch the tree, resolve the channel in it, set it, read it back. *)
(* Each is an HTTP request of its own.                                     *)
(***************************************************************************)
WriteFetch(id, want) ==
    /\ call.step = "idle" /\ mapping' = Fetched
    /\ LET control == ControlOf(mapping', id) IN
       IF up /\ control # {}
       THEN /\ call' = [step |-> "set", id |-> id, control |-> control, want |-> want]
            /\ report' = "nothing"
       ELSE report' = "rejected" /\ UNCHANGED call
    /\ UNCHANGED <<web, up, duty, meant>>

\* set_sensor.  The server may refuse; it may also accept, and the chip ignore
\* what it was told.
WriteSet ==
    /\ call.step = "set"
    /\ \/ call' = Idle /\ report' = "rejected" /\ UNCHANGED <<duty, meant>>
       \/ /\ up /\ call' = [call EXCEPT !.step = "get"] /\ report' = "nothing"
          /\ \/ duty' = [c \in Controls |-> IF c \in call.control THEN call.want ELSE duty[c]]
             \/ UNCHANGED duty
          /\ meant' = meant \cup {<<call.id, c>> : c \in call.control}
    /\ UNCHANGED <<web, up, mapping>>

\* Mutant of Judged: what the server answered to the request is believed.
JudgedByTheAnswer(answer, want) == "applied"

\* What the value that was read back says of the value that was asked for.
Judged(answer, want) ==
    IF answer = NotShown THEN "unconfirmed"
    ELSE IF answer - want > Tolerance \/ want - answer > Tolerance THEN "rejected"
    ELSE "applied"

\* read_sensor: unreachable and `N/A` are both no answer.  A channel the firmware
\* drives reports some duty of its own.
WriteGet ==
    /\ call.step = "get" /\ call' = Idle
    /\ \E answer \in {NotShown} \cup {duty[c] : c \in {d \in call.control : up}} :
          report' = Judged(answer, call.want)
    /\ UNCHANGED <<web, up, duty, mapping, meant>>

\* shutdown: SetDefault for every control of the last mapping.  Those that fail
\* are logged; the answer is Ok.
LhmShutdown ==
    /\ call.step = "idle" /\ report' = "released"
    /\ \E freed \in SUBSET UNION {d.control : d \in mapping} :
          /\ freed # {} => up
          /\ duty' = [c \in Controls |-> IF c \in freed THEN Firmware ELSE duty[c]]
    /\ UNCHANGED <<web, up, mapping, call, meant>>

(***************************************************************************)
(* The other program: it is closed and opened, shows its nodes in another  *)
(* order, loses and regains a sensor; a vendor tool sets a channel.        *)
(***************************************************************************)
ServerTurns == up' = ~up /\ UNCHANGED <<web, duty, mapping, call, report, meant>>
TreeChanges == web' \in Trees /\ UNCHANGED <<up, duty, mapping, call, report, meant>>
VendorSets(c, d) == call.step = "get" /\ duty' = [duty EXCEPT ![c] = d]
                    /\ UNCHANGED <<web, up, mapping, call, report, meant>>

LhmNext ==
    \/ Poll \/ WriteSet \/ WriteGet \/ LhmShutdown
    \/ \E d \in mapping, p \in RuleDuties : WriteFetch(d.id, p)
    \/ ServerTurns \/ TreeChanges
    \/ \E c \in call.control, d \in VendorDuties : VendorSets(c, d)

-----------------------------------------------------------------------------
\* A device id, once it has been read or driven, never comes to mean another
\* tachometer or another control, however the tree is re-ordered and whichever
\* sensors drop out and return (channel_key, hardware_key).
IdKeepsItsChannel ==
    \A a, b \in meant : a[1] = b[1] /\ a[2] # b[2] =>
        {a[2], b[2]} \cap Tachs # {} /\ {a[2], b[2]} \cap Controls # {}

\* A control that can be written stands beside the tachometer of the very fan it
\* drives: over every set of sensors left in the tree no coincidence of numbers
\* pairs two fans (Anchor, fan_channels).
PairsAreReal ==
    \A d \in mapping : \A t \in d.tach, c \in d.control : Fan[t] = Fan[c]

\* The two together: what an id names, and what it pairs, is one fan.
MappingIsSound == IdKeepsItsChannel /\ PairsAreReal

\* "Applied" is only said of a value the chip held when it was asked, not of one
\* the server accepted: not with a chip that ignores writes, a vendor tool that
\* sets the channel in between, nor a server that is gone (write, Unconfirmed).
AppliedWasHeld ==
    [][call.step = "get" /\ call'.step = "idle" /\ report' = "applied" =>
          \A c \in call.control : duty[c] \in (call.want - Tolerance) .. (call.want + Tolerance)]_lhm
=============================================================================
