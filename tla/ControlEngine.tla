--------------------------- MODULE ControlEngine ----------------------------
(***************************************************************************)
(* The automation engine's control responsibility (engine.rs): which rule  *)
(* holds which output channel, the handovers owed for channels a rule left,*)
(* the tick that settles them and drives the rules, the user operations    *)
(* that interleave with it, and the record that carries unsettled          *)
(* responsibility over a crash (recovery.rs).                              *)
(*                                                                         *)
(* A step is a section of the tick between two `await`s, which are its     *)
(* hardware writes, or one pass over one item or rule.  User operations    *)
(* come from other threads (the desktop's commands, the CLI), take the     *)
(* same locks one by one and never the tick's, so where Overlapping allows *)
(* it they run between any two of those steps.  What a curve computes, and *)
(* whether a rule is due, is a choice of the environment.                  *)
(***************************************************************************)
EXTENDS HandoverBook, FiniteSets

CONSTANTS
    Rules,           \* rule ids, numbered in order of precedence
    Channels,        \* (device, capability) pairs
    None,            \* "no such thing"
    MaxUnconfirmed,  \* MAX_CONSECUTIVE_UNCONFIRMED
    UserOps,         \* which operations the environment performs
    MaxEdits,        \* bound on the user operations of a behaviour
    MaxCrashes,      \* bound on its crashes and shutdowns
    Overlapping      \* may a user operation run while a tick is under way?

RuleConfig == [enabled : BOOLEAN, target : Channels]
Hold       == [channel : Channels, confirmed : BOOLEAN]

ASSUME EngineAssumption ==
    /\ Rules \subseteq Nat /\ IsFiniteSet(Rules)
    /\ IsFiniteSet(Channels)
    /\ None \notin RuleConfig /\ None \notin Hold
    /\ None \notin Rules /\ None \notin Channels
    /\ MaxUnconfirmed \in Nat \ {0}
    /\ UserOps \subseteq {"save", "delete", "delete_fails", "retry", "reload",
                          "automation", "dry_run", "save_fails"}
    /\ MaxEdits \in Nat /\ MaxCrashes \in Nat /\ Overlapping \in BOOLEAN

VARIABLES
    rules,        \* the active set: rule id -> its configuration, or None
    files,        \* the rule files on disk
    memory,       \* RuleState of each rule: what it holds, unconfirmed writes
    book,         \* HandoverBook.open, one queue per channel
    phase,        \* where the tick is
    todo,         \* the handovers this tick still visits, as snapshotted
    plan,         \* the rules this tick still visits, and their snapshot target
    job,          \* the write in flight
    record,       \* control-state.json
    dirty,        \* the record is out of date
    persistError, \* the last attempt to write it failed
    live,         \* the process is running
    automation,   \* settings.automation_enabled
    dryRun,       \* settings.dry_run
    mover,        \* the rule whose write last may have moved the channel, or
                  \* None once it was seen at the fail-safe duty (history)
    tries,        \* fail-safe writes to the channel since the environment
                  \* last interfered (history)
    rest,         \* ticks since the last of them (history)
    edits, crashes

config   == <<rules, files>>
pass     == <<phase, todo, plan, job>>
disk     == <<record, dirty, persistError>>
settings == <<automation, dryRun>>
hardware == <<mover, tries, rest>>
bounds   == <<edits, crashes>>
vars == <<config, memory, book, pass, disk, live, settings, hardware, bounds>>

-----------------------------------------------------------------------------
(* Rules and what they hold *)

Memory == [hold : Hold \cup {None}, unconfirmed : 0 .. MaxUnconfirmed - 1]
FreshMemory == [hold |-> None, unconfirmed |-> 0]

Holding(c, seen) == [channel |-> c, confirmed |-> seen]

Drives(r, c) == rules[r] # None /\ rules[r].enabled /\ rules[r].target = c

\* conflicting_rule: no other enabled rule has this output.
OutputFree(r, c) == \A o \in Rules \ {r} : ~Drives(o, c)

\* claimant_of: the first enabled rule that targets the channel.
IsClaimant(r, c) == Drives(r, c) /\ \A o \in Rules : Drives(o, c) => r <= o

\* Mutant of Claimed: a rule claims a channel only once it has moved it.
ClaimedIfHeld(c) ==
    \E r \in Rules : IsClaimant(r, c) /\ memory[r].hold # None

\* An enabled rule has the channel for its output, driving it or not.
Claimed(c) == \E r \in Rules : IsClaimant(r, c)

\* confirmed_owner_of: that rule holds the channel and saw its value.
TakenOver(c) ==
    \E r \in Rules : IsClaimant(r, c) /\ memory[r].hold = Holding(c, TRUE)

\* Mutant of StandDown: loaded rules are taken as they are.
StandDownNever(set) == set

\* resolve_loaded_conflicts: a later rule on an owned output is switched off,
\* in memory only.
StandDown(set) ==
    [r \in Rules |->
        IF set[r] # None /\ \E o \in Rules : /\ o < r
                                             /\ set[o] # None
                                             /\ set[o].enabled
                                             /\ set[o].target = set[r].target
        THEN [set[r] EXCEPT !.enabled = FALSE]
        ELSE set[r]]

-----------------------------------------------------------------------------
(* The record on disk *)

EmptyRecord == [items |-> [c \in Channels |-> <<>>],
                holds |-> [r \in Rules |-> None]]

\* Mutant of RecordOf: only the handovers, no unconfirmed hold.
RecordOfHandovers(b, m) == [items |-> b, holds |-> [r \in Rules |-> None]]

\* build_recovery_record: every open handover, and every hold whose last write
\* was never confirmed.
RecordOf(b, m) ==
    [items |-> b,
     holds |-> [r \in Rules |->
                   IF m[r].hold # None /\ ~m[r].hold.confirmed
                   THEN m[r].hold.channel ELSE None]]

Recorded(c) == record.items[c] # <<>> \/ \E r \in Rules : record.holds[r] = c

\* persist_control_state: temp file, then rename; an error keeps the old file.
Persist(b, m) ==
    \/ /\ record' = RecordOf(b, m)
       /\ dirty' = FALSE
       /\ persistError' = FALSE
    \/ /\ "save_fails" \in UserOps
       /\ dirty' = TRUE
       /\ persistError' = TRUE
       /\ UNCHANGED record

\* flush_control_state
Flush(isDirty, b, m) ==
    IF isDirty THEN Persist(b, m)
    ELSE dirty' = FALSE /\ UNCHANGED <<record, persistError>>

NoFlush(isDirty) == dirty' = isDirty /\ UNCHANGED <<record, persistError>>

-----------------------------------------------------------------------------
(* The tick: unsettled handovers first *)

AnyOpen(b) == \E c \in Channels : IsOpen(b[c])

Unverified == {c \in Channels :
    \E i \in DOMAIN book[c] : book[c][i].state = "needs_verification"}

CountedDown == [c \in Channels |-> CountDown(book[c])]

\* verify_recovered_state, when `gone` no longer resolve to a writable control.
VerifiedBook(gone) ==
    [c \in Channels |->
        IF c \notin Unverified THEN CountDown(book[c])
        ELSE IF c \in gone THEN [CountDown(book[c]) EXCEPT ![1] = FailRecovered(@)]
        ELSE [CountDown(book[c]) EXCEPT ![1] = Verified(@)]]

Rested == rest' = [c \in Channels |-> Smaller(rest[c] + 1, RetryTicks)]

\* The tick works on a copy of the open items taken when the pass starts.
StartPass(b) ==
    /\ live /\ phase = "idle" /\ automation
    /\ book' = b
    /\ todo' = [c \in Channels |-> [i \in DOMAIN b[c] |-> b[c][i].state]]
    /\ phase' = "handovers"
    /\ NoFlush(dirty \/ AnyOpen(b))
    /\ Rested
    /\ UNCHANGED <<config, memory, plan, job, live, settings, mover, tries, bounds>>

BeginTick == \E gone \in SUBSET Unverified : StartPass(VerifiedBook(gone))

\* Readings are stale: recovered items wait for fresh ones.
BeginStaleTick == Unverified # {} /\ StartPass(CountedDown)

\* tick_inner with automation switched off: the tick is counted, no more.
DisabledTick ==
    /\ live /\ phase = "idle" /\ ~automation
    /\ book' = CountedDown
    /\ Rested
    /\ UNCHANGED <<config, memory, pass, disk, live, settings, mover, tries, bounds>>

Visiting(c) ==
    /\ live /\ phase = "handovers"
    /\ todo[c] # <<>> /\ IsOpen(book[c])
    /\ UNCHANGED <<config, memory, plan, disk, live, settings, hardware, bounds>>

Visited(c) == todo' = [todo EXCEPT ![c] = Tail(@)] /\ UNCHANGED <<phase, job>>

\* 1. An enabled rule really took the channel over: nothing is owed.
Supersede(c) ==
    /\ Visiting(c) /\ TakenOver(c)
    /\ book' = [book EXCEPT ![c] = Tail(@)]
    /\ Visited(c)

\* 2. Claimed but not driven: keep it owed, write nothing, wait so long.
AwaitOwner(c) ==
    LET marked == MarkAwaiting(Head(book[c])) IN
    /\ Visiting(c) /\ Claimed(c) /\ ~TakenOver(c)
    /\ book' = [book EXCEPT ![c][1] =
                   IF marked.claimedTicks > OwnerWaitTicks
                   THEN ParkUnmetClaim(marked) ELSE marked]
    /\ Visited(c)

\* 3. No claimant: an item stopped by a claim resumes, any other that is not
\*    pending stays parked.
Resumed(c) ==
    IF Head(todo[c]) # "pending" /\ ClaimReleasable(Head(book[c]))
    THEN ReleaseClaim(Head(book[c])) ELSE Head(book[c])

MayAttempt(c) ==
    /\ Head(todo[c]) = "pending" \/ ClaimReleasable(Head(book[c]))
    /\ IsDue(Resumed(c))

LeaveParked(c) ==
    /\ Visiting(c) /\ ~Claimed(c) /\ ~MayAttempt(c)
    /\ book' = [book EXCEPT ![c][1] = Resumed(c)]
    /\ Visited(c)

\* 4, 5. Due: the fail-safe duty is written, and the tick waits for the answer.
AttemptHandover(c) ==
    /\ Visiting(c) /\ ~Claimed(c) /\ MayAttempt(c)
    /\ book' = [book EXCEPT ![c][1] = Resumed(c)]
    /\ phase' = "safing"
    /\ job' = [rule |-> None, channel |-> c, state |-> FreshMemory,
               simulated |-> dryRun]
    /\ UNCHANGED todo

\* The outcomes of Runtime::write_value.  A dry run never reaches the device
\* and is always reported as simulated.
Outcomes == IF job.simulated THEN {"simulated"}
            ELSE {"applied", "unconfirmed", "failed"}

FinishHandover(outcome) ==
    LET c == job.channel IN
    /\ live /\ phase = "safing" /\ outcome \in Outcomes
    /\ IF outcome \in {"applied", "simulated"}
       THEN /\ book' = [book EXCEPT ![c] = Tail(@)]
            /\ tries' = [tries EXCEPT ![c] = 0]
            /\ UNCHANGED rest
       ELSE /\ book' = [book EXCEPT ![c][1] = RecordAttempt(@)]
            /\ tries' = [tries EXCEPT ![c] = Smaller(@ + 1, 2 * MaxAttempts + 1)]
            /\ rest' = [rest EXCEPT ![c] = 0]
    /\ mover' = IF outcome = "applied" THEN [mover EXCEPT ![c] = None] ELSE mover
    /\ todo' = [todo EXCEPT ![c] = Tail(@)]
    /\ phase' = "handovers" /\ job' = None
    /\ UNCHANGED <<config, memory, plan, disk, live, settings, bounds>>

-----------------------------------------------------------------------------
(* The tick: then the rules *)

\* The rules of this tick are a copy as well; of two enabled rules on one
\* output only the first is run.
BeginRules ==
    /\ live /\ phase = "handovers" /\ \A c \in Channels : todo[c] = <<>>
    /\ plan' = [r \in Rules |->
                   IF rules[r] # None /\ IsClaimant(r, rules[r].target)
                   THEN rules[r].target ELSE None]
    /\ phase' = "rules"
    /\ UNCHANGED <<config, memory, book, todo, job, disk, live, settings,
                   hardware, bounds>>

\* Not due, target unavailable, or an evaluation that asks for no write.
SkipRule(r) ==
    /\ live /\ phase = "rules" /\ plan[r] # None
    /\ plan' = [plan EXCEPT ![r] = None]
    /\ UNCHANGED <<config, memory, book, phase, todo, job, disk, live,
                   settings, hardware, bounds>>

\* run_rule works on a copy of the rule's state, taken before the write.
WriteRule(r) ==
    /\ live /\ phase = "rules" /\ plan[r] # None
    /\ phase' = "writing"
    /\ job' = [rule |-> r, channel |-> plan[r], state |-> memory[r],
               simulated |-> dryRun]
    /\ UNCHANGED <<config, memory, book, todo, plan, disk, live, settings,
                   hardware, bounds>>

RuleDone(r) == /\ phase' = "rules" /\ job' = None
               /\ plan' = [plan EXCEPT ![r] = None]

Moved == mover' = [mover EXCEPT ![job.channel] = job.rule]

\* remember: the copy replaces whatever the rule's state has become.
RuleApplied(outcome) ==
    /\ live /\ phase = "writing"
    /\ outcome \in Outcomes \cap {"applied", "simulated"}
    /\ memory' = [memory EXCEPT ![job.rule] =
                     [hold |-> Holding(job.channel, TRUE), unconfirmed |-> 0]]
    /\ IF outcome = "applied" THEN Moved ELSE UNCHANGED mover
    /\ RuleDone(job.rule)
    /\ UNCHANGED <<config, book, todo, disk, live, settings, tries, rest, bounds>>

\* handle_write_failure: the rule stays answerable for the channel, and its
\* policy is either a second, fail-safe, write or to hold.
WriteFailed(state) ==
    \/ RuleDone(job.rule)
    \/ phase' = "policy" /\ job' = [job EXCEPT !.state = state] /\ UNCHANGED plan

RuleNotConfirmed(outcome) ==
    LET count == IF outcome = "unconfirmed" THEN job.state.unconfirmed + 1
                                            ELSE job.state.unconfirmed
        gaveUp == count >= MaxUnconfirmed
        state == [hold |-> Holding(job.channel, FALSE),
                  unconfirmed |-> IF gaveUp THEN 0 ELSE count]
        learned == [memory EXCEPT ![job.rule] = state]
    IN
    /\ live /\ phase = "writing"
    /\ outcome \in Outcomes \cap {"unconfirmed", "failed"}
    /\ memory' = learned
    /\ Moved
    /\ Flush(TRUE, book, learned)
    /\ IF outcome = "failed" \/ gaveUp THEN WriteFailed(state)
                                       ELSE RuleDone(job.rule)
    /\ UNCHANGED <<config, book, todo, live, settings, tries, rest, bounds>>

\* Whatever the second write came to, the hold stays unconfirmed.
FinishPolicy ==
    /\ live /\ phase = "policy"
    /\ memory' = [memory EXCEPT ![job.rule] = job.state]
    /\ RuleDone(job.rule)
    /\ UNCHANGED <<config, book, todo, disk, live, settings, hardware, bounds>>

EndTick ==
    /\ live /\ phase = "rules" /\ \A r \in Rules : plan[r] = None
    /\ Flush(dirty, book, memory)
    /\ phase' = "idle"
    /\ UNCHANGED <<config, memory, book, todo, plan, job, live, settings,
                   hardware, bounds>>

-----------------------------------------------------------------------------
(* User operations *)

UserOp(op) ==
    /\ live /\ op \in UserOps /\ edits < MaxEdits
    /\ Overlapping \/ phase = "idle"
    /\ edits' = edits + 1
    /\ tries' = [c \in Channels |-> 0]
    /\ UNCHANGED <<pass, live, mover, rest, crashes>>

\* hand_over: queue the channels that lost the rule that really drove them.
QueuedOn(left) ==
    [c \in Channels |-> IF c \in left THEN Queue(book[c]) ELSE book[c]]

\* Mutant of Leaves: a rule that is switched off keeps its channel.
LeavesByMoving(old, new) ==
    old # None /\ new # None /\ old.target # new.target

\* RuleChange::leaves_control, and the channel it leaves behind: the one the
\* rule really holds, which after a retarget must be its previous target.
Leaves(old, new) ==
    old # None /\ new # None
    /\ (old.target # new.target \/ old.enabled # new.enabled)

LeftBehind(old, new, hold) ==
    IF /\ Leaves(old, new) /\ hold # None
       /\ old.target # new.target => hold.channel = old.target
    THEN {hold.channel} ELSE {}

\* save_rule, and set_rule_enabled which goes through it.
SaveRule(r, new) ==
    LET old  == rules[r]
        left == LeftBehind(old, new, memory[r].hold)
        owed == QueuedOn(left)
    IN
    /\ UserOp("save") /\ new # old
    /\ new.enabled => OutputFree(r, new.target)
    /\ rules' = [rules EXCEPT ![r] = new]
    /\ files' = [files EXCEPT ![r] = new]
    /\ book' = owed
    /\ IF Leaves(old, new)
       THEN /\ memory' = [memory EXCEPT ![r].hold = None]
            /\ Flush(dirty \/ left # {}, owed, memory)
       ELSE UNCHANGED memory /\ NoFlush(dirty)
    /\ UNCHANGED settings

\* delete_rule
DeleteRule(r) ==
    LET hold == memory[r].hold
        owed == QueuedOn(IF hold = None THEN {} ELSE {hold.channel})
        forgot == [memory EXCEPT ![r] = FreshMemory]
    IN
    /\ UserOp("delete")
    /\ rules[r] # None \/ files[r] # None
    /\ rules' = [rules EXCEPT ![r] = None]
    /\ files' = [files EXCEPT ![r] = None]
    /\ memory' = forgot
    /\ book' = owed
    /\ Flush(dirty \/ hold # None, owed, forgot)
    /\ UNCHANGED settings

\* delete_rule, when the rule file cannot be removed: it returns early.
DeleteRuleFails(r) ==
    /\ UserOp("delete_fails") /\ rules[r] # None
    /\ rules' = [rules EXCEPT ![r] = None]
    /\ UNCHANGED <<files, memory, book, disk, settings>>

\* retry_failed_handovers
RetryFailed ==
    /\ UserOp("retry")
    /\ book' = [c \in Channels |-> RearmAll(book[c])]
    /\ UNCHANGED <<config, memory, disk, settings>>

\* retry_failed_handover: one channel.
RetryFailedOne(c) ==
    /\ UserOp("retry") /\ IsOpen(book[c])
    /\ book' = [book EXCEPT ![c][1] = Rearm(@)]
    /\ UNCHANGED <<config, memory, disk, settings>>

\* load_rules in a running engine, after one rule file was changed, added or
\* removed by hand.  The record is last written by the last path that made it
\* dirty: a removed file after every state was reconciled, a changed one
\* before that rule's own hold is forgotten.
Reload(r, new) ==
    LET loaded  == [files EXCEPT ![r] = new]
        left    == [o \in Rules |-> LeftBehind(rules[o], loaded[o], memory[o].hold)]
        removed == {o \in Rules : rules[o] # None /\ loaded[o] = None
                                  /\ memory[o].hold # None}
        owed    == QueuedOn((UNION {left[o] : o \in Rules})
                            \cup {memory[o].hold.channel : o \in removed})
        kept    == [o \in Rules |->
                       IF loaded[o] = None THEN FreshMemory
                       ELSE IF Leaves(rules[o], loaded[o])
                       THEN [memory[o] EXCEPT !.hold = None] ELSE memory[o]]
        queued  == {o \in Rules : left[o] # {}}
    IN
    /\ UserOp("reload") /\ new # files[r]
    /\ files' = loaded
    /\ rules' = StandDown(loaded)
    /\ memory' = kept
    /\ book' = owed
    /\ IF removed # {} \/ queued = {}
       THEN Flush(dirty \/ removed # {}, owed, kept)
       ELSE \E last \in queued :
               Flush(TRUE, owed, [kept EXCEPT ![last] = memory[last]])
    /\ UNCHANGED settings

\* Runtime::update_settings, the two switches the engine reads.
SetAutomation ==
    /\ UserOp("automation") /\ automation' = ~automation
    /\ UNCHANGED <<config, memory, book, disk, dryRun>>

SetDryRun ==
    /\ UserOp("dry_run") /\ dryRun' = ~dryRun
    /\ UNCHANGED <<config, memory, book, disk, automation>>

-----------------------------------------------------------------------------
(* The process ends, and another starts over the same directory *)

Gone ==
    /\ live /\ crashes < MaxCrashes
    /\ live' = FALSE /\ crashes' = crashes + 1
    /\ rules' = [r \in Rules |-> None]
    /\ memory' = [r \in Rules |-> FreshMemory]
    /\ book' = [c \in Channels |-> <<>>]
    /\ phase' = "idle" /\ job' = None
    /\ todo' = [c \in Channels |-> <<>>]
    /\ plan' = [r \in Rules |-> None]
    /\ UNCHANGED <<settings, edits, tries, rest>>

\* A crash may hit while a rule's write is in flight: it may have landed.
Crash ==
    /\ Gone
    /\ \/ UNCHANGED mover
       \/ phase = "writing" /\ ~job.simulated /\ Moved
    /\ NoFlush(FALSE) /\ UNCHANGED files

\* Or between the two files an edit writes: the rule's is done (RuleStore::save
\* or delete), the record is not.
CrashInEdit(r, new) ==
    /\ Gone
    /\ Overlapping \/ phase = "idle"
    /\ IF new = None THEN "delete" \in UserOps
       ELSE "save" \in UserOps /\ (new.enabled => OutputFree(r, new.target))
    /\ files' = [files EXCEPT ![r] = new]
    /\ NoFlush(FALSE) /\ UNCHANGED mover

\* AutomationEngine::stop, then the process exits.
Stop ==
    /\ Gone /\ phase = "idle"
    /\ Flush(dirty \/ AnyOpen(book), book, memory)
    /\ UNCHANGED <<files, mover>>

\* An unconfirmed hold comes back as an item that is still to be verified.
HoldItem == [FreshItem EXCEPT !.state = "needs_verification", !.cooldown = 0]

\* Mutant of Recovered: a hold whose rule still has a file is left to it.
RecoveredUnruled(active) ==
    [c \in Channels |->
        LET orphans == {r \in Rules : record.holds[r] = c /\ active[r] = None}
        IN [i \in DOMAIN record.items[c] |-> Restore(record.items[c][i])]
           \o [i \in 1 .. Cardinality(orphans) |-> HoldItem]]

\* recover_control_state: what the record says is owed, and every hold whose
\* rule no longer drives that channel.
Recovered(active) ==
    [c \in Channels |->
        LET orphans == {r \in Rules : /\ record.holds[r] = c
                                      /\ ~ /\ active[r] # None
                                           /\ active[r].enabled
                                           /\ active[r].target = c}
        IN [i \in DOMAIN record.items[c] |-> Restore(record.items[c][i])]
           \o [i \in 1 .. Cardinality(orphans) |-> HoldItem]]

\* A new process: load_rules into an empty engine, then recovery.
Restart ==
    LET active == StandDown(files) IN
    /\ ~live /\ live' = TRUE
    /\ rules' = active
    /\ book' = Recovered(active)
    /\ dirty' = AnyOpen(Recovered(active))
    /\ persistError' = FALSE
    /\ tries' = [c \in Channels |-> 0]
    /\ UNCHANGED <<files, memory, pass, record, settings, mover, rest, bounds>>

-----------------------------------------------------------------------------
(* Specification *)

Init ==
    /\ files \in [Rules -> RuleConfig \cup {None}]
    /\ StandDown(files) = files
    /\ rules = files
    /\ memory = [r \in Rules |-> FreshMemory]
    /\ book = [c \in Channels |-> <<>>]
    /\ phase = "idle" /\ job = None
    /\ todo = [c \in Channels |-> <<>>]
    /\ plan = [r \in Rules |-> None]
    /\ record = EmptyRecord /\ dirty = FALSE /\ persistError = FALSE
    /\ live = TRUE /\ automation = TRUE /\ dryRun = FALSE
    /\ mover = [c \in Channels |-> None]
    /\ tries = [c \in Channels |-> 0] /\ rest = [c \in Channels |-> RetryTicks]
    /\ edits = 0 /\ crashes = 0

HandoverStep ==
    \/ \E c \in Channels : \/ Supersede(c) \/ AwaitOwner(c)
                           \/ LeaveParked(c) \/ AttemptHandover(c)
    \/ \E o \in {"applied", "simulated", "unconfirmed", "failed"} :
           FinishHandover(o)

RuleStep ==
    \/ \E r \in Rules : SkipRule(r) \/ WriteRule(r)
    \/ \E o \in {"applied", "simulated"} : RuleApplied(o)
    \/ \E o \in {"unconfirmed", "failed"} : RuleNotConfirmed(o)
    \/ FinishPolicy

Tick == \/ BeginTick \/ BeginStaleTick \/ DisabledTick
        \/ HandoverStep \/ BeginRules \/ RuleStep \/ EndTick

UserRearm == RetryFailed \/ \E c \in Channels : RetryFailedOne(c)

User ==
    \/ \E r \in Rules : \/ \E new \in RuleConfig : SaveRule(r, new)
                        \/ \E new \in RuleConfig \cup {None} : Reload(r, new)
                        \/ DeleteRule(r) \/ DeleteRuleFails(r)
    \/ UserRearm
    \/ SetAutomation \/ SetDryRun

Ends == \/ Crash \/ Stop
        \/ \E r \in Rules : \E new \in RuleConfig \cup {None} : CrashInEdit(r, new)

Next == Tick \/ User \/ Ends \/ Restart

Spec == Init /\ [][Next]_vars

-----------------------------------------------------------------------------
(* Properties *)

Job == [rule : Rules \cup {None}, channel : Channels, state : Memory,
        simulated : BOOLEAN]

ConfigOK ==
    /\ rules \in [Rules -> RuleConfig \cup {None}]
    /\ files \in [Rules -> RuleConfig \cup {None}]
    /\ memory \in [Rules -> Memory]
    /\ live \in BOOLEAN /\ automation \in BOOLEAN /\ dryRun \in BOOLEAN
    /\ edits \in 0 .. MaxEdits /\ crashes \in 0 .. MaxCrashes

PassOK ==
    /\ phase \in {"idle", "handovers", "safing", "rules", "writing", "policy"}
    /\ todo \in [Channels -> Seq(OpenStates)]
    /\ plan \in [Rules -> Channels \cup {None}]
    /\ job \in Job \cup {None}

DiskOK ==
    /\ record \in [items : [Channels -> Seq(Item)],
                   holds : [Rules -> Channels \cup {None}]]
    /\ dirty \in BOOLEAN /\ persistError \in BOOLEAN

HardwareOK ==
    /\ mover \in [Channels -> Rules \cup {None}]
    /\ tries \in [Channels -> 0 .. 2 * MaxAttempts + 1]
    /\ rest \in [Channels -> 0 .. RetryTicks]

\* Every variable has its type: in particular no item spends an attempt or
\* waits a tick more than it may, and a rule never counts more unconfirmed
\* writes than make it give up.
TypeOK ==
    /\ ConfigOK /\ PassOK /\ DiskOK /\ HardwareOK
    /\ book \in [Channels -> Seq(Item)]

\* On the engine's books; on disk, where the next process will find it, while
\* none runs.
Owed(c) == IsOpen(IF live THEN book[c] ELSE Recovered(StandDown(files))[c])

\* The rule drives the channel, or will as soon as the process is back.
Assigned(r, c) ==
    LET set == IF live THEN rules ELSE StandDown(files) IN
    set[r] # None /\ set[r].enabled /\ set[r].target = c

\* A channel a rule has moved is driven by that very rule, or it is owed the
\* fail-safe duty: on the book while the process runs, on disk while it does
\* not.  It is never simply left at the value a curve once asked for.
Accountable ==
    \A c \in Channels :
        mover[c] # None => Owed(c) \/ Assigned(mover[c], c)

\* What a crash would lose is on disk, or the user has been told that it is
\* not: every open handover and every write whose result was never learned.
RecordCoversOwed ==
    live /\ ~persistError =>
        /\ \A c \in Channels : IsOpen(book[c]) => Recorded(c)
        /\ \A r \in Rules :
              memory[r].hold # None /\ ~memory[r].hold.confirmed
              => record.holds[r] = memory[r].hold.channel

\* The fail-safe duty is never written under a rule that claims the channel.
NoFightWithClaimant ==
    phase = "safing" => \A r \in Rules : ~Drives(r, job.channel)

\* Two enabled rules never share an output, whatever mix of edits, reloads and
\* restarts led here.
OneRulePerOutput ==
    \A r, o \in Rules : \A c \in Channels :
        Drives(r, c) /\ Drives(o, c) => r = o

\* Left to itself, the engine stops writing to a channel that does not answer:
\* at most one resumption of a spent handover, so two budgets of attempts.
BoundedWrites == \A c \in Channels : tries[c] <= 2 * MaxAttempts

\* ... and does not hammer it meanwhile.  One write may come at once: that of
\* a handover which an unmet claim had parked, the user re-armed and the engine
\* resumes on its own, as release_claim gives it a new budget that is due.
RetryCadence ==
    \A c \in Channels :
        phase = "safing" /\ job.channel = c /\ tries[c] > 0
        => \/ rest[c] >= RetryTicks
           \/ "retry" \in UserOps /\ Head(book[c]).attempts = 0

\* One channel is one unfinished job.
OneJobPerChannel == \A c \in Channels : Len(book[c]) <= 1

\* The three together: whatever edits, retries and reloads land between and
\* inside ticks, a channel that does not answer has one job on the book, which
\* writes to it at a bounded pace and then no more.
HandoversPaced == BoundedWrites /\ RetryCadence /\ OneJobPerChannel

\* Owed, or the write to it that came last was never seen to land.
Unsettled(c) == Owed(c) \/ \E r \in Rules : memory[r].hold = Holding(c, FALSE)

\* Across edits, crashes, shutdowns and restarts, a channel that is unsettled
\* stays so until one of the two things that settle it: it was seen at the
\* fail-safe duty, or the rule that moved it last is enabled and drives it
\* (over a crash: an enabled rule will).  Unless, that is, the user was told
\* that the record could not be written.
OwedUntilSettled ==
    [][\A c \in Channels :
          Unsettled(c) /\ ~Unsettled(c)' /\ ~persistError
          => \/ mover'[c] = None
             \/ \E r \in Rules : /\ Assigned(r, c)'
                                 /\ live /\ live' => mover[c] = r]_vars

\* A handover that used up its attempts waits for the user's explicit re-arm
\* (or for a rule that takes the channel over).
SpentStaysParked ==
    [][\A c \in Channels :
          /\ live /\ live'
          /\ IsOpen(book[c]) /\ Len(book'[c]) >= Len(book[c])
          /\ BudgetSpent(Head(book[c]))
          /\ ~BudgetSpent(Head(book'[c]))
          => UserRearm]_vars

\* While the engine ticks and readings keep coming back, no handover stays
\* undecided: it is settled, or it fails where the user can see it.
Undecided(c) == IsOpen(book[c]) /\ Head(book[c]).state # "failed"
Running == live /\ automation

HandoversDecided ==
    \A c \in Channels : Undecided(c) ~> (~Undecided(c) \/ ~Running)

Fairness == WF_vars(Tick) /\ SF_vars(BeginTick)
FairSpec == Spec /\ Fairness
=============================================================================
