------------------------ MODULE ControlEngine_proofs ------------------------
(***************************************************************************)
(* Proofs about the control engine, for any rules, channels and limits.    *)
(*                                                                         *)
(* OneRulePerOutput needs nothing but the shape of a rule set.  The type   *)
(* invariant needs to know where an item stands when it is written to      *)
(* (Inv), and so does everything after it.                                 *)
(*                                                                         *)
(* Two conditions recur.  ~Overlapping: user operations wait for the tick  *)
(* to end; NoFightWithClaimant, RecordCoversOwed, Accountable and          *)
(* OwedUntilSettled are not theorems without it.  MaxCrashes = 0: the      *)
(* process did not take over the record of another, which may hold two     *)
(* items for one channel and forgets who moved it; HandoversPaced,         *)
(* SpentStaysParked and Accountable are not theorems without that.         *)
(***************************************************************************)
EXTENDS ControlEngine, SequenceTheorems, FiniteSetTheorems, TLAPS

-----------------------------------------------------------------------------
(* Sequences *)

\* The head of a queue that is not empty, and what is left of it.
LEMMA HeadAndTail ==
    ASSUME NEW S, NEW q \in Seq(S), q # <<>>
    PROVE  /\ Head(q) \in S /\ Head(q) = q[1]
           /\ Tail(q) \in Seq(S)
           /\ 1 \in 1 .. Len(q)
  BY HeadTailProperties, EmptySeq, LenProperties

\* Replacing the head keeps a queue one of such items, and not empty.
LEMMA NewHead ==
    ASSUME NEW S, NEW q \in Seq(S), q # <<>>, NEW x \in S
    PROVE  /\ [q EXCEPT ![1] = x] \in Seq(S)
           /\ [q EXCEPT ![1] = x] # <<>>
           /\ Head([q EXCEPT ![1] = x]) = x
  <1> DEFINE r == [q EXCEPT ![1] = x]
  <1>1. 1 \in 1 .. Len(q) /\ Len(q) \in Nat
    BY HeadAndTail, LenProperties
  <1>2. r \in Seq(S) /\ Len(r) = Len(q) /\ r[1] = x
    BY <1>1, ExceptSeq
  <1>3. r # <<>>
    BY <1>1, <1>2, EmptySeq
  <1>4. QED
    BY <1>2, <1>3, HeadAndTail

\* A function on the positions of a queue is a queue of the same length.
LEMMA Mapped ==
    ASSUME NEW S, NEW T, NEW q \in Seq(S), NEW f \in [DOMAIN q -> T]
    PROVE  f \in Seq(T) /\ Len(f) = Len(q) /\ (f = <<>> <=> q = <<>>)
  <1>1. Len(q) \in Nat /\ DOMAIN q = 1 .. Len(q)
    BY LenProperties
  <1>2. f \in [1 .. Len(q) -> T]
    BY <1>1
  <1>3. f \in Seq(T)
    BY <1>1, <1>2, SeqDef
  <1>4. Len(f) = Len(q)
    BY <1>1, <1>2, <1>3, LenProperties
  <1>5. QED
    BY <1>3, <1>4, EmptySeq

-----------------------------------------------------------------------------
(* Items and queues *)

\* What an item in an engine's hands satisfies beyond its type: one that may
\* still be tried has attempts left, one that waits has ticks left.
Sound == {item \in Item :
    /\ item.state \in {"pending", "awaiting_owner"} => item.attempts < MaxAttempts
    /\ item.state = "awaiting_owner" => item.claimedTicks <= OwnerWaitTicks}

\* What an item may be changed to, one field, or the fields one operation
\* changes, at a time.
LEMMA ItemFields ==
    ASSUME NEW item \in Item, NEW s \in OpenStates, NEW a \in 0 .. MaxAttempts,
           NEW w \in 0 .. OwnerWaitTicks + 1, NEW p \in BOOLEAN,
           NEW n \in 0 .. RetryTicks
    PROVE  /\ [item EXCEPT !.state = s, !.attempts = a, !.cooldown = n] \in Item
           /\ [item EXCEPT !.attempts = a, !.cooldown = n, !.state = s] \in Item
           /\ [item EXCEPT !.state = s, !.parkedByClaim = p] \in Item
           /\ [item EXCEPT !.state = s, !.cooldown = n] \in Item
           /\ [item EXCEPT !.state = s, !.claimedTicks = w] \in Item
           /\ [item EXCEPT !.claimedTicks = w] \in Item
           /\ [item EXCEPT !.state = s, !.claimedTicks = w, !.parkedByClaim = p,
                           !.attempts = a, !.cooldown = n] \in Item
  BY Zenon DEF Item

\* The values the operations assign are in range.
LEMMA Values ==
    /\ "pending" \in OpenStates /\ "needs_verification" \in OpenStates
    /\ "awaiting_owner" \in OpenStates /\ "failed" \in OpenStates
    /\ TRUE \in BOOLEAN /\ FALSE \in BOOLEAN
    /\ 0 \in 0 .. MaxAttempts /\ 0 \in 0 .. OwnerWaitTicks + 1
    /\ 1 \in 0 .. OwnerWaitTicks + 1
    /\ 0 \in 0 .. RetryTicks /\ NextTick \in 0 .. RetryTicks
    /\ RetryTicks \in 0 .. RetryTicks
    /\ 0 < MaxAttempts
  BY BookAssumption DEF OpenStates, NextTick

LEMMA FreshIsSound == FreshItem \in Sound /\ HoldItem \in Sound
  <1>1. FreshItem \in Item
    BY Values DEF FreshItem, Item
  <1>2. HoldItem \in Item
    BY <1>1, Values, ItemFields, Zenon DEF HoldItem
  <1>3. FreshItem.attempts = 0 /\ FreshItem.state = "pending"
    BY DEF FreshItem
  <1>4. HoldItem.state = "needs_verification"
    BY DEF HoldItem, FreshItem
  <1>5. QED
    BY <1>1, <1>2, <1>3, <1>4, Values DEF Sound

\* The operations on a single item keep it sound; an attempt needs one that
\* is pending.
LEMMA ItemStaysSound ==
    ASSUME NEW item \in Sound
    PROVE  /\ Verified(item) \in Sound /\ FailRecovered(item) \in Sound
           /\ Restore(item) \in Sound /\ Rearm(item) \in Sound
           /\ ReleaseClaim(item) \in Sound
           /\ item.state = "pending" => RecordAttempt(item) \in Sound
  <1>0. item \in Item /\ item.state \in OpenStates
    BY DEF Sound, Item
  <1>2. Verified(item) \in Sound /\ Rearm(item) \in Sound
    <2> DEFINE r == [item EXCEPT !.state = "pending", !.attempts = 0,
                                 !.cooldown = NextTick]
    <2>2. r \in Item
      BY <1>0, Values, ItemFields, Zenon
    <2>3. r.state = "pending" /\ r.attempts = 0
      BY <1>0 DEF Item
    <2>4. r \in Sound
      BY <2>2, <2>3, Values DEF Sound
    <2>5. Verified(item) \in Sound
      BY <2>4, Zenon DEF Verified
    <2>6. Rearm(item) \in Sound
      BY <2>4, Zenon DEF Rearm
    <2>7. QED
      BY <2>5, <2>6
  <1>3. FailRecovered(item) \in Sound
    <2> DEFINE r == [item EXCEPT !.state = "failed", !.parkedByClaim = FALSE]
    <2>2. r \in Item
      BY <1>0, Values, ItemFields, Zenon
    <2>3. r.state = "failed"
      BY <1>0 DEF Item
    <2>4. r \in Sound
      BY <2>2, <2>3 DEF Sound
    <2>5. QED
      BY <2>4, Zenon DEF FailRecovered
  <1>4. Restore(item) \in Sound
    <2> DEFINE r == [item EXCEPT !.state = "needs_verification", !.cooldown = 0]
    <2>2. r \in Item
      BY <1>0, Values, ItemFields, Zenon
    <2>3. r.state = "needs_verification"
      BY <1>0 DEF Item
    <2>4. r \in Sound
      BY <2>2, <2>3 DEF Sound
    <2>5. QED
      BY <2>4, Zenon DEF Restore
  <1>5. ReleaseClaim(item) \in Sound
    <2> DEFINE r == [item EXCEPT !.state = "pending", !.claimedTicks = 0,
                                 !.parkedByClaim = FALSE, !.attempts = 0,
                                 !.cooldown = 0]
    <2>2. r \in Item
      BY <1>0, Values, ItemFields, Zenon
    <2>3. r.state = "pending" /\ r.attempts = 0
      BY <1>0 DEF Item
    <2>4. r \in Sound
      BY <2>2, <2>3, Values DEF Sound
    <2>5. QED
      BY <2>4, Zenon DEF ReleaseClaim
  <1>6. ASSUME item.state = "pending"
        PROVE  RecordAttempt(item) \in Sound
    <2> DEFINE spent == item.attempts + 1
               next == IF spent >= MaxAttempts THEN "failed" ELSE item.state
               r == [item EXCEPT !.attempts = spent, !.cooldown = RetryTicks,
                                 !.state = next]
    <2>1. spent \in 0 .. MaxAttempts
      BY <1>6, BookAssumption DEF Sound, Item
    <2>2. next \in OpenStates
      BY <1>0, Values
    <2>3. r \in Item
      BY <1>0, <2>1, <2>2, Values, ItemFields, Zenon
    <2>4. r.state = next /\ r.attempts = spent
      BY <1>0 DEF Item
    <2>5. /\ next # "awaiting_owner"
          /\ next = "pending" => spent < MaxAttempts
      BY <1>6, <2>1, BookAssumption
    <2>6. r \in Sound
      BY <2>3, <2>4, <2>5 DEF Sound
    <2>7. QED
      BY <2>6, Zenon DEF RecordAttempt
  <1>7. QED
    BY <1>2, <1>3, <1>4, <1>5, <1>6

\* A claim that has lasted too long parks the item.
LEMMA LongWaitIsParked ==
    ASSUME NEW item \in Item, item.state = "awaiting_owner",
           item.attempts < MaxAttempts
    PROVE  (IF item.claimedTicks > OwnerWaitTicks
            THEN ParkUnmetClaim(item) ELSE item) \in Sound
  <1> DEFINE parked == [item EXCEPT !.state = "failed", !.parkedByClaim = TRUE]
  <1>1. parked \in Sound
    <2>2. parked \in Item
      BY Values, ItemFields, Zenon
    <2>3. parked.state = "failed"
      BY DEF Item
    <2>4. QED
      BY <2>2, <2>3 DEF Sound
  <1>2. ParkUnmetClaim(item) = parked
    BY Zenon DEF ParkUnmetClaim
  <1>3. CASE item.claimedTicks > OwnerWaitTicks
    BY <1>1, <1>2, <1>3
  <1>4. CASE ~(item.claimedTicks > OwnerWaitTicks)
    <2>1. item.claimedTicks <= OwnerWaitTicks
      BY <1>4, BookAssumption DEF Item
    <2>2. QED
      BY <1>4, <2>1 DEF Sound
  <1>5. QED
    BY <1>3, <1>4

\* Waiting one more tick for the claimant, and parking the item if that was
\* one too many.
LEMMA WaitStaysSound ==
    ASSUME NEW item \in Sound
    PROVE  LET marked == MarkAwaiting(item) IN
           (IF marked.claimedTicks > OwnerWaitTicks
            THEN ParkUnmetClaim(marked) ELSE marked) \in Sound
  <1>0. item \in Item
    BY DEF Sound
  <1>1. CASE item.state = "pending"
    <2> DEFINE r == [item EXCEPT !.state = "awaiting_owner", !.claimedTicks = 1]
    <2>1. MarkAwaiting(item) = r
      BY <1>1 DEF MarkAwaiting
    <2>3. r \in Item
      BY <1>0, Values, ItemFields, Zenon
    <2>4. r.state = "awaiting_owner" /\ r.attempts = item.attempts
      BY <1>0 DEF Item
    <2>5. item.attempts < MaxAttempts
      BY <1>1 DEF Sound
    <2>6. r.state = "awaiting_owner" /\ r.attempts < MaxAttempts
      BY <2>4, <2>5
    <2> HIDE DEF r
    <2>7. QED
      BY <2>1, <2>3, <2>6, LongWaitIsParked, Zenon
  <1>2. CASE item.state = "awaiting_owner"
    <2> DEFINE r == [item EXCEPT !.claimedTicks = item.claimedTicks + 1]
    <2>1. MarkAwaiting(item) = r
      BY <1>2 DEF MarkAwaiting
    <2>2. item.claimedTicks + 1 \in 0 .. OwnerWaitTicks + 1
      BY <1>2, BookAssumption DEF Sound, Item
    <2>3. r \in Item
      BY <1>0, <2>2, Values, ItemFields, Zenon
    <2>4. r.state = item.state /\ r.attempts = item.attempts
      BY <1>0 DEF Item
    <2>5. item.attempts < MaxAttempts
      BY <1>2 DEF Sound
    <2>6. r.state = "awaiting_owner" /\ r.attempts < MaxAttempts
      BY <1>2, <2>4, <2>5
    <2> HIDE DEF r
    <2>7. QED
      BY <2>1, <2>3, <2>6, LongWaitIsParked, Zenon
  <1>3. CASE item.state \notin {"pending", "awaiting_owner"}
    BY <1>3 DEF MarkAwaiting, ParkUnmetClaim
  <1>4. QED
    BY <1>1, <1>2, <1>3

\* A change of the waiting time alone.
LEMMA CooldownStaysSound ==
    ASSUME NEW item \in Sound, NEW n \in 0 .. RetryTicks
    PROVE  /\ [item EXCEPT !.cooldown = n] \in Sound
           /\ [item EXCEPT !.cooldown = n].state = item.state
  BY DEF Sound, Item

\* A tick starts, and nothing is lost from a queue nor added to it.
LEMMA CountDownSound ==
    ASSUME NEW q \in Seq(Sound)
    PROVE  CountDown(q) \in Seq(Sound) /\ (CountDown(q) = <<>> <=> q = <<>>)
  <1>1. ASSUME NEW i \in DOMAIN q
        PROVE  [q[i] EXCEPT !.cooldown = IF @ = 0 THEN 0 ELSE @ - 1] \in Sound
    <2>1. q[i] \in Sound
      BY ElementOfSeq, LenProperties
    <2>2. q[i].cooldown \in 0 .. RetryTicks
      BY <2>1 DEF Sound, Item
    <2>3. (IF q[i].cooldown = 0 THEN 0 ELSE q[i].cooldown - 1) \in 0 .. RetryTicks
      BY <2>2, BookAssumption
    <2>4. QED
      BY <2>1, <2>3, CooldownStaysSound
  <1>2. CountDown(q) \in [DOMAIN q -> Sound]
    BY <1>1 DEF CountDown
  <1>3. QED
    BY <1>2, Mapped

\* Queueing a handover leaves one item at least, and if there was one already,
\* its state.
LEMMA QueueSound ==
    ASSUME NEW q \in Seq(Sound)
    PROVE  /\ Queue(q) \in Seq(Sound) /\ IsOpen(Queue(q))
           /\ IsOpen(q) => Head(Queue(q)).state = Head(q).state
  <1>1. CASE IsOpen(q)
    <2>1. q # <<>> /\ q[1] = Head(q) /\ q[1] \in Sound
      BY <1>1, HeadAndTail DEF IsOpen
    <2> DEFINE n == Smaller(q[1].cooldown, NextTick)
               x == [q[1] EXCEPT !.cooldown = n]
    <2>2. n \in 0 .. RetryTicks
      BY <2>1, BookAssumption DEF Smaller, NextTick, Sound, Item
    <2>3. x \in Sound /\ x.state = q[1].state
      BY <2>1, <2>2, CooldownStaysSound
    <2>4. Queue(q) = [q EXCEPT ![1] = x]
      BY <1>1 DEF Queue
    <2>5. /\ [q EXCEPT ![1] = x] \in Seq(Sound)
          /\ [q EXCEPT ![1] = x] # <<>>
          /\ Head([q EXCEPT ![1] = x]) = x
      <3> HIDE DEF x
      <3>1. QED
        BY <2>1, <2>3, NewHead, SMT
    <2>6. QED
      BY <2>1, <2>3, <2>4, <2>5, Zenon DEF IsOpen
  <1>2. CASE ~IsOpen(q)
    <2>1. Queue(q) = <<FreshItem>>
      BY <1>2 DEF Queue
    <2>2. <<FreshItem>> \in Seq(Sound) /\ <<FreshItem>> # <<>>
      BY FreshIsSound
    <2>3. QED
      BY <1>2, <2>1, <2>2 DEF IsOpen
  <1>3. QED
    BY <1>1, <1>2

\* Re-arming touches no item that is not parked.
LEMMA RearmAllSound ==
    ASSUME NEW q \in Seq(Sound)
    PROVE  /\ RearmAll(q) \in Seq(Sound)
           /\ IsOpen(RearmAll(q)) <=> IsOpen(q)
           /\ IsOpen(q) => Head(RearmAll(q)) = Rearm(Head(q))
  <1>1. \A i \in DOMAIN q : Rearm(q[i]) \in Sound
    BY ElementOfSeq, LenProperties, ItemStaysSound
  <1>2. RearmAll(q) \in [DOMAIN q -> Sound]
    BY <1>1 DEF RearmAll
  <1>3. RearmAll(q) \in Seq(Sound) /\ (RearmAll(q) = <<>> <=> q = <<>>)
    BY <1>2, Mapped
  <1>4. ASSUME IsOpen(q)
        PROVE  Head(RearmAll(q)) = Rearm(Head(q))
    <2>1. q # <<>> /\ RearmAll(q) # <<>>
      BY <1>3, <1>4 DEF IsOpen
    <2>2. Head(RearmAll(q)) = RearmAll(q)[1] /\ Head(q) = q[1] /\ 1 \in DOMAIN q
      BY <1>3, <2>1, HeadAndTail, LenProperties
    <2>3. RearmAll(q)[1] = Rearm(q[1])
      BY <2>2 DEF RearmAll
    <2>4. QED
      BY <2>2, <2>3
  <1>5. QED
    BY <1>3, <1>4 DEF IsOpen

-----------------------------------------------------------------------------
(* Two rules never share an output *)

\* A set of rules with the loser of every conflict switched off has none left.
LEMMA StandDownSettles ==
    ASSUME NEW set \in [Rules -> RuleConfig \cup {None}],
           NEW r \in Rules, NEW o \in Rules, r # o,
           StandDown(set)[r] # None, StandDown(set)[r].enabled,
           StandDown(set)[o] # None, StandDown(set)[o].enabled
    PROVE  StandDown(set)[r].target # StandDown(set)[o].target
  <1>1. ASSUME NEW x \in Rules, StandDown(set)[x] # None, StandDown(set)[x].enabled
        PROVE  /\ StandDown(set)[x] = set[x]
               /\ \A y \in Rules : /\ y < x /\ set[y] # None /\ set[y].enabled
                                   => set[y].target # set[x].target
    <2>1. CASE set[x] = None
      BY <1>1, <2>1 DEF StandDown
    <2>2. CASE set[x] # None
      <3>1. set[x] \in RuleConfig
        BY <2>2
      <3>2. [set[x] EXCEPT !.enabled = FALSE].enabled = FALSE
        BY <3>1 DEF RuleConfig
      <3>3. QED
        BY <1>1, <3>2, Zenon DEF StandDown
    <2>3. QED
      BY <2>1, <2>2
  <1>2. r \in Nat /\ o \in Nat /\ (r < o \/ o < r)
    BY EngineAssumption
  <1>3. CASE r < o
    BY <1>1, <1>3
  <1>4. CASE o < r
    BY <1>1, <1>4
  <1>5. QED
    BY <1>2, <1>3, <1>4

\* ... and its entries are rules as before.
LEMMA StandDownType ==
    ASSUME NEW set \in [Rules -> RuleConfig \cup {None}]
    PROVE  StandDown(set) \in [Rules -> RuleConfig \cup {None}]
  <1>1. ASSUME NEW r \in Rules
        PROVE  StandDown(set)[r] \in RuleConfig \cup {None}
    <2>1. CASE set[r] = None
      BY <2>1, Zenon DEF StandDown
    <2>2. CASE set[r] # None
      <3>1. [set[r] EXCEPT !.enabled = FALSE] \in RuleConfig
        BY <2>2 DEF RuleConfig
      <3>2. QED
        BY <3>1, Zenon DEF StandDown
    <2>3. QED
      BY <2>1, <2>2
  <1>2. QED
    BY <1>1, Zenon DEF StandDown

RuleSets == [Rules -> RuleConfig \cup {None}]

\* What a step can do to the active rules and to their files: nothing, save
\* one rule, drop one, take a whole set over from disk, or end with what is on it.
LEMMA RuleSteps ==
    ASSUME [Next]_vars, files \in RuleSets
    PROVE  \/ UNCHANGED <<rules, files>>
           \/ \E r \in Rules, new \in RuleConfig :
                 /\ new.enabled => OutputFree(r, new.target)
                 /\ rules' = [rules EXCEPT ![r] = new]
                 /\ files' = [files EXCEPT ![r] = new]
           \/ \E r \in Rules :
                 /\ rules' = [rules EXCEPT ![r] = None]
                 /\ files' \in {files, [files EXCEPT ![r] = None]}
           \/ \E set \in RuleSets :
                 rules' = StandDown(set) /\ files' = set
           \/ rules' = [r \in Rules |-> None] /\ files' \in RuleSets
  <1>1. CASE UNCHANGED vars
    BY <1>1 DEF vars, config
  <1>2. CASE Tick
    <2>1. UNCHANGED config
      BY <1>2 DEF Tick, BeginTick, BeginStaleTick, StartPass, DisabledTick,
                  HandoverStep, Supersede, AwaitOwner, LeaveParked, Visiting,
                  AttemptHandover, FinishHandover, BeginRules, RuleStep, SkipRule,
                  WriteRule, RuleApplied, RuleNotConfirmed, FinishPolicy, EndTick
    <2>2. QED
      BY <2>1 DEF config
  <1>3. ASSUME NEW r \in Rules, NEW new \in RuleConfig, SaveRule(r, new)
        PROVE  /\ new.enabled => OutputFree(r, new.target)
               /\ rules' = [rules EXCEPT ![r] = new]
               /\ files' = [files EXCEPT ![r] = new]
    BY <1>3 DEF SaveRule
  <1>4. ASSUME NEW r \in Rules, NEW new \in RuleConfig \cup {None}, Reload(r, new)
        PROVE  \E set \in RuleSets : rules' = StandDown(set) /\ files' = set
    <2>1. [files EXCEPT ![r] = new] \in RuleSets
      BY DEF RuleSets
    <2>2. QED
      BY <1>4, <2>1 DEF Reload
  <1>5. ASSUME NEW r \in Rules, DeleteRule(r) \/ DeleteRuleFails(r)
        PROVE  /\ rules' = [rules EXCEPT ![r] = None]
               /\ files' \in {files, [files EXCEPT ![r] = None]}
    BY <1>5 DEF DeleteRule, DeleteRuleFails
  <1>6. CASE UserRearm \/ SetAutomation \/ SetDryRun
    BY <1>6 DEF UserRearm, RetryFailed, RetryFailedOne, SetAutomation, SetDryRun,
                config
  <1>7. CASE Ends
    <2>1. Gone /\ files' \in RuleSets
      BY <1>7 DEF Ends, Crash, Stop, CrashInEdit, RuleSets
    <2>2. QED
      BY <2>1 DEF Gone
  <1>8. CASE Restart
    BY <1>8 DEF Restart
  <1>9. QED
    BY <1>1, <1>2, <1>3, <1>4, <1>5, <1>6, <1>7, <1>8, Zenon DEF Next, User

Settled == rules \in RuleSets /\ files \in RuleSets /\ OneRulePerOutput

LEMMA SettledStep == Settled /\ [Next]_vars => Settled'
  <1> SUFFICES ASSUME Settled, [Next]_vars
               PROVE  Settled'
    OBVIOUS
  <1> USE DEF Settled, RuleSets, OneRulePerOutput, Drives
  <1>1. CASE UNCHANGED <<rules, files>>
    BY <1>1
  <1>2. ASSUME NEW r \in Rules, NEW new \in RuleConfig,
               new.enabled => OutputFree(r, new.target),
               rules' = [rules EXCEPT ![r] = new],
               files' = [files EXCEPT ![r] = new]
        PROVE  Settled'
    BY <1>2 DEF OutputFree
  <1>3. ASSUME NEW r \in Rules,
               rules' = [rules EXCEPT ![r] = None],
               files' \in {files, [files EXCEPT ![r] = None]}
        PROVE  Settled'
    BY <1>3
  <1>4. ASSUME NEW set \in RuleSets, rules' = StandDown(set), files' = set
        PROVE  Settled'
    BY <1>4, StandDownSettles, StandDownType
  <1>5. CASE rules' = [r \in Rules |-> None] /\ files' \in RuleSets
    BY <1>5
  <1>6. QED
    BY <1>1, <1>2, <1>3, <1>4, <1>5, RuleSteps

\* OneRulePerOutput holds for any rules and channels, in any interleaving of
\* edits, reloads, ticks, crashes and restarts: save_rule's conflict check and
\* resolve_loaded_conflicts between them cover every path that adds a rule.
THEOREM OutputsHaveOneRule == Spec => []OneRulePerOutput
  <1>1. Init => Settled
    <2> SUFFICES ASSUME Init
                 PROVE  Settled
      OBVIOUS
    <2>1. rules = StandDown(files) /\ files \in RuleSets /\ rules \in RuleSets
      BY DEF Init, RuleSets
    <2>2. QED
      BY <2>1, StandDownSettles DEF Settled, RuleSets, OneRulePerOutput, Drives
  <1>2. Settled => OneRulePerOutput
    BY DEF Settled
  <1>3. QED
    BY <1>1, <1>2, SettledStep, PTL DEF Spec

-----------------------------------------------------------------------------
(* The type invariant *)

\* Where a write in flight stands.  The item being handed over is still at the
\* head of its queue, and pending: no user operation takes it away from the
\* tick.  A process that ended left no tick under way.
InFlight ==
    /\ phase \in {"safing", "writing", "policy"} => job \in Job
    /\ phase \in {"writing", "policy"} => job.rule \in Rules
    /\ phase = "safing" => /\ todo[job.channel] # <<>>
                           /\ IsOpen(book[job.channel])
                           /\ Head(book[job.channel]).state = "pending"
    /\ ~live => phase = "idle"

SoundBook == book \in [Channels -> Seq(Sound)]

SoundDisk ==
    /\ record \in [items : [Channels -> Seq(Sound)],
                   holds : [Rules -> Channels \cup {None}]]
    /\ dirty \in BOOLEAN /\ persistError \in BOOLEAN

Inv == ConfigOK /\ PassOK /\ HardwareOK /\ SoundBook /\ SoundDisk /\ InFlight

LEMMA InvTypes == Inv => TypeOK
  <1>1. Sound \subseteq Item
    BY DEF Sound
  <1>2. Seq(Sound) \subseteq Seq(Item)
    BY <1>1, SeqMonotonic
  <1>3. QED
    BY <1>2 DEF Inv, TypeOK, SoundBook, SoundDisk, DiskOK

LEMMA InitInv == Init => Inv
  <1> SUFFICES ASSUME Init
               PROVE  Inv
    OBVIOUS
  <1> USE BookAssumption, EngineAssumption DEF Init
  <1>1. FreshMemory \in Memory
    BY DEF FreshMemory, Memory
  <1>2. ConfigOK
    <2>1. live \in BOOLEAN /\ automation \in BOOLEAN /\ dryRun \in BOOLEAN
      BY Zenon
    <2>2. edits \in 0 .. MaxEdits /\ crashes \in 0 .. MaxCrashes
      OBVIOUS
    <2>3. memory \in [Rules -> Memory]
      BY <1>1
    <2>4. QED
      BY <2>1, <2>2, <2>3 DEF ConfigOK
  <1>3. PassOK
    BY DEF PassOK
  <1>4. HardwareOK
    BY DEF HardwareOK
  <1>5. SoundBook /\ SoundDisk
    <2>1. dirty \in BOOLEAN /\ persistError \in BOOLEAN
      BY Zenon
    <2>2. SoundBook
      BY DEF SoundBook
    <2>3. QED
      BY <2>1, <2>2 DEF SoundDisk, EmptyRecord
  <1>6. InFlight
    BY DEF InFlight
  <1>7. QED
    BY <1>2, <1>3, <1>4, <1>5, <1>6 DEF Inv

\* A record is written from the book and the memories as they are.
LEMMA FlushSound ==
    ASSUME SoundDisk, NEW d \in BOOLEAN, NEW b \in [Channels -> Seq(Sound)],
           NEW m \in [Rules -> Memory], Flush(d, b, m)
    PROVE  SoundDisk'
  <1>1. RecordOf(b, m) \in [items : [Channels -> Seq(Sound)],
                            holds : [Rules -> Channels \cup {None}]]
    <2>1. \A r \in Rules : m[r].hold # None => m[r].hold.channel \in Channels
      BY DEF Memory, Hold
    <2>2. QED
      BY <2>1 DEF RecordOf
  <1>2. QED
    BY <1>1 DEF SoundDisk, Flush, Persist

\* The head of one channel's queue is replaced, or done with.
LEMMA HeadReplaced ==
    ASSUME SoundBook, NEW c \in Channels, IsOpen(book[c]), NEW x \in Sound,
           book' = [book EXCEPT ![c][1] = x]
    PROVE  SoundBook' /\ IsOpen(book'[c]) /\ Head(book'[c]) = x
  <1>1. book[c] \in Seq(Sound) /\ book[c] # <<>>
    BY DEF SoundBook, IsOpen
  <1> DEFINE q == [book[c] EXCEPT ![1] = x]
  <1>2. q \in Seq(Sound) /\ q # <<>> /\ Head(q) = x
    BY <1>1, NewHead
  <1>3. book' = [book EXCEPT ![c] = q]
    OBVIOUS
  <1> HIDE DEF q
  <1>4. QED
    BY <1>2, <1>3 DEF SoundBook, IsOpen

LEMMA HeadDone ==
    ASSUME SoundBook, NEW c \in Channels, IsOpen(book[c]),
           book' = [book EXCEPT ![c] = Tail(@)]
    PROVE  SoundBook'
  BY HeadAndTail DEF SoundBook, IsOpen

\* A channel of the tick's copy is done with.
LEMMA VisitDone ==
    ASSUME PassOK, NEW c \in Channels, todo[c] # <<>>,
           todo' = [todo EXCEPT ![c] = Tail(@)]
    PROVE  todo' \in [Channels -> Seq(OpenStates)]
  BY HeadAndTail DEF PassOK

-----------------------------------------------------------------------------
(* The tick keeps Inv *)

LEMMA RestedType ==
    ASSUME HardwareOK, Rested
    PROVE  rest' \in [Channels -> 0 .. RetryTicks]
  BY BookAssumption DEF HardwareOK, Rested, Smaller

LEMMA BooksOfANewTick ==
    ASSUME SoundBook
    PROVE  /\ CountedDown \in [Channels -> Seq(Sound)]
           /\ \A gone \in SUBSET Unverified :
                 VerifiedBook(gone) \in [Channels -> Seq(Sound)]
  <1>1. \A c \in Channels : CountDown(book[c]) \in Seq(Sound)
    BY CountDownSound DEF SoundBook
  <1>2. CountedDown \in [Channels -> Seq(Sound)]
    BY <1>1 DEF CountedDown
  <1>3. ASSUME NEW gone \in SUBSET Unverified, NEW c \in Channels
        PROVE  VerifiedBook(gone)[c] \in Seq(Sound)
    <2> DEFINE q == CountDown(book[c])
    <2>1. q \in Seq(Sound)
      BY <1>1
    <2>2. CASE c \notin Unverified
      BY <2>1, <2>2, Zenon DEF VerifiedBook
    <2>3. CASE c \in Unverified
      <3>1. book[c] # <<>> /\ book[c] \in Seq(Sound)
        BY <2>3 DEF Unverified, SoundBook
      <3>2. q # <<>>
        BY <3>1, CountDownSound
      <3>3. q[1] \in Sound
        BY <2>1, <3>2, HeadAndTail
      <3>4. FailRecovered(q[1]) \in Sound /\ Verified(q[1]) \in Sound
        BY <3>3, ItemStaysSound
      <3>5. /\ [q EXCEPT ![1] = FailRecovered(q[1])] \in Seq(Sound)
            /\ [q EXCEPT ![1] = Verified(q[1])] \in Seq(Sound)
        <4> HIDE DEF q
        <4>1. QED
          BY <2>1, <3>2, <3>4, NewHead
      <3>6. QED
        BY <2>3, <3>5, Zenon DEF VerifiedBook
    <2>4. QED
      BY <2>2, <2>3
  <1>4. QED
    BY <1>2, <1>3 DEF VerifiedBook

LEMMA StartPassStep ==
    ASSUME Inv, NEW b \in [Channels -> Seq(Sound)], StartPass(b)
    PROVE  Inv'
  <1>1. todo' \in [Channels -> Seq(OpenStates)]
    <2>1. ASSUME NEW c \in Channels
          PROVE  [i \in DOMAIN b[c] |-> b[c][i].state] \in Seq(OpenStates)
      <3>1. b[c] \in Seq(Sound)
        OBVIOUS
      <3>2. ASSUME NEW i \in DOMAIN b[c]
            PROVE  b[c][i].state \in OpenStates
        <4>1. b[c][i] \in Sound
          BY <3>1, ElementOfSeq, LenProperties
        <4>2. QED
          BY <4>1 DEF Sound, Item
      <3>3. [i \in DOMAIN b[c] |-> b[c][i].state] \in [DOMAIN b[c] -> OpenStates]
        BY <3>2
      <3>4. QED
        BY <3>1, <3>3, Mapped
    <2>2. QED
      BY <2>1 DEF StartPass
  <1>2. ConfigOK' /\ PassOK'
    BY <1>1 DEF Inv, StartPass, ConfigOK, PassOK, config, settings, bounds
  <1>3. HardwareOK'
    BY RestedType DEF Inv, StartPass, HardwareOK
  <1>4. SoundBook'
    BY DEF StartPass, SoundBook
  <1>5. SoundDisk'
    BY DEF Inv, StartPass, NoFlush, SoundDisk
  <1>6. InFlight'
    BY DEF Inv, StartPass, InFlight
  <1>7. QED
    BY <1>2, <1>3, <1>4, <1>5, <1>6 DEF Inv

LEMMA DisabledTickStep == ASSUME Inv, DisabledTick PROVE Inv'
  <1>1. ConfigOK' /\ PassOK'
    BY DEF Inv, DisabledTick, ConfigOK, PassOK, config, pass, settings, bounds
  <1>2. HardwareOK'
    BY RestedType DEF Inv, DisabledTick, HardwareOK
  <1>3. SoundBook'
    BY BooksOfANewTick DEF Inv, DisabledTick, SoundBook
  <1>4. SoundDisk'
    BY DEF Inv, DisabledTick, SoundDisk, disk
  <1>5. InFlight'
    BY DEF Inv, DisabledTick, InFlight, pass
  <1>6. QED
    BY <1>1, <1>2, <1>3, <1>4, <1>5 DEF Inv

\* The parts of Inv that a visit of the tick to one channel leaves alone.
LEMMA VisitingRest ==
    ASSUME Inv, NEW c \in Channels, Visiting(c)
    PROVE  /\ ConfigOK' /\ HardwareOK' /\ SoundDisk'
           /\ PassOK /\ InFlight /\ SoundBook
           /\ todo[c] # <<>> /\ IsOpen(book[c]) /\ phase = "handovers" /\ live
           /\ Head(book[c]) \in Sound /\ book[c][1] = Head(book[c])
           /\ live' = live /\ plan' = plan
  <1>1. ConfigOK'
    BY DEF Inv, Visiting, ConfigOK, config, settings, bounds
  <1>2. HardwareOK'
    BY DEF Inv, Visiting, HardwareOK, hardware
  <1>3. SoundDisk'
    BY DEF Inv, Visiting, SoundDisk, disk
  <1>4. Head(book[c]) \in Sound /\ book[c][1] = Head(book[c])
    BY HeadAndTail DEF Inv, Visiting, SoundBook, IsOpen
  <1>5. QED
    BY <1>1, <1>2, <1>3, <1>4 DEF Inv, Visiting

LEMMA SupersedeStep == ASSUME Inv, NEW c \in Channels, Supersede(c) PROVE Inv'
  <1>1. Visiting(c) /\ Visited(c)
    BY DEF Supersede
  <1>2. SoundBook'
    BY <1>1, VisitingRest, HeadDone DEF Supersede
  <1>3. PassOK'
    BY <1>1, VisitingRest, VisitDone DEF Visited, PassOK
  <1>4. InFlight'
    BY <1>1, VisitingRest DEF Visited, InFlight
  <1>5. QED
    BY <1>1, <1>2, <1>3, <1>4, VisitingRest DEF Inv

LEMMA AwaitOwnerStep == ASSUME Inv, NEW c \in Channels, AwaitOwner(c) PROVE Inv'
  <1> DEFINE marked == MarkAwaiting(Head(book[c]))
             x == IF marked.claimedTicks > OwnerWaitTicks
                  THEN ParkUnmetClaim(marked) ELSE marked
  <1>1. Visiting(c) /\ Visited(c)
    BY DEF AwaitOwner
  <1>2. x \in Sound
    BY <1>1, VisitingRest, WaitStaysSound
  <1>3. book' = [book EXCEPT ![c][1] = x]
    BY DEF AwaitOwner
  <1>4. SoundBook'
    <2> HIDE DEF x
    <2>1. QED
      BY <1>1, <1>2, <1>3, VisitingRest, HeadReplaced
  <1>5. PassOK'
    BY <1>1, VisitingRest, VisitDone DEF Visited, PassOK
  <1>6. InFlight'
    BY <1>1, VisitingRest DEF Visited, InFlight
  <1>7. QED
    BY <1>1, <1>4, <1>5, <1>6, VisitingRest DEF Inv

LEMMA ResumedIsSound ==
    ASSUME NEW c \in Channels, Head(book[c]) \in Sound
    PROVE  Resumed(c) \in Sound
  BY ItemStaysSound, Zenon DEF Resumed

LEMMA LeaveParkedStep == ASSUME Inv, NEW c \in Channels, LeaveParked(c) PROVE Inv'
  <1>1. Visiting(c) /\ Visited(c)
    BY DEF LeaveParked
  <1>2. Resumed(c) \in Sound
    BY <1>1, VisitingRest, ResumedIsSound
  <1>3. SoundBook'
    BY <1>1, <1>2, VisitingRest, HeadReplaced DEF LeaveParked
  <1>4. PassOK'
    BY <1>1, VisitingRest, VisitDone DEF Visited, PassOK
  <1>5. InFlight'
    BY <1>1, VisitingRest DEF Visited, InFlight
  <1>6. QED
    BY <1>1, <1>3, <1>4, <1>5, VisitingRest DEF Inv

\* The item that is written for is due, hence pending.
LEMMA AttemptHandoverStep ==
    ASSUME Inv, NEW c \in Channels, AttemptHandover(c)
    PROVE  Inv'
  <1>1. Visiting(c)
    BY DEF AttemptHandover
  <1>2. Resumed(c) \in Sound /\ Resumed(c).state = "pending"
    BY <1>1, VisitingRest, ResumedIsSound DEF AttemptHandover, MayAttempt, IsDue
  <1>3. SoundBook' /\ IsOpen(book'[c]) /\ Head(book'[c]) = Resumed(c)
    BY <1>1, <1>2, VisitingRest, HeadReplaced DEF AttemptHandover
  <1>4. job' \in Job /\ job'.channel = c
    <2>1. FreshMemory \in Memory
      BY EngineAssumption DEF FreshMemory, Memory
    <2>2. dryRun \in BOOLEAN
      BY DEF Inv, ConfigOK
    <2>3. job' = [rule |-> None, channel |-> c, state |-> FreshMemory,
                  simulated |-> dryRun]
      BY DEF AttemptHandover
    <2>4. QED
      BY <2>1, <2>2, <2>3 DEF Job
  <1>5. PassOK'
    BY <1>1, <1>4, VisitingRest DEF AttemptHandover, PassOK
  <1>6. InFlight'
    <2>1. phase' = "safing" /\ todo' = todo
      BY DEF AttemptHandover
    <2>2. QED
      BY <1>1, <1>2, <1>3, <1>4, <2>1, VisitingRest DEF InFlight
  <1>7. QED
    BY <1>1, <1>3, <1>5, <1>6, VisitingRest DEF Inv

LEMMA FinishHandoverStep ==
    ASSUME Inv, NEW outcome, FinishHandover(outcome)
    PROVE  Inv'
  <1> DEFINE c == job.channel
  <1>1. /\ c \in Channels /\ todo[c] # <<>> /\ IsOpen(book[c])
        /\ Head(book[c]).state = "pending"
    BY DEF Inv, FinishHandover, InFlight, Job
  <1>2. book[c] \in Seq(Sound) /\ Head(book[c]) \in Sound /\ book[c][1] = Head(book[c])
    BY <1>1, HeadAndTail DEF Inv, SoundBook, IsOpen
  <1>3. SoundBook'
    <2>1. CASE book' = [book EXCEPT ![c] = Tail(@)]
      BY <1>1, <2>1, HeadDone DEF Inv
    <2>2. CASE book' = [book EXCEPT ![c][1] = RecordAttempt(@)]
      <3>1. RecordAttempt(Head(book[c])) \in Sound
        BY <1>1, <1>2, ItemStaysSound
      <3>2. book' = [book EXCEPT ![c][1] = RecordAttempt(Head(book[c]))]
        BY <1>2, <2>2
      <3>3. QED
        BY <1>1, <3>1, <3>2, HeadReplaced DEF Inv
    <2>3. QED
      BY <2>1, <2>2 DEF FinishHandover
  <1>4. todo' \in [Channels -> Seq(OpenStates)]
    BY <1>1, VisitDone DEF Inv, FinishHandover
  <1>5. ConfigOK' /\ PassOK'
    BY <1>4 DEF Inv, FinishHandover, ConfigOK, PassOK, config, settings, bounds
  <1>6. HardwareOK'
    <2>1. mover' \in [Channels -> Rules \cup {None}]
      BY DEF Inv, FinishHandover, HardwareOK
    <2>2. tries' \in [Channels -> 0 .. 2 * MaxAttempts + 1]
      BY BookAssumption DEF Inv, FinishHandover, HardwareOK, Smaller
    <2>3. rest' \in [Channels -> 0 .. RetryTicks]
      BY BookAssumption DEF Inv, FinishHandover, HardwareOK
    <2>4. QED
      BY <2>1, <2>2, <2>3 DEF HardwareOK
  <1>7. SoundDisk'
    BY DEF Inv, FinishHandover, SoundDisk, disk
  <1>8. InFlight'
    BY DEF Inv, FinishHandover, InFlight
  <1>9. QED
    BY <1>3, <1>5, <1>6, <1>7, <1>8 DEF Inv

LEMMA BeginRulesStep == ASSUME Inv, BeginRules PROVE Inv'
  <1>1. plan' \in [Rules -> Channels \cup {None}]
    BY DEF Inv, BeginRules, ConfigOK, RuleConfig
  <1>2. ConfigOK' /\ PassOK'
    BY <1>1 DEF Inv, BeginRules, ConfigOK, PassOK, config, settings, bounds
  <1>3. HardwareOK' /\ SoundBook' /\ SoundDisk'
    BY DEF Inv, BeginRules, HardwareOK, SoundBook, SoundDisk, hardware, disk
  <1>4. InFlight'
    BY DEF Inv, BeginRules, InFlight
  <1>5. QED
    BY <1>2, <1>3, <1>4 DEF Inv

LEMMA SkipRuleStep == ASSUME Inv, NEW r \in Rules, SkipRule(r) PROVE Inv'
  <1>1. ConfigOK' /\ PassOK'
    BY DEF Inv, SkipRule, ConfigOK, PassOK, config, settings, bounds
  <1>2. HardwareOK' /\ SoundBook' /\ SoundDisk'
    BY DEF Inv, SkipRule, HardwareOK, SoundBook, SoundDisk, hardware, disk
  <1>3. InFlight'
    BY DEF Inv, SkipRule, InFlight
  <1>4. QED
    BY <1>1, <1>2, <1>3 DEF Inv

LEMMA WriteRuleStep == ASSUME Inv, NEW r \in Rules, WriteRule(r) PROVE Inv'
  <1>1. job' \in Job /\ job'.rule = r
    <2>1. plan[r] \in Channels /\ memory[r] \in Memory /\ dryRun \in BOOLEAN
      BY DEF Inv, WriteRule, ConfigOK, PassOK
    <2>2. job' = [rule |-> r, channel |-> plan[r], state |-> memory[r],
                  simulated |-> dryRun]
      BY DEF WriteRule
    <2>3. QED
      BY <2>1, <2>2 DEF Job
  <1>2. ConfigOK' /\ PassOK'
    BY <1>1 DEF Inv, WriteRule, ConfigOK, PassOK, config, settings, bounds
  <1>3. HardwareOK' /\ SoundBook' /\ SoundDisk'
    BY DEF Inv, WriteRule, HardwareOK, SoundBook, SoundDisk, hardware, disk
  <1>4. InFlight'
    BY <1>1 DEF Inv, WriteRule, InFlight
  <1>5. QED
    BY <1>2, <1>3, <1>4 DEF Inv

\* While a rule's write is in flight, its job names a rule and a channel.
LEMMA WritingJob ==
    ASSUME Inv, phase \in {"writing", "policy"}
    PROVE  /\ job \in Job /\ job.rule \in Rules /\ job.channel \in Channels
           /\ job.state \in Memory /\ live
  BY DEF Inv, InFlight, Job

LEMMA HoldingType ==
    ASSUME NEW c \in Channels, NEW n \in 0 .. MaxUnconfirmed - 1
    PROVE  /\ [hold |-> Holding(c, TRUE), unconfirmed |-> n] \in Memory
           /\ [hold |-> Holding(c, FALSE), unconfirmed |-> n] \in Memory
  <1>1. Holding(c, TRUE) \in Hold /\ Holding(c, FALSE) \in Hold
    BY DEF Holding, Hold
  <1>2. QED
    BY <1>1 DEF Memory

LEMMA RuleAppliedStep == ASSUME Inv, NEW o, RuleApplied(o) PROVE Inv'
  <1>1. /\ job.rule \in Rules /\ job.channel \in Channels
    BY WritingJob DEF RuleApplied
  <1>2. memory' \in [Rules -> Memory]
    <2>1. [hold |-> Holding(job.channel, TRUE), unconfirmed |-> 0] \in Memory
      <3>1. 0 \in 0 .. MaxUnconfirmed - 1
        BY EngineAssumption
      <3>2. QED
        BY <1>1, <3>1, HoldingType, Zenon
    <2>2. QED
      BY <2>1 DEF Inv, ConfigOK, RuleApplied
  <1>3. ConfigOK' /\ PassOK'
    BY <1>2 DEF Inv, RuleApplied, RuleDone, ConfigOK, PassOK, config, settings, bounds
  <1>4. HardwareOK'
    BY <1>1 DEF Inv, RuleApplied, Moved, HardwareOK
  <1>5. SoundBook' /\ SoundDisk'
    BY DEF Inv, RuleApplied, SoundBook, SoundDisk, disk
  <1>6. InFlight'
    BY DEF Inv, RuleApplied, RuleDone, InFlight
  <1>7. QED
    BY <1>3, <1>4, <1>5, <1>6 DEF Inv

LEMMA RuleNotConfirmedStep == ASSUME Inv, NEW o, RuleNotConfirmed(o) PROVE Inv'
  <1> DEFINE count == IF o = "unconfirmed" THEN job.state.unconfirmed + 1
                                           ELSE job.state.unconfirmed
             gaveUp == count >= MaxUnconfirmed
             state == [hold |-> Holding(job.channel, FALSE),
                       unconfirmed |-> IF gaveUp THEN 0 ELSE count]
             learned == [memory EXCEPT ![job.rule] = state]
  <1>1. /\ job \in Job /\ job.rule \in Rules /\ job.channel \in Channels
        /\ job.state \in Memory
    BY WritingJob DEF RuleNotConfirmed
  <1>2. state \in Memory
    <2>1. (IF gaveUp THEN 0 ELSE count) \in 0 .. MaxUnconfirmed - 1
      BY <1>1, EngineAssumption DEF Memory
    <2>2. QED
      BY <1>1, <2>1, HoldingType, Zenon
  <1>3. learned \in [Rules -> Memory]
    <2> HIDE DEF state
    <2>1. QED
      BY <1>2 DEF Inv, ConfigOK
  <1>4. /\ memory' = learned /\ Flush(TRUE, book, learned)
        /\ RuleDone(job.rule) \/ WriteFailed(state)
    BY Zenon DEF RuleNotConfirmed
  <1>5. /\ phase' \in {"rules", "policy"}
        /\ plan' \in [Rules -> Channels \cup {None}]
        /\ job' \in Job \cup {None}
        /\ phase' = "policy" => job' \in Job /\ job'.rule \in Rules
    <2>1. CASE RuleDone(job.rule)
      BY <2>1 DEF Inv, PassOK, RuleDone
    <2>2. CASE phase' = "policy" /\ job' = [job EXCEPT !.state = state] /\ UNCHANGED plan
      <3>1. [job EXCEPT !.state = state] \in Job /\ [job EXCEPT !.state = state].rule = job.rule
        <4> HIDE DEF state
        <4>1. QED
          BY <1>1, <1>2 DEF Job
      <3>2. QED
        BY <1>1, <2>2, <3>1 DEF Inv, PassOK
    <2>3. QED
      BY <1>4, <2>1, <2>2 DEF WriteFailed
  <1> HIDE DEF learned, state
  <1>6. ConfigOK'
    BY <1>3, <1>4 DEF Inv, RuleNotConfirmed, ConfigOK, config, settings, bounds
  <1>7. PassOK' /\ InFlight'
    BY <1>5 DEF Inv, RuleNotConfirmed, PassOK, InFlight
  <1>8. HardwareOK'
    BY <1>1 DEF Inv, RuleNotConfirmed, Moved, HardwareOK
  <1>9. SoundBook'
    BY DEF Inv, RuleNotConfirmed, SoundBook
  <1>10. SoundDisk'
    BY <1>3, <1>4, FlushSound DEF Inv, SoundBook
  <1>11. QED
    BY <1>6, <1>7, <1>8, <1>9, <1>10 DEF Inv

LEMMA FinishPolicyStep == ASSUME Inv, FinishPolicy PROVE Inv'
  <1>1. job.rule \in Rules /\ job.state \in Memory
    BY WritingJob DEF FinishPolicy
  <1>2. ConfigOK' /\ PassOK'
    BY <1>1 DEF Inv, FinishPolicy, RuleDone, ConfigOK, PassOK, config, settings, bounds
  <1>3. HardwareOK' /\ SoundBook' /\ SoundDisk'
    BY DEF Inv, FinishPolicy, HardwareOK, SoundBook, SoundDisk, hardware, disk
  <1>4. InFlight'
    BY DEF Inv, FinishPolicy, RuleDone, InFlight
  <1>5. QED
    BY <1>2, <1>3, <1>4 DEF Inv

LEMMA EndTickStep == ASSUME Inv, EndTick PROVE Inv'
  <1>1. ConfigOK' /\ PassOK'
    BY DEF Inv, EndTick, ConfigOK, PassOK, config, settings, bounds
  <1>2. HardwareOK' /\ SoundBook'
    BY DEF Inv, EndTick, HardwareOK, SoundBook, hardware
  <1>3. SoundDisk'
    <2>1. memory \in [Rules -> Memory] /\ dirty \in BOOLEAN
      BY DEF Inv, ConfigOK, SoundDisk
    <2>2. QED
      BY <2>1, FlushSound DEF Inv, EndTick, SoundBook
  <1>4. InFlight'
    BY DEF Inv, EndTick, InFlight
  <1>5. QED
    BY <1>1, <1>2, <1>3, <1>4 DEF Inv

-----------------------------------------------------------------------------
(* So do the user operations *)

\* Every user operation starts here: it is counted, and it leaves the tick and
\* its write in flight alone.
LEMMA UserOpKeeps ==
    ASSUME Inv, NEW op, UserOp(op)
    PROVE  /\ live /\ live' = live /\ edits' \in 0 .. MaxEdits /\ crashes' = crashes
           /\ PassOK' /\ HardwareOK'
  <1>1. edits' \in 0 .. MaxEdits
    BY EngineAssumption DEF Inv, ConfigOK, UserOp
  <1>2. PassOK'
    BY DEF Inv, UserOp, pass, PassOK
  <1>3. HardwareOK'
    BY BookAssumption DEF Inv, UserOp, HardwareOK
  <1>4. QED
    BY <1>1, <1>2, <1>3 DEF UserOp

\* An operation that leaves every open queue open, and a pending head pending,
\* does not disturb the write in flight.
LEMMA InFlightKept ==
    ASSUME Inv, NEW op, UserOp(op),
           \A c \in Channels :
              IsOpen(book[c]) => /\ IsOpen(book'[c])
                                 /\ Head(book[c]).state = "pending"
                                    => Head(book'[c]).state = "pending"
    PROVE  InFlight'
  <1>1. phase' = phase /\ todo' = todo /\ job' = job /\ live
    BY DEF UserOp, pass
  <1>2. CASE phase = "safing"
    <2>1. job \in Job /\ job.channel \in Channels
      BY <1>2 DEF Inv, InFlight, Job
    <2>2. QED
      BY <1>1, <1>2, <2>1, UserOpKeeps DEF Inv, InFlight
  <1>3. CASE phase # "safing"
    BY <1>1, <1>3, UserOpKeeps DEF Inv, InFlight
  <1>4. QED
    BY <1>2, <1>3

LEMMA QueuedOnSound ==
    ASSUME Inv, NEW left
    PROVE  /\ QueuedOn(left) \in [Channels -> Seq(Sound)]
           /\ \A c \in Channels :
                IsOpen(book[c]) => /\ IsOpen(QueuedOn(left)[c])
                                   /\ Head(QueuedOn(left)[c]).state = Head(book[c]).state
  <1>1. \A c \in Channels : book[c] \in Seq(Sound)
    BY DEF Inv, SoundBook
  <1>2. \A c \in Channels : QueuedOn(left)[c] = IF c \in left THEN Queue(book[c]) ELSE book[c]
    BY DEF QueuedOn
  <1>3. \A c \in Channels : QueuedOn(left)[c] \in Seq(Sound)
    BY <1>1, <1>2, QueueSound
  <1>4. QED
    BY <1>1, <1>2, <1>3, QueueSound DEF QueuedOn

LEMMA ForgetType ==
    ASSUME ConfigOK, NEW r \in Rules
    PROVE  /\ [memory EXCEPT ![r].hold = None] \in [Rules -> Memory]
           /\ [memory EXCEPT ![r] = FreshMemory] \in [Rules -> Memory]
  <1>1. memory[r] \in Memory
    BY DEF ConfigOK
  <1>2. [memory[r] EXCEPT !.hold = None] \in Memory /\ FreshMemory \in Memory
    BY <1>1, EngineAssumption DEF Memory, FreshMemory
  <1>3. [memory EXCEPT ![r].hold = None] = [memory EXCEPT ![r] = [memory[r] EXCEPT !.hold = None]]
    BY DEF ConfigOK
  <1>4. QED
    BY <1>2, <1>3 DEF ConfigOK

LEMMA SaveRuleStep ==
    ASSUME Inv, NEW r \in Rules, NEW new \in RuleConfig, SaveRule(r, new)
    PROVE  Inv'
  <1> DEFINE left == LeftBehind(rules[r], new, memory[r].hold)
             owed == QueuedOn(left)
  <1>1. UserOp("save") /\ book' = owed
    BY DEF SaveRule
  <1>2. owed \in [Channels -> Seq(Sound)]
    BY QueuedOnSound
  <1>3. memory \in [Rules -> Memory] /\ memory' \in [Rules -> Memory]
    BY ForgetType DEF Inv, ConfigOK, SaveRule
  <1>4. ConfigOK'
    BY <1>1, <1>3, UserOpKeeps DEF Inv, ConfigOK, SaveRule, settings
  <1>5. SoundDisk'
    <2>1. (dirty \/ left # {}) \in BOOLEAN
      OBVIOUS
    <2>2. CASE Flush(dirty \/ left # {}, owed, memory)
      <3> HIDE DEF left, owed
      <3>1. QED
        BY <1>2, <1>3, <2>1, <2>2, FlushSound DEF Inv
    <2>3. CASE NoFlush(dirty)
      BY <2>3 DEF Inv, SoundDisk, NoFlush
    <2>4. QED
      BY <2>2, <2>3 DEF SaveRule
  <1>6. SoundBook'
    BY <1>1, <1>2 DEF SoundBook
  <1>7. InFlight'
    BY <1>1, QueuedOnSound, InFlightKept
  <1>8. QED
    BY <1>1, <1>4, <1>5, <1>6, <1>7, UserOpKeeps DEF Inv

LEMMA DeleteRuleStep == ASSUME Inv, NEW r \in Rules, DeleteRule(r) PROVE Inv'
  <1> DEFINE hold == memory[r].hold
             owed == QueuedOn(IF hold = None THEN {} ELSE {hold.channel})
             forgot == [memory EXCEPT ![r] = FreshMemory]
  <1>1. UserOp("delete") /\ book' = owed /\ memory' = forgot
        /\ Flush(dirty \/ hold # None, owed, forgot)
    BY DEF DeleteRule
  <1>2. owed \in [Channels -> Seq(Sound)]
    BY QueuedOnSound
  <1>3. forgot \in [Rules -> Memory]
    BY ForgetType DEF Inv
  <1>4. ConfigOK'
    BY <1>1, <1>3, UserOpKeeps DEF Inv, ConfigOK, DeleteRule, settings
  <1>5. SoundDisk'
    <2>1. (dirty \/ hold # None) \in BOOLEAN
      OBVIOUS
    <2> HIDE DEF hold, owed, forgot
    <2>2. QED
      BY <1>1, <1>2, <1>3, <2>1, FlushSound DEF Inv
  <1>6. SoundBook'
    BY <1>1, <1>2 DEF SoundBook
  <1>7. InFlight'
    BY <1>1, QueuedOnSound, InFlightKept
  <1>8. QED
    BY <1>1, <1>4, <1>5, <1>6, <1>7, UserOpKeeps DEF Inv

LEMMA DeleteRuleFailsStep == ASSUME Inv, NEW r \in Rules, DeleteRuleFails(r) PROVE Inv'
  <1>1. UserOp("delete_fails") /\ book' = book
    BY DEF DeleteRuleFails
  <1>2. ConfigOK'
    BY <1>1, UserOpKeeps DEF Inv, ConfigOK, DeleteRuleFails, settings
  <1>3. SoundBook' /\ SoundDisk'
    BY DEF Inv, DeleteRuleFails, SoundBook, SoundDisk, disk
  <1>4. InFlight'
    BY <1>1, InFlightKept
  <1>5. QED
    BY <1>1, <1>2, <1>3, <1>4, UserOpKeeps DEF Inv

LEMMA RearmStep == ASSUME Inv, UserRearm PROVE Inv'
  <1>1. UserOp("retry") /\ UNCHANGED <<config, memory, disk, settings>>
    BY DEF UserRearm, RetryFailed, RetryFailedOne
  <1>2. /\ SoundBook'
        /\ \A c \in Channels :
             IsOpen(book[c]) => /\ IsOpen(book'[c])
                                /\ Head(book[c]).state = "pending"
                                   => Head(book'[c]).state = "pending"
    <2>1. CASE RetryFailed
      <3>1. ASSUME NEW c \in Channels
            PROVE  /\ book'[c] \in Seq(Sound)
                   /\ IsOpen(book[c]) => /\ IsOpen(book'[c])
                                         /\ Head(book'[c]) = Rearm(Head(book[c]))
        <4>1. book[c] \in Seq(Sound) /\ book'[c] = RearmAll(book[c])
          BY <2>1 DEF Inv, SoundBook, RetryFailed
        <4>2. QED
          BY <4>1, RearmAllSound
      <3>2. QED
        BY <2>1, <3>1 DEF RetryFailed, SoundBook, Rearm
    <2>2. ASSUME NEW c \in Channels, RetryFailedOne(c)
          PROVE  /\ SoundBook' /\ IsOpen(book'[c])
                 /\ Head(book'[c]) = Rearm(Head(book[c]))
                 /\ \A o \in Channels \ {c} : book'[o] = book[o]
      <3>1. /\ book[c] \in Seq(Sound) /\ book[c] # <<>>
        BY <2>2 DEF Inv, SoundBook, RetryFailedOne, IsOpen
      <3>2. Head(book[c]) \in Sound /\ Head(book[c]) = book[c][1]
        BY <3>1, HeadAndTail
      <3>3. Rearm(Head(book[c])) \in Sound
        BY <3>2, ItemStaysSound
      <3>4. book' = [book EXCEPT ![c][1] = Rearm(Head(book[c]))]
        BY <2>2, <3>2 DEF RetryFailedOne
      <3>5. \A o \in Channels \ {c} : book'[o] = book[o]
        BY <2>2 DEF RetryFailedOne, Inv, SoundBook
      <3>6. QED
        BY <3>1, <3>3, <3>4, <3>5, HeadReplaced DEF Inv, IsOpen
    <2>3. QED
      BY <2>1, <2>2 DEF UserRearm, Rearm
  <1>3. ConfigOK'
    BY <1>1, UserOpKeeps DEF Inv, ConfigOK, config, settings
  <1>4. SoundDisk'
    BY <1>1 DEF Inv, SoundDisk, disk
  <1>5. InFlight'
    BY <1>1, <1>2, InFlightKept
  <1>6. QED
    BY <1>1, <1>2, <1>3, <1>4, <1>5, UserOpKeeps DEF Inv

LEMMA SettingsStep == ASSUME Inv, SetAutomation \/ SetDryRun PROVE Inv'
  <1>1. PICK op : UserOp(op)
    BY DEF SetAutomation, SetDryRun
  <1>2. /\ UNCHANGED <<config, memory, book, disk>>
        /\ automation' \in BOOLEAN /\ dryRun' \in BOOLEAN
    BY DEF Inv, ConfigOK, SetAutomation, SetDryRun
  <1>3. ConfigOK'
    BY <1>1, <1>2, UserOpKeeps DEF Inv, ConfigOK, config
  <1>4. SoundBook' /\ SoundDisk'
    BY <1>2 DEF Inv, SoundBook, SoundDisk, disk
  <1>5. InFlight'
    BY <1>1, <1>2, InFlightKept
  <1>6. QED
    BY <1>1, <1>3, <1>4, <1>5, UserOpKeeps DEF Inv

\* What Reload makes of the memories: each is kept, emptied, or freed of its
\* hold.
LEMMA ReloadStep ==
    ASSUME Inv, NEW r \in Rules, NEW new \in RuleConfig \cup {None}, Reload(r, new)
    PROVE  Inv'
  <1> DEFINE loaded  == [files EXCEPT ![r] = new]
             left    == [o \in Rules |-> LeftBehind(rules[o], loaded[o], memory[o].hold)]
             removed == {o \in Rules : rules[o] # None /\ loaded[o] = None
                                       /\ memory[o].hold # None}
             owed    == QueuedOn((UNION {left[o] : o \in Rules})
                                 \cup {memory[o].hold.channel : o \in removed})
             kept    == [o \in Rules |->
                            IF loaded[o] = None THEN FreshMemory
                            ELSE IF Leaves(rules[o], loaded[o])
                            THEN [memory[o] EXCEPT !.hold = None] ELSE memory[o]]
  <1>1. /\ UserOp("reload") /\ rules' = StandDown(loaded) /\ files' = loaded
        /\ memory' = kept /\ book' = owed /\ UNCHANGED settings
    BY DEF Reload
  <1>2. \/ \E d \in BOOLEAN : Flush(d, owed, kept)
        \/ \E last \in Rules : Flush(TRUE, owed, [kept EXCEPT ![last] = memory[last]])
    <2>1. (dirty \/ removed # {}) \in BOOLEAN
      OBVIOUS
    <2>2. \/ Flush(dirty \/ removed # {}, owed, kept)
          \/ \E last \in Rules : Flush(TRUE, owed, [kept EXCEPT ![last] = memory[last]])
      BY Zenon DEF Reload
    <2> HIDE DEF owed, kept, removed
    <2>3. QED
      BY <2>1, <2>2
  <1>3. kept \in [Rules -> Memory]
    <2>1. ASSUME NEW o \in Rules
          PROVE  /\ [memory[o] EXCEPT !.hold = None] \in Memory
                 /\ memory[o] \in Memory /\ FreshMemory \in Memory
      BY EngineAssumption DEF Inv, ConfigOK, Memory, FreshMemory
    <2>2. QED
      BY <2>1
  <1>4. owed \in [Channels -> Seq(Sound)]
    BY QueuedOnSound
  <1>5. loaded \in [Rules -> RuleConfig \cup {None}]
    BY DEF Inv, ConfigOK
  <1>6. InFlight'
    BY <1>1, QueuedOnSound, InFlightKept
  <1> HIDE DEF loaded, left, removed, owed, kept
  <1>7. ConfigOK'
    BY <1>1, <1>3, <1>5, StandDownType, UserOpKeeps DEF Inv, ConfigOK, settings
  <1>8. SoundDisk'
    <2>1. ASSUME NEW last \in Rules
          PROVE  [kept EXCEPT ![last] = memory[last]] \in [Rules -> Memory]
      BY <1>3 DEF Inv, ConfigOK
    <2>2. QED
      BY <1>2, <1>3, <1>4, <2>1, FlushSound DEF Inv
  <1>9. SoundBook'
    BY <1>1, <1>4 DEF SoundBook
  <1>10. QED
    BY <1>1, <1>6, <1>7, <1>8, <1>9, UserOpKeeps DEF Inv

-----------------------------------------------------------------------------
(* And the end and the beginning of a process *)

LEMMA GoneStep ==
    ASSUME Inv, Gone, files' \in RuleSets,
           UNCHANGED mover \/ (phase = "writing" /\ Moved),
           NoFlush(FALSE) \/ \E d \in BOOLEAN : Flush(d, book, memory)
    PROVE  Inv'
  <1>1. FreshMemory \in Memory
    BY EngineAssumption DEF FreshMemory, Memory
  <1>2. live' \in BOOLEAN /\ crashes' \in 0 .. MaxCrashes
    <2>1. live' \in BOOLEAN
      BY Zenon DEF Gone
    <2>2. crashes' \in 0 .. MaxCrashes
      BY EngineAssumption DEF Inv, ConfigOK, Gone
    <2>3. QED
      BY <2>1, <2>2
  <1>3. ConfigOK'
    BY <1>1, <1>2 DEF Inv, Gone, ConfigOK, settings, RuleSets
  <1>4. PassOK'
    BY DEF Gone, PassOK
  <1>5. HardwareOK'
    <2>1. mover' \in [Channels -> Rules \cup {None}]
      BY WritingJob DEF Inv, HardwareOK, Moved
    <2>2. QED
      BY <2>1 DEF Inv, Gone, HardwareOK
  <1>6. SoundBook'
    BY DEF Gone, SoundBook
  <1>7. SoundDisk'
    <2>1. memory \in [Rules -> Memory]
      BY DEF Inv, ConfigOK
    <2>2. CASE NoFlush(FALSE)
      <3>1. dirty' \in BOOLEAN
        BY <2>2, Zenon DEF NoFlush
      <3>2. QED
        BY <2>2, <3>1 DEF Inv, SoundDisk, NoFlush
    <2>3. CASE \E d \in BOOLEAN : Flush(d, book, memory)
      BY <2>1, <2>3, FlushSound DEF Inv, SoundBook
    <2>4. QED
      BY <2>2, <2>3
  <1>8. InFlight'
    BY DEF Gone, InFlight
  <1>9. QED
    BY <1>3, <1>4, <1>5, <1>6, <1>7, <1>8 DEF Inv

\* Items read back from disk.
LEMMA RecoveredSound ==
    ASSUME SoundDisk, NEW active
    PROVE  Recovered(active) \in [Channels -> Seq(Sound)]
  <1>1. ASSUME NEW c \in Channels
        PROVE  Recovered(active)[c] \in Seq(Sound)
    <2> DEFINE orphans == {r \in Rules : /\ record.holds[r] = c
                                         /\ ~ /\ active[r] # None
                                              /\ active[r].enabled
                                              /\ active[r].target = c}
               q == record.items[c]
               restored == [i \in DOMAIN q |-> Restore(q[i])]
               held == [i \in 1 .. Cardinality(orphans) |-> HoldItem]
    <2>1. q \in Seq(Sound)
      BY DEF SoundDisk
    <2>2. restored \in Seq(Sound)
      <3>1. \A i \in DOMAIN q : Restore(q[i]) \in Sound
        BY <2>1, ElementOfSeq, LenProperties, ItemStaysSound
      <3>2. restored \in [DOMAIN q -> Sound]
        BY <3>1
      <3> HIDE DEF q
      <3>3. QED
        BY <2>1, <3>2, Mapped
    <2>3. held \in Seq(Sound)
      <3>1. Cardinality(orphans) \in Nat
        BY EngineAssumption, FS_Subset, FS_CardinalityType
      <3>2. held \in [1 .. Cardinality(orphans) -> Sound]
        BY FreshIsSound
      <3>3. QED
        BY <3>1, <3>2, SeqDef
    <2>4. Recovered(active)[c] = restored \o held
      BY Zenon DEF Recovered
    <2> HIDE DEF restored, held
    <2>5. QED
      BY <2>2, <2>3, <2>4, ConcatProperties
  <1>2. QED
    BY <1>1 DEF Recovered

LEMMA RestartStep == ASSUME Inv, Restart PROVE Inv'
  <1> DEFINE active == StandDown(files)
  <1>1. active \in [Rules -> RuleConfig \cup {None}]
    BY StandDownType DEF Inv, ConfigOK
  <1>2. /\ rules' = active /\ book' = Recovered(active) /\ live' = TRUE
        /\ dirty' = AnyOpen(Recovered(active)) /\ persistError' = FALSE
        /\ tries' = [c \in Channels |-> 0] /\ ~live
        /\ UNCHANGED <<files, memory, pass, record, settings, mover, rest, bounds>>
    BY DEF Restart
  <1>3. live' \in BOOLEAN /\ dirty' \in BOOLEAN /\ persistError' \in BOOLEAN
    BY <1>2, Zenon DEF AnyOpen
  <1> HIDE DEF active
  <1>4. ConfigOK' /\ PassOK'
    BY <1>1, <1>2, <1>3 DEF Inv, ConfigOK, PassOK, settings, pass, bounds
  <1>5. HardwareOK'
    BY <1>2, BookAssumption DEF Inv, HardwareOK
  <1>6. SoundBook'
    BY <1>2, RecoveredSound DEF Inv, SoundBook
  <1>7. SoundDisk'
    BY <1>2, <1>3 DEF Inv, SoundDisk
  <1>8. InFlight'
    BY <1>2 DEF Inv, InFlight, pass
  <1>9. QED
    BY <1>4, <1>5, <1>6, <1>7, <1>8 DEF Inv

LEMMA InvStep == Inv /\ [Next]_vars => Inv'
  <1> SUFFICES ASSUME Inv, [Next]_vars
               PROVE  Inv'
    OBVIOUS
  <1>1. CASE UNCHANGED vars
    BY <1>1 DEF Inv, ConfigOK, PassOK, HardwareOK, SoundBook, SoundDisk, InFlight,
                vars, config, pass, disk, settings, hardware, bounds
  <1>2. CASE Tick
    <2>1. CASE BeginTick \/ BeginStaleTick \/ DisabledTick
      BY <2>1, BooksOfANewTick, StartPassStep, DisabledTickStep
      DEF Inv, BeginTick, BeginStaleTick
    <2>2. CASE HandoverStep
      BY <2>2, SupersedeStep, AwaitOwnerStep, LeaveParkedStep,
         AttemptHandoverStep, FinishHandoverStep DEF HandoverStep
    <2>3. CASE BeginRules \/ RuleStep \/ EndTick
      BY <2>3, BeginRulesStep, SkipRuleStep, WriteRuleStep, RuleAppliedStep,
         RuleNotConfirmedStep, FinishPolicyStep, EndTickStep DEF RuleStep
    <2>4. QED
      BY <1>2, <2>1, <2>2, <2>3 DEF Tick
  <1>3. CASE User
    BY <1>3, SaveRuleStep, ReloadStep, DeleteRuleStep, DeleteRuleFailsStep,
       RearmStep, SettingsStep DEF User
  <1>4. CASE Ends
    <2>1. files \in RuleSets
      BY DEF Inv, ConfigOK, RuleSets
    <2>2. CASE Crash
      BY <2>1, <2>2, GoneStep DEF Crash
    <2>3. ASSUME NEW r \in Rules, NEW new \in RuleConfig \cup {None}, CrashInEdit(r, new)
          PROVE  Inv'
      <3>1. files' \in RuleSets
        BY <2>1, <2>3 DEF CrashInEdit, RuleSets
      <3>2. QED
        BY <2>3, <3>1, GoneStep DEF CrashInEdit
    <2>4. CASE Stop
      <3>1. (dirty \/ AnyOpen(book)) \in BOOLEAN
        OBVIOUS
      <3>2. files' \in RuleSets
        BY <2>1, <2>4 DEF Stop
      <3>3. QED
        BY <2>4, <3>1, <3>2, GoneStep, Zenon DEF Stop
    <2>5. QED
      BY <1>4, <2>2, <2>3, <2>4 DEF Ends
  <1>5. CASE Restart
    BY <1>5, RestartStep
  <1>6. QED
    BY <1>1, <1>2, <1>3, <1>4, <1>5 DEF Next

LEMMA InvAlways == Spec => []Inv
  BY InitInv, InvStep, PTL DEF Spec

\* TypeOK holds for any rules, channels and limits.
THEOREM TypeCorrect == Spec => []TypeOK
  BY InvAlways, InvTypes, PTL

-----------------------------------------------------------------------------
(* The fail-safe duty is not written under a claimant *)

\* Of rules that share no output, the one that drives a channel claims it.
LEMMA DriverClaims ==
    ASSUME OneRulePerOutput, NEW c \in Channels, NEW r \in Rules, Drives(r, c)
    PROVE  Claimed(c)
  <1>1. \A o \in Rules : Drives(o, c) => r = o
    BY DEF OneRulePerOutput
  <1>2. r \in Nat
    BY EngineAssumption
  <1>3. IsClaimant(r, c)
    BY <1>1, <1>2 DEF IsClaimant
  <1>4. QED
    BY <1>3 DEF Claimed

\* How a step can end with a fail-safe write in flight.
LEMMA SafingSteps ==
    ASSUME ~Overlapping, Inv, [Next]_vars, phase' = "safing"
    PROVE  \/ phase = "safing" /\ UNCHANGED <<rules, job>>
           \/ \E c \in Channels : AttemptHandover(c)
  <1>1. CASE UNCHANGED vars
    BY <1>1 DEF vars, config, pass
  <1>2. CASE Tick
    BY <1>2 DEF Tick, BeginTick, BeginStaleTick, StartPass, DisabledTick, pass,
                HandoverStep, Supersede, AwaitOwner, LeaveParked, Visiting, Visited,
                FinishHandover, BeginRules, RuleStep, SkipRule, WriteRule,
                RuleApplied, RuleNotConfirmed, RuleDone, WriteFailed, FinishPolicy,
                EndTick
  <1>3. CASE User
    <2>1. \E op : UserOp(op)
      BY <1>3 DEF User, UserRearm, SaveRule, Reload, DeleteRule, DeleteRuleFails,
                  RetryFailed, RetryFailedOne, SetAutomation, SetDryRun
    <2>2. QED
      BY <2>1 DEF UserOp, pass
  <1>4. CASE Ends
    BY <1>4 DEF Ends, Crash, CrashInEdit, Stop, Gone
  <1>5. CASE Restart
    BY <1>5 DEF Restart, pass, Inv, InFlight
  <1>6. QED
    BY <1>1, <1>2, <1>3, <1>4, <1>5 DEF Next

\* NoFightWithClaimant, for any rules and channels, if user operations wait
\* for the tick to end: claimant_of is asked in the same stretch of the tick
\* as the write, and its answer misses no rule that drives the channel.
THEOREM FailsafeKeepsClear ==
    ASSUME ~Overlapping
    PROVE  Spec => []NoFightWithClaimant
  <1>1. Init => NoFightWithClaimant
    BY DEF Init, NoFightWithClaimant
  <1>2. Inv /\ OneRulePerOutput /\ NoFightWithClaimant /\ [Next]_vars
        => NoFightWithClaimant'
    <2> SUFFICES ASSUME Inv, OneRulePerOutput, NoFightWithClaimant,
                        [Next]_vars, phase' = "safing", NEW r \in Rules
                 PROVE  ~Drives(r, job.channel)'
      BY DEF NoFightWithClaimant
    <2>1. CASE phase = "safing" /\ UNCHANGED <<rules, job>>
      BY <2>1 DEF NoFightWithClaimant, Drives
    <2>2. ASSUME NEW c \in Channels, AttemptHandover(c)
          PROVE  ~Drives(r, job.channel)'
      <3>1. job'.channel = c /\ rules' = rules /\ ~Claimed(c)
        BY <2>2 DEF AttemptHandover, Visiting, config
      <3>2. ~Drives(r, c)
        BY <3>1, DriverClaims
      <3>3. QED
        BY <3>1, <3>2 DEF Drives
    <2>3. QED
      BY <2>1, <2>2, SafingSteps
  <1>3. QED
    BY <1>1, <1>2, InvAlways, OutputsHaveOneRule, PTL DEF Spec

-----------------------------------------------------------------------------
(* What a crash would lose is on disk *)

Unconfirmed(m, r) == m[r].hold # None /\ ~m[r].hold.confirmed

\* A successful write records all there is: a memory it was given may hold
\* more than the one that stays.
LEMMA WrittenCovers ==
    ASSUME NEW m, Persist(book', m),
           \A r \in Rules :
              Unconfirmed(memory', r) => Unconfirmed(m, r) /\ m[r].hold = memory'[r].hold
    PROVE  RecordCoversOwed'
  <1>1. CASE record' = RecordOf(book', m)
    <2>1. \A c \in Channels : record'.items[c] = book'[c]
      BY <1>1 DEF RecordOf
    <2>2. \A r \in Rules : Unconfirmed(m, r) => record'.holds[r] = m[r].hold.channel
      BY <1>1 DEF RecordOf, Unconfirmed
    <2>3. QED
      BY <2>1, <2>2 DEF RecordCoversOwed, Recorded, Unconfirmed, IsOpen
  <1>2. CASE persistError' = TRUE
    BY <1>2 DEF RecordCoversOwed
  <1>3. QED
    BY <1>1, <1>2 DEF Persist

\* No write is needed where nothing new is owed.
LEMMA NothingNewOwed ==
    ASSUME RecordCoversOwed, live, UNCHANGED <<record, persistError>>,
           \A c \in Channels : IsOpen(book'[c]) => IsOpen(book[c]),
           \A r \in Rules :
              Unconfirmed(memory', r) => memory[r].hold = memory'[r].hold
    PROVE  RecordCoversOwed'
  BY DEF RecordCoversOwed, Recorded, Unconfirmed

\* Between the two writes of a rule its memory is the one it will put back; a
\* process that ended remembers nothing.
Remembered ==
    /\ phase = "policy" => memory[job.rule] = job.state
    /\ ~live => \A r \in Rules : memory[r].hold = None

LEMMA RememberedStep ==
    ASSUME ~Overlapping
    PROVE  Inv /\ Remembered /\ [Next]_vars => Remembered'
  <1> SUFFICES ASSUME Inv, Remembered, [Next]_vars
               PROVE  Remembered'
    OBVIOUS
  <1>1. CASE UNCHANGED vars
    BY <1>1 DEF Remembered, vars, pass
  <1>2. ASSUME NEW o, RuleNotConfirmed(o)
        PROVE  Remembered'
    <2>1. job \in Job /\ job.rule \in Rules /\ live
      BY <1>2, WritingJob DEF RuleNotConfirmed
    <2>2. \/ phase' = "rules"
          \/ \E state : /\ phase' = "policy" /\ job' = [job EXCEPT !.state = state]
                        /\ memory' = [memory EXCEPT ![job.rule] = state]
      BY <1>2 DEF RuleNotConfirmed, WriteFailed, RuleDone
    <2>3. memory \in [Rules -> Memory] /\ live'
      BY <1>2, <2>1 DEF RuleNotConfirmed, Inv, ConfigOK
    <2>4. QED
      BY <2>1, <2>2, <2>3 DEF Remembered, Job
  <1>3. CASE Tick /\ ~ \E o : RuleNotConfirmed(o)
    <2>1. phase' # "policy" /\ live'
      BY <1>3 DEF Tick, BeginTick, BeginStaleTick, StartPass, DisabledTick, pass,
                  HandoverStep, Supersede, AwaitOwner, LeaveParked, Visiting, Visited,
                  AttemptHandover, FinishHandover, BeginRules, RuleStep, SkipRule,
                  WriteRule, RuleApplied, RuleDone, FinishPolicy, EndTick
    <2>2. QED
      BY <2>1 DEF Remembered
  <1>4. CASE User
    <2>1. \E op : UserOp(op)
      BY <1>4 DEF User, UserRearm, SaveRule, Reload, DeleteRule, DeleteRuleFails,
                  RetryFailed, RetryFailedOne, SetAutomation, SetDryRun
    <2>2. QED
      BY <2>1 DEF UserOp, pass, Remembered
  <1>5. CASE Ends
    <2>1. Gone
      BY <1>5 DEF Ends, Crash, CrashInEdit, Stop
    <2>2. phase' = "idle" /\ \A r \in Rules : memory'[r].hold = None
      BY <2>1 DEF Gone, FreshMemory
    <2>3. QED
      BY <2>2 DEF Remembered
  <1>6. CASE Restart
    BY <1>6 DEF Restart, pass, Inv, InFlight, Remembered
  <1>7. QED
    BY <1>1, <1>2, <1>3, <1>4, <1>5, <1>6 DEF Next

\* The tick either writes the record, or owes no more than before.
LEMMA TickCovers ==
    ASSUME Inv, Remembered, RecordCoversOwed, Tick
    PROVE  RecordCoversOwed'
  <1>1. ASSUME NEW b, StartPass(b),
               \A c \in Channels : IsOpen(b[c]) => IsOpen(book[c])
        PROVE  RecordCoversOwed'
    BY <1>1, NothingNewOwed DEF StartPass, NoFlush
  <1>2. \A c \in Channels : IsOpen(CountedDown[c]) => IsOpen(book[c])
    BY CountDownSound DEF CountedDown, IsOpen, Inv, SoundBook
  <1>3. CASE BeginTick
    <2>1. ASSUME NEW gone \in SUBSET Unverified, NEW c \in Channels,
                 IsOpen(VerifiedBook(gone)[c])
          PROVE  IsOpen(book[c])
      <3>1. CASE c \in Unverified
        BY <3>1 DEF Unverified, IsOpen
      <3>2. CASE c \notin Unverified
        <4>1. VerifiedBook(gone)[c] = CountedDown[c]
          BY <3>2, Zenon DEF VerifiedBook, CountedDown
        <4>2. QED
          BY <1>2, <2>1, <4>1
      <3>3. QED
        BY <3>1, <3>2
    <2>2. QED
      BY <1>1, <1>3, <2>1 DEF BeginTick
  <1>4. CASE BeginStaleTick
    BY <1>1, <1>2, <1>4 DEF BeginStaleTick
  <1>5. CASE DisabledTick
    BY <1>2, <1>5, NothingNewOwed DEF DisabledTick, disk
  <1>6. ASSUME NEW c \in Channels,
               Supersede(c) \/ AwaitOwner(c) \/ LeaveParked(c) \/ AttemptHandover(c)
        PROVE  RecordCoversOwed'
    <2>1. /\ IsOpen(book[c]) /\ live
          /\ \A o \in Channels \ {c} : book'[o] = book[o]
          /\ UNCHANGED <<memory, record, persistError>>
      BY <1>6 DEF Inv, SoundBook, Supersede, AwaitOwner, LeaveParked,
                  AttemptHandover, Visiting, disk
    <2>2. QED
      BY <2>1, NothingNewOwed
  <1>7. ASSUME NEW o, FinishHandover(o)
        PROVE  RecordCoversOwed'
    <2>1. job.channel \in Channels /\ IsOpen(book[job.channel])
      BY <1>7 DEF FinishHandover, Inv, InFlight, Job
    <2>2. /\ live /\ \A c \in Channels \ {job.channel} : book'[c] = book[c]
          /\ UNCHANGED <<memory, record, persistError>>
      BY <1>7 DEF Inv, SoundBook, FinishHandover, disk
    <2>3. QED
      BY <2>1, <2>2, NothingNewOwed
  <1>8. ASSUME NEW r \in Rules, SkipRule(r) \/ WriteRule(r)
        PROVE  RecordCoversOwed'
    BY <1>8, NothingNewOwed DEF SkipRule, WriteRule, disk
  <1>9. CASE BeginRules
    BY <1>9, NothingNewOwed DEF BeginRules, disk
  <1>10. ASSUME NEW o, RuleApplied(o)
         PROVE  RecordCoversOwed'
    <2>1. \A r \in Rules : Unconfirmed(memory', r) => memory[r].hold = memory'[r].hold
      BY <1>10 DEF RuleApplied, Unconfirmed, Holding, Inv, ConfigOK
    <2>2. QED
      BY <1>10, <2>1, NothingNewOwed DEF RuleApplied, disk
  <1>11. ASSUME NEW o, RuleNotConfirmed(o)
         PROVE  RecordCoversOwed'
    <2>1. Persist(book', memory')
      BY <1>11 DEF RuleNotConfirmed, Flush
    <2>2. QED
      BY <2>1, WrittenCovers
  <1>12. CASE FinishPolicy
    <2>1. memory' = memory
      BY <1>12, WritingJob DEF FinishPolicy, Remembered, Inv, ConfigOK
    <2>2. QED
      BY <1>12, <2>1, NothingNewOwed DEF FinishPolicy, disk
  <1>13. CASE EndTick
    <2>1. CASE dirty
      <3>1. Persist(book', memory')
        BY <1>13, <2>1 DEF EndTick, Flush
      <3>2. QED
        BY <3>1, WrittenCovers
    <2>2. CASE ~dirty
      BY <1>13, <2>2, NothingNewOwed DEF EndTick, Flush
    <2>3. QED
      BY <2>1, <2>2
  <1>14. QED
    BY <1>3, <1>4, <1>5, <1>6, <1>7, <1>8, <1>9, <1>10, <1>11, <1>12, <1>13
    DEF Tick, HandoverStep, RuleStep

\* Nothing is queued where no channel was left.
LEMMA NothingQueued ==
    ASSUME NEW left, left = {}, NEW c \in Channels
    PROVE  QueuedOn(left)[c] = book[c]
  BY DEF QueuedOn

\* A memory that only lost holds owes nothing new.
LEMMA SaveRuleCovers ==
    ASSUME Inv, RecordCoversOwed, NEW r \in Rules, NEW new \in RuleConfig,
           SaveRule(r, new)
    PROVE  RecordCoversOwed'
  <1> DEFINE left == LeftBehind(rules[r], new, memory[r].hold)
  <1>1. live /\ book' = QueuedOn(left)
    BY DEF SaveRule, UserOp
  <1>2. \A o \in Rules :
           Unconfirmed(memory', o) => Unconfirmed(memory, o) /\ memory[o].hold = memory'[o].hold
    BY DEF SaveRule, Unconfirmed, Inv, ConfigOK, Memory
  <1>3. CASE Leaves(rules[r], new) /\ (dirty \/ left # {})
    <2>1. Persist(book', memory)
      BY <1>1, <1>3 DEF SaveRule, Flush
    <2>2. QED
      BY <1>2, <2>1, WrittenCovers
  <1>4. CASE ~Leaves(rules[r], new) \/ left = {}
    <2>1. left = {}
      BY <1>4, Zenon DEF LeftBehind
    <2>2. CASE UNCHANGED <<record, persistError>>
      <3> HIDE DEF left
      <3>1. QED
        BY <1>1, <1>2, <2>1, <2>2, NothingQueued, NothingNewOwed
    <2>3. CASE Persist(book', memory)
      BY <1>2, <2>3, WrittenCovers
    <2>4. QED
      BY <1>1, <2>2, <2>3 DEF SaveRule, Flush, NoFlush
  <1>5. QED
    BY <1>3, <1>4

LEMMA DeleteRuleCovers ==
    ASSUME Inv, RecordCoversOwed, NEW r \in Rules, DeleteRule(r)
    PROVE  RecordCoversOwed'
  <1> DEFINE left == IF memory[r].hold = None THEN {} ELSE {memory[r].hold.channel}
  <1>1. live /\ book' = QueuedOn(left)
    BY DEF DeleteRule, UserOp
  <1>2. CASE Persist(book', memory')
    BY <1>2, WrittenCovers
  <1>3. CASE memory[r].hold = None /\ UNCHANGED <<record, persistError>>
    <2>1. left = {}
      BY <1>3
    <2>2. \A o \in Rules : Unconfirmed(memory', o) => memory[o].hold = memory'[o].hold
      BY DEF DeleteRule, Unconfirmed, Inv, ConfigOK, FreshMemory
    <2> HIDE DEF left
    <2>3. QED
      BY <1>1, <1>3, <2>1, <2>2, NothingQueued, NothingNewOwed
  <1>4. QED
    BY <1>2, <1>3 DEF DeleteRule, Flush

\* Whichever path of load_rules wrote the record last, it missed no hold that
\* is still unconfirmed.
LEMMA ReloadCovers ==
    ASSUME Inv, RecordCoversOwed, NEW r \in Rules,
           NEW new \in RuleConfig \cup {None}, Reload(r, new)
    PROVE  RecordCoversOwed'
  <1> DEFINE loaded  == [files EXCEPT ![r] = new]
             left    == [o \in Rules |-> LeftBehind(rules[o], loaded[o], memory[o].hold)]
             removed == {o \in Rules : rules[o] # None /\ loaded[o] = None
                                       /\ memory[o].hold # None}
             all     == (UNION {left[o] : o \in Rules})
                        \cup {memory[o].hold.channel : o \in removed}
             queued  == {o \in Rules : left[o] # {}}
  <1>1. live /\ book' = QueuedOn(all)
    BY DEF Reload, UserOp
  <1>2. \A o \in Rules :
           Unconfirmed(memory', o) => Unconfirmed(memory, o) /\ memory[o].hold = memory'[o].hold
    <2>1. \A o \in Rules : \/ memory'[o] = FreshMemory
                            \/ memory'[o] = [memory[o] EXCEPT !.hold = None]
                            \/ memory'[o] = memory[o]
      BY DEF Reload
    <2>2. \A o \in Rules : memory[o] \in Memory
      BY DEF Inv, ConfigOK
    <2>3. \A o \in Rules : memory'[o].hold = None \/ memory'[o] = memory[o]
      <3>1. FreshMemory.hold = None
        BY DEF FreshMemory
      <3>2. \A m \in Memory : [m EXCEPT !.hold = None].hold = None
        BY DEF Memory
      <3>3. QED
        BY <2>1, <2>2, <3>1, <3>2, Zenon
    <2>4. QED
      BY <2>3 DEF Unconfirmed
  <1>3. \/ removed = {} /\ queued = {} /\ UNCHANGED <<record, persistError>>
        \/ Persist(book', memory')
        \/ \E last \in Rules : Persist(book', [memory' EXCEPT ![last] = memory[last]])
    <2>1. \/ removed = {} /\ queued = {} /\ Flush(dirty, book', memory')
          \/ Flush(TRUE, book', memory')
          \/ \E last \in Rules : Flush(TRUE, book', [memory' EXCEPT ![last] = memory[last]])
      <3>1. IF removed # {} \/ queued = {}
            THEN Flush(dirty \/ removed # {}, book', memory')
            ELSE \E last \in queued :
                    Flush(TRUE, book', [memory' EXCEPT ![last] = memory[last]])
        BY Zenon DEF Reload
      <3> HIDE DEF removed, queued, left, loaded, all
      <3>2. queued \subseteq Rules
        BY DEF queued
      <3>3. QED
        BY <3>1, <3>2 DEF Flush
    <2> HIDE DEF removed, queued, left, loaded, all
    <2>2. QED
      BY <2>1 DEF Flush
  <1>4. CASE Persist(book', memory')
    BY <1>4, WrittenCovers
  <1>5. ASSUME NEW last \in Rules,
               Persist(book', [memory' EXCEPT ![last] = memory[last]])
        PROVE  RecordCoversOwed'
    <2> DEFINE m == [memory' EXCEPT ![last] = memory[last]]
    <2>1. DOMAIN memory' = Rules
      BY DEF Reload
    <2>2. \A o \in Rules :
             Unconfirmed(memory', o) => Unconfirmed(m, o) /\ m[o].hold = memory'[o].hold
      BY <1>2, <2>1 DEF Unconfirmed
    <2> HIDE DEF m
    <2>3. Persist(book', m)
      BY <1>5 DEF m
    <2>4. QED
      BY <2>2, <2>3, WrittenCovers
  <1>6. CASE removed = {} /\ queued = {} /\ UNCHANGED <<record, persistError>>
    <2>1. \A o \in Rules : left[o] = {}
      BY <1>6
    <2>2. all = {}
      <3> HIDE DEF left, removed
      <3>1. QED
        BY <1>6, <2>1
    <2> HIDE DEF all
    <2>3. QED
      BY <1>1, <1>2, <1>6, <2>2, NothingQueued, NothingNewOwed
  <1>7. QED
    BY <1>3, <1>4, <1>5, <1>6

LEMMA OtherUserCovers ==
    ASSUME Inv, RecordCoversOwed,
           \/ UserRearm \/ SetAutomation \/ SetDryRun
           \/ \E r \in Rules : DeleteRuleFails(r)
    PROVE  RecordCoversOwed'
  <1>1. live /\ UNCHANGED <<memory, record, persistError>>
    BY DEF UserRearm, RetryFailed, RetryFailedOne, SetAutomation, SetDryRun,
           DeleteRuleFails, UserOp, disk
  <1>2. \A c \in Channels : IsOpen(book'[c]) => IsOpen(book[c])
    <2>1. CASE RetryFailed
      BY <2>1, RearmAllSound DEF RetryFailed, Inv, SoundBook
    <2>2. ASSUME NEW c \in Channels, RetryFailedOne(c)
          PROVE  IsOpen(book[c]) /\ \A o \in Channels \ {c} : book'[o] = book[o]
      BY <2>2 DEF RetryFailedOne, Inv, SoundBook
    <2>3. CASE SetAutomation \/ SetDryRun \/ \E r \in Rules : DeleteRuleFails(r)
      BY <2>3 DEF SetAutomation, SetDryRun, DeleteRuleFails
    <2>4. QED
      BY <2>1, <2>2, <2>3 DEF UserRearm
  <1>3. QED
    BY <1>1, <1>2, NothingNewOwed

\* What a restarted engine takes up, it found on disk.
LEMMA RestartCovers ==
    ASSUME Inv, Remembered, Restart
    PROVE  RecordCoversOwed'
  <1> DEFINE active == StandDown(files)
  <1>1. /\ book' = Recovered(active) /\ record' = record
        /\ \A r \in Rules : memory'[r].hold = None
    BY DEF Restart, Remembered
  <1>2. ASSUME NEW c \in Channels, record.items[c] = <<>>,
               \A r \in Rules : record.holds[r] # c
        PROVE  Recovered(active)[c] = <<>>
    <2> DEFINE orphans == {r \in Rules : /\ record.holds[r] = c
                                         /\ ~ /\ active[r] # None
                                              /\ active[r].enabled
                                              /\ active[r].target = c}
    <2>1. orphans = {}
      BY <1>2
    <2>2. Cardinality(orphans) = 0
      <3> HIDE DEF orphans
      <3>1. QED
        BY <2>1, FS_EmptySet
    <2>3. Recovered(active)[c]
             = [i \in DOMAIN record.items[c] |-> Restore(record.items[c][i])]
               \o [i \in 1 .. Cardinality(orphans) |-> HoldItem]
      BY Zenon DEF Recovered
    <2> HIDE DEF orphans
    <2>4. [i \in DOMAIN record.items[c] |-> Restore(record.items[c][i])] = <<>>
      BY <1>2
    <2>5. [i \in 1 .. Cardinality(orphans) |-> HoldItem] = <<>>
      BY <2>2
    <2>6. QED
      BY <2>3, <2>4, <2>5
  <1> HIDE DEF active
  <1>3. QED
    BY <1>1, <1>2 DEF RecordCoversOwed, Recorded, IsOpen

\* RecordCoversOwed, for any rules, channels and limits, if user operations
\* wait for the tick to end: every path that changes what the engine owes
\* writes the record, or raises persistError, before it lets go.
THEOREM RecordIsKept ==
    ASSUME ~Overlapping
    PROVE  Spec => []RecordCoversOwed
  <1>1. Init => RecordCoversOwed /\ Remembered
    BY DEF Init, RecordCoversOwed, Remembered, IsOpen, FreshMemory
  <1>2. Inv /\ Remembered /\ RecordCoversOwed /\ [Next]_vars => RecordCoversOwed'
    <2> SUFFICES ASSUME Inv, Remembered, RecordCoversOwed, [Next]_vars
                 PROVE  RecordCoversOwed'
      OBVIOUS
    <2>1. CASE UNCHANGED vars
      BY <2>1 DEF vars, disk, RecordCoversOwed, Recorded
    <2>2. CASE Tick
      BY <2>2, TickCovers
    <2>3. CASE User
      BY <2>3, SaveRuleCovers, ReloadCovers, DeleteRuleCovers, OtherUserCovers DEF User
    <2>4. CASE Ends
      BY <2>4 DEF Ends, Crash, CrashInEdit, Stop, Gone, RecordCoversOwed
    <2>5. CASE Restart
      BY <2>5, RestartCovers
    <2>6. QED
      BY <2>1, <2>2, <2>3, <2>4, <2>5 DEF Next
  <1>3. Inv /\ Remembered /\ [Next]_vars => Remembered'
    BY RememberedStep
  <1>4. QED
    BY <1>1, <1>2, <1>3, InvAlways, PTL DEF Spec

-----------------------------------------------------------------------------
(* What an unanswering channel may still cost *)

\* The writes an item may still ask for before someone edits something: its
\* budget, and that of the resumption it is entitled to.
WritesLeft(item) ==
    (IF item.state = "pending" THEN MaxAttempts - item.attempts ELSE 0)
    + (IF item.parkedByClaim \/ item.state = "awaiting_owner" THEN MaxAttempts ELSE 0)

\* Unless the user re-arms, only a claim that came to nothing marks an item as
\* parked by one, and such an item still has attempts to make.
ParkedFairly(item) ==
    item.parkedByClaim /\ "retry" \notin UserOps
    => item.state = "failed" /\ item.attempts < MaxAttempts

\* An item, the writes since the last edit, the ticks since the last of them,
\* and whether a rule claims the channel.
Fits(item, t, w, claimed) ==
    /\ ParkedFairly(item)
    /\ t + WritesLeft(item) <= 2 * MaxAttempts
    /\ t > 0 /\ ~claimed /\ ClaimReleasable(item)
       => item.state = "failed" /\ "retry" \in UserOps
    /\ t > 0 /\ item.state = "pending"
       => \/ w + item.cooldown >= RetryTicks
          \/ "retry" \in UserOps /\ item.attempts = 0

LEMMA WritesLeftRange ==
    ASSUME NEW item \in Item
    PROVE  WritesLeft(item) \in 0 .. 2 * MaxAttempts
  BY BookAssumption DEF WritesLeft, Item

\* An edit starts the count anew, whatever it does to the claims.
LEMMA FitsAfterEdit ==
    ASSUME NEW item \in Item, ParkedFairly(item), NEW w \in Nat, NEW claimed
    PROVE  Fits(item, 0, w, claimed)
  BY WritesLeftRange, BookAssumption DEF Fits

\* A change of the waiting time alone.
LEMMA CooldownKeeps ==
    ASSUME NEW item \in Item, NEW n \in 0 .. RetryTicks
    PROVE  LET x == [item EXCEPT !.cooldown = n] IN
           /\ x \in Item /\ x.cooldown = n
           /\ x.state = item.state /\ x.attempts = item.attempts
           /\ x.parkedByClaim = item.parkedByClaim
  BY DEF Item

CountedDownItem(item) ==
    [item EXCEPT !.cooldown = IF @ = 0 THEN 0 ELSE @ - 1]

\* A tick passes: the wait is shorter by what the rest is longer.
LEMMA FitsAfterTick ==
    ASSUME NEW item \in Item, NEW t \in Nat, NEW w \in 0 .. RetryTicks, NEW claimed,
           Fits(item, t, w, claimed)
    PROVE  /\ Fits(CountedDownItem(item), t, Smaller(w + 1, RetryTicks), claimed)
           /\ CountedDownItem(item).state = item.state
  <1> DEFINE n == IF item.cooldown = 0 THEN 0 ELSE item.cooldown - 1
             x == [item EXCEPT !.cooldown = n]
  <1>1. n \in 0 .. RetryTicks /\ item.cooldown \in 0 .. RetryTicks
    BY BookAssumption DEF Item
  <1>2. /\ x.cooldown = n /\ x.state = item.state /\ x.attempts = item.attempts
        /\ x.parkedByClaim = item.parkedByClaim
    BY <1>1, CooldownKeeps
  <1>3. CountedDownItem(item) = x
    BY Zenon DEF CountedDownItem
  <1>4. w + item.cooldown >= RetryTicks => Smaller(w + 1, RetryTicks) + n >= RetryTicks
    BY <1>1, BookAssumption DEF Smaller
  <1> HIDE DEF x, n
  <1>5. Fits(x, t, Smaller(w + 1, RetryTicks), claimed)
    BY <1>2, <1>4 DEF Fits, ParkedFairly, WritesLeft, ClaimReleasable
  <1>6. QED
    BY <1>2, <1>3, <1>5

\* A claim comes between: at most the write that was under way when it came.
Waited(item) ==
    LET marked == MarkAwaiting(item) IN
    IF marked.claimedTicks > OwnerWaitTicks THEN ParkUnmetClaim(marked) ELSE marked

LEMMA WaitedFields ==
    ASSUME NEW item \in Item
    PROVE  /\ Waited(item) # item => /\ item.state \in {"pending", "awaiting_owner"}
                                     /\ Waited(item).attempts = item.attempts
                                     /\ Waited(item).state \in {"awaiting_owner", "failed"}
                                     /\ Waited(item).state = "failed" => Waited(item).parkedByClaim
                                     /\ Waited(item).state # "failed" =>
                                          Waited(item).parkedByClaim = item.parkedByClaim
           /\ item.state = "pending" => Waited(item) # item
  <1>1. CASE item.state = "pending"
    <2> DEFINE r == [item EXCEPT !.state = "awaiting_owner", !.claimedTicks = 1]
               p == [r EXCEPT !.state = "failed", !.parkedByClaim = TRUE]
    <2>1. MarkAwaiting(item) = r
      BY <1>1 DEF MarkAwaiting
    <2>2. /\ r \in Item /\ r.state = "awaiting_owner" /\ r.attempts = item.attempts
          /\ r.parkedByClaim = item.parkedByClaim
      BY Values DEF Item
    <2> HIDE DEF r
    <2>3. /\ p.state = "failed" /\ p.attempts = item.attempts
          /\ p.parkedByClaim = TRUE
      BY <2>2 DEF Item
    <2>4. Waited(item) \in {r, p}
      BY <2>1, <2>2, Zenon DEF Waited, ParkUnmetClaim
    <2> HIDE DEF p
    <2>5. QED
      BY <1>1, <2>2, <2>3, <2>4
  <1>2. CASE item.state = "awaiting_owner"
    <2> DEFINE r == [item EXCEPT !.claimedTicks = item.claimedTicks + 1]
               p == [r EXCEPT !.state = "failed", !.parkedByClaim = TRUE]
    <2>1. MarkAwaiting(item) = r
      BY <1>2 DEF MarkAwaiting
    <2>2. /\ r.state = "awaiting_owner" /\ r.attempts = item.attempts
          /\ r.parkedByClaim = item.parkedByClaim
      BY <1>2 DEF Item
    <2>3. /\ p.state = "failed" /\ p.attempts = item.attempts
          /\ p.parkedByClaim = TRUE
      BY DEF Item
    <2> HIDE DEF r
    <2>4. Waited(item) \in {r, p}
      BY <2>1, <2>2, Zenon DEF Waited, ParkUnmetClaim
    <2> HIDE DEF p
    <2>5. QED
      BY <1>2, <2>2, <2>3, <2>4
  <1>3. CASE item.state \notin {"pending", "awaiting_owner"}
    <2>1. Waited(item) = item
      BY <1>3 DEF Waited, MarkAwaiting, ParkUnmetClaim
    <2>2. QED
      BY <1>3, <2>1
  <1>4. QED
    BY <1>1, <1>2, <1>3

LEMMA FitsAfterWait ==
    ASSUME NEW item \in Sound, NEW t \in 0 .. 1, NEW w \in Nat, NEW claimed,
           claimed, Fits(item, t, w, claimed)
    PROVE  Fits(Waited(item), t, w, claimed)
  <1>1. item \in Item /\ Waited(item) \in Sound
    BY WaitStaysSound DEF Sound, Waited
  <1>2. CASE Waited(item) = item
    BY <1>2
  <1>3. CASE Waited(item) # item
    <2> DEFINE x == Waited(item)
    <2>1. /\ x \in Item /\ x.attempts = item.attempts
          /\ x.state \in {"awaiting_owner", "failed"}
          /\ x.state # "failed" => x.parkedByClaim = item.parkedByClaim
          /\ x.state = "failed" => x.parkedByClaim
          /\ item.state \in {"pending", "awaiting_owner"}
      BY <1>1, <1>3, WaitedFields DEF Sound
    <2>2. item.attempts < MaxAttempts
      BY <2>1 DEF Sound
    <2> HIDE DEF x
    <2>3. ParkedFairly(x)
      BY <2>1, <2>2 DEF Fits, ParkedFairly
    <2>4. WritesLeft(x) <= MaxAttempts
      BY <2>1, BookAssumption DEF WritesLeft, Item
    <2>5. WritesLeft(x) \in Nat
      BY <2>1, WritesLeftRange
    <2>6. Fits(x, t, w, claimed)
      BY <2>1, <2>3, <2>4, <2>5, BookAssumption DEF Fits
    <2>7. QED
      BY <2>6 DEF x
  <1>4. QED
    BY <1>2, <1>3

\* The claim is gone: the second budget begins.
LEMMA FitsAfterRelease ==
    ASSUME NEW item \in Sound, NEW t \in Nat, NEW w \in Nat, NEW claimed,
           ~claimed, ClaimReleasable(item), Fits(item, t, w, claimed)
    PROVE  Fits(ReleaseClaim(item), t, w, claimed)
  <1> DEFINE x == ReleaseClaim(item)
  <1>1. /\ x.state = "pending" /\ x.attempts = 0 /\ x.cooldown = 0
        /\ x.parkedByClaim = FALSE
    BY DEF ReleaseClaim, Sound, Item
  <1>2. WritesLeft(x) = MaxAttempts
    BY <1>1, BookAssumption DEF WritesLeft
  <1>3. t <= MaxAttempts
    <2>1. CASE t = 0
      BY <2>1, BookAssumption
    <2>2. CASE t > 0
      <3>1. item.state = "failed" /\ item.parkedByClaim
        BY <2>2 DEF Fits, ClaimReleasable
      <3>2. WritesLeft(item) = MaxAttempts
        BY <3>1, BookAssumption DEF WritesLeft
      <3>3. QED
        BY <3>2, BookAssumption DEF Fits
    <2>3. QED
      BY <2>1, <2>2
  <1>4. t > 0 => "retry" \in UserOps
    BY DEF Fits
  <1> HIDE DEF x
  <1>5. Fits(x, t, w, claimed)
    BY <1>1, <1>2, <1>3, <1>4, BookAssumption DEF Fits, ParkedFairly, ClaimReleasable
  <1>6. QED
    BY <1>5 DEF x

\* A write that was not confirmed.
LEMMA FitsAfterAttempt ==
    ASSUME NEW item \in Sound, NEW t \in 0 .. 2 * MaxAttempts + 1, NEW w \in Nat,
           NEW claimed, item.state = "pending", Fits(item, t, w, claimed)
    PROVE  /\ Fits(RecordAttempt(item), Smaller(t + 1, 2 * MaxAttempts + 1), 0, claimed)
           /\ RecordAttempt(item).state \in {"pending", "failed"}
  <1> DEFINE x == RecordAttempt(item)
             t1 == Smaller(t + 1, 2 * MaxAttempts + 1)
  <1>1. /\ x.state = (IF item.attempts + 1 >= MaxAttempts THEN "failed" ELSE "pending")
        /\ x.attempts = item.attempts + 1 /\ x.cooldown = RetryTicks
        /\ x.parkedByClaim = item.parkedByClaim
    BY DEF RecordAttempt, Sound, Item
  <1>2. item.attempts \in 0 .. MaxAttempts - 1 /\ item.parkedByClaim \in BOOLEAN
    BY BookAssumption DEF Sound, Item
  <1>3. item.parkedByClaim => "retry" \in UserOps
    BY DEF Fits, ParkedFairly
  <1> HIDE DEF x
  <1>4. WritesLeft(x) + 1 <= WritesLeft(item) /\ WritesLeft(x) \in Nat
        /\ WritesLeft(item) \in Nat
    BY <1>1, <1>2, BookAssumption DEF WritesLeft
  <1>5. t1 + WritesLeft(x) <= 2 * MaxAttempts
    BY <1>4, BookAssumption DEF Fits, Smaller
  <1>6. Fits(x, t1, 0, claimed)
    <2>1. ParkedFairly(x)
      BY <1>1, <1>3 DEF ParkedFairly
    <2>2. ClaimReleasable(x) => x.state = "failed" /\ "retry" \in UserOps
      BY <1>1, <1>3 DEF ClaimReleasable
    <2>3. 0 + x.cooldown >= RetryTicks
      BY <1>1, BookAssumption
    <2> HIDE DEF t1
    <2>4. QED
      BY <1>5, <2>1, <2>2, <2>3 DEF Fits
  <1>7. QED
    BY <1>1, <1>6 DEF x

-----------------------------------------------------------------------------
(* A process that started with nothing on record *)

\* A channel has one unfinished job, and it was not read back from disk.
Single(q) == Len(q) <= 1 /\ (IsOpen(q) => Head(q).state # "needs_verification")

LEMMA SingleTick ==
    ASSUME NEW q \in Seq(Sound), Single(q)
    PROVE  /\ Single(CountDown(q))
           /\ IsOpen(CountDown(q)) <=> IsOpen(q)
           /\ IsOpen(q) => Head(CountDown(q)) = CountedDownItem(Head(q))
  <1>1. CountDown(q) \in Seq(Sound) /\ (CountDown(q) = <<>> <=> q = <<>>)
    BY CountDownSound
  <1>2. Len(CountDown(q)) = Len(q)
    <2>1. CountDown(q) \in [DOMAIN q -> {CountedDownItem(q[i]) : i \in DOMAIN q}]
      BY DEF CountDown, CountedDownItem
    <2>2. QED
      BY <2>1, Mapped
  <1>3. ASSUME q # <<>>
        PROVE  Head(CountDown(q)) = CountedDownItem(Head(q)) /\ Head(q) \in Sound
    <2>1. Head(CountDown(q)) = CountDown(q)[1] /\ Head(q) = q[1] /\ 1 \in DOMAIN q
          /\ Head(q) \in Sound
      BY <1>1, <1>3, HeadAndTail, LenProperties
    <2>2. CountDown(q)[1] = CountedDownItem(q[1])
      BY <2>1 DEF CountDown, CountedDownItem
    <2>3. QED
      BY <2>1, <2>2
  <1>4. \A item \in Item : CountedDownItem(item).state = item.state
    BY DEF CountedDownItem, Item
  <1>5. QED
    BY <1>1, <1>2, <1>3, <1>4 DEF Single, IsOpen, Sound

LEMMA SingleDone ==
    ASSUME NEW q \in Seq(Sound), Single(q), IsOpen(q)
    PROVE  Tail(q) = <<>> /\ Single(<<>>) /\ ~IsOpen(<<>>)
  <1>1. Len(q) = 1
    <2> DEFINE n == Len(q)
    <2>1. 1 \in 1 .. n /\ n \in Nat
      BY HeadAndTail, LenProperties DEF IsOpen
    <2>2. n <= 1
      BY DEF Single
    <2> HIDE DEF n
    <2>3. n = 1
      BY <2>1, <2>2
    <2>4. QED
      BY <2>3 DEF n
  <1>2. Tail(q) \in Seq(Sound) /\ Len(Tail(q)) = 0
    BY <1>1, HeadTailProperties DEF IsOpen
  <1>3. Len(<<>>) = 0
    BY EmptySeq
  <1>4. QED
    BY <1>2, <1>3, EmptySeq DEF Single, IsOpen

LEMMA SingleHead ==
    ASSUME NEW q \in Seq(Sound), Single(q), IsOpen(q), NEW x \in Sound,
           x.state # "needs_verification"
    PROVE  /\ Single([q EXCEPT ![1] = x]) /\ IsOpen([q EXCEPT ![1] = x])
           /\ Head([q EXCEPT ![1] = x]) = x
  <1>1. /\ [q EXCEPT ![1] = x] # <<>> /\ Head([q EXCEPT ![1] = x]) = x
    BY NewHead DEF IsOpen
  <1>2. Len([q EXCEPT ![1] = x]) = Len(q)
    BY HeadAndTail, ExceptSeq DEF IsOpen
  <1>3. QED
    BY <1>1, <1>2 DEF Single, IsOpen

LEMMA SingleQueued ==
    ASSUME NEW q \in Seq(Sound), Single(q)
    PROVE  /\ Single(Queue(q)) /\ IsOpen(Queue(q))
           /\ Head(Queue(q)) = IF IsOpen(q)
                               THEN [Head(q) EXCEPT !.cooldown = Smaller(@, NextTick)]
                               ELSE FreshItem
  <1>1. CASE IsOpen(q)
    <2>1. q # <<>> /\ q[1] = Head(q) /\ q[1] \in Sound
      BY <1>1, HeadAndTail DEF IsOpen
    <2> DEFINE n == Smaller(q[1].cooldown, NextTick)
               x == [q[1] EXCEPT !.cooldown = n]
    <2>2. n \in 0 .. RetryTicks
      BY <2>1, BookAssumption DEF Smaller, NextTick, Sound, Item
    <2>3. x \in Sound /\ x.state = q[1].state
      BY <2>1, <2>2, CooldownStaysSound
    <2>4. Queue(q) = [q EXCEPT ![1] = x]
      BY <1>1 DEF Queue
    <2>5. x.state # "needs_verification"
      BY <1>1, <2>1, <2>3 DEF Single
    <2>6. x = [Head(q) EXCEPT !.cooldown = Smaller(@, NextTick)]
      BY <2>1
    <2> HIDE DEF x
    <2>7. QED
      BY <1>1, <2>3, <2>4, <2>5, <2>6, SingleHead, Zenon
  <1>2. CASE ~IsOpen(q)
    <2>1. Queue(q) = <<FreshItem>>
      BY <1>2 DEF Queue
    <2>2. Len(<<FreshItem>>) = 1 /\ <<FreshItem>> # <<>> /\ Head(<<FreshItem>>) = FreshItem
      OBVIOUS
    <2>3. FreshItem.state = "pending"
      BY DEF FreshItem
    <2>4. QED
      BY <1>2, <2>1, <2>2, <2>3 DEF Single, IsOpen
  <1>3. QED
    BY <1>1, <1>2

LEMMA RearmFields ==
    ASSUME NEW item \in Item
    PROVE  Rearm(item) = item \/ (item.state = "failed" /\ Rearm(item).state = "pending")
  BY DEF Rearm, Item

LEMMA SingleRearmed ==
    ASSUME NEW q \in Seq(Sound), Single(q)
    PROVE  Single(RearmAll(q))
  <1>1. /\ RearmAll(q) \in Seq(Sound)
        /\ IsOpen(RearmAll(q)) <=> IsOpen(q)
        /\ IsOpen(q) => Head(RearmAll(q)) = Rearm(Head(q)) /\ Head(q) \in Sound
    BY RearmAllSound, HeadAndTail DEF IsOpen
  <1>2. Len(RearmAll(q)) = Len(q)
    <2>1. RearmAll(q) \in [DOMAIN q -> {Rearm(q[i]) : i \in DOMAIN q}]
      BY DEF RearmAll
    <2>2. QED
      BY <2>1, Mapped
  <1>3. IsOpen(q) => Rearm(Head(q)).state # "needs_verification"
    BY <1>1, RearmFields DEF Single, Sound
  <1>4. QED
    BY <1>1, <1>2, <1>3 DEF Single

\* The engine as long as it neither crashed nor was stopped.
FirstProcess == live /\ \A c \in Channels : Single(book[c])

LEMMA NothingRecovered ==
    ASSUME SoundBook, FirstProcess
    PROVE  /\ Unverified = {}
           /\ \A gone \in SUBSET Unverified : VerifiedBook(gone) = CountedDown
  <1>1. ASSUME NEW c \in Channels, NEW i \in DOMAIN book[c]
        PROVE  book[c][i].state # "needs_verification"
    <2>1. book[c] \in Seq(Sound) /\ Single(book[c])
      BY DEF SoundBook, FirstProcess
    <2>2. i = 1 /\ book[c] # <<>>
      BY <2>1, LenProperties, EmptySeq DEF Single
    <2>3. book[c][i] = Head(book[c])
      BY <2>1, <2>2, HeadAndTail
    <2>4. QED
      BY <2>1, <2>2, <2>3 DEF Single, IsOpen
  <1>2. Unverified = {}
    BY <1>1 DEF Unverified
  <1>3. QED
    BY <1>2, Zenon DEF VerifiedBook, CountedDown

\* What one step does to the book of such a process, and to what it is paced
\* by: a tick starts, one channel is visited, or someone edits.
BookUntouched == UNCHANGED <<rules, book, tries, rest>>

TickStarts == /\ book' = CountedDown /\ Rested /\ UNCHANGED <<rules, tries>>
              /\ phase = "idle" /\ phase' \in {"idle", "handovers"}

Edited == /\ \E op : UserOp(op)
          /\ \A c \in Channels : \/ book'[c] = book[c]
                                 \/ book'[c] = Queue(book[c])
                                 \/ /\ "retry" \in UserOps
                                    /\ book'[c] = RearmAll(book[c])
                                 \/ /\ "retry" \in UserOps /\ IsOpen(book[c])
                                    /\ book'[c] = [book[c] EXCEPT ![1] = Rearm(@)]

LEMMA FirstProcessSteps ==
    ASSUME MaxCrashes = 0, Inv, FirstProcess, [Next]_vars
    PROVE  /\ live'
           /\ \/ /\ BookUntouched
                 /\ phase' = "safing" => phase = "safing" /\ job' = job
              \/ TickStarts
              \/ \E c \in Channels : \/ Supersede(c) \/ AwaitOwner(c)
                                     \/ LeaveParked(c) \/ AttemptHandover(c)
              \/ \E o \in {"applied", "simulated", "unconfirmed", "failed"} :
                     FinishHandover(o)
              \/ Edited
  <1>1. CASE UNCHANGED vars
    BY <1>1 DEF vars, config, pass, hardware, FirstProcess, BookUntouched
  <1>2. CASE BeginTick \/ BeginStaleTick
    <2>1. BeginTick
      BY <1>2, NothingRecovered DEF BeginStaleTick, Inv
    <2>2. StartPass(CountedDown)
      BY <2>1, NothingRecovered DEF BeginTick, Inv
    <2>3. QED
      BY <2>2 DEF StartPass, TickStarts, FirstProcess, config
  <1>3. CASE DisabledTick
    BY <1>3 DEF DisabledTick, TickStarts, FirstProcess, config, pass
  <1>4. CASE HandoverStep
    BY <1>4 DEF HandoverStep, Supersede, AwaitOwner, LeaveParked, AttemptHandover,
                Visiting, FinishHandover
  <1>5. CASE BeginRules \/ RuleStep \/ EndTick
    BY <1>5 DEF BeginRules, RuleStep, SkipRule, WriteRule, RuleApplied,
                RuleNotConfirmed, RuleDone, WriteFailed, FinishPolicy, EndTick,
                BookUntouched, FirstProcess, config, hardware
  <1>6. CASE User
    <2>1. Edited
      <3>1. ASSUME NEW op, UserOp(op), book' = book
            PROVE  Edited
        BY <3>1 DEF Edited
      <3>2. ASSUME NEW op, UserOp(op), NEW left, book' = QueuedOn(left)
            PROVE  Edited
        BY <3>2 DEF Edited, QueuedOn
      <3>3. CASE UserRearm
        <4>1. CASE RetryFailed
          BY <4>1 DEF RetryFailed, Edited, UserOp
        <4>2. ASSUME NEW c \in Channels, RetryFailedOne(c)
              PROVE  Edited
          <5>1. \A o \in Channels \ {c} : book'[o] = book[o]
            BY <4>2 DEF RetryFailedOne
          <5>2. book'[c] = [book[c] EXCEPT ![1] = Rearm(@)]
            BY <4>2 DEF RetryFailedOne, Inv, SoundBook
          <5>3. QED
            BY <4>2, <5>1, <5>2 DEF RetryFailedOne, Edited, UserOp
        <4>3. QED
          BY <3>3, <4>1, <4>2 DEF UserRearm
      <3>4. CASE SetAutomation \/ SetDryRun \/ \E r \in Rules : DeleteRuleFails(r)
        BY <3>1, <3>4 DEF SetAutomation, SetDryRun, DeleteRuleFails
      <3>5. ASSUME NEW r \in Rules, NEW new \in RuleConfig, SaveRule(r, new)
            PROVE  Edited
        BY <3>2, <3>5 DEF SaveRule
      <3>6. ASSUME NEW r \in Rules, DeleteRule(r)
            PROVE  Edited
        BY <3>2, <3>6 DEF DeleteRule
      <3>7. ASSUME NEW r \in Rules, NEW new \in RuleConfig \cup {None}, Reload(r, new)
            PROVE  Edited
        BY <3>2, <3>7, Zenon DEF Reload
      <3>8. QED
        BY <1>6, <3>3, <3>4, <3>5, <3>6, <3>7 DEF User
    <2>2. live'
      BY <2>1 DEF Edited, UserOp
    <2>3. QED
      BY <2>1, <2>2
  <1>7. CASE Ends
    <2>1. crashes < MaxCrashes
      BY <1>7 DEF Ends, Crash, CrashInEdit, Stop, Gone
    <2>2. QED
      BY <2>1 DEF Inv, ConfigOK
  <1>8. CASE Restart
    BY <1>8 DEF Restart, FirstProcess
  <1>9. QED
    BY <1>1, <1>2, <1>3, <1>4, <1>5, <1>6, <1>7, <1>8 DEF Next, Tick

\* The head of a channel's queue becomes the item x.
HeadBecomes(c, x) ==
    x \in Sound /\ Single(book'[c]) /\ IsOpen(book'[c]) /\ Head(book'[c]) = x

LEMMA HeadIsReplaced ==
    ASSUME SoundBook, NEW c \in Channels, Single(book[c]), IsOpen(book[c]),
           NEW x \in Sound, x.state # "needs_verification",
           book' = [book EXCEPT ![c][1] = x]
    PROVE  HeadBecomes(c, x)
  <1>1. book[c] \in Seq(Sound) /\ book'[c] = [book[c] EXCEPT ![1] = x]
    BY DEF SoundBook
  <1>2. QED
    BY <1>1, SingleHead DEF HeadBecomes

\* What a visit leaves at the head.
Visited1(c) ==
    \/ TakenOver(c) /\ Claimed(c) /\ book'[c] = <<>> /\ phase' = "handovers"
    \/ Claimed(c) /\ HeadBecomes(c, Waited(Head(book[c]))) /\ phase' = "handovers"
    \/ /\ ~Claimed(c) /\ HeadBecomes(c, Resumed(c))
       /\ \/ phase' = "handovers"
          \/ phase' = "safing" /\ job'.channel = c /\ IsDue(Resumed(c))

LEMMA Visits ==
    ASSUME Inv, FirstProcess, NEW c \in Channels,
           Supersede(c) \/ AwaitOwner(c) \/ LeaveParked(c) \/ AttemptHandover(c)
    PROVE  /\ phase = "handovers" /\ UNCHANGED <<rules, tries, rest>>
           /\ \A o \in Channels \ {c} : book'[o] = book[o]
           /\ IsOpen(book[c]) /\ Head(book[c]) \in Sound
           /\ Visited1(c)
  <1>1. /\ phase = "handovers" /\ UNCHANGED <<rules, tries, rest>>
        /\ IsOpen(book[c]) /\ Visiting(c)
    BY DEF Supersede, AwaitOwner, LeaveParked, AttemptHandover, Visiting, config, hardware
  <1>2. \A o \in Channels \ {c} : book'[o] = book[o]
    BY DEF Supersede, AwaitOwner, LeaveParked, AttemptHandover, Inv, SoundBook
  <1>3. /\ SoundBook /\ Head(book[c]) \in Sound /\ Single(book[c])
        /\ book[c] \in Seq(Sound) /\ Head(book[c]).state # "needs_verification"
    BY <1>1, VisitingRest DEF FirstProcess, Single, SoundBook
  <1>4. ASSUME Supersede(c)
        PROVE  Visited1(c)
    <2>1. TakenOver(c) /\ Claimed(c)
      BY <1>4 DEF Supersede, TakenOver, Claimed
    <2>2. book'[c] = Tail(book[c]) /\ phase' = "handovers"
      BY <1>1, <1>3, <1>4 DEF Supersede, Visited, SoundBook
    <2>3. QED
      BY <1>1, <1>3, <2>1, <2>2, SingleDone DEF Visited1
  <1>5. ASSUME AwaitOwner(c)
        PROVE  Visited1(c)
    <2> DEFINE x == Waited(Head(book[c]))
    <2>1. x \in Sound /\ x.state # "needs_verification"
      BY <1>3, WaitStaysSound, WaitedFields DEF Waited, Sound
    <2>2. book' = [book EXCEPT ![c][1] = x]
      BY <1>5 DEF AwaitOwner, Waited
    <2>3. Claimed(c) /\ phase' = "handovers"
      BY <1>1, <1>5 DEF AwaitOwner, Visited
    <2> HIDE DEF x
    <2>4. HeadBecomes(c, x)
      BY <1>1, <1>3, <2>1, <2>2, HeadIsReplaced
    <2>5. QED
      BY <2>3, <2>4 DEF Visited1, x
  <1>6. ASSUME LeaveParked(c) \/ AttemptHandover(c)
        PROVE  Visited1(c)
    <2>1. Resumed(c) \in Sound
      BY <1>3, ResumedIsSound
    <2>2. Resumed(c).state # "needs_verification"
      BY <1>3 DEF Resumed, ReleaseClaim, Sound, Item
    <2>3. book' = [book EXCEPT ![c][1] = Resumed(c)] /\ ~Claimed(c)
      BY <1>6 DEF LeaveParked, AttemptHandover
    <2>4. \/ phase' = "handovers"
          \/ phase' = "safing" /\ job'.channel = c /\ IsDue(Resumed(c))
      BY <1>1, <1>6 DEF LeaveParked, Visited, AttemptHandover, MayAttempt
    <2>5. HeadBecomes(c, Resumed(c))
      BY <1>1, <1>3, <2>1, <2>2, <2>3, HeadIsReplaced
    <2>6. QED
      BY <2>3, <2>4, <2>5 DEF Visited1
  <1>7. QED
    BY <1>1, <1>2, <1>3, <1>4, <1>5, <1>6

\* What the answer to a fail-safe write does.
Answered(c) ==
    \/ /\ book'[c] = <<>> /\ tries' = [tries EXCEPT ![c] = 0] /\ rest' = rest
    \/ /\ HeadBecomes(c, RecordAttempt(Head(book[c])))
       /\ tries' = [tries EXCEPT ![c] = Smaller(@ + 1, 2 * MaxAttempts + 1)]
       /\ rest' = [rest EXCEPT ![c] = 0]

LEMMA Answers ==
    ASSUME Inv, FirstProcess, NEW o, FinishHandover(o)
    PROVE  /\ phase = "safing" /\ phase' = "handovers" /\ UNCHANGED rules
           /\ job.channel \in Channels
           /\ \A c \in Channels \ {job.channel} : book'[c] = book[c]
           /\ IsOpen(book[job.channel]) /\ Head(book[job.channel]) \in Sound
           /\ Head(book[job.channel]).state = "pending"
           /\ Answered(job.channel)
  <1> DEFINE c == job.channel
  <1>1. /\ phase = "safing" /\ phase' = "handovers" /\ UNCHANGED rules
        /\ c \in Channels /\ IsOpen(book[c]) /\ Head(book[c]).state = "pending"
    BY DEF Inv, FinishHandover, InFlight, Job, config
  <1>2. /\ SoundBook /\ Single(book[c]) /\ book[c] \in Seq(Sound)
        /\ Head(book[c]) \in Sound /\ book[c][1] = Head(book[c])
    BY <1>1, HeadAndTail DEF Inv, SoundBook, FirstProcess, IsOpen
  <1>3. \A x \in Channels \ {c} : book'[x] = book[x]
    BY DEF FinishHandover, Inv, SoundBook
  <1>4. CASE o \in {"applied", "simulated"}
    <2>1. book'[c] = Tail(book[c])
      BY <1>1, <1>2, <1>4 DEF FinishHandover, SoundBook
    <2>2. tries' = [tries EXCEPT ![c] = 0] /\ rest' = rest
      BY <1>4 DEF FinishHandover
    <2>3. QED
      BY <1>1, <1>2, <1>3, <2>1, <2>2, SingleDone DEF Answered
  <1>5. CASE o \notin {"applied", "simulated"}
    <2> DEFINE x == RecordAttempt(Head(book[c]))
    <2>1. /\ tries' = [tries EXCEPT ![c] = Smaller(@ + 1, 2 * MaxAttempts + 1)]
          /\ rest' = [rest EXCEPT ![c] = 0]
          /\ book' = [book EXCEPT ![c][1] = x]
      BY <1>1, <1>2, <1>5 DEF FinishHandover
    <2>2. x \in Sound
      BY <1>1, <1>2, ItemStaysSound
    <2>3. x.state # "needs_verification"
      BY <1>1, <1>2 DEF RecordAttempt, Sound, Item
    <2> HIDE DEF x
    <2>4. HeadBecomes(c, x)
      BY <1>1, <1>2, <2>1, <2>2, <2>3, HeadIsReplaced
    <2>5. QED
      BY <1>1, <1>2, <1>3, <2>1, <2>4 DEF Answered, x
  <1>6. QED
    BY <1>4, <1>5

LEMMA FirstProcessStep ==
    ASSUME MaxCrashes = 0
    PROVE  Inv /\ FirstProcess /\ [Next]_vars => FirstProcess'
  <1> SUFFICES ASSUME Inv, FirstProcess, [Next]_vars, NEW c \in Channels
               PROVE  Single(book'[c])
    BY FirstProcessSteps DEF FirstProcess
  <1>1. /\ book[c] \in Seq(Sound) /\ Single(book[c]) /\ SoundBook /\ SoundBook'
        /\ book'[c] \in Seq(Sound) /\ Inv'
    BY InvStep DEF Inv, SoundBook, FirstProcess
  <1>2. CASE BookUntouched
    BY <1>1, <1>2 DEF BookUntouched
  <1>3. CASE TickStarts
    BY <1>1, <1>3, SingleTick DEF TickStarts, CountedDown
  <1>4. ASSUME NEW x \in Channels,
               Supersede(x) \/ AwaitOwner(x) \/ LeaveParked(x) \/ AttemptHandover(x)
        PROVE  Single(book'[c])
    <2>1. Visited1(x) /\ \A y \in Channels \ {x} : book'[y] = book[y]
      BY <1>4, Visits
    <2>2. Single(<<>>)
      BY DEF Single, IsOpen
    <2>3. QED
      BY <1>1, <2>1, <2>2 DEF Visited1, HeadBecomes
  <1>5. ASSUME NEW o, FinishHandover(o)
        PROVE  Single(book'[c])
    <2>1. Single(<<>>)
      BY DEF Single, IsOpen
    <2>2. QED
      BY <1>1, <1>5, <2>1, Answers DEF Answered, HeadBecomes
  <1>6. CASE Edited
    <2>1. CASE book'[c] = book[c] \/ book'[c] = Queue(book[c])
               \/ book'[c] = RearmAll(book[c])
      <3> DEFINE q == book[c]
      <3>1. Single(q) /\ Single(Queue(q)) /\ Single(RearmAll(q))
        BY <1>1, SingleQueued, SingleRearmed
      <3>2. QED
        BY <2>1, <3>1, Zenon
    <2>2. CASE IsOpen(book[c]) /\ book'[c] = [book[c] EXCEPT ![1] = Rearm(@)]
      <3>1. /\ Head(book[c]) = book[c][1] /\ Head(book[c]) \in Sound
            /\ Rearm(Head(book[c])) \in Sound
        BY <1>1, <2>2, HeadAndTail, ItemStaysSound DEF IsOpen
      <3>2. Rearm(Head(book[c])).state # "needs_verification"
        BY <1>1, <2>2, <3>1, RearmFields DEF Single, Sound
      <3>3. book'[c] = [book[c] EXCEPT ![1] = Rearm(Head(book[c]))]
        BY <2>2, <3>1
      <3>4. QED
        BY <1>1, <2>2, <3>1, <3>2, <3>3, SingleHead
    <2>3. QED
      BY <1>6, <2>1, <2>2 DEF Edited
  <1>7. QED
    BY <1>2, <1>3, <1>4, <1>5, <1>6, FirstProcessSteps

-----------------------------------------------------------------------------
(* Handovers are paced *)

Writing(c) == phase = "safing" /\ job.channel = c

\* For every channel: its item fits what was written since the last edit, a
\* claim leaves room for at most the write it overtook, and a write under way
\* had its rest.
Paced(c) ==
    /\ IsOpen(book[c]) => Fits(Head(book[c]), tries[c], rest[c], Claimed(c))
    /\ Claimed(c) => tries[c] <= 1 /\ (Writing(c) => tries[c] = 0)
    /\ tries[c] <= 2 * MaxAttempts
    /\ Writing(c) /\ tries[c] > 0
       => \/ rest[c] >= RetryTicks
          \/ "retry" \in UserOps /\ Head(book[c]).attempts = 0

Pace == \A c \in Channels : Paced(c)

\* Claims are read off the rules.
LEMMA ClaimsKept ==
    ASSUME UNCHANGED rules, NEW c \in Channels
    PROVE  Claimed(c)' <=> Claimed(c)
  BY DEF Claimed, IsClaimant, Drives

LEMMA CountTypes ==
    ASSUME HardwareOK, NEW c \in Channels
    PROVE  tries[c] \in 0 .. 2 * MaxAttempts + 1 /\ rest[c] \in 0 .. RetryTicks
  BY DEF HardwareOK

\* A channel the step has nothing to do with.
LEMMA PacedKept ==
    ASSUME NEW c \in Channels, Paced(c), UNCHANGED rules, book'[c] = book[c],
           tries'[c] = tries[c], rest'[c] = rest[c],
           Writing(c)' => Writing(c)
    PROVE  Paced(c)'
  <1>1. Claimed(c)' <=> Claimed(c)
    BY ClaimsKept
  <1>2. IsOpen(book'[c])
        => Fits(Head(book'[c]), tries'[c], rest'[c], Claimed(c)')
    BY <1>1, Zenon DEF Paced, Fits
  <1>3. Writing(c)' /\ tries'[c] > 0
        => \/ rest'[c] >= RetryTicks
           \/ "retry" \in UserOps /\ Head(book'[c]).attempts = 0
    BY DEF Paced
  <1>4. Claimed(c)' => tries'[c] <= 1 /\ (Writing(c)' => tries'[c] = 0)
    BY <1>1 DEF Paced
  <1>5. tries'[c] <= 2 * MaxAttempts
    BY DEF Paced
  <1>6. QED
    BY <1>2, <1>3, <1>4, <1>5 DEF Paced

LEMMA TickPaces ==
    ASSUME Inv, FirstProcess, Pace, TickStarts, NEW c \in Channels
    PROVE  Paced(c)'
  <1>1. /\ book[c] \in Seq(Sound) /\ Single(book[c]) /\ HardwareOK
        /\ book'[c] = CountDown(book[c]) /\ tries'[c] = tries[c]
        /\ rest'[c] = Smaller(rest[c] + 1, RetryTicks)
        /\ ~Writing(c)'
    BY DEF Inv, SoundBook, FirstProcess, TickStarts, CountedDown, Rested, Writing
  <1>2. Claimed(c)' <=> Claimed(c)
    BY ClaimsKept DEF TickStarts
  <1>3. ASSUME IsOpen(book'[c])
        PROVE  Fits(Head(book'[c]), tries'[c], rest'[c], Claimed(c)')
    <2>1. /\ IsOpen(book[c]) /\ Head(book'[c]) = CountedDownItem(Head(book[c]))
      BY <1>1, <1>3, SingleTick
    <2>2. Head(book[c]) \in Item
      BY <1>1, <2>1, HeadAndTail DEF IsOpen, Sound
    <2>3. Fits(Head(book[c]), tries[c], rest[c], Claimed(c))
      BY <2>1 DEF Pace, Paced
    <2>4. tries[c] \in Nat /\ rest[c] \in 0 .. RetryTicks
      BY <1>1, CountTypes
    <2>5. Fits(CountedDownItem(Head(book[c])), tries[c],
               Smaller(rest[c] + 1, RetryTicks), Claimed(c))
      BY <2>2, <2>3, <2>4, FitsAfterTick
    <2>6. QED
      BY <1>1, <1>2, <2>1, <2>5, Zenon DEF Fits
  <1>4. QED
    BY <1>1, <1>2, <1>3 DEF Pace, Paced

LEMMA VisitPaces ==
    ASSUME Inv, FirstProcess, Pace, NEW c \in Channels,
           Supersede(c) \/ AwaitOwner(c) \/ LeaveParked(c) \/ AttemptHandover(c)
    PROVE  Paced(c)'
  <1> DEFINE h == Head(book[c])
             t == tries[c]
             w == rest[c]
  <1>1. /\ phase = "handovers" /\ UNCHANGED <<rules, tries, rest>>
        /\ IsOpen(book[c]) /\ h \in Sound /\ Visited1(c)
    BY Visits
  <1>2. /\ t \in 0 .. 2 * MaxAttempts + 1 /\ w \in Nat
        /\ tries'[c] = t /\ rest'[c] = w
    BY <1>1, CountTypes DEF Inv
  <1>3. Claimed(c)' <=> Claimed(c)
    BY <1>1, ClaimsKept
  <1>4. /\ Fits(h, t, w, Claimed(c)) /\ t <= 2 * MaxAttempts
        /\ Claimed(c) => t <= 1
    BY <1>1 DEF Pace, Paced
  <1> HIDE DEF h, t, w
  <1>5. CASE Claimed(c) /\ book'[c] = <<>> /\ phase' = "handovers"
    BY <1>2, <1>3, <1>4, <1>5 DEF Paced, Writing, IsOpen
  <1>6. CASE Claimed(c) /\ HeadBecomes(c, Waited(h)) /\ phase' = "handovers"
    <2>1. t \in 0 .. 1
      BY <1>2, <1>4, <1>6
    <2>2. Fits(Waited(h), t, w, Claimed(c))
      BY <1>1, <1>2, <1>4, <1>6, <2>1, FitsAfterWait
    <2>3. Fits(Head(book'[c]), tries'[c], rest'[c], Claimed(c)')
      BY <1>2, <1>3, <1>6, <2>2, Zenon DEF HeadBecomes, Fits
    <2>4. QED
      BY <1>2, <1>3, <1>4, <1>6, <2>3 DEF Paced, Writing
  <1>7. CASE /\ ~Claimed(c) /\ HeadBecomes(c, Resumed(c))
             /\ \/ phase' = "handovers"
                \/ phase' = "safing" /\ job'.channel = c /\ IsDue(Resumed(c))
    <2>1. Fits(Resumed(c), t, w, Claimed(c))
      <3>1. Resumed(c) = h \/ (ClaimReleasable(h) /\ Resumed(c) = ReleaseClaim(h))
        BY Zenon DEF Resumed, h
      <3>2. CASE ClaimReleasable(h) /\ Resumed(c) = ReleaseClaim(h)
        <4>1. Fits(ReleaseClaim(h), t, w, Claimed(c))
          BY <1>1, <1>2, <1>4, <1>7, <3>2, FitsAfterRelease
        <4>2. QED
          BY <3>2, <4>1, Zenon
      <3>3. CASE Resumed(c) = h
        BY <1>4, <3>3, Zenon
      <3>4. QED
        BY <3>1, <3>2, <3>3
    <2>2. Fits(Head(book'[c]), tries'[c], rest'[c], Claimed(c)')
      BY <1>2, <1>3, <1>7, <2>1, Zenon DEF HeadBecomes, Fits
    <2>3. ASSUME IsDue(Resumed(c)), t > 0
          PROVE  \/ w >= RetryTicks
                 \/ "retry" \in UserOps /\ Head(book'[c]).attempts = 0
      <3>1. Head(book'[c]) = Resumed(c)
        BY <1>7 DEF HeadBecomes
      <3>2. Resumed(c).state = "pending" /\ Resumed(c).cooldown = 0
        BY <2>3 DEF IsDue
      <3>3. \/ w + 0 >= RetryTicks
            \/ "retry" \in UserOps /\ Resumed(c).attempts = 0
        BY <2>1, <2>3, <3>2 DEF Fits
      <3>4. QED
        BY <1>2, <3>1, <3>3, BookAssumption
    <2>4. QED
      BY <1>2, <1>3, <1>4, <1>7, <2>2, <2>3 DEF Paced, Writing
  <1>8. QED
    BY <1>1, <1>5, <1>6, <1>7 DEF Visited1, h

LEMMA AnswerPaces ==
    ASSUME Inv, FirstProcess, Pace, NEW o, FinishHandover(o),
           NEW c \in Channels, c = job.channel
    PROVE  Paced(c)'
  <1> DEFINE h == Head(book[c])
             t == tries[c]
  <1>1. /\ phase = "safing" /\ phase' = "handovers" /\ UNCHANGED rules
        /\ c \in Channels /\ IsOpen(book[c]) /\ h \in Sound /\ h.state = "pending"
        /\ Answered(c)
    BY Answers
  <1>2. /\ t \in 0 .. 2 * MaxAttempts + 1 /\ rest[c] \in Nat /\ HardwareOK
    BY <1>1, CountTypes DEF Inv
  <1>3. /\ Fits(h, t, rest[c], Claimed(c)) /\ t <= 2 * MaxAttempts
        /\ Claimed(c) => t = 0
    BY <1>1 DEF Pace, Paced, Writing
  <1>4. Claimed(c)' <=> Claimed(c)
    BY <1>1, ClaimsKept
  <1>5. CASE /\ book'[c] = <<>> /\ tries' = [tries EXCEPT ![c] = 0] /\ rest' = rest
    <2>1. tries'[c] = 0 /\ ~IsOpen(book'[c])
      BY <1>1, <1>2, <1>5 DEF HardwareOK, IsOpen
    <2>2. QED
      BY <1>1, <2>1, BookAssumption DEF Paced, Writing
  <1>6. CASE /\ HeadBecomes(c, RecordAttempt(h))
             /\ tries' = [tries EXCEPT ![c] = Smaller(@ + 1, 2 * MaxAttempts + 1)]
             /\ rest' = [rest EXCEPT ![c] = 0]
    <2> DEFINE t1 == Smaller(t + 1, 2 * MaxAttempts + 1)
    <2>1. tries'[c] = t1 /\ rest'[c] = 0 /\ Head(book'[c]) = RecordAttempt(h)
      BY <1>1, <1>2, <1>6 DEF HardwareOK, HeadBecomes
    <2> HIDE DEF h, t
    <2>2. Fits(RecordAttempt(h), t1, 0, Claimed(c))
      BY <1>1, <1>2, <1>3, FitsAfterAttempt
    <2>3. t1 <= 2 * MaxAttempts
      <3>1. WritesLeft(RecordAttempt(h)) \in Nat
        <4>1. RecordAttempt(h) \in Item
          BY <1>1, ItemStaysSound DEF Sound
        <4>2. QED
          BY <4>1, WritesLeftRange
      <3>2. t1 \in Nat
        BY <1>2, BookAssumption DEF Smaller
      <3>3. t1 + WritesLeft(RecordAttempt(h)) <= 2 * MaxAttempts
        BY <2>2 DEF Fits
      <3> HIDE DEF t1
      <3>4. QED
        BY <3>1, <3>2, <3>3, BookAssumption
    <2>4. Claimed(c) => t1 <= 1
      BY <1>2, <1>3, BookAssumption DEF Smaller
    <2> HIDE DEF t1
    <2>5. Fits(Head(book'[c]), tries'[c], rest'[c], Claimed(c)')
      BY <1>4, <2>1, <2>2, Zenon DEF Fits
    <2>6. QED
      BY <1>1, <1>4, <2>1, <2>3, <2>4, <2>5 DEF Paced, Writing
  <1>7. QED
    BY <1>1, <1>5, <1>6 DEF Answered

\* An edit leaves an item as fair as it was.
LEMMA EditedHead ==
    ASSUME Inv, FirstProcess, Edited, NEW c \in Channels, IsOpen(book'[c]),
           IsOpen(book[c]) => ParkedFairly(Head(book[c]))
    PROVE  Head(book'[c]) \in Item /\ ParkedFairly(Head(book'[c]))
  <1>1. /\ book[c] \in Seq(Sound) /\ Single(book[c])
        /\ IsOpen(book[c]) => /\ Head(book[c]) \in Sound /\ Head(book[c]) \in Item
                              /\ Head(book[c]) = book[c][1]
    BY HeadAndTail DEF Inv, SoundBook, FirstProcess, IsOpen, Sound
  <1>2. CASE book'[c] = book[c]
    BY <1>1, <1>2
  <1>3. CASE book'[c] = Queue(book[c])
    <2>1. CASE IsOpen(book[c])
      <3> DEFINE n == Smaller(Head(book[c]).cooldown, NextTick)
                 x == [Head(book[c]) EXCEPT !.cooldown = n]
      <3>1. n \in 0 .. RetryTicks
        BY <1>1, <2>1, BookAssumption DEF Smaller, NextTick, Item
      <3>2. Head(book'[c]) = x
        BY <1>1, <1>3, <2>1, SingleQueued, Zenon
      <3>3. /\ x \in Item /\ x.state = Head(book[c]).state
            /\ x.attempts = Head(book[c]).attempts
            /\ x.parkedByClaim = Head(book[c]).parkedByClaim
        BY <1>1, <2>1, <3>1, CooldownKeeps
      <3> HIDE DEF x
      <3>4. QED
        BY <2>1, <3>2, <3>3 DEF ParkedFairly
    <2>2. CASE ~IsOpen(book[c])
      <3>1. Head(book'[c]) = FreshItem /\ FreshItem \in Item
        BY <1>1, <1>3, <2>2, SingleQueued, FreshIsSound DEF Sound
      <3>2. FreshItem.parkedByClaim = FALSE
        BY DEF FreshItem
      <3>3. QED
        BY <3>1, <3>2 DEF ParkedFairly
    <2>3. QED
      BY <2>1, <2>2
  <1>4. CASE "retry" \in UserOps /\ book'[c] = RearmAll(book[c])
    <2>1. RearmAll(book[c]) \in Seq(Sound)
      BY <1>1, RearmAllSound
    <2>2. Head(book'[c]) \in Sound
      BY <1>4, <2>1, HeadAndTail DEF IsOpen
    <2>3. QED
      BY <1>4, <2>2 DEF ParkedFairly, Sound
  <1>5. CASE "retry" \in UserOps /\ IsOpen(book[c])
             /\ book'[c] = [book[c] EXCEPT ![1] = Rearm(@)]
    <2>1. Rearm(Head(book[c])) \in Sound
      BY <1>1, <1>5, ItemStaysSound
    <2>2. Rearm(Head(book[c])).state # "needs_verification"
      BY <1>1, <1>5, RearmFields DEF Single
    <2>3. book'[c] = [book[c] EXCEPT ![1] = Rearm(Head(book[c]))]
      BY <1>1, <1>5
    <2>4. Head(book'[c]) = Rearm(Head(book[c]))
      BY <1>1, <1>5, <2>1, <2>2, <2>3, SingleHead
    <2>5. QED
      BY <1>5, <2>1, <2>4 DEF ParkedFairly, Sound
  <1>6. QED
    BY <1>2, <1>3, <1>4, <1>5 DEF Edited

LEMMA EditPaces ==
    ASSUME Inv, FirstProcess, Pace, Edited, NEW c \in Channels
    PROVE  Paced(c)'
  <1>1. /\ tries'[c] = 0 /\ rest'[c] = rest[c] /\ rest[c] \in Nat
    BY CountTypes DEF Edited, UserOp, Inv
  <1>2. ASSUME IsOpen(book'[c])
        PROVE  Fits(Head(book'[c]), 0, rest[c], Claimed(c)')
    <2>1. IsOpen(book[c]) => ParkedFairly(Head(book[c]))
      BY DEF Pace, Paced, Fits
    <2>2. Head(book'[c]) \in Item /\ ParkedFairly(Head(book'[c]))
      BY <1>2, <2>1, EditedHead
    <2>3. QED
      BY <1>1, <2>2, FitsAfterEdit
  <1>3. QED
    BY <1>1, <1>2, BookAssumption DEF Paced

LEMMA PaceStep ==
    ASSUME MaxCrashes = 0
    PROVE  Inv /\ FirstProcess /\ Pace /\ [Next]_vars => Pace'
  <1> SUFFICES ASSUME Inv, FirstProcess, Pace, [Next]_vars, NEW c \in Channels
               PROVE  Paced(c)'
    BY DEF Pace
  <1>1. Paced(c)
    BY DEF Pace
  <1>2. CASE BookUntouched /\ (phase' = "safing" => phase = "safing" /\ job' = job)
    BY <1>1, <1>2, PacedKept DEF BookUntouched, Writing
  <1>3. CASE TickStarts
    BY <1>3, TickPaces
  <1>4. ASSUME NEW x \in Channels,
               Supersede(x) \/ AwaitOwner(x) \/ LeaveParked(x) \/ AttemptHandover(x)
        PROVE  Paced(c)'
    <2>1. CASE x = c
      BY <1>4, <2>1, VisitPaces
    <2>2. CASE x # c
      <3>1. /\ UNCHANGED <<rules, tries, rest>> /\ book'[c] = book[c] /\ Visited1(x)
        BY <1>4, <2>2, Visits
      <3>2. ~Writing(c)'
        BY <2>2, <3>1 DEF Visited1, Writing
      <3>3. QED
        BY <1>1, <3>1, <3>2, PacedKept
    <2>3. QED
      BY <2>1, <2>2
  <1>5. ASSUME NEW o, FinishHandover(o)
        PROVE  Paced(c)'
    <2>1. CASE job.channel = c
      BY <1>5, <2>1, AnswerPaces
    <2>2. CASE job.channel # c
      <3>1. /\ UNCHANGED rules /\ book'[c] = book[c] /\ Answered(job.channel)
            /\ phase' = "handovers"
        BY <1>5, <2>2, Answers
      <3>2. tries'[c] = tries[c] /\ rest'[c] = rest[c]
        BY <2>2, <3>1 DEF Answered, Inv, HardwareOK
      <3>3. ~Writing(c)'
        BY <3>1 DEF Writing
      <3>4. QED
        BY <1>1, <3>1, <3>2, <3>3, PacedKept
    <2>3. QED
      BY <2>1, <2>2
  <1>6. CASE Edited
    BY <1>6, EditPaces
  <1>7. QED
    BY <1>2, <1>3, <1>4, <1>5, <1>6, FirstProcessSteps

LEMMA PaceAlways ==
    ASSUME MaxCrashes = 0
    PROVE  Spec => [](Inv /\ FirstProcess /\ Pace)
  <1>1. Init => FirstProcess /\ Pace
    <2> SUFFICES ASSUME Init
                 PROVE  FirstProcess /\ Pace
      OBVIOUS
    <2>1. \A c \in Channels : ~IsOpen(book[c]) /\ Single(book[c]) /\ tries[c] = 0
      BY DEF Init, IsOpen, Single
    <2>2. live /\ phase = "idle"
      BY DEF Init
    <2>3. QED
      BY <2>1, <2>2, BookAssumption DEF FirstProcess, Pace, Paced, Writing
  <1>2. QED
    BY <1>1, InvAlways, FirstProcessStep, PaceStep, PTL DEF Spec

\* HandoversPaced, for any rules, channels and limits and whatever overlaps,
\* in a process that did not take over the record of another: a channel that
\* does not answer is one job, written to at most two budgets of times with
\* the pause of HANDOVER_RETRY_TICKS between.
THEOREM HandoversArePaced ==
    ASSUME MaxCrashes = 0
    PROVE  Spec => []HandoversPaced
  <1>1. Inv /\ FirstProcess /\ Pace => HandoversPaced
    <2> SUFFICES ASSUME Inv, FirstProcess, Pace
                 PROVE  HandoversPaced
      OBVIOUS
    <2>1. BoundedWrites
      BY DEF Pace, Paced, BoundedWrites
    <2>2. RetryCadence
      BY DEF Pace, Paced, Writing, RetryCadence
    <2>3. OneJobPerChannel
      BY DEF FirstProcess, Single, OneJobPerChannel
    <2>4. QED
      BY <2>1, <2>2, <2>3 DEF HandoversPaced
  <1>2. QED
    BY <1>1, PaceAlways, PTL
\* The attempts of an item that did not give up on a claim stay spent.
LEMMA SpentHeadStays ==
    ASSUME MaxCrashes = 0, "retry" \notin UserOps,
           Inv, FirstProcess, Pace, [Next]_vars, NEW c \in Channels,
           IsOpen(book[c]), Len(book'[c]) >= Len(book[c]),
           BudgetSpent(Head(book[c]))
    PROVE  BudgetSpent(Head(book'[c]))
  <1> DEFINE h == Head(book[c])
  <1>1. /\ book[c] \in Seq(Sound) /\ Single(book[c]) /\ h \in Sound /\ h \in Item
        /\ h.state = "failed" /\ h.attempts = MaxAttempts
    BY HeadAndTail DEF Inv, SoundBook, FirstProcess, IsOpen, Sound, BudgetSpent
  <1>2. ~h.parkedByClaim /\ ~ClaimReleasable(h)
    <2>1. ParkedFairly(h)
      BY DEF Pace, Paced, Fits
    <2> HIDE DEF h
    <2>2. QED
      BY <1>1, <2>1, BookAssumption DEF ParkedFairly, ClaimReleasable
  <1>3. book'[c] # <<>>
    <2> DEFINE n == Len(book[c])
               m == Len(book'[c])
    <2>1. n \in Nat /\ n # 0
      BY <1>1, LenProperties, EmptySeq DEF IsOpen
    <2>2. book'[c] = <<>> => m = 0
      BY EmptySeq
    <2>3. m >= n
      OBVIOUS
    <2> HIDE DEF n, m
    <2>4. QED
      BY <2>1, <2>2, <2>3
  <1>4. ASSUME NEW n \in 0 .. RetryTicks, Head(book'[c]) = [h EXCEPT !.cooldown = n]
        PROVE  BudgetSpent(Head(book'[c]))
    <2> DEFINE x == [h EXCEPT !.cooldown = n]
    <2>1. x.state = h.state /\ x.attempts = h.attempts
      BY <1>1, CooldownKeeps
    <2> HIDE DEF x, h
    <2>2. QED
      BY <1>1, <1>4, <2>1 DEF BudgetSpent, x
  <1>5. CASE book'[c] = book[c]
    BY <1>5
  <1>6. CASE TickStarts
    <2>1. book'[c] = CountDown(book[c])
      BY <1>6 DEF TickStarts, CountedDown
    <2>2. Head(book'[c]) = CountedDownItem(h)
      BY <1>1, <2>1, SingleTick
    <2> DEFINE n == IF h.cooldown = 0 THEN 0 ELSE h.cooldown - 1
    <2>3. n \in 0 .. RetryTicks
      BY <1>1, BookAssumption DEF Item
    <2>4. CountedDownItem(h) = [h EXCEPT !.cooldown = n]
      BY Zenon DEF CountedDownItem
    <2> HIDE DEF n, h
    <2>5. QED
      BY <1>4, <2>2, <2>3, <2>4
  <1>7. ASSUME NEW x \in Channels,
               Supersede(x) \/ AwaitOwner(x) \/ LeaveParked(x) \/ AttemptHandover(x)
        PROVE  BudgetSpent(Head(book'[c]))
    <2>1. CASE x # c
      BY <1>5, <1>7, <2>1, Visits
    <2>2. CASE x = c
      <3>1. Visited1(c)
        BY <1>7, <2>2, Visits
      <3>2. Waited(h) = h /\ Resumed(c) = h
        <4>1. Waited(h) = h
          BY <1>1, WaitedFields
        <4>2. Resumed(c) = h
          BY <1>2, Zenon DEF Resumed
        <4>3. QED
          BY <4>1, <4>2
      <3>3. Head(book'[c]) = h
        BY <1>3, <3>1, <3>2, Zenon DEF Visited1, HeadBecomes
      <3>4. QED
        BY <3>3
    <2>3. QED
      BY <2>1, <2>2
  <1>8. ASSUME NEW o, FinishHandover(o)
        PROVE  BudgetSpent(Head(book'[c]))
    <2>1. c # job.channel
      BY <1>1, <1>8, Answers
    <2>2. QED
      BY <1>5, <1>8, <2>1, Answers
  <1>9. CASE Edited
    <2>1. book'[c] = book[c] \/ book'[c] = Queue(book[c])
      BY <1>9 DEF Edited
    <2>2. CASE book'[c] = Queue(book[c])
      <3> DEFINE n == Smaller(h.cooldown, NextTick)
      <3>1. n \in 0 .. RetryTicks
        BY <1>1, BookAssumption DEF Smaller, NextTick, Item
      <3>2. Head(book'[c]) = [h EXCEPT !.cooldown = n]
        BY <1>1, <2>2, SingleQueued, Zenon
      <3> HIDE DEF n, h
      <3>3. QED
        BY <1>4, <3>1, <3>2
    <2>3. QED
      BY <1>5, <2>1, <2>2
  <1>10. CASE BookUntouched
    BY <1>5, <1>10 DEF BookUntouched
  <1>11. QED
    BY <1>6, <1>7, <1>8, <1>9, <1>10, FirstProcessSteps

\* SpentStaysParked, for any rules, channels and limits and whatever overlaps,
\* in a process that did not take over the record of another and whose user
\* never re-arms: only a claim that comes to nothing marks an item as parked by
\* one, and such an item still has attempts to make.  A re-arm leaves the mark
\* where it is, and so does a restart, hence the two conditions.
THEOREM SpentStays ==
    ASSUME MaxCrashes = 0, "retry" \notin UserOps
    PROVE  Spec => SpentStaysParked
  <1>1. Inv /\ FirstProcess /\ Pace /\ [Next]_vars
        => \A c \in Channels :
              /\ live /\ live'
              /\ IsOpen(book[c]) /\ Len(book'[c]) >= Len(book[c])
              /\ BudgetSpent(Head(book[c]))
              => BudgetSpent(Head(book'[c]))
    BY SpentHeadStays
  <1>2. Inv /\ FirstProcess /\ Pace /\ [Next]_vars
        => [\A c \in Channels :
              /\ live /\ live'
              /\ IsOpen(book[c]) /\ Len(book'[c]) >= Len(book[c])
              /\ BudgetSpent(Head(book[c]))
              /\ ~BudgetSpent(Head(book'[c]))
              => UserRearm]_vars
    BY <1>1
  <1>3. QED
    BY <1>2, PaceAlways, PTL DEF Spec, SpentStaysParked

-----------------------------------------------------------------------------
(* What a rule holds, it drives and was the last to move *)

\* The user operations the next theorems are about.  A delete whose file stays
\* drops a rule and forgets the channel it holds, a simulated write settles a
\* handover without moving anything, and a reload may switch off, in memory
\* alone, a rule that holds an output another loaded rule claims.
PlainEdits ==
    /\ UserOps \cap {"delete_fails", "dry_run"} = {}
    /\ "reload" \in UserOps => \A r, o \in Rules : r = o

\* The rules a tick runs, and the one it writes for, drive what they did when
\* the tick copied them.
TickDriven ==
    /\ phase \in {"rules", "writing", "policy"}
       => \A r \in Rules : plan[r] # None => Drives(r, plan[r])
    /\ phase \in {"writing", "policy"} => Drives(job.rule, job.channel)

NeverDry ==
    /\ dryRun = FALSE
    /\ phase \in {"safing", "writing", "policy"} => job.simulated = FALSE

HoldsDriven ==
    \A r \in Rules : memory[r].hold # None
        => /\ Drives(r, memory[r].hold.channel)
           /\ mover[memory[r].hold.channel] = r

Steered == TickDriven /\ NeverDry /\ HoldsDriven

LEMMA HoldTypes ==
    ASSUME Inv, NEW r \in Rules
    PROVE  /\ memory[r] \in Memory /\ memory[r].hold \in Hold \cup {None}
           /\ memory[r].hold # None => memory[r].hold.channel \in Channels
           /\ memory[r].hold = [memory[r] EXCEPT !.unconfirmed = 0].hold
  BY DEF Inv, ConfigOK, Memory, Hold

\* The rule drives the channel in that set of rules.
DrivesIn(set, r, c) == set[r] # None /\ set[r].enabled /\ set[r].target = c

LEMMA DrivesNow ==
    ASSUME NEW r, NEW c
    PROVE  Drives(r, c) <=> DrivesIn(rules, r, c)
  BY DEF Drives, DrivesIn

\* What an edit does to what a rule holds: it keeps it and the rule still
\* drives it, or the channel is owed.
Released(r) ==
    \/ /\ memory'[r].hold = memory[r].hold
       /\ memory[r].hold # None => DrivesIn(rules', r, memory[r].hold.channel)
    \/ /\ memory[r].hold # None /\ memory'[r].hold = None
       /\ IsOpen(book'[memory[r].hold.channel])

\* A channel that was queued on is open.
LEMMA QueuedIsOpen ==
    ASSUME Inv, NEW left, NEW c \in Channels, c \in left \/ IsOpen(book[c])
    PROVE  IsOpen(QueuedOn(left)[c])
  <1>1. book[c] \in Seq(Sound)
    BY DEF Inv, SoundBook
  <1>2. QueuedOn(left)[c] = IF c \in left THEN Queue(book[c]) ELSE book[c]
    BY DEF QueuedOn
  <1>3. QED
    BY <1>1, <1>2, QueueSound

\* A held channel is left behind by every change that leaves it.
LEMMA HeldIsLeft ==
    ASSUME Inv, HoldsDriven, NEW r \in Rules, memory[r].hold # None,
           NEW new, Leaves(rules[r], new)
    PROVE  LeftBehind(rules[r], new, memory[r].hold) = {memory[r].hold.channel}
  <1>1. memory[r].hold.channel = rules[r].target
    BY DEF HoldsDriven, Drives
  <1>2. QED
    BY <1>1 DEF LeftBehind

LEMMA KeptIsDriven ==
    ASSUME Inv, HoldsDriven, NEW r \in Rules, memory[r].hold # None,
           NEW new, new # None, ~Leaves(rules[r], new), rules'[r] = new
    PROVE  DrivesIn(rules', r, memory[r].hold.channel)
  <1>1. /\ rules[r] # None /\ rules[r].enabled
        /\ rules[r].target = memory[r].hold.channel
    BY DEF HoldsDriven, Drives
  <1>2. new.target = rules[r].target /\ new.enabled = rules[r].enabled
    BY <1>1 DEF Leaves
  <1>3. memory[r].hold.channel = rules[r].target
    BY <1>1
  <1>4. QED
    BY <1>1, <1>2 DEF DrivesIn
LEMMA SaveReleases ==
    ASSUME Inv, HoldsDriven, NEW r \in Rules, NEW new \in RuleConfig,
           SaveRule(r, new), NEW o \in Rules
    PROVE  Released(o)
  <1> DEFINE left == LeftBehind(rules[r], new, memory[r].hold)
  <1>1. /\ rules' = [rules EXCEPT ![r] = new] /\ book' = QueuedOn(left)
        /\ IF Leaves(rules[r], new) THEN memory' = [memory EXCEPT ![r].hold = None]
                                    ELSE memory' = memory
        /\ new # None /\ rules'[r] = new
    BY EngineAssumption DEF SaveRule, Inv, ConfigOK
  <1> HIDE DEF left
  <1>2. memory \in [Rules -> Memory] /\ rules \in [Rules -> RuleConfig \cup {None}]
    BY DEF Inv, ConfigOK
  <1>3. CASE o # r
    <2>1. rules'[o] = rules[o] /\ memory'[o] = memory[o]
      BY <1>1, <1>2, <1>3
    <2>2. QED
      BY <2>1 DEF Released, HoldsDriven, Drives, DrivesIn
  <1>4. CASE o = r /\ Leaves(rules[r], new)
    <2>1. memory'[o].hold = None
      BY <1>1, <1>2, <1>4 DEF Memory
    <2>2. CASE memory[o].hold = None
      BY <2>1, <2>2 DEF Released
    <2>3. CASE memory[o].hold # None
      <3>1. left = {memory[o].hold.channel} /\ memory[o].hold.channel \in Channels
        BY <1>4, <2>3, HeldIsLeft, HoldTypes DEF left
      <3>2. IsOpen(book'[memory[o].hold.channel])
        BY <1>1, <3>1, QueuedIsOpen
      <3>3. QED
        BY <2>1, <2>3, <3>2 DEF Released
    <2>4. QED
      BY <2>2, <2>3
  <1>5. CASE o = r /\ ~Leaves(rules[r], new)
    BY <1>1, <1>5, KeptIsDriven DEF Released
  <1>6. QED
    BY <1>3, <1>4, <1>5

LEMMA DeleteReleases ==
    ASSUME Inv, HoldsDriven, NEW r \in Rules, DeleteRule(r), NEW o \in Rules
    PROVE  Released(o)
  <1> DEFINE left == IF memory[r].hold = None THEN {} ELSE {memory[r].hold.channel}
  <1>1. /\ rules' = [rules EXCEPT ![r] = None] /\ book' = QueuedOn(left)
        /\ memory' = [memory EXCEPT ![r] = FreshMemory]
    BY DEF DeleteRule
  <1>2. memory \in [Rules -> Memory] /\ rules \in [Rules -> RuleConfig \cup {None}]
        /\ FreshMemory.hold = None
    BY DEF Inv, ConfigOK, FreshMemory
  <1>3. CASE o # r
    <2>1. rules'[o] = rules[o] /\ memory'[o] = memory[o]
      BY <1>1, <1>2, <1>3
    <2>2. QED
      BY <2>1 DEF Released, HoldsDriven, Drives, DrivesIn
  <1>4. CASE o = r
    <2>1. memory'[o].hold = None
      BY <1>1, <1>2, <1>4
    <2>2. CASE memory[o].hold = None
      BY <2>1, <2>2 DEF Released
    <2>3. CASE memory[o].hold # None
      <3>1. memory[o].hold.channel \in left /\ memory[o].hold.channel \in Channels
        BY <1>4, <2>3, HoldTypes
      <3> HIDE DEF left
      <3>2. IsOpen(book'[memory[o].hold.channel])
        BY <1>1, <3>1, QueuedIsOpen
      <3>3. QED
        BY <2>1, <2>3, <3>2 DEF Released
    <2>4. QED
      BY <2>2, <2>3
  <1>5. QED
    BY <1>3, <1>4

\* The only rule conflicts with none.
LEMMA NoConflictAlone ==
    ASSUME \A r, o \in Rules : r = o, NEW set
    PROVE  \A r \in Rules : StandDown(set)[r] = set[r]
  <1>1. \A r \in Rules : ~(r < r)
    BY EngineAssumption
  <1>2. QED
    BY <1>1 DEF StandDown

LEMMA ReloadReleases ==
    ASSUME \A x, y \in Rules : x = y,
           Inv, HoldsDriven, NEW r \in Rules, NEW new \in RuleConfig \cup {None},
           Reload(r, new), NEW o \in Rules
    PROVE  Released(o)
  <1> DEFINE loaded  == [files EXCEPT ![r] = new]
             left    == [x \in Rules |-> LeftBehind(rules[x], loaded[x], memory[x].hold)]
             removed == {x \in Rules : rules[x] # None /\ loaded[x] = None
                                       /\ memory[x].hold # None}
             all     == (UNION {left[x] : x \in Rules})
                        \cup {memory[x].hold.channel : x \in removed}
  <1>1. /\ rules' = StandDown(loaded) /\ book' = QueuedOn(all)
        /\ memory'[o] = IF loaded[o] = None THEN FreshMemory
                        ELSE IF Leaves(rules[o], loaded[o])
                        THEN [memory[o] EXCEPT !.hold = None] ELSE memory[o]
    BY DEF Reload
  <1>2. rules'[o] = loaded[o]
    BY <1>1, NoConflictAlone
  <1>3. memory[o] \in Memory /\ FreshMemory.hold = None
    BY DEF Inv, ConfigOK, FreshMemory
  <1>4. ASSUME memory[o].hold # None, memory'[o].hold = None,
               memory[o].hold.channel \in all
        PROVE  Released(o)
    <2>1. memory[o].hold.channel \in Channels
      BY <1>4, HoldTypes
    <2>2. IsOpen(QueuedOn(all)[memory[o].hold.channel])
      <3> HIDE DEF all
      <3>1. QED
        BY <1>4, <2>1, QueuedIsOpen
    <2>3. QED
      BY <1>1, <1>4, <2>2, Zenon DEF Released
  <1>5. CASE loaded[o] = None
    <2>1. memory'[o].hold = None
      BY <1>1, <1>3, <1>5
    <2>2. CASE memory[o].hold # None
      <3>1. rules[o] # None
        BY <2>2 DEF HoldsDriven, Drives
      <3>2. o \in removed
        BY <1>5, <2>2, <3>1
      <3>3. memory[o].hold.channel \in all
        <4> HIDE DEF removed, left
        <4>1. memory[o].hold.channel \in {memory[x].hold.channel : x \in removed}
          BY <3>2, Zenon
        <4>2. QED
          BY <4>1
      <3>4. QED
        BY <1>4, <2>1, <2>2, <3>3
    <2>3. QED
      BY <2>1, <2>2 DEF Released
  <1>6. CASE loaded[o] # None /\ Leaves(rules[o], loaded[o])
    <2>1. memory'[o].hold = None
      BY <1>1, <1>3, <1>6 DEF Memory
    <2>2. CASE memory[o].hold # None
      <3>1. left[o] = {memory[o].hold.channel}
        BY <1>6, <2>2, HeldIsLeft
      <3>2. memory[o].hold.channel \in all
        <4> HIDE DEF removed, left
        <4>1. QED
          BY <3>1
      <3>3. QED
        BY <1>4, <2>1, <2>2, <3>2
    <2>3. QED
      BY <2>1, <2>2 DEF Released
  <1>7. CASE loaded[o] # None /\ ~Leaves(rules[o], loaded[o])
    <2>1. memory'[o] = memory[o]
      BY <1>1, <1>7
    <2> HIDE DEF loaded
    <2>2. memory[o].hold # None => DrivesIn(rules', o, memory[o].hold.channel)
      BY <1>2, <1>7, KeptIsDriven
    <2>3. QED
      BY <2>1, <2>2 DEF Released
  <1>8. QED
    BY <1>5, <1>6, <1>7

LEMMA EditReleases ==
    ASSUME PlainEdits, ~Overlapping, Inv, HoldsDriven, User
    PROVE  /\ live /\ live' /\ phase = "idle" /\ phase' = "idle"
           /\ mover' = mover /\ dryRun' = dryRun
           /\ \A c \in Channels : IsOpen(book[c]) => IsOpen(book'[c])
           /\ \A o \in Rules : Released(o)
  <1>1. \E op : UserOp(op)
    BY DEF User, UserRearm, SaveRule, Reload, DeleteRule, DeleteRuleFails,
           RetryFailed, RetryFailedOne, SetAutomation, SetDryRun
  <1>2. /\ live /\ live' /\ phase = "idle" /\ phase' = "idle" /\ mover' = mover
    BY <1>1 DEF UserOp, pass
  <1>3. ~SetDryRun /\ \A r \in Rules : ~DeleteRuleFails(r)
    BY DEF PlainEdits, SetDryRun, DeleteRuleFails, UserOp
  <1>4. dryRun' = dryRun
    BY <1>3 DEF User, UserRearm, SaveRule, Reload, DeleteRule, RetryFailed,
                RetryFailedOne, SetAutomation, settings
  <1>5. \A c \in Channels : IsOpen(book[c]) => IsOpen(book'[c])
    <2>1. CASE RetryFailed
      BY <2>1, RearmAllSound DEF RetryFailed, Inv, SoundBook
    <2>2. ASSUME NEW x \in Channels, RetryFailedOne(x), NEW c \in Channels,
                 IsOpen(book[c])
          PROVE  IsOpen(book'[c])
      <3>1. CASE c # x
        BY <2>2, <3>1 DEF RetryFailedOne, Inv, SoundBook
      <3>2. CASE c = x
        <4>1. book[c] \in Seq(Sound)
          BY DEF Inv, SoundBook
        <4>2. Rearm(book[c][1]) \in Sound
          BY <2>2, <4>1, HeadAndTail, ItemStaysSound DEF IsOpen
        <4>3. book'[c] = [book[c] EXCEPT ![1] = Rearm(book[c][1])]
          BY <2>2, <3>2, <4>1 DEF RetryFailedOne, Inv, SoundBook
        <4>4. QED
          BY <2>2, <4>1, <4>2, <4>3, NewHead DEF IsOpen
      <3>3. QED
        BY <3>1, <3>2
    <2>3. ASSUME NEW left, book' = QueuedOn(left)
          PROVE  \A c \in Channels : IsOpen(book[c]) => IsOpen(book'[c])
      BY <2>3, QueuedIsOpen
    <2>4. CASE book' = book
      BY <2>4
    <2>5. QED
      BY <1>3, <2>1, <2>2, <2>3, <2>4 DEF User, UserRearm, SaveRule, DeleteRule,
         Reload, SetAutomation
  <1>6. ASSUME NEW o \in Rules
        PROVE  Released(o)
    <2>1. CASE UserRearm \/ SetAutomation
      <3>1. UNCHANGED <<rules, memory>>
        BY <2>1 DEF UserRearm, RetryFailed, RetryFailedOne, SetAutomation, config
      <3>2. QED
        BY <3>1 DEF Released, HoldsDriven, Drives, DrivesIn
    <2>2. ASSUME NEW r \in Rules, NEW new \in RuleConfig \cup {None}, Reload(r, new)
          PROVE  Released(o)
      <3>1. \A x, y \in Rules : x = y
        BY <2>2 DEF PlainEdits, Reload, UserOp
      <3>2. QED
        BY <2>2, <3>1, ReloadReleases
    <2>3. QED
      BY <1>3, <2>1, <2>2, SaveReleases, DeleteReleases DEF User
  <1>7. QED
    BY <1>2, <1>4, <1>5, <1>6
-----------------------------------------------------------------------------
(* The tick keeps it so *)

\* The rules stay as they are for as long as a tick runs.
LEMMA TickRules ==
    ASSUME Inv, Tick
    PROVE  /\ UNCHANGED <<rules, files, live, dryRun>> /\ live
  BY DEF Tick, BeginTick, BeginStaleTick, StartPass, DisabledTick, HandoverStep,
         Supersede, AwaitOwner, LeaveParked, Visiting, AttemptHandover,
         FinishHandover, BeginRules, RuleStep, SkipRule, WriteRule, RuleApplied,
         RuleNotConfirmed, FinishPolicy, EndTick, config, settings

\* Where a tick can get to, with what plan and what write in flight.
LEMMA TickPlans ==
    ASSUME Inv, Tick, phase' \in {"safing", "rules", "writing", "policy"}
    PROVE  \/ \E c \in Channels : AttemptHandover(c)
           \/ BeginRules
           \/ \E r \in Rules : SkipRule(r) \/ WriteRule(r)
           \/ /\ phase \in {"writing", "policy"} /\ phase' = "rules"
              /\ plan' = [plan EXCEPT ![job.rule] = None]
           \/ /\ phase = "writing" /\ phase' = "policy" /\ plan' = plan
              /\ \E s : job' = [job EXCEPT !.state = s]
  <1>1. CASE BeginTick \/ BeginStaleTick \/ DisabledTick \/ EndTick
    BY <1>1 DEF BeginTick, BeginStaleTick, StartPass, DisabledTick, EndTick, pass
  <1>2. CASE HandoverStep
    BY <1>2 DEF HandoverStep, Supersede, AwaitOwner, LeaveParked, Visiting, Visited,
                FinishHandover
  <1>3. CASE RuleStep \/ BeginRules
    BY <1>3 DEF RuleStep, RuleApplied, RuleNotConfirmed, RuleDone, WriteFailed,
                FinishPolicy
  <1>4. QED
    BY <1>1, <1>2, <1>3 DEF Tick

LEMMA TickDrivenStep ==
    ASSUME Inv, TickDriven, Tick
    PROVE  TickDriven'
  <1>1. rules' = rules
    BY TickRules
  <1>2. plan \in [Rules -> Channels \cup {None}]
    BY DEF Inv, PassOK
  <1>3. CASE phase' \notin {"rules", "writing", "policy"}
    BY <1>3 DEF TickDriven
  <1>4. CASE phase' \in {"rules", "writing", "policy"}
    <2>1. CASE BeginRules
      BY <1>1, <2>1 DEF BeginRules, TickDriven, IsClaimant, Drives
    <2>2. ASSUME NEW r \in Rules, SkipRule(r) \/ WriteRule(r)
          PROVE  TickDriven'
      <3>1. phase = "rules" /\ Drives(r, plan[r])
        BY <2>2 DEF SkipRule, WriteRule, TickDriven
      <3>2. plan' \in {plan, [plan EXCEPT ![r] = None]}
        BY <2>2 DEF SkipRule, WriteRule
      <3>3. \A o \in Rules : plan'[o] # None => DrivesIn(rules', o, plan'[o])
        BY <1>1, <1>2, <2>2, <3>1, <3>2 DEF TickDriven, Drives, DrivesIn
      <3>4. phase' \in {"writing", "policy"} => Drives(job.rule, job.channel)'
        BY <1>1, <2>2, <3>1 DEF SkipRule, WriteRule, Drives
      <3>5. QED
        BY <3>3, <3>4 DEF TickDriven, Drives, DrivesIn
    <2>3. CASE /\ phase \in {"writing", "policy"} /\ phase' = "rules"
               /\ plan' = [plan EXCEPT ![job.rule] = None]
      <3>1. job.rule \in Rules
        BY <2>3, WritingJob
      <3>2. QED
        BY <1>1, <1>2, <2>3, <3>1 DEF TickDriven, Drives
    <2>4. CASE /\ phase = "writing" /\ phase' = "policy" /\ plan' = plan
               /\ \E s : job' = [job EXCEPT !.state = s]
      <3>1. job'.rule = job.rule /\ job'.channel = job.channel
        BY <2>4, WritingJob DEF Job
      <3>2. QED
        BY <1>1, <2>4, <3>1 DEF TickDriven, Drives
    <2>5. QED
      BY <1>4, <2>1, <2>2, <2>3, <2>4, TickPlans DEF AttemptHandover
  <1>5. QED
    BY <1>3, <1>4

LEMMA NeverDryStep ==
    ASSUME Inv, NeverDry, Tick
    PROVE  NeverDry'
  <1>1. dryRun' = dryRun
    BY TickRules
  <1>2. CASE phase' \notin {"safing", "writing", "policy"}
    BY <1>1, <1>2 DEF NeverDry
  <1>3. CASE phase' \in {"safing", "writing", "policy"}
    <2>1. ASSUME NEW c \in Channels, AttemptHandover(c)
          PROVE  job'.simulated = FALSE
      BY <2>1 DEF AttemptHandover, NeverDry
    <2>2. ASSUME NEW r \in Rules, WriteRule(r)
          PROVE  job'.simulated = FALSE
      BY <2>2 DEF WriteRule, NeverDry
    <2>3. ASSUME phase = "writing", NEW s, job' = [job EXCEPT !.state = s]
          PROVE  job'.simulated = FALSE
      <3>1. job \in Job /\ job.simulated = FALSE
        BY <2>3, WritingJob DEF NeverDry
      <3>2. job'.simulated = job.simulated
        BY <2>3, <3>1 DEF Job
      <3>3. QED
        BY <3>1, <3>2, Zenon
    <2>4. job'.simulated = FALSE
      BY <1>3, <2>1, <2>2, <2>3, TickPlans DEF BeginRules, SkipRule
    <2>5. QED
      BY <1>1, <2>4 DEF NeverDry
  <1>4. QED
    BY <1>2, <1>3

\* What a tick does to the rules' memory and to the channels they moved.
LEMMA TickMoves ==
    ASSUME Inv, NeverDry, Remembered, Tick
    PROVE  \/ UNCHANGED <<memory, mover>>
           \/ /\ memory' = memory /\ phase = "safing"
              /\ mover' = [mover EXCEPT ![job.channel] = None]
           \/ /\ phase = "writing"
              /\ mover' = [mover EXCEPT ![job.channel] = job.rule]
              /\ \E seen \in BOOLEAN, n \in Nat :
                    memory' = [memory EXCEPT ![job.rule] =
                                  [hold |-> Holding(job.channel, seen),
                                   unconfirmed |-> n]]
  <1>1. CASE BeginTick \/ BeginStaleTick \/ DisabledTick \/ EndTick \/ BeginRules
    BY <1>1 DEF BeginTick, BeginStaleTick, StartPass, DisabledTick, EndTick,
                BeginRules, hardware
  <1>2. CASE HandoverStep
    BY <1>2 DEF HandoverStep, Supersede, AwaitOwner, LeaveParked, AttemptHandover,
                Visiting, FinishHandover, hardware
  <1>3. ASSUME NEW r \in Rules, SkipRule(r) \/ WriteRule(r)
        PROVE  UNCHANGED <<memory, mover>>
    BY <1>3 DEF SkipRule, WriteRule, hardware
  <1>4. ASSUME NEW o, RuleApplied(o)
        PROVE  /\ phase = "writing"
               /\ mover' = [mover EXCEPT ![job.channel] = job.rule]
               /\ memory' = [memory EXCEPT ![job.rule] =
                               [hold |-> Holding(job.channel, TRUE), unconfirmed |-> 0]]
    <2>1. o = "applied"
      BY <1>4 DEF RuleApplied, Outcomes, NeverDry
    <2>2. QED
      BY <1>4, <2>1 DEF RuleApplied, Moved
  <1>5. ASSUME NEW o, RuleNotConfirmed(o)
        PROVE  /\ phase = "writing"
               /\ mover' = [mover EXCEPT ![job.channel] = job.rule]
               /\ \E n \in Nat :
                     memory' = [memory EXCEPT ![job.rule] =
                                   [hold |-> Holding(job.channel, FALSE),
                                    unconfirmed |-> n]]
    <2> DEFINE count == IF o = "unconfirmed" THEN job.state.unconfirmed + 1
                                             ELSE job.state.unconfirmed
               n == IF count >= MaxUnconfirmed THEN 0 ELSE count
    <2>1. n \in Nat
      BY <1>5, WritingJob, EngineAssumption DEF RuleNotConfirmed, Memory
    <2>2. memory' = [memory EXCEPT ![job.rule] =
                       [hold |-> Holding(job.channel, FALSE), unconfirmed |-> n]]
      BY <1>5, Zenon DEF RuleNotConfirmed
    <2> HIDE DEF n
    <2>3. QED
      BY <1>5, <2>1, <2>2 DEF RuleNotConfirmed, Moved
  <1>6. CASE FinishPolicy
    <2>1. memory' = memory
      BY <1>6, WritingJob DEF FinishPolicy, Remembered, Inv, ConfigOK
    <2>2. QED
      BY <1>6, <2>1 DEF FinishPolicy, hardware
  <1>7. QED
    <2>1. CASE \E o : RuleApplied(o)
      <3>1. TRUE \in BOOLEAN /\ 0 \in Nat
        OBVIOUS
      <3>2. QED
        BY <1>4, <2>1, <3>1
    <2>2. CASE \E o : RuleNotConfirmed(o)
      <3>1. FALSE \in BOOLEAN
        OBVIOUS
      <3>2. QED
        BY <1>5, <2>2, <3>1
    <2>3. QED
      BY <1>1, <1>2, <1>3, <1>6, <2>1, <2>2 DEF Tick, RuleStep
LEMMA HoldsDrivenTick ==
    ASSUME Inv, OneRulePerOutput, NoFightWithClaimant, Remembered, Steered, Tick
    PROVE  HoldsDriven'
  <1> SUFFICES ASSUME NEW r \in Rules, memory'[r].hold # None
               PROVE  /\ DrivesIn(rules', r, memory'[r].hold.channel)
                      /\ mover'[memory'[r].hold.channel] = r
    BY DEF HoldsDriven, Drives, DrivesIn
  <1>1. rules' = rules
    BY TickRules
  <1>2. /\ memory \in [Rules -> Memory] /\ mover \in [Channels -> Rules \cup {None}]
        /\ memory[r].hold # None => /\ memory[r].hold.channel \in Channels
                                    /\ DrivesIn(rules, r, memory[r].hold.channel)
                                    /\ mover[memory[r].hold.channel] = r
    BY HoldTypes DEF Inv, ConfigOK, HardwareOK, Steered, HoldsDriven, Drives, DrivesIn
  <1>3. CASE UNCHANGED <<memory, mover>>
    BY <1>1, <1>2, <1>3
  <1>4. CASE /\ memory' = memory /\ phase = "safing"
             /\ mover' = [mover EXCEPT ![job.channel] = None]
    <2>1. memory[r].hold.channel # job.channel
      BY <1>2, <1>4 DEF NoFightWithClaimant, Drives, DrivesIn
    <2>2. QED
      BY <1>1, <1>2, <1>4, <2>1
  <1>5. ASSUME phase = "writing",
               mover' = [mover EXCEPT ![job.channel] = job.rule],
               NEW seen \in BOOLEAN, NEW n \in Nat,
               memory' = [memory EXCEPT ![job.rule] =
                            [hold |-> Holding(job.channel, seen), unconfirmed |-> n]]
        PROVE  /\ DrivesIn(rules', r, memory'[r].hold.channel)
               /\ mover'[memory'[r].hold.channel] = r
    <2>1. /\ job.rule \in Rules /\ job.channel \in Channels
          /\ DrivesIn(rules, job.rule, job.channel)
      BY <1>5, WritingJob DEF Steered, TickDriven, Drives, DrivesIn
    <2>2. CASE r = job.rule
      <3>1. memory'[r].hold.channel = job.channel
        BY <1>2, <1>5, <2>2 DEF Holding
      <3>2. mover'[job.channel] = r
        BY <1>2, <1>5, <2>1, <2>2
      <3>3. QED
        BY <1>1, <2>1, <2>2, <3>1, <3>2
    <2>3. CASE r # job.rule
      <3>1. memory'[r] = memory[r]
        BY <1>2, <1>5, <2>1, <2>3
      <3>2. memory[r].hold # None
        BY <3>1
      <3>3. memory[r].hold.channel # job.channel
        BY <1>2, <2>1, <2>3, <3>2 DEF OneRulePerOutput, Drives, DrivesIn
      <3>4. mover'[memory[r].hold.channel] = r
        BY <1>2, <1>5, <3>2, <3>3
      <3>5. QED
        BY <1>1, <1>2, <3>1, <3>2, <3>4
    <2>4. QED
      BY <2>2, <2>3
  <1>6. QED
    BY <1>3, <1>4, <1>5, TickMoves DEF Steered

LEMMA SteeredStep ==
    ASSUME PlainEdits, ~Overlapping
    PROVE  /\ Inv /\ OneRulePerOutput /\ NoFightWithClaimant /\ Remembered
           /\ Steered /\ [Next]_vars
           => Steered'
  <1> SUFFICES ASSUME Inv, OneRulePerOutput, NoFightWithClaimant, Remembered,
                      Steered, [Next]_vars
               PROVE  Steered'
    OBVIOUS
  <1>1. CASE UNCHANGED vars
    BY <1>1 DEF Steered, TickDriven, NeverDry, HoldsDriven, Drives, vars, config,
                pass, settings, hardware
  <1>2. CASE Tick
    BY <1>2, TickDrivenStep, NeverDryStep, HoldsDrivenTick DEF Steered
  <1>3. CASE User
    <2>1. /\ phase' = "idle" /\ mover' = mover /\ dryRun' = dryRun
          /\ \A o \in Rules : Released(o)
      BY <1>3, EditReleases DEF Steered
    <2>2. HoldsDriven'
      BY <2>1 DEF Steered, HoldsDriven, Released, Drives, DrivesIn
    <2>3. QED
      BY <2>1, <2>2 DEF Steered, TickDriven, NeverDry
  <1>4. CASE Ends
    <2>1. Gone
      BY <1>4 DEF Ends, Crash, CrashInEdit, Stop
    <2>2. /\ phase' = "idle" /\ dryRun' = dryRun
          /\ \A r \in Rules : memory'[r].hold = None
      BY <2>1 DEF Gone, FreshMemory, settings
    <2>3. QED
      BY <2>2 DEF Steered, TickDriven, NeverDry, HoldsDriven
  <1>5. CASE Restart
    <2>1. /\ phase' = "idle" /\ dryRun' = dryRun
          /\ \A r \in Rules : memory'[r].hold = None
      BY <1>5 DEF Restart, Inv, InFlight, Remembered, pass, settings
    <2>2. QED
      BY <2>1 DEF Steered, TickDriven, NeverDry, HoldsDriven
  <1>6. QED
    BY <1>1, <1>2, <1>3, <1>4, <1>5 DEF Next

LEMMA SteeredAlways ==
    ASSUME PlainEdits, ~Overlapping
    PROVE  Spec => [](Inv /\ OneRulePerOutput /\ NoFightWithClaimant /\ Remembered
                      /\ Steered)
  <1>1. Init => Remembered /\ Steered
    BY DEF Init, Remembered, Steered, TickDriven, NeverDry, HoldsDriven, FreshMemory
  <1>2. Inv /\ Remembered /\ [Next]_vars => Remembered'
    BY RememberedStep
  <1>3. QED
    BY <1>1, <1>2, SteeredStep, InvAlways, OutputsHaveOneRule, FailsafeKeepsClear,
       PTL DEF Spec

-----------------------------------------------------------------------------
(* No channel is left at the value a rule asked for *)

\* A channel a rule moved is owed the fail-safe duty, or that rule holds it.
Tracked ==
    \A c \in Channels : mover[c] # None
        => \/ IsOpen(book[c])
           \/ /\ memory[mover[c]].hold # None
              /\ memory[mover[c]].hold.channel = c

\* A tick takes no job from the book but by settling the channel.
LEMMA TickBooks ==
    ASSUME Inv, NeverDry, Tick, NEW c \in Channels, IsOpen(book[c])
    PROVE  \/ IsOpen(book'[c])
           \/ mover'[c] = None
           \/ /\ UNCHANGED <<memory, mover>>
              /\ \E r \in Rules : memory[r].hold = Holding(c, TRUE)
  <1>1. SoundBook /\ book[c] \in Seq(Sound)
    BY DEF Inv, SoundBook
  <1>2. IsOpen(CountedDown[c])
    BY <1>1, CountDownSound DEF CountedDown, IsOpen
  <1>3. CASE BeginStaleTick \/ DisabledTick
    BY <1>2, <1>3 DEF BeginStaleTick, StartPass, DisabledTick
  <1>4. ASSUME NEW gone \in SUBSET Unverified, StartPass(VerifiedBook(gone))
        PROVE  IsOpen(book'[c])
    <2> DEFINE q == CountDown(book[c])
    <2>1. book'[c] = VerifiedBook(gone)[c]
      BY <1>4 DEF StartPass
    <2>2. q \in Seq(Sound) /\ q # <<>>
      BY <1>1, CountDownSound DEF IsOpen
    <2>3. q[1] \in Sound
      BY <2>2, HeadAndTail
    <2>4. FailRecovered(q[1]) \in Sound /\ Verified(q[1]) \in Sound
      BY <2>3, ItemStaysSound
    <2> HIDE DEF q
    <2>5. /\ [q EXCEPT ![1] = FailRecovered(q[1])] # <<>>
          /\ [q EXCEPT ![1] = Verified(q[1])] # <<>>
      BY <2>2, <2>4, NewHead
    <2>6. \/ VerifiedBook(gone)[c] = q
          \/ VerifiedBook(gone)[c] = [q EXCEPT ![1] = FailRecovered(q[1])]
          \/ VerifiedBook(gone)[c] = [q EXCEPT ![1] = Verified(q[1])]
      BY Zenon DEF VerifiedBook, q
    <2>7. QED
      BY <2>1, <2>2, <2>5, <2>6 DEF IsOpen
  <1>5. ASSUME NEW x \in Channels, Supersede(x)
        PROVE  \/ IsOpen(book'[c])
               \/ /\ UNCHANGED <<memory, mover>>
                  /\ \E r \in Rules : memory[r].hold = Holding(c, TRUE)
    <2>1. CASE x = c
      BY <1>5, <2>1 DEF Supersede, TakenOver, Visiting, hardware
    <2>2. CASE x # c
      BY <1>1, <1>5, <2>2 DEF Supersede, SoundBook
    <2>3. QED
      BY <2>1, <2>2
  <1>6. ASSUME NEW x \in Channels, AwaitOwner(x) \/ LeaveParked(x) \/ AttemptHandover(x)
        PROVE  IsOpen(book'[c])
    <2>1. CASE x # c
      BY <1>1, <1>6, <2>1 DEF AwaitOwner, LeaveParked, AttemptHandover, SoundBook
    <2>2. CASE x = c
      <3>1. Head(book[c]) \in Sound
        BY <1>1, HeadAndTail DEF IsOpen
      <3>2. Waited(Head(book[c])) \in Sound /\ Resumed(c) \in Sound
        BY <3>1, WaitStaysSound, ResumedIsSound DEF Waited
      <3>3. \/ book' = [book EXCEPT ![c][1] = Waited(Head(book[c]))]
            \/ book' = [book EXCEPT ![c][1] = Resumed(c)]
        BY <1>6, <2>2 DEF AwaitOwner, LeaveParked, AttemptHandover, Waited
      <3>4. QED
        BY <1>1, <3>2, <3>3, HeadReplaced
    <2>3. QED
      BY <2>1, <2>2
  <1>7. ASSUME NEW o, FinishHandover(o)
        PROVE  IsOpen(book'[c]) \/ mover'[c] = None
    <2>1. CASE job.channel # c
      BY <1>1, <1>7, <2>1 DEF FinishHandover, SoundBook
    <2>2. CASE job.channel = c
      <3>1. CASE o \in {"applied", "simulated"}
        <4>1. o = "applied"
          BY <1>7, <3>1 DEF FinishHandover, Outcomes, NeverDry
        <4>2. QED
          BY <1>7, <2>2, <4>1 DEF FinishHandover, Inv, HardwareOK
      <3>2. CASE o \notin {"applied", "simulated"}
        <4>1. /\ Head(book[c]) \in Sound /\ book[c][1] = Head(book[c])
              /\ Head(book[c]).state = "pending"
          BY <1>1, <1>7, <2>2, HeadAndTail DEF IsOpen, FinishHandover, Inv, InFlight
        <4>2. RecordAttempt(Head(book[c])) \in Sound
          BY <4>1, ItemStaysSound
        <4>3. book' = [book EXCEPT ![c][1] = RecordAttempt(Head(book[c]))]
          BY <1>1, <1>7, <2>2, <3>2, <4>1 DEF FinishHandover
        <4>4. QED
          BY <1>1, <4>2, <4>3, HeadReplaced
      <3>3. QED
        BY <3>1, <3>2
    <2>3. QED
      BY <2>1, <2>2
  <1>8. CASE BeginRules \/ RuleStep \/ EndTick
    BY <1>8 DEF BeginRules, RuleStep, SkipRule, WriteRule, RuleApplied,
                RuleNotConfirmed, FinishPolicy, EndTick
  <1>9. CASE BeginTick
    BY <1>4, <1>9 DEF BeginTick
  <1>10. CASE HandoverStep
    <2>1. CASE \E x \in Channels : \/ Supersede(x) \/ AwaitOwner(x)
                                   \/ LeaveParked(x) \/ AttemptHandover(x)
      BY <1>5, <1>6, <2>1
    <2>2. CASE \E o : FinishHandover(o)
      BY <1>7, <2>2
    <2>3. QED
      BY <1>10, <2>1, <2>2 DEF HandoverStep
  <1>11. QED
    BY <1>3, <1>8, <1>9, <1>10 DEF Tick

LEMMA HoldingIsAHold ==
    ASSUME NEW c \in Channels, NEW seen \in BOOLEAN
    PROVE  /\ Holding(c, seen) # None /\ Holding(c, seen).channel = c
           /\ Holding(c, seen).confirmed = seen
  BY EngineAssumption DEF Holding, Hold

LEMMA TrackedTick ==
    ASSUME Inv, OneRulePerOutput, Remembered, Steered, Tracked, Tick
    PROVE  Tracked'
  <1> SUFFICES ASSUME NEW c \in Channels, mover'[c] # None
               PROVE  \/ IsOpen(book'[c])
                      \/ /\ memory'[mover'[c]].hold # None
                         /\ memory'[mover'[c]].hold.channel = c
    BY DEF Tracked
  <1>1. /\ memory \in [Rules -> Memory] /\ mover \in [Channels -> Rules \cup {None}]
    BY DEF Inv, ConfigOK, HardwareOK
  <1>2. CASE UNCHANGED <<memory, mover>> /\ \E r \in Rules : memory[r].hold = Holding(c, TRUE)
    <2>1. PICK r \in Rules : memory[r].hold = Holding(c, TRUE)
      BY <1>2
    <2>2. memory[r].hold # None /\ memory[r].hold.channel = c
      BY <2>1, HoldingIsAHold
    <2>3. mover[c] = r
      BY <2>2 DEF Steered, HoldsDriven
    <2>4. QED
      BY <1>2, <2>2, <2>3
  <1>3. CASE mover[c] # None /\ IsOpen(book[c])
    BY <1>2, <1>3, TickBooks DEF Steered
  <1>4. CASE /\ mover[c] # None /\ memory[mover[c]].hold # None
             /\ memory[mover[c]].hold.channel = c
    <2> DEFINE r == mover[c]
    <2>1. r \in Rules /\ Drives(r, c)
      BY <1>1, <1>4 DEF Steered, HoldsDriven
    <2>2. CASE UNCHANGED <<memory, mover>>
      BY <1>4, <2>2
    <2>3. CASE /\ memory' = memory
               /\ mover' = [mover EXCEPT ![job.channel] = None]
      BY <1>1, <1>4, <2>3
    <2>4. ASSUME phase = "writing",
                 mover' = [mover EXCEPT ![job.channel] = job.rule],
                 NEW seen \in BOOLEAN, NEW n \in Nat,
                 memory' = [memory EXCEPT ![job.rule] =
                              [hold |-> Holding(job.channel, seen), unconfirmed |-> n]]
          PROVE  memory'[mover'[c]].hold # None /\ memory'[mover'[c]].hold.channel = c
      <3>1. job.rule \in Rules /\ job.channel \in Channels /\ Drives(job.rule, job.channel)
        BY <2>4, WritingJob DEF Steered, TickDriven
      <3>2. CASE job.channel = c
        <4>1. mover'[c] = job.rule /\ memory'[job.rule].hold = Holding(c, seen)
          BY <1>1, <2>4, <3>1, <3>2
        <4>2. QED
          BY <4>1, HoldingIsAHold
      <3>3. CASE job.channel # c
        <4>1. r # job.rule
          BY <2>1, <3>1, <3>3 DEF Drives
        <4>2. mover'[c] = r /\ memory'[r] = memory[r]
          BY <1>1, <2>1, <2>4, <3>1, <3>3, <4>1
        <4>3. QED
          BY <1>4, <4>2
      <3>4. QED
        BY <3>2, <3>3
    <2>5. QED
      BY <2>2, <2>3, <2>4, TickMoves DEF Steered
  <1>5. CASE mover[c] = None
    <2>1. /\ phase = "writing" /\ c = job.channel
          /\ \E seen \in BOOLEAN, n \in Nat :
                /\ mover' = [mover EXCEPT ![job.channel] = job.rule]
                /\ memory' = [memory EXCEPT ![job.rule] =
                              [hold |-> Holding(job.channel, seen), unconfirmed |-> n]]
      BY <1>1, <1>5, TickMoves DEF Steered
    <2>2. job.rule \in Rules
      BY <2>1, WritingJob
    <2>3. PICK seen \in BOOLEAN :
             mover'[c] = job.rule /\ memory'[job.rule].hold = Holding(c, seen)
      BY <1>1, <2>1, <2>2
    <2>4. QED
      BY <2>3, HoldingIsAHold
  <1>6. QED
    BY <1>3, <1>4, <1>5 DEF Tracked

\* Accountable, for any rules and channels and any outcome of any write, in a
\* process that did not take over the record of another, if user operations
\* wait for the tick to end: whenever a rule loses a channel it had moved, the
\* same step queues the fail-safe duty for it, and only the device's answer or
\* a rule that really drives the channel takes that off the book again.
THEOREM ChannelsAreAccountable ==
    ASSUME MaxCrashes = 0, ~Overlapping, PlainEdits
    PROVE  Spec => []Accountable
  <1> DEFINE All == /\ Inv /\ OneRulePerOutput /\ NoFightWithClaimant /\ Remembered
                    /\ Steered
  <1>1. Init => Tracked /\ live
    BY DEF Init, Tracked
  <1>2. All /\ Tracked /\ live /\ [Next]_vars => Tracked' /\ live'
    <2> SUFFICES ASSUME All, Tracked, live, [Next]_vars
                 PROVE  Tracked' /\ live'
      OBVIOUS
    <2>1. CASE UNCHANGED vars
      BY <2>1 DEF Tracked, vars, hardware
    <2>2. CASE Tick
      BY <2>2, TrackedTick, TickRules
    <2>3. CASE User
      <3>1. /\ live' /\ mover' = mover
            /\ \A c \in Channels : IsOpen(book[c]) => IsOpen(book'[c])
            /\ \A r \in Rules : Released(r)
        BY <2>3, EditReleases DEF Steered
      <3>2. \A c \in Channels : mover[c] \in Rules \cup {None}
        BY DEF Inv, HardwareOK
      <3>3. QED
        BY <3>1, <3>2 DEF Tracked, Released
    <2>4. CASE Ends
      <3>1. crashes < MaxCrashes
        BY <2>4 DEF Ends, Crash, CrashInEdit, Stop, Gone
      <3>2. QED
        BY <3>1 DEF Inv, ConfigOK
    <2>5. CASE Restart
      BY <2>5 DEF Restart
    <2>6. QED
      BY <2>1, <2>2, <2>3, <2>4, <2>5 DEF Next
  <1>3. All /\ Tracked /\ live => Accountable
    <2> SUFFICES ASSUME All, Tracked, live, NEW c \in Channels, mover[c] # None
                 PROVE  Owed(c) \/ Assigned(mover[c], c)
      BY DEF Accountable
    <2>1. mover[c] \in Rules
      BY DEF Inv, HardwareOK
    <2>2. IsOpen(book[c]) \/ Drives(mover[c], c)
      BY <2>1 DEF Tracked, Steered, HoldsDriven
    <2>3. QED
      BY <2>2 DEF Owed, Assigned, Drives
  <1>4. QED
    BY <1>1, <1>2, <1>3, SteeredAlways, PTL DEF Spec
-----------------------------------------------------------------------------
(* What is unsettled stays so until it is settled *)

\* What the record says of a channel comes back as an open item, unless a rule
\* that drives the channel again does.
LEMMA RecordedComesBack ==
    ASSUME NEW items \in Seq(Sound), NEW holds, NEW active, NEW c,
           items # <<>> \/ \E r \in Rules : holds[r] = c
    PROVE  \/ [i \in DOMAIN items |-> Restore(items[i])]
              \o [i \in 1 .. Cardinality({r \in Rules : /\ holds[r] = c
                                                       /\ ~ /\ active[r] # None
                                                            /\ active[r].enabled
                                                            /\ active[r].target = c})
                    |-> HoldItem]
              # <<>>
           \/ \E r \in Rules : DrivesIn(active, r, c)
  <1> SUFFICES ASSUME \A r \in Rules : ~DrivesIn(active, r, c)
               PROVE  [i \in DOMAIN items |-> Restore(items[i])]
                      \o [i \in 1 .. Cardinality({r \in Rules : /\ holds[r] = c
                                                       /\ ~ /\ active[r] # None
                                                            /\ active[r].enabled
                                                            /\ active[r].target = c})
                            |-> HoldItem]
                      # <<>>
    OBVIOUS
  <1> DEFINE orphans == {r \in Rules : /\ holds[r] = c
                                       /\ ~ /\ active[r] # None
                                            /\ active[r].enabled
                                            /\ active[r].target = c}
             n == Cardinality(orphans)
             p == [i \in DOMAIN items |-> Restore(items[i])]
             q == [i \in 1 .. n |-> HoldItem]
  <1>1. IsFiniteSet(orphans) /\ n \in Nat
    <2>1. IsFiniteSet(Rules) /\ orphans \subseteq Rules
      BY EngineAssumption
    <2>2. IsFiniteSet(orphans)
      <3> HIDE DEF orphans
      <3>1. QED
        BY <2>1, FS_Subset
    <2> HIDE DEF orphans
    <2>3. QED
      BY <2>2, FS_CardinalityType
  <1>2. /\ p \in Seq(Sound) /\ Len(p) = Len(items) /\ (p = <<>> <=> items = <<>>)
    <2>1. \A i \in DOMAIN items : Restore(items[i]) \in Sound
      BY ElementOfSeq, LenProperties, ItemStaysSound
    <2>2. p \in [DOMAIN items -> Sound]
      BY <2>1
    <2> HIDE DEF p
    <2>3. QED
      BY <2>2, Mapped
  <1>3. q \in Seq(Sound) /\ Len(q) = n
    <2>1. q \in [1 .. n -> Sound]
      BY FreshIsSound
    <2> HIDE DEF q, n
    <2>2. q \in Seq(Sound)
      BY <1>1, <2>1, SeqDef
    <2>3. QED
      BY <1>1, <2>1, <2>2, LenProperties
  <1>4. items # <<>> \/ n # 0
    <2>1. CASE \E r \in Rules : holds[r] = c
      <3>1. orphans # {}
        BY <2>1 DEF DrivesIn
      <3> HIDE DEF orphans
      <3>2. QED
        BY <1>1, <3>1, FS_EmptySet
    <2>2. QED
      BY <2>1
  <1> HIDE DEF p, q, n, orphans
  <1>5. Len(p \o q) = Len(p) + Len(q) /\ p \o q \in Seq(Sound)
    BY <1>2, <1>3, ConcatProperties
  <1>6. Len(p) \in Nat /\ (p # <<>> => Len(p) # 0)
    BY <1>2, LenProperties, EmptySeq
  <1>7. Len(p \o q) # 0
    BY <1>1, <1>2, <1>3, <1>4, <1>5, <1>6
  <1>8. p \o q # <<>>
    BY <1>5, <1>7, EmptySeq
  <1>9. QED
    BY <1>8 DEF p, q, n, orphans

\* What is owed survives the end of the process, unless the user was told.
LEMMA OwedOverTheEnd ==
    ASSUME Inv, RecordCoversOwed, Ends, ~persistError, NEW c \in Channels, Unsettled(c),
           Inv'
    PROVE  /\ live /\ ~live'
           /\ Unsettled(c)' \/ \E r \in Rules : Assigned(r, c)'
  <1>1. live /\ live' = FALSE
    BY DEF Ends, Crash, CrashInEdit, Stop, Gone
  <1>2. record' = record \/ record' = RecordOf(book, memory)
    BY DEF Ends, Crash, CrashInEdit, Stop, NoFlush, Flush, Persist
  <1>3. \/ IsOpen(book[c])
        \/ \E r \in Rules : memory[r].hold = Holding(c, FALSE)
    BY <1>1 DEF Unsettled, Owed
  <1>4. record'.items[c] # <<>> \/ \E r \in Rules : record'.holds[r] = c
    <2>1. CASE IsOpen(book[c])
      <3>1. CASE record' = record
        BY <1>1, <2>1, <3>1 DEF RecordCoversOwed, Recorded
      <3>2. CASE record' = RecordOf(book, memory)
        BY <2>1, <3>2 DEF RecordOf, IsOpen
      <3>3. QED
        BY <1>2, <3>1, <3>2
    <2>2. ASSUME NEW r \in Rules, memory[r].hold = Holding(c, FALSE)
          PROVE  record'.holds[r] = c
      <3>1. /\ memory[r].hold # None /\ memory[r].hold.channel = c
            /\ ~memory[r].hold.confirmed
        BY <2>2, HoldingIsAHold
      <3>2. CASE record' = record
        BY <1>1, <3>1, <3>2 DEF RecordCoversOwed
      <3>3. CASE record' = RecordOf(book, memory)
        BY <3>1, <3>3 DEF RecordOf
      <3>4. QED
        BY <1>2, <3>2, <3>3
    <2>3. QED
      BY <1>3, <2>1, <2>2
  <1> DEFINE items == record'.items[c]
             holds == record'.holds
             active == StandDown(files')
             back == [i \in DOMAIN items |-> Restore(items[i])]
              \o [i \in 1 .. Cardinality({r \in Rules : /\ holds[r] = c
                                                       /\ ~ /\ active[r] # None
                                                            /\ active[r].enabled
                                                            /\ active[r].target = c})
                    |-> HoldItem]
  <1>5. items \in Seq(Sound)
    BY DEF Inv, SoundDisk
  <1>6. back # <<>> \/ \E r \in Rules : DrivesIn(active, r, c)
    BY <1>4, <1>5, RecordedComesBack
  <1>7. Recovered(StandDown(files))'[c] = back
    BY Zenon DEF Recovered
  <1>8. CASE back # <<>>
    <2>1. Owed(c)'
      BY <1>1, <1>7, <1>8, Zenon DEF Owed, IsOpen
    <2>2. QED
      BY <1>1, <2>1 DEF Unsettled
  <1>9. CASE \E r \in Rules : DrivesIn(active, r, c)
    <2>1. \A r \in Rules : DrivesIn(active, r, c) => Assigned(r, c)'
      BY <1>1 DEF Assigned, DrivesIn
    <2>2. QED
      BY <1>1, <1>9, <2>1
  <1>10. QED
    BY <1>6, <1>8, <1>9

\* OwedUntilSettled, for any rules, channels, failures to write the record and
\* any number of crashes, shutdowns and restarts, if user operations wait for
\* the tick to end: between processes the record carries what the book and the
\* unconfirmed holds said, and within one a channel leaves both only by the
\* device's answer or to a rule that drives it and was the last to move it.
THEOREM OwedStaysOwed ==
    ASSUME ~Overlapping, PlainEdits
    PROVE  Spec => OwedUntilSettled
  <1> DEFINE Known == /\ Inv /\ OneRulePerOutput /\ NoFightWithClaimant /\ Remembered
                      /\ Steered
             Settles(c) == Unsettled(c) /\ ~Unsettled(c)' /\ ~persistError
                           => \/ mover'[c] = None
                              \/ \E r \in Rules : /\ Assigned(r, c)'
                                                  /\ live /\ live' => mover[c] = r
  <1>1. Known /\ RecordCoversOwed /\ Inv' /\ [Next]_vars
        => [\A c \in Channels : Settles(c)]_vars
    <2> SUFFICES ASSUME Known, RecordCoversOwed, Inv', Next, NEW c \in Channels,
                        Unsettled(c), ~Unsettled(c)', ~persistError
                 PROVE  \/ mover'[c] = None
                        \/ \E r \in Rules : /\ Assigned(r, c)'
                                            /\ live /\ live' => mover[c] = r
      OBVIOUS
    <2>1. ASSUME NEW r \in Rules, NEW seen \in BOOLEAN,
                 memory[r].hold = Holding(c, seen)
          PROVE  DrivesIn(rules, r, c) /\ mover[c] = r
      BY <2>1, HoldingIsAHold DEF Steered, HoldsDriven, Drives, DrivesIn
    <2>2. CASE Tick
      <3>1. live /\ live' /\ rules' = rules
        BY <2>2, TickRules
      <3>2. \A r \in Rules : DrivesIn(rules, r, c) => Assigned(r, c)'
        BY <3>1 DEF DrivesIn, Assigned
      <3>3. CASE IsOpen(book[c])
        <4>1. ~IsOpen(book'[c])
          BY <3>1 DEF Unsettled, Owed
        <4>2. CASE \E r \in Rules : memory[r].hold = Holding(c, TRUE)
          BY <2>1, <3>1, <3>2, <4>2
        <4>3. QED
          BY <2>2, <3>3, <4>1, <4>2, TickBooks DEF Steered
      <3>4. CASE \E r \in Rules : memory[r].hold = Holding(c, FALSE)
        BY <2>1, <3>1, <3>2, <3>4
      <3>5. QED
        BY <3>1, <3>3, <3>4 DEF Unsettled, Owed
    <2>3. CASE User
      <3>1. /\ live /\ live'
            /\ IsOpen(book[c]) => IsOpen(book'[c])
            /\ \A r \in Rules : Released(r)
        BY <2>3, EditReleases DEF Steered
      <3>2. ASSUME NEW r \in Rules, memory[r].hold = Holding(c, FALSE)
            PROVE  memory'[r].hold = Holding(c, FALSE) \/ IsOpen(book'[c])
        BY <3>1, <3>2, HoldingIsAHold DEF Released
      <3>3. Unsettled(c)'
        BY <3>1, <3>2 DEF Unsettled, Owed
      <3>4. QED
        BY <3>3
    <2>4. CASE Ends
      BY <2>4, OwedOverTheEnd
    <2>5. CASE Restart
      <3>1. /\ live = FALSE /\ live' = TRUE
            /\ book' = Recovered(StandDown(files))
            /\ \A r \in Rules : memory[r].hold = None
        BY <2>5 DEF Restart, Remembered, Inv, ConfigOK
      <3>2. Owed(c)
        BY <3>1, HoldingIsAHold DEF Unsettled
      <3>3. Owed(c)'
        BY <3>1, <3>2 DEF Owed
      <3>4. QED
        BY <3>3 DEF Unsettled
    <2>6. QED
      BY <2>2, <2>3, <2>4, <2>5 DEF Next
  <1>2. Spec => [](Known /\ RecordCoversOwed)
    BY SteeredAlways, RecordIsKept, PTL
  <1>3. QED
    BY <1>1, <1>2, PTL DEF Spec, OwedUntilSettled
=============================================================================
