---------------------------- MODULE HandoverBook ----------------------------
(***************************************************************************)
(* The record of channels a rule stopped driving (handover.rs).            *)
(*                                                                         *)
(* Every operation of HandoverBook finds the FIRST open item of a channel, *)
(* so the `open` vector is kept here as one queue of items per channel and *)
(* the operators below transform the item at its head.  Names, reasons,    *)
(* error texts and wall-clock stamps are reporting data and are left out;  *)
(* the resolved states (confirmed, superseded) are the item leaving the    *)
(* queue.  `next_attempt_tick` is kept relative to the engine's tick, as   *)
(* the number of ticks still to wait (`cooldown`), so that no absolute     *)
(* clock is needed: the start of a tick counts it down.                    *)
(***************************************************************************)
EXTENDS Naturals, Sequences

CONSTANTS
    RetryTicks,      \* HANDOVER_RETRY_TICKS
    MaxAttempts,     \* MAX_HANDOVER_ATTEMPTS
    OwnerWaitTicks   \* HANDOVER_OWNER_WAIT_TICKS

ASSUME BookAssumption ==
    /\ RetryTicks \in Nat \ {0}
    /\ MaxAttempts \in Nat \ {0}
    /\ OwnerWaitTicks \in Nat

-----------------------------------------------------------------------------
(* Items *)

OpenStates == {"pending", "needs_verification", "awaiting_owner", "failed"}

Item == [ state         : OpenStates,
          attempts      : 0 .. MaxAttempts,
          claimedTicks  : 0 .. OwnerWaitTicks + 1,
          parkedByClaim : BOOLEAN,
          cooldown      : 0 .. RetryTicks ]

\* `ticks.load()` already names the NEXT tick while a tick runs and between
\* ticks, so an item armed "now" waits for that one.
NextTick == 1

FreshItem == [ state |-> "pending", attempts |-> 0, claimedTicks |-> 0,
               parkedByClaim |-> FALSE, cooldown |-> NextTick ]

IsOpen(q) == q # <<>>

Smaller(a, b) == IF a <= b THEN a ELSE b

\* A new tick starts: every wait is one tick shorter.
CountDown(q) ==
    [i \in DOMAIN q |-> [q[i] EXCEPT !.cooldown = IF @ = 0 THEN 0 ELSE @ - 1]]

-----------------------------------------------------------------------------
(* Operations on a channel's queue *)

\* Mutant of Queue: an edit renews the item, and with it the spent budget.
QueueAfresh(q) == <<FreshItem>>

\* queue: an unfinished handover of the channel absorbs the new one and keeps
\* its state and its spent attempts; only its next attempt may come sooner.
Queue(q) ==
    IF IsOpen(q) THEN [q EXCEPT ![1].cooldown = Smaller(@, NextTick)]
                 ELSE <<FreshItem>>

\* Mutant of MarkAwaiting: the wait is noticed but not counted.
MarkAwaitingOnce(item) ==
    IF item.state = "pending"
    THEN [item EXCEPT !.state = "awaiting_owner", !.claimedTicks = 1]
    ELSE item

\* mark_awaiting
MarkAwaiting(item) ==
    CASE item.state = "pending" ->
           [item EXCEPT !.state = "awaiting_owner", !.claimedTicks = 1]
      [] item.state = "awaiting_owner" ->
           [item EXCEPT !.claimedTicks = @ + 1]
      [] OTHER -> item

\* park_unmet_claim
ParkUnmetClaim(item) ==
    IF item.state = "awaiting_owner"
    THEN [item EXCEPT !.state = "failed", !.parkedByClaim = TRUE]
    ELSE item

\* Mutant of ClaimReleasable: any parked item resumes when no rule claims the
\* channel.
AnyParkedReleasable(item) == item.state \in {"awaiting_owner", "failed"}

\* release_claim
ClaimReleasable(item) ==
    \/ item.state = "awaiting_owner"
    \/ item.state = "failed" /\ item.parkedByClaim

ReleaseClaim(item) ==
    [item EXCEPT !.state = "pending", !.claimedTicks = 0,
                 !.parkedByClaim = FALSE, !.attempts = 0, !.cooldown = 0]

\* restore, of an item read back from disk: only its first attempt tick and
\* its state are reset.
Restore(item) ==
    [item EXCEPT !.state = "needs_verification", !.cooldown = 0]

\* verified
Verified(item) ==
    IF item.state = "needs_verification"
    THEN [item EXCEPT !.state = "pending", !.attempts = 0,
                      !.cooldown = NextTick]
    ELSE item

\* fail_recovered
FailRecovered(item) ==
    IF item.state = "needs_verification"
    THEN [item EXCEPT !.state = "failed", !.parkedByClaim = FALSE]
    ELSE item

\* is_due
IsDue(item) == item.state = "pending" /\ item.cooldown = 0

\* Mutant of RecordAttempt: one attempt too many.
RecordAttemptLate(item) ==
    LET spent == item.attempts + 1 IN
    [item EXCEPT !.attempts = spent, !.cooldown = RetryTicks,
                 !.state = IF spent > MaxAttempts THEN "failed" ELSE @]

\* record_attempt: an attempt that did not settle the channel.
RecordAttempt(item) ==
    LET spent == item.attempts + 1 IN
    [item EXCEPT !.attempts = spent, !.cooldown = RetryTicks,
                 !.state = IF spent >= MaxAttempts THEN "failed" ELSE @]

\* retry_failed / retry_failed_one: the user's explicit re-arm.
Rearm(item) ==
    IF item.state = "failed"
    THEN [item EXCEPT !.state = "pending", !.attempts = 0,
                      !.cooldown = NextTick]
    ELSE item

RearmAll(q) == [i \in DOMAIN q |-> Rearm(q[i])]

\* The attempts of this item are used up and the engine parked it for that.
BudgetSpent(item) == item.state = "failed" /\ item.attempts = MaxAttempts
=============================================================================
