------------------------- MODULE LedgerTransactions -------------------------
(***************************************************************************)
(* The statements that StageLedger takes for atomic steps (ledger.go): the  *)
(* row of one deployment in Postgres, callers that run the Claim            *)
(* transaction on it statement by statement and the other methods as single *)
(* UPDATEs, each with its own clock.  Beside it the memoryStageLedger of    *)
(* ledger_test.go gets the same calls in the order in which they commit.    *)
(*                                                                         *)
(* Postgres is external: read committed, one row lock, a unique index that  *)
(* makes an INSERT wait for the uncommitted INSERT of the same key.         *)
(***************************************************************************)
EXTENDS StageLedger, FiniteSets

CONSTANTS
  Callers,      \* processes that share the row
  Nobody,       \* not a caller
  LeaseLength,  \* stageLease in units of the clock
  Offset,       \* how far the clock of each caller is ahead
  Skew,         \* bound on the offsets
  MaxTime,      \* bound on the clock
  MaxCount,     \* bound on attempt and on retry_count
  MaxRenewals   \* bound on the Renew statements under way at once

ASSUME LedgerAssumption ==
  /\ Nobody \notin Callers
  /\ LeaseLength \in Nat \ {0}
  /\ Skew \in Nat
  /\ Offset \in [Callers -> 0 .. Skew]
  /\ MaxTime \in Nat /\ MaxCount \in Nat /\ MaxRenewals \in Nat

\* expires is lease_expires_at, 0 for NULL.
Row   == [state: StageStates, attempt: Nat, retryCount: Nat,
          expires: Nat, result: Results]
NoRow == [state |-> "ABSENT", attempt |-> 0, retryCount |-> 0,
          expires |-> 0, result |-> "none"]

Dispositions == {"ClaimAcquired", "ClaimBusy", "ClaimCompleted", "ClaimFailed"}

VARIABLES
  clock,     \* the time, by the slowest clock
  row,       \* the committed row
  lock,      \* the transaction that has locked or inserted the row
  tx,        \* the Claim each caller has under way
  renewals,  \* expiry times of Renew statements under way
  claim,     \* the attempt of each caller's last acquired claim, 0 for none
  memory     \* the record of memoryStageLedger

vars == <<clock, row, lock, tx, renewals, claim, memory>>

\* now is read after BeginTx; r is the StageRecord under construction.
NoTx == [pc |-> "idle"]
Transaction ==
  {NoTx}
  \cup [pc: {"insert", "select"}, now: Nat]
  \cup [pc: {"update", "commit"}, now: Nat, r: Row, answer: Dispositions]

LedgerInit ==
  /\ clock = 1
  /\ row = NoRow
  /\ lock = Nobody
  /\ tx = [c \in Callers |-> NoTx]
  /\ renewals = {}
  /\ claim = [c \in Callers |-> 0]
  /\ memory = NoRow

Now(c) == clock + Offset[c]

-----------------------------------------------------------------------------
(* What the methods compute *)

\* Variant: compares with leaseExpiresAt, the end of the new lease.
AnswerFromNewLease(r, now) ==
  IF r.state = "COMPLETED" THEN "ClaimCompleted"
  ELSE IF r.state = "FAILED" THEN "ClaimFailed"
  ELSE IF r.expires > now + LeaseLength THEN "ClaimBusy" ELSE "ClaimAcquired"

Answer(r, now) ==
  IF r.state = "COMPLETED" THEN "ClaimCompleted"
  ELSE IF r.state = "FAILED" THEN "ClaimFailed"
  ELSE IF r.expires > now THEN "ClaimBusy" ELSE "ClaimAcquired"

\* The columns of the INSERT and of the UPDATE in Claim.
Acquired(r, attempt, now) ==
  [r EXCEPT !.state = "IN_PROGRESS", !.attempt = attempt, !.expires = now + LeaseLength]

\* Variant: adds the lease to what is left of the last one.
RenewedFromExpiry(r, expires) ==
  IF r.state = "IN_PROGRESS" THEN [r EXCEPT !.expires = @ + LeaseLength] ELSE r

\* Variant: without AND state=$4.
RenewedInAnyState(r, expires) == [r EXCEPT !.expires = expires]

RenewedTo(r, expires) ==
  IF r.state = "IN_PROGRESS" THEN [r EXCEPT !.expires = expires] ELSE r

\* Variant: without lease_expires_at=NULL.
DecidedKeepingLease(r, state, result) == [r EXCEPT !.state = state, !.result = result]

Decided(r, state, result) == [r EXCEPT !.state = state, !.result = result, !.expires = 0]
ReleasedRow(r)            == [r EXCEPT !.state = "IN_PROGRESS", !.expires = 0]
Retried(r)                == [r EXCEPT !.retryCount = @ + 1]

\* memoryStageLedger: Renew has no condition, set leaves the lease.
MemoryRenewed(m, expires)        == [m EXCEPT !.expires = expires]
MemoryDecided(m, state, result)  == [m EXCEPT !.state = state, !.result = result]
\* Variant: Release leaves the lease as set does.
MemoryReleasedKeepingLease(m)    == [m EXCEPT !.state = "IN_PROGRESS"]
MemoryReleased(m)                == [m EXCEPT !.state = "IN_PROGRESS", !.expires = 0]
MemoryClaimed(m, now) ==
  IF Answer(m, now) = "ClaimAcquired" THEN Acquired(m, m.attempt + 1, now) ELSE m

-----------------------------------------------------------------------------
(* Claim, statement by statement *)

\* BeginTx, and now.
Begin(c) ==
  /\ tx[c] = NoTx
  /\ row.attempt < MaxCount
  /\ tx' = [tx EXCEPT ![c] = [pc |-> "insert", now |-> Now(c)]]
  /\ UNCHANGED <<clock, row, lock, renewals, claim, memory>>

\* INSERT ... ON CONFLICT DO NOTHING; it waits for another that has not committed.
Insert(c) ==
  /\ tx[c].pc = "insert"
  /\ \/ /\ row.state = "ABSENT" /\ lock = Nobody
        /\ lock' = c
        /\ tx' = [tx EXCEPT ![c] = [pc |-> "commit", now |-> @.now,
                    r |-> Acquired(NoRow, 1, @.now), answer |-> "ClaimAcquired"]]
     \/ /\ row.state # "ABSENT"
        /\ tx' = [tx EXCEPT ![c].pc = "select"]
        /\ UNCHANGED lock
  /\ UNCHANGED <<clock, row, renewals, claim, memory>>

Selected(c) ==
  LET answer == Answer(row, tx[c].now) IN
  [pc     |-> IF answer = "ClaimAcquired" THEN "update" ELSE "commit",
   now    |-> tx[c].now,
   r      |-> row,
   answer |-> answer]

\* Variant: without FOR UPDATE.
SelectWithoutLock(c) ==
  /\ tx[c].pc = "select"
  /\ tx' = [tx EXCEPT ![c] = Selected(c)]
  /\ UNCHANGED <<clock, row, lock, renewals, claim, memory>>

\* SELECT ... FOR UPDATE, and the answer it leads to.
SelectForUpdate(c) ==
  /\ tx[c].pc = "select"
  /\ lock = Nobody
  /\ lock' = c
  /\ tx' = [tx EXCEPT ![c] = Selected(c)]
  /\ UNCHANGED <<clock, row, renewals, claim, memory>>

Update(c) ==
  /\ tx[c].pc = "update"
  /\ tx' = [tx EXCEPT ![c].pc = "commit",
                      ![c].r = Acquired(@, @.attempt + 1, tx[c].now)]
  /\ UNCHANGED <<clock, row, lock, renewals, claim, memory>>

Unlocked(c) == IF lock = c THEN Nobody ELSE lock

\* The commit; the answer is lost if the caller sees an error nevertheless.
Commit(c) ==
  /\ tx[c].pc = "commit"
  /\ LET t == tx[c] IN
       /\ row' = IF t.answer = "ClaimAcquired" THEN Acquired(row, t.r.attempt, t.now)
                 ELSE row
       /\ memory' = MemoryClaimed(memory, t.now)
       /\ \/ t.answer = "ClaimAcquired" /\ claim' = [claim EXCEPT ![c] = t.r.attempt]
          \/ UNCHANGED claim
  /\ lock' = Unlocked(c)
  /\ tx' = [tx EXCEPT ![c] = NoTx]
  /\ UNCHANGED <<clock, renewals>>

\* A statement fails, the context ends or the caller stops: deferred Rollback.
Rollback(c) ==
  /\ tx[c] # NoTx
  /\ lock' = Unlocked(c)
  /\ tx' = [tx EXCEPT ![c] = NoTx]
  /\ UNCHANGED <<clock, row, renewals, claim, memory>>

-----------------------------------------------------------------------------
(* The other methods, called by whoever has claimed the stage once *)

IssueRenew(c) ==
  /\ claim[c] # 0
  /\ Cardinality(renewals) < MaxRenewals
  /\ renewals' = renewals \cup {Now(c) + LeaseLength}
  /\ UNCHANGED <<clock, row, lock, tx, claim, memory>>

LandRenew(expires) ==
  /\ expires \in renewals
  /\ lock = Nobody
  /\ renewals' = renewals \ {expires}
  /\ row' = RenewedTo(row, expires)
  /\ memory' = MemoryRenewed(memory, expires)
  /\ UNCHANGED <<clock, lock, tx, claim>>

\* An UPDATE waits for the row lock.
Finish(c, state, result) ==
  /\ claim[c] # 0
  /\ lock = Nobody
  /\ row' = Decided(row, state, result)
  /\ memory' = MemoryDecided(memory, state, result)
  /\ UNCHANGED <<clock, lock, tx, renewals, claim>>

Complete(c) == Finish(c, "COMPLETED", "succeeded")
Fail(c)     == Finish(c, "FAILED", "failed")

Release(c) ==
  /\ claim[c] # 0
  /\ lock = Nobody
  /\ row' = ReleasedRow(row)
  /\ memory' = MemoryReleased(memory)
  /\ UNCHANGED <<clock, lock, tx, renewals, claim>>

RecordRetry(c) ==
  /\ claim[c] # 0
  /\ row.retryCount < MaxCount
  /\ lock = Nobody
  /\ row' = Retried(row)
  /\ memory' = Retried(memory)
  /\ UNCHANGED <<clock, lock, tx, renewals, claim>>

Tick ==
  /\ clock < MaxTime
  /\ clock' = clock + 1
  /\ UNCHANGED <<row, lock, tx, renewals, claim, memory>>

-----------------------------------------------------------------------------
LedgerNext ==
  \/ \E c \in Callers :
       \/ Begin(c) \/ Insert(c) \/ SelectForUpdate(c) \/ Update(c)
       \/ Commit(c) \/ Rollback(c)
       \/ IssueRenew(c) \/ Complete(c) \/ Fail(c) \/ Release(c) \/ RecordRetry(c)
  \/ \E expires \in renewals : LandRenew(expires)
  \/ Tick

LedgerSpec == LedgerInit /\ [][LedgerNext]_vars

=============================================================================
