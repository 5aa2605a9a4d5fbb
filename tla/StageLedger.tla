---------------------------- MODULE StageLedger ----------------------------
(***************************************************************************)
(* The stage ledger of ledger.go, as PostgresStageLedger implements it: one *)
(* row per deployment for the stage "build".  Every StageLedger method is   *)
(* an operator from the row before to the row after, because each of them   *)
(* is one SQL statement, or (Claim) one transaction that locks the row.     *)
(*                                                                         *)
(* lease_expires_at is reduced to what Claim tells apart: NULL ("none"), a  *)
(* time still to come ("live"), a time gone by ("expired").  result_json is *)
(* reduced to the outcome whose two events it stores.                       *)
(***************************************************************************)
EXTENDS Naturals

StageStates == {"ABSENT", "IN_PROGRESS", "COMPLETED", "FAILED"}
Leases      == {"none", "live", "expired"}
Results     == {"none", "succeeded", "failed"}

StageRecord == [state: StageStates, attempt: Nat, retryCount: Nat,
                lease: Leases, result: Results]

\* No row yet; migration 002 gives retry_count its default 0.
NoRecord == [state |-> "ABSENT", attempt |-> 0, retryCount |-> 0,
             lease |-> "none", result |-> "none"]

Terminal(r) == r.state \in {"COMPLETED", "FAILED"}

-----------------------------------------------------------------------------
(* Claim *)

\* Variant: the live-lease test of Claim is missing.
DispositionIgnoringLease(r) ==
  IF r.state = "COMPLETED" THEN "ClaimCompleted"
  ELSE IF r.state = "FAILED" THEN "ClaimFailed"
  ELSE "ClaimAcquired"

\* Variant: the FAILED test of Claim is missing.
DispositionReopeningFailed(r) ==
  IF r.state = "COMPLETED" THEN "ClaimCompleted"
  ELSE IF r.lease = "live" THEN "ClaimBusy"
  ELSE "ClaimAcquired"

\* Variant: a lease that has run out is still busy.
DispositionIgnoringExpiry(r) ==
  IF r.state = "COMPLETED" THEN "ClaimCompleted"
  ELSE IF r.state = "FAILED" THEN "ClaimFailed"
  ELSE IF r.lease \in {"live", "expired"} THEN "ClaimBusy"
  ELSE "ClaimAcquired"

Disposition(r) ==
  IF r.state = "COMPLETED" THEN "ClaimCompleted"
  ELSE IF r.state = "FAILED" THEN "ClaimFailed"
  ELSE IF r.lease = "live" THEN "ClaimBusy"
  ELSE "ClaimAcquired"

\* Variant: taking over an expired lease does not write attempt=$4.
ClaimedKeepingAttempt(r) ==
  IF Disposition(r) = "ClaimAcquired"
  THEN [r EXCEPT !.state = "IN_PROGRESS", !.lease = "live",
                 !.attempt = IF r.state = "ABSENT" THEN 1 ELSE @]
  ELSE r

\* Variant: the claim starts the row over, retry_count included.
ClaimedResettingRetries(r) ==
  IF Disposition(r) = "ClaimAcquired"
  THEN [r EXCEPT !.state = "IN_PROGRESS", !.lease = "live",
                 !.attempt = @ + 1, !.retryCount = 0]
  ELSE r

\* Only an acquired claim writes the row; the INSERT gives attempt 1.
Claimed(r) ==
  IF Disposition(r) = "ClaimAcquired"
  THEN [r EXCEPT !.state = "IN_PROGRESS", !.lease = "live", !.attempt = @ + 1]
  ELSE r

-----------------------------------------------------------------------------
(* The other methods: UPDATEs that touch no row when there is none. *)

Renewed(r) ==
  IF r.state = "IN_PROGRESS" THEN [r EXCEPT !.lease = "live"] ELSE r

SetState(r, state, result) ==
  IF r.state = "ABSENT" THEN r
  ELSE [r EXCEPT !.state = state, !.result = result, !.lease = "none"]

Completed(r) == SetState(r, "COMPLETED", "succeeded")
Failed(r)    == SetState(r, "FAILED", "failed")

\* No condition on the state, and result_json stays.
Released(r) ==
  IF r.state = "ABSENT" THEN r
  ELSE [r EXCEPT !.state = "IN_PROGRESS", !.lease = "none"]

\* Variant: the same statement clears the lease.
RetryRecordedReleasing(r) ==
  IF r.state = "ABSENT" THEN r
  ELSE [r EXCEPT !.retryCount = @ + 1, !.lease = "none"]

RetryRecorded(r) ==
  IF r.state = "ABSENT" THEN r ELSE [r EXCEPT !.retryCount = @ + 1]

============================================================================
