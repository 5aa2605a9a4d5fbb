---------------------------- MODULE AtomicLedger ----------------------------
(***************************************************************************)
(* The ledger as the consumers use it: one record, every method one step on *)
(* it by the operators of StageLedger, and leases that run out at any time. *)
(* A lease may be over when it is written: its end is computed before the   *)
(* statement that writes it has run.                                        *)
(***************************************************************************)
EXTENDS StageLedger

VARIABLE record

AtomicInit == record = NoRecord

\* s, or s with its lease over.
WithLease(s) == {s, [s EXCEPT !.lease = "expired"]}

ClaimStep ==
  /\ Disposition(record) = "ClaimAcquired"
  /\ record' \in WithLease(Claimed(record))

RenewStep ==
  /\ record.state = "IN_PROGRESS"
  /\ record' \in WithLease(Renewed(record))

UpdateStep ==
  record' \in {Completed(record), Failed(record), Released(record), RetryRecorded(record)}

ExpiryStep ==
  /\ record.lease = "live"
  /\ record' = [record EXCEPT !.lease = "expired"]

AtomicNext == ClaimStep \/ RenewStep \/ UpdateStep \/ ExpiryStep

AtomicSpec == AtomicInit /\ [][AtomicNext]_record

=============================================================================
