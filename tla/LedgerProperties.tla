--------------------------- MODULE LedgerProperties ---------------------------
(***************************************************************************)
(* What the Claim transaction promises its callers, whatever statements of  *)
(* others run between its own and however the clocks of the callers differ. *)
(***************************************************************************)
EXTENDS LedgerTransactions

\* Every variable has its type, an attempt is positive once there is a row (the
\* CHECK of migration 001), and a decided row has a result and no lease.
LedgerTypeOK ==
  /\ clock \in Nat
  /\ row \in Row
  /\ lock \in Callers \cup {Nobody}
  /\ tx \in [Callers -> Transaction]
  /\ renewals \subseteq Nat \ {0}
  /\ claim \in [Callers -> Nat]
  /\ memory \in Row
  /\ row.state = "ABSENT" <=> row.attempt = 0
  /\ Terminal(row) => row.result # "none" /\ row.expires = 0

\* What Claim read is still so when it writes: between SELECT ... FOR UPDATE and
\* the commit (ledger.go:96-119) no Renew, Complete, Fail, Release, RecordRetry
\* or other Claim changes the row.
SnapshotCurrent == \A c \in Callers : tx[c].pc = "update" => tx[c].r = row

\* Two processes that race for one deployment never both get the same attempt,
\* be it from the INSERT or from the UPDATE (ledger.go:84-119).
AttemptsDistinct ==
  \A c, e \in Callers : c # e /\ claim[c] # 0 => claim[c] # claim[e]

\* A claim takes over a lease only when it is over by the fastest clock, although
\* Claim compares it with a time read before it waited for the row (ledger.go:82).
NoEarlyTakeover ==
  [][row'.attempt # row.attempt => row.expires <= clock + Skew]_vars

\* No lease ends later than LeaseLength from now: a stage whose holder is gone
\* can be claimed again after that time, however often it was renewed.
LeaseBounded == row.expires <= clock + Skew + LeaseLength

\* The memory ledger, which only ledger_test.go uses, says what Postgres says:
\* the same counters, states and results, and the same leases where Claim
\* looks at them, although its Renew and its set are not the same
\* (ledger.go:121-147 and 181-216); and it answers every claim alike.
MemoryAgrees ==
  /\ memory.state = row.state
  /\ memory.attempt = row.attempt
  /\ memory.retryCount = row.retryCount
  /\ memory.result = row.result
  /\ row.state = "IN_PROGRESS" => memory.expires = row.expires
  /\ \A c \in Callers :
       tx[c].pc = "commit" => Answer(memory, tx[c].now) = tx[c].answer

\* The transactions implement the atomic ledger of the consumers, with a lease
\* that is live as long as no clock has reached its end.
LeaseOf(expires) ==
  IF expires = 0 THEN "none" ELSE IF expires > clock + Skew THEN "live" ELSE "expired"
Atomic == INSTANCE AtomicLedger WITH
  record <- [state |-> row.state, attempt |-> row.attempt,
             retryCount |-> row.retryCount, lease |-> LeaseOf(row.expires),
             result |-> row.result]

\* Every step of a transaction is a step of one StageLedger method or changes
\* nothing that a later call could see.
ImplementsAtomicLedger == Atomic!AtomicSpec

=============================================================================
