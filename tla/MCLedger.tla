------------------------------ MODULE MCLedger ------------------------------
(***************************************************************************)
(* Model checking of LedgerTransactions: the clock of one caller is ahead.  *)
(***************************************************************************)
EXTENDS LedgerProperties, TLC

CONSTANTS c1, c2

MCOffset == (c1 :> 0) @@ (c2 :> 1)

=============================================================================
