-------------------------- MODULE MCBuildConsumer --------------------------
(***************************************************************************)
(* Model checking of BuildConsumer.  The constants are in the configuration *)
(* files; the runs that check invariants only use the symmetry below.       *)
(***************************************************************************)
EXTENDS BuildConsumerProperties, TLC

\* Instances of the service are interchangeable.
Symmetry == Permutations(Processes)

============================================================================
