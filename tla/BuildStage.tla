----------------------------- MODULE BuildStage -----------------------------
(***************************************************************************)
(* What the build stage promises a deployment, without queues, leases or    *)
(* retries: one owner at a time, an outcome that is decided once and by an  *)
(* owner, and reports of no other outcome.                                  *)
(***************************************************************************)
EXTENDS Naturals

CONSTANTS Deployments, EventsOf(_)

VARIABLES
  claims,    \* how often the stage has been claimed
  owners,    \* claims whose owner is at work
  outcome,   \* what has been decided
  reported   \* the outcome's events that are out

stageVars == <<claims, owners, outcome, reported>>

StageInit ==
  /\ claims = [d \in Deployments |-> 0]
  /\ owners = [d \in Deployments |-> {}]
  /\ outcome = [d \in Deployments |-> "none"]
  /\ reported = [d \in Deployments |-> {}]

\* Only a stage that nobody owns and that is not decided can be claimed.
Acquire(d) ==
  /\ owners[d] = {}
  /\ outcome[d] = "none"
  /\ claims' = [claims EXCEPT ![d] = @ + 1]
  /\ owners' = [owners EXCEPT ![d] = {claims[d] + 1}]
  /\ UNCHANGED <<outcome, reported>>

\* Owners give up, or a crash takes all the owners of a process.
Relinquish ==
  /\ \E D \in SUBSET Deployments :
       owners' = [d \in Deployments |-> IF d \in D THEN {} ELSE owners[d]]
  /\ UNCHANGED <<claims, outcome, reported>>

Decide(d) ==
  /\ owners[d] # {}
  /\ outcome[d] = "none"
  /\ \E o \in {"succeeded", "failed"} : outcome' = [outcome EXCEPT ![d] = o]
  /\ UNCHANGED <<claims, owners, reported>>

Report(d) ==
  /\ outcome[d] # "none"
  /\ \E e \in EventsOf(outcome[d]) : reported' = [reported EXCEPT ![d] = @ \cup {e}]
  /\ \/ UNCHANGED owners
     \/ owners' = [owners EXCEPT ![d] = {}]
  /\ UNCHANGED <<claims, outcome>>

StageNext ==
  \/ Relinquish
  \/ \E d \in Deployments : Acquire(d) \/ Decide(d) \/ Report(d)

StageSpec == StageInit /\ [][StageNext]_stageVars

============================================================================
