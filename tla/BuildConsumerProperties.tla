---------------------- MODULE BuildConsumerProperties ----------------------
(***************************************************************************)
(* What the build consumers promise: type correctness, who may work on a    *)
(* deployment, where a request can be, and what is reported about it.  The  *)
(* faults under which each of them holds are given with the runs.           *)
(***************************************************************************)
EXTENDS BuildConsumer

\* Every variable has its type.  Beyond the shapes this says that the
\* x-shiply-attempt header of every copy in the broker is below MaxAttempts:
\* scheduleRetry publishes no delayed copy of an exhausted request.
TypeOK ==
  /\ queue \in [Message -> Nat]
  /\ retries \in [Message -> Nat]
  /\ dlq \subseteq Deployments \cup BadRequests
  /\ connected \in [Processes -> BOOLEAN]
  /\ handler \in [Processes -> HandlerState]
  /\ jobs \in [Processes -> SUBSET Job]
  /\ worker \in [Processes -> WorkerState]
  /\ renewals \subseteq Deployments
  /\ ledger \in [Deployments -> StageRecord]
  /\ published \in [Deployments -> SUBSET Events]
  /\ faults \in FaultHistory

-----------------------------------------------------------------------------
(* Ownership of a stage *)

\* No lease has run out under its holder so far.
LeasesHeld == "lease" \notin faults.kinds

\* At most one accepted job of a deployment anywhere: in a handler that has yet
\* to acknowledge it, waiting for a worker, or with a worker that has not given
\* the claim up.  The ledger's UPDATEs carry no owner, so this rests on Claim
\* alone, on releaseClaim being the holder's last use of the claim, and on no
\* lease having run out under its holder.
SingleOwner ==
  LeasesHeld => \A p, q \in Processes : \A g \in Holdings(p), h \in Holdings(q) :
    g.job.id = h.job.id => p = q /\ g = h

\* The holder is the latest claimant: the attempt number it was given is still
\* the one in the row, so no other claim came in between.
HolderIsCurrent ==
  LeasesHeld => \A p \in Processes : \A h \in Holdings(p) :
    h.job.claim = ledger[h.job.id].attempt

\* No two jobs of a deployment hold the same attempt number, even when leases
\* run out under their holders: Claim hands each number out once, so it could
\* serve as a fencing token.
ClaimNumbersUnique ==
  \A p, q \in Processes : \A g \in Holdings(p), h \in Holdings(q) :
    g.job.id = h.job.id /\ g.job.claim = h.job.claim => p = q /\ g = h

\* The two counters of a row never go down, whatever claims, releases,
\* outcomes and crashes come between (ledger_test.go tests one order of calls).
CountersMonotone ==
  [][\A d \in Deployments :
       /\ ledger[d].attempt <= ledger'[d].attempt
       /\ ledger[d].retryCount <= ledger'[d].retryCount]_vars

-----------------------------------------------------------------------------
(* Where a request is *)

\* The broker has a copy of the request that it will deliver (again).
InBroker(d) ==
  \/ \E m \in Message : m.id = d /\ (queue[m] > 0 \/ retries[m] > 0)
  \/ \E p \in Processes : connected[p] /\ handler[p] # Idle /\ handler[p].msg.id = d

\* Some process still works on the request.
InMemory(d) ==
  Held(d) \/ \E p \in Processes : worker[p] # Idle /\ worker[p].job.id = d

\* acceptDelivery acknowledges a request only after it has claimed it: a request
\* with no row in the ledger is still in the broker, whatever fails.
UnclaimedInBroker ==
  \A d \in Deployments : ledger[d].state = "ABSENT" => InBroker(d)

\* A request is in the broker, in a process, decided or dead-lettered.
NoRequestLost ==
  \A d \in Deployments :
    InBroker(d) \/ InMemory(d) \/ Terminal(ledger[d]) \/ d \in dlq

\* "Release the execution lease before publishing the delayed copy. If the
\* publish fails, broker redelivery can reacquire the stage"
\* (build_consumer.go:585): a released stage nobody works on is in the broker.
ReleasedIsRedeliverable ==
  \A d \in Deployments :
    /\ ledger[d].state = "IN_PROGRESS" /\ ledger[d].lease = "none"
    /\ ~InMemory(d)
    => InBroker(d) \/ d \in dlq

\* "MAX_DELIVERY_ATTEMPTS=5 (the initial delivery is attempt one)"
\* (README.md:24): a deployment is claimed at most MaxAttempts times.
AttemptsBounded == \A d \in Deployments : ledger[d].attempt <= MaxAttempts

\* That limit holds as long as only publishes have failed, so that every claim
\* has led to an execution and every failed execution is in retry_count, however
\* many copies of one retry and of the request are about.
PublishRetriesBounded == faults.kinds \subseteq {"publish"} => AttemptsBounded

-----------------------------------------------------------------------------
(* Outcomes *)

\* An outcome is persisted before any event of it is published, and the ledger
\* keeps a result from then on, in whatever order the steps and faults come.  A
\* later delivery publishes it again unless scheduleRetry has released the row
\* (build_consumer.go:449-466, 589, 693-710); then it builds again.
OutcomeStoredFirst ==
  \A d \in Deployments :
    published[d] \cap (OutcomeEvents("succeeded") \cup OutcomeEvents("failed")) # {}
    => ledger[d].result # "none"

\* "Publishes `build.succeeded` or `build.failed` events" (README.md:8): never
\* both for one deployment.
OneOutcome ==
  \A d \in Deployments :
    ~ {ServiceEvent("succeeded"), ServiceEvent("failed")} \subseteq published[d]

\* "Claim and build failures are retried through durable TTL queues. Retry
\* exhaustion is persisted as `FAILED`" (README.md:41): a deployment is FAILED
\* only when its retries are used up.
FailedIsExhausted ==
  \A d \in Deployments : ledger[d].state = "FAILED" => ledger[d].retryCount >= MaxAttempts

\* The consumers implement BuildStage: claims are the attempts of the ledger,
\* owners the claim numbers of accepted jobs, the outcome is result_json.
Stage == INSTANCE BuildStage WITH
  EventsOf <- OutcomeEvents,
  claims   <- [d \in Deployments |-> ledger[d].attempt],
  owners   <- [d \in Deployments |-> UNION
                {{h.job.claim : h \in {g \in Holdings(p) : g.job.id = d}} : p \in Processes}],
  outcome  <- [d \in Deployments |-> ledger[d].result],
  reported <- [d \in Deployments |->
                published[d] \cap (OutcomeEvents("succeeded") \cup OutcomeEvents("failed"))]

\* Every behaviour of the consumers is one of BuildStage: no second owner, no
\* claim of a decided stage, no outcome revised, none reported that is not stored.
ImplementsBuildStage == Stage!StageSpec

-----------------------------------------------------------------------------
(* Liveness *)

\* Every request is decided in the end.
EventuallyDecided == \A d \in Deployments : <>[]Terminal(ledger[d])

\* Unless something fails, every request is decided, and both events of its
\* outcome are published.
EventuallyReported ==
  \A d \in Deployments :
    \/ <>(faults.kinds # {})
    \/ <>[](Terminal(ledger[d]) /\ OutcomeEvents(ledger[d].result) \subseteq published[d])

\* Every bad request reaches the dead-letter queue.
BadRequestsDeadLettered == \A b \in BadRequests : <>(b \in dlq)

\* The build queue and the handlers come to rest: no delivery goes round for
\* ever between Claim and Nack.  By UnclaimedInBroker every request has been
\* claimed then, however many deliveries it took.
EventuallyQuiet ==
  <>[]( /\ \A m \in Message : queue[m] = 0 /\ retries[m] = 0
        /\ \A p \in Processes : handler[p] = Idle /\ worker[p] = Idle )

============================================================================
