--------------------------- MODULE BuildConsumer ---------------------------
(***************************************************************************)
(* Build consumers (build_consumer.go) that share one RabbitMQ broker and   *)
(* one stage ledger.  A process runs two goroutines: Start, which handles   *)
(* one delivery at a time in acceptDelivery (the handler), and the worker,  *)
(* which runs one accepted job at a time; a third, the lease renewal, is    *)
(* reduced to its UPDATE statements.  A step ends at each call to the       *)
(* broker or to the ledger, where other goroutines and processes interleave.*)
(*                                                                         *)
(* The broker is external: at-least-once queues without an order between    *)
(* messages.  A delivery is unacknowledged while its handler is not idle    *)
(* and its connection is up; losing the connection requeues it.             *)
(***************************************************************************)
EXTENDS StageLedger

CONSTANTS
  Processes,    \* instances of the service
  Deployments,  \* deploymentIds of well-formed build requests
  BadRequests,  \* bodies that do not decode or do not validate
  Copies,       \* how often the publisher sends each build request
  MaxAttempts,  \* MAX_DELIVERY_ATTEMPTS
  FaultKinds,   \* kinds of faults that may happen in this instance
  MaxFaults     \* bound on the number of faults in a behaviour

AllFaults == {"publish",     \* a publish errs or is not confirmed
              "database",    \* a ledger call errs and does nothing
              "commit",      \* a ledger call errs and takes effect
              "connection",  \* the AMQP connection drops
              "crash",       \* the process stops and is started again
              "lease"}       \* a lease runs out under its holder

ASSUME ConstantsAssumption ==
  /\ Deployments \cap BadRequests = {}
  /\ Copies \in Nat \ {0}
  /\ MaxAttempts \in Nat \ {0}
  /\ FaultKinds \subseteq AllFaults
  /\ MaxFaults \in Nat

Attempts == 0 .. MaxAttempts - 1
\* A request in the broker; attempt is the x-shiply-attempt header.
Message  == [id: Deployments \cup BadRequests, attempt: Attempts]
Request  == [id: Deployments, attempt: Attempts]
\* An accepted request; claim is the Attempt of the StageRecord it claimed.
Job      == [id: Deployments, attempt: Attempts, claim: Nat]

VARIABLES
  queue,      \* the build queue: how many copies of each message
  retries,    \* the TTL retry queues, taken together
  dlq,        \* requests that have been dead-lettered
  connected,  \* has the process a connection to the broker
  handler,    \* the delivery in acceptDelivery
  jobs,       \* accepted jobs that wait: c.jobs and the senders parked on it
  worker,     \* the job in runBuildEvent
  renewals,   \* deployments with a Renew statement under way
  ledger,     \* the stage ledger
  published,  \* events published for each deployment
  faults      \* how many faults so far, and of which kinds

broker == <<queue, retries, dlq>>
vars   == <<queue, retries, dlq, connected, handler, jobs, worker, renewals,
            ledger, published, faults>>

\* The two events of an outcome: service exchange, then deployment exchange.
ServiceEvent(result)  == IF result = "succeeded" THEN "build.succeeded" ELSE "build.failed"
ProgressEvent(result) == IF result = "succeeded" THEN "BUILD_SUCCEEDED" ELSE "BUILD_FAILED"
OutcomeEvents(result) == {ServiceEvent(result), ProgressEvent(result)}
Events == {"BUILDING", "BUILD_RETRYING"}
          \cup OutcomeEvents("succeeded") \cup OutcomeEvents("failed")

Idle == [pc |-> "idle"]
HandlerState ==
  {Idle}
  \cup [pc: {"processDelivery", "settle"}, msg: Message]
  \cup [pc: {"claim"}, msg: Request]
  \cup [pc: {"ack"}, msg: Request, claim: Nat]
  \cup [pc: {"storedService", "storedProgress"}, msg: Request,
        result: {"succeeded", "failed"}]

\* The worker in handleClaimedBuildEvent, completeFailure and RecordRetry.
StagePcs == {"started", "clone", "build", "complete", "succeededService",
             "succeededProgress", "fail", "failedService", "failedProgress",
             "recordRetry"}
\* The worker in the rest of scheduleRetry, before and after releaseClaim.
OwningPcs == StagePcs \cup {"retrying", "release"}
RetryPcs  == {"retrying", "release", "requeue", "requeueOnChannel"}
\* Who called completeFailure.
Callers   == {"none", "clone", "build", "exhausted"}
WorkerState ==
  {Idle}
  \cup [pc: StagePcs \cup {"deadLetter"}, job: Job, caller: Callers, attempt: Nat]
  \cup [pc: RetryPcs, job: Job, caller: Callers, attempt: Attempts]

FaultHistory == [count: 0 .. MaxFaults, kinds: SUBSET FaultKinds]

Init ==
  /\ queue = [m \in Message |-> IF m.attempt # 0 THEN 0
                                ELSE IF m.id \in BadRequests THEN 1 ELSE Copies]
  /\ retries = [m \in Message |-> 0]
  /\ dlq = {}
  /\ connected = [p \in Processes |-> FALSE]
  /\ handler = [p \in Processes |-> Idle]
  /\ jobs = [p \in Processes |-> {}]
  /\ worker = [p \in Processes |-> Idle]
  /\ renewals = {}
  /\ ledger = [d \in Deployments |-> NoRecord]
  /\ published = [d \in Deployments |-> {}]
  /\ faults = [count |-> 0, kinds |-> {}]

-----------------------------------------------------------------------------
(* Calls to the broker and to the ledger, and how they fail *)

Put(bag, m)  == [bag EXCEPT ![m] = @ + 1]
Take(bag, m) == [bag EXCEPT ![m] = @ - 1]

Fault(kind) ==
  /\ kind \in FaultKinds
  /\ faults.count < MaxFaults
  /\ faults' = [count |-> faults.count + 1, kinds |-> faults.kinds \cup {kind}]

\* RabbitMQPublisher.publish: ok is what it returns, sent what the broker did.
CallBroker(p, ok, sent) ==
  \/ connected[p] /\ ok /\ sent /\ UNCHANGED faults
  \/ ~connected[p] /\ ~ok /\ ~sent /\ UNCHANGED faults
  \/ connected[p] /\ ~ok /\ Fault("publish")

\* publishEvent and publishProgressEvent.
Publish(p, d, event, ok) ==
  \E sent \in BOOLEAN :
    /\ CallBroker(p, ok, sent)
    /\ published' = IF sent THEN [published EXCEPT ![d] = @ \cup {event}]
                    ELSE published

\* One ledger call that takes the row r of d to Op(r).
CallLedger(d, Op(_), ok) ==
  \/ ok /\ ledger' = [ledger EXCEPT ![d] = Op(@)] /\ UNCHANGED faults
  \/ ~ok /\ UNCHANGED ledger /\ Fault("database")
  \/ ~ok /\ ledger' = [ledger EXCEPT ![d] = Op(@)] /\ Fault("commit")

\* The broker notices that the connection of p is gone.
Requeued(p) ==
  IF connected[p] /\ handler[p] # Idle THEN Put(queue, handler[p].msg) ELSE queue

-----------------------------------------------------------------------------
(* Start and acceptDelivery *)

\* connect, after the backoff of Start; only once the delivery at hand is done.
Connect(p) ==
  /\ ~connected[p]
  /\ handler[p] = Idle
  /\ connected' = [connected EXCEPT ![p] = TRUE]
  /\ UNCHANGED <<broker, handler, jobs, worker, renewals, ledger, published, faults>>

Deliver(p) ==
  /\ connected[p]
  /\ handler[p] = Idle
  /\ \E m \in Message :
       /\ queue[m] > 0
       /\ queue' = Take(queue, m)
       /\ handler' = [handler EXCEPT ![p] =
            [pc |-> IF m.id \in BadRequests THEN "processDelivery" ELSE "claim",
             msg |-> m]]
  /\ UNCHANGED <<retries, dlq, connected, jobs, worker, renewals, ledger,
                 published, faults>>

\* Variant: msg.Nack(false, false).
NackDrop(p) ==
  /\ handler' = [handler EXCEPT ![p] = Idle]
  /\ UNCHANGED queue

\* msg.Nack(false, true); without the connection the broker has it back already.
NackRequeue(p) ==
  /\ handler' = [handler EXCEPT ![p] = Idle]
  /\ queue' = IF connected[p] THEN Put(queue, handler[p].msg) ELSE queue

ClaimFails(p) ==
  /\ handler[p].pc = "claim"
  /\ CallLedger(handler[p].msg.id, Claimed, FALSE)
  /\ NackRequeue(p)
  /\ UNCHANGED <<retries, dlq, connected, jobs, worker, renewals, published>>

ClaimBusy(p) ==
  /\ handler[p].pc = "claim"
  /\ Disposition(ledger[handler[p].msg.id]) = "ClaimBusy"
  /\ NackRequeue(p)
  /\ UNCHANGED <<retries, dlq, connected, jobs, worker, renewals, ledger,
                 published, faults>>

ClaimTerminal(p) ==
  /\ handler[p].pc = "claim"
  /\ LET r == ledger[handler[p].msg.id] IN
       /\ Disposition(r) \in {"ClaimCompleted", "ClaimFailed"}
       /\ handler' = [handler EXCEPT ![p] =
            [pc |-> "storedService", msg |-> @.msg, result |-> r.result]]
  /\ UNCHANGED <<broker, connected, jobs, worker, renewals, ledger, published, faults>>

ClaimAcquired(p) ==
  /\ handler[p].pc = "claim"
  /\ LET d == handler[p].msg.id IN
       /\ Disposition(ledger[d]) = "ClaimAcquired"
       /\ CallLedger(d, Claimed, TRUE)
       /\ handler' = [handler EXCEPT ![p] =
            [pc |-> "ack", msg |-> @.msg, claim |-> Claimed(ledger[d]).attempt]]
  /\ UNCHANGED <<broker, connected, jobs, worker, renewals, published>>

\* publishStored: the service event, then the progress event.
PublishStored(p) ==
  /\ handler[p].pc \in {"storedService", "storedProgress"}
  /\ LET h == handler[p]
         event == IF h.pc = "storedService" THEN ServiceEvent(h.result)
                  ELSE ProgressEvent(h.result)
         next == IF h.pc = "storedService" THEN [h EXCEPT !.pc = "storedProgress"]
                 ELSE [pc |-> "settle", msg |-> h.msg]
     IN  \/ /\ Publish(p, h.msg.id, event, TRUE)
            /\ handler' = [handler EXCEPT ![p] = next]
            /\ UNCHANGED queue
         \/ Publish(p, h.msg.id, event, FALSE) /\ NackRequeue(p)
  /\ UNCHANGED <<retries, dlq, connected, jobs, worker, renewals, ledger>>

AckedJob(p) == [id |-> handler[p].msg.id, attempt |-> handler[p].msg.attempt,
                claim |-> handler[p].claim]

\* The early ack.  It errs when the connection is gone, and the job is dropped;
\* it may also be written to a connection that the broker no longer reads.
AckDelivery(p) ==
  /\ handler[p].pc = "ack"
  /\ LET m == handler[p].msg
         job == AckedJob(p)
     IN  \/ /\ connected[p]
            /\ jobs' = [jobs EXCEPT ![p] = @ \cup {job}]
            /\ UNCHANGED <<queue, connected, faults>>
         \/ ~connected[p] /\ UNCHANGED <<queue, connected, jobs, faults>>
         \/ /\ connected[p] /\ Fault("connection")
            /\ connected' = [connected EXCEPT ![p] = FALSE]
            /\ jobs' = [jobs EXCEPT ![p] = @ \cup {job}]
            /\ queue' = Put(queue, m)
  /\ handler' = [handler EXCEPT ![p] = Idle]
  /\ UNCHANGED <<retries, dlq, worker, renewals, ledger, published>>

\* Variant: a bad request is dropped without a copy.
ProcessDeliveryDropping(p) ==
  /\ handler[p].pc = "processDelivery"
  /\ handler' = [handler EXCEPT ![p].pc = "settle"]
  /\ UNCHANGED <<broker, connected, jobs, worker, renewals, ledger, published, faults>>

\* processDelivery of a bad request: handleMessage rejects it, copyToDLQ.
ProcessDelivery(p) ==
  /\ handler[p].pc = "processDelivery"
  /\ \E ok, sent \in BOOLEAN :
       /\ CallBroker(p, ok, sent)
       /\ dlq' = IF sent THEN dlq \cup {handler[p].msg.id} ELSE dlq
  /\ handler' = [handler EXCEPT ![p].pc = "settle"]
  /\ UNCHANGED <<queue, retries, connected, jobs, worker, renewals, ledger, published>>

\* The last Ack, or Nack(false, false) when copyToDLQ failed: either way the
\* broker forgets the delivery, which on a lost connection was requeued before.
Settle(p) ==
  /\ handler[p].pc = "settle"
  /\ handler' = [handler EXCEPT ![p] = Idle]
  /\ UNCHANGED <<broker, connected, jobs, worker, renewals, ledger, published, faults>>

-----------------------------------------------------------------------------
(* worker and runBuildEvent: the stage body *)

Resume(p, pc) ==
  worker' = [worker EXCEPT ![p] = IF pc = "idle" THEN Idle ELSE [@ EXCEPT !.pc = pc]]

CallCompleteFailure(p, caller) ==
  worker' = [worker EXCEPT ![p].pc = "fail", ![p].caller = caller]

\* An error of completeFailure is retried only if it comes from the clone: after
\* BuildAndPush it is returned with actionAck, in emitExhausted it ends the retry.
AfterFailureError(p) ==
  IF worker[p].caller = "clone" THEN "recordRetry" ELSE "idle"

WorkerPublishes(p, pc, event, next, onError) ==
  /\ worker[p].pc = pc
  /\ \/ Publish(p, worker[p].job.id, event, TRUE) /\ Resume(p, next)
     \/ Publish(p, worker[p].job.id, event, FALSE) /\ Resume(p, onError)
  /\ UNCHANGED <<broker, connected, handler, jobs, renewals, ledger>>

WorkerPersists(p, pc, Op(_), next, onError) ==
  /\ worker[p].pc = pc
  /\ \/ CallLedger(worker[p].job.id, Op, TRUE) /\ Resume(p, next)
     \/ CallLedger(worker[p].job.id, Op, FALSE) /\ Resume(p, onError)
  /\ UNCHANGED <<broker, connected, handler, jobs, renewals, published>>

TakeJob(p) ==
  /\ worker[p] = Idle
  /\ \E job \in jobs[p] :
       /\ jobs' = [jobs EXCEPT ![p] = @ \ {job}]
       /\ worker' = [worker EXCEPT ![p] =
            [pc |-> "started", job |-> job, caller |-> "none", attempt |-> 0]]
  /\ UNCHANGED <<broker, connected, handler, renewals, ledger, published, faults>>

\* Variant: a started event that fails is only logged and ends the job.
PublishStartedDropping(p) ==
  WorkerPublishes(p, "started", "BUILDING", "clone", "idle")

PublishStarted(p) ==
  WorkerPublishes(p, "started", "BUILDING", "clone", "recordRetry")

\* MkdirTemp and cloneRepositoryFn.
PrepareSource(p) ==
  /\ worker[p].pc = "clone"
  /\ Resume(p, "build") \/ CallCompleteFailure(p, "clone")
  /\ UNCHANGED <<broker, connected, handler, jobs, renewals, ledger, published, faults>>

\* Variant: publishes the success before it is persisted.
BuildAndPushUnpersisted(p) ==
  /\ worker[p].pc = "build"
  /\ Resume(p, "succeededService") \/ CallCompleteFailure(p, "build")
  /\ UNCHANGED <<broker, connected, handler, jobs, renewals, ledger, published, faults>>

BuildAndPush(p) ==
  /\ worker[p].pc = "build"
  /\ Resume(p, "complete") \/ CallCompleteFailure(p, "build")
  /\ UNCHANGED <<broker, connected, handler, jobs, renewals, ledger, published, faults>>

PersistSuccess(p) == WorkerPersists(p, "complete", Completed, "succeededService", "recordRetry")

PublishSucceeded(p) ==
  \/ WorkerPublishes(p, "succeededService", ServiceEvent("succeeded"),
                     "succeededProgress", "recordRetry")
  \/ WorkerPublishes(p, "succeededProgress", ProgressEvent("succeeded"),
                     "idle", "recordRetry")

\* completeFailure: ledger.Fail, then the two events of the failure.
PersistFailure(p) ==
  WorkerPersists(p, "fail", Failed, "failedService", AfterFailureError(p))

\* Variant: the progress event of a failure is missing.
PublishFailedServiceOnly(p) ==
  WorkerPublishes(p, "failedService", ServiceEvent("failed"),
                  IF worker[p].caller = "exhausted" THEN "deadLetter" ELSE "idle",
                  AfterFailureError(p))

PublishFailed(p) ==
  \/ WorkerPublishes(p, "failedService", ServiceEvent("failed"),
                     "failedProgress", AfterFailureError(p))
  \/ WorkerPublishes(p, "failedProgress", ProgressEvent("failed"),
                     IF worker[p].caller = "exhausted" THEN "deadLetter" ELSE "idle",
                     AfterFailureError(p))

-----------------------------------------------------------------------------
(* scheduleRetry *)

\* The attempt that has failed: the durable counter, or one more than the
\* header when the counter cannot be written.
FailedAttempt(job, recorded) ==
  IF ~recorded THEN job.attempt + 1
  ELSE LET count == RetryRecorded(ledger[job.id]).retryCount IN
       IF count > job.attempt THEN count ELSE job.attempt

\* Variant: one execution more than MAX_DELIVERY_ATTEMPTS.
ExhaustedOffByOne(attempt) == attempt > MaxAttempts

Exhausted(attempt) == attempt >= MaxAttempts

RecordRetry(p) ==
  /\ worker[p].pc = "recordRetry"
  /\ \E recorded \in BOOLEAN :
       LET w == worker[p]
           attempt == FailedAttempt(w.job, recorded)
       IN  /\ CallLedger(w.job.id, RetryRecorded, recorded)
           /\ worker' = [worker EXCEPT ![p] =
                IF Exhausted(attempt)
                THEN [w EXCEPT !.pc = "fail", !.caller = "exhausted", !.attempt = attempt]
                ELSE [w EXCEPT !.pc = "retrying", !.attempt = attempt]]
  /\ UNCHANGED <<broker, connected, handler, jobs, renewals, published>>

\* emitRetrying; its error ends scheduleRetry.
EmitRetrying(p) ==
  WorkerPublishes(p, "retrying", "BUILD_RETRYING", "release", "idle")

\* releaseClaim; its error is logged.
ReleaseClaim(p) == WorkerPersists(p, "release", Released, "requeue", "requeue")

RetryMessage(p) == [id |-> worker[p].job.id, attempt |-> worker[p].attempt]

\* c.pub.Publish of the delayed copy.
PublishRetry(p) ==
  /\ worker[p].pc = "requeue"
  /\ \E ok, sent \in BOOLEAN :
       /\ CallBroker(p, ok, sent)
       /\ retries' = IF sent THEN Put(retries, RetryMessage(p)) ELSE retries
       /\ Resume(p, IF ok THEN "idle" ELSE "requeueOnChannel")
  /\ UNCHANGED <<queue, dlq, connected, handler, jobs, renewals, ledger, published>>

\* c.ch.PublishWithContext: the consumer's channel has no confirms, so it also
\* succeeds on a connection that the broker no longer reads.  An error leaves
\* the request to nobody.
PublishRetryOnChannel(p) ==
  /\ worker[p].pc = "requeueOnChannel"
  /\ \/ /\ \E ok, sent \in BOOLEAN :
             /\ CallBroker(p, ok, sent)
             /\ retries' = IF sent THEN Put(retries, RetryMessage(p)) ELSE retries
        /\ UNCHANGED <<queue, connected>>
     \/ /\ connected[p] /\ Fault("connection")
        /\ connected' = [connected EXCEPT ![p] = FALSE]
        /\ queue' = Requeued(p)
        /\ UNCHANGED retries
  /\ Resume(p, "idle")
  /\ UNCHANGED <<dlq, handler, jobs, renewals, ledger, published>>

\* copyToDLQWithAttempt of an exhausted request; its error is logged.
DeadLetter(p) ==
  /\ worker[p].pc = "deadLetter"
  /\ \E ok, sent \in BOOLEAN :
       /\ CallBroker(p, ok, sent)
       /\ dlq' = IF sent THEN dlq \cup {worker[p].job.id} ELSE dlq
  /\ Resume(p, "idle")
  /\ UNCHANGED <<queue, retries, connected, handler, jobs, renewals, ledger, published>>

-----------------------------------------------------------------------------
(* Lease renewal and the environment *)

\* startLeaseRenewal runs from BuildAndPush until handleClaimedBuildEvent returns.
Renewing(p) ==
  \/ worker[p].pc \in {"build", "complete", "succeededService", "succeededProgress"}
  \/ /\ worker[p].pc \in {"fail", "failedService", "failedProgress"}
     /\ worker[p].caller = "build"

\* The ticker fires.  Cancelling the renewal does not wait for its statement.
IssueRenewal(p) ==
  /\ Renewing(p)
  /\ renewals' = renewals \cup {worker[p].job.id}
  /\ UNCHANGED <<broker, connected, handler, jobs, worker, ledger, published, faults>>

\* The statement runs in the database.  One that fails is never seen to run.
LandRenewal(d) ==
  /\ d \in renewals
  /\ renewals' = renewals \ {d}
  /\ ledger' = [ledger EXCEPT ![d] = Renewed(@)]
  /\ UNCHANGED <<broker, connected, handler, jobs, worker, published, faults>>

\* The jobs for which p has claimed the stage and not given it up, and where.
Holdings(p) ==
  {[place |-> "waiting", job |-> job] : job \in jobs[p]}
  \cup (IF handler[p].pc = "ack"
        THEN {[place |-> "handler", job |-> AckedJob(p)]} ELSE {})
  \cup (IF worker[p].pc \in OwningPcs
        THEN {[place |-> "worker", job |-> worker[p].job]} ELSE {})

Held(d) == \E p \in Processes : \E h \in Holdings(p) : h.job.id = d

\* Time passes; a lease that outlives the job of its holder is not a fault.
LeaseExpires(d) ==
  /\ ledger[d].lease = "live"
  /\ ~Held(d)
  /\ ledger' = [ledger EXCEPT ![d].lease = "expired"]
  /\ UNCHANGED <<broker, connected, handler, jobs, worker, renewals, published, faults>>

LeaseRunsOut(d) ==
  /\ ledger[d].lease = "live"
  /\ Held(d)
  /\ Fault("lease")
  /\ ledger' = [ledger EXCEPT ![d].lease = "expired"]
  /\ UNCHANGED <<broker, connected, handler, jobs, worker, renewals, published>>

\* x-message-ttl dead-letters a retry copy to the build queue.
RetryDue ==
  /\ \E m \in Message :
       /\ retries[m] > 0
       /\ retries' = Take(retries, m)
       /\ queue' = Put(queue, m)
  /\ UNCHANGED <<dlq, connected, handler, jobs, worker, renewals, ledger,
                 published, faults>>

ConnectionLost(p) ==
  /\ connected[p]
  /\ Fault("connection")
  /\ connected' = [connected EXCEPT ![p] = FALSE]
  /\ queue' = Requeued(p)
  /\ UNCHANGED <<retries, dlq, handler, jobs, worker, renewals, ledger, published>>

\* The process stops, at a signal too: main does not wait for the worker.
Crash(p) ==
  /\ Fault("crash")
  /\ connected' = [connected EXCEPT ![p] = FALSE]
  /\ queue' = Requeued(p)
  /\ handler' = [handler EXCEPT ![p] = Idle]
  /\ jobs' = [jobs EXCEPT ![p] = {}]
  /\ worker' = [worker EXCEPT ![p] = Idle]
  /\ UNCHANGED <<retries, dlq, renewals, ledger, published>>

-----------------------------------------------------------------------------
Handler(p) ==
  \/ Connect(p) \/ Deliver(p)
  \/ ClaimFails(p) \/ ClaimBusy(p) \/ ClaimTerminal(p) \/ ClaimAcquired(p)
  \/ PublishStored(p) \/ AckDelivery(p) \/ ProcessDelivery(p) \/ Settle(p)

Worker(p) ==
  \/ TakeJob(p) \/ PublishStarted(p) \/ PrepareSource(p) \/ BuildAndPush(p)
  \/ PersistSuccess(p) \/ PublishSucceeded(p)
  \/ PersistFailure(p) \/ PublishFailed(p)
  \/ RecordRetry(p) \/ EmitRetrying(p) \/ ReleaseClaim(p)
  \/ PublishRetry(p) \/ PublishRetryOnChannel(p) \/ DeadLetter(p)

Next ==
  \/ \E p \in Processes :
       Handler(p) \/ Worker(p) \/ IssueRenewal(p) \/ ConnectionLost(p) \/ Crash(p)
  \/ \E d \in Deployments : LandRenewal(d) \/ LeaseExpires(d) \/ LeaseRunsOut(d)
  \/ RetryDue

Spec == Init /\ [][Next]_vars

\* Both goroutines keep running, TTLs and leases run out, statements land.
Fairness ==
  /\ \A p \in Processes : WF_vars(Handler(p)) /\ WF_vars(Worker(p))
  /\ \A d \in Deployments : WF_vars(LeaseExpires(d)) /\ WF_vars(LandRenewal(d))
  /\ WF_vars(RetryDue)

FairSpec == Spec /\ Fairness

============================================================================
