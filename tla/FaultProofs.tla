---------------------------- MODULE FaultProofs ----------------------------
(***************************************************************************)
(* What the consumers promise only as long as certain faults do not happen. *)
(* The conditions are on the history of faults, so that a theorem holds for *)
(* every value of the constants up to the first fault that ends it; but for *)
(* the refinement, whose condition is on the faults of the instance.        *)
(***************************************************************************)
EXTENDS OwnershipProofs, DeliveryProofs

-----------------------------------------------------------------------------
(* Faults *)

\* One more fault.
LEMMA FaultCounts ==
  ASSUME TypeOK, NEW kind, Fault(kind)
  PROVE  /\ faults.count \in Nat /\ faults'.count = faults.count + 1
         /\ kind \in FaultKinds /\ kind \in faults'.kinds
         /\ faults'.kinds = faults.kinds \cup {kind}
BY ConstantsAssumption DEF Fault, TypeOK, FaultHistory

-----------------------------------------------------------------------------
(* What every step of a worker does *)

\* A publish that errs: the connection is gone, or the publish fails on it.
PublishErrs(p) == ~connected[p] \/ Fault("publish")

\* The worker of p goes on from one place to another, or is done, and the row of
\* its job becomes s.
Goes(p, from, to, s) ==
  /\ worker[p].pc = from /\ worker'[p].pc = to
  /\ ledger'[worker[p].job.id] = s

\* It calls completeFailure.
Fails(p, from, caller, s) ==
  Goes(p, from, "fail", s) /\ worker'[p].caller = caller

\* The same without a word, and with an event that is out.
Silently == UNCHANGED <<published, faults>>
Saying(p, event) ==
  /\ connected[p] /\ UNCHANGED faults
  /\ published' = [published EXCEPT ![worker[p].job.id] = @ \cup {event}]

\* A statement that errs, and may have taken effect: the row becomes s.
StatementErrs(r, s, t) ==
  /\ UNCHANGED published
  /\ \/ s = r /\ Fault("database")
     \/ s = t /\ Fault("commit")

\* The stage body, completeFailure, scheduleRetry.
BodySteps(p) ==
  LET w == worker[p]
      d == w.job.id
      r == ledger[d]
      s == ledger'[d]
  IN
  \/ Goes(p, "started", "clone", r) /\ Saying(p, "BUILDING")
  \/ Goes(p, "started", "recordRetry", r) /\ PublishErrs(p)
  \/ Goes(p, "clone", "build", r) /\ Silently
  \/ Fails(p, "clone", "clone", r) /\ Silently
  \/ Goes(p, "build", "complete", r) /\ Silently
  \/ Fails(p, "build", "build", r) /\ Silently
  \/ Goes(p, "complete", "succeededService", Completed(r)) /\ Silently
  \/ Goes(p, "complete", "recordRetry", s) /\ StatementErrs(r, s, Completed(r))
  \/ Goes(p, "succeededService", "succeededProgress", r)
     /\ Saying(p, ServiceEvent("succeeded"))
  \/ Goes(p, "succeededProgress", "idle", r) /\ Saying(p, ProgressEvent("succeeded"))
  \/ Goes(p, "succeededService", "recordRetry", r) /\ PublishErrs(p)
  \/ Goes(p, "succeededProgress", "recordRetry", r) /\ PublishErrs(p)

FailureSteps(p) ==
  LET w == worker[p]
      d == w.job.id
      r == ledger[d]
      s == ledger'[d]
      done == IF w.caller = "exhausted" THEN "deadLetter" ELSE "idle"
  IN
  \/ Goes(p, "fail", "failedService", Failed(r)) /\ Silently
  \/ Goes(p, "fail", AfterFailureError(p), s) /\ StatementErrs(r, s, Failed(r))
  \/ Goes(p, "failedService", "failedProgress", r) /\ Saying(p, ServiceEvent("failed"))
  \/ Goes(p, "failedProgress", done, r) /\ Saying(p, ProgressEvent("failed"))
  \/ Goes(p, "failedService", AfterFailureError(p), r) /\ PublishErrs(p)
  \/ Goes(p, "failedProgress", AfterFailureError(p), r) /\ PublishErrs(p)

RetrySteps(p) ==
  LET w == worker[p]
      d == w.job.id
      r == ledger[d]
      s == ledger'[d]
  IN
  \/ Fails(p, "recordRetry", "exhausted", RetryRecorded(r)) /\ Silently
  \/ /\ Goes(p, "recordRetry", "retrying", RetryRecorded(r)) /\ Silently
     /\ RetryRecorded(r).retryCount < MaxAttempts
  \/ /\ \/ Fails(p, "recordRetry", "exhausted", s)
        \/ Goes(p, "recordRetry", "retrying", s)
     /\ StatementErrs(r, s, RetryRecorded(r))
  \/ Goes(p, "retrying", "release", r) /\ Saying(p, "BUILD_RETRYING")
  \/ Goes(p, "retrying", "idle", r) /\ PublishErrs(p)
  \/ Goes(p, "release", "requeue", Released(r)) /\ Silently
  \/ Goes(p, "release", "requeue", s) /\ StatementErrs(r, s, Released(r))
  \/ /\ Goes(p, "requeue", "idle", r) /\ Silently
     /\ retries' = Put(retries, RetryMessage(p))
  \/ Goes(p, "requeue", "requeueOnChannel", r) /\ PublishErrs(p) /\ UNCHANGED published
  \/ Goes(p, "requeueOnChannel", "idle", r) /\ UNCHANGED published
  \/ Goes(p, "deadLetter", "idle", r) /\ UNCHANGED published

\* What all of them have in common.
WorkerFrame(p) ==
  /\ worker[p] # Idle /\ worker[p].job \in Job
  /\ UNCHANGED <<handler, jobs, renewals>>
  /\ \A q \in Processes \ {p} : worker'[q] = worker[q]
  /\ \A e \in Deployments \ {worker[p].job.id} : ledger'[e] = ledger[e]
  /\ worker'[p].pc = "idle" => worker'[p] = Idle
  /\ worker'[p].pc # "idle" => worker'[p] # Idle /\ worker'[p].job = worker[p].job
  /\ worker'[p].pc \notin {"fail", "idle"} => worker'[p].caller = worker[p].caller
  /\ \/ UNCHANGED <<queue, connected>>
     \/ "connection" \in faults'.kinds
  /\ retries' \in {retries, Put(retries, RetryMessage(p))}
  /\ dlq \subseteq dlq'
  /\ "lease" \in faults'.kinds => "lease" \in faults.kinds

\* What RecordRetry writes into a worker.
LEMMA RetryFields ==
  ASSUME NEW w \in WorkerState, w # Idle, NEW n
  PROVE  /\ [w EXCEPT !.pc = "fail", !.caller = "exhausted", !.attempt = n].pc = "fail"
         /\ [w EXCEPT !.pc = "fail", !.caller = "exhausted", !.attempt = n].caller = "exhausted"
         /\ [w EXCEPT !.pc = "fail", !.caller = "exhausted", !.attempt = n].job = w.job
         /\ [w EXCEPT !.pc = "retrying", !.attempt = n].pc = "retrying"
         /\ [w EXCEPT !.pc = "retrying", !.attempt = n].caller = w.caller
         /\ [w EXCEPT !.pc = "retrying", !.attempt = n].job = w.job
BY DEF WorkerState

\* Every step of a worker that has a job is one of these.
LEMMA WorkerTable ==
  ASSUME TypeOK, NEW p \in Processes, Worker(p), ~TakeJob(p)
  PROVE  WorkerFrame(p) /\ (BodySteps(p) \/ FailureSteps(p) \/ RetrySteps(p))
<1> DEFINE w == worker[p]
           d == w.job.id
           r == ledger[d]
           s == ledger'[d]
<1>1. w \in WorkerState /\ (w.pc # "idle" => w # Idle /\ w.job \in Job /\ d \in Deployments)
  BY WorkerFields DEF TypeOK, Idle, Job
<1>2. ASSUME NEW pc, w.pc # "idle", Resume(p, pc)
      PROVE  /\ worker'[p].pc = pc
             /\ pc = "idle" => worker'[p] = Idle
             /\ pc # "idle" => /\ worker'[p] # Idle /\ worker'[p].job = w.job
                               /\ worker'[p].caller = w.caller
             /\ \A q \in Processes \ {p} : worker'[q] = worker[q]
  BY <1>2, ResumeEffect DEF Idle
<1>3. ASSUME NEW caller, w.pc # "idle", CallCompleteFailure(p, caller)
      PROVE  /\ worker'[p].pc = "fail" /\ worker'[p].caller = caller
             /\ worker'[p] # Idle /\ worker'[p].job = w.job
             /\ \A q \in Processes \ {p} : worker'[q] = worker[q]
  BY <1>3, CompleteFailureEffect DEF Idle
<1>4. \A kind : Fault(kind) /\ kind # "lease" =>
        ("lease" \in faults'.kinds => "lease" \in faults.kinds)
  BY FaultCounts
\* A publish of an event.
<1>5. ASSUME NEW pc, pc # "idle", NEW event, NEW next, NEW onError,
             WorkerPublishes(p, pc, event, next, onError)
      PROVE  /\ WorkerFrame(p)
             /\ \/ Goes(p, pc, next, r) /\ Saying(p, event)
                \/ Goes(p, pc, onError, r) /\ PublishErrs(p)
             /\ worker'[p] # Idle => worker'[p].caller = w.caller
  <2>1. /\ w.pc = pc /\ UNCHANGED <<broker, connected, handler, jobs, renewals, ledger>>
        /\ \/ Publish(p, d, event, TRUE) /\ Resume(p, next)
           \/ Publish(p, d, event, FALSE) /\ Resume(p, onError)
    BY <1>5 DEF WorkerPublishes
  <2>2. Publish(p, d, event, TRUE) => Saying(p, event)
    BY DEF Publish, CallBroker, Saying
  <2>3. Publish(p, d, event, FALSE) => PublishErrs(p) /\ (UNCHANGED faults \/ Fault("publish"))
    BY DEF Publish, CallBroker, PublishErrs
  <2>4. "lease" \in faults'.kinds => "lease" \in faults.kinds
    BY <1>4, <2>1, <2>2, <2>3 DEF Saying
  <2>5. \/ Resume(p, next) /\ Goes(p, pc, next, r) /\ Saying(p, event)
        \/ Resume(p, onError) /\ Goes(p, pc, onError, r) /\ PublishErrs(p)
    BY <1>2, <1>5, <2>1, <2>2, <2>3 DEF Goes
  <2>6. WorkerFrame(p)
    BY <1>1, <1>2, <1>5, <2>1, <2>4, <2>5 DEF WorkerFrame, broker
  <2>7. worker'[p] # Idle => worker'[p].caller = w.caller  BY <1>2, <1>5, <2>1, <2>5
  <2>8. QED  BY <2>5, <2>6, <2>7
\* A statement on the row of the job.
<1>6. ASSUME NEW pc, pc # "idle", NEW next, NEW onError, NEW t, w.pc = pc,
             UNCHANGED <<broker, connected, handler, jobs, renewals, published>>,
             \/ ledger' = [ledger EXCEPT ![d] = t] /\ UNCHANGED faults /\ Resume(p, next)
             \/ UNCHANGED ledger /\ Fault("database") /\ Resume(p, onError)
             \/ ledger' = [ledger EXCEPT ![d] = t] /\ Fault("commit") /\ Resume(p, onError)
      PROVE  /\ WorkerFrame(p)
             /\ \/ Goes(p, pc, next, t) /\ Silently
                \/ Goes(p, pc, onError, s) /\ StatementErrs(r, s, t)
  <2>1. "lease" \in faults'.kinds => "lease" \in faults.kinds  BY <1>4, <1>6
  <2>2. \A e \in Deployments \ {d} : ledger'[e] = ledger[e]  BY <1>6 DEF TypeOK
  <2>3. Resume(p, next) \/ Resume(p, onError)  BY <1>6
  <2>4. WorkerFrame(p)  BY <1>1, <1>2, <1>6, <2>1, <2>2, <2>3 DEF WorkerFrame, broker
  <2>5. ledger' = [ledger EXCEPT ![d] = t] => s = t  BY <1>1, <1>6 DEF TypeOK
  <2>6. \/ Goes(p, pc, next, t) /\ Silently
        \/ Goes(p, pc, onError, s) /\ StatementErrs(r, s, t)
    BY <1>2, <1>6, <2>5 DEF Goes, Silently, StatementErrs
  <2>7. QED  BY <2>4, <2>6
\* A step that only moves the worker.
<1>7. ASSUME w.pc # "idle",
             UNCHANGED <<broker, connected, handler, jobs, renewals, ledger, published, faults>>
      PROVE  /\ \A pc : Resume(p, pc) => WorkerFrame(p) /\ Goes(p, w.pc, pc, r) /\ Silently
             /\ \A caller : CallCompleteFailure(p, caller) =>
                  WorkerFrame(p) /\ Fails(p, w.pc, caller, r) /\ Silently
  BY <1>1, <1>2, <1>3, <1>7 DEF WorkerFrame, Goes, Fails, Silently, broker
<1>8. CASE PublishStarted(p)
  BY <1>5, <1>8 DEF PublishStarted, BodySteps
<1>9. CASE PrepareSource(p)
  BY <1>7, <1>9 DEF PrepareSource, BodySteps
<1>10. CASE BuildAndPush(p)
  BY <1>7, <1>10 DEF BuildAndPush, BodySteps
<1>11. CASE PersistSuccess(p)
  BY <1>6, <1>11 DEF PersistSuccess, WorkerPersists, CallLedger, BodySteps
<1>12. CASE PublishSucceeded(p)
  BY <1>5, <1>12 DEF PublishSucceeded, BodySteps
<1>13. CASE PersistFailure(p)
  BY <1>6, <1>13 DEF PersistFailure, WorkerPersists, CallLedger, FailureSteps
<1>14. CASE PublishFailed(p)
  BY <1>5, <1>14 DEF PublishFailed, FailureSteps
<1>15. CASE EmitRetrying(p)
  BY <1>5, <1>15 DEF EmitRetrying, RetrySteps
<1>16. CASE ReleaseClaim(p)
  BY <1>6, <1>16 DEF ReleaseClaim, WorkerPersists, CallLedger, RetrySteps
<1>17. CASE RecordRetry(p)
  <2> DEFINE next(n) ==
               IF Exhausted(n)
               THEN [w EXCEPT !.pc = "fail", !.caller = "exhausted", !.attempt = n]
               ELSE [w EXCEPT !.pc = "retrying", !.attempt = n]
             t == RetryRecorded(r)
  <2>1. PICK recorded \in BOOLEAN :
          /\ CallLedger(d, RetryRecorded, recorded)
          /\ worker' = [worker EXCEPT ![p] = next(FailedAttempt(w.job, recorded))]
    BY <1>17 DEF RecordRetry
  <2>2. /\ w.pc = "recordRetry" /\ w.pc # "idle"
        /\ UNCHANGED <<broker, connected, handler, jobs, renewals, published>>
    BY <1>17 DEF RecordRetry
  <2> DEFINE n == FailedAttempt(w.job, recorded)
  <2>3. /\ worker'[p] = next(n)
        /\ \A q \in Processes \ {p} : worker'[q] = worker[q]
    <3> HIDE DEF next
    <3>1. QED  BY <2>1 DEF TypeOK
  <2>4. /\ next(n).job = w.job /\ next(n).pc \in {"fail", "retrying"}
        /\ Exhausted(n) => next(n).pc = "fail" /\ next(n).caller = "exhausted"
        /\ ~Exhausted(n) => next(n).pc = "retrying" /\ next(n).caller = w.caller
    BY <1>1, <2>2, RetryFields
  <2> HIDE DEF next
  <2>5. \/ recorded /\ ledger' = [ledger EXCEPT ![d] = t] /\ UNCHANGED faults
        \/ ~recorded /\ UNCHANGED ledger /\ Fault("database")
        \/ ~recorded /\ ledger' = [ledger EXCEPT ![d] = t] /\ Fault("commit")
    BY <2>1 DEF CallLedger
  <2>6. "lease" \in faults'.kinds => "lease" \in faults.kinds  BY <1>4, <2>5
  <2>7. \A e \in Deployments \ {d} : ledger'[e] = ledger[e]  BY <2>5 DEF TypeOK
  <2>8. WorkerFrame(p)
    BY <1>1, <2>2, <2>3, <2>4, <2>6, <2>7 DEF WorkerFrame, broker, Idle
  <2>9. ledger' = [ledger EXCEPT ![d] = t] => s = t  BY <1>1, <2>2 DEF TypeOK
  <2>10. CASE recorded
    <3>1. s = t /\ Silently  BY <2>2, <2>5, <2>9, <2>10 DEF Silently
    <3>2. ~Exhausted(n) => t.retryCount < MaxAttempts
      <4>1. t.retryCount \in Nat /\ w.job.attempt \in Nat /\ MaxAttempts \in Nat
        <5>1. r \in StageRecord  BY <1>1, <2>2 DEF TypeOK
        <5>2. t \in StageRecord  BY <5>1, RowOperators
        <5>3. QED  BY <1>1, <2>2, <5>2, ConstantsAssumption DEF StageRecord, Job, Attempts
      <4>2. n = IF t.retryCount > w.job.attempt THEN t.retryCount ELSE w.job.attempt
        BY <2>10 DEF FailedAttempt
      <4>3. QED  BY <4>1, <4>2 DEF Exhausted
    <3>3. QED  BY <2>2, <2>3, <2>4, <2>8, <3>1, <3>2 DEF RetrySteps, Goes, Fails
  <2>11. CASE ~recorded
    <3>1. StatementErrs(r, s, t)  BY <2>2, <2>5, <2>9, <2>11 DEF StatementErrs
    <3>2. QED  BY <2>2, <2>3, <2>4, <2>8, <3>1 DEF RetrySteps, Goes, Fails
  <2>12. QED  BY <2>10, <2>11
<1>18. CASE PublishRetry(p)
  <2>1. PICK ok, sent \in BOOLEAN :
          /\ CallBroker(p, ok, sent)
          /\ retries' = IF sent THEN Put(retries, RetryMessage(p)) ELSE retries
          /\ Resume(p, IF ok THEN "idle" ELSE "requeueOnChannel")
    BY <1>18 DEF PublishRetry
  <2>2. /\ w.pc = "requeue"
        /\ UNCHANGED <<queue, dlq, connected, handler, jobs, renewals, ledger, published>>
    BY <1>18 DEF PublishRetry
  <2>3. UNCHANGED faults \/ Fault("publish")  BY <2>1 DEF CallBroker
  <2>4. "lease" \in faults'.kinds => "lease" \in faults.kinds  BY <1>4, <2>3
  <2>5. WorkerFrame(p)  BY <1>1, <1>2, <2>1, <2>2, <2>4 DEF WorkerFrame
  <2>6. CASE ok
    <3>1. sent /\ UNCHANGED faults  BY <2>1, <2>6 DEF CallBroker
    <3>2. QED  BY <1>2, <2>1, <2>2, <2>5, <2>6, <3>1 DEF RetrySteps, Goes, Silently
  <2>7. CASE ~ok
    <3>1. PublishErrs(p)  BY <2>1, <2>7 DEF CallBroker, PublishErrs
    <3>2. QED  BY <1>2, <2>1, <2>2, <2>5, <2>7, <3>1 DEF RetrySteps, Goes
  <2>8. QED  BY <2>6, <2>7
<1>19. CASE PublishRetryOnChannel(p)
  <2>1. /\ w.pc = "requeueOnChannel" /\ Resume(p, "idle")
        /\ UNCHANGED <<dlq, handler, jobs, renewals, ledger, published>>
    BY <1>19 DEF PublishRetryOnChannel
  <2>2. \/ /\ \E ok, sent \in BOOLEAN :
                /\ CallBroker(p, ok, sent)
                /\ retries' = IF sent THEN Put(retries, RetryMessage(p)) ELSE retries
           /\ UNCHANGED <<queue, connected>>
        \/ Fault("connection") /\ UNCHANGED retries
    BY <1>19 DEF PublishRetryOnChannel
  <2>3. UNCHANGED faults \/ Fault("publish") \/ Fault("connection")
    BY <2>2 DEF CallBroker
  <2>4. "lease" \in faults'.kinds => "lease" \in faults.kinds  BY <1>4, <2>3
  <2>5. UNCHANGED <<queue, connected>> \/ "connection" \in faults'.kinds
    BY <2>2, FaultCounts
  <2>6. retries' \in {retries, Put(retries, RetryMessage(p))}  BY <2>2
  <2>7. WorkerFrame(p)  BY <1>1, <1>2, <2>1, <2>4, <2>5, <2>6 DEF WorkerFrame
  <2>8. Goes(p, "requeueOnChannel", "idle", r)  BY <1>2, <2>1 DEF Goes
  <2>9. QED  BY <2>1, <2>7, <2>8 DEF RetrySteps
<1>20. CASE DeadLetter(p)
  <2>1. PICK ok, sent \in BOOLEAN :
          /\ CallBroker(p, ok, sent)
          /\ dlq' = IF sent THEN dlq \cup {w.job.id} ELSE dlq
    BY <1>20 DEF DeadLetter
  <2>2. /\ w.pc = "deadLetter" /\ Resume(p, "idle")
        /\ UNCHANGED <<queue, retries, connected, handler, jobs, renewals, ledger, published>>
    BY <1>20 DEF DeadLetter
  <2>3. UNCHANGED faults \/ Fault("publish")  BY <2>1 DEF CallBroker
  <2>4. "lease" \in faults'.kinds => "lease" \in faults.kinds  BY <1>4, <2>3
  <2>5. WorkerFrame(p)  BY <1>1, <1>2, <2>1, <2>2, <2>4 DEF WorkerFrame
  <2>6. QED  BY <1>2, <2>2, <2>5 DEF RetrySteps, Goes
<1>21. QED
  BY <1>8, <1>9, <1>10, <1>11, <1>12, <1>13, <1>14, <1>15, <1>16, <1>17, <1>18, <1>19, <1>20
     DEF Worker
-----------------------------------------------------------------------------
(* What every step of a handler does *)

\* The handler of p goes on with its delivery, or is done with it.
Handles(p, from, to) ==
  /\ handler[p].pc = from /\ handler[p] # Idle
  /\ IF to = "idle" THEN handler'[p] = Idle
     ELSE handler'[p] # Idle /\ handler'[p].pc = to /\ handler'[p].msg = handler[p].msg

\* It gives it back, after a call that erred or found the stage busy.
Returns(p, from) ==
  /\ Handles(p, from, "idle")
  /\ queue' = IF connected[p] THEN Put(queue, handler[p].msg) ELSE queue

\* The stored events of an outcome.
StoredEvent(h) == IF h.pc = "storedService" THEN ServiceEvent(h.result)
                  ELSE ProgressEvent(h.result)
AnswersStored(p) ==
  LET h == handler[p] IN
  /\ UNCHANGED <<ledger, queue, faults>>
  /\ \/ Handles(p, "storedService", "storedProgress") /\ handler'[p].result = h.result
     \/ Handles(p, "storedProgress", "settle")
  /\ published' = [published EXCEPT ![h.msg.id] = @ \cup {StoredEvent(h)}]

\* The early ack: the job waits for the worker, or is dropped on a connection
\* that is gone.
Accepts(p) ==
  LET job == AckedJob(p) IN
  /\ Handles(p, "ack", "idle") /\ UNCHANGED <<ledger, published>>
  /\ \/ /\ connected[p] /\ UNCHANGED <<queue, connected, faults>>
        /\ jobs'[p] = jobs[p] \cup {job}
     \/ ~connected[p] /\ UNCHANGED <<queue, connected, jobs, faults>>
     \/ jobs'[p] = jobs[p] \cup {job} /\ "connection" \in faults'.kinds

ClaimSteps(p) ==
  LET h == handler[p]
      r == ledger[h.msg.id]
      s == ledger'[h.msg.id]
  IN
  \/ Returns(p, "claim") /\ StatementErrs(r, s, Claimed(r))
  \/ Returns(p, "claim") /\ UNCHANGED ledger /\ Silently
  \/ /\ Handles(p, "claim", "storedService") /\ Terminal(r)
     /\ handler'[p].result = r.result
     /\ UNCHANGED <<ledger, queue>> /\ Silently
  \/ /\ Handles(p, "claim", "ack") /\ Disposition(r) = "ClaimAcquired"
     /\ s = Claimed(r) /\ handler'[p].claim = s.attempt
     /\ UNCHANGED queue /\ Silently

DeliverySteps(p) ==
  \/ UNCHANGED <<handler, jobs, queue, ledger>> /\ Silently
  \/ /\ handler[p] = Idle /\ connected[p]
     /\ \E m \in Message :
          /\ queue[m] > 0 /\ queue' = Take(queue, m)
          /\ handler'[p] # Idle /\ handler'[p].msg = m
          /\ handler'[p].pc = IF m.id \in BadRequests THEN "processDelivery" ELSE "claim"
     /\ UNCHANGED ledger /\ Silently
  \/ AnswersStored(p)
  \/ /\ Returns(p, "storedService") \/ Returns(p, "storedProgress")
     /\ UNCHANGED ledger /\ PublishErrs(p)
  \/ Accepts(p)
  \/ /\ Handles(p, "processDelivery", "settle") \/ Handles(p, "settle", "idle")
     /\ UNCHANGED <<ledger, queue, published>>

\* What all of them have in common.
HandlerFrame(p) ==
  /\ UNCHANGED <<retries, worker, renewals>>
  /\ \A q \in Processes \ {p} : handler'[q] = handler[q] /\ jobs'[q] = jobs[q]
  /\ handler[p].pc # "ack" => UNCHANGED jobs
  /\ handler[p].pc \in {"claim", "ack", "storedService", "storedProgress"} =>
       handler[p].msg.id \in Deployments
  /\ \A e \in Deployments :
       ledger'[e] = ledger[e] \/ (handler[p].pc = "claim" /\ e = handler[p].msg.id)
  /\ \A q \in Processes : connected'[q] = connected[q]
                          \/ "connection" \in faults'.kinds
                          \/ (q = p /\ connected'[q])
  /\ dlq \subseteq dlq'
  /\ "lease" \in faults'.kinds => "lease" \in faults.kinds

\* What the steps write into a handler.
LEMMA SettleFields ==
  ASSUME NEW h \in HandlerState
  PROVE  /\ h.pc = "storedService" =>
              /\ [h EXCEPT !.pc = "storedProgress"].pc = "storedProgress"
              /\ [h EXCEPT !.pc = "storedProgress"].msg = h.msg
              /\ [h EXCEPT !.pc = "storedProgress"].result = h.result
         /\ h.pc = "processDelivery" =>
              /\ [h EXCEPT !.pc = "settle"].pc = "settle"
              /\ [h EXCEPT !.pc = "settle"].msg = h.msg
BY DEF HandlerState, Idle

\* Every step of a handler is one of these.
LEMMA HandlerTable ==
  ASSUME TypeOK, NEW p \in Processes, Handler(p)
  PROVE  HandlerFrame(p) /\ (ClaimSteps(p) \/ DeliverySteps(p))
<1> DEFINE h == handler[p]
           d == h.msg.id
           r == ledger[d]
           s == ledger'[d]
<1>1. /\ h \in HandlerState
      /\ h.pc \in {"claim", "ack", "storedService", "storedProgress"} => d \in Deployments
      /\ h.pc = "idle" <=> h = Idle
  BY HandlerFields DEF TypeOK, Request
<1>2. \A kind : Fault(kind) /\ kind # "lease" =>
        ("lease" \in faults'.kinds => "lease" \in faults.kinds)
  BY FaultCounts
\* The handler alone moves.
<1>3. ASSUME NEW v, handler' = [handler EXCEPT ![p] = v],
             UNCHANGED <<retries, dlq, connected, jobs, worker, renewals, ledger>>,
             UNCHANGED faults \/ Fault("publish")
      PROVE  HandlerFrame(p) /\ handler'[p] = v
  <2>1. \A q \in Processes \ {p} : handler'[q] = handler[q]  BY <1>3 DEF TypeOK
  <2>2. handler'[p] = v  BY <1>3 DEF TypeOK
  <2>3. "lease" \in faults'.kinds => "lease" \in faults.kinds  BY <1>2, <1>3
  <2>4. QED  BY <1>1, <1>3, <2>1, <2>2, <2>3 DEF HandlerFrame
<1>4. CASE Connect(p)
  <2>1. /\ connected' = [connected EXCEPT ![p] = TRUE]
        /\ UNCHANGED <<broker, handler, jobs, worker, renewals, ledger, published, faults>>
    BY <1>4 DEF Connect
  <2>2. \A q \in Processes : connected'[q] = connected[q] \/ (q = p /\ connected'[q])
    BY <2>1 DEF TypeOK
  <2>3. HandlerFrame(p)  BY <1>1, <2>1, <2>2 DEF HandlerFrame, broker
  <2>4. QED  BY <2>1, <2>3 DEF DeliverySteps, Silently, broker
<1>5. CASE Deliver(p)
  <2> DEFINE v(m) == [pc |-> IF m.id \in BadRequests THEN "processDelivery" ELSE "claim",
                      msg |-> m]
  <2>1. PICK m \in Message :
          queue[m] > 0 /\ queue' = Take(queue, m) /\ handler' = [handler EXCEPT ![p] = v(m)]
    BY <1>5 DEF Deliver
  <2>2. /\ connected[p] /\ h = Idle
        /\ UNCHANGED <<retries, dlq, connected, jobs, worker, renewals, ledger,
                       published, faults>>
    BY <1>5 DEF Deliver
  <2>3. HandlerFrame(p) /\ handler'[p] = v(m)  BY <1>3, <2>1, <2>2
  <2>4. /\ v(m).pc = IF m.id \in BadRequests THEN "processDelivery" ELSE "claim"
        /\ v(m).msg = m /\ v(m) # Idle
    BY DEF Idle
  <2> HIDE DEF v
  <2>5. QED  BY <2>1, <2>2, <2>3, <2>4 DEF DeliverySteps, Silently
<1>6. CASE ClaimFails(p)
  <2>1. /\ h.pc = "claim" /\ NackRequeue(p)
        /\ UNCHANGED <<retries, dlq, connected, jobs, worker, renewals, published>>
        /\ \/ UNCHANGED ledger /\ Fault("database")
           \/ ledger' = [ledger EXCEPT ![d] = Claimed(ledger[d])] /\ Fault("commit")
    BY <1>6 DEF ClaimFails, CallLedger
  <2>2. /\ Returns(p, "claim")
        /\ \A q \in Processes \ {p} : handler'[q] = handler[q]
    BY <1>1, <2>1 DEF NackRequeue, Returns, Handles, TypeOK
  <2>3. \A e \in Deployments : e # d => ledger'[e] = ledger[e]  BY <2>1 DEF TypeOK
  <2>4. "lease" \in faults'.kinds => "lease" \in faults.kinds  BY <1>2, <2>1
  <2>5. HandlerFrame(p)  BY <1>1, <2>1, <2>2, <2>3, <2>4 DEF HandlerFrame
  <2>6. StatementErrs(r, s, Claimed(r))  BY <1>1, <2>1 DEF StatementErrs, TypeOK
  <2>7. QED  BY <2>2, <2>5, <2>6 DEF ClaimSteps
<1>7. CASE ClaimBusy(p)
  <2>1. /\ h.pc = "claim" /\ NackRequeue(p)
        /\ UNCHANGED <<retries, dlq, connected, jobs, worker, renewals, ledger,
                       published, faults>>
    BY <1>7 DEF ClaimBusy
  <2>2. HandlerFrame(p) /\ handler'[p] = Idle  BY <1>3, <2>1 DEF NackRequeue
  <2>3. Returns(p, "claim")  BY <1>1, <2>1, <2>2 DEF NackRequeue, Returns, Handles
  <2>4. QED  BY <2>1, <2>2, <2>3 DEF ClaimSteps, Silently
<1>8. CASE ClaimTerminal(p)
  <2> DEFINE v == [pc |-> "storedService", msg |-> h.msg, result |-> r.result]
  <2>1. /\ h.pc = "claim" /\ handler' = [handler EXCEPT ![p] = v]
        /\ Disposition(r) \in {"ClaimCompleted", "ClaimFailed"}
        /\ UNCHANGED <<broker, connected, jobs, worker, renewals, ledger, published, faults>>
    BY <1>8 DEF ClaimTerminal
  <2>2. HandlerFrame(p) /\ handler'[p] = v  BY <1>3, <2>1 DEF broker
  <2>3. v.pc = "storedService" /\ v.msg = h.msg /\ v.result = r.result /\ v # Idle
    BY DEF Idle
  <2>4. Terminal(r)  BY <2>1 DEF Disposition, Terminal
  <2> HIDE DEF v
  <2>5. QED  BY <1>1, <2>1, <2>2, <2>3, <2>4 DEF ClaimSteps, Silently, Handles, broker
<1>9. CASE ClaimAcquired(p)
  <2> DEFINE v == [pc |-> "ack", msg |-> h.msg, claim |-> Claimed(r).attempt]
  <2>1. /\ h.pc = "claim" /\ handler' = [handler EXCEPT ![p] = v]
        /\ Disposition(r) = "ClaimAcquired"
        /\ ledger' = [ledger EXCEPT ![d] = Claimed(r)]
        /\ UNCHANGED <<broker, connected, jobs, worker, renewals, published, faults>>
    BY <1>9 DEF ClaimAcquired, CallLedger
  <2>2. /\ handler'[p] = v /\ \A q \in Processes \ {p} : handler'[q] = handler[q]
        /\ s = Claimed(r) /\ \A e \in Deployments : e # d => ledger'[e] = ledger[e]
    <3> HIDE DEF v
    <3>1. QED  BY <1>1, <2>1 DEF TypeOK
  <2>3. v.pc = "ack" /\ v.msg = h.msg /\ v.claim = Claimed(r).attempt /\ v # Idle
    BY DEF Idle
  <2> HIDE DEF v
  <2>4. HandlerFrame(p)  BY <1>1, <2>1, <2>2 DEF HandlerFrame, broker
  <2>5. QED  BY <1>1, <2>1, <2>2, <2>3, <2>4 DEF ClaimSteps, Silently, Handles, broker
<1>10. CASE PublishStored(p)
  <2> DEFINE v == IF h.pc = "storedService" THEN [h EXCEPT !.pc = "storedProgress"]
                  ELSE [pc |-> "settle", msg |-> h.msg]
  <2>1. /\ h.pc \in {"storedService", "storedProgress"}
        /\ UNCHANGED <<retries, dlq, connected, jobs, worker, renewals, ledger>>
        /\ \/ /\ Publish(p, d, StoredEvent(h), TRUE)
              /\ handler' = [handler EXCEPT ![p] = v] /\ UNCHANGED queue
           \/ Publish(p, d, StoredEvent(h), FALSE) /\ NackRequeue(p)
    BY <1>10 DEF PublishStored, StoredEvent
  <2>2. /\ v.msg = h.msg /\ v # Idle
        /\ h.pc = "storedService" => v.pc = "storedProgress" /\ v.result = h.result
        /\ h.pc = "storedProgress" => v.pc = "settle"
    BY <1>1, <2>1, SettleFields DEF Idle
  <2> HIDE DEF v
  <2>3. UNCHANGED faults \/ Fault("publish")  BY <2>1 DEF Publish, CallBroker
  <2>4. CASE Publish(p, d, StoredEvent(h), TRUE) /\ handler' = [handler EXCEPT ![p] = v]
             /\ UNCHANGED queue
    <3>1. HandlerFrame(p) /\ handler'[p] = v  BY <1>3, <2>1, <2>3, <2>4
    <3>2. UNCHANGED faults /\ published' = [published EXCEPT ![d] = @ \cup {StoredEvent(h)}]
      BY <2>4 DEF Publish, CallBroker
    <3>3. AnswersStored(p)
      BY <1>1, <2>1, <2>2, <2>4, <3>1, <3>2 DEF AnswersStored, Handles
    <3>4. QED  BY <3>1, <3>3 DEF DeliverySteps
  <2>5. CASE Publish(p, d, StoredEvent(h), FALSE) /\ NackRequeue(p)
    <3>1. HandlerFrame(p) /\ handler'[p] = Idle
      BY <1>3, <2>1, <2>3, <2>5 DEF NackRequeue
    <3>2. PublishErrs(p)  BY <2>5 DEF Publish, CallBroker, PublishErrs
    <3>3. Returns(p, h.pc)  BY <1>1, <2>1, <2>5, <3>1 DEF Returns, Handles, NackRequeue
    <3>4. QED  BY <2>1, <3>1, <3>2, <3>3 DEF DeliverySteps
  <2>6. QED  BY <2>1, <2>4, <2>5
<1>11. CASE AckDelivery(p)
  <2> DEFINE job == AckedJob(p)
  <2>1. /\ h.pc = "ack" /\ handler' = [handler EXCEPT ![p] = Idle]
        /\ UNCHANGED <<retries, dlq, worker, renewals, ledger, published>>
        /\ \/ /\ connected[p] /\ jobs' = [jobs EXCEPT ![p] = @ \cup {job}]
              /\ UNCHANGED <<queue, connected, faults>>
           \/ ~connected[p] /\ UNCHANGED <<queue, connected, jobs, faults>>
           \/ /\ Fault("connection") /\ jobs' = [jobs EXCEPT ![p] = @ \cup {job}]
              /\ connected' = [connected EXCEPT ![p] = FALSE]
    BY <1>11 DEF AckDelivery
  <2> HIDE DEF job
  <2>2. /\ handler'[p] = Idle /\ \A q \in Processes \ {p} : handler'[q] = handler[q]
        /\ \A q \in Processes \ {p} : jobs'[q] = jobs[q]
        /\ UNCHANGED jobs \/ jobs'[p] = jobs[p] \cup {job}
    BY <2>1 DEF TypeOK
  <2>3. UNCHANGED faults \/ Fault("connection")  BY <2>1
  <2>4. "lease" \in faults'.kinds => "lease" \in faults.kinds  BY <1>2, <2>3
  <2>5. UNCHANGED connected \/ "connection" \in faults'.kinds  BY <2>1, FaultCounts
  <2>6. HandlerFrame(p)  BY <1>1, <2>1, <2>2, <2>4, <2>5 DEF HandlerFrame
  <2>7. Handles(p, "ack", "idle")  BY <1>1, <2>1, <2>2 DEF Handles
  <2>8. \/ connected[p] /\ UNCHANGED <<queue, connected, faults>> /\ jobs'[p] = jobs[p] \cup {job}
        \/ ~connected[p] /\ UNCHANGED <<queue, connected, jobs, faults>>
        \/ jobs'[p] = jobs[p] \cup {job} /\ "connection" \in faults'.kinds
    BY <2>1, FaultCounts DEF TypeOK
  <2>9. Accepts(p)  BY <2>1, <2>7, <2>8 DEF Accepts, job
  <2>10. QED  BY <2>6, <2>9 DEF DeliverySteps
<1>12. CASE ProcessDelivery(p)
  <2> DEFINE v == [h EXCEPT !.pc = "settle"]
  <2>1. /\ h.pc = "processDelivery" /\ handler' = [handler EXCEPT ![p] = v]
        /\ UNCHANGED <<queue, retries, connected, jobs, worker, renewals, ledger, published>>
    BY <1>12 DEF ProcessDelivery
  <2>2. PICK ok, sent \in BOOLEAN :
          CallBroker(p, ok, sent) /\ dlq' = IF sent THEN dlq \cup {h.msg.id} ELSE dlq
    BY <1>12 DEF ProcessDelivery
  <2>3. UNCHANGED faults \/ Fault("publish")  BY <2>2 DEF CallBroker
  <2>4. "lease" \in faults'.kinds => "lease" \in faults.kinds  BY <1>2, <2>3
  <2>5. v.pc = "settle" /\ v.msg = h.msg /\ v # Idle  BY <1>1, <2>1, SettleFields DEF Idle
  <2> HIDE DEF v
  <2>6. handler'[p] = v /\ \A q \in Processes \ {p} : handler'[q] = handler[q]
    BY <2>1 DEF TypeOK
  <2>7. HandlerFrame(p)  BY <1>1, <2>1, <2>2, <2>4, <2>6 DEF HandlerFrame
  <2>8. QED  BY <1>1, <2>1, <2>5, <2>6, <2>7 DEF DeliverySteps, Handles
<1>13. CASE Settle(p)
  <2>1. /\ h.pc = "settle" /\ handler' = [handler EXCEPT ![p] = Idle]
        /\ UNCHANGED <<broker, connected, jobs, worker, renewals, ledger, published, faults>>
    BY <1>13 DEF Settle
  <2>2. HandlerFrame(p) /\ handler'[p] = Idle  BY <1>3, <2>1 DEF broker
  <2>3. QED  BY <1>1, <2>1, <2>2 DEF DeliverySteps, Handles, broker
<1>14. QED
  BY <1>4, <1>5, <1>6, <1>7, <1>8, <1>9, <1>10, <1>11, <1>12, <1>13 DEF Handler

-----------------------------------------------------------------------------
(* What the rest of the steps do *)

\* A worker that has no job takes one.
LEMMA TakeJobTable ==
  ASSUME TypeOK, NEW p \in Processes, TakeJob(p)
  PROVE  /\ UNCHANGED <<broker, connected, handler, renewals, ledger, published, faults>>
         /\ worker[p] = Idle
         /\ \A q \in Processes \ {p} : worker'[q] = worker[q] /\ jobs'[q] = jobs[q]
         /\ \E job \in jobs[p] :
              /\ jobs'[p] = jobs[p] \ {job}
              /\ worker'[p] # Idle /\ worker'[p].pc = "started"
              /\ worker'[p].job = job /\ worker'[p].caller = "none"
<1> DEFINE w(job) == [pc |-> "started", job |-> job, caller |-> "none", attempt |-> 0]
<1>1. PICK job \in jobs[p] :
        /\ jobs' = [jobs EXCEPT ![p] = @ \ {job}]
        /\ worker' = [worker EXCEPT ![p] = w(job)]
  BY DEF TakeJob
<1>2. /\ UNCHANGED <<broker, connected, handler, renewals, ledger, published, faults>>
      /\ worker[p] = Idle
  BY DEF TakeJob
<1>3. /\ w(job) # Idle /\ w(job).pc = "started" /\ w(job).job = job
      /\ w(job).caller = "none"
  BY DEF Idle
<1> HIDE DEF w
<1>4. /\ worker'[p] = w(job) /\ jobs'[p] = jobs[p] \ {job}
      /\ \A q \in Processes \ {p} : worker'[q] = worker[q] /\ jobs'[q] = jobs[q]
  BY <1>1 DEF TypeOK
<1>5. QED  BY <1>1, <1>2, <1>3, <1>4

\* All but the lease of a row stays.
SameButLease(r, s) ==
  /\ s.state = r.state /\ s.result = r.result
  /\ s.attempt = r.attempt /\ s.retryCount = r.retryCount

LEMMA LeaseChanges ==
  ASSUME NEW r \in StageRecord
  PROVE  /\ SameButLease(r, r) /\ SameButLease(r, Renewed(r))
         /\ SameButLease(r, [r EXCEPT !.lease = "expired"])
BY DEF SameButLease, Renewed, StageRecord

\* p loses its connection, with or without the process.
Drops(p) ==
  /\ queue' = Requeued(p) /\ connected' = [connected EXCEPT ![p] = FALSE]
  /\ UNCHANGED <<retries, dlq, ledger, published>>
  /\ \/ Fault("connection") /\ UNCHANGED <<handler, jobs, worker>>
     \/ /\ Fault("crash")
        /\ handler' = [handler EXCEPT ![p] = Idle]
        /\ jobs' = [jobs EXCEPT ![p] = {}]
        /\ worker' = [worker EXCEPT ![p] = Idle]

\* Leases come and go, TTLs run out.
Elapses ==
  /\ UNCHANGED <<dlq, connected, handler, jobs, worker, published>>
  /\ \A d \in Deployments : SameButLease(ledger[d], ledger'[d])
  /\ \/ UNCHANGED <<queue, retries>>
     \/ \E m \in Message : retries[m] > 0 /\ retries' = Take(retries, m) /\ queue' = Put(queue, m)
  /\ UNCHANGED faults \/ Fault("lease")

LEMMA EnvironmentTable ==
  ASSUME TypeOK,
         \/ \E p \in Processes : IssueRenewal(p) \/ ConnectionLost(p) \/ Crash(p)
         \/ \E d \in Deployments : LandRenewal(d) \/ LeaseExpires(d) \/ LeaseRunsOut(d)
         \/ RetryDue \/ UNCHANGED vars
  PROVE  Elapses \/ \E p \in Processes : Drops(p)
<1>1. UNCHANGED ledger => \A d \in Deployments : SameButLease(ledger[d], ledger'[d])
  BY DEF SameButLease
<1>2. ASSUME NEW d \in Deployments, NEW s, SameButLease(ledger[d], s),
             ledger' = [ledger EXCEPT ![d] = s]
      PROVE  \A e \in Deployments : SameButLease(ledger[e], ledger'[e])
  BY <1>2 DEF TypeOK, SameButLease
<1>3. \A d \in Deployments : ledger[d] \in StageRecord  BY DEF TypeOK
<1>4. ASSUME NEW p \in Processes, IssueRenewal(p)  PROVE Elapses
  BY <1>1, <1>4 DEF IssueRenewal, Elapses, broker
<1>5. ASSUME NEW p \in Processes, ConnectionLost(p) \/ Crash(p)  PROVE Drops(p)
  BY <1>5 DEF ConnectionLost, Crash, Drops
<1>6. ASSUME NEW d \in Deployments, LandRenewal(d)  PROVE Elapses
  <2>1. ledger' = [ledger EXCEPT ![d] = Renewed(ledger[d])]  BY <1>6 DEF LandRenewal
  <2>2. \A e \in Deployments : SameButLease(ledger[e], ledger'[e])
    BY <1>2, <1>3, <2>1, LeaseChanges
  <2>3. QED  BY <1>6, <2>2 DEF LandRenewal, Elapses, broker
<1>7. ASSUME NEW d \in Deployments, LeaseExpires(d) \/ LeaseRunsOut(d)  PROVE Elapses
  <2>1. ledger' = [ledger EXCEPT ![d] = [ledger[d] EXCEPT !.lease = "expired"]]
    BY <1>7 DEF LeaseExpires, LeaseRunsOut
  <2>2. \A e \in Deployments : SameButLease(ledger[e], ledger'[e])
    BY <1>2, <1>3, <2>1, LeaseChanges
  <2>3. QED  BY <1>7, <2>2 DEF LeaseExpires, LeaseRunsOut, Elapses, broker
<1>8. CASE RetryDue  BY <1>1, <1>8 DEF RetryDue, Elapses
<1>9. CASE UNCHANGED vars  BY <1>1, <1>9 DEF vars, Elapses
<1>10. QED  BY <1>4, <1>5, <1>6, <1>7, <1>8, <1>9

-----------------------------------------------------------------------------
(* As long as no connection has dropped, what is at work is connected *)

Linked ==
  \A p \in Processes :
    handler[p] # Idle \/ jobs[p] # {} \/ worker[p] # Idle => connected[p]

LEMMA LinkedNext ==
  ASSUME TypeOK, Linked, [Next]_vars, "connection" \notin faults'.kinds
  PROVE  Linked'
<1> SUFFICES ASSUME NEW q \in Processes,
                    handler'[q] # Idle \/ jobs'[q] # {} \/ worker'[q] # Idle
             PROVE  connected'[q]
  BY DEF Linked
<1>1. handler[q] # Idle \/ jobs[q] # {} \/ worker[q] # Idle => connected[q]
  BY DEF Linked
<1>2. ASSUME NEW p \in Processes, Handler(p)  PROVE connected'[q]
  <2>1. HandlerFrame(p) /\ (ClaimSteps(p) \/ DeliverySteps(p))
    BY <1>2, HandlerTable
  <2>2. connected'[q] = connected[q] \/ connected'[q]  BY <2>1 DEF HandlerFrame
  <2>3. CASE q # p  BY <1>1, <2>1, <2>2, <2>3 DEF HandlerFrame
  <2>4. CASE q = p
    <3>1. handler[p] # Idle \/ connected[p] \/ UNCHANGED handler
      BY <2>1 DEF ClaimSteps, DeliverySteps, Handles, Returns, AnswersStored, Accepts
    <3>2. UNCHANGED jobs \/ handler[p] # Idle  BY <2>1 DEF HandlerFrame, Idle
    <3>3. QED  BY <1>1, <2>1, <2>2, <2>4, <3>1, <3>2 DEF HandlerFrame
  <2>5. QED  BY <2>3, <2>4
<1>3. ASSUME NEW p \in Processes, Worker(p), ~TakeJob(p)  PROVE connected'[q]
  BY <1>1, <1>3, WorkerTable DEF WorkerFrame
<1>4. ASSUME NEW p \in Processes, TakeJob(p)  PROVE connected'[q]
  BY <1>1, <1>4, TakeJobTable
<1>5. ASSUME NEW p \in Processes, Drops(p)  PROVE connected'[q]
  <2>1. Fault("crash")  BY <1>5, FaultCounts DEF Drops
  <2>2. q # p
    BY <1>5, <2>1, FaultCounts DEF Drops, TypeOK
  <2>3. /\ handler'[q] = handler[q] /\ jobs'[q] = jobs[q] /\ worker'[q] = worker[q]
        /\ connected'[q] = connected[q]
    BY <1>5, <2>2 DEF Drops, TypeOK
  <2>4. QED  BY <1>1, <2>3
<1>6. CASE Elapses  BY <1>1, <1>6 DEF Elapses
<1>7. QED  BY <1>2, <1>3, <1>4, <1>5, <1>6, EnvironmentTable DEF Next

-----------------------------------------------------------------------------
(* As long as only statements that do nothing and crashes have failed, a row  *)
(* is decided once, by its owner, and the workers know what it says           *)

CalmFaults == FaultKinds \subseteq {"database", "crash"}

\* The places of a worker that publishes the outcome o, and those before.
PublishingOf(o) == IF o = "succeeded" THEN {"succeededService", "succeededProgress"}
                   ELSE {"failedService", "failedProgress"}
UndecidedPcs == OwningPcs \ PublishingPcs

InProgress(d) == ledger[d].state = "IN_PROGRESS"

\* What the processes take the row of their jobs for.
StageInv ==
  /\ \A d \in Deployments : ledger[d].result = "none" <=> ~Terminal(ledger[d])
  /\ \A p \in Processes :
       /\ \A job \in jobs[p] : InProgress(job.id)
       /\ handler[p].pc = "ack" => InProgress(handler[p].msg.id)
       /\ worker[p].pc \in UndecidedPcs => InProgress(worker[p].job.id)
       /\ \A o \in {"succeeded", "failed"} :
            worker[p].pc \in PublishingOf(o) => ledger[worker[p].job.id].result = o
       /\ handler[p].pc \in StoredPcs =>
            ledger[handler[p].msg.id].result = handler[p].result

\* What BuildStage sees of a row.
SameStage(r, s) == s.state = r.state /\ s.result = r.result /\ s.attempt = r.attempt

LEMMA StageRows ==
  ASSUME NEW r \in StageRecord
  PROVE  /\ SameStage(r, r) /\ SameStage(r, RetryRecorded(r))
         /\ r.state = "IN_PROGRESS" =>
              /\ SameStage(r, Released(r))
              /\ Completed(r).state = "COMPLETED" /\ Completed(r).result = "succeeded"
              /\ Failed(r).state = "FAILED" /\ Failed(r).result = "failed"
              /\ Completed(r).attempt = r.attempt /\ Failed(r).attempt = r.attempt
         /\ Disposition(r) = "ClaimAcquired" =>
              /\ Claimed(r).state = "IN_PROGRESS" /\ Claimed(r).result = r.result
              /\ Claimed(r).attempt = r.attempt + 1 /\ ~Terminal(r)
<1>1. SameStage(r, r) /\ SameStage(r, RetryRecorded(r))
  BY DEF SameStage, RetryRecorded, StageRecord
<1>2. ASSUME r.state = "IN_PROGRESS"
      PROVE  /\ SameStage(r, Released(r))
             /\ Completed(r).state = "COMPLETED" /\ Completed(r).result = "succeeded"
             /\ Failed(r).state = "FAILED" /\ Failed(r).result = "failed"
             /\ Completed(r).attempt = r.attempt /\ Failed(r).attempt = r.attempt
  BY <1>2 DEF SameStage, Released, Completed, Failed, SetState, StageRecord
<1>3. ASSUME Disposition(r) = "ClaimAcquired"
      PROVE  /\ Claimed(r).state = "IN_PROGRESS" /\ Claimed(r).result = r.result
             /\ Claimed(r).attempt = r.attempt + 1 /\ ~Terminal(r)
  <2>1. ~Terminal(r)  BY <1>3 DEF Disposition, Terminal
  <2>2. QED  BY <1>3, <2>1 DEF Claimed, StageRecord
<1>4. QED  BY <1>1, <1>2, <1>3

Outcomes == OutcomeEvents("succeeded") \cup OutcomeEvents("failed")

\* The three kinds of steps of a worker that BuildStage tells apart.
Unseen(p) ==
  LET d == worker[p].job.id IN
  /\ SameStage(ledger[d], ledger'[d])
  /\ \A e \in Deployments : published'[e] \cap Outcomes = published[e] \cap Outcomes
  /\ worker'[p].pc \in UndecidedPcs => worker[p].pc \in UndecidedPcs
  /\ worker'[p].pc \notin PublishingPcs

Decides(p, o) ==
  LET d == worker[p].job.id IN
  /\ worker[p].pc \in UndecidedPcs /\ worker'[p].pc \in PublishingOf(o)
  /\ Terminal(ledger'[d]) /\ ledger'[d].result = o
  /\ ledger'[d].attempt = ledger[d].attempt
  /\ UNCHANGED published

Reports(p, o) ==
  LET d == worker[p].job.id IN
  /\ worker[p].pc \in PublishingOf(o)
  /\ ledger'[d] = ledger[d]
  /\ \E event \in OutcomeEvents(o) : Saying(p, event)
  /\ worker'[p].pc \notin UndecidedPcs
  /\ \A x \in {"succeeded", "failed"} : worker'[p].pc \in PublishingOf(x) => x = o

\* An event of the progress of a build is none of its outcome.
LEMMA ProgressEvents ==
  ASSUME TypeOK, NEW p, NEW event \in {"BUILDING", "BUILD_RETRYING"}, Saying(p, event)
  PROVE  \A e \in Deployments : published'[e] \cap Outcomes = published[e] \cap Outcomes
<1>1. event \notin Outcomes
  BY DEF Outcomes, OutcomeEvents, ServiceEvent, ProgressEvent
<1>2. \A e \in Deployments :
        published'[e] = published[e] \/ published'[e] = published[e] \cup {event}
  BY DEF Saying, TypeOK
<1>3. QED  BY <1>1, <1>2

LEMMA CalmWorker ==
  ASSUME CalmFaults, TypeOK, Linked, StageInv, NEW p \in Processes, Worker(p), ~TakeJob(p)
  PROVE  /\ WorkerFrame(p)
         /\ Unseen(p) \/ \E o \in {"succeeded", "failed"} : Decides(p, o) \/ Reports(p, o)
<1> DEFINE w == worker[p]
           d == w.job.id
           r == ledger[d]
           s == ledger'[d]
<1>1. WorkerFrame(p) /\ (BodySteps(p) \/ FailureSteps(p) \/ RetrySteps(p))
  BY WorkerTable
<1>2. ~PublishErrs(p)
  BY <1>1, FaultCounts DEF WorkerFrame, Linked, PublishErrs, CalmFaults
<1>3. \A t : StatementErrs(r, s, t) => s = r /\ UNCHANGED published
  BY FaultCounts DEF StatementErrs, CalmFaults
<1>4. /\ w # Idle /\ d \in Deployments /\ r \in StageRecord
      /\ w.pc \in UndecidedPcs => r.state = "IN_PROGRESS"
  BY <1>1 DEF WorkerFrame, TypeOK, Job, StageInv, InProgress
<1>5. SameStage(r, r) /\ SameStage(r, RetryRecorded(r))  BY <1>4, StageRows
<1> USE DEF Goes, Fails, Silently
<1>6. CASE BodySteps(p)
  <2>1. CASE \/ Goes(p, "started", "clone", r) /\ Saying(p, "BUILDING")
             \/ Goes(p, "clone", "build", r) /\ Silently
             \/ Fails(p, "clone", "clone", r) /\ Silently
             \/ Goes(p, "build", "complete", r) /\ Silently
             \/ Fails(p, "build", "build", r) /\ Silently
             \/ Goes(p, "complete", "recordRetry", s) /\ StatementErrs(r, s, Completed(r))
    <3>1. /\ s = r
          /\ w.pc \in {"started", "clone", "build", "complete"}
          /\ worker'[p].pc \in {"clone", "build", "fail", "complete", "recordRetry"}
      BY <1>3, <2>1
    <3>2. \A e \in Deployments : published'[e] \cap Outcomes = published[e] \cap Outcomes
      BY <1>3, <2>1, ProgressEvents
    <3>3. Unseen(p)
      BY <1>5, <3>1, <3>2 DEF Unseen, UndecidedPcs, OwningPcs, StagePcs, PublishingPcs
    <3>4. QED  BY <1>1, <3>3
  <2>2. CASE Goes(p, "complete", "succeededService", Completed(r)) /\ Silently
    <3>1. w.pc \in UndecidedPcs
      BY <2>2 DEF UndecidedPcs, OwningPcs, StagePcs, PublishingPcs
    <3>2. /\ s.state = "COMPLETED" /\ s.result = "succeeded" /\ s.attempt = r.attempt
      BY <1>4, <2>2, <3>1, StageRows
    <3>3. Decides(p, "succeeded")
      BY <2>2, <3>1, <3>2 DEF Decides, PublishingOf, Terminal
    <3>4. QED  BY <1>1, <3>3
  <2>3. CASE \/ /\ Goes(p, "succeededService", "succeededProgress", r)
                /\ Saying(p, ServiceEvent("succeeded"))
             \/ /\ Goes(p, "succeededProgress", "idle", r)
                /\ Saying(p, ProgressEvent("succeeded"))
    <3>1. Reports(p, "succeeded")
      BY <2>3 DEF Reports, PublishingOf, OutcomeEvents, UndecidedPcs, OwningPcs, StagePcs,
                  PublishingPcs
    <3>2. QED  BY <1>1, <3>1
  <2>4. QED  BY <1>2, <1>6, <2>1, <2>2, <2>3 DEF BodySteps
<1>7. CASE FailureSteps(p)
  <2>1. AfterFailureError(p) \in {"recordRetry", "idle"}  BY DEF AfterFailureError
  <2>2. CASE Goes(p, "fail", "failedService", Failed(r)) /\ Silently
    <3>1. w.pc \in UndecidedPcs
      BY <2>2 DEF UndecidedPcs, OwningPcs, StagePcs, PublishingPcs
    <3>2. /\ s.state = "FAILED" /\ s.result = "failed" /\ s.attempt = r.attempt
      BY <1>4, <2>2, <3>1, StageRows
    <3>3. Decides(p, "failed")
      BY <2>2, <3>1, <3>2 DEF Decides, PublishingOf, Terminal
    <3>4. QED  BY <1>1, <3>3
  <2>3. CASE Goes(p, "fail", AfterFailureError(p), s) /\ StatementErrs(r, s, Failed(r))
    <3>1. s = r /\ UNCHANGED published  BY <1>3, <2>3
    <3>2. Unseen(p)
      BY <1>5, <2>1, <2>3, <3>1
      DEF Unseen, UndecidedPcs, OwningPcs, StagePcs, PublishingPcs
    <3>3. QED  BY <1>1, <3>2
  <2>4. CASE \/ Goes(p, "failedService", "failedProgress", r) /\ Saying(p, ServiceEvent("failed"))
             \/ /\ \E done \in {"deadLetter", "idle"} : Goes(p, "failedProgress", done, r)
                /\ Saying(p, ProgressEvent("failed"))
    <3>1. Reports(p, "failed")
      BY <2>4 DEF Reports, PublishingOf, OutcomeEvents, UndecidedPcs, OwningPcs, StagePcs,
                  PublishingPcs
    <3>2. QED  BY <1>1, <3>1
  <2>5. QED  BY <1>2, <1>7, <2>2, <2>3, <2>4 DEF FailureSteps
<1>8. CASE RetrySteps(p)
  <2>1. SameStage(r, s)
    <3>1. CASE w.pc = "release"
      <4>1. SameStage(r, Released(r))
        BY <1>4, <3>1, StageRows DEF UndecidedPcs, OwningPcs, StagePcs, PublishingPcs
      <4>2. s = r \/ s = Released(r)  BY <1>3, <1>8, <3>1 DEF RetrySteps
      <4>3. QED  BY <1>5, <4>1, <4>2
    <3>2. CASE w.pc # "release"
      <4>1. s = r \/ s = RetryRecorded(r)  BY <1>3, <1>8, <3>2 DEF RetrySteps
      <4>2. QED  BY <1>5, <4>1
    <3>3. QED  BY <3>1, <3>2
  <2>2. \A e \in Deployments : published'[e] \cap Outcomes = published[e] \cap Outcomes
    BY <1>2, <1>3, <1>8, ProgressEvents DEF RetrySteps
  <2>3. /\ worker'[p].pc \in {"fail", "retrying", "release"} =>
             w.pc \in {"recordRetry", "retrying"}
        /\ worker'[p].pc \in {"fail", "retrying", "release", "idle", "requeue",
                              "requeueOnChannel"}
    BY <1>8 DEF RetrySteps
  <2>4. Unseen(p)
    BY <2>1, <2>2, <2>3 DEF Unseen, UndecidedPcs, OwningPcs, StagePcs, PublishingPcs
  <2>5. QED  BY <1>1, <2>4
<1>9. QED  BY <1>1, <1>6, <1>7, <1>8

\* Nobody else holds a job of the deployment a worker owns.
LEMMA NoOther ==
  ASSUME OwnerInv, NEW p \in Processes, worker[p].pc \in OwningPcs
  PROVE  \A q \in Processes :
           /\ \A job \in jobs[q] : job.id # worker[p].job.id
           /\ handler[q].pc = "ack" => handler[q].msg.id # worker[p].job.id
           /\ worker[q].pc \in OwningPcs /\ q # p => worker[q].job.id # worker[p].job.id
<1> DEFINE g == [place |-> "worker", job |-> worker[p].job]
<1>1. g \in Holdings(p)  BY DEF Holdings
<1>2. \A q \in Processes : \A h \in Holdings(q) :
        h.job.id = worker[p].job.id => q = p /\ h = g
  BY <1>1 DEF OwnerInv, DisjointHoldings
<1>3. ASSUME NEW q \in Processes, NEW job \in jobs[q]  PROVE job.id # worker[p].job.id
  <2>1. [place |-> "waiting", job |-> job] \in Holdings(q)  BY DEF Holdings
  <2>2. QED  BY <1>2, <2>1
<1>4. ASSUME NEW q \in Processes, handler[q].pc = "ack"
      PROVE  handler[q].msg.id # worker[p].job.id
  <2>1. [place |-> "handler", job |-> AckedJob(q)] \in Holdings(q)  BY <1>4 DEF Holdings
  <2>2. QED  BY <1>2, <2>1 DEF AckedJob
<1>5. ASSUME NEW q \in Processes, worker[q].pc \in OwningPcs, q # p
      PROVE  worker[q].job.id # worker[p].job.id
  <2>1. [place |-> "worker", job |-> worker[q].job] \in Holdings(q)  BY <1>5 DEF Holdings
  <2>2. QED  BY <1>2, <1>5, <2>1
<1>6. QED  BY <1>3, <1>4, <1>5

\* A row that is claimed, or of which BuildStage sees no change.
StaysTrue(r, s) ==
  /\ s.result = r.result /\ (Terminal(s) <=> Terminal(r))
  /\ r.state = "IN_PROGRESS" => s.state = "IN_PROGRESS"

\* Such rows keep the invariant; it is enough to look at what the processes come
\* to rely on.
LEMMA StageKept ==
  ASSUME StageInv,
         \A d \in Deployments : StaysTrue(ledger[d], ledger'[d]),
         NEW p \in Processes,
         \A q \in Processes \ {p} :
           worker'[q] = worker[q] /\ handler'[q] = handler[q] /\ jobs'[q] = jobs[q],
         TypeOK, TypeOK',
         \A job \in jobs'[p] : job \in jobs[p] \/ InProgress(job.id),
         handler'[p].pc = "ack" =>
           handler'[p] = handler[p] \/ ledger'[handler'[p].msg.id].state = "IN_PROGRESS",
         worker'[p].pc \in UndecidedPcs => InProgress(worker'[p].job.id),
         \A o \in {"succeeded", "failed"} :
           worker'[p].pc \in PublishingOf(o) => ledger[worker'[p].job.id].result = o,
         handler'[p].pc \in StoredPcs =>
           ledger[handler'[p].msg.id].result = handler'[p].result
  PROVE  StageInv'
<1>1. \A q \in Processes :
        /\ \A job \in jobs'[q] : job.id \in Deployments
        /\ handler'[q].pc \in StoredPcs \cup {"ack"} => handler'[q].msg.id \in Deployments
        /\ worker'[q].pc \in OwningPcs => worker'[q].job.id \in Deployments
  <2>1. TypeOK'  OBVIOUS
  <2>2. \A q \in Processes : handler'[q] \in HandlerState /\ worker'[q] \in WorkerState
    BY <2>1 DEF TypeOK
  <2>3. "idle" \notin OwningPcs  BY DEF OwningPcs, StagePcs
  <2>4. QED  BY <2>1, <2>2, <2>3, HandlerFields, WorkerFields
             DEF TypeOK, Job, Request, StoredPcs
<1>2. \A d \in Deployments : ledger'[d].result = "none" <=> ~Terminal(ledger'[d])
  BY DEF StageInv, StaysTrue
<1>3. ASSUME NEW q \in Processes
      PROVE  /\ \A job \in jobs'[q] : InProgress(job.id)
             /\ handler'[q].pc = "ack" =>
                  \/ InProgress(handler'[q].msg.id)
                  \/ ledger'[handler'[q].msg.id].state = "IN_PROGRESS"
             /\ worker'[q].pc \in UndecidedPcs => InProgress(worker'[q].job.id)
             /\ \A o \in {"succeeded", "failed"} :
                  worker'[q].pc \in PublishingOf(o) => ledger[worker'[q].job.id].result = o
             /\ handler'[q].pc \in StoredPcs =>
                  ledger[handler'[q].msg.id].result = handler'[q].result
  BY DEF StageInv
<1>4. \A o \in {"succeeded", "failed"} : PublishingOf(o) \subseteq OwningPcs
  BY DEF PublishingOf, OwningPcs, StagePcs
<1>5. UndecidedPcs \subseteq OwningPcs  BY DEF UndecidedPcs
<1>6. QED  BY <1>1, <1>2, <1>3, <1>4, <1>5 DEF StageInv, StaysTrue, InProgress

LEMMA CalmWorkerKeeps ==
  ASSUME CalmFaults, OwnerInv, TypeOK', Linked, StageInv,
         NEW p \in Processes, Worker(p), ~TakeJob(p)
  PROVE  StageInv'
<1> DEFINE w == worker[p]
           d == w.job.id
           r == ledger[d]
           s == ledger'[d]
<1>1. TypeOK /\ TypeOK'  BY DEF OwnerInv, TypeInv
<1>2. /\ WorkerFrame(p)
      /\ Unseen(p) \/ \E o \in {"succeeded", "failed"} : Decides(p, o) \/ Reports(p, o)
  BY <1>1, CalmWorker
<1>3. /\ w # Idle /\ d \in Deployments
      /\ UNCHANGED <<handler, jobs>>
      /\ \A q \in Processes \ {p} : worker'[q] = worker[q]
      /\ \A e \in Deployments \ {d} : ledger'[e] = ledger[e]
      /\ worker'[p].pc # "idle" => worker'[p].job = w.job
  BY <1>2 DEF WorkerFrame, Job
<1>4. "idle" \notin OwningPcs  BY DEF OwningPcs, StagePcs
<1>5. \A o \in {"succeeded", "failed"} :
        PublishingOf(o) \subseteq OwningPcs /\ PublishingOf(o) \subseteq PublishingPcs
  BY DEF PublishingOf, OwningPcs, StagePcs, PublishingPcs
<1>6. UndecidedPcs \subseteq OwningPcs /\ PublishingPcs \cap UndecidedPcs = {}
  BY DEF UndecidedPcs
<1>7. CASE Unseen(p)
  <2>1. \A e \in Deployments : StaysTrue(ledger[e], ledger'[e])
    BY <1>3, <1>7 DEF Unseen, SameStage, StaysTrue, Terminal
  <2>2. /\ worker'[p].pc \in UndecidedPcs => InProgress(worker'[p].job.id)
        /\ \A o \in {"succeeded", "failed"} : worker'[p].pc \notin PublishingOf(o)
    BY <1>3, <1>4, <1>5, <1>6, <1>7 DEF Unseen, StageInv
  <2>3. QED  BY <1>1, <1>3, <2>1, <2>2, StageKept DEF StageInv
<1>8. ASSUME NEW o \in {"succeeded", "failed"}, Reports(p, o)  PROVE StageInv'
  <2>1. \A e \in Deployments : StaysTrue(ledger[e], ledger'[e])
    BY <1>3, <1>8 DEF Reports, StaysTrue
  <2>2. /\ worker'[p].pc \notin UndecidedPcs
        /\ \A x \in {"succeeded", "failed"} :
             worker'[p].pc \in PublishingOf(x) => ledger[worker'[p].job.id].result = x
    BY <1>3, <1>4, <1>5, <1>8 DEF Reports, StageInv
  <2>3. QED  BY <1>1, <1>3, <2>1, <2>2, StageKept DEF StageInv
<1>9. ASSUME NEW o \in {"succeeded", "failed"}, Decides(p, o)  PROVE StageInv'
  <2>1. /\ w.pc \in UndecidedPcs /\ worker'[p].pc \in PublishingOf(o)
        /\ Terminal(s) /\ s.result = o
    BY <1>9 DEF Decides
  <2>2. \A q \in Processes :
          /\ \A job \in jobs[q] : job.id # d
          /\ handler[q].pc = "ack" => handler[q].msg.id # d
          /\ worker[q].pc \in OwningPcs /\ q # p => worker[q].job.id # d
    BY <1>6, <2>1, NoOther
  <2>3. r.result = "none"
    BY <1>3, <2>1 DEF StageInv, InProgress, Terminal
  <2>4. \A q \in Processes : handler[q].pc \in StoredPcs => handler[q].msg.id # d
    <3>1. \A q \in Processes : handler[q].pc \in StoredPcs => handler[q].result # "none"
      BY <1>1, HandlerFields DEF TypeOK, StoredPcs
    <3>2. QED  BY <2>3, <3>1 DEF StageInv
  <2>5. \A e \in Deployments : ledger'[e].result = "none" <=> ~Terminal(ledger'[e])
    BY <1>3, <2>1 DEF StageInv
  <2>6. \A q \in Processes :
          /\ \A job \in jobs[q] : job.id \in Deployments
          /\ handler[q].pc \in StoredPcs \cup {"ack"} => handler[q].msg.id \in Deployments
          /\ worker[q].pc \in OwningPcs => worker[q].job.id \in Deployments
    BY <1>1, <1>4, HandlerFields, WorkerFields DEF TypeOK, Job, Request, StoredPcs
  <2>7. \A x \in {"succeeded", "failed"} : worker'[p].pc \in PublishingOf(x) => x = o
    BY <2>1 DEF PublishingOf
  <2>8. worker'[p].pc \notin UndecidedPcs /\ worker'[p].job.id = d
    BY <1>3, <1>4, <1>5, <1>6, <2>1
  <2>9. \A q \in Processes :
          /\ \A job \in jobs'[q] : ledger'[job.id].state = "IN_PROGRESS"
          /\ handler'[q].pc = "ack" => ledger'[handler'[q].msg.id].state = "IN_PROGRESS"
          /\ handler'[q].pc \in StoredPcs =>
               ledger'[handler'[q].msg.id].result = handler'[q].result
    <3>1. \A q \in Processes :
            /\ \A job \in jobs[q] : InProgress(job.id)
            /\ handler[q].pc = "ack" => InProgress(handler[q].msg.id)
            /\ handler[q].pc \in StoredPcs =>
                 ledger[handler[q].msg.id].result = handler[q].result
      BY DEF StageInv
    <3>2. \A e \in Deployments \ {d} : InProgress(e) => ledger'[e].state = "IN_PROGRESS"
      BY <1>3 DEF InProgress
    <3>3. QED  BY <1>3, <2>2, <2>4, <2>6, <3>1, <3>2
  <2>10. \A q \in Processes :
          /\ worker'[q].pc \in UndecidedPcs => ledger'[worker'[q].job.id].state = "IN_PROGRESS"
          /\ \A x \in {"succeeded", "failed"} :
               worker'[q].pc \in PublishingOf(x) => ledger'[worker'[q].job.id].result = x
    <3>1. TAKE q \in Processes
    <3>2. CASE q = p  BY <2>1, <2>7, <2>8, <3>2
    <3>3. CASE q # p
      BY <1>3, <1>5, <1>6, <2>2, <2>6, <3>3 DEF StageInv, InProgress
    <3>4. QED  BY <3>2, <3>3
  <2>11. QED  BY <2>5, <2>9, <2>10 DEF StageInv, InProgress
<1>10. QED  BY <1>2, <1>7, <1>8, <1>9

\* The handler of p acts as BuildStage sees it: it acquires a claim, sends an
\* event of a stored outcome, or nothing.
HandlerAcquires(p) ==
  LET d == handler[p].msg.id IN
  /\ Handles(p, "claim", "ack")
  /\ Disposition(ledger[d]) = "ClaimAcquired" /\ ledger'[d] = Claimed(ledger[d])
  /\ handler'[p].claim = ledger'[d].attempt
  /\ UNCHANGED <<jobs, published>>

HandlerReports(p) ==
  /\ UNCHANGED <<ledger, jobs>> /\ AnswersStored(p)

HandlerUnseen(p) ==
  /\ UNCHANGED <<ledger, published>>
  /\ \/ UNCHANGED jobs
     \/ handler[p].pc = "ack" /\ jobs'[p] = jobs[p] \cup {AckedJob(p)}
  /\ handler'[p].pc = "ack" => UNCHANGED handler
  /\ handler'[p].pc \in StoredPcs =>
       \/ UNCHANGED handler
       \/ handler'[p].result = ledger[handler'[p].msg.id].result

LEMMA CalmHandler ==
  ASSUME CalmFaults, TypeOK, TypeOK', Linked, NEW p \in Processes, Handler(p)
  PROVE  /\ HandlerFrame(p)
         /\ HandlerAcquires(p) \/ HandlerReports(p) \/ HandlerUnseen(p)
<1> DEFINE h == handler[p]
           d == h.msg.id
<1>1. HandlerFrame(p) /\ (ClaimSteps(p) \/ DeliverySteps(p))
  BY HandlerTable
<1>2. "connection" \notin faults'.kinds
  <2>1. TypeOK'  OBVIOUS
  <2>2. QED  BY <2>1 DEF CalmFaults, TypeOK, FaultHistory
<1>3. ASSUME NEW t, StatementErrs(ledger[d], ledger'[d], t)
      PROVE  ledger'[d] = ledger[d] /\ UNCHANGED published
  BY <1>3, FaultCounts DEF StatementErrs, CalmFaults
<1>4. h.pc = "claim" /\ ledger'[d] = ledger[d] => UNCHANGED ledger
  <2>1. TypeOK'  OBVIOUS
  <2>2. QED  BY <1>1, <2>1 DEF HandlerFrame, TypeOK
<1>5. ~PublishErrs(p) \/ h = Idle
  <2>1. ~Fault("publish")  BY FaultCounts DEF CalmFaults
  <2>2. connected[p] \/ h = Idle  BY DEF Linked
  <2>3. QED  BY <2>1, <2>2 DEF PublishErrs
<1>6. CASE ClaimSteps(p)
  <2>1. h.pc = "claim" /\ UNCHANGED jobs
    BY <1>1, <1>6 DEF ClaimSteps, Returns, Handles, HandlerFrame
  <2>2. CASE \/ Returns(p, "claim") /\ StatementErrs(ledger[d], ledger'[d], Claimed(ledger[d]))
             \/ Returns(p, "claim") /\ UNCHANGED ledger /\ Silently
    <3>1. UNCHANGED <<ledger, published>> /\ handler'[p].pc = "idle"
      BY <1>3, <1>4, <2>1, <2>2 DEF Returns, Handles, Silently, Idle
    <3>2. HandlerUnseen(p)  BY <2>1, <3>1 DEF HandlerUnseen, StoredPcs
    <3>3. QED  BY <1>1, <3>2
  <2>3. CASE /\ Handles(p, "claim", "storedService")
             /\ handler'[p].result = ledger[d].result
             /\ UNCHANGED <<ledger, queue>> /\ Silently
    <3>1. HandlerUnseen(p)  BY <2>1, <2>3 DEF HandlerUnseen, Handles, Silently
    <3>2. QED  BY <1>1, <3>1
  <2>4. CASE /\ Handles(p, "claim", "ack") /\ Disposition(ledger[d]) = "ClaimAcquired"
             /\ ledger'[d] = Claimed(ledger[d]) /\ handler'[p].claim = ledger'[d].attempt
             /\ Silently
    <3>1. HandlerAcquires(p)  BY <2>1, <2>4 DEF HandlerAcquires, Silently
    <3>2. QED  BY <1>1, <3>1
  <2>5. QED  BY <1>6, <2>2, <2>3, <2>4 DEF ClaimSteps
<1>7. CASE DeliverySteps(p)
  <2>1. CASE UNCHANGED <<handler, jobs, queue, ledger>> /\ Silently
    BY <1>1, <2>1 DEF HandlerUnseen, Silently
  <2>2. CASE /\ h = Idle
             /\ handler'[p].pc \in {"processDelivery", "claim"}
             /\ UNCHANGED ledger /\ Silently
    <3>1. HandlerUnseen(p)
      BY <1>1, <2>2 DEF HandlerUnseen, Silently, HandlerFrame, Idle, StoredPcs
    <3>2. QED  BY <1>1, <3>1
  <2>3. CASE AnswersStored(p)
    <3>1. HandlerReports(p)
      BY <1>1, <2>3 DEF HandlerReports, AnswersStored, Handles, HandlerFrame
    <3>2. QED  BY <1>1, <3>1
  <2>4. CASE /\ Returns(p, "storedService") \/ Returns(p, "storedProgress")
             /\ UNCHANGED ledger /\ PublishErrs(p)
    BY <1>5, <2>4 DEF Returns, Handles
  <2>5. CASE Accepts(p)
    <3>1. HandlerUnseen(p)
      BY <1>2, <2>5 DEF HandlerUnseen, Accepts, Handles, Idle, StoredPcs
    <3>2. QED  BY <1>1, <3>1
  <2>6. CASE /\ Handles(p, "processDelivery", "settle") \/ Handles(p, "settle", "idle")
             /\ UNCHANGED <<ledger, queue, published>>
    <3>1. HandlerUnseen(p)
      BY <1>1, <2>6 DEF HandlerUnseen, Handles, HandlerFrame, Idle, StoredPcs
    <3>2. QED  BY <1>1, <3>1
  <2>7. QED  BY <1>7, <2>1, <2>2, <2>3, <2>4, <2>5, <2>6 DEF DeliverySteps
<1>8. QED  BY <1>1, <1>6, <1>7

\* A step of a handler keeps the invariant.
LEMMA CalmHandlerKeeps ==
  ASSUME CalmFaults, TypeOK, TypeOK', Linked, StageInv, NEW p \in Processes, Handler(p)
  PROVE  StageInv'
<1> DEFINE h == handler[p]
           d == h.msg.id
<1>1. /\ HandlerFrame(p)
      /\ HandlerAcquires(p) \/ HandlerReports(p) \/ HandlerUnseen(p)
  BY CalmHandler
<1>2. /\ UNCHANGED worker
      /\ \A q \in Processes \ {p} :
           worker'[q] = worker[q] /\ handler'[q] = handler[q] /\ jobs'[q] = jobs[q]
      /\ \A e \in Deployments : ledger'[e] = ledger[e] \/ (h.pc = "claim" /\ e = d)
      /\ h.pc \in {"claim", "ack", "storedService", "storedProgress"} => d \in Deployments
  BY <1>1 DEF HandlerFrame
<1>3. /\ worker[p].pc \in UndecidedPcs => InProgress(worker[p].job.id)
      /\ \A o \in {"succeeded", "failed"} :
           worker[p].pc \in PublishingOf(o) => ledger[worker[p].job.id].result = o
      /\ handler[p].pc \in StoredPcs =>
           ledger[handler[p].msg.id].result = handler[p].result
      /\ h.pc = "ack" => InProgress(d)
  BY DEF StageInv
<1>4. \A e \in Deployments : StaysTrue(ledger[e], ledger[e])  BY DEF StaysTrue
<1>5. CASE HandlerAcquires(p)
  <2>1. /\ h.pc = "claim" /\ ledger'[d] = Claimed(ledger[d])
        /\ Disposition(ledger[d]) = "ClaimAcquired"
        /\ handler'[p].pc = "ack" /\ handler'[p].msg.id = d /\ UNCHANGED jobs
    BY <1>5 DEF HandlerAcquires, Handles
  <2>2. /\ ledger'[d].state = "IN_PROGRESS" /\ ledger'[d].result = ledger[d].result
        /\ ~Terminal(ledger[d])
    BY <1>2, <2>1, StageRows DEF TypeOK
  <2>3. \A e \in Deployments : StaysTrue(ledger[e], ledger'[e])
    BY <1>2, <1>4, <2>2 DEF StaysTrue, Terminal
  <2>4. QED  BY <1>2, <1>3, <2>1, <2>2, <2>3, StageKept DEF StoredPcs
<1>6. CASE HandlerReports(p)
  <2>1. /\ UNCHANGED <<ledger, jobs>> /\ h.pc \in StoredPcs
        /\ handler'[p].pc \in {"storedProgress", "settle"} /\ handler'[p].msg = h.msg
        /\ handler'[p].pc = "storedProgress" => handler'[p].result = h.result
    BY <1>6 DEF HandlerReports, AnswersStored, Handles, StoredPcs
  <2>2. \A e \in Deployments : StaysTrue(ledger[e], ledger'[e])  BY <1>4, <2>1
  <2>3. QED  BY <1>2, <1>3, <2>1, <2>2, StageKept DEF StoredPcs
<1>7. CASE HandlerUnseen(p)
  <2>1. \A e \in Deployments : StaysTrue(ledger[e], ledger'[e])
    BY <1>4, <1>7 DEF HandlerUnseen
  <2>2. \A job \in jobs'[p] : job \in jobs[p] \/ InProgress(job.id)
    BY <1>3, <1>7 DEF HandlerUnseen, AckedJob
  <2>3. QED  BY <1>2, <1>3, <1>7, <2>1, <2>2, StageKept DEF HandlerUnseen
<1>8. QED  BY <1>1, <1>5, <1>6, <1>7

\* As long as only statements that do nothing and crashes fail, the invariant
\* is kept.
LEMMA StageInvNext ==
  ASSUME CalmFaults, OwnerInv, TypeOK', Linked, StageInv, [Next]_vars
  PROVE  StageInv'
<1>1. TypeOK  BY DEF OwnerInv, TypeInv
<1>2. \A d \in Deployments : StaysTrue(ledger[d], ledger[d])  BY DEF StaysTrue
<1>3. ASSUME NEW p \in Processes, TakeJob(p)  PROVE StageInv'
  <2>1. /\ UNCHANGED <<handler, ledger>>
        /\ \A q \in Processes \ {p} : worker'[q] = worker[q] /\ jobs'[q] = jobs[q]
        /\ jobs'[p] \subseteq jobs[p]
        /\ worker'[p].job \in jobs[p] /\ worker'[p].pc = "started"
    BY <1>1, <1>3, TakeJobTable
  <2>2. InProgress(worker'[p].job.id)  BY <2>1 DEF StageInv
  <2>3. QED  BY <1>1, <1>2, <2>1, <2>2, StageKept DEF PublishingOf, StageInv
<1>4. ASSUME NEW p \in Processes, Drops(p)  PROVE StageInv'
  <2>1. /\ UNCHANGED ledger
        /\ \A q \in Processes \ {p} :
             worker'[q] = worker[q] /\ handler'[q] = handler[q] /\ jobs'[q] = jobs[q]
        /\ jobs'[p] \subseteq jobs[p]
        /\ worker'[p] = worker[p] \/ worker'[p] = Idle
        /\ handler'[p] = handler[p] \/ handler'[p] = Idle
    BY <1>1, <1>4 DEF Drops, TypeOK
  <2>2. Idle.pc \notin OwningPcs \cup StoredPcs \cup {"ack"}
    BY DEF Idle, OwningPcs, StagePcs, StoredPcs
  <2>3. \A o \in {"succeeded", "failed"} : PublishingOf(o) \subseteq OwningPcs
    BY DEF PublishingOf, OwningPcs, StagePcs
  <2>4. QED
    BY <1>1, <1>2, <2>1, <2>2, <2>3, StageKept DEF UndecidedPcs, StageInv
<1>5. CASE Elapses
  <2>1. \A d \in Deployments : StaysTrue(ledger[d], ledger'[d])
    BY <1>5 DEF Elapses, SameButLease, StaysTrue, Terminal
  <2>2. CASE Processes = {}
    BY <2>1, <2>2 DEF StageInv, StaysTrue
  <2>3. CASE Processes # {}
    <3>1. PICK p \in Processes : TRUE  BY <2>3
    <3>2. UNCHANGED <<handler, jobs, worker>>  BY <1>5 DEF Elapses
    <3>3. QED  BY <1>1, <2>1, <3>2, StageKept DEF StageInv
  <2>4. QED  BY <2>2, <2>3
<1>6. QED
  BY <1>1, <1>3, <1>4, <1>5, CalmHandlerKeeps, CalmWorkerKeeps, EnvironmentTable DEF Next

-----------------------------------------------------------------------------
(* The refinement of BuildStage *)

\* What the refinement mapping makes of the holdings.
Owners(d) ==
  UNION {{h.job.claim : h \in {g \in Holdings(p) : g.job.id = d}} : p \in Processes}

LEMMA OwnersAre ==
  ASSUME NEW d, NEW c
  PROVE  c \in Owners(d) <=>
           \E p \in Processes : \E h \in Holdings(p) : h.job.id = d /\ h.job.claim = c
BY DEF Owners

\* No process has a job it did not have; some process gives up a job of d.
JobsShrink ==
  \A p \in Processes : \A h \in Holdings(p)' : \E g \in Holdings(p) : g.job = h.job
GivesUp(d) ==
  \E p \in Processes : \E g \in Holdings(p) :
    g.job.id = d /\ \A h \in Holdings(p)' : h.job # g.job

\* The owner of a stage is then gone or as it was.
LEMMA OwnersShrink ==
  ASSUME DisjointHoldings, JobsShrink, NEW d
  PROVE  Owners(d)' = IF GivesUp(d) THEN {} ELSE Owners(d)
<1>1. \A c : c \in Owners(d)' <=>
        \E p \in Processes : \E h \in Holdings(p)' : h.job.id = d /\ h.job.claim = c
  BY DEF Owners
<1>2. CASE GivesUp(d)
  <2>0. PICK p \in Processes : \E g \in Holdings(p) :
          g.job.id = d /\ \A h \in Holdings(p)' : h.job # g.job
    BY <1>2 DEF GivesUp
  <2>1. PICK g \in Holdings(p) : g.job.id = d /\ \A h \in Holdings(p)' : h.job # g.job
    BY <2>0
  <2>2. ASSUME NEW q \in Processes, NEW h \in Holdings(q)', h.job.id = d  PROVE FALSE
    <3>1. PICK f \in Holdings(q) : f.job = h.job  BY DEF JobsShrink
    <3>2. q = p /\ f = g  BY <2>1, <2>2, <3>1 DEF DisjointHoldings
    <3>3. QED  BY <2>1, <3>1, <3>2
  <2>3. QED  BY <1>1, <1>2, <2>2
<1>3. CASE ~GivesUp(d)
  <2>1. \A c : c \in Owners(d) => c \in Owners(d)'
    BY <1>1, <1>3, OwnersAre DEF GivesUp
  <2>2. \A c : c \in Owners(d)' => c \in Owners(d)
    BY <1>1, OwnersAre DEF JobsShrink
  <2>3. QED  BY <1>3, <2>1, <2>2
<1>4. QED  BY <1>2, <1>3

\* A job comes to its process only by a claim.
LEMMA ShrinkingJobs ==
  ASSUME NEW p \in Processes,
         \A q \in Processes \ {p} :
           worker'[q] = worker[q] /\ handler'[q] = handler[q] /\ jobs'[q] = jobs[q],
         \A job \in jobs'[p] : job \in jobs[p] \/ (handler[p].pc = "ack" /\ job = AckedJob(p)),
         handler'[p].pc = "ack" => handler'[p] = handler[p],
         worker'[p].pc \in OwningPcs =>
           \/ worker[p].pc \in OwningPcs /\ worker'[p].job = worker[p].job
           \/ worker'[p].job \in jobs[p]
  PROVE  JobsShrink
<1>1. \A q \in Processes \ {p} : Holdings(q)' \subseteq Holdings(q)
  BY HoldingsShrink
<1>2. ASSUME NEW h \in Holdings(p)'  PROVE \E g \in Holdings(p) : g.job = h.job
  <2>1. \A job \in jobs[p] : [place |-> "waiting", job |-> job] \in Holdings(p)
    BY DEF Holdings
  <2>2. handler[p].pc = "ack" => [place |-> "handler", job |-> AckedJob(p)] \in Holdings(p)
    BY DEF Holdings
  <2>3. worker[p].pc \in OwningPcs =>
          [place |-> "worker", job |-> worker[p].job] \in Holdings(p)
    BY DEF Holdings
  <2>4. \/ \E job \in jobs'[p] : h = [place |-> "waiting", job |-> job]
        \/ handler'[p].pc = "ack" /\ h = [place |-> "handler", job |-> AckedJob(p)']
        \/ worker'[p].pc \in OwningPcs /\ h = [place |-> "worker", job |-> worker'[p].job]
    BY DEF Holdings
  <2>5. handler'[p].pc = "ack" => handler[p].pc = "ack" /\ AckedJob(p)' = AckedJob(p)
    BY DEF AckedJob
  <2>6. ASSUME NEW job \in jobs'[p], h = [place |-> "waiting", job |-> job]
        PROVE  \E g \in Holdings(p) : g.job = h.job
    <3>1. h.job = job  BY <2>6
    <3>2. job \in jobs[p] \/ (handler[p].pc = "ack" /\ job = AckedJob(p))  BY <2>6
    <3>3. QED  BY <2>1, <2>2, <3>1, <3>2
  <2>7. CASE handler'[p].pc = "ack" /\ h = [place |-> "handler", job |-> AckedJob(p)']
    <3>1. h.job = AckedJob(p)  BY <2>5, <2>7
    <3>2. QED  BY <2>2, <2>5, <2>7, <3>1
  <2>8. CASE worker'[p].pc \in OwningPcs /\ h = [place |-> "worker", job |-> worker'[p].job]
    <3>1. h.job = worker'[p].job  BY <2>8
    <3>2. QED  BY <2>1, <2>3, <2>8, <3>1
  <2>9. QED  BY <2>4, <2>6, <2>7, <2>8
<1>3. QED  BY <1>1, <1>2 DEF JobsShrink

\* What each step of BuildStage comes from.
Reported(d) == published[d] \cap Outcomes

LEMMA MapsToRelinquish ==
  ASSUME \A d \in Deployments :
           /\ ledger'[d].attempt = ledger[d].attempt /\ ledger'[d].result = ledger[d].result
           /\ Reported(d)' = Reported(d)
           /\ Owners(d)' = IF GivesUp(d) THEN {} ELSE Owners(d)
  PROVE  Stage!Relinquish
<1> DEFINE D == {d \in Deployments : GivesUp(d)}
<1>1. D \in SUBSET Deployments  OBVIOUS
<1>2. \A d \in Deployments : Owners(d)' = IF d \in D THEN {} ELSE Owners(d)  OBVIOUS
<1> HIDE DEF D
<1>3. QED  BY <1>1, <1>2 DEF Stage!Relinquish, Owners, Reported, Outcomes

LEMMA MapsToAcquire ==
  ASSUME NEW d \in Deployments, Owners(d) = {}, ledger[d].result = "none",
         ledger'[d].attempt = ledger[d].attempt + 1,
         Owners(d)' = {ledger[d].attempt + 1},
         \A e \in Deployments \ {d} :
           ledger'[e].attempt = ledger[e].attempt /\ Owners(e)' = Owners(e),
         \A e \in Deployments :
           ledger'[e].result = ledger[e].result /\ Reported(e)' = Reported(e)
  PROVE  Stage!Acquire(d)
<1> DEFINE owners == [e \in Deployments |-> Owners(e)]
           reported == [e \in Deployments |-> Reported(e)]
           claims == [e \in Deployments |-> ledger[e].attempt]
           outcome == [e \in Deployments |-> ledger[e].result]
<1>1. claims' = [claims EXCEPT ![d] = @ + 1] /\ claims[d] = ledger[d].attempt  OBVIOUS
<1>2. owners' = [owners EXCEPT ![d] = {ledger[d].attempt + 1}] /\ owners[d] = {}  OBVIOUS
<1>3. outcome' = outcome /\ reported' = reported /\ outcome[d] = "none"  OBVIOUS
<1>4. QED  BY <1>1, <1>2, <1>3 DEF Stage!Acquire, Owners, Reported, Outcomes

LEMMA MapsToDecide ==
  ASSUME NEW d \in Deployments, NEW o \in {"succeeded", "failed"},
         Owners(d) # {}, ledger[d].result = "none", ledger'[d].result = o,
         \A e \in Deployments \ {d} : ledger'[e].result = ledger[e].result,
         \A e \in Deployments :
           /\ ledger'[e].attempt = ledger[e].attempt /\ Reported(e)' = Reported(e)
           /\ Owners(e)' = Owners(e)
  PROVE  Stage!Decide(d)
BY DEF Stage!Decide, Owners, Reported, Outcomes

LEMMA MapsToReport ==
  ASSUME NEW d \in Deployments, ledger[d].result \in {"succeeded", "failed"},
         NEW event \in OutcomeEvents(ledger[d].result),
         Reported(d)' = Reported(d) \cup {event},
         Owners(d)' \in {{}, Owners(d)},
         \A e \in Deployments \ {d} :
           Reported(e)' = Reported(e) /\ Owners(e)' = Owners(e),
         \A e \in Deployments :
           ledger'[e].attempt = ledger[e].attempt /\ ledger'[e].result = ledger[e].result
  PROVE  Stage!Report(d)
<1>1. \A e \in Deployments : Owners(e)' = IF e = d THEN Owners(d)' ELSE Owners(e)
  OBVIOUS
<1>2. \A e \in Deployments :
        Reported(e)' = IF e = d THEN Reported(d) \cup {event} ELSE Reported(e)
  OBVIOUS
<1> DEFINE owners == [e \in Deployments |-> Owners(e)]
           reported == [e \in Deployments |-> Reported(e)]
           claims == [e \in Deployments |-> ledger[e].attempt]
           outcome == [e \in Deployments |-> ledger[e].result]
<1>3. owners' = owners \/ owners' = [owners EXCEPT ![d] = {}]
  <2>1. CASE Owners(d)' = {}  BY <1>1, <2>1
  <2>2. CASE Owners(d)' = Owners(d)  BY <1>1, <2>2
  <2>3. QED  BY <2>1, <2>2
<1>4. reported' = [reported EXCEPT ![d] = @ \cup {event}]  BY <1>2
<1>5. claims' = claims /\ outcome' = outcome /\ outcome[d] = ledger[d].result
  OBVIOUS
<1>6. outcome[d] # "none"  OBVIOUS
<1>7. QED
  BY <1>3, <1>4, <1>5, <1>6 DEF Stage!Report, Owners, Reported, Outcomes

\* A step of a worker gives up no job but its own, and that only if it leaves the
\* places where it owns it.
LEMMA WorkerGivesUp ==
  ASSUME NEW p \in Processes, UNCHANGED <<handler, jobs>>,
         \A q \in Processes \ {p} : worker'[q] = worker[q],
         NEW d, GivesUp(d)
  PROVE  /\ worker[p].job.id = d
         /\ ~(worker'[p].pc \in OwningPcs /\ worker'[p].job = worker[p].job)
<1>1. PICK q \in Processes :
        \E g \in Holdings(q) : g.job.id = d /\ \A h \in Holdings(q)' : h.job # g.job
  BY DEF GivesUp
<1>2. PICK g \in Holdings(q) : g.job.id = d /\ \A h \in Holdings(q)' : h.job # g.job
  BY <1>1
<1>3. \A job \in jobs[q] : [place |-> "waiting", job |-> job] \in Holdings(q)'
  BY DEF Holdings
<1>4. handler[q].pc = "ack" => [place |-> "handler", job |-> AckedJob(q)] \in Holdings(q)'
  BY DEF Holdings, AckedJob
<1>5. worker'[q].pc \in OwningPcs =>
        [place |-> "worker", job |-> worker'[q].job] \in Holdings(q)'
  BY DEF Holdings
<1>6. \/ \E job \in jobs[q] : g = [place |-> "waiting", job |-> job]
      \/ handler[q].pc = "ack" /\ g = [place |-> "handler", job |-> AckedJob(q)]
      \/ worker[q].pc \in OwningPcs /\ g = [place |-> "worker", job |-> worker[q].job]
  BY DEF Holdings
<1>7. worker[q].pc \in OwningPcs /\ g.job = worker[q].job  BY <1>2, <1>3, <1>4, <1>6
<1>8. ~(worker'[q].pc \in OwningPcs /\ worker'[q].job = worker[q].job)
  BY <1>2, <1>5, <1>7
<1>9. q = p  BY <1>7, <1>8
<1>10. QED  BY <1>2, <1>7, <1>8, <1>9

\* Every step of a worker is one of BuildStage.
LEMMA WorkerRefines ==
  ASSUME CalmFaults, OwnerInv, Linked, StageInv, NEW p \in Processes, Worker(p), ~TakeJob(p)
  PROVE  Stage!StageNext
<1> DEFINE w == worker[p]
<1>1. TypeOK /\ DisjointHoldings  BY DEF OwnerInv, TypeInv
<1>2. /\ WorkerFrame(p)
      /\ Unseen(p) \/ \E o \in {"succeeded", "failed"} : Decides(p, o) \/ Reports(p, o)
  BY <1>1, CalmWorker
<1>3. PICK d \in Deployments : d = w.job.id  BY <1>2 DEF WorkerFrame, Job
<1>4. /\ w # Idle /\ d = w.job.id
      /\ UNCHANGED <<handler, jobs>>
      /\ \A q \in Processes \ {p} : worker'[q] = worker[q]
      /\ \A e \in Deployments \ {d} : ledger'[e] = ledger[e]
      /\ worker'[p].pc # "idle" => worker'[p].job = w.job
  BY <1>2, <1>3 DEF WorkerFrame
<1>5. "idle" \notin OwningPcs  BY DEF OwningPcs, StagePcs
<1>6. \A o \in {"succeeded", "failed"} :
        PublishingOf(o) \subseteq OwningPcs /\ PublishingOf(o) \subseteq PublishingPcs
  BY DEF PublishingOf, OwningPcs, StagePcs, PublishingPcs
<1>7. OwningPcs \subseteq UndecidedPcs \cup PublishingPcs /\ UndecidedPcs \subseteq OwningPcs
  BY DEF UndecidedPcs
<1>8. PublishingPcs \subseteq PublishingOf("succeeded") \cup PublishingOf("failed")
  BY DEF PublishingPcs, PublishingOf
<1>9. ASSUME worker'[p].pc \in OwningPcs => w.pc \in OwningPcs
      PROVE  \A e : Owners(e)' = IF GivesUp(e) THEN {} ELSE Owners(e)
  <2>1. JobsShrink  BY <1>4, <1>5, <1>9, ShrinkingJobs
  <2>2. QED  BY <1>1, <2>1, OwnersShrink
<1>10. CASE Unseen(p)
  <2>1. worker'[p].pc \in OwningPcs => w.pc \in OwningPcs  BY <1>7, <1>10 DEF Unseen
  <2>2. \A e \in Deployments :
          /\ ledger'[e].attempt = ledger[e].attempt /\ ledger'[e].result = ledger[e].result
          /\ Reported(e)' = Reported(e)
    BY <1>4, <1>10 DEF Unseen, SameStage, Reported
  <2>3. Stage!Relinquish  BY <1>9, <2>1, <2>2, MapsToRelinquish
  <2>4. QED  BY <2>3 DEF Stage!StageNext
<1>11. ASSUME NEW o \in {"succeeded", "failed"}, Decides(p, o)  PROVE Stage!StageNext
  <2>1. /\ w.pc \in UndecidedPcs /\ worker'[p].pc \in PublishingOf(o)
        /\ ledger'[d].result = o /\ ledger'[d].attempt = ledger[d].attempt
        /\ UNCHANGED published
    BY <1>4, <1>11 DEF Decides
  <2>2. w.pc \in OwningPcs /\ worker'[p].pc \in OwningPcs /\ worker'[p].job = w.job
    BY <1>4, <1>5, <1>6, <1>7, <2>1
  <2>3. \A e : ~GivesUp(e)  BY <1>4, <2>2, WorkerGivesUp
  <2>4. \A e : Owners(e)' = Owners(e)  BY <1>9, <2>2, <2>3
  <2>5. Owners(d) # {}
    <3>1. [place |-> "worker", job |-> w.job] \in Holdings(p)  BY <2>2 DEF Holdings
    <3>2. w.job.claim \in Owners(d)  BY <1>4, <3>1, OwnersAre
    <3>3. QED  BY <3>2
  <2>6. ledger[d].result = "none"  BY <1>4, <2>1 DEF StageInv, InProgress, Terminal
  <2>7. \A e \in Deployments :
          /\ ledger'[e].attempt = ledger[e].attempt /\ Reported(e)' = Reported(e)
          /\ Owners(e)' = Owners(e)
    BY <1>4, <2>1, <2>4 DEF Reported
  <2>8. Stage!Decide(d)  BY <1>4, <2>1, <2>5, <2>6, <2>7, MapsToDecide
  <2>9. QED  BY <1>4, <2>8 DEF Stage!StageNext
<1>12. ASSUME NEW o \in {"succeeded", "failed"}, Reports(p, o)  PROVE Stage!StageNext
  <2>1. /\ w.pc \in PublishingOf(o) /\ ledger'[d] = ledger[d]
        /\ \E event \in OutcomeEvents(o) : Saying(p, event)
    BY <1>4, <1>12 DEF Reports
  <2>2. PICK event \in OutcomeEvents(o) : Saying(p, event)  BY <2>1
  <2>3. w.pc \in OwningPcs  BY <1>6, <2>1
  <2>4. /\ \A e : Owners(e)' = IF GivesUp(e) THEN {} ELSE Owners(e)
        /\ \A e : GivesUp(e) => e = d
    BY <1>4, <1>9, <2>3, WorkerGivesUp
  <2>5. ledger[d].result = o  BY <1>4, <2>1 DEF StageInv
  <2>6. event \in Outcomes  BY <2>2 DEF Outcomes
  <2>7. /\ published'[d] = published[d] \cup {event}
        /\ \A e \in Deployments \ {d} : published'[e] = published[e]
    BY <1>1, <1>4, <2>2 DEF Saying, TypeOK
  <2>8. /\ Reported(d)' = Reported(d) \cup {event}
        /\ \A e \in Deployments \ {d} : Reported(e)' = Reported(e) /\ Owners(e)' = Owners(e)
    BY <2>4, <2>6, <2>7 DEF Reported
  <2>9. \A e \in Deployments :
          ledger'[e].attempt = ledger[e].attempt /\ ledger'[e].result = ledger[e].result
    BY <1>4, <2>1
  <2>10. Owners(d)' \in {{}, Owners(d)}  BY <2>4
  <2>11. Stage!Report(d)
    BY <1>4, <2>2, <2>5, <2>8, <2>9, <2>10, MapsToReport
  <2>12. QED  BY <1>4, <2>11 DEF Stage!StageNext
<1>13. QED  BY <1>2, <1>10, <1>11, <1>12

\* So is every step of a handler.
LEMMA HandlerRefines ==
  ASSUME CalmFaults, OwnerInv, TypeOK', Linked, StageInv, NEW p \in Processes, Handler(p)
  PROVE  Stage!StageNext
<1> DEFINE h == handler[p]
<1>1. TypeOK /\ DisjointHoldings  BY DEF OwnerInv, TypeInv
<1>2. /\ HandlerFrame(p)
      /\ HandlerAcquires(p) \/ HandlerReports(p) \/ HandlerUnseen(p)
  BY <1>1, CalmHandler
<1>3. /\ UNCHANGED worker
      /\ \A q \in Processes \ {p} :
           worker'[q] = worker[q] /\ handler'[q] = handler[q] /\ jobs'[q] = jobs[q]
      /\ \A e \in Deployments : ledger'[e] = ledger[e] \/ (h.pc = "claim" /\ e = h.msg.id)
      /\ h.pc \in {"claim", "ack", "storedService", "storedProgress"} =>
           h.msg.id \in Deployments
  BY <1>2 DEF HandlerFrame
<1>4. CASE HandlerUnseen(p)
  <2>1. \A job \in jobs'[p] : job \in jobs[p] \/ (h.pc = "ack" /\ job = AckedJob(p))
    BY <1>4 DEF HandlerUnseen
  <2>2. JobsShrink  BY <1>3, <1>4, <2>1, ShrinkingJobs DEF HandlerUnseen
  <2>3. \A e : Owners(e)' = IF GivesUp(e) THEN {} ELSE Owners(e)
    BY <1>1, <2>2, OwnersShrink
  <2>4. Stage!Relinquish  BY <1>4, <2>3, MapsToRelinquish DEF HandlerUnseen, Reported
  <2>5. QED  BY <2>4 DEF Stage!StageNext
<1>5. CASE HandlerReports(p)
  <2>0. PICK d \in Deployments : d = h.msg.id
    BY <1>3, <1>5 DEF HandlerReports, AnswersStored, Handles
  <2>1. /\ UNCHANGED <<ledger, jobs, worker>> /\ h.pc \in StoredPcs /\ h.pc # "ack"
        /\ handler'[p].pc # "ack"
        /\ published' = [published EXCEPT ![d] = @ \cup {StoredEvent(h)}]
    BY <1>3, <1>5, <2>0 DEF HandlerReports, AnswersStored, Handles, StoredPcs
  <2>2. \A q \in Processes : Holdings(q)' = Holdings(q)
    <3>1. \A q \in Processes : handler'[q].pc = "ack" \/ handler[q].pc = "ack" =>
            handler'[q] = handler[q]
      BY <1>3, <2>1
    <3>2. QED  BY <2>1, <3>1 DEF Holdings, AckedJob
  <2>3. \A e : Owners(e)' = Owners(e)  BY <2>2 DEF Owners
  <2>4. ledger[d].result = h.result /\ h.result \in {"succeeded", "failed"}
    BY <1>1, <2>0, <2>1, HandlerFields DEF StageInv, StoredPcs, TypeOK
  <2>5. StoredEvent(h) \in OutcomeEvents(ledger[d].result) /\ StoredEvent(h) \in Outcomes
    BY <2>4 DEF StoredEvent, OutcomeEvents, Outcomes
  <2>7. /\ Reported(d)' = Reported(d) \cup {StoredEvent(h)}
        /\ \A e \in Deployments \ {d} : Reported(e)' = Reported(e)
    BY <1>1, <2>1, <2>5 DEF Reported, TypeOK
  <2>8. Stage!Report(d)
    BY <2>1, <2>3, <2>4, <2>5, <2>7, MapsToReport
  <2>9. QED  BY <2>8 DEF Stage!StageNext
<1>6. CASE HandlerAcquires(p)
  <2>0. PICK d \in Deployments : d = h.msg.id  BY <1>3, <1>6 DEF HandlerAcquires, Handles
  <2> DEFINE new == [place |-> "handler",
                     job |-> [id |-> d, attempt |-> h.msg.attempt,
                              claim |-> ledger[d].attempt + 1]]
  <2>1. /\ h.pc = "claim" /\ handler'[p].pc = "ack" /\ handler'[p].msg = h.msg
        /\ handler'[p].claim = ledger'[d].attempt
        /\ Disposition(ledger[d]) = "ClaimAcquired" /\ ledger'[d] = Claimed(ledger[d])
        /\ UNCHANGED <<jobs, published>> /\ d = h.msg.id
    BY <1>3, <1>6, <2>0 DEF HandlerAcquires, Handles
  <2>2. /\ ledger'[d].attempt = ledger[d].attempt + 1
        /\ ledger'[d].result = ledger[d].result /\ ledger[d].result = "none"
    BY <1>1, <2>1, StageRows DEF TypeOK, StageInv
  <2>3. \A q \in Processes : \A g \in Holdings(q) : g.job.id # d
    BY <2>1 DEF OwnerInv, Protected
  <2>4. Holdings(p)' = Holdings(p) \cup {new}
    BY <1>3, <2>1, <2>2 DEF Holdings, AckedJob
  <2>5. \A q \in Processes \ {p} : Holdings(q)' = Holdings(q)
    BY <1>3 DEF Holdings, AckedJob
  <2>6. new.job.id = d /\ new.job.claim = ledger[d].attempt + 1  OBVIOUS
  <2> HIDE DEF new
  <2>7. \A e, c : c \in Owners(e)' <=>
          c \in Owners(e) \/ (e = d /\ c = ledger[d].attempt + 1)
    <3>1. \A e, c : c \in Owners(e)' <=>
            \E q \in Processes : \E g \in Holdings(q)' : g.job.id = e /\ g.job.claim = c
      BY DEF Owners
    <3>2. QED  BY <2>4, <2>5, <2>6, <3>1, OwnersAre
  <2>8. Owners(d) = {}
    <3>1. \A c : c \notin Owners(d)  BY <2>3, OwnersAre
    <3>2. QED  BY <3>1
  <2>9. /\ Owners(d)' = {ledger[d].attempt + 1}
        /\ \A e \in Deployments \ {d} : Owners(e)' = Owners(e)
    <3>1. \A c : c \in Owners(d)' <=> c = ledger[d].attempt + 1  BY <2>7, <2>8
    <3>2. \A e \in Deployments \ {d} : \A c : c \in Owners(e)' <=> c \in Owners(e)
      BY <2>7
    <3>3. QED  BY <3>1, <3>2
  <2>10. /\ \A e \in Deployments \ {d} : ledger'[e] = ledger[e]
         /\ \A e \in Deployments : Reported(e)' = Reported(e)
    BY <1>3, <2>1 DEF Reported
  <2>11. Stage!Acquire(d)
    BY <2>1, <2>2, <2>8, <2>9, <2>10, MapsToAcquire
  <2>12. QED  BY <2>1, <2>11 DEF Stage!StageNext
<1>7. QED  BY <1>2, <1>4, <1>5, <1>6

\* And every step there is.
LEMMA StepRefines ==
  ASSUME CalmFaults, OwnerInv, TypeOK', Linked, StageInv, [Next]_vars
  PROVE  Stage!StageNext
<1>1. TypeOK /\ DisjointHoldings  BY DEF OwnerInv, TypeInv
<1>2. ASSUME NEW p \in Processes,
             \/ TakeJob(p) \/ Drops(p)
      PROVE  Stage!StageNext
  <2>1. CASE TakeJob(p)
    <3>1. /\ UNCHANGED <<handler, ledger, published>>
          /\ \A q \in Processes \ {p} : worker'[q] = worker[q] /\ jobs'[q] = jobs[q]
          /\ jobs'[p] \subseteq jobs[p]
          /\ worker'[p].job \in jobs[p] /\ worker'[p].pc = "started"
      BY <1>1, <2>1, TakeJobTable
    <3>2. JobsShrink  BY <3>1, ShrinkingJobs
    <3>3. Stage!Relinquish
      BY <1>1, <3>1, <3>2, OwnersShrink, MapsToRelinquish DEF Reported
    <3>4. QED  BY <3>3 DEF Stage!StageNext
  <2>2. CASE Drops(p)
    <3>1. /\ UNCHANGED <<ledger, published>>
          /\ \A q \in Processes \ {p} :
               worker'[q] = worker[q] /\ handler'[q] = handler[q] /\ jobs'[q] = jobs[q]
          /\ jobs'[p] \subseteq jobs[p]
          /\ worker'[p] = worker[p] \/ worker'[p] = Idle
          /\ handler'[p] = handler[p] \/ handler'[p] = Idle
      BY <1>1, <2>2 DEF Drops, TypeOK
    <3>2. Idle.pc \notin OwningPcs \cup {"ack"}  BY DEF Idle, OwningPcs, StagePcs
    <3>3. JobsShrink  BY <3>1, <3>2, ShrinkingJobs
    <3>4. Stage!Relinquish
      BY <1>1, <3>1, <3>3, OwnersShrink, MapsToRelinquish DEF Reported
    <3>5. QED  BY <3>4 DEF Stage!StageNext
  <2>3. QED  BY <1>2, <2>1, <2>2
<1>3. CASE Elapses
  <2>1. /\ UNCHANGED <<handler, jobs, worker, published>>
        /\ \A d \in Deployments : SameButLease(ledger[d], ledger'[d])
    BY <1>3 DEF Elapses
  <2>2. JobsShrink  BY <2>1 DEF JobsShrink, Holdings, AckedJob
  <2>3. Stage!Relinquish
    BY <1>1, <2>1, <2>2, OwnersShrink, MapsToRelinquish DEF Reported, SameButLease
  <2>4. QED  BY <2>3 DEF Stage!StageNext
<1>4. QED
  BY <1>1, <1>2, <1>3, HandlerRefines, WorkerRefines, EnvironmentTable DEF Next

\* At the start the invariant holds, and BuildStage starts as the consumers do.
LEMMA StageInitial ==
  ASSUME Init
  PROVE  Linked /\ StageInv /\ Stage!StageInit
<1>1. \A p \in Processes :
        /\ handler[p] = Idle /\ jobs[p] = {} /\ worker[p] = Idle
        /\ Holdings(p) = {}
  BY DEF Init, Holdings, Idle, OwningPcs, StagePcs
<1>2. Idle.pc = "idle"  BY DEF Idle
<1>3. Linked  BY <1>1 DEF Linked
<1>4. \A d \in Deployments : ledger[d] = NoRecord /\ published[d] = {}
  BY DEF Init
<1>5. NoRecord.result = "none" /\ ~Terminal(NoRecord) /\ NoRecord.attempt = 0
  BY DEF NoRecord, Terminal
<1>6. StageInv
  BY <1>1, <1>2, <1>4, <1>5
  DEF StageInv, UndecidedPcs, OwningPcs, StagePcs, PublishingOf, StoredPcs
<1>7. \A d \in Deployments : Owners(d) = {}
  <2>1. \A d, c : c \notin Owners(d)  BY <1>1, OwnersAre
  <2>2. QED  BY <2>1
<1>8. Stage!StageInit
  BY <1>4, <1>5, <1>7 DEF Stage!StageInit, Owners
<1>9. QED  BY <1>3, <1>6, <1>8

\* What the refinement rests on.
CalmInv == CalmFaults => OwnerInv /\ Linked /\ StageInv

LEMMA CalmNext == CalmInv /\ LeaseInv /\ [Next]_vars => CalmInv' /\ LeaseInv'
<1> SUFFICES ASSUME CalmInv, LeaseInv, [Next]_vars PROVE CalmInv' /\ LeaseInv'  OBVIOUS
<1>1. LeaseInv'  BY LeaseNext
<1>2. TypeOK'  BY <1>1 DEF LeaseInv, TypeInv
<1>3. ASSUME CalmFaults  PROVE OwnerInv' /\ Linked' /\ StageInv'
  <2>1. "lease" \notin faults'.kinds /\ "connection" \notin faults'.kinds
    BY <1>2, <1>3 DEF CalmFaults, TypeOK, FaultHistory
  <2>2. OwnerInv /\ Linked /\ StageInv /\ TypeOK
    BY <1>3 DEF CalmInv, OwnerInv, TypeInv
  <2>3. OwnerInv'  BY <2>1, <2>2, OwnerNext
  <2>4. Linked'  BY <2>1, <2>2, LinkedNext
  <2>5. StageInv'  BY <1>2, <1>3, <2>2, StageInvNext
  <2>6. QED  BY <2>3, <2>4, <2>5
<1>4. QED  BY <1>1, <1>3 DEF CalmInv, CalmFaults

\* The consumers implement BuildStage as long as nothing fails but ledger
\* statements that take no effect and processes: no second owner, no claim of a
\* decided stage, no outcome revised, none reported that is not stored.  Under
\* any other kind of fault the code can break one of these.
THEOREM BuildStageIsImplemented ==
  ASSUME FaultKinds \subseteq {"database", "crash"}
  PROVE  Spec => ImplementsBuildStage
<1>1. CalmFaults  BY DEF CalmFaults
<1>2. Init => CalmInv /\ LeaseInv /\ Stage!StageInit
  BY OwnerInit, StageInitial DEF CalmInv, LeaseInv, OwnerInv
<1>3. CalmInv /\ LeaseInv /\ [Next]_vars => [Stage!StageNext]_(Stage!stageVars)
  <2> SUFFICES ASSUME CalmInv, LeaseInv, [Next]_vars PROVE Stage!StageNext  OBVIOUS
  <2>1. LeaseInv'  BY CalmNext
  <2>2. TypeOK'  BY <2>1 DEF LeaseInv, TypeInv
  <2>3. QED  BY <1>1, <2>2, StepRefines DEF CalmInv
<1>4. QED  BY <1>2, <1>3, CalmNext, PTL DEF Spec, ImplementsBuildStage, Stage!StageSpec

-----------------------------------------------------------------------------
(* Ledger answers that are lost and leases that run out lose no request, and   *)
(* neither does one publish that is not confirmed                              *)

Lossless ==
  /\ faults.kinds \subseteq {"publish", "commit", "lease"}
  /\ "publish" \in faults.kinds => faults.count <= 1

\* A worker on the way to another delivery, or to the dead-letter queue, of a
\* request whose execution has met a fault.
Recovering(p) ==
  /\ worker[p] # Idle
  /\ \/ worker[p].pc \in {"recordRetry", "deadLetter"} \cup RetryPcs
     \/ worker[p].caller = "exhausted"

\* A worker that has yet to decide its request or to pass it on: one that publishes
\* an outcome it has stored can leave the request at any step.
Undone(p) == worker[p] # Idle /\ worker[p].pc \notin PublishingPcs \cup {"deadLetter"}

\* The request of d has a copy with the broker or in a process that still works on
\* it, or needs none.
Kept(d) ==
  \/ \E m \in Message : m.id = d /\ (queue[m] > 0 \/ retries[m] > 0)
  \/ \E p \in Processes : handler[p].pc \in {"claim", "ack"} /\ handler[p].msg.id = d
  \/ \E p \in Processes : \E job \in jobs[p] : job.id = d
  \/ \E p \in Processes : Undone(p) /\ worker[p].job.id = d
  \/ Terminal(ledger[d]) \/ d \in dlq

\* A worker recovers from a fault only, so that the publish it depends on is not
\* the one that may fail.
KeptInv ==
  /\ faults.count = 0 => \A p \in Processes : ~Recovering(p)
  /\ \A p \in Processes : worker[p].pc # "requeueOnChannel"
  /\ \A d \in Deployments : Kept(d)

\* A publish that fails is the first fault.
LEMMA FirstFault ==
  ASSUME TypeOK, TypeOK', Lossless', NEW kind, Fault(kind)
  PROVE  /\ kind \in {"publish", "commit", "lease"}
         /\ kind = "publish" => faults.count = 0 /\ faults'.count = 1
BY FaultCounts DEF Lossless

\* What Completed, Failed, Released and Claimed make of a row.
LEMMA TerminalRows ==
  ASSUME NEW r \in StageRecord
  PROVE  /\ r.state # "ABSENT" => Terminal(Completed(r)) /\ Terminal(Failed(r))
         /\ Terminal(r) => Terminal(Completed(r)) /\ Terminal(Failed(r))
         /\ Terminal(r) => Terminal(RetryRecorded(r)) /\ Terminal(Claimed(r))
<1>1. r.state # "ABSENT" => Terminal(Completed(r)) /\ Terminal(Failed(r))
  BY DEF Completed, Failed, SetState, Terminal, StageRecord
<1>2. Terminal(r) => r.state # "ABSENT"  BY DEF Terminal
<1>3. Terminal(r) => Terminal(RetryRecorded(r))
  BY DEF RetryRecorded, Terminal, StageRecord
<1>4. Terminal(r) => Terminal(Claimed(r))
  BY DEF Claimed, Disposition, Terminal
<1>5. QED  BY <1>1, <1>2, <1>3, <1>4

\* A step of a worker: what it has yet to decide or to pass on it goes on with,
\* decides, or publishes for a later delivery.
LEMMA LosslessWorker ==
  ASSUME TypeOK, TypeOK', Lossless', Linked, RowsExist, KeptInv,
         NEW p \in Processes, Worker(p), ~TakeJob(p)
  PROVE  LET d == worker[p].job.id
         IN  /\ WorkerFrame(p)
             /\ faults'.count = 0 => ~Recovering(p)'
             /\ worker'[p].pc # "requeueOnChannel"
             /\ Undone(p) =>
                  \/ Undone(p)' \/ Terminal(ledger'[d])
                  \/ worker[p].pc \in RetryPcs /\ retries' = Put(retries, RetryMessage(p))
             /\ Terminal(ledger[d]) => Undone(p)' \/ Terminal(ledger'[d])
<1> DEFINE w == worker[p]
           d == w.job.id
           r == ledger[d]
           s == ledger'[d]
           first == faults.count = 0 /\ faults'.count = 1
<1>1. WorkerFrame(p) /\ (BodySteps(p) \/ FailureSteps(p) \/ RetrySteps(p))
  BY WorkerTable
<1>2. /\ w # Idle /\ d \in Deployments /\ r \in StageRecord
      /\ worker'[p].pc = "idle" => worker'[p] = Idle
      /\ worker'[p].pc # "idle" => worker'[p] # Idle
      /\ worker'[p].pc \notin {"fail", "idle"} => worker'[p].caller = w.caller
  BY <1>1 DEF WorkerFrame, TypeOK, Job
<1>3. r.state # "ABSENT"  BY <1>2 DEF RowsExist, Refs
<1>4. PublishErrs(p) => first
  <2>1. connected[p]  BY <1>2 DEF Linked
  <2>2. QED  BY <2>1, FirstFault DEF PublishErrs
\* A statement that fails has taken effect.
<1>5. /\ \A t : StatementErrs(r, s, t) => s = t /\ faults'.count # 0
      /\ ~Fault("database")
  <2>1. \A kind : Fault(kind) => faults'.count # 0
    BY FaultCounts DEF TypeOK, FaultHistory
  <2>2. QED  BY <2>1, FirstFault DEF StatementErrs
<1>6. faults.count = 0 => ~Recovering(p)  BY DEF KeptInv
<1>7. w.pc # "requeueOnChannel"  BY DEF KeptInv
<1>8. /\ Terminal(Completed(r)) /\ Terminal(Failed(r))
      /\ Terminal(r) => Terminal(RetryRecorded(r))
  BY <1>2, <1>3, TerminalRows
<1>9. /\ Recovering(p)' <=> /\ worker'[p] # Idle
                            /\ \/ worker'[p].pc \in {"recordRetry", "deadLetter"} \cup RetryPcs
                               \/ worker'[p].caller = "exhausted"
      /\ Undone(p)' <=> /\ worker'[p] # Idle
                        /\ worker'[p].pc \notin PublishingPcs \cup {"deadLetter"}
  BY DEF Recovering, Undone
<1>10. faults'.count = 0 => faults.count = 0
  <2>1. [Next]_vars  BY DEF Next
  <2>2. QED  BY <2>1, KindsGrow
<1> DEFINE Goal ==
      /\ faults'.count = 0 => ~Recovering(p)'
      /\ worker'[p].pc # "requeueOnChannel"
      /\ Undone(p) =>
           \/ Undone(p)' \/ Terminal(s)
           \/ w.pc \in RetryPcs /\ retries' = Put(retries, RetryMessage(p))
      /\ Terminal(r) => Undone(p)' \/ Terminal(s)
<1> SUFFICES Goal  BY <1>1
<1>11. CASE BodySteps(p)
  BY <1>2, <1>4, <1>5, <1>6, <1>7, <1>8, <1>9, <1>10, <1>11
  DEF BodySteps, Goes, Fails, Recovering, Undone, PublishingPcs, RetryPcs, Idle
<1>12. CASE FailureSteps(p)
  BY <1>2, <1>4, <1>5, <1>6, <1>7, <1>8, <1>9, <1>10, <1>12
  DEF FailureSteps, Goes, Recovering, Undone, PublishingPcs, RetryPcs, AfterFailureError, Idle
<1>13. CASE RetrySteps(p)
  BY <1>2, <1>4, <1>5, <1>6, <1>7, <1>8, <1>9, <1>10, <1>13
  DEF RetrySteps, Goes, Fails, Recovering, Undone, PublishingPcs, RetryPcs, Idle
<1>14. QED  BY <1>1, <1>11, <1>12, <1>13

\* A step that moves no worker keeps the invariant if every request is kept.
LEMMA KeptWithoutWorker ==
  ASSUME KeptInv, UNCHANGED worker, faults'.count = 0 => faults.count = 0,
         \A d \in Deployments : Kept(d)'
  PROVE  KeptInv'
BY DEF KeptInv, Recovering

\* A step of a worker keeps it.
LEMMA WorkerKeepsRequests ==
  ASSUME TypeOK, TypeOK', Lossless', Linked, RowsExist, KeptInv,
         NEW p \in Processes, Worker(p), ~TakeJob(p)
  PROVE  KeptInv'
<1> DEFINE w == worker[p]
<1>1. /\ WorkerFrame(p)
      /\ faults'.count = 0 => ~Recovering(p)'
      /\ worker'[p].pc # "requeueOnChannel"
      /\ Undone(p) =>
           \/ Undone(p)' \/ Terminal(ledger'[w.job.id])
           \/ w.pc \in RetryPcs /\ retries' = Put(retries, RetryMessage(p))
      /\ Terminal(ledger[w.job.id]) => Undone(p)' \/ Terminal(ledger'[w.job.id])
  BY LosslessWorker
<1>2. PICK d \in Deployments : d = w.job.id  BY <1>1 DEF WorkerFrame, Job
<1>3. /\ w # Idle /\ UNCHANGED <<handler, jobs>>
      /\ \A q \in Processes \ {p} : worker'[q] = worker[q]
      /\ \A e \in Deployments \ {d} : ledger'[e] = ledger[e]
      /\ worker'[p] # Idle => worker'[p].job = w.job
      /\ retries' \in {retries, Put(retries, RetryMessage(p))} /\ dlq \subseteq dlq'
  BY <1>1, <1>2 DEF WorkerFrame, Idle
<1>4. UNCHANGED queue
  BY <1>1 DEF WorkerFrame, Lossless
<1>5. \A q \in Processes \ {p} : /\ Recovering(q)' = Recovering(q)
                                 /\ Undone(q)' = Undone(q)
  BY <1>3 DEF Recovering, Undone
<1>6. faults'.count = 0 => \A q \in Processes : ~Recovering(q)'
  <2>1. [Next]_vars  BY DEF Next
  <2>2. faults'.count = 0 => faults.count = 0  BY <2>1, KindsGrow
  <2>3. QED  BY <1>1, <1>5, <2>2 DEF KeptInv
<1>7. \A q \in Processes : worker'[q].pc # "requeueOnChannel"
  BY <1>1, <1>3 DEF KeptInv
<1>8. \A m \in Message : retries[m] > 0 => retries'[m] > 0
  <2>1. \A m \in Message : Put(retries, RetryMessage(p))[m] \in {retries[m], retries[m] + 1}
    BY DEF Put, TypeOK
  <2>2. \A m \in Message : retries[m] \in Nat  BY DEF TypeOK
  <2>3. QED  BY <1>3, <2>1, <2>2
\* What the worker has undone stays so, is decided or has a delayed copy.
<1>9. Undone(p) => \/ Undone(p)' \/ Terminal(ledger'[d])
                   \/ \E m \in Message : m.id = d /\ retries'[m] > 0
  <2>1. SUFFICES ASSUME w.pc \in RetryPcs, retries' = Put(retries, RetryMessage(p))
                 PROVE  \E m \in Message : m.id = d /\ retries'[m] > 0
    BY <1>1, <1>2
  <2>2. w.attempt \in Attempts  BY <2>1, WorkerFields DEF TypeOK
  <2>3. RetryMessage(p) \in Message /\ RetryMessage(p).id = d
    BY <1>2, <2>2 DEF RetryMessage, Message
  <2>4. retries'[RetryMessage(p)] > 0  BY <2>1, <2>3, PutGrows DEF TypeOK
  <2>5. QED  BY <2>3, <2>4
<1>10. ASSUME NEW e \in Deployments  PROVE Kept(e)'
  <2>1. Kept(e)' <=>
          \/ \E m \in Message : m.id = e /\ (queue'[m] > 0 \/ retries'[m] > 0)
          \/ \E q \in Processes : handler'[q].pc \in {"claim", "ack"} /\ handler'[q].msg.id = e
          \/ \E q \in Processes : \E job \in jobs'[q] : job.id = e
          \/ \E q \in Processes : Undone(q)' /\ worker'[q].job.id = e
          \/ Terminal(ledger'[e]) \/ e \in dlq'
    BY DEF Kept
  <2>2. Undone(p)' => worker'[p].job.id = d
    BY <1>2, <1>3 DEF Undone
  <2>3. CASE Terminal(ledger[e])
    <3>1. CASE e = d  BY <1>1, <1>2, <2>1, <2>2, <2>3, <3>1
    <3>2. CASE e # d  BY <1>3, <2>1, <2>3, <3>2
    <3>3. QED  BY <3>1, <3>2
  <2>4. ASSUME NEW q \in Processes, Undone(q), worker[q].job.id = e  PROVE Kept(e)'
    <3>1. CASE q = p  BY <1>2, <1>9, <2>1, <2>2, <2>4, <3>1
    <3>2. CASE q # p  BY <1>3, <1>5, <2>1, <2>4, <3>2
    <3>3. QED  BY <3>1, <3>2
  <2>5. Kept(e)  BY DEF KeptInv
  <2>6. QED  BY <1>3, <1>4, <1>8, <2>1, <2>3, <2>4, <2>5 DEF Kept
<1>11. QED  BY <1>6, <1>7, <1>10 DEF KeptInv

\* A step of a handler keeps every request: it gives back what it cannot claim,
\* and passes on what it has claimed.
LEMMA HandlerKeepsRequests ==
  ASSUME TypeOK, TypeOK', Lossless', Linked, NEW p \in Processes, Handler(p),
         NEW d \in Deployments, Kept(d)
  PROVE  /\ Terminal(ledger[d]) => Terminal(ledger'[d])
         /\ Kept(d)'
<1> DEFINE h == handler[p]
<1>1. HandlerFrame(p) /\ (ClaimSteps(p) \/ DeliverySteps(p))
  BY HandlerTable
<1>2. Kept(d)' <=>
        \/ \E m \in Message : m.id = d /\ (queue'[m] > 0 \/ retries'[m] > 0)
        \/ \E q \in Processes : handler'[q].pc \in {"claim", "ack"} /\ handler'[q].msg.id = d
        \/ \E q \in Processes : \E job \in jobs'[q] : job.id = d
        \/ \E q \in Processes : Undone(q)' /\ worker'[q].job.id = d
        \/ Terminal(ledger'[d]) \/ d \in dlq'
  BY DEF Kept
<1>3. /\ UNCHANGED <<retries, worker>> /\ dlq \subseteq dlq'
      /\ \A q \in Processes \ {p} : handler'[q] = handler[q] /\ jobs'[q] = jobs[q]
      /\ h.pc # "ack" => UNCHANGED jobs
      /\ ledger'[d] = ledger[d] \/ (h.pc = "claim" /\ h.msg.id = d)
  BY <1>1 DEF HandlerFrame
<1>4. h # Idle => connected[p] /\ h.msg \in Message
  BY HandlerFields DEF Linked, TypeOK
<1>5. "connection" \notin faults'.kinds  BY DEF Lossless
<1>6. \A m \in Message : queue[m] \in Nat  BY DEF TypeOK
<1>7. Terminal(ledger[d]) => Terminal(ledger'[d])
  <2>1. Terminal(ledger[d]) => Terminal(Claimed(ledger[d]))
    BY TerminalRows DEF TypeOK
  <2>2. CASE ledger'[d] = ledger[d]  BY <2>2
  <2>3. CASE h.pc = "claim" /\ h.msg.id = d
    <3>1. DeliverySteps(p) => UNCHANGED ledger
      BY DEF DeliverySteps, AnswersStored, Accepts
    <3>2. ledger'[d] \in {ledger[d], Claimed(ledger[d])}
      BY <1>1, <2>3, <3>1 DEF ClaimSteps, StatementErrs
    <3>3. QED  BY <2>1, <3>2
  <2>4. QED  BY <1>3, <2>2, <2>3
<1> SUFFICES Kept(d)'  BY <1>7
\* Where the message of the handler goes.
<1>8. \A from : Returns(p, from) =>
        /\ queue' = Put(queue, h.msg) /\ handler'[p] = Idle /\ h # Idle
        /\ queue'[h.msg] > 0
        /\ \A m \in Message : queue[m] > 0 => queue'[m] > 0
  BY <1>4, PutGrows DEF Returns, Handles, TypeOK
<1> DEFINE Moved ==
      \/ UNCHANGED queue
      \/ \A m \in Message : queue[m] > 0 => queue'[m] > 0
      \/ \E m \in Message : /\ queue' = Take(queue, m) /\ h = Idle
                            /\ m.id = d => handler'[p].pc = "claim" /\ handler'[p].msg = m
           Passed ==
      h.pc \in {"claim", "ack"} /\ h.msg.id = d =>
        \/ handler'[p].pc \in {"claim", "ack"} /\ handler'[p].msg.id = d
        \/ queue'[h.msg] > 0
        \/ Terminal(ledger'[d])
        \/ \E job \in jobs'[p] : job.id = d
<1>9. Moved /\ Passed /\ (UNCHANGED jobs \/ jobs[p] \subseteq jobs'[p])
  <2>1. CASE ClaimSteps(p)
    <3>1. UNCHANGED jobs  BY <1>3, <2>1 DEF ClaimSteps, Returns, Handles
    <3>2. CASE Returns(p, "claim")  BY <1>8, <3>1, <3>2
    <3>3. CASE Handles(p, "claim", "storedService") /\ Terminal(ledger[h.msg.id])
               /\ UNCHANGED <<ledger, queue>>
      BY <3>1, <3>3
    <3>4. CASE Handles(p, "claim", "ack") /\ UNCHANGED queue
      BY <3>1, <3>4 DEF Handles
    <3>5. QED  BY <2>1, <3>2, <3>3, <3>4 DEF ClaimSteps
  <2>2. CASE DeliverySteps(p)
    <3>1. CASE UNCHANGED <<handler, jobs, queue>>  BY <3>1
    <3>2. CASE /\ h = Idle
               /\ \E m \in Message :
                    /\ queue' = Take(queue, m) /\ handler'[p].msg = m
                    /\ handler'[p].pc = IF m.id \in BadRequests THEN "processDelivery"
                                        ELSE "claim"
      <4>1. h.pc = "idle"  BY <3>2 DEF Idle
      <4>2. d \notin BadRequests  BY ConstantsAssumption
      <4>3. QED  BY <1>3, <3>2, <4>1, <4>2
    <3>3. CASE AnswersStored(p)
      BY <1>3, <3>3 DEF AnswersStored, Handles
    <3>4. CASE Returns(p, "storedService") \/ Returns(p, "storedProgress")
      <4>1. h.pc \in {"storedService", "storedProgress"}  BY <3>4 DEF Returns, Handles
      <4>2. QED  BY <1>3, <1>8, <3>4, <4>1
    <3>5. CASE Accepts(p)
      <4>1. /\ UNCHANGED queue /\ jobs'[p] = jobs[p] \cup {AckedJob(p)}
        BY <1>4, <1>5, <3>5 DEF Accepts, Handles
      <4>2. AckedJob(p).id = h.msg.id  BY DEF AckedJob
      <4>3. QED  BY <4>1, <4>2
    <3>6. CASE /\ Handles(p, "processDelivery", "settle") \/ Handles(p, "settle", "idle")
               /\ UNCHANGED <<ledger, queue, published>>
      BY <1>3, <3>6 DEF Handles
    <3>7. QED  BY <2>2, <3>1, <3>2, <3>3, <3>4, <3>5, <3>6 DEF DeliverySteps
  <2>3. QED  BY <1>1, <2>1, <2>2
<1>10. CASE \E m \in Message : m.id = d /\ (queue[m] > 0 \/ retries[m] > 0)
  <2>1. PICK m \in Message : m.id = d /\ (queue[m] > 0 \/ retries[m] > 0)  BY <1>10
  <2>2. queue'[m] > 0 \/ retries'[m] > 0 => Kept(d)'  BY <1>2, <2>1
  <2>3. CASE retries[m] > 0
    <3>1. retries'[m] > 0  BY <1>3, <2>3
    <3>2. QED  BY <2>2, <3>1
  <2>4. CASE queue[m] > 0
    <3>1. CASE UNCHANGED queue \/ \A n \in Message : queue[n] > 0 => queue'[n] > 0
      <4>1. queue'[m] > 0  BY <2>4, <3>1
      <4>2. QED  BY <2>2, <4>1
    <3>2. ASSUME NEW n \in Message, queue' = Take(queue, n),
                 n.id = d => handler'[p].pc = "claim" /\ handler'[p].msg = n
          PROVE  Kept(d)'
      <4>1. CASE n = m  BY <1>2, <2>1, <3>2, <4>1
      <4>2. CASE n # m
        <5>1. queue'[m] = queue[m]  BY <3>2, <4>2 DEF Take, TypeOK
        <5>2. QED  BY <2>2, <2>4, <5>1
      <4>3. QED  BY <4>1, <4>2
    <3>3. Moved  BY <1>9
    <3>4. QED  BY <3>1, <3>2, <3>3
  <2>5. QED  BY <2>1, <2>3, <2>4
<1>11. ASSUME NEW q \in Processes, handler[q].pc \in {"claim", "ack"}, handler[q].msg.id = d
       PROVE  Kept(d)'
  <2>1. CASE q = p
    <3>1. h # Idle  BY <1>11, <2>1 DEF Idle
    <3>2. QED  BY <1>2, <1>4, <1>9, <1>11, <2>1, <3>1
  <2>2. CASE q # p  BY <1>2, <1>3, <1>11, <2>2
  <2>3. QED  BY <2>1, <2>2
<1>12. ASSUME NEW q \in Processes, NEW job \in jobs[q], job.id = d  PROVE Kept(d)'
  BY <1>2, <1>3, <1>9, <1>12
<1>13. CASE \/ \E q \in Processes : Undone(q) /\ worker[q].job.id = d
            \/ Terminal(ledger[d]) \/ d \in dlq
  <2>1. \A q \in Processes : Undone(q)' = Undone(q)  BY <1>3 DEF Undone
  <2>2. QED  BY <1>2, <1>3, <1>7, <1>13, <2>1
<1>14. QED  BY <1>7, <1>10, <1>11, <1>12, <1>13 DEF Kept

\* Every step keeps the invariant.
LEMMA KeptNext ==
  ASSUME TypeOK, TypeOK', Lossless', Linked, RowsExist, KeptInv, [Next]_vars
  PROVE  KeptInv'
<1>1. faults'.count = 0 => faults.count = 0  BY KindsGrow
<1>2. ASSUME NEW p \in Processes, Handler(p)  PROVE KeptInv'
  <2>1. UNCHANGED worker  BY <1>2, HandlerTable DEF HandlerFrame
  <2>2. \A d \in Deployments : Kept(d)'
    BY <1>2, HandlerKeepsRequests DEF KeptInv
  <2>3. QED  BY <1>1, <2>1, <2>2, KeptWithoutWorker
<1>3. ASSUME NEW p \in Processes, Worker(p), ~TakeJob(p)  PROVE KeptInv'
  BY <1>3, WorkerKeepsRequests
<1>4. ASSUME NEW p \in Processes, TakeJob(p)  PROVE KeptInv'
  <2>1. /\ UNCHANGED <<queue, retries, dlq, handler, ledger, faults>> /\ worker[p] = Idle
        /\ \A q \in Processes \ {p} : worker'[q] = worker[q] /\ jobs'[q] = jobs[q]
    BY <1>4, TakeJobTable DEF broker
  <2>2. PICK job \in jobs[p] :
          /\ jobs'[p] = jobs[p] \ {job}
          /\ worker'[p] # Idle /\ worker'[p].pc = "started"
          /\ worker'[p].job = job /\ worker'[p].caller = "none"
    BY <1>4, TakeJobTable
  <2>3. /\ \A q \in Processes : Recovering(q)' <=> Recovering(q) /\ q # p
        /\ \A q \in Processes : Undone(q)' <=> Undone(q) \/ q = p
    BY <2>1, <2>2 DEF Recovering, Undone, RetryPcs, PublishingPcs
  <2>4. \A q \in Processes : worker'[q].pc # "requeueOnChannel"
    BY <2>1, <2>2 DEF KeptInv
  <2>5. \A d \in Deployments : Kept(d)'
    <3>1. TAKE d \in Deployments
    <3>2. Kept(d)  BY DEF KeptInv
    <3>3. \A q \in Processes : Undone(q) /\ worker[q].job.id = d =>
            Undone(q)' /\ worker'[q].job.id = d
      BY <2>1, <2>3 DEF Undone
    <3>4. \A q \in Processes : \A j \in jobs[q] : j.id = d =>
            (\E i \in jobs'[q] : i.id = d) \/ (Undone(q)' /\ worker'[q].job.id = d)
      BY <2>1, <2>2, <2>3
    <3>5. QED  BY <2>1, <3>2, <3>3, <3>4 DEF Kept
  <2>6. QED  BY <2>1, <2>3, <2>4, <2>5 DEF KeptInv
<1>5. ASSUME NEW p \in Processes, Drops(p)  PROVE KeptInv'
  BY <1>5, FirstFault DEF Drops
<1>6. CASE Elapses
  <2>1. /\ UNCHANGED <<dlq, handler, jobs, worker>>
        /\ \A d \in Deployments : Terminal(ledger'[d]) <=> Terminal(ledger[d])
    BY <1>6 DEF Elapses, SameButLease, Terminal
  <2>2. \A m \in Message : queue[m] > 0 \/ retries[m] > 0 => queue'[m] > 0 \/ retries'[m] > 0
    <3>1. CASE UNCHANGED <<queue, retries>>  BY <3>1
    <3>2. CASE \E m \in Message : /\ retries[m] > 0
                                  /\ retries' = Take(retries, m) /\ queue' = Put(queue, m)
      <4>1. PICK m \in Message : retries' = Take(retries, m) /\ queue' = Put(queue, m)
        BY <3>2
      <4>2. queue'[m] > 0 /\ \A n \in Message : queue[n] > 0 => queue'[n] > 0
        BY <4>1, PutGrows DEF TypeOK
      <4>3. \A n \in Message \ {m} : retries'[n] = retries[n]
        BY <4>1 DEF Take, TypeOK
      <4>4. QED  BY <4>2, <4>3
    <3>3. QED  BY <1>6, <3>1, <3>2 DEF Elapses
  <2>3. \A d \in Deployments : Kept(d)'
    <3>1. TAKE d \in Deployments
    <3>2. Kept(d)  BY DEF KeptInv
    <3>3. QED  BY <2>1, <2>2, <3>2 DEF Kept, Undone
  <2>4. QED  BY <1>1, <2>1, <2>3, KeptWithoutWorker
<1>7. CASE UNCHANGED vars
  BY <1>7 DEF vars, broker, KeptInv, Kept, Undone, Recovering
<1>8. QED  BY <1>2, <1>3, <1>4, <1>5, <1>6, <1>7, EnvironmentTable DEF Next

LEMMA KeptInit == Init => Linked /\ KeptInv
<1> SUFFICES ASSUME Init PROVE Linked /\ KeptInv  OBVIOUS
<1>1. \A p \in Processes : worker[p] = Idle /\ handler[p] = Idle /\ jobs[p] = {}
  BY DEF Init
<1>2. Idle.pc = "idle"  BY DEF Idle
<1>3. ASSUME NEW d \in Deployments  PROVE Kept(d)
  <2> DEFINE m == [id |-> d, attempt |-> 0]
  <2>1. m \in Message /\ m.id = d  BY ConstantsAssumption DEF Message, Attempts
  <2>2. queue[m] > 0
    <3>1. d \notin BadRequests /\ Copies > 0  BY ConstantsAssumption
    <3>2. queue[m] = Copies  BY <2>1, <3>1 DEF Init
    <3>3. QED  BY <3>1, <3>2
  <2>3. QED  BY <2>1, <2>2 DEF Kept
<1>4. Linked  BY <1>1 DEF Linked
<1>5. QED  BY <1>1, <1>2, <1>3, <1>4 DEF KeptInv, Recovering

\* What is inductive under every fault.
LosslessInv ==
  /\ LeaseInv /\ DeliveryInv
  /\ Lossless => Linked /\ KeptInv

LEMMA LosslessNext == LosslessInv /\ [Next]_vars => LosslessInv'
<1> SUFFICES ASSUME LosslessInv, [Next]_vars PROVE LosslessInv'  OBVIOUS
<1>1. TypeOK /\ LeaseInv /\ DeliveryInv
  BY DEF LosslessInv, LeaseInv, TypeInv
<1>2. LeaseInv' /\ DeliveryInv'
  BY <1>1, LeaseNext, DeliveryNext
<1>3. TypeOK'  BY <1>2 DEF LeaseInv, TypeInv
<1>4. ASSUME Lossless'  PROVE Linked' /\ KeptInv'
  <2>1. Lossless
    <3>1. faults.count \in Nat /\ faults'.count \in Nat
      BY <1>1, <1>3, ConstantsAssumption DEF TypeOK, FaultHistory
    <3>2. QED  BY <1>1, <1>4, <3>1, KindsGrow DEF Lossless
  <2>2. Linked /\ KeptInv  BY <2>1 DEF LosslessInv
  <2>3. "connection" \notin faults'.kinds  BY <1>4 DEF Lossless
  <2>4. RowsExist  BY <1>1 DEF DeliveryInv
  <2>5. Linked'  BY <1>1, <2>2, <2>3, LinkedNext
  <2>6. KeptInv'  BY <1>1, <1>3, <1>4, <2>2, <2>4, KeptNext
  <2>7. QED  BY <2>5, <2>6
<1>5. QED  BY <1>2, <1>4 DEF LosslessInv, Lossless

\* As long as nothing fails but ledger calls whose answer is lost and leases that
\* run out under their holders, however many, or one publish that is not confirmed,
\* no request is lost: it stays with the broker or a process until it is decided or
\* dead-lettered.  A second fault next to an unconfirmed publish, one connection
\* that drops, one crash or one failed statement can lose it.
THEOREM LosslessFaultsLoseNoRequest == Spec => [](Lossless => NoRequestLost)
<1>1. Init => LosslessInv
  BY OwnerInit, TypeInit, DeliveryInit, KeptInit DEF LosslessInv, LeaseInv
<1>2. LosslessInv => (Lossless => NoRequestLost)
  <2> SUFFICES ASSUME LosslessInv, Lossless, NEW d \in Deployments
               PROVE  \/ InBroker(d) \/ InMemory(d) \/ Terminal(ledger[d]) \/ d \in dlq
    BY DEF NoRequestLost
  <2>1. Linked /\ Kept(d)  BY DEF LosslessInv, KeptInv
  <2>2. CASE \E m \in Message : m.id = d /\ (queue[m] > 0 \/ retries[m] > 0)
    BY <2>2 DEF InBroker
  <2>3. ASSUME NEW p \in Processes, handler[p].pc \in {"claim", "ack"}, handler[p].msg.id = d
        PROVE  InBroker(d)
    <3>1. handler[p] # Idle  BY <2>3 DEF Idle
    <3>2. QED  BY <2>1, <2>3, <3>1 DEF Linked, InBroker
  <2>4. ASSUME NEW p \in Processes, NEW job \in jobs[p], job.id = d
        PROVE  InMemory(d)
    <3>1. [place |-> "waiting", job |-> job] \in Holdings(p)  BY DEF Holdings
    <3>2. QED  BY <2>4, <3>1 DEF InMemory, Held
  <2>5. CASE \E p \in Processes : Undone(p) /\ worker[p].job.id = d
    BY <2>5 DEF InMemory, Undone
  <2>6. QED  BY <2>1, <2>2, <2>3, <2>4, <2>5 DEF Kept
<1>3. QED  BY <1>1, <1>2, LosslessNext, PTL DEF Spec
-----------------------------------------------------------------------------
(* Publishes that fail take no request beyond its attempts                     *)

OnlyPublishes == faults.kinds \subseteq {"publish"}

\* retry_count has every claim of the row, and leaves one.
Counted(r) == r.attempt <= r.retryCount /\ r.retryCount < MaxAttempts

\* A claim is open for the execution it starts, and is in retry_count before the
\* row can be claimed again.
CountedInv ==
  /\ \A d \in Deployments :
       /\ ledger[d].attempt <= MaxAttempts
       /\ ledger[d].attempt <= ledger[d].retryCount + 1
       /\ ~Terminal(ledger[d]) /\ ~Held(d) => Counted(ledger[d])
  /\ \A p \in Processes :
       /\ worker[p].pc \in {"retrying", "release"} => Counted(ledger[worker[p].job.id])
       /\ worker[p].pc \in PublishingPcs => Terminal(ledger[worker[p].job.id])

\* Where a stage is held.
HeldIn(d, p) ==
  \/ \E job \in jobs[p] : job.id = d
  \/ handler[p].pc = "ack" /\ handler[p].msg.id = d
  \/ worker[p].pc \in OwningPcs /\ worker[p].job.id = d

LEMMA HeldBy == \A d : Held(d) <=> \E p \in Processes : HeldIn(d, p)
<1>1. ASSUME NEW d, NEW p \in Processes
      PROVE  (\E h \in Holdings(p) : h.job.id = d) <=> HeldIn(d, p)
  <2>1. AckedJob(p).id = handler[p].msg.id  BY DEF AckedJob
  <2>2. ASSUME NEW job \in jobs[p]  PROVE \E h \in Holdings(p) : h.job = job
    <3>1. [place |-> "waiting", job |-> job] \in Holdings(p)  BY <2>2 DEF Holdings
    <3>2. QED  BY <3>1
  <2>3. ASSUME handler[p].pc = "ack"  PROVE \E h \in Holdings(p) : h.job = AckedJob(p)
    <3>1. [place |-> "handler", job |-> AckedJob(p)] \in Holdings(p)  BY <2>3 DEF Holdings
    <3>2. QED  BY <3>1
  <2>4. ASSUME worker[p].pc \in OwningPcs
        PROVE  \E h \in Holdings(p) : h.job = worker[p].job
    <3>1. [place |-> "worker", job |-> worker[p].job] \in Holdings(p)  BY <2>4 DEF Holdings
    <3>2. QED  BY <3>1
  <2>5. \A h \in Holdings(p) :
          \/ h.job \in jobs[p]
          \/ handler[p].pc = "ack" /\ h.job = AckedJob(p)
          \/ worker[p].pc \in OwningPcs /\ h.job = worker[p].job
    BY DEF Holdings
  <2>6. QED  BY <2>1, <2>2, <2>3, <2>4, <2>5 DEF HeldIn
<1>2. QED  BY <1>1 DEF Held

\* The same after a step.
LEMMA HeldAfter == \A d : Held(d)' <=> \E p \in Processes : HeldIn(d, p)'
<1>1. (\A d : Held(d) <=> \E p \in Processes : HeldIn(d, p))'
  BY HeldBy, PTL
<1>2. QED  BY <1>1

\* What the statements make of the counts.
LEMMA CountedRows ==
  ASSUME NEW r \in StageRecord
  PROVE  /\ r.attempt \in Nat /\ r.retryCount \in Nat
         /\ \A s \in {Completed(r), Failed(r), Released(r)} :
              s.attempt = r.attempt /\ s.retryCount = r.retryCount
         /\ r.state # "ABSENT" => /\ RetryRecorded(r).attempt = r.attempt
                                  /\ RetryRecorded(r).retryCount = r.retryCount + 1
         /\ Disposition(r) = "ClaimAcquired" =>
              /\ ~Terminal(r)
              /\ Claimed(r).attempt = r.attempt + 1 /\ Claimed(r).retryCount = r.retryCount
<1>1. /\ r.attempt \in Nat /\ r.retryCount \in Nat
      /\ Released(r).attempt = r.attempt /\ Released(r).retryCount = r.retryCount
  BY DEF StageRecord, Released
<1>2. \A state, result : /\ SetState(r, state, result).attempt = r.attempt
                         /\ SetState(r, state, result).retryCount = r.retryCount
  BY DEF StageRecord, SetState
<1>3. r.state # "ABSENT" => /\ RetryRecorded(r).attempt = r.attempt
                            /\ RetryRecorded(r).retryCount = r.retryCount + 1
  BY DEF StageRecord, RetryRecorded
<1>4. Disposition(r) = "ClaimAcquired" =>
        /\ ~Terminal(r)
        /\ Claimed(r).attempt = r.attempt + 1 /\ Claimed(r).retryCount = r.retryCount
  BY DEF StageRecord, Claimed, Disposition, Terminal
<1>5. QED  BY <1>1, <1>2, <1>3, <1>4 DEF Completed, Failed

\* A step of a worker that owns its job counts the execution or decides the row
\* before it gives the job up.
LEMMA CountingWorker ==
  ASSUME TypeOK, TypeOK', OnlyPublishes', RowsExist, CountedInv,
         NEW p \in Processes, Worker(p), ~TakeJob(p)
  PROVE  LET d == worker[p].job.id
             r == ledger[d]
             s == ledger'[d]
         IN  /\ WorkerFrame(p)
             /\ s.attempt = r.attempt /\ s.retryCount \in {r.retryCount, r.retryCount + 1}
             /\ worker'[p].pc \in {"retrying", "release"} => Counted(s)
             /\ worker'[p].pc \in PublishingPcs => Terminal(s)
             /\ worker[p].pc \in OwningPcs =>
                  worker'[p].pc \in OwningPcs \/ Terminal(s) \/ Counted(s)
             /\ worker[p].pc \notin OwningPcs => s = r /\ worker'[p].pc \notin OwningPcs
<1> DEFINE w == worker[p]
           d == w.job.id
           r == ledger[d]
           s == ledger'[d]
<1>1. WorkerFrame(p) /\ (BodySteps(p) \/ FailureSteps(p) \/ RetrySteps(p))
  BY WorkerTable
<1>2. /\ w # Idle /\ d \in Deployments /\ r \in StageRecord
      /\ worker'[p].pc = "idle" => worker'[p] = Idle
  BY <1>1 DEF WorkerFrame, TypeOK, Job
<1>3. r.state # "ABSENT"  BY <1>2 DEF RowsExist, Refs
<1>4. \A t : ~StatementErrs(r, s, t)
  BY FaultCounts DEF StatementErrs, OnlyPublishes
<1>5. /\ w.pc \in {"retrying", "release"} => Counted(r)
      /\ w.pc \in PublishingPcs => Terminal(r)
      /\ r.attempt <= r.retryCount + 1
  BY <1>2 DEF CountedInv
<1>6. /\ Terminal(Completed(r)) /\ Terminal(Failed(r))
      /\ r.attempt \in Nat /\ r.retryCount \in Nat
      /\ \A t \in {Completed(r), Failed(r), Released(r)} :
           t.attempt = r.attempt /\ t.retryCount = r.retryCount
      /\ RetryRecorded(r).attempt = r.attempt
      /\ RetryRecorded(r).retryCount = r.retryCount + 1
  BY <1>2, <1>3, TerminalRows, CountedRows
<1>7. /\ RetryRecorded(r).retryCount < MaxAttempts => Counted(RetryRecorded(r))
      /\ Counted(r) => Counted(Released(r))
  BY <1>5, <1>6 DEF Counted
<1> DEFINE Goal ==
      /\ s.attempt = r.attempt /\ s.retryCount \in {r.retryCount, r.retryCount + 1}
      /\ worker'[p].pc \in {"retrying", "release"} => Counted(s)
      /\ worker'[p].pc \in PublishingPcs => Terminal(s)
      /\ w.pc \in OwningPcs => worker'[p].pc \in OwningPcs \/ Terminal(s) \/ Counted(s)
      /\ w.pc \notin OwningPcs => s = r /\ worker'[p].pc \notin OwningPcs
<1> SUFFICES Goal  BY <1>1
<1>8. CASE BodySteps(p)
  BY <1>4, <1>5, <1>6, <1>8
  DEF BodySteps, Goes, Fails, PublishingPcs, OwningPcs, StagePcs
<1>9. CASE FailureSteps(p)
  BY <1>4, <1>5, <1>6, <1>9
  DEF FailureSteps, Goes, AfterFailureError, PublishingPcs, OwningPcs, StagePcs
<1>10. CASE RetrySteps(p)
  BY <1>4, <1>5, <1>6, <1>7, <1>10
  DEF RetrySteps, Goes, Fails, PublishingPcs, OwningPcs, StagePcs
<1>11. QED  BY <1>1, <1>8, <1>9, <1>10

LEMMA WorkerKeepsCount ==
  ASSUME TypeOK, TypeOK', OnlyPublishes', RowsExist, OwnerInv, CountedInv,
         NEW p \in Processes, Worker(p), ~TakeJob(p)
  PROVE  CountedInv'
<1> DEFINE w == worker[p]
           r == ledger[w.job.id]
           s == ledger'[w.job.id]
<1>1. /\ WorkerFrame(p)
      /\ s.attempt = r.attempt /\ s.retryCount \in {r.retryCount, r.retryCount + 1}
      /\ worker'[p].pc \in {"retrying", "release"} => Counted(s)
      /\ worker'[p].pc \in PublishingPcs => Terminal(s)
      /\ w.pc \in OwningPcs => worker'[p].pc \in OwningPcs \/ Terminal(s) \/ Counted(s)
      /\ w.pc \notin OwningPcs => s = r /\ worker'[p].pc \notin OwningPcs
  BY CountingWorker
<1>2. PICK d \in Deployments : d = w.job.id  BY <1>1 DEF WorkerFrame, Job
<1>3. /\ UNCHANGED <<handler, jobs>>
      /\ \A q \in Processes \ {p} : worker'[q] = worker[q]
      /\ \A e \in Deployments \ {d} : ledger'[e] = ledger[e]
      /\ worker'[p].pc # "idle" => worker'[p].job = w.job
      /\ r.retryCount \in Nat
  BY <1>1, <1>2 DEF WorkerFrame, TypeOK, StageRecord
<1>4. "idle" \notin OwningPcs \cup PublishingPcs \cup {"retrying", "release"}
  BY DEF OwningPcs, StagePcs, PublishingPcs
<1>5. ASSUME NEW e \in Deployments
      PROVE  /\ ledger'[e].attempt <= MaxAttempts
             /\ ledger'[e].attempt <= ledger'[e].retryCount + 1
             /\ ~Terminal(ledger'[e]) /\ ~Held(e)' => Counted(ledger'[e])
  <2>1. /\ ledger[e].attempt <= MaxAttempts
        /\ ledger[e].attempt <= ledger[e].retryCount + 1
        /\ ~Terminal(ledger[e]) /\ ~Held(e) => Counted(ledger[e])
    BY DEF CountedInv
  <2>2. Held(e)' <=> \E q \in Processes :
          \/ \E job \in jobs'[q] : job.id = e
          \/ handler'[q].pc = "ack" /\ handler'[q].msg.id = e
          \/ worker'[q].pc \in OwningPcs /\ worker'[q].job.id = e
    BY HeldAfter DEF HeldIn
  <2>3. Held(e) => Held(e)' \/ (e = d /\ w.pc \in OwningPcs /\ worker'[p].pc \notin OwningPcs)
    BY <1>2, <1>3, <1>4, <2>2, HeldBy DEF HeldIn
  <2>4. CASE e # d  BY <1>3, <2>1, <2>3, <2>4
  <2>5. CASE e = d
    <3>1. /\ ledger'[e].attempt <= MaxAttempts
          /\ ledger'[e].attempt <= ledger'[e].retryCount + 1
      <4>1. r.attempt \in Nat  BY <1>2 DEF TypeOK, StageRecord
      <4>2. QED  BY <1>1, <1>2, <1>3, <2>1, <2>5, <4>1
    <3>2. CASE w.pc \in OwningPcs
      <4>1. worker'[p].pc \in OwningPcs => Held(e)'
        BY <1>2, <1>3, <1>4, <2>2, <2>5
      <4>2. QED  BY <1>1, <1>2, <2>5, <3>1, <3>2, <4>1
    <3>3. CASE w.pc \notin OwningPcs  BY <1>1, <1>2, <2>1, <2>3, <2>5, <3>1, <3>3
    <3>4. QED  BY <3>2, <3>3
  <2>6. QED  BY <2>4, <2>5
<1>6. ASSUME NEW q \in Processes
      PROVE  /\ worker'[q].pc \in {"retrying", "release"} =>
                  Counted(ledger'[worker'[q].job.id])
             /\ worker'[q].pc \in PublishingPcs => Terminal(ledger'[worker'[q].job.id])
  <2>1. CASE q = p  BY <1>1, <1>3, <1>4, <2>1
  <2>2. CASE q # p
    <3>1. /\ worker'[q] = worker[q]
          /\ worker[q].pc \in {"retrying", "release"} => Counted(ledger[worker[q].job.id])
          /\ worker[q].pc \in PublishingPcs => Terminal(ledger[worker[q].job.id])
      BY <1>3, <2>2 DEF CountedInv
    <3>2. SUFFICES ASSUME worker[q].pc \in {"retrying", "release"} \cup PublishingPcs
                   PROVE  ledger'[worker[q].job.id] = ledger[worker[q].job.id]
      BY <3>1
    <3>3. worker[q].pc \in OwningPcs
      BY <3>2 DEF OwningPcs, StagePcs, PublishingPcs
    <3>4. worker[q].job.id \in Deployments
      BY <3>3, WorkerFields DEF TypeOK, OwningPcs, StagePcs, Idle, Job
    <3>5. w.pc \in OwningPcs => worker[q].job.id # d
      BY <1>2, <2>2, <3>3, NoOther
    <3>6. QED  BY <1>1, <1>2, <1>3, <3>4, <3>5
  <2>3. QED  BY <2>1, <2>2
<1>7. QED  BY <1>5, <1>6 DEF CountedInv

\* A step of a handler claims a row that is counted, or gives nothing up.
LEMMA HandlerKeepsCount ==
  ASSUME TypeOK, TypeOK', OnlyPublishes', Linked, OwnerInv, CountedInv,
         NEW p \in Processes, Handler(p)
  PROVE  CountedInv'
<1> DEFINE h == handler[p]
           r == ledger[h.msg.id]
<1>1. HandlerFrame(p) /\ (ClaimSteps(p) \/ DeliverySteps(p))
  BY HandlerTable
<1>2. /\ UNCHANGED worker
      /\ \A q \in Processes \ {p} : handler'[q] = handler[q] /\ jobs'[q] = jobs[q]
      /\ h.pc # "ack" => UNCHANGED jobs
      /\ h.pc = "claim" => h.msg.id \in Deployments
  BY <1>1 DEF HandlerFrame
<1>3. \A s, t : ~StatementErrs(r, s, t)
  BY FaultCounts DEF StatementErrs, OnlyPublishes
<1> DEFINE Claims ==
      /\ h.pc = "claim" /\ handler'[p].pc = "ack" /\ handler'[p].msg = h.msg
      /\ Disposition(r) = "ClaimAcquired" /\ ledger'[h.msg.id] = Claimed(r)
           Keeps ==
      /\ \A e \in Deployments : ledger'[e] = ledger[e]
      /\ h.pc = "ack" =>
           \/ handler'[p] = h /\ jobs'[p] = jobs[p]
           \/ jobs'[p] = jobs[p] \cup {AckedJob(p)}
<1>4. Claims \/ Keeps
  <2>1. CASE ClaimSteps(p)
    <3>1. h.pc = "claim"  BY <2>1 DEF ClaimSteps, Returns, Handles
    <3>2. ledger'[h.msg.id] = r => Keeps  BY <1>1, <3>1 DEF HandlerFrame
    <3>3. CASE Handles(p, "claim", "ack") /\ Disposition(r) = "ClaimAcquired"
               /\ ledger'[h.msg.id] = Claimed(r)
      BY <3>3 DEF Handles
    <3>4. QED  BY <1>3, <2>1, <3>2, <3>3 DEF ClaimSteps
  <2>2. CASE DeliverySteps(p)
    <3>1. \A e \in Deployments : ledger'[e] = ledger[e]
      BY <2>2 DEF DeliverySteps, AnswersStored, Accepts
    <3>2. SUFFICES ASSUME h.pc = "ack"
                   PROVE  \/ handler'[p] = h /\ jobs'[p] = jobs[p]
                          \/ jobs'[p] = jobs[p] \cup {AckedJob(p)}
      BY <3>1
    <3>3. h # Idle  BY <3>2 DEF Idle
    <3>4. connected[p] /\ "connection" \notin faults'.kinds
      BY <3>3 DEF Linked, OnlyPublishes
    <3>5. QED
      BY <2>2, <3>2, <3>3, <3>4
      DEF DeliverySteps, AnswersStored, Accepts, Returns, Handles
  <2>3. QED  BY <1>1, <2>1, <2>2
<1>5. \A e : Held(e)' <=> \E q \in Processes :
        \/ \E job \in jobs'[q] : job.id = e
        \/ handler'[q].pc = "ack" /\ handler'[q].msg.id = e
        \/ worker'[q].pc \in OwningPcs /\ worker'[q].job.id = e
  BY HeldAfter DEF HeldIn
<1>6. CASE Keeps
  <2>1. AckedJob(p).id = h.msg.id  BY DEF AckedJob
  <2>2. \A e : Held(e) => Held(e)'  BY <1>2, <1>5, <1>6, <2>1, HeldBy DEF HeldIn
  <2>3. \A q \in Processes : worker[q].pc \in {"retrying", "release"} \cup PublishingPcs =>
          worker[q].job.id \in Deployments
    BY WorkerFields DEF TypeOK, PublishingPcs, Idle, Job
  <2>4. QED  BY <1>2, <1>6, <2>2, <2>3 DEF CountedInv
<1>7. CASE Claims
  <2>1. PICK d \in Deployments : d = h.msg.id  BY <1>2, <1>7
  <2>2. /\ \A e \in Deployments \ {d} : ledger'[e] = ledger[e]
        /\ ledger'[d] = Claimed(ledger[d]) /\ UNCHANGED jobs
    BY <1>1, <1>2, <1>7, <2>1 DEF HandlerFrame
  <2>3. ~Held(d)
    BY <1>7, <2>1 DEF OwnerInv, Protected, Held
  <2>4. /\ Counted(ledger[d]) /\ ledger[d] \in StageRecord
        /\ ledger'[d].attempt = ledger[d].attempt + 1
        /\ ledger'[d].retryCount = ledger[d].retryCount
        /\ ledger[d].attempt \in Nat /\ ledger[d].retryCount \in Nat
    BY <1>7, <2>1, <2>2, <2>3, CountedRows DEF CountedInv, TypeOK
  <2>5. /\ ledger'[d].attempt <= MaxAttempts
        /\ ledger'[d].attempt <= ledger'[d].retryCount + 1
    BY <2>4, ConstantsAssumption DEF Counted
  <2>6. Held(d)'  BY <1>5, <1>7, <2>1
  <2>7. \A e \in Deployments \ {d} : Held(e) => Held(e)'
    BY <1>2, <1>5, <1>7, <2>2, HeldBy DEF HeldIn
  <2>8. \A q \in Processes : worker[q].pc \in {"retrying", "release"} \cup PublishingPcs =>
          worker[q].job.id \in Deployments \ {d}
    <3>1. TAKE q \in Processes
    <3>2. SUFFICES ASSUME worker[q].pc \in {"retrying", "release"} \cup PublishingPcs
                   PROVE  worker[q].job.id \in Deployments \ {d}
      OBVIOUS
    <3>3. worker[q].pc \in OwningPcs
      BY <3>2 DEF OwningPcs, StagePcs, PublishingPcs
    <3>4. worker[q].job.id \in Deployments
      BY <3>3, WorkerFields DEF TypeOK, OwningPcs, StagePcs, Idle, Job
    <3>5. QED  BY <2>3, <3>3, <3>4, HeldBy DEF HeldIn
  <2>9. QED  BY <1>2, <2>2, <2>5, <2>6, <2>7, <2>8 DEF CountedInv
<1>8. QED  BY <1>4, <1>6, <1>7

LEMMA CountedNext ==
  ASSUME TypeOK, TypeOK', OnlyPublishes', Linked, RowsExist, OwnerInv, CountedInv,
         [Next]_vars
  PROVE  CountedInv'
<1>1. ASSUME NEW p \in Processes, Handler(p)  PROVE CountedInv'
  BY <1>1, HandlerKeepsCount
<1>2. ASSUME NEW p \in Processes, Worker(p), ~TakeJob(p)  PROVE CountedInv'
  BY <1>2, WorkerKeepsCount
<1>3. ASSUME NEW p \in Processes, TakeJob(p)  PROVE CountedInv'
  <2>1. /\ UNCHANGED <<handler, ledger>>
        /\ \A q \in Processes \ {p} : worker'[q] = worker[q] /\ jobs'[q] = jobs[q]
    BY <1>3, TakeJobTable
  <2>2. PICK job \in jobs[p] :
          /\ worker[p] = Idle /\ jobs'[p] = jobs[p] \ {job}
          /\ worker'[p].pc = "started" /\ worker'[p].job = job
    BY <1>3, TakeJobTable
  <2>3. /\ "started" \in OwningPcs
        /\ "started" \notin {"retrying", "release"} \cup PublishingPcs
        /\ worker[p].pc \notin OwningPcs
    BY <2>2 DEF OwningPcs, StagePcs, PublishingPcs, Idle
  <2>4. \A e : Held(e)' <=> \E q \in Processes :
          \/ \E j \in jobs'[q] : j.id = e
          \/ handler'[q].pc = "ack" /\ handler'[q].msg.id = e
          \/ worker'[q].pc \in OwningPcs /\ worker'[q].job.id = e
    BY HeldAfter DEF HeldIn
  <2>5. \A e : Held(e) => Held(e)'
    <3>1. TAKE e
    <3>2. \A q \in Processes : \A j \in jobs[q] :
            j \in jobs'[q] \/ (q = p /\ j = job)
      BY <2>1, <2>2
    <3>3. QED  BY <2>1, <2>2, <2>3, <2>4, <3>2, HeldBy DEF HeldIn
  <2>6. QED  BY <2>1, <2>2, <2>3, <2>5 DEF CountedInv
<1>4. ASSUME NEW p \in Processes, Drops(p)  PROVE CountedInv'
  BY <1>4, FaultCounts DEF Drops, OnlyPublishes
<1>5. CASE Elapses
  <2>1. /\ UNCHANGED <<handler, jobs, worker>>
        /\ \A d \in Deployments : SameButLease(ledger[d], ledger'[d])
    BY <1>5 DEF Elapses
  <2>2. \A e : Held(e)' = Held(e)  BY <2>1 DEF Held, Holdings, AckedJob
  <2>3. \A q \in Processes : worker[q].pc \in {"retrying", "release"} \cup PublishingPcs =>
          worker[q].job.id \in Deployments
    BY WorkerFields DEF TypeOK, PublishingPcs, Idle, Job
  <2>4. QED  BY <2>1, <2>2, <2>3 DEF CountedInv, SameButLease, Counted, Terminal
<1>6. QED  BY <1>1, <1>2, <1>3, <1>4, <1>5, EnvironmentTable DEF Next

\* What is inductive under every fault.
AttemptsInv ==
  /\ LeaseInv /\ DeliveryInv
  /\ OnlyPublishes => Linked /\ CountedInv

LEMMA AttemptsNext == AttemptsInv /\ [Next]_vars => AttemptsInv'
<1> SUFFICES ASSUME AttemptsInv, [Next]_vars PROVE AttemptsInv'  OBVIOUS
<1>1. TypeOK /\ LeaseInv /\ DeliveryInv
  BY DEF AttemptsInv, LeaseInv, TypeInv
<1>2. LeaseInv' /\ DeliveryInv'  BY <1>1, LeaseNext, DeliveryNext
<1>3. TypeOK'  BY <1>2 DEF LeaseInv, TypeInv
<1>4. ASSUME OnlyPublishes'  PROVE Linked' /\ CountedInv'
  <2>1. OnlyPublishes  BY <1>1, <1>4, KindsGrow DEF OnlyPublishes
  <2>2. Linked /\ CountedInv  BY <2>1 DEF AttemptsInv
  <2>3. "connection" \notin faults'.kinds  BY <1>4 DEF OnlyPublishes
  <2>4. OwnerInv  BY <1>1, <2>1 DEF LeaseInv, LeasesHeld, OnlyPublishes
  <2>5. RowsExist  BY <1>1 DEF DeliveryInv
  <2>6. Linked'  BY <1>1, <2>2, <2>3, LinkedNext
  <2>7. CountedInv'  BY <1>1, <1>3, <1>4, <2>2, <2>4, <2>5, CountedNext
  <2>8. QED  BY <2>6, <2>7
<1>5. QED  BY <1>2, <1>4 DEF AttemptsInv, OnlyPublishes

\* As long as only publishes have failed, however many, no stage is claimed more
\* than MAX_DELIVERY_ATTEMPTS times.  Crashes alone, connections that drop, ledger
\* calls that err or, with three copies of the request, leases that run out can
\* each make it more.
THEOREM PublishFaultsKeepAttempts == Spec => []PublishRetriesBounded
<1>1. Init => AttemptsInv
  <2> SUFFICES ASSUME Init PROVE AttemptsInv  OBVIOUS
  <2>1. LeaseInv /\ DeliveryInv /\ Linked
    BY OwnerInit, TypeInit, DeliveryInit, KeptInit DEF LeaseInv
  <2>2. /\ \A d \in Deployments : ledger[d].attempt = 0 /\ ledger[d].retryCount = 0
        /\ \A p \in Processes : worker[p].pc = "idle"
    BY DEF Init, NoRecord, Idle
  <2>3. CountedInv
    BY <2>2, ConstantsAssumption DEF CountedInv, Counted, PublishingPcs
  <2>4. QED  BY <2>1, <2>3 DEF AttemptsInv
<1>2. AttemptsInv => PublishRetriesBounded
  BY DEF AttemptsInv, CountedInv, OnlyPublishes, PublishRetriesBounded, AttemptsBounded
<1>3. QED  BY <1>1, <1>2, AttemptsNext, PTL DEF Spec
-----------------------------------------------------------------------------
(* Every fault but a publish that fails leaves a bad request where it is found *)

\* It is still to be delivered, or to be handled, or has been copied.
BadRequestsKept == \A b \in BadRequests : b \in dlq \/ InBroker(b)

\* What a handler is about to acknowledge has its copy.
Copied ==
  \A p \in Processes :
    connected[p] /\ handler[p].pc = "settle" /\ handler[p].msg.id \in BadRequests =>
      handler[p].msg.id \in dlq

\* A handler comes to the last acknowledgement of a bad request with the copy made.
LEMMA HandlerCopies ==
  ASSUME TypeOK, Copied, NEW p \in Processes, Handler(p), "publish" \notin faults'.kinds
  PROVE  Copied' /\ dlq \subseteq dlq'
<1> DEFINE h == handler[p]
<1>1. dlq \subseteq dlq' /\ \A q \in Processes \ {p} : handler'[q] = handler[q]
  BY HandlerTable DEF HandlerFrame
<1>2. \A q \in Processes : connected'[q] => connected[q] \/ handler'[q] = Idle
  <2>1. CASE Connect(p)  BY <2>1 DEF Connect, TypeOK
  <2>2. CASE AckDelivery(p)  BY <2>2 DEF AckDelivery, TypeOK
  <2>3. CASE ~Connect(p) /\ ~AckDelivery(p)
    BY <2>3 DEF Handler, Deliver, ClaimFails, ClaimBusy, ClaimTerminal, ClaimAcquired,
         PublishStored, ProcessDelivery, Settle
  <2>4. QED  BY <2>1, <2>2, <2>3
<1>3. Idle.pc = "idle"  BY DEF Idle
<1> SUFFICES ASSUME NEW q \in Processes, connected'[q], handler'[q].pc = "settle",
                    handler'[q].msg.id \in BadRequests
             PROVE  handler'[q].msg.id \in dlq'
  BY <1>1 DEF Copied
<1>4. connected[q]  BY <1>2, <1>3
<1>5. CASE handler'[q] = handler[q]  BY <1>1, <1>4, <1>5 DEF Copied
<1>6. CASE handler'[q] # handler[q]
  <2>1. q = p /\ h \in HandlerState  BY <1>1, <1>6 DEF TypeOK
  <2>2. CASE ProcessDelivery(p)
    <3>1. h.pc = "processDelivery" /\ handler'[p] = [h EXCEPT !.pc = "settle"]
      BY <2>2 DEF ProcessDelivery, TypeOK
    <3>2. handler'[p].msg = h.msg  BY <2>1, <3>1, SettleFields
    <3>3. ~Fault("publish")  BY FaultCounts
    <3>4. h.msg.id \in dlq'
      BY <1>4, <2>1, <2>2, <3>3 DEF ProcessDelivery, CallBroker
    <3>5. QED  BY <2>1, <3>2, <3>4
  <2>3. CASE ~ProcessDelivery(p)
    <3>1. h.pc # "processDelivery"
      BY <1>3, <2>3 DEF Handler, Connect, Deliver, ClaimFails, ClaimBusy, ClaimTerminal,
           ClaimAcquired, PublishStored, AckDelivery, Settle
    <3>2. HandlerFrame(p) /\ (ClaimSteps(p) \/ DeliverySteps(p))  BY HandlerTable
    <3>3. h.pc = "storedProgress" /\ handler'[p].msg = h.msg
      BY <1>3, <1>6, <2>1, <3>1, <3>2
      DEF ClaimSteps, DeliverySteps, Handles, Returns, Accepts, AnswersStored
    <3>4. h.msg.id \in Deployments  BY <3>2, <3>3 DEF HandlerFrame
    <3>5. QED  BY <2>1, <3>3, <3>4, ConstantsAssumption
  <2>4. QED  BY <2>2, <2>3
<1>7. QED  BY <1>5, <1>6

\* The other steps make no connection and take no delivery.
LEMMA OthersCopy ==
  ASSUME TypeOK, Copied, [Next]_vars, ~(\E p \in Processes : Handler(p))
  PROVE  Copied' /\ dlq \subseteq dlq'
<1>1. dlq \subseteq dlq' /\ \A q \in Processes : handler'[q] \in {handler[q], Idle}
  <2>1. ASSUME NEW p \in Processes, Worker(p), ~TakeJob(p)
        PROVE  dlq \subseteq dlq' /\ UNCHANGED handler
    BY <2>1, WorkerTable DEF WorkerFrame
  <2>2. ASSUME NEW p \in Processes, TakeJob(p)  PROVE UNCHANGED <<dlq, handler>>
    BY <2>2 DEF TakeJob, broker
  <2>3. ASSUME NEW p \in Processes, Drops(p)
        PROVE  UNCHANGED dlq /\ \A q \in Processes : handler'[q] \in {handler[q], Idle}
    BY <2>3 DEF Drops, TypeOK
  <2>4. Elapses => UNCHANGED <<dlq, handler>>  BY DEF Elapses
  <2>5. QED  BY <2>1, <2>2, <2>3, <2>4, EnvironmentTable DEF Next
<1>2. \A q \in Processes : connected'[q] => connected[q]
  <2>1. ASSUME NEW p \in Processes, Worker(p)
        PROVE  connected' \in {connected, [connected EXCEPT ![p] = FALSE]}
    <3>1. CASE PublishRetryOnChannel(p)  BY <3>1 DEF PublishRetryOnChannel
    <3>2. CASE PublishRetry(p)  BY <3>2 DEF PublishRetry
    <3>3. CASE ~PublishRetryOnChannel(p) /\ ~PublishRetry(p)
      BY <2>1, <3>3 DEF Worker, TakeJob, PublishStarted, PrepareSource, BuildAndPush,
           PersistSuccess, PublishSucceeded, PersistFailure, PublishFailed, RecordRetry,
           EmitRetrying, ReleaseClaim, DeadLetter, WorkerPublishes, WorkerPersists
    <3>4. QED  BY <3>1, <3>2, <3>3
  <2>2. Elapses => UNCHANGED connected  BY DEF Elapses
  <2>3. ASSUME NEW p \in Processes, connected' \in {connected, [connected EXCEPT ![p] = FALSE]}
        PROVE  \A q \in Processes : connected'[q] => connected[q]
    BY <2>3 DEF TypeOK
  <2>4. QED  BY <2>1, <2>2, <2>3, EnvironmentTable DEF Next, Drops
<1>3. Idle.pc = "idle"  BY DEF Idle
<1>4. QED  BY <1>1, <1>2, <1>3 DEF Copied

\* Handlers give up a bad request at the last acknowledgement only.
LEMMA BadRequestsNext ==
  ASSUME TypeOK, BadRequestsKept, Copied, [Next]_vars, "publish" \notin faults'.kinds
  PROVE  BadRequestsKept' /\ Copied'
<1>1. Copied' /\ dlq \subseteq dlq'  BY HandlerCopies, OthersCopy
<1>2. SUFFICES ASSUME NEW b \in BadRequests, b \notin dlq, InBroker(b)
               PROVE  InBroker(b)'
  BY <1>1 DEF BadRequestsKept, InBroker
<1>3. ASSUME NEW p \in Processes, Handler(p)  PROVE InBroker(b)'
  <2>1. handler[p].pc = "ack" => handler[p].msg.id \in Deployments
    BY <1>3, HandlerTable DEF HandlerFrame
  <2>2. connected[p] /\ handler[p].pc \in {"ack", "settle"} => handler[p].msg.id # b
    BY <1>2, <2>1, ConstantsAssumption DEF Copied
  <2>3. QED  BY <1>2, <1>3, <2>2, HandlerGivesBack
<1>4. QED  BY <1>2, <1>3, WorkerKeepsInBroker, EnvironmentKeepsInBroker DEF Next

\* What is inductive under every fault.
BadInv == TypeInv /\ ("publish" \notin faults.kinds => BadRequestsKept /\ Copied)

\* A body that does not decode or validate is in the broker, at a handler or in the
\* dead-letter queue until a publish is not confirmed, whatever else fails and
\* however often.  One copyToDLQ that is not confirmed can lose it: the Nack that
\* follows does not requeue (build_consumer.go:355).
THEOREM BadRequestsStay == Spec => []("publish" \notin faults.kinds => BadRequestsKept)
<1>1. Init => BadInv
  <2> SUFFICES ASSUME Init  PROVE BadRequestsKept /\ Copied
    BY TypeInit DEF BadInv
  <2>1. ASSUME NEW b \in BadRequests  PROVE InBroker(b)
    <3> DEFINE m == [id |-> b, attempt |-> 0]
    <3>1. m \in Message /\ m.id = b /\ m.attempt = 0
      BY ConstantsAssumption DEF Message, Attempts
    <3>2. queue[m] = 1  BY <3>1 DEF Init
    <3>3. QED  BY <3>1, <3>2 DEF InBroker
  <2>2. Copied  BY DEF Init, Copied
  <2>3. QED  BY <2>1, <2>2 DEF BadRequestsKept
<1>2. BadInv /\ [Next]_vars => BadInv'
  <2> SUFFICES ASSUME BadInv, [Next]_vars PROVE BadInv'  OBVIOUS
  <2>1. TypeInv' /\ TypeOK  BY TypeNext DEF BadInv, TypeInv
  <2>2. "publish" \notin faults'.kinds => "publish" \notin faults.kinds
    BY <2>1, KindsGrow
  <2>3. QED  BY <2>1, <2>2, BadRequestsNext DEF BadInv
<1>3. BadInv => ("publish" \notin faults.kinds => BadRequestsKept)  BY DEF BadInv
<1>4. QED  BY <1>1, <1>2, <1>3, PTL DEF Spec

=============================================================================
