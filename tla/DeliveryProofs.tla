--------------------------- MODULE DeliveryProofs ---------------------------
(***************************************************************************)
(* No request leaves the broker before it is claimed, and no outcome is     *)
(* published before it is stored, under every fault.  Neither is inductive: *)
(* both need RowsExist, that the ledger has a row for every request that a  *)
(* process has claimed, and the second needs ResultsStored, that it has a   *)
(* result for every outcome that is about to be published.                  *)
(***************************************************************************)
EXTENDS BuildConsumerProofs

PublishingPcs == {"succeededService", "succeededProgress", "failedService", "failedProgress"}
StoredPcs     == {"storedService", "storedProgress"}

\* The requests p has claimed or has found decided.
Refs(p) ==
  {job.id : job \in jobs[p]}
  \cup (IF worker[p] # Idle THEN {worker[p].job.id} ELSE {})
  \cup (IF \/ handler[p].pc \in StoredPcs \cup {"ack"}
           \/ handler[p].pc = "settle" /\ handler[p].msg.id \in Deployments
        THEN {handler[p].msg.id} ELSE {})

\* The requests of which p is about to publish an outcome.
OutcomeRefs(p) ==
  (IF worker[p].pc \in PublishingPcs THEN {worker[p].job.id} ELSE {})
  \cup (IF handler[p].pc \in StoredPcs THEN {handler[p].msg.id} ELSE {})

RowsExist ==
  \A p \in Processes :
    /\ \A d \in Refs(p) : ledger[d].state # "ABSENT"
    /\ handler[p].pc = "processDelivery" => handler[p].msg.id \in BadRequests

ResultsStored ==
  \A p \in Processes : \A d \in OutcomeRefs(p) : ledger[d].result # "none"

DeliveryInv == TypeInv /\ RowsExist /\ ResultsStored

-----------------------------------------------------------------------------
(* References *)

\* What a process refers to are deployments, never bad requests.
LEMMA RefsAreDeployments ==
  ASSUME TypeOK, NEW p \in Processes
  PROVE  Refs(p) \subseteq Deployments /\ OutcomeRefs(p) \subseteq Deployments
<1>1. handler[p].pc \in StoredPcs \cup {"ack"} => handler[p].msg.id \in Deployments
  BY HandlerFields DEF TypeOK, StoredPcs, Request
<1>2. worker[p] # Idle => worker[p].job.id \in Deployments
  BY WorkerFields DEF TypeOK, Job
<1>3. worker[p].pc \in PublishingPcs => worker[p] # Idle
  BY DEF PublishingPcs, Idle
<1>4. \A job \in jobs[p] : job.id \in Deployments  BY DEF TypeOK, Job
<1>5. QED  BY <1>1, <1>2, <1>3, <1>4 DEF Refs, OutcomeRefs

\* Rows and results stay.
LEMMA RowsStay ==
  ASSUME TypeOK, RowsStep, NEW d \in Deployments
  PROVE  /\ ledger[d].state # "ABSENT" => ledger'[d].state # "ABSENT"
         /\ ledger[d].result # "none" => ledger'[d].result # "none"
BY RowStepKeeps DEF TypeOK, RowsStep

\* It is enough to look at the references a step adds.
LEMMA RefsKeepInv ==
  ASSUME DeliveryInv, TypeInv', RowsStep,
         \A p \in Processes :
           /\ \A d \in Refs(p)' : d \in Refs(p) \/ ledger'[d].state # "ABSENT"
           /\ \A d \in OutcomeRefs(p)' : d \in OutcomeRefs(p) \/ ledger'[d].result # "none"
           /\ handler'[p].pc = "processDelivery" => handler'[p].msg.id \in BadRequests
  PROVE  DeliveryInv'
<1>1. TypeOK  BY DEF DeliveryInv, TypeInv
<1>2. ASSUME NEW p \in Processes, NEW d \in Refs(p)'  PROVE ledger'[d].state # "ABSENT"
  <2>1. CASE d \in Refs(p)
    <3>1. d \in Deployments  BY <1>1, <2>1, RefsAreDeployments
    <3>2. ledger[d].state # "ABSENT"  BY <2>1 DEF DeliveryInv, RowsExist
    <3>3. QED  BY <1>1, <3>1, <3>2, RowsStay
  <2>2. QED  BY <1>2, <2>1
<1>3. ASSUME NEW p \in Processes, NEW d \in OutcomeRefs(p)'  PROVE ledger'[d].result # "none"
  <2>1. CASE d \in OutcomeRefs(p)
    <3>1. d \in Deployments  BY <1>1, <2>1, RefsAreDeployments
    <3>2. ledger[d].result # "none"  BY <2>1 DEF DeliveryInv, ResultsStored
    <3>3. QED  BY <1>1, <3>1, <3>2, RowsStay
  <2>2. QED  BY <1>3, <2>1
<1>4. RowsExist'  BY <1>2 DEF RowsExist
<1>5. ResultsStored'  BY <1>3 DEF ResultsStored
<1>6. QED  BY <1>4, <1>5 DEF DeliveryInv

\* The references of a process follow from its job list and its goroutines.
LEMMA RefsUnchanged ==
  ASSUME NEW p \in Processes, jobs'[p] \subseteq jobs[p],
         worker'[p] = worker[p] \/ worker'[p] = Idle,
         handler'[p] = handler[p] \/ handler'[p] = Idle
  PROVE  Refs(p)' \subseteq Refs(p) /\ OutcomeRefs(p)' \subseteq OutcomeRefs(p)
BY DEF Refs, OutcomeRefs, Idle, PublishingPcs, StoredPcs

-----------------------------------------------------------------------------
(* The steps keep DeliveryInv *)

\* A step of the worker adds no reference but to the job it takes, and reaches
\* a publish of an outcome only after Complete or Fail has stored it.
LEMMA WorkerDelivery ==
  ASSUME DeliveryInv, TypeInv', NEW p \in Processes, Worker(p)
  PROVE  DeliveryInv'
<1> DEFINE w == worker[p]
<1>1. TypeOK /\ RowsStep  BY WorkerSteps DEF DeliveryInv, TypeInv
<1>2. UNCHANGED handler
  BY DEF Worker, TakeJob, PublishStarted, PrepareSource, BuildAndPush, PersistSuccess,
         PublishSucceeded, PersistFailure, PublishFailed, RecordRetry, EmitRetrying,
         ReleaseClaim, PublishRetry, PublishRetryOnChannel, DeadLetter,
         WorkerPublishes, WorkerPersists
<1>3. ASSUME w # Idle, UNCHANGED jobs,
             \A q \in Processes \ {p} : worker'[q] = worker[q],
             worker'[p] = Idle \/ worker'[p].job = w.job,
             worker'[p].pc \in PublishingPcs =>
               w.pc \in PublishingPcs \/ ledger'[w.job.id].result # "none"
      PROVE  DeliveryInv'
  <2>1. Refs(p)' \subseteq Refs(p)  BY <1>2, <1>3 DEF Refs
  <2>2. \A d \in OutcomeRefs(p)' : d \in OutcomeRefs(p) \/ ledger'[d].result # "none"
    BY <1>2, <1>3 DEF OutcomeRefs, PublishingPcs, Idle
  <2>3. \A q \in Processes \ {p} :
          Refs(q)' \subseteq Refs(q) /\ OutcomeRefs(q)' \subseteq OutcomeRefs(q)
    BY <1>2, <1>3, RefsUnchanged
  <2>4. \A q \in Processes :
          handler'[q].pc = "processDelivery" => handler'[q].msg.id \in BadRequests
    BY <1>2 DEF DeliveryInv, RowsExist
  <2>5. QED  BY <1>1, <2>1, <2>2, <2>3, <2>4, RefsKeepInv
<1>4. w.pc # "idle" => w # Idle  BY DEF Idle
<1>5. ASSUME NEW pc, w.pc # "idle", Resume(p, pc), UNCHANGED jobs,
             pc \in PublishingPcs =>
               w.pc \in PublishingPcs \/ ledger'[w.job.id].result # "none"
      PROVE  DeliveryInv'
  BY <1>1, <1>3, <1>4, <1>5, ResumeEffect
<1>6. ASSUME NEW caller, w.pc # "idle", CallCompleteFailure(p, caller), UNCHANGED jobs
      PROVE  DeliveryInv'
  BY <1>1, <1>3, <1>4, <1>6, CompleteFailureEffect DEF PublishingPcs
<1>7. ASSUME NEW pc, pc # "idle", NEW event, NEW next, NEW onError,
             next \in PublishingPcs => pc \in PublishingPcs,
             onError \notin PublishingPcs,
             WorkerPublishes(p, pc, event, next, onError)
      PROVE  DeliveryInv'
  BY <1>5, <1>7 DEF WorkerPublishes
<1>8. AfterFailureError(p) \notin PublishingPcs  BY DEF AfterFailureError, PublishingPcs
<1>9. ASSUME w.pc # "idle",
             \/ ledger' = [ledger EXCEPT ![w.job.id] = Completed(ledger[w.job.id])]
             \/ ledger' = [ledger EXCEPT ![w.job.id] = Failed(ledger[w.job.id])]
      PROVE  ledger'[w.job.id].result # "none"
  <2>1. w.job.id \in Deployments  BY <1>1, <1>4, <1>9, WorkerFields DEF TypeOK, Job
  <2>2. ledger[w.job.id] \in StageRecord  BY <1>1, <2>1 DEF TypeOK
  <2>3. ledger[w.job.id].state # "ABSENT"
    BY <1>4, <1>9 DEF DeliveryInv, RowsExist, Refs
  <2>4. /\ Completed(ledger[w.job.id]).result = "succeeded"
        /\ Failed(ledger[w.job.id]).result = "failed"
    BY <2>2, <2>3 DEF Completed, Failed, SetState, StageRecord
  <2>5. QED  BY <1>1, <1>9, <2>1, <2>4 DEF TypeOK
<1>10. CASE TakeJob(p)
  <2>1. PICK job \in jobs[p] :
          /\ jobs' = [jobs EXCEPT ![p] = @ \ {job}]
          /\ worker' = [worker EXCEPT ![p] =
               [pc |-> "started", job |-> job, caller |-> "none", attempt |-> 0]]
    BY <1>10 DEF TakeJob
  <2>2. /\ jobs'[p] \subseteq jobs[p]
        /\ worker'[p].job = job /\ worker'[p].pc = "started"
        /\ \A q \in Processes \ {p} : jobs'[q] = jobs[q] /\ worker'[q] = worker[q]
    BY <1>1, <2>1 DEF TypeOK
  <2>3. Refs(p)' \subseteq Refs(p) /\ OutcomeRefs(p)' \subseteq OutcomeRefs(p)
    BY <1>2, <2>2 DEF Refs, OutcomeRefs, PublishingPcs
  <2>4. \A q \in Processes \ {p} :
          Refs(q)' \subseteq Refs(q) /\ OutcomeRefs(q)' \subseteq OutcomeRefs(q)
    BY <1>2, <2>2, RefsUnchanged
  <2>5. \A q \in Processes :
          handler'[q].pc = "processDelivery" => handler'[q].msg.id \in BadRequests
    BY <1>2 DEF DeliveryInv, RowsExist
  <2>6. QED  BY <1>1, <2>3, <2>4, <2>5, RefsKeepInv
<1>11. CASE PublishStarted(p)  BY <1>7, <1>11 DEF PublishStarted, PublishingPcs
<1>12. CASE PrepareSource(p)
  BY <1>5, <1>6, <1>12 DEF PrepareSource, PublishingPcs
<1>13. CASE BuildAndPush(p)
  BY <1>5, <1>6, <1>13 DEF BuildAndPush, PublishingPcs
<1>14. CASE PersistSuccess(p)
  <2>1. /\ w.pc = "complete" /\ UNCHANGED jobs
        /\ \/ /\ ledger' = [ledger EXCEPT ![w.job.id] = Completed(ledger[w.job.id])]
              /\ Resume(p, "succeededService")
           \/ Resume(p, "recordRetry")
    BY <1>14 DEF PersistSuccess, WorkerPersists, CallLedger
  <2>2. QED  BY <1>5, <1>9, <2>1 DEF PublishingPcs
<1>15. CASE PublishSucceeded(p)  BY <1>7, <1>15 DEF PublishSucceeded, PublishingPcs
<1>16. CASE PersistFailure(p)
  <2>1. /\ w.pc = "fail" /\ UNCHANGED jobs
        /\ \/ /\ ledger' = [ledger EXCEPT ![w.job.id] = Failed(ledger[w.job.id])]
              /\ Resume(p, "failedService")
           \/ Resume(p, AfterFailureError(p))
    BY <1>16 DEF PersistFailure, WorkerPersists, CallLedger
  <2>2. CASE Resume(p, AfterFailureError(p))  BY <1>5, <1>8, <2>1, <2>2
  <2>3. QED  BY <1>5, <1>9, <2>1, <2>2
<1>17. CASE PublishFailed(p)
  <2>1. (IF w.caller = "exhausted" THEN "deadLetter" ELSE "idle") \notin PublishingPcs
    BY DEF PublishingPcs
  <2>2. QED  BY <1>7, <1>8, <1>17, <2>1 DEF PublishFailed, PublishingPcs
<1>18. CASE RecordRetry(p)
  <2> DEFINE next(n) ==
               IF Exhausted(n)
               THEN [w EXCEPT !.pc = "fail", !.caller = "exhausted", !.attempt = n]
               ELSE [w EXCEPT !.pc = "retrying", !.attempt = n]
  <2>1. PICK n : worker' = [worker EXCEPT ![p] = next(n)]
    BY <1>18 DEF RecordRetry
  <2>2. w.pc = "recordRetry" /\ w \in WorkerState /\ w # Idle
    BY <1>1, <1>4, <1>18 DEF RecordRetry, TypeOK
  <2>3. next(n).job = w.job /\ next(n).pc \notin PublishingPcs
    BY <2>2 DEF WorkerState, PublishingPcs
  <2>4. UNCHANGED jobs  BY <1>18 DEF RecordRetry
  <2>5. worker'[p] = next(n) /\ \A q \in Processes \ {p} : worker'[q] = worker[q]
    <3> HIDE DEF next
    <3>1. QED  BY <1>1, <2>1 DEF TypeOK
  <2>6. QED  BY <1>3, <2>2, <2>3, <2>4, <2>5
<1>19. CASE EmitRetrying(p)  BY <1>7, <1>19 DEF EmitRetrying, PublishingPcs
<1>20. CASE ReleaseClaim(p)
  BY <1>5, <1>20 DEF ReleaseClaim, WorkerPersists, PublishingPcs
<1>21. CASE PublishRetry(p)
  BY <1>5, <1>21 DEF PublishRetry, PublishingPcs
<1>22. CASE PublishRetryOnChannel(p) \/ DeadLetter(p)
  BY <1>5, <1>22 DEF PublishRetryOnChannel, DeadLetter, PublishingPcs
<1>23. QED
  BY <1>10, <1>11, <1>12, <1>13, <1>14, <1>15, <1>16, <1>17, <1>18, <1>19, <1>20,
     <1>21, <1>22 DEF Worker

\* A step of the handler adds a reference only when Claim found or wrote a row.
LEMMA HandlerDelivery ==
  ASSUME DeliveryInv, TypeInv', NEW p \in Processes, Handler(p)
  PROVE  DeliveryInv'
<1> DEFINE h == handler[p]
<1>1. TypeOK /\ RowsStep /\ h \in HandlerState
  BY HandlerSteps DEF DeliveryInv, TypeInv, TypeOK
<1>2. UNCHANGED worker
  BY DEF Handler, Connect, Deliver, ClaimFails, ClaimBusy, ClaimTerminal, ClaimAcquired,
         PublishStored, AckDelivery, ProcessDelivery, Settle
<1>3. ASSUME NEW s, handler' = [handler EXCEPT ![p] = s],
             \A q \in Processes : \A job \in jobs'[q] :
               job.id \in Refs(q) \/ ledger'[job.id].state # "ABSENT",
             /\ \/ s.pc \in StoredPcs \cup {"ack"}
                \/ s.pc = "settle" /\ s.msg.id \in Deployments
             => s.msg.id \in Refs(p) \/ ledger'[s.msg.id].state # "ABSENT",
             s.pc \in StoredPcs =>
               s.msg.id \in OutcomeRefs(p) \/ ledger'[s.msg.id].result # "none",
             s.pc = "processDelivery" => s.msg.id \in BadRequests
      PROVE  DeliveryInv'
  <2>1. handler'[p] = s /\ \A q \in Processes \ {p} : handler'[q] = handler[q]
    BY <1>1, <1>3 DEF TypeOK
  <2>2. \A d \in Refs(p)' : d \in Refs(p) \/ ledger'[d].state # "ABSENT"
    BY <1>2, <1>3, <2>1 DEF Refs
  <2>3. \A d \in OutcomeRefs(p)' : d \in OutcomeRefs(p) \/ ledger'[d].result # "none"
    BY <1>2, <1>3, <2>1 DEF OutcomeRefs
  <2>4. \A q \in Processes \ {p} :
          /\ \A d \in Refs(q)' : d \in Refs(q) \/ ledger'[d].state # "ABSENT"
          /\ OutcomeRefs(q)' \subseteq OutcomeRefs(q)
    BY <1>2, <1>3, <2>1 DEF Refs, OutcomeRefs
  <2>5. \A q \in Processes :
          handler'[q].pc = "processDelivery" => handler'[q].msg.id \in BadRequests
    BY <1>3, <2>1 DEF DeliveryInv, RowsExist
  <2>6. QED  BY <1>1, <2>2, <2>3, <2>4, <2>5, RefsKeepInv
<1>4. \A q \in Processes : \A job \in jobs[q] : job.id \in Refs(q)  BY DEF Refs
<1>5. ASSUME handler' = [handler EXCEPT ![p] = Idle], UNCHANGED jobs  PROVE DeliveryInv'
  BY <1>3, <1>4, <1>5 DEF Idle, StoredPcs
<1>6. CASE Connect(p)
  <2>1. handler' = [handler EXCEPT ![p] = Idle] /\ UNCHANGED jobs
    BY <1>1, <1>6 DEF Connect, TypeOK
  <2>2. QED  BY <1>5, <2>1
<1>7. CASE Deliver(p)
  <2>1. PICK m : handler' = [handler EXCEPT ![p] =
            [pc |-> IF m.id \in BadRequests THEN "processDelivery" ELSE "claim",
             msg |-> m]]
    BY <1>7 DEF Deliver
  <2> DEFINE s == [pc |-> IF m.id \in BadRequests THEN "processDelivery" ELSE "claim",
                   msg |-> m]
  <2>2. /\ s.pc \notin StoredPcs \cup {"ack", "settle"}
        /\ s.pc = "processDelivery" => s.msg.id \in BadRequests
    BY DEF StoredPcs
  <2>3. UNCHANGED jobs  BY <1>7 DEF Deliver
  <2> HIDE DEF s
  <2>4. handler' = [handler EXCEPT ![p] = s]  BY <2>1 DEF s
  <2>5. QED  BY <1>3, <1>4, <2>2, <2>3, <2>4
<1>8. CASE ClaimFails(p) \/ ClaimBusy(p) \/ Settle(p)
  BY <1>5, <1>8 DEF ClaimFails, ClaimBusy, Settle, NackRequeue
<1>9. ASSUME h.pc = "claim"
      PROVE  h.msg.id \in Deployments /\ ledger[h.msg.id] \in StageRecord
  BY <1>1, <1>9, HandlerFields DEF TypeOK, Request
<1>10. CASE ClaimTerminal(p)
  <2> DEFINE r == ledger[h.msg.id]
             s == [pc |-> "storedService", msg |-> h.msg, result |-> r.result]
  <2>1. /\ h.pc = "claim" /\ Terminal(r) /\ UNCHANGED <<jobs, ledger>>
        /\ handler' = [handler EXCEPT ![p] = s]
    BY <1>10 DEF ClaimTerminal, Disposition, Terminal
  <2>2. r.result # "none" /\ r.state # "ABSENT"
    BY <1>9, <2>1 DEF DeliveryInv, TypeInv, DecidedHasResult, Terminal
  <2>3. s.msg = h.msg /\ s.pc = "storedService"  OBVIOUS
  <2>4. ledger'[s.msg.id].state # "ABSENT" /\ ledger'[s.msg.id].result # "none"
    BY <2>1, <2>2, <2>3
  <2> HIDE DEF s
  <2>5. QED  BY <1>3, <1>4, <2>1, <2>3, <2>4
<1>11. CASE ClaimAcquired(p)
  <2> DEFINE r == ledger[h.msg.id]
             s == [pc |-> "ack", msg |-> h.msg, claim |-> Claimed(r).attempt]
  <2>1. /\ h.pc = "claim" /\ Disposition(r) = "ClaimAcquired" /\ UNCHANGED jobs
        /\ ledger' = [ledger EXCEPT ![h.msg.id] = Claimed(r)]
        /\ handler' = [handler EXCEPT ![p] = s]
    BY <1>11 DEF ClaimAcquired, CallLedger
  <2>2. Claimed(r).state = "IN_PROGRESS"
    BY <1>9, <2>1 DEF Claimed, StageRecord
  <2>3. s.msg = h.msg /\ s.pc = "ack"  OBVIOUS
  <2>4. ledger'[s.msg.id].state # "ABSENT"
    BY <1>1, <1>9, <2>1, <2>2, <2>3 DEF TypeOK
  <2>5. s.pc \notin StoredPcs /\ s.pc # "processDelivery"  BY <2>3 DEF StoredPcs
  <2> HIDE DEF s
  <2>6. QED  BY <1>3, <1>4, <2>1, <2>4, <2>5
<1>12. CASE PublishStored(p)
  <2> DEFINE next == IF h.pc = "storedService" THEN [h EXCEPT !.pc = "storedProgress"]
                     ELSE [pc |-> "settle", msg |-> h.msg]
  <2>1. h.pc \in StoredPcs /\ UNCHANGED jobs  BY <1>12 DEF PublishStored, StoredPcs
  <2>2. \/ handler' = [handler EXCEPT ![p] = next]
        \/ handler' = [handler EXCEPT ![p] = Idle]
    BY <1>12 DEF PublishStored, NackRequeue
  <2>3. next.msg = h.msg /\ next.pc \in {"storedProgress", "settle"}
    BY <1>1, <2>1 DEF HandlerState, StoredPcs, Idle
  <2>4. next.pc = "settle" \/ next.pc \in StoredPcs  BY <2>3 DEF StoredPcs
  <2>5. h.msg.id \in Refs(p) /\ h.msg.id \in OutcomeRefs(p)
    BY <2>1 DEF Refs, OutcomeRefs
  <2> HIDE DEF next
  <2>6. QED  BY <1>3, <1>4, <1>5, <2>1, <2>2, <2>3, <2>4, <2>5
<1>13. CASE AckDelivery(p)
  <2>1. /\ h.pc = "ack"
        /\ jobs' = jobs \/ jobs' = [jobs EXCEPT ![p] = @ \cup {AckedJob(p)}]
        /\ handler' = [handler EXCEPT ![p] = Idle]
    BY <1>13 DEF AckDelivery
  <2>2. AckedJob(p).id \in Refs(p)  BY <2>1 DEF Refs, AckedJob
  <2>3. \A q \in Processes : \A job \in jobs'[q] : job.id \in Refs(q)
    <3>1. \A q \in Processes : \A job \in jobs'[q] :
            job \in jobs[q] \/ (q = p /\ job = AckedJob(p))
      BY <1>1, <2>1 DEF TypeOK
    <3>2. QED  BY <1>4, <2>2, <3>1
  <2>4. QED  BY <1>3, <2>1, <2>3 DEF Idle, StoredPcs
<1>14. CASE ProcessDelivery(p)
  <2> DEFINE s == [h EXCEPT !.pc = "settle"]
  <2>1. h.pc = "processDelivery" /\ UNCHANGED jobs /\ handler' = [handler EXCEPT ![p] = s]
    BY <1>14 DEF ProcessDelivery
  <2>2. s.pc = "settle" /\ s.msg = h.msg
    BY <1>1, <2>1 DEF HandlerState, Idle
  <2>3. h.msg.id \notin Deployments
    BY <2>1, ConstantsAssumption DEF DeliveryInv, RowsExist
  <2>4. s.pc \notin StoredPcs  BY <2>2 DEF StoredPcs
  <2> HIDE DEF s
  <2>5. QED  BY <1>3, <1>4, <2>1, <2>2, <2>3, <2>4
<1>15. QED
  BY <1>6, <1>7, <1>8, <1>10, <1>11, <1>12, <1>13, <1>14 DEF Handler

\* At the start no process refers to any deployment.
LEMMA DeliveryInit == Init => DeliveryInv
<1> SUFFICES ASSUME Init PROVE DeliveryInv  OBVIOUS
<1>1. \A p \in Processes : Refs(p) = {} /\ OutcomeRefs(p) = {} /\ handler[p] = Idle
  BY DEF Init, Refs, OutcomeRefs, Idle, PublishingPcs, StoredPcs
<1>2. RowsExist /\ ResultsStored  BY <1>1 DEF RowsExist, ResultsStored, Idle
<1>3. QED  BY <1>2, TypeInit DEF DeliveryInv

\* The invariant of the references is inductive.
LEMMA DeliveryNext == DeliveryInv /\ [Next]_vars => DeliveryInv'
<1> SUFFICES ASSUME DeliveryInv, [Next]_vars PROVE DeliveryInv'  OBVIOUS
<1>1. TypeInv' /\ TypeOK /\ RowsStep  BY TypeNext, Steps DEF DeliveryInv, TypeInv
<1>2. ASSUME \A p \in Processes :
               /\ jobs'[p] \subseteq jobs[p]
               /\ worker'[p] = worker[p] \/ worker'[p] = Idle
               /\ handler'[p] = handler[p] \/ handler'[p] = Idle
      PROVE  DeliveryInv'
  <2>1. \A p \in Processes :
          handler'[p].pc = "processDelivery" => handler'[p].msg.id \in BadRequests
    BY <1>2 DEF DeliveryInv, RowsExist, Idle
  <2>2. QED  BY <1>1, <1>2, <2>1, RefsUnchanged, RefsKeepInv
<1>3. ASSUME NEW p \in Processes, Handler(p) \/ Worker(p)  PROVE DeliveryInv'
  BY <1>1, <1>3, HandlerDelivery, WorkerDelivery
<1>4. ASSUME NEW p \in Processes, Crash(p)  PROVE DeliveryInv'
  BY <1>1, <1>2, <1>4 DEF Crash, TypeOK
<1>5. ASSUME UNCHANGED <<handler, jobs, worker>>  PROVE DeliveryInv'
  BY <1>2, <1>5
<1>6. QED
  BY <1>3, <1>4, <1>5 DEF Next, IssueRenewal, ConnectionLost, LandRenewal, LeaseExpires,
     LeaseRunsOut, RetryDue, vars

-----------------------------------------------------------------------------
(* No unclaimed request leaves the broker *)

\* A queue that a message is put into has it, and all that it had before.
LEMMA PutGrows ==
  ASSUME NEW bag \in [Message -> Nat], NEW m \in Message
  PROVE  /\ Put(bag, m)[m] > 0
         /\ \A n \in Message : bag[n] > 0 => Put(bag, m)[n] > 0
BY DEF Put

\* What InBroker rests on, place by place.
LEMMA StaysInBroker ==
  ASSUME NEW d, InBroker(d),
         \A m \in Message : m.id = d =>
           /\ queue[m] > 0 => InBroker(d)'
           /\ retries[m] > 0 => InBroker(d)',
         \A p \in Processes :
           connected[p] /\ handler[p] # Idle /\ handler[p].msg.id = d => InBroker(d)'
  PROVE  InBroker(d)'
<1>1. CASE \E m \in Message : m.id = d /\ (queue[m] > 0 \/ retries[m] > 0)  BY <1>1
<1>2. CASE \E p \in Processes :
             connected[p] /\ handler[p] # Idle /\ handler[p].msg.id = d
  BY <1>2
<1>3. QED  BY <1>1, <1>2 DEF InBroker

\* A handler that gives its message back, or keeps it, while the others go on.
LEMMA HandlerKeepsInBroker ==
  ASSUME NEW d, InBroker(d), NEW p \in Processes,
         \A m \in Message : /\ queue[m] > 0 => queue'[m] > 0
                            /\ retries[m] > 0 => retries'[m] > 0,
         \A q \in Processes \ {p} : connected'[q] = connected[q] /\ handler'[q] = handler[q],
         connected[p] /\ handler[p] # Idle /\ handler[p].msg.id = d =>
           \/ handler[p].msg \in Message /\ queue'[handler[p].msg] > 0
           \/ connected'[p] /\ handler'[p] # Idle /\ handler'[p].msg.id = d
  PROVE  InBroker(d)'
BY StaysInBroker DEF InBroker

\* Losing the connection gives the delivery back.
LEMMA RequeuedGrows ==
  ASSUME TypeOK, NEW p \in Processes
  PROVE  /\ \A m \in Message : queue[m] > 0 => Requeued(p)[m] > 0
         /\ connected[p] /\ handler[p] # Idle =>
              handler[p].msg \in Message /\ Requeued(p)[handler[p].msg] > 0
<1>1. handler[p] # Idle => handler[p].msg \in Message  BY HandlerFields DEF TypeOK
<1>2. QED  BY <1>1, PutGrows DEF Requeued, TypeOK

\* A handler gives up a delivery that is still the broker's by a Nack that requeues
\* it, by the early ack or by the last one.
LEMMA HandlerGivesBack ==
  ASSUME TypeOK, NEW p \in Processes, Handler(p), NEW d, InBroker(d),
         connected[p] /\ handler[p].pc \in {"ack", "settle"} => handler[p].msg.id # d
  PROVE  InBroker(d)'
<1> DEFINE h == handler[p]
<1>1. TypeOK /\ h \in HandlerState  BY DEF TypeOK
<1>2. h # Idle => h.msg \in Message  BY <1>1, HandlerFields
<1>3. ASSUME NEW s, handler' = [handler EXCEPT ![p] = s], UNCHANGED <<queue, retries, connected>>,
             h # Idle /\ h.msg.id = d => s # Idle /\ s.msg.id = d
      PROVE  InBroker(d)'
  <2>1. handler'[p] = s /\ \A q \in Processes \ {p} : handler'[q] = handler[q]
    BY <1>1, <1>3 DEF TypeOK
  <2>2. QED  BY <1>3, <2>1, HandlerKeepsInBroker
<1>4. ASSUME h # Idle, NackRequeue(p), UNCHANGED <<retries, connected>>  PROVE InBroker(d)'
  <2>1. /\ \A q \in Processes \ {p} : handler'[q] = handler[q]
        /\ queue' = IF connected[p] THEN Put(queue, h.msg) ELSE queue
    BY <1>1, <1>4 DEF NackRequeue, TypeOK
  <2>2. /\ \A m \in Message : queue[m] > 0 => queue'[m] > 0
        /\ connected[p] => queue'[h.msg] > 0
    BY <1>1, <1>2, <1>4, <2>1, PutGrows DEF TypeOK
  <2>3. QED  BY <1>2, <1>4, <2>1, <2>2, HandlerKeepsInBroker
<1>5. CASE Connect(p)
  <2>1. /\ h = Idle /\ UNCHANGED <<queue, retries, handler>>
        /\ \A q \in Processes \ {p} : connected'[q] = connected[q]
    BY <1>1, <1>5 DEF Connect, broker, TypeOK
  <2>2. QED  BY <2>1, HandlerKeepsInBroker
<1>6. CASE Deliver(p)
  <2>1. PICK m \in Message :
          /\ queue[m] > 0
          /\ queue' = Take(queue, m)
          /\ handler' = [handler EXCEPT ![p] =
               [pc |-> IF m.id \in BadRequests THEN "processDelivery" ELSE "claim",
                msg |-> m]]
    BY <1>6 DEF Deliver
  <2> DEFINE s == [pc |-> IF m.id \in BadRequests THEN "processDelivery" ELSE "claim",
                   msg |-> m]
  <2>2. s.pc # "idle" /\ s.msg = m  OBVIOUS
  <2>3. s # Idle  BY <2>2 DEF Idle
  <2> HIDE DEF s
  <2>4. handler' = [handler EXCEPT ![p] = s]  BY <2>1 DEF s
  <2>5. /\ handler'[p] = s /\ \A q \in Processes \ {p} : handler'[q] = handler[q]
        /\ connected[p] /\ h = Idle /\ UNCHANGED <<retries, connected>>
    BY <1>1, <1>6, <2>4 DEF Deliver, TypeOK
  <2>6. m.id = d => InBroker(d)'  BY <2>2, <2>3, <2>5 DEF InBroker
  <2>7. \A n \in Message : n # m => queue'[n] = queue[n]
    BY <1>1, <2>1 DEF Take, TypeOK
  <2>8. \A n \in Message : n.id = d /\ queue[n] > 0 => InBroker(d)'
    BY <2>6, <2>7 DEF InBroker
  <2>9. \A n \in Message : n.id = d /\ retries[n] > 0 => InBroker(d)'
    BY <2>5 DEF InBroker
  <2>10. \A q \in Processes :
           connected[q] /\ handler[q] # Idle /\ handler[q].msg.id = d => InBroker(d)'
    BY <2>5 DEF InBroker
  <2>11. QED  BY <2>8, <2>9, <2>10, StaysInBroker
<1>7. CASE ClaimFails(p) \/ ClaimBusy(p)
  <2>1. h.pc = "claim" /\ NackRequeue(p) /\ UNCHANGED <<retries, connected>>
    BY <1>7 DEF ClaimFails, ClaimBusy
  <2>2. h # Idle  BY <2>1 DEF Idle
  <2>3. QED  BY <1>4, <2>1, <2>2
<1>8. CASE ClaimTerminal(p)
  <2> DEFINE s == [pc |-> "storedService", msg |-> h.msg, result |-> ledger[h.msg.id].result]
  <2>1. handler' = [handler EXCEPT ![p] = s] /\ UNCHANGED <<queue, retries, connected>>
    BY <1>8 DEF ClaimTerminal, broker
  <2>2. s.pc = "storedService" /\ s.msg = h.msg  OBVIOUS
  <2>3. s # Idle  BY <2>2 DEF Idle
  <2> HIDE DEF s
  <2>4. QED  BY <1>3, <2>1, <2>2, <2>3
<1>9. CASE ClaimAcquired(p)
  <2> DEFINE s == [pc |-> "ack", msg |-> h.msg, claim |-> Claimed(ledger[h.msg.id]).attempt]
  <2>1. handler' = [handler EXCEPT ![p] = s] /\ UNCHANGED <<queue, retries, connected>>
    BY <1>9 DEF ClaimAcquired, broker
  <2>2. s.pc = "ack" /\ s.msg = h.msg  OBVIOUS
  <2>3. s # Idle  BY <2>2 DEF Idle
  <2> HIDE DEF s
  <2>4. QED  BY <1>3, <2>1, <2>2, <2>3
<1>10. CASE PublishStored(p)
  <2> DEFINE next == IF h.pc = "storedService" THEN [h EXCEPT !.pc = "storedProgress"]
                     ELSE [pc |-> "settle", msg |-> h.msg]
  <2>1. /\ h.pc \in StoredPcs /\ UNCHANGED <<retries, connected>>
        /\ \/ handler' = [handler EXCEPT ![p] = next] /\ UNCHANGED queue
           \/ NackRequeue(p)
    BY <1>10 DEF PublishStored, StoredPcs
  <2>2. next.msg = h.msg /\ next.pc \in {"storedProgress", "settle"}
    BY <1>1, <2>1 DEF HandlerState, StoredPcs, Idle
  <2>3. next # Idle /\ h # Idle  BY <2>1, <2>2 DEF Idle, StoredPcs
  <2> HIDE DEF next
  <2>4. QED  BY <1>3, <1>4, <2>1, <2>2, <2>3
<1>11. CASE AckDelivery(p)
  <2>1. connected[p] => h.msg.id # d  BY <1>11 DEF AckDelivery
  <2>2. /\ \A q \in Processes \ {p} : connected'[q] = connected[q] /\ handler'[q] = handler[q]
        /\ queue' = queue \/ queue' = Put(queue, h.msg)
        /\ UNCHANGED retries
    BY <1>1, <1>11 DEF AckDelivery, TypeOK
  <2>3. h.msg \in Message  BY <1>2, <1>11 DEF AckDelivery, Idle
  <2>4. \A m \in Message : queue[m] > 0 => queue'[m] > 0
    BY <1>1, <2>2, <2>3, PutGrows DEF TypeOK
  <2>5. QED  BY <2>1, <2>2, <2>4, HandlerKeepsInBroker
<1>12. CASE ProcessDelivery(p)
  <2> DEFINE s == [h EXCEPT !.pc = "settle"]
  <2>1. /\ h.pc = "processDelivery" /\ handler' = [handler EXCEPT ![p] = s]
        /\ UNCHANGED <<queue, retries, connected>>
    BY <1>12 DEF ProcessDelivery
  <2>2. s.pc = "settle" /\ s.msg = h.msg
    BY <1>1, <2>1 DEF HandlerState, Idle
  <2>3. s # Idle  BY <2>2 DEF Idle
  <2> HIDE DEF s
  <2>4. QED  BY <1>3, <2>1, <2>2, <2>3
<1>13. CASE Settle(p)
  <2>1. h.pc = "settle" /\ handler' = [handler EXCEPT ![p] = Idle]
        /\ UNCHANGED <<queue, retries, connected>>
    BY <1>13 DEF Settle, broker
  <2>2. connected[p] => h.msg.id # d  BY <2>1
  <2>3. \A q \in Processes \ {p} : handler'[q] = handler[q]  BY <1>1, <2>1 DEF TypeOK
  <2>4. QED  BY <2>1, <2>2, <2>3, HandlerKeepsInBroker
<1>14. QED
  BY <1>5, <1>6, <1>7, <1>8, <1>9, <1>10, <1>11, <1>12, <1>13 DEF Handler

\* A handler gives up the delivery of an unclaimed request only by a Nack that
\* requeues it: every other way out leads through a row in the ledger.
LEMMA HandlerUnclaimed ==
  ASSUME DeliveryInv, NEW p \in Processes, Handler(p),
         NEW d \in Deployments, ledger'[d].state = "ABSENT", InBroker(d)
  PROVE  InBroker(d)'
<1>1. TypeOK /\ RowsStep  BY HandlerSteps DEF DeliveryInv, TypeInv
<1>2. ledger[d].state = "ABSENT"  BY <1>1, RowsStay
<1>3. d \notin Refs(p)  BY <1>2 DEF DeliveryInv, RowsExist
<1>4. handler[p].pc \in {"ack", "settle"} => handler[p].msg.id # d
  BY <1>3 DEF Refs
<1>5. QED  BY <1>1, <1>4, HandlerGivesBack

\* A worker takes nothing out of the broker.
LEMMA WorkerKeepsInBroker ==
  ASSUME TypeOK, NEW p \in Processes, Worker(p), NEW d, InBroker(d)
  PROVE  InBroker(d)'
<1>1. TypeOK  OBVIOUS
<1>2. UNCHANGED handler
  BY DEF Worker, TakeJob, PublishStarted, PrepareSource, BuildAndPush, PersistSuccess,
         PublishSucceeded, PersistFailure, PublishFailed, RecordRetry, EmitRetrying,
         ReleaseClaim, PublishRetry, PublishRetryOnChannel, DeadLetter,
         WorkerPublishes, WorkerPersists
<1>3. ASSUME UNCHANGED <<queue, connected>>,
             UNCHANGED retries \/ retries' = Put(retries, RetryMessage(p))
      PROVE  InBroker(d)'
  <2>1. \A m \in Message : retries[m] > 0 => retries'[m] > 0
    BY <1>1, <1>3 DEF Put, TypeOK
  <2>2. QED  BY <1>2, <1>3, <2>1, HandlerKeepsInBroker
<1>4. CASE PublishRetry(p)
  BY <1>3, <1>4 DEF PublishRetry
<1>5. CASE PublishRetryOnChannel(p)
  <2>1. CASE UNCHANGED <<queue, connected>>
    BY <1>3, <1>5, <2>1 DEF PublishRetryOnChannel
  <2>2. CASE connected' = [connected EXCEPT ![p] = FALSE]
             /\ queue' = Requeued(p) /\ UNCHANGED retries
    <3>1. \A q \in Processes \ {p} : connected'[q] = connected[q]
      BY <1>1, <2>2 DEF TypeOK
    <3>2. QED  BY <1>1, <1>2, <2>2, <3>1, RequeuedGrows, HandlerKeepsInBroker
  <2>3. QED  BY <1>5, <2>1, <2>2 DEF PublishRetryOnChannel
<1>6. CASE ~PublishRetry(p) /\ ~PublishRetryOnChannel(p)
  <2>1. UNCHANGED <<queue, connected, retries>>
    BY <1>6 DEF Worker, TakeJob, PublishStarted, PrepareSource, BuildAndPush,
         PersistSuccess, PublishSucceeded, PersistFailure, PublishFailed, RecordRetry,
         EmitRetrying, ReleaseClaim, DeadLetter, WorkerPublishes, WorkerPersists, broker
  <2>2. QED  BY <1>3, <2>1
<1>7. QED  BY <1>4, <1>5, <1>6

\* Lost connections and crashes requeue what was delivered; a TTL moves a copy.
LEMMA EnvironmentKeepsInBroker ==
  ASSUME TypeOK, NEW d, InBroker(d),
         \/ \E p \in Processes : IssueRenewal(p) \/ ConnectionLost(p) \/ Crash(p)
         \/ \E e \in Deployments : LandRenewal(e) \/ LeaseExpires(e) \/ LeaseRunsOut(e)
         \/ RetryDue \/ UNCHANGED vars
  PROVE  InBroker(d)'
<1>1. ASSUME UNCHANGED <<queue, retries, connected, handler>>  PROVE InBroker(d)'
  BY <1>1 DEF InBroker
<1>2. ASSUME NEW p \in Processes, ConnectionLost(p) \/ Crash(p)  PROVE InBroker(d)'
  <2>1. /\ queue' = Requeued(p) /\ UNCHANGED retries
        /\ \A q \in Processes \ {p} : connected'[q] = connected[q] /\ handler'[q] = handler[q]
    BY <1>2 DEF ConnectionLost, Crash, TypeOK
  <2>2. QED  BY <2>1, RequeuedGrows, HandlerKeepsInBroker
<1>3. CASE RetryDue
  <2>1. PICK m \in Message :
          retries[m] > 0 /\ retries' = Take(retries, m) /\ queue' = Put(queue, m)
    BY <1>3 DEF RetryDue
  <2>2. /\ queue'[m] > 0
        /\ \A n \in Message : /\ queue[n] > 0 => queue'[n] > 0
                              /\ n # m => retries'[n] = retries[n]
    BY <2>1, PutGrows DEF Take, TypeOK
  <2>3. UNCHANGED <<connected, handler>>  BY <1>3 DEF RetryDue
  <2>4. QED  BY <2>2, <2>3, StaysInBroker DEF InBroker
<1>4. QED
  BY <1>1, <1>2, <1>3 DEF IssueRenewal, LandRenewal, LeaseExpires, LeaseRunsOut, vars, broker

\* At the start every request is in the build queue.
LEMMA UnclaimedInit == Init => UnclaimedInBroker
<1> SUFFICES ASSUME Init, NEW d \in Deployments PROVE InBroker(d)
  BY DEF UnclaimedInBroker
<1> DEFINE m == [id |-> d, attempt |-> 0]
<1>1. m \in Message /\ m.id = d /\ m.attempt = 0
  BY ConstantsAssumption DEF Message, Attempts
<1>2. queue[m] = Copies  BY <1>1, ConstantsAssumption DEF Init
<1>3. queue[m] > 0  BY <1>2, ConstantsAssumption
<1>4. QED  BY <1>1, <1>3 DEF InBroker

\* With the references, UnclaimedInBroker is inductive.
LEMMA UnclaimedNext ==
  UnclaimedInBroker /\ DeliveryInv /\ [Next]_vars => UnclaimedInBroker'
<1> SUFFICES ASSUME UnclaimedInBroker, DeliveryInv, [Next]_vars,
                    NEW d \in Deployments, ledger'[d].state = "ABSENT"
             PROVE  InBroker(d)'
  BY DEF UnclaimedInBroker, InBroker
<1>1. TypeOK /\ RowsStep  BY Steps DEF DeliveryInv, TypeInv
<1>2. ledger[d].state = "ABSENT"  BY <1>1, RowsStay
<1>3. InBroker(d)  BY <1>2 DEF UnclaimedInBroker
<1>4. QED
  BY <1>1, <1>3, HandlerUnclaimed, WorkerKeepsInBroker, EnvironmentKeepsInBroker DEF Next

\* A request that nobody has claimed is in the broker, whatever fails: the early
\* acknowledgement comes after the claim on every path of acceptDelivery.
THEOREM UnclaimedStaysInBroker == Spec => []UnclaimedInBroker
<1>1. QED
  BY UnclaimedInit, UnclaimedNext, DeliveryInit, DeliveryNext, PTL DEF Spec

-----------------------------------------------------------------------------
(* No outcome is published before it is stored *)

\* With the references, OutcomeStoredFirst is inductive.
LEMMA OutcomeNext == OutcomeStoredFirst /\ DeliveryInv /\ [Next]_vars => OutcomeStoredFirst'
<1> DEFINE Outcomes == OutcomeEvents("succeeded") \cup OutcomeEvents("failed")
<1> SUFFICES ASSUME OutcomeStoredFirst, DeliveryInv, [Next]_vars,
                    NEW d \in Deployments, published'[d] \cap Outcomes # {}
             PROVE  ledger'[d].result # "none"
  BY DEF OutcomeStoredFirst
<1>1. TypeOK /\ RowsStep  BY Steps DEF DeliveryInv, TypeInv
<1>2. ASSUME published'[d] \cap Outcomes \subseteq published[d]
      PROVE  ledger'[d].result # "none"
  <2>1. ledger[d].result # "none"  BY <1>2 DEF OutcomeStoredFirst
  <2>2. QED  BY <1>1, <2>1, RowsStay
<1>3. ASSUME NEW p \in Processes, NEW e, NEW event, NEW ok, Publish(p, e, event, ok),
             event \in Outcomes => e \in OutcomeRefs(p)
      PROVE  ledger'[d].result # "none"
  <2>1. published'[d] = published[d] \/ (d = e /\ published'[d] = published[d] \cup {event})
    BY <1>1, <1>3 DEF Publish, TypeOK
  <2>2. CASE d \in OutcomeRefs(p)
    <3>1. ledger[d].result # "none"  BY <2>2 DEF DeliveryInv, ResultsStored
    <3>2. QED  BY <1>1, <3>1, RowsStay
  <2>3. CASE d \notin OutcomeRefs(p)  BY <1>2, <1>3, <2>1, <2>3
  <2>4. QED  BY <2>2, <2>3
<1>4. ASSUME UNCHANGED published  PROVE ledger'[d].result # "none"
  BY <1>2, <1>4
<1>5. ASSUME NEW p \in Processes, NEW pc, NEW event, NEW next, NEW onError,
             WorkerPublishes(p, pc, event, next, onError),
             event \in Outcomes => pc \in PublishingPcs
      PROVE  ledger'[d].result # "none"
  <2>1. worker[p].pc \in PublishingPcs => worker[p].job.id \in OutcomeRefs(p)
    BY DEF OutcomeRefs
  <2>2. QED  BY <1>3, <1>5, <2>1 DEF WorkerPublishes
<1>6. "BUILDING" \notin Outcomes /\ "BUILD_RETRYING" \notin Outcomes
  BY DEF OutcomeEvents, ServiceEvent, ProgressEvent
<1> HIDE DEF Outcomes
<1>7. ASSUME NEW p \in Processes, PublishStored(p)  PROVE ledger'[d].result # "none"
  <2>1. /\ handler[p].pc \in StoredPcs
        /\ \E event, ok : Publish(p, handler[p].msg.id, event, ok)
    BY <1>7 DEF PublishStored, StoredPcs
  <2>2. handler[p].msg.id \in OutcomeRefs(p)  BY <2>1 DEF OutcomeRefs
  <2>3. QED  BY <1>3, <2>1, <2>2
<1>8. ASSUME NEW p \in Processes, Handler(p), ~PublishStored(p)
      PROVE  ledger'[d].result # "none"
  BY <1>4, <1>8 DEF Handler, Connect, Deliver, ClaimFails, ClaimBusy, ClaimTerminal,
     ClaimAcquired, AckDelivery, ProcessDelivery, Settle
<1>9. ASSUME NEW p \in Processes,
             PublishStarted(p) \/ PublishSucceeded(p) \/ PublishFailed(p) \/ EmitRetrying(p)
      PROVE  ledger'[d].result # "none"
  BY <1>5, <1>6, <1>9
     DEF PublishStarted, PublishSucceeded, PublishFailed, EmitRetrying, PublishingPcs
<1>10. ASSUME NEW p \in Processes, Worker(p),
              ~(PublishStarted(p) \/ PublishSucceeded(p) \/ PublishFailed(p) \/ EmitRetrying(p))
       PROVE  ledger'[d].result # "none"
  BY <1>4, <1>10 DEF Worker, TakeJob, PrepareSource, BuildAndPush, PersistSuccess,
     PersistFailure, RecordRetry, ReleaseClaim, PublishRetry, PublishRetryOnChannel,
     DeadLetter, WorkerPersists
<1>11. QED
  BY <1>4, <1>7, <1>8, <1>9, <1>10 DEF Next, IssueRenewal, ConnectionLost, Crash,
     LandRenewal, LeaseExpires, LeaseRunsOut, RetryDue, vars

\* Complete and Fail come before every event of an outcome, on every path and
\* under every fault, and the ledger keeps a result from then on.
THEOREM OutcomeIsStoredFirst == Spec => []OutcomeStoredFirst
<1>1. Init => OutcomeStoredFirst  BY DEF Init, OutcomeStoredFirst
<1>2. QED  BY <1>1, OutcomeNext, DeliveryInit, DeliveryNext, PTL DEF Spec

=============================================================================
