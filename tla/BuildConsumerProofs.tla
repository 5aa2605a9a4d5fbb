------------------------ MODULE BuildConsumerProofs ------------------------
(***************************************************************************)
(* Proofs about BuildConsumer, for every value of the constants: types, and *)
(* the counters of the ledger.  Steps says what every action does, and the  *)
(* other modules of proofs start from it: the types are kept, and each row  *)
(* of the ledger makes at most one method call.                             *)
(***************************************************************************)
EXTENDS BuildConsumerProperties, TLAPS

-----------------------------------------------------------------------------
(* Rows of the ledger *)

\* The methods of the ledger take a row to a row.
LEMMA RowOperators ==
  ASSUME NEW r \in StageRecord
  PROVE  /\ Claimed(r) \in StageRecord
         /\ Renewed(r) \in StageRecord
         /\ Completed(r) \in StageRecord
         /\ Failed(r) \in StageRecord
         /\ Released(r) \in StageRecord
         /\ RetryRecorded(r) \in StageRecord
         /\ [r EXCEPT !.lease = "expired"] \in StageRecord
<1> USE DEF StageRecord, StageStates, Leases, Results
<1>1. Claimed(r) \in StageRecord
  <2>1. CASE Disposition(r) = "ClaimAcquired"
    <3>1. r.attempt + 1 \in Nat  OBVIOUS
    <3>2. QED  BY <2>1, <3>1 DEF Claimed
  <2>2. CASE Disposition(r) # "ClaimAcquired"  BY <2>2 DEF Claimed
  <2>3. QED  BY <2>1, <2>2
<1>2. Renewed(r) \in StageRecord  BY DEF Renewed
<1>3. Completed(r) \in StageRecord  BY DEF Completed, SetState
<1>4. Failed(r) \in StageRecord  BY DEF Failed, SetState
<1>5. Released(r) \in StageRecord  BY DEF Released
<1>6. RetryRecorded(r) \in StageRecord  BY DEF RetryRecorded
<1>7. [r EXCEPT !.lease = "expired"] \in StageRecord  OBVIOUS
<1>8. QED  BY <1>1, <1>2, <1>3, <1>4, <1>5, <1>6, <1>7

\* What one step may do to one row: one method call, or the lease runs out.
RowStep(r, s) ==
  s \in {r, Claimed(r), Renewed(r), Completed(r), Failed(r), Released(r),
         RetryRecorded(r), [r EXCEPT !.lease = "expired"]}

\* A row that exists stays, a result that is stored stays, a decided row has a
\* result, and the counters only grow.
LEMMA RowStepKeeps ==
  ASSUME NEW r \in StageRecord, NEW s, RowStep(r, s)
  PROVE  /\ s \in StageRecord
         /\ r.state # "ABSENT" => s.state # "ABSENT"
         /\ r.result # "none" => s.result # "none"
         /\ (Terminal(r) => r.result # "none") => (Terminal(s) => s.result # "none")
         /\ r.attempt <= s.attempt
         /\ r.retryCount <= s.retryCount
<1>1. s \in StageRecord  BY RowOperators DEF RowStep
<1>2. r.attempt \in Nat /\ r.retryCount \in Nat  BY DEF StageRecord
<1>3. CASE s = r  BY <1>1, <1>2, <1>3
<1>4. CASE s = Claimed(r)
  <2>1. CASE Disposition(r) = "ClaimAcquired"
    <3>1. /\ s.state = "IN_PROGRESS" /\ s.result = r.result
          /\ s.attempt = r.attempt + 1 /\ s.retryCount = r.retryCount
      BY <1>4, <2>1 DEF Claimed, StageRecord
    <3>2. QED  BY <1>1, <1>2, <3>1 DEF Terminal
  <2>2. CASE Disposition(r) # "ClaimAcquired"  BY <1>3, <1>4, <2>2 DEF Claimed
  <2>3. QED  BY <2>1, <2>2
<1>5. CASE s = Renewed(r) \/ s = [r EXCEPT !.lease = "expired"]
  <2>1. /\ s.state = r.state /\ s.result = r.result
        /\ s.attempt = r.attempt /\ s.retryCount = r.retryCount
    BY <1>5 DEF Renewed, StageRecord
  <2>2. QED  BY <1>1, <1>2, <2>1 DEF Terminal
<1>6. CASE s = Completed(r) \/ s = Failed(r)
  <2>1. r.state # "ABSENT" => s.state # "ABSENT" /\ s.result # "none"
    BY <1>6 DEF Completed, Failed, SetState, StageRecord
  <2>2. /\ s.attempt = r.attempt /\ s.retryCount = r.retryCount
        /\ r.state = "ABSENT" => s = r
    BY <1>6 DEF Completed, Failed, SetState, StageRecord
  <2>3. QED  BY <1>1, <1>2, <2>1, <2>2 DEF Terminal
<1>7. CASE s = Released(r)
  <2>1. /\ r.state # "ABSENT" => s.state = "IN_PROGRESS"
        /\ s.attempt = r.attempt /\ s.retryCount = r.retryCount
        /\ s.result = r.result
        /\ r.state = "ABSENT" => s = r
    BY <1>7 DEF Released, StageRecord
  <2>2. QED  BY <1>1, <1>2, <2>1 DEF Terminal
<1>8. CASE s = RetryRecorded(r)
  <2>1. /\ s.state = r.state /\ s.result = r.result /\ s.attempt = r.attempt
        /\ s.retryCount = r.retryCount \/ s.retryCount = r.retryCount + 1
    BY <1>8 DEF RetryRecorded, StageRecord
  <2>2. QED  BY <1>1, <1>2, <2>1 DEF Terminal
<1>9. QED  BY <1>3, <1>4, <1>5, <1>6, <1>7, <1>8 DEF RowStep

\* The absent row is a row.
LEMMA NoRecordType == NoRecord \in StageRecord
BY DEF NoRecord, StageRecord, StageStates, Leases, Results

-----------------------------------------------------------------------------
(* States of the goroutines and the broker's bags *)

\* What the program counter says about the delivery of a handler.
LEMMA HandlerFields ==
  ASSUME NEW h \in HandlerState
  PROVE  /\ h # Idle => h.msg \in Message
         /\ h.pc \in {"claim", "ack", "storedService", "storedProgress"} =>
              h.msg \in Request
         /\ h.pc = "ack" => h.claim \in Nat
         /\ h.pc \in {"storedService", "storedProgress"} =>
              h.result \in {"succeeded", "failed"}
         /\ h.pc = "idle" <=> h = Idle
<1>1. CASE h = Idle  BY <1>1 DEF Idle
<1>2. CASE h \in [pc: {"processDelivery", "settle"}, msg: Message]  BY <1>2 DEF Idle
<1>3. CASE h \in [pc: {"claim"}, msg: Request]
  BY <1>3 DEF Idle, Request, Message
<1>4. CASE h \in [pc: {"ack"}, msg: Request, claim: Nat]
  BY <1>4 DEF Idle, Request, Message
<1>5. CASE h \in [pc: {"storedService", "storedProgress"}, msg: Request,
                  result: {"succeeded", "failed"}]
  BY <1>5 DEF Idle, Request, Message
<1>6. QED  BY <1>1, <1>2, <1>3, <1>4, <1>5 DEF HandlerState

\* What the program counter says about the job of a worker.
LEMMA WorkerFields ==
  ASSUME NEW w \in WorkerState
  PROVE  /\ w # Idle => /\ w.job \in Job
                        /\ w.caller \in Callers
                        /\ w.attempt \in Nat
         /\ w.pc \in RetryPcs => w.attempt \in Attempts
         /\ w.pc = "idle" <=> w = Idle
<1>1. CASE w = Idle  BY <1>1 DEF Idle, RetryPcs
<1>2. CASE w \in [pc: StagePcs \cup {"deadLetter"}, job: Job, caller: Callers, attempt: Nat]
  BY <1>2 DEF Idle, StagePcs, RetryPcs
<1>3. CASE w \in [pc: RetryPcs, job: Job, caller: Callers, attempt: Attempts]
  <2>1. w.attempt \in Nat  BY <1>3, ConstantsAssumption DEF Attempts
  <2>2. QED  BY <1>3, <2>1 DEF Idle, RetryPcs
<1>4. QED  BY <1>1, <1>2, <1>3 DEF WorkerState

\* Resume and CallCompleteFailure leave a worker in a state of its type.
LEMMA WorkerMoves ==
  ASSUME NEW w \in WorkerState, w # Idle, NEW pc
  PROVE  /\ pc \in StagePcs \cup {"deadLetter"} =>
              /\ [w EXCEPT !.pc = pc] \in WorkerState
              /\ \A c \in Callers : [w EXCEPT !.pc = pc, !.caller = c] \in WorkerState
         /\ pc \in RetryPcs /\ w.pc \in RetryPcs => [w EXCEPT !.pc = pc] \in WorkerState
<1>1. CASE w \in [pc: StagePcs \cup {"deadLetter"}, job: Job, caller: Callers, attempt: Nat]
  <2>1. w.pc \notin RetryPcs  BY <1>1 DEF StagePcs, RetryPcs
  <2>2. QED  BY <1>1, <2>1 DEF WorkerState
<1>2. CASE w \in [pc: RetryPcs, job: Job, caller: Callers, attempt: Attempts]
  <2>1. \A n \in Attempts : n \in Nat  BY ConstantsAssumption DEF Attempts
  <2>2. QED  BY <1>2, <2>1 DEF WorkerState
<1>3. QED  BY <1>1, <1>2 DEF WorkerState

\* Putting a message into a queue, and taking one out that is there.
LEMMA BagTypes ==
  ASSUME NEW bag \in [Message -> Nat], NEW m \in Message
  PROVE  /\ Put(bag, m) \in [Message -> Nat]
         /\ bag[m] > 0 => Take(bag, m) \in [Message -> Nat]
BY DEF Put, Take

-----------------------------------------------------------------------------
(* What the calls of a step do to the types *)

\* A fault is of a kind that is allowed, and counted within the bound.
LEMMA FaultTypes ==
  ASSUME faults \in FaultHistory, NEW kind, Fault(kind)
  PROVE  /\ faults' \in FaultHistory /\ kind \in FaultKinds
         /\ kind \in faults'.kinds /\ faults.kinds \subseteq faults'.kinds
<1>1. faults.count \in Nat /\ faults.count < MaxFaults /\ faults.kinds \subseteq FaultKinds
  BY ConstantsAssumption DEF Fault, FaultHistory
<1>2. faults.count + 1 \in 0 .. MaxFaults  BY <1>1, ConstantsAssumption
<1>3. QED  BY <1>1, <1>2 DEF Fault, FaultHistory

\* A call to the broker keeps the fault counter within its bound.
LEMMA CallBrokerTypes ==
  ASSUME faults \in FaultHistory, NEW p, NEW ok, NEW sent, CallBroker(p, ok, sent)
  PROVE  faults' \in FaultHistory
BY FaultTypes DEF CallBroker

\* publishEvent and publishProgressEvent add an event that exists.
LEMMA PublishTypes ==
  ASSUME TypeOK, NEW p, NEW d \in Deployments, NEW event \in Events, NEW ok,
         Publish(p, d, event, ok)
  PROVE  /\ published' \in [Deployments -> SUBSET Events]
         /\ faults' \in FaultHistory
<1>1. PICK sent \in BOOLEAN :
        /\ CallBroker(p, ok, sent)
        /\ published' = IF sent THEN [published EXCEPT ![d] = @ \cup {event}]
                        ELSE published
  BY DEF Publish
<1>2. faults' \in FaultHistory  BY <1>1, CallBrokerTypes DEF TypeOK
<1>3. QED  BY <1>1, <1>2 DEF TypeOK

\* A statement on one row.
LEMMA LedgerWrite ==
  ASSUME ledger \in [Deployments -> StageRecord], NEW d \in Deployments,
         NEW s, RowStep(ledger[d], s),
         ledger' = ledger \/ ledger' = [ledger EXCEPT ![d] = s]
  PROVE  /\ ledger' \in [Deployments -> StageRecord]
         /\ \A e \in Deployments : RowStep(ledger[e], ledger'[e])
<1>1. s \in StageRecord  BY RowStepKeeps
<1>2. \A e \in Deployments : ledger'[e] = ledger[e] \/ (e = d /\ ledger'[e] = s)
  OBVIOUS
<1>3. \A e \in Deployments : RowStep(ledger[e], ledger[e])  BY DEF RowStep
<1>4. QED  BY <1>1, <1>2, <1>3

\* Resume takes a worker to a state that its program counter allows.
LEMMA ResumeTypes ==
  ASSUME TypeOK, NEW p \in Processes, worker[p].pc # "idle", NEW pc,
         \/ pc = "idle"
         \/ pc \in StagePcs \cup {"deadLetter"}
         \/ pc \in RetryPcs /\ worker[p].pc \in RetryPcs,
         Resume(p, pc)
  PROVE  worker' \in [Processes -> WorkerState]
<1>1. worker[p] \in WorkerState /\ worker[p] # Idle
  BY DEF TypeOK, Idle
<1>2. (IF pc = "idle" THEN Idle ELSE [worker[p] EXCEPT !.pc = pc]) \in WorkerState
  BY <1>1, WorkerMoves DEF WorkerState
<1>3. QED  BY <1>2 DEF TypeOK, Resume

\* The call of completeFailure takes a worker to a state of a worker.
LEMMA CompleteFailureTypes ==
  ASSUME TypeOK, NEW p \in Processes, worker[p].pc # "idle", NEW caller \in Callers,
         CallCompleteFailure(p, caller)
  PROVE  worker' \in [Processes -> WorkerState]
<1>1. worker[p] \in WorkerState /\ worker[p] # Idle
  BY DEF TypeOK, Idle
<1>2. [worker[p] EXCEPT !.pc = "fail", !.caller = caller] \in WorkerState
  BY <1>1, WorkerMoves DEF StagePcs
<1>3. worker' = [worker EXCEPT ![p] = [worker[p] EXCEPT !.pc = "fail", !.caller = caller]]
  BY DEF CallCompleteFailure, TypeOK
<1>4. QED  BY <1>2, <1>3 DEF TypeOK

\* What a move of a worker leaves as it was.
LEMMA ResumeEffect ==
  ASSUME TypeOK, NEW p \in Processes, worker[p].pc # "idle", NEW pc, Resume(p, pc)
  PROVE  /\ worker'[p].pc = pc
         /\ IF pc = "idle" THEN worker'[p] = Idle
            ELSE worker'[p].job = worker[p].job /\ worker'[p].caller = worker[p].caller
         /\ \A q \in Processes \ {p} : worker'[q] = worker[q]
<1>1. worker[p] \in WorkerState /\ worker[p] # Idle  BY DEF TypeOK, Idle
<1>2. /\ [worker[p] EXCEPT !.pc = pc].pc = pc
      /\ [worker[p] EXCEPT !.pc = pc].job = worker[p].job
      /\ [worker[p] EXCEPT !.pc = pc].caller = worker[p].caller
  BY <1>1 DEF WorkerState
<1>3. worker' = [worker EXCEPT ![p] = IF pc = "idle" THEN Idle ELSE [worker[p] EXCEPT !.pc = pc]]
  BY DEF Resume
<1>4. worker'[p] = IF pc = "idle" THEN Idle ELSE [worker[p] EXCEPT !.pc = pc]
  BY <1>3 DEF TypeOK
<1>5. QED  BY <1>2, <1>3, <1>4 DEF TypeOK, Idle

\* The call of completeFailure keeps the job, and the other workers.
LEMMA CompleteFailureEffect ==
  ASSUME TypeOK, NEW p \in Processes, worker[p].pc # "idle", NEW caller,
         CallCompleteFailure(p, caller)
  PROVE  /\ worker'[p].pc = "fail" /\ worker'[p].job = worker[p].job
         /\ worker'[p].caller = caller
         /\ \A q \in Processes \ {p} : worker'[q] = worker[q]
<1>1. worker[p] \in WorkerState /\ worker[p] # Idle  BY DEF TypeOK, Idle
<1>2. /\ [worker[p] EXCEPT !.pc = "fail", !.caller = caller].pc = "fail"
      /\ [worker[p] EXCEPT !.pc = "fail", !.caller = caller].job = worker[p].job
      /\ [worker[p] EXCEPT !.pc = "fail", !.caller = caller].caller = caller
  BY <1>1 DEF WorkerState
<1>3. worker' = [worker EXCEPT ![p] = [worker[p] EXCEPT !.pc = "fail", !.caller = caller]]
  BY DEF CallCompleteFailure, TypeOK
<1>4. QED  BY <1>2, <1>3 DEF TypeOK

-----------------------------------------------------------------------------
(* Every step keeps the types and does to each row what one call may do *)

\* A decided row has a result to publish again.
DecidedHasResult == \A d \in Deployments : Terminal(ledger[d]) => ledger[d].result # "none"

RowsStep == \A d \in Deployments : RowStep(ledger[d], ledger'[d])

\* A step that leaves the ledger alone does nothing to any row.
LEMMA SameRows == UNCHANGED ledger => RowsStep
BY DEF RowsStep, RowStep

\* Each step of acceptDelivery keeps the types and is at most one method call
\* on one row; publishStored finds a result because a decided row has one.
LEMMA HandlerSteps ==
  ASSUME TypeOK, DecidedHasResult, NEW p \in Processes, Handler(p)
  PROVE  TypeOK' /\ RowsStep
<1> DEFINE h == handler[p]
<1>1. h \in HandlerState  BY DEF TypeOK
<1>2. /\ h # Idle => h.msg \in Message
      /\ h.pc \in {"claim", "ack", "storedService", "storedProgress"} => h.msg \in Request
      /\ h.pc = "ack" => h.claim \in Nat
      /\ h.pc \in {"storedService", "storedProgress"} => h.result \in {"succeeded", "failed"}
      /\ h.pc = "idle" <=> h = Idle
  BY <1>1, HandlerFields
<1>3. Idle \in HandlerState  BY DEF HandlerState
<1>4. h.pc = "claim" => h.msg.id \in Deployments /\ h.msg.attempt \in Attempts
  BY <1>2 DEF Request
<1>5. ASSUME h # Idle, NackRequeue(p)
      PROVE  /\ handler' \in [Processes -> HandlerState]
             /\ queue' \in [Message -> Nat]
  BY <1>2, <1>3, <1>5, BagTypes DEF NackRequeue, TypeOK
<1>6. CASE Connect(p)
  BY <1>6, SameRows DEF Connect, TypeOK, broker
<1>7. CASE Deliver(p)
  <2>1. PICK m \in Message :
          /\ queue[m] > 0
          /\ queue' = Take(queue, m)
          /\ handler' = [handler EXCEPT ![p] =
               [pc |-> IF m.id \in BadRequests THEN "processDelivery" ELSE "claim",
                msg |-> m]]
    BY <1>7 DEF Deliver
  <2>2. queue' \in [Message -> Nat]  BY <2>1, BagTypes DEF TypeOK
  <2>3. m.id \notin BadRequests => m \in Request  BY DEF Message, Request
  <2>4. [pc |-> IF m.id \in BadRequests THEN "processDelivery" ELSE "claim",
         msg |-> m] \in HandlerState
    BY <2>3 DEF HandlerState
  <2>5. handler' \in [Processes -> HandlerState]  BY <2>1, <2>4 DEF TypeOK
  <2>6. QED  BY <1>7, <2>2, <2>5, SameRows DEF Deliver, TypeOK
<1>8. CASE ClaimFails(p)
  <2>1. h.pc = "claim"  BY <1>8 DEF ClaimFails
  <2>2. \/ ledger' = ledger
        \/ ledger' = [ledger EXCEPT ![h.msg.id] = Claimed(ledger[h.msg.id])]
    BY <1>8 DEF ClaimFails, CallLedger
  <2>3. RowStep(ledger[h.msg.id], Claimed(ledger[h.msg.id]))  BY DEF RowStep
  <2>4. ledger' \in [Deployments -> StageRecord] /\ RowsStep
    BY <1>4, <2>1, <2>2, <2>3, LedgerWrite DEF TypeOK, RowsStep
  <2>5. faults' \in FaultHistory
    BY <1>8, FaultTypes DEF ClaimFails, CallLedger, TypeOK
  <2>6. QED  BY <1>5, <1>8, <1>2, <2>1, <2>4, <2>5 DEF ClaimFails, TypeOK
<1>9. CASE ClaimBusy(p)
  BY <1>2, <1>5, <1>9, SameRows DEF ClaimBusy, TypeOK
<1>10. CASE ClaimTerminal(p)
  <2>1. h.pc = "claim" /\ Terminal(ledger[h.msg.id])
    BY <1>10 DEF ClaimTerminal, Disposition, Terminal
  <2>2. ledger[h.msg.id].result \in {"succeeded", "failed"}
    BY <1>4, <2>1 DEF DecidedHasResult, TypeOK, StageRecord, Results
  <2>3. [pc |-> "storedService", msg |-> h.msg, result |-> ledger[h.msg.id].result]
          \in HandlerState
    BY <1>2, <2>1, <2>2 DEF HandlerState
  <2>4. handler' = [handler EXCEPT ![p] =
          [pc |-> "storedService", msg |-> h.msg, result |-> ledger[h.msg.id].result]]
    BY <1>10 DEF ClaimTerminal
  <2>5. handler' \in [Processes -> HandlerState]  BY <2>3, <2>4 DEF TypeOK
  <2>6. QED  BY <1>10, <2>5, SameRows DEF ClaimTerminal, TypeOK, broker
<1>11. CASE ClaimAcquired(p)
  <2>1. h.pc = "claim"  BY <1>11 DEF ClaimAcquired
  <2>2. ledger' = [ledger EXCEPT ![h.msg.id] = Claimed(ledger[h.msg.id])]
    BY <1>11 DEF ClaimAcquired, CallLedger
  <2>3. RowStep(ledger[h.msg.id], Claimed(ledger[h.msg.id]))  BY DEF RowStep
  <2>4. ledger' \in [Deployments -> StageRecord] /\ RowsStep
    BY <1>4, <2>1, <2>2, <2>3, LedgerWrite DEF TypeOK, RowsStep
  <2>5. Claimed(ledger[h.msg.id]).attempt \in Nat
    BY <1>4, <2>1, RowOperators DEF TypeOK, StageRecord
  <2>6. [pc |-> "ack", msg |-> h.msg, claim |-> Claimed(ledger[h.msg.id]).attempt]
          \in HandlerState
    BY <1>2, <2>1, <2>5 DEF HandlerState
  <2>7. handler' = [handler EXCEPT ![p] =
          [pc |-> "ack", msg |-> h.msg, claim |-> Claimed(ledger[h.msg.id]).attempt]]
    BY <1>11 DEF ClaimAcquired
  <2>8. handler' \in [Processes -> HandlerState]  BY <2>6, <2>7 DEF TypeOK
  <2>9. QED  BY <1>11, <2>4, <2>8 DEF ClaimAcquired, CallLedger, TypeOK, broker
<1>12. CASE PublishStored(p)
  <2>1. h.pc \in {"storedService", "storedProgress"}  BY <1>12 DEF PublishStored
  <2> DEFINE event == IF h.pc = "storedService" THEN ServiceEvent(h.result)
                      ELSE ProgressEvent(h.result)
             next  == IF h.pc = "storedService" THEN [h EXCEPT !.pc = "storedProgress"]
                      ELSE [pc |-> "settle", msg |-> h.msg]
  <2>2. h.msg \in Request /\ h.msg \in Message /\ h.msg.id \in Deployments /\ h # Idle
    BY <1>2, <2>1 DEF Request, Idle
  <2>3. event \in Events
    BY <1>2, <2>1 DEF Events, OutcomeEvents
  <2>4. next \in HandlerState
    <3>1. CASE h.pc = "storedService"
      <4>1. h \in [pc: {"storedService", "storedProgress"}, msg: Request,
                   result: {"succeeded", "failed"}]
        BY <1>1, <3>1 DEF HandlerState, Idle
      <4>2. QED  BY <3>1, <4>1 DEF HandlerState
    <3>2. CASE h.pc # "storedService"  BY <2>2, <3>2 DEF HandlerState
    <3>3. QED  BY <3>1, <3>2
  <2>5. \/ /\ Publish(p, h.msg.id, event, TRUE)
           /\ handler' = [handler EXCEPT ![p] = next]
           /\ UNCHANGED queue
        \/ Publish(p, h.msg.id, event, FALSE) /\ NackRequeue(p)
    BY <1>12 DEF PublishStored
  <2>6. published' \in [Deployments -> SUBSET Events] /\ faults' \in FaultHistory
    BY <2>2, <2>3, <2>5, PublishTypes
  <2>7. queue' \in [Message -> Nat] /\ handler' \in [Processes -> HandlerState]
    BY <1>5, <2>2, <2>4, <2>5 DEF TypeOK
  <2>8. QED  BY <1>12, <2>6, <2>7, SameRows DEF PublishStored, TypeOK
<1>13. CASE AckDelivery(p)
  <2>1. h.pc = "ack"  BY <1>13 DEF AckDelivery
  <2>2. h.msg \in Message /\ AckedJob(p) \in Job
    BY <1>2, <2>1 DEF AckedJob, Job, Request, Idle
  <2>3. faults' \in FaultHistory
    BY <1>13, FaultTypes DEF AckDelivery, TypeOK
  <2>4. jobs' \in [Processes -> SUBSET Job]
    <3>1. \/ jobs' = jobs
          \/ jobs' = [jobs EXCEPT ![p] = @ \cup {AckedJob(p)}]
      BY <1>13 DEF AckDelivery
    <3>2. QED  BY <2>2, <3>1 DEF TypeOK
  <2>5. queue' \in [Message -> Nat] /\ connected' \in [Processes -> BOOLEAN]
    <3>1. /\ queue' = queue \/ queue' = Put(queue, h.msg)
          /\ connected' = connected \/ connected' = [connected EXCEPT ![p] = FALSE]
      BY <1>13 DEF AckDelivery
    <3>2. Put(queue, h.msg) \in [Message -> Nat]  BY <2>2, BagTypes DEF TypeOK
    <3>3. queue' \in [Message -> Nat]  BY <3>1, <3>2 DEF TypeOK
    <3>4. connected' \in [Processes -> BOOLEAN]  BY <3>1 DEF TypeOK
    <3>5. QED  BY <3>3, <3>4
  <2>6. handler' \in [Processes -> HandlerState]
    BY <1>3, <1>13 DEF AckDelivery, TypeOK
  <2>7. QED  BY <1>13, <2>3, <2>4, <2>5, <2>6, SameRows DEF AckDelivery, TypeOK
<1>14. CASE ProcessDelivery(p)
  <2>1. PICK ok \in BOOLEAN, sent \in BOOLEAN :
          /\ CallBroker(p, ok, sent)
          /\ dlq' = IF sent THEN dlq \cup {h.msg.id} ELSE dlq
    BY <1>14 DEF ProcessDelivery
  <2>2. h.pc = "processDelivery" /\ h # Idle  BY <1>2, <1>14 DEF ProcessDelivery
  <2>3. dlq' \subseteq Deployments \cup BadRequests
    BY <1>2, <2>1, <2>2 DEF TypeOK, Message
  <2>4. faults' \in FaultHistory  BY <2>1, CallBrokerTypes DEF TypeOK
  <2>5. [h EXCEPT !.pc = "settle"] \in HandlerState
    <3>1. h \in [pc: {"processDelivery", "settle"}, msg: Message]
      BY <1>1, <2>2 DEF HandlerState
    <3>2. QED  BY <3>1 DEF HandlerState
  <2>6. handler' = [handler EXCEPT ![p] = [h EXCEPT !.pc = "settle"]]
    BY <1>14 DEF ProcessDelivery
  <2>7. handler' \in [Processes -> HandlerState]  BY <2>5, <2>6 DEF TypeOK
  <2>8. QED  BY <1>14, <2>3, <2>4, <2>7, SameRows DEF ProcessDelivery, TypeOK
<1>15. CASE Settle(p)
  BY <1>3, <1>15, SameRows DEF Settle, TypeOK, broker
<1>16. QED
  BY <1>6, <1>7, <1>8, <1>9, <1>10, <1>11, <1>12, <1>13, <1>14, <1>15 DEF Handler

\* Where a worker may go from pc.
MayResume(pc, next) ==
  \/ next = "idle"
  \/ next \in StagePcs \cup {"deadLetter"}
  \/ pc \in RetryPcs /\ next \in RetryPcs

\* A publish of the worker keeps the types, wherever it resumes.
LEMMA WorkerPublishesSteps ==
  ASSUME TypeOK, NEW p \in Processes, NEW pc, pc # "idle", NEW event \in Events,
         NEW next, NEW onError, MayResume(pc, next), MayResume(pc, onError),
         WorkerPublishes(p, pc, event, next, onError)
  PROVE  TypeOK' /\ RowsStep
<1>1. worker[p].pc = pc  BY DEF WorkerPublishes
<1>2. worker[p] # Idle  BY <1>1 DEF Idle
<1>3. worker[p].job.id \in Deployments
  BY <1>2, WorkerFields DEF TypeOK, Job
<1>4. \/ Publish(p, worker[p].job.id, event, TRUE) /\ Resume(p, next)
      \/ Publish(p, worker[p].job.id, event, FALSE) /\ Resume(p, onError)
  BY DEF WorkerPublishes
<1>5. published' \in [Deployments -> SUBSET Events] /\ faults' \in FaultHistory
  BY <1>3, <1>4, PublishTypes
<1>6. worker' \in [Processes -> WorkerState]
  BY <1>1, <1>4, ResumeTypes DEF MayResume
<1>7. QED  BY <1>5, <1>6, SameRows DEF WorkerPublishes, TypeOK, broker

\* What the steps that make one ledger call have in common.
LEMMA WorkerPersistsSteps ==
  ASSUME TypeOK, NEW p \in Processes, NEW pc, worker[p].pc = pc, pc # "idle",
         NEW next, NEW onError, MayResume(pc, next), MayResume(pc, onError),
         Resume(p, next) \/ Resume(p, onError),
         NEW s, RowStep(ledger[worker[p].job.id], s),
         ledger' = ledger \/ ledger' = [ledger EXCEPT ![worker[p].job.id] = s],
         UNCHANGED <<broker, connected, handler, jobs, renewals, published>>,
         UNCHANGED faults \/ Fault("database") \/ Fault("commit")
  PROVE  TypeOK' /\ RowsStep
<1>1. worker[p] # Idle  BY DEF Idle
<1>2. worker[p].job.id \in Deployments
  BY <1>1, WorkerFields DEF TypeOK, Job
<1>3. ledger' \in [Deployments -> StageRecord] /\ RowsStep
  BY <1>2, LedgerWrite DEF TypeOK, RowsStep
<1>4. faults' \in FaultHistory  BY FaultTypes DEF TypeOK
<1>5. worker' \in [Processes -> WorkerState]
  BY ResumeTypes DEF MayResume
<1>6. QED  BY <1>3, <1>4, <1>5 DEF TypeOK, broker

\* The names of the events that the worker publishes are events.
LEMMA EventNames ==
  /\ "BUILDING" \in Events /\ "BUILD_RETRYING" \in Events
  /\ \A result \in {"succeeded", "failed"} :
       ServiceEvent(result) \in Events /\ ProgressEvent(result) \in Events
BY DEF Events, OutcomeEvents

\* Each step of runBuildEvent and scheduleRetry keeps the types and is at most
\* one method call on one row; RecordRetry goes on to a delayed copy only below
\* MaxAttempts, which bounds the header of the copy.
LEMMA WorkerSteps ==
  ASSUME TypeOK, NEW p \in Processes, Worker(p)
  PROVE  TypeOK' /\ RowsStep
<1> DEFINE w == worker[p]
<1>1. w \in WorkerState  BY DEF TypeOK
<1>2. /\ w # Idle => w.job \in Job /\ w.caller \in Callers /\ w.attempt \in Nat
      /\ w.pc \in RetryPcs => w.attempt \in Attempts
      /\ w.pc = "idle" <=> w = Idle
  BY <1>1, WorkerFields
<1>3. w # Idle => w.job.id \in Deployments /\ w.job.attempt \in Attempts
  BY <1>2 DEF Job
<1>4. w # Idle => RetryMessage(p).id \in Deployments
                  /\ (w.attempt \in Attempts => RetryMessage(p) \in Message)
  BY <1>3 DEF RetryMessage, Message
<1>5. MayResume(w.pc, AfterFailureError(p))
  BY DEF AfterFailureError, MayResume, StagePcs
<1>6. CASE TakeJob(p)
  <2>1. PICK job \in jobs[p] :
          /\ jobs' = [jobs EXCEPT ![p] = @ \ {job}]
          /\ worker' = [worker EXCEPT ![p] =
               [pc |-> "started", job |-> job, caller |-> "none", attempt |-> 0]]
    BY <1>6 DEF TakeJob
  <2>2. job \in Job  BY DEF TypeOK
  <2>3. [pc |-> "started", job |-> job, caller |-> "none", attempt |-> 0] \in WorkerState
    BY <2>2 DEF WorkerState, StagePcs, Callers
  <2>4. worker' \in [Processes -> WorkerState]  BY <2>1, <2>3 DEF TypeOK
  <2>5. jobs' \in [Processes -> SUBSET Job]  BY <2>1 DEF TypeOK
  <2>6. QED  BY <1>6, <2>4, <2>5, SameRows DEF TakeJob, TypeOK, broker
<1>7. CASE PublishStarted(p)
  BY <1>7, EventNames, WorkerPublishesSteps DEF PublishStarted, MayResume, StagePcs
<1>8. CASE PrepareSource(p)
  <2>1. w.pc = "clone"  BY <1>8 DEF PrepareSource
  <2>2. worker' \in [Processes -> WorkerState]
    BY <1>8, <2>1, ResumeTypes, CompleteFailureTypes DEF PrepareSource, StagePcs, Callers
  <2>3. QED  BY <1>8, <2>2, SameRows DEF PrepareSource, TypeOK, broker
<1>9. CASE BuildAndPush(p)
  <2>1. w.pc = "build"  BY <1>9 DEF BuildAndPush
  <2>2. worker' \in [Processes -> WorkerState]
    BY <1>9, <2>1, ResumeTypes, CompleteFailureTypes DEF BuildAndPush, StagePcs, Callers
  <2>3. QED  BY <1>9, <2>2, SameRows DEF BuildAndPush, TypeOK, broker
<1>10. CASE PersistSuccess(p)
  <2>1. /\ w.pc = "complete"
        /\ Resume(p, "succeededService") \/ Resume(p, "recordRetry")
        /\ \/ ledger' = ledger
           \/ ledger' = [ledger EXCEPT ![w.job.id] = Completed(ledger[w.job.id])]
        /\ UNCHANGED <<broker, connected, handler, jobs, renewals, published>>
        /\ UNCHANGED faults \/ Fault("database") \/ Fault("commit")
    BY <1>10 DEF PersistSuccess, WorkerPersists, CallLedger
  <2>2. RowStep(ledger[w.job.id], Completed(ledger[w.job.id]))  BY DEF RowStep
  <2>3. QED  BY <2>1, <2>2, WorkerPersistsSteps DEF MayResume, StagePcs
<1>11. CASE PublishSucceeded(p)
  BY <1>11, EventNames, WorkerPublishesSteps DEF PublishSucceeded, MayResume, StagePcs
<1>12. CASE PersistFailure(p)
  <2>1. /\ w.pc = "fail"
        /\ Resume(p, "failedService") \/ Resume(p, AfterFailureError(p))
        /\ \/ ledger' = ledger
           \/ ledger' = [ledger EXCEPT ![w.job.id] = Failed(ledger[w.job.id])]
        /\ UNCHANGED <<broker, connected, handler, jobs, renewals, published>>
        /\ UNCHANGED faults \/ Fault("database") \/ Fault("commit")
    BY <1>12 DEF PersistFailure, WorkerPersists, CallLedger
  <2>2. RowStep(ledger[w.job.id], Failed(ledger[w.job.id]))  BY DEF RowStep
  <2>3. MayResume("fail", "failedService")  BY DEF MayResume, StagePcs
  <2>4. QED  BY <1>5, <2>1, <2>2, <2>3, WorkerPersistsSteps
<1>13. CASE PublishFailed(p)
  <2> DEFINE done == IF w.caller = "exhausted" THEN "deadLetter" ELSE "idle"
  <2>1. MayResume(w.pc, done) /\ MayResume(w.pc, "failedProgress")
    BY DEF MayResume, StagePcs
  <2>2. CASE WorkerPublishes(p, "failedService", ServiceEvent("failed"),
                             "failedProgress", AfterFailureError(p))
    <3>1. w.pc = "failedService"  BY <2>2 DEF WorkerPublishes
    <3>2. QED  BY <1>5, <2>1, <2>2, <3>1, EventNames, WorkerPublishesSteps
  <2>3. CASE WorkerPublishes(p, "failedProgress", ProgressEvent("failed"),
                             done, AfterFailureError(p))
    <3>1. w.pc = "failedProgress"  BY <2>3 DEF WorkerPublishes
    <3>2. QED  BY <1>5, <2>1, <2>3, <3>1, EventNames, WorkerPublishesSteps
  <2>4. QED  BY <1>13, <2>2, <2>3 DEF PublishFailed
<1>14. CASE RecordRetry(p)
  <2> DEFINE next(n) ==
               IF Exhausted(n)
               THEN [w EXCEPT !.pc = "fail", !.caller = "exhausted", !.attempt = n]
               ELSE [w EXCEPT !.pc = "retrying", !.attempt = n]
  <2>1. PICK recorded \in BOOLEAN :
          /\ CallLedger(w.job.id, RetryRecorded, recorded)
          /\ worker' = [worker EXCEPT ![p] = next(FailedAttempt(w.job, recorded))]
    BY <1>14 DEF RecordRetry
  <2> DEFINE attempt == FailedAttempt(w.job, recorded)
             v == next(attempt)
  <2>2. w.pc = "recordRetry" /\ w # Idle  BY <1>2, <1>14 DEF RecordRetry
  <2>3. /\ ledger' = ledger \/ ledger' = [ledger EXCEPT ![w.job.id] = RetryRecorded(ledger[w.job.id])]
        /\ UNCHANGED faults \/ Fault("database") \/ Fault("commit")
    BY <2>1 DEF CallLedger
  <2>4. RowStep(ledger[w.job.id], RetryRecorded(ledger[w.job.id]))  BY DEF RowStep
  <2>5. ledger' \in [Deployments -> StageRecord] /\ RowsStep
    BY <1>3, <2>2, <2>3, <2>4, LedgerWrite DEF TypeOK, RowsStep
  <2>6. faults' \in FaultHistory  BY <2>3, FaultTypes DEF TypeOK
  <2>7. attempt \in Nat
    <3>1. w.job.attempt \in Nat  BY <1>3, <2>2, ConstantsAssumption DEF Attempts
    <3>2. RetryRecorded(ledger[w.job.id]).retryCount \in Nat
      BY <1>3, <2>2, RowOperators DEF TypeOK, StageRecord
    <3>3. QED  BY <3>1, <3>2 DEF FailedAttempt
  <2>8. ~Exhausted(attempt) => attempt \in Attempts
    BY <2>7, ConstantsAssumption DEF Exhausted, Attempts
  <2>9. w \in [pc: StagePcs \cup {"deadLetter"}, job: Job, caller: Callers, attempt: Nat]
    BY <1>1, <2>2 DEF WorkerState, RetryPcs
  <2>10. v \in WorkerState
    <3>1. CASE Exhausted(attempt)
      <4>1. v = [w EXCEPT !.pc = "fail", !.caller = "exhausted", !.attempt = attempt]
        BY <3>1
      <4>2. QED  BY <2>7, <2>9, <4>1 DEF WorkerState, StagePcs, Callers
    <3>2. CASE ~Exhausted(attempt)
      <4>1. v = [w EXCEPT !.pc = "retrying", !.attempt = attempt]
        BY <2>9, <3>2
      <4>2. QED  BY <2>8, <2>9, <3>2, <4>1 DEF WorkerState, RetryPcs
    <3>3. QED  BY <3>1, <3>2
  <2>11. worker' = [worker EXCEPT ![p] = v]  BY <2>1
  <2>12. worker' \in [Processes -> WorkerState]  BY <2>10, <2>11 DEF TypeOK
  <2>13. QED  BY <1>14, <2>5, <2>6, <2>12 DEF RecordRetry, TypeOK, broker
<1>15. CASE EmitRetrying(p)
  BY <1>15, EventNames, WorkerPublishesSteps DEF EmitRetrying, MayResume, RetryPcs
<1>16. CASE ReleaseClaim(p)
  <2>1. /\ w.pc = "release"
        /\ Resume(p, "requeue")
        /\ \/ ledger' = ledger
           \/ ledger' = [ledger EXCEPT ![w.job.id] = Released(ledger[w.job.id])]
        /\ UNCHANGED <<broker, connected, handler, jobs, renewals, published>>
        /\ UNCHANGED faults \/ Fault("database") \/ Fault("commit")
    BY <1>16 DEF ReleaseClaim, WorkerPersists, CallLedger
  <2>2. RowStep(ledger[w.job.id], Released(ledger[w.job.id]))  BY DEF RowStep
  <2>3. QED  BY <2>1, <2>2, WorkerPersistsSteps DEF MayResume, RetryPcs
<1>17. CASE PublishRetry(p)
  <2>1. PICK ok \in BOOLEAN, sent \in BOOLEAN :
          /\ CallBroker(p, ok, sent)
          /\ retries' = IF sent THEN Put(retries, RetryMessage(p)) ELSE retries
          /\ Resume(p, IF ok THEN "idle" ELSE "requeueOnChannel")
    BY <1>17 DEF PublishRetry
  <2>2. w.pc \in RetryPcs /\ w # Idle /\ w.pc # "idle"
    BY <1>2, <1>17 DEF PublishRetry, RetryPcs
  <2>3. faults' \in FaultHistory  BY <2>1, CallBrokerTypes DEF TypeOK
  <2>4. Put(retries, RetryMessage(p)) \in [Message -> Nat]
    BY <1>2, <1>4, <2>2, BagTypes DEF TypeOK
  <2>5. retries' \in [Message -> Nat]  BY <2>1, <2>4 DEF TypeOK
  <2>6. worker' \in [Processes -> WorkerState]
    BY <2>1, <2>2, ResumeTypes DEF RetryPcs
  <2>7. QED  BY <1>17, <2>3, <2>5, <2>6, SameRows DEF PublishRetry, TypeOK
<1>18. CASE PublishRetryOnChannel(p)
  <2>1. w.pc \in RetryPcs /\ w # Idle /\ w.pc # "idle"
    BY <1>2, <1>18 DEF PublishRetryOnChannel, RetryPcs
  <2>2. Put(retries, RetryMessage(p)) \in [Message -> Nat]
    BY <1>2, <1>4, <2>1, BagTypes DEF TypeOK
  <2>3. /\ retries' \in [Message -> Nat]
        /\ faults' \in FaultHistory
    <3>1. CASE \E ok, sent \in BOOLEAN :
                 /\ CallBroker(p, ok, sent)
                 /\ retries' = IF sent THEN Put(retries, RetryMessage(p)) ELSE retries
      BY <2>2, <3>1, CallBrokerTypes DEF TypeOK
    <3>2. CASE Fault("connection") /\ UNCHANGED retries
      BY <3>2, FaultTypes DEF TypeOK
    <3>3. QED  BY <1>18, <3>1, <3>2 DEF PublishRetryOnChannel
  <2>4. connected' = connected \/ connected' = [connected EXCEPT ![p] = FALSE]
    BY <1>18 DEF PublishRetryOnChannel
  <2>5. connected' \in [Processes -> BOOLEAN]  BY <2>4 DEF TypeOK
  <2>6. Requeued(p) \in [Message -> Nat]
    BY HandlerFields, BagTypes DEF Requeued, TypeOK
  <2>7. queue' \in [Message -> Nat]
    BY <1>18, <2>6 DEF PublishRetryOnChannel, TypeOK
  <2>8. worker' \in [Processes -> WorkerState]
    BY <1>18, <2>1, ResumeTypes DEF PublishRetryOnChannel
  <2>9. QED
    BY <1>18, <2>3, <2>5, <2>7, <2>8, SameRows DEF PublishRetryOnChannel, TypeOK
<1>19. CASE DeadLetter(p)
  <2>1. PICK ok \in BOOLEAN, sent \in BOOLEAN :
          /\ CallBroker(p, ok, sent)
          /\ dlq' = IF sent THEN dlq \cup {w.job.id} ELSE dlq
    BY <1>19 DEF DeadLetter
  <2>2. w.pc = "deadLetter" /\ w # Idle  BY <1>2, <1>19 DEF DeadLetter
  <2>3. dlq' \subseteq Deployments \cup BadRequests
    BY <1>3, <2>1, <2>2 DEF TypeOK
  <2>4. faults' \in FaultHistory  BY <2>1, CallBrokerTypes DEF TypeOK
  <2>5. worker' \in [Processes -> WorkerState]
    BY <1>19, <2>2, ResumeTypes DEF DeadLetter
  <2>6. QED  BY <1>19, <2>3, <2>4, <2>5, SameRows DEF DeadLetter, TypeOK
<1>20. QED
  BY <1>6, <1>7, <1>8, <1>9, <1>10, <1>11, <1>12, <1>13, <1>14, <1>15, <1>16,
     <1>17, <1>18, <1>19 DEF Worker

\* So do renewals, leases, TTLs, lost connections and crashes.
LEMMA EnvironmentSteps ==
  ASSUME TypeOK,
         \/ \E p \in Processes : IssueRenewal(p) \/ ConnectionLost(p) \/ Crash(p)
         \/ \E d \in Deployments : LandRenewal(d) \/ LeaseExpires(d) \/ LeaseRunsOut(d)
         \/ RetryDue
  PROVE  TypeOK' /\ RowsStep
<1>1. \A p \in Processes : Requeued(p) \in [Message -> Nat]
  BY HandlerFields, BagTypes DEF Requeued, TypeOK
<1>2. Idle \in HandlerState /\ Idle \in WorkerState  BY DEF HandlerState, WorkerState
<1>3. ASSUME NEW p \in Processes, IssueRenewal(p)  PROVE TypeOK' /\ RowsStep
  <2>1. worker[p] # Idle  BY <1>3 DEF IssueRenewal, Renewing, Idle
  <2>2. worker[p].job.id \in Deployments  BY <2>1, WorkerFields DEF TypeOK, Job
  <2>3. QED  BY <1>3, <2>2, SameRows DEF IssueRenewal, TypeOK, broker
<1>4. ASSUME NEW p \in Processes, ConnectionLost(p)  PROVE TypeOK' /\ RowsStep
  BY <1>1, <1>4, FaultTypes, SameRows DEF ConnectionLost, TypeOK
<1>5. ASSUME NEW p \in Processes, Crash(p)  PROVE TypeOK' /\ RowsStep
  BY <1>1, <1>2, <1>5, FaultTypes, SameRows DEF Crash, TypeOK
<1>6. ASSUME NEW d \in Deployments, LandRenewal(d)  PROVE TypeOK' /\ RowsStep
  <2>1. RowStep(ledger[d], Renewed(ledger[d]))  BY DEF RowStep
  <2>2. ledger' = [ledger EXCEPT ![d] = Renewed(ledger[d])]  BY <1>6 DEF LandRenewal
  <2>3. ledger' \in [Deployments -> StageRecord] /\ RowsStep
    BY <2>1, <2>2, LedgerWrite DEF TypeOK, RowsStep
  <2>4. QED  BY <1>6, <2>3 DEF LandRenewal, TypeOK, broker
<1>7. ASSUME NEW d \in Deployments, LeaseExpires(d) \/ LeaseRunsOut(d)
      PROVE  TypeOK' /\ RowsStep
  <2> DEFINE s == [ledger[d] EXCEPT !.lease = "expired"]
  <2>1. RowStep(ledger[d], s)  BY DEF RowStep
  <2>2. ledger' = [ledger EXCEPT ![d] = s]  BY <1>7 DEF LeaseExpires, LeaseRunsOut
  <2>3. ledger' \in [Deployments -> StageRecord] /\ RowsStep
    BY <2>1, <2>2, LedgerWrite DEF TypeOK, RowsStep
  <2>4. faults' \in FaultHistory
    BY <1>7, FaultTypes DEF LeaseExpires, LeaseRunsOut, TypeOK
  <2>5. QED  BY <1>7, <2>3, <2>4 DEF LeaseExpires, LeaseRunsOut, TypeOK, broker
<1>8. CASE RetryDue
  <2>1. PICK m \in Message :
          retries[m] > 0 /\ retries' = Take(retries, m) /\ queue' = Put(queue, m)
    BY <1>8 DEF RetryDue
  <2>2. retries' \in [Message -> Nat] /\ queue' \in [Message -> Nat]
    BY <2>1, BagTypes DEF TypeOK
  <2>3. QED  BY <1>8, <2>2, SameRows DEF RetryDue, TypeOK
<1>9. QED  BY <1>3, <1>4, <1>5, <1>6, <1>7, <1>8

\* Every step keeps the types and is at most one method call on every row.
LEMMA Steps ==
  ASSUME TypeOK, DecidedHasResult, [Next]_vars
  PROVE  TypeOK' /\ RowsStep
<1>1. CASE UNCHANGED vars  BY <1>1, SameRows DEF vars, TypeOK
<1>2. CASE Next
  BY <1>2, HandlerSteps, WorkerSteps, EnvironmentSteps DEF Next
<1>3. QED  BY <1>1, <1>2

-----------------------------------------------------------------------------
(* Type correctness, and what never goes back in the ledger *)

TypeInv == TypeOK /\ DecidedHasResult

\* The type invariant and DecidedHasResult hold at the start.
LEMMA TypeInit == Init => TypeInv
<1> SUFFICES ASSUME Init PROVE TypeInv  OBVIOUS
<1>1. Copies \in Nat /\ MaxFaults \in Nat /\ 0 \in 0 .. MaxFaults  BY ConstantsAssumption
<1>2. queue \in [Message -> Nat] /\ retries \in [Message -> Nat]  BY <1>1 DEF Init
<1>3. Idle \in HandlerState /\ Idle \in WorkerState  BY DEF HandlerState, WorkerState
<1>4. TypeOK  BY <1>1, <1>2, <1>3, NoRecordType DEF Init, TypeOK, FaultHistory
<1>5. DecidedHasResult  BY DEF Init, DecidedHasResult, Terminal, NoRecord
<1>6. QED  BY <1>4, <1>5 DEF TypeInv

\* The type invariant, with DecidedHasResult, is inductive.
LEMMA TypeNext == TypeInv /\ [Next]_vars => TypeInv'
<1> SUFFICES ASSUME TypeOK, DecidedHasResult, [Next]_vars PROVE TypeInv'
  BY DEF TypeInv
<1>1. TypeOK' /\ RowsStep  BY Steps
<1>2. ASSUME NEW d \in Deployments
      PROVE  Terminal(ledger'[d]) => ledger'[d].result # "none"
  <2>1. ledger[d] \in StageRecord /\ RowStep(ledger[d], ledger'[d])
    BY <1>1 DEF TypeOK, RowsStep
  <2>2. Terminal(ledger[d]) => ledger[d].result # "none"  BY DEF DecidedHasResult
  <2>3. QED  BY <2>1, <2>2, RowStepKeeps
<1>3. DecidedHasResult'  BY <1>2 DEF DecidedHasResult, Terminal
<1>4. QED  BY <1>1, <1>3 DEF TypeInv

\* Every reachable state is well typed; in particular no copy of a request in
\* the broker carries an x-shiply-attempt of MaxAttempts or more.
THEOREM TypeCorrect == Spec => []TypeOK
<1>1. TypeInv => TypeOK  BY DEF TypeInv
<1>2. QED  BY <1>1, TypeInit, TypeNext, PTL DEF Spec

\* attempt and retry_count of a row never go down, under any fault.
THEOREM CountersGrow == Spec => CountersMonotone
<1>1. TypeInv /\ [Next]_vars =>
        [\A d \in Deployments : /\ ledger[d].attempt <= ledger'[d].attempt
                                /\ ledger[d].retryCount <= ledger'[d].retryCount]_vars
  <2> SUFFICES ASSUME TypeOK, DecidedHasResult, [Next]_vars, NEW d \in Deployments
               PROVE  /\ ledger[d].attempt <= ledger'[d].attempt
                      /\ ledger[d].retryCount <= ledger'[d].retryCount
    BY DEF TypeInv
  <2>1. ledger[d] \in StageRecord /\ RowStep(ledger[d], ledger'[d])
    BY Steps DEF TypeOK, RowsStep
  <2>2. QED  BY <2>1, RowStepKeeps
<1>2. QED  BY <1>1, TypeInit, TypeNext, PTL DEF Spec, CountersMonotone

=============================================================================
