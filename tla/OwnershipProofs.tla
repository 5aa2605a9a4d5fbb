-------------------------- MODULE OwnershipProofs --------------------------
(***************************************************************************)
(* A stage has at most one owner, and the owner is the latest claimant, as  *)
(* long as no lease runs out under its holder.  SingleOwner alone is not    *)
(* inductive: the ledger lets a second claimant in unless the row of every  *)
(* holding is busy or decided, which is Protected.                          *)
(***************************************************************************)
EXTENDS BuildConsumerProofs

\* Claim does not acquire a stage that somebody holds.
Protected ==
  \A p \in Processes : \A h \in Holdings(p) :
    Disposition(ledger[h.job.id]) # "ClaimAcquired"

\* SingleOwner and HolderIsCurrent without their condition.
DisjointHoldings ==
  \A p, q \in Processes : \A g \in Holdings(p), h \in Holdings(q) :
    g.job.id = h.job.id => p = q /\ g = h
CurrentHoldings ==
  \A p \in Processes : \A h \in Holdings(p) :
    h.job.claim = ledger[h.job.id].attempt

OwnerInv == TypeInv /\ DisjointHoldings /\ CurrentHoldings /\ Protected

-----------------------------------------------------------------------------
(* Rows *)

\* What may happen to the row of a stage somebody holds.
RowKept(r, s) ==
  s \in {r, Claimed(r), Renewed(r), Completed(r), Failed(r), RetryRecorded(r)}

\* None of it opens the row to another claim or changes the attempt.
LEMMA KeptRows ==
  ASSUME NEW r \in StageRecord, Disposition(r) # "ClaimAcquired", NEW s, RowKept(r, s)
  PROVE  Disposition(s) # "ClaimAcquired" /\ s.attempt = r.attempt
<1>1. CASE s = r \/ s = Claimed(r)  BY <1>1 DEF Claimed
<1>2. CASE s = Renewed(r)  BY <1>2 DEF Renewed, Disposition, StageRecord
<1>3. CASE s = Completed(r)  BY <1>3 DEF Completed, SetState, Disposition, StageRecord
<1>4. CASE s = Failed(r)  BY <1>4 DEF Failed, SetState, Disposition, StageRecord
<1>5. CASE s = RetryRecorded(r)
  <2>1. s.state = r.state /\ s.lease = r.lease /\ s.attempt = r.attempt
    BY <1>5 DEF RetryRecorded, StageRecord
  <2>2. QED  BY <2>1 DEF Disposition
<1>6. QED  BY <1>1, <1>2, <1>3, <1>4, <1>5 DEF RowKept

\* A claim that acquires the stage makes its row busy.
LEMMA AcquiredRow ==
  ASSUME NEW r \in StageRecord, Disposition(r) = "ClaimAcquired"
  PROVE  Disposition(Claimed(r)) = "ClaimBusy"
BY DEF Disposition, Claimed, StageRecord

-----------------------------------------------------------------------------
(* Holdings *)

\* A process holds no more after a step than before.
LEMMA HoldingsShrink ==
  ASSUME NEW p \in Processes,
         jobs'[p] \subseteq jobs[p],
         handler'[p] = handler[p] \/ handler'[p].pc # "ack",
         worker'[p].pc \in OwningPcs =>
           worker[p].pc \in OwningPcs /\ worker'[p].job = worker[p].job
  PROVE  Holdings(p)' \subseteq Holdings(p)
BY DEF Holdings, AckedJob

\* Holdings are of deployments.
LEMMA HoldingIds ==
  ASSUME TypeOK, NEW p \in Processes, NEW h \in Holdings(p)
  PROVE  h.job.id \in Deployments
<1>1. handler[p].pc = "ack" => AckedJob(p).id \in Deployments
  BY HandlerFields DEF TypeOK, AckedJob, Request
<1>2. worker[p].pc \in OwningPcs => worker[p].job.id \in Deployments
  BY WorkerFields DEF TypeOK, OwningPcs, StagePcs, Idle, Job
<1>3. \A job \in jobs[p] : job.id \in Deployments  BY DEF TypeOK, Job
<1>4. QED  BY <1>1, <1>2, <1>3 DEF Holdings

\* If nobody's holdings grow and the rows of the holdings that are left are
\* kept, the invariant is.
LEMMA ShrinkKeepsOwner ==
  ASSUME OwnerInv, TypeInv',
         \A p \in Processes : Holdings(p)' \subseteq Holdings(p),
         \A p \in Processes : \A h \in Holdings(p)' :
           RowKept(ledger[h.job.id], ledger'[h.job.id])
  PROVE  OwnerInv'
<1>1. \A p \in Processes : \A h \in Holdings(p)' : h \in Holdings(p)  OBVIOUS
<1>2. \A p \in Processes : \A h \in Holdings(p) : h.job.id \in Deployments
  BY HoldingIds DEF OwnerInv, TypeInv
<1>3. ASSUME NEW p \in Processes, NEW h \in Holdings(p)'
      PROVE  /\ Disposition(ledger'[h.job.id]) # "ClaimAcquired"
             /\ ledger'[h.job.id].attempt = h.job.claim
  <2>1. h \in Holdings(p) /\ h.job.id \in Deployments  BY <1>1, <1>2
  <2>2. ledger[h.job.id] \in StageRecord  BY <2>1 DEF OwnerInv, TypeInv, TypeOK
  <2>3. /\ Disposition(ledger[h.job.id]) # "ClaimAcquired"
        /\ h.job.claim = ledger[h.job.id].attempt
    BY <2>1 DEF OwnerInv, Protected, CurrentHoldings
  <2>4. QED  BY <2>2, <2>3, KeptRows
<1>4. DisjointHoldings'  BY <1>1 DEF OwnerInv, DisjointHoldings
<1>5. CurrentHoldings' /\ Protected'
  BY <1>3 DEF CurrentHoldings, Protected, Disposition
<1>6. QED  BY <1>4, <1>5 DEF OwnerInv

-----------------------------------------------------------------------------
(* The steps *)

\* Nobody's holdings grow, and every row that changes is kept.
Shrinks ==
  /\ \A p \in Processes : Holdings(p)' \subseteq Holdings(p)
  /\ \A d \in Deployments : RowKept(ledger[d], ledger'[d])

\* A worker that owns its job, or does not come to own it, adds no holding.
LEMMA WorkerShrinks ==
  ASSUME NEW p \in Processes,
         UNCHANGED <<handler, jobs>>,
         \A q \in Processes \ {p} : worker'[q] = worker[q],
         worker'[p].pc \in OwningPcs =>
           worker[p].pc \in OwningPcs /\ worker'[p].job = worker[p].job
  PROVE  \A q \in Processes : Holdings(q)' \subseteq Holdings(q)
BY HoldingsShrink

\* Handlers and environment steps that leave the workers alone.
LEMMA HandlerShrinks ==
  ASSUME NEW p \in Processes,
         UNCHANGED <<jobs, worker>>,
         \A q \in Processes \ {p} : handler'[q] = handler[q],
         handler'[p] = handler[p] \/ handler'[p].pc # "ack"
  PROVE  \A q \in Processes : Holdings(q)' \subseteq Holdings(q)
BY HoldingsShrink

\* A step that leaves the ledger alone keeps every row.
LEMMA SameRowsKept == UNCHANGED ledger => \A d \in Deployments : RowKept(ledger[d], ledger'[d])
BY DEF RowKept

\* The steps of a handler that neither claim nor acknowledge.
LEMMA HandlerOwner ==
  ASSUME TypeOK, NEW p \in Processes, Handler(p), ~ClaimAcquired(p), ~AckDelivery(p)
  PROVE  Shrinks
<1> USE DEF Shrinks
<1>1. TypeOK  OBVIOUS
<1>2. Idle.pc # "ack"  BY DEF Idle
<1>3. ASSUME NackRequeue(p)
      PROVE  /\ \A q \in Processes \ {p} : handler'[q] = handler[q]
             /\ handler'[p].pc # "ack"
  BY <1>1, <1>2, <1>3 DEF NackRequeue, TypeOK
<1>4. CASE Connect(p)
  BY <1>4, HandlerShrinks, SameRowsKept DEF Connect
<1>5. CASE Deliver(p)
  <2>1. PICK m : handler' = [handler EXCEPT ![p] =
            [pc |-> IF m.id \in BadRequests THEN "processDelivery" ELSE "claim",
             msg |-> m]]
    BY <1>5 DEF Deliver
  <2>2. handler'[p].pc # "ack" /\ \A q \in Processes \ {p} : handler'[q] = handler[q]
    BY <1>1, <2>1 DEF TypeOK
  <2>3. QED  BY <1>5, <2>2, HandlerShrinks, SameRowsKept DEF Deliver
<1>6. CASE ClaimFails(p)
  <2>1. \A d \in Deployments : ledger'[d] = ledger[d] \/ ledger'[d] = Claimed(ledger[d])
    BY <1>1, <1>6 DEF ClaimFails, CallLedger, TypeOK
  <2>2. QED  BY <1>3, <1>6, <2>1, HandlerShrinks DEF ClaimFails, RowKept
<1>7. CASE ClaimBusy(p)
  BY <1>3, <1>7, HandlerShrinks, SameRowsKept DEF ClaimBusy
<1>8. CASE ClaimTerminal(p)
  <2>1. PICK r : handler' = [handler EXCEPT ![p] =
            [pc |-> "storedService", msg |-> handler[p].msg, result |-> r]]
    BY <1>8 DEF ClaimTerminal
  <2>2. handler'[p].pc # "ack" /\ \A q \in Processes \ {p} : handler'[q] = handler[q]
    BY <1>1, <2>1 DEF TypeOK
  <2>3. QED  BY <1>8, <2>2, HandlerShrinks, SameRowsKept DEF ClaimTerminal
<1>9. CASE PublishStored(p)
  <2> DEFINE next == IF handler[p].pc = "storedService"
                     THEN [handler[p] EXCEPT !.pc = "storedProgress"]
                     ELSE [pc |-> "settle", msg |-> handler[p].msg]
  <2>1. handler' = [handler EXCEPT ![p] = next] \/ NackRequeue(p)
    BY <1>9 DEF PublishStored
  <2>2. next.pc # "ack"
    <3>1. handler[p] \in HandlerState  BY <1>1 DEF TypeOK
    <3>2. handler[p].pc = "storedService" =>
            [handler[p] EXCEPT !.pc = "storedProgress"].pc = "storedProgress"
      BY <3>1 DEF HandlerState, Idle
    <3>3. QED  BY <3>2
  <2>3. handler'[p].pc # "ack" /\ \A q \in Processes \ {p} : handler'[q] = handler[q]
    <3>1. CASE NackRequeue(p)  BY <1>3, <3>1
    <3>2. CASE handler' = [handler EXCEPT ![p] = next]
      <4> HIDE DEF next
      <4>1. QED  BY <1>1, <2>2, <3>2 DEF TypeOK
    <3>3. QED  BY <2>1, <3>1, <3>2
  <2>4. QED  BY <1>9, <2>3, HandlerShrinks, SameRowsKept DEF PublishStored
<1>10. CASE ProcessDelivery(p)
  <2>1. handler' = [handler EXCEPT ![p] = [handler[p] EXCEPT !.pc = "settle"]]
    BY <1>10 DEF ProcessDelivery
  <2>2. [handler[p] EXCEPT !.pc = "settle"].pc # "ack"
    <3>1. handler[p] \in HandlerState  BY <1>1 DEF TypeOK
    <3>2. QED  BY <3>1 DEF HandlerState, Idle
  <2>3. handler'[p].pc # "ack" /\ \A q \in Processes \ {p} : handler'[q] = handler[q]
    BY <1>1, <2>1, <2>2 DEF TypeOK
  <2>4. QED  BY <1>10, <2>3, HandlerShrinks, SameRowsKept DEF ProcessDelivery
<1>11. CASE Settle(p)
  BY <1>1, <1>2, <1>11, HandlerShrinks, SameRowsKept DEF Settle, TypeOK
<1>12. QED
  BY <1>4, <1>5, <1>6, <1>7, <1>8, <1>9, <1>10, <1>11 DEF Handler

\* A worker's ledger call.
LEMMA WorkerRows ==
  ASSUME TypeOK, NEW d, NEW s, RowKept(ledger[d], s),
         ledger' = ledger \/ ledger' = [ledger EXCEPT ![d] = s]
  PROVE  \A e \in Deployments : RowKept(ledger[e], ledger'[e])
BY DEF RowKept, TypeOK

\* The steps of a worker that neither take a job nor release a claim.
LEMMA WorkerOwner ==
  ASSUME TypeOK, NEW p \in Processes, Worker(p), ~TakeJob(p), ~ReleaseClaim(p)
  PROVE  Shrinks
<1> DEFINE w == worker[p]
<1> USE DEF Shrinks
<1>1. TypeOK  OBVIOUS
<1>2. ASSUME NEW pc, w.pc # "idle", Resume(p, pc), UNCHANGED <<handler, jobs>>,
             w.pc \in OwningPcs \/ pc \notin OwningPcs
      PROVE  \A q \in Processes : Holdings(q)' \subseteq Holdings(q)
  <2>1. /\ worker'[p].pc = pc
        /\ pc # "idle" => worker'[p].job = w.job
        /\ \A q \in Processes \ {p} : worker'[q] = worker[q]
    BY <1>1, <1>2, ResumeEffect
  <2>2. "idle" \notin OwningPcs  BY DEF OwningPcs, StagePcs
  <2>3. QED  BY <1>2, <2>1, <2>2, WorkerShrinks
<1>3. ASSUME NEW caller, w.pc \in StagePcs, CallCompleteFailure(p, caller),
             UNCHANGED <<handler, jobs>>
      PROVE  \A q \in Processes : Holdings(q)' \subseteq Holdings(q)
  BY <1>1, <1>3, CompleteFailureEffect, WorkerShrinks DEF OwningPcs, StagePcs
<1>4. ASSUME NEW pc, pc \in OwningPcs, NEW event, NEW next, NEW onError,
             WorkerPublishes(p, pc, event, next, onError)
      PROVE  Shrinks
  <2>1. /\ w.pc = pc /\ pc # "idle"
        /\ Resume(p, next) \/ Resume(p, onError)
        /\ UNCHANGED <<handler, jobs, ledger>>
    BY <1>4 DEF WorkerPublishes, OwningPcs, StagePcs
  <2>2. QED  BY <1>2, <1>4, <2>1, SameRowsKept
<1>5. CASE PublishStarted(p)
  BY <1>4, <1>5 DEF PublishStarted, OwningPcs, StagePcs
<1>6. CASE PrepareSource(p)
  <2>1. w.pc = "clone"  BY <1>6 DEF PrepareSource
  <2>2. \A q \in Processes : Holdings(q)' \subseteq Holdings(q)
    BY <1>2, <1>3, <1>6, <2>1 DEF PrepareSource, OwningPcs, StagePcs
  <2>3. QED  BY <1>6, <2>2, SameRowsKept DEF PrepareSource
<1>7. CASE BuildAndPush(p)
  <2>1. w.pc = "build"  BY <1>7 DEF BuildAndPush
  <2>2. \A q \in Processes : Holdings(q)' \subseteq Holdings(q)
    BY <1>2, <1>3, <1>7, <2>1 DEF BuildAndPush, OwningPcs, StagePcs
  <2>3. QED  BY <1>7, <2>2, SameRowsKept DEF BuildAndPush
<1>8. CASE PersistSuccess(p)
  <2>1. /\ w.pc = "complete"
        /\ Resume(p, "succeededService") \/ Resume(p, "recordRetry")
        /\ \/ ledger' = ledger
           \/ ledger' = [ledger EXCEPT ![w.job.id] = Completed(ledger[w.job.id])]
        /\ UNCHANGED <<handler, jobs>>
    BY <1>8 DEF PersistSuccess, WorkerPersists, CallLedger
  <2>2. \A q \in Processes : Holdings(q)' \subseteq Holdings(q)
    BY <1>2, <2>1 DEF OwningPcs, StagePcs
  <2>3. RowKept(ledger[w.job.id], Completed(ledger[w.job.id]))  BY DEF RowKept
  <2>4. QED  BY <1>1, <2>1, <2>2, <2>3, WorkerRows
<1>9. CASE PublishSucceeded(p)
  BY <1>4, <1>9 DEF PublishSucceeded, OwningPcs, StagePcs
<1>10. CASE PersistFailure(p)
  <2>1. /\ w.pc = "fail"
        /\ Resume(p, "failedService") \/ Resume(p, AfterFailureError(p))
        /\ \/ ledger' = ledger
           \/ ledger' = [ledger EXCEPT ![w.job.id] = Failed(ledger[w.job.id])]
        /\ UNCHANGED <<handler, jobs>>
    BY <1>10 DEF PersistFailure, WorkerPersists, CallLedger
  <2>2. \A q \in Processes : Holdings(q)' \subseteq Holdings(q)
    BY <1>2, <2>1 DEF OwningPcs, StagePcs
  <2>3. RowKept(ledger[w.job.id], Failed(ledger[w.job.id]))  BY DEF RowKept
  <2>4. QED  BY <1>1, <2>1, <2>2, <2>3, WorkerRows
<1>11. CASE PublishFailed(p)
  BY <1>4, <1>11 DEF PublishFailed, OwningPcs, StagePcs
<1>12. CASE RecordRetry(p)
  <2> DEFINE next(n) ==
               IF Exhausted(n)
               THEN [w EXCEPT !.pc = "fail", !.caller = "exhausted", !.attempt = n]
               ELSE [w EXCEPT !.pc = "retrying", !.attempt = n]
  <2>1. PICK recorded \in BOOLEAN :
          /\ CallLedger(w.job.id, RetryRecorded, recorded)
          /\ worker' = [worker EXCEPT ![p] = next(FailedAttempt(w.job, recorded))]
    BY <1>12 DEF RecordRetry
  <2>2. w.pc = "recordRetry" /\ w \in WorkerState /\ w # Idle
    BY <1>1, <1>12 DEF RecordRetry, TypeOK, Idle
  <2>3. \A n : next(n).job = w.job
    BY <2>2 DEF WorkerState
  <2>4. /\ worker'[p] = next(FailedAttempt(w.job, recorded))
        /\ \A q \in Processes \ {p} : worker'[q] = worker[q]
    <3> HIDE DEF next
    <3>1. QED  BY <1>1, <2>1 DEF TypeOK
  <2>5. \A q \in Processes : Holdings(q)' \subseteq Holdings(q)
    <3>1. worker'[p].job = w.job  BY <2>3, <2>4
    <3>2. w.pc \in OwningPcs  BY <2>2 DEF OwningPcs, StagePcs
    <3>3. UNCHANGED <<handler, jobs>>  BY <1>12 DEF RecordRetry
    <3>4. QED  BY <2>4, <3>1, <3>2, <3>3, WorkerShrinks
  <2>6. ledger' = ledger \/ ledger' = [ledger EXCEPT ![w.job.id] = RetryRecorded(ledger[w.job.id])]
    BY <2>1 DEF CallLedger
  <2>7. RowKept(ledger[w.job.id], RetryRecorded(ledger[w.job.id]))  BY DEF RowKept
  <2>8. QED  BY <1>1, <2>5, <2>6, <2>7, WorkerRows
<1>13. CASE EmitRetrying(p)
  BY <1>4, <1>13 DEF EmitRetrying, OwningPcs, StagePcs
<1>14. CASE PublishRetry(p) \/ PublishRetryOnChannel(p) \/ DeadLetter(p)
  <2>1. /\ w.pc # "idle"
        /\ Resume(p, "idle") \/ Resume(p, "requeueOnChannel")
        /\ UNCHANGED <<handler, jobs, ledger>>
    BY <1>14 DEF PublishRetry, PublishRetryOnChannel, DeadLetter
  <2>2. "idle" \notin OwningPcs /\ "requeueOnChannel" \notin OwningPcs
    BY DEF OwningPcs, StagePcs
  <2>3. QED  BY <1>2, <2>1, <2>2, SameRowsKept
<1>15. QED
  BY <1>5, <1>6, <1>7, <1>8, <1>9, <1>10, <1>11, <1>12, <1>13, <1>14 DEF Worker

\* One holding of p changes its place.
Moves(p, g, h) ==
  /\ h.job = g.job
  /\ Holdings(p)' \subseteq (Holdings(p) \ {g}) \cup {h}
  /\ \A q \in Processes \ {p} : Holdings(q)' \subseteq Holdings(q)

\* A job that only changes its place.
LEMMA MoveKeepsOwner ==
  ASSUME OwnerInv, TypeInv', NEW p \in Processes, NEW g \in Holdings(p), NEW h,
         Moves(p, g, h), UNCHANGED ledger
  PROVE  OwnerInv'
<1> USE DEF Moves
<1>1. ASSUME NEW q \in Processes, NEW f \in Holdings(q)'
      PROVE  \/ f \in Holdings(q) /\ (q = p => f # g)
             \/ q = p /\ f = h
  BY <1>1
<1>2. ASSUME NEW q \in Processes, NEW f \in Holdings(q)'
      PROVE  \E e \in Holdings(q) : e.job = f.job
  BY <1>1, <1>2
<1>3. ASSUME NEW q \in Processes, NEW r \in Processes,
             NEW e \in Holdings(q)', NEW f \in Holdings(r)', e.job.id = f.job.id
      PROVE  q = r /\ e = f
  <2>1. \A q1, q2 \in Processes : \A e1 \in Holdings(q1), e2 \in Holdings(q2) :
          e1.job.id = e2.job.id => q1 = q2 /\ e1 = e2
    BY DEF OwnerInv, DisjointHoldings
  <2>2. CASE e \in Holdings(q) /\ f \in Holdings(r)  BY <1>3, <2>1, <2>2
  <2>3. CASE q = p /\ e = h /\ f \in Holdings(r) /\ (r = p => f # g)
    BY <1>3, <2>1, <2>3
  <2>4. CASE r = p /\ f = h /\ e \in Holdings(q) /\ (q = p => e # g)
    BY <1>3, <2>1, <2>4
  <2>5. CASE q = p /\ e = h /\ r = p /\ f = h  BY <2>5
  <2>6. QED  BY <1>1, <2>2, <2>3, <2>4, <2>5
<1>4. DisjointHoldings'  BY <1>3 DEF DisjointHoldings
<1>5. CurrentHoldings' /\ Protected'
  BY <1>2 DEF OwnerInv, CurrentHoldings, Protected, Disposition
<1>6. QED  BY <1>4, <1>5 DEF OwnerInv

\* Taking a job from c.jobs moves the one holding to the worker.
LEMMA TakeJobMoves ==
  ASSUME TypeOK, NEW p \in Processes, TakeJob(p)
  PROVE  UNCHANGED ledger /\ \E g \in Holdings(p) : \E h : Moves(p, g, h)
<1>1. PICK job \in jobs[p] :
        /\ jobs' = [jobs EXCEPT ![p] = @ \ {job}]
        /\ worker' = [worker EXCEPT ![p] =
             [pc |-> "started", job |-> job, caller |-> "none", attempt |-> 0]]
  BY DEF TakeJob
<1> DEFINE g == [place |-> "waiting", job |-> job]
           h == [place |-> "worker", job |-> job]
<1>2. /\ worker[p] = Idle /\ worker[p].pc = "idle" /\ "idle" \notin OwningPcs
      /\ UNCHANGED <<handler, ledger>>
  BY DEF TakeJob, Idle, OwningPcs, StagePcs
<1>3. /\ jobs'[p] = jobs[p] \ {job}
      /\ worker'[p].job = job
      /\ \A q \in Processes \ {p} : jobs'[q] = jobs[q] /\ worker'[q] = worker[q]
  BY <1>1 DEF TypeOK
<1>4. g \in Holdings(p)  BY DEF Holdings
<1>5. Holdings(p)' \subseteq (Holdings(p) \ {g}) \cup {h}
  BY <1>2, <1>3 DEF Holdings, AckedJob
<1>6. \A q \in Processes \ {p} : Holdings(q)' \subseteq Holdings(q)
  BY <1>2, <1>3, HoldingsShrink
<1>7. h.job = g.job  OBVIOUS
<1> HIDE DEF g, h
<1>8. QED  BY <1>2, <1>4, <1>5, <1>6, <1>7 DEF Moves

\* So its owner stays the only one.
LEMMA TakeJobOwner ==
  ASSUME OwnerInv, TypeInv', NEW p \in Processes, TakeJob(p)
  PROVE  OwnerInv'
BY TakeJobMoves, MoveKeepsOwner DEF OwnerInv, TypeInv

\* The early ack moves the one holding to c.jobs, or drops it.
LEMMA AckDeliveryMoves ==
  ASSUME TypeOK, NEW p \in Processes, AckDelivery(p)
  PROVE  UNCHANGED ledger /\ \E g \in Holdings(p) : \E h : Moves(p, g, h)
<1> DEFINE job == AckedJob(p)
           g == [place |-> "handler", job |-> job]
           h == [place |-> "waiting", job |-> job]
<1>1. /\ handler[p].pc = "ack" /\ UNCHANGED <<worker, ledger>>
      /\ handler' = [handler EXCEPT ![p] = Idle]
      /\ jobs' = jobs \/ jobs' = [jobs EXCEPT ![p] = @ \cup {job}]
  BY DEF AckDelivery
<1>2. /\ handler'[p].pc = "idle"
      /\ jobs'[p] \subseteq jobs[p] \cup {job}
      /\ \A q \in Processes \ {p} : jobs'[q] = jobs[q] /\ handler'[q] = handler[q]
  BY <1>1 DEF TypeOK, Idle
<1>3. g \in Holdings(p)  BY <1>1 DEF Holdings
<1>4. Holdings(p)' \subseteq (Holdings(p) \ {g}) \cup {h}
  BY <1>1, <1>2 DEF Holdings
<1>5. \A q \in Processes \ {p} : Holdings(q)' \subseteq Holdings(q)
  BY <1>1, <1>2, HoldingsShrink
<1>6. h.job = g.job  OBVIOUS
<1> HIDE DEF g, h
<1>7. QED  BY <1>1, <1>3, <1>4, <1>5, <1>6 DEF Moves

\* So its owner stays the only one.
LEMMA AckDeliveryOwner ==
  ASSUME OwnerInv, TypeInv', NEW p \in Processes, AckDelivery(p)
  PROVE  OwnerInv'
BY AckDeliveryMoves, MoveKeepsOwner DEF OwnerInv, TypeInv

\* Claim acquires only a row that is not busy, and such a row has no holder;
\* the holder it makes is the only one and has the number just written.
LEMMA ClaimAcquiredOwner ==
  ASSUME OwnerInv, TypeInv', NEW p \in Processes, ClaimAcquired(p)
  PROVE  OwnerInv'
<1> DEFINE d   == handler[p].msg.id
           job == [id |-> d, attempt |-> handler[p].msg.attempt,
                   claim |-> Claimed(ledger[d]).attempt]
           new == [place |-> "handler", job |-> job]
<1>1. /\ handler[p].pc = "claim" /\ Disposition(ledger[d]) = "ClaimAcquired"
      /\ ledger' = [ledger EXCEPT ![d] = Claimed(ledger[d])]
      /\ handler' = [handler EXCEPT ![p] = [pc |-> "ack", msg |-> handler[p].msg,
                       claim |-> Claimed(ledger[d]).attempt]]
      /\ UNCHANGED <<jobs, worker>>
  BY DEF ClaimAcquired, CallLedger
<1>2. d \in Deployments
  BY <1>1, HandlerFields DEF OwnerInv, TypeInv, TypeOK, Request
<1>3. /\ handler'[p] = [pc |-> "ack", msg |-> handler[p].msg,
                        claim |-> Claimed(ledger[d]).attempt]
      /\ \A q \in Processes \ {p} : handler'[q] = handler[q]
      /\ ledger'[d] = Claimed(ledger[d])
      /\ \A e \in Deployments \ {d} : ledger'[e] = ledger[e]
  BY <1>1, <1>2 DEF OwnerInv, TypeInv, TypeOK
<1>4. Holdings(p)' \subseteq Holdings(p) \cup {new}
  BY <1>1, <1>3 DEF Holdings, AckedJob
<1>5. \A q \in Processes \ {p} : Holdings(q)' \subseteq Holdings(q)
  BY <1>1, <1>3, HoldingsShrink
<1>6. \A q \in Processes : \A f \in Holdings(q) : f.job.id # d
  BY <1>1 DEF OwnerInv, Protected
<1>7. /\ new.job.id = d /\ new.job.claim = ledger'[d].attempt
      /\ Disposition(ledger'[d]) # "ClaimAcquired"
  BY <1>1, <1>2, <1>3, AcquiredRow DEF OwnerInv, TypeInv, TypeOK
<1> HIDE DEF d, job, new
<1>8. ASSUME NEW q \in Processes, NEW f \in Holdings(q)'
      PROVE  (f \in Holdings(q) /\ f.job.id # d) \/ (q = p /\ f = new)
  BY <1>4, <1>5, <1>6, <1>8
<1>9. DisjointHoldings'  BY <1>7, <1>8 DEF OwnerInv, DisjointHoldings
<1>10. ASSUME NEW q \in Processes, NEW f \in Holdings(q)'
       PROVE  /\ f.job.claim = ledger'[f.job.id].attempt
              /\ Disposition(ledger'[f.job.id]) # "ClaimAcquired"
  <2>1. CASE q = p /\ f = new  BY <1>7, <2>1
  <2>2. CASE f \in Holdings(q) /\ f.job.id # d
    <3>1. f.job.id \in Deployments  BY <2>2, HoldingIds DEF OwnerInv, TypeInv
    <3>2. ledger'[f.job.id] = ledger[f.job.id]  BY <1>3, <2>2, <3>1
    <3>3. QED  BY <2>2, <3>2 DEF OwnerInv, CurrentHoldings, Protected
  <2>3. QED  BY <1>8, <1>10, <2>1, <2>2
<1>11. CurrentHoldings' /\ Protected'
  BY <1>10 DEF CurrentHoldings, Protected, Disposition
<1>12. QED  BY <1>9, <1>11 DEF OwnerInv

\* Release reopens the row, and the worker has then no use of the claim left.
LEMMA ReleaseClaimOwner ==
  ASSUME OwnerInv, TypeInv', NEW p \in Processes, ReleaseClaim(p)
  PROVE  OwnerInv'
<1> DEFINE d == worker[p].job.id
           g == [place |-> "worker", job |-> worker[p].job]
<1>1. /\ worker[p].pc = "release" /\ Resume(p, "requeue")
      /\ ledger' = ledger \/ ledger' = [ledger EXCEPT ![d] = Released(ledger[d])]
      /\ UNCHANGED <<handler, jobs>>
  BY DEF ReleaseClaim, WorkerPersists, CallLedger
<1>2. /\ worker'[p].pc = "requeue" /\ "requeue" \notin OwningPcs
      /\ \A q \in Processes \ {p} : worker'[q] = worker[q]
  BY <1>1, ResumeEffect DEF OwnerInv, TypeInv, OwningPcs, StagePcs
<1>3. \A q \in Processes : Holdings(q)' \subseteq Holdings(q)
  BY <1>1, <1>2, WorkerShrinks
<1>4. g \in Holdings(p)  BY <1>1 DEF Holdings, OwningPcs
<1>5. g \notin Holdings(p)'  BY <1>2 DEF Holdings
<1>6. ASSUME NEW q \in Processes, NEW f \in Holdings(q)'
      PROVE  f.job.id # d
  <2>1. f \in Holdings(q) /\ g.job.id = d  BY <1>3, <1>6
  <2>2. q # p \/ f # g  BY <1>5, <1>6
  <2>3. QED  BY <1>4, <2>1, <2>2 DEF OwnerInv, DisjointHoldings
<1>7. ASSUME NEW q \in Processes, NEW f \in Holdings(q)'
      PROVE  RowKept(ledger[f.job.id], ledger'[f.job.id])
  <2>1. f \in Holdings(q) /\ f.job.id # d  BY <1>3, <1>6, <1>7
  <2>2. f.job.id \in Deployments  BY <2>1, HoldingIds DEF OwnerInv, TypeInv
  <2>3. ledger'[f.job.id] = ledger[f.job.id]
    <3> HIDE DEF d
    <3>1. QED  BY <1>1, <2>1, <2>2 DEF OwnerInv, TypeInv, TypeOK
  <2>4. QED  BY <2>3 DEF RowKept
<1>8. QED  BY <1>3, <1>7, ShrinkKeepsOwner

\* Unless a lease ends under a holder nothing but its job ends a holding; a
\* crash drops all the holdings of a process and leaves its rows busy.
LEMMA EnvironmentOwner ==
  ASSUME OwnerInv, TypeInv', "lease" \notin faults'.kinds,
         \/ \E p \in Processes : IssueRenewal(p) \/ ConnectionLost(p) \/ Crash(p)
         \/ \E d \in Deployments : LandRenewal(d) \/ LeaseExpires(d) \/ LeaseRunsOut(d)
         \/ RetryDue \/ UNCHANGED vars
  PROVE  OwnerInv'
<1>1. ASSUME UNCHANGED <<handler, jobs, worker>>
      PROVE  \A q \in Processes : Holdings(q)' \subseteq Holdings(q)
  BY <1>1, HoldingsShrink
<1>2. ASSUME UNCHANGED ledger,
             \A q \in Processes : Holdings(q)' \subseteq Holdings(q)
      PROVE  OwnerInv'
  BY <1>2, ShrinkKeepsOwner DEF RowKept
<1>3. ASSUME NEW p \in Processes, IssueRenewal(p) \/ ConnectionLost(p)  PROVE OwnerInv'
  BY <1>1, <1>2, <1>3 DEF IssueRenewal, ConnectionLost
<1>4. ASSUME NEW p \in Processes, Crash(p)  PROVE OwnerInv'
  <2>1. /\ handler'[p] = Idle /\ worker'[p] = Idle /\ jobs'[p] = {}
        /\ \A q \in Processes \ {p} : /\ handler'[q] = handler[q]
                                      /\ worker'[q] = worker[q]
                                      /\ jobs'[q] = jobs[q]
    BY <1>4 DEF Crash, OwnerInv, TypeInv, TypeOK
  <2>2. Idle.pc # "ack" /\ Idle.pc \notin OwningPcs  BY DEF Idle, OwningPcs, StagePcs
  <2>3. \A q \in Processes : Holdings(q)' \subseteq Holdings(q)
    BY <2>1, <2>2, HoldingsShrink
  <2>4. QED  BY <1>2, <1>4, <2>3 DEF Crash
<1>5. ASSUME NEW d \in Deployments, LandRenewal(d)  PROVE OwnerInv'
  <2>1. ledger' = [ledger EXCEPT ![d] = Renewed(ledger[d])]  BY <1>5 DEF LandRenewal
  <2>2. \A e \in Deployments : RowKept(ledger[e], ledger'[e])
    BY <2>1 DEF RowKept, OwnerInv, TypeInv, TypeOK
  <2>3. \A q \in Processes : Holdings(q)' \subseteq Holdings(q)
    BY <1>1, <1>5 DEF LandRenewal
  <2>4. \A q \in Processes : \A h \in Holdings(q)' : h.job.id \in Deployments
    BY <2>3, HoldingIds DEF OwnerInv, TypeInv
  <2>5. QED  BY <2>2, <2>3, <2>4, ShrinkKeepsOwner
<1>6. ASSUME NEW d \in Deployments, LeaseExpires(d)  PROVE OwnerInv'
  <2>1. /\ ledger' = [ledger EXCEPT ![d] = [ledger[d] EXCEPT !.lease = "expired"]]
        /\ ~Held(d)
    BY <1>6 DEF LeaseExpires
  <2>2. \A q \in Processes : Holdings(q)' \subseteq Holdings(q)
    BY <1>1, <1>6 DEF LeaseExpires
  <2>3. \A q \in Processes : \A h \in Holdings(q)' :
          h.job.id \in Deployments /\ h.job.id # d
    BY <2>1, <2>2, HoldingIds DEF Held, OwnerInv, TypeInv
  <2>4. \A q \in Processes : \A h \in Holdings(q)' : ledger'[h.job.id] = ledger[h.job.id]
    BY <2>1, <2>3 DEF OwnerInv, TypeInv, TypeOK
  <2>5. QED  BY <2>2, <2>4, ShrinkKeepsOwner DEF RowKept
<1>7. ASSUME NEW d \in Deployments, LeaseRunsOut(d)  PROVE OwnerInv'
  BY <1>7, FaultTypes DEF LeaseRunsOut, OwnerInv, TypeInv, TypeOK
<1>8. CASE RetryDue \/ UNCHANGED vars
  BY <1>1, <1>2, <1>8 DEF RetryDue, vars
<1>9. QED  BY <1>3, <1>4, <1>5, <1>6, <1>7, <1>8

-----------------------------------------------------------------------------
(* The theorems *)

\* At the start nobody holds anything.
LEMMA OwnerInit == Init => OwnerInv
<1> SUFFICES ASSUME Init PROVE OwnerInv  OBVIOUS
<1>1. TypeInv  BY TypeInit
<1>2. \A p \in Processes : Holdings(p) = {}
  BY DEF Init, Holdings, Idle, OwningPcs, StagePcs
<1>3. QED  BY <1>1, <1>2 DEF OwnerInv, DisjointHoldings, CurrentHoldings, Protected

\* As long as no lease has run out under its holder, OwnerInv is kept.
LEMMA OwnerNext ==
  OwnerInv /\ [Next]_vars /\ "lease" \notin faults'.kinds => OwnerInv'
<1> SUFFICES ASSUME OwnerInv, [Next]_vars, "lease" \notin faults'.kinds PROVE OwnerInv'
  OBVIOUS
<1>1. TypeInv'  BY TypeNext DEF OwnerInv
<1>2. ASSUME Shrinks  PROVE OwnerInv'
  <2>1. \A p \in Processes : \A h \in Holdings(p)' : h.job.id \in Deployments
    BY <1>2, HoldingIds DEF Shrinks, OwnerInv, TypeInv
  <2>2. QED  BY <1>1, <1>2, <2>1, ShrinkKeepsOwner DEF Shrinks
<1>3. ASSUME NEW p \in Processes, Handler(p)  PROVE OwnerInv'
  BY <1>1, <1>2, <1>3, HandlerOwner, ClaimAcquiredOwner, AckDeliveryOwner DEF OwnerInv, TypeInv
<1>4. ASSUME NEW p \in Processes, Worker(p)  PROVE OwnerInv'
  BY <1>1, <1>2, <1>4, WorkerOwner, TakeJobOwner, ReleaseClaimOwner DEF OwnerInv, TypeInv
<1>5. QED  BY <1>1, <1>3, <1>4, EnvironmentOwner DEF Next

\* A step is a fault, or leaves the history of faults alone.
FaultStep == UNCHANGED faults \/ \E kind : Fault(kind)

LEMMA FaultSteps == [Next]_vars => FaultStep
<1> SUFFICES ASSUME [Next]_vars PROVE FaultStep  OBVIOUS
<1>1. \A kind : Fault(kind) => FaultStep
  BY DEF FaultStep
<1>2. ASSUME NEW p, NEW ok, NEW sent, CallBroker(p, ok, sent)
      PROVE  FaultStep
  BY <1>2 DEF CallBroker, FaultStep
<1>3. ASSUME NEW p, NEW d, NEW event, NEW ok, Publish(p, d, event, ok)
      PROVE  FaultStep
  BY <1>2, <1>3 DEF Publish
<1>4. ASSUME NEW p \in Processes, Handler(p)
      PROVE  FaultStep
  <2>1. CASE Connect(p) \/ Deliver(p) \/ ClaimBusy(p) \/ ClaimTerminal(p) \/ Settle(p)
    BY <2>1 DEF FaultStep, Connect, Deliver, ClaimBusy, ClaimTerminal, Settle
  <2>2. CASE ClaimFails(p) \/ ClaimAcquired(p)
    BY <1>1, <2>2 DEF FaultStep, ClaimFails, ClaimAcquired, CallLedger
  <2>3. CASE PublishStored(p) \/ ProcessDelivery(p)
    BY <1>2, <1>3, <2>3 DEF PublishStored, ProcessDelivery
  <2>4. CASE AckDelivery(p)  BY <1>1, <2>4 DEF FaultStep, AckDelivery
  <2>5. QED  BY <1>4, <2>1, <2>2, <2>3, <2>4 DEF Handler
<1>5. ASSUME NEW p \in Processes, Worker(p)
      PROVE  FaultStep
  <2>1. CASE TakeJob(p) \/ PrepareSource(p) \/ BuildAndPush(p)
    BY <2>1 DEF FaultStep, TakeJob, PrepareSource, BuildAndPush
  <2>2. CASE PublishStarted(p) \/ PublishSucceeded(p) \/ PublishFailed(p) \/ EmitRetrying(p)
    BY <1>3, <2>2
    DEF PublishStarted, PublishSucceeded, PublishFailed, EmitRetrying, WorkerPublishes
  <2>3. CASE PersistSuccess(p) \/ PersistFailure(p) \/ ReleaseClaim(p) \/ RecordRetry(p)
    BY <1>1, <2>3
    DEF FaultStep, PersistSuccess, PersistFailure, ReleaseClaim, WorkerPersists, RecordRetry, CallLedger
  <2>4. CASE PublishRetry(p) \/ PublishRetryOnChannel(p) \/ DeadLetter(p)
    BY <1>1, <1>2, <2>4 DEF FaultStep, PublishRetry, PublishRetryOnChannel, DeadLetter
  <2>5. QED  BY <1>5, <2>1, <2>2, <2>3, <2>4 DEF Worker
<1>6. ASSUME NEW p \in Processes, IssueRenewal(p) \/ ConnectionLost(p) \/ Crash(p)
      PROVE  FaultStep
  BY <1>1, <1>6 DEF FaultStep, IssueRenewal, ConnectionLost, Crash
<1>7. ASSUME NEW d, LandRenewal(d) \/ LeaseExpires(d) \/ LeaseRunsOut(d)
      PROVE  FaultStep
  BY <1>1, <1>7 DEF FaultStep, LandRenewal, LeaseExpires, LeaseRunsOut
<1>8. CASE RetryDue \/ UNCHANGED vars  BY <1>8 DEF FaultStep, RetryDue, vars
<1>9. QED  BY <1>4, <1>5, <1>6, <1>7, <1>8 DEF Next

\* The history of faults forgets nothing.
LEMMA KindsGrow ==
  ASSUME TypeOK, [Next]_vars
  PROVE  /\ faults.kinds \subseteq faults'.kinds
         /\ faults.count \in Nat /\ faults.count <= faults'.count
<1>1. faults.count \in Nat  BY ConstantsAssumption DEF TypeOK, FaultHistory
<1>2. \A kind : Fault(kind) => /\ faults.kinds \subseteq faults'.kinds
                              /\ faults'.count = faults.count + 1
  BY DEF Fault
<1>3. QED  BY <1>1, <1>2, FaultSteps DEF FaultStep

\* What is inductive under every fault.
LeaseInv == TypeInv /\ (LeasesHeld => OwnerInv)

\* LeaseInv is inductive: a lease that runs out now ends the promise, one that
\* ran out before ended it already.
LEMMA LeaseNext == LeaseInv /\ [Next]_vars => LeaseInv'
<1> SUFFICES ASSUME LeaseInv, [Next]_vars PROVE LeaseInv'  OBVIOUS
<1>1. TypeInv'  BY TypeNext DEF LeaseInv
<1>2. "lease" \notin faults'.kinds => LeasesHeld
  BY KindsGrow DEF LeaseInv, TypeInv, LeasesHeld
<1>3. "lease" \notin faults'.kinds => OwnerInv'  BY <1>2, OwnerNext DEF LeaseInv
<1>4. LeasesHeld' <=> "lease" \notin faults'.kinds  BY DEF LeasesHeld
<1>5. QED  BY <1>1, <1>3, <1>4 DEF LeaseInv

\* As long as no lease has run out under its holder, at most one accepted job of
\* a deployment exists in all the processes together, whatever publishes, ledger
\* calls, connections and processes fail.
THEOREM AtMostOneOwner == Spec => []SingleOwner
<1>1. LeaseInv => SingleOwner  BY DEF LeaseInv, OwnerInv, SingleOwner, DisjointHoldings
<1>2. Init => LeaseInv  BY OwnerInit, TypeInit DEF LeaseInv
<1>3. QED  BY <1>1, <1>2, LeaseNext, PTL DEF Spec

\* Under the same condition the owner's attempt number is the row's.
THEOREM OwnerIsLatestClaimant == Spec => []HolderIsCurrent
<1>1. LeaseInv => HolderIsCurrent  BY DEF LeaseInv, OwnerInv, HolderIsCurrent, CurrentHoldings
<1>2. Init => LeaseInv  BY OwnerInit, TypeInit DEF LeaseInv
<1>3. QED  BY <1>1, <1>2, LeaseNext, PTL DEF Spec

-----------------------------------------------------------------------------
(* Claim hands out every attempt number once: no two jobs of a deployment   *)
(* have the same, whatever fails, leases that run out under their holders   *)
(* included.  Inductive together with the fact that no job has a number     *)
(* above the one in the row, from which the next claim counts on.           *)

\* No job has a number that the row has not reached.
ClaimsIssued ==
  \A p \in Processes : \A h \in Holdings(p) :
    h.job.claim <= ledger[h.job.id].attempt

NumbersInv == TypeInv /\ ClaimNumbersUnique /\ ClaimsIssued

-----------------------------------------------------------------------------
(* What a step does to the holdings *)

\* A holding is of a deployment and has a number.
LEMMA HoldingClaims ==
  ASSUME TypeOK, NEW p \in Processes, NEW h \in Holdings(p)
  PROVE  h.job.id \in Deployments /\ h.job.claim \in Nat
<1>1. handler[p].pc = "ack" => AckedJob(p).claim \in Nat
  BY HandlerFields DEF TypeOK, AckedJob
<1>2. worker[p].pc \in OwningPcs => worker[p].job.claim \in Nat
  BY WorkerFields DEF TypeOK, OwningPcs, StagePcs, Idle, Job
<1>3. \A job \in jobs[p] : job.claim \in Nat  BY DEF TypeOK, Job
<1>4. h.job.claim \in Nat  BY <1>1, <1>2, <1>3 DEF Holdings
<1>5. QED  BY <1>4, HoldingIds

\* No process holds more than before.
HoldingsKept == \A q \in Processes : Holdings(q)' \subseteq Holdings(q)

\* p comes to hold the number that the claim has just written, and only p more
\* than before.
Acquires(p, h) ==
  /\ h.job.id \in Deployments
  /\ h.job.claim = ledger[h.job.id].attempt + 1
  /\ h.job.claim = ledger'[h.job.id].attempt
  /\ Holdings(p)' \subseteq Holdings(p) \cup {h}
  /\ \A q \in Processes \ {p} : Holdings(q)' \subseteq Holdings(q)

\* An acquired claim.
LEMMA ClaimAcquires ==
  ASSUME TypeOK, NEW p \in Processes, ClaimAcquired(p)
  PROVE  \E h : Acquires(p, h)
<1> DEFINE d   == handler[p].msg.id
           n   == Claimed(ledger[d]).attempt
           job == [id |-> d, attempt |-> handler[p].msg.attempt, claim |-> n]
           new == [place |-> "handler", job |-> job]
<1>1. /\ handler[p].pc = "claim" /\ Disposition(ledger[d]) = "ClaimAcquired"
      /\ ledger' = [ledger EXCEPT ![d] = Claimed(ledger[d])]
      /\ handler' = [handler EXCEPT ![p] =
                       [pc |-> "ack", msg |-> handler[p].msg, claim |-> n]]
      /\ UNCHANGED <<jobs, worker>>
  BY DEF ClaimAcquired, CallLedger
<1>2. d \in Deployments  BY <1>1, HandlerFields DEF TypeOK, Request
<1>3. /\ handler'[p] = [pc |-> "ack", msg |-> handler[p].msg, claim |-> n]
      /\ \A q \in Processes \ {p} : handler'[q] = handler[q]
      /\ ledger'[d] = Claimed(ledger[d])
  BY <1>1, <1>2 DEF TypeOK
<1>4. Holdings(p)' \subseteq Holdings(p) \cup {new}
  BY <1>1, <1>3 DEF Holdings, AckedJob
<1>5. \A q \in Processes \ {p} : Holdings(q)' \subseteq Holdings(q)
  BY <1>1, <1>3, HoldingsShrink
<1>6. n = ledger[d].attempt + 1
  BY <1>1, <1>2 DEF Claimed, TypeOK, StageRecord
<1>7. new.job.id = d /\ new.job.claim = n  OBVIOUS
<1> HIDE DEF d, n, job, new
<1>8. QED  BY <1>2, <1>3, <1>4, <1>5, <1>6, <1>7 DEF Acquires, n

\* releaseClaim gives the claim up, or keeps it when the UPDATE fails.
LEMMA ReleaseKept ==
  ASSUME TypeOK, NEW p \in Processes, ReleaseClaim(p)
  PROVE  HoldingsKept
<1>1. /\ worker[p].pc = "release" /\ Resume(p, "requeue")
      /\ UNCHANGED <<handler, jobs>>
  BY DEF ReleaseClaim, WorkerPersists
<1>2. /\ worker'[p].pc = "requeue" /\ "requeue" \notin OwningPcs
      /\ \A q \in Processes \ {p} : worker'[q] = worker[q]
  BY <1>1, ResumeEffect DEF OwningPcs, StagePcs
<1>3. QED  BY <1>1, <1>2, WorkerShrinks DEF HoldingsKept

\* Renewals, leases, lost connections and crashes give nobody a claim.
LEMMA EnvironmentKept ==
  ASSUME TypeOK,
         \/ \E p \in Processes : IssueRenewal(p) \/ ConnectionLost(p) \/ Crash(p)
         \/ \E d \in Deployments : LandRenewal(d) \/ LeaseExpires(d) \/ LeaseRunsOut(d)
         \/ RetryDue \/ UNCHANGED vars
  PROVE  HoldingsKept
<1>1. ASSUME UNCHANGED <<handler, jobs, worker>>  PROVE HoldingsKept
  BY <1>1, HoldingsShrink DEF HoldingsKept
<1>2. ASSUME NEW p \in Processes, Crash(p)  PROVE HoldingsKept
  <2>1. /\ handler'[p] = Idle /\ worker'[p] = Idle /\ jobs'[p] = {}
        /\ \A q \in Processes \ {p} : /\ handler'[q] = handler[q]
                                      /\ worker'[q] = worker[q]
                                      /\ jobs'[q] = jobs[q]
    BY <1>2 DEF Crash, TypeOK
  <2>2. Idle.pc # "ack" /\ Idle.pc \notin OwningPcs  BY DEF Idle, OwningPcs, StagePcs
  <2>3. QED  BY <2>1, <2>2, HoldingsShrink DEF HoldingsKept
<1>3. QED
  BY <1>1, <1>2 DEF IssueRenewal, ConnectionLost, LandRenewal, LeaseExpires,
                    LeaseRunsOut, RetryDue, vars

\* Every step of the system is one of three kinds.
LEMMA HoldingsNext ==
  ASSUME TypeOK, [Next]_vars
  PROVE  \/ HoldingsKept
         \/ \E p \in Processes : \E g \in Holdings(p) : \E h : Moves(p, g, h)
         \/ \E p \in Processes : \E h : Acquires(p, h)
<1>1. ASSUME NEW p \in Processes, Handler(p)
      PROVE  \/ Shrinks \/ \E h : Acquires(p, h)
             \/ \E g \in Holdings(p) : \E h : Moves(p, g, h)
  BY <1>1, HandlerOwner, ClaimAcquires, AckDeliveryMoves
<1>2. ASSUME NEW p \in Processes, Worker(p)
      PROVE  \/ Shrinks \/ HoldingsKept
             \/ \E g \in Holdings(p) : \E h : Moves(p, g, h)
  BY <1>2, WorkerOwner, ReleaseKept, TakeJobMoves
<1>3. Shrinks => HoldingsKept  BY DEF Shrinks, HoldingsKept
<1>4. QED  BY <1>1, <1>2, <1>3, EnvironmentKept DEF Next

-----------------------------------------------------------------------------
(* The theorem *)

\* At the start nobody holds anything.
LEMMA NumbersInit == Init => NumbersInv
<1> SUFFICES ASSUME Init PROVE NumbersInv  OBVIOUS
<1>1. \A p \in Processes : Holdings(p) = {}
  BY DEF Init, Holdings, Idle, OwningPcs, StagePcs
<1>2. QED  BY <1>1, TypeInit DEF NumbersInv, ClaimNumbersUnique, ClaimsIssued

\* A number that nobody has above the row's stays unique: numbers move with
\* their jobs, and a claim takes the next one.
LEMMA NumbersNext == NumbersInv /\ [Next]_vars => NumbersInv'
<1> SUFFICES ASSUME NumbersInv, [Next]_vars PROVE NumbersInv'  OBVIOUS
<1> DEFINE Unique(q, e, r, f) ==
             e.job.id = f.job.id /\ e.job.claim = f.job.claim => q = r /\ e = f
<1>1. TypeOK /\ DecidedHasResult /\ TypeInv'  BY TypeNext DEF NumbersInv, TypeInv
<1>2. \A d \in Deployments :
        /\ ledger[d].attempt \in Nat /\ ledger'[d].attempt \in Nat
        /\ ledger[d].attempt <= ledger'[d].attempt
  <2>1. RowsStep  BY <1>1, Steps
  <2>2. QED  BY <1>1, <2>1, RowStepKeeps DEF RowsStep, TypeInv, TypeOK, StageRecord
<1>3. \A q \in Processes : \A f \in Holdings(q) :
        /\ f.job.id \in Deployments /\ f.job.claim \in Nat
        /\ f.job.claim <= ledger[f.job.id].attempt
        /\ f.job.claim <= ledger'[f.job.id].attempt
  <2>1. ASSUME NEW q \in Processes, NEW f \in Holdings(q)
        PROVE  /\ f.job.id \in Deployments /\ f.job.claim \in Nat
               /\ f.job.claim <= ledger[f.job.id].attempt
    BY <1>1, <2>1, HoldingClaims DEF NumbersInv, ClaimsIssued
  <2>2. QED  BY <1>2, <2>1
<1>4. \A q, r \in Processes : \A e \in Holdings(q), f \in Holdings(r) : Unique(q, e, r, f)
  BY DEF NumbersInv, ClaimNumbersUnique
<1>5. CASE HoldingsKept
  BY <1>1, <1>3, <1>4, <1>5 DEF HoldingsKept, NumbersInv, ClaimNumbersUnique, ClaimsIssued
<1>6. ASSUME NEW p \in Processes, NEW g \in Holdings(p), NEW h, Moves(p, g, h)
      PROVE  NumbersInv'
  <2>1. ASSUME NEW q \in Processes, NEW f \in Holdings(q)'
        PROVE  \/ f \in Holdings(q) /\ (q = p => f # g)
               \/ q = p /\ f = h
    BY <1>6, <2>1 DEF Moves
  <2>2. h.job = g.job  BY <1>6 DEF Moves
  <2>3. ClaimsIssued'  BY <1>3, <1>6, <2>1, <2>2 DEF ClaimsIssued
  <2>4. ASSUME NEW q \in Processes, NEW r \in Processes,
               NEW e \in Holdings(q)', NEW f \in Holdings(r)',
               e.job.id = f.job.id, e.job.claim = f.job.claim
        PROVE  q = r /\ e = f
    <3>1. CASE e \in Holdings(q) /\ f \in Holdings(r)  BY <1>4, <2>4, <3>1
    <3>2. CASE q = p /\ e = h /\ f \in Holdings(r) /\ (r = p => f # g)
      BY <1>4, <1>6, <2>2, <2>4, <3>2
    <3>3. CASE r = p /\ f = h /\ e \in Holdings(q) /\ (q = p => e # g)
      BY <1>4, <1>6, <2>2, <2>4, <3>3
    <3>4. CASE q = p /\ e = h /\ r = p /\ f = h  BY <3>4
    <3>5. QED  BY <2>1, <2>4, <3>1, <3>2, <3>3, <3>4
  <2>5. ClaimNumbersUnique'  BY <2>4 DEF ClaimNumbersUnique
  <2>6. QED  BY <1>1, <2>3, <2>5 DEF NumbersInv
<1>7. ASSUME NEW p \in Processes, NEW h, Acquires(p, h)
      PROVE  NumbersInv'
  <2>1. ASSUME NEW q \in Processes, NEW f \in Holdings(q)'
        PROVE  f \in Holdings(q) \/ (q = p /\ f = h)
    BY <1>7, <2>1 DEF Acquires
  <2>2. /\ h.job.id \in Deployments
        /\ h.job.claim = ledger[h.job.id].attempt + 1
        /\ h.job.claim = ledger'[h.job.id].attempt
    BY <1>7 DEF Acquires
  <2>3. \A q \in Processes : \A f \in Holdings(q) :
          f.job.id = h.job.id => f.job.claim # h.job.claim
    BY <1>2, <1>3, <2>2
  <2>4. ASSUME NEW q \in Processes, NEW f \in Holdings(q)'
        PROVE  f.job.claim <= ledger'[f.job.id].attempt
    BY <1>2, <1>3, <2>1, <2>2, <2>4
  <2>5. ClaimsIssued'  BY <2>4 DEF ClaimsIssued
  <2>6. ASSUME NEW q \in Processes, NEW r \in Processes,
               NEW e \in Holdings(q)', NEW f \in Holdings(r)',
               e.job.id = f.job.id, e.job.claim = f.job.claim
        PROVE  q = r /\ e = f
    BY <1>4, <2>1, <2>3, <2>6
  <2>7. ClaimNumbersUnique'  BY <2>6 DEF ClaimNumbersUnique
  <2>8. QED  BY <1>1, <2>5, <2>7 DEF NumbersInv
<1>8. QED  BY <1>1, <1>5, <1>6, <1>7, HoldingsNext

\* No two jobs of a deployment ever have the same attempt number, under every
\* fault: the ledger could refuse the writes of all but the latest of them.
THEOREM ClaimNumbersNeverShared == Spec => []ClaimNumbersUnique
<1>1. NumbersInv => ClaimNumbersUnique  BY DEF NumbersInv
<1>2. QED  BY <1>1, NumbersInit, NumbersNext, PTL DEF Spec

=============================================================================
