---------------------------- MODULE LedgerProofs ----------------------------
(***************************************************************************)
(* The Claim transaction is atomic, for any number of callers and whatever  *)
(* their clocks.  The inductive invariant says what a transaction knows     *)
(* between its statements: it has the row locked, what it read is still     *)
(* there, and its answer is the one the row gives now.                      *)
(***************************************************************************)
EXTENDS LedgerProperties, TLAPS

\* Before the first claim there is nothing but the defaults.
AbsentRow == row.state = "ABSENT" => row = NoRow /\ memory = NoRow /\ renewals = {}

\* A transaction that has read the row has locked it, and its answer holds.
ClaimLocked ==
  \A c \in Callers : tx[c].pc \in {"update", "commit"} =>
    /\ lock = c
    /\ tx[c].answer = Answer(row, tx[c].now)
    /\ tx[c].pc = "update" => tx[c].answer = "ClaimAcquired" /\ tx[c].r = row
    /\ tx[c].pc = "commit" /\ tx[c].answer = "ClaimAcquired" =>
         tx[c].r.attempt = row.attempt + 1

\* Nobody has been told a number that the row has not reached.
NumbersIssued == \A c \in Callers : claim[c] <= row.attempt

\* No time in the system is later than the fastest clock allows.
TimesBounded ==
  /\ \A c \in Callers : tx[c] # NoTx => tx[c].now <= clock + Skew
  /\ \A expires \in renewals : expires <= clock + Skew + LeaseLength
  /\ LeaseBounded

\* The part of MemoryAgrees that is about the records.
SameRecord ==
  /\ memory.state = row.state
  /\ memory.attempt = row.attempt
  /\ memory.retryCount = row.retryCount
  /\ memory.result = row.result
  /\ row.state = "IN_PROGRESS" => memory.expires = row.expires

LedgerInv ==
  LedgerTypeOK /\ AbsentRow /\ ClaimLocked /\ NumbersIssued /\ AttemptsDistinct
  /\ TimesBounded /\ SameRecord

-----------------------------------------------------------------------------
(* Operators *)

\* The fields of a transaction, by its program counter.
LEMMA TxFields ==
  ASSUME tx \in [Callers -> Transaction], NEW c \in Callers
  PROVE  /\ tx[c].pc \in {"idle", "insert", "select", "update", "commit"}
         /\ tx[c] = NoTx <=> tx[c].pc = "idle"
         /\ tx[c] # NoTx => tx[c].now \in Nat
         /\ tx[c].pc \in {"insert", "select"} =>
              tx[c] = [pc |-> tx[c].pc, now |-> tx[c].now]
         /\ tx[c].pc \in {"update", "commit"} =>
              /\ tx[c].r \in Row /\ tx[c].answer \in Dispositions
              /\ tx[c] = [pc |-> tx[c].pc, now |-> tx[c].now, r |-> tx[c].r,
                          answer |-> tx[c].answer]
<1>1. tx[c] \in Transaction  OBVIOUS
<1>2. QED  BY <1>1 DEF Transaction, NoTx

\* The time of a caller.
LEMMA NowBounded ==
  ASSUME clock \in Nat, NEW c \in Callers
  PROVE  Now(c) \in Nat /\ Now(c) <= clock + Skew
BY LedgerAssumption DEF Now

\* The method bodies keep the shape of a row.
LEMMA RowTypes ==
  ASSUME NEW r \in Row, NEW n \in Nat, NEW now \in Nat, NEW e \in Nat,
         NEW state \in StageStates, NEW result \in Results
  PROVE  /\ Acquired(r, n, now) \in Row
         /\ RenewedTo(r, e) \in Row /\ MemoryRenewed(r, e) \in Row
         /\ Decided(r, state, result) \in Row /\ MemoryDecided(r, state, result) \in Row
         /\ ReleasedRow(r) \in Row /\ MemoryReleased(r) \in Row
         /\ Retried(r) \in Row
<1> USE DEF Row, StageStates
<1>1. now + LeaseLength \in Nat /\ r.retryCount + 1 \in Nat  BY LedgerAssumption
<1>2. Acquired(r, n, now) \in Row  BY <1>1 DEF Acquired
<1>3. RenewedTo(r, e) \in Row /\ MemoryRenewed(r, e) \in Row  BY DEF RenewedTo, MemoryRenewed
<1>4. Decided(r, state, result) \in Row /\ MemoryDecided(r, state, result) \in Row
  BY DEF Decided, MemoryDecided
<1>5. ReleasedRow(r) \in Row /\ MemoryReleased(r) \in Row  BY DEF ReleasedRow, MemoryReleased
<1>6. Retried(r) \in Row  BY <1>1 DEF Retried
<1>7. QED  BY <1>2, <1>3, <1>4, <1>5, <1>6

\* The columns an acquired claim leaves.
LEMMA AcquiredFields ==
  ASSUME NEW r \in Row, NEW n, NEW now
  PROVE  /\ Acquired(r, n, now).state = "IN_PROGRESS"
         /\ Acquired(r, n, now).attempt = n
         /\ Acquired(r, n, now).retryCount = r.retryCount
         /\ Acquired(r, n, now).expires = now + LeaseLength
         /\ Acquired(r, n, now).result = r.result
BY DEF Acquired, Row

\* NoRow is a row.
LEMMA NoRowType == NoRow \in Row
BY DEF NoRow, Row, StageStates, Results

\* The answer is a disposition.
LEMMA AnswerType == \A r, now : Answer(r, now) \in Dispositions
BY DEF Answer, Dispositions

\* Both ledgers answer a claim alike when they have the same record.
LEMMA SameAnswer ==
  ASSUME row \in Row, memory \in Row, AbsentRow, SameRecord, NEW now
  PROVE  Answer(memory, now) = Answer(row, now)
<1>1. row.state \in StageStates  BY DEF Row
<1>2. CASE row.state \in {"COMPLETED", "FAILED"}  BY <1>2 DEF Answer, SameRecord
<1>3. CASE row.state = "IN_PROGRESS"  BY <1>3 DEF Answer, SameRecord
<1>4. CASE row.state = "ABSENT"  BY <1>4 DEF AbsentRow
<1>5. QED  BY <1>1, <1>2, <1>3, <1>4 DEF StageStates

-----------------------------------------------------------------------------
(* Steps that leave both records alone *)

\* What such a step has to show: the transaction of c is the only one that
\* changes, and what it knows afterwards is true.
LEMMA TxStep ==
  ASSUME LedgerInv, NEW c \in Callers, NEW t \in Transaction,
         tx' = [tx EXCEPT ![c] = t],
         UNCHANGED <<clock, row, renewals, claim, memory>>,
         lock' \in {lock, c, Nobody},
         lock' # lock => lock \in {c, Nobody},
         t # NoTx => t.now <= clock + Skew,
         t.pc \in {"update", "commit"} =>
           /\ lock' = c
           /\ t.answer = Answer(row, t.now)
           /\ t.pc = "update" => t.answer = "ClaimAcquired" /\ t.r = row
           /\ t.pc = "commit" /\ t.answer = "ClaimAcquired" =>
                t.r.attempt = row.attempt + 1
  PROVE  LedgerInv'
<1>1. tx'[c] = t /\ \A e \in Callers \ {c} : tx'[e] = tx[e]
  BY DEF LedgerInv, LedgerTypeOK
<1>2. LedgerTypeOK'
  <2>1. tx' \in [Callers -> Transaction]  BY DEF LedgerInv, LedgerTypeOK
  <2>2. lock' \in Callers \cup {Nobody}  BY DEF LedgerInv, LedgerTypeOK
  <2>3. QED  BY <2>1, <2>2 DEF LedgerInv, LedgerTypeOK, Terminal
<1>3. AbsentRow'  BY DEF LedgerInv, AbsentRow
<1>4. ClaimLocked'
  <2>1. ASSUME NEW e \in Callers \ {c}, tx[e].pc \in {"update", "commit"}  PROVE lock' = e
    BY <2>1, LedgerAssumption DEF LedgerInv, ClaimLocked
  <2>2. ASSUME NEW e \in Callers, tx'[e].pc \in {"update", "commit"}
        PROVE  /\ lock' = e
               /\ tx'[e].answer = Answer(row', tx'[e].now)
               /\ tx'[e].pc = "update" => tx'[e].answer = "ClaimAcquired" /\ tx'[e].r = row'
               /\ tx'[e].pc = "commit" /\ tx'[e].answer = "ClaimAcquired" =>
                    tx'[e].r.attempt = row'.attempt + 1
    <3>1. CASE e = c  BY <1>1, <2>2, <3>1
    <3>2. CASE e # c  BY <1>1, <2>1, <2>2, <3>2 DEF LedgerInv, ClaimLocked
    <3>3. QED  BY <3>1, <3>2
  <2>3. QED  BY <2>2 DEF ClaimLocked, Answer
<1>5. NumbersIssued' /\ AttemptsDistinct'
  BY DEF LedgerInv, NumbersIssued, AttemptsDistinct
<1>6. TimesBounded'
  BY <1>1 DEF LedgerInv, TimesBounded, LeaseBounded
<1>7. SameRecord'  BY DEF LedgerInv, SameRecord
<1>8. QED  BY <1>2, <1>3, <1>4, <1>5, <1>6, <1>7 DEF LedgerInv

\* The statements of a Claim before its commit, and its rollback.
LEMMA StatementStep ==
  ASSUME LedgerInv, NEW c \in Callers,
         Begin(c) \/ Insert(c) \/ SelectForUpdate(c) \/ Update(c) \/ Rollback(c)
  PROVE  LedgerInv'
<1>1. /\ clock \in Nat /\ row \in Row /\ lock \in Callers \cup {Nobody}
      /\ tx \in [Callers -> Transaction]
  BY DEF LedgerInv, LedgerTypeOK
<1>2. tx[c] # NoTx => tx[c].now \in Nat /\ tx[c].now <= clock + Skew
  BY <1>1, TxFields DEF LedgerInv, TimesBounded
<1>3. CASE Begin(c)
  <2> DEFINE t == [pc |-> "insert", now |-> Now(c)]
  <2>1. t \in Transaction /\ t.now <= clock + Skew
    BY <1>1, NowBounded DEF Transaction
  <2>2. tx' = [tx EXCEPT ![c] = t] /\ UNCHANGED <<clock, row, lock, renewals, claim, memory>>
    BY <1>3 DEF Begin
  <2>3. t.pc \notin {"update", "commit"}  OBVIOUS
  <2> HIDE DEF t
  <2>4. QED  BY <2>1, <2>2, <2>3, TxStep
<1>4. CASE Insert(c)
  <2>1. tx[c].pc = "insert" /\ tx[c] # NoTx
    BY <1>4, <1>1, TxFields DEF Insert
  <2>2. CASE /\ row.state = "ABSENT" /\ lock = Nobody /\ lock' = c
             /\ tx' = [tx EXCEPT ![c] = [pc |-> "commit", now |-> tx[c].now,
                    r |-> Acquired(NoRow, 1, tx[c].now), answer |-> "ClaimAcquired"]]
    <3> DEFINE t == [pc |-> "commit", now |-> tx[c].now,
                     r |-> Acquired(NoRow, 1, tx[c].now), answer |-> "ClaimAcquired"]
    <3>1. row = NoRow  BY <2>2 DEF LedgerInv, AbsentRow
    <3>2. Acquired(NoRow, 1, tx[c].now) \in Row /\ Acquired(NoRow, 1, tx[c].now).attempt = 1
      BY <1>2, <2>1, NoRowType, RowTypes, AcquiredFields DEF StageStates, Results
    <3>3. t \in Transaction  BY <1>2, <2>1, <3>2 DEF Transaction, Dispositions
    <3>4. Answer(row, tx[c].now) = "ClaimAcquired" /\ row.attempt = 0
      BY <3>1, <1>2, <2>1 DEF Answer, NoRow
    <3>5. /\ t.pc = "commit" /\ t.now = tx[c].now /\ t.answer = "ClaimAcquired"
          /\ t.r.attempt = 1
      BY <3>2
    <3>6. UNCHANGED <<clock, row, renewals, claim, memory>>  BY <1>4 DEF Insert
    <3>7. tx' = [tx EXCEPT ![c] = t]  BY <2>2
    <3> HIDE DEF t
    <3>8. t.answer = Answer(row, t.now) /\ t.r.attempt = row.attempt + 1
      BY <3>4, <3>5
    <3>9. QED  BY <1>2, <2>1, <2>2, <3>3, <3>5, <3>6, <3>7, <3>8, TxStep
  <2>3. CASE tx' = [tx EXCEPT ![c].pc = "select"] /\ UNCHANGED lock
    <3> DEFINE t == [pc |-> "select", now |-> tx[c].now]
    <3>1. tx[c] = [pc |-> "insert", now |-> tx[c].now]  BY <1>1, <2>1, TxFields
    <3>2. tx' = [tx EXCEPT ![c] = t]
      <4>1. [tx[c] EXCEPT !.pc = "select"] = t  BY <3>1
      <4>2. tx' = [tx EXCEPT ![c] = [tx[c] EXCEPT !.pc = "select"]]  BY <2>3
      <4>3. QED  BY <4>1, <4>2
    <3>3. t \in Transaction /\ t.now = tx[c].now /\ t.pc = "select"
      BY <1>2, <2>1 DEF Transaction
    <3>4. UNCHANGED <<clock, row, renewals, claim, memory>>  BY <1>4 DEF Insert
    <3> HIDE DEF t
    <3>5. QED  BY <1>2, <2>1, <2>3, <3>2, <3>3, <3>4, TxStep
  <2>4. QED  BY <1>4, <2>2, <2>3 DEF Insert
<1>5. CASE SelectForUpdate(c)
  <2> DEFINE t == Selected(c)
  <2>1. tx[c].pc = "select" /\ tx[c] # NoTx
    BY <1>5, <1>1, TxFields DEF SelectForUpdate
  <2>2. /\ tx' = [tx EXCEPT ![c] = t] /\ lock = Nobody /\ lock' = c
        /\ UNCHANGED <<clock, row, renewals, claim, memory>>
    BY <1>5 DEF SelectForUpdate
  <2>3. /\ t.now = tx[c].now /\ t.r = row /\ t.answer = Answer(row, t.now)
        /\ t.pc = IF t.answer = "ClaimAcquired" THEN "update" ELSE "commit"
    BY DEF Selected
  <2>4. t \in Transaction
    BY <1>1, <1>2, <2>1, AnswerType DEF Selected, Transaction
  <2> HIDE DEF t
  <2>5. QED  BY <1>2, <2>1, <2>2, <2>3, <2>4, TxStep
<1>6. CASE Update(c)
  <2> DEFINE r == Acquired(tx[c].r, tx[c].r.attempt + 1, tx[c].now)
             t == [pc |-> "commit", now |-> tx[c].now, r |-> r, answer |-> tx[c].answer]
  <2>1. tx[c].pc = "update" /\ tx[c] # NoTx
    BY <1>6, <1>1, TxFields DEF Update
  <2>2. /\ tx[c].r = row /\ tx[c].answer = "ClaimAcquired" /\ lock = c
        /\ tx[c].answer = Answer(row, tx[c].now)
    BY <2>1 DEF LedgerInv, ClaimLocked
  <2>3. tx[c] = [pc |-> "update", now |-> tx[c].now, r |-> tx[c].r, answer |-> tx[c].answer]
    BY <1>1, <2>1, TxFields
  <2>4. /\ tx' = [tx EXCEPT ![c] = t]
        /\ UNCHANGED <<clock, row, lock, renewals, claim, memory>>
    <3> DEFINE u == [pc |-> "commit", now |-> tx[c].now, r |-> tx[c].r,
                     answer |-> tx[c].answer]
    <3> HIDE DEF r
    <3>1. [tx[c] EXCEPT !.pc = "commit"] = u  BY <2>3
    <3>2. [u EXCEPT !.r = r] = t  OBVIOUS
    <3>3. [[tx[c] EXCEPT !.pc = "commit"] EXCEPT !.r = r] = t  BY <3>1, <3>2
    <3> USE DEF r
    <3>4. tx' = [tx EXCEPT ![c] = [[tx[c] EXCEPT !.pc = "commit"] EXCEPT !.r = r]]
      BY <1>6 DEF Update
    <3>5. QED  BY <1>6, <3>3, <3>4 DEF Update
  <2>5. row.attempt + 1 \in Nat  BY <1>1 DEF Row
  <2>6. r \in Row /\ r.attempt = row.attempt + 1
    BY <1>1, <1>2, <2>1, <2>2, <2>5, RowTypes, AcquiredFields DEF StageStates, Results
  <2>7. t \in Transaction  BY <1>2, <2>1, <2>2, <2>6 DEF Transaction, Dispositions
  <2>8. t.pc = "commit" /\ t.now = tx[c].now /\ t.r = r /\ t.answer = tx[c].answer
    OBVIOUS
  <2> HIDE DEF t, r
  <2>9. QED  BY <1>2, <2>1, <2>2, <2>4, <2>6, <2>7, <2>8, TxStep
<1>7. CASE Rollback(c)
  <2>1. /\ tx' = [tx EXCEPT ![c] = NoTx] /\ lock' = Unlocked(c)
        /\ UNCHANGED <<clock, row, renewals, claim, memory>>
    BY <1>7 DEF Rollback
  <2>2. NoTx \in Transaction /\ NoTx.pc = "idle"  BY DEF Transaction, NoTx
  <2>3. lock' \in {lock, c, Nobody} /\ (lock' # lock => lock \in {c, Nobody})
    BY <2>1 DEF Unlocked
  <2>4. QED  BY <2>1, <2>2, <2>3, TxStep
<1>8. QED  BY <1>3, <1>4, <1>5, <1>6, <1>7

\* A bound on a time stays one when the clock goes on.
LEMMA LaterBound ==
  ASSUME NEW m \in Nat, NEW now \in Nat, NEW later \in {now, now + 1}, NEW n \in Nat,
         NEW l \in Nat
  PROVE  /\ n <= now + m => n <= later + m
         /\ n <= now + m + l => n <= later + m + l
OBVIOUS

\* Time passes, and a Renew is sent.
LEMMA ClockStep ==
  ASSUME LedgerInv, Tick \/ \E c \in Callers : IssueRenew(c)
  PROVE  LedgerInv'
<1>1. /\ clock \in Nat /\ row \in Row /\ renewals \subseteq Nat \ {0}
      /\ row.expires \in Nat
  BY DEF LedgerInv, LedgerTypeOK, Row
<1>2. UNCHANGED <<row, lock, tx, claim, memory>>  BY DEF Tick, IssueRenew
<1>3. /\ clock' \in Nat /\ clock' \in {clock, clock + 1}
      /\ Skew \in Nat /\ LeaseLength \in Nat
  BY <1>1, LedgerAssumption DEF Tick, IssueRenew
<1>4. \A e \in renewals' :
        /\ e \in Nat \ {0}
        /\ e \in renewals \/ (e <= clock + Skew + LeaseLength /\ row.state # "ABSENT")
  <2>1. CASE Tick  BY <1>1, <2>1 DEF Tick
  <2>2. ASSUME NEW c \in Callers, IssueRenew(c)
        PROVE  \A e \in renewals' :
                 /\ e \in Nat \ {0}
                 /\ e \in renewals \/ (e <= clock + Skew + LeaseLength /\ row.state # "ABSENT")
    <3>1. claim[c] # 0 /\ claim[c] \in Nat /\ claim[c] <= row.attempt /\ row.attempt \in Nat
      BY <2>2 DEF IssueRenew, LedgerInv, LedgerTypeOK, NumbersIssued, Row
    <3>2. row.state # "ABSENT"  BY <3>1 DEF LedgerInv, LedgerTypeOK
    <3>3. Now(c) + LeaseLength \in Nat \ {0} /\ Now(c) + LeaseLength <= clock + Skew + LeaseLength
      BY <1>1, NowBounded, LedgerAssumption
    <3>4. QED  BY <1>1, <2>2, <3>2, <3>3 DEF IssueRenew
  <2>3. QED  BY <2>1, <2>2
<1>5. LedgerTypeOK'  BY <1>2, <1>3, <1>4 DEF LedgerInv, LedgerTypeOK, Terminal
<1>6. AbsentRow'
  <2>1. SUFFICES ASSUME row.state = "ABSENT" PROVE row = NoRow /\ memory = NoRow /\ renewals' = {}
    BY <1>2 DEF AbsentRow
  <2>2. renewals = {} /\ row = NoRow /\ memory = NoRow  BY <2>1 DEF LedgerInv, AbsentRow
  <2>3. QED  BY <1>4, <2>1, <2>2
<1>7. ClaimLocked'  BY <1>2 DEF LedgerInv, ClaimLocked, Answer
<1>8. NumbersIssued' /\ AttemptsDistinct' /\ SameRecord'
  BY <1>2 DEF LedgerInv, NumbersIssued, AttemptsDistinct, SameRecord
<1>9. TimesBounded'
  <2>1. \A n \in Nat : n <= clock + Skew => n <= clock' + Skew
    BY <1>1, <1>3, LaterBound
  <2>2. \A n \in Nat : n <= clock + Skew + LeaseLength => n <= clock' + Skew + LeaseLength
    BY <1>1, <1>3, LaterBound
  <2>3. \A c \in Callers : tx'[c] # NoTx => tx'[c].now <= clock' + Skew
    BY <1>2, <2>1, TxFields DEF LedgerInv, LedgerTypeOK, TimesBounded
  <2>4. \A e \in renewals' : e <= clock' + Skew + LeaseLength
    BY <1>4, <2>2 DEF LedgerInv, TimesBounded
  <2>5. LeaseBounded'
    BY <1>1, <1>2, <2>2 DEF LedgerInv, TimesBounded, LeaseBounded
  <2>6. QED  BY <2>3, <2>4, <2>5 DEF TimesBounded
<1>10. QED  BY <1>5, <1>6, <1>7, <1>8, <1>9 DEF LedgerInv

-----------------------------------------------------------------------------
(* Steps that write the records *)

\* Commit hands out the number after the row's, which nobody has been told.
LEMMA CommitStep ==
  ASSUME LedgerInv, NEW c \in Callers, Commit(c)
  PROVE  LedgerInv'
<1> DEFINE t == tx[c]
           won == t.answer = "ClaimAcquired"
<1>1. /\ clock \in Nat /\ row \in Row /\ memory \in Row /\ renewals \subseteq Nat \ {0}
      /\ tx \in [Callers -> Transaction] /\ claim \in [Callers -> Nat]
      /\ lock \in Callers \cup {Nobody}
      /\ row.state = "ABSENT" <=> row.attempt = 0
      /\ Terminal(row) => row.result # "none" /\ row.expires = 0
  BY DEF LedgerInv, LedgerTypeOK
<1>2. t.pc = "commit"  BY DEF Commit
<1>3. t # NoTx /\ t.now \in Nat /\ t.now <= clock + Skew /\ t.r \in Row
  BY <1>1, <1>2, TxFields DEF LedgerInv, TimesBounded
<1>4. /\ lock = c /\ t.answer = Answer(row, t.now)
      /\ won => t.r.attempt = row.attempt + 1
  BY <1>2 DEF LedgerInv, ClaimLocked
<1>5. row.attempt \in Nat /\ row.attempt + 1 \in Nat /\ t.now + LeaseLength \in Nat
  BY <1>1, <1>3, LedgerAssumption DEF Row
<1>6. /\ row' = IF won THEN Acquired(row, row.attempt + 1, t.now) ELSE row
      /\ memory' = IF won THEN Acquired(memory, memory.attempt + 1, t.now) ELSE memory
      /\ claim' = claim \/ (won /\ claim' = [claim EXCEPT ![c] = row.attempt + 1])
  <2>1. Answer(memory, t.now) = Answer(row, t.now)
    BY <1>1, SameAnswer DEF LedgerInv
  <2>2. QED  BY <1>4, <2>1 DEF Commit, MemoryClaimed
<1>7. /\ lock' = Nobody /\ tx' = [tx EXCEPT ![c] = NoTx]
      /\ UNCHANGED <<clock, renewals>>
  BY <1>4 DEF Commit, Unlocked
<1>8. memory.attempt = row.attempt  BY DEF LedgerInv, SameRecord
<1>9. /\ won => /\ row' \in Row /\ memory' \in Row
                /\ row'.state = "IN_PROGRESS" /\ memory'.state = "IN_PROGRESS"
                /\ row'.attempt = row.attempt + 1 /\ memory'.attempt = row.attempt + 1
                /\ row'.retryCount = row.retryCount /\ memory'.retryCount = memory.retryCount
                /\ row'.result = row.result /\ memory'.result = memory.result
                /\ row'.expires = t.now + LeaseLength /\ memory'.expires = t.now + LeaseLength
      /\ ~won => row' = row /\ memory' = memory
  <2>1. ASSUME won
        PROVE  /\ Acquired(row, row.attempt + 1, t.now) \in Row
               /\ Acquired(memory, row.attempt + 1, t.now) \in Row
    BY <1>1, <1>3, <1>5, RowTypes DEF StageStates, Results
  <2>2. QED  BY <1>1, <1>6, <1>8, <2>1, AcquiredFields
<1>10. tx'[c] = NoTx /\ \A e \in Callers \ {c} : tx'[e] = tx[e]
  BY <1>1, <1>7
<1> HIDE DEF won, t
<1>11. LedgerTypeOK'
  <2>1. row' \in Row /\ memory' \in Row  BY <1>1, <1>9
  <2>2. NoTx \in Transaction  BY DEF Transaction
  <2>3. tx' \in [Callers -> Transaction] /\ lock' \in Callers \cup {Nobody}
    BY <1>1, <1>7, <2>2
  <2>4. claim' \in [Callers -> Nat]  BY <1>1, <1>5, <1>6
  <2>5. row'.state = "ABSENT" <=> row'.attempt = 0  BY <1>1, <1>5, <1>9
  <2>6. Terminal(row') => row'.result # "none" /\ row'.expires = 0
    BY <1>1, <1>9 DEF Terminal
  <2>7. QED  BY <1>1, <1>7, <2>1, <2>3, <2>4, <2>5, <2>6 DEF LedgerTypeOK, Terminal
<1>12. AbsentRow'  BY <1>7, <1>9 DEF LedgerInv, AbsentRow
<1>13. ClaimLocked'
  <2>1. \A e \in Callers : tx'[e].pc \notin {"update", "commit"}
    <3>1. \A e \in Callers \ {c} : tx[e].pc \notin {"update", "commit"}
      BY <1>4 DEF LedgerInv, ClaimLocked
    <3>2. QED  BY <1>10, <3>1 DEF NoTx
  <2>2. QED  BY <2>1 DEF ClaimLocked
<1>14. NumbersIssued' /\ AttemptsDistinct'
  <2>1. \A e \in Callers : claim[e] \in Nat /\ claim[e] <= row.attempt
    BY <1>1 DEF LedgerInv, NumbersIssued
  <2>2. \A e, f \in Callers : e # f /\ claim[e] # 0 => claim[e] # claim[f]
    BY DEF LedgerInv, AttemptsDistinct
  <2>3. CASE claim' = claim
    BY <1>5, <1>9, <2>1, <2>2, <2>3 DEF NumbersIssued, AttemptsDistinct
  <2>4. CASE won /\ claim' = [claim EXCEPT ![c] = row.attempt + 1]
    <3>1. /\ claim'[c] = row.attempt + 1 /\ row'.attempt = row.attempt + 1
          /\ \A e \in Callers \ {c} : claim'[e] = claim[e]
      BY <1>1, <1>9, <2>4
    <3>2. NumbersIssued'  BY <1>5, <2>1, <3>1 DEF NumbersIssued
    <3>3. ASSUME NEW e \in Callers, NEW f \in Callers, e # f, claim'[e] # 0
          PROVE  claim'[e] # claim'[f]
      BY <1>5, <2>1, <2>2, <3>1, <3>3
    <3>4. QED  BY <3>2, <3>3 DEF AttemptsDistinct
  <2>5. QED  BY <1>6, <2>3, <2>4
<1>15. TimesBounded'
  <2>1. \A e \in Callers : tx'[e] # NoTx => tx'[e].now <= clock' + Skew
    BY <1>7, <1>10 DEF LedgerInv, TimesBounded
  <2>2. won => t.now + LeaseLength <= clock + Skew + LeaseLength
    BY <1>1, <1>3, LedgerAssumption
  <2>3. LeaseBounded'
    BY <1>7, <1>9, <2>2 DEF LedgerInv, TimesBounded, LeaseBounded
  <2>4. QED  BY <1>7, <2>1, <2>3 DEF LedgerInv, TimesBounded
<1>16. SameRecord'  BY <1>9 DEF LedgerInv, SameRecord
<1>17. QED  BY <1>11, <1>12, <1>13, <1>14, <1>15, <1>16 DEF LedgerInv

\* The other methods run while nobody has the row locked, so no transaction
\* has read it; what each has to show is about the two records alone.
LEMMA WriteStep ==
  ASSUME LedgerInv, lock = Nobody, row.state # "ABSENT",
         UNCHANGED <<clock, lock, tx, claim>>, renewals' \subseteq renewals,
         row' \in Row, memory' \in Row, row'.state # "ABSENT",
         row'.attempt = row.attempt, SameRecord',
         Terminal(row') => row'.result # "none" /\ row'.expires = 0,
         row'.expires <= clock + Skew + LeaseLength
  PROVE  LedgerInv'
<1>1. LedgerTypeOK'  BY DEF LedgerInv, LedgerTypeOK, Terminal
<1>2. AbsentRow'  BY DEF AbsentRow
<1>3. \A c \in Callers : tx[c].pc \notin {"update", "commit"}
  BY LedgerAssumption DEF LedgerInv, ClaimLocked
<1>4. ClaimLocked'  BY <1>3 DEF ClaimLocked
<1>5. NumbersIssued' /\ AttemptsDistinct'
  BY DEF LedgerInv, NumbersIssued, AttemptsDistinct
<1>6. TimesBounded'  BY DEF LedgerInv, TimesBounded, LeaseBounded
<1>7. QED  BY <1>1, <1>2, <1>4, <1>5, <1>6 DEF LedgerInv

\* Renew, Complete, Fail, Release and RecordRetry.
LEMMA MethodStep ==
  ASSUME LedgerInv,
         \/ \E c \in Callers : Complete(c) \/ Fail(c) \/ Release(c) \/ RecordRetry(c)
         \/ \E expires \in renewals : LandRenew(expires)
  PROVE  LedgerInv'
<1>1. /\ clock \in Nat /\ row \in Row /\ memory \in Row /\ renewals \subseteq Nat \ {0}
      /\ Terminal(row) => row.result # "none" /\ row.expires = 0
      /\ row.expires <= clock + Skew + LeaseLength
  BY DEF LedgerInv, LedgerTypeOK, TimesBounded, LeaseBounded
<1>2. /\ memory.state = row.state /\ memory.attempt = row.attempt
      /\ memory.retryCount = row.retryCount /\ memory.result = row.result
      /\ row.state = "IN_PROGRESS" => memory.expires = row.expires
  BY DEF LedgerInv, SameRecord
<1>3. clock + Skew + LeaseLength \in Nat  BY <1>1, LedgerAssumption
<1>4. ASSUME NEW c \in Callers, claim[c] # 0  PROVE row.state # "ABSENT"
  <2>1. claim[c] \in Nat /\ claim[c] <= row.attempt /\ row.attempt \in Nat
    BY <1>1 DEF LedgerInv, LedgerTypeOK, NumbersIssued, Row
  <2>2. QED  BY <1>4, <2>1 DEF LedgerInv, LedgerTypeOK
<1>5. ASSUME NEW c \in Callers, NEW state \in {"COMPLETED", "FAILED"},
             NEW result \in {"succeeded", "failed"}, Finish(c, state, result)
      PROVE  LedgerInv'
  <2>1. /\ claim[c] # 0 /\ lock = Nobody /\ UNCHANGED <<clock, lock, tx, renewals, claim>>
        /\ row' = Decided(row, state, result) /\ memory' = MemoryDecided(memory, state, result)
    BY <1>5 DEF Finish
  <2>2. row' \in Row /\ memory' \in Row
    BY <1>1, <2>1, RowTypes DEF StageStates, Results
  <2>3. /\ row'.state = state /\ row'.attempt = row.attempt /\ row'.result = result
        /\ row'.retryCount = row.retryCount /\ row'.expires = 0
    BY <1>1, <2>1 DEF Decided, Row
  <2>4. /\ memory'.state = state /\ memory'.attempt = memory.attempt
        /\ memory'.result = result /\ memory'.retryCount = memory.retryCount
    BY <1>1, <2>1 DEF MemoryDecided, Row
  <2>5. SameRecord'  BY <1>2, <2>3, <2>4 DEF SameRecord
  <2>6. QED  BY <1>3, <1>4, <2>1, <2>2, <2>3, <2>5, WriteStep
<1>6. ASSUME NEW c \in Callers, Release(c)  PROVE LedgerInv'
  <2>1. /\ claim[c] # 0 /\ lock = Nobody /\ UNCHANGED <<clock, lock, tx, renewals, claim>>
        /\ row' = ReleasedRow(row) /\ memory' = MemoryReleased(memory)
    BY <1>6 DEF Release
  <2>2. row' \in Row /\ memory' \in Row
    BY <1>1, <2>1, RowTypes DEF StageStates, Results
  <2>3. /\ row'.state = "IN_PROGRESS" /\ row'.attempt = row.attempt /\ row'.result = row.result
        /\ row'.retryCount = row.retryCount /\ row'.expires = 0
    BY <1>1, <2>1 DEF ReleasedRow, Row
  <2>4. /\ memory'.state = "IN_PROGRESS" /\ memory'.attempt = memory.attempt
        /\ memory'.result = memory.result /\ memory'.retryCount = memory.retryCount
        /\ memory'.expires = 0
    BY <1>1, <2>1 DEF MemoryReleased, Row
  <2>5. SameRecord'  BY <1>2, <2>3, <2>4 DEF SameRecord
  <2>6. QED  BY <1>3, <1>4, <2>1, <2>2, <2>3, <2>5, WriteStep DEF Terminal
<1>7. ASSUME NEW c \in Callers, RecordRetry(c)  PROVE LedgerInv'
  <2>1. /\ claim[c] # 0 /\ lock = Nobody /\ UNCHANGED <<clock, lock, tx, renewals, claim>>
        /\ row' = Retried(row) /\ memory' = Retried(memory)
    BY <1>7 DEF RecordRetry
  <2>2. row' \in Row /\ memory' \in Row
    BY <1>1, <2>1, RowTypes DEF StageStates, Results
  <2>3. /\ row'.state = row.state /\ row'.attempt = row.attempt /\ row'.result = row.result
        /\ row'.retryCount = row.retryCount + 1 /\ row'.expires = row.expires
    BY <1>1, <2>1 DEF Retried, Row
  <2>4. /\ memory'.state = memory.state /\ memory'.attempt = memory.attempt
        /\ memory'.result = memory.result /\ memory'.retryCount = memory.retryCount + 1
        /\ memory'.expires = memory.expires
    BY <1>1, <2>1 DEF Retried, Row
  <2>5. SameRecord'  BY <1>2, <2>3, <2>4 DEF SameRecord
  <2>6. QED  BY <1>1, <1>4, <2>1, <2>2, <2>3, <2>5, WriteStep DEF Terminal
<1>8. ASSUME NEW e \in renewals, LandRenew(e)  PROVE LedgerInv'
  <2>1. /\ lock = Nobody /\ UNCHANGED <<clock, lock, tx, claim>> /\ renewals' \subseteq renewals
        /\ row' = RenewedTo(row, e) /\ memory' = MemoryRenewed(memory, e)
    BY <1>8 DEF LandRenew
  <2>2. e \in Nat /\ e <= clock + Skew + LeaseLength
    BY <1>1 DEF LedgerInv, TimesBounded
  <2>3. row.state # "ABSENT"  BY DEF LedgerInv, AbsentRow
  <2>4. row' \in Row /\ memory' \in Row
    BY <1>1, <2>1, <2>2, RowTypes DEF StageStates, Results
  <2>5. /\ row'.state = row.state /\ row'.attempt = row.attempt /\ row'.result = row.result
        /\ row'.retryCount = row.retryCount
        /\ row'.expires = IF row.state = "IN_PROGRESS" THEN e ELSE row.expires
    BY <1>1, <2>1 DEF RenewedTo, Row
  <2>6. /\ memory'.state = memory.state /\ memory'.attempt = memory.attempt
        /\ memory'.result = memory.result /\ memory'.retryCount = memory.retryCount
        /\ memory'.expires = e
    BY <1>1, <2>1 DEF MemoryRenewed, Row
  <2>7. SameRecord'  BY <1>2, <2>5, <2>6 DEF SameRecord
  <2>8. QED  BY <1>1, <2>1, <2>2, <2>3, <2>4, <2>5, <2>7, WriteStep DEF Terminal
<1>9. QED  BY <1>5, <1>6, <1>7, <1>8 DEF Complete, Fail

-----------------------------------------------------------------------------
(* The theorems *)

\* At the start there is no row and nobody is in a transaction.
LEMMA LedgerInvInit == LedgerInit => LedgerInv
<1> SUFFICES ASSUME LedgerInit PROVE LedgerInv  OBVIOUS
<1>1. NoRow \in Row /\ NoTx \in Transaction  BY NoRowType DEF Transaction
<1>2. NoRow.state = "ABSENT" /\ NoRow.attempt = 0 /\ NoRow.expires = 0  BY DEF NoRow
<1>3. LedgerTypeOK  BY <1>1, <1>2 DEF LedgerInit, LedgerTypeOK, Terminal
<1>4. AbsentRow  BY DEF LedgerInit, AbsentRow
<1>5. ClaimLocked  BY DEF LedgerInit, ClaimLocked, NoTx
<1>6. NumbersIssued /\ AttemptsDistinct
  BY <1>2 DEF LedgerInit, NumbersIssued, AttemptsDistinct
<1>7. TimesBounded
  BY <1>2, LedgerAssumption DEF LedgerInit, TimesBounded, LeaseBounded
<1>8. SameRecord  BY DEF LedgerInit, SameRecord
<1>9. QED  BY <1>3, <1>4, <1>5, <1>6, <1>7, <1>8 DEF LedgerInv

\* LedgerInv is inductive.
LEMMA LedgerInvNext == LedgerInv /\ [LedgerNext]_vars => LedgerInv'
<1> SUFFICES ASSUME LedgerInv, [LedgerNext]_vars PROVE LedgerInv'  OBVIOUS
<1>1. CASE UNCHANGED vars
  BY <1>1 DEF vars, LedgerInv, LedgerTypeOK, AbsentRow, ClaimLocked, NumbersIssued,
              AttemptsDistinct, TimesBounded, LeaseBounded, SameRecord, Terminal, Answer
<1>2. CASE LedgerNext
  BY <1>2, StatementStep, CommitStep, MethodStep, ClockStep DEF LedgerNext
<1>3. QED  BY <1>1, <1>2

\* The ledger is well typed and keeps the CHECKs of its schema.
THEOREM LedgerTypeCorrect == LedgerSpec => []LedgerTypeOK
<1>1. LedgerInv => LedgerTypeOK  BY DEF LedgerInv
<1>2. QED  BY <1>1, LedgerInvInit, LedgerInvNext, PTL DEF LedgerSpec

\* Nothing changes the row between the SELECT and the UPDATE of a claim.
THEOREM SnapshotStaysCurrent == LedgerSpec => []SnapshotCurrent
<1>1. LedgerInv => SnapshotCurrent  BY DEF LedgerInv, ClaimLocked, SnapshotCurrent
<1>2. QED  BY <1>1, LedgerInvInit, LedgerInvNext, PTL DEF LedgerSpec

\* No two callers are ever told the same attempt.
THEOREM AttemptsStayDistinct == LedgerSpec => []AttemptsDistinct
<1>1. LedgerInv => AttemptsDistinct  BY DEF LedgerInv
<1>2. QED  BY <1>1, LedgerInvInit, LedgerInvNext, PTL DEF LedgerSpec

\* A stage whose holder is gone can be claimed after LeaseLength.
THEOREM LeasesStayBounded == LedgerSpec => []LeaseBounded
<1>1. LedgerInv => LeaseBounded  BY DEF LedgerInv, TimesBounded
<1>2. QED  BY <1>1, LedgerInvInit, LedgerInvNext, PTL DEF LedgerSpec

\* memoryStageLedger agrees with Postgres after every call.
THEOREM MemoryStaysInAgreement == LedgerSpec => []MemoryAgrees
<1>1. LedgerInv => MemoryAgrees
  <2> SUFFICES ASSUME LedgerInv PROVE MemoryAgrees  OBVIOUS
  <2>1. row \in Row /\ memory \in Row  BY DEF LedgerInv, LedgerTypeOK
  <2>2. \A c \in Callers : tx[c].pc = "commit" => Answer(memory, tx[c].now) = tx[c].answer
    BY <2>1, SameAnswer DEF LedgerInv, ClaimLocked
  <2>3. QED  BY <2>2 DEF MemoryAgrees, LedgerInv, SameRecord
<1>2. QED  BY <1>1, LedgerInvInit, LedgerInvNext, PTL DEF LedgerSpec

-----------------------------------------------------------------------------
(* Refinement *)

\* The row as a record of StageLedger.
Abstract(r) == [state |-> r.state, attempt |-> r.attempt, retryCount |-> r.retryCount,
                lease |-> LeaseOf(r.expires), result |-> r.result]

\* A step that writes the row, for the invariants before and after it: what the
\* claim overrode was over.
LEMMA ClaimedRow ==
  ASSUME LedgerInv, NEW c \in Callers, Commit(c)
  PROVE  \/ row' = row
         \/ /\ Answer(row, tx[c].now) = "ClaimAcquired"
            /\ row.expires <= clock + Skew
            /\ row' = Acquired(row, row.attempt + 1, tx[c].now)
<1>1. /\ clock \in Nat /\ row \in Row /\ tx \in [Callers -> Transaction]
      /\ row.expires \in Nat /\ tx[c].pc = "commit"
      /\ Terminal(row) => row.expires = 0
  BY DEF LedgerInv, LedgerTypeOK, Commit, Row
<1>2. tx[c].now \in Nat /\ tx[c].now <= clock + Skew
  BY <1>1, TxFields DEF LedgerInv, TimesBounded
<1>3. /\ tx[c].answer = Answer(row, tx[c].now)
      /\ tx[c].answer = "ClaimAcquired" => tx[c].r.attempt = row.attempt + 1
  BY <1>1 DEF LedgerInv, ClaimLocked
<1>4. tx[c].answer = "ClaimAcquired" => row.expires <= tx[c].now
  BY <1>1, <1>2, <1>3 DEF Answer
<1>5. tx[c].answer = "ClaimAcquired" => row.expires <= clock + Skew
  BY <1>1, <1>2, <1>4, LedgerAssumption
<1>6. QED  BY <1>3, <1>5 DEF Commit

\* The other steps do not count the attempt on.
LEMMA AttemptKept ==
  ASSUME LedgerInv, [LedgerNext]_vars, \A c \in Callers : ~Commit(c)
  PROVE  row'.attempt = row.attempt
<1>1. row \in Row  BY DEF LedgerInv, LedgerTypeOK
<1>2. QED
  BY <1>1 DEF LedgerNext, Begin, Insert, SelectForUpdate, Update, Rollback, IssueRenew,
    LandRenew, Complete, Fail, Finish, Release, RecordRetry, Tick, vars, RenewedTo,
    Decided, ReleasedRow, Retried, Row

\* A lease that a claim overrides is over by the fastest clock.
THEOREM NoTakeoverIsEarly == LedgerSpec => NoEarlyTakeover
<1>1. LedgerInv /\ [LedgerNext]_vars =>
        [row'.attempt # row.attempt => row.expires <= clock + Skew]_vars
  BY ClaimedRow, AttemptKept
<1>2. QED  BY <1>1, LedgerInvInit, LedgerInvNext, PTL DEF LedgerSpec, NoEarlyTakeover

\* A record of StageLedger by its columns.
Record(st, n, k, l, res) ==
  [state |-> st, attempt |-> n, retryCount |-> k, lease |-> l, result |-> res]

\* What the operators of StageLedger do to the columns.
LEMMA AtomicColumns ==
  ASSUME NEW st, NEW n, NEW k, NEW l, NEW res
  PROVE  /\ Atomic!WithLease(Record(st, n, k, l, res)) =
              {Record(st, n, k, l, res), Record(st, n, k, "expired", res)}
         /\ st \notin {"COMPLETED", "FAILED"} /\ l # "live" =>
              /\ Atomic!Disposition(Record(st, n, k, l, res)) = "ClaimAcquired"
              /\ Atomic!Claimed(Record(st, n, k, l, res)) =
                   Record("IN_PROGRESS", n + 1, k, "live", res)
         /\ st = "IN_PROGRESS" =>
              Atomic!Renewed(Record(st, n, k, l, res)) = Record(st, n, k, "live", res)
         /\ st # "ABSENT" =>
              /\ Atomic!Completed(Record(st, n, k, l, res)) =
                   Record("COMPLETED", n, k, "none", "succeeded")
              /\ Atomic!Failed(Record(st, n, k, l, res)) =
                   Record("FAILED", n, k, "none", "failed")
              /\ Atomic!Released(Record(st, n, k, l, res)) =
                   Record("IN_PROGRESS", n, k, "none", res)
              /\ Atomic!RetryRecorded(Record(st, n, k, l, res)) =
                   Record(st, n, k + 1, l, res)
<1> USE DEF Record
<1>1. Atomic!WithLease(Record(st, n, k, l, res)) =
              {Record(st, n, k, l, res), Record(st, n, k, "expired", res)}
  BY DEF Atomic!WithLease
<1>2. ASSUME st \notin {"COMPLETED", "FAILED"}, l # "live"
      PROVE  /\ Atomic!Disposition(Record(st, n, k, l, res)) = "ClaimAcquired"
             /\ Atomic!Claimed(Record(st, n, k, l, res)) =
                  Record("IN_PROGRESS", n + 1, k, "live", res)
  BY <1>2 DEF Atomic!Disposition, Atomic!Claimed
<1>3. st = "IN_PROGRESS" =>
        Atomic!Renewed(Record(st, n, k, l, res)) = Record(st, n, k, "live", res)
  BY DEF Atomic!Renewed
<1>4. ASSUME st # "ABSENT", NEW state, NEW result
      PROVE  Atomic!SetState(Record(st, n, k, l, res), state, result) =
               Record(state, n, k, "none", result)
  BY <1>4 DEF Atomic!SetState
<1>5. st # "ABSENT" =>
        /\ Atomic!Released(Record(st, n, k, l, res)) = Record("IN_PROGRESS", n, k, "none", res)
        /\ Atomic!RetryRecorded(Record(st, n, k, l, res)) = Record(st, n, k + 1, l, res)
  BY DEF Atomic!Released, Atomic!RetryRecorded
<1> HIDE DEF Record
<1>6. QED  BY <1>1, <1>2, <1>3, <1>4, <1>5 DEF Atomic!Completed, Atomic!Failed

\* The abstract record before and after a step, by its columns.
LEMMA AbstractColumns ==
  /\ Abstract(row) = Record(row.state, row.attempt, row.retryCount,
                            LeaseOf(row.expires), row.result)
  /\ Abstract(row)' = Record(row'.state, row'.attempt, row'.retryCount,
                             LeaseOf(row.expires)', row'.result)
BY DEF Abstract, Record

\* An acquired claim is a ClaimStep.
LEMMA CommitRefines ==
  ASSUME LedgerInv, NEW c \in Callers, Commit(c)
  PROVE  Atomic!ClaimStep \/ UNCHANGED Abstract(row)
<1>1. /\ clock \in Nat /\ row \in Row /\ tx \in [Callers -> Transaction]
      /\ tx[c].pc = "commit" /\ clock' = clock
  BY DEF LedgerInv, LedgerTypeOK, Commit
<1>2. tx[c].now \in Nat /\ row.attempt \in Nat /\ row.expires \in Nat
  BY <1>1, TxFields DEF Row, NoTx
<1>3. CASE row' = row  BY <1>1, <1>3 DEF Abstract, LeaseOf
<1>4. CASE /\ Answer(row, tx[c].now) = "ClaimAcquired"
           /\ row.expires <= clock + Skew
           /\ row' = Acquired(row, row.attempt + 1, tx[c].now)
  <2>1. /\ row.state \notin {"COMPLETED", "FAILED"} /\ LeaseOf(row.expires) # "live"
    BY <1>1, <1>2, <1>4, LedgerAssumption DEF Answer, LeaseOf
  <2>2. /\ row'.state = "IN_PROGRESS" /\ row'.attempt = row.attempt + 1
        /\ row'.retryCount = row.retryCount /\ row'.result = row.result
        /\ row'.expires = tx[c].now + LeaseLength
    BY <1>1, <1>4, AcquiredFields
  <2>3. row'.expires # 0  BY <1>2, <2>2, LedgerAssumption
  <2>4. LeaseOf(row.expires)' \in {"live", "expired"}  BY <2>3 DEF LeaseOf
  <2>5. Atomic!Disposition(Abstract(row)) = "ClaimAcquired"
    BY <2>1, AtomicColumns, AbstractColumns
  <2>6. Abstract(row)' \in Atomic!WithLease(Atomic!Claimed(Abstract(row)))
    BY <2>1, <2>2, <2>4, AtomicColumns, AbstractColumns
  <2>7. QED  BY <2>5, <2>6 DEF Atomic!ClaimStep, Abstract
<1>5. QED  BY <1>3, <1>4, ClaimedRow

\* A Renew that lands is a RenewStep.
LEMMA RenewRefines ==
  ASSUME LedgerInv, NEW e \in renewals, LandRenew(e)
  PROVE  Atomic!RenewStep \/ UNCHANGED Abstract(row)
<1>1. row \in Row /\ e # 0 /\ clock' = clock /\ row' = RenewedTo(row, e)
  BY DEF LedgerInv, LedgerTypeOK, LandRenew
<1>2. CASE row.state # "IN_PROGRESS"
  BY <1>1, <1>2 DEF RenewedTo, Abstract, LeaseOf
<1>3. CASE row.state = "IN_PROGRESS"
  <2>1. /\ row'.state = row.state /\ row'.attempt = row.attempt /\ row'.result = row.result
        /\ row'.retryCount = row.retryCount /\ row'.expires = e
    BY <1>1, <1>3 DEF RenewedTo, Row
  <2>2. LeaseOf(row.expires)' \in {"live", "expired"}  BY <1>1, <2>1 DEF LeaseOf
  <2>3. Abstract(row)' \in Atomic!WithLease(Atomic!Renewed(Abstract(row)))
    BY <1>3, <2>1, <2>2, AtomicColumns, AbstractColumns
  <2>4. QED  BY <1>3, <2>3 DEF Atomic!RenewStep, Abstract
<1>4. QED  BY <1>2, <1>3

\* The other methods are UpdateSteps.
LEMMA UpdateRefines ==
  ASSUME LedgerInv,
         \E c \in Callers : Complete(c) \/ Fail(c) \/ Release(c) \/ RecordRetry(c)
  PROVE  Atomic!UpdateStep
<1>1. row \in Row /\ clock' = clock
  BY DEF LedgerInv, LedgerTypeOK, Complete, Fail, Finish, Release, RecordRetry
<1>2. row.state # "ABSENT"
  <2>1. PICK c \in Callers : claim[c] # 0
    BY DEF Complete, Fail, Finish, Release, RecordRetry
  <2>2. claim[c] \in Nat /\ claim[c] <= row.attempt /\ row.attempt \in Nat
    BY <1>1 DEF LedgerInv, LedgerTypeOK, NumbersIssued, Row
  <2>3. QED  BY <2>1, <2>2 DEF LedgerInv, LedgerTypeOK
<1>3. row'.expires = 0 => LeaseOf(row.expires)' = "none"  BY DEF LeaseOf
<1>4. ASSUME NEW state, NEW result, row' = Decided(row, state, result)
      PROVE  Abstract(row)' = Record(state, row.attempt, row.retryCount, "none", result)
  <2>1. /\ row'.state = state /\ row'.attempt = row.attempt /\ row'.result = result
        /\ row'.retryCount = row.retryCount /\ row'.expires = 0
    BY <1>1, <1>4 DEF Decided, Row
  <2>2. QED  BY <1>3, <2>1, AbstractColumns
<1>5. Abstract(row)' \in {Atomic!Completed(Abstract(row)), Atomic!Failed(Abstract(row)),
                          Atomic!Released(Abstract(row)), Atomic!RetryRecorded(Abstract(row))}
  <2>1. CASE \E c \in Callers : Complete(c) \/ Fail(c)
    <3>1. \/ row' = Decided(row, "COMPLETED", "succeeded")
          \/ row' = Decided(row, "FAILED", "failed")
      BY <2>1 DEF Complete, Fail, Finish
    <3>2. QED  BY <1>2, <1>4, <3>1, AtomicColumns, AbstractColumns
  <2>2. CASE \E c \in Callers : Release(c)
    <3>1. /\ row'.state = "IN_PROGRESS" /\ row'.attempt = row.attempt
          /\ row'.result = row.result /\ row'.retryCount = row.retryCount /\ row'.expires = 0
      BY <1>1, <2>2 DEF Release, ReleasedRow, Row
    <3>2. QED  BY <1>2, <1>3, <3>1, AtomicColumns, AbstractColumns
  <2>3. CASE \E c \in Callers : RecordRetry(c)
    <3>1. /\ row'.state = row.state /\ row'.attempt = row.attempt
          /\ row'.result = row.result /\ row'.retryCount = row.retryCount + 1
          /\ row'.expires = row.expires
      BY <1>1, <2>3 DEF RecordRetry, Retried, Row
    <3>2. LeaseOf(row.expires)' = LeaseOf(row.expires)  BY <1>1, <3>1 DEF LeaseOf
    <3>3. QED  BY <1>2, <3>1, <3>2, AtomicColumns, AbstractColumns
  <2>4. QED  BY <2>1, <2>2, <2>3
<1>6. QED  BY <1>5 DEF Atomic!UpdateStep, Abstract

\* A lease that ends as time passes is an ExpiryStep.
LEMMA TickRefines ==
  ASSUME LedgerInv, Tick
  PROVE  Atomic!ExpiryStep \/ UNCHANGED Abstract(row)
<1>1. /\ clock \in Nat /\ row \in Row /\ row.expires \in Nat
      /\ row' = row /\ clock' = clock + 1
  BY DEF LedgerInv, LedgerTypeOK, Tick, Row
<1>2. CASE LeaseOf(row.expires)' = LeaseOf(row.expires)  BY <1>1, <1>2 DEF Abstract
<1>3. CASE LeaseOf(row.expires) = "live" /\ LeaseOf(row.expires)' = "expired"
  BY <1>1, <1>3 DEF Abstract, Atomic!ExpiryStep
<1>4. \/ LeaseOf(row.expires)' = LeaseOf(row.expires)
      \/ LeaseOf(row.expires) = "live" /\ LeaseOf(row.expires)' = "expired"
  BY <1>1, LedgerAssumption DEF LeaseOf
<1>5. QED  BY <1>2, <1>3, <1>4

\* The Claim transaction and the UPDATEs implement the atomic ledger, whose
\* steps are the operators of StageLedger, for every number of callers and
\* every difference of their clocks.
THEOREM LedgerIsAtomic == LedgerSpec => ImplementsAtomicLedger
<1>1. LedgerInit => Atomic!AtomicInit
  BY DEF LedgerInit, Atomic!AtomicInit, Atomic!NoRecord, NoRow, LeaseOf
<1>2. LedgerInv /\ [LedgerNext]_vars =>
        [Atomic!AtomicNext]_[state |-> row.state, attempt |-> row.attempt,
           retryCount |-> row.retryCount, lease |-> LeaseOf(row.expires),
           result |-> row.result]
  <2> SUFFICES ASSUME LedgerInv, [LedgerNext]_vars
               PROVE  Atomic!AtomicNext \/ UNCHANGED Abstract(row)
    BY DEF Abstract
  <2> USE DEF Atomic!AtomicNext
  <2>1. CASE UNCHANGED <<row, clock>>  BY <2>1 DEF Abstract, LeaseOf
  <2>2. ASSUME NEW c \in Callers,
               \/ Begin(c) \/ Insert(c) \/ SelectForUpdate(c) \/ Update(c) \/ Rollback(c)
               \/ IssueRenew(c)
        PROVE  UNCHANGED <<row, clock>>
    BY <2>2 DEF Begin, Insert, SelectForUpdate, Update, Rollback, IssueRenew
  <2>3. UNCHANGED vars => UNCHANGED <<row, clock>>  BY DEF vars
  <2>4. QED
    BY <2>1, <2>2, <2>3, CommitRefines, RenewRefines, UpdateRefines, TickRefines
    DEF LedgerNext
<1>3. QED
  BY <1>1, <1>2, LedgerInvInit, LedgerInvNext, PTL
  DEF LedgerSpec, ImplementsAtomicLedger, Atomic!AtomicSpec

=============================================================================
