--------------------------- MODULE PublisherProofs ---------------------------
(***************************************************************************)
(* Whose confirmation and whose return is whose, for any number of callers  *)
(* and publishings.  The mutex makes the last publishing the only one that  *)
(* anybody waits for; the inductive invariant follows its return from the   *)
(* broker through p.returns to the caller.                                  *)
(***************************************************************************)
EXTENDS PublisherProperties, TLAPS

Holding(c) == call[c].pc \in {"wait", "select"}

\* Who holds the mutex waits for the last publishing, which is not decided, and
\* looks at the returns only when the confirmation is there.
HolderWaits ==
  \A c \in Callers : Holding(c) =>
    /\ call[c].tag = sent /\ sent \in Tag
    /\ kindOf[sent] = call[c].kind
    /\ call[c].pc = "select" => Acked(sent) /\ Mandatory(call[c].kind)
    /\ sent \in returned => returns # 0

\* Nothing is known of a publishing before it is sent and handled.
Causal ==
  \A t \in Tag :
    /\ t > sent => outcome[t] = "none"
    /\ fate[t] = "none" <=> t > handled

\* The reader reads the return of every publishing that comes back, and before
\* its confirmation.
ReturnsRead ==
  /\ \A t \in returned : ComesBack(t)
  /\ \A t \in Tag : t <= confirmed /\ ComesBack(t) => t \in returned

\* Until a wait is cut off, only the last publishing is not confirmed, and only
\* its return can be in p.returns; while the channel is open somebody waits.
LastIsPending ==
  ~late =>
    /\ confirmed < sent => sent = confirmed + 1 /\ (open => mu # Nobody)
    /\ returns # 0 => returns = sent /\ (open => mu # Nobody)

PublisherInv ==
  /\ PublisherTypeOK /\ HolderWaits /\ Causal /\ ReturnsRead /\ LastIsPending
  /\ MandatoryIsRouted /\ ReturnIsOwn /\ OutcomeIsConfirmed

-----------------------------------------------------------------------------
(* Lemmas about one step *)

\* The mutex has one holder, and who holds it waits.
LEMMA OneHolder ==
  ASSUME PublisherTypeOK, NEW b \in Callers, NEW c \in Callers, Holding(b), Holding(c)
  PROVE  b = c /\ mu = c
BY DEF PublisherTypeOK, Holding

\* The initial state: there is no publishing.
LEMMA PublisherInvInit == PublisherInit => PublisherInv
<1> SUFFICES ASSUME PublisherInit PROVE PublisherInv  OBVIOUS
<1> USE PublisherAssumption DEF PublisherInit, Tag, Idle
<1>1. PublisherTypeOK
  <2>1. \A c \in Callers : mu = c <=> call[c].pc \in {"wait", "select"}  OBVIOUS
  <2>2. call \in [Callers -> Call]  BY DEF Call, Kinds
  <2>3. /\ kindOf \in [1 .. MaxPublishes -> Kinds]
        /\ fate \in [1 .. MaxPublishes -> Fates]
        /\ outcome \in [1 .. MaxPublishes -> Outcomes]
    BY DEF Kinds, Fates, Outcomes
  <2>4. /\ confirmed <= handled /\ handled <= sent /\ sent <= MaxPublishes
        /\ sent \in Nat /\ handled \in Nat /\ confirmed \in Nat
    OBVIOUS
  <2>5. open \in BOOLEAN /\ late \in BOOLEAN  OBVIOUS
  <2>6. mu \in Callers \cup {Nobody}  OBVIOUS
  <2>7. returned \subseteq 1 .. MaxPublishes /\ returns \in returned \cup {0}
    OBVIOUS
  <2>8. QED  BY ONLY <2>1, <2>2, <2>3, <2>4, <2>5, <2>6, <2>7 DEF PublisherTypeOK, Tag
<1>2. HolderWaits /\ LastIsPending  BY DEF HolderWaits, Holding, LastIsPending
<1>3. Causal /\ ReturnsRead  BY DEF Causal, ReturnsRead, ComesBack
<1>4. MandatoryIsRouted /\ ReturnIsOwn /\ OutcomeIsConfirmed
  BY DEF MandatoryIsRouted, ReturnIsOwn, OutcomeIsConfirmed
<1>5. QED  BY <1>1, <1>2, <1>3, <1>4 DEF PublisherInv

\* A goroutine calls publish.
LEMMA PublishKeeps ==
  ASSUME PublisherInv, NEW c \in Callers, NEW kind \in Kinds, Publish(c, kind)
  PROVE  PublisherInv'
<1> USE PublisherAssumption DEF PublisherInv, Publish, Tag
<1>1. /\ call' = [call EXCEPT ![c] = [pc |-> "lock", kind |-> kind, tag |-> 0]]
      /\ call[c].pc = "idle"
  BY DEF Idle
<1>2. \A b \in Callers : Holding(b)' <=> Holding(b)
  BY <1>1 DEF PublisherTypeOK, Holding
<1>3. \A b \in Callers : Holding(b) => call'[b] = call[b]
  BY <1>1 DEF PublisherTypeOK, Holding
<1>4. PublisherTypeOK'  BY <1>1, <1>2 DEF PublisherTypeOK, Call, Holding
<1>5. HolderWaits'  BY <1>2, <1>3 DEF HolderWaits, Acked, Mandatory
<1>6. /\ Causal' /\ ReturnsRead' /\ LastIsPending'
      /\ MandatoryIsRouted' /\ ReturnIsOwn' /\ OutcomeIsConfirmed'
  BY DEF Causal, ReturnsRead, LastIsPending, MandatoryIsRouted, ReturnIsOwn,
         OutcomeIsConfirmed, ComesBack, Mandatory
<1>7. QED  BY <1>4, <1>5, <1>6

\* It gets the mutex and sends; until then everything sent has been confirmed.
LEMMA SendKeeps ==
  ASSUME PublisherInv, NEW c \in Callers, Send(c)
  PROVE  PublisherInv'
<1> USE PublisherAssumption DEF PublisherInv, Tag
<1>1. /\ mu = Nobody /\ mu' = c /\ open /\ sent < MaxPublishes /\ call[c].pc = "lock"
      /\ sent' = sent + 1
      /\ kindOf' = [kindOf EXCEPT ![sent + 1] = call[c].kind]
      /\ UNCHANGED <<open, fate, outcome, handled, confirmed, returned, returns, late>>
  BY DEF Send, SendAs
<1>2. /\ sent \in Nat /\ handled \in Nat /\ confirmed \in Nat
      /\ confirmed <= handled /\ handled <= sent /\ MaxPublishes \in Nat
  BY DEF PublisherTypeOK
<1>3. /\ sent + 1 \in 1 .. MaxPublishes
      /\ fate[sent + 1] = "none" /\ outcome[sent + 1] = "none"
  BY <1>1, <1>2 DEF Causal
<1>4. sent + 1 \notin returned  BY <1>3 DEF ReturnsRead, ComesBack
<1>5. call' = [call EXCEPT ![c] = [pc |-> "wait", kind |-> call[c].kind, tag |-> sent + 1]]
  BY DEF Send, SendAs
<1>6. \A b \in Callers : ~Holding(b)
  BY <1>1 DEF PublisherTypeOK, Holding
<1>7. PublisherTypeOK'
  <2>1. call' \in [Callers -> Call]
    BY <1>1, <1>2, <1>5 DEF PublisherTypeOK, Call
  <2>2. ASSUME NEW b \in Callers
        PROVE  mu' = b <=> call'[b].pc \in {"wait", "select"}
    <3>1. CASE b = c  BY <3>1, <1>1, <1>5 DEF PublisherTypeOK
    <3>2. CASE b # c  BY <3>2, <1>1, <1>5, <1>6 DEF Holding, PublisherTypeOK
    <3>3. QED  BY <3>1, <3>2
  <2>3. kindOf' \in [1 .. MaxPublishes -> Kinds]
    BY <1>1, <1>3 DEF PublisherTypeOK, Call
  <2>4. QED  BY <1>1, <1>2, <2>1, <2>2, <2>3 DEF PublisherTypeOK
<1>8. HolderWaits'
  <2>1. ASSUME NEW b \in Callers, Holding(b)' PROVE b = c
    BY <2>1, <1>5, <1>6 DEF Holding, PublisherTypeOK
  <2>2. kindOf'[sent + 1] = call[c].kind  BY <1>1, <1>3 DEF PublisherTypeOK
  <2>3. call'[c] = [pc |-> "wait", kind |-> call[c].kind, tag |-> sent + 1]
    BY <1>5 DEF PublisherTypeOK
  <2>4. QED  BY <2>1, <2>2, <2>3, <1>1, <1>3, <1>4 DEF HolderWaits
<1>9. \A t \in 1 .. MaxPublishes : t # sent + 1 => kindOf'[t] = kindOf[t]
  BY <1>1 DEF PublisherTypeOK
<1>10. Causal'  BY <1>1, <1>2 DEF Causal
<1>11. \A t \in 1 .. MaxPublishes : ComesBack(t)' <=> ComesBack(t)
  BY <1>1, <1>3, <1>9 DEF ComesBack, Mandatory
<1>12. ReturnsRead'  BY <1>1, <1>11 DEF ReturnsRead, PublisherTypeOK
<1>13. LastIsPending'  BY <1>1, <1>2 DEF LastIsPending, PublisherTypeOK
<1>14. MandatoryIsRouted' /\ ReturnIsOwn' /\ OutcomeIsConfirmed'
  <2>1. MandatoryIsRouted'
    BY <1>1, <1>3, <1>9 DEF MandatoryIsRouted, Mandatory
  <2>2. ReturnIsOwn'  BY <1>1, <1>11 DEF ReturnIsOwn
  <2>3. OutcomeIsConfirmed'  BY <1>1 DEF OutcomeIsConfirmed
  <2>4. QED  BY <2>1, <2>2, <2>3
<1>15. QED  BY <1>7, <1>8, <1>10, <1>12, <1>13, <1>14

\* A caller that is not waiting gives up.
LEMMA SendFailsKeeps ==
  ASSUME PublisherInv, NEW c \in Callers, SendFails(c)
  PROVE  PublisherInv'
<1> USE PublisherAssumption DEF PublisherInv, SendFails, Tag
<1>1. \A b \in Callers : Holding(b)' <=> Holding(b)
  BY DEF PublisherTypeOK, Holding, Idle
<1>2. \A b \in Callers : Holding(b) => call'[b] = call[b]
  BY DEF PublisherTypeOK, Holding
<1>3. PublisherTypeOK'
  BY <1>1 DEF PublisherTypeOK, Call, Holding, Idle, Kinds
<1>4. HolderWaits'  BY <1>1, <1>2 DEF HolderWaits, Acked, Mandatory
<1>5. /\ Causal' /\ ReturnsRead' /\ LastIsPending'
      /\ MandatoryIsRouted' /\ ReturnIsOwn' /\ OutcomeIsConfirmed'
  BY DEF Causal, ReturnsRead, LastIsPending, MandatoryIsRouted, ReturnIsOwn,
         OutcomeIsConfirmed, ComesBack, Mandatory
<1>6. QED  BY <1>3, <1>4, <1>5

\* What the holder may report of the last publishing when it returns.
Justified(o) ==
  /\ o \in Outcomes \ {"none"}
  /\ o = "nil" => /\ fate[sent] \in {"routed", "unroutable"}
                  /\ Mandatory(kindOf[sent]) => fate[sent] = "routed"
  /\ o = "unroutable" /\ ~late' /\ open => ComesBack(sent)
  /\ o = "error" /\ ~late' /\ open => fate[sent] = "refused"

\* publish returns: it is enough that its outcome is justified, that without a
\* deadline the confirmation is there, and that its return is not left behind.
LEMMA FinishKeeps ==
  ASSUME PublisherInv, NEW c \in Callers, NEW o, Holding(c), Finish(c, o), Justified(o),
         UNCHANGED <<open, sent, kindOf, fate, handled, confirmed, returned>>,
         late' \in BOOLEAN, late => late',
         returns' \in {0, returns},
         ~late' => (sent <= confirmed \/ ~open),
         ~late' => (returns' = 0 \/ ~open)
  PROVE  PublisherInv'
<1> USE PublisherAssumption DEF PublisherInv, Tag
<1>1. mu = c /\ \A b \in Callers \ {c} : ~Holding(b)  BY OneHolder
<1>2. call[c].tag = sent /\ sent \in 1 .. MaxPublishes  BY DEF HolderWaits
<1>3. /\ mu' = Nobody
      /\ outcome' = [outcome EXCEPT ![sent] = o]
      /\ call' = [call EXCEPT ![c] = Idle]
  BY <1>1, <1>2 DEF Finish
<1>4. \A b \in Callers : ~Holding(b)'
  BY <1>1, <1>3 DEF PublisherTypeOK, Holding, Idle
<1>5. PublisherTypeOK'
  <2>1. outcome' \in [1 .. MaxPublishes -> Outcomes]
    BY <1>3 DEF PublisherTypeOK, Justified
  <2>2. call' \in [Callers -> Call]  BY <1>3 DEF PublisherTypeOK, Idle, Call, Kinds
  <2>3. \A b \in Callers : mu' = b <=> call'[b].pc \in {"wait", "select"}
    BY <1>3, <1>4 DEF Holding
  <2>4. returns' \in returned' \cup {0}  BY DEF PublisherTypeOK
  <2>5. QED  BY <1>3, <2>1, <2>2, <2>3, <2>4 DEF PublisherTypeOK
<1>6. HolderWaits'  BY <1>4 DEF HolderWaits
<1>7. Causal'  BY <1>2, <1>3 DEF Causal, PublisherTypeOK
<1>8. ReturnsRead'  BY DEF ReturnsRead, ComesBack, Mandatory
<1>9. LastIsPending'  BY <1>2 DEF LastIsPending, PublisherTypeOK
<1>10. MandatoryIsRouted' /\ ReturnIsOwn' /\ OutcomeIsConfirmed'
  <2>1. \A t \in 1 .. MaxPublishes : outcome'[t] = IF t = sent THEN o ELSE outcome[t]
    BY <1>3 DEF PublisherTypeOK
  <2>2. MandatoryIsRouted'
    BY <2>1 DEF MandatoryIsRouted, Mandatory, Justified
  <2>3. ReturnIsOwn'
    BY <2>1 DEF ReturnIsOwn, ComesBack, Mandatory, Justified
  <2>4. OutcomeIsConfirmed'
    BY <2>1 DEF OutcomeIsConfirmed, Justified
  <2>5. QED  BY <2>2, <2>3, <2>4
<1>11. QED  BY <1>5, <1>6, <1>7, <1>8, <1>9, <1>10

\* What the confirmation of the last publishing says to the one that waits.
LEMMA Confirmed ==
  ASSUME PublisherInv, NEW c \in Callers, Holding(c), sent <= confirmed
  PROVE  /\ fate[sent] \in {"routed", "unroutable", "refused"}
         /\ sent \in 1 .. MaxPublishes
BY DEF PublisherInv, PublisherTypeOK, HolderWaits, Causal, Tag, Fates

\* The wait ends with an ack: a mandatory publish goes on to the returns.
LEMMA WaitAckedKeeps ==
  ASSUME PublisherInv, NEW c \in Callers, WaitAcked(c)
  PROVE  PublisherInv'
<1> USE DEF PublisherInv
<1>1. /\ Holding(c) /\ call[c].pc = "wait"
      /\ UNCHANGED <<open, sent, kindOf, fate, handled, confirmed, returned, returns, late>>
  BY DEF WaitAcked, Holding
<1>2. /\ call[c].tag = sent /\ sent \in Tag /\ kindOf[sent] = call[c].kind
      /\ sent \in returned => returns # 0
  BY <1>1 DEF HolderWaits
<1>3. sent <= confirmed /\ fate[sent] # "refused" /\ Acked(sent)
  BY <1>2 DEF WaitAcked, Acked
<1>4. fate[sent] \in {"routed", "unroutable"}  BY <1>1, <1>3, Confirmed
<1>5. CASE Mandatory(call[c].kind)
  <2>1. call' = [call EXCEPT ![c] = [pc |-> "select", kind |-> call[c].kind, tag |-> sent]]
    <3>1. call[c] = [pc |-> "wait", kind |-> call[c].kind, tag |-> sent]
      BY <1>1, <1>2 DEF PublisherTypeOK, Call
    <3>2. [call[c] EXCEPT !.pc = "select"] = [pc |-> "select", kind |-> call[c].kind, tag |-> sent]
      BY <3>1
    <3>3. call' = [call EXCEPT ![c] = [call[c] EXCEPT !.pc = "select"]]
      BY <1>5 DEF WaitAcked
    <3>4. QED  BY <3>2, <3>3
  <2>2. UNCHANGED <<mu, outcome>>  BY <1>5 DEF WaitAcked
  <2>3. PublisherTypeOK'
    <3>1. call' \in [Callers -> Call]  BY <2>1, <1>2 DEF PublisherTypeOK, Call
    <3>2. \A b \in Callers : mu = b <=> call'[b].pc \in {"wait", "select"}
      BY <2>1, <1>1 DEF PublisherTypeOK, Holding
    <3>3. QED  BY <1>1, <2>2, <3>1, <3>2 DEF PublisherTypeOK
  <2>4. \A b \in Callers \ {c} : ~Holding(b)'
    BY <2>1, <1>1, OneHolder DEF PublisherTypeOK, Holding
  <2>5. call'[c] = [pc |-> "select", kind |-> call[c].kind, tag |-> sent]
    BY <2>1 DEF PublisherTypeOK
  <2>6. HolderWaits'
    BY <1>1, <1>2, <1>3, <1>5, <2>4, <2>5 DEF HolderWaits, Acked, Mandatory
  <2>7. /\ Causal' /\ ReturnsRead' /\ LastIsPending'
        /\ MandatoryIsRouted' /\ ReturnIsOwn' /\ OutcomeIsConfirmed'
    BY <1>1, <2>2
    DEF Causal, ReturnsRead, LastIsPending, MandatoryIsRouted, ReturnIsOwn,
        OutcomeIsConfirmed, ComesBack, Mandatory
  <2>8. QED  BY <2>3, <2>6, <2>7
<1>6. CASE ~Mandatory(call[c].kind)
  <2>1. Finish(c, "nil")  BY <1>6 DEF WaitAcked
  <2>2. Justified("nil")  BY <1>2, <1>4, <1>6 DEF Justified, Outcomes
  <2>3. ~late => (returns = 0 \/ ~open)
    <3> SUFFICES ASSUME ~late, returns # 0, open PROVE FALSE  OBVIOUS
    <3>1. returns = sent /\ sent \in returned  BY DEF LastIsPending, PublisherTypeOK
    <3>2. ComesBack(sent)  BY <3>1 DEF ReturnsRead
    <3>3. QED  BY <3>2, <1>2, <1>6 DEF ComesBack
  <2>4. late \in BOOLEAN  BY DEF PublisherTypeOK
  <2>5. QED  BY <1>1, <1>3, <2>1, <2>2, <2>3, <2>4, FinishKeeps
<1>7. QED  BY <1>5, <1>6

\* The wait ends with a nack, from the broker or from the closed channel.
LEMMA WaitNackedKeeps ==
  ASSUME PublisherInv, NEW c \in Callers, WaitNacked(c)
  PROVE  PublisherInv'
<1> USE DEF PublisherInv
<1>1. /\ Holding(c) /\ Finish(c, "error")
      /\ UNCHANGED <<open, sent, kindOf, fate, handled, confirmed, returned, returns, late>>
  BY DEF WaitNacked, Holding
<1>2. call[c].tag = sent /\ sent \in Tag  BY <1>1 DEF HolderWaits
<1>3. (sent <= confirmed /\ fate[sent] = "refused") \/ ~open
  BY <1>2 DEF WaitNacked
<1>4. Justified("error")  BY <1>1, <1>3 DEF Justified, Outcomes
<1>5. ~late => (returns = 0 \/ ~open)
  <2> SUFFICES ASSUME ~late, returns # 0, open PROVE FALSE  OBVIOUS
  <2>1. returns = sent /\ sent \in returned  BY DEF LastIsPending, PublisherTypeOK
  <2>2. fate[sent] = "unroutable"  BY <2>1 DEF ReturnsRead, ComesBack
  <2>3. QED  BY <2>2, <1>3
<1>6. late \in BOOLEAN  BY DEF PublisherTypeOK
<1>7. QED  BY <1>1, <1>3, <1>4, <1>5, <1>6, FinishKeeps

\* The wait ends with the deadline: nothing is promised from then on.
LEMMA WaitExpiresKeeps ==
  ASSUME PublisherInv, NEW c \in Callers, WaitExpires(c)
  PROVE  PublisherInv'
<1>1. /\ Holding(c) /\ Finish(c, "error") /\ late' = TRUE
      /\ UNCHANGED <<open, sent, kindOf, fate, handled, confirmed, returned, returns>>
  BY DEF WaitExpires, Holding
<1>2. Justified("error")  BY <1>1 DEF Justified, Outcomes
<1>3. QED  BY <1>1, <1>2, FinishKeeps

\* The holder looks at p.returns: what is there is its own return.
LEMMA SelectReturnKeeps ==
  ASSUME PublisherInv, NEW c \in Callers, SelectReturn(c)
  PROVE  PublisherInv'
<1> USE DEF PublisherInv
<1> DEFINE o == IF returns # 0 \/ ~open THEN "unroutable" ELSE "nil"
<1>1. /\ Holding(c) /\ call[c].pc = "select" /\ Finish(c, o) /\ returns' = 0
      /\ UNCHANGED <<open, sent, kindOf, fate, handled, confirmed, returned, late>>
  BY DEF SelectReturn, Holding
<1>2. /\ sent \in Tag /\ sent <= confirmed /\ fate[sent] # "refused"
      /\ Mandatory(kindOf[sent])
      /\ sent \in returned => returns # 0
  BY <1>1 DEF HolderWaits, Acked
<1>3. fate[sent] \in {"routed", "unroutable"}  BY <1>1, <1>2, Confirmed
<1>4. Justified(o)
  <2>1. CASE returns # 0 \/ ~open
    <3>1. ~late /\ open => ComesBack(sent)
      <4> SUFFICES ASSUME ~late, open PROVE ComesBack(sent)  OBVIOUS
      <4>1. returns = sent /\ sent \in returned
        BY <2>1 DEF LastIsPending, PublisherTypeOK
      <4>2. QED  BY <4>1 DEF ReturnsRead
    <3>2. QED  BY <1>1, <2>1, <3>1 DEF Justified, Outcomes
  <2>2. CASE returns = 0 /\ open
    <3>1. sent \notin returned  BY <1>2, <2>2
    <3>2. ~ComesBack(sent)  BY <3>1, <1>2 DEF ReturnsRead
    <3>3. fate[sent] = "routed"  BY <3>2, <1>2, <1>3 DEF ComesBack
    <3>4. QED  BY <2>2, <3>3 DEF Justified, Outcomes
  <2>3. QED  BY <2>1, <2>2
<1>5. late \in BOOLEAN  BY DEF PublisherTypeOK
<1> HIDE DEF o
<1>6. QED  BY <1>1, <1>2, <1>4, <1>5, FinishKeeps

\* The broker handles the next publishing, of which nobody has an outcome yet
\* that speaks of the broker.
LEMMA HandleKeeps ==
  ASSUME PublisherInv, NEW f \in Fates, Handle(f)
  PROVE  PublisherInv'
<1> USE PublisherAssumption DEF PublisherInv, Tag
<1> DEFINE n == handled + 1
<1>1. /\ handled < sent /\ f # "none" /\ handled' = n /\ open
      /\ fate' = [fate EXCEPT ![n] = f]
      /\ UNCHANGED <<mu, call, open, sent, kindOf, outcome, confirmed, returned, returns, late>>
  BY DEF Handle
<1>2. /\ sent \in Nat /\ handled \in Nat /\ confirmed \in Nat /\ MaxPublishes \in Nat
      /\ confirmed <= handled /\ handled <= sent /\ sent <= MaxPublishes
      /\ fate \in [1 .. MaxPublishes -> Fates]
  BY DEF PublisherTypeOK
<1>3. n \in 1 .. MaxPublishes /\ n > confirmed /\ n <= sent  BY <1>1, <1>2
<1>4. fate[n] = "none"  BY <1>2, <1>3 DEF Causal
<1>5. \A t \in 1 .. MaxPublishes : fate'[t] = IF t = n THEN f ELSE fate[t]
  BY <1>1, <1>2
<1>6. PublisherTypeOK'
  <2>1. fate' \in [1 .. MaxPublishes -> Fates]  BY <1>1, <1>2
  <2>2. handled' \in Nat /\ confirmed <= handled' /\ handled' <= sent  BY <1>1, <1>2
  <2>3. QED  BY <1>1, <2>1, <2>2 DEF PublisherTypeOK
<1>7. n \notin returned  BY <1>4 DEF ReturnsRead, ComesBack
<1>8. HolderWaits'
  <2>1. \A c \in Callers : Holding(c) /\ Acked(sent) => Acked(sent)'
    BY <1>1, <1>3, <1>5, <1>2 DEF Acked, HolderWaits
  <2>2. QED  BY <1>1, <2>1 DEF HolderWaits, Holding, Mandatory
<1>9. Causal'  BY <1>1, <1>2, <1>5 DEF Causal
<1>10. ReturnsRead'
  BY <1>1, <1>2, <1>3, <1>5, <1>7 DEF ReturnsRead, ComesBack, Mandatory, PublisherTypeOK
<1>11. LastIsPending'  BY <1>1 DEF LastIsPending
<1>12. MandatoryIsRouted'
  BY <1>1, <1>4, <1>5 DEF MandatoryIsRouted, OutcomeIsConfirmed, Mandatory
<1>13. ReturnIsOwn'
  BY <1>1, <1>4, <1>5 DEF ReturnIsOwn, ComesBack, Mandatory
<1>14. OutcomeIsConfirmed'  BY <1>1, <1>4, <1>5 DEF OutcomeIsConfirmed
<1>15. QED  BY <1>6, <1>8, <1>9, <1>10, <1>11, <1>12, <1>13, <1>14

\* The reader takes a return: it is that of the publishing somebody waits for.
LEMMA ReadReturnKeeps ==
  ASSUME PublisherInv, ReadReturn
  PROVE  PublisherInv'
<1> USE PublisherAssumption DEF PublisherInv, Tag
<1> DEFINE n == confirmed + 1
<1>1. /\ open /\ confirmed < handled /\ ComesBack(n) /\ n \notin returned /\ returns = 0
      /\ returns' = n /\ returned' = returned \cup {n}
      /\ UNCHANGED <<mu, call, open, sent, kindOf, fate, outcome, handled, confirmed, late>>
  BY DEF ReadReturn, NextIsReturn
<1>2. /\ sent \in Nat /\ handled \in Nat /\ confirmed \in Nat /\ MaxPublishes \in Nat
      /\ confirmed <= handled /\ handled <= sent /\ sent <= MaxPublishes
  BY DEF PublisherTypeOK
<1>3. n \in 1 .. MaxPublishes  BY <1>1, <1>2
<1>4. PublisherTypeOK'  BY <1>1, <1>3 DEF PublisherTypeOK
<1>5. HolderWaits'
  BY <1>1, <1>2 DEF HolderWaits, Holding, Acked, Mandatory
<1>6. Causal'  BY <1>1 DEF Causal
<1>7. ReturnsRead'  BY <1>1 DEF ReturnsRead, ComesBack, Mandatory
<1>8. LastIsPending'
  <2>1. ~late => sent = n /\ mu # Nobody  BY <1>1, <1>2 DEF LastIsPending
  <2>2. QED  BY <1>1, <2>1 DEF LastIsPending
<1>9. MandatoryIsRouted' /\ ReturnIsOwn' /\ OutcomeIsConfirmed'
  BY <1>1
  DEF MandatoryIsRouted, ReturnIsOwn, OutcomeIsConfirmed, ComesBack, Mandatory
<1>10. QED  BY <1>4, <1>5, <1>6, <1>7, <1>8, <1>9

\* The reader takes a confirmation, after the return if there is one.
LEMMA ReadConfirmKeeps ==
  ASSUME PublisherInv, ReadConfirm
  PROVE  PublisherInv'
<1> USE PublisherAssumption DEF PublisherInv, Tag
<1>1. /\ open /\ confirmed < handled /\ confirmed' = confirmed + 1
      /\ ComesBack(confirmed + 1) => confirmed + 1 \in returned
      /\ UNCHANGED <<mu, call, open, sent, kindOf, fate, outcome, handled, returned, returns, late>>
  BY DEF ReadConfirm, NextIsReturn
<1>2. /\ sent \in Nat /\ handled \in Nat /\ confirmed \in Nat /\ MaxPublishes \in Nat
      /\ confirmed <= handled /\ handled <= sent /\ sent <= MaxPublishes
  BY DEF PublisherTypeOK
<1>3. PublisherTypeOK'  BY <1>1, <1>2 DEF PublisherTypeOK
<1>4. HolderWaits'
  <2>1. sent \in Nat /\ Acked(sent) => Acked(sent)'  BY <1>1, <1>2 DEF Acked
  <2>2. QED  BY <1>1, <1>2, <2>1 DEF HolderWaits, Holding, Mandatory
<1>5. Causal'  BY <1>1 DEF Causal
<1>6. ReturnsRead'
  <2>1. \A t \in 1 .. MaxPublishes : t <= confirmed + 1 => t <= confirmed \/ t = confirmed + 1
    BY <1>2
  <2>2. QED  BY <1>1, <2>1 DEF ReturnsRead, ComesBack, Mandatory
<1>7. LastIsPending'  BY <1>1, <1>2 DEF LastIsPending
<1>8. MandatoryIsRouted' /\ ReturnIsOwn' /\ OutcomeIsConfirmed'
  BY <1>1
  DEF MandatoryIsRouted, ReturnIsOwn, OutcomeIsConfirmed, ComesBack, Mandatory
<1>9. QED  BY <1>3, <1>4, <1>5, <1>6, <1>7, <1>8

\* The channel closes.
LEMMA CloseKeeps ==
  ASSUME PublisherInv, Close
  PROVE  PublisherInv'
<1> USE DEF PublisherInv, Close
<1>1. PublisherTypeOK' /\ HolderWaits' /\ Causal'
  BY DEF PublisherTypeOK, HolderWaits, Holding, Acked, Mandatory, Causal
<1>2. ReturnsRead' /\ LastIsPending'
  BY DEF ReturnsRead, LastIsPending, ComesBack, Mandatory
<1>3. MandatoryIsRouted' /\ ReturnIsOwn' /\ OutcomeIsConfirmed'
  BY DEF MandatoryIsRouted, ReturnIsOwn, OutcomeIsConfirmed, Mandatory
<1>4. QED  BY <1>1, <1>2, <1>3

-----------------------------------------------------------------------------
(* The invariant and what follows from it *)

\* Every step keeps the invariant.
LEMMA PublisherInvNext == PublisherInv /\ [PublisherNext]_vars => PublisherInv'
<1> SUFFICES ASSUME PublisherInv, [PublisherNext]_vars PROVE PublisherInv'  OBVIOUS
<1>1. ASSUME NEW c \in Callers, NEW kind \in Kinds, Publish(c, kind) PROVE PublisherInv'
  BY <1>1, PublishKeeps
<1>2. ASSUME NEW c \in Callers,
             \/ Send(c) \/ SendFails(c)
             \/ WaitAcked(c) \/ WaitNacked(c) \/ WaitExpires(c) \/ SelectReturn(c)
      PROVE  PublisherInv'
  BY <1>2, SendKeeps, SendFailsKeeps, WaitAckedKeeps, WaitNackedKeeps,
     WaitExpiresKeeps, SelectReturnKeeps
<1>3. ASSUME NEW f \in Fates, Handle(f) PROVE PublisherInv'  BY <1>3, HandleKeeps
<1>4. CASE ReadReturn \/ ReadConfirm \/ Close
  BY <1>4, ReadReturnKeeps, ReadConfirmKeeps, CloseKeeps
<1>5. CASE UNCHANGED vars
  BY <1>5
  DEF vars, PublisherInv, PublisherTypeOK, HolderWaits, Holding, Acked, Mandatory, Causal,
      ReturnsRead, ComesBack, LastIsPending, MandatoryIsRouted, ReturnIsOwn, OutcomeIsConfirmed
<1>6. QED  BY <1>1, <1>2, <1>3, <1>4, <1>5 DEF PublisherNext

\* A mandatory publish that returns nil has reached a queue, for any number of
\* goroutines that publish, whatever deadlines, nacks and closes come between.
THEOREM MandatoryStaysRouted == PublisherSpec => []MandatoryIsRouted
<1>1. PublisherInv => MandatoryIsRouted  BY DEF PublisherInv
<1>2. QED  BY <1>1, PublisherInvInit, PublisherInvNext, PTL DEF PublisherSpec

\* Without deadlines and a close, nobody is told of the return of another.
THEOREM ReturnStaysOwn == PublisherSpec => []ReturnIsOwn
<1>1. PublisherInv => ReturnIsOwn  BY DEF PublisherInv
<1>2. QED  BY <1>1, PublisherInvInit, PublisherInvNext, PTL DEF PublisherSpec

\* A nil and an error say what the broker did.
THEOREM OutcomeStaysConfirmed == PublisherSpec => []OutcomeIsConfirmed
<1>1. PublisherInv => OutcomeIsConfirmed  BY DEF PublisherInv
<1>2. QED  BY <1>1, PublisherInvInit, PublisherInvNext, PTL DEF PublisherSpec

\* Every variable keeps its type, and one goroutine at a time waits.
THEOREM PublisherTypeCorrect == PublisherSpec => []PublisherTypeOK
<1>1. PublisherInv => PublisherTypeOK  BY DEF PublisherInv
<1>2. QED  BY <1>1, PublisherInvInit, PublisherInvNext, PTL DEF PublisherSpec

=============================================================================
