---------------------------- MODULE RabbitPublisher ----------------------------
(***************************************************************************)
(* One RabbitPublisher (rabbit_publisher.go): goroutines of the consumer,   *)
(* worker and delivery loop, publish on its channel under a mutex, each     *)
(* waits for its own confirmation, and a mandatory publish then looks for   *)
(* a returned message.                                                      *)
(*                                                                         *)
(* External: the broker, which handles the publishings of a channel in      *)
(* order and sends back a return before the confirmation of the same        *)
(* publishing; and the client library, whose reader puts confirmations and  *)
(* returns where the goroutines find them, one frame after the other.       *)
(***************************************************************************)
EXTENDS Integers, FiniteSets

CONSTANTS
  Callers,      \* goroutines that publish
  Nobody,       \* not a caller
  PublishFnSet, \* publishFn of the consumer is set: NewBuildConsumer does so
  MaxPublishes  \* bound on the publishings of the channel

ASSUME PublisherAssumption ==
  /\ Nobody \notin Callers
  /\ PublishFnSet \in BOOLEAN
  /\ MaxPublishes \in Nat

\* A delivery tag; 0 stands for no publishing.
Tag == 1 .. MaxPublishes

\* Progress events, and what is never mandatory: service events, retry copies.
Kinds == {"progress", "other"}

\* publishProgressEvent asks for a mandatory publish only without a publishFn.
Mandatory(kind) == kind = "progress" /\ ~PublishFnSet

Outcomes == {"none", "nil", "error", "unroutable"}

VARIABLES
  mu,        \* the caller that holds the mutex
  call,      \* what each caller does
  open,      \* the channel is open
  sent,      \* the number of publishings sent
  kindOf,    \* of each publishing: what it is
  fate,      \*   what the broker did with it
  outcome,   \*   what publish returned
  handled,   \* the broker has handled the publishings up to this tag
  confirmed, \* the reader has read the confirmations up to this tag
  returned,  \* the publishings whose return the reader has read
  returns,   \* p.returns, of capacity 1: the tag in it, or 0
  late       \* some wait has ended with the deadline of its context

vars == <<mu, call, open, sent, kindOf, fate, outcome, handled, confirmed,
          returned, returns, late>>

Idle == [pc |-> "idle", kind |-> "other", tag |-> 0]
Call == [pc: {"idle", "lock", "wait", "select"}, kind: Kinds, tag: Nat]
Fates == {"none", "routed", "unroutable", "refused"}

PublisherInit ==
  /\ mu = Nobody
  /\ call = [c \in Callers |-> Idle]
  /\ open = TRUE
  /\ sent = 0
  /\ kindOf = [t \in Tag |-> "other"]
  /\ fate = [t \in Tag |-> "none"]
  /\ outcome = [t \in Tag |-> "none"]
  /\ handled = 0 /\ confirmed = 0
  /\ returned = {} /\ returns = 0
  /\ late = FALSE

\* The broker sends the publishing back.
ComesBack(t) == fate[t] = "unroutable" /\ Mandatory(kindOf[t])

-----------------------------------------------------------------------------
(* publish *)

AtLock == {c \in Callers : call[c].pc = "lock"}

Publish(c, kind) ==
  /\ call[c] = Idle
  /\ sent + Cardinality(AtLock) < MaxPublishes
  /\ call' = [call EXCEPT ![c] = [pc |-> "lock", kind |-> kind, tag |-> 0]]
  /\ UNCHANGED <<mu, open, sent, kindOf, fate, outcome, handled, confirmed,
                 returned, returns, late>>

\* PublishWithDeferredConfirmWithContext on an open channel.
SendAs(c, owner) ==
  /\ call[c].pc = "lock" /\ open /\ sent < MaxPublishes
  /\ mu' = owner
  /\ sent' = sent + 1
  /\ kindOf' = [kindOf EXCEPT ![sent + 1] = call[c].kind]
  /\ call' = [call EXCEPT ![c] = [pc |-> "wait", kind |-> call[c].kind, tag |-> sent + 1]]
  /\ UNCHANGED <<open, fate, outcome, handled, confirmed, returned, returns, late>>

\* Variant: without p.mu.
SendUnlocked(c) == SendAs(c, mu)

Send(c) == mu = Nobody /\ SendAs(c, c)

\* It fails on a closed one.
SendFails(c) ==
  /\ call[c].pc = "lock" /\ mu = Nobody /\ ~open
  /\ call' = [call EXCEPT ![c] = Idle]
  /\ UNCHANGED <<mu, open, sent, kindOf, fate, outcome, handled, confirmed,
                 returned, returns, late>>

\* Variant: without the deferred Unlock.
FinishLocked(c, o) ==
  /\ outcome' = [outcome EXCEPT ![call[c].tag] = o]
  /\ call' = [call EXCEPT ![c] = Idle]
  /\ UNCHANGED mu

\* publish returns and unlocks.
Finish(c, o) ==
  /\ outcome' = [outcome EXCEPT ![call[c].tag] = o]
  /\ call' = [call EXCEPT ![c] = Idle]
  /\ mu' = IF mu = c THEN Nobody ELSE mu

Acked(t) == t <= confirmed /\ fate[t] # "refused"

\* Variant: the returns are looked at before the confirmation is there.
AckedWhenSent(c) ==
  /\ call[c].pc = "wait"
  /\ IF Mandatory(call[c].kind)
     THEN /\ call' = [call EXCEPT ![c].pc = "select"]
          /\ UNCHANGED <<mu, outcome>>
     ELSE Finish(c, "nil")
  /\ UNCHANGED <<open, sent, kindOf, fate, handled, confirmed, returned, returns, late>>

\* WaitContext returns with an ack.
WaitAcked(c) ==
  /\ call[c].pc = "wait" /\ Acked(call[c].tag)
  /\ IF Mandatory(call[c].kind)
     THEN /\ call' = [call EXCEPT ![c].pc = "select"]
          /\ UNCHANGED <<mu, outcome>>
     ELSE Finish(c, "nil")
  /\ UNCHANGED <<open, sent, kindOf, fate, handled, confirmed, returned, returns, late>>

\* It returns with a nack, from the broker or because the channel closed.
WaitNacked(c) ==
  /\ call[c].pc = "wait"
  /\ IF call[c].tag <= confirmed THEN fate[call[c].tag] = "refused" ELSE ~open
  /\ Finish(c, "error")
  /\ UNCHANGED <<open, sent, kindOf, fate, handled, confirmed, returned, returns, late>>

\* It returns with the error of the context, be the confirmation there or not.
WaitExpires(c) ==
  /\ call[c].pc = "wait"
  /\ Finish(c, "error")
  /\ late' = TRUE
  /\ UNCHANGED <<open, sent, kindOf, fate, handled, confirmed, returned, returns>>

\* Variant: the returned message is looked at and not taken.
SelectLooking(c) ==
  /\ call[c].pc = "select"
  /\ Finish(c, IF returns # 0 \/ ~open THEN "unroutable" ELSE "nil")
  /\ UNCHANGED <<open, sent, kindOf, fate, handled, confirmed, returned, returns, late>>

\* The select: a closed p.returns is ready too.
SelectReturn(c) ==
  /\ call[c].pc = "select"
  /\ Finish(c, IF returns # 0 \/ ~open THEN "unroutable" ELSE "nil")
  /\ returns' = 0
  /\ UNCHANGED <<open, sent, kindOf, fate, handled, confirmed, returned, late>>

-----------------------------------------------------------------------------
(* Broker and library *)

\* The broker routes the next publishing, finds no queue for it, or refuses it.
Handle(f) ==
  /\ open /\ handled < sent
  /\ f \in Fates \ {"none"}
  /\ handled' = handled + 1
  /\ fate' = [fate EXCEPT ![handled + 1] = f]
  /\ UNCHANGED <<mu, call, open, sent, kindOf, outcome, confirmed, returned, returns, late>>

\* The next frame is a return; the reader blocks on a full p.returns.
NextIsReturn ==
  confirmed < handled /\ ComesBack(confirmed + 1) /\ confirmed + 1 \notin returned

ReadReturn ==
  /\ open /\ NextIsReturn
  /\ returns = 0
  /\ returns' = confirmed + 1
  /\ returned' = returned \cup {confirmed + 1}
  /\ UNCHANGED <<mu, call, open, sent, kindOf, fate, outcome, handled, confirmed, late>>

ReadConfirm ==
  /\ open /\ confirmed < handled /\ ~NextIsReturn
  /\ confirmed' = confirmed + 1
  /\ UNCHANGED <<mu, call, open, sent, kindOf, fate, outcome, handled, returned, returns, late>>

\* The connection is lost, or disconnect closes the publisher.
Close ==
  /\ open
  /\ open' = FALSE
  /\ UNCHANGED <<mu, call, sent, kindOf, fate, outcome, handled, confirmed,
                 returned, returns, late>>

-----------------------------------------------------------------------------
PublisherNext ==
  \/ \E c \in Callers :
       \/ \E kind \in Kinds : Publish(c, kind)
       \/ Send(c) \/ SendFails(c)
       \/ WaitAcked(c) \/ WaitNacked(c) \/ WaitExpires(c) \/ SelectReturn(c)
  \/ \E f \in Fates : Handle(f)
  \/ ReadReturn \/ ReadConfirm \/ Close

PublisherSpec == PublisherInit /\ [][PublisherNext]_vars

\* sync.Mutex passes the lock to a waiter that has waited for long; every context
\* has a deadline, so the wait for a confirmation ends; the rest is plain code.
PublisherFairness ==
  \A c \in Callers :
    /\ SF_vars(Send(c) \/ SendFails(c))
    /\ WF_vars(WaitAcked(c) \/ WaitNacked(c) \/ WaitExpires(c))
    /\ WF_vars(SelectReturn(c))

FairPublisherSpec == PublisherSpec /\ PublisherFairness

=============================================================================
