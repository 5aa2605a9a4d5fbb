-------------------------- MODULE PublisherProperties --------------------------
(***************************************************************************)
(* What publish promises its callers about the messages they hand to it.    *)
(***************************************************************************)
EXTENDS RabbitPublisher

\* Every variable has its type; the tags are in the order in which a publishing
\* is sent, handled and confirmed; and who waits for a confirmation or looks at
\* the returns is the one that holds the mutex.
PublisherTypeOK ==
  /\ mu \in Callers \cup {Nobody}
  /\ call \in [Callers -> Call]
  /\ open \in BOOLEAN
  /\ sent \in Nat /\ handled \in Nat /\ confirmed \in Nat
  /\ confirmed <= handled /\ handled <= sent /\ sent <= MaxPublishes
  /\ kindOf \in [Tag -> Kinds]
  /\ fate \in [Tag -> Fates]
  /\ outcome \in [Tag -> Outcomes]
  /\ returned \subseteq Tag
  /\ returns \in returned \cup {0}
  /\ late \in BOOLEAN
  /\ \A c \in Callers : mu = c <=> call[c].pc \in {"wait", "select"}

\* A mandatory publish that returns nil has reached a queue: its own return is in
\* p.returns when its confirmation is there, and nobody else has taken it
\* (rabbit_publisher.go:90-114).
MandatoryIsRouted ==
  \A t \in Tag :
    outcome[t] = "nil" /\ Mandatory(kindOf[t]) => fate[t] = "routed"

\* A publish is called unroutable only if its own message came back, as long as
\* no earlier wait was cut off by its deadline and the channel has not closed:
\* nothing else leaves a return behind in p.returns (rabbit_publisher.go:109).
ReturnIsOwn ==
  \A t \in Tag :
    outcome[t] = "unroutable" /\ ~late /\ open => ComesBack(t)

\* A nil from publish means that the broker has taken the message, and an error
\* other than a deadline that it has not or that the channel is gone.
OutcomeIsConfirmed ==
  \A t \in Tag :
    /\ outcome[t] = "nil" => fate[t] \in {"routed", "unroutable"}
    /\ outcome[t] = "error" /\ ~late /\ open => fate[t] = "refused"

\* Every publish returns: the mutex is released on every path and every wait is
\* over with its deadline, even if the reader is blocked for good.
PublishReturns ==
  \A c \in Callers : call[c].pc # "idle" ~> call[c].pc = "idle"

\* "rabbitmq returned unroutable progress event" (rabbit_publisher.go:111): what
\* publish reports of a progress event that reached no queue.
ProgressIsRouted ==
  \A t \in Tag :
    outcome[t] = "nil" /\ kindOf[t] = "progress" => fate[t] = "routed"

=============================================================================
