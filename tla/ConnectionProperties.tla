-------------------------- MODULE ConnectionProperties --------------------------
(***************************************************************************)
(* What the connection loop promises the worker, the health check and the   *)
(* broker while connections and channels come and go.                       *)
(***************************************************************************)
EXTENDS ConsumerConnection

\* Every variable has its type, nothing but a connection has channels, and
\* connectedAt says whether Start has its deliveries.
ConnectionTypeOK ==
  /\ pc \in Steps
  /\ {local, conn, ch, pub} \subseteq Pointer
  /\ open \in [Connections -> {{}} \cup {p \in SUBSET Parts : "conn" \in p}]
  /\ attempt \in 0 .. MaxBackoff /\ failures \in 0 .. MaxBackoff
  /\ connectedAt \in BOOLEAN /\ disconnectedAt \in {"zero", "recent", "old"}
  /\ cancelled \in BOOLEAN /\ exited \in BOOLEAN
  /\ jobs \in Job /\ worker \in Work
  /\ vanished \in BOOLEAN /\ dropped \in BOOLEAN
  /\ schedule \in Schedules
  /\ faults \in 0 .. MaxFaults
  /\ connectedAt => pc \in {"deliveries", "down"}
  /\ pc = "deliveries" => connectedAt

\* Start has its deliveries, and more can come.
Consuming == pc = "deliveries" /\ ch \in With("ch")

Unhealthy == disconnectedAt = "old"

\* No connection is forgotten: whatever call of connect fails, at most one is
\* open, the one that connect or the fields refer to, and none when Start waits
\* or has returned (build_consumer.go:123-163, 246-263).
NoConnectionLeaks ==
  \A g \in Connections : open[g] # {} =>
    /\ g \in {local, conn}
    /\ pc \notin {"top", "backoff", "stopped"}

\* A retry copy goes out as long as the consumer's channel that its request came
\* on is open, whatever has become of the publisher, however far a disconnect or
\* the end of the context has got, and whichever values of the fields the worker
\* sees: the job passes on the fields that were set before the delivery, and
\* disconnect closes the channel before it clears c.ch, the last of the two that
\* the worker tries (build_consumer.go:160, 251-257, 309-314, 595-611).
NoCopyGivenUp == ~dropped

\* /health does not answer 503 while the consumer has its deliveries, nor is it
\* both connected and disconnected (build_consumer.go:161, 205, 247-250).
HealthIsTruthful ==
  /\ Consuming => ~Unhealthy
  /\ connectedAt => disconnectedAt = "zero"

\* The wait before the next attempt doubles with every failure in a row, be it
\* of connect or of Consume, up to half a minute, and starts again at one second
\* when deliveries have come through (build_consumer.go:61-70, 194-206, 229-232).
BackoffFollowsFailures ==
  pc = "backoff" =>
    LET delay == 2 ^ (failures - 1)
    IN  consumerBackoff[attempt] = IF delay < 30 THEN delay ELSE 30

\* A retry copy is never accepted and dropped: the queue it is sent to exists
\* whichever attempt it is for, although the number of attempts and the length
\* of the schedule are configured apart, the schedule may have been longer or
\* shorter before, and the publish is not mandatory (build_consumer.go:573-603).
NoCopyVanishes == ~vanished

\* A consumer that has its deliveries has every retry queue with the delay of the
\* schedule, whatever was declared before it: a duration that does not fit into
\* int32 is refused, unless it is so long that it wraps around twice
\* (build_consumer.go:531).
DelaysAreScheduled ==
  Consuming => \A i \in DOMAIN schedule :
    schedule[i] < 2 * HalfRange => i \in DOMAIN queues /\ queues[i] = schedule[i]

\* The schedule asks for a queue that the broker refuses, or has with another TTL.
Conflict == \E i \in DOMAIN schedule : ~Accepted(i)

\* Start gets back to its deliveries after failures of any of its steps,
\* unless the process ends or the broker refuses the retry queues for ever.
EventuallyConsumes == Conflict \/ <>cancelled \/ <>exited \/ <>[]Consuming

\* The publisher's channel alone is closed: Start does not notice.
PublisherAlone == pub \in With("conn") \ With("pub")

\* Nothing else leaves a consumer with its deliveries that cannot publish: every
\* other loss of a connection or channel leads to a new publisher
\* (build_consumer.go:208-224).
EventuallyPublishes ==
  \/ Conflict \/ <>cancelled \/ <>exited \/ <>PublisherAlone
  \/ <>[](Consuming /\ pub \in With("pub"))

\* After the signal Start returns, wherever it is, and the worker after its job.
EventuallyStops ==
  cancelled ~> exited \/ (pc = "stopped" /\ worker.pc = "stopped")

=============================================================================
