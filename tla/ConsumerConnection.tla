-------------------------- MODULE ConsumerConnection --------------------------
(***************************************************************************)
(* The connection of one process to RabbitMQ (build_consumer.go): the loop  *)
(* of Start that connects, consumes, disconnects and waits; the worker that *)
(* publishes a retry copy through c.pub and c.ch while the loop changes     *)
(* them; the timestamps that /health reads; and the topology of the retry   *)
(* queues, which outlives the process and its configuration.                *)
(*                                                                         *)
(* c.pub and c.ch are plain fields: the worker's reads and the loop's       *)
(* writes are a data race.  What the worker knows for sure is what the loop *)
(* did before it sent the job through c.jobs.  Of each field, which is one  *)
(* word, any of its reads may return the value at that time or any value    *)
(* that has been written since, in no order between reads or fields.        *)
(*                                                                         *)
(* External: the broker accepts or refuses every call, keeps queues, and    *)
(* may close a connection or one channel of it at any time.                 *)
(***************************************************************************)
EXTENDS Integers, Sequences, FiniteSets

CONSTANTS
  Connections,  \* connections made by Dial, used again when nothing refers to them
  Nil,          \* the nil pointer
  Schedules,    \* values of RETRY_BACKOFF_SCHEDULE, in milliseconds
  HalfRange,    \* 2^31 of int32
  MaxAttempts,  \* MAX_DELIVERY_ATTEMPTS
  MaxFaults     \* bound on the failures that the broker and the network cause

\* durationsOrDefault returns a schedule that is not empty (config.go:92-107); a
\* duration below a millisecond is 0 here.
ASSUME ConnectionAssumption ==
  /\ Nil \notin Connections
  /\ Schedules \subseteq Seq(Nat) \ {<<>>}
  /\ HalfRange \in Nat \ {0} /\ MaxAttempts \in Nat \ {0} /\ MaxFaults \in Nat

VARIABLES
  pc,             \* where Start is
  local,          \* the connection that connect is setting up
  conn, ch, pub,  \* the fields of BuildConsumer: the connection they belong to
  open,           \* of each connection: what of it is open
  attempt,        \* backoffAttempt
  failures,       \* how often Start has failed since it got to its deliveries
  connectedAt,    \* connectedAt is not 0
  disconnectedAt, \* 0, a moment ago, or more than two minutes ago
  cancelled,      \* main has had its signal and cancelled the context
  exited,         \* main has returned, or a goroutine has panicked
  jobs,           \* the job that waits for the worker: at most one is modelled
  worker,         \* what the worker does
  schedule,       \* cfg.RetryBackoffs
  queues,         \* x-message-ttl of the retry queues in the broker
  vanished,       \* a retry copy was accepted for a queue that does not exist
  dropped,        \* one was given up though the channel of its delivery was open
  faults          \* the number of failures so far

fields   == <<conn, ch, pub>>
health   == <<connectedAt, disconnectedAt>>
backoff  == <<attempt, failures>>
process  == <<cancelled, exited>>
retrying == <<jobs, worker, vanished, dropped>>
vars == <<pc, local, fields, open, backoff, health, process, retrying, schedule,
          queues, faults>>

Parts == {"conn", "ch", "pub"}
Steps == {"top", "channel", "declare", "publisher", "assign", "store", "consume",
          "deliveries", "down", "stamp", "closePub", "closeCh", "closeConn",
          "backoff", "stopped"}

\* The values that c.ch and c.pub may have for the worker of a job; home, which is
\* not in the code, is the connection whose deliveries the job came with.
Pointer == Connections \cup {Nil}
Job     == [home: Pointer, ch: SUBSET Pointer, pub: SUBSET Pointer]
NoJob   == [home |-> Nil, ch |-> {}, pub |-> {}]

Work == [pc: {"idle", "publish", "confirm", "fallback", "send", "stopped"},
         attempt: 0 .. MaxAttempts - 1,
         home: Pointer, ch: SUBSET Pointer, pub: SUBSET Pointer]
NoWork == [pc |-> "idle", attempt |-> 0, home |-> Nil, ch |-> {}, pub |-> {}]

-----------------------------------------------------------------------------
(* Pure functions *)

\* The seconds that consumerBackoff doubles in a loop.
consumerBackoff[i \in Nat] ==
  IF i = 0 THEN 1
  ELSE LET d == consumerBackoff[i - 1] IN IF 2 * d > 30 THEN 30 ELSE 2 * d

\* backoffAttempt above this gives the same backoff; it is not counted further.
MaxBackoff == 6
Up(n) == IF n < MaxBackoff THEN n + 1 ELSE n

\* int32(d / time.Millisecond)
TTL(d) == ((d + HalfRange) % (2 * HalfRange)) - HalfRange

\* Variant: without the bound by the length of the schedule.
RetryQueueUnbounded(a) == (IF a > 0 THEN a - 1 ELSE a) + 1

\* The number in the name of the queue for the copy of attempt a.
RetryQueue(a) ==
  LET idx == IF a > 0 THEN a - 1 ELSE a
  IN  (IF idx >= Len(schedule) THEN Len(schedule) - 1 ELSE idx) + 1

Declared(s) == [i \in DOMAIN s |-> TTL(s[i])]

\* QueueDeclare succeeds: the queue is new or has the same arguments, and its TTL
\* is one that the broker takes.
Accepted(i) ==
  LET ttl == TTL(schedule[i])
  IN  ttl >= 0 /\ (i \in DOMAIN queues => queues[i] = ttl)

\* An earlier process, of this configuration or another, may have declared queues.
ConnectionInit ==
  /\ pc = "top" /\ local = Nil
  /\ conn = Nil /\ ch = Nil /\ pub = Nil
  /\ open = [g \in Connections |-> {}]
  /\ attempt = 0 /\ failures = 0
  /\ connectedAt = FALSE /\ disconnectedAt = "zero"
  /\ cancelled = FALSE /\ exited = FALSE
  /\ jobs = NoJob /\ worker = NoWork /\ vanished = FALSE /\ dropped = FALSE
  /\ schedule \in Schedules
  /\ queues \in {<<>>} \cup {Declared(s) : s \in {r \in Schedules : \A i \in DOMAIN r : TTL(r[i]) >= 0}}
  /\ faults = 0

\* The connections on which a part is open; Nil never is.
With(part) == {g \in Connections : part \in open[g]}

-----------------------------------------------------------------------------
(* Failures *)

Fault == faults < MaxFaults /\ faults' = faults + 1

\* A call on a part of the new connection fails.
CallFails(part) ==
  \/ part \notin open[local] /\ UNCHANGED faults
  \/ Fault

\* The peer or the network closes a connection, with every channel of it.
ConnectionLost(g) ==
  /\ ~exited /\ open[g] # {} /\ Fault
  /\ open' = [open EXCEPT ![g] = {}]
  /\ UNCHANGED <<pc, local, fields, backoff, health, process, retrying, schedule, queues>>

\* The broker closes one channel only: a publish to an exchange that has been
\* deleted closes the publisher's, a deleted queue the consumer's.
ChannelLost(g, part) ==
  /\ ~exited /\ part \in open[g] \ {"conn"} /\ Fault
  /\ open' = [open EXCEPT ![g] = @ \ {part}]
  /\ UNCHANGED <<pc, local, fields, backoff, health, process, retrying, schedule, queues>>

-----------------------------------------------------------------------------
(* connect *)

\* Nothing refers to the connection any more.
Unused == {g \in Connections :
             /\ open[g] = {} /\ g \notin {conn, ch, pub, local}
             /\ g \notin jobs.ch \cup jobs.pub \cup worker.ch \cup worker.pub}

\* connect returns an error, and Start waits.
ConnectFailed ==
  /\ pc' = "backoff" /\ local' = Nil
  /\ failures' = Up(failures)
  /\ UNCHANGED <<fields, attempt, health, process, retrying, schedule>>

Dial ==
  /\ pc = "top" /\ ~cancelled
  /\ \/ \E g \in Unused :
          /\ open' = [open EXCEPT ![g] = {"conn"}]
          /\ local' = g /\ pc' = "channel"
          /\ UNCHANGED <<fields, backoff, health, process, retrying, schedule, queues, faults>>
     \/ Fault /\ ConnectFailed /\ UNCHANGED <<open, queues>>

\* A call of connect that opens a part of the connection, or changes nothing here.
SetUp(from, on, part, to) ==
  /\ pc = from /\ on \in open[local]
  /\ open' = [open EXCEPT ![local] = @ \cup {part}]
  /\ pc' = to
  /\ UNCHANGED <<local, fields, backoff, health, process, retrying, schedule, queues, faults>>

OpenChannel == SetUp("channel", "conn", "ch", "declare")

\* Variant: without conn.Close().
OpenChannelFailsOpen ==
  /\ pc = "channel" /\ CallFails("conn")
  /\ ConnectFailed /\ UNCHANGED <<open, queues>>

OpenChannelFails ==
  /\ pc = "channel" /\ CallFails("conn")
  /\ open' = [open EXCEPT ![local] = {}]
  /\ ConnectFailed /\ UNCHANGED queues

\* The next queue of the schedule, or none left: declareRetryTopology and Qos.
NotDeclared == {i \in DOMAIN schedule : i \notin DOMAIN queues}

\* Variant: goes on without the queues that could not be declared.
DeclareNothing == SetUp("declare", "ch", "ch", "publisher")

DeclareQueue ==
  /\ pc = "declare" /\ "ch" \in open[local]
  /\ \E i \in NotDeclared :
       /\ \A j \in 1 .. i - 1 : Accepted(j)
       /\ Accepted(i)
       /\ \A j \in NotDeclared : i <= j
       /\ queues' = [j \in DOMAIN queues \cup {i} |->
                      IF j = i THEN TTL(schedule[i]) ELSE queues[j]]
  /\ UNCHANGED <<pc, local, fields, open, backoff, health, process, retrying, schedule, faults>>

DeclareDone ==
  /\ NotDeclared = {} /\ \A i \in DOMAIN schedule : Accepted(i)
  /\ SetUp("declare", "ch", "ch", "publisher")

\* The arguments of a queue are not those it has: the broker closes the channel.
DeclareFails ==
  /\ pc = "declare"
  /\ \/ CallFails("ch")
     \/ (\E i \in DOMAIN schedule : ~Accepted(i)) /\ UNCHANGED faults
  /\ open' = [open EXCEPT ![local] = {}]
  /\ ConnectFailed /\ UNCHANGED queues

OpenPublisher == SetUp("publisher", "conn", "pub", "assign")

OpenPublisherFails ==
  /\ pc = "publisher" /\ CallFails("conn")
  /\ open' = [open EXCEPT ![local] = {}]
  /\ ConnectFailed /\ UNCHANGED queues

\* New values of c.ch and c.pub, which a waiting job and one at work may see.
Seen(job, c, p) ==
  IF job.home = Nil THEN job ELSE [job EXCEPT !.ch = @ \cup c, !.pub = @ \cup p]
Written(c, p) ==
  /\ jobs' = Seen(jobs, c, p) /\ worker' = Seen(worker, c, p)
  /\ UNCHANGED <<vanished, dropped>>

\* Variant: c.pub is forgotten.
AssignWithoutPublisher ==
  /\ pc = "assign"
  /\ conn' = local /\ ch' = local
  /\ Written({local}, {})
  /\ pc' = "store"
  /\ UNCHANGED <<local, pub, open, backoff, health, process, schedule, queues, faults>>

\* c.conn, c.ch, c.pub = conn, ch, pub
Assign ==
  /\ pc = "assign"
  /\ conn' = local /\ ch' = local /\ pub' = local
  /\ Written({local}, {local})
  /\ pc' = "store"
  /\ UNCHANGED <<local, open, backoff, health, process, schedule, queues, faults>>

\* Variant: without disconnectedAt.Store(0).
StoreNothing ==
  /\ pc = "store"
  /\ pc' = "consume" /\ local' = Nil
  /\ UNCHANGED <<fields, open, backoff, health, process, retrying, schedule, queues, faults>>

Store ==
  /\ pc = "store"
  /\ disconnectedAt' = "zero"
  /\ pc' = "consume" /\ local' = Nil
  /\ UNCHANGED <<fields, open, backoff, connectedAt, process, retrying, schedule, queues, faults>>

-----------------------------------------------------------------------------
(* Start, disconnect and main *)

Consume ==
  /\ pc = "consume" /\ "ch" \in open[ch]
  /\ connectedAt' = TRUE
  /\ attempt' = 0 /\ failures' = 0
  /\ pc' = "deliveries"
  /\ UNCHANGED <<local, fields, open, disconnectedAt, process, retrying, schedule, queues, faults>>

\* Variant: the backoff starts again though nothing was consumed.
ConsumeFailsAfresh ==
  /\ pc = "consume"
  /\ \/ "ch" \notin open[ch] /\ UNCHANGED faults
     \/ Fault
  /\ attempt' = 0 /\ failures' = Up(failures)
  /\ pc' = "down"
  /\ UNCHANGED <<local, fields, open, health, process, retrying, schedule, queues>>

ConsumeFails ==
  /\ pc = "consume"
  /\ \/ "ch" \notin open[ch] /\ UNCHANGED faults
     \/ Fault
  /\ failures' = Up(failures)
  /\ pc' = "down"
  /\ UNCHANGED <<local, fields, open, attempt, health, process, retrying, schedule, queues>>

\* acceptDelivery hands a job over, though the channel may be closed unnoticed.
AcceptDelivery ==
  /\ pc = "deliveries" /\ jobs = NoJob
  /\ jobs' = [home |-> ch, ch |-> {ch}, pub |-> {pub}]
  /\ UNCHANGED <<pc, local, fields, open, backoff, health, process, worker, vanished,
                 dropped, schedule, queues, faults>>

\* Variant: !ok is not looked at, so that only the end of the connection counts.
LeaveWithConnection ==
  /\ pc = "deliveries"
  /\ cancelled \/ conn \notin With("conn")
  /\ pc' = "down" /\ failures' = Up(failures)
  /\ UNCHANGED <<local, fields, open, attempt, health, process, retrying, schedule, queues, faults>>

\* Variant: without <-ctx.Done().
LeaveWhenClosed ==
  /\ pc = "deliveries"
  /\ ~ {"conn", "ch"} \subseteq open[conn]
  /\ pc' = "down" /\ failures' = Up(failures)
  /\ UNCHANGED <<local, fields, open, attempt, health, process, retrying, schedule, queues, faults>>

\* The context is done, closeNotice fires or the deliveries end.
LeaveDeliveries ==
  /\ pc = "deliveries"
  /\ cancelled \/ ~ {"conn", "ch"} \subseteq open[conn]
  /\ pc' = "down" /\ failures' = Up(failures)
  /\ UNCHANGED <<local, fields, open, attempt, health, process, retrying, schedule, queues, faults>>

\* Variant: without connectedAt.Store(0).
DownKeepingStamp ==
  /\ pc = "down"
  /\ pc' = "stamp"
  /\ UNCHANGED <<local, fields, open, backoff, health, process, retrying, schedule, queues, faults>>

Down ==
  /\ pc = "down"
  /\ connectedAt' = FALSE
  /\ pc' = "stamp"
  /\ UNCHANGED <<local, fields, open, backoff, disconnectedAt, process, retrying,
                 schedule, queues, faults>>

\* disconnectedAt keeps the beginning of the outage.
Stamp ==
  /\ pc = "stamp"
  /\ disconnectedAt' = IF disconnectedAt = "zero" THEN "recent" ELSE disconnectedAt
  /\ pc' = "closePub"
  /\ UNCHANGED <<local, fields, open, backoff, connectedAt, process, retrying,
                 schedule, queues, faults>>

ClosePub ==
  /\ pc = "closePub"
  /\ open' = [open EXCEPT ![pub] = @ \ {"pub"}]
  /\ pub' = Nil /\ Written({}, {Nil})
  /\ pc' = "closeCh"
  /\ UNCHANGED <<local, conn, ch, backoff, health, process, schedule, queues, faults>>

\* Variant: the channel is left to conn.Close().
CloseChWithConnection ==
  /\ pc = "closeCh"
  /\ ch' = Nil /\ Written({Nil}, {})
  /\ pc' = "closeConn"
  /\ UNCHANGED <<local, conn, pub, open, backoff, health, process, schedule, queues, faults>>

CloseCh ==
  /\ pc = "closeCh"
  /\ open' = [open EXCEPT ![ch] = @ \ {"ch"}]
  /\ ch' = Nil /\ Written({Nil}, {})
  /\ pc' = "closeConn"
  /\ UNCHANGED <<local, conn, pub, backoff, health, process, schedule, queues, faults>>

\* Then Start returns if it left its deliveries for the context, or waits.
CloseConn ==
  /\ pc = "closeConn"
  /\ open' = [open EXCEPT ![conn] = {}]
  /\ conn' = Nil
  /\ pc' \in {"backoff"} \cup (IF cancelled THEN {"stopped"} ELSE {})
  /\ UNCHANGED <<local, ch, pub, backoff, health, process, retrying, schedule, queues, faults>>

WaitBackoff ==
  /\ pc = "backoff" /\ ~exited
  /\ pc' = "top" /\ attempt' = Up(attempt)
  /\ UNCHANGED <<local, fields, open, failures, health, process, retrying, schedule, queues, faults>>

Stop ==
  /\ pc \in {"top", "backoff"} /\ cancelled
  /\ pc' = "stopped"
  /\ UNCHANGED <<local, fields, open, backoff, health, process, retrying, schedule, queues, faults>>

\* Two minutes pass.
TimePasses ==
  /\ ~exited /\ disconnectedAt = "recent"
  /\ disconnectedAt' = "old"
  /\ UNCHANGED <<pc, local, fields, open, backoff, connectedAt, process, retrying,
                 schedule, queues, faults>>

\* SIGINT or SIGTERM.
Signal ==
  /\ ~cancelled /\ ~exited
  /\ cancelled' = TRUE
  /\ UNCHANGED <<pc, local, fields, open, backoff, health, exited, retrying, schedule, queues, faults>>

\* The process ends, and with it everything that was open.
End ==
  /\ exited' = TRUE
  /\ open' = [g \in Connections |-> {}]
  /\ UNCHANGED <<pc, local, fields, backoff, health, cancelled, jobs, vanished, schedule, queues, faults>>

\* main returns; it waits for the server but not for Start or the worker.
Exit == cancelled /\ ~exited /\ End /\ UNCHANGED <<worker, dropped>>

-----------------------------------------------------------------------------
(* The worker: what scheduleRetry does last *)

\* A job that leads to a retry; after the cancellation it is dropped.
TakeJob ==
  /\ worker.pc = "idle"
  /\ \/ /\ jobs # NoJob /\ ~cancelled
        /\ jobs' = NoJob
        /\ \E a \in 0 .. MaxAttempts - 1 :
             worker' = [pc |-> "publish", attempt |-> a,
                        home |-> jobs.home, ch |-> jobs.ch, pub |-> jobs.pub]
     \/ /\ cancelled
        /\ worker' = [worker EXCEPT !.pc = "stopped"]
        /\ UNCHANGED jobs
  /\ UNCHANGED <<pc, local, fields, open, backoff, health, process, vanished, dropped,
                 schedule, queues, faults>>

WorkerUnchanged ==
  UNCHANGED <<pc, local, fields, open, backoff, health, process, jobs, schedule, queues>>
Proceeds(step) ==
  worker' = [worker EXCEPT !.pc = step] /\ UNCHANGED <<vanished, dropped>>

\* The broker takes the copy; it confirms it though there is no such queue.
Copied ==
  /\ vanished' = (vanished \/ RetryQueue(worker.attempt) \notin DOMAIN queues)
  /\ worker' = NoWork /\ UNCHANGED dropped

\* scheduleRetry returns an error, which is only logged.
GivenUp ==
  /\ dropped' = (dropped \/ worker.home \in With("ch"))
  /\ worker' = NoWork /\ UNCHANGED vanished

\* c.pub != nil
ReadPub ==
  /\ worker.pc = "publish"
  /\ \E g \in worker.pub : Proceeds(IF g = Nil THEN "fallback" ELSE "confirm")
  /\ WorkerUnchanged /\ UNCHANGED faults

\* c.pub.Publish, with c.pub read again; on nil it is an error.
PublishCopy ==
  /\ worker.pc = "confirm"
  /\ \E g \in worker.pub :
       \/ g \in With("pub") /\ Copied /\ UNCHANGED faults
       \/ g \notin With("pub") /\ Proceeds("fallback") /\ UNCHANGED faults
       \/ Fault /\ Proceeds("fallback")
  /\ WorkerUnchanged

\* c.ch != nil
ReadCh ==
  /\ worker.pc = "fallback"
  /\ \E g \in worker.ch : IF g = Nil THEN GivenUp ELSE Proceeds("send")
  /\ WorkerUnchanged /\ UNCHANGED faults

\* c.ch.PublishWithContext, with c.ch read again.
SendCopy ==
  /\ worker.pc = "send"
  /\ \E g \in worker.ch \ {Nil} : IF g \in With("ch") THEN Copied ELSE GivenUp
  /\ WorkerUnchanged /\ UNCHANGED faults

\* It is nil the second time: a method of a nil channel panics.
NilChannel ==
  /\ worker.pc = "send" /\ Nil \in worker.ch /\ ~exited
  /\ GivenUp /\ End

-----------------------------------------------------------------------------
LoopStep ==
  /\ ~exited
  /\ \/ Dial \/ OpenChannel \/ OpenChannelFails
     \/ DeclareQueue \/ DeclareDone \/ DeclareFails
     \/ OpenPublisher \/ OpenPublisherFails \/ Assign \/ Store
     \/ Consume \/ ConsumeFails \/ LeaveDeliveries
     \/ Down \/ Stamp \/ ClosePub \/ CloseCh \/ CloseConn
     \/ WaitBackoff \/ Stop

WorkerStep ==
  /\ ~exited
  /\ TakeJob \/ ReadPub \/ PublishCopy \/ ReadCh \/ SendCopy

ConnectionNext ==
  \/ LoopStep \/ WorkerStep \/ NilChannel
  \/ ~exited /\ AcceptDelivery
  \/ TimePasses \/ Signal \/ Exit
  \/ \E g \in Connections :
       ConnectionLost(g) \/ \E part \in {"ch", "pub"} : ChannelLost(g, part)

ConnectionSpec == ConnectionInit /\ [][ConnectionNext]_vars

\* Goroutines run, calls return and timers fire.  Nothing makes main exit.
FairConnectionSpec ==
  /\ ConnectionSpec
  /\ WF_vars(LoopStep) /\ WF_vars(WorkerStep) /\ WF_vars(TimePasses)

=============================================================================
