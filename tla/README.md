# Verification of the build service

TLA+ modules, TLC configurations and TLAPS proofs for the build service: a Go
program that consumes `app.build.requested` from RabbitMQ, clones and builds
the source, and publishes `build.succeeded` or `build.failed`. Several
instances may run against one broker and one Postgres ledger.

Line numbers below are those of the files under `src/`.

## 1. The system

| Part | Source | State | Operations | Hard because of |
|---|---|---|---|---|
| Build consumer | `build_consumer.go` | the delivery at hand, `c.jobs` (capacity 1 and senders parked on it), the job of the worker | `acceptDelivery`, `processDelivery`, `worker`, `handleClaimedBuildEvent`, `completeFailure`, `scheduleRetry`, `startLeaseRenewal` | three goroutines; the ack comes before the build; every call can fail, or take effect and look failed |
| Stage ledger | `ledger.go:15-147`, `migrations/` | one row per deployment: state, attempt, retry_count, lease, result | `Claim` (a transaction), `Renew`, `Complete`, `Fail`, `Release`, `RecordRetry` (one UPDATE each) | shared by processes; no UPDATE names the owner |
| Retry topology | `build_consumer.go:525-537` | build queue, TTL queues, dead-letter queue | declared by `connect`; the broker moves expired copies back | duplicates, delays, no order |
| Publisher | `rabbit_publisher.go` | a confirming channel, a mutex, returned messages | `publish` | a confirm that does not come in time |
| Connection and health | `build_consumer.go:123-268`, `main.go` | `conn`, `ch`, `pub`, `connectedAt`, `disconnectedAt` | `Start`, `connect`, `disconnect`, `Unhealthy` | the worker uses `c.ch` and `c.pub` while they are replaced |
| Command builder | `builder.go` | local images, the registry | `BuildAndPush` | external commands, cleanup of a shared tag |
| Source and token | `github.go`, `build_consumer.go:737-801` | none | `generateInstallationToken`, `runGitClone` | sequential |
| Events | `events.go` | none | constructors | none |
| Config | `config.go` | read once | `loadConfig` | none |
| Test ledger | `ledger.go:149-217` | a map | as the ledger | differs from the SQL |
| `rabbitMQConsumer/` | `build_consumer.go` there | none | a demonstration program | not part of the service |

A request travels like this. RabbitMQ delivers it (prefetch 1) to
`acceptDelivery`, which claims the stage. Busy or an error: `Nack` with
requeue. Decided before: the stored events are published again, then `Ack`.
Acquired: `Ack` *at once*, and the job goes to `c.jobs`. The worker publishes
"started", clones, builds while a third goroutine renews the lease, persists
the outcome with `Complete` or `Fail`, and publishes its two events. What fails
on the way goes to `scheduleRetry`: it counts the retry in the ledger, and
either persists and reports a failure and dead-letters a copy, or publishes
"retrying", releases the claim and publishes a delayed copy to a TTL queue,
which brings the request back to the build queue.

What makes each part correct:

- consumer and ledger: one owner per stage; an outcome is decided once and is
  stored before it is reported; no request is lost; every request is decided
  and reported; executions are bounded; no delivery circulates for ever;
- ledger: the `Claim` transaction is atomic for everybody else, whatever clock
  each process has; the memory ledger, which `ledger_test.go` alone uses, answers
  like Postgres;
- connection: a lost connection is made again, none is forgotten, a retry copy
  goes out as long as the channel of its delivery is open, and never to a queue
  that is not there, and `/health` is not wrong about a consumer that consumes;
- publisher: an answer belongs to the message it is given for, and `publish`
  returns;
- builder: the image that is reported is in the registry and is its own; no tag is
  left on the docker host, and no image without one unless builds of one tag overlap
  there.

`PROJECT.json` lists the hazards at their lines, with the properties that watch
them.

## 2. The modules

| Module | What it is |
|---|---|
| `StageLedger` | the rows of the ledger, each method as an operator from row to row |
| `BuildConsumer` | processes, broker and ledger together: the central specification |
| `BuildStage` | what the build stage promises, without queues, leases and retries |
| `BuildConsumerProperties` | the properties, and the refinement mapping to `BuildStage` |
| `LedgerTransactions` | the statements of `Claim` on one Postgres row, clocks that differ, late `Renew` statements, and `memoryStageLedger` beside it |
| `AtomicLedger` | the ledger as `BuildConsumer` uses it: one operator of `StageLedger` a step |
| `LedgerProperties` | its properties, and the refinement mapping to `AtomicLedger` |
| `ConsumerConnection` | `Start`, `connect`, `disconnect`, the worker's use of `c.pub` and `c.ch`, the retry queues and their TTL |
| `ConnectionProperties` | its properties |
| `RabbitPublisher` | `publish` under its mutex, confirmations, returns, deadlines |
| `PublisherProperties` | its properties |
| `ImageBuild` | `BuildAndPush` command by command, docker hosts and registry |
| `ImageProperties` | its properties |
| `MCBuildConsumer`, `MCLedger`, `MCConnection`, `MCPublisher`, `MCImageBuild` | for TLC: symmetry and values of constants |
| `BuildConsumerProofs`, `OwnershipProofs`, `DeliveryProofs`, `FaultProofs` | proofs about `BuildConsumer` |
| `LedgerProofs`, `ConnectionProofs`, `PublisherProofs`, `ImageProofs` | proofs about the other four |

How they fit together: `BuildConsumer` calls the ledger by the operators of
`StageLedger`; that the transactions behave so is the refinement from
`LedgerTransactions` to `AtomicLedger`. `BuildConsumer` takes a publish for a step
whose answer and effect can differ (`CallBroker`); `RabbitPublisher` shows when
they do. Its `connected` is `ConsumerConnection` seen from the broker, its build step
is `ImageBuild` seen from the worker.

Operators called "Variant" in a comment are plausible mistakes in the operator
they precede. No action uses them; putting one in the place of the original
must make a property fail, which is how we know that the property looks at the
code at all.

### 2.1 `BuildConsumer`

| Variable | Code |
|---|---|
| `queue`, `retries`, `dlq` | the build queue, the TTL queues taken together, the dead-letter queue. Bags: the model assumes no order between messages |
| `connected` | the AMQP connection of a process is up, for the broker |
| `handler` | the delivery in `acceptDelivery`, at one of its calls |
| `jobs` | `c.jobs` and the goroutines parked on it, `build_consumer.go:309-314` |
| `worker` | the job in `runBuildEvent`, at one of its calls; `caller` is the place in `handleClaimedBuildEvent` that called `completeFailure`, `attempt` the local variable of `scheduleRetry` |
| `renewals` | `Renew` statements sent and not yet run |
| `ledger` | the rows |
| `published` | the events that reached the broker, per deployment |
| `faults` | how many faults so far, a bound for TLC, and of which kinds: a history variable, by which a property says when it holds |

A lease is `none` (NULL), `live` or `expired`, as `Claim` compares it with now
(`ledger.go:110`). A result is the outcome whose events `result_json` holds. A
job has a ghost field `claim`: the `Attempt` that `Claim` returned, which the
code throws away (`build_consumer.go:280`).

A step runs from one call to the broker or the ledger up to the next one. A
goroutine shares with the others only the channel `c.jobs` and the fields that
`ConsumerConnection` models, so nobody can observe anything finer.

| Action | Code (`build_consumer.go` unless named) |
|---|---|
| `Connect`, `ConnectionLost` | `connect` and `disconnect` under `Start` 180-263. The handler goroutine is also the one that reconnects, so `Connect` waits for the delivery at hand |
| `Deliver` | 208-224; a body that does not decode or validate goes to `processDelivery` (271-278) |
| `ClaimFails`, `ClaimBusy`, `ClaimTerminal`, `ClaimAcquired` | the outcomes of `Claim`, 279-303 and `ledger.go:76-120` |
| `PublishStored` | `publishStored`, `publishBundle` 476-500, one step per event |
| `AckDelivery` | 305-314. The ack may err, or be written to a connection that is gone: then the job runs *and* the request is requeued |
| `ProcessDelivery`, `Settle` | a bad request: `handleMessage`, `copyToDLQ`, then `Ack` or `Nack` 330-375 |
| `TakeJob` | 316-328 |
| `PublishStarted`, `PrepareSource`, `BuildAndPush`, `PersistSuccess`, `PublishSucceeded` | `handleClaimedBuildEvent` 411-466 |
| `PersistFailure`, `PublishFailed` | `completeFailure` 683-710; `AfterFailureError` is what its three callers do with its error (420 and 433, 446, 676) |
| `RecordRetry`, `EmitRetrying`, `ReleaseClaim`, `PublishRetry`, `PublishRetryOnChannel`, `DeadLetter` | `scheduleRetry` 538-612 and what it calls |
| `IssueRenewal`, `LandRenewal` | the ticker of `startLeaseRenewal` 501-523 and its statement, `ledger.go:121`. `cancel` stops the ticker and does not wait for the statement |
| `LeaseExpires`, `LeaseRunsOut` | time passes. The second is the fault "lease": the holder is still at work |
| `RetryDue` | a TTL ends: `x-dead-letter-exchange`, 531 |
| `Crash` | the process stops at any point; also at a signal, `main.go:52-60`, since `main` does not wait for the worker |

`FaultKinds` says which faults an instance has and `MaxFaults` how many of them
a behaviour has.

| Fault | Meaning |
|---|---|
| `publish` | a publish returns an error; the message may be in the broker all the same |
| `database` | a ledger call returns an error and had no effect |
| `commit` | a ledger call returns an error and had its effect |
| `connection` | the AMQP connection is lost; the broker requeues what is not acknowledged |
| `crash` | the process stops and is started again |
| `lease` | a lease runs out although its holder is at work: the job waited in `c.jobs` behind a long build (nothing renews it there), clone or publishes took longer than the lease, or renewals failed |

A clone or a build that fails is no fault: it may happen at any time.

Some branches of the source cannot be taken when the service runs, and have no
action. `handleBuildEvent` is only reached with a bad request, so it returns
before its own `Claim` (376-388); `errBuildLeaseBusy` therefore never reaches
`scheduleRetry`, and `countAttempt` is always true. Nothing returns
`errStoredResultPublish`. The stage body returns `actionNackDrop` nowhere, so
line 399 is not reached. `c.ledger` is never nil after `NewBuildConsumer`.
Marshalling the events does not fail.

### 2.2 `LedgerTransactions`

One row (`row`, with `expires` for `lease_expires_at`, 0 for NULL), the caller
that has it locked (`lock`), the `Claim` that each caller has under way (`tx`, at
one of its statements, with the `now` it read), `Renew` statements under way
(`renewals`), the attempt each caller was last given (`claim`) and the record of
`memoryStageLedger` (`memory`).

`Begin`, `Insert`, `SelectForUpdate`, `Update` and `Commit` are the statements at
`ledger.go:77-119`; `Rollback` is the deferred one, after an error, a cancelled
context or the end of the process at any of them. `now` is read in `Begin`, on a
clock that is `Offset[c]` ahead. `IssueRenew` computes the end of the lease and
`LandRenew` runs the statement, perhaps much later and on a row that somebody
else has claimed. `Complete`, `Fail`, `Release` and `RecordRetry` are single
UPDATEs, which any caller that was ever given a claim may send, at any time.
Each step that commits also calls the method of the memory ledger
(`ledger.go:149-217`), which has no transaction.

### 2.3 `ConsumerConnection`

`pc` is where `Start` is, `local` the connection that `connect` is setting up,
`conn`, `ch` and `pub` the three fields: each holds the connection it belongs to.
`open` says what of each connection is open; `connectedAt` and `disconnectedAt`
are what `/health` reads. `schedule` is the configuration of this process,
`queues` the retry queues in the broker with their TTL, which an earlier process
of another configuration may have declared.

| Action | Code (`build_consumer.go`) |
|---|---|
| `Dial`, `OpenChannel`, `DeclareQueue`, `DeclareDone`, `OpenPublisher` and each `...Fails` | `connect` 123-159, whose error paths close what they opened |
| `Assign`, `Store` | 160-161. The assignments are one step, and what the worker sees of them is the next paragraph |
| `AcceptDelivery` | a request that becomes a job, 305-314, also when its channel has been closed unnoticed |
| `Consume`, `ConsumeFails` | 197-206 |
| `LeaveDeliveries` | the `select` 208-224: the context, `closeNotice` of the connection, the end of the deliveries. The publisher's channel has no case |
| `Down`, `Stamp`, `ClosePub`, `CloseCh`, `CloseConn` | 226 and `disconnect` 246-263, statement by statement |
| `WaitBackoff`, `Stop` | 229-244, the end of the backoff or of the context |
| `TakeJob`, `ReadPub`, `PublishCopy`, `ReadCh`, `SendCopy`, `NilChannel` | the publish of a retry copy 596-612. A field is read twice, for the test and for the call; the second reading may be nil. `NilChannel` is the panic of a call on a nil channel, which ends the process. `Copied` and `GivenUp` are the two ends of `scheduleRetry` |
| `ConnectionLost`, `ChannelLost` | external: the broker or the network |
| `TimePasses` | two minutes since `disconnectedAt`, `Unhealthy` |
| `Signal`, `Exit` | `main.go:52-60`: `main` waits for neither goroutine |

`c.conn`, `c.ch` and `c.pub` are plain fields, which `connect` (160) and `disconnect`
(251-257) write while the worker reads `c.pub` and `c.ch` (595-603): a data race, for
which Go promises no order. The only order between the goroutines is the channel
`c.jobs`: what was written before a job was sent is there for its worker. So a job, waiting
(`jobs`) or at work (`worker`), carries the *sets* of values that either field has had
since it was handed over (`ch` and `pub`; `Written` adds to them), and each reading takes
any member of the set, independently of the other field and of the reading before.
Its `home`, the connection whose deliveries it came with, is not in the code: it is there
for `dropped`, which records that `scheduleRetry` gave a copy up though the channel of
`home` was open. At most one job waits in the model.

`RetryQueue` is the index computed at 573-577, `TTL` the conversion to `int32`
milliseconds at 531, `consumerBackoff` the function at 61-70.

### 2.4 `RabbitPublisher`

`mu` is the mutex, `call` what each goroutine does in `publish`
(`rabbit_publisher.go:69-115`), `sent` the delivery tags given out; `fate` is what
the broker did with each publishing and `outcome` what `publish` returned.
`returns` is `p.returns`, of capacity 1. The broker handles publishings in their
order and sends a return ahead of its confirmation (`Handle`); the reader of the
client library passes on one frame after the other and blocks while `p.returns` is
full (`ReadReturn`, `ReadConfirm`). `Send` and `SendFails` are lines 84-89,
`WaitAcked`, `WaitNacked` and `WaitExpires` the ways out of `WaitContext` at
100-106, `SelectReturn` the `select` at 107-113, `Close` the end of the channel.

### 2.5 `ImageBuild`

`build` is where each worker is in `BuildAndPush` (`builder.go:53-93`), `images`
what each tag names on each docker host, `registry` what it names in the registry, each
with the request from whose source it was built. A build that takes the tag from
another image leaves that image on the host without a name, where the `docker image rm -f
<tag>` of `builder.go:71-75` never finds it: `unnamed` has the hosts with such an image
(`Untagged`; a build of the same source may also come to the same image). `Prepare` is lines 54-70, `Inspect`
`imageExists`, `Nixpacks` and `Dockerfile` `buildImage`, `Push` `pushImage`,
`RemoveImage` the deferred `docker image rm` with the return, and `Crash` the end of
the process in between. `left` has the hosts where a removal failed or never ran.

The reference is not abstracted to an identity: `Sanitized` does to names over
four characters what `sanitizeImageComponent` does, `ShortSHA` cuts the commit.
`Rounds` is its loop, what is written after each character: a recursive function,
so that it can be reasoned about.

## 3. The properties

Each is stated with its reason in the module named in the first column.

| Module | Property | Says |
|---|---|---|
| `BuildConsumerProperties` | `SingleOwner` | at most one accepted job of a deployment, in any process and at any place, as long as no lease ran out under its holder |
| | `HolderIsCurrent` | that job belongs to the latest claim, as long as the same |
| | `ClaimNumbersUnique` | two jobs never hold the same attempt number, whatever happens |
| | `OutcomeStoredFirst` | no event of an outcome before a result is stored |
| | `PublishRetriesBounded` | at most `MAX_DELIVERY_ATTEMPTS` claims, if only publishes fail |
| | `UnclaimedInBroker` | what has no row is still in the broker |
| | `NoRequestLost` | a request is in the broker, in a process, decided or dead-lettered |
| | `ImplementsBuildStage` | the refinement: claims only of a free undecided stage, decisions only by an owner and once, reports only of the stored outcome |
| | `EventuallyDecided`, `EventuallyReported`, `BadRequestsDeadLettered`, `EventuallyQuiet` | liveness |
| `LedgerProperties` | `AttemptsDistinct` | no two callers are given the same attempt |
| | `NoEarlyTakeover` | a lease is taken over only when it is over by the fastest clock |
| | `LeaseBounded` | no lease ends later than its length from now |
| | `MemoryAgrees` | the memory ledger answers every claim like Postgres, and has the same counters, state and result |
| | `ImplementsAtomicLedger` | the refinement: the transactions are atomic |
| `ConnectionProperties` | `NoConnectionLeaks` | at most one connection open, one that somebody will close |
| | `NoCopyGivenUp` | a retry copy goes out as long as the channel of its delivery is open, whichever values of the racing fields the worker sees |
| | `HealthIsTruthful` | no 503 while there are deliveries |
| | `BackoffFollowsFailures` | the wait doubles with each failure in a row, up to 30 seconds |
| | `NoCopyVanishes` | no retry copy is confirmed for a queue that does not exist |
| | `DelaysAreScheduled` | the delays of the queues are those of the schedule, up to 2^32 milliseconds |
| | `EventuallyConsumes`, `EventuallyPublishes`, `EventuallyStops` | liveness, each with the exceptions that the code has |
| `PublisherProperties` | `MandatoryIsRouted` | a mandatory publish that returns nil has reached a queue |
| | `ReturnIsOwn` | no publish is told of another one's return, until a wait is cut off by its deadline |
| | `OutcomeIsConfirmed` | what `publish` returns is what the broker did with its own message |
| | `PublishReturns` | every publish comes back |
| `ImageProperties` | `SuccessIsInRegistry` | what is reported as built is in the registry from then on |
| | `ImageIsOwn` | it is an image of a request with the same reference |
| | `ImageIsThereToPush` | only a worker on the same host can take an image away before its push |
| | `NoTagIsLeft` | on a host where nothing failed every tag belongs to a build under way |
| | `OnlyOverlapsLeaveImages` | an image without a tag stays on a host only when two builds of the tag overlap there, or something failed before |

Each of the five specifications also has one type invariant. `CountersMonotone`
and `SnapshotCurrent` are only proved, not checked by a run.

## 4. The runs

| Run | Instance | Shows |
|---|---|---|
| `exclusion` | 2 processes, 1 deployment sent 3 times, 2 attempts, 2 faults of all six kinds, symmetric processes | ownership, claim numbers, `OutcomeStoredFirst`, the bound on executions |
| `stable_outcome` | 2 processes, 3 copies, 3 faults, `database` and `crash` | with every publish confirmed the consumers implement `BuildStage` |
| `one_fault` | 2 processes, 2 deployments, one `publish` or `commit` fault | `NoRequestLost`, `EventuallyDecided`, `EventuallyReported` |
| `quiet` | 2 processes, 1 deployment, 1 bad request, 2 faults of any kind but `publish` | `UnclaimedInBroker`, `BadRequestsDeadLettered`, `EventuallyQuiet` |
| `ledger` | 2 callers, one of whose clocks is 1 ahead, leases of 2, time up to 5, counters up to 2, 1 `Renew` under way | the transactions and the memory ledger |
| `connection` | 3 connections, 4 schedules, `int32` of 3 bits (`HalfRange` 4), 3 attempts, 2 faults | the loop, the worker's publishes, the retry queues |
| `publisher` | 2 goroutines, 3 publishings, `PublishFnSet` FALSE | confirmations and returns |
| `image` | 3 workers, two of them on one docker host, 3 requests, 1 fault, the two symmetric | registry and docker hosts |
| `v_redeliverable`, `v_one_outcome`, `v_build_retried`, `v_unrouted` | as small as shows it | section 5 |

The runs of `BuildConsumer`, `ledger`, `connection` and `publisher` set
`CHECK_DEADLOCK FALSE`: requests, time, attempts or publishings are finitely
many in an instance, and when they are used up the system rests. A process
that has stopped rests too. `image` checks for deadlock.

**Bounds.** Rows of different deployments are independent: what couples
deployments is the one handler and the one worker of a process. So one
deployment with several copies is the hard case for safety, and two
with one copy each for liveness. Two processes suffice for two owners. Two
attempts are the least that have a first failure, a retry and an exhaustion;
three copies in `exclusion` let two processes hold deliveries while a third waits.
The faults let a claim, its retry or its successor each go wrong.

In `ledger` two callers are enough for every race of two statements; time up to 5
lets a lease be taken, run out, be taken over and run out again. `connection` has
three connections since the worker may still hold an old one while another is lost
and a third is made; a job at work and one
that waits can come from different ones; the schedules are of one and of two queues, and have durations that are 0 in
milliseconds (`<<0, 3>>`), that are negative in `int32`
(`<<2, 5>>`) and that wrap around to another delay (`<<9>>`). Three
publishings of two goroutines are one that was cut off, its successor and one
that waits for the mutex; `PublishFnSet` is FALSE there since the service, which
sets it, never publishes a mandatory message (`v_unrouted`, with TRUE) and the
handling of returns would be idle. Two workers on one host and one on another
are the least that separate hosts from the registry; the requests have names that
are the same when sanitized, a project that is called like the fallback of the other,
and commits with the same beginning.

The theorems of section 6 have none of these bounds.

**Which faults a run has** is part of what it shows. `SingleOwner` does not
survive an early expiry, and could not: the lease is all the exclusion there
is. `ImplementsBuildStage` does not survive a failed publish, nor
`NoRequestLost` a second fault or a crash after the early ack (section 5).
`PublishRetriesBounded` does not survive a lost `RecordRetry`, nor
`ReturnIsOwn` a wait that ends with its deadline: these carry the
condition in their statement, and the run has the fault nevertheless.

**Fairness.** It is in the specifications whose names begin with `Fair`.

- `BuildConsumer`: weak fairness of each handler and each worker: goroutines that
  can go on do, because every call they wait for has a timeout or comes back
  from the broker or the database, and `Start` reconnects for ever. Weak fairness of
  `LeaseExpires`, `LandRenewal` and `RetryDue`: time passes and statements sent
  are run. None for faults, or for `IssueRenewal`: the ticker need not fire
  before a build ends. Builds are not assumed to succeed. The fairness of a
  handler does not say which delivery it takes next, nor that a busy request is
  not delivered again at once: what ends that round is `LeaseExpires`.
- `ConsumerConnection`: weak fairness of the loop, of the worker and of
  `TimePasses`. None for `Signal`, `Exit`, faults or deliveries. The faults are
  bounded in number: the broker is reachable in the end.
- `RabbitPublisher`: strong fairness of taking the mutex (`sync.Mutex` hands it to a
  goroutine that has waited for a millisecond), weak fairness of the wait, which
  has a deadline, and of the `select`. None for the broker or the reader, so
  `PublishReturns` holds even if neither answers any more.
- `LedgerTransactions` and `ImageBuild` have safety properties only.

**Symmetry** is used in `exclusion` and `image`, which check invariants and, the
second, one action property: no liveness.

## 5. Where the code departs from what is written about it

Four runs check one property each and find it violated.

| Run | What is written | What the code does |
|---|---|---|
| `v_redeliverable` | comment at `build_consumer.go:585-587`: broker redelivery can reacquire the stage if the publish fails | the delivery was acknowledged at 305 |
| `v_one_outcome` | `README.md:8`: `build.succeeded` or `build.failed` | at exhaustion `Fail` overwrites `COMPLETED`; `errStoredResultPublish`, meant to prevent it, is never returned |
| `v_build_retried` | `README.md:41`: build failures are retried through TTL queues, retry exhaustion is `FAILED` | a clone or build that fails is persisted as `FAILED` at once (433, 447). Claim failures are nacked with requeue (283); what is retried is a failure to publish or to persist |
| `v_unrouted` | `rabbit_publisher.go:110-111`: an unroutable progress event is an error | `publishFn` is always set (`build_consumer.go:119`), so no progress event is published as mandatory (712-719) |

What else the models show and no run singles out:

- A success event that is not confirmed leads to `scheduleRetry`, whose `Release`
  reopens the `COMPLETED` stage (589): the deployment is built again.
- A failure event that is not confirmed is never published: the error of
  `completeFailure` after a failed build is returned with `actionAck` and only
  logged (446-447, 392).
- A `RecordRetry` that fails is not counted in the row: one execution more than
  `MAX_DELIVERY_ATTEMPTS` can follow.
- With a changed delay the durable queues of the old one are in the way: the
  broker refuses every `connect`, and `/health` says ok, since `disconnectedAt` is set
  by `disconnect` only. `EventuallyConsumes` excepts it by `Conflict`.
- The publisher's channel closed alone is not noticed until the connection is
  lost for another reason. `EventuallyPublishes` excepts it by `PublisherAlone`.
- Between the worker's test of `c.ch` and its call (602-603) `disconnect` can set
  the field to nil: the process panics (`NilChannel`).
- The publish of "retrying" comes before that of the delayed copy, and its error ends
  `scheduleRetry` (568-572): two publishes in a row that are not confirmed lose the
  request.
- When a lease runs out under its holder, the late `Renew`, `Complete`, `Fail` or
  `Release` of the old holder changes the row of the new one: no UPDATE names an owner
  (`ledger.go:121-147`), so `ImplementsBuildStage` holds only without such a fault.
- Two builds that overlap on one docker host and have one tag get in each other's way:
  the removal by one takes the tag away before the push of the other, which fails; and
  the image that loses its tag to the later build stays on the host
  (`builder.go:71-75`). `ImageIsThereToPush` and `OnlyOverlapsLeaveImages` say that
  nothing else does this to a build in which nothing fails.
- Two requests get one reference if their names differ only in separators that are
  dropped or made one (`a#-b` and `a-b`), if one is
  called like the fallback of the other, or if their commits agree in twelve digits:
  the later one is told that its image is there.

## 6. The proofs

The theorems hold for all values of the constants that satisfy the assumptions of
the modules; faults, attempts, callers, hosts and so on are unbounded in
number. The assumptions are what the code guarantees of its configuration: positive
`MAX_DELIVERY_ATTEMPTS` (`intOrDefault`), a schedule that is not empty
(`durationsOrDefault`), and that model values are different from one another.

| Module | Theorem | States |
|---|---|---|
| `BuildConsumerProofs` | `TypeCorrect`, `CountersGrow` | `TypeOK`, `CountersMonotone` |
| `OwnershipProofs` | `AtMostOneOwner`, `OwnerIsLatestClaimant` | `SingleOwner`, `HolderIsCurrent` |
| | `ClaimNumbersNeverShared` | `ClaimNumbersUnique` |
| `DeliveryProofs` | `UnclaimedStaysInBroker`, `OutcomeIsStoredFirst` | `UnclaimedInBroker`, `OutcomeStoredFirst` |
| `FaultProofs` | `BuildStageIsImplemented` | `ImplementsBuildStage`, if only `database` and `crash` faults happen: the whole refinement |
| | `LosslessFaultsLoseNoRequest` | `Lossless => NoRequestLost` |
| | `PublishFaultsKeepAttempts` | `PublishRetriesBounded` |
| | `BadRequestsStay` | a bad request is in the broker, at a handler or in the dead-letter queue, unless a publish failed |
| `LedgerProofs` | `LedgerTypeCorrect`, `SnapshotStaysCurrent`, `AttemptsStayDistinct`, `LeasesStayBounded`, `MemoryStaysInAgreement`, `NoTakeoverIsEarly` | the invariants and the action property of the ledger |
| | `LedgerIsAtomic` | `ImplementsAtomicLedger`: the whole refinement |
| `ConnectionProofs` | `ConnectionTypeCorrect`, `ConnectionsAreClosed`, `CopiesGoOut`, `HealthStaysTruthful`, `CopiesStayInQueues`, `DelaysStayScheduled`, `BackoffStaysDoubling` | the invariants of the connection |
| | `BackoffBoundIsExact` | that the bound `MaxBackoff` changes no wait |
| `PublisherProofs` | `PublisherTypeCorrect`, `MandatoryStaysRouted`, `ReturnStaysOwn`, `OutcomeStaysConfirmed` | the invariants of the publisher |
| `ImageProofs` | `SuccessStaysInRegistry`, `ImageStaysOwn`, `ImageStaysForPush`, `NoTagStays`, `OverlapsAloneLeaveImages`, `ImageTypeCorrect` | the invariants and the action property of the builder |
| | `SanitizedIsValid` | that a sanitized name is valid, whatever the name |

- *Types* (`BuildConsumerProofs`). `TypeOK` is inductive together with
  `DecidedHasResult`: a decided row has a result. Without it `publishStored`
  could read an outcome "none". The lemma `Steps` says that a step keeps the types and
  takes each row to itself or through one method of the ledger; the other
  proofs only look at what concerns them beyond that.
- *Ownership* (`OwnershipProofs`). `OwnerInv` adds `Protected`: `Claim` would not
  acquire a stage that somebody holds. It is needed since only the row keeps a second
  claimant out, and it is kept since a method that leaves a row free is called by
  the holder as its last use of the claim (`Release`). A late `Renew`, and a
  method that the sole holder calls, leave the row protected. All of it is under
  `LeasesHeld`, which a step can only falsify.
- *Delivery* (`DeliveryProofs`). `DeliveryInv` adds `RowsExist`, that a request
  in a process has a row (rows are never deleted, and only an acquired or
  terminal claim leads past `Claim`), and `ResultsStored`, that an outcome about to
  be published has a result in the ledger.
- *Claim numbers* (`OwnershipProofs`). Every number held is at most the one in
  the row, and `Claim` hands out one more; the steps of a process move a job and
  never copy it.
- *Faults* (`FaultProofs`). `WorkerTable`, `HandlerTable` and `EnvironmentTable` say
  what the steps of each process do, place by place, with the fault that each error
  stands for; the theorems are read off these tables. The first three need
  `Linked`: while no connection drops, the delivery at hand is still one of the queue.
  - The refinement: a claim becomes `Acquire`, an UPDATE that stores an outcome
    `Decide`, an event that is out `Report`, and every other step a stutter or
    `Relinquish`. Owners are jobs in `OwningPcs`; `OwnersShrink` says that a step
    which only drops jobs takes all owners of a stage or none, since `OwnerInv` leaves
    one. `StageInv` says why a decision is the first (the row of an owner that has
    not decided is `IN_PROGRESS` and has no result) and why a report is true (who
    publishes an outcome finds it stored).
  - `NoRequestLost`: `Lossless` allows any number of ledger answers that are lost
    and of leases that run out, or a single publish that is not confirmed. `KeptInv`
    says that each request has a copy in the broker, is held by a process that has
    yet to decide it, is decided or is dead-lettered. A process that only publishes a
    stored outcome does not count as a holder, since it may leave. A worker in
    `scheduleRetry` has met a fault before, so the publish it depends on does not
    fail.
  - `PublishRetriesBounded`: as long as only publishes fail, `attempt` is at most
    one more than `retry_count`, and at most `retry_count`, which is below
    `MAX_DELIVERY_ATTEMPTS`, whenever nobody holds an undecided row (`CountedInv`). So
    a claim leaves `attempt` within the bound.
  - `BadRequestsStay`: a handler reaches the last acknowledgement of a bad request,
    on a connection that is up, with the copy made (`Copied`). It shares
    `HandlerGivesBack` with `UnclaimedInBroker`: the two acknowledgements are the only
    ways in which a handler takes a delivery from the broker for good.
- *Ledger* (`LedgerProofs`). `LedgerInv` says what a transaction has read is the
  row as long as it holds the lock, that there is one such transaction, that each
  attempt given out is at most the one in the row, and that no end of a lease that
  anybody has computed lies beyond the fastest clock and a lease. Each commit is
  then one step of `AtomicLedger` and every other step a stutter or the expiry of
  a lease.
- *Publisher* (`PublisherProofs`). `PublisherInv`: who holds the mutex waits for
  the last publishing; nothing is known of a publishing before it is handled; the
  reader has read the return of each confirmed one that came back; until a wait is
  cut off only the last is unconfirmed.
- *Connection* (`ConnectionProofs`). `Phases` gives the fields and the local
  connection for each place of `Start`. `QueuesReady` says that all queues of the
  schedule are declared from `DeclareDone` on, and whenever there is a job: that is why a
  copy sent on an old connection still finds its queue. `JobsFit` says what a job may
  read: the channel of its delivery always, and nothing but that as long as it is open
  (`Knows`). It holds since `connect` sets the fields before it takes deliveries and
  `disconnect` clears `c.ch` after closing it; from it `NotGivenUp` has each reading
  of `c.ch` find an open channel. The
  index of the queue is in the schedule for every attempt (`RetryQueueDeclared`), and
  a duration below 2^32 that is not negative in `int32` is unchanged (`TTLWraps`).
  `FailuresCounted` has the backoff of each place of `Start` from the failures in a
  row: the counter of the model stops at `MaxBackoff`, and `BackoffBoundIsExact`
  shows that the code waits half a minute from there on.
- *Images* (`ImageProofs`). Each build has the tag of its request, each image lies
  under the reference of the request it was built for, and a tag on a host belongs
  to a build that comes to its removal, `ImagesPending`: stronger than
  `NoTagIsLeft`, since a build that fails before the `defer` removes nothing. A build
  that finds its tag in use is not that build yet, so there is another
  (`FoundByOverlap`), which is `OnlyOverlapsLeaveImages`.
  That sanitized names are valid is an induction over the rounds of the loop: what is
  written never begins with a separator and never has two in a row (`Separated`), and
  `strings.Trim` takes the one that may be at the end.

The two inductions over numbers take the least counterexample (`LeastNumber`,
from `WFMin` and `NatLessThanWellFounded`): the induction rule of the library has
an operator as a parameter, which no installed prover can instantiate.

What the conditions on faults exclude does break the properties, as TLC finds on small
instances:

| Property | Broken by |
|---|---|
| `ImplementsBuildStage` | each other kind of fault, alone |
| `NoRequestLost` | one `database`, `connection` or `crash`; two `publish`; `publish` with `commit` or `lease` |
| `BadRequestsKept` of `BadRequestsStay` | one `publish` |
| the bound of `PublishRetriesBounded` | `database`, `commit`, `connection` or `crash`, alone; `lease` with three copies |

Only model-checked:

- liveness (`EventuallyDecided`, `EventuallyReported`, `BadRequestsDeadLettered`,
  `EventuallyQuiet`, `EventuallyConsumes`, `EventuallyPublishes`, `EventuallyStops`,
  `PublishReturns`), which is out of the prover's reach;
- that `BuildConsumer` uses the publisher, the connection and the builder in the way
  their modules describe: these are separate specifications, and only the ledger is
  tied to it by a refinement.

## 7. What is not modelled

- `github.go`: the token of the GitHub App, and the clone commands
  (`build_consumer.go:737-801`). Sequential HTTP, signing and git calls without
  state; the clone is one step that succeeds or fails.
- Payloads: event ids, timestamps, fields, and the text of `last_error`.
- What docker keeps besides tagged images and images that have lost their tag: base
  images, the layers of its build cache.
- `runCommand`, capture and redaction of output; registry host and prefix, which
  are the same for every reference of a process.
- How long a copy waits in a TTL queue: `BuildConsumer` takes these queues
  together and lets a copy come back at any time.
- The HTTP server. `main` waits for it and for nothing else, which is `Exit`.
- The names in `config.go`; what is computed there is an assumption.
- Permanent failures, such as a table that is missing: a bounded number of
  faults happen in a run.
- `rabbitMQConsumer/`: a program for demonstration that the service does not use.

## 8. Plan

What could be added:

1. `ConsumerConnection` under `BuildConsumer`: one specification in which a lost
   channel, and not only a lost connection, meets the delivery at hand.
2. `CallBroker` as an abstraction of `RabbitPublisher`: a specification of one
   publish whose answer and effect may differ, and a refinement as for the ledger.
