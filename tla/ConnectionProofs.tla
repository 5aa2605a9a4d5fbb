--------------------------- MODULE ConnectionProofs ---------------------------
(***************************************************************************)
(* The connection loop, for any number of failures, schedules and attempts. *)
(* The inductive invariant gives for each point of Start what the fields    *)
(* and the local connection are, and what has been declared.                *)
(***************************************************************************)
EXTENDS ConnectionProperties, WellFoundedInduction, TLAPS

\* Where the fields are set, and where nothing is.
Connected  == {"consume", "deliveries", "down", "stamp", "closePub"}
Waiting    == {"top", "backoff", "stopped"}
Connecting == {"channel", "declare", "publisher", "assign"}

\* The local connection and the fields, by the place of Start.
Phases ==
  /\ pc \in Waiting => local = Nil /\ conn = Nil /\ ch = Nil /\ pub = Nil
  /\ pc \in Connecting => local # Nil /\ conn = Nil /\ ch = Nil /\ pub = Nil
  /\ pc = "store" => local # Nil /\ conn = local /\ ch = local /\ pub = local
  /\ pc \in Connected => local = Nil /\ conn # Nil /\ ch = conn /\ pub = conn
  /\ pc = "closeCh" => local = Nil /\ conn # Nil /\ ch = conn /\ pub = Nil
  /\ pc = "closeConn" => local = Nil /\ conn # Nil /\ ch = Nil /\ pub = Nil

\* No outage is on record from Store until disconnect.
NoOutage == pc \in {"consume", "deliveries", "down"} => disconnectedAt = "zero"

AllDeclared == \A i \in DOMAIN schedule : i \in DOMAIN queues /\ Accepted(i)

\* connect goes past the declarations only when each retry queue is there, and
\* jobs come from connections only that connect has finished.
QueuesReady ==
  /\ pc \in Connected \cup {"publisher", "assign", "store", "closeCh", "closeConn"} =>
       AllDeclared
  /\ jobs.home # Nil \/ worker.home # Nil => AllDeclared

\* The values that may be read for a job begin with the channel it came on.  While
\* that is open, c.ch still is this channel and has not been anything else.
Knows(job) ==
  /\ job.home = Nil => job.ch = {} /\ job.pub = {}
  /\ job.home # Nil => job.home \in job.ch
  /\ job.home \in With("ch") => job.ch = {job.home} /\ ch = job.home

\* No job has come from the connection that connect is setting up.
JobsFit ==
  /\ Knows(jobs) /\ Knows(worker)
  /\ pc \in Connecting => local \notin {jobs.home, worker.home}

\* backoffAttempt is the number of failures until the next one, and one behind
\* until Start has waited.
Reaching == {"top", "consume", "store"} \cup Connecting
Failed   == {"down", "stamp", "closePub", "closeCh", "closeConn", "backoff"}

FailuresCounted ==
  /\ pc \in Reaching => attempt = failures
  /\ pc = "deliveries" => attempt = 0 /\ failures = 0
  /\ pc \in Failed => failures = Up(attempt)

ConnectionInv ==
  /\ ConnectionTypeOK /\ Phases /\ NoConnectionLeaks /\ NoOutage
  /\ QueuesReady /\ NoCopyVanishes /\ FailuresCounted
  /\ JobsFit /\ NoCopyGivenUp

-----------------------------------------------------------------------------
(* The initial state *)

\* Nothing is connected or declared by this process.
LEMMA ConnectionInvInit == ConnectionInit => ConnectionInv
<1> SUFFICES ASSUME ConnectionInit PROVE ConnectionInv  OBVIOUS
<1> USE ConnectionAssumption DEF ConnectionInit
<1>1. /\ worker \in Work /\ worker.home = Nil /\ worker.ch = {} /\ worker.pub = {}
      /\ jobs \in Job /\ jobs.home = Nil /\ jobs.ch = {} /\ jobs.pub = {}
  BY DEF NoWork, Work, NoJob, Job, Pointer
<1>2. ConnectionTypeOK
  <2>1. pc = "top" /\ {local, conn, ch, pub} = {Nil} /\ schedule \in Schedules
    OBVIOUS
  <2>2. open \in [Connections -> {{}} \cup {p \in SUBSET Parts : "conn" \in p}]
    OBVIOUS
  <2>3. /\ attempt \in 0 .. MaxBackoff /\ failures \in 0 .. MaxBackoff
        /\ faults \in 0 .. MaxFaults
    BY DEF MaxBackoff
  <2>4. /\ connectedAt = FALSE /\ disconnectedAt \in {"zero", "recent", "old"}
        /\ cancelled \in BOOLEAN /\ exited \in BOOLEAN
        /\ vanished \in BOOLEAN /\ dropped \in BOOLEAN
    OBVIOUS
  <2>5. QED  BY ONLY <1>1, <2>1, <2>2, <2>3, <2>4 DEF ConnectionTypeOK, Steps, Pointer
<1>3. Phases /\ NoOutage
  BY DEF Phases, NoOutage, Waiting, Connecting, Connected
<1>4. NoConnectionLeaks /\ NoCopyVanishes /\ NoCopyGivenUp
  BY DEF NoConnectionLeaks, NoCopyVanishes, NoCopyGivenUp
<1>5. QueuesReady /\ JobsFit
  BY <1>1 DEF QueuesReady, Connected, JobsFit, Knows, Connecting, With
<1>6. FailuresCounted  BY DEF FailuresCounted, Reaching, Failed, Connecting
<1>7. QED  BY <1>2, <1>3, <1>4, <1>5, <1>6 DEF ConnectionInv

-----------------------------------------------------------------------------
(* The loop *)

\* A write makes a job of a job, waiting or in hand, ...
LEMMA SeenStays ==
  ASSUME NEW c \in SUBSET Pointer, NEW p \in SUBSET Pointer
  PROVE  /\ \A job \in Job : Seen(job, c, p) \in Job
         /\ \A job \in Work : Seen(job, c, p) \in Work
BY DEF Seen, Job, Work

\* ... that came from where it did, ...
LEMMA SeenHome ==
  ASSUME NEW c \in SUBSET Pointer, NEW p \in SUBSET Pointer
  PROVE  \A job \in Job \cup Work : Seen(job, c, p).home = job.home
BY DEF Seen, Job, Work

\* ... adds to what may be read for it ...
LEMMA SeenAdds ==
  ASSUME NEW c \in SUBSET Pointer, NEW p \in SUBSET Pointer
  PROVE  \A job \in Job \cup Work : Seen(job, c, p).ch \in {job.ch, job.ch \cup c}
BY DEF Seen, Job, Work

\* ... and does nothing where there is no job.
LEMMA SeenByNobody == \A c, p, job : job.home = Nil => Seen(job, c, p) = job
BY DEF Seen

\* What Start does to the jobs is to write fields: when nothing is open that a
\* job may have come from, or to the publisher only.
LEMMA LoopWrites ==
  ASSUME ConnectionTypeOK, Phases, LoopStep
  PROVE  /\ UNCHANGED <<vanished, dropped>>
         /\ jobs' \in Job /\ worker' \in Work
         /\ jobs'.home = jobs.home /\ worker'.home = worker.home
         /\ UNCHANGED retrying \/ \E c, p \in SUBSET Pointer :
              /\ Written(c, p)
              /\ c # {} => pc \in {"assign", "closeCh"}
<1> USE ConnectionAssumption DEF retrying
<1>1. CASE UNCHANGED retrying  BY <1>1 DEF ConnectionTypeOK
<1>2. ASSUME NEW c \in SUBSET Pointer, NEW p \in SUBSET Pointer, Written(c, p),
             c # {} => pc \in {"assign", "closeCh"}
      PROVE  /\ UNCHANGED <<vanished, dropped>>
             /\ jobs' \in Job /\ worker' \in Work
             /\ jobs'.home = jobs.home /\ worker'.home = worker.home
  <2>1. jobs \in Job /\ worker \in Work  BY DEF ConnectionTypeOK
  <2>2. Seen(jobs, c, p).home = jobs.home /\ Seen(jobs, c, p) \in Job
    BY <2>1, SeenStays, SeenHome
  <2>3. Seen(worker, c, p).home = worker.home /\ Seen(worker, c, p) \in Work
    BY <2>1, SeenStays, SeenHome
  <2>4. QED  BY <1>2, <2>2, <2>3 DEF Written
<1>3. CASE Assign
  BY <1>2, <1>3 DEF Assign, ConnectionTypeOK
<1>4. CASE ClosePub
  <2>1. Written({}, {Nil}) /\ {} \in SUBSET Pointer /\ {Nil} \in SUBSET Pointer
    BY <1>4 DEF ClosePub, Pointer
  <2>2. QED  BY <1>2, <2>1
<1>5. CASE CloseCh
  <2>1. Written({Nil}, {}) /\ {} \in SUBSET Pointer /\ {Nil} \in SUBSET Pointer
    BY <1>5 DEF CloseCh, Pointer
  <2>2. QED  BY <1>2, <1>5, <2>1 DEF CloseCh
<1>6. Assign \/ ClosePub \/ CloseCh \/ UNCHANGED retrying
  BY DEF LoopStep, Dial, OpenChannel, OpenChannelFails, DeclareQueue, DeclareDone,
         DeclareFails, OpenPublisher, OpenPublisherFails, Store, Consume, ConsumeFails,
         LeaveDeliveries, Down, Stamp, CloseConn, WaitBackoff, Stop, SetUp, ConnectFailed
<1>7. QED  BY <1>1, <1>3, <1>4, <1>5, <1>6

\* Every step of Start keeps the types.
LEMMA LoopTypes ==
  ASSUME ConnectionTypeOK, Phases, LoopStep
  PROVE  ConnectionTypeOK'
<1>0. /\ jobs' \in Job /\ worker' \in Work
      /\ vanished' \in BOOLEAN /\ dropped' \in BOOLEAN
  BY LoopWrites DEF ConnectionTypeOK
<1> USE <1>0, ConnectionAssumption DEF ConnectionTypeOK, Phases, Waiting, Connecting,
        Connected, Steps, Pointer, MaxBackoff, fields, health, backoff, process
<1>1. CASE Dial
  <2>1. CASE UNCHANGED open
    <3>1. Unused \subseteq Connections  BY DEF Unused
    <3>2. QED  BY <1>1, <2>1, <3>1 DEF Dial, ConnectFailed, Fault, Up
  <2>2. CASE pc' = "channel"
    BY <1>1, <2>2 DEF Dial, ConnectFailed, Unused, Parts
  <2>3. QED  BY <1>1, <2>1, <2>2 DEF Dial
<1>2. CASE OpenChannel  BY <1>2 DEF OpenChannel, SetUp, Parts
<1>3. CASE OpenChannelFails  BY <1>3 DEF OpenChannelFails, CallFails, ConnectFailed, Fault, Up
<1>4. CASE DeclareQueue  BY <1>4 DEF DeclareQueue
<1>5. CASE DeclareDone  BY <1>5 DEF DeclareDone, SetUp
<1>6. CASE DeclareFails  BY <1>6 DEF DeclareFails, CallFails, ConnectFailed, Fault, Up
<1>7. CASE OpenPublisher  BY <1>7 DEF OpenPublisher, SetUp, Parts
<1>8. CASE OpenPublisherFails  BY <1>8 DEF OpenPublisherFails, CallFails, ConnectFailed, Fault, Up
<1>9. CASE Assign  BY <1>9 DEF Assign
<1>10. CASE Store  BY <1>10 DEF Store
<1>11. CASE Consume  BY <1>11 DEF Consume
<1>12. CASE ConsumeFails  BY <1>12 DEF ConsumeFails, Fault, Up
<1>13. CASE LeaveDeliveries  BY <1>13 DEF LeaveDeliveries, Up
<1>14. CASE Down  BY <1>14 DEF Down
<1>15. CASE Stamp  BY <1>15 DEF Stamp
<1>16. CASE ClosePub  BY <1>16 DEF ClosePub
<1>17. CASE CloseCh  BY <1>17 DEF CloseCh
<1>18. CASE CloseConn  BY <1>18 DEF CloseConn
<1>19. CASE WaitBackoff  BY <1>19 DEF WaitBackoff, Up
<1>20. CASE Stop  BY <1>20 DEF Stop
<1>21. QED
  BY <1>1, <1>2, <1>3, <1>4, <1>5, <1>6, <1>7, <1>8, <1>9, <1>10,
     <1>11, <1>12, <1>13, <1>14, <1>15, <1>16, <1>17, <1>18, <1>19, <1>20 DEF LoopStep

\* The fields and the local connection change with the place of Start.
LEMMA LoopPhases ==
  ASSUME ConnectionTypeOK, Phases, LoopStep
  PROVE  Phases'
<1> USE ConnectionAssumption DEF ConnectionTypeOK, Phases, Waiting, Connecting, Connected,
        Pointer, fields, health, backoff, process, retrying
<1>1. CASE Dial  BY <1>1 DEF Dial, ConnectFailed, Unused
<1>2. CASE OpenChannel  BY <1>2 DEF OpenChannel, SetUp
<1>3. CASE OpenChannelFails  BY <1>3 DEF OpenChannelFails, CallFails, ConnectFailed
<1>4. CASE DeclareQueue  BY <1>4 DEF DeclareQueue, NotDeclared
<1>5. CASE DeclareDone  BY <1>5 DEF DeclareDone, SetUp
<1>6. CASE DeclareFails  BY <1>6 DEF DeclareFails, CallFails, ConnectFailed
<1>7. CASE OpenPublisher  BY <1>7 DEF OpenPublisher, SetUp
<1>8. CASE OpenPublisherFails  BY <1>8 DEF OpenPublisherFails, CallFails, ConnectFailed
<1>9. CASE Assign  BY <1>9 DEF Assign
<1>10. CASE Store  BY <1>10 DEF Store
<1>11. CASE Consume  BY <1>11 DEF Consume
<1>12. CASE ConsumeFails  BY <1>12 DEF ConsumeFails
<1>13. CASE LeaveDeliveries  BY <1>13 DEF LeaveDeliveries
<1>14. CASE Down  BY <1>14 DEF Down
<1>15. CASE Stamp  BY <1>15 DEF Stamp
<1>16. CASE ClosePub  BY <1>16 DEF ClosePub
<1>17. CASE CloseCh  BY <1>17 DEF CloseCh
<1>18. CASE CloseConn  BY <1>18 DEF CloseConn
<1>19. CASE WaitBackoff  BY <1>19 DEF WaitBackoff
<1>20. CASE Stop  BY <1>20 DEF Stop
<1>21. QED
  BY <1>1, <1>2, <1>3, <1>4, <1>5, <1>6, <1>7, <1>8, <1>9, <1>10,
     <1>11, <1>12, <1>13, <1>14, <1>15, <1>16, <1>17, <1>18, <1>19, <1>20 DEF LoopStep

\* Dial opens a connection when none is open, and who gives up closes it.
LEMMA LoopLeaks ==
  ASSUME ConnectionTypeOK, Phases, NoConnectionLeaks, LoopStep
  PROVE  NoConnectionLeaks'
<1> USE ConnectionAssumption DEF ConnectionTypeOK, Phases, Waiting, Connecting, Connected,
        NoConnectionLeaks, fields, health, backoff, process, retrying
<1>1. CASE Dial  BY <1>1 DEF Dial, ConnectFailed
<1>2. CASE OpenChannel  BY <1>2 DEF OpenChannel, SetUp
<1>3. CASE OpenChannelFails  BY <1>3 DEF OpenChannelFails, CallFails, ConnectFailed
<1>4. CASE DeclareQueue  BY <1>4 DEF DeclareQueue, NotDeclared
<1>5. CASE DeclareDone  BY <1>5 DEF DeclareDone, SetUp
<1>6. CASE DeclareFails  BY <1>6 DEF DeclareFails, CallFails, ConnectFailed
<1>7. CASE OpenPublisher  BY <1>7 DEF OpenPublisher, SetUp
<1>8. CASE OpenPublisherFails  BY <1>8 DEF OpenPublisherFails, CallFails, ConnectFailed
<1>9. CASE Assign  BY <1>9 DEF Assign
<1>10. CASE Store  BY <1>10 DEF Store
<1>11. CASE Consume  BY <1>11 DEF Consume
<1>12. CASE ConsumeFails  BY <1>12 DEF ConsumeFails
<1>13. CASE LeaveDeliveries  BY <1>13 DEF LeaveDeliveries
<1>14. CASE Down  BY <1>14 DEF Down
<1>15. CASE Stamp  BY <1>15 DEF Stamp
<1>16. CASE ClosePub  BY <1>16 DEF ClosePub
<1>17. CASE CloseCh  BY <1>17 DEF CloseCh
<1>18. CASE CloseConn  BY <1>18 DEF CloseConn
<1>19. CASE WaitBackoff  BY <1>19 DEF WaitBackoff
<1>20. CASE Stop  BY <1>20 DEF Stop
<1>21. QED
  BY <1>1, <1>2, <1>3, <1>4, <1>5, <1>6, <1>7, <1>8, <1>9, <1>10,
     <1>11, <1>12, <1>13, <1>14, <1>15, <1>16, <1>17, <1>18, <1>19, <1>20 DEF LoopStep

\* Store is the only way to the deliveries, and disconnect leaves them first.
LEMMA LoopOutage ==
  ASSUME NoOutage, LoopStep
  PROVE  NoOutage'
<1> USE DEF NoOutage, fields, health, backoff, process, retrying
<1>1. CASE Dial  BY <1>1 DEF Dial, ConnectFailed
<1>2. CASE OpenChannel  BY <1>2 DEF OpenChannel, SetUp
<1>3. CASE OpenChannelFails  BY <1>3 DEF OpenChannelFails, ConnectFailed
<1>4. CASE DeclareQueue  BY <1>4 DEF DeclareQueue
<1>5. CASE DeclareDone  BY <1>5 DEF DeclareDone, SetUp
<1>6. CASE DeclareFails  BY <1>6 DEF DeclareFails, ConnectFailed
<1>7. CASE OpenPublisher  BY <1>7 DEF OpenPublisher, SetUp
<1>8. CASE OpenPublisherFails  BY <1>8 DEF OpenPublisherFails, ConnectFailed
<1>9. CASE Assign  BY <1>9 DEF Assign
<1>10. CASE Store  BY <1>10 DEF Store
<1>11. CASE Consume  BY <1>11 DEF Consume
<1>12. CASE ConsumeFails  BY <1>12 DEF ConsumeFails
<1>13. CASE LeaveDeliveries  BY <1>13 DEF LeaveDeliveries
<1>14. CASE Down  BY <1>14 DEF Down
<1>15. CASE Stamp  BY <1>15 DEF Stamp
<1>16. CASE ClosePub  BY <1>16 DEF ClosePub
<1>17. CASE CloseCh  BY <1>17 DEF CloseCh
<1>18. CASE CloseConn  BY <1>18 DEF CloseConn
<1>19. CASE WaitBackoff  BY <1>19 DEF WaitBackoff
<1>20. CASE Stop  BY <1>20 DEF Stop
<1>21. QED
  BY <1>1, <1>2, <1>3, <1>4, <1>5, <1>6, <1>7, <1>8, <1>9, <1>10,
     <1>11, <1>12, <1>13, <1>14, <1>15, <1>16, <1>17, <1>18, <1>19, <1>20 DEF LoopStep

\* DeclareDone finds every queue declared, and nothing removes one.
LEMMA LoopQueues ==
  ASSUME ConnectionTypeOK, QueuesReady, LoopStep
  PROVE  QueuesReady'
<1> USE DEF QueuesReady, AllDeclared, Accepted, NotDeclared, Connected,
        fields, health, backoff, process, retrying
<1>1. CASE Dial  BY <1>1 DEF Dial, ConnectFailed
<1>2. CASE OpenChannel  BY <1>2 DEF OpenChannel, SetUp
<1>3. CASE OpenChannelFails  BY <1>3 DEF OpenChannelFails, ConnectFailed
<1>4. CASE DeclareQueue  BY <1>4 DEF DeclareQueue, NotDeclared
<1>5. CASE DeclareDone  BY <1>5 DEF DeclareDone, SetUp
<1>6. CASE DeclareFails  BY <1>6 DEF DeclareFails, ConnectFailed
<1>7. CASE OpenPublisher  BY <1>7 DEF OpenPublisher, SetUp
<1>8. CASE OpenPublisherFails  BY <1>8 DEF OpenPublisherFails, ConnectFailed
<1>9. CASE Assign  BY <1>9 DEF Assign
<1>10. CASE Store  BY <1>10 DEF Store
<1>11. CASE Consume  BY <1>11 DEF Consume
<1>12. CASE ConsumeFails  BY <1>12 DEF ConsumeFails
<1>13. CASE LeaveDeliveries  BY <1>13 DEF LeaveDeliveries
<1>14. CASE Down  BY <1>14 DEF Down
<1>15. CASE Stamp  BY <1>15 DEF Stamp
<1>16. CASE ClosePub  BY <1>16 DEF ClosePub
<1>17. CASE CloseCh  BY <1>17 DEF CloseCh
<1>18. CASE CloseConn  BY <1>18 DEF CloseConn
<1>19. CASE WaitBackoff  BY <1>19 DEF WaitBackoff
<1>20. CASE Stop  BY <1>20 DEF Stop
<1>21. QED
  BY <1>1, <1>2, <1>3, <1>4, <1>5, <1>6, <1>7, <1>8, <1>9, <1>10,
     <1>11, <1>12, <1>13, <1>14, <1>15, <1>16, <1>17, <1>18, <1>19, <1>20 DEF LoopStep

\* A failure is counted when Start gives up, and attempt follows when it has waited.
LEMMA LoopCounts ==
  ASSUME FailuresCounted, LoopStep
  PROVE  FailuresCounted'
<1> USE DEF FailuresCounted, Reaching, Failed, Connecting, Up, MaxBackoff,
        fields, health, backoff, process, retrying
<1>1. CASE Dial  BY <1>1 DEF Dial, ConnectFailed
<1>2. CASE OpenChannel  BY <1>2 DEF OpenChannel, SetUp
<1>3. CASE OpenChannelFails  BY <1>3 DEF OpenChannelFails, ConnectFailed
<1>4. CASE DeclareQueue  BY <1>4 DEF DeclareQueue
<1>5. CASE DeclareDone  BY <1>5 DEF DeclareDone, SetUp
<1>6. CASE DeclareFails  BY <1>6 DEF DeclareFails, ConnectFailed
<1>7. CASE OpenPublisher  BY <1>7 DEF OpenPublisher, SetUp
<1>8. CASE OpenPublisherFails  BY <1>8 DEF OpenPublisherFails, ConnectFailed
<1>9. CASE Assign  BY <1>9 DEF Assign
<1>10. CASE Store  BY <1>10 DEF Store
<1>11. CASE Consume  BY <1>11 DEF Consume
<1>12. CASE ConsumeFails  BY <1>12 DEF ConsumeFails
<1>13. CASE LeaveDeliveries  BY <1>13 DEF LeaveDeliveries
<1>14. CASE Down  BY <1>14 DEF Down
<1>15. CASE Stamp  BY <1>15 DEF Stamp
<1>16. CASE ClosePub  BY <1>16 DEF ClosePub
<1>17. CASE CloseCh  BY <1>17 DEF CloseCh
<1>18. CASE CloseConn  BY <1>18 DEF CloseConn
<1>19. CASE WaitBackoff  BY <1>19 DEF WaitBackoff
<1>20. CASE Stop  BY <1>20 DEF Stop
<1>21. QED
  BY <1>1, <1>2, <1>3, <1>4, <1>5, <1>6, <1>7, <1>8, <1>9, <1>10,
     <1>11, <1>12, <1>13, <1>14, <1>15, <1>16, <1>17, <1>18, <1>19, <1>20 DEF LoopStep

\* A channel is opened on the new connection only, which is one that nothing
\* refers to, and c.ch changes when there is none or with the end of its channel.
LEMMA LoopChannels ==
  ASSUME ConnectionTypeOK, Phases, LoopStep
  PROVE  /\ \A g \in Connections : "ch" \in open'[g] =>
              "ch" \in open[g] \/ (pc = "channel" /\ g = local)
         /\ ch' = ch \/ pc \in {"assign", "closeCh"}
         /\ pc = "closeCh" => "ch" \notin open'[ch]
         /\ pc' \in Connecting => (pc \in Connecting /\ local' = local) \/ local' \in Unused
<1> USE ConnectionAssumption DEF ConnectionTypeOK, Phases, Waiting, Connecting, Connected,
        Pointer, fields, health, backoff, process
<1>1. CASE Dial  BY <1>1 DEF Dial, ConnectFailed, Unused
<1>2. CASE OpenChannel  BY <1>2 DEF OpenChannel, SetUp
<1>3. CASE OpenChannelFails  BY <1>3 DEF OpenChannelFails, ConnectFailed
<1>4. CASE DeclareQueue  BY <1>4 DEF DeclareQueue
<1>5. CASE DeclareDone  BY <1>5 DEF DeclareDone, SetUp
<1>6. CASE DeclareFails  BY <1>6 DEF DeclareFails, ConnectFailed
<1>7. CASE OpenPublisher  BY <1>7 DEF OpenPublisher, SetUp
<1>8. CASE OpenPublisherFails  BY <1>8 DEF OpenPublisherFails, ConnectFailed
<1>9. CASE Assign  BY <1>9 DEF Assign
<1>10. CASE Store  BY <1>10 DEF Store
<1>11. CASE Consume  BY <1>11 DEF Consume
<1>12. CASE ConsumeFails  BY <1>12 DEF ConsumeFails
<1>13. CASE LeaveDeliveries  BY <1>13 DEF LeaveDeliveries
<1>14. CASE Down  BY <1>14 DEF Down
<1>15. CASE Stamp  BY <1>15 DEF Stamp
<1>16. CASE ClosePub  BY <1>16 DEF ClosePub
<1>17. CASE CloseCh  BY <1>17 DEF CloseCh
<1>18. CASE CloseConn  BY <1>18 DEF CloseConn
<1>19. CASE WaitBackoff  BY <1>19 DEF WaitBackoff
<1>20. CASE Stop  BY <1>20 DEF Stop
<1>21. QED
  BY <1>1, <1>2, <1>3, <1>4, <1>5, <1>6, <1>7, <1>8, <1>9, <1>10,
     <1>11, <1>12, <1>13, <1>14, <1>15, <1>16, <1>17, <1>18, <1>19, <1>20 DEF LoopStep

\* Dial takes a connection that no job knows, and it is the only one on which a
\* channel is opened; c.ch changes only when no channel is open.
LEMMA LoopJobs ==
  ASSUME ConnectionInv, LoopStep
  PROVE  JobsFit'
<1> USE ConnectionAssumption DEF ConnectionInv, fields, health, backoff, process
<1>1. /\ jobs \in Job /\ worker \in Work
      /\ jobs'.home = jobs.home /\ worker'.home = worker.home
  BY LoopWrites DEF ConnectionTypeOK
<1>2. PICK c \in SUBSET Pointer, p \in SUBSET Pointer :
        /\ jobs' \in {jobs, Seen(jobs, c, p)} /\ worker' \in {worker, Seen(worker, c, p)}
        /\ c # {} => pc \in {"assign", "closeCh"}
  <2>1. {} \in SUBSET Pointer  OBVIOUS
  <2>2. UNCHANGED retrying \/ \E c, p \in SUBSET Pointer :
          Written(c, p) /\ (c # {} => pc \in {"assign", "closeCh"})
    BY LoopWrites
  <2>3. CASE UNCHANGED retrying  BY <2>1, <2>3 DEF retrying
  <2>4. CASE ~(UNCHANGED retrying)  BY <2>2, <2>4 DEF Written
  <2>5. QED  BY <2>3, <2>4
<1>3. ASSUME NEW j \in Job \cup Work, NEW i, i \in {j, Seen(j, c, p)}, Knows(j),
             pc \in Connecting => local # j.home
      PROVE  /\ i.home = Nil => i.ch = {} /\ i.pub = {}
             /\ i.home # Nil => i.home \in i.ch
             /\ i.home \in With("ch")' => i.ch = {i.home} /\ ch' = i.home
  <2>1. /\ i.home = j.home
        /\ i.home = Nil => i.ch = j.ch /\ i.pub = j.pub
        /\ i.ch = j.ch \/ i.ch = j.ch \cup c
    <3>1. CASE i = j  BY <3>1
    <3>2. CASE i = Seen(j, c, p)
      <4>1. i.home = j.home  BY <1>3, <3>2, SeenHome
      <4>2. i.ch = j.ch \/ i.ch = j.ch \cup c  BY <1>3, <3>2, SeenAdds
      <4>3. j.home = Nil => i = j  BY <3>2, SeenByNobody
      <4>4. QED  BY <4>1, <4>2, <4>3
    <3>3. QED  BY <1>3, <3>1, <3>2
  <2>2. ASSUME j.home \in With("ch")' PROVE i.ch = {j.home} /\ ch' = j.home
    <3>1. (j.home \in Connections /\ pc # "closeCh") \/ j.home # ch
      BY <2>2, LoopChannels DEF With
    <3>2. j.home \in With("ch")
      BY <1>3, <2>2, LoopChannels DEF With, Connecting
    <3>3. j.ch = {j.home} /\ ch = j.home /\ j.home # Nil
      BY <1>3, <3>2 DEF Knows, With
    <3>4. pc # "assign"  BY <3>3 DEF Phases, Connecting
    <3>5. c = {} /\ ch' = ch  BY <1>2, <3>1, <3>3, <3>4, LoopChannels
    <3>6. QED  BY <2>1, <3>3, <3>5
  <2>3. QED  BY <1>3, <2>1, <2>2 DEF Knows
<1>4. Knows(jobs)' /\ Knows(worker)'
  <2>1. Knows(jobs) /\ Knows(worker)
        /\ (pc \in Connecting => local # jobs.home /\ local # worker.home)
    BY DEF JobsFit
  <2>2. QED  BY <1>1, <1>2, <1>3, <2>1 DEF Knows
<1>5. pc' \in Connecting => local' \notin {jobs'.home, worker'.home}
  <2>1. CASE pc \in Connecting /\ local' = local  BY <1>1, <2>1 DEF JobsFit
  <2>2. CASE local' \in Unused
    <3>1. local' # Nil /\ local' \notin jobs.ch \cup worker.ch  BY <2>2 DEF Unused
    <3>2. QED  BY <1>1, <3>1 DEF JobsFit, Knows
  <2>3. QED  BY <2>1, <2>2, LoopChannels
<1>6. QED  BY <1>4, <1>5 DEF JobsFit

\* Start keeps the invariant.
LEMMA LoopKeeps ==
  ASSUME ConnectionInv, LoopStep
  PROVE  ConnectionInv'
<1>1. UNCHANGED <<vanished, dropped>>  BY LoopWrites DEF ConnectionInv
<1>2. QED
  BY <1>1, LoopTypes, LoopPhases, LoopLeaks, LoopOutage, LoopQueues, LoopCounts, LoopJobs
  DEF ConnectionInv, NoCopyVanishes, NoCopyGivenUp

-----------------------------------------------------------------------------
(* The worker *)

\* With every queue of the schedule declared, the one for any attempt is there.
LEMMA RetryQueueDeclared ==
  ASSUME ConnectionTypeOK, AllDeclared
  PROVE  RetryQueue(worker.attempt) \in DOMAIN queues
<1>1. schedule \in Seq(Nat) /\ Len(schedule) \in Nat \ {0}
      /\ DOMAIN schedule = 1 .. Len(schedule)
  BY ConnectionAssumption DEF ConnectionTypeOK
<1>2. worker.attempt \in Nat
  BY ConnectionAssumption DEF ConnectionTypeOK, Work
<1>3. RetryQueue(worker.attempt) \in 1 .. Len(schedule)
  BY <1>1, <1>2 DEF RetryQueue
<1>4. QED  BY <1>1, <1>3 DEF AllDeclared

\* The connection that a copy goes through is one that connect has finished.
LEMMA CopiesKept ==
  ASSUME ConnectionInv, NEW g \in worker.ch \cup worker.pub, Copied
  PROVE  NoCopyVanishes'
<1> USE ConnectionAssumption DEF ConnectionInv
<1>1. AllDeclared  BY DEF JobsFit, Knows, QueuesReady
<1>2. QED  BY <1>1, RetryQueueDeclared DEF Copied, NoCopyVanishes

\* While the channel of its delivery is open the worker finds that channel.
LEMMA NotGivenUp ==
  ASSUME ConnectionInv, NEW g \in worker.ch, g \notin With("ch"), GivenUp
  PROVE  UNCHANGED dropped
BY DEF ConnectionInv, JobsFit, Knows, GivenUp, ConnectionTypeOK

\* The worker keeps the invariant: it changes nothing that is connected.
LEMMA WorkerKeeps ==
  ASSUME ConnectionInv, WorkerStep
  PROVE  ConnectionInv'
<1> USE ConnectionAssumption
    DEF ConnectionInv, fields, health, backoff, process, retrying, WorkerUnchanged
<1>1. UNCHANGED <<pc, local, conn, ch, pub, open, attempt, failures, connectedAt,
                  disconnectedAt, cancelled, exited, schedule, queues>>
  BY DEF WorkerStep, TakeJob, ReadPub, PublishCopy, ReadCh, SendCopy
<1>2. faults' \in 0 .. MaxFaults
  <2>1. UNCHANGED faults \/ Fault
    BY DEF WorkerStep, TakeJob, ReadPub, PublishCopy, ReadCh, SendCopy
  <2>2. faults \in 0 .. MaxFaults /\ MaxFaults \in Nat  BY DEF ConnectionTypeOK
  <2>3. QED  BY ONLY <2>1, <2>2 DEF Fault
<1>3. /\ worker' \in Work /\ Knows(worker)' /\ jobs' \in Job /\ Knows(jobs)'
      /\ {jobs'.home, worker'.home} \subseteq {Nil, jobs.home, worker.home}
  <2>1. jobs \in Job /\ worker \in Work /\ Knows(jobs) /\ Knows(worker)
    BY DEF ConnectionTypeOK, JobsFit
  <2>2. /\ NoWork \in Work /\ NoWork.home = Nil /\ NoWork.ch = {} /\ NoWork.pub = {}
        /\ NoJob \in Job /\ NoJob.home = Nil /\ NoJob.ch = {} /\ NoJob.pub = {}
    BY DEF NoWork, Work, NoJob, Job, Pointer
  <2>3. CASE TakeJob
    <3>1. CASE UNCHANGED jobs /\ worker' = [worker EXCEPT !.pc = "stopped"]
      BY <1>1, <2>1, <3>1 DEF Work, Knows, With
    <3>2. CASE ~(UNCHANGED jobs /\ worker' = [worker EXCEPT !.pc = "stopped"])
      <4>1. PICK a \in 0 .. MaxAttempts - 1 :
              /\ jobs' = NoJob
              /\ worker' = [pc |-> "publish", attempt |-> a,
                            home |-> jobs.home, ch |-> jobs.ch, pub |-> jobs.pub]
        BY <2>3, <3>2 DEF TakeJob
      <4>2. worker' \in Work /\ worker'.home = jobs.home /\ worker'.ch = jobs.ch
            /\ worker'.pub = jobs.pub
        BY <2>1, <4>1 DEF Work, Job
      <4>3. QED  BY <1>1, <2>1, <2>2, <4>1, <4>2 DEF Knows, With
    <3>3. QED  BY <3>1, <3>2
  <2>4. CASE UNCHANGED jobs /\ worker' = NoWork
    BY <1>1, <2>1, <2>2, <2>4 DEF Knows, With
  <2>5. CASE UNCHANGED jobs /\ \E step \in {"confirm", "fallback", "send"} : Proceeds(step)
    BY <1>1, <2>1, <2>5 DEF Proceeds, Work, Knows, With
  <2>6. QED
    BY <2>3, <2>4, <2>5
    DEF WorkerStep, ReadPub, PublishCopy, ReadCh, SendCopy, Copied, GivenUp
<1>4. /\ vanished' \in BOOLEAN /\ NoCopyVanishes'
      /\ dropped' \in BOOLEAN /\ NoCopyGivenUp'
  <2>1. ASSUME NEW g \in worker.ch \cup worker.pub, Copied
        PROVE  vanished' \in BOOLEAN /\ NoCopyVanishes' /\ UNCHANGED dropped
    BY <2>1, CopiesKept DEF Copied, ConnectionTypeOK
  <2>2. ASSUME NEW g \in worker.ch, g \notin With("ch"), GivenUp
        PROVE  UNCHANGED <<vanished, dropped>>
    BY <2>2, NotGivenUp DEF GivenUp
  <2>3. Nil \notin With("ch")  BY DEF With
  <2>4. UNCHANGED <<vanished, dropped>>
        \/ (vanished' \in BOOLEAN /\ NoCopyVanishes' /\ UNCHANGED dropped)
    <3>1. CASE TakeJob \/ ReadPub  BY <3>1 DEF TakeJob, ReadPub, Proceeds
    <3>2. CASE PublishCopy  BY <2>1, <3>2 DEF PublishCopy, Proceeds
    <3>3. CASE ReadCh  BY <2>2, <2>3, <3>3 DEF ReadCh, Proceeds
    <3>4. CASE SendCopy  BY <2>1, <2>2, <3>4 DEF SendCopy
    <3>5. QED  BY <3>1, <3>2, <3>3, <3>4 DEF WorkerStep
  <2>5. QED  BY <2>4 DEF ConnectionTypeOK, NoCopyVanishes, NoCopyGivenUp
<1>5. ConnectionTypeOK'  BY <1>1, <1>2, <1>3, <1>4 DEF ConnectionTypeOK
<1>6. Phases' /\ NoConnectionLeaks' /\ NoOutage' /\ FailuresCounted'
  BY <1>1 DEF Phases, NoConnectionLeaks, NoOutage, FailuresCounted
<1>7. QueuesReady'
  <2>1. AllDeclared' <=> AllDeclared  BY <1>1 DEF AllDeclared, Accepted
  <2>2. QED  BY <1>1, <1>3, <2>1 DEF QueuesReady
<1>8. JobsFit'
  <2>1. pc \in Connecting => local # Nil  BY DEF Phases
  <2>2. QED  BY <1>1, <1>3, <2>1 DEF JobsFit
<1>9. QED  BY <1>4, <1>5, <1>6, <1>7, <1>8

-----------------------------------------------------------------------------
(* The end of the process, failures, time and deliveries *)

\* Everything else closes connections, or changes what the invariant hardly
\* speaks of.
LEMMA RestKeeps ==
  ASSUME ConnectionInv, NilChannel \/ AcceptDelivery \/ TimePasses \/ Signal \/ Exit
  PROVE  ConnectionInv'
<1> USE ConnectionAssumption DEF ConnectionInv, fields, health, backoff, process, retrying
<1>1. UNCHANGED <<pc, local, conn, ch, pub, attempt, failures, connectedAt, schedule,
                  queues, vanished, faults>>
  BY DEF NilChannel, AcceptDelivery, TimePasses, Signal, Exit, End, GivenUp
<1>2. \/ NilChannel \/ AcceptDelivery \/ UNCHANGED <<jobs, worker, dropped>>
  BY DEF TimePasses, Signal, Exit, End
<1>3. cancelled' \in BOOLEAN /\ exited' \in BOOLEAN
  BY DEF NilChannel, AcceptDelivery, TimePasses, Signal, Exit, End, ConnectionTypeOK
<1>4. UNCHANGED open \/ open' = [g \in Connections |-> {}]
  BY DEF NilChannel, AcceptDelivery, TimePasses, Signal, Exit, End
<1>5. \/ disconnectedAt' = disconnectedAt
      \/ disconnectedAt = "recent" /\ disconnectedAt' = "old"
  BY DEF NilChannel, AcceptDelivery, TimePasses, Signal, Exit, End
<1>6. /\ jobs' \in Job /\ worker' \in Work /\ UNCHANGED dropped
      /\ jobs'.home # jobs.home => pc = "deliveries"
      /\ worker'.home \in {Nil, worker.home}
      /\ Knows(jobs)' /\ Knows(worker)'
  <2>1. jobs \in Job /\ worker \in Work /\ Knows(jobs) /\ Knows(worker)
    BY DEF ConnectionTypeOK, JobsFit
  <2>2. With("ch")' \subseteq With("ch")  BY <1>4 DEF With
  <2>3. CASE UNCHANGED <<jobs, worker, dropped>>
    BY <1>1, <2>1, <2>2, <2>3 DEF Knows
  <2>4. CASE NilChannel
    <3>1. UNCHANGED <<jobs, dropped>> /\ worker' = NoWork
      BY <2>4, NotGivenUp DEF NilChannel, End, GivenUp, With
    <3>2. NoWork \in Work /\ NoWork.home = Nil /\ NoWork.ch = {} /\ NoWork.pub = {}
      BY DEF NoWork, Work, Pointer
    <3>3. QED  BY <1>1, <2>1, <2>2, <3>1, <3>2 DEF Knows, With
  <2>5. CASE AcceptDelivery
    <3>1. /\ UNCHANGED <<worker, dropped>> /\ pc = "deliveries"
          /\ jobs' = [home |-> ch, ch |-> {ch}, pub |-> {pub}]
      BY <2>5 DEF AcceptDelivery
    <3>2. ch \in Pointer /\ pub \in Pointer /\ ch # Nil
      BY <3>1 DEF ConnectionTypeOK, Phases, Connected
    <3>3. jobs' \in Job /\ jobs'.home = ch /\ jobs'.ch = {ch} /\ jobs'.pub = {pub}
      BY <3>1, <3>2 DEF Job
    <3>4. QED  BY <1>1, <2>1, <2>2, <3>1, <3>2, <3>3 DEF Knows
  <2>6. QED  BY <1>2, <2>3, <2>4, <2>5
<1>7. ConnectionTypeOK'  BY <1>1, <1>3, <1>4, <1>5, <1>6 DEF ConnectionTypeOK
<1>8. /\ Phases' /\ NoConnectionLeaks' /\ NoOutage' /\ NoCopyVanishes' /\ FailuresCounted'
      /\ NoCopyGivenUp'
  BY <1>1, <1>4, <1>5, <1>6
  DEF Phases, NoConnectionLeaks, NoOutage, NoCopyVanishes, FailuresCounted, NoCopyGivenUp
<1>9. QueuesReady'
  BY <1>1, <1>6 DEF QueuesReady, AllDeclared, Accepted, Connected
<1>10. JobsFit'
  <2>1. pc \in Connecting => local # Nil /\ pc # "deliveries"
    BY DEF Phases, Connecting
  <2>2. QED  BY <1>1, <1>6, <2>1 DEF JobsFit
<1>11. QED  BY <1>7, <1>8, <1>9, <1>10

\* A lost connection or channel.
LEMMA LossKeeps ==
  ASSUME ConnectionInv, NEW g \in Connections, NEW part \in {"ch", "pub"},
         ConnectionLost(g) \/ ChannelLost(g, part)
  PROVE  ConnectionInv'
<1> USE ConnectionAssumption DEF ConnectionInv, fields, health, backoff, process, retrying
<1>1. UNCHANGED <<pc, local, conn, ch, pub, attempt, failures, connectedAt,
                  disconnectedAt, cancelled, exited, jobs, worker, vanished, dropped,
                  schedule, queues>>
  BY DEF ConnectionLost, ChannelLost
<1>2. faults' \in 0 .. MaxFaults
  BY DEF ConnectionLost, ChannelLost, Fault, ConnectionTypeOK
<1>3. /\ open' \in [Connections -> {{}} \cup {p \in SUBSET Parts : "conn" \in p}]
      /\ \A f \in Connections : open'[f] \subseteq open[f]
  BY DEF ConnectionLost, ChannelLost, ConnectionTypeOK
<1>4. ConnectionTypeOK'  BY <1>1, <1>2, <1>3 DEF ConnectionTypeOK
<1>5. Phases' /\ NoOutage' /\ NoCopyVanishes' /\ FailuresCounted' /\ NoCopyGivenUp'
  BY <1>1 DEF Phases, NoOutage, NoCopyVanishes, FailuresCounted, NoCopyGivenUp
<1>6. NoConnectionLeaks'  BY <1>1, <1>3 DEF NoConnectionLeaks
<1>7. QueuesReady'  BY <1>1 DEF QueuesReady, AllDeclared, Accepted
<1>8. JobsFit'  BY <1>1, <1>3 DEF JobsFit, Knows, With
<1>9. QED  BY <1>4, <1>5, <1>6, <1>7, <1>8

-----------------------------------------------------------------------------
(* The theorems *)

\* The invariant holds throughout.
LEMMA ConnectionInvariant == ConnectionSpec => []ConnectionInv
<1>1. ConnectionInit => ConnectionInv  BY ConnectionInvInit
<1>2. ConnectionInv /\ [ConnectionNext]_vars => ConnectionInv'
  <2> SUFFICES ASSUME ConnectionInv, [ConnectionNext]_vars PROVE ConnectionInv'
    OBVIOUS
  <2>1. CASE UNCHANGED vars
    BY <2>1 DEF vars, fields, health, backoff, process, retrying, ConnectionInv,
         ConnectionTypeOK, Phases, NoConnectionLeaks, NoOutage, QueuesReady,
         AllDeclared, Accepted, NoCopyVanishes, FailuresCounted, JobsFit, Knows, With,
         NoCopyGivenUp
  <2>2. CASE ConnectionNext
    BY <2>2, LoopKeeps, WorkerKeeps, RestKeeps, LossKeeps DEF ConnectionNext
  <2>3. QED  BY <2>1, <2>2
<1>3. QED  BY <1>1, <1>2, PTL DEF ConnectionSpec

\* Types, and that nothing but a connection has channels.
THEOREM ConnectionTypeCorrect == ConnectionSpec => []ConnectionTypeOK
<1>1. ConnectionInv => ConnectionTypeOK  BY DEF ConnectionInv
<1>2. QED  BY <1>1, ConnectionInvariant, PTL

\* At most one connection is open, one that somebody will close.
THEOREM ConnectionsAreClosed == ConnectionSpec => []NoConnectionLeaks
<1>1. ConnectionInv => NoConnectionLeaks  BY DEF ConnectionInv
<1>2. QED  BY <1>1, ConnectionInvariant, PTL

\* No retry copy is given up while the channel its request came on is open,
\* whatever the worker sees of the fields.
THEOREM CopiesGoOut == ConnectionSpec => []NoCopyGivenUp
<1>1. ConnectionInv => NoCopyGivenUp  BY DEF ConnectionInv
<1>2. QED  BY <1>1, ConnectionInvariant, PTL

\* /health answers 503 only while nothing is consumed.
THEOREM HealthStaysTruthful == ConnectionSpec => []HealthIsTruthful
<1>1. ConnectionInv => HealthIsTruthful
  BY DEF ConnectionInv, ConnectionTypeOK, NoOutage, HealthIsTruthful, Consuming, Unhealthy
<1>2. QED  BY <1>1, ConnectionInvariant, PTL

\* No retry copy is confirmed and dropped, however attempts and delays are configured.
THEOREM CopiesStayInQueues == ConnectionSpec => []NoCopyVanishes
<1>1. ConnectionInv => NoCopyVanishes  BY DEF ConnectionInv
<1>2. QED  BY <1>1, ConnectionInvariant, PTL

\* A duration below 2^32 milliseconds that the broker takes has not wrapped around.
LEMMA TTLWraps ==
  ASSUME NEW d \in Nat, d < 2 * HalfRange, TTL(d) >= 0
  PROVE  TTL(d) = d
<1> USE ConnectionAssumption
<1> DEFINE m == 2 * HalfRange
<1>1. m \in Nat \ {0} /\ HalfRange \in Nat  OBVIOUS
<1>2. CASE d < HalfRange
  <2>1. (d + HalfRange) % m = d + HalfRange  BY <1>1, <1>2, SMTT(30)
  <2>2. QED  BY <1>1, <2>1 DEF TTL
<1>3. CASE d >= HalfRange
  <2>1. (d + HalfRange) % m = d + HalfRange - m  BY <1>1, <1>3, SMTT(30)
  <2>2. TTL(d) < 0  BY <1>1, <2>1 DEF TTL
  <2>3. QED  BY <1>1, <2>1, <2>2 DEF TTL
<1>4. QED  BY <1>1, <1>2, <1>3

\* A consumer has the retry queues of its schedule with their delays.
THEOREM DelaysStayScheduled == ConnectionSpec => []DelaysAreScheduled
<1>1. ConnectionInv => DelaysAreScheduled
  <2> SUFFICES ASSUME ConnectionInv, Consuming, NEW i \in DOMAIN schedule,
                      schedule[i] < 2 * HalfRange
               PROVE  i \in DOMAIN queues /\ queues[i] = schedule[i]
    BY DEF DelaysAreScheduled
  <2>1. AllDeclared  BY DEF ConnectionInv, QueuesReady, Connected, Consuming
  <2>2. schedule[i] \in Nat
    BY ConnectionAssumption DEF ConnectionInv, ConnectionTypeOK
  <2>3. i \in DOMAIN queues /\ TTL(schedule[i]) >= 0 /\ queues[i] = TTL(schedule[i])
    BY <2>1 DEF AllDeclared, Accepted
  <2>4. QED  BY <2>2, <2>3, TTLWraps
<1>2. QED  BY <1>1, ConnectionInvariant, PTL

-----------------------------------------------------------------------------
(* The backoff *)

\* The seconds, for every number of attempts.
Seconds ==
  [i \in Nat |-> IF i = 0 THEN 1 ELSE IF i = 1 THEN 2 ELSE IF i = 2 THEN 4
                 ELSE IF i = 3 THEN 8 ELSE IF i = 4 THEN 16 ELSE 30]

\* They satisfy the recursion of consumerBackoff.
LEMMA SecondsDouble ==
  Seconds = [i \in Nat |->
              IF i = 0 THEN 1
              ELSE LET d == Seconds[i - 1] IN IF 2 * d > 30 THEN 30 ELSE 2 * d]
<1> DEFINE next(i) ==
      IF i = 0 THEN 1
      ELSE LET d == Seconds[i - 1] IN IF 2 * d > 30 THEN 30 ELSE 2 * d
<1>1. \A i \in Nat : Seconds[i] = next(i)  BY DEF Seconds
<1>2. QED  BY <1>1 DEF Seconds

\* So a function that satisfies it exists, and consumerBackoff is one.
LEMMA BackoffDoubles ==
  \A i \in Nat :
    consumerBackoff[i] =
      IF i = 0 THEN 1
      ELSE LET d == consumerBackoff[i - 1] IN IF 2 * d > 30 THEN 30 ELSE 2 * d
<1> DEFINE D(f) == f = [i \in Nat |->
      IF i = 0 THEN 1
      ELSE LET d == f[i - 1] IN IF 2 * d > 30 THEN 30 ELSE 2 * d]
<1>1. \E f : D(f)  BY SecondsDouble
<1>2. consumerBackoff = CHOOSE f : D(f)  BY DEF consumerBackoff
<1> HIDE DEF D
<1>3. D(consumerBackoff)  BY <1>1, <1>2
<1>4. QED  BY <1>3 DEF D

\* The waits that Start can come to.
LEMMA BackoffValues ==
  /\ consumerBackoff[0] = 1  /\ consumerBackoff[1] = 2 /\ consumerBackoff[2] = 4
  /\ consumerBackoff[3] = 8  /\ consumerBackoff[4] = 16
  /\ consumerBackoff[5] = 30 /\ consumerBackoff[6] = 30
<1>1. consumerBackoff[0] = 1  BY BackoffDoubles
<1>2. consumerBackoff[1] = 2  BY <1>1, BackoffDoubles
<1>3. consumerBackoff[2] = 4  BY <1>2, BackoffDoubles
<1>4. consumerBackoff[3] = 8  BY <1>3, BackoffDoubles
<1>5. consumerBackoff[4] = 16  BY <1>4, BackoffDoubles
<1>6. consumerBackoff[5] = 30  BY <1>5, BackoffDoubles
<1>7. consumerBackoff[6] = 30  BY <1>6, BackoffDoubles
<1>8. QED  BY <1>1, <1>2, <1>3, <1>4, <1>5, <1>6, <1>7

\* Induction on the natural numbers: a set of them has a least one.
LEMMA LeastNumber ==
  ASSUME NEW T, T \subseteq Nat, T # {}
  PROVE  \E n \in T : \A m \in T : n <= m
<1> DEFINE R == OpToRel(<, Nat)
<1>1. IsWellFoundedOn(R, Nat)  BY NatLessThanWellFounded
<1>2. PICK n \in T : \A m \in T : <<m, n>> \notin R
  <2> HIDE DEF R
  <2>1. QED  BY <1>1, WFMin
<1>3. \A m \in T : ~(m < n)  BY <1>2 DEF OpToRel
<1>4. QED  BY <1>3

\* Counting the attempts beyond MaxBackoff would change no wait: from there on it
\* is half a minute, so the bound of the model loses nothing.
THEOREM BackoffBoundIsExact == \A i \in Nat : i >= MaxBackoff => consumerBackoff[i] = 30
<1> DEFINE T == {i \in Nat : i >= MaxBackoff /\ consumerBackoff[i] # 30}
<1> USE DEF MaxBackoff
<1>1. SUFFICES ASSUME T # {} PROVE FALSE  OBVIOUS
<1>2. PICK n \in T : \A m \in T : n <= m  BY <1>1, LeastNumber
<1>3. n # 6  BY BackoffValues
<1>4. n - 1 \in Nat /\ n - 1 >= 6 /\ n - 1 \notin T  BY <1>2, <1>3
<1>5. consumerBackoff[n - 1] = 30  BY <1>4
<1>6. QED  BY <1>2, <1>5, BackoffDoubles

\* The wait doubles with every failure in a row up to half a minute, and starts
\* again at one second after deliveries, whatever fails in between.
THEOREM BackoffStaysDoubling == ConnectionSpec => []BackoffFollowsFailures
<1>1. ConnectionInv => BackoffFollowsFailures
  <2> SUFFICES ASSUME ConnectionInv, pc = "backoff"
               PROVE  LET delay == 2 ^ (failures - 1)
                      IN  consumerBackoff[attempt] = IF delay < 30 THEN delay ELSE 30
    BY DEF BackoffFollowsFailures
  <2>1. attempt \in 0 .. 6 /\ failures = IF attempt < 6 THEN attempt + 1 ELSE attempt
    BY DEF ConnectionInv, ConnectionTypeOK, FailuresCounted, Failed, Up, MaxBackoff
  <2>2. /\ 2 ^ 0 = 1 /\ 2 ^ 1 = 2 /\ 2 ^ 2 = 4 /\ 2 ^ 3 = 8 /\ 2 ^ 4 = 16 /\ 2 ^ 5 = 32
    OBVIOUS
  <2>3. CASE attempt = 0  BY <2>1, <2>2, <2>3, BackoffValues
  <2>4. CASE attempt = 1  BY <2>1, <2>2, <2>4, BackoffValues
  <2>5. CASE attempt = 2  BY <2>1, <2>2, <2>5, BackoffValues
  <2>6. CASE attempt = 3  BY <2>1, <2>2, <2>6, BackoffValues
  <2>7. CASE attempt = 4  BY <2>1, <2>2, <2>7, BackoffValues
  <2>8. CASE attempt = 5  BY <2>1, <2>2, <2>8, BackoffValues
  <2>9. CASE attempt = 6  BY <2>1, <2>2, <2>9, BackoffValues
  <2>10. QED  BY <2>1, <2>3, <2>4, <2>5, <2>6, <2>7, <2>8, <2>9
<1>2. QED  BY <1>1, ConnectionInvariant, PTL

=============================================================================
