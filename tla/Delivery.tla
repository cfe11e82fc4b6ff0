------------------------------ MODULE Delivery ------------------------------
(***************************************************************************)
(* The process from its start (api/index.rs) to the events it takes from   *)
(* Kafka: the checks and connections of the start, the consumer and its    *)
(* offsets (src/graph/consumer.rs), a task for each event, what a task     *)
(* publishes, and a process that is stopped and started again.             *)
(*                                                                         *)
(* A task's work on the stores is the subject of IngestPipeline and        *)
(* EmbeddingCallback.  The calls of fast-fetcher of all chunks of an       *)
(* answer are one here.                                                    *)
(***************************************************************************)
EXTENDS ChunkPublisher, Sequences, FiniteSets, FiniteSetsExt

CONSTANTS
    Environments,      \* what the variables of the environment set up
    HealthAttempts,    \* attempts of check_kafka_health (60)
    ProducerAttempts,  \* attempts of create_producer (30)
    Partitions,        \* those of the two topics the consumer subscribes to
    Logs,              \* bound: per partition the messages in it, see Kind
    MaxLosses,         \* bound: times the process or its partitions are lost
    None

Environment == [database : BOOLEAN, falkordb : BOOLEAN, kafka : BOOLEAN]
Kind == {"file", "answer", "other", "unreadable"}

ASSUME DeliveryAssumption ==
    /\ Environments \subseteq Environment
    /\ Logs \subseteq [Partitions -> Seq(Kind)]
    /\ HealthAttempts \in Nat \ {0} /\ ProducerAttempts \in Nat \ {0}
    /\ MaxLosses \in Nat
    /\ Tasks \subseteq Nat /\ None \notin Partitions \X Nat

VARIABLES
    env,
    phase,      \* of the start
    attempts,   \* of the loop the start is in
    producer,   \* whether the processor has a producer
    log,        \* partition |-> the kinds of its messages
    sent,       \* partition |-> how many of them are in it
    consumer,   \* "none", "starting" or "subscribed"
    position,   \* partition |-> messages handed out: the offset stored
    committed,  \* partition |-> the group's committed offset
    held,       \* the message the consumer's loop has been handed, or None
    tasks,      \* task |-> the message it handles and where it is
    skipped,    \* history: messages read and dropped
    losses, crashes

startVars == <<env, phase, attempts, producer>>
logVars == <<log, sent>>
offsetVars == <<consumer, position, committed, held, skipped>>
lossVars == <<losses, crashes>>
vars == <<startVars, logVars, offsetVars, tasks, publishes, lossVars>>

Message == Partitions \X Nat

Init ==
    /\ env \in Environments
    /\ phase = "down" /\ attempts = 0 /\ producer = FALSE
    /\ log \in Logs /\ sent = [p \in Partitions |-> 0]
    /\ consumer = "none" /\ position = sent /\ committed = sent /\ held = None
    /\ tasks = [t \in Tasks |-> [msg |-> None, pc |-> "unused"]]
    /\ PublisherInit
    /\ skipped = {} /\ losses = 0 /\ crashes = 0

-----------------------------------------------------------------------------
(* The start.                                                              *)

Starts(p) ==
    /\ phase' = p
    /\ attempts' = 0
    /\ UNCHANGED <<env, logVars, offsetVars, tasks, publishes, lossVars>>

(* A process without the addresses of its stores has the defaults of the   *)
(* configuration, and ends; so does one that cannot bind its port.         *)
Configure_Defaults ==
    /\ phase = "down"
    /\ Starts("health") /\ UNCHANGED producer
Configure ==
    /\ phase = "down"
    /\ \/ env.database /\ env.falkordb /\ Starts("health")
       \/ Starts("exited")
    /\ UNCHANGED producer

(* check_kafka_health: after the last attempt a warning is logged. *)
CheckKafka ==
    /\ phase = "health"
    /\ \/ env.kafka /\ Starts("pools")
       \/ /\ attempts + 1 < HealthAttempts
          /\ attempts' = attempts + 1
          /\ UNCHANGED <<env, phase, logVars, offsetVars, tasks, publishes, lossVars>>
       \/ attempts + 1 = HealthAttempts /\ Starts("pools")
    /\ UNCHANGED producer

(* FalkorDB's pool is lazy, and its smoke test only warns; Postgres must   *)
(* answer.                                                                 *)
OpenPools ==
    /\ phase = "pools"
    /\ Starts("producer") \/ Starts("exited")
    /\ UNCHANGED producer

(* create_producer: without Kafka's address, or after its last attempt,    *)
(* the processor is without a producer for as long as it lives.            *)
CreateProducer ==
    /\ phase = "producer"
    /\ \/ env.kafka /\ Starts("ready") /\ producer' = TRUE
       \/ /\ env.kafka /\ attempts + 1 < ProducerAttempts
          /\ attempts' = attempts + 1
          /\ UNCHANGED <<env, phase, producer, logVars, offsetVars, tasks, publishes,
                         lossVars>>
       \/ /\ ~env.kafka \/ attempts + 1 = ProducerAttempts
          /\ Starts("ready") /\ producer' = FALSE

(* The consumer is a task of its own and does not wait for the server. *)
SpawnConsumer ==
    /\ phase = "ready" /\ consumer = "none"
    /\ consumer' = "starting"
    /\ UNCHANGED <<startVars, logVars, position, committed, held, skipped, tasks,
                   publishes, lossVars>>

Serve ==
    /\ phase = "ready" /\ consumer # "none"
    /\ Starts("serving") /\ UNCHANGED producer

-----------------------------------------------------------------------------
(* The consumer.                                                           *)

Produce(p) ==
    /\ sent[p] < Len(log[p])
    /\ sent' = [sent EXCEPT ![p] = @ + 1]
    /\ UNCHANGED <<startVars, log, offsetVars, tasks, publishes, lossVars>>

(* Where a consumer begins: at the group's committed offsets, or at the    *)
(* earliest message if there is none.  A failed start is tried again after *)
(* 5 s.                                                                    *)
Begins_Next == [p \in Partitions |-> committed[p] + 1]
Begins_Latest == [p \in Partitions |-> IF committed[p] = 0 THEN sent[p] ELSE committed[p]]
Begins == committed

Subscribe ==
    /\ consumer = "starting"
    /\ consumer' = "subscribed"
    /\ position' = Begins
    /\ UNCHANGED <<startVars, logVars, committed, held, skipped, tasks, publishes, lossVars>>

(* The partitions are lost and come back; tasks run on, and the loop goes  *)
(* on with what it was handed.                                             *)
Reassign ==
    /\ consumer = "subscribed" /\ losses < MaxLosses
    /\ position' = Begins
    /\ losses' = losses + 1
    /\ UNCHANGED <<startVars, logVars, consumer, committed, held, skipped, tasks,
                   publishes, crashes>>

Arrived_Readable(p, m) == m <= sent[p] /\ log[p][m] # "unreadable"
Arrived(p, m) == m <= sent[p]

(* stream.next() returns a message: from then on the client's own thread   *)
(* may commit its offset (enable.auto.offset.store).                       *)
HandOut(p) ==
    LET m == position[p] + 1
    IN  /\ consumer = "subscribed" /\ env.kafka
        /\ held = None
        /\ Arrived(p, m)
        /\ position' = [position EXCEPT ![p] = m]
        /\ held' = <<p, m>>
        /\ UNCHANGED <<startVars, logVars, consumer, committed, skipped, tasks,
                       publishes, lossVars>>

Unreadable(msg) == log[msg[1]][msg[2]] = "unreadable"
Unused == {t \in Tasks : tasks[t].pc = "unused"}

(* The loop looks at what it was handed: an empty payload, or one that is  *)
(* not JSON, is logged; any other message gets a task of its own.          *)
Dispatch ==
    /\ consumer = "subscribed" /\ held # None
    /\ held' = None
    /\ \/ Unreadable(held) /\ skipped' = skipped \cup {held} /\ UNCHANGED tasks
       \/ /\ ~Unreadable(held) /\ Unused # {}
          /\ tasks' = [tasks EXCEPT ![Min(Unused)] = [msg |-> held, pc |-> "handling"]]
          /\ UNCHANGED skipped
    /\ UNCHANGED <<startVars, logVars, consumer, position, committed, publishes, lossVars>>

(* Every 5 s, whatever the loop and the tasks have come to. *)
AutoCommit ==
    /\ consumer = "subscribed" /\ env.kafka
    /\ committed # position
    /\ committed' = position
    /\ UNCHANGED <<startVars, logVars, consumer, position, held, skipped, tasks,
                   publishes, lossVars>>

-----------------------------------------------------------------------------
(* A task.  Whether a file has chunks to publish, whether an answer's      *)
(* chunks are found, and whether the work meets an error, is left open.    *)

Ended == {"done", "failed", "lost"}
Running(t) == tasks[t].pc \in {"handling", "publishing", "fetching"}
Moves(t, pc) == tasks' = [tasks EXCEPT ![t].pc = pc]
KindOf(t) == log[tasks[t].msg[1]][tasks[t].msg[2]]

Handle(t) ==
    /\ tasks[t].pc = "handling"
    /\ \/ /\ KindOf(t) = "file"
          /\ Moves(t, "publishing") /\ BeginPublish(t, producer)
       \/ KindOf(t) = "answer" /\ Moves(t, "fetching") /\ UNCHANGED publishes
       \/ Moves(t, "done") /\ UNCHANGED publishes
       \/ /\ KindOf(t) \in {"file", "answer"}
          /\ Moves(t, "failed") /\ UNCHANGED publishes
    /\ UNCHANGED <<startVars, logVars, offsetVars, lossVars>>

Publishes(t) ==
    /\ tasks[t].pc = "publishing"
    /\ PublisherStep(t)
    /\ UNCHANGED <<startVars, logVars, offsetVars, tasks, lossVars>>

Published_Ok == {"skipped", "ok"}
Published == {"skipped", "ok", "error"}

(* The error of a publish is logged; then the metadata row is written. *)
EndFile(t) ==
    /\ tasks[t].pc = "publishing"
    /\ publishes[t].pc \in Published
    /\ Moves(t, "done") \/ Moves(t, "failed")
    /\ UNCHANGED <<startVars, logVars, offsetVars, publishes, lossVars>>

(* fast-fetcher answers, or its call fails, which is logged: the call has  *)
(* no timeout.                                                             *)
FetcherAnswers(t) ==
    /\ tasks[t].pc = "fetching"
    /\ Moves(t, "done")
    /\ UNCHANGED <<startVars, logVars, offsetVars, publishes, lossVars>>

(* The process stops, and its platform starts it again. *)
Crash ==
    /\ phase \notin {"down", "exited"} /\ losses < MaxLosses
    /\ phase' = "down" /\ attempts' = 0 /\ producer' = FALSE
    /\ consumer' = "none" /\ held' = None
    /\ position' = [p \in Partitions |-> 0]
    /\ tasks' = [t \in Tasks |->
                   IF Running(t) THEN [tasks[t] EXCEPT !.pc = "lost"] ELSE tasks[t]]
    /\ StopPublishing
    /\ losses' = losses + 1 /\ crashes' = crashes + 1
    /\ UNCHANGED <<env, logVars, committed, skipped>>

StartStep ==
    Configure \/ CheckKafka \/ OpenPools \/ CreateProducer \/ SpawnConsumer \/ Serve
TaskStep(t) == Handle(t) \/ Publishes(t) \/ EndFile(t)

Next ==
    \/ StartStep
    \/ \E p \in Partitions : Produce(p) \/ HandOut(p)
    \/ Subscribe \/ Reassign \/ Dispatch \/ AutoCommit
    \/ \E t \in Tasks : TaskStep(t) \/ FetcherAnswers(t)
    \/ Crash

(* The process runs what it has to run; a loop of the start that has        *)
(* attempts left goes on.  Nothing makes messages, commits or the answers   *)
(* of fast-fetcher come.                                                    *)
Fairness ==
    /\ WF_vars(StartStep) /\ WF_vars(Subscribe)
    /\ WF_vars(\E p \in Partitions : HandOut(p)) /\ WF_vars(Dispatch)
    /\ \A t \in Tasks : WF_vars(TaskStep(t))
Spec == Init /\ [][Next]_vars /\ Fairness

-----------------------------------------------------------------------------
(* Every variable has its type; offsets do not pass each other.            *)
TypeOK ==
    /\ PublisherTypeOK
    /\ env \in Environments
    /\ phase \in {"down", "health", "pools", "producer", "ready", "serving", "exited"}
    /\ attempts \in Nat /\ producer \in BOOLEAN
    /\ log \in Logs /\ sent \in [Partitions -> Nat]
    /\ consumer \in {"none", "starting", "subscribed"}
    /\ position \in [Partitions -> Nat] /\ committed \in [Partitions -> Nat]
    /\ \A p \in Partitions :
          position[p] <= sent[p] /\ committed[p] <= sent[p] /\ sent[p] <= Len(log[p])
    /\ held \in Message \cup {None}
    /\ tasks \in [Tasks -> [msg : Message \cup {None},
                            pc : {"unused", "handling", "publishing", "fetching"} \cup Ended]]
    /\ skipped \in SUBSET Message
    /\ losses \in 0..MaxLosses /\ crashes \in 0..losses

Taken(msg) ==
    msg \in skipped \/ \E t \in Tasks : tasks[t].pc # "unused" /\ tasks[t].msg = msg

(* Offsets are committed by a timer that knows nothing of the tasks, and   *)
(* from the moment a message is handed to the loop.  Of what is committed, *)
(* all but the message in hand was taken, and one message for each time    *)
(* the process has ended: a restart skips no others.                       *)
UpTo(offsets) == UNION {{p} \X (1..offsets[p]) : p \in Partitions}
CommittedWereTaken ==
    Cardinality({msg \in UpTo(committed) : ~Taken(msg) /\ msg # held}) <= crashes

(* A task runs only in a process to which its stores were named and whose  *)
(* start has come to its end, and none outlives its process.               *)
TasksHaveProcessor ==
    \A t \in Tasks : Running(t) =>
        /\ phase \in {"ready", "serving"} /\ consumer = "subscribed"
        /\ env.database /\ env.falkordb

(* While the consumer stays subscribed, every message whose offset is not  *)
(* committed is taken, whatever comes before it and whatever hangs in the  *)
(* tasks.                                                                  *)
MessagesTaken ==
    \A msg \in UNION {{p} \X DOMAIN l[p] : p \in Partitions, l \in Logs} :
        (/\ msg[2] <= sent[msg[1]] /\ msg[2] > committed[msg[1]]
         /\ consumer = "subscribed" /\ env.kafka)
            ~> (Taken(msg) \/ consumer # "subscribed")

(* A task ends, however often its sends fail, or is lost with its process, *)
(* unless it waits for fast-fetcher for ever.                              *)
TasksEnd ==
    \A t \in Tasks :
        tasks[t].pc # "unused" ~> (tasks[t].pc \in Ended \/ [](tasks[t].pc = "fetching"))
=============================================================================
