--------------------------- MODULE DeliveryProofs ---------------------------
(***************************************************************************)
(* Proofs about ChunkPublisher and about Delivery, which runs it once per  *)
(* task: for any logs, environments, numbers of attempts and retries, and  *)
(* losses of the process or its partition.                                 *)
(***************************************************************************)
EXTENDS Delivery, WellFoundedInduction, FiniteSetTheorems, TLAPS

-----------------------------------------------------------------------------
(* ChunkPublisher, for any tasks and any numbers of attempts and retries.  *)

Batch == [pc : {"idle", "skipped", "send", "envelope", "ok", "error", "cut"},
          attempt : Nat, try : Nat, failed : Nat, copies : Nat, envelopes : Nat]

(* What is so between two sends: the place in the loops counts the sends,  *)
(* all of which failed, and each earlier attempt left at most one envelope.*)
Between(p) ==
    /\ p \in Batch
    /\ p.attempt \in 1..MaxAttempts
    /\ p.copies <= p.failed
    /\ p.envelopes * Retries <= (p.attempt - 1) * Retries

Sending(p) == Between(p) /\ p.try < Retries /\ p.failed = (p.attempt - 1) * Retries + p.try
Spent(p) == Between(p) /\ p.failed = p.attempt * Retries

Bounded(p) ==
    /\ p.failed <= MaxAttempts * Retries
    /\ p.copies <= MaxAttempts * Retries
    /\ p.envelopes * Retries <= p.failed

True(p) ==
    /\ p.pc = "ok" => p.copies > 0
    /\ p.pc = "error" => p.failed = MaxAttempts * Retries

Sound(p) ==
    /\ p \in Batch
    /\ p.pc = "idle" => p = Idle
    /\ p.pc = "send" => Sending(p)
    /\ p.pc = "envelope" => Spent(p)
    /\ Bounded(p) /\ True(p)

PublisherInv == publishes \in [Tasks -> Batch] /\ \A t \in Tasks : Sound(publishes[t])

-----------------------------------------------------------------------------
LEMMA TimesNat == \A x, y \in Nat : x * y \in Nat
OBVIOUS

LEMMA TimesMonotone == ASSUME NEW x \in Nat, NEW y \in Nat, NEW z \in Nat, x <= y PROVE x * z <= y * z
OBVIOUS

LEMMA TimesPlusOne == \A x, z \in Nat : (x + 1) * z = x * z + z
OBVIOUS

LEMMA AttemptTimes ==
    ASSUME NEW p, Between(p)
    PROVE  /\ p.attempt \in Nat /\ p.attempt - 1 \in Nat /\ Retries \in Nat \ {0}
           /\ p.attempt * Retries \in Nat /\ (p.attempt - 1) * Retries \in Nat
           /\ p.envelopes * Retries \in Nat /\ MaxAttempts * Retries \in Nat
           /\ p.attempt * Retries = (p.attempt - 1) * Retries + Retries
           /\ p.attempt * Retries <= MaxAttempts * Retries
<1>1. /\ p.attempt \in Nat /\ p.attempt - 1 \in Nat /\ Retries \in Nat \ {0}
      /\ MaxAttempts \in Nat /\ p.attempt <= MaxAttempts /\ p.envelopes \in Nat
  BY PublisherAssumption DEF Between, Batch
<1>2. p.attempt = (p.attempt - 1) + 1
  BY <1>1
<1>3. p.attempt * Retries = (p.attempt - 1) * Retries + Retries
  BY <1>1, <1>2, TimesPlusOne
<1>4. p.attempt * Retries <= MaxAttempts * Retries
  BY <1>1, TimesMonotone
<1> QED
  BY <1>1, <1>3, <1>4, TimesNat

LEMMA SetAttempt ==
    ASSUME NEW p \in Batch, NEW v \in Nat
    PROVE  [p EXCEPT !.attempt = v] \in Batch
BY DEF Batch

LEMMA SetTry ==
    ASSUME NEW p \in Batch, NEW v \in Nat
    PROVE  [p EXCEPT !.try = v] \in Batch
BY DEF Batch

LEMMA SetFailed ==
    ASSUME NEW p \in Batch, NEW v \in Nat
    PROVE  [p EXCEPT !.failed = v] \in Batch
BY DEF Batch

LEMMA SetCopies ==
    ASSUME NEW p \in Batch, NEW v \in Nat
    PROVE  [p EXCEPT !.copies = v] \in Batch
BY DEF Batch

LEMMA NextAttemptSound ==
    ASSUME NEW p \in Batch, p.attempt \in 1..MaxAttempts, p.copies <= p.failed,
           p.failed = p.attempt * Retries, p.envelopes * Retries <= p.attempt * Retries
    PROVE  Sound(NextAttempt(p)) /\ NextAttempt(p).pc \in {"send", "error"}
<1>1. Retries \in Nat \ {0} /\ MaxAttempts \in Nat \ {0} /\ p.attempt \in Nat
  BY PublisherAssumption DEF Batch
<1>2. /\ p.attempt * Retries \in Nat /\ MaxAttempts * Retries \in Nat
      /\ p.envelopes * Retries \in Nat
  BY <1>1, TimesNat DEF Batch
<1>3. p.attempt * Retries <= MaxAttempts * Retries
  BY <1>1, TimesMonotone
<1>4. CASE p.attempt < MaxAttempts
  <2> DEFINE n == [p EXCEPT !.pc = "send", !.attempt = @ + 1, !.try = 0]
  <2>a. n \in Batch
    <3> DEFINE a == [p EXCEPT !.pc = "send"]
               b == [a EXCEPT !.attempt = p.attempt + 1]
               c == [b EXCEPT !.try = 0]
    <3>1. a \in Batch
      BY DEF Batch
    <3>2. b \in Batch
      <4> HIDE DEF a
      <4> QED
        BY <3>1, <1>1, SetAttempt
    <3>3. c \in Batch
      <4> HIDE DEF b
      <4> QED
        BY <3>2, SetTry
    <3>4. c = n
      BY DEF Batch
    <3> QED
      BY <3>3, <3>4
  <2>1. /\ n \in Batch /\ n.pc = "send" /\ n.attempt = p.attempt + 1 /\ n.try = 0
        /\ n.failed = p.failed /\ n.copies = p.copies /\ n.envelopes = p.envelopes
    BY <1>1, <2>a DEF Batch
  <2>2. n.attempt - 1 = p.attempt
    BY <2>1, <1>1
  <2>3. NextAttempt(p) = n
    BY <1>4 DEF NextAttempt
  <2> HIDE DEF n
  <2>4. n.attempt \in 1..MaxAttempts /\ (n.attempt - 1) * Retries = p.attempt * Retries
    BY <2>1, <2>2, <1>1, <1>4
  <2>5. Between(n)
    BY <2>1, <2>4 DEF Between
  <2>6. Sending(n)
    BY <2>1, <2>4, <2>5, <1>1, <1>2 DEF Sending
  <2>7. Bounded(n)
    BY <2>1, <1>2, <1>3 DEF Bounded, Batch
  <2> QED
    BY <2>1, <2>3, <2>6, <2>7 DEF Sound, True
<1>5. CASE ~(p.attempt < MaxAttempts)
  <2> DEFINE n == [p EXCEPT !.pc = "error"]
  <2>1. /\ n \in Batch /\ n.pc = "error"
        /\ n.failed = p.failed /\ n.copies = p.copies /\ n.envelopes = p.envelopes
    BY DEF Batch
  <2>2. NextAttempt(p) = n
    BY <1>5 DEF NextAttempt
  <2> HIDE DEF n
  <2>3. p.attempt = MaxAttempts
    BY <1>1, <1>5
  <2>4. Bounded(n) /\ True(n)
    BY <2>1, <2>3, <1>2, <1>3 DEF Bounded, True, Batch
  <2> QED
    BY <2>1, <2>2, <2>4 DEF Sound
<1> QED
  BY <1>4, <1>5

LEMMA SendTakenSound ==
    ASSUME NEW p, Sound(p), p.pc = "send" PROVE Sound(SendTaken(p))
<1> DEFINE n == [p EXCEPT !.pc = "ok", !.copies = @ + 1]
<1>1. p \in Batch /\ Sending(p) /\ Between(p)
  BY DEF Sound, Sending
<1>a. n \in Batch
  <2> DEFINE a == [p EXCEPT !.pc = "ok"]
             b == [a EXCEPT !.copies = p.copies + 1]
  <2>1. a \in Batch /\ p.copies + 1 \in Nat
    BY <1>1 DEF Batch
  <2>2. b \in Batch
    <3> HIDE DEF a
    <3> QED
      BY <2>1, SetCopies
  <2>3. b = n
    BY <1>1 DEF Batch
  <2> QED
    BY <2>2, <2>3
<1>2. /\ n \in Batch /\ n.pc = "ok" /\ n.copies = p.copies + 1
      /\ n.failed = p.failed /\ n.envelopes = p.envelopes
  BY <1>1, <1>a DEF Batch
<1>3. SendTaken(p) = n
  BY DEF SendTaken
<1> HIDE DEF n
<1>4. p.failed + 1 <= MaxAttempts * Retries /\ p.envelopes * Retries <= p.failed
  BY <1>1, AttemptTimes DEF Sending, Between, Batch
<1>5. Bounded(n) /\ True(n)
  BY <1>1, <1>2, <1>4, AttemptTimes DEF Bounded, True, Between, Batch
<1> QED
  BY <1>2, <1>3, <1>5 DEF Sound

LEMMA SendFailedSound ==
    ASSUME NEW p, Sound(p), p.pc = "send", NEW arrived \in {0, 1}
    PROVE  Sound(SendFailed([p EXCEPT !.copies = @ + arrived, !.failed = @ + 1, !.try = @ + 1]))
<1> DEFINE n == [p EXCEPT !.copies = @ + arrived, !.failed = @ + 1, !.try = @ + 1]
<1>1. p \in Batch /\ Sending(p) /\ Between(p)
  BY DEF Sound, Sending
<1>a. n \in Batch
  <2> DEFINE a == [p EXCEPT !.copies = p.copies + arrived]
             b == [a EXCEPT !.failed = p.failed + 1]
             c == [b EXCEPT !.try = p.try + 1]
  <2>0. p.copies + arrived \in Nat /\ p.failed + 1 \in Nat /\ p.try + 1 \in Nat
    BY <1>1 DEF Batch
  <2>1. a \in Batch
    BY <1>1, <2>0, SetCopies
  <2>2. b \in Batch
    <3> HIDE DEF a
    <3> QED
      BY <2>0, <2>1, SetFailed
  <2>3. c \in Batch
    <3> HIDE DEF b
    <3> QED
      BY <2>0, <2>2, SetTry
  <2>4. c = n
    BY <1>1 DEF Batch
  <2> QED
    BY <2>3, <2>4
<1>2. /\ n \in Batch /\ n.pc = "send" /\ n.copies = p.copies + arrived
      /\ n.failed = p.failed + 1 /\ n.try = p.try + 1
      /\ n.attempt = p.attempt /\ n.envelopes = p.envelopes
  BY <1>1, <1>a DEF Batch
<1>3. n = [p EXCEPT !.copies = @ + arrived, !.failed = @ + 1, !.try = @ + 1]
  OBVIOUS
<1> HIDE DEF n
<1>4. Between(n)
  BY <1>1, <1>2 DEF Between, Batch
<1>5. n.failed = (n.attempt - 1) * Retries + n.try /\ n.try <= Retries
  BY <1>1, <1>2, AttemptTimes DEF Sending, Batch
<1>6. Bounded(n)
  BY <1>4, <1>5, AttemptTimes DEF Bounded, Between, Batch
<1>7. ASSUME n.try < Retries PROVE Sound(SendFailed(n))
  <2>1. SendFailed(n) = n
    BY <1>7 DEF SendFailed
  <2> QED
    BY <1>2, <1>4, <1>5, <1>6, <1>7, <2>1 DEF Sound, Sending, True
<1>8. ASSUME ~(n.try < Retries) PROVE Sound(SendFailed(n))
  <2>1. n.failed = n.attempt * Retries
    BY <1>4, <1>5, <1>8, AttemptTimes DEF Between, Batch
  <2>2. CASE DeadLetters
    <3> DEFINE e == [n EXCEPT !.pc = "envelope"]
    <3>1. SendFailed(n) = e
      BY <1>8, <2>2 DEF SendFailed
    <3>2. /\ e \in Batch /\ e.pc = "envelope" /\ e.attempt = n.attempt
          /\ e.failed = n.failed /\ e.copies = n.copies /\ e.envelopes = n.envelopes
      BY <1>2 DEF Batch
    <3> HIDE DEF e
    <3>3. Spent(e)
      BY <3>2, <2>1, <1>4 DEF Spent, Between
    <3>4. Bounded(e)
      BY <3>2, <1>6 DEF Bounded
    <3> QED
      BY <3>1, <3>2, <3>3, <3>4 DEF Sound, True
  <2>3. CASE ~DeadLetters
    <3>1. SendFailed(n) = NextAttempt(n)
      BY <1>8, <2>3 DEF SendFailed
    <3>2. n.envelopes * Retries <= n.attempt * Retries
      BY <1>4, AttemptTimes DEF Between
    <3>3. n \in Batch /\ n.attempt \in 1..MaxAttempts /\ n.copies <= n.failed
      BY <1>4 DEF Between
    <3> QED
      BY <3>1, <3>2, <3>3, <2>1, NextAttemptSound
  <2> QED
    BY <2>2, <2>3
<1> QED
  BY <1>3, <1>7, <1>8

LEMMA EnvelopeSound ==
    ASSUME NEW p, Sound(p), p.pc = "envelope", NEW arrived \in {0, 1}
    PROVE  Sound(NextAttempt([p EXCEPT !.envelopes = @ + arrived]))
<1> DEFINE n == [p EXCEPT !.envelopes = @ + arrived]
<1>1. p \in Batch /\ Spent(p) /\ Between(p)
  BY DEF Sound, Spent
<1>2. /\ n \in Batch /\ n.attempt = p.attempt /\ n.failed = p.failed
      /\ n.copies = p.copies /\ n.envelopes = p.envelopes + arrived
  BY <1>1 DEF Batch
<1>3. n.envelopes * Retries <= p.envelopes * Retries + Retries
  <2>1. p.envelopes \in Nat /\ Retries \in Nat
    BY <1>1, AttemptTimes DEF Batch
  <2>2. (p.envelopes + 1) * Retries = p.envelopes * Retries + Retries
    BY <2>1, TimesPlusOne
  <2>3. n.envelopes \in Nat /\ n.envelopes <= p.envelopes + 1
    BY <1>2, <2>1
  <2> QED
    BY <2>1, <2>2, <2>3, TimesMonotone
<1>4. n.envelopes * Retries <= p.attempt * Retries
  <2>1. n.envelopes * Retries \in Nat
    BY <1>1, <1>2, AttemptTimes, TimesNat DEF Batch
  <2> QED
    BY <2>1, <1>1, <1>3, AttemptTimes DEF Between
<1>5. n.attempt \in 1..MaxAttempts /\ n.copies <= n.failed /\ n.failed = n.attempt * Retries
  BY <1>1, <1>2 DEF Spent, Between
<1> HIDE DEF n
<1>6. Sound(NextAttempt(n))
  BY <1>2, <1>4, <1>5, NextAttemptSound
<1> QED
  BY <1>6 DEF n

-----------------------------------------------------------------------------
LEMMA IdleSound == Sound(Idle) /\ Idle.pc = "idle"
<1>1. Retries \in Nat /\ MaxAttempts \in Nat
  BY PublisherAssumption
<1>2. 0 * Retries = 0 /\ MaxAttempts * Retries \in Nat
  BY <1>1, TimesNat
<1> QED
  BY <1>2 DEF Sound, Idle, Batch, Bounded, True

LEMMA SetBatch ==
    ASSUME PublisherInv, NEW t \in Tasks, NEW p, Sound(p),
           publishes' = [publishes EXCEPT ![t] = p]
    PROVE  PublisherInv'
BY DEF PublisherInv, Sound

LEMMA BeginSound ==
    ASSUME PublisherInv, NEW t \in Tasks, NEW has \in BOOLEAN, BeginPublish(t, has)
    PROVE  PublisherInv'
<1> DEFINE n == [publishes[t] EXCEPT !.pc = IF has THEN "send" ELSE "skipped"]
<1>1. publishes[t] = Idle
  BY DEF PublisherInv, Sound, BeginPublish
<1>2. /\ n \in Batch /\ n.pc \in {"send", "skipped"} /\ n.attempt = 1 /\ n.try = 0
      /\ n.failed = 0 /\ n.copies = 0 /\ n.envelopes = 0
  BY <1>1 DEF Idle, Batch
<1>3. publishes' = [publishes EXCEPT ![t] = n]
  BY DEF BeginPublish
<1> HIDE DEF n
<1>4. /\ Retries \in Nat \ {0} /\ MaxAttempts \in Nat \ {0}
      /\ 0 * Retries = 0 /\ MaxAttempts * Retries \in Nat /\ n.attempt - 1 = 0
  BY <1>2, PublisherAssumption, TimesNat
<1>5. Between(n) /\ Sending(n) /\ Bounded(n)
  BY <1>2, <1>4 DEF Between, Sending, Bounded
<1>6. Sound(n)
  BY <1>2, <1>5 DEF Sound, True
<1> QED
  BY <1>3, <1>6, SetBatch

LEMMA StepSound ==
    ASSUME PublisherInv, NEW t \in Tasks, PublisherStep(t) PROVE PublisherInv'
<1>1. Sound(publishes[t])
  BY DEF PublisherInv
<1>2. CASE Send(t)
  <2>1. CASE publishes' = [publishes EXCEPT ![t] = SendTaken(publishes[t])]
    BY <1>1, <1>2, <2>1, SendTakenSound, SetBatch DEF Send
  <2>2. ASSUME NEW arrived \in {0, 1},
               publishes' = [publishes EXCEPT ![t] =
                 SendFailed([publishes[t] EXCEPT !.copies = @ + arrived,
                                                 !.failed = @ + 1, !.try = @ + 1])]
        PROVE  PublisherInv'
    BY <1>1, <1>2, <2>2, SendFailedSound, SetBatch DEF Send
  <2> QED
    BY <1>2, <2>1, <2>2 DEF Send
<1>3. CASE SendEnvelope(t)
  BY <1>1, <1>3, EnvelopeSound, SetBatch DEF SendEnvelope
<1> QED
  BY <1>2, <1>3 DEF PublisherStep

LEMMA StopSound == PublisherInv /\ StopPublishing => PublisherInv'
<1> SUFFICES ASSUME PublisherInv, StopPublishing PROVE PublisherInv'
  OBVIOUS
<1>1. ASSUME NEW t \in Tasks PROVE Sound(publishes'[t])
  <2>1. Sound(publishes[t])
    BY DEF PublisherInv
  <2>2. CASE publishes[t].pc \notin {"send", "envelope"}
    BY <2>1, <2>2 DEF StopPublishing
  <2>3. CASE publishes[t].pc \in {"send", "envelope"}
    <3> DEFINE n == [publishes[t] EXCEPT !.pc = "cut"]
    <3>1. publishes'[t] = n
      BY <2>3 DEF StopPublishing
    <3>2. /\ n \in Batch /\ n.pc = "cut" /\ n.failed = publishes[t].failed
          /\ n.copies = publishes[t].copies /\ n.envelopes = publishes[t].envelopes
      BY <2>1 DEF Sound, Batch
    <3> HIDE DEF n
    <3>3. Bounded(n)
      BY <2>1, <3>2 DEF Sound, Bounded
    <3> QED
      BY <3>1, <3>2, <3>3 DEF Sound, True
  <2> QED
    BY <2>2, <2>3
<1>2. publishes' = [t \in Tasks |-> publishes'[t]]
  BY DEF StopPublishing
<1>3. \A t \in Tasks : publishes'[t] \in Batch
  BY <1>1 DEF Sound
<1> QED
  BY <1>1, <1>2, <1>3 DEF PublisherInv

LEMMA InitSound == PublisherInit => PublisherInv
BY IdleSound DEF PublisherInit, PublisherInv, Sound

LEMMA NextSound == PublisherInv /\ [PublisherNext]_publishes => PublisherInv'
<1> SUFFICES ASSUME PublisherInv, [PublisherNext]_publishes PROVE PublisherInv'
  OBVIOUS
<1>1. ASSUME NEW t \in Tasks, PublisherStep(t) PROVE PublisherInv'
  BY <1>1, StepSound
<1>2. ASSUME NEW t \in Tasks, NEW has \in BOOLEAN, BeginPublish(t, has)
      PROVE  PublisherInv'
  BY <1>2, BeginSound
<1>3. CASE StopPublishing
  BY <1>3, StopSound
<1>4. CASE UNCHANGED publishes
  BY <1>4 DEF PublisherInv
<1> QED
  BY <1>1, <1>2, <1>3, <1>4 DEF PublisherNext

(* The two retry loops together never send a batch more than MaxAttempts   *)
(* times Retries times, nor an envelope for fewer than Retries failures    *)
(* (publish_chunks, publish_with_retry).                                   *)
THEOREM SpecRetriesBounded == PublisherSpec => []RetriesBounded
<1>1. PublisherInv => RetriesBounded
  BY DEF PublisherInv, Sound, Bounded, RetriesBounded
<1> QED
  BY InitSound, NextSound, <1>1, PTL DEF PublisherSpec

(* The result of publish_chunks is true to what happened to its sends.     *)
THEOREM SpecResultIsTrue == PublisherSpec => []ResultIsTrue
<1>1. PublisherInv => ResultIsTrue
  BY DEF PublisherInv, Sound, True, ResultIsTrue
<1> QED
  BY InitSound, NextSound, <1>1, PTL DEF PublisherSpec

-----------------------------------------------------------------------------
(* Delivery.                                                               *)

(* A task for a message is the least that is unused.                        *)
LEMMA MinIn ==
    ASSUME NEW S, S \subseteq Nat, S # {} PROVE Min(S) \in S
<1>1. PICK x \in S : \A y \in S : ~ (<<y, x>> \in OpToRel(<, Nat))
  BY Zenon, WFMin, NatLessThanWellFounded
<1>2. \A y \in S : ~ (y < x)
  BY <1>1 DEF OpToRel
<1>3. \A y \in S : x =< y
  BY <1>2
<1> QED
  BY <1>3 DEF Min

LEMMA UnusedTask == Unused # {} => Min(Unused) \in Tasks /\ tasks[Min(Unused)].pc = "unused"
<1>1. Unused \subseteq Nat
  BY DeliveryAssumption DEF Unused
<1> QED
  BY <1>1, MinIn DEF Unused

-----------------------------------------------------------------------------
(* Types.  A task's message and place, by name.                            *)

PCs == {"unused", "handling", "publishing", "fetching"} \cup Ended
Work == [msg : Message \cup {None}, pc : PCs]

StartOK ==
    /\ env \in Environments
    /\ phase \in {"down", "health", "pools", "producer", "ready", "serving", "exited"}
    /\ attempts \in Nat /\ producer \in BOOLEAN
OffsetsOK ==
    /\ log \in Logs /\ sent \in [Partitions -> Nat]
    /\ consumer \in {"none", "starting", "subscribed"}
    /\ position \in [Partitions -> Nat] /\ committed \in [Partitions -> Nat]
    /\ \A p \in Partitions :
          position[p] <= sent[p] /\ committed[p] <= sent[p] /\ sent[p] <= Len(log[p])
    /\ held \in Message \cup {None}
    /\ skipped \in SUBSET Message
    /\ losses \in 0..MaxLosses /\ crashes \in 0..losses
TasksOK == tasks \in [Tasks -> Work]
StateOK == StartOK /\ OffsetsOK /\ TasksOK

LEMMA TypeParts == TypeOK <=> PublisherTypeOK /\ StateOK
BY DEF TypeOK, StateOK, StartOK, OffsetsOK, TasksOK, Work, PCs

LEMMA WorkFields ==
    ASSUME NEW w \in Work, NEW p \in PCs
    PROVE  /\ [w EXCEPT !.pc = p] \in Work
           /\ [w EXCEPT !.pc = p].pc = p /\ [w EXCEPT !.pc = p].msg = w.msg
BY DEF Work

(* What a task does to the tasks.                                          *)
LEMMA MovesEffect ==
    ASSUME TasksOK, NEW t \in Tasks,
           NEW p \in PCs, Moves(t, p)
    PROVE  /\ tasks' \in [Tasks -> Work]
           /\ tasks'[t].pc = p /\ tasks'[t].msg = tasks[t].msg
           /\ \A q \in Tasks \ {t} : tasks'[q] = tasks[q]
<1> DEFINE w == [tasks[t] EXCEPT !.pc = p]
<1>1. tasks[t] \in Work /\ tasks' = [tasks EXCEPT ![t] = w]
  BY DEF TasksOK, Moves
<1>2. w \in Work /\ w.pc = p /\ w.msg = tasks[t].msg
  BY <1>1, WorkFields
<1> HIDE DEF w
<1> QED
  BY <1>1, <1>2 DEF TasksOK

LEMMA HandOutEffect ==
    ASSUME StateOK, NEW p \in Partitions, HandOut(p)
    PROVE  /\ position' = [position EXCEPT ![p] = position[p] + 1]
           /\ position[p] + 1 <= sent[p] /\ held = None /\ held' = <<p, position[p] + 1>>
           /\ UNCHANGED <<startVars, logVars, consumer, committed, skipped, tasks,
                          publishes, losses, crashes>>
BY DEF HandOut, Arrived, lossVars

LEMMA DispatchEffect ==
    ASSUME StateOK, Dispatch
    PROVE  /\ consumer = "subscribed" /\ held \in Message /\ held' = None
           /\ UNCHANGED <<startVars, logVars, consumer, position, committed, publishes,
                          losses, crashes>>
           /\ \/ skipped' = skipped \cup {held} /\ tasks' = tasks
              \/ /\ skipped' = skipped
                 /\ \E t \in Tasks :
                      /\ tasks[t].pc = "unused"
                      /\ tasks' = [tasks EXCEPT ![t] = [msg |-> held, pc |-> "handling"]]
<1>1. /\ consumer = "subscribed" /\ held' = None /\ held # None
      /\ UNCHANGED <<startVars, logVars, consumer, position, committed, publishes, losses,
                     crashes>>
  BY DEF Dispatch, lossVars
<1>2. held \in Message
  BY <1>1 DEF StateOK, OffsetsOK
<1>3. CASE skipped' = skipped \cup {held} /\ UNCHANGED tasks
  BY <1>1, <1>2, <1>3
<1>4. CASE /\ Unused # {} /\ UNCHANGED skipped
           /\ tasks' = [tasks EXCEPT ![Min(Unused)] = [msg |-> held, pc |-> "handling"]]
  BY <1>1, <1>2, <1>4, UnusedTask
<1> QED
  BY <1>3, <1>4 DEF Dispatch

(* A crash ends the tasks that run.                                        *)
LEMMA CrashEffect ==
    ASSUME StateOK, Crash
    PROVE  /\ tasks' \in [Tasks -> Work]
           /\ \A t \in Tasks :
                /\ ~ Running(t)' /\ tasks'[t].msg = tasks[t].msg
                /\ tasks[t].pc # "unused" <=> tasks'[t].pc # "unused"
<1>1. tasks \in [Tasks -> Work] /\ "lost" \in PCs
  BY DEF StateOK, TasksOK, Ended, PCs
<1>2. ASSUME NEW t \in Tasks
      PROVE  /\ tasks'[t] \in Work /\ tasks'[t].msg = tasks[t].msg
             /\ tasks'[t].pc \notin {"handling", "publishing", "fetching"}
             /\ tasks[t].pc # "unused" <=> tasks'[t].pc # "unused"
  <2>1. tasks'[t] = IF Running(t) THEN [tasks[t] EXCEPT !.pc = "lost"] ELSE tasks[t]
    BY DEF Crash
  <2>2. CASE Running(t)
    <3> DEFINE w == [tasks[t] EXCEPT !.pc = "lost"]
    <3>1. w \in Work /\ w.pc = "lost" /\ w.msg = tasks[t].msg
      BY <1>1, WorkFields
    <3> HIDE DEF w
    <3>2. tasks'[t] = w
      BY <2>1, <2>2 DEF w
    <3> QED
      BY <2>2, <3>1, <3>2 DEF Running
  <2>3. CASE ~ Running(t)
    BY <1>1, <2>1, <2>3 DEF Running
  <2> QED
    BY <2>2, <2>3
<1>3. tasks' \in [Tasks -> Work]
  <2>1. tasks' = [t \in Tasks |-> tasks'[t]]
    BY DEF Crash
  <2> QED
    BY <1>2, <2>1
<1> QED
  BY <1>2, <1>3 DEF Running

LEMMA TaskEffect ==
    ASSUME StateOK, NEW t \in Tasks, TaskStep(t) \/ FetcherAnswers(t)
    PROVE  /\ UNCHANGED <<startVars, logVars, offsetVars, lossVars>>
           /\ tasks' \in [Tasks -> Work]
           /\ \A q \in Tasks :
                /\ tasks'[q].msg = tasks[q].msg
                /\ tasks[q].pc # "unused" <=> tasks'[q].pc # "unused"
                /\ Running(q)' => Running(q)
<1>0. TasksOK
  BY DEF StateOK
<1>1. ASSUME NEW p \in {"publishing", "fetching", "done", "failed"}, Moves(t, p), Running(t)
      PROVE  /\ tasks' \in [Tasks -> Work]
             /\ \A q \in Tasks :
                  /\ tasks'[q].msg = tasks[q].msg
                  /\ tasks[q].pc # "unused" <=> tasks'[q].pc # "unused"
                  /\ Running(q)' => Running(q)
  <2>1. p \in PCs
    BY DEF Ended, PCs
  <2>2. /\ tasks' \in [Tasks -> Work]
        /\ tasks'[t].pc = p /\ tasks'[t].msg = tasks[t].msg
        /\ \A q \in Tasks \ {t} : tasks'[q] = tasks[q]
    BY <1>0, <1>1, <2>1, MovesEffect
  <2> QED
    BY <1>1, <2>2 DEF Running
<1>2. CASE Handle(t)
  BY <1>1, <1>2 DEF Handle, Running
<1>3. CASE Publishes(t)
  BY <1>0, <1>3 DEF Publishes, Running, TasksOK
<1>4. CASE EndFile(t)
  BY <1>1, <1>4 DEF EndFile, Running
<1>5. CASE FetcherAnswers(t)
  BY <1>1, <1>5 DEF FetcherAnswers, Running
<1> QED
  BY <1>2, <1>3, <1>4, <1>5 DEF TaskStep

LEMMA StartEffect ==
    ASSUME StateOK, StartStep
    PROVE  /\ StartOK'
           /\ UNCHANGED <<env, logVars, position, committed, held, skipped, tasks, lossVars, publishes>>
           /\ consumer' = consumer \/ (phase = "ready" /\ consumer' = "starting")
<1> USE DEF StateOK, StartOK
<1>1. CASE Configure
  BY <1>1 DEF Configure, Starts, offsetVars
<1>2. CASE CheckKafka
  BY <1>2 DEF CheckKafka, Starts, offsetVars
<1>3. CASE OpenPools
  BY <1>3 DEF OpenPools, Starts, offsetVars
<1>4. CASE CreateProducer
  <2>1. producer' \in BOOLEAN
    BY <1>4 DEF CreateProducer
  <2>2. CASE Starts("ready")
    BY <2>1, <2>2 DEF Starts, offsetVars
  <2>3. CASE /\ attempts' = attempts + 1
             /\ UNCHANGED <<env, phase, producer, logVars, offsetVars, tasks, publishes, lossVars>>
    BY <2>1, <2>3 DEF offsetVars
  <2> QED
    BY <1>4, <2>2, <2>3 DEF CreateProducer
<1>5. CASE SpawnConsumer
  BY <1>5 DEF SpawnConsumer, startVars
<1>6. CASE Serve
  BY <1>6 DEF Serve, Starts, offsetVars
<1> QED
  BY <1>1, <1>2, <1>3, <1>4, <1>5, <1>6 DEF StartStep

LEMMA InitStateOK == Init => StateOK
<1> SUFFICES ASSUME Init PROVE StateOK
  OBVIOUS
<1>1. StartOK
  BY DEF Init, StartOK
<1>2. OffsetsOK
  <2>1. /\ log \in Logs /\ \A p \in Partitions : Len(log[p]) \in Nat /\ 0 <= Len(log[p])
        /\ MaxLosses \in Nat
    BY DeliveryAssumption DEF Init
  <2> QED
    BY <2>1 DEF Init, OffsetsOK
<1>3. TasksOK
  BY DEF Init, TasksOK, Work, PCs
<1> QED
  BY <1>1, <1>2, <1>3 DEF StateOK

LEMMA NextStateOK == StateOK /\ [Next]_vars => StateOK'
<1> SUFFICES ASSUME StateOK, [Next]_vars PROVE StateOK'
  OBVIOUS
<1>0. /\ StartOK /\ OffsetsOK /\ TasksOK
      /\ losses \in Nat /\ MaxLosses \in Nat /\ crashes \in 0..losses
      /\ \A p \in Partitions : /\ sent[p] \in Nat /\ position[p] \in Nat
                               /\ committed[p] \in Nat /\ Len(log[p]) \in Nat
  BY DeliveryAssumption DEF StateOK, OffsetsOK
<1>1. ASSUME UNCHANGED startVars PROVE StartOK'
  BY <1>0, <1>1 DEF startVars, StartOK
<1>2. ASSUME UNCHANGED <<logVars, offsetVars, lossVars>> PROVE OffsetsOK'
  BY <1>0, <1>2 DEF logVars, offsetVars, lossVars, OffsetsOK
<1>3. ASSUME UNCHANGED tasks PROVE TasksOK'
  BY <1>0, <1>3 DEF TasksOK
<1>4. CASE StartStep
  <2>1. /\ StartOK'
        /\ UNCHANGED <<env, logVars, position, committed, held, skipped, tasks, lossVars>>
        /\ consumer' \in {"none", "starting", "subscribed"}
    BY <1>0, <1>4, StartEffect DEF OffsetsOK
  <2>2. OffsetsOK'
    BY <1>0, <2>1 DEF OffsetsOK, logVars, lossVars
  <2> QED
    BY <1>3, <2>1, <2>2 DEF StateOK
<1>5. ASSUME NEW p \in Partitions, Produce(p) PROVE StateOK'
  <2>1. /\ sent' = [sent EXCEPT ![p] = sent[p] + 1] /\ sent[p] < Len(log[p])
        /\ UNCHANGED <<startVars, log, offsetVars, tasks, lossVars>>
    BY <1>5 DEF Produce
  <2>2. /\ sent' \in [Partitions -> Nat]
        /\ \A q \in Partitions : sent[q] <= sent'[q] /\ sent'[q] <= Len(log[q])
    BY <1>0, <2>1 DEF OffsetsOK
  <2>3. /\ log' = log /\ consumer' = consumer /\ position' = position /\ committed' = committed
        /\ held' = held /\ skipped' = skipped /\ losses' = losses /\ crashes' = crashes
    BY <2>1 DEF offsetVars, lossVars
  <2>4. \A q \in Partitions : position[q] <= sent'[q] /\ committed[q] <= sent'[q]
    BY <1>0, <2>2 DEF OffsetsOK
  <2>5. OffsetsOK'
    BY <1>0, <2>2, <2>3, <2>4 DEF OffsetsOK
  <2> QED
    BY <1>1, <1>3, <2>1, <2>5 DEF StateOK
<1>6. CASE Subscribe \/ Reassign
  <2>1. /\ log' = log /\ sent' = sent /\ committed' = committed /\ skipped' = skipped
        /\ consumer' = "subscribed" /\ position' = committed /\ held' = held
        /\ crashes' = crashes
        /\ losses' = losses \/ (losses < MaxLosses /\ losses' = losses + 1)
    BY <1>6 DEF Subscribe, Reassign, Begins, logVars, lossVars
  <2>2. losses' \in 0..MaxLosses /\ crashes' \in 0..losses'
    BY <1>0, <2>1 DEF OffsetsOK
  <2>3. OffsetsOK'
    BY <1>0, <2>1, <2>2 DEF OffsetsOK
  <2> QED
    BY <1>1, <1>3, <1>6, <2>3 DEF Subscribe, Reassign, StateOK
<1>7. ASSUME NEW p \in Partitions, HandOut(p) PROVE StateOK'
  <2>1. /\ position' = [position EXCEPT ![p] = position[p] + 1]
        /\ position[p] + 1 <= sent[p] /\ held' = <<p, position[p] + 1>>
        /\ UNCHANGED <<startVars, logVars, consumer, committed, skipped, tasks,
                       publishes, losses, crashes>>
    BY <1>7, HandOutEffect
  <2>2. /\ position' \in [Partitions -> Nat] /\ held' \in Message
        /\ \A q \in Partitions : position'[q] <= sent[q]
    BY <1>0, <2>1 DEF OffsetsOK, Message
  <2>3. OffsetsOK'
    BY <1>0, <2>1, <2>2 DEF OffsetsOK, logVars
  <2> QED
    BY <1>1, <1>3, <2>1, <2>3 DEF StateOK
<1>8. CASE Dispatch
  <2>1. /\ held \in Message /\ held' = None
        /\ UNCHANGED <<startVars, logVars, consumer, position, committed, publishes, losses,
                       crashes>>
        /\ skipped' \in {skipped, skipped \cup {held}}
    BY <1>8, DispatchEffect
  <2>2. OffsetsOK'
    BY <1>0, <2>1 DEF OffsetsOK, logVars
  <2>3. ASSUME NEW t \in Tasks,
               tasks' = [tasks EXCEPT ![t] = [msg |-> held, pc |-> "handling"]]
        PROVE  TasksOK'
    <3>1. [msg |-> held, pc |-> "handling"] \in Work
      BY <2>1 DEF Work, PCs
    <3> QED
      BY <1>0, <2>3, <3>1 DEF TasksOK
  <2>4. TasksOK'
    BY <1>3, <1>8, <2>3, DispatchEffect
  <2> QED
    BY <1>1, <2>1, <2>2, <2>4 DEF StateOK
<1>9. CASE AutoCommit
  <2>1. OffsetsOK'
    BY <1>0, <1>9 DEF AutoCommit, OffsetsOK, logVars, lossVars
  <2> QED
    BY <1>1, <1>3, <1>9, <2>1 DEF AutoCommit, StateOK
<1>10. ASSUME NEW t \in Tasks, TaskStep(t) \/ FetcherAnswers(t) PROVE StateOK'
  <2>1. UNCHANGED <<startVars, logVars, offsetVars, lossVars>> /\ tasks' \in [Tasks -> Work]
    BY <1>10, TaskEffect
  <2> QED
    BY <1>1, <1>2, <2>1 DEF StateOK, TasksOK
<1>11. CASE Crash
  <2>1. StartOK'
    BY <1>0, <1>11 DEF Crash, StartOK
  <2>2. /\ log' = log /\ sent' = sent /\ committed' = committed /\ skipped' = skipped
        /\ consumer' = "none" /\ position' = [p \in Partitions |-> 0] /\ held' = None
        /\ losses < MaxLosses /\ losses' = losses + 1 /\ crashes' = crashes + 1
    BY <1>11 DEF Crash, logVars
  <2>3. /\ losses' \in 0..MaxLosses /\ crashes' \in 0..losses'
        /\ \A p \in Partitions : position'[p] <= sent[p]
    BY <1>0, <2>2 DEF OffsetsOK
  <2>4. OffsetsOK'
    BY <1>0, <2>2, <2>3 DEF OffsetsOK
  <2> QED
    BY <1>11, <2>1, <2>4, CrashEffect DEF StateOK, TasksOK
<1>12. CASE UNCHANGED vars
  BY <1>1, <1>2, <1>3, <1>12 DEF vars, StateOK
<1> QED
  BY <1>4, <1>5, <1>6, <1>7, <1>8, <1>9, <1>10, <1>11, <1>12 DEF Next

LEMMA SpecStateOK == Spec => []StateOK
BY InitStateOK, NextStateOK, PTL DEF Spec

-----------------------------------------------------------------------------
(* What the tasks do with their batches is what ChunkPublisher says.       *)

LEMMA PublisherMoves == StateOK /\ [Next]_vars => [PublisherNext]_publishes
<1> SUFFICES ASSUME StateOK, [Next]_vars PROVE [PublisherNext]_publishes
  OBVIOUS
<1>1. CASE StartStep
  BY <1>1, StartEffect
<1>2. CASE \/ \E p \in Partitions : Produce(p) \/ HandOut(p)
           \/ Subscribe \/ Reassign \/ Dispatch \/ AutoCommit
  BY <1>2 DEF Produce, HandOut, Subscribe, Reassign, Dispatch, AutoCommit
<1>3. ASSUME NEW t \in Tasks, TaskStep(t) \/ FetcherAnswers(t) PROVE [PublisherNext]_publishes
  <2>1. producer \in BOOLEAN
    BY DEF StateOK, StartOK
  <2>2. BeginPublish(t, producer) \/ PublisherStep(t) \/ UNCHANGED publishes
    BY <1>3 DEF TaskStep, Handle, Publishes, EndFile, FetcherAnswers
  <2> QED
    BY <2>1, <2>2 DEF PublisherNext
<1>4. CASE Crash
  BY <1>4 DEF Crash, PublisherNext
<1>5. CASE UNCHANGED vars
  BY <1>5 DEF vars
<1> QED
  BY <1>1, <1>2, <1>3, <1>4, <1>5 DEF Next

LEMMA DeliveryImplementsPublisher == Spec => PublisherSpec
<1>1. Init => PublisherInit
  BY DEF Init
<1> QED
  BY <1>1, SpecStateOK, PublisherMoves, PTL DEF Spec, PublisherSpec

(* Every variable keeps its type, whatever crashes and comes back.         *)
THEOREM DeliverySpecTypeOK == Spec => []TypeOK
<1>1. PublisherInv => PublisherTypeOK
  BY DEF PublisherInv, PublisherTypeOK, Batch
<1>2. PublisherSpec => []PublisherInv
  BY InitSound, NextSound, PTL DEF PublisherSpec
<1> QED
  BY <1>1, <1>2, SpecStateOK, DeliveryImplementsPublisher, TypeParts, PTL

(* A crash between the sends of a batch breaks no promise of the publisher: *)
(* the bounds and the result hold of every batch of the service.           *)
THEOREM DeliverySpecPublishes == Spec => [](RetriesBounded /\ ResultIsTrue)
BY DeliveryImplementsPublisher, SpecRetriesBounded, SpecResultIsTrue, PTL

-----------------------------------------------------------------------------
(* Offsets: what was handed out or committed, is not in hand and has not   *)
(* been taken was in hand when a process ended.                            *)

Pending == {msg \in UpTo(position) \cup UpTo(committed) : ~Taken(msg) /\ msg # held}
FewPending == IsFiniteSet(Pending) /\ Cardinality(Pending) <= crashes
OffsetsInv == StateOK /\ FewPending

LEMMA InUpTo ==
    ASSUME NEW o
    PROVE  \A msg : msg \in UpTo(o) <=>
                      \E p \in Partitions : \E n \in 1..o[p] : msg = <<p, n>>
BY DEF UpTo

LEMMA FewerPending ==
    ASSUME NEW S, NEW T, IsFiniteSet(S), T \subseteq S, NEW n \in Nat, Cardinality(S) <= n
    PROVE  IsFiniteSet(T) /\ Cardinality(T) <= n
<1>1. /\ IsFiniteSet(T) /\ Cardinality(T) <= Cardinality(S)
  BY FS_Subset
<1>2. Cardinality(S) \in Nat /\ Cardinality(T) \in Nat
  BY <1>1, FS_CardinalityType
<1> QED
  BY <1>1, <1>2

(* A message that was taken stays so: the history of the tasks is kept.    *)
LEMMA TakenStays ==
    ASSUME skipped \subseteq skipped',
           \A t \in Tasks : tasks[t].pc # "unused" =>
               tasks'[t].pc # "unused" /\ tasks'[t].msg = tasks[t].msg,
           NEW m, Taken(m)
    PROVE  Taken(m)'
BY DEF Taken

LEMMA NextFewPending == OffsetsInv /\ [Next]_vars => FewPending'
<1> SUFFICES ASSUME OffsetsInv, [Next]_vars PROVE FewPending'
  OBVIOUS
<1>0. /\ StateOK /\ FewPending /\ TasksOK /\ crashes \in Nat
      /\ position \in [Partitions -> Nat] /\ committed \in [Partitions -> Nat]
      /\ None \notin Message
  BY DeliveryAssumption DEF OffsetsInv, StateOK, OffsetsOK, Message
<1>1. ASSUME Pending' \subseteq Pending, crashes' = crashes PROVE FewPending'
  BY <1>0, <1>1, FewerPending DEF FewPending
<1>2. ASSUME position' \in {position, committed}, committed' \in {committed, position},
             held' = held, crashes' = crashes, skipped \subseteq skipped',
             \A t \in Tasks : tasks[t].pc # "unused" =>
                 tasks'[t].pc # "unused" /\ tasks'[t].msg = tasks[t].msg
      PROVE  FewPending'
  <2>1. \A m : Taken(m) => Taken(m)'
    BY <1>2, TakenStays
  <2>2. UpTo(position)' \cup UpTo(committed)' \subseteq UpTo(position) \cup UpTo(committed)
    BY <1>2 DEF UpTo
  <2>3. Pending' \subseteq Pending
    BY <1>2, <2>1, <2>2 DEF Pending
  <2> QED
    BY <1>1, <1>2, <2>3
<1>3. CASE StartStep
  BY <1>0, <1>2, <1>3, StartEffect DEF lossVars
<1>4. ASSUME NEW p \in Partitions, Produce(p) PROVE FewPending'
  BY <1>2, <1>4 DEF Produce, offsetVars, lossVars
<1>5. CASE Subscribe \/ Reassign \/ AutoCommit
  BY <1>2, <1>5 DEF Subscribe, Reassign, AutoCommit, Begins, lossVars
<1>6. ASSUME NEW p \in Partitions, HandOut(p) PROVE FewPending'
  <2>1. /\ position' = [position EXCEPT ![p] = position[p] + 1]
        /\ held = None /\ held' = <<p, position[p] + 1>>
        /\ UNCHANGED <<committed, skipped, tasks, crashes>>
    BY <1>0, <1>6, HandOutEffect
  <2>2. \A m : Taken(m) => Taken(m)'
    BY <2>1, TakenStays
  <2>3. ASSUME NEW msg \in Pending' PROVE msg \in Pending
    <3>1. ~Taken(msg) /\ msg # held' /\ msg \in UpTo(position') \cup UpTo(committed)
      BY <2>1, <2>2, <2>3 DEF Pending, UpTo
    <3>2. msg \in UpTo(position) \cup UpTo(committed)
      <4>1. CASE msg \in UpTo(committed)
        BY <4>1
      <4>2. CASE msg \in UpTo(position')
        <5> PICK q \in Partitions : \E n \in 1..position'[q] : msg = <<q, n>>
          BY <4>2, InUpTo
        <5>1. PICK n \in 1..position'[q] : msg = <<q, n>>
          OBVIOUS
        <5>2. n \in 1..position[q]
          BY <1>0, <2>1, <3>1, <5>1
        <5> QED
          BY <5>1, <5>2, InUpTo
      <4> QED
        BY <3>1, <4>1, <4>2
    <3>3. msg # None
      <4>1. msg \in Message
        BY <1>0, <3>2, InUpTo DEF Message
      <4> QED
        BY <1>0, <4>1
    <3> QED
      BY <2>1, <3>1, <3>2, <3>3 DEF Pending
  <2> QED
    BY <1>1, <2>1, <2>3
<1>7. CASE Dispatch
  <2>0. PICK k \in Message : k = held
    BY <1>0, <1>7, DispatchEffect
  <2>1. /\ UNCHANGED <<position, committed, crashes>>
        /\ skipped \subseteq skipped'
        /\ \A t \in Tasks : tasks[t].pc # "unused" =>
             tasks'[t].pc # "unused" /\ tasks'[t].msg = tasks[t].msg
        /\ Taken(k)'
    <3>0. /\ UNCHANGED <<position, committed, crashes>>
          /\ \/ skipped' = skipped \cup {k} /\ tasks' = tasks
             \/ /\ skipped' = skipped
                /\ \E t \in Tasks :
                     /\ tasks[t].pc = "unused"
                     /\ tasks' = [tasks EXCEPT ![t] = [msg |-> k, pc |-> "handling"]]
      BY <1>0, <1>7, <2>0, DispatchEffect
    <3>1. CASE skipped' = skipped \cup {k} /\ tasks' = tasks
      BY <3>0, <3>1 DEF Taken
    <3>2. ASSUME skipped' = skipped, NEW t \in Tasks, tasks[t].pc = "unused",
                 tasks' = [tasks EXCEPT ![t] = [msg |-> k, pc |-> "handling"]]
          PROVE  /\ \A q \in Tasks : tasks[q].pc # "unused" =>
                      tasks'[q].pc # "unused" /\ tasks'[q].msg = tasks[q].msg
                 /\ Taken(k)'
      <4>1. tasks'[t].pc = "handling" /\ tasks'[t].msg = k
        BY <1>0, <3>2 DEF TasksOK
      <4>2. \A q \in Tasks \ {t} : tasks'[q] = tasks[q]
        BY <1>0, <3>2 DEF TasksOK
      <4> QED
        BY <3>2, <4>1, <4>2 DEF Taken
    <3> QED
      BY <3>0, <3>1, <3>2
  <2>2. \A m : Taken(m) => Taken(m)'
    BY <2>1, TakenStays
  <2>3. UpTo(position)' = UpTo(position) /\ UpTo(committed)' = UpTo(committed)
    BY <2>1 DEF UpTo
  <2>4. Pending' \subseteq Pending
    BY <2>0, <2>1, <2>2, <2>3 DEF Pending
  <2> QED
    BY <1>1, <2>1, <2>4
<1>8. ASSUME NEW t \in Tasks, TaskStep(t) \/ FetcherAnswers(t) PROVE FewPending'
  BY <1>0, <1>2, <1>8, TaskEffect DEF offsetVars, lossVars
<1>9. CASE Crash
  <2>1. /\ position' = [p \in Partitions |-> 0] /\ committed' = committed /\ held' = None
        /\ skipped' = skipped /\ crashes' = crashes + 1
    BY <1>9 DEF Crash
  <2>2. \A m : Taken(m) => Taken(m)'
    BY <1>0, <1>9, <2>1, CrashEffect, TakenStays
  <2>3. UpTo(position)' = {} /\ UpTo(committed)' = UpTo(committed)
    BY <2>1 DEF UpTo
  <2>4. Pending' \subseteq Pending \cup {held}
    BY <2>2, <2>3 DEF Pending
  <2>5. /\ IsFiniteSet(Pending \cup {held})
        /\ Cardinality(Pending \cup {held}) <= crashes + 1
    <3>1. /\ IsFiniteSet(Pending) /\ Cardinality(Pending) \in Nat
          /\ Cardinality(Pending) <= crashes
      BY <1>0, FS_CardinalityType DEF FewPending
    <3>2. /\ IsFiniteSet(Pending \cup {held})
          /\ \/ Cardinality(Pending \cup {held}) = Cardinality(Pending)
             \/ Cardinality(Pending \cup {held}) = Cardinality(Pending) + 1
      BY <3>1, FS_AddElement
    <3> QED
      BY <1>0, <3>1, <3>2
  <2> QED
    BY <1>0, <2>1, <2>4, <2>5, FewerPending DEF FewPending
<1>10. CASE UNCHANGED vars
  BY <1>2, <1>10 DEF vars, offsetVars, lossVars
<1> QED
  BY <1>3, <1>4, <1>5, <1>6, <1>7, <1>8, <1>9, <1>10 DEF Next

(* Commits come from a timer and cover a message from the moment it is     *)
(* handed to the consumer's loop; the process may end between any two      *)
(* steps, and lost partitions make messages be read again.  Of all that is *)
(* committed, no more messages were never taken than processes have ended, *)
(* beside the one in hand.                                                 *)
THEOREM DeliverySpecCommittedWereTaken == Spec => []CommittedWereTaken
<1>1. Init => OffsetsInv
  <2> SUFFICES ASSUME Init PROVE FewPending
    BY InitStateOK DEF OffsetsInv
  <2>1. Pending = {} /\ crashes = 0
    BY DEF Init, Pending, UpTo
  <2> QED
    BY <2>1, FS_EmptySet DEF FewPending
<1>2. OffsetsInv /\ [Next]_vars => OffsetsInv'
  BY NextStateOK, NextFewPending DEF OffsetsInv
<1>3. OffsetsInv => CommittedWereTaken
  <2> SUFFICES ASSUME OffsetsInv PROVE CommittedWereTaken
    OBVIOUS
  <2> DEFINE untaken == {msg \in UpTo(committed) : ~Taken(msg) /\ msg # held}
  <2>1. untaken \subseteq Pending
    BY DEF Pending
  <2>2. crashes \in Nat
    BY DeliveryAssumption DEF OffsetsInv, StateOK, OffsetsOK
  <2> HIDE DEF untaken
  <2>3. Cardinality(untaken) <= crashes
    BY <2>1, <2>2, FewerPending DEF OffsetsInv, FewPending
  <2> QED
    BY <2>3 DEF untaken, CommittedWereTaken
<1> QED
  BY <1>1, <1>2, <1>3, PTL DEF Spec

-----------------------------------------------------------------------------
(* The process: what has been set up when a task runs.                     *)

StartedInOrder ==
    /\ phase \notin {"down", "exited"} => env.database /\ env.falkordb
    /\ consumer # "none" => phase \in {"ready", "serving"}
    /\ \A t \in Tasks : Running(t) => consumer = "subscribed"
ProcessInv == StateOK /\ StartedInOrder

LEMMA NextStartedInOrder == ProcessInv /\ [Next]_vars => StartedInOrder'
<1> SUFFICES ASSUME ProcessInv, [Next]_vars PROVE StartedInOrder'
  OBVIOUS
<1>0. StateOK /\ StartedInOrder /\ TasksOK
  BY DEF ProcessInv, StateOK
<1>1. ASSUME UNCHANGED <<startVars, consumer>>, \A t \in Tasks : Running(t)' => Running(t)
      PROVE  StartedInOrder'
  BY <1>0, <1>1 DEF startVars, StartedInOrder
<1>2. CASE StartStep
  <2>1. tasks' = tasks /\ env' = env
    BY <1>0, <1>2, StartEffect
  <2>2. consumer' = consumer \/ (consumer = "none" /\ phase = "ready")
    BY <1>2 DEF StartStep, Configure, CheckKafka, OpenPools, CreateProducer, SpawnConsumer,
                Serve, Starts, offsetVars
  <2>3. \A t \in Tasks : Running(t)' => consumer' = "subscribed"
    BY <1>0, <2>1, <2>2 DEF StartedInOrder, Running
  <2>4. phase' \notin {"down", "exited"} => env'.database /\ env'.falkordb
    <3>1. CASE Configure
      BY <2>1, <3>1 DEF Configure, Starts
    <3>2. CASE ~ Configure
      <4>1. phase \notin {"down", "exited"}
        BY <1>2, <3>2 DEF StartStep, CheckKafka, OpenPools, CreateProducer, SpawnConsumer, Serve
      <4> QED
        BY <1>0, <2>1, <4>1 DEF StartedInOrder
    <3> QED
      BY <3>1, <3>2
  <2>5. consumer' # "none" => phase' \in {"ready", "serving"}
    <3>1. CASE SpawnConsumer \/ Serve
      BY <3>1 DEF SpawnConsumer, Serve, Starts, startVars
    <3>2. CASE Configure \/ CheckKafka \/ OpenPools \/ CreateProducer
      <4>1. phase \notin {"ready", "serving"} /\ consumer' = consumer
        BY <3>2 DEF Configure, CheckKafka, OpenPools, CreateProducer, Starts, offsetVars
      <4> QED
        BY <1>0, <4>1 DEF StartedInOrder
    <3> QED
      BY <1>2, <3>1, <3>2 DEF StartStep
  <2> QED
    BY <2>3, <2>4, <2>5 DEF StartedInOrder
<1>3. CASE \/ \E p \in Partitions : Produce(p) \/ HandOut(p)
           \/ AutoCommit \/ Reassign
  BY <1>1, <1>3 DEF Produce, HandOut, AutoCommit, Reassign, offsetVars, Running
<1>4. CASE Subscribe
  BY <1>0, <1>4 DEF Subscribe, StartedInOrder, Running, startVars
<1>5. CASE Dispatch
  <2>1. consumer = "subscribed" /\ consumer' = consumer /\ UNCHANGED startVars
    BY <1>0, <1>5, DispatchEffect
  <2> QED
    BY <1>0, <2>1 DEF StartedInOrder, startVars
<1>6. ASSUME NEW t \in Tasks, TaskStep(t) \/ FetcherAnswers(t) PROVE StartedInOrder'
  BY <1>0, <1>1, <1>6, TaskEffect DEF offsetVars
<1>7. CASE Crash
  <2>1. \A t \in Tasks : ~ Running(t)'
    BY <1>0, <1>7, CrashEffect
  <2> QED
    BY <1>7, <2>1 DEF Crash, StartedInOrder
<1>8. CASE UNCHANGED vars
  BY <1>1, <1>8 DEF vars, offsetVars, Running
<1> QED
  BY <1>2, <1>3, <1>4, <1>5, <1>6, <1>7, <1>8 DEF Next

(* A task runs only in a process that was given its stores and whose start *)
(* came to its end, and no task outlives its process.                      *)
THEOREM DeliverySpecTasksHaveProcessor == Spec => []TasksHaveProcessor
<1>1. Init => ProcessInv
  <2>1. Init => StartedInOrder
    BY DEF Init, StartedInOrder, Running
  <2> QED
    BY <2>1, InitStateOK DEF ProcessInv
<1>2. ProcessInv /\ [Next]_vars => ProcessInv'
  BY NextStateOK, NextStartedInOrder DEF ProcessInv
<1>3. ProcessInv => TasksHaveProcessor
  BY DEF ProcessInv, StartedInOrder, TasksHaveProcessor
<1> QED
  BY <1>1, <1>2, <1>3, PTL DEF Spec
=============================================================================
