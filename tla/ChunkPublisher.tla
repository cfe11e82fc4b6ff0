--------------------------- MODULE ChunkPublisher ---------------------------
(***************************************************************************)
(* ChunkEventPublisher::publish_chunks and EventProducer::                 *)
(* publish_with_retry (src/infra/events/producer.rs): one batch of chunks  *)
(* is sent up to Retries times, then an envelope goes to the dead letter   *)
(* queue, and all of that is tried up to MaxAttempts times.  A send that   *)
(* is reported as failed may have reached the broker all the same.         *)
(***************************************************************************)
EXTENDS Integers

CONSTANTS
    Tasks,
    MaxAttempts,  \* max_publish_attempts (3)
    Retries,      \* retries of publish_with_retry (2)
    DeadLetters   \* whether KAFKA_DLQ_TOPIC is set

ASSUME PublisherAssumption ==
    MaxAttempts \in Nat \ {0} /\ Retries \in Nat \ {0} /\ DeadLetters \in BOOLEAN

VARIABLE publishes  \* task |-> its batch on the way to the broker

Idle == [pc |-> "idle", attempt |-> 1, try |-> 0, failed |-> 0, copies |-> 0, envelopes |-> 0]

PublisherInit == publishes = [t \in Tasks |-> Idle]

(* Without a producer publish_chunks returns Ok and sends nothing. *)
BeginPublish(t, producer) ==
    /\ publishes[t].pc = "idle"
    /\ publishes' = [publishes EXCEPT ![t].pc = IF producer THEN "send" ELSE "skipped"]

(* What publish_chunks does when publish_with_retry has returned Err. *)
NextAttempt_Extra(p) ==
    IF p.attempt <= MaxAttempts
    THEN [p EXCEPT !.pc = "send", !.attempt = @ + 1, !.try = 0]
    ELSE [p EXCEPT !.pc = "error"]
NextAttempt(p) ==
    IF p.attempt < MaxAttempts
    THEN [p EXCEPT !.pc = "send", !.attempt = @ + 1, !.try = 0]
    ELSE [p EXCEPT !.pc = "error"]

SendFailed_Once(p) ==
    IF DeadLetters THEN [p EXCEPT !.pc = "envelope"] ELSE NextAttempt(p)
SendFailed(p) ==
    IF p.try < Retries THEN p
    ELSE IF DeadLetters THEN [p EXCEPT !.pc = "envelope"]
    ELSE NextAttempt(p)

SendTaken(p) == [p EXCEPT !.pc = "ok", !.copies = @ + 1]

Send(t) ==
    LET p == publishes[t]
    IN  /\ p.pc = "send"
        /\ \/ publishes' = [publishes EXCEPT ![t] = SendTaken(p)]
           \/ \E arrived \in {0, 1} :
                publishes' = [publishes EXCEPT ![t] =
                  SendFailed([p EXCEPT !.copies = @ + arrived, !.failed = @ + 1, !.try = @ + 1])]

(* The outcome of sending the envelope is only logged. *)
SendEnvelope(t) ==
    LET p == publishes[t]
    IN  /\ p.pc = "envelope"
        /\ \E arrived \in {0, 1} :
             publishes' = [publishes EXCEPT ![t] =
               NextAttempt([p EXCEPT !.envelopes = @ + arrived])]

(* The process ends. *)
StopPublishing ==
    publishes' = [t \in Tasks |->
        IF publishes[t].pc \in {"send", "envelope"}
        THEN [publishes[t] EXCEPT !.pc = "cut"] ELSE publishes[t]]

PublisherStep(t) == Send(t) \/ SendEnvelope(t)

PublisherNext ==
    \/ \E t \in Tasks :
         PublisherStep(t) \/ \E producer \in BOOLEAN : BeginPublish(t, producer)
    \/ StopPublishing

PublisherSpec == PublisherInit /\ [][PublisherNext]_publishes

-----------------------------------------------------------------------------
PublisherTypeOK ==
    publishes \in [Tasks ->
        [pc : {"idle", "skipped", "send", "envelope", "ok", "error", "cut"},
         attempt : Nat, try : Nat, failed : Nat, copies : Nat, envelopes : Nat]]

(* Two loops retry the same batch: it is sent at most MaxAttempts times    *)
(* Retries times, so the broker never holds more copies, and an envelope   *)
(* stands for Retries sends of its own that were reported as failed.       *)
RetriesBounded ==
    \A t \in Tasks :
        LET p == publishes[t]
        IN  /\ p.failed <= MaxAttempts * Retries
            /\ p.copies <= MaxAttempts * Retries
            /\ p.envelopes * Retries <= p.failed

(* publish_chunks' result: Ok with a producer means that the broker has    *)
(* the batch, Err that every one of the sends was reported as failed.      *)
ResultIsTrue ==
    \A t \in Tasks :
        /\ publishes[t].pc = "ok" => publishes[t].copies > 0
        /\ publishes[t].pc = "error" => publishes[t].failed = MaxAttempts * Retries
=============================================================================
