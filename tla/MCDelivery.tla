----------------------------- MODULE MCDelivery -----------------------------
(***************************************************************************)
(* An instance of Delivery for TLC: a complete environment, one without    *)
(* Kafka and one without a store; a file behind a message that cannot be   *)
(* read, or an answer in one topic beside another event in the other.      *)
(***************************************************************************)
EXTENDS Delivery, TLC

MCTasks == 1..4
MCEnvironments ==
    {[database |-> TRUE, falkordb |-> TRUE, kafka |-> k] : k \in BOOLEAN}
        \cup {[database |-> TRUE, falkordb |-> FALSE, kafka |-> TRUE]}

Log(repo, embedding) == [p \in {"repo_events", "embedding_generated"} |->
                            IF p = "repo_events" THEN repo ELSE embedding]
MCLogs ==
    {Log(<<"unreadable", "file">>, <<>>), Log(<<"other">>, <<"answer">>)}
=============================================================================
