------------------------------- MODULE MCHttp -------------------------------
(***************************************************************************)
(* An instance of HttpGateway for TLC: two users with a token each, the    *)
(* internal key and an unknown token; two files of a source.  A status     *)
(* names another user than the one who is authenticated.                   *)
(***************************************************************************)
EXTENDS HttpGateway, TLC

CONSTANTS r1, r2, ann, bob

MCRequests == {r1, r2}
MCUsers == {"system", ann, bob}
MCTokens == {"internal", "ann", "bob", "unknown"}
MCUserOf ==
    "ann" :> ann @@ "bob" :> bob @@ "internal" :> None @@ "unknown" :> None

MCKeys == [client : MCUsers, path : Routes]
MCLimit == [k \in MCKeys |-> IF k.path = "analyze" THEN 1 ELSE 2]

X == [source |-> "s", file |-> "x"]
Y == [source |-> "s", file |-> "y"]
MCFiles == {X, Y, [source |-> "metrics-request", file |-> "x"]}

MCCall(route, token, user, uploads) ==
    [route |-> route, sent |-> None, authorization |-> token, api_key |-> None,
     user |-> user, source |-> "s", uploads |-> uploads]
For(x, user) == [of |-> x, user |-> user]
Analyze(token, x, user) == MCCall("analyze", token, None, <<For(x, user)>>)

MCCalls ==
    {Analyze("ann", X, ann),
     MCCall("batch", "bob", None, <<For(Y, ann), For(Y, bob)>>),
     MCCall("batch", "ann", None, <<For(Y, ann), For(X, None)>>),
     MCCall("status", "bob", ann, <<>>), MCCall("status", "internal", None, <<>>),
     MCCall("metrics", "internal", None, <<For(X, None)>>),
     MCCall("sync", "basic", None, <<>>), MCCall("health", None, None, <<>>),
     [MCCall("sync", None, None, <<>>) EXCEPT !.api_key = "bob"],
     [MCCall("languages", None, None, <<>>) EXCEPT !.api_key = "bob", !.sent = 2],
     [MCCall("languages", "unknown", None, <<>>) EXCEPT !.api_key = "ann"]}
=============================================================================
