---------------------------- MODULE HttpGateway ----------------------------
(***************************************************************************)
(* The HTTP side of the service: the middleware a request goes through, in *)
(* the order of build_app_router (src/core/routes.rs), the handlers, and   *)
(* the file_metadata table they share with the Kafka consumer.             *)
(*                                                                         *)
(* What process_file does to the graph, the snapshots and Kafka is the     *)
(* subject of IngestPipeline, graph sync that of SourceGraph; its errors   *)
(* are logged there, so only the table's errors reach an answer.           *)
(***************************************************************************)
EXTENDS RateLimiter, Sequences, SequencesExt

CONSTANTS
    Calls,        \* requests clients make, see Call
    Tokens,       \* bearer tokens and API keys
    InternalKey,  \* INTERNAL_API_KEY
    Users,
    UserOf,       \* token |-> the user auth-middleware knows by it, or None
    Files,        \* source and file
    MaxAge,       \* 300 s
    MaxDeletions  \* bound: file deletions from Kafka

Routes == {"analyze", "batch", "metrics", "languages", "sync", "status", "health"}
File == [source : STRING, file : STRING]
Upload == [of : Files, user : Users \cup {None}]
Call ==
    [route : Routes, sent : Nat \cup {None},
     authorization : Tokens \cup {"basic", None}, api_key : Tokens \cup {None},
     user : Users \cup {None},  \* of the x-user-id header
     source : STRING, uploads : Seq(Upload)]

(* The limiter counts per user and path.  A metrics request has one file,  *)
(* which is processed under a name of its own.                             *)
ASSUME GatewayAssumption ==
    /\ Files \subseteq File
    /\ Calls \subseteq Call
    /\ {"system"} \subseteq Users /\ None \notin Users
    /\ InternalKey \in Tokens
    /\ UserOf \in [Tokens -> Users \cup {None}]
    /\ Keys = [client : Users, path : Routes]
    /\ \A c \in Calls : c.route = "metrics" =>
          /\ Len(c.uploads) = 1
          /\ [source |-> "metrics-request", file |-> c.uploads[1].of.file] \in Files
    /\ MaxAge \in Nat /\ MaxDeletions \in Nat

VARIABLES
    jobs,    \* request |-> its call, its age on arrival, where it is, its user, results
    rows,    \* file_metadata: file |-> user_id of its row, None without a row
    wrote,   \* history: files with the users they were processed for
    erased,  \* history: files whose row was deleted
    deletions

gatewayVars == <<jobs, rows, wrote, erased, deletions>>
vars == <<limiterVars, gatewayVars>>

NoAnswer == [status |-> 0, success |-> FALSE, files |-> {}]
Idle == [pc |-> "idle", call |-> None, age |-> 0, user |-> None,
         results |-> <<>>, answer |-> NoAnswer]

Init ==
    /\ LimiterInit
    /\ jobs = [r \in Requests |-> Idle]
    /\ rows = [x \in Files |-> None]
    /\ wrote = {} /\ erased = {} /\ deletions = 0

call(r) == jobs[r].call
Goes(r, pc) == jobs' = [jobs EXCEPT ![r].pc = pc]
Answers(r, answer) == jobs' = [jobs EXCEPT ![r].pc = "answered", ![r].answer = answer]
Answer(status, success, files) == [status |-> status, success |-> success, files |-> files]
Status(status) == Answer(status, FALSE, {})

-----------------------------------------------------------------------------
(* Middleware.                                                             *)

Distance(a, b) == IF a > b THEN a - b ELSE b - a

(* The timestamp is optional; only a call that has one can be stale. *)
Age(c) == IF c.sent = None THEN 0 ELSE Distance(clock, c.sent)
Stale(c) == Age(c) > MaxAge

(* zero_trust_middleware comes first, and leaves /health alone. *)
Arrive(r, c) ==
    /\ jobs[r].pc = "idle"
    /\ LET job == [Idle EXCEPT !.call = c, !.age = Age(c)]
       IN  jobs' = [jobs EXCEPT ![r] =
             CASE c.route = "health" ->
                    [job EXCEPT !.pc = "answered", !.answer = Answer(200, TRUE, {})]
               [] c.route # "health" /\ Stale(c) ->
                    [job EXCEPT !.pc = "answered", !.answer = Status(400)]
               [] OTHER -> [job EXCEPT !.pc = "auth"]]
    /\ UNCHANGED <<limiterVars, rows, wrote, erased, deletions>>

(* With an Authorization header the API key is not looked at. *)
Credential_KeyFirst(c) == IF c.api_key # None THEN c.api_key ELSE c.authorization
Credential(c) == IF c.authorization # None THEN c.authorization ELSE c.api_key

Authenticated(r, user) ==
    jobs' = [jobs EXCEPT ![r].pc = "limit", ![r].user = user]

CheckCredential(r) ==
    /\ jobs[r].pc = "auth"
    /\ LET credential == Credential(call(r))
       IN  \/ /\ credential \notin Tokens
              /\ Answers(r, Status(401))
           \/ /\ credential = InternalKey
              /\ Authenticated(r, "system")
           \/ /\ credential \in Tokens \ {InternalKey}
              /\ Goes(r, "asking")
    /\ UNCHANGED <<limiterVars, rows, wrote, erased, deletions>>

(* auth-middleware's answer. *)
AuthAnswer_Unchecked(r) ==
    /\ jobs[r].pc = "asking"
    /\ Authenticated(r, UserOf[Credential(call(r))])
    /\ UNCHANGED <<limiterVars, rows, wrote, erased, deletions>>
AuthAnswer(r) ==
    /\ jobs[r].pc = "asking"
    /\ LET user == UserOf[Credential(call(r))]
       IN  IF user # None THEN Authenticated(r, user) ELSE Answers(r, Status(401))
    /\ UNCHANGED <<limiterVars, rows, wrote, erased, deletions>>

(* No answer within the client's 5 s, or one that is an error. *)
AuthTimeout_Never(r) == FALSE
AuthTimeout(r) ==
    /\ jobs[r].pc = "asking"
    /\ Answers(r, Status(401))
    /\ UNCHANGED <<limiterVars, rows, wrote, erased, deletions>>

(* The path of a status also has its source; calls name one source each. *)
Key(c, user) == [client |-> user, path |-> c.route]

StartsLimit(r) ==
    /\ jobs[r].pc = "limit"
    /\ ReadClock(r, Key(call(r), jobs[r].user))
    /\ UNCHANGED gatewayVars

(* A refused request is answered, an admitted one goes to its handler. *)
PassesLimit(r) ==
    /\ jobs[r].pc = "limit"
    /\ Count(r)
    /\ IF r \in admitted' THEN Goes(r, "handler") ELSE Answers(r, Status(429))
    /\ UNCHANGED <<rows, wrote, erased, deletions>>

-----------------------------------------------------------------------------
(* Handlers.                                                               *)

(* get_code_metrics processes the file as one of its own. *)
Uploads(c) ==
    IF c.route = "metrics"
    THEN <<[of |-> [source |-> "metrics-request", file |-> c.uploads[1].of.file],
            user |-> "system"]>>
    ELSE c.uploads

(* store_file_metadata: the row of a file keeps its first user. *)
Registered_LastUser(table, u) == [table EXCEPT ![u.of] = u.user]
Registered(table, u) == [table EXCEPT ![u.of] = IF @ = None THEN u.user ELSE @]

IsUpload(c) == c.route \in {"analyze", "batch", "metrics"}
(* The reply of a write that took effect may be lost. *)
Processes(r, ok, took) ==
    LET u == Uploads(call(r))[Len(jobs[r].results) + 1]
    IN  /\ jobs[r].pc = "handler" /\ IsUpload(call(r))
        /\ Len(jobs[r].results) < Len(Uploads(call(r)))
        /\ ok => took
        /\ took => u.user # None
        /\ rows' = IF took THEN Registered(rows, u) ELSE rows
        /\ wrote' = IF took THEN wrote \cup {<<u.of, u.user>>} ELSE wrote
        /\ jobs' = [jobs EXCEPT ![r].results = Append(@, ok)]
        /\ UNCHANGED <<limiterVars, erased, deletions>>

Success_Some(results) == results = <<>> \/ Contains(results, TRUE)
Success(results) == ~Contains(results, FALSE)

Uploaded(r) ==
    /\ jobs[r].pc = "handler" /\ IsUpload(call(r))
    /\ Len(jobs[r].results) = Len(Uploads(call(r)))
    /\ Answers(r, Answer(200, Success(jobs[r].results), {}))
    /\ UNCHANGED <<limiterVars, rows, wrote, erased, deletions>>

Listed(source, user) == {x \in Files : x.source = source /\ rows[x] = user}

(* The user of a status is the one that the x-user-id header names, which  *)
(* need not be the one who was authenticated.                              *)
AnswersStatus(r) ==
    LET c == call(r)
    IN  /\ jobs[r].pc = "handler" /\ c.route = "status"
        /\ \/ c.user = None /\ Answers(r, Status(401))
           \/ c.user # None /\ Answers(r, Answer(200, TRUE, Listed(c.source, c.user)))
           \/ c.user # None /\ Answers(r, Status(500))
        /\ UNCHANGED <<limiterVars, rows, wrote, erased, deletions>>

AnswersOther(r) ==
    /\ jobs[r].pc = "handler"
    /\ \/ call(r).route = "languages" /\ Answers(r, Answer(200, TRUE, {}))
       \/ call(r).route = "sync" /\ \E ok \in BOOLEAN : Answers(r, Answer(200, ok, {}))
    /\ UNCHANGED <<limiterVars, rows, wrote, erased, deletions>>

(* A deletion from Kafka removes a file's row whoever's it is. *)
DeleteFile(x) ==
    /\ rows[x] # None /\ deletions < MaxDeletions
    /\ rows' = [rows EXCEPT ![x] = None]
    /\ erased' = erased \cup {x}
    /\ deletions' = deletions + 1
    /\ UNCHANGED <<limiterVars, jobs, wrote>>

Handles(r) ==
    \/ \E ok, took \in BOOLEAN : Processes(r, ok, took)
    \/ Uploaded(r) \/ AnswersStatus(r) \/ AnswersOther(r)

Proceeds(r) ==
    CheckCredential(r) \/ AuthTimeout(r) \/ StartsLimit(r) \/ PassesLimit(r) \/ Handles(r)

Next ==
    \/ Tick /\ UNCHANGED gatewayVars
    \/ \E r \in Requests :
         \/ \E c \in Calls : Arrive(r, c)
         \/ Proceeds(r) \/ AuthAnswer(r)
    \/ \E x \in Files : DeleteFile(x)

(* A request's task runs, and the client of auth-middleware has a timeout; *)
(* auth-middleware itself may never answer.                                *)
Fairness == \A r \in Requests : WF_vars(Proceeds(r))
Spec == Init /\ [][Next]_vars /\ Fairness

-----------------------------------------------------------------------------
PCs == {"idle", "auth", "asking", "limit", "handler", "answered"}
Job ==
    [pc : PCs, call : Calls \cup {None}, age : Nat,
     user : Users \cup {None}, results : Seq(BOOLEAN),
     answer : [status : {0, 200, 400, 401, 429, 500}, success : BOOLEAN, files : SUBSET Files]]

(* Every variable has its type, and a request that is past authentication  *)
(* has a user.                                                             *)
TypeOK ==
    /\ LimiterTypeOK
    /\ jobs \in [Requests -> Job]
    /\ \A r \in Requests : jobs[r].pc \in {"limit", "handler"} => jobs[r].user # None
    /\ rows \in [Files -> Users \cup {None}]
    /\ wrote \in SUBSET (Files \X Users)
    /\ erased \in SUBSET Files
    /\ deletions \in 0..MaxDeletions

(* Who may be taken for whom: the service's own key, or a token that       *)
(* auth-middleware knows, and with an Authorization header only that.      *)
Vouched(c, user) ==
    LET token == IF c.authorization # None THEN c.authorization ELSE c.api_key
    IN  /\ token \in Tokens
        /\ user = IF token = InternalKey THEN "system" ELSE UserOf[token]

(* A request that reaches its handler has gone through every layer before  *)
(* it: it was sent within MaxAge of its arrival if it says when, and it is *)
(* the user's its credential vouches for, as is its share of the limit.    *)
HandledWereCleared ==
    \A r \in admitted :
        LET c == call(r)
        IN  /\ jobs[r].age <= MaxAge
            /\ jobs[r].user # None /\ Vouched(c, jobs[r].user)
            /\ timed[r].key = Key(c, jobs[r].user)

(* A file that a status counts was processed for the user its header names *)
(* and stays that user's: whoever processes it later, it is in the status  *)
(* of no other user until it is deleted.                                   *)
CountedStayTheirs ==
    \A r \in Requests : \A x \in jobs[r].answer.files :
        /\ <<x, call(r).user>> \in wrote
        /\ rows[x] = call(r).user \/ x \in erased

(* An upload that is answered with success has every file registered,      *)
(* unless a deletion from Kafka came in between; and a batch is answered   *)
(* for all of its files.                                                   *)
SuccessMeansRegistered ==
    \A r \in Requests :
        (jobs[r].pc = "answered" /\ jobs[r].answer.success /\ IsUpload(call(r))) =>
            \A i \in DOMAIN Uploads(call(r)) :
                LET u == Uploads(call(r))[i]
                IN  <<u.of, u.user>> \in wrote /\ (rows[u.of] # None \/ u.of \in erased)

(* A request is answered, even when auth-middleware never answers.         *)
RequestsAnswered ==
    \A r \in Requests : jobs[r].pc # "idle" ~> jobs[r].pc = "answered"
=============================================================================
