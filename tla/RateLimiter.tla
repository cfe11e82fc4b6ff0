---------------------------- MODULE RateLimiter ----------------------------
(***************************************************************************)
(* The rate limiter of the HTTP routes (src/infra/middleware/              *)
(* rate_limiting.rs).  A request reads the wall clock, and then takes the  *)
(* lock of its client and path's counter; another request may take it      *)
(* between the two steps, and the wall clock may be set back.              *)
(***************************************************************************)
EXTENDS Integers, FiniteSets

CONSTANTS
    Requests,
    Keys,     \* clients and paths
    Limit,    \* requests of a key in a window
    Window,   \* window_secs
    MaxTime,  \* bound of the clock
    None

ASSUME LimiterAssumption ==
    /\ Limit \in [Keys -> Nat]
    /\ Window \in Nat \ {0}
    /\ MaxTime \in Nat
    /\ None \notin [key : Keys, at : 0..MaxTime]

VARIABLES
    clock,
    timed,     \* request |-> its key and the time it read
    counters,  \* key |-> the requests whose times are kept
    admitted,
    refused,
    late       \* history: counted after a request of their key with a later time

limiterVars == <<clock, timed, counters, admitted, refused, late>>

LimiterInit ==
    /\ clock = 0
    /\ timed = [r \in Requests |-> None]
    /\ counters = [k \in Keys |-> {}]
    /\ admitted = {} /\ refused = {} /\ late = {}

Counted(k) == {r \in admitted \cup refused : timed[r].key = k}

Tick ==
    /\ clock' \in 0..MaxTime
    /\ UNCHANGED <<timed, counters, admitted, refused, late>>

ReadClock(r, k) ==
    /\ timed[r] = None
    /\ timed' = [timed EXCEPT ![r] = [key |-> k, at |-> clock]]
    /\ UNCHANGED <<clock, counters, admitted, refused, late>>

Kept_Short(k, now) == {q \in counters[k] : timed[q].at > now - (Window - 1)}
Kept(k, now) == {q \in counters[k] : timed[q].at > now - Window}

(* A request is counted whether or not it is over the limit. *)
Count(r) ==
    LET k == timed[r].key
        now == timed[r].at
        entry == Kept(k, now) \cup {r}
        over == Cardinality(entry) > Limit[k]
        overtaken == \E q \in Counted(k) : timed[q].at > now
    IN  /\ timed[r] # None
        /\ r \notin admitted \cup refused
        /\ counters' = [counters EXCEPT ![k] = entry]
        /\ admitted' = IF over THEN admitted ELSE admitted \cup {r}
        /\ refused' = IF over THEN refused \cup {r} ELSE refused
        /\ late' = IF overtaken THEN late \cup {r} ELSE late
        /\ UNCHANGED <<clock, timed>>

LimiterNext ==
    \/ Tick
    \/ \E r \in Requests : Count(r) \/ \E k \in Keys : ReadClock(r, k)

LimiterSpec == LimiterInit /\ [][LimiterNext]_limiterVars

-----------------------------------------------------------------------------
LimiterTypeOK ==
    /\ clock \in 0..MaxTime
    /\ timed \in [Requests -> [key : Keys, at : 0..MaxTime] \cup {None}]
    /\ counters \in [Keys -> SUBSET Requests]
    /\ admitted \in SUBSET Requests /\ refused \in SUBSET Requests
    /\ late \in SUBSET (admitted \cup refused)
    /\ \A r \in admitted \cup refused : timed[r] # None

AdmittedIn(k, t) ==
    {r \in admitted \ late :
        /\ timed[r].key = k
        /\ t - Window < timed[r].at /\ timed[r].at <= t}

(* "In-memory sliding window rate limiting": whatever window one takes, a  *)
(* client got at most Limit requests of a path admitted in it, requests    *)
(* aside that were counted after one with a later time: that one has       *)
(* already dropped the oldest of their window.                             *)
SlidingWindow ==
    \A k \in Keys : \A t \in 0..MaxTime : Cardinality(AdmittedIn(k, t)) <= Limit[k]
=============================================================================
