------------------------- MODULE HttpGatewayProofs -------------------------
(***************************************************************************)
(* Proofs about RateLimiter and about HttpGateway, which counts its        *)
(* requests with it: for any requests, users, tokens, files and bounds,    *)
(* and any limits, window and clock.                                       *)
(***************************************************************************)
EXTENDS HttpGateway, FiniteSetTheorems, TLAPS

-----------------------------------------------------------------------------
(* RateLimiter, for any requests, keys, limits, window and times, and a    *)
(* clock that is set at will.                                              *)

LEMMA LimiterInitTypeOK == LimiterInit => LimiterTypeOK
BY LimiterAssumption DEF LimiterInit, LimiterTypeOK

LEMMA TimedTyped ==
    ASSUME LimiterTypeOK, NEW r \in Requests, timed[r] # None
    PROVE  timed[r].key \in Keys /\ timed[r].at \in 0..MaxTime
BY DEF LimiterTypeOK

LEMMA CountTypeOK ==
    ASSUME LimiterTypeOK, NEW r \in Requests, Count(r) PROVE LimiterTypeOK'
<1> DEFINE k == timed[r].key
           entry == Kept(k, timed[r].at) \cup {r}
<1>1. timed[r] # None /\ timed' = timed /\ clock' = clock
  BY DEF Count
<1>2. k \in Keys
  BY <1>1, TimedTyped
<1>3. Kept(k, timed[r].at) \subseteq Requests
  BY <1>2 DEF Kept, LimiterTypeOK
<1>4. counters' = [counters EXCEPT ![k] = entry]
  BY DEF Count
<1>5. counters' \in [Keys -> SUBSET Requests]
  BY <1>3, <1>4 DEF LimiterTypeOK
<1>6. /\ admitted' \in {admitted, admitted \cup {r}}
      /\ refused' \in {refused, refused \cup {r}}
      /\ r \in admitted' \cup refused'
      /\ late' \in {late, late \cup {r}}
  BY DEF Count
<1> QED
  BY <1>1, <1>5, <1>6 DEF LimiterTypeOK

LEMMA LimiterStepTypeOK == LimiterTypeOK /\ [LimiterNext]_limiterVars => LimiterTypeOK'
<1> SUFFICES ASSUME LimiterTypeOK, [LimiterNext]_limiterVars PROVE LimiterTypeOK'
  OBVIOUS
<1>1. CASE Tick
  BY <1>1 DEF Tick, LimiterTypeOK
<1>2. ASSUME NEW r \in Requests, Count(r) PROVE LimiterTypeOK'
  BY <1>2, CountTypeOK
<1>3. ASSUME NEW r \in Requests, NEW k \in Keys, ReadClock(r, k) PROVE LimiterTypeOK'
  <2>1. [key |-> k, at |-> clock] \in [key : Keys, at : 0..MaxTime]
    BY DEF LimiterTypeOK
  <2>2. [key |-> k, at |-> clock] # None
    BY <2>1, LimiterAssumption
  <2> HIDE <2>1
  <2> QED
    BY <1>3, <2>1, <2>2 DEF ReadClock, LimiterTypeOK
<1>4. CASE UNCHANGED limiterVars
  BY <1>4 DEF limiterVars, LimiterTypeOK
<1> QED
  BY <1>1, <1>2, <1>3, <1>4 DEF LimiterNext

(* The state of the limiter keeps its type, and every request that was     *)
(* counted has read the clock (check_rate_limit).                          *)
THEOREM LimiterSpecTypeOK == LimiterSpec => []LimiterTypeOK
BY LimiterInitTypeOK, LimiterStepTypeOK, PTL DEF LimiterSpec

-----------------------------------------------------------------------------
(* The sliding window.  A counter is finite, and what it dropped is behind *)
(* the window of some request that has been counted.                       *)

FiniteCounters == \A k \in Keys : IsFiniteSet(counters[k])

DroppedAreBehind ==
    \A k \in Keys : \A q \in Counted(k) \ counters[k] :
        \E p \in Counted(k) : timed[q].at + Window <= timed[p].at

WindowInv == LimiterTypeOK /\ FiniteCounters /\ DroppedAreBehind /\ SlidingWindow

LEMMA InitWindowInv == LimiterInit => WindowInv
<1> SUFFICES ASSUME LimiterInit PROVE WindowInv
  OBVIOUS
<1>1. LimiterTypeOK
  BY LimiterInitTypeOK
<1>2. FiniteCounters
  BY FS_EmptySet DEF LimiterInit, FiniteCounters
<1>3. DroppedAreBehind
  BY DEF LimiterInit, DroppedAreBehind, Counted
<1>4. SlidingWindow
  <2>1. \A k \in Keys, t \in 0..MaxTime : AdmittedIn(k, t) = {}
    BY DEF LimiterInit, AdmittedIn
  <2> QED
    BY <2>1, FS_EmptySet, LimiterAssumption DEF SlidingWindow
<1> QED
  BY <1>1, <1>2, <1>3, <1>4 DEF WindowInv

(* A step that counts nothing keeps the invariant, if it keeps the times   *)
(* of the requests that have been counted.                                 *)
LEMMA NotCounting ==
    ASSUME WindowInv, LimiterTypeOK',
           UNCHANGED <<counters, admitted, refused, late>>,
           \A r \in admitted \cup refused : timed'[r] = timed[r]
    PROVE  WindowInv'
<1>1. \A k \in Keys : Counted(k)' = Counted(k)
  BY DEF Counted
<1>2. \A k \in Keys, t \in 0..MaxTime : AdmittedIn(k, t)' = AdmittedIn(k, t)
  BY DEF AdmittedIn
<1>3. FiniteCounters'
  BY DEF WindowInv, FiniteCounters
<1>4. DroppedAreBehind'
  <2> SUFFICES ASSUME NEW k \in Keys, NEW q \in Counted(k)' \ counters'[k]
               PROVE  \E p \in Counted(k)' : timed'[q].at + Window <= timed'[p].at
    BY DEF DroppedAreBehind
  <2>1. q \in Counted(k) \ counters[k]
    BY <1>1
  <2>2. PICK p \in Counted(k) : timed[q].at + Window <= timed[p].at
    BY <2>1 DEF WindowInv, DroppedAreBehind
  <2>3. timed'[q] = timed[q] /\ timed'[p] = timed[p]
    BY <2>1, <2>2 DEF Counted
  <2> QED
    BY <1>1, <2>2, <2>3
<1>5. SlidingWindow'
  BY <1>2 DEF WindowInv, SlidingWindow
<1> QED
  BY <1>3, <1>4, <1>5 DEF WindowInv

LEMMA CountWindow ==
    ASSUME WindowInv, NEW r \in Requests, Count(r) PROVE WindowInv'
<1> DEFINE k == timed[r].key
           now == timed[r].at
           entry == Kept(k, now) \cup {r}
<1>1. LimiterTypeOK /\ LimiterTypeOK'
  BY CountTypeOK DEF WindowInv
<1>2. /\ timed[r] # None /\ timed' = timed
      /\ r \notin admitted \cup refused
      /\ counters' = [counters EXCEPT ![k] = entry]
      /\ (r \in admitted') => ~(Cardinality(entry) > Limit[k])
      /\ r \in admitted' \cup refused'
      /\ admitted' \in {admitted, admitted \cup {r}}
      /\ refused' \in {refused, refused \cup {r}}
  BY DEF Count
<1>3. k \in Keys /\ now \in 0..MaxTime /\ Window \in Nat \ {0}
  BY <1>1, <1>2, TimedTyped, LimiterAssumption
<1>4. counters[k] \subseteq Requests /\ k \in DOMAIN counters
  BY <1>1, <1>3 DEF LimiterTypeOK
<1>5. \A j \in Keys : counters'[j] = IF j = k THEN entry ELSE counters[j]
  BY <1>1, <1>2, <1>3 DEF LimiterTypeOK
<1>6. IsFiniteSet(entry)
  <2>1. Kept(k, now) \in SUBSET counters[k] /\ IsFiniteSet(counters[k])
    BY <1>3 DEF Kept, WindowInv, FiniteCounters
  <2> QED
    BY <2>1, FS_Subset, FS_AddElement
<1>7. FiniteCounters'
  BY <1>5, <1>6 DEF WindowInv, FiniteCounters
<1>8. \A j \in Keys : Counted(j)' = IF j = k THEN Counted(k) \cup {r} ELSE Counted(j)
  BY <1>2 DEF Counted
<1>9. \A q \in admitted' \cup refused' : timed[q].at \in 0..MaxTime
  BY <1>1, <1>2, TimedTyped DEF LimiterTypeOK
<1>10. DroppedAreBehind'
  <2> SUFFICES ASSUME NEW j \in Keys, NEW q \in Counted(j)' \ counters'[j]
               PROVE  \E p \in Counted(j)' : timed[q].at + Window <= timed[p].at
    BY <1>2 DEF DroppedAreBehind
  <2>1. q \in Counted(j)
    BY <1>5, <1>8
  <2>2. CASE q \notin counters[j]
    BY <2>1, <2>2, <1>8 DEF WindowInv, DroppedAreBehind
  <2>3. CASE q \in counters[j]
    <3>1. j = k /\ q \notin Kept(k, now)
      BY <2>3, <1>5
    <3>2. ~(timed[q].at > now - Window)
      BY <2>3, <3>1 DEF Kept
    <3>3. timed[q].at \in 0..MaxTime
      BY <2>1, <1>2, <1>9 DEF Counted
    <3>4. timed[q].at + Window <= timed[r].at
      BY <3>2, <3>3, <1>3
    <3>5. r \in Counted(j)'
      BY <3>1, <1>8
    <3> QED
      BY <3>4, <3>5
  <2> QED
    BY <2>2, <2>3
<1>11. SlidingWindow'
  <2> SUFFICES ASSUME NEW j \in Keys, NEW t \in 0..MaxTime
               PROVE  Cardinality(AdmittedIn(j, t)') <= Limit[j]
    BY DEF SlidingWindow
  <2>1. Cardinality(AdmittedIn(j, t)) <= Limit[j]
    BY DEF WindowInv, SlidingWindow
  <2>2. r \notin AdmittedIn(j, t)
    BY <1>2 DEF AdmittedIn
  <2>3. CASE r \notin AdmittedIn(j, t)'
    <3>1. late' \ {r} = late \ {r}
      BY DEF Count
    <3>2. AdmittedIn(j, t)' = AdmittedIn(j, t)
      BY <2>2, <2>3, <3>1, <1>2 DEF AdmittedIn
    <3> QED
      BY <2>1, <3>2
  <2>4. CASE r \in AdmittedIn(j, t)'
    <3>1. r \in admitted' /\ r \notin late' /\ j = k /\ t - Window < now /\ now <= t
      BY <2>4, <1>2 DEF AdmittedIn
    <3>2. \A q \in Counted(k) : timed[q].at <= now
      <4>1. ~ \E q \in Counted(k) : timed[q].at > now
        BY <3>1 DEF Count
      <4>2. \A q \in Counted(k) : timed[q].at \in 0..MaxTime
        BY <1>2, <1>9 DEF Counted
      <4> QED
        BY <4>1, <4>2, <1>3
    <3>3. AdmittedIn(j, t)' \subseteq entry
      <4> SUFFICES ASSUME NEW q \in AdmittedIn(j, t)', q # r PROVE q \in Kept(k, now)
        OBVIOUS
      <4>1. q \in admitted /\ timed[q].key = k /\ t - Window < timed[q].at
        BY <1>2, <3>1 DEF AdmittedIn
      <4>2. q \in Counted(k) /\ timed[q].at \in 0..MaxTime
        BY <4>1, <1>2, <1>9 DEF Counted
      <4>3. timed[q].at > now - Window
        BY <4>1, <4>2, <3>1, <1>3
      <4>4. q \in counters[k]
        <5> SUFFICES ASSUME q \notin counters[k] PROVE FALSE
          OBVIOUS
        <5>1. PICK p \in Counted(k) : timed[q].at + Window <= timed[p].at
          BY <4>2, <1>3 DEF WindowInv, DroppedAreBehind
        <5>2. timed[p].at \in 0..MaxTime /\ timed[p].at <= now
          BY <5>1, <3>2, <1>2, <1>9 DEF Counted
        <5> QED
          BY <5>1, <5>2, <4>2, <4>3, <1>3
      <4> QED
        BY <4>3, <4>4 DEF Kept
    <3>4. Cardinality(entry) <= Limit[k]
      <4>1. Cardinality(entry) \in Nat
        BY <1>6, FS_CardinalityType
      <4>2. Limit[k] \in Nat
        BY <1>3, LimiterAssumption
      <4> QED
        BY <4>1, <4>2, <3>1, <1>2
    <3>5. Cardinality(AdmittedIn(j, t)') <= Cardinality(entry) /\ IsFiniteSet(AdmittedIn(j, t)')
      BY <1>6, <3>3, FS_Subset
    <3> QED
      BY <3>1, <3>4, <3>5, <1>3, <1>6, FS_CardinalityType, LimiterAssumption
  <2> QED
    BY <2>3, <2>4
<1> QED
  BY <1>1, <1>7, <1>10, <1>11 DEF WindowInv

LEMMA StepWindowInv == WindowInv /\ [LimiterNext]_limiterVars => WindowInv'
<1> SUFFICES ASSUME WindowInv, [LimiterNext]_limiterVars PROVE WindowInv'
  OBVIOUS
<1>1. LimiterTypeOK'
  BY LimiterStepTypeOK DEF WindowInv
<1>2. CASE Tick
  BY <1>1, <1>2, NotCounting DEF Tick
<1>3. ASSUME NEW r \in Requests, Count(r) PROVE WindowInv'
  BY <1>3, CountWindow
<1>4. ASSUME NEW r \in Requests, NEW k \in Keys, ReadClock(r, k) PROVE WindowInv'
  <2>1. \A q \in admitted \cup refused : q # r /\ q \in Requests
    BY <1>4 DEF ReadClock, WindowInv, LimiterTypeOK
  <2>2. \A q \in admitted \cup refused : timed'[q] = timed[q]
    BY <1>4, <2>1 DEF ReadClock, WindowInv, LimiterTypeOK
  <2> QED
    BY <1>1, <1>4, <2>2, NotCounting DEF ReadClock
<1>5. CASE UNCHANGED limiterVars
  BY <1>1, <1>5, NotCounting DEF limiterVars
<1> QED
  BY <1>2, <1>3, <1>4, <1>5 DEF LimiterNext

(* In any window a key has at most Limit requests admitted, but for those  *)
(* counted after one with a later time (check_rate_limit).                 *)
THEOREM LimiterSpecSlidingWindow == LimiterSpec => []SlidingWindow
<1>1. WindowInv => SlidingWindow
  BY DEF WindowInv
<1> QED
  BY InitWindowInv, StepWindowInv, <1>1, PTL DEF LimiterSpec

-----------------------------------------------------------------------------
(* HttpGateway.                                                            *)

(* The sets of a job's fields, by name, so that a proof need not open them. *)
MaybeCall == Calls \cup {None}
MaybeUser == Users \cup {None}
Results == Seq(BOOLEAN)
AnswerType == [status : {0, 200, 400, 401, 429, 500}, success : BOOLEAN, files : SUBSET Files]

LEMMA JobFields ==
    Job = [pc : PCs, call : MaybeCall, age : Nat, user : MaybeUser,
           results : Results, answer : AnswerType]
BY DEF Job, MaybeCall, MaybeUser, Results, AnswerType

(* What setting one field of a job leaves of it.                            *)
LEMMA CallSet ==
    ASSUME NEW n \in Job, NEW v \in MaybeCall
    PROVE  LET m == [n EXCEPT !.call = v]
           IN  /\ m \in Job /\ m.call = v
               /\ m.pc = n.pc /\ m.age = n.age /\ m.user = n.user
               /\ m.results = n.results /\ m.answer = n.answer
BY JobFields

LEMMA AgeSet ==
    ASSUME NEW n \in Job, NEW v \in Nat
    PROVE  LET m == [n EXCEPT !.age = v]
           IN  /\ m \in Job /\ m.age = v
               /\ m.pc = n.pc /\ m.call = n.call /\ m.user = n.user
               /\ m.results = n.results /\ m.answer = n.answer
BY JobFields

LEMMA PcSet ==
    ASSUME NEW n \in Job, NEW v \in PCs
    PROVE  LET m == [n EXCEPT !.pc = v]
           IN  /\ m \in Job /\ m.pc = v
               /\ m.call = n.call /\ m.age = n.age /\ m.user = n.user
               /\ m.results = n.results /\ m.answer = n.answer
BY JobFields

LEMMA UserSet ==
    ASSUME NEW n \in Job, NEW v \in MaybeUser
    PROVE  LET m == [n EXCEPT !.user = v]
           IN  /\ m \in Job /\ m.user = v
               /\ m.pc = n.pc /\ m.call = n.call /\ m.age = n.age
               /\ m.results = n.results /\ m.answer = n.answer
BY JobFields

LEMMA ResultsSet ==
    ASSUME NEW n \in Job, NEW v \in Results
    PROVE  LET m == [n EXCEPT !.results = v]
           IN  /\ m \in Job /\ m.results = v
               /\ m.pc = n.pc /\ m.call = n.call /\ m.age = n.age
               /\ m.user = n.user /\ m.answer = n.answer
BY JobFields

LEMMA AnswerSet ==
    ASSUME NEW n \in Job, NEW v \in AnswerType
    PROVE  LET m == [n EXCEPT !.answer = v]
           IN  /\ m \in Job /\ m.answer = v
               /\ m.pc = n.pc /\ m.call = n.call /\ m.age = n.age
               /\ m.user = n.user /\ m.results = n.results
BY JobFields

Only(r) == \A q \in Requests : q # r => jobs'[q] = jobs[q]

(* What each of the ways to write a request's job leaves of the jobs.      *)
LEMMA GoesEffect ==
    ASSUME jobs \in [Requests -> Job], NEW r \in Requests, NEW p \in PCs, Goes(r, p)
    PROVE  /\ jobs' \in [Requests -> Job] /\ Only(r)
           /\ jobs'[r].pc = p /\ jobs'[r].call = jobs[r].call /\ jobs'[r].age = jobs[r].age
           /\ jobs'[r].user = jobs[r].user /\ jobs'[r].results = jobs[r].results
           /\ jobs'[r].answer = jobs[r].answer
<1> DEFINE m == [jobs[r] EXCEPT !.pc = p]
<1>1. jobs' = [jobs EXCEPT ![r] = m] /\ jobs[r] \in Job
  BY DEF Goes
<1>2. m \in Job
  BY <1>1, PcSet
<1>3. /\ m.pc = p /\ m.call = jobs[r].call /\ m.age = jobs[r].age /\ m.user = jobs[r].user
      /\ m.results = jobs[r].results /\ m.answer = jobs[r].answer
  BY <1>1, PcSet
<1> HIDE DEF m
<1> QED
  BY <1>1, <1>2, <1>3 DEF Only

LEMMA AnswersEffect ==
    ASSUME jobs \in [Requests -> Job], NEW r \in Requests, NEW a \in AnswerType, Answers(r, a)
    PROVE  /\ jobs' \in [Requests -> Job] /\ Only(r)
           /\ jobs'[r].pc = "answered" /\ jobs'[r].call = jobs[r].call
           /\ jobs'[r].age = jobs[r].age /\ jobs'[r].user = jobs[r].user
           /\ jobs'[r].results = jobs[r].results /\ jobs'[r].answer = a
<1> DEFINE n == [jobs[r] EXCEPT !.pc = "answered"]
           m == [n EXCEPT !.answer = a]
<1>1. jobs' = [jobs EXCEPT ![r] = m] /\ jobs[r] \in Job /\ "answered" \in PCs
  BY DEF Answers, PCs
<1>2. /\ n \in Job /\ n.pc = "answered" /\ n.call = jobs[r].call /\ n.age = jobs[r].age
      /\ n.user = jobs[r].user /\ n.results = jobs[r].results
  BY <1>1, PcSet
<1> HIDE DEF n
<1>3. /\ m \in Job /\ m.pc = n.pc /\ m.call = n.call /\ m.age = n.age
      /\ m.user = n.user /\ m.results = n.results /\ m.answer = a
  BY <1>2, AnswerSet
<1> HIDE DEF m
<1> QED
  BY <1>1, <1>2, <1>3 DEF Only

LEMMA AuthenticatedEffect ==
    ASSUME jobs \in [Requests -> Job], NEW r \in Requests, NEW u \in Users, Authenticated(r, u)
    PROVE  /\ jobs' \in [Requests -> Job] /\ Only(r)
           /\ jobs'[r].pc = "limit" /\ jobs'[r].call = jobs[r].call
           /\ jobs'[r].age = jobs[r].age /\ jobs'[r].user = u
           /\ jobs'[r].results = jobs[r].results /\ jobs'[r].answer = jobs[r].answer
<1> DEFINE n == [jobs[r] EXCEPT !.pc = "limit"]
           m == [n EXCEPT !.user = u]
<1>1. /\ jobs' = [jobs EXCEPT ![r] = m] /\ jobs[r] \in Job
      /\ "limit" \in PCs /\ u \in MaybeUser
  BY DEF Authenticated, PCs, MaybeUser
<1>2. /\ n \in Job /\ n.pc = "limit" /\ n.call = jobs[r].call /\ n.age = jobs[r].age
      /\ n.answer = jobs[r].answer /\ n.results = jobs[r].results
  BY <1>1, PcSet
<1> HIDE DEF n
<1>3. /\ m \in Job /\ m.pc = n.pc /\ m.call = n.call /\ m.age = n.age
      /\ m.user = u /\ m.results = n.results /\ m.answer = n.answer
  BY <1>1, <1>2, UserSet
<1> HIDE DEF m
<1> QED
  BY <1>1, <1>2, <1>3 DEF Only

LEMMA ProcessesEffect ==
    ASSUME jobs \in [Requests -> Job], NEW r \in Requests, NEW ok \in BOOLEAN,
           NEW took \in BOOLEAN, Processes(r, ok, took)
    PROVE  /\ jobs' \in [Requests -> Job] /\ Only(r)
           /\ jobs'[r].pc = jobs[r].pc /\ jobs'[r].call = jobs[r].call
           /\ jobs'[r].age = jobs[r].age /\ jobs'[r].user = jobs[r].user
           /\ jobs[r].results \in Seq(BOOLEAN)
           /\ jobs'[r].results = Append(jobs[r].results, ok)
           /\ jobs'[r].answer = jobs[r].answer
<1> DEFINE rs == Append(jobs[r].results, ok)
           m == [jobs[r] EXCEPT !.results = rs]
<1>1. jobs' = [jobs EXCEPT ![r] = m] /\ jobs[r] \in Job
  BY DEF Processes
<1>2. jobs[r].results \in Seq(BOOLEAN)
  BY <1>1, JobFields DEF Results
<1>3. rs \in Results
  BY <1>2 DEF Results
<1> HIDE DEF rs
<1>4. /\ m \in Job /\ m.pc = jobs[r].pc /\ m.call = jobs[r].call /\ m.age = jobs[r].age
      /\ m.user = jobs[r].user /\ m.results = rs /\ m.answer = jobs[r].answer
  BY <1>1, <1>3, ResultsSet
<1> HIDE DEF m
<1> QED
  BY <1>1, <1>2, <1>4 DEF Only, rs

(* A request that arrives keeps its call, and is answered without files or *)
(* goes on to authentication when it is not stale.                         *)
LEMMA ArriveEffect ==
    ASSUME TypeOK, NEW r \in Requests, NEW c \in Calls, Arrive(r, c)
    PROVE  /\ jobs' \in [Requests -> Job] /\ Only(r)
           /\ jobs'[r].pc \in {"auth", "answered"} /\ jobs'[r].call = c
           /\ jobs'[r].pc = "auth" => jobs'[r].age <= MaxAge
           /\ jobs'[r].results = <<>> /\ jobs'[r].answer.files = {}
           /\ jobs'[r].answer.success => c.route = "health"
<1>1. c \in Call /\ clock \in Nat /\ MaxAge \in Nat
  BY GatewayAssumption, LimiterAssumption DEF TypeOK, LimiterTypeOK
<1>2. Age(c) \in Nat
  <2>1. c.sent \in Nat \cup {None}
    BY <1>1 DEF Call
  <2>2. CASE c.sent = None
    BY <2>2 DEF Age
  <2>3. CASE c.sent # None
    <3>1. c.sent \in Nat /\ Age(c) = Distance(clock, c.sent)
      BY <2>1, <2>3 DEF Age
    <3> QED
      BY <1>1, <3>1 DEF Distance
  <2> QED
    BY <2>2, <2>3
<1> DEFINE called == [Idle EXCEPT !.call = c]
           begun == [called EXCEPT !.age = Age(c)]
<1>3. NoAnswer \in AnswerType /\ NoAnswer.files = {} /\ NoAnswer.success = FALSE
  BY DEF NoAnswer, AnswerType
<1>4. Idle \in Job /\ Idle.results = <<>> /\ Idle.answer = NoAnswer
  BY <1>3, JobFields DEF Idle, PCs, MaybeCall, MaybeUser, Results
<1>5. /\ begun \in Job /\ begun.call = c /\ begun.results = <<>>
      /\ begun.age = Age(c) /\ begun.answer = NoAnswer
  <2>1. /\ called \in Job /\ called.call = c /\ called.results = <<>>
        /\ called.answer = NoAnswer
    BY <1>4, CallSet DEF MaybeCall
  <2> HIDE DEF called
  <2> QED
    BY <1>2, <2>1, AgeSet
<1> HIDE DEF begun
<1>6. \E n \in Job :
         /\ jobs' = [jobs EXCEPT ![r] = n]
         /\ n.pc \in {"auth", "answered"} /\ n.call = c /\ n.results = <<>>
         /\ n.pc = "auth" => n.age <= MaxAge
         /\ n.answer.files = {} /\ (n.answer.success => c.route = "health")
  <2>0. "answered" \in PCs /\ "auth" \in PCs
    BY DEF PCs
  <2> DEFINE answered == [begun EXCEPT !.pc = "answered"]
  <2>1. /\ answered \in Job /\ answered.pc = "answered" /\ answered.call = c
        /\ answered.results = <<>>
    BY <1>5, <2>0, PcSet
  <2>2. ASSUME NEW a \in AnswerType, a.files = {}, a.success => c.route = "health",
               jobs' = [jobs EXCEPT ![r] = [begun EXCEPT !.pc = "answered", !.answer = a]]
        PROVE  \E n \in Job :
                 /\ jobs' = [jobs EXCEPT ![r] = n]
                 /\ n.pc \in {"auth", "answered"} /\ n.call = c /\ n.results = <<>>
                 /\ n.pc = "auth" => n.age <= MaxAge
                 /\ n.answer.files = {} /\ (n.answer.success => c.route = "health")
    <3> DEFINE n == [answered EXCEPT !.answer = a]
    <3>1. jobs' = [jobs EXCEPT ![r] = n]
      BY <2>2
    <3> HIDE DEF answered
    <3>2. /\ n \in Job /\ n.pc = "answered" /\ n.call = c /\ n.results = <<>>
          /\ n.answer = a
      BY <2>1, AnswerSet
    <3> HIDE DEF n
    <3> QED
      BY <2>2, <3>1, <3>2
  <2> HIDE DEF answered
  <2>3. CASE c.route = "health"
    <3>1. jobs' = [jobs EXCEPT ![r] = [begun EXCEPT !.pc = "answered",
                                                    !.answer = Answer(200, TRUE, {})]]
      BY <2>3 DEF Arrive, begun, called
    <3>2. /\ Answer(200, TRUE, {}) \in AnswerType /\ Answer(200, TRUE, {}).files = {}
      BY DEF Answer, AnswerType
    <3> QED
      BY <2>2, <2>3, <3>1, <3>2
  <2>4. CASE c.route # "health" /\ Stale(c)
    <3> PICK a : a = Status(400)
      OBVIOUS
    <3>1. jobs' = [jobs EXCEPT ![r] = [begun EXCEPT !.pc = "answered", !.answer = a]]
      BY <2>4 DEF Arrive, begun, called
    <3>2. a \in AnswerType /\ a.files = {} /\ ~ a.success
      BY DEF Answer, Status, AnswerType
    <3> QED
      BY Zenon, <2>2, <3>1, <3>2
  <2>5. CASE c.route # "health" /\ ~ Stale(c)
    <3> DEFINE n == [begun EXCEPT !.pc = "auth"]
    <3>1. jobs' = [jobs EXCEPT ![r] = n]
      BY <2>5 DEF Arrive, begun, called
    <3>2. /\ n \in Job /\ n.pc = "auth" /\ n.call = c /\ n.results = <<>>
          /\ n.age = Age(c) /\ n.answer = NoAnswer
      BY <1>5, <2>0, PcSet
    <3>3. Age(c) <= MaxAge
      BY <1>1, <1>2, <2>5 DEF Stale
    <3> HIDE DEF n
    <3> QED
      BY <1>3, <3>1, <3>2, <3>3
  <2> QED
    BY <2>3, <2>4, <2>5
<1> QED
  BY <1>6 DEF Only, TypeOK

-----------------------------------------------------------------------------
(* The steps of a request, by what they do to its job and to the tables.   *)

tables == <<rows, wrote, erased, deletions>>

(* A request that has arrived has a call, and auth-middleware is asked for *)
(* tokens only.                                                            *)
CallsKnown ==
    \A r \in Requests :
        /\ jobs[r].pc # "idle" => call(r) \in Calls
        /\ jobs[r].pc = "asking" => Credential(call(r)) \in Tokens \ {InternalKey}
TypeInv == TypeOK /\ CallsKnown

Asks(r) ==
    /\ jobs[r].pc = "auth" /\ Goes(r, "asking")
    /\ Credential(call(r)) \in Tokens \ {InternalKey}
    /\ UNCHANGED <<limiterVars, tables>>

(* The credential that authenticates is the one auth-middleware was asked  *)
(* for, or the service's own.                                              *)
Passes(r, u) ==
    /\ \/ jobs[r].pc = "auth" /\ Credential(call(r)) = InternalKey /\ u = "system"
       \/ jobs[r].pc = "asking" /\ u = UserOf[Credential(call(r))]
    /\ Authenticated(r, u)
    /\ UNCHANGED <<limiterVars, tables>>

Admits(r) ==
    /\ jobs[r].pc = "limit" /\ Count(r) /\ r \in admitted'
    /\ Goes(r, "handler") /\ UNCHANGED tables

Replies(r, a) ==
    /\ jobs[r].pc \in {"auth", "asking", "limit", "handler"}
    /\ Answers(r, a)
    /\ \A x \in a.files : call(r).user # None /\ rows[x] = call(r).user
    /\ (a.success /\ IsUpload(call(r))) =>
          /\ jobs[r].pc = "handler"
          /\ Len(jobs[r].results) = Len(Uploads(call(r))) /\ Success(jobs[r].results)
    /\ \/ UNCHANGED limiterVars
       \/ jobs[r].pc = "limit" /\ Count(r) /\ r \notin admitted'
    /\ UNCHANGED tables

LEMMA StatusTyped ==
    ASSUME NEW n \in {400, 401, 429, 500}
    PROVE  Status(n) \in AnswerType /\ Status(n).files = {} /\ Status(n).success = FALSE
BY DEF Status, Answer, AnswerType

LEMMA AnswerTyped ==
    ASSUME NEW ok \in BOOLEAN, NEW files \in SUBSET Files
    PROVE  /\ Answer(200, ok, files) \in AnswerType
           /\ Answer(200, ok, files).files = files /\ Answer(200, ok, files).success = ok
BY DEF Answer, AnswerType

LEMMA Refused ==
    ASSUME NEW r \in Requests, NEW n \in {400, 401, 429, 500}, Answers(r, Status(n)),
           jobs[r].pc \in {"auth", "asking", "limit", "handler"}, UNCHANGED tables,
           UNCHANGED limiterVars \/ (jobs[r].pc = "limit" /\ Count(r) /\ r \notin admitted')
    PROVE  \E a \in AnswerType : Replies(r, a)
<1> DEFINE a == Status(n)
<1>1. a \in AnswerType /\ a.files = {} /\ a.success = FALSE
  BY DEF Status, Answer, AnswerType
<1>2. Answers(r, a)
  OBVIOUS
<1> HIDE DEF a
<1>3. Replies(r, a)
  BY <1>1, <1>2 DEF Replies
<1> QED
  BY <1>1, <1>3

LEMMA RequestSteps ==
    ASSUME TypeInv, NEW r \in Requests, Proceeds(r) \/ AuthAnswer(r)
    PROVE  \/ Asks(r) \/ Admits(r) \/ StartsLimit(r)
           \/ \E u \in Users : Passes(r, u)
           \/ \E a \in AnswerType : Replies(r, a)
           \/ \E ok, took \in BOOLEAN : Processes(r, ok, took)
<1> USE DEF tables
<1>0. UserOf \in [Tokens -> Users \cup {None}] /\ InternalKey \in Tokens /\ "system" \in Users
  BY GatewayAssumption
<1>1. CASE CheckCredential(r)
  <2>1. CASE Answers(r, Status(401))
    BY <1>1, <2>1, Refused DEF CheckCredential
  <2>2. CASE Credential(call(r)) = InternalKey /\ Authenticated(r, "system")
    BY <1>0, <1>1, <2>2 DEF CheckCredential, Passes
  <2>3. CASE Credential(call(r)) \in Tokens \ {InternalKey} /\ Goes(r, "asking")
    BY <1>1, <2>3 DEF CheckCredential, Asks
  <2> QED
    BY <1>1, <2>1, <2>2, <2>3 DEF CheckCredential
<1>2. CASE AuthTimeout(r)
  BY <1>2, Refused DEF AuthTimeout
<1>3. CASE PassesLimit(r)
  <2>1. CASE r \in admitted'
    BY <1>3, <2>1 DEF PassesLimit, Admits
  <2>2. CASE r \notin admitted'
    BY <1>3, <2>2, Refused DEF PassesLimit
  <2> QED
    BY <2>1, <2>2
<1>4. CASE Uploaded(r)
  <2>1. Success(jobs[r].results) \in BOOLEAN
    BY DEF Success
  <2>2. LET a == Answer(200, Success(jobs[r].results), {})
        IN  a \in AnswerType /\ a.files = {} /\ a.success = Success(jobs[r].results)
    BY <2>1, AnswerTyped
  <2> QED
    BY <1>4, <2>2 DEF Uploaded, Replies
<1>5. CASE AnswersStatus(r)
  <2>1. jobs[r].pc = "handler" /\ call(r).route = "status" /\ UNCHANGED <<limiterVars, tables>>
    BY <1>5 DEF AnswersStatus
  <2>2. ~ IsUpload(call(r))
    BY <2>1 DEF IsUpload
  <2>3. CASE Answers(r, Status(401)) \/ Answers(r, Status(500))
    BY <2>1, <2>3, Refused
  <2>4. CASE /\ call(r).user # None
             /\ Answers(r, Answer(200, TRUE, Listed(call(r).source, call(r).user)))
    <3> DEFINE files == Listed(call(r).source, call(r).user)
    <3>1. files \in SUBSET Files /\ \A x \in files : rows[x] = call(r).user
      BY DEF Listed
    <3> HIDE DEF files
    <3>2. Answer(200, TRUE, files) \in AnswerType /\ Answer(200, TRUE, files).files = files
      BY <3>1 DEF Answer, AnswerType
    <3>3. Answers(r, Answer(200, TRUE, files))
      BY <2>4 DEF files
    <3> QED
      BY <2>1, <2>2, <2>4, <3>1, <3>2, <3>3 DEF Replies
  <2>5. \/ Answers(r, Status(401)) \/ Answers(r, Status(500))
        \/ /\ call(r).user # None
           /\ Answers(r, Answer(200, TRUE, Listed(call(r).source, call(r).user)))
    BY Zenon, <1>5 DEF AnswersStatus
  <2> QED
    BY Zenon, <2>3, <2>4, <2>5
<1>6. CASE AnswersOther(r)
  <2>1. PICK ok \in BOOLEAN : Answers(r, Answer(200, ok, {}))
    BY <1>6 DEF AnswersOther
  <2>2. Answer(200, ok, {}) \in AnswerType /\ Answer(200, ok, {}).files = {}
    BY <2>1, AnswerTyped
  <2>3. jobs[r].pc = "handler" /\ ~ IsUpload(call(r)) /\ UNCHANGED <<limiterVars, tables>>
    BY <1>6 DEF AnswersOther, IsUpload
  <2> QED
    BY <2>1, <2>2, <2>3 DEF Replies
<1>7. CASE AuthAnswer(r)
  <2> DEFINE u == UserOf[Credential(call(r))]
  <2>1. CASE u # None
    <3>1. u \in Users
      <4>1. Credential(call(r)) \in Tokens
        BY <1>7 DEF AuthAnswer, TypeInv, CallsKnown
      <4> QED
        BY <1>0, <2>1, <4>1
    <3>2. jobs[r].pc = "asking" /\ Authenticated(r, u) /\ UNCHANGED <<limiterVars, tables>>
      BY <1>7, <2>1 DEF AuthAnswer
    <3>3. Passes(r, u)
      BY <3>2 DEF Passes
    <3> QED
      BY <3>1, <3>3
  <2>2. CASE u = None
    BY <1>7, <2>2, Refused DEF AuthAnswer
  <2> QED
    BY <2>1, <2>2
<1> QED
  BY <1>1, <1>2, <1>3, <1>4, <1>5, <1>6, <1>7 DEF Proceeds, Handles

-----------------------------------------------------------------------------
(* Every step is one of these; what each does to the types.                *)

LEMMA Steps ==
    ASSUME TypeInv, [Next]_vars
    PROVE  \/ Tick /\ UNCHANGED gatewayVars
           \/ \E r \in Requests :
                \/ \E c \in Calls : Arrive(r, c)
                \/ Asks(r) \/ Admits(r) \/ StartsLimit(r)
                \/ \E u \in Users : Passes(r, u)
                \/ \E a \in AnswerType : Replies(r, a)
                \/ \E ok, took \in BOOLEAN : Processes(r, ok, took)
           \/ \E x \in Files : DeleteFile(x)
           \/ UNCHANGED vars
<1>1. ASSUME NEW r \in Requests, Proceeds(r) \/ AuthAnswer(r)
      PROVE  \/ Asks(r) \/ Admits(r) \/ StartsLimit(r)
             \/ \E u \in Users : Passes(r, u)
             \/ \E a \in AnswerType : Replies(r, a)
             \/ \E ok, took \in BOOLEAN : Processes(r, ok, took)
  BY <1>1, RequestSteps
<1> QED
  BY <1>1 DEF Next

LEMMA UploadsTyped ==
    ASSUME NEW c \in Calls PROVE Uploads(c) \in Seq(Upload)
<1>1. c.uploads \in Seq(Upload)
  BY GatewayAssumption DEF Call
<1>2. CASE c.route = "metrics"
  <2> DEFINE u == [of |-> [source |-> "metrics-request", file |-> c.uploads[1].of.file],
                   user |-> "system"]
  <2>1. u.of \in Files /\ u.user \in Users
    BY <1>2, GatewayAssumption
  <2>2. u \in Upload
    BY <2>1 DEF Upload
  <2>3. Uploads(c) = <<u>>
    BY <1>2 DEF Uploads
  <2> HIDE DEF u
  <2> QED
    BY <2>2, <2>3
<1>3. CASE c.route # "metrics"
  BY <1>1, <1>3 DEF Uploads
<1> QED
  BY <1>2, <1>3

(* The upload a handler processes, and what it does to the tables.         *)
Current(r) == Uploads(call(r))[Len(jobs[r].results) + 1]

LEMMA ProcessesTables ==
    ASSUME TypeInv, NEW r \in Requests, NEW ok \in BOOLEAN, NEW took \in BOOLEAN,
           Processes(r, ok, took)
    PROVE  /\ Current(r) \in Upload
           /\ Len(jobs[r].results) + 1 \in DOMAIN Uploads(call(r))
           /\ took => Current(r).user \in Users
           /\ rows' = IF took THEN Registered(rows, Current(r)) ELSE rows
           /\ wrote' = IF took THEN wrote \cup {<<Current(r).of, Current(r).user>>} ELSE wrote
           /\ UNCHANGED <<limiterVars, erased, deletions>>
           /\ ok => took
<1>1. /\ jobs[r].pc = "handler" /\ Len(jobs[r].results) < Len(Uploads(call(r)))
      /\ took => Current(r).user # None
      /\ rows' = IF took THEN Registered(rows, Current(r)) ELSE rows
      /\ wrote' = IF took THEN wrote \cup {<<Current(r).of, Current(r).user>>} ELSE wrote
      /\ UNCHANGED <<limiterVars, erased, deletions>>
      /\ ok => took
  BY DEF Processes, Current
<1>2. call(r) \in Calls
  BY <1>1 DEF TypeInv, CallsKnown
<1>3. Uploads(call(r)) \in Seq(Upload)
  BY <1>2, UploadsTyped
<1>4. jobs[r].results \in Seq(BOOLEAN)
  BY JobFields DEF TypeInv, TypeOK, Results
<1>5. Len(jobs[r].results) + 1 \in DOMAIN Uploads(call(r))
  BY <1>1, <1>3, <1>4
<1>6. Current(r) \in Upload
  BY <1>3, <1>5 DEF Current
<1>7. Current(r).user \in Users \cup {None}
  BY <1>6 DEF Upload
<1> QED
  BY <1>1, <1>5, <1>6, <1>7

TablesOK ==
    /\ rows \in [Files -> Users \cup {None}]
    /\ wrote \in SUBSET (Files \X Users)
    /\ erased \in SUBSET Files
    /\ deletions \in 0..MaxDeletions
RequestOK(r) ==
    /\ jobs[r].pc \in {"limit", "handler"} => jobs[r].user # None
    /\ jobs[r].pc # "idle" => call(r) \in Calls
    /\ jobs[r].pc = "asking" => Credential(call(r)) \in Tokens \ {InternalKey}

LEMMA TypeParts ==
    TypeInv <=> /\ LimiterTypeOK /\ TablesOK
                /\ jobs \in [Requests -> Job]
                /\ \A r \in Requests : RequestOK(r)
BY DEF TypeInv, TypeOK, CallsKnown, TablesOK, RequestOK

LEMMA InitTypeInv == Init => TypeInv
<1> SUFFICES ASSUME Init PROVE TypeInv
  OBVIOUS
<1>1. LimiterTypeOK
  BY LimiterInitTypeOK DEF Init
<1>2. Idle \in Job /\ Idle.pc = "idle"
  <2>1. NoAnswer \in AnswerType
    BY DEF NoAnswer, AnswerType
  <2> QED
    BY <2>1, JobFields DEF Idle, PCs, MaybeCall, MaybeUser, Results
<1>3. jobs \in [Requests -> Job] /\ \A r \in Requests : jobs[r].pc = "idle"
  BY <1>2 DEF Init
<1>4. TablesOK
  BY GatewayAssumption DEF Init, TablesOK
<1>5. \A r \in Requests : RequestOK(r)
  BY <1>3 DEF RequestOK
<1> QED
  BY <1>1, <1>3, <1>4, <1>5, TypeParts

LEMMA LimiterMoves == TypeInv /\ [Next]_vars => [LimiterNext]_limiterVars
<1> SUFFICES ASSUME TypeInv, [Next]_vars PROVE [LimiterNext]_limiterVars
  OBVIOUS
<1>1. ASSUME NEW r \in Requests, StartsLimit(r) PROVE \E k \in Keys : ReadClock(r, k)
  <2>1. jobs[r].pc = "limit" /\ ReadClock(r, Key(call(r), jobs[r].user))
    BY <1>1 DEF StartsLimit
  <2>2. jobs[r].user \in Users
    <3>1. jobs[r].user \in MaybeUser /\ jobs[r].user # None
      BY <2>1, TypeParts, JobFields DEF RequestOK
    <3> QED
      BY <3>1 DEF MaybeUser
  <2>3. call(r).route \in Routes
    <3>1. call(r) \in Call
      BY <2>1, TypeParts, GatewayAssumption DEF RequestOK
    <3> QED
      BY <3>1 DEF Call, Routes
  <2>4. Key(call(r), jobs[r].user) \in Keys
    BY <2>2, <2>3, GatewayAssumption DEF Key
  <2> QED
    BY <2>1, <2>4
<1>2. ASSUME NEW r \in Requests,
             \/ \E c \in Calls : Arrive(r, c)
             \/ Asks(r) \/ Admits(r)
             \/ \E u \in Users : Passes(r, u)
             \/ \E a \in AnswerType : Replies(r, a)
             \/ \E ok, took \in BOOLEAN : Processes(r, ok, took)
      PROVE  UNCHANGED limiterVars \/ Count(r)
  BY <1>2 DEF Arrive, Asks, Admits, Passes, Replies, Processes
<1>3. ASSUME NEW x \in Files, DeleteFile(x) PROVE UNCHANGED limiterVars
  BY <1>3 DEF DeleteFile
<1>4. UNCHANGED vars => UNCHANGED limiterVars
  BY DEF vars
<1> QED
  BY <1>1, <1>2, <1>3, <1>4, Steps DEF LimiterNext

(* A step that writes one request's job at most keeps the others' types.    *)
LEMMA OthersOK ==
    ASSUME \A q \in Requests : RequestOK(q), NEW r \in Requests, Only(r), RequestOK(r)'
    PROVE  \A q \in Requests : RequestOK(q)'
BY DEF Only, RequestOK, call

LEMMA NextTypeInv == TypeInv /\ [Next]_vars => TypeInv'
<1> SUFFICES ASSUME TypeInv, [Next]_vars PROVE TypeInv'
  OBVIOUS
<1>1. LimiterTypeOK'
  BY LimiterMoves, LimiterStepTypeOK, TypeParts
<1>2. /\ TablesOK /\ jobs \in [Requests -> Job]
      /\ \A r \in Requests : RequestOK(r)
  BY TypeParts
<1>3. SUFFICES /\ TablesOK' /\ jobs' \in [Requests -> Job]
               /\ \A r \in Requests : RequestOK(r)'
  BY <1>1 DEF TypeInv, TypeOK, CallsKnown, TablesOK, RequestOK
<1>4. CASE UNCHANGED gatewayVars
  BY <1>2, <1>4 DEF gatewayVars, TablesOK, RequestOK, call
<1>5. ASSUME UNCHANGED tables PROVE TablesOK'
  BY <1>2, <1>5 DEF tables, TablesOK
<1>6. ASSUME NEW r \in Requests, NEW c \in Calls, Arrive(r, c)
      PROVE  TablesOK' /\ jobs' \in [Requests -> Job] /\ \A q \in Requests : RequestOK(q)'
  <2>1. /\ jobs' \in [Requests -> Job] /\ Only(r)
        /\ jobs'[r].pc \in {"auth", "answered"} /\ jobs'[r].call = c
    BY <1>6, ArriveEffect DEF TypeInv
  <2>2. RequestOK(r)'
    BY <2>1 DEF RequestOK, call
  <2>3. UNCHANGED tables
    BY <1>6 DEF Arrive, tables
  <2> QED
    BY <1>2, <1>5, <2>1, <2>2, <2>3, OthersOK
<1>7. ASSUME NEW r \in Requests, Asks(r)
      PROVE  TablesOK' /\ jobs' \in [Requests -> Job] /\ \A q \in Requests : RequestOK(q)'
  <2>0. Goes(r, "asking") /\ "asking" \in PCs /\ UNCHANGED tables /\ jobs[r].pc = "auth"
    BY <1>7 DEF Asks, PCs
  <2>1. /\ jobs' \in [Requests -> Job] /\ Only(r)
        /\ jobs'[r].pc = "asking" /\ jobs'[r].call = jobs[r].call
    BY <1>2, <2>0, GoesEffect
  <2>2. RequestOK(r)'
    BY <1>2, <1>7, <2>0, <2>1 DEF RequestOK, call, Credential, Asks
  <2> QED
    BY <1>2, <1>5, <2>0, <2>1, <2>2, OthersOK
<1>8. ASSUME NEW r \in Requests, Admits(r)
      PROVE  TablesOK' /\ jobs' \in [Requests -> Job] /\ \A q \in Requests : RequestOK(q)'
  <2>0. Goes(r, "handler") /\ "handler" \in PCs /\ UNCHANGED tables /\ jobs[r].pc = "limit"
    BY <1>8 DEF Admits, PCs
  <2>1. /\ jobs' \in [Requests -> Job] /\ Only(r) /\ jobs'[r].pc = "handler"
        /\ jobs'[r].call = jobs[r].call /\ jobs'[r].user = jobs[r].user
    BY <1>2, <2>0, GoesEffect
  <2>2. RequestOK(r)'
    BY <1>2, <2>0, <2>1 DEF RequestOK, call
  <2> QED
    BY <1>2, <1>5, <2>0, <2>1, <2>2, OthersOK
<1>9. ASSUME NEW r \in Requests, NEW u \in Users, Passes(r, u)
      PROVE  TablesOK' /\ jobs' \in [Requests -> Job] /\ \A q \in Requests : RequestOK(q)'
  <2>0. Authenticated(r, u) /\ UNCHANGED tables /\ jobs[r].pc \in {"auth", "asking"}
    BY <1>9 DEF Passes
  <2>1. /\ jobs' \in [Requests -> Job] /\ Only(r) /\ jobs'[r].pc = "limit"
        /\ jobs'[r].call = jobs[r].call /\ jobs'[r].user = u
    BY <1>2, <2>0, AuthenticatedEffect
  <2>2. u # None
    BY GatewayAssumption
  <2>3. RequestOK(r)'
    BY <1>2, <2>0, <2>1, <2>2 DEF RequestOK, call
  <2> QED
    BY <1>2, <1>5, <2>0, <2>1, <2>3, OthersOK
<1>10. ASSUME NEW r \in Requests, NEW a \in AnswerType, Replies(r, a)
       PROVE  TablesOK' /\ jobs' \in [Requests -> Job] /\ \A q \in Requests : RequestOK(q)'
  <2>0. Answers(r, a) /\ UNCHANGED tables /\ jobs[r].pc # "idle"
    BY <1>10 DEF Replies
  <2>1. /\ jobs' \in [Requests -> Job] /\ Only(r) /\ jobs'[r].pc = "answered"
        /\ jobs'[r].call = jobs[r].call
    BY <1>2, <2>0, AnswersEffect
  <2>2. RequestOK(r)'
    BY <1>2, <2>0, <2>1 DEF RequestOK, call
  <2> QED
    BY <1>2, <1>5, <2>0, <2>1, <2>2, OthersOK
<1>11. ASSUME NEW r \in Requests, NEW ok \in BOOLEAN, NEW took \in BOOLEAN,
              Processes(r, ok, took)
       PROVE  TablesOK' /\ jobs' \in [Requests -> Job] /\ \A q \in Requests : RequestOK(q)'
  <2>1. /\ jobs' \in [Requests -> Job] /\ Only(r) /\ jobs'[r].pc = jobs[r].pc
        /\ jobs'[r].call = jobs[r].call /\ jobs'[r].user = jobs[r].user
    BY <1>2, <1>11, ProcessesEffect
  <2>2. RequestOK(r)'
    BY <1>2, <2>1 DEF RequestOK, call, Credential
  <2> DEFINE u == Current(r)
  <2>3. /\ u \in Upload /\ (took => u.user \in Users)
        /\ rows' = IF took THEN Registered(rows, u) ELSE rows
        /\ wrote' = IF took THEN wrote \cup {<<u.of, u.user>>} ELSE wrote
        /\ UNCHANGED <<erased, deletions>>
    BY <1>11, ProcessesTables
  <2> HIDE DEF u
  <2>4. u.of \in Files
    BY <2>3 DEF Upload
  <2>5. TablesOK'
    <3>1. CASE took
      BY <1>2, <2>3, <2>4, <3>1 DEF TablesOK, Registered
    <3>2. CASE ~ took
      BY <1>2, <2>3, <3>2 DEF TablesOK
    <3> QED
      BY <3>1, <3>2
  <2> QED
    BY <1>2, <2>1, <2>2, <2>5, OthersOK
<1>12. ASSUME NEW r \in Requests, StartsLimit(r) PROVE UNCHANGED gatewayVars
  BY <1>12 DEF StartsLimit
<1>13. ASSUME NEW x \in Files, DeleteFile(x)
       PROVE  TablesOK' /\ jobs' \in [Requests -> Job] /\ \A q \in Requests : RequestOK(q)'
  <2>1. TablesOK'
    BY <1>2, <1>13, GatewayAssumption DEF DeleteFile, TablesOK
  <2>2. jobs' = jobs
    BY <1>13 DEF DeleteFile
  <2> QED
    BY <1>2, <2>1, <2>2 DEF RequestOK, call
<1> QED
  BY <1>4, <1>6, <1>7, <1>8, <1>9, <1>10, <1>11, <1>12, <1>13, Steps DEF vars

LEMMA SpecTypeInv == Spec => []TypeInv
BY InitTypeInv, NextTypeInv, PTL DEF Spec

(* Every variable has its type, and no request is limited or handled       *)
(* without a user.                                                         *)
THEOREM SpecTypeOK == Spec => []TypeOK
<1>1. TypeInv => TypeOK
  BY DEF TypeInv
<1> QED
  BY <1>1, SpecTypeInv, PTL

(* The limiter is used as its own specification says, whatever else the    *)
(* gateway does: it admits no more requests of a user in a window than the *)
(* limit.                                                                  *)
THEOREM SpecImplementsLimiter == Spec => LimiterSpec
<1>1. Init => LimiterInit
  BY DEF Init
<1> QED
  BY <1>1, SpecTypeInv, LimiterMoves, PTL DEF Spec, LimiterSpec

(* Hence, whatever window one takes, a user got at most Limit requests of  *)
(* a path through the layers in it.                                        *)
THEOREM SpecSlidingWindow == Spec => []SlidingWindow
BY SpecImplementsLimiter, LimiterSpecSlidingWindow, PTL

-----------------------------------------------------------------------------
(* The layers: what is known of a request at each of them.                 *)

Cleared(r) ==
    /\ jobs[r].age <= MaxAge
    /\ jobs[r].user # None /\ Vouched(call(r), jobs[r].user)
    /\ timed[r].key = Key(call(r), jobs[r].user)

LayersOf(r) ==
    /\ jobs[r].pc \in {"idle", "auth", "asking"} => timed[r] = None
    /\ jobs[r].pc \in {"auth", "asking", "limit"} => jobs[r].age <= MaxAge
    /\ jobs[r].pc \in {"idle", "auth", "asking", "limit"} => r \notin admitted
    /\ jobs[r].pc = "limit" => Vouched(call(r), jobs[r].user)
    /\ (jobs[r].pc = "limit" /\ timed[r] # None) =>
          timed[r].key = Key(call(r), jobs[r].user)
    /\ r \in admitted => Cleared(r)
Layers == \A r \in Requests : LayersOf(r)
LayersInv == TypeInv /\ Layers

LEMMA InitLayers == Init => Layers
<1> SUFFICES ASSUME Init, NEW r \in Requests PROVE LayersOf(r)
  BY DEF Layers
<1>1. jobs[r].pc = "idle" /\ timed[r] = None /\ admitted = {}
  BY DEF Init, Idle, LimiterInit
<1> QED
  BY <1>1 DEF LayersOf

(* Nothing changes for a request whose own job, reading of the clock and   *)
(* admission do not.                                                       *)
LEMMA SameLayers ==
    ASSUME NEW q \in Requests, LayersOf(q), jobs'[q] = jobs[q], timed'[q] = timed[q],
           q \in admitted' <=> q \in admitted
    PROVE  LayersOf(q)'
BY DEF LayersOf, Cleared, Vouched, Key, call

LEMMA CountLeavesOthers ==
    ASSUME NEW r \in Requests, Count(r)
    PROVE  /\ timed' = timed /\ timed[r] # None /\ clock' = clock
           /\ \A q \in Requests \ {r} : q \in admitted' <=> q \in admitted
BY DEF Count

LEMMA NextLayers == LayersInv /\ [Next]_vars => Layers'
<1> SUFFICES ASSUME LayersInv, [Next]_vars PROVE Layers'
  OBVIOUS
<1>0. /\ TypeInv /\ jobs \in [Requests -> Job] /\ \A r \in Requests : LayersOf(r)
      /\ LimiterTypeOK
  BY TypeParts DEF LayersInv, Layers
<1>1. ASSUME UNCHANGED <<jobs, timed, admitted>> PROVE Layers'
  BY <1>0, <1>1, SameLayers DEF Layers
<1>2. ASSUME NEW r \in Requests, Only(r), LayersOf(r)',
             \A q \in Requests \ {r} :
                 timed'[q] = timed[q] /\ (q \in admitted' <=> q \in admitted)
      PROVE  Layers'
  <2> SUFFICES ASSUME NEW q \in Requests PROVE LayersOf(q)'
    BY DEF Layers
  <2>1. CASE q = r
    BY <1>2, <2>1
  <2>2. CASE q # r
    BY <1>0, <1>2, <2>2, SameLayers DEF Only
  <2> QED
    BY <2>1, <2>2
<1>3. ASSUME NEW r \in Requests, NEW c \in Calls, Arrive(r, c) PROVE Layers'
  <2>1. /\ Only(r) /\ jobs'[r].pc \in {"auth", "answered"}
        /\ jobs'[r].pc = "auth" => jobs'[r].age <= MaxAge
    BY <1>0, <1>3, ArriveEffect DEF TypeInv
  <2>2. jobs[r].pc = "idle" /\ timed' = timed /\ admitted' = admitted
    BY <1>3 DEF Arrive, limiterVars
  <2>3. r \notin admitted' /\ timed'[r] = None
    BY <1>0, <2>2 DEF LayersOf
  <2>4. LayersOf(r)'
    BY <2>1, <2>3 DEF LayersOf
  <2> QED
    BY <1>2, <2>1, <2>2, <2>4
<1>4. ASSUME NEW r \in Requests, Asks(r) PROVE Layers'
  <2>0. /\ Goes(r, "asking") /\ "asking" \in PCs /\ jobs[r].pc = "auth"
        /\ timed' = timed /\ admitted' = admitted
    BY <1>4 DEF Asks, PCs, limiterVars
  <2>1. Only(r) /\ jobs'[r].pc = "asking" /\ jobs'[r].age = jobs[r].age
    BY <1>0, <2>0, GoesEffect
  <2>2. LayersOf(r)'
    BY <1>0, <2>0, <2>1 DEF LayersOf
  <2> QED
    BY <1>2, <2>0, <2>1, <2>2
<1>5. ASSUME NEW r \in Requests, NEW u \in Users, Passes(r, u) PROVE Layers'
  <2>0. /\ Authenticated(r, u) /\ jobs[r].pc \in {"auth", "asking"}
        /\ timed' = timed /\ admitted' = admitted
    BY <1>5 DEF Passes, limiterVars
  <2>1. /\ Only(r) /\ jobs'[r].pc = "limit" /\ jobs'[r].age = jobs[r].age
        /\ jobs'[r].call = jobs[r].call /\ jobs'[r].user = u
    BY <1>0, <2>0, AuthenticatedEffect
  <2>2. Vouched(call(r), u)
    <3>1. CASE jobs[r].pc = "auth"
      BY <1>5, <3>1, GatewayAssumption DEF Passes, Vouched, Credential
    <3>2. CASE jobs[r].pc = "asking"
      <4>1. Credential(call(r)) \in Tokens \ {InternalKey} /\ u = UserOf[Credential(call(r))]
        BY <1>0, <1>5, <3>2 DEF Passes, TypeInv, CallsKnown
      <4> QED
        BY <4>1 DEF Vouched, Credential
    <3> QED
      BY <2>0, <3>1, <3>2
  <2>3. Vouched(call(r), jobs[r].user)'
    BY <2>1, <2>2 DEF Vouched, call
  <2>4. LayersOf(r)'
    BY <1>0, <2>0, <2>1, <2>3 DEF LayersOf
  <2> QED
    BY <1>2, <2>0, <2>1, <2>4
<1>6. ASSUME NEW r \in Requests, StartsLimit(r) PROVE Layers'
  <2>1. /\ jobs[r].pc = "limit" /\ jobs' = jobs /\ admitted' = admitted
        /\ timed' = [timed EXCEPT ![r] = [key |-> Key(call(r), jobs[r].user), at |-> clock]]
    BY <1>6 DEF StartsLimit, ReadClock, gatewayVars
  <2>2. timed'[r].key = Key(call(r), jobs[r].user)
    BY <1>0, <2>1 DEF LimiterTypeOK
  <2>3. LayersOf(r)'
    BY <1>0, <2>1, <2>2 DEF LayersOf, Cleared, Vouched, Key, call
  <2>4. Only(r) /\ \A q \in Requests \ {r} : timed'[q] = timed[q]
    BY <1>0, <2>1 DEF Only, LimiterTypeOK
  <2> QED
    BY <1>2, <2>1, <2>3, <2>4
<1>7. ASSUME NEW r \in Requests, Admits(r) PROVE Layers'
  <2>0. /\ Goes(r, "handler") /\ "handler" \in PCs /\ jobs[r].pc = "limit" /\ Count(r)
    BY <1>7 DEF Admits, PCs
  <2>1. /\ Only(r) /\ jobs'[r].pc = "handler" /\ jobs'[r].age = jobs[r].age
        /\ jobs'[r].call = jobs[r].call /\ jobs'[r].user = jobs[r].user
    BY <1>0, <2>0, GoesEffect
  <2>2. Cleared(r)
    <3>1. jobs[r].user # None
      BY <1>0, <2>0, TypeParts DEF RequestOK
    <3> QED
      BY <1>0, <2>0, <3>1, CountLeavesOthers DEF LayersOf, Cleared
  <2>3. Cleared(r)'
    BY <2>0, <2>1, <2>2, CountLeavesOthers DEF Cleared, Vouched, Key, call
  <2>4. LayersOf(r)'
    BY <2>1, <2>3 DEF LayersOf
  <2> QED
    BY <1>2, <2>0, <2>1, <2>4, CountLeavesOthers
<1>8. ASSUME NEW r \in Requests, NEW a \in AnswerType, Replies(r, a) PROVE Layers'
  <2>0. /\ Answers(r, a)
        /\ \/ timed' = timed /\ admitted' = admitted
           \/ Count(r) /\ r \notin admitted'
    BY <1>8 DEF Replies, limiterVars
  <2>1. /\ Only(r) /\ jobs'[r].pc = "answered" /\ jobs'[r].age = jobs[r].age
        /\ jobs'[r].call = jobs[r].call /\ jobs'[r].user = jobs[r].user
    BY <1>0, <2>0, AnswersEffect
  <2>2. timed' = timed /\ (r \in admitted' => r \in admitted)
    BY <2>0, CountLeavesOthers
  <2>3. r \in admitted' => Cleared(r)'
    BY <1>0, <2>1, <2>2 DEF LayersOf, Cleared, Vouched, Key, call
  <2>4. LayersOf(r)'
    BY <2>1, <2>3 DEF LayersOf
  <2> QED
    BY <1>2, <2>0, <2>1, <2>4, CountLeavesOthers
<1>9. ASSUME NEW r \in Requests, NEW ok \in BOOLEAN, NEW took \in BOOLEAN,
             Processes(r, ok, took)
      PROVE  Layers'
  <2>1. /\ Only(r) /\ jobs'[r].pc = jobs[r].pc /\ jobs'[r].age = jobs[r].age
        /\ jobs'[r].call = jobs[r].call /\ jobs'[r].user = jobs[r].user
    BY <1>0, <1>9, ProcessesEffect
  <2>2. timed' = timed /\ admitted' = admitted
    BY <1>9 DEF Processes, limiterVars
  <2>3. LayersOf(r)'
    BY <1>0, <2>1, <2>2 DEF LayersOf, Cleared, Vouched, Key, call
  <2> QED
    BY <1>2, <2>1, <2>2, <2>3
<1>10. ASSUME NEW x \in Files, DeleteFile(x) PROVE Layers'
  BY <1>1, <1>10 DEF DeleteFile, limiterVars
<1>11. CASE Tick /\ UNCHANGED gatewayVars
  BY <1>1, <1>11 DEF Tick, gatewayVars
<1>12. CASE UNCHANGED vars
  BY <1>1, <1>12 DEF vars, limiterVars, gatewayVars
<1> QED
  BY <1>0, <1>3, <1>4, <1>5, <1>6, <1>7, <1>8, <1>9, <1>10, <1>11, <1>12, Steps

LEMMA SpecLayers == Spec => []LayersInv
<1>1. Init => LayersInv
  BY InitTypeInv, InitLayers DEF LayersInv
<1>2. LayersInv /\ [Next]_vars => LayersInv'
  BY NextTypeInv, NextLayers DEF LayersInv
<1> QED
  BY <1>1, <1>2, PTL DEF Spec

(* A request that reaches its handler has gone through every layer: it was *)
(* not stale, and its user and its share of the limit are those its        *)
(* credential vouches for.                                                 *)
THEOREM SpecHandledWereCleared == Spec => []HandledWereCleared
<1>1. LayersInv => HandledWereCleared
  <2>1. ASSUME LayersInv, NEW r \in admitted PROVE r \in Requests /\ Cleared(r)
    <3>1. r \in Requests
      BY <2>1, TypeParts DEF LayersInv, LimiterTypeOK
    <3> QED
      BY <2>1, <3>1 DEF LayersInv, Layers, LayersOf
  <2> QED
    BY <2>1 DEF HandledWereCleared, Cleared
<1> QED
  BY <1>1, SpecLayers, PTL

-----------------------------------------------------------------------------
(* The tables: a row is its file's first upload, what has been processed   *)
(* stays so, and an answer is about what was processed before it.          *)

RowsWritten == \A x \in Files : rows[x] # None => <<x, rows[x]>> \in wrote

Done(u) == <<u.of, u.user>> \in wrote /\ (rows[u.of] # None \/ u.of \in erased)

ResultsOf(r) ==
    jobs[r].pc # "idle" =>
        \A i \in DOMAIN jobs[r].results :
            /\ i \in DOMAIN Uploads(call(r))
            /\ jobs[r].results[i] => Done(Uploads(call(r))[i])
Theirs(x, user) == user # None /\ (rows[x] = user \/ x \in erased)
AnswerOf(r) ==
    /\ jobs[r].answer.files \subseteq Files
    /\ \A x \in jobs[r].answer.files : <<x, call(r).user>> \in wrote /\ Theirs(x, call(r).user)
    /\ (jobs[r].pc = "answered" /\ jobs[r].answer.success /\ IsUpload(call(r))) =>
          \A i \in DOMAIN Uploads(call(r)) : Done(Uploads(call(r))[i])
Books == RowsWritten /\ \A r \in Requests : ResultsOf(r) /\ AnswerOf(r)
BooksInv == TypeInv /\ Books

LEMMA InitBooks == Init => Books
<1> SUFFICES ASSUME Init PROVE Books
  OBVIOUS
<1>1. RowsWritten
  BY DEF Init, RowsWritten
<1>2. ASSUME NEW r \in Requests PROVE ResultsOf(r) /\ AnswerOf(r)
  <2>1. jobs[r].pc = "idle" /\ jobs[r].answer.files = {}
    BY DEF Init, Idle, NoAnswer
  <2> QED
    BY <2>1 DEF ResultsOf, AnswerOf
<1> QED
  BY <1>1, <1>2 DEF Books

(* Only an upload and a deletion write the tables, and neither undoes what *)
(* is done; a row has its user until it is deleted.                        *)
Grows ==
    /\ wrote \subseteq wrote'
    /\ \A x \in Files : (rows[x] # None \/ x \in erased) => (rows'[x] # None \/ x \in erased')
    /\ \A x \in Files : rows[x] = None \/ rows'[x] = rows[x] \/ x \in erased'
    /\ erased \subseteq erased'

LEMMA TablesGrow ==
    ASSUME BooksInv, [Next]_vars PROVE RowsWritten' /\ Grows
<1>0. TypeInv /\ TablesOK /\ RowsWritten
  BY TypeParts DEF BooksInv, Books
<1>1. ASSUME UNCHANGED tables PROVE RowsWritten' /\ Grows
  BY <1>0, <1>1 DEF tables, RowsWritten, Grows
<1>2. ASSUME NEW r \in Requests, NEW ok \in BOOLEAN, NEW took \in BOOLEAN,
             Processes(r, ok, took)
      PROVE  RowsWritten' /\ Grows
  <2> DEFINE u == Current(r)
  <2>1. /\ u \in Upload /\ (took => u.user \in Users)
        /\ rows' = IF took THEN Registered(rows, u) ELSE rows
        /\ wrote' = IF took THEN wrote \cup {<<u.of, u.user>>} ELSE wrote
        /\ UNCHANGED <<erased, deletions>>
    BY <1>0, <1>2, ProcessesTables
  <2> HIDE DEF u
  <2>2. CASE ~ took
    BY <1>1, <2>1, <2>2 DEF tables
  <2>3. CASE took
    <3>1. u.of \in Files /\ u.user # None
      BY <2>1, <2>3, GatewayAssumption DEF Upload
    <3>2. /\ \A x \in Files : rows'[x] = IF x = u.of /\ rows[x] = None THEN u.user ELSE rows[x]
          /\ wrote' = wrote \cup {<<u.of, u.user>>} /\ erased' = erased
      BY <1>0, <2>1, <2>3, <3>1 DEF Registered, TablesOK
    <3>3. RowsWritten'
      BY <1>0, <3>1, <3>2 DEF RowsWritten
    <3> QED
      BY <3>1, <3>2, <3>3 DEF Grows
  <2> QED
    BY <2>2, <2>3
<1>3. ASSUME NEW y \in Files, DeleteFile(y) PROVE RowsWritten' /\ Grows
  <2>1. /\ \A x \in Files : rows'[x] = IF x = y THEN None ELSE rows[x]
        /\ erased' = erased \cup {y} /\ wrote' = wrote
    BY <1>0, <1>3 DEF DeleteFile, TablesOK
  <2> QED
    BY <1>0, <2>1 DEF RowsWritten, Grows
<1>4. ASSUME NEW r \in Requests,
             \/ \E c \in Calls : Arrive(r, c)
             \/ Asks(r) \/ Admits(r) \/ StartsLimit(r)
             \/ \E u \in Users : Passes(r, u)
             \/ \E a \in AnswerType : Replies(r, a)
      PROVE  UNCHANGED tables
  BY <1>4 DEF Arrive, Asks, Admits, StartsLimit, Passes, Replies, tables, gatewayVars
<1>5. (UNCHANGED vars \/ UNCHANGED gatewayVars) => UNCHANGED tables
  BY DEF vars, gatewayVars, tables
<1> QED
  BY <1>0, <1>1, <1>2, <1>3, <1>4, <1>5, Steps

LEMMA DoneStays ==
    ASSUME Grows, NEW u \in Upload, Done(u) PROVE Done(u)'
BY DEF Grows, Done, Upload

(* A request whose call, results and answer stay keeps what is known of it. *)
LEMMA SameBooks ==
    ASSUME TypeInv, Grows, NEW q \in Requests, ResultsOf(q),
           jobs'[q].call = jobs[q].call, jobs'[q].results = jobs[q].results,
           jobs[q].pc # "idle"
    PROVE  ResultsOf(q)'
<1>1. Uploads(call(q)) \in Seq(Upload)
  BY UploadsTyped, TypeParts DEF RequestOK
<1>2. call(q)' = call(q) /\ Uploads(call(q))' = Uploads(call(q))
  BY DEF call, Uploads
<1>3. SUFFICES ASSUME NEW i \in DOMAIN jobs[q].results
               PROVE  /\ i \in DOMAIN Uploads(call(q))
                      /\ jobs[q].results[i] => Done(Uploads(call(q))[i])'
  BY <1>2 DEF ResultsOf, Done
<1>4. i \in DOMAIN Uploads(call(q)) /\ (jobs[q].results[i] => Done(Uploads(call(q))[i]))
  BY <1>3 DEF ResultsOf
<1>5. Uploads(call(q))[i] \in Upload
  BY <1>1, <1>4
<1> QED
  BY <1>2, <1>4, <1>5, DoneStays

LEMMA SameAnswer ==
    ASSUME TypeInv, Grows, NEW q \in Requests, AnswerOf(q),
           jobs'[q].call = jobs[q].call, jobs'[q].answer = jobs[q].answer,
           jobs'[q].pc = "answered" => jobs[q].pc = "answered"
    PROVE  AnswerOf(q)'
<1>1. call(q)' = call(q) /\ Uploads(call(q))' = Uploads(call(q))
  BY DEF call, Uploads
<1>2. /\ jobs'[q].answer.files \subseteq Files
      /\ \A x \in jobs'[q].answer.files :
            <<x, call(q).user>> \in wrote' /\ Theirs(x, call(q).user)'
  <2>1. \A x \in jobs[q].answer.files :
           x \in Files /\ <<x, call(q).user>> \in wrote' /\ Theirs(x, call(q).user)
    BY DEF AnswerOf, Grows
  <2>2. \A x \in jobs[q].answer.files : Theirs(x, call(q).user)'
    BY <1>1, <2>1 DEF Theirs, Grows
  <2> QED
    BY <2>1, <2>2
<1>3. ASSUME jobs'[q].pc = "answered", jobs'[q].answer.success, IsUpload(call(q)),
             NEW i \in DOMAIN Uploads(call(q))
      PROVE  Done(Uploads(call(q))[i])'
  <2>1. Uploads(call(q)) \in Seq(Upload)
    BY <1>3, UploadsTyped, TypeParts DEF RequestOK
  <2>2. Uploads(call(q))[i] \in Upload /\ Done(Uploads(call(q))[i])
    BY <1>3, <2>1 DEF AnswerOf
  <2> QED
    BY <1>1, <2>2, DoneStays
<1>4. IsUpload(call(q))' = IsUpload(call(q))
  BY <1>1 DEF IsUpload
<1> QED
  BY <1>1, <1>2, <1>3, <1>4 DEF AnswerOf

(* The two cases that add to what is known: a processed upload, an answer. *)
LEMMA ProcessesBooks ==
    ASSUME BooksInv, Grows, NEW r \in Requests, NEW ok \in BOOLEAN, NEW took \in BOOLEAN,
           Processes(r, ok, took)
    PROVE  ResultsOf(r)'
<1> DEFINE rs == jobs[r].results
           us == Uploads(call(r))
<1>0. TypeInv /\ TablesOK /\ jobs \in [Requests -> Job] /\ ResultsOf(r)
  BY TypeParts DEF BooksInv, Books
<1>1. /\ jobs'[r].call = jobs[r].call /\ rs \in Seq(BOOLEAN)
      /\ jobs'[r].results = Append(rs, ok)
  BY <1>0, ProcessesEffect
<1>2. PICK u \in Upload :
        /\ u = Current(r) /\ Len(rs) + 1 \in DOMAIN us
        /\ (took => u.user \in Users)
        /\ rows' = IF took THEN Registered(rows, u) ELSE rows
        /\ wrote' = IF took THEN wrote \cup {<<u.of, u.user>>} ELSE wrote
        /\ ok => took
  BY <1>0, ProcessesTables
<1>3. jobs[r].pc = "handler" /\ u = us[Len(rs) + 1]
  BY <1>2 DEF Processes, Current
<1>4. us \in Seq(Upload)
  BY <1>0, <1>3, UploadsTyped, TypeParts DEF RequestOK
<1>5. call(r)' = call(r) /\ Uploads(call(r))' = us
  BY <1>1 DEF call, Uploads
<1>6. ok => Done(u)'
  <2>1. u.of \in Files
    BY <1>2 DEF Upload
  <2>2. took => u.user # None
    BY <1>2, GatewayAssumption
  <2>3. took => rows'[u.of] # None
    BY <1>0, <1>2, <2>1, <2>2 DEF Registered, TablesOK
  <2>4. took => <<u.of, u.user>> \in wrote'
    BY <1>2
  <2> QED
    BY <1>2, <2>3, <2>4 DEF Done
<1>7. ASSUME NEW i \in 1..Len(rs)
      PROVE  i \in DOMAIN us /\ (rs[i] => Done(us[i])')
  <2>1. i \in DOMAIN rs
    BY <1>1
  <2>2. i \in DOMAIN us /\ (rs[i] => Done(us[i]))
    BY <1>0, <1>3, <2>1 DEF ResultsOf
  <2>3. us[i] \in Upload
    BY <1>4, <2>2
  <2> QED
    BY <1>5, <2>2, <2>3, DoneStays
<1>8. ASSUME NEW i \in DOMAIN jobs'[r].results
      PROVE  i \in DOMAIN us /\ (jobs'[r].results[i] => Done(us[i])')
  <2>1. i \in 1..Len(rs) + 1 /\ Len(rs) \in Nat
    BY <1>1, <1>8
  <2>2. CASE i \in 1..Len(rs)
    <3>1. jobs'[r].results[i] = rs[i]
      BY <1>1, <2>2
    <3> QED
      BY <1>7, <2>2, <3>1
  <2>3. CASE i = Len(rs) + 1
    <3>1. jobs'[r].results[i] = ok
      BY <1>1, <2>3
    <3>2. us[i] = u /\ us[i]' = us[i] /\ i \in DOMAIN us
      BY <1>2, <1>3, <1>5, <2>3
    <3> HIDE DEF us
    <3>3. Done(us[i])' = Done(u)'
      BY <3>2 DEF Done
    <3> QED
      BY <1>6, <3>1, <3>2, <3>3
  <2> QED
    BY <2>1, <2>2, <2>3
<1> QED
  BY <1>5, <1>8 DEF ResultsOf, Done

LEMMA RepliesBooks ==
    ASSUME BooksInv, Grows, NEW r \in Requests, NEW a \in AnswerType, Replies(r, a)
    PROVE  AnswerOf(r)'
<1>0. TypeInv /\ TablesOK /\ RowsWritten /\ jobs \in [Requests -> Job] /\ ResultsOf(r)
  BY TypeParts DEF BooksInv, Books
<1>1. jobs'[r].call = jobs[r].call /\ jobs'[r].answer = a
  BY <1>0, AnswersEffect DEF Replies
<1>2. call(r)' = call(r) /\ Uploads(call(r))' = Uploads(call(r))
  BY <1>1 DEF call, Uploads
<1>3. /\ a.files \subseteq Files
      /\ \A x \in a.files : <<x, call(r).user>> \in wrote' /\ Theirs(x, call(r).user)'
  <2>1. \A x \in a.files : call(r).user # None /\ rows[x] = call(r).user /\ x \in Files
    BY DEF Replies, AnswerType
  <2>2. \A x \in a.files : Theirs(x, call(r).user)'
    BY <1>2, <2>1 DEF Theirs, Grows
  <2> QED
    BY <1>0, <2>1, <2>2 DEF RowsWritten, Grows
<1>4. ASSUME a.success, IsUpload(call(r)), NEW i \in DOMAIN Uploads(call(r))
      PROVE  Done(Uploads(call(r))[i])'
  <2>1. /\ jobs[r].pc = "handler" /\ Len(jobs[r].results) = Len(Uploads(call(r)))
        /\ Success(jobs[r].results)
    BY <1>4 DEF Replies
  <2>2. Uploads(call(r)) \in Seq(Upload)
    BY <1>0, <2>1, UploadsTyped, TypeParts DEF RequestOK
  <2>3. jobs[r].results \in Seq(BOOLEAN)
    BY <1>0, JobFields DEF Results
  <2>4. i \in DOMAIN jobs[r].results /\ jobs[r].results[i]
    BY <1>4, <2>1, <2>2, <2>3 DEF Success, Contains
  <2>5. Done(Uploads(call(r))[i]) /\ Uploads(call(r))[i] \in Upload
    BY <1>0, <1>4, <2>1, <2>2, <2>4 DEF ResultsOf
  <2> QED
    BY <1>2, <2>5, DoneStays
<1>5. IsUpload(call(r))' = IsUpload(call(r))
  BY <1>2 DEF IsUpload
<1> QED
  BY <1>1, <1>2, <1>3, <1>4, <1>5 DEF AnswerOf, Done

LEMMA NextBooks == BooksInv /\ [Next]_vars => Books'
<1> SUFFICES ASSUME BooksInv, [Next]_vars PROVE Books'
  OBVIOUS
<1>0. /\ TypeInv /\ jobs \in [Requests -> Job]
      /\ \A r \in Requests : ResultsOf(r) /\ AnswerOf(r) /\ RequestOK(r)
  BY TypeParts DEF BooksInv, Books
<1>1. RowsWritten' /\ Grows
  BY TablesGrow
<1>2. ASSUME NEW q \in Requests, jobs'[q] = jobs[q] PROVE ResultsOf(q)' /\ AnswerOf(q)'
  <2>1. AnswerOf(q)'
    BY <1>0, <1>1, <1>2, SameAnswer
  <2>2. CASE jobs[q].pc = "idle"
    BY <1>2, <2>1, <2>2 DEF ResultsOf
  <2>3. CASE jobs[q].pc # "idle"
    BY <1>0, <1>1, <1>2, <2>1, <2>3, SameBooks
  <2> QED
    BY <2>2, <2>3
<1>3. ASSUME jobs' = jobs PROVE Books'
  BY <1>1, <1>2, <1>3 DEF Books
<1>4. ASSUME NEW r \in Requests, Only(r), ResultsOf(r)', AnswerOf(r)' PROVE Books'
  BY <1>1, <1>2, <1>4 DEF Books, Only
(* A step that leaves the call, results and answer of its request.          *)
<1>5. ASSUME NEW r \in Requests, Only(r), jobs[r].pc # "idle", jobs'[r].pc # "answered",
             jobs'[r].call = jobs[r].call, jobs'[r].results = jobs[r].results,
             jobs'[r].answer = jobs[r].answer
      PROVE  Books'
  <2>1. ResultsOf(r)'
    BY <1>0, <1>1, <1>5, SameBooks
  <2>2. AnswerOf(r)'
    BY <1>0, <1>1, <1>5, SameAnswer
  <2> QED
    BY <1>4, <1>5, <2>1, <2>2
<1>6. ASSUME NEW r \in Requests, NEW c \in Calls, Arrive(r, c) PROVE Books'
  <2>1. /\ Only(r) /\ jobs'[r].call = c /\ jobs'[r].results = <<>>
        /\ jobs'[r].answer.files = {} /\ (jobs'[r].answer.success => c.route = "health")
    BY <1>0, <1>6, ArriveEffect DEF TypeInv
  <2>2. ResultsOf(r)'
    BY <2>1 DEF ResultsOf
  <2>3. AnswerOf(r)'
    BY <2>1 DEF AnswerOf, IsUpload, call
  <2> QED
    BY <1>4, <2>1, <2>2, <2>3
<1>7. ASSUME NEW r \in Requests, Asks(r) PROVE Books'
  <2>0. Goes(r, "asking") /\ "asking" \in PCs /\ jobs[r].pc = "auth"
    BY <1>7 DEF Asks, PCs
  <2>1. /\ Only(r) /\ jobs'[r].pc = "asking" /\ jobs'[r].call = jobs[r].call
        /\ jobs'[r].results = jobs[r].results /\ jobs'[r].answer = jobs[r].answer
    BY <1>0, <2>0, GoesEffect
  <2> QED
    BY <1>5, <2>0, <2>1
<1>8. ASSUME NEW r \in Requests, Admits(r) PROVE Books'
  <2>0. Goes(r, "handler") /\ "handler" \in PCs /\ jobs[r].pc = "limit"
    BY <1>8 DEF Admits, PCs
  <2>1. /\ Only(r) /\ jobs'[r].pc = "handler" /\ jobs'[r].call = jobs[r].call
        /\ jobs'[r].results = jobs[r].results /\ jobs'[r].answer = jobs[r].answer
    BY <1>0, <2>0, GoesEffect
  <2> QED
    BY <1>5, <2>0, <2>1
<1>9. ASSUME NEW r \in Requests, NEW u \in Users, Passes(r, u) PROVE Books'
  <2>0. Authenticated(r, u) /\ jobs[r].pc \in {"auth", "asking"}
    BY <1>9 DEF Passes
  <2>1. /\ Only(r) /\ jobs'[r].pc = "limit" /\ jobs'[r].call = jobs[r].call
        /\ jobs'[r].results = jobs[r].results /\ jobs'[r].answer = jobs[r].answer
    BY <1>0, <2>0, AuthenticatedEffect
  <2> QED
    BY <1>5, <2>0, <2>1
<1>10. ASSUME NEW r \in Requests, NEW a \in AnswerType, Replies(r, a) PROVE Books'
  <2>0. Answers(r, a) /\ jobs[r].pc # "idle"
    BY <1>10 DEF Replies
  <2>1. Only(r) /\ jobs'[r].call = jobs[r].call /\ jobs'[r].results = jobs[r].results
    BY <1>0, <2>0, AnswersEffect
  <2>2. ResultsOf(r)'
    BY <1>0, <1>1, <2>0, <2>1, SameBooks
  <2>3. AnswerOf(r)'
    BY <1>1, <1>10, RepliesBooks
  <2> QED
    BY <1>4, <2>1, <2>2, <2>3
<1>11. ASSUME NEW r \in Requests, NEW ok \in BOOLEAN, NEW took \in BOOLEAN,
              Processes(r, ok, took)
       PROVE  Books'
  <2>1. /\ Only(r) /\ jobs'[r].pc = jobs[r].pc /\ jobs'[r].call = jobs[r].call
        /\ jobs'[r].answer = jobs[r].answer
    BY <1>0, <1>11, ProcessesEffect
  <2>2. ResultsOf(r)'
    BY <1>1, <1>11, ProcessesBooks
  <2>3. AnswerOf(r)'
    BY <1>0, <1>1, <2>1, SameAnswer
  <2> QED
    BY <1>4, <2>1, <2>2, <2>3
<1>12. ASSUME NEW r \in Requests, StartsLimit(r) PROVE Books'
  BY <1>3, <1>12 DEF StartsLimit, gatewayVars
<1>13. ASSUME NEW x \in Files, DeleteFile(x) PROVE Books'
  BY <1>3, <1>13 DEF DeleteFile
<1>14. (UNCHANGED gatewayVars \/ UNCHANGED vars) => jobs' = jobs
  BY DEF vars, gatewayVars
<1> QED
  BY <1>0, <1>3, <1>6, <1>7, <1>8, <1>9, <1>10, <1>11, <1>12, <1>13, <1>14, Steps

LEMMA SpecBooks == Spec => []BooksInv
<1>1. Init => BooksInv
  BY InitTypeInv, InitBooks DEF BooksInv
<1>2. BooksInv /\ [Next]_vars => BooksInv'
  BY NextTypeInv, NextBooks DEF BooksInv
<1> QED
  BY <1>1, <1>2, PTL DEF Spec

(* A file that a status counts was processed for the user its header       *)
(* names, since a row never gets a user its file was not processed for, and *)
(* stays that user's until it is deleted, since a row keeps its first user. *)
THEOREM SpecCountedStayTheirs == Spec => []CountedStayTheirs
<1>1. BooksInv => CountedStayTheirs
  BY DEF BooksInv, Books, AnswerOf, Theirs, CountedStayTheirs
<1> QED
  BY <1>1, SpecBooks, PTL

(* An upload answered with success has all of its files registered, unless *)
(* a deletion came in between.                                             *)
THEOREM SpecSuccessMeansRegistered == Spec => []SuccessMeansRegistered
<1>1. BooksInv => SuccessMeansRegistered
  BY DEF BooksInv, Books, AnswerOf, Done, SuccessMeansRegistered
<1> QED
  BY <1>1, SpecBooks, PTL
============================================================================
