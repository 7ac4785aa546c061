----------------------------- MODULE JevClient ------------------------------
(***************************************************************************)
(* The Jev client of one process (packages/connectors/jev.py): the cost    *)
(* guard in front of the decision gateway.  A call is checked under the    *)
(* lock, sent without it, and recorded under it again when a usable answer *)
(* has come back, so several coroutines may pass the check together.       *)
(*                                                                         *)
(* The scheduler's scorer is one coroutine that asks as "evaluator" and as *)
(* "tclk"; requests of the API ask as "selfcheck", several at a time.      *)
(***************************************************************************)
EXTENDS Integers, Sequences, FiniteSets

CONSTANTS
    Coroutines,           \* coroutines of an API process
    CALLS_PER_MINUTE,     \* JEV_MAX_CALLS_PER_MINUTE
    DAILY_CALL_CAP,       \* JEV_DAILY_CALL_CAP
    EVALUATOR_PER_MINUTE, \* JEV_EVALUATOR_MAX_CALLS_PER_MINUTE
    Minute, Day,          \* the two windows, in ticks
    Backoffs,             \* backoffs a 429 may ask for, in ticks
    MaxNow,               \* bound on the clock
    MaxRecorded           \* bound on the calls recorded

ASSUME JevAssumption ==
    /\ {CALLS_PER_MINUTE, DAILY_CALL_CAP, EVALUATOR_PER_MINUTE, Minute, Day} \subseteq Nat \ {0}
    /\ Backoffs \subseteq Nat /\ MaxNow \in Nat /\ MaxRecorded \in Nat
    /\ IsFiniteSet(Coroutines) /\ Coroutines # {}

VARIABLES
    jvProcess,   \* "scheduler" or "api"
    jvNow,       \* time.time()
    jvCalls,     \* calls recorded: _call_times and _purpose_times
    jvDay,       \* _day, -1 before the first check
    jvDayCalls,  \* _day_calls
    jvOpenUntil, \* _open_until
    jvAsking,    \* purpose each coroutine has in flight, "none" otherwise
    jvPromised   \* latest moment the gateway has asked to be left alone until (history)

jvVars == <<jvProcess, jvNow, jvCalls, jvDay, jvDayCalls, jvOpenUntil, jvAsking, jvPromised>>

Purposes == {"evaluator", "tclk", "selfcheck"}

\* The scorer is one of the names, so that both processes share a type.
Askers == IF jvProcess = "api" THEN Coroutines ELSE {CHOOSE c \in Coroutines : TRUE}
PurposesHere == IF jvProcess = "api" THEN {"selfcheck"} ELSE {"evaluator", "tclk"}

Today == jvNow \div Day

\* Recorded calls of the purposes P in the minute that ends now.
Recent(P) == {i \in DOMAIN jvCalls : jvCalls[i].purpose \in P /\ jvNow - jvCalls[i].at < Minute}

InFlight(P) == {c \in Coroutines : jvAsking[c] \in P}

purpose_cap_ok(purpose) ==
    purpose = "evaluator" => Cardinality(Recent({"evaluator"})) < EVALUATOR_PER_MINUTE

JvInit ==
    /\ jvProcess \in {"scheduler", "api"}
    /\ jvNow = 0 /\ jvCalls = << >> /\ jvDay = -1 /\ jvDayCalls = 0
    /\ jvOpenUntil = 0 /\ jvPromised = 0
    /\ jvAsking = [c \in Coroutines |-> "none"]

\* _cap_check: an open circuit refuses before the day is rolled over.
CapCheck(c, purpose) ==
    /\ jvAsking[c] = "none"
    /\ jvNow >= jvOpenUntil
    /\ jvDay' = Today
    /\ jvDayCalls' = IF Today # jvDay THEN 0 ELSE jvDayCalls
    /\ IF /\ jvDayCalls' < DAILY_CALL_CAP
          /\ Cardinality(Recent(Purposes)) < CALLS_PER_MINUTE
          /\ purpose_cap_ok(purpose)
       THEN jvAsking' = [jvAsking EXCEPT ![c] = purpose]
       ELSE UNCHANGED jvAsking
    /\ UNCHANGED <<jvProcess, jvNow, jvCalls, jvOpenUntil, jvPromised>>

\* A usable answer: _record_call counts it at the moment it came back, for
\* the day of the last check.
Answered(c) ==
    /\ jvAsking[c] # "none" /\ Len(jvCalls) < MaxRecorded
    /\ jvCalls' = Append(jvCalls, [at |-> jvNow, purpose |-> jvAsking[c]])
    /\ jvDayCalls' = jvDayCalls + 1
    /\ jvAsking' = [jvAsking EXCEPT ![c] = "none"]
    /\ UNCHANGED <<jvProcess, jvNow, jvDay, jvOpenUntil, jvPromised>>

Later(a, b) == IF a >= b THEN a ELSE b

\* Mutant: the last 429 decides.
TripBreakerShortens(seconds) == jvOpenUntil' = jvNow + Later(1, seconds)

\* _trip_breaker: a later 429 never shortens an earlier backoff.
TripBreaker(seconds) == jvOpenUntil' = Later(jvOpenUntil, jvNow + Later(1, seconds))

RateLimited(c, seconds) ==
    /\ jvAsking[c] # "none"
    /\ TripBreaker(seconds)
    /\ jvPromised' = Later(jvPromised, jvNow + seconds)
    /\ jvAsking' = [jvAsking EXCEPT ![c] = "none"]
    /\ UNCHANGED <<jvProcess, jvNow, jvCalls, jvDay, jvDayCalls>>

\* A timeout, an error, an empty answer: nothing is counted.
Failed(c) ==
    /\ jvAsking[c] # "none"
    /\ jvAsking' = [jvAsking EXCEPT ![c] = "none"]
    /\ UNCHANGED <<jvProcess, jvNow, jvCalls, jvDay, jvDayCalls, jvOpenUntil, jvPromised>>

Tick ==
    /\ jvNow < MaxNow /\ jvNow' = jvNow + 1
    /\ UNCHANGED <<jvProcess, jvCalls, jvDay, jvDayCalls, jvOpenUntil, jvAsking, jvPromised>>

JvNext ==
    \/ \E c \in Askers :
          \/ \E p \in PurposesHere : CapCheck(c, p)
          \/ Answered(c)
          \/ \E s \in Backoffs : RateLimited(c, s)
          \/ Failed(c)
    \/ Tick

JvSpec == JvInit /\ [][JvNext]_jvVars
-----------------------------------------------------------------------------
(***************************************************************************)
(* Properties.                                                             *)
(***************************************************************************)

\* Coroutines that pass the check together overshoot the minute's cap by at
\* most one call each but one, in flight or recorded; a lone caller never
\* does (_cap_check, _record_call).
MinuteCapHolds ==
    Cardinality(Recent(Purposes)) + Cardinality(InFlight(Purposes))
        <= CALLS_PER_MINUTE + Cardinality(Askers) - 1

\* The evaluator leaves the rest of the minute to the decisions that gate
\* actions: its own calls, in flight or recorded, stay under its own cap.
EvaluatorLeavesRoom ==
    Cardinality(Recent({"evaluator"})) + Cardinality(InFlight({"evaluator"})) <= EVALUATOR_PER_MINUTE

\* The calls recorded since midnight.
TodaysCalls == {i \in DOMAIN jvCalls : jvCalls[i].at \div Day = Today}

\* A day's calls: those that pass the check together, and those that began
\* before midnight and end after it, which the next check forgets.
DayCapHolds ==
    Cardinality(TodaysCalls) <= DAILY_CALL_CAP + 2 * Cardinality(Askers) - 1

\* After a 429 no call starts before the gateway's backoff is over, also when
\* another call's 429 arrives meanwhile with a shorter one.
BackoffIsHonoured ==
    [][\A c \in Coroutines : jvAsking[c] = "none" /\ jvAsking'[c] # "none" => jvNow >= jvPromised]_jvVars

\* The cost guard, all in all: the caps of the minute, of the evaluator and of
\* the day hold up to the calls that pass the check together, and a 429 counts.
GatewayIsSpared ==
    /\ [](MinuteCapHolds /\ EvaluatorLeavesRoom /\ DayCapHolds)
    /\ BackoffIsHonoured

(***************************************************************************)
(* What a step relies on for the guard to survive it.                      *)
(***************************************************************************)

JvTypeOK ==
    /\ jvProcess \in {"scheduler", "api"}
    /\ jvNow \in Nat /\ jvDay \in Nat \cup {-1} /\ jvDayCalls \in Nat
    /\ jvOpenUntil \in Nat /\ jvPromised \in Nat
    /\ jvCalls \in Seq([at : Nat, purpose : Purposes])
    /\ jvAsking \in [Coroutines -> Purposes \cup {"none"}]

\* Calls are of this process, and none is recorded ahead of its time.
CallsAreOurs ==
    /\ \A c \in Coroutines : jvAsking[c] # "none" => c \in Askers /\ jvAsking[c] \in PurposesHere
    /\ \A i \in DOMAIN jvCalls : jvCalls[i].at <= jvNow /\ jvCalls[i].purpose \in PurposesHere

\* The open circuit covers every backoff asked for.
BackoffIsCovered == jvPromised <= jvOpenUntil

\* The day's counter misses no call but those in flight at midnight.
DayIsCounted ==
    /\ jvDay <= Today
    /\ jvDayCalls + Cardinality(InFlight(Purposes)) <= DAILY_CALL_CAP + Cardinality(Askers) - 1
    /\ jvDay = Today => Cardinality(TodaysCalls) <= jvDayCalls + Cardinality(Askers)
    /\ jvDay # Today => Cardinality(TodaysCalls) + Cardinality(InFlight(Purposes)) <= Cardinality(Askers)

JevInv ==
    /\ JvTypeOK /\ CallsAreOurs /\ BackoffIsCovered
    /\ MinuteCapHolds /\ EvaluatorLeavesRoom /\ DayIsCounted
=============================================================================
