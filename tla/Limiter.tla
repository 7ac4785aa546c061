------------------------------ MODULE Limiter -------------------------------
(***************************************************************************)
(* RateLimiter.check (observability/auth.py) for one key: a fixed window   *)
(* counted in Redis, and a sliding window in memory whenever Redis fails.  *)
(*                                                                         *)
(* Time is relative: what expires is kept with the ticks it has left, so   *)
(* a behaviour may be as long as it likes.  The counter is only compared   *)
(* with 1 and with the limit and stops one above it.                       *)
(***************************************************************************)
EXTENDS Integers, Sequences, FiniteSets

CONSTANTS
    Checks,          \* requests under way
    RATE_LIMIT,      \* limit
    WINDOW,          \* window_seconds, in ticks
    LiMaxFaults      \* bound on failing Redis commands and restarts

ASSUME LimiterAssumption == RATE_LIMIT \in Nat /\ WINDOW \in Nat \ {0} /\ LiMaxFaults \in Nat

VARIABLES
    liCount,     \* the counter in Redis; 0: there is no such key
    liTtl,       \* ticks before the key expires, or NoTtl
    liPc,        \* per check: "idle", or "first" between INCR and EXPIRE
    liMem,       \* _mem[key]: its times as ticks left in the window, oldest first
    liByRedis, liByMem,   \* history: what either has admitted in the last WINDOW ticks
    liTtlLost,   \* history: an EXPIRE failed, or its process died before it
    liFaults

liVars == <<liCount, liTtl, liPc, liMem, liByRedis, liByMem, liTtlLost, liFaults>>

NoTtl == -1
Ages == 1 .. WINDOW

\* A time enters a window and, WINDOW ticks later, leaves it: in the order they came.
Admit(window) == Append(window, WINDOW)
Older(window) ==
    LET gone == Cardinality({k \in DOMAIN window : window[k] = 1})
    IN  [k \in 1 .. Len(window) - gone |-> window[k + gone] - 1]

LiInit ==
    /\ liCount = 0 /\ liTtl = NoTtl /\ liPc = [c \in Checks |-> "idle"]
    /\ liMem = <<>> /\ liByRedis = <<>> /\ liByMem = <<>>
    /\ liTtlLost = FALSE /\ liFaults = 0

\* return count <= limit
ByCounter(count) ==
    liByRedis' = IF count <= RATE_LIMIT THEN Admit(liByRedis) ELSE liByRedis

\* The fallback: the times still in the window, and this one if there is room.
ByMemory ==
    IF Len(liMem) >= RATE_LIMIT
    THEN UNCHANGED <<liMem, liByMem>>
    ELSE liMem' = Admit(liMem) /\ liByMem' = Admit(liByMem)

LiFault == liFaults < LiMaxFaults /\ liFaults' = liFaults + 1

\* Mutant of Incr: every hit renews the TTL.
IncrRenews(c) ==
    /\ liPc[c] = "idle"
    /\ liCount' = IF liCount >= RATE_LIMIT THEN RATE_LIMIT + 1 ELSE liCount + 1
    /\ liTtl' = WINDOW /\ ByCounter(liCount + 1)
    /\ UNCHANGED <<liPc, liMem, liByMem, liTtlLost, liFaults>>

\* INCR; only the check that creates the counter goes on to EXPIRE.
Incr(c) ==
    /\ liPc[c] = "idle"
    /\ LET count == liCount + 1 IN
         /\ liCount' = IF count > RATE_LIMIT THEN RATE_LIMIT + 1 ELSE count
         /\ IF count = 1
            THEN liPc' = [liPc EXCEPT ![c] = "first"] /\ UNCHANGED liByRedis
            ELSE ByCounter(count) /\ UNCHANGED liPc
    /\ UNCHANGED <<liTtl, liMem, liByMem, liTtlLost, liFaults>>

Expire(c) ==
    /\ liPc[c] = "first"
    /\ liTtl' = WINDOW /\ liPc' = [liPc EXCEPT ![c] = "idle"] /\ ByCounter(1)
    /\ UNCHANGED <<liCount, liMem, liByMem, liTtlLost, liFaults>>

\* INCR raises, carried out or not: the memory decides.
IncrFails(c) ==
    /\ liPc[c] = "idle" /\ LiFault /\ ByMemory
    /\ \/ UNCHANGED <<liCount, liTtlLost>>
       \/ /\ liCount' = IF liCount >= RATE_LIMIT THEN RATE_LIMIT + 1 ELSE liCount + 1
          /\ liTtlLost' = (liTtlLost \/ liCount = 0)
    /\ UNCHANGED <<liTtl, liPc, liByRedis>>

\* EXPIRE raises: the memory decides, and the key may be left without a TTL.
ExpireFails(c) ==
    /\ liPc[c] = "first" /\ LiFault /\ ByMemory
    /\ liPc' = [liPc EXCEPT ![c] = "idle"]
    /\ \/ liTtl' = WINDOW /\ UNCHANGED liTtlLost
       \/ liTtlLost' = TRUE /\ UNCHANGED liTtl
    /\ UNCHANGED <<liCount, liByRedis>>

\* The API process dies and starts again with an empty memory.
LiRestart ==
    /\ LiFault
    /\ liPc' = [c \in Checks |-> "idle"] /\ liMem' = <<>> /\ liByMem' = <<>>
    /\ liTtlLost' = (liTtlLost \/ \E c \in Checks : liPc[c] = "first")
    /\ UNCHANGED <<liCount, liTtl, liByRedis>>

\* A tick: a key whose time is up is gone.
LiTick ==
    /\ liTtl' = IF liTtl \in {NoTtl, 1} THEN NoTtl ELSE liTtl - 1
    /\ liCount' = IF liTtl = 1 THEN 0 ELSE liCount
    /\ liMem' = Older(liMem) /\ liByRedis' = Older(liByRedis) /\ liByMem' = Older(liByMem)
    /\ UNCHANGED <<liPc, liTtlLost, liFaults>>

LiNext ==
    \/ LiTick \/ LiRestart
    \/ \E c \in Checks : Incr(c) \/ Expire(c) \/ IncrFails(c) \/ ExpireFails(c)

LiSpec == LiInit /\ [][LiNext]_liVars /\ WF_liVars(LiTick) /\ \A c \in Checks : WF_liVars(Expire(c))

-----------------------------------------------------------------------------
\* "Fixed window": between them, two windows that touch admit twice the limit
\* within one window's time, and no more; the memory, whose window slides,
\* admits the limit itself, as long as its process lives.
BurstIsBounded == Len(liByRedis) <= 2 * RATE_LIMIT /\ Len(liByMem) <= RATE_LIMIT

\* Why: of what Redis has admitted, the oldest were admitted under an earlier
\* counter and leave the window no later than the present one ends; the
\* others, and the check that has still to answer, the present one has counted.
Pending == {c \in Checks : liPc[c] = "first"}
InOrder(window) == \A j, k \in DOMAIN window : j <= k => window[j] <= window[k]
LiTyped ==
    /\ liCount \in 0 .. RATE_LIMIT + 1 /\ liTtl \in {NoTtl} \cup Ages
    /\ liPc \in [Checks -> {"idle", "first"}]
    /\ liByRedis \in Seq(Ages) /\ InOrder(liByRedis)
    /\ liByMem \in Seq(Ages) /\ InOrder(liByMem) /\ liMem = liByMem
KeyInv ==
    /\ liCount = 0 => liTtl = NoTtl /\ Pending = {}
    /\ Pending # {} => liTtl = NoTtl
    /\ \A c, d \in Pending : c = d
OfWindows(old) ==
    /\ old <= RATE_LIMIT
    /\ liTtl # NoTtl => \A k \in 1 .. old : liByRedis[k] <= liTtl
    /\ LET new == Len(liByRedis) - old  asked == IF Pending = {} THEN 0 ELSE 1 IN
         /\ new + asked <= liCount /\ new <= RATE_LIMIT
         /\ asked = 1 /\ RATE_LIMIT > 0 => new < RATE_LIMIT
LimiterInv ==
    /\ LiTyped /\ KeyInv
    /\ \E old \in 0 .. Len(liByRedis) : OfWindows(old)
    /\ Len(liByMem) <= RATE_LIMIT

\* Not "a bucket that never drains under steady traffic": however many
\* requests come, the counter is gone again after a while, unless its EXPIRE
\* was lost, which nothing repairs.
CounterDrains == liCount > 0 ~> (liCount = 0 \/ liTtlLost)

\* A fixed window: it lets a bounded burst through, and it ends.
WindowIsFixed == []BurstIsBounded /\ CounterDrains
=============================================================================
