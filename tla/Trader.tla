------------------------------- MODULE Trader -------------------------------
(***************************************************************************)
(* The prediction-market trader (apps/earn/trader.py).  A cycle loads the  *)
(* state file, reads prices, balance, payouts and the official surfaces,   *)
(* builds a list of orders (coherence edges first, then participation      *)
(* fills under the daily budget), posts them one by one and saves the      *)
(* state once, at the end.  The list depends on nothing but the prices and *)
(* the budget read at the start, so the model makes each order when it is  *)
(* posted.                                                                 *)
(*                                                                         *)
(* Prices are in thousandths; money (shares times price) too.              *)
(***************************************************************************)
EXTENDS Integers, Sequences, FiniteSets, SequencesExt

CONSTANTS
    MARKETS,       \* the open markets, in the order of their ids
    Nested,        \* pairs <<narrower, wider>> the rules nest: P(narrower) <= P(wider)
    VIEWS,         \* the markets the documented stance sells
    Prices,        \* prices of YES
    DAILY_BUDGET, ORDER_SHARES, COHERENCE_MIN,
    Surfaces,      \* the watched pages and repositories
    MaxVersion,    \* bound: changes of one surface
    TrMaxCycles, TrMaxCrashes

ASSUME TraderAssumption ==
    /\ Prices \subseteq 0 .. 1000 /\ DAILY_BUDGET \in Nat /\ ORDER_SHARES \in Nat
    /\ Nested \in Seq([narrow : Range(MARKETS), wide : Range(MARKETS), chain : BOOLEAN])

VARIABLES
    trFile,     \* state.json: the day, filled_today and the baseline of each surface
    trSt,       \* the cycle's copy
    trPx,       \* the prices the cycle read
    trLeft,     \* budget_left: what fills of the cycle may still cost
    trAt,       \* the order that is next: a pair of Nested, or a market behind them
    trHits,     \* surfaces found changed in this cycle
    trPc,
    trVersion,  \* the surfaces as published
    trLogged,   \* history: newest version of each surface reported as news
    trFirst,    \* history: the version first recorded as baseline
    trDay,      \* the day of the last cycle
    trFilled,   \* history: participation fills of the day, at the quoted price
    trLost,     \* history: cycles of the day that lost count of a fill
    trSlipped,  \* history: this cycle is one of them
    trCycles, trCrashes

trCycle == <<trPx, trLeft, trAt>>
trCount == <<trFilled, trLost, trSlipped>>

trVars == <<trFile, trSt, trCycle, trHits, trPc, trVersion, trLogged, trFirst, trDay, trCount,
            trCycles, trCrashes>>

NONE == -1     \* no baseline
BROKEN == -2   \* what an error page shows: none of the links looked for
Ids == Range(MARKETS)
NoPrices == [m \in Ids |-> 0]

TrInit ==
    /\ trFile = [day |-> 0, filled |-> 0, base |-> [s \in Surfaces |-> NONE]]
    /\ trSt = trFile
    /\ trPx = NoPrices /\ trLeft = 0 /\ trAt = 1
    /\ trHits = {} /\ trPc = "idle"
    /\ trVersion = [s \in Surfaces |-> 0]
    /\ trLogged = [s \in Surfaces |-> NONE]
    /\ trFirst = [s \in Surfaces |-> NONE]
    /\ trDay = 0 /\ trFilled = 0 /\ trLost = 0 /\ trSlipped = FALSE
    /\ trCycles = 0 /\ trCrashes = 0

-----------------------------------------------------------------------------
(* price_of: the price of YES is read, from the House's odds line or the   *)
(* daily snapshot; NO is its complement.                                   *)
price_of(px, m, outcome) == IF outcome = "YES" THEN px[m] ELSE 1000 - px[m]

LowerOf(a, b) == IF a < b THEN a ELSE b
HigherOf(a, b) == IF a > b THEN a ELSE b

(* The limit of an order: 6% and one cent above the price, at most 0.995.  *)
Limit(p) == LowerOf(995, (p * 106) \div 100 + 10)

(* probe_coherence: a pair that breaks the nesting is an edge.             *)
probe_coherence(n) == trPx[n.narrow] - trPx[n.wide] > COHERENCE_MIN

(* In the chain of deadlines the later market is the cheap leg and is      *)
(* bought; of m16's Q4 outcome and m03 the code buys the one that is too   *)
(* dear.  Nested marks the first kind by its field.                        *)
EdgePrice(n) == price_of(trPx, IF n.chain THEN n.wide ELSE n.narrow, "YES")
EdgeShares == LowerOf(ORDER_SHARES, 200)

(* The participation fill: a quarter of what is left of the budget, while  *)
(* more than 20 chips are left, and never a price at either end.           *)
Stance(m) == IF m \in VIEWS THEN "NO" ELSE IF trPx[m] <= 500 THEN "YES" ELSE "NO"
FillPrice(m) == price_of(trPx, m, Stance(m))
FillShares(m) == LowerOf(ORDER_SHARES, HigherOf(20, trLeft \div (4 * HigherOf(FillPrice(m), 20))))
IsFilled(m) == trLeft > 20000 /\ trPx[m] > 50 /\ trPx[m] < 950 /\ FillPrice(m) <= 930

-----------------------------------------------------------------------------
(* A surface publishes something new.                                      *)
Publish(s) ==
    /\ trVersion[s] < MaxVersion
    /\ trVersion' = [trVersion EXCEPT ![s] = @ + 1]
    /\ UNCHANGED <<trFile, trSt, trCycle, trHits, trPc, trLogged, trFirst, trDay, trCount, trCycles, trCrashes>>

(* Another day: cycle resets what was filled before anything else.         *)
Rollover(st, day) == IF st.day # day THEN [st EXCEPT !.day = day, !.filled = 0] ELSE st

(* watch_news: a surface that answers is compared with its baseline, which *)
(* follows; one without a baseline only gets one.  The status of a page is *)
(* not looked at, so an error page has nothing new and becomes the         *)
(* baseline, against which the page itself is news again.                  *)
Changed(st, answered, broken) ==
    {s \in answered \ broken : st.base[s] # NONE /\ st.base[s] # trVersion[s]}
\* Mutant: the baseline moves even when the surface did not answer.
WatchedAnyway(st, answered, broken) ==
    [st EXCEPT !.base = [s \in Surfaces |-> trVersion[s]]]

Watched(st, answered, broken) ==
    [st EXCEPT !.base = [s \in Surfaces |-> IF s \notin answered THEN st.base[s]
                                           ELSE IF s \in broken THEN BROKEN ELSE trVersion[s]]]

(* cycle, up to the orders.  A low balance marks the whole budget as       *)
(* spent; news stops participation, not the edges.                         *)
StartCycle ==
    /\ trPc = "idle" /\ trCycles < TrMaxCycles
    /\ \E day \in {trDay, trDay + 1}, broke \in BOOLEAN, px \in [Ids -> Prices],
          answered, broken \in SUBSET Surfaces :
          LET st == Rollover(trFile, day)
              hits == Changed(st, answered, broken)
              seen == Watched(st, answered, broken)
              spent == IF broke THEN DAILY_BUDGET ELSE st.filled
          IN  /\ trSt' = [seen EXCEPT !.filled = spent]
              /\ trHits' = hits
              /\ trPx' = px /\ trAt' = 1
              /\ trLeft' = IF hits = {} THEN DAILY_BUDGET - spent ELSE 0
              /\ trFirst' = [s \in Surfaces |-> IF st.base[s] = NONE THEN seen.base[s] ELSE trFirst[s]]
              /\ trDay' = day
              /\ trFilled' = IF day # trDay THEN 0 ELSE trFilled
              /\ trLost' = IF day # trDay THEN 0 ELSE trLost
    /\ trPc' = "posting" /\ trCycles' = trCycles + 1
    /\ UNCHANGED <<trFile, trVersion, trLogged, trSlipped, trCrashes>>

(* place: a posted order counts at its limit price and a failed one does   *)
(* not, a post that raises after its line landed no more than the others.  *)
Slip == trLost' = IF trSlipped THEN trLost ELSE trLost + 1

Place(shares, p, fill) ==
    \/ /\ trSt' = [trSt EXCEPT !.filled = @ + shares * Limit(p)]
       /\ trFilled' = trFilled + fill /\ UNCHANGED <<trLost, trSlipped>>
    \/ UNCHANGED <<trSt, trCount>>
    \/ /\ fill > 0 /\ trFilled' = trFilled + fill
       /\ Slip /\ trSlipped' = TRUE /\ UNCHANGED trSt

PlaceEdge ==
    /\ trPc = "posting" /\ trAt \in DOMAIN Nested
    /\ LET n == Nested[trAt]
       IN  IF probe_coherence(n) THEN Place(EdgeShares, EdgePrice(n), 0) ELSE UNCHANGED <<trSt, trCount>>
    /\ trAt' = trAt + 1
    /\ UNCHANGED <<trFile, trPx, trLeft, trHits, trPc, trVersion, trLogged, trFirst, trDay, trCycles, trCrashes>>

PlaceFill ==
    /\ trPc = "posting" /\ trAt - Len(Nested) \in DOMAIN MARKETS
    /\ LET m == MARKETS[trAt - Len(Nested)]
           cost == FillShares(m) * FillPrice(m)
       IN  IF IsFilled(m)
           THEN Place(FillShares(m), FillPrice(m), cost) /\ trLeft' = trLeft - cost
           ELSE UNCHANGED <<trSt, trCount, trLeft>>
    /\ trAt' = trAt + 1
    /\ UNCHANGED <<trFile, trPx, trHits, trPc, trVersion, trLogged, trFirst, trDay, trCycles, trCrashes>>

(* The news is reported, then the state saved.                             *)
ReportNews ==
    /\ trPc = "posting" /\ trAt > Len(Nested) + Len(MARKETS)
    /\ trLogged' = [s \in Surfaces |-> IF s \in trHits THEN trSt.base[s] ELSE trLogged[s]]
    /\ trPc' = "save" /\ trPx' = NoPrices /\ trLeft' = 0 /\ trAt' = 1
    /\ UNCHANGED <<trFile, trSt, trHits, trVersion, trFirst, trDay, trCount, trCycles, trCrashes>>

SaveState ==
    /\ trPc = "save"
    /\ trFile' = trSt
    /\ trPc' = "idle" /\ trHits' = {} /\ trSlipped' = FALSE
    /\ UNCHANGED <<trSt, trCycle, trVersion, trLogged, trFirst, trDay, trFilled, trLost, trCycles, trCrashes>>

(* The cycle raises or the process dies: nothing of it is saved, and what  *)
(* was posted stays posted.                                                *)
CycleFails ==
    /\ trPc # "idle" /\ trCrashes < TrMaxCrashes
    /\ trCrashes' = trCrashes + 1
    /\ trSt' = trFile /\ trHits' = {} /\ trPc' = "idle"
    /\ trPx' = NoPrices /\ trLeft' = 0 /\ trAt' = 1
    /\ Slip /\ trSlipped' = FALSE
    /\ UNCHANGED <<trFile, trVersion, trLogged, trFirst, trDay, trFilled, trCycles>>

TrNext ==
    \/ \E s \in Surfaces : Publish(s)
    \/ StartCycle \/ PlaceEdge \/ PlaceFill \/ ReportNews \/ SaveState \/ CycleFails

TrSpec == TrInit /\ [][TrNext]_trVars

-----------------------------------------------------------------------------
(* "a bounded daily fill" (module docstring, rule 3): the participation    *)
(* fills of a day, at the quoted prices, stay within DAILY_BUDGET, and one *)
(* budget more for each cycle of the day that lost count of its fills: it  *)
(* failed before its save, or an order of it landed and its post raised.   *)
FillsStayInBudget == trFilled <= DAILY_BUDGET * (trLost + 1)

(* A new artefact on an official surface is reported before its version    *)
(* becomes the saved baseline, so a failed cycle cannot swallow it.        *)
NewsIsNotSwallowed ==
    \A s \in Surfaces :
        trFile.base[s] # trFirst[s] => trLogged[s] >= trFile.base[s]

(* A cycle that fails, or a post that does, costs at most a day's budget,  *)
(* and no news.                                                            *)
FailedCycleIsBounded == FillsStayInBudget /\ NewsIsNotSwallowed
-----------------------------------------------------------------------------
(* Why no news is swallowed: until the save, a surface of the cycle's copy *)
(* that is not a hit has the baseline of the file, its first one or that   *)
(* of an error page, and at the save every hit has been reported.          *)
Versions == Nat \cup {NONE, BROKEN}
IsBaseline(d) == DOMAIN d = {"day", "filled", "base"} /\ d.base \in [Surfaces -> Versions]

NewsInv ==
    /\ IsBaseline(trFile) /\ IsBaseline(trSt)
    /\ trVersion \in [Surfaces -> Nat]
    /\ trLogged \in [Surfaces -> Nat \cup {NONE}] /\ trFirst \in [Surfaces -> Versions]
    /\ trPc \in {"idle", "posting", "save"}
    /\ NewsIsNotSwallowed
    /\ trPc # "idle" => \A s \in Surfaces \ trHits : trSt.base[s] \in {trFile.base[s], trFirst[s], BROKEN}
    /\ \A s \in Surfaces : trFile.base[s] <= trVersion[s] /\ trSt.base[s] <= trVersion[s]
    /\ trPc # "idle" => trHits \subseteq Surfaces /\ \A s \in trHits : trFile.base[s] <= trSt.base[s] /\ trSt.base[s] \in Nat
    /\ trPc = "save" => \A s \in trHits : trLogged[s] = trSt.base[s]

(* Why the fills stay in the budget: what they cost is counted in the copy *)
(* or is of a cycle that lost count, and what a cycle may still fill is    *)
(* within the budget of the day, its own slips included.                   *)
Counted(st) == IF st.day = trDay THEN st.filled ELSE 0
Budgets == IF trSlipped THEN trLost ELSE trLost + 1

FillsInv ==
    /\ trFile.filled \in Nat /\ trSt.filled \in Nat /\ trFilled \in Nat
    /\ trLeft \in Int /\ trLost \in Nat /\ trSlipped \in BOOLEAN
    /\ trPx \in [Ids -> 0 .. 1000]
    /\ trPc = "idle" => trSt = trFile /\ ~trSlipped
    /\ trPc # "idle" => trSt.day = trDay
    /\ trFilled <= DAILY_BUDGET * Budgets
    /\ trFilled <= DAILY_BUDGET * trLost + Counted(trSt)
    /\ trLeft > 0 => trFilled + trLeft <= DAILY_BUDGET * Budgets

TraderInv == NewsInv /\ FillsInv
=============================================================================
