---------------------------- MODULE EarningProofs ---------------------------
(***************************************************************************)
(* Theorems about the earning programs, whatever the settings, amounts and *)
(* crashes: the compute-spend lane's local ceiling, and the count the      *)
(* close-1 runner keeps of its deals, both as long as no two invocations   *)
(* ran at once; the deals of the block-reward worker and the results of    *)
(* the board worker across restarts; and the budget and the news of the    *)
(* prediction-market trader across failed cycles.                          *)
(***************************************************************************)
EXTENDS ComputeSpend, Close1, BlockRewards, Kibble, Trader, FiniteSetTheorems,
        SequenceTheorems, WellFoundedInduction, TLAPS

(* What the ceiling rests on.  While invocations never overlapped, at most *)
(* one is running; everything charged is recorded, lost, or held in the    *)
(* one row still to be written; a running invocation's idea of what was    *)
(* spent is what the ledger says; and a row to be written fits the cap.    *)
(* A "spend" row is always of a positive amount (PaidRows).                *)
Held(i) == IF csPc[i] = "answered" /\ csRow[i] = "spend" THEN csArgs[i].amount ELSE 0

OneRunning == \A i, j \in Alive : i = j

Balance ==
    /\ Alive = {} => csSettled = csLedger + csLost
    /\ \A i \in Alive : csSettled = csLedger + csLost + Held(i)

Informed == \A i \in Alive : csSpent[i] = csLedger

Fits ==
    /\ csLedger <= spend_cap
    /\ \A i \in Alive : csLedger + Held(i) <= spend_cap

PaidRows == \A i \in Invocations :
    csPc[i] = "answered" /\ csRow[i] = "spend" => csArgs[i].amount \in Nat

SpendInv == CsTypeOK /\ PaidRows /\ (~csOverlap => OneRunning /\ Balance /\ Informed /\ Fits)

(* The cap is a natural number: spend_cap truncates a fraction of the      *)
(* principal.                                                              *)
LEMMA CapIsNat == spend_cap \in Nat
  <1>1. Principal * CapNum \in Nat
    BY SpendAssumption DEF SpendAssumption
  <1> QED
    BY <1>1, SpendAssumption DEF SpendAssumption, spend_cap

(* Every field of a command line has its type (main's argument parser).    *)
LEMMA ArgsFields ==
  ASSUME NEW a \in Args
  PROVE  a.amount \in Int /\ a.loop \in 0 .. MaxLoop
  BY SpendAssumption DEF SpendAssumption, Args

(* client_call answers with one of four outcomes.                          *)
LEMMA Outcomes ==
  ASSUME NEW call, NEW o \in client_call(call)
  PROVE  o \in {Refused, LostAnswer, Unawaited, Submitted}
  BY DEF client_call

(* Some command line exists, so the processes' initial arguments have a    *)
(* type.                                                                   *)
LEMMA SomeArgs == (CHOOSE a \in Args : TRUE) \in Args
  <1>1. PICK m \in Amounts : TRUE
    BY SpendAssumption DEF SpendAssumption
  <1>2. [call |-> "open_channel", amount |-> m, dry |-> FALSE, loop |-> 0] \in Args
    BY <1>1, SpendAssumption DEF SpendAssumption, Args, SPENDABLE_CALLS
  <1> QED
    BY <1>2

(* The initial state satisfies the invariant.                              *)
LEMMA InitSpendInv == CsInit => SpendInv
  <1> SUFFICES ASSUME CsInit PROVE SpendInv
    OBVIOUS
  <1>1. CsTypeOK /\ PaidRows
    BY SomeArgs DEF CsInit, CsTypeOK, PaidRows
  <1>2. Alive = {}
    BY DEF CsInit, Alive
  <1>3. OneRunning /\ Balance /\ Informed /\ Fits
    BY <1>2, CapIsNat DEF CsInit, OneRunning, Balance, Informed, Fits
  <1> QED
    BY <1>1, <1>3 DEF SpendInv

(* What attempt_spend's local checks leave: a positive amount that fits    *)
(* what the process believes is left under the cap.                        *)
LEMMA LocalChecks ==
  ASSUME CsTypeOK, NEW i \in Invocations, ~LocallyRefused(i)
  PROVE  /\ csArgs[i].amount \in Nat \ {0}
         /\ csSpent[i] + csArgs[i].amount <= spend_cap
  <1>1. csArgs[i].amount \in Int /\ csSpent[i] \in Nat
    BY ArgsFields DEF CsTypeOK
  <1> QED
    BY <1>1, CapIsNat DEF LocallyRefused

(* The client's answer keeps the invariant: what it charges is either lost *)
(* or held in a row that fits the cap.                                     *)
LEMMA AnswerSpendInv ==
  ASSUME SpendInv, NEW i \in Invocations, csPc[i] = "ready", ~LocallyRefused(i),
         NEW o \in {Refused, LostAnswer, Unawaited, Submitted}, NEW sr \in BOOLEAN,
         Answer(i, o, sr)
  PROVE  SpendInv'
  <1> DEFINE dies == o.raises \/ (o.ok /\ sr)
             keep == o.ok /\ ~dies
             amount == IF o.charged THEN csArgs[i].amount ELSE 0
  <1>0. CsTypeOK /\ csArgs[i].amount \in Nat /\ csSpent[i] + csArgs[i].amount <= spend_cap
    BY LocalChecks DEF SpendInv
  <1>1. amount \in Nat /\ keep \in BOOLEAN /\ (keep => amount = csArgs[i].amount)
    BY <1>0 DEF Refused, LostAnswer, Unawaited, Submitted
  <1>2. /\ csPc' = [csPc EXCEPT ![i] = IF dies THEN "done" ELSE "answered"]
        /\ csRow' = [csRow EXCEPT ![i] = IF keep THEN "spend" ELSE "blocked"]
        /\ csSettled' = csSettled + amount
        /\ csLost' = IF keep THEN csLost ELSE csLost + amount
        /\ csEnv' = csEnv /\ csArgs' = csArgs /\ csSpent' = csSpent /\ csLedger' = csLedger
        /\ csOverlap' = csOverlap
    BY DEF Answer
  <1> HIDE DEF amount
  <1>3. CsTypeOK'
    BY <1>0, <1>1, <1>2 DEF CsTypeOK
  <1>5. PaidRows'
    BY <1>0, <1>2 DEF SpendInv, PaidRows, CsTypeOK
  <1>4. ASSUME ~csOverlap' PROVE (OneRunning /\ Balance /\ Informed /\ Fits)'
    <2>1. ~csOverlap /\ OneRunning /\ Balance /\ Informed /\ Fits
      BY <1>2, <1>4 DEF SpendInv
    <2>2. i \in Alive
      BY DEF Alive
    <2>3. \A j \in Invocations : j # i => j \notin Alive /\ csPc'[j] = csPc[j]
      BY <1>0, <1>2, <2>1, <2>2 DEF OneRunning, CsTypeOK
    <2>4. Alive' \subseteq {i} /\ (Alive' = {} <=> dies)
      BY <1>0, <1>2, <2>3 DEF Alive, CsTypeOK
    <2>5. csSettled = csLedger + csLost /\ csSpent[i] = csLedger
      BY <1>0, <2>1, <2>2 DEF Balance, Informed, Held, CsTypeOK
    <2>6. Held(i)' = (IF keep THEN amount ELSE 0)
      BY <1>0, <1>1, <1>2 DEF Held, CsTypeOK
    <2>7. csLedger \in Nat /\ csLost \in Nat /\ csSettled \in Nat /\ spend_cap \in Nat /\ csLedger <= spend_cap
      BY <1>0, <2>1, CapIsNat DEF CsTypeOK, Fits
    <2>8. csSettled' = csLedger' + csLost' + Held(i)'
      BY <1>1, <1>2, <2>5, <2>6, <2>7
    <2>9. dies => csSettled' = csLedger' + csLost'
      BY <1>1, <1>2, <2>5, <2>7
    <2>10. csLedger' + Held(i)' <= spend_cap
      BY <1>0, <1>1, <1>2, <2>5, <2>6, <2>7
    <2>11. csSpent'[i] = csLedger' /\ csLedger' <= spend_cap
      BY <1>2, <2>5, <2>7
    <2>12. OneRunning' /\ Informed'
      BY <2>4, <2>11 DEF OneRunning, Informed
    <2>13. Balance'
      BY <2>4, <2>8, <2>9 DEF Balance
    <2>14. Fits'
      BY <2>4, <2>10, <2>11 DEF Fits, spend_cap
    <2> QED
      BY <2>12, <2>13, <2>14
  <1> QED
    BY <1>3, <1>4, <1>5 DEF SpendInv

(* main's start keeps the invariant: the process reads the whole ledger.   *)
LEMMA BeginSpendInv ==
  ASSUME SpendInv, NEW i \in Invocations, Begin(i)
  PROVE  SpendInv'
  <1>1. CsTypeOK /\ csPc[i] = "idle" /\ csPc' = [csPc EXCEPT ![i] = "ready"]
    BY DEF SpendInv, Begin
  <1>2. CsTypeOK'
    BY <1>1 DEF Begin, CsTypeOK
  <1>3. ASSUME ~csOverlap' PROVE (OneRunning /\ Balance /\ Informed /\ Fits)'
    <2>1. ~csOverlap /\ Alive = {} /\ Balance /\ Fits
      BY <1>3 DEF Begin, SpendInv
    <2>2. Alive' = {i}
      BY <1>1, <2>1 DEF Alive, CsTypeOK
    <2>3. Held(i)' = 0 /\ csSpent'[i] = csLedger' /\ csLedger' = csLedger
      BY <1>1 DEF Held, Begin, CsTypeOK
    <2>4. csSettled' = csLedger' + csLost' + 0 /\ csLedger' + 0 <= spend_cap /\ csLedger' <= spend_cap
      BY <1>1, <2>1, CapIsNat DEF Balance, Fits, Begin, CsTypeOK
    <2> QED
      BY <2>2, <2>3, <2>4 DEF OneRunning, Balance, Informed, Fits, spend_cap
  <1>4. PaidRows'
    BY <1>1 DEF SpendInv, PaidRows, Begin, CsTypeOK
  <1> QED
    BY <1>2, <1>3, <1>4 DEF SpendInv

(* A local refusal changes only the row to be written.                     *)
LEMMA RefuseSpendInv ==
  ASSUME SpendInv, NEW i \in Invocations, Refuse(i)
  PROVE  SpendInv'
  <1>1. /\ CsTypeOK /\ csPc[i] = "ready"
        /\ csPc' = [csPc EXCEPT ![i] = "answered"] /\ csRow' = [csRow EXCEPT ![i] = "blocked"]
        /\ UNCHANGED <<csEnv, csArgs, csSpent, csLedger, csSettled, csLost, csOverlap>>
    BY DEF SpendInv, Refuse
  <1>2. CsTypeOK'
    BY <1>1 DEF CsTypeOK
  <1>3. Alive' = Alive
    BY <1>1 DEF Alive, CsTypeOK
  <1>4. \A j \in Invocations : Held(j)' = Held(j)
    BY <1>1 DEF Held, CsTypeOK
  <1>5. Alive \subseteq Invocations
    BY DEF Alive
  <1>6. PaidRows'
    BY <1>1 DEF SpendInv, PaidRows, CsTypeOK
  <1> QED
    BY <1>1, <1>2, <1>3, <1>4, <1>5, <1>6 DEF SpendInv, OneRunning, Balance, Informed, Fits, spend_cap

(* The row and its amount reach the ledger together, and a loop's own      *)
(* count grows with them.                                                  *)
LEMMA RecordSpendInv ==
  ASSUME SpendInv, NEW i \in Invocations, Record(i)
  PROVE  SpendInv'
  <1> DEFINE spend == csRow[i] = "spend"
             again == spend /\ csArgs[i].loop > 1
  <1>1. /\ CsTypeOK /\ csPc[i] = "answered"
        /\ csArgs[i].amount \in Int /\ csArgs[i].loop \in 0 .. MaxLoop
    BY ArgsFields DEF SpendInv, Record, CsTypeOK
  <1>2. /\ csLedger' = IF spend THEN csLedger + csArgs[i].amount ELSE csLedger
        /\ csSpent' = IF again THEN [csSpent EXCEPT ![i] = @ + csArgs[i].amount] ELSE csSpent
        /\ csArgs' = IF again THEN [csArgs EXCEPT ![i].loop = @ - 1] ELSE csArgs
        /\ csPc' = [csPc EXCEPT ![i] = IF again THEN "ready" ELSE "done"]
        /\ UNCHANGED <<csEnv, csRow, csSettled, csLost, csOverlap>>
    BY DEF Record
  <1>3. spend => csArgs[i].amount \in Nat
    BY <1>1 DEF SpendInv, PaidRows
  <1>4. CsTypeOK'
    <2>1. csLedger' \in Nat /\ csSpent' \in [Invocations -> Nat]
      BY <1>1, <1>2, <1>3 DEF CsTypeOK
    <2>2. csArgs' \in [Invocations -> Args]
      <3>1. again => [csArgs[i] EXCEPT !.loop = @ - 1] \in Args
        BY <1>1, SpendAssumption DEF CsTypeOK, Args, SpendAssumption
      <3> QED
        BY <1>1, <1>2, <3>1 DEF CsTypeOK
    <2> QED
      BY <1>1, <1>2, <2>1, <2>2 DEF CsTypeOK
  <1>5. ASSUME ~csOverlap' PROVE (OneRunning /\ Balance /\ Informed /\ Fits)'
    <2>1. ~csOverlap /\ OneRunning /\ Balance /\ Informed /\ Fits
      BY <1>2, <1>5 DEF SpendInv
    <2>2. i \in Alive
      BY <1>1 DEF Alive
    <2>3. Alive' \subseteq {i} /\ (Alive' = {} <=> ~again)
      BY <1>1, <1>2, <2>1, <2>2 DEF Alive, OneRunning, CsTypeOK
    <2>4. /\ csSettled = csLedger + csLost + Held(i) /\ csSpent[i] = csLedger
          /\ csLedger + Held(i) <= spend_cap
      BY <2>1, <2>2 DEF Balance, Informed, Fits
    <2>5. Held(i) = (IF spend THEN csArgs[i].amount ELSE 0)
      BY <1>1 DEF Held
    <2>6. csLedger \in Nat /\ csLost \in Nat /\ csSettled \in Nat /\ spend_cap \in Nat
      BY <1>1, CapIsNat DEF CsTypeOK
    <2>7. csSettled' = csLedger' + csLost' /\ csLedger' <= spend_cap
      BY <1>1, <1>2, <1>3, <2>4, <2>5, <2>6
    <2>8. again => Held(i)' = 0
      BY <1>1, <1>2 DEF Held, CsTypeOK
    <2>9. again => csSpent'[i] = csLedger'
      BY <1>1, <1>2, <2>4 DEF CsTypeOK
    <2>10. csLedger' \in Nat /\ csLost' \in Nat
      BY <1>4 DEF CsTypeOK
    <2>11. OneRunning' /\ Informed'
      BY <2>3, <2>9 DEF OneRunning, Informed
    <2>12. Balance'
      BY <2>3, <2>7, <2>8, <2>10 DEF Balance
    <2>13. Fits'
      BY <2>3, <2>7, <2>8, <2>10 DEF Fits, spend_cap
    <2> QED
      BY <2>11, <2>12, <2>13
  <1>6. PaidRows'
    BY <1>1, <1>2, <1>4 DEF SpendInv, PaidRows, CsTypeOK, Args
  <1> QED
    BY <1>4, <1>5, <1>6 DEF SpendInv

(* A death moves a held row's amount to what is lost.                      *)
LEMMA DieSpendInv ==
  ASSUME SpendInv, NEW i \in Invocations, Die(i)
  PROVE  SpendInv'
  <1>1. /\ CsTypeOK /\ csPc[i] \in {"ready", "answered"}
        /\ csLost' = csLost + Held(i)
        /\ csPc' = [csPc EXCEPT ![i] = "done"]
        /\ UNCHANGED <<csEnv, csArgs, csSpent, csRow, csLedger, csSettled, csOverlap>>
    BY DEF SpendInv, Die, Held, CsTypeOK
  <1>2. Held(i) \in Nat
    BY <1>1 DEF Held, SpendInv, PaidRows
  <1>3. CsTypeOK'
    BY <1>1, <1>2 DEF CsTypeOK
  <1>4. ASSUME ~csOverlap' PROVE (OneRunning /\ Balance /\ Informed /\ Fits)'
    <2>1. ~csOverlap /\ OneRunning /\ Balance /\ Informed /\ Fits
      BY <1>1, <1>4 DEF SpendInv
    <2>2. i \in Alive
      BY <1>1 DEF Alive
    <2>3. Alive' = {}
      BY <1>1, <2>1, <2>2 DEF Alive, OneRunning, CsTypeOK
    <2>4. csSettled' = csLedger' + csLost' /\ csLedger' <= spend_cap
      BY <1>1, <1>2, <2>1, <2>2 DEF Balance, Fits, CsTypeOK
    <2> QED
      BY <2>3, <2>4 DEF OneRunning, Balance, Informed, Fits, spend_cap
  <1>5. PaidRows'
    BY <1>1 DEF SpendInv, PaidRows
  <1> QED
    BY <1>3, <1>4, <1>5 DEF SpendInv

(* Every step of the lane keeps the invariant.                             *)
LEMMA NextSpendInv == SpendInv /\ [CsNext]_csVars => SpendInv'
  <1> SUFFICES ASSUME SpendInv, [CsNext]_csVars PROVE SpendInv'
    OBVIOUS
  <1>1. CASE UNCHANGED csVars
    BY <1>1 DEF SpendInv, csVars, CsTypeOK, OneRunning, Balance, Informed, Fits, Held, Alive,
                spend_cap, PaidRows
  <1>2. ASSUME NEW i \in Invocations, RefuseNoClient(i) PROVE SpendInv'
    <2>1. PICK o \in client_call(csArgs[i].call) : Answer(i, o, TRUE)
      BY <1>2 DEF RefuseNoClient
    <2> QED
      BY <1>2, <2>1, Outcomes, AnswerSpendInv DEF RefuseNoClient
  <1>3. ASSUME NEW i \in Invocations, Spend(i) PROVE SpendInv'
    <2>1. PICK o \in client_call(csArgs[i].call) : Answer(i, o, FALSE)
      BY <1>3 DEF Spend
    <2> QED
      BY <1>3, <2>1, Outcomes, AnswerSpendInv DEF Spend
  <1> QED
    BY <1>1, <1>2, <1>3, BeginSpendInv, RefuseSpendInv, RecordSpendInv, DieSpendInv DEF CsNext

(* CsTypeOK holds in every reachable state of flop_compute.                *)
THEOREM SpendTypes == CsSpec => []CsTypeOK
  <1>1. SpendInv => CsTypeOK
    BY DEF SpendInv
  <1> QED
    BY <1>1, InitSpendInv, NextSpendInv, PTL DEF CsSpec

(* The ceiling of attempt_spend holds for every principal, ratio, set of   *)
(* amounts and number of invocations: what the network charged exceeds the *)
(* cap by no more than what never reached the ledger, unless two           *)
(* invocations ran at once.                                                *)
THEOREM CeilingHolds == CsSpec => []CapHolds
  <1>1. SpendInv => CapHolds
    <2> SUFFICES ASSUME SpendInv, ~csOverlap PROVE csSettled <= spend_cap + csLost
      BY DEF CapHolds
    <2>1. /\ CsTypeOK /\ PaidRows /\ Balance /\ Fits
          /\ csLedger \in Nat /\ csLost \in Nat /\ spend_cap \in Nat
      BY CapIsNat DEF SpendInv, CsTypeOK
    <2>2. CASE Alive = {}
      BY <2>1, <2>2 DEF Balance, Fits
    <2>3. CASE Alive # {}
      <3>1. PICK i \in Alive : TRUE
        BY <2>3
      <3>2. Held(i) \in Nat
        BY <2>1, <3>1 DEF Held, PaidRows, Alive
      <3> QED
        BY <2>1, <3>1, <3>2 DEF Balance, Fits
    <2> QED
      BY <2>2, <2>3
  <1> QED
    BY <1>1, InitSpendInv, NextSpendInv, PTL DEF CsSpec

-----------------------------------------------------------------------------
(* The close-1 runner.                                                     *)

\* A set of numbers that is not empty has a least one.
LEMMA HasLeast ==
  ASSUME NEW S \in SUBSET Nat, S # {}
  PROVE  \E m \in S : \A n \in S : m <= n
<1>1. PICK m \in S : \A n \in S : ~(<<n, m>> \in OpToRel(<, Nat))
  <2>1. IsWellFoundedOn(OpToRel(<, Nat), Nat)
    BY NatLessThanWellFounded
  <2> QED
    BY <2>1, WFMin, Zenon
<1>2. ASSUME NEW n \in S
      PROVE  m <= n
  <2>1. n \in Nat /\ m \in Nat
    OBVIOUS
  <2>2. n < m => <<n, m>> \in OpToRel(<, Nat)
    BY <2>1 DEF OpToRel
  <2>3. ~(n < m)
    BY <1>1, <2>2, Zenon
  <2> QED
    BY <2>1, <2>3
<1> QED
  BY <1>2

\* Every offer of the room has an id, a side and a price.
LEMMA RoomOfferFields ==
  ASSUME NEW k \in DOMAIN RoomOffers
  PROVE  RoomOffers[k].id \in OfferIds /\ RoomOffers[k].px \in Nat /\ k \in Nat
<1>1. RoomOffers[k].id \in OfferIds
  BY DEF OfferIds
<1>2. DOMAIN RoomOffers \subseteq Nat
  <2>1. DOMAIN RoomOffers = 1 .. Len(RoomOffers) /\ Len(RoomOffers) \in Nat
    BY Close1Assumption, LenProperties
  <2> QED
    BY <2>1
<1>3. RoomOffers[k] \in [id : {RoomOffers[j].id : j \in DOMAIN RoomOffers}, side : {"buy", "sell"}, px : Nat]
  <2> DEFINE R == [id : {RoomOffers[j].id : j \in DOMAIN RoomOffers}, side : {"buy", "sell"}, px : Nat]
  <2>1. RoomOffers \in Seq(R)
    BY Close1Assumption
  <2>2. DOMAIN RoomOffers = 1 .. Len(RoomOffers)
    BY <2>1, LenProperties
  <2> HIDE DEF R
  <2>3. RoomOffers[k] \in R
    BY <2>1, <2>2, ElementOfSeq
  <2> QED
    BY <2>3 DEF R
<1>4. RoomOffers[k].px \in Nat
  BY <1>3
<1> QED
  BY <1>1, <1>2, <1>4

\* auto's choice is one of the candidates.
LEMMA BestIsCandidate ==
  ASSUME NEW side, NEW offers \in SUBSET (DOMAIN RoomOffers), offers # {}
  PROVE  \E k \in offers : BestOf(side, offers) = RoomOffers[k]
<1>0. offers \subseteq Nat
  BY RoomOfferFields
<1>1. ASSUME NEW S \in SUBSET offers, S # {}
      PROVE  First(S) \in S
  <2>1. \E m \in S : \A n \in S : m <= n
    BY <1>0, <1>1, HasLeast
  <2> QED
    BY <2>1 DEF First
<1>2. Cheapest(offers) \in SUBSET offers /\ Cheapest(offers) # {}
  <2> DEFINE P == {RoomOffers[k].px : k \in offers}
  <2>1. P \subseteq Nat /\ P # {}
    BY RoomOfferFields
  <2>2. PICK p \in P : \A q \in P : p <= q
    <3> HIDE DEF P
    <3> QED
      BY <2>1, HasLeast
  <2>3. PICK k \in offers : RoomOffers[k].px = p
    OBVIOUS
  <2>4. \A j \in offers : RoomOffers[k].px <= RoomOffers[j].px
    BY <2>2, <2>3
  <2> QED
    BY <2>3, <2>4 DEF Cheapest
<1>3. CASE side = "buy"
  BY <1>1, <1>2, <1>3 DEF BestOf
<1>4. CASE side # "buy"
  BY <1>1, <1>4 DEF BestOf
<1> QED
  BY <1>3, <1>4

\* What auto takes is in the room and not in the file.
LEMMA ChoiceIsFresh ==
  ASSUME NEW side, NEW taken, Candidates(side, taken) # {}
  PROVE  /\ BestOf(side, Candidates(side, taken)).id \in OfferIds
         /\ BestOf(side, Candidates(side, taken)).id \notin taken.ids
<1>1. Candidates(side, taken) \subseteq DOMAIN RoomOffers
  BY DEF Candidates
<1>2. PICK k \in Candidates(side, taken) : BestOf(side, Candidates(side, taken)) = RoomOffers[k]
  BY <1>1, BestIsCandidate
<1>3. RoomOffers[k].id \notin taken.ids
  BY DEF Candidates
<1> QED
  BY <1>1, <1>2, <1>3, RoomOfferFields

-----------------------------------------------------------------------------
\* An invocation begins: it reads file, its choice is pick, and it goes on
\* or it is done.
Begins(i, file, pick) ==
    /\ clPc[i] = "idle" /\ file \in load_taken
    /\ \/ /\ clPc' = [clPc EXCEPT ![i] = "ready"]
          /\ clPick' = [clPick EXCEPT ![i] = pick]
          /\ \/ pick \in Trades /\ pick.id \notin file.ids
             \/ pick \in Offering /\ file.offered + pick.qty <= TARGET
       \/ /\ clPc' = [clPc EXCEPT ![i] = "done"]
          /\ clPick' = clPick
    /\ clMine' = [clMine EXCEPT ![i] = file]
    /\ clOverlap' = (clOverlap \/ ClRunning # {})
    /\ clTaken' = clTaken /\ clTrades' = clTrades /\ clOffered' = clOffered /\ clUnsaved' = clUnsaved

\* What an invocation reads is a file, and the file itself if none runs.
LEMMA FileIsRead ==
  ASSUME ClTypeOK, NEW file \in load_taken
  PROVE  file \in File /\ (ClRunning = {} => file = clTaken)
<1>1. EmptyFile \in File
  BY DEF EmptyFile, File
<1> QED
  BY <1>1 DEF load_taken, ClTypeOK, ClRunning

\* auto begins with an offer that is not taken, or stops.
LEMMA AutoBegins ==
  ASSUME ClTypeOK, NEW i \in Calls, AutoBegin(i)
  PROVE  \E file, pick : Begins(i, file, pick)
<1>1. PICK enough \in BOOLEAN, trend \in -1 .. 1, momentum \in -1 .. 1, file \in load_taken :
          LET side == view(enough, trend, momentum)
              offers == Candidates(side, file)
              found == side # "flat" /\ offers # {}
          IN  /\ clPc' = [clPc EXCEPT ![i] = IF found THEN "ready" ELSE "done"]
              /\ clPick' = [clPick EXCEPT ![i] = IF found THEN [kind |-> "trade", id |-> BestOf(side, offers).id]
                                                 ELSE @]
              /\ clMine' = [clMine EXCEPT ![i] = file]
  BY DEF AutoBegin
<1> DEFINE side == view(enough, trend, momentum)
           offers == Candidates(side, file)
           found == side # "flat" /\ offers # {}
           pick == [kind |-> "trade", id |-> BestOf(side, offers).id]
<1>2. /\ clPc[i] = "idle"
      /\ clMine' = [clMine EXCEPT ![i] = file]
      /\ clOverlap' = (clOverlap \/ ClRunning # {})
      /\ clTaken' = clTaken /\ clTrades' = clTrades /\ clOffered' = clOffered /\ clUnsaved' = clUnsaved
  BY <1>1 DEF AutoBegin
<1>3. /\ clPc' = [clPc EXCEPT ![i] = IF found THEN "ready" ELSE "done"]
      /\ clPick' = [clPick EXCEPT ![i] = IF found THEN pick ELSE @]
  BY <1>1
<1>4. CASE found
  <2>1. pick.id \in OfferIds /\ pick.id \notin file.ids
    BY <1>4, ChoiceIsFresh
  <2>2. pick \in Trades
    BY <2>1 DEF Trades
  <2> HIDE DEF pick, found
  <2> QED
    BY <1>2, <1>3, <1>4, <2>1, <2>2 DEF Begins
<1>5. CASE ~found
  <2> HIDE DEF pick, found
  <2>1. clPick' = clPick
    BY <1>3, <1>5 DEF ClTypeOK
  <2> QED
    BY <1>2, <1>3, <1>5, <2>1 DEF Begins
<1> QED
  BY <1>4, <1>5

\* offer begins with no more than is missing to the target, or stops.
LEMMA OfferBegins ==
  ASSUME ClTypeOK, NEW i \in Calls, OfferBegin(i)
  PROVE  \E file, pick : Begins(i, file, pick)
<1>1. PICK qty \in Quantities, p \in {Lo, Hi + 1}, file \in load_taken :
          LET rest == TARGET - file.offered
              ok == file.offered < TARGET /\ Lo <= p /\ p <= Hi /\ p > 0
          IN  /\ clPc' = [clPc EXCEPT ![i] = IF ok THEN "ready" ELSE "done"]
              /\ clPick' = [clPick EXCEPT ![i] = IF ok THEN [kind |-> "offer", qty |-> IF qty < rest THEN qty ELSE rest]
                                                 ELSE @]
              /\ clMine' = [clMine EXCEPT ![i] = file]
  BY DEF OfferBegin
<1> DEFINE rest == TARGET - file.offered
           ok == file.offered < TARGET /\ Lo <= p /\ p <= Hi /\ p > 0
           least == IF qty < rest THEN qty ELSE rest
           pick == [kind |-> "offer", qty |-> least]
<1>2. /\ clPc[i] = "idle"
      /\ clMine' = [clMine EXCEPT ![i] = file]
      /\ clOverlap' = (clOverlap \/ ClRunning # {})
      /\ clTaken' = clTaken /\ clTrades' = clTrades /\ clOffered' = clOffered /\ clUnsaved' = clUnsaved
  BY <1>1 DEF OfferBegin
<1>3. /\ clPc' = [clPc EXCEPT ![i] = IF ok THEN "ready" ELSE "done"]
      /\ clPick' = [clPick EXCEPT ![i] = IF ok THEN pick ELSE @]
  BY <1>1
<1>4. CASE ok
  <2>1. file.offered \in Nat /\ TARGET \in Nat /\ qty \in Nat
    BY FileIsRead, Close1Assumption DEF File
  <2>2. least \in Nat /\ file.offered + least <= TARGET
    BY <1>4, <2>1
  <2> HIDE DEF least, ok
  <2>3. pick \in Offering /\ pick.qty = least
    BY <2>2 DEF Offering
  <2> HIDE DEF pick
  <2>4. clPc' = [clPc EXCEPT ![i] = "ready"] /\ clPick' = [clPick EXCEPT ![i] = pick]
    BY <1>3, <1>4
  <2>5. file.offered + pick.qty <= TARGET
    BY <2>2, <2>3
  <2> QED
    BY <1>2, <2>3, <2>4, <2>5 DEF Begins
<1>5. CASE ~ok
  <2> HIDE DEF pick, ok
  <2>1. clPick' = clPick
    BY <1>3, <1>5 DEF ClTypeOK
  <2> QED
    BY <1>2, <1>3, <1>5, <2>1 DEF Begins
<1> QED
  BY <1>4, <1>5

\* Begins keeps the invariant: an invocation that finds another running
\* makes an overlap, and one that finds none works on the file as it is.
LEMMA BeginsKeeps ==
  ASSUME CloseInv, NEW i \in Calls, NEW file, NEW pick, Begins(i, file, pick)
  PROVE  CloseInv'
<1> USE DEF Begins
<1>0. ClTypeOK
  BY DEF CloseInv
<1>1. ClTypeOK'
  <2>1. pick \in Trades \cup Offering => pick # NoPick
    BY DEF Trades, Offering, NoPick
  <2>2. clPc' \in [Calls -> {"idle", "ready", "posted", "done"}]
    BY <1>0 DEF ClTypeOK
  <2>3. clPick' \in [Calls -> {NoPick} \cup Trades \cup Offering]
    BY <1>0 DEF ClTypeOK
  <2>4. clMine' \in [Calls -> File]
    <3>1. file \in File
      BY <1>0, FileIsRead
    <3> QED
      BY <1>0, <3>1 DEF ClTypeOK
  <2>5. clOverlap' \in BOOLEAN
    BY <1>0 DEF ClTypeOK
  <2>6. \A j \in ClRunning' : clPick'[j] # NoPick
    BY <1>0, <2>1 DEF ClTypeOK, ClRunning
  <2> QED
    BY <1>0, <2>2, <2>3, <2>4, <2>5, <2>6 DEF ClTypeOK
<1>2. ASSUME ~clOverlap'
      PROVE  RunsAlone' /\ PostsAreCounted'
  <2>1. ~clOverlap /\ ClRunning = {} /\ file = clTaken
    BY <1>0, <1>2, FileIsRead
  <2>2. RunsAlone /\ PostsAreCounted
    BY <2>1 DEF CloseInv
  <2>3. \A j \in Calls : clPc[j] \notin {"ready", "posted"}
    BY <2>1 DEF ClRunning
  <2>4. \A j \in Calls : clPc'[j] # "posted" /\ (clPc'[j] = "ready" => j = i /\ clPc' = [clPc EXCEPT ![i] = "ready"])
    BY <1>0, <2>3 DEF ClTypeOK
  <2>5. \A j \in Calls : \A kind \in {"trade", "offer"} : ~Posted(j, kind) /\ ~Posted(j, kind)'
    BY <2>3, <2>4 DEF Posted
  <2>6. RunsAlone'
    <3>1. \A j, k \in ClRunning' : j = k
      BY <2>4 DEF ClRunning
    <3>2. ASSUME NEW j \in ClRunning'
          PROVE  /\ j = i /\ clMine'[j] = clTaken' /\ clPick'[j] = pick
                 /\ \/ pick \in Trades /\ pick.id \notin clTaken.ids
                    \/ pick \in Offering /\ clTaken.offered + pick.qty <= TARGET
      <4>1. j = i /\ clPc'[i] = "ready" /\ clPc' = [clPc EXCEPT ![i] = "ready"]
        BY <2>4 DEF ClRunning
      <4>2. "ready" # "done" /\ clPc' # [clPc EXCEPT ![i] = "done"]
        BY <1>0, <4>1 DEF ClTypeOK
      <4> QED
        BY <1>0, <2>1, <4>1, <4>2 DEF ClTypeOK
    <3>3. ASSUME NEW j \in ClRunning'
          PROVE  /\ clPick'[j].kind = "trade" => clPick'[j].id \notin clTaken'.ids
                 /\ clPick'[j].kind = "offer" => clTaken'.offered + clPick'[j].qty <= TARGET
      BY <3>2 DEF Trades, Offering
    <3> QED
      BY <2>2, <3>1, <3>2, <3>3 DEF RunsAlone
  <2>7. PostsAreCounted'
    <3>1. \A d : ~InFlight(d)
      BY <2>5 DEF InFlight
    <3> QED
      BY <2>2, <2>5, <3>1 DEF PostsAreCounted
  <2> QED
    BY <2>6, <2>7
<1> QED
  BY <1>1, <1>2 DEF CloseInv

-----------------------------------------------------------------------------
\* What is chosen by an invocation that runs is a trade or an offer.
LEMMA ChoiceFields ==
  ASSUME ClTypeOK, NEW i \in Calls, clPc[i] \in {"ready", "posted"}
  PROVE  \/ clPick[i].kind = "trade" /\ clPick[i].kind # "offer" /\ clPick[i].id \in OfferIds
         \/ clPick[i].kind = "offer" /\ clPick[i].kind # "trade" /\ clPick[i].qty \in Nat
<1>1. clPick[i] \in Trades \cup Offering
  BY DEF ClTypeOK, ClRunning
<1> QED
  BY <1>1 DEF Trades, Offering

\* A line that lands and a note that is forgotten are counted with their types.
LEMMA CountsAreTyped ==
  ASSUME ClTypeOK, NEW i \in Calls, clPc[i] \in {"ready", "posted"}
  PROVE  /\ Landed(i) => clTrades' \in [OfferIds -> Nat] /\ clOffered' \in Nat
         /\ Forgotten(i) => clUnsaved' \in [trades : [OfferIds -> Nat], qty : Nat]
<1>1. CASE clPick[i].kind = "trade" /\ clPick[i].kind # "offer" /\ clPick[i].id \in OfferIds
  <2> DEFINE d == clPick[i].id
  <2>1. clTrades[d] + 1 \in Nat /\ clUnsaved.trades[d] + 1 \in Nat
    BY <1>1 DEF ClTypeOK
  <2>2. [clTrades EXCEPT ![d] = @ + 1] \in [OfferIds -> Nat]
    BY <1>1, <2>1 DEF ClTypeOK
  <2>3. [clUnsaved.trades EXCEPT ![d] = @ + 1] \in [OfferIds -> Nat]
    BY <1>1, <2>1 DEF ClTypeOK
  <2>4. [clUnsaved EXCEPT !.trades[d] = @ + 1] \in [trades : [OfferIds -> Nat], qty : Nat]
    BY <2>3 DEF ClTypeOK
  <2> QED
    BY <1>1, <2>2, <2>4 DEF Landed, Forgotten, ClTypeOK
<1>2. CASE clPick[i].kind = "offer" /\ clPick[i].kind # "trade" /\ clPick[i].qty \in Nat
  BY <1>2 DEF Landed, Forgotten, ClTypeOK
<1> QED
  BY <1>1, <1>2, ChoiceFields

\* The file as it is written: the copy of the invocation and its choice.
LEMMA RecordedIsFile ==
  ASSUME ClTypeOK, NEW i \in Calls, clPc[i] \in {"ready", "posted"}
  PROVE  /\ Recorded(i) \in File
         /\ clPick[i].kind = "trade" => /\ Recorded(i).ids = clMine[i].ids \cup {clPick[i].id}
                                        /\ Recorded(i).offered = clMine[i].offered
         /\ clPick[i].kind = "offer" => /\ Recorded(i).ids = clMine[i].ids
                                        /\ Recorded(i).offered = clMine[i].offered + clPick[i].qty
<1>1. clMine[i] \in File
  BY DEF ClTypeOK
<1>2. CASE clPick[i].kind = "trade" /\ clPick[i].kind # "offer" /\ clPick[i].id \in OfferIds
  BY <1>1, <1>2 DEF Recorded, File
<1>3. CASE clPick[i].kind = "offer" /\ clPick[i].kind # "trade" /\ clPick[i].qty \in Nat
  BY <1>1, <1>3 DEF Recorded, File
<1> QED
  BY <1>2, <1>3, ChoiceFields

\* The steps of an invocation that runs keep the types.
LEMMA RunningKeepsTypes ==
  ASSUME ClTypeOK, NEW i \in Calls, PostLine(i) \/ SaveTaken(i) \/ DieUnsaved(i) \/ DieSaving(i)
  PROVE  ClTypeOK'
<1>0. clPc[i] \in {"ready", "posted"}
  BY DEF PostLine, SaveTaken, DieUnsaved, DieSaving
<1>1. /\ clMine' = clMine /\ clPick' = clPick /\ clOverlap' = clOverlap
      /\ clPc' = [clPc EXCEPT ![i] = "posted"] \/ clPc' = [clPc EXCEPT ![i] = "done"]
  BY DEF PostLine, SaveTaken, DieUnsaved, DieSaving
<1>2. clPc' \in [Calls -> {"idle", "ready", "posted", "done"}]
  BY <1>1 DEF ClTypeOK
<1>3. clTrades' \in [OfferIds -> Nat] /\ clOffered' \in Nat
  BY <1>0, CountsAreTyped DEF PostLine, SaveTaken, DieUnsaved, DieSaving, ClTypeOK
<1>4. clUnsaved' \in [trades : [OfferIds -> Nat], qty : Nat]
  <2>1. CASE DieSaving(i)
    <3>1. clUnsaved.qty + Recorded(i).offered \in Nat
      BY <1>0, RecordedIsFile DEF ClTypeOK, File
    <3>2. \A d \in OfferIds : (IF d \in Recorded(i).ids THEN clUnsaved.trades[d] + 1
                                                       ELSE clUnsaved.trades[d]) \in Nat
      BY DEF ClTypeOK
    <3> HIDE DEF Recorded
    <3> QED
      BY <2>1, <3>1, <3>2 DEF DieSaving
  <2> QED
    BY <1>0, <2>1, CountsAreTyped DEF PostLine, SaveTaken, DieUnsaved, ClTypeOK
<1>5. clTaken' \in File
  <2>1. CASE clTaken' = clTaken
    BY <2>1 DEF ClTypeOK
  <2>2. CASE SaveTaken(i)
    BY <1>0, <2>2, RecordedIsFile DEF SaveTaken
  <2>3. CASE DieSaving(i)
    BY <2>3 DEF DieSaving, EmptyFile, File
  <2> QED
    BY <2>1, <2>2, <2>3 DEF PostLine, DieUnsaved
<1>6. \A j \in ClRunning' : clPick'[j] # NoPick
  <2>1. ClRunning' \subseteq ClRunning
    BY <1>0, <1>1 DEF ClRunning, ClTypeOK
  <2> QED
    BY <1>1, <2>1 DEF ClTypeOK
<1> QED
  BY <1>1, <1>2, <1>3, <1>4, <1>5, <1>6 DEF ClTypeOK

\* The only invocation that runs is i, so only i may have posted.
LEMMA OnlyOneRuns ==
  ASSUME ClTypeOK, RunsAlone, NEW i \in Calls, clPc[i] \in {"ready", "posted"}
  PROVE  /\ \A j \in Calls : clPc[j] \in {"ready", "posted"} => j = i
         /\ \A d : InFlight(d) <=> (Posted(i, "trade") /\ clPick[i].id = d)
         /\ \A j \in Calls : Posted(j, "offer") => j = i
<1>1. \A j \in Calls : clPc[j] \in {"ready", "posted"} => j = i
  BY DEF RunsAlone, ClRunning
<1> QED
  BY <1>1 DEF InFlight, Posted

\* The next state's counts, in terms of who has posted in it.
LEMMA CountedNext ==
  ASSUME \A d \in OfferIds :
            /\ clTrades'[d] <= 1 + clUnsaved'.trades[d]
            /\ \/ clTrades'[d] <= clUnsaved'.trades[d] \/ d \in clTaken'.ids
               \/ \E j \in Calls : clPc'[j] = "posted" /\ clPick'[j].kind = "trade" /\ clPick'[j].id = d,
         \/ clOffered' <= clTaken'.offered + clUnsaved'.qty
         \/ \E j \in Calls : clPc'[j] = "posted" /\ clPick'[j].kind = "offer",
         \A j \in Calls : clPc'[j] = "posted" /\ clPick'[j].kind = "offer"
                             => clOffered' <= clTaken'.offered + clUnsaved'.qty + clPick'[j].qty
  PROVE  PostsAreCounted'
BY DEF PostsAreCounted, InFlight, Posted

\* A post and its answer.
LEMMA PostKeeps ==
  ASSUME CloseInv, NEW i \in Calls, PostLine(i)
  PROVE  CloseInv'
<1>0. ClTypeOK /\ clPc[i] = "ready"
  BY DEF CloseInv, PostLine
<1>1. ClTypeOK'
  BY <1>0, RunningKeepsTypes
<1>2. /\ clTaken' = clTaken /\ clMine' = clMine /\ clPick' = clPick /\ clOverlap' = clOverlap
  BY DEF PostLine
<1>3. ASSUME ~clOverlap'
      PROVE  RunsAlone' /\ PostsAreCounted'
  <2>1. RunsAlone /\ PostsAreCounted
    BY <1>2, <1>3 DEF CloseInv
  <2>2. /\ \A j \in Calls : clPc[j] \in {"ready", "posted"} => j = i
        /\ \A d : ~InFlight(d)
        /\ \A j \in Calls : ~Posted(j, "offer")
    BY <1>0, <2>1, OnlyOneRuns DEF Posted
  <2>3. \A j \in Calls : j # i => clPc'[j] = clPc[j]
    BY <1>0 DEF PostLine, ClTypeOK
  <2>4. ClRunning' \subseteq ClRunning
    BY <1>0, <2>3 DEF ClRunning
  <2>5. RunsAlone'
    BY <1>2, <2>1, <2>4 DEF RunsAlone
  <2>6. \A d \in OfferIds : /\ clTrades[d] <= clUnsaved.trades[d] \/ d \in clTaken.ids
                            /\ clTrades[d] <= 1 + clUnsaved.trades[d]
                            /\ clTrades[d] \in Nat /\ clUnsaved.trades[d] \in Nat
    BY <1>0, <2>1, <2>2 DEF PostsAreCounted, ClTypeOK
  <2>7. clOffered <= clTaken.offered + clUnsaved.qty
    BY <2>1, <2>2 DEF PostsAreCounted
  <2>8. clTaken.offered \in Nat /\ clUnsaved.qty \in Nat /\ clOffered \in Nat
    BY <1>0 DEF ClTypeOK, File
  <2>9. \/ clPick[i].kind = "trade" /\ clPick[i].kind # "offer" /\ clPick[i].id \in OfferIds
        \/ clPick[i].kind = "offer" /\ clPick[i].kind # "trade" /\ clPick[i].qty \in Nat
    BY <1>0, ChoiceFields
  <2>10. clPick[i].kind = "trade" => clPick[i].id \notin clTaken.ids
    BY <1>0, <2>1 DEF RunsAlone, ClRunning
  <2>11. CASE Landed(i) /\ clPc' = [clPc EXCEPT ![i] = "posted"] /\ clUnsaved' = clUnsaved
    <3>1. clPc'[i] = "posted"
      BY <1>0, <2>11 DEF ClTypeOK
    <3>2. CASE clPick[i].kind = "trade" /\ clPick[i].kind # "offer" /\ clPick[i].id \in OfferIds
      <4>1. clTrades' = [clTrades EXCEPT ![clPick[i].id] = @ + 1] /\ clOffered' = clOffered
        BY <2>11, <3>2 DEF Landed
      <4>2. clPc'[i] = "posted" /\ clPick'[i].kind = "trade" /\ clPick'[i].id = clPick[i].id
        BY <1>2, <3>1, <3>2
      <4>3. \A j \in Calls : ~(clPc'[j] = "posted" /\ clPick'[j].kind = "offer")
        BY <1>2, <2>2, <2>3, <3>2 DEF Posted
      <4>4. ASSUME NEW d \in OfferIds
            PROVE  /\ clTrades'[d] <= 1 + clUnsaved'.trades[d]
                   /\ clTrades'[d] <= clUnsaved'.trades[d] \/ d \in clTaken'.ids
                      \/ \E j \in Calls : clPc'[j] = "posted" /\ clPick'[j].kind = "trade" /\ clPick'[j].id = d
        <5>1. CASE d = clPick[i].id
          <6>1. clTrades'[d] = clTrades[d] + 1
            BY <1>0, <4>1, <5>1 DEF ClTypeOK
          <6>2. clTrades[d] <= clUnsaved.trades[d]
            BY <2>6, <2>10, <3>2, <5>1
          <6>3. clTrades'[d] <= 1 + clUnsaved'.trades[d]
            BY <2>6, <2>11, <6>1, <6>2
          <6> QED
            BY <4>2, <5>1, <6>3
        <5>2. CASE d # clPick[i].id
          <6>1. clTrades'[d] = clTrades[d]
            BY <1>0, <4>1, <5>2 DEF ClTypeOK
          <6> QED
            BY <1>2, <2>6, <2>11, <6>1
        <5> QED
          BY <5>1, <5>2
      <4>5. clOffered' <= clTaken'.offered + clUnsaved'.qty
        BY <1>2, <2>7, <2>11, <4>1
      <4> QED
        BY <4>3, <4>4, <4>5, <2>5, CountedNext
    <3>3. CASE clPick[i].kind = "offer" /\ clPick[i].kind # "trade" /\ clPick[i].qty \in Nat
      <4>1. clTrades' = clTrades /\ clOffered' = clOffered + clPick[i].qty
        BY <2>11, <3>3 DEF Landed
      <4>2. /\ clPc'[i] = "posted" /\ clPick'[i].kind = "offer"
            /\ \A j \in Calls : clPc'[j] = "posted" /\ clPick'[j].kind = "offer" => j = i
        BY <1>2, <2>2, <2>3, <3>1, <3>3 DEF Posted
      <4>3. clOffered' <= clTaken'.offered + clUnsaved'.qty + clPick'[i].qty
        BY <1>2, <2>7, <2>8, <2>11, <3>3, <4>1
      <4>4. \A d \in OfferIds : /\ clTrades'[d] <= 1 + clUnsaved'.trades[d]
                                /\ clTrades'[d] <= clUnsaved'.trades[d] \/ d \in clTaken'.ids
        BY <1>2, <2>6, <2>11, <4>1
      <4> QED
        BY <4>2, <4>3, <4>4, <2>5, CountedNext
    <3> QED
      BY <2>9, <3>2, <3>3
  <2>12. ASSUME clPc' = [clPc EXCEPT ![i] = "done"]
         PROVE  \A j \in Calls : ~(clPc'[j] = "posted" /\ clPick'[j].kind = "offer")
    BY <1>0, <2>2, <2>3, <2>12 DEF Posted, ClTypeOK
  <2>13. CASE Landed(i) /\ Forgotten(i) /\ clPc' = [clPc EXCEPT ![i] = "done"]
    <3>1. CASE clPick[i].kind = "trade" /\ clPick[i].kind # "offer" /\ clPick[i].id \in OfferIds
      <4>1. /\ clTrades' = [clTrades EXCEPT ![clPick[i].id] = @ + 1] /\ clOffered' = clOffered
            /\ clUnsaved' = [clUnsaved EXCEPT !.trades[clPick[i].id] = @ + 1]
        BY <2>13, <3>1 DEF Landed, Forgotten
      <4>2. clUnsaved'.qty = clUnsaved.qty
        BY <1>0, <4>1 DEF ClTypeOK
      <4>3. ASSUME NEW d \in OfferIds
            PROVE  /\ clTrades'[d] <= 1 + clUnsaved'.trades[d]
                   /\ clTrades'[d] <= clUnsaved'.trades[d] \/ d \in clTaken'.ids
        <5>1. clUnsaved'.trades = [clUnsaved.trades EXCEPT ![clPick[i].id] = @ + 1]
          BY <1>0, <4>1 DEF ClTypeOK
        <5>2. CASE d = clPick[i].id
          <6>1. clTrades'[d] = clTrades[d] + 1 /\ clUnsaved'.trades[d] = clUnsaved.trades[d] + 1
            BY <1>0, <4>1, <5>1, <5>2 DEF ClTypeOK
          <6>2. clTrades[d] <= clUnsaved.trades[d]
            BY <2>6, <2>10, <3>1, <5>2
          <6> QED
            BY <2>6, <6>1, <6>2
        <5>3. CASE d # clPick[i].id
          <6>1. clTrades'[d] = clTrades[d] /\ clUnsaved'.trades[d] = clUnsaved.trades[d]
            BY <1>0, <4>1, <5>1, <5>3 DEF ClTypeOK
          <6> QED
            BY <1>2, <2>6, <6>1
        <5> QED
          BY <5>2, <5>3
      <4>4. clOffered' <= clTaken'.offered + clUnsaved'.qty
        BY <1>2, <2>7, <4>1, <4>2
      <4> QED
        BY <2>12, <2>13, <4>3, <4>4, <2>5, CountedNext
    <3>2. CASE clPick[i].kind = "offer" /\ clPick[i].kind # "trade" /\ clPick[i].qty \in Nat
      <4>1. /\ clTrades' = clTrades /\ clOffered' = clOffered + clPick[i].qty
            /\ clUnsaved' = [clUnsaved EXCEPT !.qty = @ + clPick[i].qty]
        BY <2>13, <3>2 DEF Landed, Forgotten
      <4>2. clUnsaved'.qty = clUnsaved.qty + clPick[i].qty /\ clUnsaved'.trades = clUnsaved.trades
        BY <1>0, <4>1 DEF ClTypeOK
      <4>3. clOffered' <= clTaken'.offered + clUnsaved'.qty
        BY <1>2, <2>7, <2>8, <3>2, <4>1, <4>2
      <4>4. \A d \in OfferIds : /\ clTrades'[d] <= 1 + clUnsaved'.trades[d]
                                /\ clTrades'[d] <= clUnsaved'.trades[d] \/ d \in clTaken'.ids
        BY <1>2, <2>6, <4>1, <4>2
      <4> QED
        BY <2>12, <2>13, <4>3, <4>4, <2>5, CountedNext
    <3> QED
      BY <2>9, <3>1, <3>2
  <2>14. CASE /\ clPc' = [clPc EXCEPT ![i] = "done"]
              /\ clTrades' = clTrades /\ clOffered' = clOffered /\ clUnsaved' = clUnsaved
    BY <1>2, <2>6, <2>7, <2>12, <2>14, <2>5, CountedNext
  <2> QED
    BY <2>5, <2>11, <2>13, <2>14 DEF PostLine
<1> QED
  BY <1>1, <1>3 DEF CloseInv

\* The file written, or the invocation dead before or while it writes: what
\* was posted is in the file, or it is counted as unsaved.
LEMMA EndKeeps ==
  ASSUME CloseInv, NEW i \in Calls, SaveTaken(i) \/ DieUnsaved(i) \/ DieSaving(i)
  PROVE  CloseInv'
<1>0. ClTypeOK /\ clPc[i] = "posted"
  BY DEF CloseInv, SaveTaken, DieUnsaved, DieSaving
<1>1. ClTypeOK'
  BY <1>0, RunningKeepsTypes
<1>2. /\ clMine' = clMine /\ clPick' = clPick /\ clOverlap' = clOverlap
      /\ clTrades' = clTrades /\ clOffered' = clOffered /\ clPc' = [clPc EXCEPT ![i] = "done"]
  BY DEF SaveTaken, DieUnsaved, DieSaving
<1>3. ASSUME ~clOverlap'
      PROVE  RunsAlone' /\ PostsAreCounted'
  <2>1. RunsAlone /\ PostsAreCounted
    BY <1>2, <1>3 DEF CloseInv
  <2>2. /\ \A j \in Calls : clPc[j] \in {"ready", "posted"} => j = i
        /\ \A d : InFlight(d) <=> (Posted(i, "trade") /\ clPick[i].id = d)
        /\ \A j \in Calls : Posted(j, "offer") => j = i
    BY <1>0, <2>1, OnlyOneRuns
  <2>3. \A j \in Calls : clPc'[j] \notin {"ready", "posted"}
    BY <1>0, <1>2, <2>2 DEF ClTypeOK
  <2>4. ClRunning' = {}
    BY <2>3 DEF ClRunning
  <2>5. \A j \in Calls : clPc'[j] # "posted"
    BY <2>3
  <2>6. clTaken.offered \in Nat /\ clUnsaved.qty \in Nat /\ clOffered \in Nat
    BY <1>0 DEF ClTypeOK, File
  <2>7. \A d \in OfferIds : /\ clTrades[d] <= 1 + clUnsaved.trades[d]
                            /\ \/ clTrades[d] <= clUnsaved.trades[d] \/ d \in clTaken.ids
                               \/ clPick[i].kind = "trade" /\ clPick[i].id = d
                            /\ clTrades[d] \in Nat /\ clUnsaved.trades[d] \in Nat
    BY <1>0, <2>1, <2>2 DEF PostsAreCounted, Posted, ClTypeOK
  <2>8. /\ clOffered <= clTaken.offered + clUnsaved.qty \/ clPick[i].kind = "offer"
        /\ clPick[i].kind = "offer" => clOffered <= clTaken.offered + clUnsaved.qty + clPick[i].qty
    BY <1>0, <2>1, <2>2 DEF PostsAreCounted, Posted
  <2>9. clMine[i] = clTaken /\ clTaken.offered <= TARGET
    BY <1>0, <2>1 DEF RunsAlone, ClRunning
  <2>10. clPick[i].kind = "offer" => clTaken.offered + clPick[i].qty <= TARGET
    BY <1>0, <2>1 DEF RunsAlone, ClRunning
  <2>11. \/ clPick[i].kind = "trade" /\ clPick[i].kind # "offer" /\ clPick[i].id \in OfferIds
         \/ clPick[i].kind = "offer" /\ clPick[i].kind # "trade" /\ clPick[i].qty \in Nat
    BY <1>0, ChoiceFields
  <2>12. ASSUME clTaken'.offered <= TARGET
         PROVE  RunsAlone'
    BY <2>4, <2>12 DEF RunsAlone
  <2>13. CASE SaveTaken(i)
    <3>0. clUnsaved' = clUnsaved
      BY <2>13 DEF SaveTaken
    <3>1. CASE clPick[i].kind = "trade" /\ clPick[i].kind # "offer"
      <4>2. clTaken'.offered = clTaken.offered /\ clTaken'.ids = clTaken.ids \cup {clPick[i].id}
        BY <1>0, <2>9, <2>13, <3>1, RecordedIsFile DEF SaveTaken
      <4>3. \A d \in OfferIds : /\ clTrades'[d] <= 1 + clUnsaved'.trades[d]
                                /\ clTrades'[d] <= clUnsaved'.trades[d] \/ d \in clTaken'.ids
        BY <1>2, <2>7, <3>0, <4>2
      <4>4. clOffered' <= clTaken'.offered + clUnsaved'.qty
        BY <1>2, <2>8, <3>0, <3>1, <4>2
      <4> QED
        BY <2>5, <2>9, <2>12, <4>2, <4>3, <4>4, CountedNext
    <3>2. CASE clPick[i].kind = "offer" /\ clPick[i].kind # "trade" /\ clPick[i].qty \in Nat
      <4>2. clTaken'.offered = clTaken.offered + clPick[i].qty /\ clTaken'.ids = clTaken.ids
        BY <1>0, <2>9, <2>13, <3>2, RecordedIsFile DEF SaveTaken
      <4>3. \A d \in OfferIds : /\ clTrades'[d] <= 1 + clUnsaved'.trades[d]
                                /\ clTrades'[d] <= clUnsaved'.trades[d] \/ d \in clTaken'.ids
        BY <1>2, <2>7, <3>0, <3>2, <4>2
      <4>4. clOffered' <= clTaken'.offered + clUnsaved'.qty
        BY <1>2, <2>6, <2>8, <3>0, <3>2, <4>2
      <4>5. clTaken'.offered <= TARGET
        BY <2>10, <3>2, <4>2
      <4> QED
        BY <2>5, <2>12, <4>3, <4>4, <4>5, CountedNext
    <3> QED
      BY <2>11, <3>1, <3>2
  <2>14. CASE DieUnsaved(i)
    <3>0. clTaken' = clTaken
      BY <2>14 DEF DieUnsaved
    <3>1. CASE clPick[i].kind = "trade" /\ clPick[i].kind # "offer" /\ clPick[i].id \in OfferIds
      <4>1. clUnsaved' = [clUnsaved EXCEPT !.trades[clPick[i].id] = @ + 1]
        BY <2>14, <3>1 DEF DieUnsaved, Forgotten
      <4>2. /\ clUnsaved'.qty = clUnsaved.qty
            /\ clUnsaved'.trades = [clUnsaved.trades EXCEPT ![clPick[i].id] = @ + 1]
        BY <1>0, <4>1 DEF ClTypeOK
      <4>3. ASSUME NEW d \in OfferIds
            PROVE  /\ clTrades'[d] <= 1 + clUnsaved'.trades[d]
                   /\ clTrades'[d] <= clUnsaved'.trades[d] \/ d \in clTaken'.ids
        <5>1. CASE d = clPick[i].id
          <6>1. clUnsaved'.trades[d] = clUnsaved.trades[d] + 1
            BY <1>0, <4>2, <5>1 DEF ClTypeOK
          <6> QED
            BY <1>2, <2>7, <6>1
        <5>2. CASE d # clPick[i].id
          <6>1. clUnsaved'.trades[d] = clUnsaved.trades[d]
            BY <1>0, <4>2, <5>2 DEF ClTypeOK
          <6> QED
            BY <1>2, <2>7, <3>0, <5>2, <6>1
        <5> QED
          BY <5>1, <5>2
      <4>4. clOffered' <= clTaken'.offered + clUnsaved'.qty
        BY <1>2, <2>8, <3>0, <3>1, <4>2
      <4> QED
        BY <2>5, <2>9, <2>12, <3>0, <4>3, <4>4, CountedNext
    <3>2. CASE clPick[i].kind = "offer" /\ clPick[i].kind # "trade" /\ clPick[i].qty \in Nat
      <4>1. clUnsaved' = [clUnsaved EXCEPT !.qty = @ + clPick[i].qty]
        BY <2>14, <3>2 DEF DieUnsaved, Forgotten
      <4>2. clUnsaved'.qty = clUnsaved.qty + clPick[i].qty /\ clUnsaved'.trades = clUnsaved.trades
        BY <1>0, <4>1 DEF ClTypeOK
      <4>3. \A d \in OfferIds : /\ clTrades'[d] <= 1 + clUnsaved'.trades[d]
                                /\ clTrades'[d] <= clUnsaved'.trades[d] \/ d \in clTaken'.ids
        BY <1>2, <2>7, <3>0, <3>2, <4>2
      <4>4. clOffered' <= clTaken'.offered + clUnsaved'.qty
        BY <1>2, <2>6, <2>8, <3>0, <3>2, <4>2
      <4> QED
        BY <2>5, <2>9, <2>12, <3>0, <4>3, <4>4, CountedNext
    <3> QED
      BY <2>11, <3>1, <3>2
  <2>15. CASE DieSaving(i)
    <3>1. clTaken'.ids = {} /\ clTaken'.offered = 0
      BY <2>15 DEF DieSaving, EmptyFile
    <3>2. /\ clUnsaved'.qty = clUnsaved.qty + Recorded(i).offered
          /\ \A d \in OfferIds : clUnsaved'.trades[d] = IF d \in Recorded(i).ids THEN clUnsaved.trades[d] + 1
                                                        ELSE clUnsaved.trades[d]
      BY <2>15 DEF DieSaving
    <3>3. /\ Recorded(i).offered \in Nat /\ TARGET \in Nat
          /\ clTaken.ids \subseteq Recorded(i).ids
          /\ clPick[i].kind = "trade" => /\ clPick[i].id \in Recorded(i).ids
                                         /\ Recorded(i).offered = clTaken.offered
          /\ clPick[i].kind = "offer" => Recorded(i).offered = clTaken.offered + clPick[i].qty
      <4>1. /\ Recorded(i) \in File
            /\ clPick[i].kind = "trade" => /\ Recorded(i).ids = clMine[i].ids \cup {clPick[i].id}
                                           /\ Recorded(i).offered = clMine[i].offered
            /\ clPick[i].kind = "offer" => /\ Recorded(i).ids = clMine[i].ids
                                           /\ Recorded(i).offered = clMine[i].offered + clPick[i].qty
        BY <1>0, <2>9, RecordedIsFile
      <4>2. TARGET \in Nat /\ Recorded(i).offered \in Nat
        BY <4>1, Close1Assumption DEF File
      <4> HIDE DEF Recorded
      <4>3. clTaken.ids \subseteq Recorded(i).ids
        BY <2>9, <2>11, <4>1
      <4> QED
        BY <2>9, <4>1, <4>2, <4>3
    <3> HIDE DEF Recorded
    <3>4. \A d \in OfferIds : clTrades'[d] <= clUnsaved'.trades[d] /\ clTrades'[d] <= 1 + clUnsaved'.trades[d]
      <4> SUFFICES ASSUME NEW d \in OfferIds
                   PROVE  clTrades'[d] <= clUnsaved'.trades[d] /\ clTrades'[d] <= 1 + clUnsaved'.trades[d]
        OBVIOUS
      <4>1. CASE d \in Recorded(i).ids
        BY <1>2, <2>7, <3>2, <4>1
      <4>2. CASE d \notin Recorded(i).ids
        BY <1>2, <2>7, <3>2, <3>3, <4>2
      <4> QED
        BY <4>1, <4>2
    <3>5. clOffered' <= clTaken'.offered + clUnsaved'.qty
      BY <1>2, <2>6, <2>8, <2>11, <3>1, <3>2, <3>3
    <3> QED
      BY <2>5, <2>12, <3>1, <3>3, <3>4, <3>5, CountedNext
  <2> QED
    BY <2>13, <2>14, <2>15
<1> QED
  BY <1>1, <1>3 DEF CloseInv

LEMMA CloseBegins ==
  ASSUME ClInit
  PROVE  CloseInv
<1> USE DEF ClInit, EmptyFile
<1>1. ClTypeOK
  <2>1. clTaken \in File
    BY DEF File
  <2>2. clMine \in [Calls -> File]
    BY <2>1
  <2>3. clTrades \in [OfferIds -> Nat] /\ clUnsaved \in [trades : [OfferIds -> Nat], qty : Nat]
    OBVIOUS
  <2>4. \A i \in ClRunning : clPick[i] # NoPick
    BY DEF ClRunning
  <2> QED
    BY <2>1, <2>2, <2>3, <2>4 DEF ClTypeOK
<1>2. RunsAlone
  <2>1. ClRunning = {}
    BY DEF ClRunning
  <2>2. TARGET \in Nat
    BY Close1Assumption
  <2> QED
    BY <2>1, <2>2 DEF RunsAlone
<1>3. PostsAreCounted
  BY DEF PostsAreCounted, InFlight, Posted
<1> QED
  BY <1>1, <1>2, <1>3 DEF CloseInv

LEMMA CloseStep ==
  ASSUME CloseInv, [ClNext]_clVars
  PROVE  CloseInv'
<1>0. ClTypeOK
  BY DEF CloseInv
<1>1. ASSUME NEW i \in Calls, AutoBegin(i)
      PROVE  CloseInv'
  BY <1>0, <1>1, AutoBegins, BeginsKeeps
<1>2. ASSUME NEW i \in Calls, OfferBegin(i)
      PROVE  CloseInv'
  BY <1>0, <1>2, OfferBegins, BeginsKeeps
<1>3. ASSUME NEW i \in Calls, PostLine(i)
      PROVE  CloseInv'
  BY <1>3, PostKeeps
<1>4. ASSUME NEW i \in Calls, SaveTaken(i) \/ DieUnsaved(i) \/ DieSaving(i)
      PROVE  CloseInv'
  BY <1>4, EndKeeps
<1>5. CASE UNCHANGED clVars
  <2>1. /\ clTaken' = clTaken /\ clPc' = clPc /\ clMine' = clMine /\ clPick' = clPick
        /\ clTrades' = clTrades /\ clOffered' = clOffered /\ clUnsaved' = clUnsaved /\ clOverlap' = clOverlap
    BY <1>5 DEF clVars
  <2> QED
    BY <2>1 DEF CloseInv, ClTypeOK, ClRunning, RunsAlone, PostsAreCounted, InFlight, Posted
<1> QED
  BY <1>1, <1>2, <1>3, <1>4, <1>5 DEF ClNext

\* As long as no two invocations of the close-1 runner overlap, each works
\* on the file as it is, and whatever reached the room is in the file, in
\* flight, or counted among what a failed post, a death before the write or
\* one in the middle of it kept out of the file or took with it.
THEOREM CloseInvariant == ClSpec => []CloseInv
<1>1. ClInit => CloseInv
  BY CloseBegins
<1>2. CloseInv /\ [ClNext]_clVars => CloseInv'
  BY CloseStep
<1> QED
  BY <1>1, <1>2, PTL DEF ClSpec

\* What the file has recorded is neither offered nor taken again: offers
\* stop at TARGET and no offer is taken twice, except for what posts that
\* raised or invocations that died kept out of the file, or took with it.
THEOREM DealsAreCountedOnce == ClSpec => []DealsAreCounted
<1>1. CloseInv => DealsAreCounted
  <2> SUFFICES ASSUME CloseInv, ~clOverlap
               PROVE  clOffered <= TARGET + clUnsaved.qty /\ \A d \in OfferIds : clTrades[d] <= 1 + clUnsaved.trades[d]
    BY DEF DealsAreCounted, TargetHolds, OfferTakenOnce
  <2>1. ClTypeOK /\ RunsAlone /\ PostsAreCounted
    BY DEF CloseInv
  <2>2. clTaken.offered \in Nat /\ clUnsaved.qty \in Nat /\ clOffered \in Nat /\ TARGET \in Nat
    BY <2>1, Close1Assumption DEF ClTypeOK, File
  <2>3. CASE \E i \in Calls : Posted(i, "offer")
    <3>1. PICK i \in Calls : Posted(i, "offer")
      BY <2>3
    <3>2. clPc[i] = "posted" /\ clPick[i].kind = "offer"
      BY <3>1 DEF Posted
    <3>3. clPick[i].qty \in Nat
      BY <2>1, <3>2, ChoiceFields
    <3>4. clTaken.offered + clPick[i].qty <= TARGET
      BY <2>1, <3>2 DEF RunsAlone, ClRunning
    <3>5. clOffered <= clTaken.offered + clUnsaved.qty + clPick[i].qty
      BY <2>1, <3>1 DEF PostsAreCounted
    <3>6. clOffered <= TARGET + clUnsaved.qty
      BY <2>2, <3>3, <3>4, <3>5
    <3> QED
      BY <2>1, <3>6 DEF PostsAreCounted
  <2>4. CASE ~\E i \in Calls : Posted(i, "offer")
    <3>1. clOffered <= clTaken.offered + clUnsaved.qty /\ clTaken.offered <= TARGET
      BY <2>1, <2>4 DEF PostsAreCounted, RunsAlone
    <3>2. clOffered <= TARGET + clUnsaved.qty
      BY <2>2, <3>1
    <3> QED
      BY <2>1, <3>2 DEF PostsAreCounted
  <2> QED
    BY <2>3, <2>4
<1> QED
  BY <1>1, CloseInvariant, PTL

-----------------------------------------------------------------------------
(* The block-reward worker.  That no lock is passed over is not inductive: *)
(* the phases and cursors of the dictionary, in memory and as last saved,  *)
(* have to agree with what was delivered and tried (RewardsInv).           *)

\* A state with the dictionary's fields and no pending deal.
LEMMA EmptyIsState == IsState(EmptyState)
<1>1. EmptyState.pending = NoDeals /\ EmptyState.room_since = [c \in Contracts |-> 0]
  BY DEF EmptyState
<1>2. EmptyState.board_since = 0 /\ EmptyState.offers = {}
  BY DEF EmptyState
<1>3. NoDeals \in [Contracts -> Phases]
  BY DEF NoDeals, Phases
<1>4. [c \in Contracts |-> 0] \in [Contracts -> Nat]
  OBVIOUS
<1> QED
  BY <1>1, <1>2, <1>3, <1>4 DEF IsState

\* The fields of a state.
LEMMA StateFields ==
  DOMAIN EmptyState = {"backfill_done", "board_since", "feed_since", "seen", "done", "offers", "queue",
                       "accepts", "working", "payouts_seen", "room_since", "pending"}
BY DEF EmptyState

\* What a deal keeps in a step that is not about it.
Untouched(c) ==
    /\ brPending'[c] = brPending[c] /\ brRevealed'[c] = brRevealed[c]
    /\ brMem'.pending[c] = brMem.pending[c] /\ brMem'.room_since[c] = brMem.room_since[c]

\* What a step about a deal must see to.
Sound(c) ==
    /\ brMem'.room_since[c] <= Len(brRoom[c])
    /\ brPending'[c] = "accepted" => brMem'.pending[c] = "accepted"
    /\ brPending'[c] = "delivered" \/ brMem'.pending[c] = "delivered" =>
          /\ c \in brDelivered'
          /\ (\E k \in 1 .. brMem'.room_since[c] : brRoom[c][k] = "verified") => c \in brMissed'
    /\ brRevealed'[c] # "none" => c \in brDelivered'

\* A step of the worker between two saves, deal by deal.
LEMMA DealByDeal ==
  ASSUME RewardsInv, BrTypeOK', brRoom' = brRoom, brDisk' = brDisk,
         brDelivered \subseteq brDelivered', brMissed \subseteq brMissed',
         \A o \in Offers : brAccepts[o] <= brAccepts'[o],
         \A c \in Contracts : Untouched(c) \/ Sound(c)
  PROVE  RewardsInv'
<1>0. BrTypeOK /\ PhasesAgree /\ RoomsAreAhead /\ PassedIsMissed /\ RevealFollowsDelivery
  BY DEF RewardsInv
<1>1. ASSUME NEW c \in Contracts
      PROVE  /\ brPending'[c] = "delivered" => c \in brDelivered'
             /\ brMem'.pending[c] = "delivered" => c \in brDelivered'
             /\ brDisk'.pending[c] = "delivered" => c \in brDelivered'
             /\ brPending'[c] = "accepted" => brMem'.pending[c] = "accepted"
  BY <1>0 DEF PhasesAgree, Delivered, Untouched, Sound
<1>2. PhasesAgree'
  BY <1>1 DEF PhasesAgree, Delivered
<1>3. RoomsAreAhead'
  <2>1. ASSUME NEW c \in Contracts
        PROVE  /\ brMem'.room_since[c] <= Len(brRoom[c]) /\ brDisk'.room_since[c] <= Len(brRoom[c])
               /\ c[2] > brAccepts'[c[1]] => brRoom[c] = <<>>
    <3>1. brMem'.room_since[c] <= Len(brRoom[c]) /\ brDisk'.room_since[c] <= Len(brRoom[c])
      BY <1>0 DEF RoomsAreAhead, Untouched, Sound
    <3>2. c[1] \in Offers /\ c[2] \in Nat
      BY DEF Contracts
    <3>3. brAccepts[c[1]] \in Nat /\ brAccepts'[c[1]] \in Nat /\ brAccepts[c[1]] <= brAccepts'[c[1]]
      BY <1>0, <3>2 DEF BrTypeOK
    <3>4. c[2] > brAccepts'[c[1]] => c[2] > brAccepts[c[1]]
      BY <3>2, <3>3
    <3> QED
      BY <1>0, <3>1, <3>4 DEF RoomsAreAhead
  <2> QED
    BY <2>1 DEF RoomsAreAhead
<1>4. PassedIsMissed'
  <2>1. ASSUME NEW c \in Contracts, brPending'[c] = "delivered" \/ brMem'.pending[c] = "delivered",
               \E k \in 1 .. brMem'.room_since[c] : brRoom[c][k] = "verified"
        PROVE  c \in brMissed'
    <3>1. CASE Untouched(c)
      BY <1>0, <2>1, <3>1 DEF PassedIsMissed, PassedLock, lock_verified, Delivered, Untouched
    <3>2. CASE Sound(c)
      BY <2>1, <3>2 DEF Sound
    <3> QED
      BY <3>1, <3>2
  <2>2. ASSUME NEW c \in Contracts, brDisk'.pending[c] = "delivered",
               \E k \in 1 .. brDisk'.room_since[c] : brRoom[c][k] = "verified"
        PROVE  c \in brMissed'
    BY <1>0, <2>2 DEF PassedIsMissed, PassedLock, lock_verified, Delivered
  <2> QED
    BY <2>1, <2>2 DEF PassedIsMissed, PassedLock, lock_verified, Delivered
<1>5. RevealFollowsDelivery'
  <2>1. ASSUME NEW c \in Contracts, brRevealed'[c] # "none"
        PROVE  c \in brDelivered'
    BY <1>0, <2>1 DEF RevealFollowsDelivery, Untouched, Sound
  <2> QED
    BY <2>1 DEF RevealFollowsDelivery
<1> QED
  BY <1>2, <1>3, <1>4, <1>5 DEF RewardsInv

\* Steps that leave the deals alone.
LEMMA DealsLeftAlone ==
  ASSUME RewardsInv, IsState(brMem'), brBoard' \in Seq(BoardFrames),
         brMem'.pending = brMem.pending, brMem'.room_since = brMem.room_since,
         brPending' = brPending, brRoom' = brRoom, brDisk' = brDisk,
         brAccepts' = brAccepts, brDelivered' = brDelivered, brRevealed' = brRevealed, brMissed' = brMissed
  PROVE  RewardsInv'
<1>1. BrTypeOK'
  BY DEF RewardsInv, BrTypeOK, IsState
<1>2. \A c \in Contracts : Untouched(c)
  BY DEF Untouched
<1>3. \A o \in Offers : brAccepts[o] <= brAccepts'[o]
  BY DEF RewardsInv, BrTypeOK
<1> QED
  BY <1>1, <1>2, <1>3, DealByDeal

\* Changing fields that say nothing of deals.
LEMMA FieldUpdates ==
  ASSUME NEW d, IsState(d), NEW x, NEW y, NEW z, NEW w
  PROVE  LET same(e) == e.pending = d.pending /\ e.room_since = d.room_since
         IN /\ IsState([d EXCEPT !.seen = x, !.queue = y, !.working = z, !.feed_since = w])
            /\ same([d EXCEPT !.seen = x, !.queue = y, !.working = z, !.feed_since = w])
            /\ IsState([d EXCEPT !.queue = x]) /\ same([d EXCEPT !.queue = x])
            /\ IsState([d EXCEPT !.accepts = x]) /\ same([d EXCEPT !.accepts = x])
            /\ IsState([d EXCEPT !.working = x]) /\ same([d EXCEPT !.working = x])
            /\ IsState([d EXCEPT !.payouts_seen = x]) /\ same([d EXCEPT !.payouts_seen = x])
BY StateFields DEF IsState

\* The types of a state the invariant speaks of.
LEMMA RewardsTypes ==
  ASSUME RewardsInv
  PROVE  /\ BrTypeOK /\ IsState(brMem) /\ IsState(brDisk) /\ brPending \in [Contracts -> Phases]
         /\ brBoard \in Seq(BoardFrames) /\ brAccepts \in [Offers -> Nat]
BY DEF RewardsInv, BrTypeOK

LEMMA AnnounceKeeps ==
  ASSUME RewardsInv, NEW o \in Offers, Announce(o)
  PROVE  RewardsInv'
<1>1. OfferFrame(o) \in BoardFrames
  BY DEF OfferFrame, BoardFrames
<1>2. brBoard' \in Seq(BoardFrames)
  <2> HIDE DEF BoardFrames
  <2>1. brBoard' = Append(brBoard, OfferFrame(o))
    BY DEF Announce
  <2> QED
    BY <1>1, <2>1, RewardsTypes, AppendProperties
<1>3. /\ brMem' = brMem /\ brPending' = brPending /\ brRoom' = brRoom /\ brDisk' = brDisk
      /\ brAccepts' = brAccepts /\ brDelivered' = brDelivered /\ brRevealed' = brRevealed /\ brMissed' = brMissed
  BY DEF Announce, brWorker, brHistory, brDeals
<1> QED
  BY <1>2, <1>3, RewardsTypes, DealsLeftAlone

\* Payers act only on what was accepted, and a frame goes behind the cursors.
LEMMA PostFrameKeeps ==
  ASSUME RewardsInv, NEW c \in Contracts, PostFrame(c)
  PROVE  RewardsInv'
<1>0. BrTypeOK /\ PhasesAgree /\ RoomsAreAhead /\ PassedIsMissed /\ RevealFollowsDelivery
  BY DEF RewardsInv
<1>1. /\ brMem' = brMem /\ brPending' = brPending /\ brDisk' = brDisk
      /\ brAccepts' = brAccepts /\ brDelivered' = brDelivered /\ brRevealed' = brRevealed /\ brMissed' = brMissed
  BY DEF PostFrame, brWorker, brHistory, brDeals
<1>2. CASE \E k \in {"lock", "reveal"} : brBoard' = Append(brBoard, [kind |-> k, c |-> c]) /\ brRoom' = brRoom
  <2>1. PICK k \in {"lock", "reveal"} : brBoard' = Append(brBoard, [kind |-> k, c |-> c]) /\ brRoom' = brRoom
    BY <1>2
  <2>2. [kind |-> k, c |-> c] \in BoardFrames
    BY DEF BoardFrames
  <2>3. brBoard' \in Seq(BoardFrames)
    <3> HIDE DEF BoardFrames
    <3> QED
      BY <2>1, <2>2, RewardsTypes, AppendProperties
  <2> QED
    BY <1>1, <2>1, <2>3, RewardsTypes, DealsLeftAlone
<1>3. CASE \E f \in DealFrames : brRoom' = [brRoom EXCEPT ![c] = Append(@, f)] /\ brBoard' = brBoard
  <2>1. PICK f \in DealFrames : brRoom' = [brRoom EXCEPT ![c] = Append(@, f)] /\ brBoard' = brBoard
    BY <1>3
  <2>2. brRoom \in [Contracts -> Seq(DealFrames)] /\ c[2] <= brAccepts[c[1]]
    BY <1>0 DEF BrTypeOK, PostFrame
  <2>3. brRoom[c] \in Seq(DealFrames) /\ brRoom'[c] = Append(brRoom[c], f)
    BY <2>1, <2>2
  <2>4. /\ Append(brRoom[c], f) \in Seq(DealFrames)
        /\ Len(Append(brRoom[c], f)) = Len(brRoom[c]) + 1 /\ Len(brRoom[c]) \in Nat
        /\ \A k \in 1 .. Len(brRoom[c]) : Append(brRoom[c], f)[k] = brRoom[c][k]
    <3> HIDE DEF DealFrames
    <3> QED
      BY <2>1, <2>3, AppendProperties, LenProperties
  <2>5. brRoom' \in [Contracts -> Seq(DealFrames)]
    BY <2>1, <2>2, <2>4
  <2>6. BrTypeOK'
    BY <1>0, <1>1, <2>1, <2>5 DEF BrTypeOK, IsState
  <2>7. \A x \in Contracts : x # c => brRoom'[x] = brRoom[x]
    BY <2>1, <2>2
  <2>8. RoomsAreAhead'
    <3>1. ASSUME NEW x \in Contracts
          PROVE  /\ brMem.room_since[x] <= Len(brRoom'[x]) /\ brDisk.room_since[x] <= Len(brRoom'[x])
                 /\ x[2] > brAccepts[x[1]] => brRoom'[x] = <<>>
      <4>1. CASE x = c
        <5>1. brMem.room_since[c] <= Len(brRoom[c]) /\ brDisk.room_since[c] <= Len(brRoom[c])
          BY <1>0 DEF RoomsAreAhead
        <5>2. brMem.room_since[c] \in Nat /\ brDisk.room_since[c] \in Nat
          BY <1>0 DEF BrTypeOK, IsState
        <5>3. brMem.room_since[c] <= Len(brRoom'[c]) /\ brDisk.room_since[c] <= Len(brRoom'[c])
          BY <2>3, <2>4, <5>1, <5>2
        <5>4. ~(c[2] > brAccepts[c[1]])
          <6>1. c[2] \in Nat /\ c[1] \in Offers
            BY DEF Contracts
          <6>2. brAccepts[c[1]] \in Nat
            BY <1>0, <6>1 DEF BrTypeOK
          <6> QED
            BY <2>2, <6>1, <6>2
        <5> QED
          BY <4>1, <5>3, <5>4
      <4>2. CASE x # c
        BY <1>0, <2>7, <4>2 DEF RoomsAreAhead
      <4> QED
        BY <4>1, <4>2
    <3> QED
      BY <1>1, <3>1 DEF RoomsAreAhead
  <2>9. ASSUME NEW x \in Contracts, NEW k, k \in 1 .. brMem.room_since[x] \/ k \in 1 .. brDisk.room_since[x]
        PROVE  brRoom'[x][k] = brRoom[x][k]
    <3>1. CASE x = c
      <4>1. brMem.room_since[c] <= Len(brRoom[c]) /\ brDisk.room_since[c] <= Len(brRoom[c])
        BY <1>0 DEF RoomsAreAhead
      <4>2. brMem.room_since[c] \in Nat /\ brDisk.room_since[c] \in Nat
        BY <1>0 DEF BrTypeOK, IsState
      <4>3. k \in 1 .. Len(brRoom[c])
        BY <2>4, <2>9, <3>1, <4>1, <4>2
      <4> QED
        BY <2>3, <2>4, <3>1, <4>3
    <3>2. CASE x # c
      BY <2>7, <3>2
    <3> QED
      BY <3>1, <3>2
  <2>10. PassedIsMissed'
    <3>1. ASSUME NEW x \in Contracts, brPending[x] = "delivered" \/ brMem.pending[x] = "delivered",
                 NEW k \in 1 .. brMem.room_since[x], brRoom'[x][k] = "verified"
          PROVE  x \in brMissed
      BY <1>0, <2>9, <3>1 DEF PassedIsMissed, PassedLock, lock_verified, Delivered
    <3>2. ASSUME NEW x \in Contracts, brDisk.pending[x] = "delivered",
                 NEW k \in 1 .. brDisk.room_since[x], brRoom'[x][k] = "verified"
          PROVE  x \in brMissed
      BY <1>0, <2>9, <3>2 DEF PassedIsMissed, PassedLock, lock_verified, Delivered
    <3> QED
      BY <1>1, <3>1, <3>2 DEF PassedIsMissed, PassedLock, lock_verified, Delivered
  <2>11. PhasesAgree' /\ RevealFollowsDelivery'
    BY <1>0, <1>1 DEF PhasesAgree, RevealFollowsDelivery, Delivered
  <2> QED
    BY <2>6, <2>8, <2>10, <2>11 DEF RewardsInv
<1> QED
  BY <1>2, <1>3 DEF PostFrame

\* The claim of a delivered deal, with the cursor already moved by the caller.
LEMMA RevealKeeps ==
  ASSUME RewardsInv, NEW c \in Contracts, NEW frame \in {"board"} \cup DealFrames, NEW mem,
         brPending[c] = "delivered", reveal(c, frame, mem),
         IsState(mem), mem.pending = brMem.pending, mem.room_since[c] <= Len(brRoom[c]),
         \A x \in Contracts : x # c => mem.room_since[x] = brMem.room_since[x],
         brBoard' = brBoard, brRoom' = brRoom, brDisk' = brDisk, brAccepts' = brAccepts, brDelivered' = brDelivered
  PROVE  RewardsInv'
<1>0. BrTypeOK /\ PhasesAgree /\ RoomsAreAhead /\ PassedIsMissed /\ RevealFollowsDelivery
  BY DEF RewardsInv
<1>1. c \in brDelivered
  BY <1>0 DEF PhasesAgree, Delivered
<1>2. \A o \in Offers : brAccepts[o] <= brAccepts'[o]
  BY <1>0 DEF BrTypeOK
<1>3. CASE /\ brPending' = [brPending EXCEPT ![c] = "revealed"]
           /\ brMem' = [mem EXCEPT !.pending[c] = "revealed"]
           /\ brRevealed' = [brRevealed EXCEPT ![c] = frame] /\ brMissed' = brMissed
  <2>1. /\ IsState(brMem') /\ brMem'.pending = [mem.pending EXCEPT ![c] = "revealed"]
        /\ brMem'.room_since = mem.room_since
    BY <1>3, StateFields DEF IsState, Phases
  <2>2. brPending' \in [Contracts -> Phases] /\ brRevealed' \in [Contracts -> {"none", "board"} \cup DealFrames]
    BY <1>0, <1>3 DEF BrTypeOK, Phases
  <2>3. BrTypeOK'
    BY <1>0, <2>1, <2>2 DEF BrTypeOK, IsState
  <2>4. Sound(c)
    <3>1. brPending'[c] = "revealed" /\ brMem'.pending[c] = "revealed"
      BY <1>0, <1>3, <2>1 DEF BrTypeOK, IsState
    <3> QED
      BY <1>1, <2>1, <3>1 DEF Sound
  <2>5. \A x \in Contracts : x # c => Untouched(x)
    BY <1>0, <1>3, <2>1 DEF BrTypeOK, IsState, Untouched
  <2> QED
    BY <1>2, <1>3, <2>3, <2>4, <2>5, DealByDeal
<1>4. CASE /\ brMem' = mem /\ brMissed' = brMissed \cup {c} /\ brPending' = brPending
           /\ brRevealed' \in {brRevealed, [brRevealed EXCEPT ![c] = frame]}
  <2>1. BrTypeOK'
    <3>1. brRevealed' \in [Contracts -> {"none", "board"} \cup DealFrames]
      BY <1>0, <1>4 DEF BrTypeOK
    <3> QED
      BY <1>0, <1>4, <3>1 DEF BrTypeOK, IsState
  <2>2. Sound(c)
    <3>1. brMem'.pending[c] = brMem.pending[c] /\ brMem'.room_since[c] <= Len(brRoom[c]) /\ c \in brMissed'
      BY <1>4
    <3> QED
      BY <1>1, <1>4, <3>1 DEF Sound
  <2>3. \A x \in Contracts : x # c => Untouched(x)
    BY <1>0, <1>4 DEF BrTypeOK, Untouched
  <2> QED
    BY <1>2, <1>4, <2>1, <2>2, <2>3, DealByDeal
<1> QED
  BY <1>3, <1>4 DEF reveal

\* A frame of the board is an offer or is about a contract.
LEMMA BoardFrame ==
  ASSUME RewardsInv, brMem.board_since < Len(brBoard)
  PROVE  brBoard[brMem.board_since + 1] \in BoardFrames
<1>1. brMem.board_since \in Nat /\ brBoard \in Seq(BoardFrames)
  BY RewardsTypes DEF IsState
<1>2. Len(brBoard) \in Nat
  BY <1>1, LenProperties
<1>3. brMem.board_since + 1 \in 1 .. Len(brBoard)
  BY <1>1, <1>2
<1> HIDE DEF BoardFrames
<1> QED
  BY <1>1, <1>3, ElementOfSeq

LEMMA BackfillKeeps == RewardsInv /\ Backfill => RewardsInv'
<1> SUFFICES ASSUME RewardsInv, Backfill
             PROVE  RewardsInv'
  OBVIOUS
<1>0. BrTypeOK /\ PhasesAgree /\ RoomsAreAhead /\ PassedIsMissed /\ RevealFollowsDelivery
  BY DEF RewardsInv
<1>1. /\ brBoard' = brBoard /\ brRoom' = brRoom /\ brPending' = brPending
      /\ brAccepts' = brAccepts /\ brDelivered' = brDelivered /\ brRevealed' = brRevealed /\ brMissed' = brMissed
  BY DEF Backfill, brWorld, brHistory, brDeals
<1>2. CASE brMem' = brMem /\ brDisk' = brDisk
  BY <1>0, <1>1, <1>2, DealsLeftAlone DEF BrTypeOK
<1>3. CASE /\ brMem' = [brMem EXCEPT !.backfill_done = TRUE, !.board_since = Len(brBoard),
                            !.offers = @ \cup {o \in Offers : Contains(brBoard, OfferFrame(o))}]
           /\ brDisk' = brMem'
  <2> DEFINE cached == {o \in Offers : Contains(brBoard, OfferFrame(o))}
  <2>1. cached \subseteq Offers /\ Len(brBoard) \in Nat
    BY <1>0, LenProperties DEF BrTypeOK
  <2>2. brMem' = [brMem EXCEPT !.backfill_done = TRUE, !.board_since = Len(brBoard), !.offers = @ \cup cached]
    BY <1>3
  <2> HIDE DEF cached
  <2>3. IsState(brMem') /\ brMem'.pending = brMem.pending /\ brMem'.room_since = brMem.room_since
    BY <1>0, <2>1, <2>2, StateFields DEF IsState, BrTypeOK
  <2>4. BrTypeOK'
    BY <1>0, <1>1, <1>3, <2>3 DEF BrTypeOK, IsState
  <2>5. PhasesAgree' /\ RoomsAreAhead' /\ PassedIsMissed' /\ RevealFollowsDelivery'
    BY <1>0, <1>1, <1>3, <2>3
       DEF PhasesAgree, RoomsAreAhead, PassedIsMissed, PassedLock, Delivered, RevealFollowsDelivery
  <2> QED
    BY <2>4, <2>5 DEF RewardsInv
<1> QED
  BY <1>2, <1>3 DEF Backfill

LEMMA ScanBoardKeeps == RewardsInv /\ ScanBoard => RewardsInv'
<1> SUFFICES ASSUME RewardsInv, ScanBoard
             PROVE  RewardsInv'
  OBVIOUS
<1> DEFINE frame == brBoard[brMem.board_since + 1]
           mem == [brMem EXCEPT !.board_since = @ + 1]
<1>0. BrTypeOK /\ IsState(brMem)
  BY RewardsTypes
<1>1. /\ brBoard' = brBoard /\ brRoom' = brRoom /\ brDisk' = brDisk
      /\ brAccepts' = brAccepts /\ brDelivered' = brDelivered
  BY DEF ScanBoard, brWorld
<1>2. frame \in BoardFrames
  BY BoardFrame DEF ScanBoard
<1>3. IsState(mem) /\ mem.pending = brMem.pending /\ mem.room_since = brMem.room_since
  BY <1>0, StateFields DEF IsState
<1>4. \A c \in Contracts : mem.room_since[c] <= Len(brRoom[c])
  BY <1>3 DEF RewardsInv, RoomsAreAhead
<1>5. CASE /\ frame.kind = "offer"
           /\ brMem' = [mem EXCEPT !.offers = @ \cup {frame.o}]
           /\ brPending' = brPending /\ brRevealed' = brRevealed /\ brMissed' = brMissed
  <2>1. frame.o \in Offers
    BY <1>2, <1>5 DEF BoardFrames
  <2> HIDE DEF frame, mem
  <2>2. IsState(brMem') /\ brMem'.pending = mem.pending /\ brMem'.room_since = mem.room_since
    BY <1>3, <1>5, <2>1, StateFields DEF IsState
  <2> QED
    BY <1>0, <1>1, <1>3, <1>5, <2>2, DealsLeftAlone DEF BrTypeOK
<1>6. CASE frame.kind = "lock" /\ brPending[frame.c] = "delivered" /\ reveal(frame.c, "board", mem)
  <2>1. frame.c \in Contracts
    BY <1>2, <1>6 DEF BoardFrames
  <2>2. PICK c \in Contracts : c = frame.c
    BY <2>1
  <2> HIDE DEF frame, mem
  <2> QED
    BY <1>1, <1>3, <1>4, <1>6, <2>2, RevealKeeps
<1>7. CASE frame.kind = "reveal" /\ brPending[frame.c] = "revealed" /\ receipt(frame.c, mem)
  <2>1. frame.c \in Contracts
    BY <1>2, <1>7 DEF BoardFrames
  <2>2. PICK c \in Contracts : c = frame.c
    BY <2>1
  <2> HIDE DEF frame, mem
  <2>3. brMem' = mem /\ brRevealed' = brRevealed /\ brMissed' = brMissed
    BY <1>7 DEF receipt
  <2>4. CASE brPending' = brPending
    BY <1>0, <1>1, <1>3, <2>3, <2>4, DealsLeftAlone DEF BrTypeOK
  <2>5. CASE brPending' = [brPending EXCEPT ![c] = "receipted"]
    <3>1. brPending' \in [Contracts -> Phases]
      BY <1>0, <2>5 DEF BrTypeOK, Phases
    <3>2. BrTypeOK'
      BY <1>0, <1>1, <1>3, <2>3, <3>1 DEF BrTypeOK, IsState
    <3>3. brPending'[c] = "receipted"
      BY <1>0, <2>5 DEF BrTypeOK
    <3>4. /\ brMem.pending[c] = "delivered" => c \in brDelivered
          /\ brRevealed[c] # "none" => c \in brDelivered
          /\ brMem.pending[c] = "delivered" /\ (\E k \in 1 .. brMem.room_since[c] : brRoom[c][k] = "verified")
               => c \in brMissed
      BY DEF RewardsInv, PhasesAgree, RevealFollowsDelivery, PassedIsMissed, PassedLock, Delivered, lock_verified
    <3>5. Sound(c)
      BY <1>1, <1>3, <1>4, <2>3, <3>3, <3>4 DEF Sound
    <3>6. \A x \in Contracts : x # c => Untouched(x)
      BY <1>0, <1>3, <2>3, <2>5 DEF BrTypeOK, Untouched
    <3>7. \A o \in Offers : brAccepts[o] <= brAccepts'[o]
      BY <1>0, <1>1 DEF BrTypeOK
    <3> QED
      BY <1>1, <2>3, <3>2, <3>5, <3>6, <3>7, DealByDeal
  <2> QED
    BY <1>7, <2>2, <2>4, <2>5 DEF receipt
<1>8. CASE brMem' = mem /\ brPending' = brPending /\ brRevealed' = brRevealed /\ brMissed' = brMissed
  <2> HIDE DEF frame, mem
  <2> QED
    BY <1>0, <1>1, <1>3, <1>8, DealsLeftAlone DEF BrTypeOK
<1> QED
  BY <1>5, <1>6, <1>7, <1>8 DEF ScanBoard

\* The bookkeeping between the scans.
LEMMA QuietKeeps ==
  ASSUME RewardsInv, BoardRead \/ ScanFeed \/ QueueDone \/ PayoutsDone
  PROVE  RewardsInv'
<1>0. BrTypeOK /\ IsState(brMem)
  BY RewardsTypes
<1>1. /\ brBoard' = brBoard /\ brRoom' = brRoom /\ brDisk' = brDisk /\ brPending' = brPending
      /\ brAccepts' = brAccepts /\ brDelivered' = brDelivered /\ brRevealed' = brRevealed /\ brMissed' = brMissed
  BY DEF BoardRead, ScanFeed, QueueDone, PayoutsDone, brWorld, brHistory, brDeals
<1>2. IsState(brMem') /\ brMem'.pending = brMem.pending /\ brMem'.room_since = brMem.room_since
  <2>1. CASE brMem' = brMem
    BY <1>0, <2>1
  <2>2. CASE QueueDone
    BY <1>0, <2>2, FieldUpdates DEF QueueDone
  <2>3. CASE ScanFeed
    <3>1. PICK seen, queue, working, feed_since :
            brMem' = [brMem EXCEPT !.seen = seen, !.queue = queue, !.working = working, !.feed_since = feed_since]
      BY <2>3 DEF ScanFeed
    <3> QED
      BY <1>0, <3>1, StateFields DEF IsState
  <2> QED
    BY <2>1, <2>2, <2>3 DEF BoardRead, PayoutsDone
<1> QED
  BY <1>0, <1>1, <1>2, DealsLeftAlone DEF BrTypeOK

\* An offer is accepted under a contract that is new, so its room is empty:
\* a delivery cannot have passed over a lock.
LEMMA AcceptKeeps ==
  ASSUME RewardsInv, NEW o \in Offers, NEW mem, accept_and_deliver(o, mem),
         IsState(mem), mem.pending = brMem.pending, mem.room_since = brMem.room_since,
         brBoard' = brBoard, brRoom' = brRoom, brDisk' = brDisk, brRevealed' = brRevealed, brMissed' = brMissed
  PROVE  RewardsInv'
<1> DEFINE c == <<o, brAccepts[o] + 1>>
           marked == [mem EXCEPT !.working = Append(@, o)]
           accepted == [marked EXCEPT !.accepts = @ + 1, !.pending[c] = "accepted"]
<1>0. BrTypeOK /\ PhasesAgree /\ RoomsAreAhead /\ PassedIsMissed /\ RevealFollowsDelivery
  BY DEF RewardsInv
<1>1. brAccepts \in [Offers -> Nat] /\ [brAccepts EXCEPT ![o] = @ + 1] \in [Offers -> Nat]
  BY <1>0 DEF BrTypeOK
<1>2. IsState(marked) /\ marked.pending = mem.pending /\ marked.room_since = mem.room_since
  BY StateFields DEF IsState
<1>3. /\ IsState(accepted) /\ accepted.room_since = mem.room_since
      /\ accepted.pending = [mem.pending EXCEPT ![c] = "accepted"]
  <2> HIDE DEF marked, c
  <2> QED
    BY <1>2, StateFields DEF IsState, Phases
<1>4. brAccepts' \in {brAccepts, [brAccepts EXCEPT ![o] = @ + 1]}
  BY DEF accept_and_deliver
<1>5. \A x \in Offers : brAccepts[x] <= brAccepts'[x]
  BY <1>1, <1>4
<1>6. c \in Contracts => brRoom[c] = <<>> /\ Len(brRoom[c]) = 0 /\ mem.room_since[c] = 0
  <2> SUFFICES ASSUME c \in Contracts
               PROVE  brRoom[c] = <<>> /\ Len(brRoom[c]) = 0 /\ mem.room_since[c] = 0
    OBVIOUS
  <2>1. c[1] = o /\ c[2] = brAccepts[o] + 1 /\ c[2] > brAccepts[c[1]]
    BY <1>1
  <2> HIDE DEF c
  <2>2. brRoom[c] = <<>>
    BY <1>0, <2>1 DEF RoomsAreAhead
  <2>3. brMem.room_since[c] <= Len(brRoom[c]) /\ brMem.room_since[c] \in Nat
    BY <1>0 DEF RoomsAreAhead, BrTypeOK, IsState
  <2> QED
    BY <2>2, <2>3
<1> HIDE DEF c, marked, accepted
<1>7. CASE brMem' \in {mem, marked} /\ brPending' = brPending /\ brDelivered' = brDelivered
  <2>1. IsState(brMem') /\ brMem'.pending = brMem.pending /\ brMem'.room_since = brMem.room_since
    BY <1>2, <1>7
  <2>2. BrTypeOK'
    BY <1>0, <1>1, <1>4, <1>7, <2>1 DEF BrTypeOK, IsState
  <2>3. \A x \in Contracts : Untouched(x)
    BY <1>7, <2>1 DEF Untouched
  <2> QED
    BY <1>5, <1>7, <2>2, <2>3, DealByDeal
<1>8. CASE /\ brMem' = accepted /\ brPending' = [brPending EXCEPT ![c] = "accepted"]
           /\ brDelivered' \in {brDelivered, brDelivered \cup {c}}
  <2>1. brPending' \in [Contracts -> Phases]
    BY <1>0, <1>8 DEF BrTypeOK, Phases
  <2>2. BrTypeOK'
    BY <1>0, <1>1, <1>3, <1>4, <1>8, <2>1 DEF BrTypeOK, IsState
  <2>3. c \in Contracts => Sound(c)
    <3> SUFFICES ASSUME c \in Contracts
                 PROVE  Sound(c)
      OBVIOUS
    <3>1. brPending'[c] = "accepted" /\ brMem'.pending[c] = "accepted"
      BY <1>0, <1>3, <1>8 DEF BrTypeOK, IsState
    <3>2. brRevealed[c] # "none" => c \in brDelivered
      BY <1>0 DEF RevealFollowsDelivery
    <3>3. brMem'.room_since[c] <= Len(brRoom[c])
      BY <1>3, <1>6, <1>8
    <3> QED
      BY <1>8, <3>1, <3>2, <3>3 DEF Sound
  <2>4. \A x \in Contracts : x # c => Untouched(x)
    BY <1>0, <1>3, <1>8 DEF BrTypeOK, IsState, Untouched
  <2> QED
    BY <1>5, <1>8, <2>2, <2>3, <2>4, DealByDeal
<1>9. CASE /\ brMem' = [accepted EXCEPT !.pending[c] = "delivered", !.done = @ \cup {o}]
           /\ brPending' = [brPending EXCEPT ![c] = "delivered"]
           /\ brDelivered' = brDelivered \cup {c}
  <2>0. /\ IsState(brMem') /\ brMem'.room_since = mem.room_since
        /\ brMem'.pending = [accepted.pending EXCEPT ![c] = "delivered"]
    BY <1>3, <1>9, StateFields DEF IsState, Phases
  <2>1. brPending' \in [Contracts -> Phases]
    BY <1>0, <1>9 DEF BrTypeOK, Phases
  <2>2. BrTypeOK'
    BY <1>0, <1>1, <1>4, <2>0, <2>1 DEF BrTypeOK, IsState
  <2>3. c \in Contracts => Sound(c)
    <3> SUFFICES ASSUME c \in Contracts
                 PROVE  Sound(c)
      OBVIOUS
    <3>1. brPending'[c] = "delivered" /\ c \in brDelivered'
      BY <1>0, <1>9 DEF BrTypeOK
    <3>2. brMem'.room_since[c] = 0 /\ 0 <= Len(brRoom[c])
      BY <1>6, <2>0
    <3>3. ~ \E k \in 1 .. brMem'.room_since[c] : brRoom[c][k] = "verified"
      BY <3>2
    <3> QED
      BY <3>1, <3>2, <3>3 DEF Sound
  <2>4. \A x \in Contracts : x # c => Untouched(x)
    BY <1>0, <1>3, <1>9, <2>0 DEF BrTypeOK, IsState, Untouched
  <2> QED
    BY <1>5, <1>9, <2>2, <2>3, <2>4, DealByDeal
<1> QED
  BY <1>7, <1>8, <1>9 DEF accept_and_deliver, c, marked, accepted

LEMMA WorkKeeps == RewardsInv /\ Work => RewardsInv'
<1> SUFFICES ASSUME RewardsInv, Work
             PROVE  RewardsInv'
  OBVIOUS
<1> DEFINE o == Head(brMem.queue)
           mem == [brMem EXCEPT !.queue = Tail(@)]
<1>0. BrTypeOK /\ IsState(brMem)
  BY RewardsTypes
<1>1. /\ brBoard' = brBoard /\ brRoom' = brRoom /\ brDisk' = brDisk /\ brRevealed' = brRevealed /\ brMissed' = brMissed
  BY DEF Work, brWorld
<1>2. IsState(mem) /\ mem.pending = brMem.pending /\ mem.room_since = brMem.room_since
  BY <1>0, StateFields DEF IsState
<1>3. CASE brMem' = mem /\ brPending' = brPending /\ brAccepts' = brAccepts /\ brDelivered' = brDelivered
  <2> HIDE DEF mem
  <2> QED
    BY <1>0, <1>1, <1>2, <1>3, DealsLeftAlone DEF BrTypeOK
<1>4. CASE o \in brMem.offers /\ accept_and_deliver(o, mem)
  <2>1. o \in Offers
    BY <1>0, <1>4 DEF IsState
  <2> HIDE DEF mem, o
  <2> QED
    BY <1>1, <1>2, <1>4, <2>1, AcceptKeeps
<1> QED
  BY <1>3, <1>4 DEF Work

LEMMA ScanPayoutsKeeps == RewardsInv /\ ScanPayouts => RewardsInv'
<1> SUFFICES ASSUME RewardsInv, ScanPayouts
             PROVE  RewardsInv'
  OBVIOUS
<1>0. IsState(brMem)
  BY RewardsTypes
<1>1. /\ brBoard' = brBoard /\ brRoom' = brRoom /\ brDisk' = brDisk /\ brRevealed' = brRevealed /\ brMissed' = brMissed
  BY DEF ScanPayouts, brWorld
<1>2. PICK o \in UnseenPayouts : accept_and_deliver(o, [brMem EXCEPT !.payouts_seen = @ \cup {o}])
  BY DEF ScanPayouts
<1>3. o \in Offers
  BY <1>0 DEF UnseenPayouts, IsState
<1> DEFINE mem == [brMem EXCEPT !.payouts_seen = @ \cup {o}]
<1>4. IsState(mem) /\ mem.pending = brMem.pending /\ mem.room_since = brMem.room_since
  BY <1>0, StateFields DEF IsState
<1>5. accept_and_deliver(o, mem)
  BY <1>2
<1> HIDE DEF mem
<1> QED
  BY <1>1, <1>3, <1>4, <1>5, AcceptKeeps

\* A frame of an open deal's room: a verified lock moves the deal on or is
\* missed, and any other frame is none.
LEMMA ScanDealRoomKeeps ==
  ASSUME RewardsInv, NEW c \in Contracts, ScanDealRoom(c)
  PROVE  RewardsInv'
<1> DEFINE n == brMem.room_since[c]
           frame == brRoom[c][n + 1]
           mem == [brMem EXCEPT !.room_since[c] = @ + 1]
<1>0. BrTypeOK /\ PhasesAgree /\ RoomsAreAhead /\ PassedIsMissed /\ RevealFollowsDelivery /\ IsState(brMem)
  BY RewardsTypes DEF RewardsInv
<1>1. /\ brBoard' = brBoard /\ brRoom' = brRoom /\ brDisk' = brDisk
      /\ brAccepts' = brAccepts /\ brDelivered' = brDelivered
  BY DEF ScanDealRoom, brWorld
<1>2. /\ n \in Nat /\ Len(brRoom[c]) \in Nat /\ n + 1 <= Len(brRoom[c]) /\ frame \in DealFrames
      /\ brPending[c] \in {"accepted", "delivered"}
  <2>1. n \in Nat
    BY <1>0 DEF IsState
  <2>2. brRoom[c] \in Seq(DealFrames) /\ Len(brRoom[c]) \in Nat
    BY <1>0, LenProperties DEF BrTypeOK
  <2>3. n < Len(brRoom[c]) /\ brPending[c] \in {"accepted", "delivered"}
    BY DEF ScanDealRoom, Unread
  <2>4. n + 1 \in 1 .. Len(brRoom[c]) /\ n + 1 <= Len(brRoom[c])
    BY <2>1, <2>2, <2>3
  <2> HIDE DEF DealFrames, n
  <2> QED
    BY <2>1, <2>2, <2>3, <2>4, ElementOfSeq
<1>3. /\ IsState(mem) /\ mem.pending = brMem.pending /\ mem.room_since[c] = n + 1
      /\ \A x \in Contracts : x # c => mem.room_since[x] = brMem.room_since[x]
  <2>1. mem.room_since = [brMem.room_since EXCEPT ![c] = n + 1] /\ mem.pending = brMem.pending
    BY <1>0, StateFields DEF IsState
  <2>2. mem.room_since \in [Contracts -> Nat]
    BY <1>0, <1>2, <2>1 DEF IsState
  <2>3. DOMAIN mem = DOMAIN EmptyState /\ mem.board_since = brMem.board_since /\ mem.offers = brMem.offers
    BY <1>0, StateFields DEF IsState
  <2> HIDE DEF mem, n
  <2>4. IsState(mem)
    BY <1>0, <2>1, <2>2, <2>3 DEF IsState
  <2> QED
    BY <1>0, <2>1, <2>4 DEF IsState
<1>4. \A o \in Offers : brAccepts[o] <= brAccepts'[o]
  BY <1>0, <1>1 DEF BrTypeOK
<1>5. CASE lock_verified(frame) /\ brPending[c] = "delivered" /\ reveal(c, frame, mem)
  <2>1. PICK f \in DealFrames : f = frame
    BY <1>2
  <2>2. mem.room_since[c] <= Len(brRoom[c])
    BY <1>2, <1>3
  <2> HIDE DEF frame, mem, n
  <2> QED
    BY <1>1, <1>3, <1>5, <2>1, <2>2, RevealKeeps
<1>6. ASSUME brMem' = mem, brRevealed' = brRevealed, brMissed' = brMissed,
             \/ frame # "verified" /\ brPending' = brPending
             \/ frame # "verified" /\ brPending' = [brPending EXCEPT ![c] = "refunded"]
             \/ brPending[c] # "delivered" /\ brPending' = brPending
      PROVE  RewardsInv'
  <2>1. brPending' \in [Contracts -> Phases]
    BY <1>0, <1>6 DEF BrTypeOK, Phases
  <2>2. BrTypeOK'
    <3> HIDE DEF mem, frame, n
    <3> QED
      BY <1>0, <1>1, <1>3, <1>6, <2>1 DEF BrTypeOK, IsState
  <2>3. \A x \in Contracts : x # c => Untouched(x)
    <3> HIDE DEF mem, frame, n
    <3> QED
      BY <1>0, <1>3, <1>6 DEF BrTypeOK, Untouched
  <2>4. Sound(c)
    <3>1. brMem'.room_since[c] = n + 1 /\ brMem'.pending[c] = brMem.pending[c]
      BY <1>3, <1>6
    <3>2. brPending'[c] = brPending[c] \/ brPending'[c] = "refunded"
      BY <1>0, <1>6 DEF BrTypeOK
    <3>3. brPending'[c] = "accepted" => brMem'.pending[c] = "accepted"
      BY <1>0, <3>1, <3>2 DEF PhasesAgree
    <3>4. /\ brPending[c] = "delivered" \/ brMem.pending[c] = "delivered" => c \in brDelivered
          /\ brRevealed'[c] # "none" => c \in brDelivered'
      BY <1>0, <1>1, <1>6 DEF PhasesAgree, Delivered, RevealFollowsDelivery
    <3>5. ASSUME brPending'[c] = "delivered" \/ brMem'.pending[c] = "delivered",
                 \E k \in 1 .. n + 1 : brRoom[c][k] = "verified"
          PROVE  c \in brMissed'
      <4>1. brPending[c] = "delivered" \/ brMem.pending[c] = "delivered"
        BY <3>1, <3>2, <3>5
      <4>2. frame # "verified"
        <5>1. brPending[c] # "delivered" => brPending[c] = "accepted" /\ brMem.pending[c] = "accepted"
          BY <1>0, <1>2 DEF PhasesAgree
        <5> QED
          BY <1>6, <4>1, <5>1
      <4>3. PICK k \in 1 .. n + 1 : brRoom[c][k] = "verified"
        BY <3>5
      <4>4. k \in 1 .. n
        BY <1>2, <4>2, <4>3
      <4> QED
        BY <1>0, <1>6, <4>1, <4>3, <4>4 DEF PassedIsMissed, PassedLock, Delivered, lock_verified
    <3>6. brMem'.room_since[c] <= Len(brRoom[c])
      BY <1>2, <3>1
    <3>7. brPending'[c] = "delivered" \/ brMem'.pending[c] = "delivered" => c \in brDelivered'
      BY <1>1, <3>1, <3>2, <3>4
    <3> HIDE DEF n, mem, frame
    <3> QED
      BY <3>1, <3>3, <3>4, <3>5, <3>6, <3>7 DEF Sound
  <2> HIDE DEF n, mem, frame
  <2> QED
    BY <1>1, <1>4, <1>6, <2>2, <2>3, <2>4, DealByDeal
<1> QED
  BY <1>5, <1>6 DEF ScanDealRoom, lock_verified

\* A save copies a dictionary that already satisfies what is asked of the saved one.
LEMMA EndRoundKeeps == RewardsInv /\ EndRound => RewardsInv'
<1> SUFFICES ASSUME RewardsInv, EndRound
             PROVE  RewardsInv'
  OBVIOUS
<1>0. BrTypeOK /\ PhasesAgree /\ RoomsAreAhead /\ PassedIsMissed /\ RevealFollowsDelivery /\ IsState(brMem)
  BY RewardsTypes DEF RewardsInv
<1>1. /\ brBoard' = brBoard /\ brRoom' = brRoom /\ brPending' = brPending
      /\ brAccepts' = brAccepts /\ brDelivered' = brDelivered /\ brRevealed' = brRevealed /\ brMissed' = brMissed
  BY DEF EndRound, brWorld, brHistory, brDeals
<1>2. brDisk' = brMem \/ brDisk' = brDisk
  BY DEF EndRound
<1>3. IsState(brMem') /\ brMem'.pending = brMem.pending /\ brMem'.room_since = brMem.room_since
  <2>1. PICK n : brMem' = [brMem EXCEPT !.accepts = n]
    BY DEF EndRound
  <2> QED
    BY <1>0, <2>1, StateFields DEF IsState
<1>4. BrTypeOK'
  BY <1>0, <1>1, <1>2, <1>3 DEF BrTypeOK, IsState
<1>5. PhasesAgree' /\ RoomsAreAhead' /\ RevealFollowsDelivery'
  BY <1>0, <1>1, <1>2, <1>3 DEF PhasesAgree, RoomsAreAhead, Delivered, RevealFollowsDelivery
<1>6. PassedIsMissed'
  BY <1>0, <1>1, <1>2, <1>3 DEF PassedIsMissed, PassedLock, Delivered
<1> QED
  BY <1>4, <1>5, <1>6 DEF RewardsInv

\* A restart takes phases and cursors from the same save.
LEMMA RestartKeeps == RewardsInv /\ BrRestart => RewardsInv'
<1> SUFFICES ASSUME RewardsInv, BrRestart
             PROVE  RewardsInv'
  OBVIOUS
<1>0. BrTypeOK /\ PhasesAgree /\ RoomsAreAhead /\ PassedIsMissed /\ RevealFollowsDelivery
  BY DEF RewardsInv
<1>1. /\ brBoard' = brBoard /\ brRoom' = brRoom /\ brDisk' = brDisk /\ brMem' = brDisk
      /\ brAccepts' = brAccepts /\ brDelivered' = brDelivered /\ brRevealed' = brRevealed /\ brMissed' = brMissed
  BY DEF BrRestart, brWorld, brHistory, brDeals
<1>2. brPending' = [c \in Contracts |-> IF brDisk.pending[c] = "delivered" THEN "delivered" ELSE "none"]
  BY DEF BrRestart, recover_pending
<1>3. brPending' \in [Contracts -> Phases]
  BY <1>2 DEF Phases
<1>4. \A c \in Contracts : /\ brPending'[c] = "delivered" => brDisk.pending[c] = "delivered"
                           /\ brPending'[c] # "accepted"
  BY <1>2
<1>5. BrTypeOK'
  BY <1>0, <1>1, <1>3 DEF BrTypeOK, IsState
<1>6. PhasesAgree' /\ RoomsAreAhead' /\ RevealFollowsDelivery'
  BY <1>0, <1>1, <1>4 DEF PhasesAgree, RoomsAreAhead, Delivered, RevealFollowsDelivery
<1>7. PassedIsMissed'
  BY <1>0, <1>1, <1>4 DEF PassedIsMissed, PassedLock, Delivered
<1> QED
  BY <1>5, <1>6, <1>7 DEF RewardsInv

LEMMA RewardsBegin == BrInit => RewardsInv
<1> SUFFICES ASSUME BrInit
             PROVE  RewardsInv
  OBVIOUS
<1>0. /\ brBoard = <<>> /\ brRoom = [c \in Contracts |-> <<>>] /\ brMem = EmptyState /\ brDisk = EmptyState
      /\ brPending = NoDeals /\ brAccepts = [o \in Offers |-> 0] /\ brRevealed = NoDeals
  BY DEF BrInit
<1>1. NoDeals \in [Contracts -> Phases] /\ \A c \in Contracts : NoDeals[c] = "none"
  BY DEF NoDeals, Phases
<1>2. EmptyState.pending = NoDeals /\ EmptyState.room_since = [c \in Contracts |-> 0]
  BY DEF EmptyState
<1>3. BrTypeOK
  <2>1. brRevealed \in [Contracts -> {"none", "board"} \cup DealFrames]
    BY <1>0 DEF NoDeals
  <2> QED
    BY <1>0, <1>1, <2>1, EmptyIsState DEF BrTypeOK
<1>4. PhasesAgree /\ RevealFollowsDelivery
  BY <1>0, <1>1, <1>2 DEF PhasesAgree, Delivered, RevealFollowsDelivery
<1>5. RoomsAreAhead
  BY <1>0, <1>2 DEF RoomsAreAhead
<1>6. PassedIsMissed
  BY <1>0, <1>1, <1>2 DEF PassedIsMissed, Delivered
<1> QED
  BY <1>3, <1>4, <1>5, <1>6 DEF RewardsInv

LEMMA RewardsStep == RewardsInv /\ [BrNext]_brVars => RewardsInv'
<1> SUFFICES ASSUME RewardsInv, [BrNext]_brVars
             PROVE  RewardsInv'
  OBVIOUS
<1>1. ASSUME NEW o \in Offers, Announce(o)
      PROVE  RewardsInv'
  BY <1>1, AnnounceKeeps
<1>2. ASSUME NEW c \in Contracts, PostFrame(c)
      PROVE  RewardsInv'
  BY <1>2, PostFrameKeeps
<1>3. ASSUME NEW c \in Contracts, ScanDealRoom(c)
      PROVE  RewardsInv'
  BY <1>3, ScanDealRoomKeeps
<1>4. CASE Backfill
  BY <1>4, BackfillKeeps
<1>5. CASE ScanBoard
  BY <1>5, ScanBoardKeeps
<1>6. CASE BoardRead \/ ScanFeed \/ QueueDone \/ PayoutsDone
  BY <1>6, QuietKeeps
<1>7. CASE Work
  BY <1>7, WorkKeeps
<1>8. CASE ScanPayouts
  BY <1>8, ScanPayoutsKeeps
<1>9. CASE EndRound
  BY <1>9, EndRoundKeeps
<1>10. CASE BrRestart
  BY <1>10, RestartKeeps
<1>11. CASE UNCHANGED brVars
  <2>1. /\ brBoard' = brBoard /\ brRoom' = brRoom /\ brMem' = brMem /\ brPending' = brPending /\ brDisk' = brDisk
        /\ brAccepts' = brAccepts /\ brDelivered' = brDelivered /\ brRevealed' = brRevealed /\ brMissed' = brMissed
    BY <1>11 DEF brVars, brWorld, brWorker, brHistory, brDeals
  <2> QED
    BY <2>1, RewardsTypes, DealsLeftAlone
<1> QED
  BY <1>1, <1>2, <1>3, <1>4, <1>5, <1>6, <1>7, <1>8, <1>9, <1>10, <1>11 DEF BrNext

\* The block-reward worker's dictionary, in memory and as saved, claims no
\* delivery that did not take place, and no cursor of it stands beyond a
\* verified lock of a delivered deal whose reveal was not tried.
THEOREM RewardsInvariant == BrSpec => []RewardsInv
<1>1. BrInit => RewardsInv
  BY RewardsBegin
<1>2. RewardsInv /\ [BrNext]_brVars => RewardsInv'
  BY RewardsStep
<1> QED
  BY <1>1, <1>2, PTL DEF BrSpec

\* A step that does nothing to a deal, or saves it.
Still(c) ==
    /\ brPending'[c] = brPending[c] /\ brRevealed'[c] = brRevealed[c]
    /\ brMem'.pending[c] = brMem.pending[c]
    /\ (c \in brDelivered') = (c \in brDelivered) /\ (c \in brLost') = (c \in brLost)

LEMMA StillKept ==
  ASSUME NEW c \in Contracts, Kept(c), Still(c),
         brAccepts \in [Offers -> Nat], \A o \in Offers : brAccepts'[o] \in Nat /\ brAccepts[o] <= brAccepts'[o],
         \/ brDisk'.pending[c] = brDisk.pending[c] /\ (c \in brUnsaved => c \in brUnsaved')
         \/ brDisk'.pending[c] = brMem.pending[c]
  PROVE  Kept(c)'
<1>1. c \in brDelivered' => c[2] <= brAccepts'[c[1]]
  <2>1. c[1] \in Offers /\ c[2] \in Nat
    BY DEF Contracts
  <2>2. c \in brDelivered' => c[2] <= brAccepts[c[1]]
    BY DEF Kept, Still
  <2> QED
    BY <2>1, <2>2
<1> QED
  BY <1>1 DEF Kept, Still, Remembered

\* Steps that leave every deal alone.
LEMMA AllStill ==
  ASSUME DeliveriesAreKept, brAccepts \in [Offers -> Nat],
         brPending' = brPending, brMem'.pending = brMem.pending,
         brAccepts' = brAccepts, brDelivered' = brDelivered, brRevealed' = brRevealed, brLost' = brLost,
         \/ brDisk'.pending = brDisk.pending /\ brUnsaved' = brUnsaved
         \/ brDisk'.pending = brMem.pending
  PROVE  DeliveriesAreKept'
<1>1. \A c \in Contracts : Still(c)
  BY DEF Still
<1>2. \A o \in Offers : brAccepts'[o] \in Nat /\ brAccepts[o] <= brAccepts'[o]
  OBVIOUS
<1> QED
  BY <1>1, <1>2, StillKept DEF DeliveriesAreKept

\* A claim revealed, or posted by a call that fails.
LEMMA RevealKept ==
  ASSUME RewardsInv, DeliveriesAreKept, NEW c \in Contracts, NEW frame \in {"board"} \cup DealFrames, NEW mem,
         brPending[c] = "delivered", reveal(c, frame, mem), IsState(mem), mem.pending = brMem.pending,
         brDisk' = brDisk, brAccepts' = brAccepts, brDelivered' = brDelivered,
         brUnsaved' = brUnsaved, brLost' = brLost
  PROVE  DeliveriesAreKept'
<1>0. BrTypeOK
  BY RewardsTypes
<1>1. \A o \in Offers : brAccepts'[o] \in Nat /\ brAccepts[o] <= brAccepts'[o]
  BY <1>0 DEF BrTypeOK
<1>2. frame # "none"
  BY DEF DealFrames
<1>3. CASE /\ brPending' = [brPending EXCEPT ![c] = "revealed"]
           /\ brMem' = [mem EXCEPT !.pending[c] = "revealed"]
           /\ brRevealed' = [brRevealed EXCEPT ![c] = frame]
  <2>1. brMem'.pending = [brMem.pending EXCEPT ![c] = "revealed"]
    BY <1>3, StateFields DEF IsState
  <2>2. brMem'.pending[c] = "revealed" /\ brPending'[c] = "revealed" /\ brRevealed'[c] = frame
    BY <1>0, <1>3, <2>1 DEF BrTypeOK, IsState
  <2>3. Kept(c)'
    BY <1>2, <2>2 DEF DeliveriesAreKept, Kept, Remembered
  <2>4. ASSUME NEW x \in Contracts, x # c
        PROVE  Kept(x)'
    <3>1. Still(x)
      BY <1>0, <1>3, <2>1, <2>4 DEF BrTypeOK, IsState, Still
    <3> QED
      BY <1>0, <1>1, <3>1, StillKept DEF DeliveriesAreKept, BrTypeOK
  <2> QED
    BY <2>3, <2>4 DEF DeliveriesAreKept
<1>4. CASE /\ brMem' = mem /\ brPending' = brPending
           /\ brRevealed' \in {brRevealed, [brRevealed EXCEPT ![c] = frame]}
  <2>1. brRevealed'[c] \in {brRevealed[c], frame}
    BY <1>0, <1>4 DEF BrTypeOK
  <2>2. Kept(c)'
    BY <1>2, <1>4, <2>1 DEF DeliveriesAreKept, Kept, Remembered
  <2>3. ASSUME NEW x \in Contracts, x # c
        PROVE  Kept(x)'
    <3>1. Still(x)
      BY <1>0, <1>4, <2>3 DEF BrTypeOK, Still
    <3> QED
      BY <1>0, <1>1, <3>1, StillKept DEF DeliveriesAreKept, BrTypeOK
  <2> QED
    BY <2>2, <2>3 DEF DeliveriesAreKept
<1> QED
  BY <1>3, <1>4 DEF reveal

\* A contract that is new was not delivered, and what is delivered under it is
\* in the dictionary or lost.
LEMMA AcceptKept ==
  ASSUME RewardsInv, DeliveriesAreKept, NEW o \in Offers, NEW mem, accept_and_deliver(o, mem),
         IsState(mem), mem.pending = brMem.pending, brDisk' = brDisk, brRevealed' = brRevealed
  PROVE  DeliveriesAreKept'
<1>a. PICK c : c = <<o, brAccepts[o] + 1>>
  OBVIOUS
<1> DEFINE marked == [mem EXCEPT !.working = Append(@, o)]
           accepted == [marked EXCEPT !.accepts = @ + 1, !.pending[c] = "accepted"]
<1>0. BrTypeOK /\ brAccepts \in [Offers -> Nat]
  BY RewardsTypes
<1>1. IsState(marked) /\ marked.pending = mem.pending
  BY StateFields DEF IsState
<1>2. IsState(accepted) /\ accepted.pending = [mem.pending EXCEPT ![c] = "accepted"]
  <2> HIDE DEF marked
  <2> QED
    BY <1>1, StateFields DEF IsState, Phases
<1>3. \A x \in Offers : brAccepts'[x] \in Nat /\ brAccepts[x] <= brAccepts'[x]
  BY <1>0 DEF accept_and_deliver
<1>4. c[1] = o /\ c[2] = brAccepts[o] + 1
  BY <1>a
<1>5. c \in Contracts => c \notin brDelivered
  <2> SUFFICES ASSUME c \in Contracts, c \in brDelivered
               PROVE  FALSE
    OBVIOUS
  <2>1. c[2] <= brAccepts[c[1]]
    BY DEF DeliveriesAreKept, Kept
  <2>2. brAccepts[o] \in Nat
    BY <1>0
  <2> QED
    BY <1>4, <2>1, <2>2
<1>6. ASSUME NEW x \in Contracts, Still(x), x \in brUnsaved => x \in brUnsaved'
      PROVE  Kept(x)'
  BY <1>0, <1>3, <1>6, StillKept DEF DeliveriesAreKept
<1> HIDE DEF marked, accepted
<1>7. CASE /\ brMem' \in {mem, marked} /\ brPending' = brPending /\ brDelivered' = brDelivered
           /\ brUnsaved' = brUnsaved /\ brLost' = brLost
  <2>1. brMem'.pending = brMem.pending
    BY <1>1, <1>7
  <2>2. \A x \in Contracts : Still(x)
    BY <1>7, <2>1 DEF Still
  <2> QED
    BY <1>6, <1>7, <2>2 DEF DeliveriesAreKept
<1>8. CASE /\ brMem' = accepted /\ brPending' = [brPending EXCEPT ![c] = "accepted"]
           /\ \/ brDelivered' = brDelivered /\ brLost' = brLost
              \/ brDelivered' = brDelivered \cup {c} /\ brLost' = brLost \cup {c}
           /\ brUnsaved' = brUnsaved /\ brAccepts' = [brAccepts EXCEPT ![o] = @ + 1]
  <2>1. ASSUME NEW x \in Contracts, x # c
        PROVE  Kept(x)'
    <3>1. Still(x)
      BY <1>0, <1>2, <1>8, <2>1 DEF BrTypeOK, IsState, Still
    <3> QED
      BY <1>6, <1>8, <3>1
  <2>2. c \in Contracts => Kept(c)'
    <3> SUFFICES ASSUME c \in Contracts
                 PROVE  Kept(c)'
      OBVIOUS
    <3>1. brPending'[c] = "accepted" /\ brMem'.pending[c] = "accepted"
      BY <1>0, <1>2, <1>8 DEF BrTypeOK, IsState
    <3>2. c \notin brDelivered' \ brLost'
      BY <1>5, <1>8
    <3>3. c[2] <= brAccepts'[c[1]]
      <4>1. brAccepts'[o] = brAccepts[o] + 1 /\ brAccepts[o] \in Nat
        BY <1>0, <1>8
      <4> QED
        BY <1>4, <4>1
    <3>4. brDisk.pending[c] = "revealed" => brRevealed[c] # "none"
      BY DEF DeliveriesAreKept, Kept
    <3> QED
      BY <3>1, <3>2, <3>3, <3>4 DEF Kept
  <2> QED
    BY <2>1, <2>2 DEF DeliveriesAreKept
<1>9. CASE /\ brMem' = [accepted EXCEPT !.pending[c] = "delivered", !.done = @ \cup {o}]
           /\ brPending' = [brPending EXCEPT ![c] = "delivered"]
           /\ brDelivered' = brDelivered \cup {c} /\ brUnsaved' = brUnsaved \cup {c} /\ brLost' = brLost
           /\ brAccepts' = [brAccepts EXCEPT ![o] = @ + 1]
  <2>0. brMem'.pending = [accepted.pending EXCEPT ![c] = "delivered"]
    BY <1>2, <1>9, StateFields DEF IsState
  <2>1. ASSUME NEW x \in Contracts, x # c
        PROVE  Kept(x)'
    <3>1. Still(x)
      BY <1>0, <1>2, <1>9, <2>0, <2>1 DEF BrTypeOK, IsState, Still
    <3> QED
      BY <1>6, <1>9, <3>1
  <2>2. c \in Contracts => Kept(c)'
    <3> SUFFICES ASSUME c \in Contracts
                 PROVE  Kept(c)'
      OBVIOUS
    <3>1. brPending'[c] = "delivered" /\ brMem'.pending[c] = "delivered"
      BY <1>0, <1>2, <1>9, <2>0 DEF BrTypeOK, IsState
    <3>2. c[2] <= brAccepts'[c[1]]
      <4>1. brAccepts'[o] = brAccepts[o] + 1 /\ brAccepts[o] \in Nat
        BY <1>0, <1>9
      <4> QED
        BY <1>4, <4>1
    <3>3. brDisk.pending[c] = "revealed" => brRevealed[c] # "none"
      BY DEF DeliveriesAreKept, Kept
    <3>4. c \in brUnsaved'
      BY <1>9
    <3> QED
      BY <3>1, <3>2, <3>3, <3>4 DEF Kept, Remembered
  <2> QED
    BY <2>1, <2>2 DEF DeliveriesAreKept
<1> QED
  BY <1>a, <1>7, <1>8, <1>9 DEF accept_and_deliver, marked, accepted

\* A frame of the deal's room read: the cursor moves and nothing else.
LEMMA DealRoomCursor ==
  ASSUME IsState(brMem), NEW c \in Contracts
  PROVE  LET mem == [brMem EXCEPT !.room_since[c] = @ + 1]
         IN  mem.pending = brMem.pending /\ IsState(mem)
<1> DEFINE n == brMem.room_since[c] + 1
           since == [brMem.room_since EXCEPT ![c] = n]
           mem == [brMem EXCEPT !.room_since = since]
<1>1. n \in Nat
  BY DEF IsState
<1>2. since \in [Contracts -> Nat]
  BY <1>1 DEF IsState
<1> HIDE DEF n
<1>3. [brMem EXCEPT !.room_since[c] = @ + 1] = mem
  BY StateFields DEF IsState, n
<1> HIDE DEF since
<1>4. mem.pending = brMem.pending /\ IsState(mem)
  BY <1>2, StateFields DEF IsState
<1> QED
  BY <1>3, <1>4

LEMMA KeptStep == RewardsInv /\ DeliveriesAreKept /\ [BrNext]_brVars => DeliveriesAreKept'
<1> SUFFICES ASSUME RewardsInv, DeliveriesAreKept, [BrNext]_brVars
             PROVE  DeliveriesAreKept'
  OBVIOUS
<1>0. /\ BrTypeOK /\ IsState(brMem) /\ IsState(brDisk) /\ brPending \in [Contracts -> Phases]
      /\ brAccepts \in [Offers -> Nat]
  BY RewardsTypes
<1>1. ASSUME NEW o, Announce(o)
      PROVE  DeliveriesAreKept'
  BY <1>0, <1>1, AllStill DEF Announce, brWorker, brHistory, brDeals, brRecords
<1>2. ASSUME NEW c, PostFrame(c)
      PROVE  DeliveriesAreKept'
  BY <1>0, <1>2, AllStill DEF PostFrame, brWorker, brHistory, brDeals, brRecords
<1>3. ASSUME NEW c \in Contracts, ScanDealRoom(c)
      PROVE  DeliveriesAreKept'
  <2> DEFINE frame == brRoom[c][brMem.room_since[c] + 1]
             mem == [brMem EXCEPT !.room_since[c] = @ + 1]
  <2>0. /\ brDisk' = brDisk /\ brAccepts' = brAccepts /\ brDelivered' = brDelivered
        /\ brUnsaved' = brUnsaved /\ brLost' = brLost
    BY <1>3 DEF ScanDealRoom, brRecords
  <2>1. mem.pending = brMem.pending /\ IsState(mem)
    BY <1>0, <1>3, DealRoomCursor
  <2>2. CASE lock_verified(frame) /\ brPending[c] = "delivered" /\ reveal(c, frame, mem)
    <3>1. frame \in {"board"} \cup DealFrames
      BY <2>2 DEF lock_verified, DealFrames
    <3> HIDE DEF frame, mem
    <3> QED
      BY <2>0, <2>1, <2>2, <3>1, RevealKept
  <2>3. CASE brMem' = mem /\ brPending' = brPending /\ brRevealed' = brRevealed
    <3> HIDE DEF frame, mem
    <3> QED
      BY <1>0, <2>0, <2>1, <2>3, AllStill
  <2>4. CASE brMem' = mem /\ brPending' = [brPending EXCEPT ![c] = "refunded"] /\ brRevealed' = brRevealed
    <3> HIDE DEF frame, mem
    <3>1. brPending'[c] = "refunded" /\ brMem'.pending = brMem.pending
      BY <1>0, <2>1, <2>4
    <3>2. Kept(c)'
      BY <2>0, <2>4, <3>1 DEF DeliveriesAreKept, Kept, Remembered
    <3>3. ASSUME NEW x \in Contracts, x # c
          PROVE  Kept(x)'
      <4>1. Still(x)
        BY <1>0, <2>0, <2>4, <3>1, <3>3 DEF Still
      <4>2. \A o \in Offers : brAccepts'[o] \in Nat /\ brAccepts[o] <= brAccepts'[o]
        BY <1>0, <2>0
      <4> QED
        BY <1>0, <2>0, <4>1, <4>2, StillKept DEF DeliveriesAreKept
    <3> QED
      BY <3>2, <3>3 DEF DeliveriesAreKept
  <2> QED
    BY <1>3, <2>2, <2>3, <2>4 DEF ScanDealRoom
<1>4. CASE Backfill
  <2>1. /\ brPending' = brPending /\ brAccepts' = brAccepts /\ brDelivered' = brDelivered
        /\ brRevealed' = brRevealed /\ brLost' = brLost
    BY <1>4 DEF Backfill, brDeals
  <2>2. CASE brMem' = brMem /\ brDisk' = brDisk /\ brUnsaved' = brUnsaved
    BY <1>0, <2>1, <2>2, AllStill
  <2>3. CASE brDisk' = brMem' /\ brMem'.pending = brMem.pending
    BY <1>0, <2>1, <2>3, AllStill
  <2>4. PICK n, offers : \/ brMem' = brMem /\ brDisk' = brDisk /\ brUnsaved' = brUnsaved
                         \/ /\ brMem' = [brMem EXCEPT !.backfill_done = TRUE, !.board_since = n, !.offers = offers]
                            /\ brDisk' = brMem'
    BY <1>4 DEF Backfill
  <2>5. \/ brMem' = brMem /\ brDisk' = brDisk /\ brUnsaved' = brUnsaved
        \/ brDisk' = brMem' /\ brMem'.pending = brMem.pending
    BY <1>0, <2>4, StateFields DEF IsState
  <2> QED
    BY <2>2, <2>3, <2>5
<1>5. CASE ScanBoard
  <2> DEFINE frame == brBoard[brMem.board_since + 1]
             mem == [brMem EXCEPT !.board_since = @ + 1]
  <2>0. /\ brDisk' = brDisk /\ brAccepts' = brAccepts /\ brDelivered' = brDelivered
        /\ brUnsaved' = brUnsaved /\ brLost' = brLost
    BY <1>5 DEF ScanBoard, brRecords
  <2>1. mem.pending = brMem.pending /\ IsState(mem)
    BY <1>0, StateFields DEF IsState
  <2>2. frame \in BoardFrames
    BY <1>5, BoardFrame DEF ScanBoard
  <2>3. CASE frame.kind = "lock" /\ brPending[frame.c] = "delivered" /\ reveal(frame.c, "board", mem)
    <3>1. frame.c \in Contracts
      BY <2>2, <2>3 DEF BoardFrames
    <3> HIDE DEF frame, mem
    <3> QED
      BY <2>0, <2>1, <2>3, <3>1, RevealKept
  <2>4. CASE /\ \/ brMem' = mem
                \/ brMem' = [mem EXCEPT !.offers = @ \cup {frame.o}]
             /\ brPending' = brPending /\ brRevealed' = brRevealed
    <3> HIDE DEF frame, mem
    <3>1. brMem'.pending = brMem.pending
      BY <2>1, <2>4, StateFields DEF IsState
    <3> QED
      BY <1>0, <2>0, <2>4, <3>1, AllStill
  <2>5. CASE /\ frame.kind = "reveal" /\ brPending[frame.c] = "revealed"
             /\ brMem' = mem /\ brPending' = [brPending EXCEPT ![frame.c] = "receipted"]
             /\ brRevealed' = brRevealed
    <3>1. PICK c \in Contracts : c = frame.c
      BY <2>2, <2>5 DEF BoardFrames
    <3> HIDE DEF frame, mem
    <3>2. brPending'[c] = "receipted" /\ brMem'.pending = brMem.pending /\ brPending[c] = "revealed"
      BY <1>0, <2>1, <2>5, <3>1
    <3>3. Kept(c)'
      BY <2>0, <2>5, <3>2 DEF DeliveriesAreKept, Kept, Remembered
    <3>4. ASSUME NEW x \in Contracts, x # c
          PROVE  Kept(x)'
      <4>1. Still(x)
        BY <1>0, <2>0, <2>5, <3>1, <3>2, <3>4 DEF Still
      <4>2. \A o \in Offers : brAccepts'[o] \in Nat /\ brAccepts[o] <= brAccepts'[o]
        BY <1>0, <2>0
      <4> QED
        BY <1>0, <2>0, <4>1, <4>2, StillKept DEF DeliveriesAreKept
    <3> QED
      BY <3>3, <3>4 DEF DeliveriesAreKept
  <2> QED
    BY <1>5, <2>3, <2>4, <2>5 DEF ScanBoard, receipt
<1>6. CASE BoardRead \/ PayoutsDone
  BY <1>0, <1>6, AllStill DEF BoardRead, PayoutsDone, brHistory, brDeals, brRecords
<1>7. CASE ScanFeed
  <2>1. PICK seen, queue, working, feed_since :
          brMem' = [brMem EXCEPT !.seen = seen, !.queue = queue, !.working = working, !.feed_since = feed_since]
    BY <1>7 DEF ScanFeed
  <2>2. brMem'.pending = brMem.pending
    BY <1>0, <2>1, StateFields DEF IsState
  <2> QED
    BY <1>0, <1>7, <2>2, AllStill DEF ScanFeed, brDeals
<1>8. CASE QueueDone
  <2>1. brMem'.pending = brMem.pending
    BY <1>0, <1>8, StateFields DEF QueueDone, IsState
  <2> QED
    BY <1>0, <1>8, <2>1, AllStill DEF QueueDone, brHistory, brDeals, brRecords
<1>9. CASE Work
  <2> DEFINE o == Head(brMem.queue)
             mem == [brMem EXCEPT !.queue = Tail(@)]
  <2>1. IsState(mem) /\ mem.pending = brMem.pending
    BY <1>0, StateFields DEF IsState
  <2>2. brDisk' = brDisk /\ brRevealed' = brRevealed
    BY <1>9 DEF Work
  <2>3. CASE /\ brMem' = mem /\ brPending' = brPending /\ brAccepts' = brAccepts /\ brDelivered' = brDelivered
             /\ brUnsaved' = brUnsaved /\ brLost' = brLost
    <3> HIDE DEF mem
    <3> QED
      BY <1>0, <2>1, <2>2, <2>3, AllStill
  <2>4. CASE o \in brMem.offers /\ accept_and_deliver(o, mem)
    <3>1. o \in Offers
      BY <1>0, <2>4 DEF IsState
    <3> HIDE DEF mem, o
    <3> QED
      BY <2>1, <2>2, <2>4, <3>1, AcceptKept
  <2> QED
    BY <1>9, <2>3, <2>4 DEF Work
<1>10. CASE ScanPayouts
  <2>1. PICK o \in UnseenPayouts : accept_and_deliver(o, [brMem EXCEPT !.payouts_seen = @ \cup {o}])
    BY <1>10 DEF ScanPayouts
  <2>2. o \in Offers
    BY <1>0 DEF UnseenPayouts, IsState
  <2> DEFINE mem == [brMem EXCEPT !.payouts_seen = @ \cup {o}]
  <2>3. IsState(mem) /\ mem.pending = brMem.pending
    BY <1>0, StateFields DEF IsState
  <2>4. accept_and_deliver(o, mem) /\ brDisk' = brDisk /\ brRevealed' = brRevealed
    BY <1>10, <2>1 DEF ScanPayouts
  <2> HIDE DEF mem
  <2> QED
    BY <2>2, <2>3, <2>4, AcceptKept
<1>11. CASE EndRound
  <2>1. PICK n : brMem' = [brMem EXCEPT !.accepts = n]
    BY <1>11 DEF EndRound
  <2>2. brMem'.pending = brMem.pending
    BY <1>0, <2>1, StateFields DEF IsState
  <2>3. brDisk' = brMem \/ (brDisk' = brDisk /\ brUnsaved' = brUnsaved)
    BY <1>11 DEF EndRound
  <2>4. /\ brPending' = brPending /\ brAccepts' = brAccepts /\ brDelivered' = brDelivered
        /\ brRevealed' = brRevealed /\ brLost' = brLost
    BY <1>11 DEF EndRound, brDeals
  <2> QED
    BY <1>0, <2>2, <2>3, <2>4, AllStill
<1>12. CASE BrRestart
  <2>1. /\ brMem' = brDisk /\ brDisk' = brDisk /\ brLost' = brLost \cup brUnsaved
        /\ brAccepts' = brAccepts /\ brDelivered' = brDelivered /\ brRevealed' = brRevealed
    BY <1>12 DEF BrRestart, brDeals
  <2>2. \A c \in Contracts : brPending'[c] = IF brDisk.pending[c] = "delivered" THEN "delivered" ELSE "none"
    BY <1>12 DEF BrRestart, recover_pending
  <2>3. ASSUME NEW c \in Contracts
        PROVE  Kept(c)'
    <3>1. Kept(c)
      BY DEF DeliveriesAreKept
    <3> QED
      BY <2>1, <2>2, <3>1 DEF Kept, Remembered
  <2> QED
    BY <2>3 DEF DeliveriesAreKept
<1>13. CASE UNCHANGED brVars
  <2>1. /\ brMem' = brMem /\ brPending' = brPending /\ brDisk' = brDisk
        /\ brAccepts' = brAccepts /\ brDelivered' = brDelivered /\ brRevealed' = brRevealed
        /\ brUnsaved' = brUnsaved /\ brLost' = brLost
    BY <1>13 DEF brVars, brWorker, brHistory, brDeals, brRecords
  <2> QED
    BY <1>0, <2>1, AllStill
<1> QED
  BY <1>1, <1>2, <1>3, <1>4, <1>5, <1>6, <1>7, <1>8, <1>9, <1>10, <1>11, <1>12, <1>13 DEF BrNext

\* What was delivered and not lost is in the dictionary, in memory and, once
\* saved, on disk.
LEMMA DeliveriesInvariant == BrSpec => []DeliveriesAreKept
<1>1. BrInit => DeliveriesAreKept
  <2> SUFFICES ASSUME BrInit, NEW c \in Contracts
               PROVE  Kept(c)
    BY DEF DeliveriesAreKept
  <2>1. /\ brDelivered = {} /\ brMem = EmptyState /\ brDisk = EmptyState /\ brPending = NoDeals
    BY DEF BrInit
  <2>2. EmptyState.pending[c] = "none" /\ NoDeals[c] = "none"
    BY DEF EmptyState, NoDeals
  <2> QED
    BY <2>1, <2>2 DEF Kept
<1>2. RewardsInv /\ DeliveriesAreKept /\ [BrNext]_brVars => DeliveriesAreKept'
  BY KeptStep
<1> QED
  BY <1>1, <1>2, RewardsInvariant, PTL DEF BrSpec

\* A delivered deal and the lock that pays for it find each other, whatever
\* posts fail and wherever the process dies and loads its last save.
THEOREM LocksFindTheirDeals == BrSpec => []LocksAreAnswered
<1>1. RewardsInv => RevealFollowsDelivery /\ LockIsNotPassedOver
  BY DEF RewardsInv, LockIsNotPassedOver, PassedIsMissed, PassedLock, Delivered
<1>2. DeliveriesAreKept => DeliveriesWait
  BY DEF DeliveriesAreKept, Kept, DeliveriesWait
<1> QED
  BY <1>1, <1>2, RewardsInvariant, DeliveriesInvariant, PTL DEF LocksAreAnswered

\* The steps that neither accept an offer nor cut the list.
LEMMA ListsLeftAlone ==
  ASSUME SavedInv, brMem'.working = brMem.working, brMem'.done = brMem.done, brCut' = brCut,
         \/ brDisk' = brDisk
         \/ brDisk'.working = brMem.working /\ brDisk'.done = brMem.done
  PROVE  SavedInv'
BY DEF SavedInv

\* What a list holds, as a sequence and as a set.
LEMMA InRange ==
  ASSUME NEW S, NEW s \in Seq(S), NEW x
  PROVE  Contains(s, x) <=> x \in Range(s)
<1>1. Len(s) \in Nat /\ DOMAIN s = 1 .. Len(s)
  BY LenProperties
<1> QED
  BY <1>1 DEF Contains, Range

\* The end of a list is a list.
LEMMA LastNIsList ==
  ASSUME NEW s \in Seq(Offers)
  PROVE  LastN(s, WorkingKeep) \in Seq(Offers)
<1>1. Len(s) \in Nat /\ WorkingKeep \in Nat
  BY LenProperties, RewardsAssumption
<1>2. CASE Len(s) <= WorkingKeep
  BY <1>2 DEF LastN
<1>3. CASE ~(Len(s) <= WorkingKeep)
  <2> DEFINE first == Len(s) - WorkingKeep + 1
  <2>1. first \in 1 .. Len(s) + 1
    BY <1>1, <1>3
  <2>2. LastN(s, WorkingKeep) = SubSeq(s, first, Len(s))
    BY <1>3 DEF LastN
  <2> HIDE DEF first
  <2>3. SubSeq(s, first, Len(s)) \in Seq(Offers)
    BY <1>1, <2>1, SubSeqProperties
  <2> QED
    BY <2>2, <2>3
<1> QED
  BY <1>2, <1>3

\* An offer is accepted when it is in neither list, and then it is in one.
LEMMA AcceptIsNew ==
  ASSUME SavedInv, NEW o \in Offers, NEW mem, accept_and_deliver(o, mem), IsState(mem),
         mem.working = brMem.working, mem.done = brMem.done, brDisk' = brDisk, brCut' = brCut,
         brAccepts \in [Offers -> Nat]
  PROVE  /\ SavedInv'
         /\ \A x \in Offers : x \in brDisk.done \/ (Contains(brDisk.working, x) /\ x \notin brCut)
                               => brAccepts'[x] = brAccepts[x]
<1> DEFINE c == <<o, brAccepts[o] + 1>>
           marked == [mem EXCEPT !.working = Append(@, o)]
           accepted == [marked EXCEPT !.accepts = @ + 1, !.pending[c] = "accepted"]
<1>1. CASE brMem' = mem /\ brAccepts' = brAccepts
  <2>1. SavedInv'
    BY <1>1, ListsLeftAlone
  <2> QED
    BY <1>1, <2>1
<1>2. CASE /\ o \notin mem.done /\ ~Contains(mem.working, o)
           /\ brMem' \in {marked, accepted, [accepted EXCEPT !.pending[c] = "delivered", !.done = @ \cup {o}]}
           /\ brAccepts' \in {brAccepts, [brAccepts EXCEPT ![o] = @ + 1]}
  <2>1. /\ brMem'.working = Append(brMem.working, o)
        /\ brMem.done \subseteq brMem'.done
    <3>1. marked.working = Append(mem.working, o) /\ marked.done = mem.done /\ DOMAIN marked = DOMAIN mem
      BY StateFields DEF IsState
    <3> HIDE DEF marked, c
    <3>2. accepted.working = marked.working /\ accepted.done = marked.done /\ DOMAIN accepted = DOMAIN mem
      BY <3>1, StateFields DEF IsState
    <3> HIDE DEF accepted
    <3>3. LET last == [accepted EXCEPT !.pending[c] = "delivered", !.done = @ \cup {o}]
          IN last.working = accepted.working /\ accepted.done \subseteq last.done
      BY <3>2, StateFields DEF IsState
    <3> QED
      BY <1>2, <3>1, <3>2, <3>3
  <2> HIDE DEF c, marked, accepted
  <2>2. /\ Append(brMem.working, o) \in Seq(Offers)
        /\ Len(Append(brMem.working, o)) = Len(brMem.working) + 1 /\ Len(brMem.working) \in Nat
        /\ DOMAIN Append(brMem.working, o) = 1 .. Len(brMem.working) + 1
        /\ DOMAIN brMem.working = 1 .. Len(brMem.working)
        /\ \A k \in 1 .. Len(brMem.working) : Append(brMem.working, o)[k] = brMem.working[k]
        /\ Append(brMem.working, o)[Len(brMem.working) + 1] = o
    BY AppendProperties, LenProperties DEF SavedInv
  <2>5. \A x \in Offers : Contains(brMem.working, x) => Contains(Append(brMem.working, o), x)
    BY <2>2 DEF Contains
  <2>6. SavedInv'
    BY <2>1, <2>2, <2>5 DEF SavedInv
  <2>7. o \notin brDisk.done /\ ~(Contains(brDisk.working, o) /\ o \notin brCut)
    BY <1>2 DEF SavedInv
  <2>8. \A x \in Offers : x # o => brAccepts'[x] = brAccepts[x]
    BY <1>2
  <2> QED
    BY <2>6, <2>7, <2>8
<1> QED
  BY <1>1, <1>2 DEF accept_and_deliver

\* Each step keeps the lists, and accepts no offer that is saved in one.
LEMMA SavedStep ==
  ASSUME RewardsInv, SavedInv, [BrNext]_brVars
  PROVE  /\ SavedInv'
         /\ \A o \in Offers : o \in brDisk.done \/ (Contains(brDisk.working, o) /\ o \notin brCut)
                               => brAccepts'[o] = brAccepts[o]
<1>0. BrTypeOK /\ IsState(brMem) /\ IsState(brDisk) /\ brAccepts \in [Offers -> Nat]
  BY RewardsTypes
<1>1. ASSUME NEW o, Announce(o)
      PROVE  SavedInv' /\ brAccepts' = brAccepts
  BY <1>1, ListsLeftAlone DEF Announce, brWorker, brHistory, brDeals, brRecords
<1>2. ASSUME NEW c, PostFrame(c)
      PROVE  SavedInv' /\ brAccepts' = brAccepts
  BY <1>2, ListsLeftAlone DEF PostFrame, brWorker, brHistory, brDeals, brRecords
<1>3. ASSUME NEW c, ScanDealRoom(c)
      PROVE  SavedInv' /\ brAccepts' = brAccepts
  <2> DEFINE mem == [brMem EXCEPT !.room_since[c] = @ + 1]
  <2>1. mem.working = brMem.working /\ mem.done = brMem.done /\ DOMAIN mem = DOMAIN brMem
    BY <1>0, StateFields DEF IsState
  <2>2. brMem' = mem \/ brMem' = [mem EXCEPT !.pending[c] = "revealed"]
    BY <1>3 DEF ScanDealRoom, reveal
  <2> HIDE DEF mem
  <2>3. brMem'.working = brMem.working /\ brMem'.done = brMem.done
    BY <1>0, <2>1, <2>2, StateFields DEF IsState
  <2> QED
    BY <1>3, <2>3, ListsLeftAlone DEF ScanDealRoom, brRecords
<1>4. CASE Backfill
  <2>1. brMem'.working = brMem.working /\ brMem'.done = brMem.done /\ (brDisk' = brDisk \/ brDisk' = brMem')
    <3>1. CASE brMem' = brMem /\ brDisk' = brDisk
      BY <3>1
    <3>2. PICK n, offers : \/ brMem' = brMem /\ brDisk' = brDisk
                           \/ /\ brMem' = [brMem EXCEPT !.backfill_done = TRUE, !.board_since = n, !.offers = offers]
                              /\ brDisk' = brMem'
      BY <1>4 DEF Backfill
    <3> QED
      BY <1>0, <3>1, <3>2, StateFields DEF IsState
  <2>2. brAccepts' = brAccepts /\ brCut' = brCut
    BY <1>4 DEF Backfill, brHistory, brDeals
  <2> QED
    BY <2>1, <2>2, ListsLeftAlone
<1>5. CASE ScanBoard
  <2> DEFINE frame == brBoard[brMem.board_since + 1]
             mem == [brMem EXCEPT !.board_since = @ + 1]
  <2>1. mem.working = brMem.working /\ mem.done = brMem.done /\ DOMAIN mem = DOMAIN brMem
    BY <1>0, StateFields DEF IsState
  <2>2. \/ brMem' = mem \/ brMem' = [mem EXCEPT !.pending[frame.c] = "revealed"]
        \/ brMem' = [mem EXCEPT !.offers = @ \cup {frame.o}]
    BY <1>5 DEF ScanBoard, reveal, receipt
  <2> HIDE DEF mem, frame
  <2>3. brMem'.working = brMem.working /\ brMem'.done = brMem.done
    BY <1>0, <2>1, <2>2, StateFields DEF IsState
  <2> QED
    BY <1>5, <2>3, ListsLeftAlone DEF ScanBoard, brRecords
<1>6. CASE BoardRead \/ PayoutsDone
  BY <1>6, ListsLeftAlone DEF BoardRead, PayoutsDone, brHistory, brDeals, brRecords
<1>7. CASE ScanFeed
  <2>1. PICK seen, queue, feed_since :
          brMem' = [brMem EXCEPT !.seen = seen, !.queue = queue, !.working = LastN(@, WorkingKeep),
                                 !.feed_since = feed_since]
    BY <1>7 DEF ScanFeed
  <2>2. brMem'.working = LastN(brMem.working, WorkingKeep) /\ brMem'.done = brMem.done
    BY <1>0, <2>1, StateFields DEF IsState
  <2>3. brDisk' = brDisk /\ brAccepts' = brAccepts
    BY <1>7 DEF ScanFeed, brDeals
  <2>4. brCut' = brCut \cup (Range(brMem.working) \ Range(LastN(brMem.working, WorkingKeep)))
    BY <1>7 DEF ScanFeed
  <2>5. LastN(brMem.working, WorkingKeep) \in Seq(Offers)
    BY LastNIsList DEF SavedInv
  <2>6. ASSUME NEW o \in Offers, Contains(brMem.working, o), o \notin brCut'
        PROVE  Contains(brMem'.working, o)
    <3>1. o \in Range(LastN(brMem.working, WorkingKeep))
      BY <2>4, <2>6, InRange DEF SavedInv
    <3> QED
      BY <2>2, <2>5, <3>1, InRange
  <2>7. brCut \subseteq brCut'
    BY <2>4
  <2>8. SavedInv'
    BY <2>2, <2>3, <2>5, <2>6, <2>7 DEF SavedInv
  <2> QED
    BY <2>3, <2>8
<1>8. CASE QueueDone
  <2>1. brMem'.working = brMem.working /\ brMem'.done = brMem.done
    BY <1>0, <1>8, StateFields DEF QueueDone, IsState
  <2> QED
    BY <1>8, <2>1, ListsLeftAlone DEF QueueDone, brHistory, brDeals, brRecords
<1>9. CASE Work
  <2> DEFINE o == Head(brMem.queue)
             mem == [brMem EXCEPT !.queue = Tail(@)]
  <2>1. IsState(mem) /\ mem.working = brMem.working /\ mem.done = brMem.done
    BY <1>0, StateFields DEF IsState
  <2>2. brDisk' = brDisk /\ brCut' = brCut
    BY <1>9 DEF Work
  <2>3. CASE brMem' = mem /\ brAccepts' = brAccepts
    <3> HIDE DEF mem
    <3> QED
      BY <2>1, <2>2, <2>3, ListsLeftAlone
  <2>4. CASE o \in brMem.offers /\ accept_and_deliver(o, mem)
    <3>1. o \in Offers
      BY <1>0, <2>4 DEF IsState
    <3> HIDE DEF mem, o
    <3> QED
      BY <1>0, <2>1, <2>2, <2>4, <3>1, AcceptIsNew
  <2> QED
    BY <1>9, <2>3, <2>4 DEF Work
<1>10. CASE ScanPayouts
  <2>1. PICK o \in UnseenPayouts : accept_and_deliver(o, [brMem EXCEPT !.payouts_seen = @ \cup {o}])
    BY <1>10 DEF ScanPayouts
  <2>2. o \in Offers
    BY <1>0 DEF UnseenPayouts, IsState
  <2> DEFINE mem == [brMem EXCEPT !.payouts_seen = @ \cup {o}]
  <2>3. IsState(mem) /\ mem.working = brMem.working /\ mem.done = brMem.done
    BY <1>0, StateFields DEF IsState
  <2>4. accept_and_deliver(o, mem) /\ brDisk' = brDisk /\ brCut' = brCut
    BY <1>10, <2>1 DEF ScanPayouts
  <2> HIDE DEF mem
  <2> QED
    BY <1>0, <2>2, <2>3, <2>4, AcceptIsNew
<1>11. CASE EndRound
  <2>1. PICK n : brMem' = [brMem EXCEPT !.accepts = n]
    BY <1>11 DEF EndRound
  <2>2. brMem'.working = brMem.working /\ brMem'.done = brMem.done
    BY <1>0, <2>1, StateFields DEF IsState
  <2>3. (brDisk' = brDisk \/ brDisk' = brMem) /\ brAccepts' = brAccepts /\ brCut' = brCut
    BY <1>11 DEF EndRound, brHistory, brDeals
  <2> QED
    BY <2>2, <2>3, ListsLeftAlone
<1>12. CASE BrRestart
  <2>1. brMem' = brDisk /\ brDisk' = brDisk /\ brAccepts' = brAccepts
    BY <1>12 DEF BrRestart, brHistory, brDeals
  <2> QED
    BY <2>1 DEF SavedInv
<1>13. CASE UNCHANGED brVars
  <2>1. brMem' = brMem /\ brDisk' = brDisk /\ brAccepts' = brAccepts /\ brCut' = brCut
    BY <1>13 DEF brVars, brWorker, brHistory, brDeals, brRecords
  <2> QED
    BY <2>1, ListsLeftAlone
<1> QED
  BY <1>1, <1>2, <1>3, <1>4, <1>5, <1>6, <1>7, <1>8, <1>9, <1>10, <1>11, <1>12, <1>13 DEF BrNext

\* An offer whose deal is in the saved state is not accepted again, by this
\* process or by the one after a crash: never when it was delivered, and not
\* before the list of those only tried is cut, whatever its length.
THEOREM SavedDealsStand == BrSpec => SavedDealIsNotRepeated
<1>1. BrInit => SavedInv
  <2> SUFFICES ASSUME BrInit
               PROVE  SavedInv
    OBVIOUS
  <2>1. brMem.working = <<>> /\ brDisk.working = <<>> /\ brDisk.done = {} /\ brMem.done = {}
    BY DEF BrInit, EmptyState
  <2> QED
    BY <2>1 DEF SavedInv, Contains
<1>2. RewardsInv /\ SavedInv /\ [BrNext]_brVars => SavedInv'
  BY SavedStep
<1>3. RewardsInv /\ SavedInv /\ [BrNext]_brVars =>
        [\A o \in Offers : o \in brDisk.done \/ (Contains(brDisk.working, o) /\ o \notin brCut)
                           => brAccepts'[o] = brAccepts[o]]_brVars
  BY SavedStep
<1> QED
  BY <1>1, <1>2, <1>3, RewardsInvariant, PTL DEF BrSpec, SavedDealIsNotRepeated

-----------------------------------------------------------------------------
(* The board worker.  That a result is due is not inductive: the invariant *)
(* (KibbleInv) says what a read that shows only the last lines still shows *)
(* of a job, and what is true of the jobs that remain to be answered.      *)

LineOk(e) ==
  /\ IF e.kind = "JOB" THEN ~Named(e.id) /\ e.author = Rival ELSE Named(e.id)
  /\ e.kind = "ATTEST" => HasResult(e.id)

\* What a step does to the board at most: it adds the line e.
Grown(e) == kbRoom' = kbRoom \/ kbRoom' = Append(kbRoom, e)

LEMMA BoardLine ==
  ASSUME KbTypeOK, NEW k \in DOMAIN kbRoom
  PROVE  /\ k \in Nat /\ 1 <= k /\ k <= Len(kbRoom) /\ Len(kbRoom) \in Nat
         /\ kbRoom[k].kind \in {"JOB", "CLAIM", "RESULT", "ATTEST"}
         /\ kbRoom[k].id \in Jobs /\ kbRoom[k].author \in {Us, Rival}
         /\ kbRoom[k] = [kind |-> kbRoom[k].kind, id |-> kbRoom[k].id, author |-> kbRoom[k].author]
<1>1. kbRoom \in Seq(Lines)
  BY DEF KbTypeOK
<1>2. k \in 1 .. Len(kbRoom) /\ Len(kbRoom) \in Nat
  BY <1>1, LenProperties
<1>3. kbRoom[k] \in Lines
  BY <1>1, <1>2, ElementOfSeq
<1> QED
  BY <1>2, <1>3 DEF Lines

LEMMA BoardAppended ==
  ASSUME KbTypeOK, NEW e \in Lines, kbRoom' = Append(kbRoom, e)
  PROVE  /\ kbRoom' \in Seq(Lines)
         /\ DOMAIN kbRoom' = DOMAIN kbRoom \cup {Len(kbRoom) + 1}
         /\ \A k \in DOMAIN kbRoom : kbRoom'[k] = kbRoom[k] /\ k < Len(kbRoom) + 1
         /\ kbRoom'[Len(kbRoom) + 1] = e
<1>1. kbRoom \in Seq(Lines)
  BY DEF KbTypeOK
<1>2. /\ kbRoom' \in Seq(Lines) /\ Len(kbRoom') = Len(kbRoom) + 1
      /\ \A i \in 1 .. Len(kbRoom) : kbRoom'[i] = kbRoom[i]
      /\ kbRoom'[Len(kbRoom) + 1] = e
  BY <1>1, AppendProperties
<1>3. DOMAIN kbRoom = 1 .. Len(kbRoom) /\ DOMAIN kbRoom' = 1 .. Len(kbRoom') /\ Len(kbRoom) \in Nat
  BY <1>1, <1>2, LenProperties
<1>4. PICK n \in Nat : n = Len(kbRoom)
  BY <1>3
<1>5. 1 .. (n + 1) = (1 .. n) \cup {n + 1} /\ \A k \in 1 .. n : k < n + 1
  BY <1>4
<1> QED
  BY <1>2, <1>3, <1>4, <1>5

\* The board only grows.
LEMMA BoardKeeps ==
  ASSUME KbTypeOK, NEW e \in Lines, Grown(e)
  PROVE  /\ kbRoom' \in Seq(Lines) /\ DOMAIN kbRoom \subseteq DOMAIN kbRoom'
         /\ \A k \in DOMAIN kbRoom : kbRoom'[k] = kbRoom[k]
         /\ \A k \in DOMAIN kbRoom' \ DOMAIN kbRoom :
               kbRoom'[k] = e /\ \A i \in DOMAIN kbRoom' : i <= k
<1>1. CASE kbRoom' = kbRoom
  BY <1>1 DEF KbTypeOK
<1>2. CASE kbRoom' = Append(kbRoom, e)
  <2>1. /\ kbRoom' \in Seq(Lines)
        /\ DOMAIN kbRoom' = DOMAIN kbRoom \cup {Len(kbRoom) + 1}
        /\ \A k \in DOMAIN kbRoom : kbRoom'[k] = kbRoom[k] /\ k < Len(kbRoom) + 1
        /\ kbRoom'[Len(kbRoom) + 1] = e
    BY <1>2, BoardAppended
  <2>2. Len(kbRoom) \in Nat
    BY LenProperties DEF KbTypeOK
  <2>3. \A k \in DOMAIN kbRoom : k \in Nat
    BY BoardLine
  <2>4. ASSUME NEW k \in DOMAIN kbRoom' \ DOMAIN kbRoom
        PROVE  kbRoom'[k] = e /\ \A i \in DOMAIN kbRoom' : i <= k
    BY <2>1, <2>2, <2>3, <2>4
  <2> QED
    BY <2>1, <2>4
<1> QED
  BY <1>1, <1>2 DEF Grown

\* What was on the board stays on it.
LEMMA MarksStay ==
  ASSUME KbTypeOK, NEW e \in Lines, Grown(e), NEW j
  PROVE  /\ Named(j) => Named(j)'
         /\ HasResult(j) => HasResult(j)'
         /\ (\E k \in DOMAIN kbRoom : Is(k, "CLAIM", j)) => (\E k \in DOMAIN kbRoom : Is(k, "CLAIM", j))'
BY BoardKeeps DEF Named, HasResult, Is

LEMMA JobsStayFirst ==
  ASSUME KbTypeOK, JobsComeFirst, NEW e \in Lines, Grown(e), LineOk(e)
  PROVE  JobsComeFirst'
<1>1. /\ DOMAIN kbRoom \subseteq DOMAIN kbRoom'
      /\ \A k \in DOMAIN kbRoom : kbRoom'[k] = kbRoom[k]
      /\ \A k \in DOMAIN kbRoom' \ DOMAIN kbRoom : kbRoom'[k] = e /\ \A i \in DOMAIN kbRoom' : i <= k
  BY BoardKeeps
<1>2. kbRoom' \in Seq(Lines)
  BY BoardKeeps
<1>3. ASSUME NEW k \in DOMAIN kbRoom'
      PROVE  \E i \in DOMAIN kbRoom' : i <= k /\ kbRoom'[i].kind = "JOB" /\ kbRoom'[i].id = kbRoom'[k].id
  <2>1. CASE k \in DOMAIN kbRoom
    BY <1>1, <2>1 DEF JobsComeFirst, Is
  <2>2. CASE k \notin DOMAIN kbRoom
    <3>1. kbRoom'[k] = e /\ \A i \in DOMAIN kbRoom' : i <= k
      BY <1>1, <2>2
    <3>2. CASE e.kind = "JOB"
      BY <3>1, <3>2
    <3>3. CASE e.kind # "JOB"
      <4>1. PICK i \in DOMAIN kbRoom : kbRoom[i].id = e.id
        BY <3>3 DEF LineOk, Named
      <4>2. PICK l \in DOMAIN kbRoom : kbRoom[l].kind = "JOB" /\ kbRoom[l].id = e.id
        BY <4>1 DEF JobsComeFirst, Is
      <4> QED
        BY <1>1, <3>1, <4>2
    <3> QED
      BY <3>2, <3>3
  <2> QED
    BY <2>1, <2>2
<1>4. ASSUME NEW i \in DOMAIN kbRoom', NEW k \in DOMAIN kbRoom',
             kbRoom'[i].kind = "JOB", kbRoom'[k].kind = "JOB", kbRoom'[i].id = kbRoom'[k].id
      PROVE  i = k
  <2>1. CASE i \in DOMAIN kbRoom /\ k \in DOMAIN kbRoom
    BY <1>1, <1>4, <2>1 DEF JobsComeFirst, Is
  <2>2. CASE i \notin DOMAIN kbRoom /\ k \notin DOMAIN kbRoom
    <3>1. i <= k /\ k <= i
      BY <1>1, <2>2
    <3>2. i \in Nat /\ k \in Nat
      BY <1>2, LenProperties
    <3> QED
      BY <3>1, <3>2
  <2>3. CASE i \in DOMAIN kbRoom /\ k \notin DOMAIN kbRoom
    BY <1>1, <1>4, <2>3 DEF LineOk, Named
  <2>4. CASE i \notin DOMAIN kbRoom /\ k \in DOMAIN kbRoom
    BY <1>1, <1>4, <2>4 DEF LineOk, Named
  <2> QED
    BY <2>1, <2>2, <2>3, <2>4
<1>5. ASSUME NEW k \in DOMAIN kbRoom', kbRoom'[k].kind = "ATTEST"
      PROVE  \E i \in DOMAIN kbRoom' : kbRoom'[i].kind = "RESULT" /\ kbRoom'[i].id = kbRoom'[k].id
  <2>1. CASE k \in DOMAIN kbRoom
    BY <1>1, <1>5, <2>1 DEF JobsComeFirst, HasResult, Is
  <2>2. CASE k \notin DOMAIN kbRoom
    BY <1>1, <1>5, <2>2 DEF LineOk, HasResult, Is
  <2> QED
    BY <2>1, <2>2
<1>6. ASSUME NEW k \in DOMAIN kbRoom', kbRoom'[k].kind = "JOB"
      PROVE  kbRoom'[k].author = Rival
  <2>1. CASE k \in DOMAIN kbRoom
    BY <1>1, <1>6, <2>1 DEF JobsComeFirst
  <2>2. CASE k \notin DOMAIN kbRoom
    BY <1>1, <1>6, <2>2 DEF LineOk
  <2> QED
    BY <2>1, <2>2
<1> QED
  BY <1>3, <1>4, <1>5, <1>6 DEF JobsComeFirst, HasResult, Is

\* The first claim of what was read, and of the board, stays the first.
LEMMA FirstClaimStays ==
  ASSUME KbTypeOK, NEW e \in Lines, Grown(e), NEW j, NEW S \in SUBSET (DOMAIN kbRoom)
  PROVE  /\ first_claimer(S, j)' = first_claimer(S, j)
         /\ first_claimer(DOMAIN kbRoom, j) = {Us} => first_claimer(DOMAIN kbRoom, j)' = {Us}
<1>1. /\ DOMAIN kbRoom \subseteq DOMAIN kbRoom'
      /\ \A k \in DOMAIN kbRoom : kbRoom'[k] = kbRoom[k]
      /\ \A k \in DOMAIN kbRoom' \ DOMAIN kbRoom : kbRoom'[k] = e /\ \A i \in DOMAIN kbRoom' : i <= k
  BY BoardKeeps
<1>2. ClaimsOf(S, j)' = ClaimsOf(S, j)
  BY <1>1 DEF ClaimsOf, Is
<1>3. ClaimsOf(S, j) \subseteq DOMAIN kbRoom
  BY DEF ClaimsOf
<1>4. first_claimer(S, j)' = first_claimer(S, j)
  BY <1>1, <1>2, <1>3 DEF first_claimer
<1>5. ASSUME first_claimer(DOMAIN kbRoom, j) = {Us}
      PROVE  first_claimer(DOMAIN kbRoom, j)' = {Us}
  <2> DEFINE C == ClaimsOf(DOMAIN kbRoom, j)
             D == ClaimsOf(DOMAIN kbRoom, j)'
  <2>1. C \subseteq D /\ C \subseteq DOMAIN kbRoom /\ D \subseteq DOMAIN kbRoom'
    BY <1>1 DEF ClaimsOf, Is
  <2>2. D \cap DOMAIN kbRoom \subseteq C
    BY <1>1 DEF ClaimsOf, Is
  <2>3. PICK c \in C : (\A l \in C : c <= l) /\ kbRoom[c].author = Us
    BY <1>5 DEF first_claimer
  <2>4. \A k \in C : (\A l \in C : k <= l) => kbRoom[k].author = Us
    BY <1>5 DEF first_claimer
  <2> HIDE DEF C, D
  <2>5. DOMAIN kbRoom' \subseteq Nat
    BY BoardKeeps, LenProperties
  <2>6. \A l \in D : c <= l
    <3> SUFFICES ASSUME NEW l \in D PROVE c <= l
      OBVIOUS
    <3>1. CASE l \in DOMAIN kbRoom
      BY <2>2, <2>3, <3>1
    <3>2. CASE l \notin DOMAIN kbRoom
      BY <1>1, <2>1, <2>3, <3>2
    <3> QED
      BY <3>1, <3>2
  <2>7. ASSUME NEW k \in D, \A l \in D : k <= l
        PROVE  kbRoom'[k].author = Us
    <3>1. k <= c /\ c <= k /\ k \in Nat /\ c \in Nat
      BY <2>1, <2>3, <2>5, <2>6, <2>7
    <3>2. k = c
      BY <3>1
    <3> QED
      BY <1>1, <2>1, <2>3, <3>2
  <2>8. c \in D /\ kbRoom'[c].author = Us
    BY <1>1, <2>1, <2>3
  <2>9. {kbRoom'[k].author : k \in {d \in D : \A l \in D : d <= l}} = {Us}
    BY <2>6, <2>7, <2>8
  <2> QED
    BY <2>9 DEF D, first_claimer
<1> QED
  BY <1>4, <1>5

\* A RESULT of ours may be added when none is there and our claim is first.
LEMMA ResultsStayDue ==
  ASSUME KbTypeOK, ResultsAreDue, NEW e \in Lines, Grown(e),
         e.kind = "RESULT" /\ e.author = Us /\ e.id \notin FranchiseJobs
            => Ours("RESULT", e.id) = {} /\ first_claimer(DOMAIN kbRoom, e.id) = {Us}
  PROVE  ResultsAreDue'
<1>1. /\ DOMAIN kbRoom \subseteq DOMAIN kbRoom'
      /\ \A k \in DOMAIN kbRoom : kbRoom'[k] = kbRoom[k]
      /\ \A k \in DOMAIN kbRoom' \ DOMAIN kbRoom : kbRoom'[k] = e /\ \A i \in DOMAIN kbRoom' : i <= k
  BY BoardKeeps
<1>2. DOMAIN kbRoom' \subseteq Nat
  BY BoardKeeps, LenProperties
<1> SUFFICES ASSUME NEW j \in Jobs \ FranchiseJobs
             PROVE  /\ Ours("RESULT", j)' # {} => first_claimer(DOMAIN kbRoom, j)' = {Us}
                    /\ \A k, l \in Ours("RESULT", j)' : k = l
  BY DEF ResultsAreDue, ResultNeedsFirstClaim, OneResultPerJob
<1> DEFINE o == Line("RESULT", j, Us)
<1>3. o.kind = "RESULT" /\ o.author = Us /\ o.id = j
  BY DEF Line
<1> HIDE DEF o
<1>4. Ours("RESULT", j) = {k \in DOMAIN kbRoom : kbRoom[k] = o}
  BY DEF Ours, o
<1>5. Ours("RESULT", j)' = {k \in DOMAIN kbRoom' : kbRoom'[k] = o}
  BY DEF Ours, o, Line
<1>6. first_claimer(DOMAIN kbRoom, j) = {Us} => first_claimer(DOMAIN kbRoom, j)' = {Us}
  BY FirstClaimStays
<1>7. CASE e = o
  <2>1. Ours("RESULT", j) = {} /\ first_claimer(DOMAIN kbRoom, j) = {Us}
    BY <1>3, <1>7
  <2>2. \A k, l \in Ours("RESULT", j)' : k \notin DOMAIN kbRoom /\ k <= l /\ k \in Nat
    BY <1>1, <1>2, <1>4, <1>5, <2>1
  <2>3. \A k, l \in Ours("RESULT", j)' : k = l
    BY <2>2
  <2> QED
    BY <1>6, <2>1, <2>3
<1>8. CASE e # o
  <2>1. Ours("RESULT", j)' = Ours("RESULT", j)
    BY <1>1, <1>4, <1>5, <1>8
  <2> QED
    BY <1>6, <2>1 DEF ResultsAreDue, ResultNeedsFirstClaim, OneResultPerJob
<1> QED
  BY <1>7, <1>8

\* What is still to answer stays open unless the line is its RESULT.
LEMMA TodoStaysOpen ==
  ASSUME KbTypeOK, TodoIsOpen, NEW e \in Lines, Grown(e),
         kbPc' = kbPc, kbTodo' \subseteq kbTodo, kbView' = kbView \/ kbTodo' = {},
         e.kind = "RESULT" /\ e.author = Us => e.id \notin kbTodo' \/ kbPc = "franchise"
  PROVE  TodoIsOpen'
<1>1. ASSUME kbPc = "franchise", NEW j \in kbTodo'
      PROVE  Named(j)' /\ j \in FranchiseJobs
  BY <1>1, MarksStay DEF TodoIsOpen
<1>2. ASSUME kbPc = "answer", NEW j \in kbTodo'
      PROVE  /\ Named(j)' /\ Ours("RESULT", j)' = {}
             /\ first_claimer(kbView, j)' \subseteq {Us} => first_claimer(DOMAIN kbRoom, j)' = {Us}
  <2>1. /\ Named(j) /\ Ours("RESULT", j) = {}
        /\ first_claimer(kbView, j) \subseteq {Us} => first_claimer(DOMAIN kbRoom, j) = {Us}
    BY <1>2 DEF TodoIsOpen
  <2>2. Named(j)'
    BY <2>1, MarksStay
  <2>3. Ours("RESULT", j)' = {}
    <3>1. e # Line("RESULT", j, Us)
      BY <1>2 DEF Line
    <3>2. \A k \in DOMAIN kbRoom' : kbRoom'[k] # Line("RESULT", j, Us)
      BY <2>1, <3>1, BoardKeeps DEF Ours
    <3> QED
      BY <3>2 DEF Ours, Line
  <2>4. first_claimer(kbView, j)' = first_claimer(kbView, j)
    <3>1. PICK S : S = kbView
      OBVIOUS
    <3>2. S \in SUBSET (DOMAIN kbRoom)
      BY <3>1 DEF KbTypeOK
    <3>3. first_claimer(S, j)' = first_claimer(S, j)
      BY <3>2, FirstClaimStays
    <3>4. kbView' = S
      BY <1>2, <3>1
    <3> QED
      BY <3>1, <3>3, <3>4 DEF first_claimer, ClaimsOf
  <2>5. first_claimer(DOMAIN kbRoom, j) = {Us} => first_claimer(DOMAIN kbRoom, j)' = {Us}
    <3>1. DOMAIN kbRoom \in SUBSET (DOMAIN kbRoom)
      OBVIOUS
    <3> QED
      BY <3>1, FirstClaimStays
  <2> QED
    BY <2>1, <2>2, <2>3, <2>4, <2>5
<1>3. kbPc \in {"poll", "claim"} => kbTodo' = {}
  BY DEF TodoIsOpen
<1> QED
  BY <1>1, <1>2, <1>3 DEF TodoIsOpen

\* A read that shows the JOB line of a claimed job shows all its lines.
LEMMA WantedIsOpen ==
  ASSUME KibbleInv, NEW j \in wanted(fetch)
  PROVE  /\ Named(j) /\ Ours("RESULT", j) = {}
         /\ first_claimer(fetch, j) \subseteq {Us} => first_claimer(DOMAIN kbRoom, j) = {Us}
<1>1. PICK k \in fetch : kbRoom[k].kind = "JOB" /\ kbRoom[k].id = j
  BY DEF wanted, Is
<1>2. KbTypeOK /\ JobsComeFirst /\ ClaimsStand
  BY DEF KibbleInv
<1>3. k \in DOMAIN kbRoom /\ k > 0 /\ k > Len(kbRoom) - Window /\ fetch \subseteq DOMAIN kbRoom
  BY DEF fetch, LinesAfter
<1>4. ASSUME NEW l \in DOMAIN kbRoom, kbRoom[l].id = j
      PROVE  l \in fetch
  <2>1. PICK i \in DOMAIN kbRoom : i <= l /\ kbRoom[i].kind = "JOB" /\ kbRoom[i].id = j
    BY <1>2, <1>4 DEF JobsComeFirst, Is
  <2>2. i = k
    BY <1>1, <1>2, <1>3, <2>1 DEF JobsComeFirst, Is
  <2>3. l \in Nat /\ k \in Nat /\ Len(kbRoom) \in Nat
    BY <1>2, <1>3, BoardLine
  <2>4. l > 0 /\ l > Len(kbRoom) - Window
    BY <1>3, <2>1, <2>2, <2>3, KibbleAssumption
  <2> QED
    BY <2>4 DEF fetch, LinesAfter
<1>5. ~HasResult(j) /\ Ours("RESULT", j) = {}
  <2>1. ASSUME NEW l \in DOMAIN kbRoom, kbRoom[l].kind = "RESULT", kbRoom[l].id = j
        PROVE  FALSE
    <3>1. l \in fetch
      BY <1>4, <2>1
    <3> QED
      BY <2>1, <3>1 DEF wanted, has_result, ResultKinds
  <2> QED
    BY <2>1 DEF HasResult, Is, Ours, Line
<1>6. PICK c \in DOMAIN kbRoom : kbRoom[c].kind = "CLAIM" /\ kbRoom[c].id = j
  BY <1>2, <1>5 DEF ClaimsStand, wanted, Is
<1>7. ClaimsOf(fetch, j) = ClaimsOf(DOMAIN kbRoom, j)
  BY <1>3, <1>4 DEF ClaimsOf, Is
<1>8. first_claimer(fetch, j) = first_claimer(DOMAIN kbRoom, j)
  BY <1>7 DEF first_claimer
<1>9. first_claimer(DOMAIN kbRoom, j) # {}
  <2>1. PICK C : C = ClaimsOf(DOMAIN kbRoom, j)
    OBVIOUS
  <2>2. C \in SUBSET Nat /\ C # {}
    BY <1>2, <1>6, <2>1, BoardLine DEF ClaimsOf, Is
  <2>3. PICK m \in C : \A n \in C : m <= n
    BY <2>2, HasLeast
  <2> QED
    BY <2>1, <2>3 DEF first_claimer
<1> QED
  BY <1>1, <1>3, <1>5, <1>8, <1>9 DEF Named

\* A job the worker says it claimed stands on the board.
LEMMA ClaimsStayTrue ==
  ASSUME KbTypeOK, ClaimsStand, NEW e \in Lines, Grown(e),
         \A j \in (kbSt'.claims \cup kbFile'.claims) \ (kbSt.claims \cup kbFile.claims) :
            HasResult(j)' \/ (\E k \in DOMAIN kbRoom : Is(k, "CLAIM", j))'
  PROVE  ClaimsStand'
<1> SUFFICES ASSUME NEW j \in kbSt'.claims \cup kbFile'.claims
             PROVE  HasResult(j)' \/ (\E k \in DOMAIN kbRoom : Is(k, "CLAIM", j))'
  BY DEF ClaimsStand
<1>1. CASE j \in kbSt.claims \cup kbFile.claims
  BY <1>1, MarksStay DEF ClaimsStand
<1>2. CASE j \notin kbSt.claims \cup kbFile.claims
  BY <1>2
<1> QED
  BY <1>1, <1>2

LEMMA PostGrows ==
  ASSUME KbTypeOK, NEW kind \in {"CLAIM", "RESULT", "ATTEST"}, NEW j \in Jobs, NEW ok, post(kind, j, ok)
  PROVE  /\ Line(kind, j, Us) \in Lines /\ Grown(Line(kind, j, Us))
         /\ ok => kbRoom' = Append(kbRoom, Line(kind, j, Us)) \/ verify_landed(j)
<1>1. Line(kind, j, Us) \in Lines
  BY DEF Line, Lines
<1>2. Grown(Line(kind, j, Us))
  BY DEF post, Grown
<1>3. ok => kbRoom' = Append(kbRoom, Line(kind, j, Us)) \/ verify_landed(j)
  BY DEF post
<1> QED
  BY <1>1, <1>2, <1>3

LEMMA BoardBegins == KbInit => KibbleInv
<1> SUFFICES ASSUME KbInit PROVE KibbleInv
  OBVIOUS
<1>1. kbRoom = <<>> /\ DOMAIN kbRoom = {} /\ kbRoom \in Seq(Lines)
  BY EmptySeq DEF KbInit
<1>2. EmptyKb \in KbStates
  BY DEF EmptyKb, KbStates
<1>3. EmptyKb.claims = {}
  BY DEF EmptyKb
<1>4. KbTypeOK
  BY <1>1, <1>2 DEF KbInit, KbTypeOK
<1>5. JobsComeFirst
  BY <1>1 DEF JobsComeFirst
<1>6. ClaimsStand /\ TodoIsOpen
  BY <1>3 DEF KbInit, ClaimsStand, TodoIsOpen
<1>7. ResultsAreDue
  BY <1>1 DEF ResultsAreDue, ResultNeedsFirstClaim, OneResultPerJob, Ours
<1> QED
  BY <1>4, <1>5, <1>6, <1>7 DEF KibbleInv

\* A line of somebody else.
LEMMA OthersKeepInv ==
  ASSUME KibbleInv, NEW e \in Lines, kbRoom' = Append(kbRoom, e), LineOk(e), e.author = Rival,
         UNCHANGED <<kbSt, kbFile, kbPc, kbFresh, kbView, kbTodo>>
  PROVE  KibbleInv'
<1>1. KbTypeOK /\ JobsComeFirst /\ ClaimsStand /\ TodoIsOpen /\ ResultsAreDue /\ Grown(e)
  BY DEF KibbleInv, Grown
<1>2. e.author # Us
  BY DEF Rival, Us
<1>3. JobsComeFirst'
  BY <1>1, JobsStayFirst
<1>4. ResultsAreDue'
  BY <1>1, <1>2, ResultsStayDue
<1>5. TodoIsOpen'
  BY <1>1, <1>2, TodoStaysOpen
<1>6. ClaimsStand'
  BY <1>1, ClaimsStayTrue
<1>7. KbTypeOK'
  BY <1>1, BoardKeeps DEF KbTypeOK
<1> QED
  BY <1>3, <1>4, <1>5, <1>6, <1>7 DEF KibbleInv

LEMMA PostJobKeepsInv ==
  ASSUME KibbleInv, NEW j \in Jobs, PostJob(j)
  PROVE  KibbleInv'
<1> DEFINE e == Line("JOB", j, Rival)
<1>1. e \in Lines /\ e.kind = "JOB" /\ e.id = j /\ e.author = Rival
  BY DEF Line, Lines
<1>2. ~Named(j)
  BY DEF PostJob, Named, Range
<1>3. kbRoom' = Append(kbRoom, e) /\ UNCHANGED <<kbSt, kbFile, kbPc, kbFresh, kbView, kbTodo>>
  BY DEF PostJob
<1> HIDE DEF e
<1>4. LineOk(e)
  BY <1>1, <1>2 DEF LineOk
<1> QED
  BY <1>1, <1>3, <1>4, OthersKeepInv

LEMMA RivalKeepsInv ==
  ASSUME KibbleInv, NEW j \in Jobs, NEW kind \in {"CLAIM", "RESULT"}, RivalPosts(kind, j)
  PROVE  KibbleInv'
<1> DEFINE e == Line(kind, j, Rival)
<1>1. e \in Lines /\ e.kind \in {"CLAIM", "RESULT"} /\ e.id = j /\ e.author = Rival
  BY DEF Line, Lines
<1>2. Named(j)
  BY DEF RivalPosts, Named, Range
<1>3. kbRoom' = Append(kbRoom, e) /\ UNCHANGED <<kbSt, kbFile, kbPc, kbFresh, kbView, kbTodo>>
  BY DEF RivalPosts
<1> HIDE DEF e
<1>4. LineOk(e)
  BY <1>1, <1>2 DEF LineOk
<1> QED
  BY <1>1, <1>3, <1>4, OthersKeepInv

\* What the state says was claimed is named on the board.
LEMMA ClaimedIsNamed ==
  ASSUME KibbleInv, NEW j \in kbSt.claims \cup kbFile.claims
  PROVE  Named(j)
BY DEF KibbleInv, ClaimsStand, HasResult, Named, Is

LEMMA FranchiseKeepsInv ==
  ASSUME KibbleInv, NEW j \in Jobs, FranchiseResult(j)
  PROVE  KibbleInv'
<1>1. PICK ok \in BOOLEAN :
        /\ post("RESULT", j, ok)
        /\ IF ok
           THEN /\ kbSt' = [kbSt EXCEPT !.answered = @ \cup {j}, !.franchise_done = TRUE]
                /\ kbFile' = kbSt' /\ kbTodo' = {}
           ELSE UNCHANGED <<kbSt, kbFile>> /\ kbTodo' = kbTodo \ {j}
  BY DEF FranchiseResult
<1>2. KbTypeOK /\ JobsComeFirst /\ ClaimsStand /\ TodoIsOpen /\ ResultsAreDue
  BY DEF KibbleInv
<1>3. kbPc = "franchise" /\ kbPc' = kbPc /\ kbFresh' = kbFresh /\ kbView' = kbView /\ j \in kbTodo
  BY DEF FranchiseResult
<1>4. j \in FranchiseJobs /\ Named(j)
  BY <1>2, <1>3 DEF TodoIsOpen
<1> DEFINE e == Line("RESULT", j, Us)
<1>5. e \in Lines /\ Grown(e)
  BY <1>1, <1>2, PostGrows
<1>6. e.kind = "RESULT" /\ e.id = j
  BY DEF Line
<1> HIDE DEF e
<1>7. LineOk(e)
  BY <1>4, <1>6 DEF LineOk
<1>8. JobsComeFirst' /\ ResultsAreDue'
  BY <1>2, <1>4, <1>5, <1>6, <1>7, JobsStayFirst, ResultsStayDue
<1>9. TodoIsOpen'
  BY <1>1, <1>2, <1>3, <1>5, TodoStaysOpen
<1>10. /\ kbSt' \in KbStates /\ kbFile' \in KbStates
       /\ kbSt'.claims \subseteq kbSt.claims /\ kbFile'.claims \subseteq kbSt.claims \cup kbFile.claims
  <2>1. CASE ok
    <3>1. kbFile' = kbSt' /\ kbSt' = [kbSt EXCEPT !.answered = @ \cup {j}, !.franchise_done = TRUE]
      BY <1>1, <2>1
    <3>2. kbSt \in KbStates
      BY <1>2 DEF KbTypeOK
    <3>3. kbSt' \in KbStates
      BY <3>1, <3>2 DEF KbStates
    <3>4. kbSt'.claims = kbSt.claims
      BY <3>1, <3>2 DEF KbStates
    <3> QED
      BY <3>1, <3>3, <3>4
  <2>2. CASE ~ok
    BY <1>1, <1>2, <2>2 DEF KbTypeOK
  <2> QED
    BY <2>1, <2>2
<1>11. ClaimsStand'
  BY <1>2, <1>5, <1>10, ClaimsStayTrue
<1>12. kbTodo' \subseteq Jobs
  BY <1>1, <1>2 DEF KbTypeOK
<1>13. KbTypeOK'
  BY <1>2, <1>3, <1>5, <1>10, <1>12, BoardKeeps DEF KbTypeOK
<1> QED
  BY <1>8, <1>9, <1>11, <1>13 DEF KibbleInv

\* A claim that is told to have landed stands on the board, or its job has a
\* result: what was found may be an attestation of ours.
LEMMA ClaimLanded ==
  ASSUME KbTypeOK, JobsComeFirst, NEW j \in Jobs, post("CLAIM", j, TRUE)
  PROVE  HasResult(j)' \/ (\E k \in DOMAIN kbRoom : Is(k, "CLAIM", j))'
<1> DEFINE e == Line("CLAIM", j, Us)
<1>1. e \in Lines /\ Grown(e) /\ (kbRoom' = Append(kbRoom, e) \/ verify_landed(j))
  BY PostGrows
<1>2. e.kind = "CLAIM" /\ e.id = j
  BY DEF Line
<1> HIDE DEF e
<1>3. CASE kbRoom' = Append(kbRoom, e)
  BY <1>1, <1>2, <1>3, BoardAppended DEF Is
<1>4. CASE verify_landed(j)
  <2>1. PICK k \in DOMAIN kbRoom : kbRoom[k].id = j /\ kbRoom[k].author = Us
    BY <1>4 DEF verify_landed, fetch, LinesAfter
  <2>2. kbRoom[k].kind \in {"CLAIM", "RESULT", "ATTEST"}
    BY <2>1, BoardLine DEF JobsComeFirst, Rival, Us
  <2>3. HasResult(j) \/ \E i \in DOMAIN kbRoom : Is(i, "CLAIM", j)
    BY <2>1, <2>2 DEF JobsComeFirst, HasResult, Is
  <2> QED
    BY <1>1, <2>3, MarksStay
<1> QED
  BY <1>1, <1>3, <1>4

LEMMA ClaimKeepsInv ==
  ASSUME KibbleInv, NEW k \in kbFresh, ClaimJob(k)
  PROVE  KibbleInv'
<1>1. PICK j : j = kbRoom[k].id
  OBVIOUS
<1>2. PICK ok \in BOOLEAN :
        /\ post("CLAIM", j, ok)
        /\ IF ok
           THEN /\ kbSt' = [kbSt EXCEPT !.claims = @ \cup {j}, !.titles = @ \cup {j}, !.count = @ + 1]
                /\ kbFile' = kbSt'
           ELSE UNCHANGED <<kbSt, kbFile>>
  BY <1>1 DEF ClaimJob
<1>3. KbTypeOK /\ JobsComeFirst /\ ClaimsStand /\ TodoIsOpen /\ ResultsAreDue
  BY DEF KibbleInv
<1>4. kbPc = "claim" /\ kbPc' = kbPc /\ kbFresh' = kbFresh \ {k} /\ kbView' = kbView /\ kbTodo' = kbTodo
  BY DEF ClaimJob
<1>5. k \in DOMAIN kbRoom
  BY <1>3 DEF KbTypeOK
<1>6. j \in Jobs /\ Named(j)
  BY <1>1, <1>3, <1>5, BoardLine DEF Named
<1> DEFINE e == Line("CLAIM", j, Us)
<1>7. e \in Lines /\ Grown(e)
  BY <1>2, <1>3, <1>6, PostGrows
<1>8. e.kind = "CLAIM" /\ e.id = j
  BY DEF Line
<1> HIDE DEF e
<1>9. LineOk(e)
  BY <1>6, <1>8 DEF LineOk
<1>10. JobsComeFirst' /\ ResultsAreDue' /\ TodoIsOpen'
  BY <1>3, <1>4, <1>7, <1>8, <1>9, JobsStayFirst, ResultsStayDue, TodoStaysOpen
<1>11. /\ kbSt' \in KbStates /\ kbFile' \in KbStates
       /\ kbSt'.claims \cup kbFile'.claims \subseteq kbSt.claims \cup kbFile.claims \cup (IF ok THEN {j} ELSE {})
  <2>1. CASE ok
    <3>1. kbFile' = kbSt' /\ kbSt' = [kbSt EXCEPT !.claims = @ \cup {j}, !.titles = @ \cup {j}, !.count = @ + 1]
      BY <1>2, <2>1
    <3>2. kbSt \in KbStates
      BY <1>3 DEF KbTypeOK
    <3>3. kbSt' \in KbStates
      <4>1. PICK n, c, t : n = kbSt.count + 1 /\ c = kbSt.claims \cup {j} /\ t = kbSt.titles \cup {j}
        OBVIOUS
      <4>2. n \in Nat
        BY <3>2, <4>1 DEF KbStates
      <4>3. c \in SUBSET Jobs /\ t \in SUBSET Jobs
        BY <1>6, <3>2, <4>1 DEF KbStates
      <4>4. kbSt' = [kbSt EXCEPT !.claims = c, !.titles = t, !.count = n]
        BY <3>1, <4>1
      <4> QED
        BY <3>2, <4>2, <4>3, <4>4 DEF KbStates
    <3>4. kbSt'.claims = kbSt.claims \cup {j}
      BY <3>1, <3>2 DEF KbStates
    <3> QED
      BY <3>1, <3>3, <3>4, <2>1
  <2>2. CASE ~ok
    BY <1>2, <1>3, <2>2 DEF KbTypeOK
  <2> QED
    BY <2>1, <2>2
<1>12. ok => HasResult(j)' \/ (\E i \in DOMAIN kbRoom : Is(i, "CLAIM", j))'
  <2> SUFFICES ASSUME ok = TRUE
               PROVE  HasResult(j)' \/ (\E i \in DOMAIN kbRoom : Is(i, "CLAIM", j))'
    OBVIOUS
  <2>1. post("CLAIM", j, TRUE)
    BY <1>2
  <2> QED
    BY <1>3, <1>6, <2>1, ClaimLanded
<1>13. ClaimsStand'
  BY <1>3, <1>7, <1>11, <1>12, ClaimsStayTrue
<1>14. KbTypeOK'
  BY <1>3, <1>4, <1>7, <1>11, BoardKeeps DEF KbTypeOK
<1> QED
  BY <1>10, <1>13, <1>14 DEF KibbleInv

LEMMA ResultKeepsInv ==
  ASSUME KibbleInv, NEW j \in Jobs, SendResult(j)
  PROVE  KibbleInv'
<1>1. PICK ok \in BOOLEAN :
        /\ post("RESULT", j, ok)
        /\ IF ok
           THEN kbSt' = [kbSt EXCEPT !.answered = @ \cup {j}] /\ kbFile' = kbSt'
           ELSE UNCHANGED <<kbSt, kbFile>>
  BY DEF SendResult, SendAnswer
<1>2. KbTypeOK /\ JobsComeFirst /\ ClaimsStand /\ TodoIsOpen /\ ResultsAreDue
  BY DEF KibbleInv
<1>3. /\ kbPc = "answer" /\ kbPc' = kbPc /\ kbFresh' = kbFresh /\ kbView' = kbView
      /\ j \in kbTodo /\ kbTodo' = kbTodo \ {j}
  BY DEF SendResult, SendAnswer, IsNext
<1>4. Named(j) /\ Ours("RESULT", j) = {} /\ first_claimer(DOMAIN kbRoom, j) = {Us}
  BY <1>2, <1>3 DEF TodoIsOpen, SendResult
<1> DEFINE e == Line("RESULT", j, Us)
<1>5. e \in Lines /\ Grown(e)
  BY <1>1, <1>2, PostGrows
<1>6. e.kind = "RESULT" /\ e.id = j
  BY DEF Line
<1> HIDE DEF e
<1>7. LineOk(e)
  BY <1>4, <1>6 DEF LineOk
<1>8. JobsComeFirst' /\ ResultsAreDue'
  BY <1>2, <1>4, <1>5, <1>6, <1>7, JobsStayFirst, ResultsStayDue
<1>9. TodoIsOpen'
  BY <1>2, <1>3, <1>5, <1>6, TodoStaysOpen
<1>10. /\ kbSt' \in KbStates /\ kbFile' \in KbStates
       /\ kbSt'.claims \subseteq kbSt.claims /\ kbFile'.claims \subseteq kbSt.claims \cup kbFile.claims
  <2>1. CASE ok
    <3>1. kbFile' = kbSt' /\ kbSt' = [kbSt EXCEPT !.answered = @ \cup {j}]
      BY <1>1, <2>1
    <3>2. kbSt \in KbStates
      BY <1>2 DEF KbTypeOK
    <3>3. kbSt' \in KbStates
      BY <3>1, <3>2 DEF KbStates
    <3>4. kbSt'.claims = kbSt.claims
      BY <3>1, <3>2 DEF KbStates
    <3> QED
      BY <3>1, <3>3, <3>4
  <2>2. CASE ~ok
    BY <1>1, <1>2, <2>2 DEF KbTypeOK
  <2> QED
    BY <2>1, <2>2
<1>11. ClaimsStand'
  BY <1>2, <1>5, <1>10, ClaimsStayTrue
<1>12. KbTypeOK'
  BY <1>2, <1>3, <1>5, <1>10, BoardKeeps DEF KbTypeOK
<1> QED
  BY <1>8, <1>9, <1>11, <1>12 DEF KibbleInv

LEMMA AttestKeepsInv ==
  ASSUME KibbleInv, NEW j \in Jobs, Attest(j)
  PROVE  KibbleInv'
<1>1. PICK ok \in BOOLEAN :
        /\ post("ATTEST", j, ok)
        /\ IF ok
           THEN /\ kbSt' = [kbSt EXCEPT !.attests = @ \cup {j}, !.pairs = @ + 1, !.attest_count = @ + 1]
                /\ kbFile' = kbSt'
           ELSE UNCHANGED <<kbSt, kbFile>>
  BY DEF Attest
<1>2. KbTypeOK /\ JobsComeFirst /\ ClaimsStand /\ TodoIsOpen /\ ResultsAreDue
  BY DEF KibbleInv
<1>3. /\ kbPc = "answer" /\ kbPc' = kbPc /\ kbFresh' = kbFresh /\ kbView' \subseteq kbView
      /\ kbTodo = {} /\ kbTodo' = {}
  BY DEF Attest
<1>4. HasResult(j) /\ Named(j)
  <2>1. PICK k \in kbView : kbRoom[k].kind \in ResultKinds /\ kbRoom[k].id = j
    BY DEF Attest, Attestable
  <2>2. k \in DOMAIN kbRoom
    BY <1>2 DEF KbTypeOK
  <2>3. kbRoom[k].kind = "RESULT"
    BY <1>2, <2>1, <2>2, BoardLine DEF ResultKinds
  <2> QED
    BY <2>1, <2>2, <2>3 DEF HasResult, Named, Is
<1> DEFINE e == Line("ATTEST", j, Us)
<1>5. e \in Lines /\ Grown(e)
  BY <1>1, <1>2, PostGrows
<1>6. e.kind = "ATTEST" /\ e.id = j
  BY DEF Line
<1> HIDE DEF e
<1>7. LineOk(e)
  BY <1>4, <1>6 DEF LineOk
<1>8. JobsComeFirst' /\ ResultsAreDue' /\ TodoIsOpen'
  BY <1>2, <1>3, <1>5, <1>6, <1>7, JobsStayFirst, ResultsStayDue, TodoStaysOpen
<1>9. /\ kbSt' \in KbStates /\ kbFile' \in KbStates
      /\ kbSt'.claims \subseteq kbSt.claims /\ kbFile'.claims \subseteq kbSt.claims \cup kbFile.claims
  <2>1. CASE ok
    <3>1. /\ kbFile' = kbSt'
          /\ kbSt' = [kbSt EXCEPT !.attests = @ \cup {j}, !.pairs = @ + 1, !.attest_count = @ + 1]
      BY <1>1, <2>1
    <3>2. kbSt \in KbStates
      BY <1>2 DEF KbTypeOK
    <3>3. PICK a, p, n : a = kbSt.attests \cup {j} /\ p = kbSt.pairs + 1 /\ n = kbSt.attest_count + 1
      OBVIOUS
    <3>4. p \in Nat /\ n \in Nat
      BY <3>2, <3>3 DEF KbStates
    <3>5. a \in SUBSET Jobs
      BY <3>2, <3>3 DEF KbStates
    <3>6. kbSt' = [kbSt EXCEPT !.attests = a, !.pairs = p, !.attest_count = n]
      BY <3>1, <3>3
    <3>7. kbSt' \in KbStates /\ kbSt'.claims = kbSt.claims
      BY <3>2, <3>4, <3>5, <3>6 DEF KbStates
    <3> QED
      BY <3>1, <3>7
  <2>2. CASE ~ok
    BY <1>1, <1>2, <2>2 DEF KbTypeOK
  <2> QED
    BY <2>1, <2>2
<1>10. ClaimsStand'
  BY <1>2, <1>5, <1>9, ClaimsStayTrue
<1>11. KbTypeOK'
  BY <1>2, <1>3, <1>5, <1>9, BoardKeeps DEF KbTypeOK
<1> QED
  BY <1>8, <1>10, <1>11 DEF KibbleInv

\* A step that posts nothing.
LEMMA QuietKeepsInv ==
  ASSUME KibbleInv, kbRoom' = kbRoom, kbSt' \in KbStates, kbFile' \in KbStates,
         kbSt'.claims \cup kbFile'.claims \subseteq kbSt.claims \cup kbFile.claims,
         kbPc' \in {"poll", "franchise", "claim", "answer"},
         kbFresh' \subseteq DOMAIN kbRoom, kbView' \subseteq DOMAIN kbRoom,
         kbTodo' \subseteq Jobs, TodoIsOpen'
  PROVE  KibbleInv'
<1>1. KbTypeOK'
  BY DEF KibbleInv, KbTypeOK
<1>2. JobsComeFirst'
  BY DEF KibbleInv, JobsComeFirst, HasResult, Is
<1>3. ClaimsStand'
  BY DEF KibbleInv, ClaimsStand, HasResult, Is
<1>4. ResultsAreDue'
  BY DEF KibbleInv, ResultsAreDue, ResultNeedsFirstClaim, OneResultPerJob, Ours, first_claimer, ClaimsOf, Is
<1> QED
  BY <1>1, <1>2, <1>3, <1>4 DEF KibbleInv

LEMMA QuietTodo ==
  ASSUME KibbleInv, kbRoom' = kbRoom, kbView' = kbView, kbPc' = kbPc, kbTodo' \subseteq kbTodo
  PROVE  TodoIsOpen'
BY DEF KibbleInv, TodoIsOpen, Named, Ours, Line, first_claimer, ClaimsOf, Is

LEMMA RoundKeepsInv ==
  ASSUME KibbleInv,
         Poll \/ FranchiseOver \/ ReadWindow \/ ReadFails \/ KbEndRound \/ KbRestart
  PROVE  KibbleInv'
<1>1. KbTypeOK /\ TodoIsOpen
  BY DEF KibbleInv
<1>2. kbSt \in KbStates /\ kbFile \in KbStates
  BY <1>1 DEF KbTypeOK
<1>3. \A cursor : LinesAfter(cursor) \subseteq DOMAIN kbRoom
  BY DEF LinesAfter
<1>4. CASE Poll
  <2>1. /\ kbRoom' = kbRoom /\ kbFile' = kbFile /\ kbView' = kbView /\ kbPc' = "franchise"
        /\ kbFresh' = LinesAfter(kbSt.cursor) /\ kbTodo' = FranchiseDue(kbSt)
    BY <1>4 DEF Poll
  <2>2. kbSt' \in KbStates /\ kbSt'.claims = kbSt.claims
    <3>1. PICK hour \in BOOLEAN :
            kbSt' = [kbSt EXCEPT !.cursor = Len(kbRoom),
                        !.count = IF hour THEN 0 ELSE @, !.attest_count = IF hour THEN 0 ELSE @]
      BY <1>4 DEF Poll
    <3>2. Len(kbRoom) \in Nat
      BY <1>1, LenProperties DEF KbTypeOK
    <3> QED
      BY <1>2, <3>1, <3>2 DEF KbStates
  <2>3. kbTodo' \subseteq FranchiseJobs \cap kbSt.claims
    BY <2>1 DEF FranchiseDue
  <2>4. \A j \in kbTodo' : Named(j)
    BY <2>3, ClaimedIsNamed
  <2>5. TodoIsOpen'
    BY <2>1, <2>3, <2>4 DEF TodoIsOpen, Named
  <2>6. kbTodo' \subseteq Jobs
    BY <2>3, KibbleAssumption
  <2> QED
    BY <1>1, <1>2, <1>3, <2>1, <2>2, <2>5, <2>6, QuietKeepsInv DEF KbTypeOK
<1>5. CASE FranchiseOver
  <2>1. /\ kbRoom' = kbRoom /\ kbSt' = kbSt /\ kbFile' = kbFile /\ kbFresh' = kbFresh
        /\ kbView' = kbView /\ kbTodo' = {} /\ kbPc' = "claim"
    BY <1>5 DEF FranchiseOver
  <2>2. TodoIsOpen'
    BY <2>1 DEF TodoIsOpen
  <2> QED
    BY <1>1, <1>2, <2>1, <2>2, QuietKeepsInv DEF KbTypeOK
<1>6. CASE ReadWindow
  <2>1. /\ kbRoom' = kbRoom /\ kbSt' = kbSt /\ kbFile' = kbFile /\ kbFresh' = {}
        /\ kbView' = fetch /\ kbTodo' = wanted(fetch) /\ kbPc' = "answer"
    BY <1>6 DEF ReadWindow
  <2>2. fetch \subseteq DOMAIN kbRoom
    BY <1>3 DEF fetch
  <2>3. kbTodo' \subseteq Jobs
    BY <1>2, <2>1 DEF wanted, KbStates
  <2>4. ASSUME NEW j \in kbTodo'
        PROVE  /\ Named(j)' /\ Ours("RESULT", j)' = {}
               /\ first_claimer(kbView, j)' \subseteq {Us} => first_claimer(DOMAIN kbRoom, j)' = {Us}
    <3>1. /\ Named(j) /\ Ours("RESULT", j) = {}
          /\ first_claimer(fetch, j) \subseteq {Us} => first_claimer(DOMAIN kbRoom, j) = {Us}
      BY <2>1, WantedIsOpen
    <3>2. first_claimer(kbView, j)' = first_claimer(fetch, j)
      BY <2>1 DEF first_claimer, ClaimsOf, Is
    <3>3. first_claimer(DOMAIN kbRoom, j)' = first_claimer(DOMAIN kbRoom, j)
      BY <2>1 DEF first_claimer, ClaimsOf, Is
    <3>4. Named(j)' = Named(j) /\ Ours("RESULT", j)' = Ours("RESULT", j)
      BY <2>1 DEF Named, Ours, Line
    <3> QED
      BY <3>1, <3>2, <3>3, <3>4
  <2>5. TodoIsOpen'
    BY <2>1, <2>4 DEF TodoIsOpen
  <2> QED
    BY <1>1, <1>2, <2>1, <2>2, <2>3, <2>5, QuietKeepsInv
<1>7. CASE ReadFails
  <2>1. /\ kbRoom' = kbRoom /\ kbSt' = kbSt /\ kbFile' = kbSt /\ kbFresh' = {}
        /\ kbView' = kbView /\ kbTodo' = {} /\ kbPc' = "poll"
    BY <1>1, <1>7 DEF ReadFails, TodoIsOpen
  <2>2. TodoIsOpen'
    BY <2>1 DEF TodoIsOpen
  <2> QED
    BY <1>1, <1>2, <2>1, <2>2, QuietKeepsInv DEF KbTypeOK
<1>8. CASE KbEndRound
  <2>1. /\ kbRoom' = kbRoom /\ kbSt' = kbSt /\ kbFile' = kbSt /\ kbFresh' = kbFresh
        /\ kbView' = {} /\ kbTodo' = {} /\ kbPc' = "poll"
    BY <1>8 DEF KbEndRound
  <2>2. TodoIsOpen'
    BY <2>1 DEF TodoIsOpen
  <2> QED
    BY <1>1, <1>2, <2>1, <2>2, QuietKeepsInv DEF KbTypeOK
<1>9. CASE KbRestart
  <2>1. /\ kbRoom' = kbRoom /\ kbSt' = kbFile /\ kbFile' = kbFile /\ kbFresh' = {}
        /\ kbView' = {} /\ kbTodo' = {} /\ kbPc' = "poll"
    BY <1>9 DEF KbRestart
  <2>2. TodoIsOpen'
    BY <2>1 DEF TodoIsOpen
  <2> QED
    BY <1>1, <1>2, <2>1, <2>2, QuietKeepsInv DEF KbTypeOK
<1> QED
  BY <1>4, <1>5, <1>6, <1>7, <1>8, <1>9

LEMMA GivenUpKeepsInv ==
  ASSUME KibbleInv, NEW j \in Jobs, LostRace(j) \/ NoAnswer(j)
  PROVE  KibbleInv'
<1>1. /\ kbRoom' = kbRoom /\ kbFile' = kbFile /\ kbPc' = kbPc /\ kbFresh' = kbFresh
      /\ kbView' = kbView /\ kbTodo' = kbTodo \ {j}
  BY DEF LostRace, NoAnswer
<1>2. KbTypeOK
  BY DEF KibbleInv
<1>3. kbSt' \in KbStates /\ kbSt'.claims = kbSt.claims
  <2>1. CASE kbSt' = kbSt
    BY <1>2, <2>1 DEF KbTypeOK
  <2>2. CASE kbSt' = [kbSt EXCEPT !.answered = @ \cup {j}, !.titles = @ \ {j}]
    BY <1>2, <2>2 DEF KbTypeOK, KbStates
  <2> QED
    BY <2>1, <2>2 DEF LostRace, NoAnswer
<1>4. TodoIsOpen'
  BY <1>1, QuietTodo
<1> QED
  BY <1>1, <1>2, <1>3, <1>4, QuietKeepsInv DEF KbTypeOK

\* The inductive invariant of the board worker: every line of a job follows
\* its JOB line, what the state says was claimed stands on the board unless
\* the job has a result, and for the jobs still to answer nothing was sent.
THEOREM KibbleInvariant == KbSpec => []KibbleInv
<1>1. ASSUME KibbleInv, [KbNext]_kbVars
      PROVE  KibbleInv'
  <2>1. ASSUME NEW j \in Jobs,
               \/ PostJob(j) \/ FranchiseResult(j) \/ Attest(j)
               \/ LostRace(j) \/ NoAnswer(j) \/ SendResult(j)
               \/ \E k \in {"CLAIM", "RESULT"} : RivalPosts(k, j)
        PROVE  KibbleInv'
    BY <1>1, <2>1, PostJobKeepsInv, FranchiseKeepsInv, AttestKeepsInv, GivenUpKeepsInv,
       ResultKeepsInv, RivalKeepsInv
  <2>2. ASSUME NEW k \in kbFresh, ClaimJob(k)
        PROVE  KibbleInv'
    BY <1>1, <2>2, ClaimKeepsInv
  <2>3. CASE Poll \/ FranchiseOver \/ ReadWindow \/ ReadFails \/ KbEndRound \/ KbRestart
    BY <1>1, <2>3, RoundKeepsInv
  <2>4. CASE UNCHANGED kbVars
    <3>1. /\ kbRoom' = kbRoom /\ kbSt' = kbSt /\ kbFile' = kbFile /\ kbPc' = kbPc
          /\ kbFresh' = kbFresh /\ kbView' = kbView /\ kbTodo' = kbTodo
      BY <2>4 DEF kbVars
    <3>2. TodoIsOpen'
      BY <1>1, <3>1, QuietTodo
    <3> QED
      BY <1>1, <3>1, <3>2, QuietKeepsInv DEF KibbleInv, KbTypeOK
  <2> QED
    BY <1>1, <2>1, <2>2, <2>3, <2>4 DEF KbNext
<1> QED
  BY <1>1, BoardBegins, PTL DEF KbSpec

\* A RESULT of ours is only ever on the board for a job whose first claim is
\* ours, and once: whatever part of the board the reads showed, whichever
\* posts were lost or reported wrongly, and whenever the process restarted.
THEOREM ResultsStandFirst == KbSpec => []ResultsAreDue
<1>1. KibbleInv => ResultsAreDue
  BY DEF KibbleInv
<1> QED
  BY <1>1, KibbleInvariant, PTL

-----------------------------------------------------------------------------
(* The prediction-market trader.  What it filled is counted in its copy of *)
(* the state, or belongs to a cycle that lost count of it (FillsInv); until *)
(* the save its baselines are those of the file, first ones, those of an   *)
(* error page, or hits (NewsInv).                                          *)

LEMMA NewsBegins == TrInit => NewsInv
BY DEF TrInit, NewsInv, NewsIsNotSwallowed, IsBaseline, Versions, NONE, BROKEN

\* The comparison of a cycle: what is no hit keeps its baseline or gets its first.
LEMMA CycleKeepsNews == NewsInv /\ StartCycle => NewsInv'
<1> SUFFICES ASSUME NewsInv, StartCycle
             PROVE  NewsInv'
  OBVIOUS
<1>1. PICK day \in {trDay, trDay + 1}, broke \in BOOLEAN, px \in [Ids -> Prices],
           answered \in SUBSET Surfaces, broken \in SUBSET Surfaces :
          LET st == Rollover(trFile, day)
              hits == Changed(st, answered, broken)
              seen == Watched(st, answered, broken)
              spent == IF broke THEN DAILY_BUDGET ELSE st.filled
          IN  /\ trSt' = [seen EXCEPT !.filled = spent]
              /\ trHits' = hits
              /\ trFirst' = [s \in Surfaces |-> IF st.base[s] = NONE THEN seen.base[s] ELSE trFirst[s]]
  BY DEF StartCycle
<1> DEFINE st == Rollover(trFile, day)
           seen == Watched(st, answered, broken)
           spent == IF broke THEN DAILY_BUDGET ELSE st.filled
<1>2. st.base = trFile.base /\ DOMAIN st = {"day", "filled", "base"}
  BY DEF Rollover, NewsInv, IsBaseline
<1> HIDE DEF st
<1>3. /\ seen.base = [s \in Surfaces |-> IF s \notin answered THEN st.base[s]
                                        ELSE IF s \in broken THEN BROKEN ELSE trVersion[s]]
      /\ DOMAIN seen = {"day", "filled", "base"}
  BY <1>2 DEF Watched
<1>4. seen.base \in [Surfaces -> Versions]
  BY <1>2, <1>3 DEF NewsInv, IsBaseline, Versions
<1>5. /\ trSt' = [seen EXCEPT !.filled = spent]
      /\ trHits' = Changed(st, answered, broken)
      /\ trFirst' = [s \in Surfaces |-> IF st.base[s] = NONE THEN seen.base[s] ELSE trFirst[s]]
  BY <1>1 DEF st
<1> HIDE DEF seen, spent
<1>6. trSt'.base = seen.base /\ DOMAIN trSt' = {"day", "filled", "base"}
  BY <1>3, <1>5
<1>7. IsBaseline(trSt') /\ trFirst' \in [Surfaces -> Versions]
  BY <1>4, <1>5, <1>6 DEF NewsInv, IsBaseline
<1>8. trFile' = trFile /\ trVersion' = trVersion /\ trLogged' = trLogged /\ trPc' = "posting"
  BY DEF StartCycle
<1>9. NewsIsNotSwallowed'
  <2>1. ASSUME NEW s \in Surfaces, trFile.base[s] # trFirst'[s]
        PROVE  trLogged[s] >= trFile.base[s]
    <3>1. CASE trFile.base[s] = NONE
      <4>1. trLogged[s] \in Nat \/ trLogged[s] = NONE
        BY DEF NewsInv
      <4> QED
        BY <3>1, <4>1 DEF NONE
    <3>2. CASE trFile.base[s] # NONE
      BY <1>2, <1>5, <2>1, <3>2 DEF NewsInv, NewsIsNotSwallowed
    <3> QED
      BY <3>1, <3>2
  <2> QED
    BY <1>8, <2>1 DEF NewsIsNotSwallowed
<1>10. ASSUME NEW s \in Surfaces \ trHits'
       PROVE  trSt'.base[s] \in {trFile.base[s], trFirst'[s], BROKEN}
  <2>1. CASE trFile.base[s] = NONE
    BY <1>2, <1>5, <1>6, <2>1
  <2>2. CASE trFile.base[s] # NONE
    <3>1. s \in answered \ broken => st.base[s] = trVersion[s]
      BY <1>2, <1>5, <1>10, <2>2 DEF Changed
    <3> QED
      BY <1>2, <1>3, <1>6, <3>1
  <2> QED
    BY <2>1, <2>2
<1>11. ASSUME NEW s \in Surfaces
       PROVE  /\ trSt'.base[s] <= trVersion[s] /\ trVersion[s] \in Nat
              /\ s \in answered \ broken => trSt'.base[s] = trVersion[s]
  <2>1. trVersion[s] \in Nat /\ trFile.base[s] <= trVersion[s] /\ BROKEN <= trVersion[s]
    BY DEF NewsInv, BROKEN
  <2> QED
    BY <1>2, <1>3, <1>6, <2>1
<1>12. trHits' \subseteq Surfaces /\ \A s \in trHits' : trFile.base[s] <= trSt'.base[s] /\ trSt'.base[s] \in Nat
  <2>1. trHits' \subseteq answered \ broken /\ answered \subseteq Surfaces
    BY <1>5 DEF Changed
  <2>2. \A s \in Surfaces : trFile.base[s] <= trVersion[s]
    BY DEF NewsInv
  <2> QED
    BY <1>11, <2>1, <2>2
<1>13. \A s \in Surfaces : trFile.base[s] <= trVersion[s]
  BY DEF NewsInv
<1> QED
  BY <1>7, <1>8, <1>9, <1>10, <1>11, <1>12, <1>13 DEF NewsInv

\* An order leaves the baselines of the copy alone.
LEMMA PlacedKeepsBaseline ==
  ASSUME NEW shares, NEW p, NEW fill, Place(shares, p, fill), IsBaseline(trSt)
  PROVE  trSt'.base = trSt.base /\ trSt'.day = trSt.day /\ DOMAIN trSt' = {"day", "filled", "base"}
<1>1. CASE trSt' = trSt
  BY <1>1 DEF IsBaseline
<1>2. CASE trSt' = [trSt EXCEPT !.filled = @ + shares * Limit(p)]
  BY <1>2 DEF IsBaseline
<1> QED
  BY <1>1, <1>2 DEF Place

LEMMA NewsStep == NewsInv /\ [TrNext]_trVars => NewsInv'
<1> SUFFICES ASSUME NewsInv, [TrNext]_trVars
             PROVE  NewsInv'
  OBVIOUS
<1>1. ASSUME NEW s \in Surfaces, Publish(s)
      PROVE  NewsInv'
  <2>1. trVersion' \in [Surfaces -> Nat]
    BY <1>1 DEF Publish, NewsInv
  <2>2. /\ trFile' = trFile /\ trSt' = trSt /\ trHits' = trHits /\ trPc' = trPc
        /\ trLogged' = trLogged /\ trFirst' = trFirst
    BY <1>1 DEF Publish
  <2>3. ASSUME NEW x \in Surfaces
        PROVE  trFile.base[x] <= trVersion'[x] /\ trSt.base[x] <= trVersion'[x]
    <3>1. trVersion[x] \in Nat /\ trFile.base[x] <= trVersion[x] /\ trSt.base[x] <= trVersion[x]
      BY DEF NewsInv
    <3>2. trFile.base[x] \in Int /\ trSt.base[x] \in Int
      BY DEF NewsInv, IsBaseline, Versions, NONE, BROKEN
    <3>3. trVersion'[x] = trVersion[x] \/ trVersion'[x] = trVersion[x] + 1
      BY <1>1 DEF Publish, NewsInv
    <3> QED
      BY <3>1, <3>2, <3>3
  <2> QED
    BY <2>1, <2>2, <2>3 DEF NewsInv, NewsIsNotSwallowed
<1>2. CASE StartCycle
  BY <1>2, CycleKeepsNews
<1>3. CASE PlaceEdge \/ PlaceFill
  <2>1. trSt'.base = trSt.base /\ DOMAIN trSt' = {"day", "filled", "base"}
    BY <1>3, PlacedKeepsBaseline DEF PlaceEdge, PlaceFill, NewsInv, IsBaseline
  <2>2. IsBaseline(trSt')
    BY <2>1 DEF NewsInv, IsBaseline
  <2>3. /\ trFile' = trFile /\ trHits' = trHits /\ trPc' = trPc /\ trVersion' = trVersion
        /\ trLogged' = trLogged /\ trFirst' = trFirst
    BY <1>3 DEF PlaceEdge, PlaceFill
  <2> QED
    BY <2>1, <2>2, <2>3 DEF NewsInv, NewsIsNotSwallowed
<1>4. CASE ReportNews
  <2>1. /\ trFile' = trFile /\ trSt' = trSt /\ trHits' = trHits /\ trPc' = "save" /\ trPc = "posting"
        /\ trVersion' = trVersion /\ trFirst' = trFirst
        /\ trLogged' = [s \in Surfaces |-> IF s \in trHits THEN trSt.base[s] ELSE trLogged[s]]
    BY <1>4 DEF ReportNews
  <2>2. trLogged' \in [Surfaces -> Nat \cup {NONE}]
    BY <2>1 DEF NewsInv
  <2>3. ASSUME NEW s \in Surfaces, trFile.base[s] # trFirst[s]
        PROVE  trLogged'[s] >= trFile.base[s]
    <3>1. trFile.base[s] \in Int /\ trSt.base[s] \in Int
      BY DEF NewsInv, IsBaseline, Versions, NONE, BROKEN
    <3>2. CASE s \in trHits
      <4>1. trLogged'[s] = trSt.base[s] /\ trFile.base[s] <= trSt.base[s]
        BY <2>1, <3>2 DEF NewsInv
      <4> QED
        BY <3>1, <4>1
    <3>3. CASE s \notin trHits
      BY <2>1, <2>3, <3>3 DEF NewsInv, NewsIsNotSwallowed
    <3> QED
      BY <3>2, <3>3
  <2>4. \A s \in trHits : trLogged'[s] = trSt.base[s]
    BY <2>1 DEF NewsInv
  <2> QED
    BY <2>1, <2>2, <2>3, <2>4 DEF NewsInv, NewsIsNotSwallowed
<1>5. CASE SaveState
  <2>1. /\ trFile' = trSt /\ trSt' = trSt /\ trPc' = "idle" /\ trPc = "save"
        /\ trVersion' = trVersion /\ trFirst' = trFirst /\ trLogged' = trLogged
    BY <1>5 DEF SaveState
  <2>2. ASSUME NEW s \in Surfaces, trSt.base[s] # trFirst[s]
        PROVE  trLogged[s] >= trSt.base[s]
    <3>1. CASE s \in trHits
      <4>1. trLogged[s] = trSt.base[s] /\ trLogged[s] \in Int
        BY <2>1, <3>1 DEF NewsInv, Versions, NONE
      <4> QED
        BY <4>1
    <3>2. CASE s \notin trHits
      <4>1. trSt.base[s] = BROKEN \/ trSt.base[s] = trFile.base[s]
        BY <2>1, <2>2, <3>2 DEF NewsInv
      <4>2. trLogged[s] \in Nat \/ trLogged[s] = NONE
        BY DEF NewsInv
      <4>3. trSt.base[s] = BROKEN => trLogged[s] >= trSt.base[s]
        BY <4>2 DEF NONE, BROKEN
      <4> QED
        BY <2>1, <2>2, <4>1, <4>3 DEF NewsInv, NewsIsNotSwallowed
    <3> QED
      BY <3>1, <3>2
  <2> QED
    BY <2>1, <2>2 DEF NewsInv, NewsIsNotSwallowed
<1>6. CASE CycleFails
  BY <1>6 DEF CycleFails, NewsInv, NewsIsNotSwallowed
<1>7. CASE UNCHANGED trVars
  <2>1. /\ trFile' = trFile /\ trSt' = trSt /\ trHits' = trHits /\ trPc' = trPc /\ trVersion' = trVersion
        /\ trLogged' = trLogged /\ trFirst' = trFirst
    BY <1>7 DEF trVars
  <2> QED
    BY <2>1 DEF NewsInv, NewsIsNotSwallowed
<1> QED
  BY <1>1, <1>2, <1>3, <1>4, <1>5, <1>6, <1>7 DEF TrNext

\* What a fill costs: a natural number within what is left of the budget.
LEMMA FillCost ==
  ASSUME FillsInv, NEW m \in Ids, IsFilled(m)
  PROVE  /\ FillPrice(m) \in 0 .. 930 /\ FillShares(m) \in Nat
         /\ FillShares(m) * FillPrice(m) \in Nat /\ FillShares(m) * FillPrice(m) <= trLeft
<1>1. PICK p, size, left : p = FillPrice(m) /\ size = FillShares(m) /\ left = trLeft
  OBVIOUS
<1>2. left \in Nat /\ left > 20000 /\ p <= 930
  BY <1>1 DEF IsFilled, FillsInv
<1>3. p \in 0 .. 930
  BY <1>1, <1>2 DEF FillPrice, price_of, FillsInv
<1> DEFINE d == 4 * HigherOf(p, 20)
           q == left \div d
<1>4. d \in Nat /\ d >= 80 /\ d >= p
  BY <1>3 DEF HigherOf
<1>5. size = LowerOf(ORDER_SHARES, HigherOf(20, q))
  BY <1>1 DEF FillShares
<1> HIDE DEF d
<1>6. q \in Nat /\ q * d <= left
  BY <1>2, <1>4
<1> HIDE DEF q
<1>7. size \in Nat /\ (size <= 20 \/ size <= q)
  BY <1>5, <1>6, TraderAssumption DEF LowerOf, HigherOf
<1>8. size * p \in Nat
  BY <1>3, <1>7
<1>9. size * p <= left
  <2>1. CASE size <= 20
    <3>1. size * p <= 20 * p
      BY <1>3, <1>7, <2>1
    <3> QED
      BY <1>2, <1>3, <1>8, <3>1
  <2>2. CASE size <= q
    <3>1. size * p <= q * p
      BY <1>3, <1>6, <1>7, <2>2
    <3>2. q * p <= q * d
      BY <1>3, <1>4, <1>6
    <3> QED
      BY <1>2, <1>3, <1>4, <1>6, <1>8, <3>1, <3>2
  <2> QED
    BY <1>7, <2>1, <2>2
<1> QED
  BY <1>1, <1>3, <1>7, <1>8, <1>9

\* An order counts at its limit price, which is not below the quoted one.
LEMMA LimitCovers ==
  ASSUME NEW p \in 0 .. 1000
  PROVE  Limit(p) \in Nat /\ (p <= 930 => p <= Limit(p))
BY DEF Limit, LowerOf

\* What Place does with an order at that limit and a fill at that cost.
Counts(limit, fill) ==
  \/ /\ trSt' = [trSt EXCEPT !.filled = @ + limit] /\ trFilled' = trFilled + fill
     /\ trLost' = trLost /\ trSlipped' = trSlipped
  \/ /\ trSt' = trSt /\ trFilled' = trFilled
     /\ trLost' = trLost /\ trSlipped' = trSlipped
  \/ /\ fill > 0 /\ trSt' = trSt /\ trFilled' = trFilled + fill
     /\ Slip /\ trSlipped' = TRUE

\* An order placed as Place does it is counted as Counts says.
LEMMA PlaceCounts ==
  ASSUME NEW shares, NEW p, NEW fill, Place(shares, p, fill)
  PROVE  Counts(shares * Limit(p), fill)
BY DEF Place, Counts, trCount

\* A budget more for a cycle that lost count.
LEMMA BudgetGrows ==
  ASSUME FillsInv
  PROVE  /\ DAILY_BUDGET \in Nat /\ DAILY_BUDGET * trLost \in Nat
         /\ DAILY_BUDGET * (trLost + 1) = DAILY_BUDGET * trLost + DAILY_BUDGET
<1>1. PICK l : l = trLost
  OBVIOUS
<1>2. l \in Nat /\ DAILY_BUDGET \in Nat
  BY <1>1, TraderAssumption DEF FillsInv
<1>3. DAILY_BUDGET * l \in Nat /\ DAILY_BUDGET * (l + 1) = DAILY_BUDGET * l + DAILY_BUDGET
  BY <1>2
<1> QED
  BY <1>1, <1>2, <1>3

\* What a step within a cycle has to show: an order that lands is taken off
\* what was left, and counted unless its cycle has lost count.
LEMMA BudgetFollows ==
  ASSUME FillsInv, NewsInv, NEW limit \in Nat, NEW fill \in Nat, Counts(limit, fill), fill <= limit,
         fill <= trLeft \/ fill = 0, trLeft' = trLeft - fill,
         trPc = "posting", trPc' = "posting",
         trFile' = trFile, trDay' = trDay, trPx' = trPx
  PROVE  FillsInv'
<1>1. PICK b, lost, t, f, l : /\ b = DAILY_BUDGET * trLost /\ lost = DAILY_BUDGET * (trLost + 1)
                              /\ t = trFilled /\ f = trSt.filled /\ l = trLeft
  OBVIOUS
<1>2. b \in Nat /\ lost \in Nat /\ lost = b + DAILY_BUDGET /\ DAILY_BUDGET \in Nat
  BY <1>1, BudgetGrows
<1>3. t \in Nat /\ f \in Nat /\ l \in Int /\ trLost \in Nat /\ trSlipped \in BOOLEAN /\ trSt.day = trDay
  BY <1>1 DEF FillsInv
<1>4. DAILY_BUDGET * Budgets = IF trSlipped THEN b ELSE lost
  BY <1>1 DEF Budgets
<1>5. Counted(trSt) = f
  BY <1>1, <1>3 DEF Counted
<1>6. /\ t <= IF trSlipped THEN b ELSE lost
      /\ t <= b + f
      /\ l > 0 => t + l <= IF trSlipped THEN b ELSE lost
  BY <1>1, <1>4, <1>5 DEF FillsInv
<1>7. trLeft' \in Int /\ trLeft' = l - fill
  BY <1>1, <1>3
<1>8. trFile'.filled \in Nat /\ trPx' \in [Ids -> 0 .. 1000]
  BY DEF FillsInv
<1>9. CASE /\ trSt' = [trSt EXCEPT !.filled = @ + limit] /\ trFilled' = trFilled + fill
           /\ trLost' = trLost /\ trSlipped' = trSlipped
  <2>1. trSt'.filled = f + limit /\ trSt'.day = trDay
    BY <1>1, <1>3, <1>9 DEF NewsInv, IsBaseline
  <2>2. Budgets' = Budgets /\ Counted(trSt)' = f + limit
    BY <1>9, <2>1 DEF Budgets, Counted
  <2>3. DAILY_BUDGET * Budgets' = (IF trSlipped THEN b ELSE lost) /\ DAILY_BUDGET * trLost' = b
    BY <1>1, <1>4, <1>9, <2>2
  <2>4. trFilled' = t + fill
    BY <1>1, <1>9
  <2>5. /\ t + fill <= IF trSlipped THEN b ELSE lost
        /\ t + fill <= b + (f + limit)
        /\ l - fill > 0 => (t + fill) + (l - fill) <= IF trSlipped THEN b ELSE lost
    BY <1>1, <1>2, <1>3, <1>6
  <2>6. /\ trFilled' <= DAILY_BUDGET * Budgets'
        /\ trFilled' <= DAILY_BUDGET * trLost' + Counted(trSt)'
        /\ trLeft' > 0 => trFilled' + trLeft' <= DAILY_BUDGET * Budgets'
    BY <1>7, <2>2, <2>3, <2>4, <2>5
  <2>7. trSt'.filled \in Nat /\ trFilled' \in Nat
    BY <1>3, <2>1, <2>4
  <2> QED
    BY <1>3, <1>7, <1>8, <1>9, <2>1, <2>6, <2>7 DEF FillsInv
<1>10. CASE /\ trSt' = trSt /\ trFilled' = trFilled
            /\ trLost' = trLost /\ trSlipped' = trSlipped
  <2>1. Budgets' = Budgets /\ Counted(trSt)' = f
    BY <1>5, <1>10 DEF Budgets, Counted
  <2>2. DAILY_BUDGET * Budgets' = (IF trSlipped THEN b ELSE lost) /\ DAILY_BUDGET * trLost' = b
    BY <1>1, <1>4, <1>10, <2>1
  <2>3. l - fill > 0 => t + (l - fill) <= IF trSlipped THEN b ELSE lost
    BY <1>2, <1>3, <1>6
  <2>4. /\ trFilled' <= DAILY_BUDGET * Budgets'
        /\ trFilled' <= DAILY_BUDGET * trLost' + Counted(trSt)'
        /\ trLeft' > 0 => trFilled' + trLeft' <= DAILY_BUDGET * Budgets'
    BY <1>1, <1>6, <1>7, <1>10, <2>1, <2>2, <2>3
  <2>5. trSt'.filled \in Nat /\ trFilled' \in Nat
    BY <1>1, <1>3, <1>10
  <2> QED
    BY <1>3, <1>7, <1>8, <1>10, <2>4, <2>5 DEF FillsInv
<1>11. CASE /\ fill > 0 /\ trSt' = trSt /\ trFilled' = trFilled + fill
            /\ Slip /\ trSlipped' = TRUE
  <2>1. trLost' = (IF trSlipped THEN trLost ELSE trLost + 1) /\ Budgets' = trLost'
    BY <1>11 DEF Slip, Budgets
  <2>2. DAILY_BUDGET * trLost' = IF trSlipped THEN b ELSE lost
    BY <1>1, <2>1
  <2>3. Counted(trSt)' = f /\ trFilled' = t + fill
    BY <1>1, <1>5, <1>11 DEF Counted
  <2>4. /\ t + fill <= IF trSlipped THEN b ELSE lost
        /\ t + fill <= (IF trSlipped THEN b ELSE lost) + f
        /\ l - fill > 0 => (t + fill) + (l - fill) <= IF trSlipped THEN b ELSE lost
    BY <1>1, <1>2, <1>3, <1>6, <1>11
  <2>5. /\ trFilled' <= DAILY_BUDGET * Budgets'
        /\ trFilled' <= DAILY_BUDGET * trLost' + Counted(trSt)'
        /\ trLeft' > 0 => trFilled' + trLeft' <= DAILY_BUDGET * Budgets'
    BY <1>7, <2>1, <2>2, <2>3, <2>4
  <2>6. trLost' \in Nat /\ trSt'.filled \in Nat /\ trFilled' \in Nat
    BY <1>1, <1>3, <1>11, <2>1, <2>3
  <2> QED
    BY <1>3, <1>7, <1>8, <1>11, <2>5, <2>6 DEF FillsInv
<1> QED
  BY <1>9, <1>10, <1>11 DEF Counts

\* An edge order is priced at a quoted price of one of the two markets.
LEMMA EdgeIsPriced ==
  ASSUME FillsInv, trAt \in DOMAIN Nested
  PROVE  EdgePrice(Nested[trAt]) \in 0 .. 1000 /\ EdgeShares \in Nat
<1>1. Nested \in Seq([narrow : Ids, wide : Ids, chain : BOOLEAN])
  BY TraderAssumption DEF Ids
<1>2. trAt \in 1 .. Len(Nested)
  BY <1>1, LenProperties
<1>3. PICK n : n = Nested[trAt]
  OBVIOUS
<1>4. n \in [narrow : Ids, wide : Ids, chain : BOOLEAN]
  BY <1>1, <1>2, <1>3, ElementOfSeq
<1>5. PICK m \in Ids : m = IF n.chain THEN n.wide ELSE n.narrow
  <2>1. n.narrow \in Ids /\ n.wide \in Ids
    BY <1>4
  <2> QED
    BY <2>1
<1>6. trPx[m] \in 0 .. 1000
  <2>1. trPx \in [Ids -> 0 .. 1000]
    BY DEF FillsInv
  <2> QED
    BY <2>1
<1>7. EdgePrice(n) = trPx[m]
  <2>1. EdgePrice(n) = price_of(trPx, m, "YES")
    BY <1>5, Zenon DEF EdgePrice
  <2>2. price_of(trPx, m, "YES") = trPx[m]
    BY DEF price_of
  <2> QED
    BY <2>1, <2>2
<1>8. EdgeShares \in Nat
  BY TraderAssumption DEF EdgeShares, LowerOf
<1> QED
  BY <1>3, <1>6, <1>7, <1>8

\* An edge order fills nothing and counts at its limit price.
LEMMA EdgeIsCounted == NewsInv /\ FillsInv /\ PlaceEdge => FillsInv'
<1> SUFFICES ASSUME NewsInv, FillsInv, PlaceEdge
             PROVE  FillsInv'
  OBVIOUS
<1> DEFINE n == Nested[trAt]
<1>1. /\ trFile' = trFile /\ trLeft' = trLeft /\ trDay' = trDay /\ trPx' = trPx
      /\ trPc = "posting" /\ trPc' = "posting"
  BY DEF PlaceEdge
<1>2. trLeft \in Int
  BY DEF FillsInv
<1>3. trLeft' = trLeft - 0
  BY <1>1, <1>2
<1>4. CASE ~probe_coherence(n)
  <2>1. Counts(0, 0)
    BY <1>4 DEF PlaceEdge, Counts, trCount
  <2> QED
    BY <1>1, <1>3, <2>1, BudgetFollows
<1>5. CASE probe_coherence(n)
  <2>1. trAt \in DOMAIN Nested /\ Place(EdgeShares, EdgePrice(n), 0)
    BY <1>5 DEF PlaceEdge
  <2>2. PICK p, shares, limit : p = EdgePrice(n) /\ shares = EdgeShares /\ limit = shares * Limit(p)
    OBVIOUS
  <2>3. p \in 0 .. 1000 /\ shares \in Nat
    BY <2>1, <2>2, EdgeIsPriced
  <2>4. Place(shares, p, 0)
    BY <2>1, <2>2
  <2> HIDE DEF n
  <2>5. Counts(limit, 0)
    BY <2>2, <2>4, PlaceCounts
  <2>6. limit \in Nat /\ 0 <= limit
    <3>1. Limit(p) \in Nat
      BY <2>3, LimitCovers
    <3> QED
      BY <2>2, <2>3, <3>1
  <2> QED
    BY <1>1, <1>3, <2>5, <2>6, BudgetFollows
<1> QED
  BY <1>4, <1>5

\* What a fill costs is taken off the budget and counted.
LEMMA FillIsCounted == NewsInv /\ FillsInv /\ PlaceFill => FillsInv'
<1> SUFFICES ASSUME NewsInv, FillsInv, PlaceFill
             PROVE  FillsInv'
  OBVIOUS
<1>1. PICK m : m = MARKETS[trAt - Len(Nested)]
  OBVIOUS
<1>2. m \in Ids
  BY <1>1 DEF PlaceFill, Ids, Range
<1>3. /\ trFile' = trFile /\ trDay' = trDay /\ trPx' = trPx
      /\ trPc = "posting" /\ trPc' = "posting"
  BY DEF PlaceFill
<1>4. trLeft \in Int
  BY DEF FillsInv
<1>5. CASE ~IsFilled(m)
  <2>1. Counts(0, 0) /\ trLeft' = trLeft
    BY <1>1, <1>5 DEF PlaceFill, Counts, trCount
  <2>2. trLeft' = trLeft - 0
    BY <1>4, <2>1
  <2> QED
    BY <1>3, <2>1, <2>2, BudgetFollows
<1>6. CASE IsFilled(m)
  <2>1. PICK p, size, c, limit : /\ p = FillPrice(m) /\ size = FillShares(m)
                                 /\ c = size * p /\ limit = size * Limit(p)
    OBVIOUS
  <2>2. p \in 0 .. 930 /\ size \in Nat /\ c \in Nat /\ c <= trLeft
    BY <1>2, <1>6, <2>1, FillCost
  <2>3. Place(size, p, c) /\ trLeft' = trLeft - c
    BY <1>1, <1>6, <2>1 DEF PlaceFill
  <2>4. Counts(limit, c)
    BY <2>1, <2>3, PlaceCounts
  <2>5. limit \in Nat /\ c <= limit
    <3>1. p \in 0 .. 1000 /\ p <= 930
      BY <2>2
    <3>2. PICK q : q = Limit(p)
      OBVIOUS
    <3>3. q \in Nat /\ p <= q
      BY <3>1, <3>2, LimitCovers
    <3>4. size * q \in Nat /\ size * p <= size * q
      BY <2>2, <3>1, <3>3
    <3> QED
      BY <2>1, <3>2, <3>4
  <2> QED
    BY <1>3, <2>2, <2>3, <2>4, <2>5, BudgetFollows
<1> QED
  BY <1>5, <1>6

LEMMA FillsBegin == TrInit => FillsInv
<1> SUFFICES ASSUME TrInit PROVE FillsInv
  OBVIOUS
<1>1. trPx \in [Ids -> 0 .. 1000]
  BY DEF TrInit, NoPrices
<1>2. /\ trFile.filled = 0 /\ trSt = trFile /\ trLeft = 0 /\ trFilled = 0 /\ trLost = 0
      /\ trSlipped = FALSE /\ trPc = "idle" /\ Counted(trSt) \in Nat
  BY DEF TrInit, Counted
<1>3. 0 <= DAILY_BUDGET * 0 + Counted(trSt) /\ 0 <= DAILY_BUDGET * (0 + 1)
  BY <1>2, TraderAssumption
<1>4. trFilled <= DAILY_BUDGET * trLost + Counted(trSt) /\ trFilled <= DAILY_BUDGET * Budgets
  BY <1>2, <1>3 DEF Budgets
<1>5. trFile.filled \in Nat /\ trSt.filled \in Nat /\ trFilled \in Nat /\ trLeft \in Int /\ trLost \in Nat
  BY <1>2
<1>6. ~(trLeft > 0)
  BY <1>2
<1> QED
  BY <1>1, <1>2, <1>4, <1>5, <1>6 DEF FillsInv

\* A cycle starts with what the file leaves of the budget of its day.
LEMMA CycleKeepsBudget == NewsInv /\ FillsInv /\ StartCycle => FillsInv'
<1> SUFFICES ASSUME NewsInv, FillsInv, StartCycle
             PROVE  FillsInv'
  OBVIOUS
<1>1. PICK day \in {trDay, trDay + 1}, broke \in BOOLEAN, px \in [Ids -> Prices],
           answered \in SUBSET Surfaces, broken \in SUBSET Surfaces :
          LET st == Rollover(trFile, day)
              seen == Watched(st, answered, broken)
              spent == IF broke THEN DAILY_BUDGET ELSE st.filled
          IN  /\ trSt' = [seen EXCEPT !.filled = spent]
              /\ trPx' = px
              /\ trLeft' = DAILY_BUDGET - spent \/ trLeft' = 0
              /\ trDay' = day
              /\ trFilled' = IF day # trDay THEN 0 ELSE trFilled
              /\ trLost' = IF day # trDay THEN 0 ELSE trLost
  BY DEF StartCycle
<1>2. trFile' = trFile /\ trSlipped' = trSlipped /\ trPc = "idle" /\ trPc' = "posting"
  BY DEF StartCycle
<1>3. trSt = trFile /\ trSlipped = FALSE
  BY <1>2 DEF FillsInv
<1> DEFINE st == Rollover(trFile, day)
           spent == IF broke THEN DAILY_BUDGET ELSE st.filled
<1>4. /\ DOMAIN st = {"day", "filled", "base"} /\ st.day = day
      /\ st.filled = IF trFile.day # day THEN 0 ELSE trFile.filled
  BY DEF Rollover, NewsInv, IsBaseline
<1>5. /\ trSt' = [Watched(st, answered, broken) EXCEPT !.filled = spent]
      /\ trLeft' = DAILY_BUDGET - spent \/ trLeft' = 0
  BY <1>1
<1> HIDE DEF st
<1>6. DOMAIN Watched(st, answered, broken) = {"day", "filled", "base"} /\ Watched(st, answered, broken).day = day
  BY <1>4 DEF Watched
<1> HIDE DEF spent
<1>7. trSt'.filled = spent /\ trSt'.day = trDay'
  BY <1>1, <1>5, <1>6
<1>8. trPx' \in [Ids -> 0 .. 1000]
  <2>1. px \in [Ids -> Prices] /\ trPx' = px
    BY <1>1
  <2>2. ASSUME NEW m \in Ids
        PROVE  px[m] \in 0 .. 1000
    <3>1. PICK x \in Prices : x = px[m]
      BY <2>1
    <3>2. x \in 0 .. 1000
      BY TraderAssumption
    <3> QED
      BY <3>1, <3>2
  <2> QED
    BY <2>1, <2>2
\* The counts of the cycle's day, before it fills anything.
<1>9. PICK b, d, f : b = DAILY_BUDGET * trLost' /\ d = DAILY_BUDGET /\ f = spent
  OBVIOUS
<1>10. trLost' \in Nat /\ b \in Nat /\ d \in Nat /\ DAILY_BUDGET * (trLost' + 1) = b + d
  <2>1. trLost' \in Nat
    BY <1>1 DEF FillsInv
  <2>2. PICK l \in Nat : l = trLost'
    BY <2>1
  <2>3. DAILY_BUDGET * l \in Nat /\ DAILY_BUDGET * (l + 1) = DAILY_BUDGET * l + DAILY_BUDGET
    <3>1. DAILY_BUDGET \in Nat
      BY TraderAssumption
    <3> QED
      BY <3>1
  <2>4. b = DAILY_BUDGET * l /\ d = DAILY_BUDGET /\ DAILY_BUDGET \in Nat
    BY <1>9, <2>2, TraderAssumption
  <2>5. trLost' + 1 = l + 1
    BY <2>2
  <2> QED
    BY <2>1, <2>3, <2>4, <2>5
<1>11. b \in Nat /\ d \in Nat /\ f \in Nat /\ spent \in Nat
  <2>1. trFile.filled \in Nat
    BY DEF FillsInv
  <2>2. st.filled \in Nat
    BY <1>4, <2>1
  <2>a. DAILY_BUDGET \in Nat
    BY TraderAssumption
  <2>3. spent \in Nat
    BY <2>2, <2>a DEF spent
  <2> HIDE DEF spent
  <2> QED
    BY <1>9, <1>10, <2>3
<1>12. trFilled' \in Nat /\ trFilled' <= b + d /\ trFilled' <= b + f
  <2>1. CASE day # trDay
    <3>1. trFilled' = 0
      BY <1>1, <2>1
    <3> QED
      BY <1>11, <3>1
  <2>2. CASE day = trDay
    <3>1. trFilled' = trFilled /\ trLost' = trLost
      BY <1>1, <2>2
    <3>2. trFilled <= b + Counted(trFile) /\ trFilled <= b + d /\ trFilled \in Nat
      <4>1. Budgets = trLost' + 1
        BY <1>3, <3>1 DEF Budgets
      <4> QED
        BY <1>3, <1>9, <1>10, <3>1, <4>1 DEF FillsInv
    <3>3. Counted(trFile) = st.filled
      BY <1>4, <2>2 DEF Counted
    <3>4. spent = DAILY_BUDGET \/ spent = Counted(trFile)
      BY <3>3 DEF spent
    <3> QED
      BY <1>9, <3>1, <3>2, <3>4
  <2> QED
    BY <2>1, <2>2
<1>13. trLeft' \in Int /\ (trLeft' > 0 => trFilled' + trLeft' <= b + d)
  <2>1. CASE trLeft' = 0
    BY <2>1
  <2>2. CASE trLeft' = DAILY_BUDGET - spent
    <3> HIDE DEF st, spent
    <3>1. trLeft' = d - f
      BY <1>9, <2>2
    <3>2. PICK n \in Nat : n = trFilled'
      BY <1>12
    <3>3. n <= b + f
      BY <1>12, <3>2
    <3>4. n + (d - f) <= b + d /\ d - f \in Int
      BY <1>11, <3>3
    <3> QED
      BY <3>1, <3>2, <3>4
  <2> QED
    BY <1>5, <2>1, <2>2
<1>14. Budgets' = trLost' + 1 /\ Counted(trSt)' = f
  BY <1>2, <1>3, <1>7, <1>9 DEF Budgets, Counted
<1>15. /\ trFilled' <= DAILY_BUDGET * Budgets'
       /\ trFilled' <= DAILY_BUDGET * trLost' + Counted(trSt)'
       /\ trLeft' > 0 => trFilled' + trLeft' <= DAILY_BUDGET * Budgets'
  BY <1>9, <1>10, <1>12, <1>13, <1>14
<1>16. trFile'.filled \in Nat /\ trSt'.filled \in Nat /\ trSlipped' \in BOOLEAN
  BY <1>2, <1>3, <1>7, <1>11 DEF FillsInv
<1> QED
  BY <1>2, <1>7, <1>8, <1>10, <1>12, <1>13, <1>15, <1>16 DEF FillsInv

\* A failed cycle loses its count: one budget more may have been filled.
LEMMA LostCountIsExcused == FillsInv /\ CycleFails => FillsInv'
<1> SUFFICES ASSUME FillsInv, CycleFails
             PROVE  FillsInv'
  OBVIOUS
<1>1. /\ Slip /\ trSt' = trFile /\ trFile' = trFile /\ trPc' = "idle" /\ trSlipped' = FALSE
      /\ trLeft' = 0 /\ trPx' \in [Ids -> 0 .. 1000] /\ trFilled' = trFilled
  BY DEF CycleFails, NoPrices
<1>2. trLost' = Budgets /\ Budgets' = Budgets + 1
  BY <1>1 DEF Slip, Budgets
<1>3. PICK k, n : k = DAILY_BUDGET * Budgets /\ n = Budgets
  OBVIOUS
<1>4. n \in Nat /\ trFilled \in Nat /\ trFilled <= k /\ trFile.filled \in Nat
  BY <1>3 DEF FillsInv, Budgets
<1>5. k \in Nat /\ DAILY_BUDGET * (n + 1) = k + DAILY_BUDGET /\ DAILY_BUDGET \in Nat
  BY <1>3, <1>4, TraderAssumption
<1>6. Counted(trSt)' \in Nat
  BY <1>1, <1>4 DEF Counted
<1>7. /\ trFilled' <= DAILY_BUDGET * Budgets'
      /\ trFilled' <= DAILY_BUDGET * trLost' + Counted(trSt)'
  BY <1>1, <1>2, <1>3, <1>4, <1>5, <1>6
<1>8. trLost' \in Nat /\ trFile'.filled \in Nat /\ trSt'.filled \in Nat /\ trFilled' \in Nat
  BY <1>1, <1>2, <1>3, <1>4
<1>9. trLeft' \in Int /\ ~(trLeft' > 0) /\ trSlipped' \in BOOLEAN /\ trSt' = trFile' /\ ~trSlipped'
  <2>1. trSlipped' \in BOOLEAN /\ trSt' = trFile' /\ ~trSlipped' /\ trLeft' = 0
    BY <1>1, Zenon
  <2> QED
    BY <2>1
<1>10. trPx' \in [Ids -> 0 .. 1000] /\ trPc' = "idle"
  BY <1>1
<1> QED
  BY <1>7, <1>8, <1>9, <1>10, Zenon DEF FillsInv

LEMMA FillsStep == NewsInv /\ FillsInv /\ [TrNext]_trVars => FillsInv'
<1> SUFFICES ASSUME NewsInv, FillsInv, [TrNext]_trVars
             PROVE  FillsInv'
  OBVIOUS
<1>1. ASSUME NEW s \in Surfaces, Publish(s)
      PROVE  FillsInv'
  BY <1>1 DEF Publish, trCycle, trCount, FillsInv, Budgets, Counted
<1>2. CASE StartCycle
  BY <1>2, CycleKeepsBudget
<1>3. CASE PlaceEdge
  BY <1>3, EdgeIsCounted
<1>4. CASE PlaceFill
  BY <1>4, FillIsCounted
<1>5. CASE ReportNews
  <2>1. /\ trFile' = trFile /\ trSt' = trSt /\ trPc = "posting" /\ trPc' = "save" /\ trLeft' = 0
        /\ trDay' = trDay /\ trFilled' = trFilled /\ trLost' = trLost /\ trSlipped' = trSlipped
        /\ trPx' \in [Ids -> 0 .. 1000]
    BY <1>5 DEF ReportNews, NoPrices, trCount
  <2> QED
    BY <2>1 DEF FillsInv, Budgets, Counted
<1>6. CASE SaveState
  <2>1. /\ trFile' = trSt /\ trSt' = trSt /\ trPc' = "idle" /\ trLeft' = trLeft /\ trPx' = trPx
        /\ trDay' = trDay /\ trFilled' = trFilled /\ trLost' = trLost /\ trSlipped' = FALSE
    BY <1>6 DEF SaveState, trCycle
  <2>2. Counted(trSt)' = Counted(trSt) /\ Budgets' = trLost + 1 /\ (Budgets = trLost \/ Budgets = trLost + 1)
    BY <2>1 DEF Counted, Budgets
  <2>3. PICK b, k, l : b = DAILY_BUDGET * Budgets /\ k = DAILY_BUDGET * (trLost + 1) /\ l = DAILY_BUDGET * trLost
    OBVIOUS
  <2>4. (b = l \/ b = k) /\ l \in Nat /\ k = l + DAILY_BUDGET /\ DAILY_BUDGET \in Nat
    BY <2>2, <2>3, BudgetGrows
  <2>5. /\ trFilled \in Nat /\ trLeft \in Int /\ trFilled <= b
        /\ trLeft > 0 => trFilled + trLeft <= b
    BY <2>3 DEF FillsInv
  <2>6. trFilled <= k /\ (trLeft > 0 => trFilled + trLeft <= k)
    BY <2>4, <2>5
  <2>7. /\ trFilled' <= DAILY_BUDGET * Budgets'
        /\ trLeft' > 0 => trFilled' + trLeft' <= DAILY_BUDGET * Budgets'
    BY <2>1, <2>2, <2>3, <2>6
  <2> QED
    BY <2>1, <2>2, <2>7 DEF FillsInv
<1>7. CASE CycleFails
  BY <1>7, LostCountIsExcused
<1>8. CASE UNCHANGED trVars
  BY <1>8 DEF trVars, trCycle, trCount, FillsInv, Budgets, Counted
<1> QED
  BY <1>1, <1>2, <1>3, <1>4, <1>5, <1>6, <1>7, <1>8 DEF TrNext

\* The inductive invariant of the trader: what was filled is counted in the
\* copy or belongs to a cycle that lost count of it, and the baselines of
\* the copy are ones the file has, first ones, an error page's, or hits.
THEOREM TraderInvariant == TrSpec => []TraderInv
<1>1. TrInit => TraderInv
  BY NewsBegins, FillsBegin DEF TraderInv
<1>2. TraderInv /\ [TrNext]_trVars => TraderInv'
  BY NewsStep, FillsStep DEF TraderInv
<1> QED
  BY <1>1, <1>2, PTL DEF TrSpec

\* A cycle of the trader that fails before its save, or whose post raises
\* after the order landed, costs at most a day's budget, and no news: a
\* version that became the saved baseline of a surface, other than its first
\* one, has been reported.
THEOREM FailuresAreBounded == TrSpec => []FailedCycleIsBounded
<1>1. TraderInv => FailedCycleIsBounded
  <2> SUFFICES ASSUME NewsInv, FillsInv
               PROVE  NewsIsNotSwallowed /\ FillsStayInBudget
    BY DEF TraderInv, FailedCycleIsBounded
  <2>1. NewsIsNotSwallowed
    BY DEF NewsInv
  <2>2. PICK b, k, l : b = DAILY_BUDGET * Budgets /\ k = DAILY_BUDGET * (trLost + 1) /\ l = DAILY_BUDGET * trLost
    OBVIOUS
  <2>3. (b = l \/ b = k) /\ l \in Nat /\ k = l + DAILY_BUDGET /\ DAILY_BUDGET \in Nat
    BY <2>2, BudgetGrows DEF Budgets
  <2>4. trFilled \in Nat /\ trFilled <= b
    BY <2>2 DEF FillsInv
  <2>5. trFilled <= k
    BY <2>3, <2>4
  <2> QED
    BY <2>1, <2>2, <2>5 DEF FillsStayInBudget
<1> QED
  BY <1>1, TraderInvariant, PTL
=============================================================================
