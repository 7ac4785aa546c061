----------------------------- MODULE Evaluator ------------------------------
(***************************************************************************)
(* The message evaluator (packages/connectors/agent_evaluator.py): three   *)
(* layers, cheapest first.  A tier is its index in VALID_TIERS.            *)
(* Probabilities and confidences are integers per ten thousand, which is   *)
(* the precision round(.., 4) leaves; what a layer answers is an input.    *)
(***************************************************************************)
EXTENDS Integers, FiniteSetsExt

CONSTANTS
    HitScores,   \* scores of the heuristic patterns a message may match
    Tables,      \* probability tables a remote layer may send, as
                 \* functions of the tiers; NoTable when it sends none
    NoTable,
    Confidences, \* confidences a remote layer may state; NoConfidence for none
    NoConfidence,
    Signals,     \* probabilities of the injection and technical questions
    SampleN      \* JEV_EVALUATOR_SAMPLE_N

ASSUME EvaluatorAssumption ==
    /\ HitScores \subseteq 0 .. 100 /\ Signals \subseteq Nat /\ SampleN \in Nat \ {0}
    /\ \A table \in Tables : table # NoTable => table \in [0 .. 3 -> Nat]
    /\ \A c \in Confidences : c # NoConfidence => c \in Nat

VARIABLES
    evCfg,       \* settings: jev, llm, escalate
    evStage,     \* "idle", "jev", "llm", "done"
    evSeen,      \* _JEV_SAMPLE_SEEN modulo SampleN
    evClean,     \* clean messages since the last one sent to Jev (history)
    evHeur, evJev, evLlm,  \* what the layers said about the message at hand
    evOut        \* the evaluation served

evVars == <<evCfg, evStage, evSeen, evClean, evHeur, evJev, evLlm, evOut>>

Tiers == 0 .. 3
SAFE == 0
WATCH == 1
RISKY == 2
DANGEROUS == 3
NoTier == -1  \* a declared tier outside VALID_TIERS

Full == 10000
AUTO == 9000     \* JEV_AUTO_THRESHOLD
REVIEW == 6000   \* JEV_REVIEW_THRESHOLD

tier_from_score(score) ==
    IF score >= 80 THEN DANGEROUS ELSE IF score >= 55 THEN RISKY ELSE IF score >= 30 THEN WATCH ELSE SAFE

tier_score(tier) == <<10, 40, 65, 90>>[tier + 1]

Total(table) == table[SAFE] + table[WATCH] + table[RISKY] + table[DANGEROUS]

\* Each entry over the total, rounded to four decimals.
Normalized(table) == [t \in Tiers |-> (2 * table[t] * Full + Total(table)) \div (2 * Total(table))]

AllOn(tier) == [t \in Tiers |-> IF t = tier THEN Full ELSE 0]

normalize_probabilities(table, fallback) ==
    IF table = NoTable \/ Total(table) <= 0 THEN AllOn(fallback) ELSE Normalized(table)

\* Highest probability wins, the riskier tier among equals.
top_tier(probs) == Max({t \in Tiers : \A u \in Tiers : probs[u] <= probs[t]})

probs_for_tier(tier, confidence) ==
    [t \in Tiers |-> IF t = tier THEN confidence ELSE (2 * (Full - confidence) + 3) \div 6]

Evaluation(tier, score, probs, confidence) ==
    [tier |-> tier, score |-> score, probs |-> probs, confidence |-> confidence]

Nothing == Evaluation(NoTier, 0, AllOn(SAFE), 0)

\* hits: scores of the patterns matched; long: over 3500 characters.  An
\* empty message is served like a harmless one, with a lower score.
heuristic_evaluate(hits, long) ==
    LET score == Max(hits \cup {10} \cup (IF long THEN {25} ELSE {}))
    IN IF hits = {} /\ ~long
       THEN Evaluation(SAFE, 10, probs_for_tier(SAFE, 9000), 9000)
       ELSE Evaluation(tier_from_score(score), score, probs_for_tier(tier_from_score(score), 8000), 8000)

\* The declared tier only fills in for missing probabilities.  A stated
\* confidence may replace the probability; nothing downstream reads it.
normalize_llm_result(score, declared, table) ==
    LET fallback == IF declared = NoTier THEN tier_from_score(score) ELSE declared
        probs == normalize_probabilities(table, fallback)
        tier == top_tier(probs)
    IN Evaluation(tier, score, probs, probs[tier])

conservative_pick(a, b) == IF a >= b THEN a ELSE b

\* choice_of: a missing confidence is read from the answer's own table.
choice_confidence(tier, confidence, table) ==
    IF confidence # NoConfidence THEN confidence
    ELSE IF table = NoTable \/ tier = NoTier THEN 0 ELSE table[tier]

jev_floor(injection, technical) ==
    IF injection >= 9000 /\ technical >= 9000 THEN DANGEROUS
    ELSE IF injection >= 9000 \/ technical >= 9000 THEN RISKY ELSE SAFE

\* The largest entry must be the served tier's, else the table is replaced.
served_probs(table, tier, conf) ==
    LET probs == IF table = NoTable \/ Total(table) <= 0
                 THEN probs_for_tier(tier, IF conf = 0 THEN 7000 ELSE conf)
                 ELSE Normalized(table)
    IN IF \E t \in Tiers : probs[t] > probs[tier]
       THEN probs_for_tier(tier, Max({conf, 7000})) ELSE probs

jev_evaluate(choice, confidence, table, injection, technical) ==
    LET conf == choice_confidence(choice, confidence, table)
        tier == conservative_pick(IF choice = NoTier THEN SAFE ELSE choice, jev_floor(injection, technical))
    IN Evaluation(tier,
                  Max({tier_score(tier), IF injection >= 9000 THEN 80 ELSE 0}),
                  served_probs(table, tier, conf),
                  Max({conf, IF injection >= 9000 THEN injection ELSE 0}))

\* Mutant: the second layer has the last word.
merge_last_word(primary, secondary) ==
    LET tier == secondary.tier
        winner == IF tier = primary.tier THEN primary ELSE secondary
    IN Evaluation(tier, Max({primary.score, secondary.score}), winner.probs,
                  Max({primary.confidence, secondary.confidence}))

\* The riskier evaluation's probabilities, the higher score and confidence.
merge_conservative(primary, secondary) ==
    LET tier == conservative_pick(primary.tier, secondary.tier)
        winner == IF tier = primary.tier THEN primary ELSE secondary
    IN Evaluation(tier, Max({primary.score, secondary.score}), winner.probs,
                  Max({primary.confidence, secondary.confidence}))
-----------------------------------------------------------------------------
EvInit ==
    /\ evCfg \in [jev : BOOLEAN, llm : BOOLEAN, escalate : BOOLEAN]
    /\ evStage = "idle" /\ evSeen = 0 /\ evClean = 0
    /\ evHeur = Nothing /\ evJev = Nothing /\ evLlm = Nothing /\ evOut = Nothing

Serve(result) == evStage' = "done" /\ evOut' = result

\* Below JEV_EVALUATOR_MIN_TIER (WATCH) one message in SampleN is a candidate.
JevCandidate(heuristic) ==
    IF heuristic.tier >= WATCH
    THEN evStage' = "jev" /\ UNCHANGED <<evSeen, evClean, evOut>>
    ELSE /\ evSeen' = (evSeen + 1) % SampleN
         /\ IF evSeen' = 0
            THEN evStage' = "jev" /\ evClean' = 0 /\ UNCHANGED evOut
            ELSE Serve(heuristic) /\ evClean' = evClean + 1

\* evaluate_agent_message up to its first await.
Evaluate(hits, long) ==
    /\ evStage = "idle"
    /\ evHeur' = heuristic_evaluate(hits, long)
    /\ evJev' = Nothing /\ evLlm' = Nothing
    /\ \/ evCfg.jev /\ JevCandidate(evHeur')
       \/ /\ ~evCfg.jev /\ evCfg.llm
          /\ evStage' = "llm"
          /\ UNCHANGED <<evSeen, evClean, evOut>>
       \/ ~evCfg.jev /\ ~evCfg.llm /\ Serve(evHeur') /\ UNCHANGED <<evSeen, evClean>>
    /\ UNCHANGED evCfg

\* Jev answers: act on it, ask the chat model, or fall back on the patterns.
JevAnswers(answer) ==
    /\ evStage = "jev"
    /\ evJev' = answer
    /\ IF answer.confidence >= AUTO THEN Serve(answer)
       ELSE IF answer.confidence >= REVIEW /\ evCfg.llm /\ evCfg.escalate
       THEN evStage' = "llm" /\ UNCHANGED evOut
       ELSE Serve(merge_conservative(answer, evHeur))
    /\ UNCHANGED <<evCfg, evSeen, evClean, evHeur, evLlm>>

JevUnavailable ==
    /\ evStage = "jev"
    /\ Serve(evHeur)
    /\ UNCHANGED <<evCfg, evSeen, evClean, evHeur, evJev, evLlm>>

LlmAnswers(answer) ==
    /\ evStage = "llm"
    /\ evLlm' = answer
    /\ Serve(IF evJev = Nothing THEN answer ELSE merge_conservative(evJev, answer))
    /\ UNCHANGED <<evCfg, evSeen, evClean, evHeur, evJev>>

LlmFails ==
    /\ evStage = "llm"
    /\ Serve(IF evJev = Nothing THEN evHeur ELSE merge_conservative(evJev, evHeur))
    /\ UNCHANGED <<evCfg, evSeen, evClean, evHeur, evJev, evLlm>>

\* The scorer takes the result and goes on to the next message.
Taken ==
    /\ evStage = "done" /\ evStage' = "idle"
    /\ evHeur' = Nothing /\ evJev' = Nothing /\ evLlm' = Nothing /\ evOut' = Nothing
    /\ UNCHANGED <<evCfg, evSeen, evClean>>

EvNext ==
    \/ \E hits \in SUBSET HitScores, long \in BOOLEAN : Evaluate(hits, long)
    \/ \E choice \in Tiers \cup {NoTier}, conf \in Confidences, table \in Tables, i, t \in Signals :
          evStage = "jev" /\ JevAnswers(jev_evaluate(choice, conf, table, i, t))
    \/ JevUnavailable
    \/ \E score \in HitScores \cup {10}, declared \in Tiers \cup {NoTier}, table \in Tables :
          evStage = "llm" /\ LlmAnswers(normalize_llm_result(score, declared, table))
    \/ LlmFails
    \/ Taken

EvSpec == EvInit /\ [][EvNext]_evVars
-----------------------------------------------------------------------------
(***************************************************************************)
(* Properties.                                                             *)
(***************************************************************************)

\* Escalating never lowers a risk: what is served is at least Jev's tier and
\* score, and unless Jev was sure, at least what the second layer that was
\* heard says (evaluate_agent_message, "never below the Jev tier").
EscalationNeverLowers ==
    evStage = "done" /\ evJev # Nothing =>
      /\ evOut.tier >= evJev.tier /\ evOut.score >= evJev.score
      /\ evJev.confidence < AUTO =>
            evOut.tier >= (IF evLlm # Nothing THEN evLlm.tier ELSE evHeur.tier)

\* Through every layer and merge, the tier served is the one with the
\* largest probability of the table served with it ("highest-probability
\* tier wins").
ServedTierHasMostMass ==
    evStage = "done" => \A t \in Tiers : evOut.probs[t] <= evOut.probs[evOut.tier]

\* Of SampleN clean messages in a row, one reaches Jev (_jev_candidate).
CleanTrafficIsSampled == evClean < SampleN

\* Nothing risky gets by: neither by escalating, nor by a table that says
\* otherwise, nor because clean messages are never looked at twice.
RiskIsNotMissed == EscalationNeverLowers /\ ServedTierHasMostMass /\ CleanTrafficIsSampled

(***************************************************************************)
(* What a step relies on for RiskIsNotMissed to survive it.                *)
(***************************************************************************)

\* An evaluation that some layer made: its tier is the likeliest of its table.
Evaluations == [tier : Tiers, score : Int, probs : [Tiers -> Int], confidence : Int]
MostMass(e) == \A t \in Tiers : e.probs[t] <= e.probs[e.tier]
Sound(e) == e \in Evaluations /\ MostMass(e)

\* A layer has been heard or not, in the order the stages come.
LayersAreSound ==
    /\ evStage \in {"idle", "jev", "llm", "done"}
    /\ evStage # "idle" => Sound(evHeur)
    /\ evJev = Nothing \/ Sound(evJev)
    /\ evStage \in {"idle", "jev"} => evJev = Nothing
    /\ evStage # "done" => evLlm = Nothing
    /\ evStage = "done" => Sound(evOut)

\* The counter of candidates is that of the clean messages in a row.
SamplingInv == evSeen = evClean /\ evSeen \in 0 .. SampleN - 1

EvaluatorInv == LayersAreSound /\ SamplingInv /\ EscalationNeverLowers
=============================================================================
