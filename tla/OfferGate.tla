----------------------------- MODULE OfferGate ------------------------------
(***************************************************************************)
(* The two gates in front of an accept (packages/connectors/tclk.py):      *)
(* audit_offer, whose record is kept for every offer, and offer_allows.    *)
(* Each is a chain of early returns, written here as the sequence of its   *)
(* checks; the first that fails decides.  A frame is reduced to what the   *)
(* checks tell apart.                                                      *)
(***************************************************************************)
EXTENDS Integers, Sequences, FiniteSets

CONSTANTS
    OfferRails,   \* rails an offer may name; flopRail is flop-htlc
    flopRail,
    NoField,      \* a field that is absent
    MAX_AMOUNT,   \* the operator's cap on an offer's amount
    MaxLevel      \* bound on difficulties

VARIABLES
    ogFrame,      \* the frame looked at, NoField before the first
    ogPolicy      \* the operator's settings

ogVars == <<ogFrame, ogPolicy>>

RISK_ORDER == <<"safe", "watch", "risky", "dangerous">>

\* An amount of 0 stands for one that does not parse, zero and below.  A role
\* that is absent and one that is neither word are the same to the checks.
\* spec: the brief is absent, names a capability we have, or another one.
Frames ==
    [kind : {"offer", "lock"}, signed : BOOLEAN,
     rails : {NoField} \cup {{}} \cup {{r} : r \in OfferRails}, rail : {NoField, flopRail},
     asset : {NoField, "FLOP", "other"}, role : {NoField, "payer", "payee"},
     amount : {0, MAX_AMOUNT, MAX_AMOUNT + 1},
     expires : {NoField, "past"}, difficulty : 0 .. MaxLevel,
     spec : {NoField, "known", "other"}]

Policies ==
    [rails : {{}, {flopRail}, OfferRails \ {flopRail}}, patterns : BOOLEAN, specless : BOOLEAN,
     difficulty : 0 .. MaxLevel, tier : {"safe", "watch", "risky"}]

\* parse_frame, validate_frame: the plural list wins over the singular rail.
offer_rails(f) ==
    IF f.rails # NoField THEN f.rails ELSE IF f.rail = NoField THEN {} ELSE {f.rail}

\* A protocol name without a brief is no brief.
offer_spec(f) == IF f.kind = "offer" THEN f.spec ELSE NoField

offer_expired(f) == f.expires = "past"

TooHard(f, p) == p.difficulty > 0 /\ f.difficulty > p.difficulty

NoRailFits(f, p) ==
    IF offer_rails(f) = {}
    THEN f.asset = "other" \/ (f.asset = "FLOP" /\ flopRail \notin p.rails)
    ELSE offer_rails(f) \cap p.rails = {}

BadAmount(f) == f.amount = 0 \/ f.amount > MAX_AMOUNT

\* offer_allows: with accept_specless any brief passes, known or not.
offer_allows(f, p) ==
    /\ f.kind = "offer" /\ f.signed /\ p.rails # {}
    /\ ~NoRailFits(f, p) /\ ~BadAmount(f) /\ ~TooHard(f, p)
    /\ p.patterns
    /\ offer_spec(f) = "known" \/ p.specless

Check(fails, risk) == [fails |-> fails, risk |-> risk]

\* Mutant: an offer of a payee is audited like one of a payer.
audit_checks_paying(f, p) ==
    << Check(f.kind # "offer", "dangerous"),
       Check(~f.signed, "dangerous"),
       Check(p.rails = {}, "dangerous"),
       Check(NoRailFits(f, p), "risky"),
       Check(BadAmount(f), "risky"),
       Check(offer_expired(f), "risky"),
       Check(TooHard(f, p), "risky"),
       Check(~p.patterns, "dangerous"),
       Check(offer_spec(f) = "other", "risky"),
       Check(offer_spec(f) = NoField /\ ~p.specless, "risky") >>

audit_checks(f, p) ==
    << Check(f.kind # "offer", "dangerous"),
       Check(~f.signed, "dangerous"),
       Check(p.rails = {}, "dangerous"),
       Check(NoRailFits(f, p), "risky"),
       Check(f.role = "payee", "risky"),
       Check(BadAmount(f), "risky"),
       Check(offer_expired(f), "risky"),
       Check(TooHard(f, p), "risky"),
       Check(~p.patterns, "dangerous"),
       Check(offer_spec(f) = "other", "risky"),
       Check(offer_spec(f) = NoField /\ ~p.specless, "risky") >>

audit_offer(f, p) ==
    LET checks == audit_checks(f, p)
        failing == {i \in DOMAIN checks : checks[i].fails}
    IN IF failing = {}
       THEN [decision |-> "accept", risk |-> IF offer_spec(f) = NoField THEN "watch" ELSE "safe"]
       ELSE [decision |-> "skip",
             risk |-> checks[CHOOSE i \in failing : \A j \in failing : i <= j].risk]

risk_ok(risk, ceiling) ==
    \A i, j \in DOMAIN RISK_ORDER : RISK_ORDER[i] = risk /\ RISK_ORDER[j] = ceiling => i <= j

\* _tclk_on_offer: the audit's verdict under the operator's ceiling.
Committed(f, p) == audit_offer(f, p).decision = "accept" /\ risk_ok(audit_offer(f, p).risk, p.tier)

OgInit == ogFrame = NoField /\ ogPolicy \in Policies

\* The market shows the next frame.
LookAt == ogFrame = NoField /\ ogFrame' \in Frames /\ UNCHANGED ogPolicy

OgNext == LookAt

OgSpec == OgInit /\ [][OgNext]_ogVars
-----------------------------------------------------------------------------
(***************************************************************************)
(* Properties.                                                             *)
(***************************************************************************)

\* What the audit lets us commit to also passes the gate that asks "before
\* we commit", is no offer of somebody who says that we pay (an offer that
\* names no side passes), has not expired, and has a brief unless the operator
\* opted in to offers without one and to their risk.
CommitmentIsGated ==
    ogFrame # NoField /\ Committed(ogFrame, ogPolicy) =>
      /\ offer_allows(ogFrame, ogPolicy)
      /\ ogFrame.role # "payee" /\ ogFrame.expires # "past"
      /\ ogFrame.spec = NoField => ogPolicy.specless /\ ogPolicy.tier # "safe"
=============================================================================
