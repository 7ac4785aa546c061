------------------------------- MODULE Digest -------------------------------
(***************************************************************************)
(* The digests (DigestService): a schedule reports the source changes and  *)
(* the risky evaluations since its last digest.  The scheduler generates   *)
(* the due ones in one transaction (run_due), an operator any one at any   *)
(* time (generate_digest).                                                 *)
(*                                                                         *)
(* An item gets its time when it is observed or evaluated and is visible   *)
(* only when its own transaction has committed.                            *)
(***************************************************************************)
EXTENDS Integers, Sequences, SequencesExt, FiniteSets, FiniteSetsExt

CONSTANTS
  ByTitle,      \* the enabled schedules, ordered by name
  Changes,      \* source observations of type INITIAL or CHANGED
  Evaluations,  \* agent evaluations
  Low,          \* the evaluations below the schedules' minimum tier
  Clerks,       \* requests for a digest the API can be handling at once
  PAGE,         \* rows a preview reads of each table (200)
  PerRun,       \* DIGEST_MAX_SCHEDULES_PER_TICK
  Interval,     \* interval of the schedules
  DgMaxTime,    \* bound: ticks of the clock
  DgMaxDigests  \* bound: transactions that generate digests

ASSUME DigestAssumption ==
  /\ PAGE \in Nat \ {0} /\ PerRun \in Nat \ {0} /\ Interval \in Nat \ {0}
  /\ DgMaxTime \in Nat /\ DgMaxDigests \in Nat /\ Low \subseteq Evaluations
  /\ IsFiniteSet(Changes) /\ IsFiniteSet(Evaluations) /\ ByTitle \in Seq(ToSet(ByTitle))

VARIABLES
  dgNow,
  dgAt,        \* time of an item, NotYet before it is observed
  dgLanded,    \* items whose transaction has committed
  dgLast,      \* last_generated_at, NotYet before the first digest
  dgJob,       \* per transaction: its time, schedules to do, digests made
  dgReported,  \* history: items in the digests of a schedule
  dgMissed,    \* history: items a digest could not see, or cut off
  dgFrom,      \* history: where the first digests of the schedule began
  dgDigests

dgVars == <<dgNow, dgAt, dgLanded, dgLast, dgJob, dgReported, dgMissed, dgFrom, dgDigests>>

NotYet == -1 - Interval
DgItems == Changes \cup Evaluations
Schedules == ToSet(ByTitle)
NoDigest == [step |-> "idle"]

DgInit ==
  /\ dgNow = 0 /\ dgDigests = 0
  /\ dgAt = [i \in DgItems |-> NotYet] /\ dgLanded = {}
  /\ dgLast = [d \in Schedules |-> NotYet]
  /\ dgJob = [o \in Clerks \cup {"tick"} |-> NoDigest]
  /\ dgReported = [d \in Schedules |-> {}] /\ dgMissed = [d \in Schedules |-> {}]
  /\ dgFrom = [d \in Schedules |-> NotYet]

-----------------------------------------------------------------------------
DgTick ==
  /\ dgNow < DgMaxTime /\ dgNow' = dgNow + 1
  /\ UNCHANGED <<dgAt, dgLanded, dgLast, dgJob, dgReported, dgMissed, dgFrom, dgDigests>>

\* observed_at and evaluated_at are set when the work starts,
Observe(i) ==
  /\ dgAt[i] = NotYet /\ dgAt' = [dgAt EXCEPT ![i] = dgNow]
  /\ UNCHANGED <<dgNow, dgLanded, dgLast, dgJob, dgReported, dgMissed, dgFrom, dgDigests>>

\* and the row is committed when it ends.
Land(i) ==
  /\ dgAt[i] # NotYet /\ i \notin dgLanded /\ dgLanded' = dgLanded \cup {i}
  /\ UNCHANGED <<dgNow, dgAt, dgLast, dgJob, dgReported, dgMissed, dgFrom, dgDigests>>

-----------------------------------------------------------------------------
\* The start of a window: the last digest, or one interval ago.
Since(last, now) == IF last = NotYet THEN now - Interval ELSE last

\* run_due reads the first PerRun schedules by name, due or not.
RunDue ==
  /\ dgJob["tick"] = NoDigest /\ dgDigests < DgMaxDigests /\ dgDigests' = dgDigests + 1
  /\ dgJob' = [dgJob EXCEPT !["tick"] =
       [step |-> "open", now |-> dgNow, made |-> {},
        todo |-> [k \in 1 .. IF Len(ByTitle) < PerRun THEN Len(ByTitle) ELSE PerRun |->
                    [schedule |-> ByTitle[k], last |-> dgLast[ByTitle[k]]]]]]
  /\ UNCHANGED <<dgNow, dgAt, dgLanded, dgLast, dgReported, dgMissed, dgFrom>>

\* generate_digest loads one schedule.
Request(o, d) ==
  /\ dgJob[o] = NoDigest /\ dgDigests < DgMaxDigests /\ dgDigests' = dgDigests + 1
  /\ dgJob' = [dgJob EXCEPT ![o] =
       [step |-> "open", now |-> dgNow, made |-> {},
        todo |-> << [schedule |-> d, last |-> dgLast[d]] >>]]
  /\ UNCHANGED <<dgNow, dgAt, dgLanded, dgLast, dgReported, dgMissed, dgFrom>>

\* The oldest PAGE rows of a table since a time; there is no upper end.
Window(table, since) == {i \in table \cap dgLanded : dgAt[i] >= since}
IsPage(page, window) ==
  /\ page \subseteq window
  /\ Cardinality(page) = IF Cardinality(window) < PAGE THEN Cardinality(window) ELSE PAGE
  /\ \A i \in page, j \in window \ page : dgAt[i] <= dgAt[j]

\* What a full page leaves out.
Cut(page, table, since) == IF Cardinality(page) = PAGE THEN Window(table, since) \ page ELSE {}

Due(o, t) == o # "tick" \/ t.last = NotYet \/ dgJob[o].now - t.last >= Interval

\* generate, up to the new last_generated_at: the minimum tier is applied to the page.
Preview(o) ==
  /\ dgJob[o] # NoDigest /\ dgJob[o].todo # <<>>
  /\ LET t == Head(dgJob[o].todo)
         since == Since(t.last, dgJob[o].now)
         rest == [dgJob[o] EXCEPT !.todo = Tail(@)]
     IN \/ ~Due(o, t) /\ dgJob' = [dgJob EXCEPT ![o] = rest]
        \/ /\ Due(o, t)
           /\ \E c \in SUBSET Changes, e \in SUBSET Evaluations :
                /\ IsPage(c, Window(Changes, since)) /\ IsPage(e, Window(Evaluations, since))
                /\ dgJob' = [dgJob EXCEPT ![o] = [rest EXCEPT !.made = @ \cup
                     {[schedule |-> t.schedule, from |-> IF t.last = NotYet THEN since ELSE NotYet, got |-> c \cup (e \ Low),
                       missed |-> {i \in DgItems \ dgLanded : dgAt[i] \in since .. dgJob[o].now}
                                  \cup Cut(c, Changes, since) \cup Cut(e, Evaluations, since)]}]]
  /\ UNCHANGED <<dgNow, dgAt, dgLanded, dgLast, dgReported, dgMissed, dgFrom, dgDigests>>

\* What a commit leaves in the schedules and in the history.
Stored(o, stamp) ==
  LET made == dgJob[o].made
      Of(d) == {m \in made : m.schedule = d}
  IN /\ dgLast' = [d \in Schedules |-> IF Of(d) = {} THEN dgLast[d] ELSE stamp]
     /\ dgReported' = [d \in Schedules |-> dgReported[d] \cup UNION {m.got : m \in Of(d)}]
     /\ dgMissed' = [d \in Schedules |-> dgMissed[d] \cup UNION {m.missed : m \in Of(d)}]
     /\ dgFrom' = [d \in Schedules |-> Max({dgFrom[d]} \cup {m.from : m \in Of(d)})]

\* Mutant: the schedules are stamped with the time of the commit.
GenerateLateStamp(o) ==
  /\ dgJob[o] # NoDigest /\ dgJob[o].todo = <<>>
  /\ Stored(o, dgNow)
  /\ dgJob' = [dgJob EXCEPT ![o] = NoDigest]
  /\ UNCHANGED <<dgNow, dgAt, dgLanded, dgDigests>>

\* The reports and the schedules, stamped with the time the digest began, are committed.
Generate(o) ==
  /\ dgJob[o] # NoDigest /\ dgJob[o].todo = <<>>
  /\ Stored(o, dgJob[o].now)
  /\ dgJob' = [dgJob EXCEPT ![o] = NoDigest]
  /\ UNCHANGED <<dgNow, dgAt, dgLanded, dgDigests>>

\* The transaction fails: neither a report nor a stamp remains.
DigestFails(o) ==
  /\ dgJob[o] # NoDigest /\ dgJob' = [dgJob EXCEPT ![o] = NoDigest]
  /\ UNCHANGED <<dgNow, dgAt, dgLanded, dgLast, dgReported, dgMissed, dgFrom, dgDigests>>

DgNext ==
  \/ DgTick \/ RunDue
  \/ \E i \in DgItems : Observe(i) \/ Land(i)
  \/ \E o \in Clerks, d \in Schedules : Request(o, d)
  \/ \E o \in Clerks \cup {"tick"} : Preview(o) \/ Generate(o) \/ DigestFails(o)

DgSpec == DgInit /\ [][DgNext]_dgVars

-----------------------------------------------------------------------------
(* "A digest aggregates already persisted observations and risk metadata": *)
(* everything between the start of a schedule's first digest and its last  *)
(* one is in some digest of it, however digests overlap or fail, but for   *)
(* what committed after the digest of its time had looked and what lay     *)
(* beyond the page.                                                        *)
NothingIsSkipped ==
  \A d \in Schedules : \A i \in dgLanded \ Low :
    dgFrom[d] <= dgAt[i] /\ dgAt[i] < dgLast[d] => i \in dgReported[d] \cup dgMissed[d]
-----------------------------------------------------------------------------
(* The inductive invariant.  Digests of a schedule overlap, and a slow one *)
(* may put last_generated_at back, so what NothingIsSkipped says of the    *)
(* present value is said of every value an open transaction has read, and  *)
(* of what each digest it has made will add.                               *)
Owners == Clerks \cup {"tick"}
Entry == [schedule : Schedules, from : Int, got : SUBSET DgItems, missed : SUBSET DgItems]
Turn == [schedule : Schedules, last : Int]
OpenJob == [step : {"open"}, now : Nat, made : SUBSET Entry, todo : Seq(Turn)]
Open(o) == dgJob[o] # NoDigest

DgTypeOK ==
  /\ dgNow \in Nat /\ dgDigests \in Nat
  /\ dgAt \in [DgItems -> Int] /\ dgLanded \subseteq DgItems
  /\ dgLast \in [Schedules -> Int] /\ dgFrom \in [Schedules -> Int]
  /\ dgJob \in [Owners -> {NoDigest} \cup OpenJob]
  /\ dgReported \in [Schedules -> SUBSET DgItems] /\ dgMissed \in [Schedules -> SUBSET DgItems]

\* Nothing is dated ahead of the clock, nothing of a digest ahead of its start.
TimesArePast ==
  /\ \A i \in DgItems : (dgAt[i] = NotYet \/ dgAt[i] >= 0) /\ dgAt[i] <= dgNow
  /\ \A i \in dgLanded : dgAt[i] >= 0
  /\ \A d \in Schedules : dgLast[d] <= dgNow
  /\ \A o \in Owners : Open(o) => dgJob[o].now <= dgNow /\ \A m \in dgJob[o].made : m.from <= dgJob[o].now

Dated(d, i) == dgAt[i] >= 0 /\ dgFrom[d] <= dgAt[i]
Answered(d, i) == i \in dgReported[d] \cup dgMissed[d]
CoveredUpTo(d, t) == \A i \in DgItems \ Low : Dated(d, i) /\ dgAt[i] < t => Answered(d, i)

LastIsCovered == \A d \in Schedules : CoveredUpTo(d, dgLast[d])
TurnsAreCovered(o) ==
  \A k \in DOMAIN dgJob[o].todo : CoveredUpTo(dgJob[o].todo[k].schedule, dgJob[o].todo[k].last)
EntriesCover(o) ==
  \A m \in dgJob[o].made, i \in DgItems \ Low :
    Dated(m.schedule, i) /\ m.from <= dgAt[i] /\ dgAt[i] < dgJob[o].now
      => i \in m.got \cup m.missed \/ Answered(m.schedule, i)
TurnsArePast(o) == \A k \in DOMAIN dgJob[o].todo : dgJob[o].todo[k].last <= dgNow
JobsAreCovered == \A o \in Owners : Open(o) => TurnsAreCovered(o) /\ TurnsArePast(o) /\ EntriesCover(o)

DigestInv == DgTypeOK /\ TimesArePast /\ LastIsCovered /\ JobsAreCovered
=============================================================================
