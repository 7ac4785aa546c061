------------------------------ MODULE Sources -------------------------------
(***************************************************************************)
(* The source monitor: the scheduler's pass over the sources that were     *)
(* observed longest ago (observe_sources) and the scans an operator asks   *)
(* for (scan_source), both through SourceMonitor.observe.                  *)
(*                                                                         *)
(* Only the order of the times last_observed_at is kept: srOrder lists the *)
(* sources by it, never observed ones first and by name.  An observation   *)
(* takes its time when it starts and stores it when it ends; one that has  *)
(* started holds the place <<who, s>> in the list, which the row <<"row",  *)
(* s>> of its source takes over.                                           *)
(* What a fetch returns (a hash, or an error) is chosen when it starts.    *)
(***************************************************************************)
EXTENDS Integers, Sequences, SequencesExt, FiniteSets

CONSTANTS
  ByName,        \* the sources, ordered by name
  Broken,        \* sources whose fetch always fails
  Hashes,
  Operators,     \* scans the API can be handling at once
  PerTick,       \* SOURCE_MONITOR_MAX_PER_TICK
  SrMaxFaults    \* bound: transient fetch errors, scans and changes of is_enabled

ASSUME SourcesAssumption ==
  PerTick \in Nat \ {0} /\ SrMaxFaults \in Nat /\ "tick" \notin Operators

VARIABLES
  srOrder,    \* rows and started observations, by time
  srHash,     \* last_content_hash, "" when never observed
  srBackoff,  \* backoff_until: null, still to come, or past
  srOff,      \* sources that are not enabled
  srTodo,     \* the pass: sources still to visit
  srHeld,     \* the pass: sources whose backoff_until lies after its `now`
  srJob,      \* per observer: the observation under way
  srObs,      \* last observation: who, hash, change_type, whether its row had changed
              \* since it was read; and the hash of the one before, and whether that did
  srFaults

srVars == <<srOrder, srHash, srBackoff, srOff, srTodo, srHeld, srJob, srObs, srFaults>>

SourceSet == ToSet(ByName)
Observers == Operators \cup {"tick"}
NoJob == [step |-> "idle"]
SrError == "error"

SrInit ==
  /\ srOrder = [k \in DOMAIN ByName |-> <<"row", ByName[k]>>]
  /\ srHash = [s \in SourceSet |-> ""]
  /\ srBackoff = [s \in SourceSet |-> "null"] /\ srOff = {} /\ srTodo = <<>> /\ srHeld = {}
  /\ srJob = [o \in Observers |-> NoJob]
  /\ srObs = [s \in SourceSet |-> NoJob]
  /\ srFaults = 0

SrBudget == srFaults < SrMaxFaults /\ srFaults' = srFaults + 1

-----------------------------------------------------------------------------
\* observe up to its writes: the row is in the session, the fetch has been made.
Start(o, s) ==
  /\ srOrder' = Append(srOrder, <<o, s>>)
  /\ \E r \in IF s \in Broken THEN {SrError} ELSE Hashes \cup {SrError} :
       /\ IF o # "tick" \/ (s \notin Broken /\ r = SrError) THEN SrBudget ELSE UNCHANGED srFaults
       /\ srJob' = [srJob EXCEPT ![o] = [step |-> "fetched", source |-> s, result |-> r,
                                         previous |-> srHash[s], backoff |-> srBackoff[s]]]

change_type(previous, hash) ==
  IF previous = "" THEN "INITIAL" ELSE IF previous # hash THEN "CHANGED" ELSE "UNCHANGED"

\* The hash of the last observation, and whether it lost a race with another.
HashOf(s) == IF srObs[s] = NoJob THEN "" ELSE srObs[s].hash
Raced(s) == srObs[s] # NoJob /\ srObs[s].raced

\* The started observation's place in the list: taken over, or given up.
TakePlace(o, s) ==
  LET rest == SelectSeq(srOrder, LAMBDA x : x # <<"row", s>>)
  IN [k \in DOMAIN rest |-> IF rest[k] = <<o, s>> THEN <<"row", s>> ELSE rest[k]]
GiveUpPlace(o, s) == SelectSeq(srOrder, LAMBDA x : x # <<o, s>>)

\* An assignment of the value that was read is no UPDATE: the row keeps what
\* another session has committed in the meantime.
Assigned(read, new, row) == IF new = read THEN row ELSE new

(* The rest of observe, to the commit: _record_error, which leaves         *)
(* last_observed_at and the hash alone and sets the backoff, or the new    *)
(* hash, no backoff and the observation.                                   *)
Finish(o) ==
  LET j == srJob[o]  s == srJob[o].source IN
  /\ j.step = "fetched"
  /\ \/ /\ j.result = SrError
        /\ srOrder' = GiveUpPlace(o, s)
        /\ srBackoff' = [srBackoff EXCEPT ![s] = "coming"] /\ srHeld' = srHeld \cup {s}
        /\ UNCHANGED <<srHash, srObs>>
     \/ /\ j.result # SrError
        /\ srOrder' = TakePlace(o, s)
        /\ srHash' = [srHash EXCEPT ![s] = Assigned(j.previous, j.result, @)]
        /\ srBackoff' = [srBackoff EXCEPT ![s] = Assigned(j.backoff, "null", @)]
        /\ srHeld' = IF j.backoff = "null" THEN srHeld ELSE srHeld \ {s}
        /\ srObs' = [srObs EXCEPT ![s] =
             [step |-> "recorded", by |-> o, hash |-> j.result,
              type |-> change_type(j.previous, j.result), raced |-> j.previous # srHash[s],
              before |-> HashOf(s), overRaced |-> Raced(s)]]
  /\ srJob' = [srJob EXCEPT ![o] = NoJob]
  /\ UNCHANGED <<srOff, srTodo, srFaults>>

-----------------------------------------------------------------------------
\* The sources by last_observed_at.
ListedRows ==
  LET rows == SelectSeq(srOrder, LAMBDA x : x[1] = "row")
  IN [k \in DOMAIN rows |-> rows[k][2]]

\* Mutant: the pass takes the sources in the order of their names.
PickByName ==
  LET listed == SelectSeq(ByName, LAMBDA x : x \notin srOff)
  IN SubSeq(listed, 1, IF Len(listed) < PerTick THEN Len(listed) ELSE PerTick)

\* The first PerTick enabled sources of the list.
Pick ==
  LET listed == SelectSeq(ListedRows, LAMBDA x : x \notin srOff)
  IN SubSeq(listed, 1, IF Len(listed) < PerTick THEN Len(listed) ELSE PerTick)

\* observe_sources begins: its `now` is fixed for the whole pass.
PassBegins ==
  /\ srTodo = <<>> /\ srJob["tick"] = NoJob /\ Pick # <<>>
  /\ srTodo' = Pick /\ srHeld' = {s \in SourceSet : srBackoff[s] = "coming"}
  /\ UNCHANGED <<srOrder, srHash, srBackoff, srOff, srJob, srObs, srFaults>>

\* One source: its row is locked, disabled or backing off means it is passed over.
Visit ==
  /\ srTodo # <<>> /\ srJob["tick"] = NoJob /\ srTodo' = Tail(srTodo)
  /\ LET s == Head(srTodo) IN
       \/ s \in srOff \cup srHeld /\ UNCHANGED <<srOrder, srJob, srFaults>>
       \/ s \notin srOff \cup srHeld /\ Start("tick", s)
  /\ UNCHANGED <<srHash, srBackoff, srOff, srHeld, srObs>>

VisitEnds == Finish("tick")

\* scan_source: the row is loaded without a lock and whatever its backoff.
Scan(o, s) ==
  /\ srJob[o] = NoJob /\ s \notin srOff /\ Start(o, s)
  /\ UNCHANGED <<srHash, srBackoff, srOff, srTodo, srHeld, srObs>>

\* Its UPDATE waits while the pass has the row locked.
ScanEnds(o) ==
  /\ srJob[o] # NoJob
  /\ ~ (srJob["tick"] # NoJob /\ srJob["tick"].source = srJob[o].source)
  /\ Finish(o)

\* update_source, as far as is_enabled goes; it too waits for the locked row.
Toggle(s) ==
  /\ SrBudget /\ ~ (srJob["tick"] # NoJob /\ srJob["tick"].source = s)
  /\ srOff' = IF s \in srOff THEN srOff \ {s} ELSE srOff \cup {s}
  /\ UNCHANGED <<srOrder, srHash, srBackoff, srTodo, srHeld, srJob, srObs>>

\* backoff_until has passed; a pass under way still compares it with its own `now`.
BackoffEnds(s) ==
  /\ srBackoff[s] = "coming" /\ srBackoff' = [srBackoff EXCEPT ![s] = "past"]
  /\ UNCHANGED <<srOrder, srHash, srOff, srTodo, srHeld, srJob, srObs, srFaults>>

Pass == PassBegins \/ Visit \/ VisitEnds

SrNext ==
  \/ Pass
  \/ \E o \in Operators : ScanEnds(o) \/ \E s \in SourceSet : Scan(o, s)
  \/ \E s \in SourceSet : Toggle(s) \/ BackoffEnds(s)

SrSpec == SrInit /\ [][SrNext]_srVars

\* The scheduler's loop never ends and time goes on.
SrFairness == WF_srVars(Pass) /\ \A s \in SourceSet : WF_srVars(BackoffEnds(s))

-----------------------------------------------------------------------------
(* What the pass records says rightly how the source differs from the      *)
(* observation before it, whatever scans overlap the pass: its row is      *)
(* locked from the read to the commit, and no pass ever races.  Only the   *)
(* observation of a scan that raced, which reads without a lock, may be    *)
(* wrong, and mislead the one after it: its row may hold another hash.     *)
ChangeMatchesHistory ==
  \A s \in SourceSet : srObs[s] # NoJob /\ srObs[s].by = "tick" =>
    /\ ~srObs[s].raced
    /\ srObs[s].overRaced \/ srObs[s].type = change_type(srObs[s].before, srObs[s].hash)

(* Why it says so: the hash of a row is that of its latest observation but *)
(* for a raced one that found the hash it had read, which writes none; and *)
(* what the pass read under its lock is still there when it commits.       *)
HashIsLatest == \A s \in SourceSet : Raced(s) \/ srHash[s] = HashOf(s)
ReadUnderLock ==
  LET job == srJob["tick"]
  IN job # NoJob /\ job.source \in SourceSet => job.previous = srHash[job.source]
SourcesInv ==
  /\ DOMAIN srHash = SourceSet /\ DOMAIN srObs = SourceSet /\ DOMAIN srJob = Observers
  /\ \A o \in Observers : srJob[o] = NoJob \/ srJob[o].step = "fetched"
  /\ \A s \in SourceSet : srObs[s] = NoJob \/ srObs[s].step = "recorded"
  /\ HashIsLatest /\ ReadUnderLock /\ ChangeMatchesHistory

(* The rotation: while fewer sources are broken than a pass takes, every   *)
(* enabled sound source is the latest observed one again and again,        *)
(* although a failing source keeps its place at the front of the list.     *)
SoundSourcesAreRevisited ==
  \A s \in SourceSet \ Broken :
    (srTodo # <<>> /\ s \notin srOff)
      ~> (Last(ListedRows) = s \/ s \in srOff)

\* The pass tells rightly what has changed, and gets round to every source.
SourcesAreWatched == []ChangeMatchesHistory /\ SoundSourcesAreRevisited
=============================================================================
