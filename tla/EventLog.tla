------------------------------ MODULE EventLog ------------------------------
(***************************************************************************)
(* The run events and their live stream: append_run_event_in_session, the  *)
(* only writer of run_events (workers, one event per transaction, and the  *)
(* recovery of the scheduler, several), the generator behind               *)
(* /api/v1/events/stream, and the browser tabs that follow it with         *)
(* Last-Event-ID.                                                          *)
(*                                                                         *)
(* A row has its run's own seq and the table-wide global_seq, drawn from   *)
(* an identity column: drawn on insert, not given back on rollback.  The   *)
(* advisory lock is held until the transaction ends.                       *)
(***************************************************************************)
EXTENDS Integers, FiniteSets

CONSTANTS
  Runs,
  Workers,     \* appenders that commit after one event
  Scheduler,   \* the appender whose transaction may hold several
  Tabs,        \* browser tabs of one browser: they share localStorage
  NoOne,       \* nobody holds the advisory lock
  LIMIT,       \* rows one poll of the stream fetches (50)
  MaxEvents,   \* bound: values drawn from the identity column
  MaxBreaks    \* bound: broken connections and reloads

ASSUME EventLogAssumption ==
  /\ LIMIT \in Nat \ {0} /\ MaxEvents \in Nat /\ MaxBreaks \in Nat
  /\ NoOne \notin Workers \cup {Scheduler}

VARIABLES
  elRows,     \* committed run_events
  elDraft,    \* inserted and not yet committed, per appender
  elLock,     \* holder of pg_advisory_xact_lock(727271)
  elIdentity, \* next global_seq
  elOpen,     \* the tabs whose stream is connected
  elCur,      \* the generator's cursor, per tab
  elFetched,  \* rows fetched and not yet sent, per tab
  elLast,     \* lastId of a tab
  elStored,   \* lastId in localStorage
  elBase,     \* history: lastId with which the page was opened
  elShown,    \* history: the ids a page has shown
  elBreaks

elLog == <<elRows, elDraft, elLock, elIdentity>>
elStream == <<elOpen, elCur, elFetched, elLast, elStored, elBase, elShown>>
elVars == <<elLog, elStream, elBreaks>>

Appenders == Workers \cup {Scheduler}
Events == [run : Runs, seq : Nat, g : Nat \ {0}]

ElInit ==
  /\ elRows = {} /\ elDraft = [a \in Appenders |-> {}]
  /\ elLock = NoOne /\ elIdentity = 1
  /\ elOpen = {} /\ elCur = [t \in Tabs |-> 0]
  /\ elFetched = [t \in Tabs |-> {}]
  /\ elLast = [t \in Tabs |-> 0] /\ elStored = 0
  /\ elBase = [t \in Tabs |-> 0] /\ elShown = [t \in Tabs |-> {}]
  /\ elBreaks = 0

-----------------------------------------------------------------------------
\* The next seq of a run, in the rows the appender's session sees.
SeqsOf(r, rows) == {e.seq : e \in {f \in rows : f.run = r}}

IsNextSeq(n, r, rows) ==
  /\ \A k \in SeqsOf(r, rows) : k < n
  /\ n = 0 \/ n - 1 \in SeqsOf(r, rows)

\* Mutant: only the run's row is locked, not the whole log.
AppendEventRowLock(a, r) ==
  /\ \A b \in Appenders \ {a} : \A d \in elDraft[b] : d.run # r
  /\ a = Scheduler \/ elDraft[a] = {}
  /\ elIdentity <= MaxEvents
  /\ elLock' = a /\ elIdentity' = elIdentity + 1
  /\ \E n \in 0 .. MaxEvents :
       /\ IsNextSeq(n, r, elRows \cup elDraft[a])
       /\ elDraft' = [elDraft EXCEPT ![a] = @ \cup {[run |-> r, seq |-> n, g |-> elIdentity]}]
  /\ UNCHANGED <<elRows, elStream, elBreaks>>

(* append_run_event_in_session: take the lock (or hold it already), number *)
(* the event after the run's last one, insert it.                          *)
AppendEvent(a, r) ==
  /\ elLock \in {NoOne, a} /\ (a = Scheduler \/ elDraft[a] = {})
  /\ elIdentity <= MaxEvents
  /\ elLock' = a /\ elIdentity' = elIdentity + 1
  /\ \E n \in 0 .. MaxEvents :
       /\ IsNextSeq(n, r, elRows \cup elDraft[a])
       /\ elDraft' = [elDraft EXCEPT ![a] = @ \cup {[run |-> r, seq |-> n, g |-> elIdentity]}]
  /\ UNCHANGED <<elRows, elStream, elBreaks>>

Commit(a) ==
  /\ elDraft[a] # {}
  /\ elRows' = elRows \cup elDraft[a]
  /\ elDraft' = [elDraft EXCEPT ![a] = {}] /\ elLock' = NoOne
  /\ UNCHANGED <<elIdentity, elStream, elBreaks>>

\* The transaction fails or its process dies: the numbers drawn are lost.
Abort(a) ==
  /\ elDraft[a] # {}
  /\ elDraft' = [elDraft EXCEPT ![a] = {}] /\ elLock' = NoOne
  /\ UNCHANGED <<elRows, elIdentity, elStream, elBreaks>>

-----------------------------------------------------------------------------
(* openSSE connects with its lastId; events_stream starts from there       *)
(* (_parse_sse_cursor).                                                    *)
Connect(t) ==
  /\ t \notin elOpen
  /\ elOpen' = elOpen \cup {t}
  /\ elCur' = [elCur EXCEPT ![t] = elLast[t]]
  /\ elFetched' = [elFetched EXCEPT ![t] = {}]
  /\ UNCHANGED <<elLog, elLast, elStored, elBase, elShown, elBreaks>>

\* _fetch_sse_events: the lowest LIMIT committed rows above the cursor.
Above(cur) == {e \in elRows : e.g > cur}

FetchAfter(cur) ==
  {e \in Above(cur) : Cardinality({f \in Above(cur) : f.g < e.g}) < LIMIT}

\* Mutant: a poll waits for a full page.
FetchFullPage(t) ==
  /\ t \in elOpen /\ elFetched[t] = {} /\ Cardinality(Above(elCur[t])) >= LIMIT
  /\ elFetched' = [elFetched EXCEPT ![t] = FetchAfter(elCur[t])]
  /\ UNCHANGED <<elLog, elOpen, elCur, elLast, elStored, elBase, elShown, elBreaks>>

Fetch(t) ==
  /\ t \in elOpen /\ elFetched[t] = {} /\ Above(elCur[t]) # {}
  /\ elFetched' = [elFetched EXCEPT ![t] = FetchAfter(elCur[t])]
  /\ UNCHANGED <<elLog, elOpen, elCur, elLast, elStored, elBase, elShown, elBreaks>>

(* The generator sends the rows in order of global_seq; the tab notes the  *)
(* id, in localStorage too, and shows the event.                           *)
Send(t) ==
  /\ t \in elOpen
  /\ \E e \in elFetched[t] :
       /\ \A f \in elFetched[t] : e.g <= f.g
       /\ elFetched' = [elFetched EXCEPT ![t] = @ \ {e}]
       /\ elCur' = [elCur EXCEPT ![t] = IF @ < e.g THEN e.g ELSE @]
       /\ elLast' = [elLast EXCEPT ![t] = e.g]
       /\ elStored' = e.g
       /\ elShown' = [elShown EXCEPT ![t] = @ \cup {e.g}]
  /\ UNCHANGED <<elLog, elOpen, elBase, elBreaks>>

\* The connection breaks: what was fetched, or is on the way, is lost.
Break(t) ==
  /\ t \in elOpen /\ elBreaks < MaxBreaks
  /\ elOpen' = elOpen \ {t} /\ elBreaks' = elBreaks + 1
  /\ UNCHANGED <<elLog, elCur, elFetched, elLast, elStored, elBase, elShown>>

\* The page is reloaded and goes on from the id in localStorage.
Reload(t) ==
  /\ elBreaks < MaxBreaks /\ elBreaks' = elBreaks + 1
  /\ elOpen' = elOpen \ {t}
  /\ elLast' = [elLast EXCEPT ![t] = elStored]
  /\ elBase' = [elBase EXCEPT ![t] = elStored]
  /\ elShown' = [elShown EXCEPT ![t] = {}]
  /\ UNCHANGED <<elLog, elCur, elFetched, elStored>>

\* What goes on by itself on the way to a tab.
Follow(t) == Connect(t) \/ Fetch(t) \/ Send(t)

ElNext ==
  \/ \E a \in Appenders : Commit(a) \/ Abort(a) \/ \E r \in Runs : AppendEvent(a, r)
  \/ \E t \in Tabs : Follow(t) \/ Break(t) \/ Reload(t)

ElSpec == ElInit /\ [][ElNext]_elVars

\* The tab reconnects by itself and the generator polls for ever.
ElFairness == \A t \in Tabs : WF_elVars(Follow(t))

-----------------------------------------------------------------------------
(* "global monotonic event ID" (models.RunEvent) as a cursor: a page has   *)
(* shown every committed event between the id it was opened with and the   *)
(* last one it received.  No event commits below an id already sent.       *)
StreamIsGapless ==
  \A t \in Tabs : \A e \in elRows :
    elBase[t] < e.g /\ e.g <= elLast[t] => e.g \in elShown[t]

\* The events of each run in a set of rows are numbered 0, 1, 2, ...
DenseSeqs(rows) ==
  /\ \A e \in rows : \A n \in 0 .. e.seq - 1 : \E f \in rows : f.run = e.run /\ f.seq = n
  /\ \A e, f \in rows : e.run = f.run /\ e.seq = f.seq => e = f

\* "first event seq 0", "safe seq": the events of a run are numbered from 0
\* without gaps or repeats, whatever transactions fail.
RunSeqsAreDense == DenseSeqs(elRows)

(* "auto-reconnect" (README): an event committed above the id a page was   *)
(* opened with is shown by that page, or the page is reloaded past it.     *)
EventsArrive ==
  \A t \in Tabs : \A g \in 1 .. MaxEvents :
    (\E e \in elRows : e.g = g /\ elBase[t] < g) ~> (g \in elShown[t] \/ elBase[t] >= g)

\* EventLog implements EventFeed: appenders, transactions, the lock, connections
\* and pages disappear, what is left is the committed rows and what a tab got.
Feed ==
  INSTANCE EventFeed WITH
    Readers <- Tabs, log <- elRows, from <- elBase, upto <- elLast, got <- elShown, noted <- elStored

(* What append_run_event_in_session promises the pages, as the             *)
(* specification EventFeed: committed events come after all that anybody   *)
(* can have read, those of a run numbered in the same order, and a page    *)
(* gets each of them next in turn, whatever breaks off in between.         *)
LogIsFeed == Feed!Spec
=============================================================================
