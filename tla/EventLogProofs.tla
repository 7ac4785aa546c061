--------------------------- MODULE EventLogProofs ---------------------------
(***************************************************************************)
(* Proofs about EventLog, for any number of runs, appenders, tabs and      *)
(* events and any page size: the stream has no gaps, the events of a run   *)
(* are densely numbered, and both together implement EventFeed.            *)
(*                                                                         *)
(* The argument.  The advisory lock keeps all drafts with one appender     *)
(* (LockInv), so every draft has a higher global_seq than every committed  *)
(* row (OrderInv) and than every id a tab has seen (SeenInv): a commit     *)
(* never lands below a cursor.  What a generator has fetched is closed     *)
(* downwards above its cursor (FetchInv), so sending the lowest row skips  *)
(* none.  Numbering is dense in what an appender sees (SeqInv) and follows *)
(* the ids (RunOrderInv), so a commit extends the log of EventFeed.        *)
(***************************************************************************)
EXTENDS EventLog, FiniteSetTheorems, TLAPS

\* The types of the log and of the stream.
ElTypeOK ==
  /\ elRows \in SUBSET Events /\ IsFiniteSet(elRows)
  /\ elDraft \in [Appenders -> SUBSET Events]
  /\ \A a \in Appenders : IsFiniteSet(elDraft[a])
  /\ elLock \in Appenders \cup {NoOne} /\ elIdentity \in Nat \ {0}
  /\ elOpen \in SUBSET Tabs /\ elCur \in [Tabs -> Nat]
  /\ elFetched \in [Tabs -> SUBSET Events]
  /\ elLast \in [Tabs -> Nat] /\ elStored \in Nat
  /\ elBase \in [Tabs -> Nat] /\ elShown \in [Tabs -> SUBSET Nat]
  /\ elBreaks \in Nat

LockInv == \A a \in Appenders : elDraft[a] # {} => elLock = a

OrderInv ==
  /\ \A e \in elRows : e.g < elIdentity
  /\ \A a \in Appenders : \A d \in elDraft[a] : d.g < elIdentity /\ \A e \in elRows : e.g < d.g

UniqueInv ==
  /\ \A e, f \in elRows : e.g = f.g => e = f
  /\ \A a \in Appenders : \A d, e \in elDraft[a] : d.g = e.g => d = e

SeenInv ==
  /\ elStored < elIdentity
  /\ \A t \in Tabs : elLast[t] < elIdentity
  /\ \A a \in Appenders : \A d \in elDraft[a] :
       elStored < d.g /\ \A t \in Tabs : elLast[t] < d.g

FetchInv ==
  \A t \in elOpen :
    /\ elCur[t] = elLast[t]
    /\ \A e \in elFetched[t] : e \in elRows /\ e.g > elCur[t]
    /\ \A e \in elFetched[t] : \A f \in elRows :
         f.g > elCur[t] /\ f.g < e.g => f \in elFetched[t]

SeqInv == \A a \in Appenders : DenseSeqs(elRows \cup elDraft[a])

\* The inductive invariant.
ElInv ==
  /\ ElTypeOK /\ LockInv /\ OrderInv /\ UniqueInv /\ SeenInv /\ FetchInv /\ SeqInv
  /\ StreamIsGapless /\ RunSeqsAreDense

-----------------------------------------------------------------------------
USE EventLogAssumption

(* A page of rows is closed downwards: the rows below a fetched one have   *)
(* no more rows below them than it has.                                    *)
LEMMA PageIsDownClosed ==
  ASSUME ElTypeOK, NEW cur \in Nat, NEW e \in FetchAfter(cur), NEW f \in elRows,
         f.g > cur, f.g < e.g
  PROVE  f \in FetchAfter(cur)
<1> DEFINE Below(x) == {h \in Above(cur) : h.g < x.g}
<1>1. e \in elRows /\ e.g \in Nat /\ f.g \in Nat /\ f \in Above(cur)
  BY DEF ElTypeOK, FetchAfter, Above, Events
<1>2. IsFiniteSet(Below(e))
  <2>1. Below(e) \subseteq elRows
    BY DEF Above
  <2> QED BY <2>1, FS_Subset DEF ElTypeOK
<1>3. Below(f) \subseteq Below(e)
  <2> SUFFICES ASSUME NEW h \in Below(f) PROVE h \in Below(e)
    OBVIOUS
  <2>1. h \in Above(cur) /\ h.g < f.g /\ h.g \in Nat
    BY DEF Above, ElTypeOK, Events
  <2> QED BY <2>1, <1>1
<1>4. Cardinality(Below(f)) <= Cardinality(Below(e)) /\ Cardinality(Below(e)) \in Nat
        /\ Cardinality(Below(f)) \in Nat
  BY <1>2, <1>3, FS_Subset, FS_CardinalityType
<1>5. Cardinality(Below(e)) < LIMIT
  BY DEF FetchAfter
<1>6. Cardinality(Below(f)) < LIMIT
  BY <1>4, <1>5
<1> QED BY <1>1, <1>6 DEF FetchAfter

(* Numbering an event after its run's last one keeps the numbering dense.  *)
LEMMA NextSeqKeepsDense ==
  ASSUME NEW rows \in SUBSET Events, DenseSeqs(rows), NEW r \in Runs, NEW n \in Nat,
         IsNextSeq(n, r, rows), NEW x \in Events, x.run = r, x.seq = n
  PROVE  DenseSeqs(rows \cup {x})
<1> DEFINE S == rows \cup {x}
<1>1. \A e \in rows : e.run = r => e.seq < n
  BY DEF IsNextSeq, SeqsOf
<1>2. ASSUME NEW e \in S, NEW k \in 0 .. e.seq - 1
      PROVE  \E f \in S : f.run = e.run /\ f.seq = k
  <2>1. CASE e \in rows
    BY <2>1 DEF DenseSeqs
  <2>2. CASE e = x
    <3>1. n # 0 /\ k \in 0 .. n - 1
      BY <2>2
    <3>2. PICK h \in rows : h.run = r /\ h.seq = n - 1
      BY <3>1 DEF IsNextSeq, SeqsOf
    <3>3. CASE k = n - 1
      BY <2>2, <3>2, <3>3
    <3>4. CASE k # n - 1
      <4>1. k \in 0 .. h.seq - 1
        BY <3>1, <3>2, <3>4
      <4>2. PICK f \in rows : f.run = h.run /\ f.seq = k
        BY <4>1 DEF DenseSeqs
      <4> QED BY <4>2, <3>2, <2>2
    <3> QED BY <3>3, <3>4
  <2> QED BY <2>1, <2>2
<1>3. ASSUME NEW e \in S, NEW f \in S, e.run = f.run, e.seq = f.seq
      PROVE  e = f
  <2>1. CASE e \in rows /\ f \in rows
    BY <1>3, <2>1 DEF DenseSeqs
  <2>2. CASE e = x /\ f \in rows
    BY <1>1, <1>3, <2>2 DEF Events
  <2>3. CASE e \in rows /\ f = x
    BY <1>1, <1>3, <2>3 DEF Events
  <2> QED BY <2>1, <2>2, <2>3
<1> QED BY <1>2, <1>3 DEF DenseSeqs

LEMMA ElInitInv == ElInit => ElInv
<1> SUFFICES ASSUME ElInit PROVE ElInv
  OBVIOUS
<1>1. ElTypeOK
  BY FS_EmptySet DEF ElInit, ElTypeOK, Appenders
<1>2. LockInv /\ OrderInv /\ UniqueInv /\ SeenInv /\ FetchInv /\ StreamIsGapless
  BY DEF ElInit, LockInv, OrderInv, UniqueInv, SeenInv, FetchInv, StreamIsGapless
<1>3. SeqInv /\ RunSeqsAreDense
  BY DEF ElInit, SeqInv, RunSeqsAreDense, DenseSeqs
<1> QED BY <1>1, <1>2, <1>3 DEF ElInv

(* Appending: only the appender's drafts and the identity change.          *)
LEMMA AppendKeeps ==
  ASSUME ElInv, NEW a \in Appenders, NEW r \in Runs, AppendEvent(a, r)
  PROVE  ElInv'
<1> USE DEF ElInv
<1>0. PICK n \in 0 .. MaxEvents :
        /\ IsNextSeq(n, r, elRows \cup elDraft[a])
        /\ elDraft' = [elDraft EXCEPT ![a] = @ \cup {[run |-> r, seq |-> n, g |-> elIdentity]}]
  BY DEF AppendEvent
<1> DEFINE x == [run |-> r, seq |-> n, g |-> elIdentity]
<1>1. x \in Events /\ x.run = r /\ x.seq = n /\ x.g = elIdentity /\ n \in Nat
  BY DEF Events, ElTypeOK
<1>2. /\ elDraft'[a] = elDraft[a] \cup {x}
      /\ \A b \in Appenders \ {a} : elDraft'[b] = elDraft[b]
      /\ elDraft' \in [Appenders -> SUBSET Events]
  BY <1>0, <1>1 DEF ElTypeOK
<1>3. elLock' = a /\ elIdentity' = elIdentity + 1 /\ elIdentity \in Nat \ {0} /\ elRows' = elRows
  BY DEF AppendEvent, ElTypeOK
<1>4. UNCHANGED <<elOpen, elCur, elFetched, elLast, elStored, elBase, elShown, elBreaks>>
  BY DEF AppendEvent, elStream
<1>5. \A b \in Appenders \ {a} : elDraft[b] = {}
  <2>1. elLock \in {NoOne, a}
    BY DEF AppendEvent
  <2> QED BY <2>1 DEF LockInv, Appenders
<1> HIDE DEF x
<1>6. ElTypeOK'
  <2>1. IsFiniteSet(elDraft[a] \cup {x})
    BY FS_AddElement DEF ElTypeOK
  <2>2. \A b \in Appenders : IsFiniteSet(elDraft'[b])
    BY <2>1, <1>2 DEF ElTypeOK
  <2> QED BY <2>2, <1>2, <1>3, <1>4 DEF ElTypeOK
<1>7. LockInv'
  BY <1>2, <1>3, <1>5 DEF LockInv
<1>8. OrderInv'
  BY <1>1, <1>2, <1>3, <1>5 DEF OrderInv, ElTypeOK, Events
<1>9. UniqueInv'
  BY <1>1, <1>2, <1>3, <1>5 DEF UniqueInv, OrderInv, ElTypeOK, Events
<1>10. SeenInv'
  BY <1>1, <1>2, <1>3, <1>4, <1>5 DEF SeenInv, ElTypeOK, Events
<1>11. FetchInv' /\ StreamIsGapless'
  BY <1>3, <1>4 DEF FetchInv, StreamIsGapless
<1>12. SeqInv'
  <2>1. elRows \cup elDraft[a] \in SUBSET Events
    BY DEF ElTypeOK
  <2>2. DenseSeqs(elRows \cup elDraft[a])
    BY DEF SeqInv
  <2>3. DenseSeqs((elRows \cup elDraft[a]) \cup {x})
    BY <2>1, <2>2, <1>0, <1>1, NextSeqKeepsDense
  <2>4. elRows' \cup elDraft'[a] = (elRows \cup elDraft[a]) \cup {x}
    BY <1>2, <1>3
  <2>5. ASSUME NEW b \in Appenders \ {a} PROVE elRows' \cup elDraft'[b] = elRows
    BY <1>2, <1>3, <1>5
  <2>6. DenseSeqs(elRows)
    BY DEF RunSeqsAreDense
  <2>7. ASSUME NEW b \in Appenders PROVE DenseSeqs(elRows' \cup elDraft'[b])
    BY <2>3, <2>4, <2>5, <2>6
  <2> QED BY <2>7 DEF SeqInv, DenseSeqs
<1>13. RunSeqsAreDense'
  BY <1>3 DEF RunSeqsAreDense, DenseSeqs
<1> QED BY <1>6, <1>7, <1>8, <1>9, <1>10, <1>11, <1>12, <1>13

(* Ending a transaction: the log grows by the drafts or by nothing.        *)
LEMMA EndKeeps ==
  ASSUME ElInv, NEW a \in Appenders, Commit(a) \/ Abort(a)
  PROVE  ElInv'
<1> USE DEF ElInv
<1>1. /\ elRows' = elRows \cup elDraft[a] \/ elRows' = elRows
      /\ elDraft[a] # {}
      /\ elDraft' = [elDraft EXCEPT ![a] = {}] /\ elLock' = NoOne
      /\ UNCHANGED <<elIdentity, elOpen, elCur, elFetched, elLast, elStored, elBase, elShown, elBreaks>>
  BY DEF Commit, Abort, elStream
<1>2. \A b \in Appenders : elDraft'[b] = {}
  BY <1>1 DEF LockInv, ElTypeOK
<1>3. /\ elRows' \in SUBSET Events /\ elRows \subseteq elRows'
      /\ \A e \in elRows' : e \in elRows \/ e \in elDraft[a]
  BY <1>1 DEF ElTypeOK
<1>4. ElTypeOK'
  <2>1. IsFiniteSet(elRows')
    <3>1. IsFiniteSet(elRows) /\ IsFiniteSet(elDraft[a])
      BY DEF ElTypeOK
    <3>2. IsFiniteSet(elRows \cup elDraft[a])
      BY <3>1, FS_Union
    <3>3. elRows' = elRows \cup elDraft[a] \/ elRows' = elRows
      BY <1>1
    <3>4. CASE elRows' = elRows
      BY <3>1, <3>4
    <3>5. CASE elRows' = elRows \cup elDraft[a]
      BY <3>2, <3>5
    <3> HIDE DEF ElInv
    <3> QED BY <3>3, <3>4, <3>5
  <2>2. \A b \in Appenders : IsFiniteSet(elDraft'[b])
    BY <1>2, FS_EmptySet
  <2>3. elDraft' \in [Appenders -> SUBSET Events]
    BY <1>1 DEF ElTypeOK
  <2> QED BY <1>1, <1>3, <2>1, <2>2, <2>3 DEF ElTypeOK
<1>5. LockInv'
  BY <1>2 DEF LockInv
<1>6. OrderInv'
  BY <1>1, <1>2, <1>3 DEF OrderInv
<1>7. UniqueInv'
  <2> SUFFICES ASSUME NEW e \in elRows', NEW f \in elRows', e.g = f.g PROVE e = f
    BY <1>2 DEF UniqueInv
  <2>1. e.g \in Nat /\ f.g \in Nat
    BY <1>3 DEF Events
  <2>2. CASE e \in elRows /\ f \in elRows
    BY <2>2 DEF UniqueInv
  <2>3. CASE e \in elDraft[a] /\ f \in elDraft[a]
    BY <2>3 DEF UniqueInv
  <2>4. CASE e \in elRows /\ f \in elDraft[a]
    BY <2>1, <2>4 DEF OrderInv
  <2>5. CASE e \in elDraft[a] /\ f \in elRows
    BY <2>1, <2>5 DEF OrderInv
  <2> QED BY <1>3, <2>2, <2>3, <2>4, <2>5
<1>8. SeenInv'
  BY <1>1, <1>2 DEF SeenInv
<1>9. FetchInv'
  <2> SUFFICES ASSUME NEW t \in elOpen, NEW e \in elFetched[t], NEW f \in elRows',
                      f.g > elCur[t], f.g < e.g
               PROVE  f \in elFetched[t]
    BY <1>1, <1>3 DEF FetchInv
  <2>1. e \in elRows /\ e.g \in Nat /\ f.g \in Nat
    BY <1>3 DEF FetchInv, ElTypeOK, Events
  <2>2. CASE f \in elRows
    BY <2>2 DEF FetchInv
  <2>3. CASE f \in elDraft[a]
    <3>1. e.g < f.g
      BY <2>1, <2>3 DEF OrderInv
    <3> QED BY <3>1, <2>1
  <2> QED BY <1>3, <2>2, <2>3
<1>10. StreamIsGapless'
  <2> SUFFICES ASSUME NEW t \in Tabs, NEW e \in elRows', elBase[t] < e.g, e.g <= elLast[t]
               PROVE  e.g \in elShown[t]
    BY <1>1 DEF StreamIsGapless
  <2>1. CASE e \in elRows
    BY <2>1 DEF StreamIsGapless
  <2>2. CASE e \in elDraft[a]
    <3>1. elLast[t] < e.g /\ elLast[t] \in Nat /\ e.g \in Nat
      BY <1>3, <2>2 DEF SeenInv, ElTypeOK, Events
    <3> QED BY <3>1
  <2> QED BY <1>3, <2>1, <2>2
<1>11. DenseSeqs(elRows')
  <2>1. DenseSeqs(elRows \cup elDraft[a]) /\ DenseSeqs(elRows)
    BY DEF SeqInv, RunSeqsAreDense
  <2> QED BY <1>1, <2>1
<1>12. SeqInv' /\ RunSeqsAreDense'
  <2>1. \A b \in Appenders : elRows' \cup elDraft'[b] = elRows'
    BY <1>2
  <2>2. \A b \in Appenders : DenseSeqs(elRows' \cup elDraft'[b])
    BY <1>11, <2>1
  <2> QED BY <1>11, <2>2 DEF SeqInv, RunSeqsAreDense, DenseSeqs
<1> QED BY <1>4, <1>5, <1>6, <1>7, <1>8, <1>9, <1>10, <1>12

(* Streaming leaves the log alone.                                         *)
LEMMA LogUntouched ==
  ASSUME ElInv, UNCHANGED elLog
  PROVE  LockInv' /\ OrderInv' /\ UniqueInv' /\ SeqInv' /\ RunSeqsAreDense'
<1>1. UNCHANGED <<elRows, elDraft, elLock, elIdentity>>
  BY DEF elLog
<1> QED BY <1>1 DEF ElInv, LockInv, OrderInv, UniqueInv, SeqInv, RunSeqsAreDense, DenseSeqs

LEMMA ConnectKeeps ==
  ASSUME ElInv, NEW t \in Tabs, Connect(t)
  PROVE  ElInv'
<1> USE DEF ElInv
<1>1. LockInv' /\ OrderInv' /\ UniqueInv' /\ SeqInv' /\ RunSeqsAreDense'
  BY LogUntouched DEF Connect
<1>2. ElTypeOK'
  BY DEF Connect, ElTypeOK, elLog
<1>3. SeenInv' /\ StreamIsGapless'
  BY DEF Connect, SeenInv, StreamIsGapless, elLog
<1>4. FetchInv'
  BY DEF Connect, FetchInv, ElTypeOK, elLog
<1> QED BY <1>1, <1>2, <1>3, <1>4

LEMMA FetchKeeps ==
  ASSUME ElInv, NEW t \in Tabs, Fetch(t)
  PROVE  ElInv'
<1> USE DEF ElInv
<1>1. LockInv' /\ OrderInv' /\ UniqueInv' /\ SeqInv' /\ RunSeqsAreDense'
  BY LogUntouched DEF Fetch
<1>2. /\ t \in elOpen /\ elFetched' = [elFetched EXCEPT ![t] = FetchAfter(elCur[t])]
      /\ UNCHANGED <<elRows, elDraft, elLock, elIdentity, elOpen, elCur, elLast, elStored,
                     elBase, elShown, elBreaks>>
  BY DEF Fetch, elLog
<1>3. \A e \in FetchAfter(elCur[t]) : e \in elRows /\ e.g > elCur[t]
  BY DEF FetchAfter, Above
<1>4. elFetched' \in [Tabs -> SUBSET Events] /\ elFetched'[t] = FetchAfter(elCur[t])
  BY <1>2, <1>3 DEF ElTypeOK
<1>5. ElTypeOK'
  BY <1>2, <1>4 DEF ElTypeOK
<1>6. SeenInv' /\ StreamIsGapless'
  BY <1>2 DEF SeenInv, StreamIsGapless
<1>7. elCur[t] \in Nat
  BY DEF ElTypeOK
<1>8. \A e \in FetchAfter(elCur[t]) : \A f \in elRows :
        f.g > elCur[t] /\ f.g < e.g => f \in FetchAfter(elCur[t])
  BY <1>7, PageIsDownClosed
<1>9. \A u \in elOpen \ {t} : elFetched'[u] = elFetched[u]
  BY <1>2 DEF ElTypeOK
<1>10. FetchInv'
  BY <1>2, <1>3, <1>4, <1>8, <1>9 DEF FetchInv
<1> QED BY <1>1, <1>5, <1>6, <1>10

LEMMA SendKeeps ==
  ASSUME ElInv, NEW t \in Tabs, Send(t)
  PROVE  ElInv'
<1> USE DEF ElInv
<1>1. LockInv' /\ OrderInv' /\ UniqueInv' /\ SeqInv' /\ RunSeqsAreDense'
  BY LogUntouched DEF Send
<1>2. PICK e \in elFetched[t] :
        /\ \A f \in elFetched[t] : e.g <= f.g
        /\ elFetched' = [elFetched EXCEPT ![t] = @ \ {e}]
        /\ elCur' = [elCur EXCEPT ![t] = IF @ < e.g THEN e.g ELSE @]
        /\ elLast' = [elLast EXCEPT ![t] = e.g]
        /\ elStored' = e.g
        /\ elShown' = [elShown EXCEPT ![t] = @ \cup {e.g}]
  BY DEF Send
<1>3. t \in elOpen /\ UNCHANGED <<elRows, elDraft, elLock, elIdentity, elOpen, elBase, elBreaks>>
  BY DEF Send, elLog
<1>4. e \in elRows /\ e.g > elCur[t] /\ e.g \in Nat /\ elCur[t] \in Nat /\ elCur[t] = elLast[t]
  BY <1>3 DEF FetchInv, ElTypeOK, Events
<1>5. /\ elCur'[t] = e.g /\ elLast'[t] = e.g /\ elFetched'[t] = elFetched[t] \ {e}
      /\ elShown'[t] = elShown[t] \cup {e.g}
  BY <1>2, <1>4 DEF ElTypeOK
<1>6. \A u \in Tabs \ {t} : /\ elCur'[u] = elCur[u] /\ elLast'[u] = elLast[u]
                            /\ elFetched'[u] = elFetched[u] /\ elShown'[u] = elShown[u]
  BY <1>2 DEF ElTypeOK
<1>7. ElTypeOK'
  BY <1>2, <1>3, <1>4 DEF ElTypeOK
<1>8. SeenInv'
  BY <1>2, <1>3, <1>4, <1>5, <1>6 DEF SeenInv, OrderInv
<1>9. FetchInv'
  <2>1. ASSUME NEW f \in elFetched[t] \ {e} PROVE f \in elRows /\ f.g > e.g
    <3>1. f \in elRows /\ f.g \in Nat /\ e.g <= f.g
      BY <1>2, <1>3, <2>1 DEF FetchInv, ElTypeOK, Events
    <3>2. f.g # e.g
      BY <1>4, <2>1, <3>1 DEF UniqueInv
    <3> QED BY <1>4, <3>1, <3>2
  <2>2. ASSUME NEW d \in elFetched[t] \ {e}, NEW f \in elRows, f.g > e.g, f.g < d.g
        PROVE  f \in elFetched[t] \ {e}
    <3>1. f.g \in Nat
      BY DEF ElTypeOK, Events
    <3>2. f.g > elCur[t]
      BY <1>4, <2>2, <3>1
    <3>3. f \in elFetched[t]
      BY <1>3, <2>2, <3>2 DEF FetchInv
    <3>4. f # e
      BY <1>4, <2>2
    <3> QED BY <3>3, <3>4
  <2>3. ASSUME NEW u \in elOpen \ {t}
        PROVE  /\ elCur'[u] = elLast'[u]
               /\ \A d \in elFetched'[u] : d \in elRows' /\ d.g > elCur'[u]
               /\ \A d \in elFetched'[u] : \A f \in elRows' :
                    f.g > elCur'[u] /\ f.g < d.g => f \in elFetched'[u]
    <3>1. u \in Tabs \ {t}
      BY DEF ElTypeOK
    <3> QED BY <1>3, <1>6, <3>1 DEF FetchInv
  <2> QED BY <1>3, <1>5, <2>1, <2>2, <2>3 DEF FetchInv
<1>10. StreamIsGapless'
  <2> SUFFICES ASSUME NEW u \in Tabs, NEW f \in elRows, elBase[u] < f.g, f.g <= elLast'[u]
               PROVE  f.g \in elShown'[u]
    BY <1>3 DEF StreamIsGapless
  <2>1. CASE u # t
    BY <1>6, <2>1 DEF StreamIsGapless
  <2>2. CASE u = t
    <3>1. f.g \in Nat /\ f.g <= e.g
      BY <1>5, <2>2 DEF ElTypeOK, Events
    <3>2. CASE f.g <= elLast[t]
      BY <1>5, <2>2, <3>2 DEF StreamIsGapless
    <3>3. CASE f.g > elLast[t] /\ f.g < e.g
      <4>1. f \in elFetched[t]
        BY <1>3, <1>4, <3>3 DEF FetchInv
      <4> QED BY <1>2, <1>4, <3>1, <3>3, <4>1
    <3>4. CASE f.g = e.g
      BY <1>5, <2>2, <3>4
    <3> QED BY <1>4, <3>1, <3>2, <3>3, <3>4
  <2> QED BY <2>1, <2>2
<1> QED BY <1>1, <1>7, <1>8, <1>9, <1>10

LEMMA BreakKeeps ==
  ASSUME ElInv, NEW t \in Tabs, Break(t) \/ Reload(t)
  PROVE  ElInv'
<1> USE DEF ElInv
<1>1. LockInv' /\ OrderInv' /\ UniqueInv' /\ SeqInv' /\ RunSeqsAreDense'
  BY LogUntouched DEF Break, Reload
<1>2. ElTypeOK'
  BY DEF Break, Reload, ElTypeOK, elLog
<1>3. SeenInv'
  BY DEF Break, Reload, SeenInv, ElTypeOK, elLog
<1>4. FetchInv'
  <2>1. elOpen' = elOpen \ {t} /\ UNCHANGED <<elRows, elCur, elFetched>>
    BY DEF Break, Reload, elLog
  <2>2. \A u \in Tabs \ {t} : elLast'[u] = elLast[u]
    BY DEF Break, Reload, ElTypeOK
  <2> QED BY <2>1, <2>2 DEF FetchInv, ElTypeOK
<1>5. StreamIsGapless'
  <2>1. CASE Break(t)
    BY <2>1 DEF Break, StreamIsGapless, elLog
  <2>2. CASE Reload(t)
    <3>1. elRows' = elRows /\ elLast'[t] = elBase'[t] /\ elBase'[t] \in Nat
      BY <2>2 DEF Reload, ElTypeOK, elLog
    <3>2. \A u \in Tabs \ {t} : elLast'[u] = elLast[u] /\ elBase'[u] = elBase[u] /\ elShown'[u] = elShown[u]
      BY <2>2 DEF Reload, ElTypeOK
    <3> QED BY <3>1, <3>2 DEF StreamIsGapless, ElTypeOK, Events
  <2> QED BY <2>1, <2>2
<1> QED BY <1>1, <1>2, <1>3, <1>4, <1>5

LEMMA ElInvIsInductive == ElInv /\ [ElNext]_elVars => ElInv'
<1> SUFFICES ASSUME ElInv, [ElNext]_elVars PROVE ElInv'
  OBVIOUS
<1>1. ASSUME NEW a \in Appenders, NEW r \in Runs, AppendEvent(a, r) PROVE ElInv'
  BY <1>1, AppendKeeps
<1>2. ASSUME NEW a \in Appenders, Commit(a) \/ Abort(a) PROVE ElInv'
  BY <1>2, EndKeeps
<1>3. ASSUME NEW t \in Tabs, Connect(t) PROVE ElInv'
  BY <1>3, ConnectKeeps
<1>4. ASSUME NEW t \in Tabs, Fetch(t) PROVE ElInv'
  BY <1>4, FetchKeeps
<1>5. ASSUME NEW t \in Tabs, Send(t) PROVE ElInv'
  BY <1>5, SendKeeps
<1>6. ASSUME NEW t \in Tabs, Break(t) \/ Reload(t) PROVE ElInv'
  BY <1>6, BreakKeeps
<1>7. CASE UNCHANGED elVars
  <2>1. UNCHANGED <<elRows, elDraft, elLock, elIdentity, elOpen, elCur, elFetched, elLast,
                    elStored, elBase, elShown, elBreaks>>
    BY <1>7 DEF elVars, elLog, elStream
  <2> QED BY <2>1 DEF ElInv, ElTypeOK, LockInv, OrderInv, UniqueInv, SeenInv, FetchInv, SeqInv,
                      StreamIsGapless, RunSeqsAreDense, DenseSeqs
<1> QED BY <1>1, <1>2, <1>3, <1>4, <1>5, <1>6, <1>7 DEF ElNext, Follow

(* The live stream has no gaps: a page has shown every committed event     *)
(* between the id it was opened with and the last one it received.         *)
THEOREM StreamHasNoGaps == ElSpec => []StreamIsGapless
<1>1. ElInv => StreamIsGapless
  BY DEF ElInv
<1> QED BY <1>1, ElInitInv, ElInvIsInductive, PTL DEF ElSpec

(* The events of every run are numbered 0, 1, 2, ... without gap or repeat,*)
(* whichever transactions abort.                                           *)
THEOREM SeqsAreDense == ElSpec => []RunSeqsAreDense
<1>1. ElInv => RunSeqsAreDense
  BY DEF ElInv
<1> QED BY <1>1, ElInitInv, ElInvIsInductive, PTL DEF ElSpec

-----------------------------------------------------------------------------
(* What the refinement needs besides: in what an appender sees, the events *)
(* of a run are numbered in the order of their ids.                        *)
InOrder(rows) == \A e, f \in rows : e.run = f.run /\ e.g < f.g => e.seq < f.seq
RunOrderInv == \A a \in Appenders : InOrder(elRows \cup elDraft[a])

LEMMA AppendKeepsRunOrder ==
  ASSUME ElInv, RunOrderInv, NEW a \in Appenders, NEW r \in Runs, AppendEvent(a, r)
  PROVE  RunOrderInv'
<1>0. ElTypeOK /\ LockInv /\ OrderInv
  BY DEF ElInv
<1>1. PICK n \in 0 .. MaxEvents :
        /\ IsNextSeq(n, r, elRows \cup elDraft[a])
        /\ elDraft' = [elDraft EXCEPT ![a] = @ \cup {[run |-> r, seq |-> n, g |-> elIdentity]}]
  BY DEF AppendEvent
<1>2. PICK x : x = [run |-> r, seq |-> n, g |-> elIdentity]
  OBVIOUS
<1>3. x.run = r /\ x.seq = n /\ x.g = elIdentity /\ elIdentity \in Nat
  BY <1>0, <1>2 DEF ElTypeOK
<1>4. /\ elRows' = elRows /\ elDraft'[a] = elDraft[a] \cup {x}
      /\ \A b \in Appenders \ {a} : elDraft'[b] = elDraft[b]
  BY <1>0, <1>1, <1>2 DEF AppendEvent, ElTypeOK
<1>5. \A e \in elRows \cup elDraft[a] : e.g \in Nat /\ e.g < elIdentity /\ (e.run = r => e.seq < n)
  <2>1. \A e \in elRows \cup elDraft[a] : e.g \in Nat /\ e.g < elIdentity
    BY <1>0 DEF OrderInv, ElTypeOK, Events
  <2>2. \A e \in elRows \cup elDraft[a] : e.run = r => e.seq < n
    BY <1>1 DEF IsNextSeq, SeqsOf
  <2> QED
    BY <2>1, <2>2
<1>6. \A e, f \in elRows \cup elDraft[a] : e.run = f.run /\ e.g < f.g => e.seq < f.seq
  BY DEF RunOrderInv, InOrder
<1>7. ASSUME NEW b \in Appenders, NEW e \in elRows' \cup elDraft'[b], NEW f \in elRows' \cup elDraft'[b],
             e.run = f.run, e.g < f.g
      PROVE  e.seq < f.seq
  <2>1. CASE b = a
    <3>1. e \in (elRows \cup elDraft[a]) \cup {x} /\ f \in (elRows \cup elDraft[a]) \cup {x}
      BY <1>4, <1>7, <2>1
    <3>2. CASE f = x
      <4>1. e # x /\ e.run = r
        BY <1>3, <1>7, <3>2
      <4> QED
        BY <1>3, <1>5, <3>1, <3>2, <4>1
    <3>3. CASE e = x /\ f # x
      BY <1>3, <1>5, <1>7, <3>1, <3>3
    <3>4. CASE e # x /\ f # x
      BY <1>6, <1>7, <3>1, <3>4
    <3> QED
      BY <3>2, <3>3, <3>4
  <2>2. CASE b # a
    <3>1. elRows' = elRows /\ elDraft'[b] = elDraft[b]
      BY <1>4, <2>2
    <3> QED
      BY <1>7, <3>1 DEF RunOrderInv, InOrder
  <2> QED
    BY <2>1, <2>2
<1> QED
  BY <1>7 DEF RunOrderInv, InOrder

LEMMA RunOrderIsInductive == ElInv /\ RunOrderInv /\ [ElNext]_elVars => RunOrderInv'
<1> SUFFICES ASSUME ElInv, RunOrderInv, [ElNext]_elVars PROVE RunOrderInv'
  OBVIOUS
<1>1. ASSUME NEW a \in Appenders, NEW r \in Runs, AppendEvent(a, r) PROVE RunOrderInv'
  BY <1>1, AppendKeepsRunOrder
<1>2. ASSUME NEW a \in Appenders, Commit(a) \/ Abort(a) PROVE RunOrderInv'
  <2>1. /\ elRows' = elRows \cup elDraft[a] \/ elRows' = elRows
        /\ elDraft' = [elDraft EXCEPT ![a] = {}] /\ elDraft[a] # {}
    BY <1>2 DEF Commit, Abort
  <2>2. \A b \in Appenders : elDraft'[b] = {}
    BY <2>1 DEF ElInv, LockInv, ElTypeOK
  <2>3. \A b \in Appenders : elRows' \cup elDraft'[b] \subseteq elRows \cup elDraft[a]
    BY <2>1, <2>2
  <2>4. InOrder(elRows \cup elDraft[a])
    BY DEF RunOrderInv
  <2> QED
    BY <2>3, <2>4 DEF RunOrderInv, InOrder
<1>3. ASSUME UNCHANGED <<elRows, elDraft>> PROVE RunOrderInv'
  BY <1>3 DEF RunOrderInv, InOrder
<1>4. ASSUME NEW t \in Tabs, Connect(t) \/ Fetch(t) PROVE RunOrderInv'
  BY <1>3, <1>4 DEF Connect, Fetch, elLog
<1>5. ASSUME NEW t \in Tabs, Send(t) PROVE RunOrderInv'
  BY <1>3, <1>5 DEF Send, elLog
<1>6. ASSUME NEW t \in Tabs, Break(t) \/ Reload(t) PROVE RunOrderInv'
  BY <1>3, <1>6 DEF Break, Reload, elLog
<1>7. CASE UNCHANGED elVars
  BY <1>3, <1>7 DEF elVars, elLog
<1> QED
  BY <1>1, <1>2, <1>4, <1>5, <1>6, <1>7 DEF ElNext, Follow

(* What is committed is numbered the way EventFeed wants it.               *)
LEMMA CommittedIsNumbered == ElInv /\ RunOrderInv => Feed!Numbered(elRows)
<1> SUFFICES ASSUME ElInv, RunOrderInv PROVE Feed!Numbered(elRows)
  OBVIOUS
<1>0. \A e, f \in elRows : e.run = f.run /\ e.g < f.g => e.seq < f.seq
  BY DEF RunOrderInv, InOrder, Appenders
<1>1. \A e \in elRows : \A n \in 0 .. e.seq - 1 : \E f \in elRows : f.run = e.run /\ f.seq = n
  BY DEF ElInv, RunSeqsAreDense, DenseSeqs
<1>2. \A e, f \in elRows : e.g = f.g => e = f
  BY DEF ElInv, UniqueInv
<1>3. ASSUME NEW e \in elRows, NEW f \in elRows, e.run = f.run
      PROVE  e.g < f.g <=> e.seq < f.seq
  <2>1. e.g \in Nat /\ f.g \in Nat /\ e.seq \in Nat /\ f.seq \in Nat
    BY DEF ElInv, ElTypeOK, Events
  <2>2. (e.g < f.g => e.seq < f.seq) /\ (f.g < e.g => f.seq < e.seq)
    BY <1>0, <1>3
  <2>3. e.g = f.g => e.seq = f.seq
    BY <1>2
  <2> QED
    BY <2>1, <2>2, <2>3
<1> QED
  BY <1>1, <1>2, <1>3 DEF Feed!Numbered

(* A commit extends the log at its end.                                    *)
LEMMA CommitGrows ==
  ASSUME ElInv, ElInv', RunOrderInv', NEW a \in Appenders, Commit(a)
  PROVE  Feed!Grow
<1>1. /\ elRows' = elRows \cup elDraft[a] /\ elDraft[a] # {}
      /\ UNCHANGED <<elBase, elLast, elShown, elStored>>
  BY DEF Commit, elStream
<1>2. \A d \in elDraft[a] : \A e \in elRows : e.g < d.g
  BY DEF ElInv, OrderInv
<1>3. \A e \in elRows : e.g \in Nat
  BY DEF ElInv, ElTypeOK, Events
<1>4. elRows' # elRows
  <2>1. PICK d \in elDraft[a] : TRUE
    BY <1>1
  <2>2. d \notin elRows
    BY <1>2, <1>3
  <2> QED
    BY <1>1, <2>1, <2>2
<1>5. Feed!Numbered(elRows)'
  BY CommittedIsNumbered, PTL
<1> QED
  BY <1>1, <1>2, <1>4, <1>5 DEF Feed!Grow
(* What a page is sent is the next event that is committed.                *)
LEMMA SendReads ==
  ASSUME ElInv, NEW t \in Tabs, Send(t)
  PROVE  Feed!Read(t)
<1>1. PICK e \in elFetched[t] :
        /\ \A f \in elFetched[t] : e.g <= f.g
        /\ elLast' = [elLast EXCEPT ![t] = e.g]
        /\ elStored' = e.g
        /\ elShown' = [elShown EXCEPT ![t] = @ \cup {e.g}]
  BY DEF Send
<1>2. t \in elOpen /\ elRows' = elRows /\ elBase' = elBase
  BY DEF Send, elLog
<1>3. /\ elCur[t] = elLast[t] /\ e \in elRows /\ e.g > elCur[t]
      /\ \A f \in elRows : f.g > elCur[t] /\ f.g < e.g => f \in elFetched[t]
  BY <1>2 DEF ElInv, FetchInv
<1>4. elLast[t] \in Nat /\ \A f \in elRows : f.g \in Nat
  BY DEF ElInv, ElTypeOK, Events
<1>5. elLast[t] < e.g
  BY <1>3, <1>4
<1>6. ASSUME NEW f \in elRows, elLast[t] < f.g
      PROVE  e.g <= f.g
  <2>1. e.g \in Nat /\ f.g \in Nat /\ f.g > elCur[t]
    BY <1>3, <1>4, <1>6
  <2>2. f.g < e.g => e.g <= f.g
    BY <1>1, <1>3, <2>1
  <2> QED
    BY <2>1, <2>2
<1> QED
  BY <1>1, <1>2, <1>3, <1>5, <1>6 DEF Feed!Read

(* Every step of the log is one of EventFeed, or changes none of its       *)
(* variables: appends, rollbacks, polls and broken connections.            *)
LEMMA StepIsOfFeed ==
  ElInv /\ ElInv' /\ RunOrderInv' /\ [ElNext]_elVars => [Feed!Next]_(Feed!vars)
<1> SUFFICES ASSUME ElInv, ElInv', RunOrderInv', [ElNext]_elVars
             PROVE  [Feed!Next]_(Feed!vars)
  OBVIOUS
<1>1. ASSUME UNCHANGED <<elRows, elBase, elLast, elShown, elStored>> PROVE UNCHANGED Feed!vars
  BY <1>1 DEF Feed!vars
<1>2. ASSUME NEW a \in Appenders, NEW r \in Runs, AppendEvent(a, r) PROVE UNCHANGED Feed!vars
  BY <1>1, <1>2 DEF AppendEvent, elStream
<1>3. ASSUME NEW a \in Appenders, Commit(a) PROVE Feed!Next
  BY <1>3, CommitGrows DEF Feed!Next
<1>4. ASSUME NEW a \in Appenders, Abort(a) PROVE UNCHANGED Feed!vars
  BY <1>1, <1>4 DEF Abort, elStream
<1>5. ASSUME NEW t \in Tabs, Connect(t) \/ Fetch(t) \/ Break(t) PROVE UNCHANGED Feed!vars
  BY <1>1, <1>5 DEF Connect, Fetch, Break, elLog
<1>6. ASSUME NEW t \in Tabs, Send(t) PROVE Feed!Next
  BY <1>6, SendReads DEF Feed!Next
<1>7. ASSUME NEW t \in Tabs, Reload(t) PROVE Feed!Next
  <2>1. Feed!Start(t)
    BY <1>7 DEF Reload, Feed!Start, elLog
  <2> QED
    BY <2>1 DEF Feed!Next
<1>8. CASE UNCHANGED elVars
  BY <1>1, <1>8 DEF elVars, elLog, elStream
<1> QED
  BY <1>2, <1>3, <1>4, <1>5, <1>6, <1>7, <1>8 DEF ElNext, Follow

(* The log implements EventFeed, for any number of runs, appenders and     *)
(* tabs, any page size and any rollbacks, breaks and reloads: it only      *)
(* grows at its end, in the order of every run's numbers, and each page    *)
(* gets the next event there is, one after the other.                      *)
THEOREM LogImplementsFeed == ElSpec => LogIsFeed
<1>1. ElInit => Feed!Init
  BY DEF ElInit, Feed!Init
<1>2. ElInit => RunOrderInv
  BY DEF ElInit, RunOrderInv, InOrder
<1> QED
  BY <1>1, <1>2, ElInitInv, ElInvIsInductive, RunOrderIsInductive, StepIsOfFeed, PTL
     DEF ElSpec, LogIsFeed, Feed!Spec
=============================================================================
