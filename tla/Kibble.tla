------------------------------- MODULE Kibble -------------------------------
(***************************************************************************)
(* The kibble worker (apps/earn/kibble.py): it races other agents to CLAIM *)
(* jobs on a work board, answers the ones it claimed first with a RESULT,  *)
(* and attests other agents' results.  The board is a room of lines of     *)
(* which a read returns only the last Window.  A post may raise, or vanish *)
(* without an error; the worker reads the room back to see whether it      *)
(* landed.  The state file is written after every success and every round. *)
(* The room only grows, so what a read returns is a set of positions in it. *)
(***************************************************************************)
EXTENDS Integers, Sequences, FiniteSets, SequencesExt

CONSTANTS
    Jobs,           \* job ids
    FranchiseJobs,  \* those titled "Earn attest franchise"
    Window,         \* lines a room read returns
    KB_PER_HOUR,    \* claims per hour
    ATTEST_PER_HOUR,
    CLAIM_BURST,    \* claims per round
    MaxLines,       \* bound: lines of the room
    KbMaxFailures, KbMaxCrashes

ASSUME KibbleAssumption == FranchiseJobs \subseteq Jobs /\ Window \in Nat

VARIABLES
    kbRoom,     \* the room: lines [kind, id, author]
    kbSt,       \* the worker's state dictionary
    kbFile,     \* the state file
    kbPc,
    kbFresh,    \* lines of the long poll not yet considered for a claim
    kbBurst,    \* claims made in this round
    kbView,     \* the window read before answering
    kbTodo,     \* jobs still to answer in this step of the round
    kbFailures, kbCrashes

kbVars == <<kbRoom, kbSt, kbFile, kbPc, kbFresh, kbBurst, kbView, kbTodo, kbFailures, kbCrashes>>

Us == "us"
Rival == "rival"

EmptyKb == [cursor |-> 0, claims |-> {}, titles |-> {}, answered |-> {}, count |-> 0,
            attest_count |-> 0, attests |-> {}, pairs |-> 0, franchise_done |-> FALSE]

KbInit ==
    /\ kbRoom = <<>>
    /\ kbSt = EmptyKb /\ kbFile = EmptyKb
    /\ kbPc = "poll" /\ kbFresh = {} /\ kbBurst = 0
    /\ kbView = {} /\ kbTodo = {}
    /\ kbFailures = 0 /\ kbCrashes = 0

Line(kind, j, who) == [kind |-> kind, id |-> j, author |-> who]
ResultKinds == {"RESULT", "DELIVER"}

(* fetch: the lines after a cursor, of the last ones of the room.          *)
LinesAfter(cursor) == {k \in DOMAIN kbRoom : k > cursor /\ k > Len(kbRoom) - Window}
fetch == LinesAfter(0)

Is(k, kind, j) == kbRoom[k].kind = kind /\ kbRoom[k].id = j

(* first_claimer and has_result over the lines read: the author of the     *)
(* first CLAIM, nobody ({}) when there is none.                            *)
ClaimsOf(rows, j) == {k \in rows : Is(k, "CLAIM", j)}
first_claimer(rows, j) ==
    {kbRoom[k].author : k \in {c \in ClaimsOf(rows, j) : \A l \in ClaimsOf(rows, j) : c <= l}}
has_result(rows, j) == \E k \in rows : kbRoom[k].kind \in ResultKinds /\ kbRoom[k].id = j

(* verify_landed looks for a recent line of ours that names the job.       *)
verify_landed(j) == \E k \in fetch : kbRoom[k].id = j /\ kbRoom[k].author = Us

(* post: what the worker is told ("ok") and what the room holds.  It may   *)
(* raise (the line lost, or landed all the same), vanish silently, or the  *)
(* reads of verify_landed may all fail.                                    *)
CanFail == kbFailures < KbMaxFailures
post(kind, j, ok) ==
    LET landed == Append(kbRoom, Line(kind, j, Us))
    IN  /\ Len(kbRoom) < MaxLines
        /\ \/ ok /\ kbRoom' = landed /\ UNCHANGED kbFailures
           \/ /\ CanFail /\ kbFailures' = kbFailures + 1
              /\ \/ ~ok /\ kbRoom' \in {kbRoom, landed}
                 \/ kbRoom' = kbRoom /\ ok = verify_landed(j)

-----------------------------------------------------------------------------
(* Other agents post jobs, claim them and answer them.  Assumed of the     *)
(* board: a job has one JOB line, ahead of its claims and its results.     *)
(* The code does not check it: EVENT.search takes a JOB line anywhere in a *)
(* text, and wanted (setdefault) the first of several.  With a second JOB  *)
(* line a read could show that one and hide an earlier claim.              *)
PostJob(j) ==
    /\ Len(kbRoom) < MaxLines
    /\ ~ \E e \in Range(kbRoom) : e.id = j
    /\ kbRoom' = Append(kbRoom, Line("JOB", j, Rival))
    /\ UNCHANGED <<kbSt, kbFile, kbPc, kbFresh, kbBurst, kbView, kbTodo, kbFailures, kbCrashes>>

RivalPosts(kind, j) ==
    /\ Len(kbRoom) < MaxLines
    /\ \E e \in Range(kbRoom) : e.kind = "JOB" /\ e.id = j
    /\ ~Contains(kbRoom, Line(kind, j, Rival))
    /\ kbRoom' = Append(kbRoom, Line(kind, j, Rival))
    /\ UNCHANGED <<kbSt, kbFile, kbPc, kbFresh, kbBurst, kbView, kbTodo, kbFailures, kbCrashes>>

(* run_once: the long poll returns the lines after the cursor, of the      *)
(* retained window.  The hour may have turned (budget_ok,                  *)
(* attest_budget_ok).  The franchise jobs claimed and not answered are due *)
(* a RESULT first, until one has been posted.                              *)
FranchiseDue(st) ==
    IF st.franchise_done THEN {} ELSE (st.titles \cap FranchiseJobs \cap st.claims) \ st.answered

Poll ==
    /\ kbPc = "poll"
    /\ kbFresh' = LinesAfter(kbSt.cursor)
    /\ \E hour \in BOOLEAN :
          kbSt' = [kbSt EXCEPT !.cursor = Len(kbRoom),
                      !.count = IF hour THEN 0 ELSE @, !.attest_count = IF hour THEN 0 ELSE @]
    /\ kbTodo' = FranchiseDue(kbSt)
    /\ kbPc' = "franchise" /\ kbBurst' = 0
    /\ UNCHANGED <<kbRoom, kbFile, kbView, kbFailures, kbCrashes>>

(* Step 0: the fixed-text RESULT of a claimed franchise job.  Nobody asks  *)
(* who claimed it first.                                                   *)
FranchiseResult(j) ==
    /\ kbPc = "franchise" /\ j \in kbTodo
    /\ \E ok \in BOOLEAN :
          /\ post("RESULT", j, ok)
          /\ IF ok
             THEN /\ kbSt' = [kbSt EXCEPT !.answered = @ \cup {j}, !.franchise_done = TRUE]
                  /\ kbFile' = kbSt' /\ kbTodo' = {}
             ELSE UNCHANGED <<kbSt, kbFile>> /\ kbTodo' = kbTodo \ {j}
    /\ UNCHANGED <<kbPc, kbFresh, kbBurst, kbView, kbCrashes>>

FranchiseOver ==
    /\ kbPc = "franchise" /\ kbTodo = {}
    /\ kbPc' = "claim"
    /\ UNCHANGED <<kbRoom, kbSt, kbFile, kbFresh, kbBurst, kbView, kbTodo, kbFailures, kbCrashes>>

(* Step 1, claim_new: every new job is claimed at once, franchise jobs     *)
(* first, up to the burst and the hour's budget.                           *)
NewJobs ==
    {k \in kbFresh : kbRoom[k].kind = "JOB" /\ kbRoom[k].id \notin kbSt.claims \cup kbSt.answered}

Urgent(k) == ~kbSt.franchise_done /\ kbRoom[k].id \in FranchiseJobs
Before(k, l) == IF Urgent(k) = Urgent(l) THEN k <= l ELSE Urgent(k)

Claiming == NewJobs # {} /\ kbBurst < CLAIM_BURST /\ kbSt.count < KB_PER_HOUR

ClaimJob(k) ==
    LET j == kbRoom[k].id
    IN  /\ kbPc = "claim" /\ Claiming
        /\ k \in NewJobs /\ \A l \in NewJobs : Before(k, l)
        /\ \E ok \in BOOLEAN :
              /\ post("CLAIM", j, ok)
              /\ IF ok
                 THEN /\ kbSt' = [kbSt EXCEPT !.claims = @ \cup {j}, !.titles = @ \cup {j},
                                              !.count = @ + 1]
                      /\ kbFile' = kbSt' /\ kbBurst' = kbBurst + 1
                 ELSE UNCHANGED <<kbSt, kbFile, kbBurst>>
        /\ kbFresh' = kbFresh \ {k}
        /\ UNCHANGED <<kbPc, kbView, kbTodo, kbCrashes>>

(* Step 2 reads the window again; wanted: claimed jobs without an answer   *)
(* whose JOB line is still in the window.                                  *)
wanted(rows) ==
    {j \in kbSt.claims \ kbSt.answered :
        /\ ~(j \in FranchiseJobs /\ j \in kbSt.titles)
        /\ ~has_result(rows, j)
        /\ \E k \in rows : Is(k, "JOB", j)}

ReadWindow ==
    /\ kbPc = "claim" /\ ~Claiming
    /\ kbView' = fetch
    /\ kbTodo' = wanted(fetch)
    /\ kbPc' = "answer" /\ kbFresh' = {} /\ kbBurst' = 0
    /\ UNCHANGED <<kbRoom, kbSt, kbFile, kbFailures, kbCrashes>>

(* That read raises: main saves the state and the round is over; the jobs  *)
(* of this poll that were not claimed are not seen again.                  *)
ReadFails ==
    /\ kbPc = "claim" /\ ~Claiming
    /\ kbFile' = kbSt
    /\ kbPc' = "poll" /\ kbFresh' = {} /\ kbBurst' = 0
    /\ UNCHANGED <<kbRoom, kbSt, kbView, kbTodo, kbFailures, kbCrashes>>

(* The jobs are answered oldest first.                                     *)
IsNext(j) ==
    /\ kbPc = "answer" /\ j \in kbTodo
    /\ \A i \in kbTodo : \E k \in kbView : Is(k, "JOB", j) /\ \A l \in kbView : Is(l, "JOB", i) => k <= l

(* A job whose first claim is somebody else's is given up.                 *)
LostRace(j) ==
    /\ IsNext(j) /\ ~(first_claimer(kbView, j) \subseteq {Us})
    /\ kbSt' = [kbSt EXCEPT !.answered = @ \cup {j}, !.titles = @ \ {j}]
    /\ kbTodo' = kbTodo \ {j}
    /\ UNCHANGED <<kbRoom, kbFile, kbPc, kbFresh, kbBurst, kbView, kbFailures, kbCrashes>>

(* answer finds no usable text: the job waits for the next round.          *)
NoAnswer(j) ==
    /\ IsNext(j) /\ first_claimer(kbView, j) \subseteq {Us}
    /\ kbTodo' = kbTodo \ {j}
    /\ UNCHANGED <<kbRoom, kbSt, kbFile, kbPc, kbFresh, kbBurst, kbView, kbFailures, kbCrashes>>

SendAnswer(j) ==
    /\ \E ok \in BOOLEAN :
          /\ post("RESULT", j, ok)
          /\ IF ok
             THEN kbSt' = [kbSt EXCEPT !.answered = @ \cup {j}] /\ kbFile' = kbSt'
             ELSE UNCHANGED <<kbSt, kbFile>>
    /\ kbTodo' = kbTodo \ {j}
    /\ UNCHANGED <<kbPc, kbFresh, kbBurst, kbView, kbCrashes>>

\* Mutant: the RESULT is sent without asking who claimed first.
SendResultUnasked(j) == IsNext(j) /\ SendAnswer(j)

SendResult(j) == IsNext(j) /\ first_claimer(kbView, j) \subseteq {Us} /\ SendAnswer(j)

(* Step 3, attest_round: a rival's substantive result of a job we did not  *)
(* race for, once per job and at most twice per author.                    *)
Attestable(j) ==
    /\ \E k \in kbView : kbRoom[k].kind \in ResultKinds /\ kbRoom[k].id = j /\ kbRoom[k].author # Us
    /\ j \notin kbSt.answered \cup kbSt.attests \cup kbSt.claims
    /\ kbSt.pairs < 2 /\ kbSt.attest_count < ATTEST_PER_HOUR

Attest(j) ==
    /\ kbPc = "answer" /\ kbTodo = {} /\ Attestable(j)
    /\ \E ok \in BOOLEAN :
          /\ post("ATTEST", j, ok)
          /\ IF ok
             THEN /\ kbSt' = [kbSt EXCEPT !.attests = @ \cup {j}, !.pairs = @ + 1, !.attest_count = @ + 1]
                  /\ kbFile' = kbSt'
             ELSE UNCHANGED <<kbSt, kbFile>>
    /\ kbView' = {k \in kbView : kbRoom[k].id # j}
    /\ UNCHANGED <<kbPc, kbFresh, kbBurst, kbTodo, kbCrashes>>

(* main: the round ends and the state is saved; a thin or templated result *)
(* is not attested.                                                        *)
KbEndRound ==
    /\ kbPc = "answer" /\ kbTodo = {}
    /\ kbFile' = kbSt
    /\ kbPc' = "poll" /\ kbView' = {}
    /\ UNCHANGED <<kbRoom, kbSt, kbFresh, kbBurst, kbTodo, kbFailures, kbCrashes>>

(* The process dies and starts again from the state file.                  *)
KbRestart ==
    /\ kbCrashes < KbMaxCrashes /\ kbCrashes' = kbCrashes + 1
    /\ kbSt' = kbFile
    /\ kbPc' = "poll" /\ kbFresh' = {} /\ kbBurst' = 0 /\ kbView' = {} /\ kbTodo' = {}
    /\ UNCHANGED <<kbRoom, kbFile, kbFailures>>

KbNext ==
    \/ \E j \in Jobs : \/ PostJob(j) \/ FranchiseResult(j) \/ Attest(j)
                       \/ LostRace(j) \/ NoAnswer(j) \/ SendResult(j)
                       \/ \E k \in {"CLAIM", "RESULT"} : RivalPosts(k, j)
    \/ \E k \in kbFresh : ClaimJob(k)
    \/ Poll \/ FranchiseOver \/ ReadWindow \/ ReadFails \/ KbEndRound \/ KbRestart

KbSpec == KbInit /\ [][KbNext]_kbVars

-----------------------------------------------------------------------------
Ours(kind, j) == {k \in DOMAIN kbRoom : kbRoom[k] = Line(kind, j, Us)}

(* "a RESULT is now only sent when we are the FIRST claimer" (module       *)
(* docstring): whenever a RESULT of ours is on the board, the first CLAIM  *)
(* of that job is ours, although a read shows only the last lines of the   *)
(* room.  Franchise jobs, answered without that check, are left out.  It   *)
(* rests on the assumption at PostJob.                                     *)
ResultNeedsFirstClaim ==
    \A j \in Jobs \ FranchiseJobs :
        Ours("RESULT", j) # {} => first_claimer(DOMAIN kbRoom, j) = {Us}

(* A job gets one RESULT from us, whatever posts are lost or reported      *)
(* wrongly and whenever the process restarts.                              *)
OneResultPerJob ==
    \A j \in Jobs \ FranchiseJobs : \A k, l \in Ours("RESULT", j) : k = l

(* A RESULT of ours is due: we claimed the job first and have not answered  *)
(* it before.                                                               *)
ResultsAreDue == ResultNeedsFirstClaim /\ OneResultPerJob

-----------------------------------------------------------------------------
(* Why results are due.  All lines of a job follow its one JOB line, so a  *)
(* read that shows that line shows every claim and result; a claim in the  *)
(* state is on the board, unless the job has a result; and for the jobs    *)
(* still to answer, nothing has been sent.                                 *)
Lines == [kind : {"JOB", "CLAIM", "RESULT", "ATTEST"}, id : Jobs, author : {Us, Rival}]
KbStates ==
    [cursor : Nat, claims : SUBSET Jobs, titles : SUBSET Jobs, answered : SUBSET Jobs, count : Nat,
     attest_count : Nat, attests : SUBSET Jobs, pairs : Nat, franchise_done : BOOLEAN]

KbTypeOK ==
    /\ kbRoom \in Seq(Lines) /\ kbSt \in KbStates /\ kbFile \in KbStates
    /\ kbPc \in {"poll", "franchise", "claim", "answer"}
    /\ kbFresh \subseteq DOMAIN kbRoom /\ kbView \subseteq DOMAIN kbRoom
    /\ kbTodo \subseteq Jobs

Named(j) == \E k \in DOMAIN kbRoom : kbRoom[k].id = j
HasResult(j) == \E k \in DOMAIN kbRoom : Is(k, "RESULT", j)

JobsComeFirst ==
    /\ \A k \in DOMAIN kbRoom : \E i \in DOMAIN kbRoom : i <= k /\ Is(i, "JOB", kbRoom[k].id)
    /\ \A i, k \in DOMAIN kbRoom : Is(i, "JOB", kbRoom[k].id) /\ kbRoom[k].kind = "JOB" => i = k
    /\ \A k \in DOMAIN kbRoom : kbRoom[k].kind = "ATTEST" => HasResult(kbRoom[k].id)
    /\ \A k \in DOMAIN kbRoom : kbRoom[k].kind = "JOB" => kbRoom[k].author = Rival

ClaimsStand ==
    \A j \in kbSt.claims \cup kbFile.claims :
        HasResult(j) \/ \E k \in DOMAIN kbRoom : Is(k, "CLAIM", j)

TodoIsOpen ==
    /\ kbPc \in {"poll", "claim"} => kbTodo = {}
    /\ kbPc = "franchise" => kbTodo \subseteq FranchiseJobs /\ \A j \in kbTodo : Named(j)
    /\ kbPc = "answer" => \A j \in kbTodo :
          /\ Named(j) /\ Ours("RESULT", j) = {}
          /\ first_claimer(kbView, j) \subseteq {Us} => first_claimer(DOMAIN kbRoom, j) = {Us}

KibbleInv == KbTypeOK /\ JobsComeFirst /\ ClaimsStand /\ TodoIsOpen /\ ResultsAreDue
=============================================================================
