----------------------------- MODULE LegacyVerify -----------------------------
(***************************************************************************)
(* A V1 verification run of the development web app: POST /verify inserts  *)
(* the run, a task inside the process judges one book after the other, and *)
(* nothing takes the run up again (the V1 half of web/api/verify.py and    *)
(* ResumableRunStore of verification/resumable.py).                        *)
(***************************************************************************)
EXTENDS Integers, FiniteSets, FiniteSetsExt

CONSTANTS
    MaxLegacyBooks,   \* bound: books the library lists
    MaxLegacyEnds     \* bound: ends of the process

ASSUME LegacyAssumption == MaxLegacyBooks \in Nat /\ MaxLegacyEnds \in Nat

VARIABLES
    legacyRun,    \* VerificationRun: [status, total, completed, counts]
    verdicts,     \* VerificationResult: the action of each book that has one
    store,        \* ResumableRunStore, in memory
    position,     \* the book the task is at, 0 when there is no task
    committed,    \* its result is committed, the store does not know yet
    legacyEnds

legacyVars == <<legacyRun, verdicts, store, position, committed, legacyEnds>>

Actions == {"no_change", "suggest_fix", "needs_review", "defer"}

NoLegacyRun == [status |-> "none", total |-> 0, completed |-> 0, counts |-> [x \in Actions |-> 0]]

\* start_verify: a run_id that is taken violates a unique constraint, so only the
\* first POST inserts the row and starts a task.
PostLegacy ==
    /\ legacyRun.status = "none" /\ legacyEnds = 0
    /\ \E n \in 0..MaxLegacyBooks :
        /\ legacyRun' = [NoLegacyRun EXCEPT !.status = "running", !.total = n]
        /\ store' = [b \in 1..n |-> "pending"]
    /\ position' = 1
    /\ UNCHANGED <<verdicts, committed, legacyEnds>>

\* Mutant: the count of an action starts anew with every verdict.
TalliedOnce(counts, x) == [counts EXCEPT ![x] = 1]
Tallied(counts, x)     == [counts EXCEPT ![x] = @ + 1]

AtBook == position \in 1..legacyRun.total

\* The verdict, the counts and the progress of the run are one transaction;
\* completed is the position of the book, not how many were judged.
JudgeLegacy(x) ==
    /\ AtBook /\ ~committed
    /\ legacyRun' = [legacyRun EXCEPT !.counts = Tallied(@, x), !.completed = position]
    /\ verdicts'  = [b \in DOMAIN verdicts \cup {position} |-> IF b = position THEN x ELSE verdicts[b]]
    /\ committed' = TRUE
    /\ UNCHANGED <<store, position, legacyEnds>>

\* mark_completed and mark_failed
Mark(s) ==
    /\ store' = [store EXCEPT ![position] = s]
    /\ position' = position + 1 /\ committed' = FALSE
    /\ UNCHANGED <<legacyRun, verdicts, legacyEnds>>

MarkCompleted == AtBook /\ committed /\ Mark("completed")

\* Whatever raised while the book was read or judged: the run goes on.
BookFailed == AtBook /\ ~committed /\ Mark("failed")

FinishLegacy ==
    /\ position > legacyRun.total
    /\ legacyRun' = [legacyRun EXCEPT !.status = "completed"]
    /\ position' = 0
    /\ UNCHANGED <<verdicts, store, committed, legacyEnds>>

\* The process ends and the store with it; no recovery reads V1 runs.
EndLegacy ==
    /\ legacyEnds < MaxLegacyEnds /\ legacyEnds' = legacyEnds + 1
    /\ store' = <<>> /\ position' = 0 /\ committed' = FALSE
    /\ UNCHANGED <<legacyRun, verdicts>>

LegacyInit ==
    /\ legacyRun = NoLegacyRun /\ verdicts = <<>> /\ store = <<>>
    /\ position = 0 /\ committed = FALSE /\ legacyEnds = 0

LegacyNext ==
    \/ PostLegacy \/ MarkCompleted \/ BookFailed \/ FinishLegacy \/ EndLegacy
    \/ \E x \in Actions : JudgeLegacy(x)

LegacySpec == LegacyInit /\ [][LegacyNext]_legacyVars

-----------------------------------------------------------------------------
\* What a client polls adds up at every moment, also after the process ended in
\* the middle: each count is the number of verdicts of that action, the progress
\* is the last book that has one, and a run that says it is completed left out
\* no book without marking it failed (start_verify, get_verify_run).
LegacyAccounts ==
    /\ \A x \in Actions :
          legacyRun.counts[x] = Cardinality({b \in DOMAIN verdicts : verdicts[b] = x})
    /\ legacyRun.completed = (IF DOMAIN verdicts = {} THEN 0 ELSE Max(DOMAIN verdicts))
    /\ legacyRun.status = "completed" /\ legacyEnds = 0 =>
          {b \in 1..legacyRun.total : store[b] = "failed"} = (1..legacyRun.total) \ DOMAIN verdicts
=============================================================================
