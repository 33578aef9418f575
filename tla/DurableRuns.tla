----------------------------- MODULE DurableRuns ------------------------------
(***************************************************************************)
(* One V2 verification run of the development web app: started by a POST,  *)
(* worked on by a task inside an app process under a lease, and picked up  *)
(* again by a process that starts later (web/api/verify.py,                *)
(* verification/durable_v2.py, run_persisted_library_audit of              *)
(* service_v2.py, SQLAuditStore of persistence_v2.py). Every database      *)
(* session is one step, so the steps of two processes interleave between   *)
(* them.                                                                   *)
(***************************************************************************)
EXTENDS Integers, FiniteSets

CONSTANTS
    Apps,            \* app processes; each works on the run with one task at a time
    Books,           \* ids of the books that may be in the library
    MaxAppCrashes,   \* bound: crashes of app processes
    MaxLapses,       \* bound: leases that run out while their task is alive
    MaxAudits,       \* bound: packages sealed
    MaxRunFaults,    \* bound: exceptions out of the pipeline
    MaxPosts         \* bound: POSTs with this run_id

ASSUME DurableAssumption ==
    /\ {"nobody", "dead task"} \cap Apps = {}
    /\ Books \subseteq Nat /\ Books # {}
    /\ {MaxAppCrashes, MaxLapses, MaxAudits, MaxRunFaults, MaxPosts} \subseteq Nat

VARIABLES
    status,      \* VerificationRun.status, "none" before the first POST
    lease,       \* lease_owner: every task has a name of its own
    leaseLive,   \* lease_expires_at is in the future
    results,     \* VerificationResult per book: its state, its evidence_id and the state
                 \* its package was sealed with
    completed,   \* VerificationRun.completed
    app,         \* "down", "up", or "bare": up without a library path in its settings
    at,          \* where the task of the app is
    given,       \* the books of a POST, {} for a recovered run
    todo,        \* books its pipeline still has to process
    current,     \* the book it is working on
    erred,       \* the pipeline has met an error
    sealed,      \* packages sealed so far
    overlapped,  \* history: two tasks were at work on the run at once
    posts, crashes, lapses, faults

rowVars     == <<status, lease, leaseLive, results, completed>>
taskVars    == <<app, at, given, todo, current, erred>>
boundVars   == <<sealed, overlapped, posts, crashes, lapses, faults>>
durableVars == <<rowVars, taskVars, boundVars>>

Outcomes == {"done", "failed"}
Ended == {"completed", "completed_with_errors", "failed"}

NoRow      == [state |-> "absent", ev |-> 0, says |-> "none"]
PendingRow == [NoRow EXCEPT !.state = "pending"]
Members  == {b \in Books : results[b].state # "absent"}

\* resumable_book_keys: a state that needs no retry and intact evidence, whatever
\* that evidence says.
Resumable  == {b \in Members : results[b].state = "done" /\ results[b].ev # 0}

\* Mutant: only books without a package are left to do.
IncompleteUnsealed == {b \in Members : results[b].ev = 0}
Incomplete == Members \ Resumable

\* _refresh_counts
Counted(rs) == Cardinality({b \in Books : rs[b].state \in {"done", "failed"} /\ rs[b].ev # 0})

\* A task that is not, or not yet, at work on the run.
Outside == {"idle", "listing", "inspecting", "closing", "recover", "recovering", "claim", "claiming"}
AtWork  == {a \in Apps : at[a] \notin Outside \cup {"release"}}

Go(a, l) == at' = [at EXCEPT ![a] = l]

\* A task ends without a release; its name is used by no other.
Abandoned(a) == Go(a, "idle") /\ lease' = IF lease = a THEN "dead task" ELSE lease

\* SQLAuditStore.start: the membership is frozen by the first call.
CanStart(books) == Members \in {{}, books}

\* Mutant: a run that is resumed starts from the beginning.
StartedAfresh(books) == [b \in Books |-> IF b \in books THEN PendingRow ELSE results[b]]
Started(books) == [b \in Books |-> IF b \in books /\ results[b] = NoRow THEN PendingRow
                                    ELSE results[b]]

\* SQLAuditStore.finish
FinishAs(s) == status' = s /\ completed' = Counted(results) /\ UNCHANGED results

-----------------------------------------------------------------------------
\* POST /verify: lists what is in the library, up to a limit, and starts a task.
StartVerify(a) ==
    /\ app[a] = "up" /\ at[a] = "idle" /\ posts < MaxPosts
    /\ posts' = posts + 1
    /\ \E books \in (SUBSET Books) \ {{}} :
        /\ CanStart(books)
        /\ status'  = IF status = "none" THEN "running" ELSE status
        /\ results' = Started(books)
        /\ given'   = [given EXCEPT ![a] = books]
    /\ Go(a, "claim")
    /\ UNCHANGED <<lease, leaseLive, completed, app, todo, current, erred, sealed,
                   overlapped, crashes, lapses, faults>>

\* claim_verification_run reads the row
Claimable(a) == status \notin Ended /\ (lease \in {"nobody", a} \/ ~leaseLive)

ClaimRead(a) ==
    /\ at[a] \in {"recover", "claim"}
    /\ IF Claimable(a)
       THEN Go(a, IF at[a] = "claim" THEN "claiming" ELSE "recovering") /\ UNCHANGED lease
       ELSE Abandoned(a)
    /\ UNCHANGED <<status, leaseLive, results, completed, app, given, todo, current, erred, boundVars>>

\* and writes the lease, whatever happened in between. The recovery has claimed
\* the run before execute_claimed_v2_library_audit claims it again; without a
\* library it ends the run instead.
ClaimWrite(a) ==
    /\ at[a] \in {"recovering", "claiming"}
    /\ \E l \in {IF at[a] = "claiming" THEN "reset" ELSE IF app[a] = "bare" THEN "failing" ELSE "claim"} :
        /\ Go(a, l)
        /\ overlapped' = (overlapped \/ (l # "claim" /\ AtWork # {}))
    /\ lease' = a /\ leaseLive' = TRUE
    /\ UNCHANGED <<status, results, completed, app, given, todo, current, erred, sealed,
                   posts, crashes, lapses, faults>>

\* reset_stale_in_flight_states; a terminal state stays even without evidence.
ResetStates(a) ==
    /\ at[a] = "reset" /\ Go(a, "beat")
    /\ results' = [b \in Books |-> IF results[b].state = "working"
                                   THEN [results[b] EXCEPT !.state = "pending"] ELSE results[b]]
    /\ UNCHANGED <<status, lease, leaseLive, completed, app, given, todo, current, erred, boundVars>>

\* heartbeat_verification_run, once and only here.
Beat(a) ==
    /\ at[a] = "beat"
    /\ IF lease = a /\ status \notin Ended
       THEN leaseLive' = TRUE /\ Go(a, "begin")
       ELSE UNCHANGED leaseLive /\ Go(a, "failing")
    /\ UNCHANGED <<status, lease, results, completed, app, given, todo, current, erred, boundVars>>

\* run_persisted_library_audit: a recovered run lists the library again, all of it.
BeginRun(a) ==
    /\ at[a] = "begin"
    /\ \E books \in IF given[a] = {} THEN SUBSET Books ELSE {given[a]} :
        IF CanStart(books)
        THEN /\ results' = Started(books)
             /\ todo'  = [todo EXCEPT ![a] = books \ Resumable]
             /\ erred' = [erred EXCEPT ![a] = FALSE]
             /\ Go(a, "next")
        ELSE UNCHANGED <<results, todo, erred>> /\ Go(a, "failing")
    /\ UNCHANGED <<status, lease, leaseLive, completed, app, given, current, boundVars>>

-----------------------------------------------------------------------------
(* The pipeline, one book after the other.                                 *)

SetState(b, s) == results' = [results EXCEPT ![b].state = s]

\* record_state of snapshotting, extracting, resolving and decided.
WorkOn(a) ==
    /\ at[a] = "next" /\ Go(a, "book")
    /\ \E b \in todo[a] :
        /\ \A other \in todo[a] : b <= other
        /\ SetState(b, "working") /\ current' = [current EXCEPT ![a] = b]
    /\ UNCHANGED <<status, lease, leaseLive, completed, app, given, todo, erred, boundVars>>

\* The outcome is announced first,
Announce(a, s) ==
    /\ at[a] = "book" /\ Go(a, s)
    /\ SetState(current[a], s)
    /\ erred' = [erred EXCEPT ![a] = @ \/ s = "failed"]
    /\ UNCHANGED <<status, lease, leaseLive, completed, app, given, todo, current, boundVars>>

\* and then its package is recorded.
RecordPackage(a, s) ==
    /\ at[a] = s /\ sealed < MaxAudits
    /\ sealed'  = sealed + 1
    /\ results' = [results EXCEPT ![current[a]] = [state |-> s, ev |-> sealed + 1, says |-> s]]
    /\ completed' = Counted(results')
    /\ todo' = [todo EXCEPT ![a] = @ \ {current[a]}]
    /\ Go(a, "next")
    /\ UNCHANGED <<status, lease, leaseLive, app, given, current, erred, overlapped, posts, crashes,
                   lapses, faults>>

FinishRun(a) ==
    /\ at[a] = "next" /\ todo[a] = {}
    /\ FinishAs(IF erred[a] THEN "completed_with_errors" ELSE "completed")
    /\ Go(a, "release")
    /\ UNCHANGED <<lease, leaseLive, app, given, todo, current, erred, boundVars>>

\* Something raised: after the states were reset it ends the run,
Raise(a) ==
    /\ at[a] \in {"beat", "begin", "next", "book"} \cup Outcomes
    /\ faults < MaxRunFaults /\ faults' = faults + 1
    /\ Go(a, "failing")
    /\ UNCHANGED <<rowVars, app, given, todo, current, erred, sealed, overlapped, posts, crashes,
                   lapses>>

\* before that, or in the recovery, it ends the task alone.
RaiseEarly(a) ==
    /\ at[a] \in (Outside \ {"idle"}) \cup {"reset"}
    /\ faults < MaxRunFaults /\ faults' = faults + 1
    /\ Abandoned(a)
    /\ UNCHANGED <<status, leaseLive, results, completed, app, given, todo, current, erred, sealed,
                   overlapped, posts, crashes, lapses>>

FinishFailed(a) ==
    /\ at[a] = "failing" /\ FinishAs("failed") /\ Go(a, "release")
    /\ UNCHANGED <<lease, leaseLive, app, given, todo, current, erred, boundVars>>

\* release_verification_run, then the task is over.
Release(a) ==
    /\ at[a] = "release" /\ Go(a, "idle")
    /\ lease' = IF lease = a THEN "nobody" ELSE lease
    /\ given' = [given EXCEPT ![a] = {}] /\ todo' = [todo EXCEPT ![a] = {}]
    /\ erred' = [erred EXCEPT ![a] = FALSE]
    /\ UNCHANGED <<status, leaseLive, results, completed, app, current, boundVars>>

-----------------------------------------------------------------------------
\* The process ends; the lease stays in the row.
CrashApp(a) ==
    /\ app[a] # "down" /\ crashes < MaxAppCrashes
    /\ crashes' = crashes + 1
    /\ app' = [app EXCEPT ![a] = "down"] /\ Abandoned(a)
    /\ given' = [given EXCEPT ![a] = {}] /\ todo' = [todo EXCEPT ![a] = {}]
    /\ erred' = [erred EXCEPT ![a] = FALSE]
    /\ UNCHANGED <<status, leaseLive, results, completed, current, sealed, overlapped, posts,
                   lapses, faults>>

\* list_recoverable_v2_run_ids
Recoverable == status \notin Ended \cup {"none"} /\ (lease = "nobody" \/ ~leaseLive)

\* recover_orphaned_v2_runs, called when the app starts and at no other time: the
\* list, the look at the books and the end of a run that lacks nothing are
\* sessions of their own.
StartApp(a) ==
    /\ app[a] = "down" /\ \E s \in {"up", "bare"} : app' = [app EXCEPT ![a] = s]
    /\ Go(a, "listing")
    /\ UNCHANGED <<rowVars, given, todo, current, erred, boundVars>>

ListRuns(a) ==
    /\ at[a] = "listing" /\ Go(a, IF Recoverable THEN "inspecting" ELSE "idle")
    /\ UNCHANGED <<rowVars, app, given, todo, current, erred, boundVars>>

InspectRun(a) ==
    /\ at[a] = "inspecting" /\ Go(a, IF Incomplete = {} THEN "closing" ELSE "recover")
    /\ UNCHANGED <<rowVars, app, given, todo, current, erred, boundVars>>

CloseRun(a) ==
    /\ at[a] = "closing" /\ FinishAs("completed") /\ Go(a, "idle")
    /\ UNCHANGED <<lease, leaseLive, app, given, todo, current, erred, boundVars>>

\* The 120 seconds are over: for a task that is gone, or for one that is at work.
ExpireLease ==
    /\ leaseLive /\ lease # "nobody"
    /\ IF lease = "dead task" THEN UNCHANGED lapses
       ELSE lapses < MaxLapses /\ lapses' = lapses + 1
    /\ leaseLive' = FALSE
    /\ UNCHANGED <<status, lease, results, completed, taskVars, sealed, overlapped, posts,
                   crashes, faults>>

DurableInit ==
    /\ status = "none" /\ lease = "nobody"
    /\ leaseLive = FALSE /\ results = [b \in Books |-> NoRow] /\ completed = 0
    /\ app = [a \in Apps |-> "up"] /\ at = [a \in Apps |-> "idle"]
    /\ given = [a \in Apps |-> {}] /\ todo = [a \in Apps |-> {}]
    /\ current = [a \in Apps |-> CHOOSE b \in Books : TRUE] /\ erred = [a \in Apps |-> FALSE]
    /\ sealed = 0 /\ overlapped = FALSE /\ posts = 0 /\ crashes = 0 /\ lapses = 0 /\ faults = 0

Task(a) ==
    \/ ClaimRead(a) \/ ClaimWrite(a) \/ ResetStates(a) \/ Beat(a) \/ BeginRun(a) \/ WorkOn(a)
    \/ FinishRun(a) \/ FinishFailed(a) \/ Release(a) \/ ListRuns(a) \/ InspectRun(a) \/ CloseRun(a)
    \/ \E s \in Outcomes : Announce(a, s) \/ RecordPackage(a, s)

DurableNext ==
    \/ ExpireLease
    \/ \E a \in Apps : Task(a) \/ StartVerify(a) \/ Raise(a) \/ RaiseEarly(a) \/ CrashApp(a) \/ StartApp(a)

DurableSpec == DurableInit /\ [][DurableNext]_durableVars

-----------------------------------------------------------------------------
(* Properties.                                                             *)

\* A run reported as completed has evidence for every book of its membership, no
\* book left to retry, and an exact counter, through crashes, faults, leases that
\* run out, claims that meet an ended run, and a starting process that closes the
\* run while another takes it up (recover_orphaned_v2_runs). Two tasks at work at
\* once are excluded: claim_verification_run lets them, and each overwrites
\* rows that the other has counted.
CompletedMeansSealed ==
    ~overlapped =>
        /\ status \in {"completed", "completed_with_errors"} =>
              completed = Cardinality({b \in Members : results[b].ev # 0}) /\ completed = Cardinality(Members)
        /\ status = "completed" => \A b \in Members : results[b].state = "done"

\* Unless two tasks were at work at once, a sealed outcome that needs no retry is
\* never replaced when the run is resumed (SQLAuditStore.resumable_book_keys), and
\* the status of an ended run, which SQLAuditStore.finish does not look at, only
\* ever turns into failed, or into completed when no book lacks anything.
SealedStays ==
    [][~overlapped' =>
        /\ \A b \in Books :
              results[b].state = "done" /\ results[b].says = "done" => results'[b] = results[b]
        /\ status \in Ended /\ status' # status =>
              status' = "failed" \/ (status' = "completed" /\ Incomplete = {})]_durableVars
=============================================================================
