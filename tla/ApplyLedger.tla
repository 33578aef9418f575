----------------------------- MODULE ApplyLedger -----------------------------
(***************************************************************************)
(* The durable state of the supervised metadata writer and the primitives  *)
(* every transaction on it is built from: the operation ledger with its    *)
(* outbox event, book write locks and change rows (storage/models.py,      *)
(* storage/operations.py), the persisted book records and pilot sessions,  *)
(* the Calibre library the commands act on, and the process-local state of *)
(* the writer processes and of the API requests.                           *)
(***************************************************************************)
EXTENDS Integers, FiniteSets

CONSTANTS
    Books,           \* book keys of the library
    Writers,         \* writer processes that may be started on the library
    Requests,        \* concurrent POST /apply/v2 requests
    Pilots,          \* supervised pilot ids
    Releases,        \* release digests a pilot can be bound to
    PatchOf,         \* what verification proposes to correct in each book
    EditedParts,     \* what the owner of the library edits by other means
    LockedParts,     \* what the reviewer locks against correction
    Reviewed,        \* books the reviewer approves or rejects
    Budget,          \* max_operations of a pilot session
    MaxOps,          \* bound: ledger rows
    MaxRuns,         \* bound: verification runs recorded per book
    MaxEdits,        \* bound: edits made outside the writer
    MaxCrashes,      \* bound: writer crashes
    MaxLosses,       \* bound: losses of the advisory-lock connection
    MaxDeploys,      \* bound: changes of the deployed pilot settings
    MaxFaults        \* bound: failing external commands

\* Metadata is one value per part Calibre stores and writes separately: the
\* OPF fields, the #edition custom column, the cover image, the ebook files.
Written == {"opf", "custom", "cover"}
Parts   == Written \cup {"file"}
Val     == {"old", "new", "part", "ext"}
Meta    == [Parts -> Val]

ASSUME PatchAssumption    == PatchOf \in [Books -> SUBSET Written]
ASSUME EditsAssumption    == EditedParts \subseteq Parts
ASSUME ReviewAssumption   == LockedParts \subseteq Written /\ Reviewed \subseteq Books
ASSUME BudgetAssumption   == Budget \in 1..5
ASSUME MaxOpsAssumption   == MaxOps \in Nat
ASSUME BoundsAssumption   ==
    /\ MaxRuns \in Nat /\ MaxEdits \in Nat /\ MaxCrashes \in Nat
    /\ MaxLosses \in Nat /\ MaxDeploys \in Nat /\ MaxFaults \in Nat
ASSUME PilotsAssumption   == Pilots # {} /\ Releases # {} /\ "none" \notin Pilots
ASSUME ProcessAssumption  == "none" \notin Writers /\ Books # {}

Ops  == 1..MaxOps    \* rows of OperationLedger, in order of creation
NoOp == 0

\* Only these states are ever committed: verifying and restoring exist in the
\* session of the writer between two commits.
Active   == {"claimed", "writing"}
Terminal == {"succeeded", "restored", "restore_failed", "unknown", "failed"}
OpStates == {"none", "requested"} \cup Active \cup Terminal

OutboxStates == {"none", "pending", "processing", "published", "failed"}
LeaseStates  == {"none", "active", "expired"}
ChangeStates == {"none", "pending_apply", "applied", "failed_rolled_back",
                 "failed_rollback_failed", "undone"}
BookStates   == {"shadowed", "suggest_fix", "scanned", "apply_queued",
                 "undo_queued", "applied", "error"}
Guards       == [pilot : Pilots, release : Releases]

\* The immutable columns of a ledger row. (kind, pilot, book, run, patch) is
\* the idempotency key of an apply and (kind, change, status) that of an undo;
\* expect is the sealed snapshot of an apply's evidence package.
Row == [kind : {"none", "apply", "undo"}, book : Books, run : Nat,
        patch : SUBSET Written, locks : SUBSET Written,
        pilot : Pilots \cup {"none"}, expect : Meta,
        change : Ops \cup {NoOp}, status : ChangeStates]

Unset    == [p \in Parts |-> "old"]
BlankRow == [kind |-> "none", book |-> CHOOSE b \in Books : TRUE, run |-> 0,
             patch |-> {}, locks |-> {}, pilot |-> "none", expect |-> Unset,
             change |-> NoOp, status |-> "none"]

VARIABLES
    row,       \* OperationLedger: the request
    opState,   \* OperationLedger.state
    outbox,    \* OutboxEvent.status of the operation's event
    lock,      \* BookWriteLock: the operation that holds the book
    lease,     \* OperationLedger.lease_expires_at, seen from now
    before,    \* OperationLedger.before_metadata, Change.before_metadata
    backup,    \* rollback artifacts exported for the operation
    change,    \* Change.status of the row an apply operation created
    crun,      \* Change.run_id
    acked      \* OperationIncidentAcknowledgement rows

ledgerVars == <<row, opState, outbox, lock, lease, before, backup, change, crun,
                acked>>

VARIABLES
    bstat,     \* BookRecord.status
    brun,      \* BookRecord.run_id
    snap,      \* BookRecord.current_metadata and the sealed package of brun
    flocks,    \* BookRecord.field_locks
    auth       \* ManualAuthorization rows

bookVars == <<bstat, brun, snap, flocks, auth>>

VARIABLES
    pilotState, pilotRelease, reserved   \* PilotSession

pilotVars == <<pilotState, pilotRelease, reserved>>

VARIABLES
    live,      \* the Calibre library itself
    edits, faults

VARIABLES
    deployed,  \* supervised_pilot settings, read on each request and at start
    deploys,
    hb         \* writer heartbeat in Valkey, {} when absent or stale

VARIABLES
    api        \* requests between loading the evidence and the queue mutex

VARIABLES
    guard,     \* owner of the PostgreSQL session advisory lock
    pc, wop,   \* where each writer process is, and the operation it works on
    plan,      \* values its remaining Calibre commands will set
    ok,        \* no command of the sequence has failed
    why,       \* what a restore is for: the files or the metadata did not
               \* verify, or the visited operation was closed already
    rec,       \* operations startup reconciliation still has to visit
    bound,     \* pilot settings the writer was started with
    crashes, losses

writerVars == <<guard, pc, wop, plan, ok, why, rec, bound, crashes, losses>>
envVars    == <<edits, faults, deployed, deploys, hb, api>>

vars == <<ledgerVars, bookVars, pilotVars, live, envVars, writerVars>>

-----------------------------------------------------------------------------
(* Ledger primitives.                                                      *)

\* create_operation for a key that is not in the ledger yet: the row and its
\* outbox event in one transaction.
CreateOperation(r) ==
    \E o \in Ops :
        /\ opState[o] = "none"
        /\ \A p \in Ops : p < o => opState[p] # "none"
        /\ row'     = [row EXCEPT ![o] = r]
        /\ opState' = [opState EXCEPT ![o] = "requested"]
        /\ outbox'  = [outbox EXCEPT ![o] = "pending"]
        /\ UNCHANGED <<lock, lease, before, backup, change, crun, acked>>

\* Mutant: the book lock of a finished operation is left behind.
FinishKeepingLock(o, s, event) ==
    /\ opState' = [opState EXCEPT ![o] = s]
    /\ outbox'  = [outbox EXCEPT ![o] = event]
    /\ UNCHANGED lock

\* _finish_outbox in the transaction that moves the operation to state s: the
\* event is closed and the book lock is deleted if this operation owns it.
Finish(o, s, event) ==
    /\ opState' = [opState EXCEPT ![o] = s]
    /\ outbox'  = [outbox EXCEPT ![o] = event]
    /\ lock'    = [lock EXCEPT ![row[o].book] = IF @ = o THEN NoOp ELSE @]

\* Mutant: the state the session had in memory is committed.
FailedInMemory(o) == IF opState[o] = "claimed" THEN "failed"
                     ELSE IF opState[o] = "writing" THEN "verifying" ELSE opState[o]

\* Mutant: an uncertain write is recorded as a plain failure.
FailedAlways(o) == IF opState[o] \in Active THEN "failed" ELSE opState[o]

\* fail_operation: a claim fails, a write that had started is uncertain, and
\* an operation that has an outcome keeps it.
FailedState(o) == IF opState[o] = "claimed" THEN "failed"
                  ELSE IF opState[o] = "writing" THEN "unknown" ELSE opState[o]

SetBook(o, s)   == bstat' = [bstat EXCEPT ![row[o].book] = s]
SetChange(o, s) == change' = [change EXCEPT ![o] = s]

\* _pilot_operation_count
PilotOperationCount(p) == Cardinality({o \in Ops : row[o].pilot = p})

Nonterminal(o) == opState[o] \in {"requested"} \cup Active

-----------------------------------------------------------------------------
(* What the writer compares.                                               *)

\* Mutant: the custom column is not compared.
MatchesBeforeOpf(m, b) == m["opf"] = b["opf"]

\* _matches_patch(observed, before): every field, but the value of "cover" in
\* a metadata snapshot is a path, so the image behind it is not compared.
MatchesBefore(m, b) == m["opf"] = b["opf"] /\ m["custom"] = b["custom"]

\* _matches_patch(observed, target): as above, except that a patched cover is
\* a sealed artifact and is compared by content hash.
MatchesTarget(m, b, patch) ==
    /\ \A p \in {"opf", "custom"} : m[p] = IF p \in patch THEN "new" ELSE b[p]
    /\ "cover" \in patch => m["cover"] = "new"

\* _matches_patch(observed, expected_before) of an apply: the patched fields
\* of the reviewed snapshot, a cover again by path only.
MatchesExpected(m, o) ==
    \A p \in row[o].patch \ {"cover"} : m[p] = row[o].expect[p]

\* _matches_patch(observed, change.after_metadata) of an undo.
MatchesAfter(m, patch) == \A p \in patch : m[p] = "new"

\* ApplyEngine._metadata_matches_restore: the backed-up cover by content.
MatchesRestore(m, c) ==
    /\ m["opf"] = before[c]["opf"]
    /\ "custom" \in row[c].patch => m["custom"] = before[c]["custom"]
    /\ "cover" \in row[c].patch => m["cover"] = backup[c]["cover"]

\* _verify_v2_live_files against the sealed package of the operation.
FilesVerified(o) == live[row[o].book]["file"] = row[o].expect["file"]

-----------------------------------------------------------------------------
(* Sequences of Calibre commands: set_metadata, set_custom, set_cover.     *)

Keep  == "keep"
Plans == [Written -> Val \cup {Keep}]
Done  == [p \in Written |-> Keep]

\* apply_patch: the target OPF is the backup with the patch applied, so it is
\* always set; the column and the cover only when the patch has them.
ApplyPlan(o) ==
    [p \in Written |-> IF p \in row[o].patch THEN "new"
                       ELSE IF p = "opf" THEN backup[o]["opf"] ELSE Keep]

\* _restore_change, _restore_components and _restore_operation_rollback: the
\* artifacts of operation o, which cover the parts that change c patched. The
\* #edition value comes from the recorded snapshot, not from the export.
RestorePlan(o, c) ==
    [p \in Written |-> IF p # "opf" /\ p \notin row[c].patch THEN Keep
                       ELSE IF p = "custom" THEN before[o]["custom"]
                       ELSE backup[o][p]]

\* The commands run in this order.
NextPart(w) == IF plan[w]["opf"] # Keep THEN "opf"
               ELSE IF plan[w]["custom"] # Keep THEN "custom" ELSE "cover"
=============================================================================
