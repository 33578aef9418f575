-------------------------- MODULE ApplyCoordinator --------------------------
(***************************************************************************)
(* The read-only side of metadata application: verification recording a    *)
(* sealed package, the review and apply endpoints (web/api/apply.py,       *)
(* web/api/runs.py), the coordinator transactions behind them              *)
(* (apply/coordinator.py) and the operator commands pilot-stop and         *)
(* incident-ack (cli/main.py). None of them touches the Calibre library.   *)
(***************************************************************************)
EXTENDS ApplyLedger

\* _v2_patch: the sealed automatic patch without the fields locked since.
Patch(b) == {p \in PatchOf[b] : snap[b][p] # "new"} \ flocks[b]

\* _v2_authorization_matches for the current package of the book.
Authorized(b) == [book |-> b, run |-> brun[b], patch |-> Patch(b)] \in auth

\* load_v2_package and _validate_v2_book_snapshot: the package is the one of the
\* current run, and it proposes something.
CurrentPackage(b) == brun[b] > 0 /\ Patch(b) # {}

\* ManifestationV2 persistence: record_package overwrites the book record with
\* the snapshot of the new run, whatever the ledger is doing with the book.
RecordPackage(b) ==
    /\ brun[b] < MaxRuns
    /\ brun'  = [brun EXCEPT ![b] = @ + 1]
    /\ snap'  = [snap EXCEPT ![b] = live[b]]
    /\ bstat' = [bstat EXCEPT ![b] = "shadowed"]
    /\ UNCHANGED <<ledgerVars, flocks, auth, pilotVars, live, envVars, writerVars>>

\* approve_patch and reject_patch.
Review(b, verdict) ==
    /\ bstat' = [bstat EXCEPT ![b] = verdict]
    /\ UNCHANGED <<ledgerVars, brun, snap, flocks, auth, pilotVars, live,
                   envVars, writerVars>>

\* lock_field: locks are only ever added.
LockField(b, p) ==
    /\ p \notin flocks[b]
    /\ flocks' = [flocks EXCEPT ![b] = @ \cup {p}]
    /\ UNCHANGED <<ledgerVars, bstat, brun, snap, auth, pilotVars, live,
                   envVars, writerVars>>

\* authorize_v2_patch: an immutable approval of the exact package and patch.
Authorize(b) ==
    /\ CurrentPackage(b) /\ ~Authorized(b)
    /\ auth' = auth \cup {[book |-> b, run |-> brun[b], patch |-> Patch(b)]}
    /\ UNCHANGED <<ledgerVars, bstat, brun, snap, flocks, pilotVars, live,
                   envVars, writerVars>>

-----------------------------------------------------------------------------
(* POST /apply/v2. The request reads the heartbeat, the evidence and the   *)
(* book first, then waits for the queue mutex and reserves.                *)

\* A loaded request: the row it will create and the release it is bound to.
LoadedRows == [kind : {"apply"}, book : Books, run : Nat, patch : SUBSET Written,
               locks : SUBSET Written, pilot : Pilots, expect : Meta,
               change : {NoOp}, status : {"none"}, release : Releases]

\* _validate_pilot_guard: a fresh heartbeat with the deployed settings.
WriterReady == hb = {deployed}

\* apply_v2_patches up to and including _validate_pilot_guard.
LoadRequest(q, b) ==
    /\ api[q] = {}
    /\ WriterReady
    /\ CurrentPackage(b) /\ Authorized(b)
    /\ api' = [api EXCEPT ![q] =
                 {[kind |-> "apply", book |-> b, run |-> brun[b],
                   patch |-> Patch(b), locks |-> flocks[b],
                   pilot |-> deployed.pilot, expect |-> snap[b],
                   change |-> NoOp, status |-> "none",
                   release |-> deployed.release]}]
    /\ UNCHANGED <<ledgerVars, bookVars, pilotVars, live, edits, faults,
                   deployed, deploys, hb, writerVars>>

RowOf(r) == [kind |-> r.kind, book |-> r.book, run |-> r.run,
             patch |-> r.patch, locks |-> r.locks, pilot |-> r.pilot,
             expect |-> r.expect, change |-> r.change, status |-> r.status]

\* _lock_or_create_pilot: a session that does not exist yet is created open
\* and bound to the release of the request.
PilotOpen(r) ==
    /\ reserved[r.pilot] = PilotOperationCount(r.pilot)
    /\ \/ pilotState[r.pilot] = "none"
       \/ /\ pilotState[r.pilot] = "open"
          /\ pilotRelease[r.pilot] = r.release
          /\ reserved[r.pilot] < Budget

\* Mutant: any failure of a stopped pilot is stepped over.
SteppedOverUnacknowledged(o, r) ==
    /\ outbox[o] = "failed" /\ row[o].kind = "apply" /\ row[o].pilot # r.pilot
    /\ pilotState[row[o].pilot] = "stopped"

\* The unpublished events a new reservation may step over: an acknowledged
\* safe failure of a different, stopped pilot whose book is not locked.
SteppedOver(o, r) ==
    /\ o \in acked /\ opState[o] = "failed" /\ outbox[o] = "failed"
    /\ row[o].kind = "apply" /\ row[o].pilot # r.pilot
    /\ pilotState[row[o].pilot] = "stopped"
    /\ lock[row[o].book] = NoOp

OutboxClear(r) ==
    \A o \in Ops : opState[o] = "none" \/ outbox[o] = "published" \/ SteppedOver(o, r)

SameKey(o, r) ==
    /\ row[o].kind = r.kind
    /\ IF r.kind = "apply"
       THEN row[o].pilot = r.pilot /\ row[o].book = r.book
            /\ row[o].run = r.run /\ row[o].patch = r.patch
       ELSE row[o].change = r.change /\ row[o].status = r.status

\* Mutant: what was checked before the mutex is not checked again under it.
ReservableUnlocked(r) == PilotOpen(r) /\ \A o \in Ops : ~SameKey(o, r)

\* The checks of queue_v2_operation before it creates the operation.
Reservable(r) ==
    /\ PilotOpen(r)
    /\ \A o \in Ops : ~Nonterminal(o)
    /\ OutboxClear(r)
    /\ \A o \in Ops : ~SameKey(o, r)

\* queue_v2_operation under the advisory transaction lock.
Reserve(q) ==
    \E r \in api[q] :
        /\ Reservable(r)
        /\ CreateOperation(RowOf(r))
        /\ pilotState'   = [pilotState EXCEPT ![r.pilot] = "open"]
        /\ pilotRelease' = [pilotRelease EXCEPT ![r.pilot] = r.release]
        /\ reserved'     = [reserved EXCEPT ![r.pilot] = @ + 1]
        /\ bstat' = [bstat EXCEPT ![r.book] = "apply_queued"]
        /\ api'   = [api EXCEPT ![q] = {}]
        /\ UNCHANGED <<brun, snap, flocks, auth, live, edits, faults, deployed,
                       deploys, hb, writerVars>>

\* Any failed check rolls the whole transaction back and answers 409.
RejectRequest(q) ==
    /\ \E r \in api[q] : ~Reservable(r)
    /\ api' = [api EXCEPT ![q] = {}]
    /\ UNCHANGED <<ledgerVars, bookVars, pilotVars, live, edits, faults,
                   deployed, deploys, hb, writerVars>>

-----------------------------------------------------------------------------
(* Undo and operator commands.                                             *)

\* Mutant: the undo carries the pilot of the operation it takes back.
UndoRowOfPilot(c) == [kind |-> "undo", book |-> row[c].book, run |-> crun[c],
                      patch |-> {}, locks |-> {}, pilot |-> row[c].pilot,
                      expect |-> Unset, change |-> c, status |-> change[c]]

\* The ledger row of an undo. It belongs to no pilot and uses no budget.
UndoRow(c) == [kind |-> "undo", book |-> row[c].book, run |-> crun[c],
               patch |-> {}, locks |-> {}, pilot |-> "none",
               expect |-> Unset, change |-> c, status |-> change[c]]

\* undo_change and revert_run: queue_undo_operation. The idempotency key holds
\* the status the change has now, and the book is marked either way.
QueueUndo(c) ==
    /\ change[c] \notin {"none", "undone"}
    /\ IF \E o \in Ops : SameKey(o, UndoRow(c))
       THEN UNCHANGED ledgerVars
       ELSE CreateOperation(UndoRow(c))
    /\ SetBook(c, "undo_queued")
    /\ UNCHANGED <<brun, snap, flocks, auth, pilotVars, live, envVars, writerVars>>

\* pilot-stop closes an existing session for good.
PilotStop(p) ==
    /\ pilotState[p] = "open"
    /\ pilotState' = [pilotState EXCEPT ![p] = "stopped"]
    /\ UNCHANGED <<ledgerVars, bookVars, pilotRelease, reserved, live, envVars,
                   writerVars>>

\* acknowledge_v2_failure.
Acknowledge(o) ==
    /\ row[o].kind = "apply" /\ opState[o] = "failed"
    /\ pilotState[row[o].pilot] = "stopped"
    /\ o \notin acked
    /\ outbox[o] = "failed" /\ lock[row[o].book] = NoOp
    /\ acked' = acked \cup {o}
    /\ UNCHANGED <<row, opState, outbox, lock, lease, before, backup, change,
                   crun, bookVars, pilotVars, live, envVars, writerVars>>

\* The operator redeploys with other supervised_pilot settings.
Redeploy(g) ==
    /\ deploys < MaxDeploys /\ g # deployed
    /\ deployed' = g
    /\ deploys'  = deploys + 1
    /\ UNCHANGED <<ledgerVars, bookVars, pilotVars, live, edits, faults, hb, api,
                   writerVars>>

\* The heartbeat key expires, or its timestamp is older than the maximum age.
HeartbeatExpires ==
    /\ hb # {}
    /\ hb' = {}
    /\ UNCHANGED <<ledgerVars, bookVars, pilotVars, live, edits, faults, deployed,
                   deploys, api, writerVars>>

\* The owner of the library edits it with Calibre itself.
ExternalEdit(b, p) ==
    /\ edits < MaxEdits
    /\ live'  = [live EXCEPT ![b][p] = "ext"]
    /\ edits' = edits + 1
    /\ UNCHANGED <<ledgerVars, bookVars, pilotVars, faults, deployed, deploys, hb,
                   api, writerVars>>
=============================================================================
