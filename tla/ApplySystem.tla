----------------------------- MODULE ApplySystem -----------------------------
(***************************************************************************)
(* The whole of supervised metadata application: API requests, operator    *)
(* commands, verification, the owner of the library, and writer processes  *)
(* on one ledger and one Calibre library.                                  *)
(***************************************************************************)
EXTENDS ApplyWriter

Init ==
    /\ row     = [o \in Ops |-> BlankRow]
    /\ opState = [o \in Ops |-> "none"]
    /\ outbox  = [o \in Ops |-> "none"]
    /\ lock    = [b \in Books |-> NoOp]
    /\ lease   = [o \in Ops |-> "none"]
    /\ before  = [o \in Ops |-> Unset]
    /\ backup  = [o \in Ops |-> Unset]
    /\ change  = [o \in Ops |-> "none"]
    /\ crun    = [o \in Ops |-> 0]
    /\ acked   = {}
    /\ bstat   = [b \in Books |-> "scanned"]
    /\ brun    = [b \in Books |-> 0]
    /\ snap    = [b \in Books |-> Unset]
    /\ flocks  = [b \in Books |-> {}]
    /\ auth    = {}
    /\ pilotState   = [p \in Pilots |-> "none"]
    /\ pilotRelease = [p \in Pilots |-> CHOOSE r \in Releases : TRUE]
    /\ reserved     = [p \in Pilots |-> 0]
    /\ live     = [b \in Books |-> Unset]
    /\ edits    = 0
    /\ faults   = 0
    /\ deployed \in Guards
    /\ deploys  = 0
    /\ hb       = {}
    /\ api      = [q \in Requests |-> {}]
    /\ guard    = "none"
    /\ pc       = [w \in Writers |-> "down"]
    /\ wop      = [w \in Writers |-> NoOp]
    /\ plan     = [w \in Writers |-> Done]
    /\ ok       = [w \in Writers |-> TRUE]
    /\ why      = [w \in Writers |-> "target"]
    /\ rec      = [w \in Writers |-> {}]
    /\ bound    = [w \in Writers |-> deployed]
    /\ crashes  = 0
    /\ losses   = 0

Coordinate ==
    \/ \E b \in Books :
         \/ RecordPackage(b)
         \/ Authorize(b)
         \/ \E p \in LockedParts : LockField(b, p)
    \/ \E b \in Reviewed, v \in {"suggest_fix", "scanned"} : Review(b, v)
    \/ \E q \in Requests :
         \/ \E b \in Books : LoadRequest(q, b)
         \/ Reserve(q)
         \/ RejectRequest(q)
    \/ \E o \in Ops : QueueUndo(o) \/ Acknowledge(o)
    \/ \E p \in Pilots : PilotStop(p)

Environment ==
    \/ \E g \in Guards : Redeploy(g)
    \/ HeartbeatExpires
    \/ \E b \in Books, p \in EditedParts : ExternalEdit(b, p)
    \/ \E w \in Writers : Crash(w) \/ GuardLost(w)

\* One step of the code a writer process runs.
WriterStep(w) ==
    \/ ClearMissing(w) \/ RunCommand(w) \/ CommandFails(w)
    \/ Claim(w) \/ Validate(w) \/ Observe(w) \/ Backup(w) \/ BuildTarget(w)
    \/ ApplyDone(w) \/ ApplyFails(w) \/ RollbackDone(w) \/ RolledBack(w)
    \/ Verify(w) \/ RestoreDone(w)
    \/ UndoCheck(w) \/ UndoDone(w) \/ UndoFails(w) \/ UndoRollbackDone(w)
    \/ ReconcileEnds(w) \/ ReconcileApply(w) \/ ReconcileUndo(w)
    \/ \E o \in Ops : ReconcileClaimed(w, o) \/ ReconcileNoEvidence(w, o) \/ Visit(w, o)
    \/ TransitionRaises(w) \/ ExitUnfenced(w)

Next ==
    \/ Coordinate
    \/ Environment
    \/ \E w \in Writers : WriterStep(w) \/ Start(w) \/ Poll(w)
    \/ \E o \in Ops : LeaseExpires(o)

Spec == Init /\ [][Next]_vars

\* The writer process keeps running and Compose restarts it (unless-stopped),
\* and time passes. Nobody has to request, edit, authorize or stop anything.
Fairness ==
    /\ \A w \in Writers : WF_vars(WriterStep(w))
    /\ \A w \in Writers : WF_vars(Start(w))
    /\ \A o \in Ops : WF_vars(LeaseExpires(o))

FairSpec == Spec /\ Fairness

-----------------------------------------------------------------------------
(* Safety.                                                                 *)

\* Every variable stays within its domain.
LedgerTypeOK ==
    /\ row     \in [Ops -> Row]
    /\ opState \in [Ops -> OpStates]
    /\ outbox  \in [Ops -> OutboxStates]
    /\ lock    \in [Books -> Ops \cup {NoOp}]
    /\ lease   \in [Ops -> LeaseStates]
    /\ before  \in [Ops -> Meta]
    /\ backup  \in [Ops -> Meta]
    /\ change  \in [Ops -> ChangeStates]
    /\ crun    \in [Ops -> Nat]
    /\ acked   \subseteq Ops

BookTypeOK ==
    /\ bstat   \in [Books -> BookStates]
    /\ brun    \in [Books -> Nat]
    /\ snap    \in [Books -> Meta]
    /\ flocks  \in [Books -> SUBSET Written]
    /\ auth    \subseteq [book : Books, run : Nat, patch : SUBSET Written]
    /\ live    \in [Books -> Meta]

EnvTypeOK ==
    /\ pilotState   \in [Pilots -> {"none", "open", "stopped"}]
    /\ pilotRelease \in [Pilots -> Releases]
    /\ reserved     \in [Pilots -> Nat]
    /\ edits \in Nat /\ faults \in Nat /\ deploys \in Nat
    /\ crashes \in Nat /\ losses \in Nat
    /\ deployed \in Guards
    /\ hb \subseteq Guards
    /\ api \in [Requests -> SUBSET LoadedRows]

WriterTypeOK ==
    /\ guard \in Writers \cup {"none"}
    /\ pc    \in [Writers -> Pcs]
    /\ wop   \in [Writers -> Ops \cup {NoOp}]
    /\ plan  \in [Writers -> Plans]
    /\ ok    \in [Writers -> BOOLEAN]
    /\ why   \in [Writers -> {"target", "files", "closed"}]
    /\ rec   \in [Writers -> SUBSET Ops]
    /\ bound \in [Writers -> Guards]

TypeOK == LedgerTypeOK /\ BookTypeOK /\ EnvTypeOK /\ WriterTypeOK

EventOf(s) ==
    CASE s = "none" -> "none"
      [] s = "requested" -> "pending"
      [] s \in Active -> "processing"
      [] s = "succeeded" -> "published"
      [] OTHER -> "failed"

\* Until a writer loses the connection that fences it, the three tables that
\* describe an operation agree after every commit: its outbox event is pending
\* while it is requested, processing while it is claimed or writing, published
\* exactly when it succeeded and failed otherwise; and the book is locked by
\* exactly the operation that is claimed or writing (claim_next_operation,
\* _finish_outbox, reconcile_incomplete_operations, fail_operation).
LedgerAgrees ==
    losses = 0 =>
        /\ \A o \in Ops : outbox[o] = EventOf(opState[o])
        /\ \A o \in Ops : opState[o] \in Active => lock[row[o].book] = o
        /\ \A b \in Books : lock[b] # NoOp =>
              opState[lock[b]] \in Active /\ row[lock[b]].book = b

WorkPcs    == Pcs \ {"down", "reconcile", "idle"}
UndoPcs    == {"undo_check", "undo", "undo_rollback", "visit_undo"}
ClaimedPcs == {"validate", "observe", "undo_check"}

\* Whatever a process works on is an operation of the ledger, an undo names
\* the change it takes back, and a restart only visits recorded operations.
WorkRecorded ==
    /\ \A o \in Ops : row[o].kind = "undo" => row[o].change \in Ops
    /\ \A w \in Writers :
        /\ pc[w] \in WorkPcs => wop[w] \in Ops /\ opState[wop[w]] # "none"
        /\ pc[w] \in UndoPcs => row[wop[w]].kind = "undo"
        /\ \A o \in rec[w] : opState[o] # "none"

\* What the process believes about its operation is what the ledger says, as
\* long as no connection is lost: a live process owns the advisory lock, the
\* operation in its hands is claimed until the writing commit and writing from
\* then on, and everything it still has to reconcile is open. So none of the
\* states that its session loaded earlier and acts on later is ever stale.
WriterAgrees ==
    losses = 0 => \A w \in Writers :
        /\ pc[w] # "down" => guard = w
        /\ pc[w] \in WorkPcs =>
              opState[wop[w]] = IF pc[w] \in ClaimedPcs THEN "claimed" ELSE "writing"
        /\ \A o \in rec[w] : opState[o] \in Active
        /\ pc[w] \in {"idle", "down"} => rec[w] = {}
        /\ pc[w] \in WorkPcs => wop[w] \in rec[w] \/ rec[w] = {}
        /\ why[w] # "closed"

\* A published event always stands for a success. Later reservations step over
\* published events without looking at the operation (queue_v2_operation), so
\* this has to survive an unfenced process that closes the operation its
\* successor is reconciling, in whichever order the two commit.
PublishedMeansSucceeded ==
    \A o \in Ops : outbox[o] = "published" => opState[o] = "succeeded"

\* Concurrent requests that loaded their evidence before the queue mutex never
\* end up with two apply operations in flight, as long as no connection is lost
\* (queue_v2_operation). A process that lost it can fail an operation its
\* successor has validated; the failure is acknowledged, another apply is
\* reserved, and then the successor moves the failed one to writing.
SingleApply ==
    losses = 0 =>
    \A o, p \in Ops :
        Nonterminal(o) /\ Nonterminal(p) /\ row[o].kind = "apply"
        /\ row[p].kind = "apply" => o = p

\* The budget of a pilot is exactly its ledger rows and never exceeded, so the
\* consistency checks of _lock_or_create_pilot and of the writer never fire.
BudgetExact ==
    \A p \in Pilots : reserved[p] = PilotOperationCount(p) /\ reserved[p] <= Budget

\* The change row tells how the write of its operation ended, also when the
\* process died between the two commits (apply_patch, process, reconcile). An
\* operation without a change row succeeds only if its patch is a cover that
\* was in place already when reconciliation looked at the book.
ChangeAgrees ==
    losses = 0 =>
    \A o \in Ops : row[o].kind = "apply" =>
        CASE opState[o] \in {"requested", "claimed", "failed"} -> change[o] = "none"
          [] opState[o] = "succeeded" ->
                \/ change[o] \in {"applied", "undone"}
                \/ change[o] = "none" /\ row[o].patch = {"cover"}
          [] opState[o] = "restored" -> change[o] \in {"none", "failed_rolled_back"}
          [] opState[o] = "restore_failed" -> change[o] = "failed_rollback_failed"
          [] OTHER -> TRUE

Recorded(b, p) ==
    IF \E c \in Ops : row[c].kind = "apply" /\ row[c].book = b
                      /\ change[c] = "applied" /\ p \in row[c].patch
    THEN "new" ELSE "old"

Quiet(b) ==
    /\ lock[b] = NoOp
    /\ \A o \in Ops : row[o].book = b => opState[o] \notin {"unknown", "restore_failed"}

\* A change was undone after a later change of the book. The undo restores the
\* whole OPF of its backup, and with it what the later change had written.
UndoneOutOfOrder(b) ==
    \E c, d, u \in Ops :
        /\ c < d /\ d < u
        /\ row[u].kind = "undo" /\ row[u].book = b /\ row[u].change = c
        /\ opState[u] = "succeeded"
        /\ row[d].book = b /\ change[d] # "none"

\* As long as the owner edits nothing and changes are undone in order, a book
\* nobody works on and without an unresolved incident holds, in its OPF fields
\* and its custom column, exactly what the applied changes say: a patch that is
\* recorded as applied is there in full, one that was rolled back or undone has
\* left nothing behind, wherever the writer crashed and whichever command failed.
LibraryMatchesChanges ==
    edits = 0 /\ losses = 0 =>
        \A b \in Books : Quiet(b) /\ ~UndoneOutOfOrder(b) =>
            \A p \in {"opf", "custom"} : live[b][p] = Recorded(b, p)

\* The same for the cover image.
CoverMatchesChanges ==
    edits = 0 /\ losses = 0 =>
        \A b \in Books : Quiet(b) => live[b]["cover"] = Recorded(b, "cover")

\* A book shown as queued for undo has an undo operation that will run.
UndoQueuedIsQueued ==
    \A b \in Books : bstat[b] = "undo_queued" =>
        \E o \in Ops : row[o].kind = "undo" /\ row[o].book = b /\ Nonterminal(o)

-----------------------------------------------------------------------------
(* Action properties.                                                      *)

Commanded == live' # live /\ edits' = edits

\* The change row with its backups, or the rollback evidence of an undo, is committed.
RestorePointCommitted(w) ==
    IF pc[w] \in {"undo", "undo_rollback"}
    THEN opState[wop[w]] \notin {"none", "requested", "claimed", "failed"}
    ELSE change[wop[w]] # "none"

\* No process, fenced or not, changes a book before its restore point is
\* committed; and as long as no connection is lost, a book changes only while it
\* is locked by an operation in state writing, for an undo one of a change that is
\* still applied (apply_patch, _process_undo, Change.status of models.py).
WritesAreRecoverable ==
    [][Commanded =>
         /\ \A w \in Writers : Commanding(w) => RestorePointCommitted(w)
         /\ losses = 0 => \A b \in Books : live'[b] # live[b] =>
               /\ lock[b] # NoOp
               /\ opState[lock[b]] = "writing"
               /\ IF row[lock[b]].kind = "apply"
                  THEN change[lock[b]] # "none"
                  ELSE change[row[lock[b]].change] = "applied"]_vars

\* No process changes the library while another one owns the writer lock.
SoleWriter ==
    [][\A w \in Writers : Commanded /\ plan'[w] # plan[w] => guard \in {w, "none"}]_vars

Incident(o) ==
    \/ opState[o] \in {"unknown", "restored", "restore_failed"}
    \/ opState[o] = "failed" /\ row[o].kind = "undo"

\* Once an operation ended unknown, restored or restore_failed, or an undo
\* failed, no pilot can reserve again: only a failed apply can be acknowledged
\* (queue_v2_operation, acknowledge_v2_failure).
IncidentBlocksReservations ==
    [][(\E o \in Ops : Incident(o)) => reserved' = reserved]_vars

-----------------------------------------------------------------------------
(* Temporal properties.                                                    *)

Revoked(o) ==
    /\ opState[o] = "requested" /\ row[o].kind = "apply"
    /\ \/ pilotState[row[o].pilot] = "stopped"
       \/ row[o].run # brun[row[o].book]
       \/ row[o].locks # flocks[row[o].book]

\* A queued apply whose pilot is stopped, whose book was verified again or had
\* a field locked since, never reaches the library (validate_apply_operation).
RevokedNeverWrites ==
    \A o \in Ops : [](Revoked(o) => [](opState[o] # "writing"))

\* Every write that was started is resolved, whatever crashes and failures
\* happen on the way (process, _process_undo, startup reconciliation).
WritingResolves ==
    \A o \in Ops : (opState[o] = "writing") ~> (opState[o] \in Terminal)

Orphaned(o) ==
    opState[o] = "claimed" /\ \A w \in Writers : wop[w] # o /\ o \notin rec[w]

\* Every queued operation is resolved, unless a claim was orphaned: its writer
\* died and its successor reconciled before the lease had expired, so that the
\* operation stays claimed, and its book locked, until another restart.
RequestsResolve ==
    \A o \in Ops : (opState[o] = "requested") ~>
        (opState[o] \in Terminal \/ \E p \in Ops : Orphaned(p))

Life == INSTANCE OperationLifecycle WITH
            Operations <- Ops, AllBooks <- Books, phase <- opState,
            target <- [o \in Ops |-> row[o].book]

\* As long as no connection is lost, the committed ledger behaves as
\* OperationLifecycle promises: outcomes are final, a write that started ends
\* in an outcome that says so, and a book is taken by one operation at a time.
LifecyclePromise == Life!LifeSpec
=============================================================================
