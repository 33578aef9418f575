----------------------------- MODULE ApplyWriter -----------------------------
(***************************************************************************)
(* The dedicated metadata writer: the process loop (cli/main.py), claiming,*)
(* processing and crash reconciliation (apply/writer.py) and the apply     *)
(* engine (apply/engine.py) with the calibredb commands it runs.           *)
(*                                                                         *)
(* Every action that queries or commits needs the connection that owns the *)
(* advisory lock (guard = w); Calibre commands need no connection. A step  *)
(* that reads the library and commits a verdict on what it read is one     *)
(* action: its reading is the moment the verdict speaks about.             *)
(***************************************************************************)
EXTENDS ApplyCoordinator

Book(w) == row[wop[w]].book
Live(w) == live[Book(w)]

Goto(w, l) == pc' = [pc EXCEPT ![w] = l]

\* An external command or a file operation fails and raises.
Fault   == faults < MaxFaults /\ faults' = faults + 1
NoFault == UNCHANGED faults

\* The operation is finished: back to the reconciliation that was visiting it,
\* or to the polling loop.
Return(w) ==
    /\ IF wop[w] \in rec[w]
       THEN Goto(w, "reconcile") /\ rec' = [rec EXCEPT ![w] = @ \ {wop[w]}]
       ELSE Goto(w, "idle") /\ UNCHANGED rec
    /\ wop' = [wop EXCEPT ![w] = NoOp]
    /\ ok'  = [ok EXCEPT ![w] = TRUE]
    /\ why' = [why EXCEPT ![w] = "target"]
    /\ UNCHANGED <<guard, plan, bound, crashes, losses>>

\* A sequence of commands starts.
Commands(w, l, p) ==
    /\ Goto(w, l)
    /\ plan' = [plan EXCEPT ![w] = p]
    /\ ok'   = [ok EXCEPT ![w] = TRUE]
    /\ UNCHANGED <<guard, rec, bound, crashes, losses>>

LedgerRest  == UNCHANGED <<row, lease, before, backup, crun, acked>>
OutsideRest == UNCHANGED <<brun, snap, flocks, auth, pilotVars, live, edits,
                           deployed, deploys, hb, api>>

\* The closing transaction of an operation that leaves its change row alone.
Close(w, s, event, b) ==
    /\ Finish(wop[w], s, event)
    /\ SetBook(wop[w], b)
    /\ Return(w)
    /\ LedgerRest /\ OutsideRest

\* Mutant: the event of a failed operation is published.
FailOperationPublished(w) == Close(w, FailedState(wop[w]), "published", "error")

\* session.rollback and fail_operation after an exception out of process.
FailOperation(w) == Close(w, FailedState(wop[w]), "failed", "error")

At(w, l) == guard = w /\ pc[w] = l
Pcs == {"down", "reconcile", "visit", "visit_undo", "idle", "validate", "observe",
        "backup", "build", "apply", "rollback", "rolled", "verify", "restore",
        "undo_check", "undo", "undo_rollback"}
CommandPcs    == {"apply", "rollback", "restore", "undo", "undo_rollback"}
Commanding(w) == pc[w] \in CommandPcs /\ plan[w] # Done
Finished(w, l) == pc[w] = l /\ plan[w] = Done

\* The steps that load the operation afresh, because a commit has expired it
\* in the session. transition_operation refuses to move one that already has
\* an outcome; only an unfenced process can have given it one meanwhile. The
\* other steps act on the state that was loaded before and overwrite it.
LoadPcs == {"validate", "rolled", "verify", "undo_check", "undo"}
Loaded(w, l) == At(w, l) /\ plan[w] = Done /\ opState[wop[w]] \in Active

\* The ValueError ends in fail_operation.
TransitionRaises(w) ==
    /\ guard = w /\ pc[w] \in LoadPcs /\ plan[w] = Done
    /\ opState[wop[w]] \notin Active
    /\ FailOperation(w) /\ NoFault /\ UNCHANGED change

-----------------------------------------------------------------------------
(* Calibre commands.                                                       *)

CommandRest(w) ==
    UNCHANGED <<ledgerVars, bookVars, pilotVars, edits, deployed, deploys, hb,
                api, guard, pc, wop, why, rec, bound, crashes, losses>>

\* set_metadata_from_fd first clears the optional fields its OPF lacks. Only a
\* backup can lack a field the book has: a target OPF is a backup plus a patch.
ClearMissing(w) ==
    /\ Commanding(w) /\ NextPart(w) = "opf"
    /\ plan[w]["opf"] # "new" /\ Live(w)["opf"] \notin {"part", plan[w]["opf"]}
    /\ live' = [live EXCEPT ![Book(w)]["opf"] = "part"]
    /\ NoFault /\ UNCHANGED <<plan, ok>>
    /\ CommandRest(w)

\* calibredb set_metadata, set_custom and set_metadata --field cover.
RunCommand(w) ==
    /\ Commanding(w)
    /\ live' = [live EXCEPT ![Book(w)][NextPart(w)] = plan[w][NextPart(w)]]
    /\ plan' = [plan EXCEPT ![w][NextPart(w)] = Keep]
    /\ NoFault /\ UNCHANGED ok
    /\ CommandRest(w)

\* A command that reports an error or times out may still have taken effect;
\* the rest of the sequence is skipped.
CommandFails(w) ==
    /\ Commanding(w) /\ Fault
    /\ \/ UNCHANGED live
       \/ live' = [live EXCEPT ![Book(w)][NextPart(w)] = plan[w][NextPart(w)]]
    /\ plan' = [plan EXCEPT ![w] = Done]
    /\ ok'   = [ok EXCEPT ![w] = FALSE]
    /\ CommandRest(w)

-----------------------------------------------------------------------------
(* Polling and claiming.                                                   *)

\* Mutant: an event waits until all older ones are published.
FirstUnpublished(o) ==
    outbox[o] = "pending" /\ \A p \in Ops : p < o => outbox[p] = "published"

\* The event claim_next_operation looks at: the oldest pending one.
FirstPending(o) == outbox[o] = "pending" /\ \A p \in Ops : p < o => outbox[p] # "pending"

\* One turn of the loop that claims nothing: the outbox is empty, or its first
\* event is for a book whose lock a dead owner still holds.
Poll(w) ==
    /\ At(w, "idle")
    /\ \A o \in Ops : FirstPending(o) => lock[row[o].book] # NoOp
    /\ hb # {bound[w]}
    /\ hb' = {bound[w]}
    /\ UNCHANGED <<ledgerVars, bookVars, pilotVars, live, edits, faults, deployed,
                   deploys, api, writerVars>>

\* One turn of the loop that claims: claim_next_operation.
Claim(w) ==
    /\ At(w, "idle")
    /\ \E o \in Ops :
        /\ FirstPending(o) /\ lock[row[o].book] = NoOp
        /\ opState' = [opState EXCEPT ![o] = "claimed"]
        /\ outbox'  = [outbox EXCEPT ![o] = "processing"]
        /\ lock'    = [lock EXCEPT ![row[o].book] = o]
        /\ lease'   = [lease EXCEPT ![o] = "active"]
        /\ wop'     = [wop EXCEPT ![w] = o]
        /\ Goto(w, IF row[o].kind = "undo" THEN "undo_check" ELSE "validate")
    /\ hb' = {bound[w]}
    /\ UNCHANGED <<row, before, backup, change, crun, acked, bookVars, pilotVars,
                   live, edits, faults, deployed, deploys, api, guard, plan, ok,
                   why, rec, bound, crashes, losses>>

LeaseExpires(o) ==
    /\ lease[o] = "active" /\ opState[o] = "claimed"
    /\ lease' = [lease EXCEPT ![o] = "expired"]
    /\ UNCHANGED <<row, opState, outbox, lock, before, backup, change, crun, acked,
                   bookVars, pilotVars, live, envVars, writerVars>>

-----------------------------------------------------------------------------
(* MetadataWriter.process for an apply.                                    *)

\* Mutant: a stopped pilot may still write what it has queued.
ValidStopped(w, o) ==
    LET b == row[o].book IN
    /\ row[o].run = brun[b] /\ row[o].locks = flocks[b]
    /\ row[o].patch = Patch(b) /\ Authorized(b)
    /\ row[o].pilot = bound[w].pilot
    /\ reserved[bound[w].pilot] = PilotOperationCount(bound[w].pilot)
    /\ reserved[bound[w].pilot] \in 1..Budget

\* validate_apply_operation against the writer's own settings.
Valid(w, o) ==
    LET b == row[o].book IN
    /\ row[o].run = brun[b] /\ row[o].locks = flocks[b]
    /\ row[o].patch = Patch(b) /\ Authorized(b)
    /\ row[o].pilot = bound[w].pilot
    /\ reserved[bound[w].pilot] = PilotOperationCount(bound[w].pilot)
    /\ pilotState[bound[w].pilot] = "open"
    /\ reserved[bound[w].pilot] \in 1..Budget
    /\ pilotRelease[bound[w].pilot] = bound[w].release

Validate(w) ==
    /\ Loaded(w, "validate") /\ NoFault
    /\ \/ /\ Valid(w, wop[w])
          /\ Goto(w, "observe")
          /\ UNCHANGED <<ledgerVars, bookVars, pilotVars, live, edits, deployed,
                         deploys, hb, api, guard, wop, plan, ok, why, rec,
                         bound, crashes, losses>>
       \/ /\ ~Valid(w, wop[w])
          /\ Close(w, "failed", "failed", "error")
          /\ UNCHANGED change

\* The live book is compared with the reviewed one; only then is the evidence
\* recovery needs committed, together with the move to writing.
Observe(w) ==
    /\ At(w, "observe")
    /\ \/ Fault /\ FailOperation(w) /\ UNCHANGED change
       \/ /\ NoFault /\ ~FilesVerified(wop[w])
          /\ Close(w, "failed", "failed", "error") /\ UNCHANGED change
       \/ /\ NoFault /\ FilesVerified(wop[w]) /\ ~MatchesExpected(Live(w), wop[w])
          /\ Close(w, "failed", "failed", "suggest_fix") /\ UNCHANGED change
       \/ /\ NoFault /\ FilesVerified(wop[w]) /\ MatchesExpected(Live(w), wop[w])
          /\ before'  = [before EXCEPT ![wop[w]] = Live(w)]
          /\ opState' = [opState EXCEPT ![wop[w]] = "writing"]
          /\ Goto(w, "backup")
          /\ UNCHANGED <<row, outbox, lock, lease, backup, change, crun, acked,
                         bstat, guard, wop, plan, ok, why, rec, bound, crashes,
                         losses>>
          /\ OutsideRest

\* apply_patch up to the commit of the change row: artifacts are exported and
\* sealed, and the change names the run the book record has by now.
Backup(w) ==
    /\ At(w, "backup")
    /\ \/ Fault /\ FailOperation(w) /\ UNCHANGED change
       \/ /\ NoFault
          /\ backup' = [backup EXCEPT ![wop[w]] = Live(w)]
          /\ crun'   = [crun EXCEPT ![wop[w]] = brun[Book(w)]]
          /\ SetChange(wop[w], "pending_apply")
          /\ Goto(w, "build")
          /\ UNCHANGED <<row, opState, outbox, lock, lease, before, acked, bstat,
                         guard, wop, plan, ok, why, rec, bound, crashes, losses>>
          /\ OutsideRest

\* _build_target_opf, outside the engine's own rollback.
BuildTarget(w) ==
    /\ At(w, "build")
    /\ \/ Fault /\ FailOperation(w) /\ UNCHANGED change
       \/ /\ NoFault
          /\ Commands(w, "apply", ApplyPlan(wop[w]))
          /\ UNCHANGED <<ledgerVars, bstat, wop, why>>
          /\ OutsideRest

\* All commands succeeded: the change is applied.
ApplyDone(w) ==
    /\ guard = w /\ Finished(w, "apply") /\ ok[w] /\ NoFault
    /\ SetChange(wop[w], "applied")
    /\ Goto(w, "verify")
    /\ UNCHANGED <<opState, outbox, lock, bstat, guard, wop, plan, ok, why, rec,
                   bound, crashes, losses>>
    /\ LedgerRest /\ OutsideRest

\* A command failed: the engine restores the components at once.
ApplyFails(w) ==
    /\ Finished(w, "apply") /\ ~ok[w] /\ NoFault
    /\ Commands(w, "rollback", RestorePlan(wop[w], wop[w]))
    /\ UNCHANGED <<ledgerVars, bstat, wop, why>>
    /\ OutsideRest

\* The engine verifies its rollback and commits the change's fate; the ledger
\* follows in a transaction of its own.
RollbackDone(w) ==
    /\ guard = w /\ Finished(w, "rollback")
    /\ \/ /\ NoFault /\ ok[w] /\ MatchesRestore(Live(w), wop[w])
          /\ SetChange(wop[w], "failed_rolled_back")
       \/ /\ NoFault /\ (~ok[w] \/ ~MatchesRestore(Live(w), wop[w]))
          /\ SetChange(wop[w], "failed_rollback_failed")
       \/ Fault /\ ok[w] /\ SetChange(wop[w], "failed_rollback_failed")
    /\ Goto(w, "rolled")
    /\ UNCHANGED <<opState, outbox, lock, bstat, guard, wop, plan, ok, why, rec,
                   bound, crashes, losses>>
    /\ LedgerRest /\ OutsideRest

\* The ledger follows the change, in the exception handler of process.
RolledBack(w) ==
    /\ Loaded(w, "rolled") /\ NoFault
    /\ IF change[wop[w]] = "failed_rolled_back"
       THEN Close(w, "restored", "failed", "suggest_fix")
       ELSE Close(w, "restore_failed", "failed", "error")
    /\ UNCHANGED change

\* Files and metadata are read back; a mismatch starts a restore.
Verify(w) ==
    /\ Loaded(w, "verify")
    /\ \/ Fault /\ FailOperation(w) /\ UNCHANGED change
       \/ /\ NoFault /\ FilesVerified(wop[w])
          /\ MatchesTarget(Live(w), before[wop[w]], row[wop[w]].patch)
          /\ Close(w, "succeeded", "published", "applied") /\ UNCHANGED change
       \/ /\ NoFault
          /\ \/ ~FilesVerified(wop[w])
             \/ ~MatchesTarget(Live(w), before[wop[w]], row[wop[w]].patch)
          /\ why' = [why EXCEPT ![w] = IF FilesVerified(wop[w]) THEN "target" ELSE "files"]
          /\ Commands(w, "restore", RestorePlan(wop[w], wop[w]))
          /\ UNCHANGED <<ledgerVars, bstat, wop>>
          /\ OutsideRest

\* A visited operation that was closed already keeps its outcome.
Outcome(w, s) == IF why[w] = "closed" THEN opState[wop[w]] ELSE s

\* The restore after a failed verification, in process and in reconciliation.
RestoreDone(w) ==
    /\ At(w, "restore") /\ plan[w] = Done
    /\ \/ /\ NoFault /\ ok[w] /\ why[w] # "closed" /\ MatchesBefore(Live(w), before[wop[w]])
          /\ SetChange(wop[w], "failed_rolled_back")
          /\ Close(w, "restored", "failed",
                   IF why[w] = "files" THEN "error" ELSE "suggest_fix")
       \/ /\ \/ NoFault /\ (~ok[w] \/ why[w] = "closed"
                              \/ ~MatchesBefore(Live(w), before[wop[w]]))
             \/ Fault /\ ok[w]
          /\ SetChange(wop[w], "failed_rollback_failed")
          /\ Close(w, Outcome(w, "restore_failed"), "failed", "error")

-----------------------------------------------------------------------------
(* MetadataWriter._process_undo.                                           *)

Undone(w) == row[wop[w]].change

\* Mutant: a change that was not applied, or not completely, can be undone.
StaleRun(w) == row[wop[w]].run # brun[Book(w)]

\* The undo was queued for another run or for a change in another status.
StaleUndo(w) == row[wop[w]].run # brun[Book(w)] \/ change[Undone(w)] # "applied"

\* Everything _process_undo does before its first command.
UndoCheck(w) ==
    LET stale == StaleUndo(w) IN
    /\ Loaded(w, "undo_check")
    /\ \/ /\ NoFault /\ stale
          /\ Close(w, "failed", "failed", "error") /\ UNCHANGED change
       \/ ~stale /\ Fault /\ FailOperation(w) /\ UNCHANGED change
       \/ /\ NoFault /\ ~stale /\ ~MatchesAfter(Live(w), row[Undone(w)].patch)
          /\ Close(w, "failed", "failed", "applied") /\ UNCHANGED change
       \/ /\ NoFault /\ ~stale /\ MatchesAfter(Live(w), row[Undone(w)].patch)
          /\ before'  = [before EXCEPT ![wop[w]] = Live(w)]
          /\ backup'  = [backup EXCEPT ![wop[w]] = Live(w)]
          /\ opState' = [opState EXCEPT ![wop[w]] = "writing"]
          /\ Commands(w, "undo", RestorePlan(Undone(w), Undone(w)))
          /\ UNCHANGED <<row, outbox, lock, lease, change, crun, acked, bstat,
                         wop, why>>
          /\ OutsideRest

\* The restored book is read back; an exception leaves the outcome uncertain.
UndoDone(w) ==
    /\ Loaded(w, "undo")
    /\ \/ /\ NoFault /\ ok[w] /\ MatchesBefore(Live(w), before[Undone(w)])
          /\ SetChange(Undone(w), "undone")
          /\ Close(w, "succeeded", "published", "suggest_fix")
       \/ /\ (NoFault /\ ~ok[w]) \/ (Fault /\ ok[w])
          /\ FailOperation(w) /\ UNCHANGED change

UndoFails(w) ==
    /\ Loaded(w, "undo") /\ ok[w] /\ NoFault
    /\ ~MatchesBefore(Live(w), before[Undone(w)])
    /\ Commands(w, "undo_rollback", RestorePlan(wop[w], Undone(w)))
    /\ UNCHANGED <<ledgerVars, bstat, wop, why>>
    /\ OutsideRest

\* The pre-undo state is put back, in process and in reconciliation.
UndoRollbackDone(w) ==
    /\ At(w, "undo_rollback") /\ plan[w] = Done
    /\ \/ /\ NoFault /\ ok[w] /\ why[w] # "closed"
          /\ MatchesBefore(Live(w), before[wop[w]])
          /\ Close(w, "restored", "failed", "applied")
       \/ /\ \/ NoFault /\ (~ok[w] \/ why[w] = "closed"
                              \/ ~MatchesBefore(Live(w), before[wop[w]]))
             \/ Fault /\ ok[w]
          /\ Close(w, Outcome(w, "restore_failed"), "failed", "error")
    /\ UNCHANGED change

-----------------------------------------------------------------------------
(* Startup reconciliation: reconcile_incomplete_operations.                *)

\* Mutant: only claims are listed.
StartListingClaims(w) ==
    /\ pc[w] = "down" /\ guard = "none"
    /\ guard' = w
    /\ bound' = [bound EXCEPT ![w] = deployed]
    /\ rec'   = [rec EXCEPT ![w] = {o \in Ops : opState[o] = "claimed"}]
    /\ Goto(w, "reconcile")
    /\ UNCHANGED <<ledgerVars, bookVars, pilotVars, live, envVars, wop, plan, ok,
                   why, crashes, losses>>

\* A restarted writer takes the advisory lock, reads its settings, and lists
\* the operations a predecessor left claimed or writing.
Start(w) ==
    /\ pc[w] = "down" /\ guard = "none"
    /\ guard' = w
    /\ bound' = [bound EXCEPT ![w] = deployed]
    /\ rec'   = [rec EXCEPT ![w] = {o \in Ops : opState[o] \in Active}]
    /\ Goto(w, "reconcile")
    /\ UNCHANGED <<ledgerVars, bookVars, pilotVars, live, envVars, wop, plan, ok,
                   why, crashes, losses>>

ReconcileEnds(w) ==
    /\ At(w, "reconcile") /\ rec[w] = {}
    /\ Goto(w, "idle")
    /\ UNCHANGED <<ledgerVars, bookVars, pilotVars, live, envVars, guard, wop, plan,
                   ok, why, rec, bound, crashes, losses>>

\* A claim is released once its lease has expired, and skipped before that.
ReconcileClaimed(w, o) ==
    /\ At(w, "reconcile") /\ o \in rec[w] /\ opState[o] = "claimed"
    /\ rec' = [rec EXCEPT ![w] = @ \ {o}]
    /\ IF lease[o] = "active"
       THEN UNCHANGED ledgerVars
       ELSE /\ Finish(o, "requested", "pending")
            /\ lease' = [lease EXCEPT ![o] = "none"]
            /\ UNCHANGED <<row, before, backup, change, crun, acked>>
    /\ UNCHANGED <<bookVars, pilotVars, live, envVars, guard, pc, wop, plan, ok, why,
                   bound, crashes, losses>>

\* An operation that failed before it committed the evidence recovery needs:
\* nothing was written for it, and only its event and its book are closed.
ReconcileNoEvidence(w, o) ==
    /\ At(w, "reconcile") /\ o \in rec[w] /\ opState[o] = "failed"
    /\ rec' = [rec EXCEPT ![w] = @ \ {o}]
    /\ Finish(o, "failed", "failed") /\ SetBook(o, "error")
    /\ LedgerRest /\ OutsideRest
    /\ UNCHANGED <<change, faults, guard, pc, wop, plan, ok, why, bound, crashes,
                   losses>>

\* The visited operation becomes the one the writer works on. Its state is
\* loaded here, and the verdict of the visit acts on what was loaded.
Visit(w, o) ==
    /\ At(w, "reconcile") /\ o \in rec[w] /\ opState[o] \notin {"claimed", "failed"}
    /\ wop' = [wop EXCEPT ![w] = o]
    /\ why' = [why EXCEPT ![w] = IF opState[o] = "writing" THEN "target" ELSE "closed"]
    /\ Goto(w, IF row[o].kind = "undo" THEN "visit_undo" ELSE "visit")
    /\ UNCHANGED <<ledgerVars, bookVars, pilotVars, live, envVars, guard, plan, ok,
                   rec, bound, crashes, losses>>

\* Mutant: reconciliation resolves the operation and forgets its change.
FollowNothing(o, s) == UNCHANGED change

\* A change row, if one was committed, follows the operation.
FollowChange(o, s) == IF change[o] = "none" THEN UNCHANGED change ELSE SetChange(o, s)

ReconcileApply(w) ==
    LET o        == wop[w]
        closed   == why[w] = "closed"
        intended == MatchesTarget(Live(w), before[o], row[o].patch)
        original == MatchesBefore(Live(w), before[o])
    IN
    /\ At(w, "visit")
    /\ \/ /\ \/ Fault
             \/ NoFault /\ closed /\ FilesVerified(o) /\ ~intended /\ original
          /\ Close(w, Outcome(w, "unknown"), "failed", "error")
          /\ FollowChange(o, "failed_rollback_failed")
       \/ /\ NoFault /\ FilesVerified(o) /\ intended /\ ~closed
          /\ Close(w, "succeeded", "published", "applied")
          /\ FollowChange(o, "applied")
       \/ /\ NoFault /\ FilesVerified(o) /\ ~intended /\ original /\ ~closed
          /\ Close(w, "restored", "failed", "suggest_fix")
          /\ FollowChange(o, "failed_rolled_back")
       \/ /\ NoFault
          /\ \/ FilesVerified(o) /\ intended /\ closed
             \/ change[o] = "none" /\ (~FilesVerified(o) \/ (~intended /\ ~original))
          /\ Close(w, Outcome(w, "unknown"), "failed", "error")
          /\ UNCHANGED change
       \/ /\ NoFault /\ (~FilesVerified(o) \/ (~intended /\ ~original))
          /\ change[o] # "none"
          /\ why' = [why EXCEPT ![w] = IF closed THEN "closed"
                                      ELSE IF FilesVerified(o) THEN "target" ELSE "files"]
          /\ Commands(w, "restore", RestorePlan(o, o))
          /\ UNCHANGED <<ledgerVars, bstat, wop>>
          /\ OutsideRest

\* _reconcile_undo
ReconcileUndo(w) ==
    LET o        == wop[w]
        closed   == why[w] = "closed"
        intended == MatchesBefore(Live(w), before[Undone(w)])
        original == MatchesBefore(Live(w), before[o])
    IN
    /\ At(w, "visit_undo")
    /\ \/ /\ \/ Fault
             \/ NoFault /\ closed /\ (intended \/ original)
          /\ Close(w, Outcome(w, "unknown"), "failed", "error") /\ UNCHANGED change
       \/ /\ NoFault /\ intended /\ ~closed
          /\ Close(w, "succeeded", "published", "suggest_fix")
          /\ SetChange(Undone(w), "undone")
       \/ /\ NoFault /\ ~intended /\ original /\ ~closed
          /\ Close(w, "restored", "failed", "applied") /\ UNCHANGED change
       \/ /\ NoFault /\ ~intended /\ ~original
          /\ Commands(w, "undo_rollback", RestorePlan(o, Undone(w)))
          /\ UNCHANGED <<ledgerVars, bstat, wop, why>>
          /\ OutsideRest

-----------------------------------------------------------------------------
(* Crashes and the loss of the guard.                                      *)

\* Everything in the memory of the process is gone.
Dies(w) ==
    /\ Goto(w, "down")
    /\ wop'  = [wop EXCEPT ![w] = NoOp]
    /\ plan' = [plan EXCEPT ![w] = Done]
    /\ ok'   = [ok EXCEPT ![w] = TRUE]
    /\ why'  = [why EXCEPT ![w] = "target"]
    /\ rec'  = [rec EXCEPT ![w] = {}]
    /\ UNCHANGED <<pilotVars, live, envVars, bound>>

\* PostgreSQL releases the session lock with the connection of the process.
Crash(w) ==
    /\ pc[w] # "down" /\ crashes < MaxCrashes
    /\ crashes' = crashes + 1
    /\ guard'   = IF guard = w THEN "none" ELSE guard
    /\ Dies(w) /\ UNCHANGED <<ledgerVars, bookVars, losses>>

\* The connection dies while the process lives on.
GuardLost(w) ==
    /\ guard = w /\ losses < MaxLosses
    /\ guard'  = "none"
    /\ losses' = losses + 1
    /\ UNCHANGED <<ledgerVars, bookVars, pilotVars, live, envVars, pc, wop, plan, ok,
                   why, rec, bound, crashes>>

\* The next query on the dead connection fails and the process exits. An
\* exception out of process() first reaches fail_operation, on a connection
\* that the rolled back session may have opened anew.
ExitUnfenced(w) ==
    /\ pc[w] # "down" /\ guard # w /\ ~Commanding(w)
    /\ ~(pc[w] = "apply" /\ ~ok[w])
    /\ \/ UNCHANGED <<ledgerVars, bookVars>>
       \/ /\ wop[w] # NoOp /\ wop[w] \notin rec[w]
          /\ Finish(wop[w], FailedState(wop[w]), "failed")
          /\ SetBook(wop[w], "error")
          /\ LedgerRest /\ UNCHANGED <<change, brun, snap, flocks, auth>>
    /\ Dies(w) /\ UNCHANGED <<guard, crashes, losses>>
=============================================================================
