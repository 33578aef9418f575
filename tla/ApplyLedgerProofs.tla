-------------------------- MODULE ApplyLedgerProofs --------------------------
(***************************************************************************)
(* As long as no writer loses the connection that fences it, the ledger,   *)
(* the outbox, the book locks and the processes agree, and the committed   *)
(* ledger implements OperationLifecycle. For every number of writers and   *)
(* of crashes, failing commands, edits, redeployments and concurrent       *)
(* requests.                                                               *)
(***************************************************************************)
EXTENDS ApplyProofs

\* What every step may assume.
Fenced == losses = 0 /\ TypeOK /\ WorkRecorded /\ WriterAgrees /\ LedgerAgrees

\* A lifecycle step of one operation, or none.
LifeStep == [Life!LifeNext]_(Life!lifecycle)

\* What every step has to keep.
Kept == WriterAgrees' /\ LedgerAgrees' /\ LifeStep

-----------------------------------------------------------------------------
(* The shapes of steps.                                                    *)

\* Steps that touch neither the ledger nor what the processes hold of it.
LEMMA OtherKept ==
  ASSUME Fenced,
         UNCHANGED <<row, opState, outbox, lock, guard, pc, wop, rec, why, losses>>
  PROVE  Kept
  <1>1. WriterAgrees' /\ LedgerAgrees'
    BY DEF Fenced, WriterAgrees, LedgerAgrees
  <1>2. UNCHANGED Life!lifecycle
    BY DEF Life!lifecycle
  <1> QED
    BY <1>1, <1>2 DEF Kept, LifeStep

\* A process moves on to its next step with the same operation.
LEMMA MoveKept ==
  ASSUME Fenced, NEW w \in Writers, NEW l \in WorkPcs,
         pc[w] \in WorkPcs, pc[w] \in ClaimedPcs <=> l \in ClaimedPcs, Goto(w, l),
         UNCHANGED <<row, opState, outbox, lock, guard, wop, rec, losses>>,
         \A v \in Writers : why'[v] # "closed"
  PROVE  Kept
  <1>1. LedgerAgrees'
    BY DEF Fenced, LedgerAgrees
  <1>2. WriterAgrees'
    BY DEF Fenced, WriterAgrees, Goto, TypeOK, WriterTypeOK, WorkPcs
  <1>3. UNCHANGED Life!lifecycle
    BY DEF Life!lifecycle
  <1> QED
    BY <1>1, <1>2, <1>3 DEF Kept, LifeStep

\* A process dies, and a new one is not started in the same step.
LEMMA DiesKept ==
  ASSUME Fenced, NEW w \in Writers, Dies(w), pc[w] # "down", guard' = "none",
         UNCHANGED <<row, opState, outbox, lock, losses>>
  PROVE  Kept
  <1>1. LedgerAgrees'
    BY DEF Fenced, LedgerAgrees
  <1>2. \A v \in Writers : v # w => pc[v] = "down"
    BY DEF Fenced, WriterAgrees
  <1>3. WriterAgrees'
    BY <1>2 DEF Fenced, WriterAgrees, Dies, Goto, TypeOK, WriterTypeOK, WorkPcs
  <1>4. UNCHANGED Life!lifecycle
    BY DEF Life!lifecycle
  <1> QED
    BY <1>1, <1>3, <1>4 DEF Kept, LifeStep

\* A row is added.
LEMMA CreateKept ==
  ASSUME Fenced, NEW r \in Row, CreateOperation(r), UNCHANGED writerVars
  PROVE  Kept
  <1>1. PICK o \in Ops :
          /\ opState[o] = "none"
          /\ row'     = [row EXCEPT ![o] = r]
          /\ opState' = [opState EXCEPT ![o] = "requested"]
          /\ outbox'  = [outbox EXCEPT ![o] = "pending"]
          /\ lock' = lock
    BY DEF CreateOperation
  <1>2. r.book \in Books
    BY DEF Row
  <1>3. LedgerAgrees'
    <2>1. \A p \in Ops : outbox'[p] = EventOf(opState'[p])
      BY <1>1 DEF Fenced, LedgerAgrees, EventOf, Active, TypeOK, LedgerTypeOK
    <2>2. \A p \in Ops : opState'[p] \in Active => lock'[row'[p].book] = p
      BY <1>1 DEF Fenced, LedgerAgrees, Active, TypeOK, LedgerTypeOK
    <2>3. \A b \in Books : lock'[b] # NoOp =>
             opState'[lock'[b]] \in Active /\ row'[lock'[b]].book = b
      BY <1>1 DEF Fenced, LedgerAgrees, Active, TypeOK, LedgerTypeOK
    <2> QED
      BY <2>1, <2>2, <2>3 DEF LedgerAgrees
  <1>4. WriterAgrees'
    BY <1>1 DEF Fenced, WriterAgrees, WorkRecorded, Active, TypeOK, LedgerTypeOK,
       WriterTypeOK, writerVars
  <1>5. Life!Request(o)
    <2>1. [p \in Ops |-> row'[p].book] = [[p \in Ops |-> row[p].book] EXCEPT ![o] = r.book]
      BY <1>1 DEF Fenced, TypeOK, LedgerTypeOK
    <2> QED
      BY <1>1, <1>2, <2>1 DEF Life!Request
  <1> QED
    BY <1>3, <1>4, <1>5 DEF Kept, LifeStep, Life!LifeNext

\* An operation gets its outcome: claimed ones fail, written ones resolve.
LEMMA CloseKept ==
  ASSUME Fenced, NEW w \in Writers, NEW s \in Terminal, NEW e, NEW b,
         pc[w] \in WorkPcs, Close(w, s, e, b), e = EventOf(s),
         IF pc[w] \in ClaimedPcs THEN s = "failed" ELSE s # "failed"
  PROVE  Kept
  <1> DEFINE o == wop[w]
  <1>1. /\ o \in Ops
        /\ opState[o] = IF pc[w] \in ClaimedPcs THEN "claimed" ELSE "writing"
    BY DEF Fenced, WorkRecorded, WriterAgrees
  <1>2. /\ opState' = [opState EXCEPT ![o] = s]
        /\ outbox'  = [outbox EXCEPT ![o] = e]
        /\ lock'    = [lock EXCEPT ![row[o].book] = NoOp]
        /\ row' = row
        /\ lock[row[o].book] = o
    BY <1>1 DEF Close, Finish, LedgerRest, Fenced, LedgerAgrees, Active, TypeOK, LedgerTypeOK
  <1>3. row[o].book \in Books
    BY <1>1 DEF Fenced, TypeOK, LedgerTypeOK, Row
  <1> HIDE DEF o
  <1>4. losses' = 0
    BY DEF Close, Return, Fenced
  <1>5. LedgerAgrees'
    <2>1. \A p \in Ops : outbox'[p] = EventOf(opState'[p])
      BY <1>1, <1>2 DEF Fenced, LedgerAgrees, TypeOK, LedgerTypeOK
    <2>2. \A p \in Ops : opState'[p] \in Active => lock'[row'[p].book] = p
      BY <1>1, <1>2, <1>3 DEF Fenced, LedgerAgrees, TypeOK, LedgerTypeOK, Active, Terminal
    <2>3. \A c \in Books : lock'[c] # NoOp =>
             opState'[lock'[c]] \in Active /\ row'[lock'[c]].book = c
      BY <1>1, <1>2, <1>3 DEF Fenced, LedgerAgrees, TypeOK, LedgerTypeOK
    <2> QED
      BY <2>1, <2>2, <2>3 DEF LedgerAgrees
  <1>6. WriterAgrees'
    <2>1. \A v \in Writers : v # w => pc[v] = "down"
      BY DEF Fenced, WriterAgrees, WorkPcs
    <2>2. \A v \in Writers : v # w => pc'[v] = "down" /\ rec'[v] = {} /\ why'[v] # "closed"
      BY <2>1 DEF Close, Return, Goto, Fenced, WriterAgrees, TypeOK, WriterTypeOK
    <2>3. /\ guard' = guard /\ guard = w
          /\ pc'[w] \in {"idle", "reconcile"} /\ why'[w] = "target"
          /\ rec'[w] = rec[w] \ {o}
          /\ pc'[w] = "idle" => rec'[w] = {}
      BY <1>1 DEF o, Close, Return, Goto, Fenced, WriterAgrees, TypeOK, WriterTypeOK, WorkPcs
    <2>4. \A p \in rec'[w] : opState'[p] \in Active
      BY <2>3, <1>1, <1>2 DEF Fenced, WriterAgrees, TypeOK, WriterTypeOK, LedgerTypeOK
    <2> QED
      BY <2>2, <2>3, <2>4 DEF WriterAgrees, WorkPcs
  <1>7. Life!Refuse(o) \/ Life!Resolve(o)
    BY <1>1, <1>2 DEF Life!Refuse, Life!Resolve, Life!Move, Life!Outcomes, Terminal
  <1> QED
    BY <1>1, <1>5, <1>6, <1>7 DEF Kept, LifeStep, Life!LifeNext

\* Evidence and the writing state are committed.
LEMMA WriteKept ==
  ASSUME Fenced, NEW w \in Writers, NEW l \in WorkPcs \ ClaimedPcs,
         pc[w] \in ClaimedPcs, Goto(w, l),
         opState' = [opState EXCEPT ![wop[w]] = "writing"],
         UNCHANGED <<row, outbox, lock, guard, wop, rec, why, losses>>
  PROVE  Kept
  <1> DEFINE o == wop[w]
  <1>1. o \in Ops /\ opState[o] = "claimed" /\ pc[w] \in WorkPcs
    BY DEF Fenced, WorkRecorded, WriterAgrees, WorkPcs, ClaimedPcs, Pcs
  <1>2. LedgerAgrees'
    BY <1>1 DEF Fenced, LedgerAgrees, EventOf, Active, TypeOK, LedgerTypeOK
  <1>3. \A v \in Writers : v # w => pc[v] = "down" /\ rec[v] = {}
    BY <1>1 DEF Fenced, WriterAgrees, WorkPcs
  <1>4. WriterAgrees'
    BY <1>1, <1>3 DEF Fenced, WriterAgrees, Goto, Active, TypeOK, WriterTypeOK, LedgerTypeOK,
       WorkPcs
  <1>5. Life!Write(o)
    BY <1>1 DEF Life!Write, Life!Move
  <1> QED
    BY <1>1, <1>2, <1>4, <1>5 DEF Kept, LifeStep, Life!LifeNext

-----------------------------------------------------------------------------
(* Coordinator and environment.                                            *)

LEMMA CoordinateKept ==
  ASSUME Fenced, Coordinate
  PROVE  Kept
  <1>1. CASE UNCHANGED <<row, opState, outbox, lock, writerVars>>
    BY <1>1, OtherKept DEF writerVars
  <1>2. ASSUME NEW q \in Requests, Reserve(q)
        PROVE  Kept
    <2>1. PICK r \in api[q] : CreateOperation(RowOf(r)) /\ UNCHANGED writerVars
      BY <1>2 DEF Reserve
    <2>2. r \in LoadedRows
      BY <2>1 DEF Fenced, TypeOK, EnvTypeOK
    <2>3. RowOf(r) \in Row
      BY <2>2 DEF LoadedRows, RowOf, Row, ChangeStates
    <2> QED
      BY <2>1, <2>3, CreateKept
  <1>3. ASSUME NEW c \in Ops, QueueUndo(c)
        PROVE  Kept
    <2>1. UndoRow(c) \in Row
      BY UnsetType DEF UndoRow, Row, Fenced, TypeOK, LedgerTypeOK
    <2>2. UNCHANGED writerVars
      BY <1>3 DEF QueueUndo
    <2>3. CASE UNCHANGED ledgerVars
      BY <1>1, <2>2, <2>3 DEF ledgerVars
    <2>4. CASE CreateOperation(UndoRow(c))
      BY <2>1, <2>2, <2>4, CreateKept
    <2> QED
      BY <1>3, <2>3, <2>4 DEF QueueUndo
  <1>4. CASE \E b \in Books : RecordPackage(b) \/ Authorize(b)
                              \/ \E p \in LockedParts : LockField(b, p)
    BY <1>1, <1>4 DEF RecordPackage, Authorize, LockField, ledgerVars
  <1>5. CASE \E b \in Reviewed, v \in {"suggest_fix", "scanned"} : Review(b, v)
    BY <1>1, <1>5 DEF Review, ledgerVars
  <1>6. CASE \E q \in Requests : (\E b \in Books : LoadRequest(q, b)) \/ RejectRequest(q)
    BY <1>1, <1>6 DEF LoadRequest, RejectRequest, ledgerVars
  <1>7. CASE (\E o \in Ops : Acknowledge(o)) \/ (\E p \in Pilots : PilotStop(p))
    BY <1>1, <1>7 DEF Acknowledge, PilotStop, ledgerVars
  <1> QED
    BY <1>2, <1>3, <1>4, <1>5, <1>6, <1>7 DEF Coordinate

\* Losing a connection ends the part of the run this is about.
LEMMA EnvironmentKept ==
  ASSUME Fenced, Environment, losses' = 0
  PROVE  Kept
  <1>1. CASE (\E g \in Guards : Redeploy(g)) \/ HeartbeatExpires
             \/ (\E b \in Books, p \in EditedParts : ExternalEdit(b, p))
    BY <1>1, OtherKept DEF Redeploy, HeartbeatExpires, ExternalEdit, ledgerVars, writerVars
  <1>2. ASSUME NEW w \in Writers, Crash(w)
        PROVE  Kept
    <2>1. guard' = "none"
      BY <1>2 DEF Crash, Fenced, WriterAgrees
    <2> QED
      BY <1>2, <2>1, DiesKept DEF Crash, ledgerVars
  <1>3. ASSUME NEW w \in Writers, GuardLost(w)
        PROVE  FALSE
    BY <1>3 DEF GuardLost, Fenced
  <1> QED
    BY <1>1, <1>2, <1>3 DEF Environment

-----------------------------------------------------------------------------
(* Steps of a writer.                                                      *)

LEMMA ClaimKept ==
  ASSUME Fenced, NEW w \in Writers, Claim(w)
  PROVE  Kept
  <1>1. PICK o \in Ops :
          /\ FirstPending(o) /\ lock[row[o].book] = NoOp
          /\ opState' = [opState EXCEPT ![o] = "claimed"]
          /\ outbox'  = [outbox EXCEPT ![o] = "processing"]
          /\ lock'    = [lock EXCEPT ![row[o].book] = o]
          /\ wop'     = [wop EXCEPT ![w] = o]
          /\ Goto(w, IF row[o].kind = "undo" THEN "undo_check" ELSE "validate")
    BY DEF Claim
  <1>2. opState[o] = "requested"
    BY <1>1 DEF FirstPending, Fenced, LedgerAgrees, EventOf, Active, TypeOK, LedgerTypeOK
  <1>3. row[o].book \in Books /\ row' = row /\ losses' = 0
    BY DEF Claim, Fenced, TypeOK, LedgerTypeOK, Row
  <1>4. \A p \in Ops : opState[p] \in Active => row[p].book # row[o].book
    BY <1>1, NoOpFresh DEF Fenced, LedgerAgrees
  <1>5. LedgerAgrees'
    <2>1. \A p \in Ops : outbox'[p] = EventOf(opState'[p])
      BY <1>1 DEF Fenced, LedgerAgrees, EventOf, Active, TypeOK, LedgerTypeOK
    <2>2. \A p \in Ops : opState'[p] \in Active => lock'[row'[p].book] = p
      BY <1>1, <1>3, <1>4 DEF Fenced, LedgerAgrees, TypeOK, LedgerTypeOK
    <2>3. \A b \in Books : lock'[b] # NoOp =>
             opState'[lock'[b]] \in Active /\ row'[lock'[b]].book = b
      BY <1>1, <1>2, <1>3 DEF Fenced, LedgerAgrees, TypeOK, LedgerTypeOK, Active
    <2> QED
      BY <2>1, <2>2, <2>3 DEF LedgerAgrees
  <1>6. WriterAgrees'
    <2>1. pc[w] = "idle" /\ guard = w /\ rec[w] = {}
      BY DEF Claim, At, Fenced, WriterAgrees
    <2>2. \A v \in Writers : v # w => pc[v] = "down" /\ rec[v] = {}
      BY <2>1 DEF Fenced, WriterAgrees
    <2>3. UNCHANGED <<guard, rec, why, losses>>
      BY DEF Claim
    <2> QED
      BY <1>1, <2>1, <2>2, <2>3 DEF Fenced, WriterAgrees, Goto, TypeOK, WriterTypeOK,
         LedgerTypeOK, WorkPcs, ClaimedPcs
  <1>7. Life!Take(o)
    BY <1>1, <1>2, <1>3, <1>4 DEF Life!Take, Life!Move, Active
  <1> QED
    BY <1>5, <1>6, <1>7 DEF Kept, LifeStep, Life!LifeNext

LEMMA FailOperationKept ==
  ASSUME Fenced, NEW w \in Writers, pc[w] \in WorkPcs, FailOperation(w)
  PROVE  Kept
  <1>1. FailedState(wop[w]) = IF pc[w] \in ClaimedPcs THEN "failed" ELSE "unknown"
    BY DEF FailedState, Fenced, WriterAgrees
  <1>2. FailedState(wop[w]) \in Terminal /\ "failed" = EventOf(FailedState(wop[w]))
    BY <1>1 DEF EventOf, Terminal, Active
  <1> QED
    BY <1>1, <1>2, CloseKept DEF FailOperation

LEMMA ApplyStartsKept ==
  ASSUME Fenced, NEW w \in Writers,
         Validate(w) \/ Observe(w) \/ Backup(w) \/ BuildTarget(w)
  PROVE  Kept
  <1>1. EventOf("failed") = "failed" /\ "failed" \in Terminal
    BY DEF EventOf, Terminal, Active
  <1>2. \A v \in Writers : why[v] # "closed"
    BY DEF Fenced, WriterAgrees
  <1>3. CASE Validate(w)
    <2>1. pc[w] = "validate" /\ pc[w] \in ClaimedPcs /\ pc[w] \in WorkPcs
      BY <1>3 DEF Validate, Loaded, At, ClaimedPcs, WorkPcs, Pcs
    <2>2. CASE Close(w, "failed", "failed", "error")
      BY <2>1, <2>2, <1>1, CloseKept
    <2>3. CASE /\ Goto(w, "observe")
               /\ UNCHANGED <<ledgerVars, bookVars, pilotVars, live, edits, deployed,
                              deploys, hb, api, guard, wop, plan, ok, why, rec,
                              bound, crashes, losses>>
      BY <2>1, <2>3, <1>2, MoveKept DEF ledgerVars, ClaimedPcs, WorkPcs, Pcs
    <2> QED
      BY <1>3, <2>2, <2>3 DEF Validate
  <1>4. CASE Observe(w)
    <2>1. pc[w] = "observe" /\ pc[w] \in ClaimedPcs /\ pc[w] \in WorkPcs
      BY <1>4 DEF Observe, At, ClaimedPcs, WorkPcs, Pcs
    <2>2. CASE FailOperation(w)
      BY <2>1, <2>2, FailOperationKept
    <2>3. CASE \E b \in {"error", "suggest_fix"} : Close(w, "failed", "failed", b)
      BY <2>1, <2>3, <1>1, CloseKept
    <2>4. CASE /\ opState' = [opState EXCEPT ![wop[w]] = "writing"]
               /\ Goto(w, "backup")
               /\ UNCHANGED <<row, outbox, lock, lease, backup, change, crun, acked,
                              bstat, guard, wop, plan, ok, why, rec, bound, crashes,
                              losses>>
      BY <2>1, <2>4, WriteKept DEF ClaimedPcs, WorkPcs, Pcs
    <2> QED
      BY <1>4, <2>2, <2>3, <2>4 DEF Observe
  <1>5. CASE Backup(w)
    <2>1. pc[w] = "backup" /\ pc[w] \notin ClaimedPcs /\ pc[w] \in WorkPcs
      BY <1>5 DEF Backup, At, ClaimedPcs, WorkPcs, Pcs
    <2>2. CASE FailOperation(w)
      BY <2>1, <2>2, FailOperationKept
    <2>3. CASE /\ Goto(w, "build")
               /\ UNCHANGED <<row, opState, outbox, lock, guard, wop, rec, why, losses>>
      BY <2>1, <2>3, <1>2, MoveKept DEF ClaimedPcs, WorkPcs, Pcs
    <2> QED
      BY <1>5, <2>2, <2>3 DEF Backup
  <1>6. CASE BuildTarget(w)
    <2>1. pc[w] = "build" /\ pc[w] \notin ClaimedPcs /\ pc[w] \in WorkPcs
      BY <1>6 DEF BuildTarget, At, ClaimedPcs, WorkPcs, Pcs
    <2>2. CASE FailOperation(w)
      BY <2>1, <2>2, FailOperationKept
    <2>3. CASE /\ Commands(w, "apply", ApplyPlan(wop[w]))
               /\ UNCHANGED <<ledgerVars, bstat, wop, why>>
      BY <2>1, <2>3, <1>2, MoveKept DEF Commands, ledgerVars, ClaimedPcs, WorkPcs, Pcs
    <2> QED
      BY <1>6, <2>2, <2>3 DEF BuildTarget
  <1> QED
    BY <1>3, <1>4, <1>5, <1>6

LEMMA ApplyEndsKept ==
  ASSUME Fenced, NEW w \in Writers,
         \/ ApplyDone(w) \/ ApplyFails(w) \/ RollbackDone(w) \/ RolledBack(w)
         \/ Verify(w) \/ RestoreDone(w)
  PROVE  Kept
  <1>1. /\ EventOf("restored") = "failed" /\ EventOf("restore_failed") = "failed"
        /\ EventOf("succeeded") = "published"
        /\ {"restored", "restore_failed", "succeeded"} \subseteq Terminal
    BY DEF EventOf, Terminal, Active
  <1>2. \A v \in Writers : why[v] # "closed"
    BY DEF Fenced, WriterAgrees
  <1>3. pc[w] \in {"apply", "rollback", "rolled", "verify", "restore"}
    BY DEF ApplyDone, ApplyFails, RollbackDone, RolledBack, Verify, RestoreDone, Finished,
       Loaded, At
  <1>4. pc[w] \in WorkPcs \ ClaimedPcs
    BY <1>3 DEF ClaimedPcs, WorkPcs, Pcs
  <1>5. {"verify", "rolled", "rollback", "restore"} \subseteq WorkPcs \ ClaimedPcs
    BY DEF ClaimedPcs, WorkPcs, Pcs
  <1>6. CASE ApplyDone(w) \/ RollbackDone(w)
    <2>1. /\ \E l \in {"verify", "rolled"} : Goto(w, l)
          /\ UNCHANGED <<row, opState, outbox, lock, guard, wop, rec, why, losses>>
      BY <1>6 DEF ApplyDone, RollbackDone, LedgerRest
    <2> QED
      BY <2>1, <1>2, <1>4, <1>5, MoveKept
  <1>7. CASE ApplyFails(w)
    <2>1. /\ Goto(w, "rollback")
          /\ UNCHANGED <<row, opState, outbox, lock, guard, wop, rec, why, losses>>
      BY <1>7 DEF ApplyFails, Commands, ledgerVars
    <2> QED
      BY <2>1, <1>2, <1>4, <1>5, MoveKept
  <1>8. CASE RolledBack(w)
    <2>1. \/ Close(w, "restored", "failed", "suggest_fix")
          \/ Close(w, "restore_failed", "failed", "error")
      BY <1>8 DEF RolledBack
    <2> QED
      BY <2>1, <1>1, <1>4, CloseKept
  <1>9. CASE Verify(w)
    <2>1. CASE FailOperation(w)
      BY <2>1, <1>4, FailOperationKept
    <2>2. CASE Close(w, "succeeded", "published", "applied")
      BY <2>2, <1>1, <1>4, CloseKept
    <2>3. CASE /\ why' = [why EXCEPT ![w] = IF FilesVerified(wop[w]) THEN "target" ELSE "files"]
               /\ Commands(w, "restore", RestorePlan(wop[w], wop[w]))
               /\ UNCHANGED <<ledgerVars, bstat, wop>>
      <3>1. /\ Goto(w, "restore")
            /\ UNCHANGED <<row, opState, outbox, lock, guard, wop, rec, losses>>
        BY <2>3 DEF Commands, ledgerVars
      <3>2. \A v \in Writers : why'[v] # "closed"
        BY <1>2, <2>3 DEF Fenced, TypeOK, WriterTypeOK
      <3> QED
        BY <3>1, <3>2, <1>4, <1>5, MoveKept
    <2> QED
      BY <1>9, <2>1, <2>2, <2>3 DEF Verify
  <1>10. CASE RestoreDone(w)
    <2>1. Outcome(w, "restore_failed") = "restore_failed"
      BY <1>2 DEF Outcome
    <2>2. \/ \E b \in {"error", "suggest_fix"} : Close(w, "restored", "failed", b)
          \/ Close(w, "restore_failed", "failed", "error")
      BY <1>10, <2>1 DEF RestoreDone
    <2> QED
      BY <2>2, <1>1, <1>4, CloseKept
  <1> QED
    BY <1>6, <1>7, <1>8, <1>9, <1>10

LEMMA UndoKept ==
  ASSUME Fenced, NEW w \in Writers,
         UndoCheck(w) \/ UndoDone(w) \/ UndoFails(w) \/ UndoRollbackDone(w)
  PROVE  Kept
  <1>1. /\ EventOf("restored") = "failed" /\ EventOf("restore_failed") = "failed"
        /\ EventOf("succeeded") = "published" /\ EventOf("failed") = "failed"
        /\ {"restored", "restore_failed", "succeeded", "failed"} \subseteq Terminal
    BY DEF EventOf, Terminal, Active
  <1>2. \A v \in Writers : why[v] # "closed"
    BY DEF Fenced, WriterAgrees
  <1>3. /\ {"undo", "undo_rollback"} \subseteq WorkPcs \ ClaimedPcs
        /\ "undo_check" \in WorkPcs \cap ClaimedPcs
    BY DEF ClaimedPcs, WorkPcs, Pcs
  <1>4. CASE UndoCheck(w)
    <2>1. pc[w] = "undo_check"
      BY <1>4 DEF UndoCheck, Loaded, At
    <2>2. CASE FailOperation(w)
      BY <2>1, <2>2, <1>3, FailOperationKept
    <2>3. CASE \E b \in {"error", "applied"} : Close(w, "failed", "failed", b)
      BY <2>1, <2>3, <1>1, <1>3, CloseKept
    <2>4. CASE /\ opState' = [opState EXCEPT ![wop[w]] = "writing"]
               /\ Commands(w, "undo", RestorePlan(Undone(w), Undone(w)))
               /\ UNCHANGED <<row, outbox, lock, lease, change, crun, acked, bstat,
                              wop, why>>
      BY <2>1, <2>4, <1>3, WriteKept DEF Commands
    <2> QED
      BY <1>4, <2>2, <2>3, <2>4 DEF UndoCheck
  <1>5. CASE UndoDone(w)
    <2>1. pc[w] = "undo"
      BY <1>5 DEF UndoDone, Loaded, At
    <2>2. CASE FailOperation(w)
      BY <2>1, <2>2, <1>3, FailOperationKept
    <2>3. CASE Close(w, "succeeded", "published", "suggest_fix")
      BY <2>1, <2>3, <1>1, <1>3, CloseKept
    <2> QED
      BY <1>5, <2>2, <2>3 DEF UndoDone
  <1>6. CASE UndoFails(w)
    <2>1. /\ pc[w] = "undo" /\ Goto(w, "undo_rollback")
          /\ UNCHANGED <<row, opState, outbox, lock, guard, wop, rec, why, losses>>
      BY <1>6 DEF UndoFails, Loaded, At, Commands, ledgerVars
    <2> QED
      BY <2>1, <1>2, <1>3, MoveKept
  <1>7. CASE UndoRollbackDone(w)
    <2>1. Outcome(w, "restore_failed") = "restore_failed"
      BY <1>2 DEF Outcome
    <2>2. /\ pc[w] = "undo_rollback"
          /\ \/ Close(w, "restored", "failed", "applied")
             \/ Close(w, "restore_failed", "failed", "error")
      BY <1>7, <2>1 DEF UndoRollbackDone, At
    <2> QED
      BY <2>2, <1>1, <1>3, CloseKept
  <1> QED
    BY <1>4, <1>5, <1>6, <1>7

LEMMA VisitKept ==
  ASSUME Fenced, NEW w \in Writers, ReconcileApply(w) \/ ReconcileUndo(w)
  PROVE  Kept
  <1>1. /\ EventOf("restored") = "failed" /\ EventOf("unknown") = "failed"
        /\ EventOf("succeeded") = "published"
        /\ {"restored", "unknown", "succeeded"} \subseteq Terminal
    BY DEF EventOf, Terminal, Active
  <1>2. \A v \in Writers : why[v] # "closed"
    BY DEF Fenced, WriterAgrees
  <1>3. pc[w] \in WorkPcs \ ClaimedPcs
        /\ {"restore", "undo_rollback"} \subseteq WorkPcs \ ClaimedPcs
    BY DEF ReconcileApply, ReconcileUndo, At, ClaimedPcs, WorkPcs, Pcs
  <1>4. Outcome(w, "unknown") = "unknown"
    BY <1>2 DEF Outcome
  <1>5. CASE \/ Close(w, Outcome(w, "unknown"), "failed", "error")
             \/ Close(w, "succeeded", "published", "applied")
             \/ Close(w, "succeeded", "published", "suggest_fix")
             \/ Close(w, "restored", "failed", "suggest_fix")
             \/ Close(w, "restored", "failed", "applied")
    BY <1>5, <1>1, <1>3, <1>4, CloseKept
  <1>6. CASE /\ \E l \in {"restore", "undo_rollback"} : \E p : Commands(w, l, p)
             /\ UNCHANGED <<ledgerVars, bstat, wop>>
             /\ \/ UNCHANGED why
                \/ why' = [why EXCEPT ![w] = IF why[w] = "closed" THEN "closed"
                              ELSE IF FilesVerified(wop[w]) THEN "target" ELSE "files"]
    <2>1. \A v \in Writers : why'[v] # "closed"
      BY <1>2, <1>6 DEF Fenced, TypeOK, WriterTypeOK
    <2>2. /\ \E l \in {"restore", "undo_rollback"} : Goto(w, l)
          /\ UNCHANGED <<row, opState, outbox, lock, guard, wop, rec, losses>>
      BY <1>6 DEF Commands, ledgerVars
    <2> QED
      BY <2>1, <2>2, <1>3, MoveKept
  <1>7. CASE ReconcileApply(w)
    BY <1>5, <1>6, <1>7 DEF ReconcileApply
  <1>8. CASE ReconcileUndo(w)
    BY <1>5, <1>6, <1>8 DEF ReconcileUndo
  <1> QED
    BY <1>7, <1>8

\* A restarted writer finds nobody else alive, lists what is open and releases
\* or visits it. What only an unfenced process can cause does not happen.
LEMMA RestartKept ==
  ASSUME Fenced, NEW w \in Writers,
         \/ Start(w) \/ ReconcileEnds(w)
         \/ \E o \in Ops : ReconcileClaimed(w, o) \/ ReconcileNoEvidence(w, o) \/ Visit(w, o)
         \/ TransitionRaises(w) \/ ExitUnfenced(w)
  PROVE  Kept
  <1> USE DEF Fenced
  <1>1. CASE Start(w)
    <2>1. \A v \in Writers : pc[v] = "down" /\ rec[v] = {}
      BY <1>1, ProcessAssumption DEF Start, WriterAgrees
    <2>2. LedgerAgrees' /\ UNCHANGED Life!lifecycle
      BY <1>1 DEF Start, LedgerAgrees, ledgerVars, Life!lifecycle
    <2>3. WriterAgrees'
      BY <1>1, <2>1 DEF Start, Goto, ledgerVars, WriterAgrees, TypeOK, WriterTypeOK, WorkPcs
    <2> QED
      BY <2>2, <2>3 DEF Kept, LifeStep
  <1>2. CASE ReconcileEnds(w)
    <2>1. LedgerAgrees' /\ UNCHANGED Life!lifecycle
      BY <1>2 DEF ReconcileEnds, LedgerAgrees, ledgerVars, Life!lifecycle
    <2>2. WriterAgrees'
      BY <1>2 DEF ReconcileEnds, At, Goto, ledgerVars, WriterAgrees, TypeOK, WriterTypeOK,
         WorkPcs
    <2> QED
      BY <2>1, <2>2 DEF Kept, LifeStep
  <1>3. ASSUME NEW o \in Ops, ReconcileClaimed(w, o)
        PROVE  Kept
    <2>1. \A v \in Writers : v # w => pc[v] = "down" /\ rec[v] = {}
      BY <1>3 DEF ReconcileClaimed, At, WriterAgrees
    <2>2. /\ pc[w] = "reconcile" /\ guard = w /\ opState[o] = "claimed"
          /\ rec' = [rec EXCEPT ![w] = @ \ {o}]
          /\ UNCHANGED <<row, guard, pc, wop, why, losses>>
      BY <1>3 DEF ReconcileClaimed, At, ledgerVars
    <2>3. CASE UNCHANGED ledgerVars
      <3>1. LedgerAgrees' /\ UNCHANGED Life!lifecycle
        BY <2>2, <2>3 DEF LedgerAgrees, ledgerVars, Life!lifecycle
      <3>2. WriterAgrees'
        BY <2>1, <2>2, <2>3 DEF ledgerVars, WriterAgrees, TypeOK, WriterTypeOK, WorkPcs
      <3> QED
        BY <3>1, <3>2 DEF Kept, LifeStep
    <2>4. CASE Finish(o, "requested", "pending")
      <3>1. /\ opState' = [opState EXCEPT ![o] = "requested"]
            /\ outbox'  = [outbox EXCEPT ![o] = "pending"]
            /\ lock'    = [lock EXCEPT ![row[o].book] = NoOp]
            /\ lock[row[o].book] = o /\ row[o].book \in Books
        BY <2>2, <2>4, ZenonT(60) DEF Finish, LedgerAgrees, Active, TypeOK, LedgerTypeOK, Row
      <3>2. LedgerAgrees'
        <4>1. \A p \in Ops : outbox'[p] = EventOf(opState'[p])
          BY <3>1 DEF LedgerAgrees, EventOf, Active, TypeOK, LedgerTypeOK
        <4>2. \A p \in Ops : opState'[p] \in Active => lock'[row'[p].book] = p
          BY <2>2, <3>1 DEF LedgerAgrees, TypeOK, LedgerTypeOK, Active
        <4>3. \A c \in Books : lock'[c] # NoOp =>
                 opState'[lock'[c]] \in Active /\ row'[lock'[c]].book = c
          BY <2>2, <3>1 DEF LedgerAgrees, TypeOK, LedgerTypeOK
        <4> QED
          BY <4>1, <4>2, <4>3 DEF LedgerAgrees
      <3>3. WriterAgrees'
        BY <2>1, <2>2, <3>1 DEF WriterAgrees, TypeOK, WriterTypeOK, LedgerTypeOK, WorkPcs
      <3>4. Life!Release(o)
        BY <2>2, <3>1 DEF Life!Release, Life!Move
      <3> QED
        BY <3>2, <3>3, <3>4 DEF Kept, LifeStep, Life!LifeNext
    <2> QED
      BY <1>3, <2>3, <2>4 DEF ReconcileClaimed
  <1>4. ASSUME NEW o \in Ops, ReconcileNoEvidence(w, o)
        PROVE  FALSE
    BY <1>4 DEF ReconcileNoEvidence, WriterAgrees, Active
  <1>5. ASSUME NEW o \in Ops, Visit(w, o)
        PROVE  Kept
    <2>1. \A v \in Writers : v # w => pc[v] = "down" /\ rec[v] = {}
      BY <1>5 DEF Visit, At, WriterAgrees
    <2>2. opState[o] = "writing" /\ o \in rec[w] /\ guard = w
      BY <1>5 DEF Visit, At, WriterAgrees, Active
    <2>3. LedgerAgrees' /\ UNCHANGED Life!lifecycle
      BY <1>5 DEF Visit, LedgerAgrees, ledgerVars, Life!lifecycle
    <2>4. WriterAgrees'
      BY <1>5, <2>1, <2>2 DEF Visit, Goto, ledgerVars, WriterAgrees, TypeOK, WriterTypeOK,
         WorkPcs, ClaimedPcs
    <2> QED
      BY <2>3, <2>4 DEF Kept, LifeStep
  <1>6. CASE TransitionRaises(w)
    <2>1. pc[w] \in WorkPcs
      BY <1>6 DEF TransitionRaises, LoadPcs, WorkPcs, Pcs
    <2> QED
      BY <1>6, <2>1 DEF TransitionRaises, WriterAgrees, Active
  <1>7. CASE ExitUnfenced(w)
    BY <1>7 DEF ExitUnfenced, WriterAgrees
  <1> QED
    BY <1>1, <1>2, <1>3, <1>4, <1>5, <1>6, <1>7

-----------------------------------------------------------------------------
(* The theorems.                                                           *)

LEMMA StepKept ==
  ASSUME Fenced, [Next]_vars, losses' = 0
  PROVE  Kept
  <1>1. CASE Coordinate
    BY <1>1, CoordinateKept
  <1>2. CASE Environment
    BY <1>2, EnvironmentKept
  <1>3. ASSUME NEW w \in Writers, WriterStep(w) \/ Start(w)
        PROVE  Kept
    <2>1. CASE ClearMissing(w) \/ RunCommand(w) \/ CommandFails(w)
      BY <2>1, OtherKept DEF ClearMissing, RunCommand, CommandFails, CommandRest, ledgerVars
    <2> QED
      BY <1>3, <2>1, ClaimKept, ApplyStartsKept, ApplyEndsKept, UndoKept, VisitKept,
         RestartKept DEF WriterStep
  <1>4. ASSUME NEW w \in Writers, Poll(w)
        PROVE  Kept
    BY <1>4, OtherKept DEF Poll, ledgerVars, writerVars
  <1>5. ASSUME NEW o \in Ops, LeaseExpires(o)
        PROVE  Kept
    BY <1>5, OtherKept DEF LeaseExpires, writerVars
  <1>6. CASE UNCHANGED vars
    BY <1>6, OtherKept DEF vars, ledgerVars, writerVars
  <1> QED
    BY <1>1, <1>2, <1>3, <1>4, <1>5, <1>6 DEF Next

\* The connection is lost at most MaxLosses times, and a loss is never undone.
LEMMA LossesGrow ==
  ASSUME TypeOK, [Next]_vars
  PROVE  losses' = losses \/ (losses' = losses + 1 /\ losses < MaxLosses)
  <1> USE DEF writerVars, Return, Close, FailOperation, Commands, CommandRest, Dies
  <1>1. CASE Coordinate
    BY <1>1 DEF Coordinate, RecordPackage, Authorize, LockField, Review, LoadRequest,
       Reserve, RejectRequest, QueueUndo, Acknowledge, PilotStop
  <1>2. CASE Environment
    BY <1>2 DEF Environment, Redeploy, HeartbeatExpires, ExternalEdit, Crash, GuardLost
  <1>3. ASSUME NEW w \in Writers, Start(w) \/ Poll(w)
        PROVE  losses' = losses
    BY <1>3 DEF Start, Poll
  <1>4. ASSUME NEW w \in Writers, WriterStep(w)
        PROVE  losses' = losses
    <2>1. CASE \/ ClearMissing(w) \/ RunCommand(w) \/ CommandFails(w) \/ Claim(w)
               \/ Validate(w) \/ Observe(w) \/ Backup(w) \/ BuildTarget(w)
      BY <2>1 DEF ClearMissing, RunCommand, CommandFails, Claim, Validate, Observe, Backup,
         BuildTarget
    <2>2. CASE \/ ApplyDone(w) \/ ApplyFails(w) \/ RollbackDone(w) \/ RolledBack(w)
               \/ Verify(w) \/ RestoreDone(w)
      BY <2>2 DEF ApplyDone, ApplyFails, RollbackDone, RolledBack, Verify, RestoreDone
    <2>3. CASE UndoCheck(w) \/ UndoDone(w) \/ UndoFails(w) \/ UndoRollbackDone(w)
      BY <2>3 DEF UndoCheck, UndoDone, UndoFails, UndoRollbackDone
    <2>4. CASE ReconcileEnds(w) \/ ReconcileApply(w) \/ ReconcileUndo(w)
      BY <2>4 DEF ReconcileEnds, ReconcileApply, ReconcileUndo
    <2>5. CASE \/ \E o \in Ops : ReconcileClaimed(w, o) \/ ReconcileNoEvidence(w, o)
                                  \/ Visit(w, o)
               \/ TransitionRaises(w) \/ ExitUnfenced(w)
      BY <2>5 DEF ReconcileClaimed, ReconcileNoEvidence, Visit, TransitionRaises,
         ExitUnfenced
    <2> QED
      BY <1>4, <2>1, <2>2, <2>3, <2>4, <2>5 DEF WriterStep
  <1>5. ASSUME NEW o \in Ops, LeaseExpires(o)
        PROVE  losses' = losses
    BY <1>5 DEF LeaseExpires
  <1>6. CASE UNCHANGED vars
    BY <1>6 DEF vars
  <1> QED
    BY <1>1, <1>2, <1>3, <1>4, <1>5, <1>6 DEF Next

LEMMA InitAgrees == Init => WriterAgrees /\ LedgerAgrees /\ Life!LifeInit
  <1> SUFFICES ASSUME Init PROVE WriterAgrees /\ LedgerAgrees /\ Life!LifeInit
    OBVIOUS
  <1>1. WriterAgrees
    BY DEF Init, WriterAgrees, WorkPcs
  <1>2. LedgerAgrees
    BY DEF Init, LedgerAgrees, EventOf, Active
  <1>3. Life!LifeInit
    BY BlankRowType DEF Init, Life!LifeInit, Row
  <1> QED
    BY <1>1, <1>2, <1>3

LEMMA NextAgrees ==
  TypeOK /\ WorkRecorded /\ WriterAgrees /\ LedgerAgrees /\ [Next]_vars
    => WriterAgrees' /\ LedgerAgrees'
  <1> SUFFICES ASSUME TypeOK, WorkRecorded, WriterAgrees, LedgerAgrees, [Next]_vars
               PROVE  WriterAgrees' /\ LedgerAgrees'
    OBVIOUS
  <1>1. CASE losses' = 0
    <2>1. losses = 0
      BY <1>1, LossesGrow DEF TypeOK, EnvTypeOK
    <2> QED
      BY <1>1, <2>1, StepKept DEF Fenced, Kept
  <1>2. CASE losses' # 0
    BY <1>2 DEF WriterAgrees, LedgerAgrees
  <1> QED
    BY <1>1, <1>2

\* Until a connection is lost, outbox, locks and ledger agree and no process
\* acts on a stale state: for every number of writers, operations and crashes.
THEOREM LedgerStaysConsistent == Spec => [](WriterAgrees /\ LedgerAgrees)
  BY TypeCorrect, InitAgrees, NextAgrees, PTL DEF Spec

\* In every behaviour in which the connection of the writer lock is never lost,
\* the ledger that the coordinator and the writers commit implements the
\* lifecycle of an operation.
THEOREM LedgerImplementsLifecycle == Spec /\ [](losses = 0) => LifecyclePromise
  <1>1. Init => Life!LifeInit
    BY InitAgrees
  <1>2. /\ TypeOK /\ WorkRecorded /\ WriterAgrees /\ LedgerAgrees
        /\ losses = 0 /\ (losses = 0)' /\ [Next]_vars
       => [Life!LifeNext]_(Life!lifecycle)
    BY StepKept DEF Fenced, Kept, LifeStep
  <1> QED
    BY <1>1, <1>2, TypeCorrect, LedgerStaysConsistent, PTL
       DEF Spec, LifecyclePromise, Life!LifeSpec
=============================================================================
