------------------------- MODULE ApplyUnfencedProofs -------------------------
(***************************************************************************)
(* What stays true of supervised application although connections of the   *)
(* writer lock are lost, so that a process that is no longer fenced lives  *)
(* on next to its successor, fails operations the successor works on and   *)
(* still runs its Calibre commands. For every number of losses, crashes,   *)
(* writers, pilots and operations.                                         *)
(***************************************************************************)
EXTENDS ApplyProofs, FiniteSetTheorems

\* The states of an operation whose evidence for recovery is committed.
Committed  == {"writing", "succeeded", "restored", "restore_failed", "unknown"}

\* Where a process is once its operation is committed, and once its change row is.
WritePcs   == WorkPcs \ ClaimedPcs
ChangePcs  == {"build", "apply", "rollback", "rolled", "verify", "restore"}

\* Events that a reader of the outbox acts on tell the state of the operation.
EventsHold ==
    \A o \in Ops :
        /\ outbox[o] = "published" => opState[o] = "succeeded"
        /\ outbox[o] = "pending" => opState[o] = "requested"

\* What the owner of the lock knows of its operations, whoever else is alive: an
\* operation it has claimed may at most have been failed by its predecessor.
OwnerHolds ==
    \A w \in Writers : guard = w =>
        /\ pc[w] \in ClaimedPcs =>
              /\ opState[wop[w]] \in {"claimed", "failed"}
              /\ outbox[wop[w]] \in {"processing", "failed"}
        /\ \A o \in rec[w] : opState[o] \notin {"none", "requested"}

\* What a process knows that has lost the lock.
ProcessHolds ==
    \A w \in Writers :
        /\ pc[w] \in WritePcs => opState[wop[w]] \in Committed
        /\ pc[w] \in ChangePcs => change[wop[w]] # "none"

Holds == EventsHold /\ OwnerHolds /\ ProcessHolds

\* What every step may assume.
Known == TypeOK /\ WorkRecorded /\ Holds

\* Rows, commitments and change rows are for ever.
Steady ==
    \A o \in Ops :
        /\ opState[o] # "none" => opState'[o] # "none" /\ row'[o] = row[o]
        /\ opState[o] \in Committed => opState'[o] \in Committed
        /\ change[o] # "none" => change'[o] # "none"

\* What every step has to keep.
Held == Holds' /\ Steady

-----------------------------------------------------------------------------
(* The shapes of steps.                                                    *)

\* Steps that touch neither the ledger nor what the processes hold of it.
LEMMA OtherHeld ==
  ASSUME Known, UNCHANGED <<row, opState, outbox, change, guard, pc, wop, rec>>
  PROVE  Held
  BY DEF Known, Held, Steady, Holds, EventsHold, OwnerHolds, ProcessHolds

LEMMA PcSets ==
  /\ WritePcs = {"visit", "visit_undo", "backup", "build", "apply", "rollback", "rolled",
                 "verify", "restore", "undo", "undo_rollback"}
  /\ WorkPcs = WritePcs \cup ClaimedPcs
  BY DEF WritePcs, WorkPcs, Pcs, ClaimedPcs

\* The owner of the lock knows the state of the operation in its hands.
LEMMA InHand ==
  ASSUME Known, NEW w \in Writers, pc[w] \in WorkPcs
  PROVE  /\ wop[w] \in Ops
         /\ guard = w => opState[wop[w]] \in Committed \cup {"claimed", "failed"}
  BY PcSets DEF Known, WorkRecorded, Holds, OwnerHolds, ProcessHolds

\* A process moves on to its next step with the same operation.
LEMMA MoveHeld ==
  ASSUME Known, NEW w \in Writers, NEW l \in WorkPcs, pc[w] \in WorkPcs, Goto(w, l),
         l \in ClaimedPcs => pc[w] \in ClaimedPcs,
         l \in WritePcs => pc[w] \in WritePcs,
         l \in ChangePcs => pc[w] \in ChangePcs \/ change'[wop[w]] # "none",
         \A o \in Ops : change[o] # "none" => change'[o] # "none",
         UNCHANGED <<row, opState, outbox, guard, wop, rec>>
  PROVE  Held
  <1>1. Steady
    BY DEF Steady
  <1>2. EventsHold' /\ OwnerHolds'
    BY DEF Known, Holds, EventsHold, OwnerHolds, Goto, TypeOK, WriterTypeOK
  <1>3. ProcessHolds'
    BY InHand, PcSets DEF Known, Holds, ProcessHolds, WorkRecorded, Goto, TypeOK,
       WriterTypeOK, ChangePcs
  <1> QED
    BY <1>1, <1>2, <1>3 DEF Held, Holds

\* The owner closes its operation, or closes it once more.
LEMMA CloseHeld ==
  ASSUME Known, NEW w \in Writers, guard = w, pc[w] \in WorkPcs,
         NEW s \in Committed \cup {"failed"}, NEW e \in {"published", "failed"}, NEW b,
         e = "published" => s = "succeeded",
         s = "failed" => opState[wop[w]] \notin Committed,
         Close(w, s, e, b),
         \A o \in Ops : change[o] # "none" => change'[o] # "none"
  PROVE  Held
  <1> DEFINE o == wop[w]
  <1>1. o \in Ops
    BY InHand
  <1>2. /\ opState' = [opState EXCEPT ![o] = s]
        /\ outbox'  = [outbox EXCEPT ![o] = e]
        /\ row' = row /\ guard' = guard
    BY DEF Close, Finish, LedgerRest, Return
  <1>3. /\ pc'[w] \in {"reconcile", "idle"}
        /\ \A v \in Writers : v # w => pc'[v] = pc[v]
        /\ \A v \in Writers : rec'[v] \subseteq rec[v]
        /\ \A v \in Writers : v # w => wop'[v] = wop[v]
    BY DEF Close, Return, Goto, Known, TypeOK, WriterTypeOK
  <1> HIDE DEF o
  <1>4. Steady
    BY <1>1, <1>2 DEF o, Steady, Known, TypeOK, LedgerTypeOK, Committed
  <1>5. EventsHold'
    BY <1>1, <1>2 DEF Known, Holds, EventsHold, TypeOK, LedgerTypeOK
  <1>6. OwnerHolds'
    BY <1>1, <1>2, <1>3 DEF Known, Holds, OwnerHolds, TypeOK, LedgerTypeOK, WriterTypeOK,
       Committed, ClaimedPcs
  <1>7. ProcessHolds'
    BY <1>3, <1>4, InHand, PcSets DEF Steady, Known, Holds, ProcessHolds, ChangePcs, ClaimedPcs
  <1> QED
    BY <1>4, <1>5, <1>6, <1>7 DEF Held, Holds

LEMMA FailOperationHeld ==
  ASSUME Known, NEW w \in Writers, guard = w, pc[w] \in WorkPcs, FailOperation(w),
         UNCHANGED change
  PROVE  Held
  <1>1. /\ FailedState(wop[w]) \in Committed \cup {"failed"}
        /\ FailedState(wop[w]) = "failed" => opState[wop[w]] \notin Committed
    BY InHand DEF FailedState, Committed
  <1> QED
    BY <1>1, CloseHeld DEF FailOperation

\* The evidence is committed, with the move to writing.
LEMMA WriteHeld ==
  ASSUME Known, NEW w \in Writers, guard = w, NEW l \in WritePcs \ ChangePcs,
         pc[w] \in ClaimedPcs, Goto(w, l),
         opState' = [opState EXCEPT ![wop[w]] = "writing"],
         UNCHANGED <<row, outbox, change, guard, wop, rec>>
  PROVE  Held
  <1> DEFINE o == wop[w]
  <1>1. o \in Ops /\ opState[o] \in {"claimed", "failed"}
        /\ outbox[o] \in {"processing", "failed"}
    BY InHand, PcSets DEF Known, Holds, OwnerHolds
  <1> HIDE DEF o
  <1>2. Steady
    BY <1>1 DEF o, Steady, Known, TypeOK, LedgerTypeOK, Committed
  <1>3. EventsHold'
    BY <1>1 DEF o, Known, Holds, EventsHold, TypeOK, LedgerTypeOK
  <1>4. OwnerHolds'
    BY <1>1, PcSets DEF o, Known, Holds, OwnerHolds, TypeOK, LedgerTypeOK, WriterTypeOK, Goto,
       ClaimedPcs
  <1>5. ProcessHolds'
    BY <1>1, <1>2, InHand, PcSets DEF o, Steady, Known, Holds, ProcessHolds, TypeOK,
       LedgerTypeOK, WriterTypeOK, Goto, Committed, ChangePcs
  <1> QED
    BY <1>2, <1>3, <1>4, <1>5 DEF Held, Holds

\* A row is added.
LEMMA CreateHeld ==
  ASSUME Known, NEW r, CreateOperation(r), UNCHANGED writerVars
  PROVE  Held
  <1>1. PICK o \in Ops :
          /\ opState[o] = "none"
          /\ row'     = [row EXCEPT ![o] = r]
          /\ opState' = [opState EXCEPT ![o] = "requested"]
          /\ outbox'  = [outbox EXCEPT ![o] = "pending"]
          /\ change'  = change
    BY DEF CreateOperation
  <1>2. Steady
    BY <1>1 DEF Steady, Known, TypeOK, LedgerTypeOK, Committed
  <1>3. EventsHold'
    BY <1>1 DEF Known, Holds, EventsHold, TypeOK, LedgerTypeOK
  <1>4. OwnerHolds'
    BY <1>1 DEF Known, Holds, OwnerHolds, TypeOK, LedgerTypeOK, writerVars
  <1>5. ProcessHolds'
    BY <1>1, <1>2, InHand, PcSets DEF Steady, Known, Holds, ProcessHolds, writerVars, ChangePcs
  <1> QED
    BY <1>2, <1>3, <1>4, <1>5 DEF Held, Holds

\* The memory of a process is gone.
LEMMA DiesHeld ==
  ASSUME Known, NEW w \in Writers, Dies(w), guard' \in {guard, "none"}, change' = change,
         Steady, EventsHold', row' = row,
         \A o \in Ops : opState[o] = "claimed" => opState'[o] \in {"claimed", "failed"},
         \A o \in Ops : opState[o] \notin {"claimed", "writing"} => opState'[o] = opState[o],
         \A o \in Ops : outbox[o] \in {"processing", "failed"}
                          => outbox'[o] \in {"processing", "failed"}
  PROVE  Held
  <1>1. /\ pc'[w] = "down" /\ rec'[w] = {}
        /\ \A v \in Writers : v # w => pc'[v] = pc[v] /\ wop'[v] = wop[v] /\ rec'[v] = rec[v]
    BY DEF Dies, Goto, Known, TypeOK, WriterTypeOK
  <1>2. OwnerHolds'
    <2> SUFFICES ASSUME NEW v \in Writers, guard' = v
                 PROVE  /\ pc'[v] \in ClaimedPcs =>
                              /\ opState'[wop'[v]] \in {"claimed", "failed"}
                              /\ outbox'[wop'[v]] \in {"processing", "failed"}
                        /\ \A o \in rec'[v] : opState'[o] \notin {"none", "requested"}
      BY DEF OwnerHolds
    <2>1. CASE v = w
      BY <2>1, <1>1 DEF ClaimedPcs
    <2>2. CASE v # w
      <3>1. guard = v
        BY ProcessAssumption
      <3>2. pc[v] \in ClaimedPcs => wop[v] \in Ops
        BY InHand, PcSets
      <3>3. \A o \in rec[v] : o \in Ops /\ opState[o] \in OpStates
        BY DEF Known, TypeOK, WriterTypeOK, LedgerTypeOK
      <3>4. \A o \in rec'[v] : opState'[o] \notin {"none", "requested"}
        BY <2>2, <3>1, <3>3, <1>1 DEF Known, Holds, OwnerHolds, Steady, Committed
      <3> QED
        BY <2>2, <3>1, <3>2, <3>4, <1>1 DEF Known, Holds, OwnerHolds
    <2> QED
      BY <2>1, <2>2
  <1>3. ProcessHolds'
    BY <1>1, InHand, PcSets DEF Known, Holds, ProcessHolds, Steady, ChangePcs
  <1> QED
    BY <1>2, <1>3 DEF Held, Holds

-----------------------------------------------------------------------------
(* Coordinator and environment.                                            *)

LEMMA CoordinateHeld ==
  ASSUME Known, Coordinate
  PROVE  Held
  <1>1. CASE UNCHANGED <<row, opState, outbox, change, writerVars>>
    BY <1>1, OtherHeld DEF writerVars
  <1>2. ASSUME NEW q \in Requests, Reserve(q)
        PROVE  Held
    BY <1>2, CreateHeld DEF Reserve
  <1>3. ASSUME NEW c \in Ops, QueueUndo(c)
        PROVE  Held
    BY <1>1, <1>3, CreateHeld DEF QueueUndo, ledgerVars
  <1>4. CASE \E b \in Books : RecordPackage(b) \/ Authorize(b)
                              \/ \E p \in LockedParts : LockField(b, p)
    BY <1>1, <1>4 DEF RecordPackage, Authorize, LockField, ledgerVars
  <1>5. CASE \E b \in Reviewed, v \in {"suggest_fix", "scanned"} : Review(b, v)
    BY <1>1, <1>5 DEF Review, ledgerVars
  <1>6. CASE \E q \in Requests : (\E b \in Books : LoadRequest(q, b)) \/ RejectRequest(q)
    BY <1>1, <1>6 DEF LoadRequest, RejectRequest, ledgerVars
  <1>7. CASE (\E o \in Ops : Acknowledge(o)) \/ (\E p \in Pilots : PilotStop(p))
    BY <1>1, <1>7 DEF Acknowledge, PilotStop, ledgerVars
  <1> QED
    BY <1>2, <1>3, <1>4, <1>5, <1>6, <1>7 DEF Coordinate

LEMMA EnvironmentHeld ==
  ASSUME Known, Environment
  PROVE  Held
  <1>1. CASE (\E g \in Guards : Redeploy(g)) \/ HeartbeatExpires
             \/ (\E b \in Books, p \in EditedParts : ExternalEdit(b, p))
    BY <1>1, OtherHeld DEF Redeploy, HeartbeatExpires, ExternalEdit, ledgerVars, writerVars
  <1>2. ASSUME NEW w \in Writers, Crash(w)
        PROVE  Held
    <2>1. UNCHANGED <<row, opState, outbox, change>>
      BY <1>2 DEF Crash, ledgerVars
    <2>2. Steady /\ EventsHold'
      BY <2>1 DEF Steady, Known, Holds, EventsHold
    <2> QED
      BY <1>2, <2>1, <2>2, DiesHeld DEF Crash
  <1>3. ASSUME NEW w \in Writers, GuardLost(w)
        PROVE  Held
    BY <1>3, ProcessAssumption DEF GuardLost, ledgerVars, Held, Steady, Known, Holds,
       EventsHold, OwnerHolds, ProcessHolds
  <1> QED
    BY <1>1, <1>2, <1>3 DEF Environment

-----------------------------------------------------------------------------
(* Steps of a writer.                                                      *)

LEMMA ClaimHeld ==
  ASSUME Known, NEW w \in Writers, Claim(w)
  PROVE  Held
  <1>1. PICK o \in Ops :
          /\ FirstPending(o)
          /\ opState' = [opState EXCEPT ![o] = "claimed"]
          /\ outbox'  = [outbox EXCEPT ![o] = "processing"]
          /\ wop'     = [wop EXCEPT ![w] = o]
          /\ Goto(w, IF row[o].kind = "undo" THEN "undo_check" ELSE "validate")
    BY DEF Claim
  <1>2. opState[o] = "requested"
    BY <1>1 DEF FirstPending, Known, Holds, EventsHold
  <1>3. guard = w /\ UNCHANGED <<row, change, guard, rec>>
    BY DEF Claim, At
  <1>4. Steady
    BY <1>1, <1>2, <1>3 DEF Steady, Known, TypeOK, LedgerTypeOK, Committed
  <1>5. EventsHold'
    BY <1>1 DEF Known, Holds, EventsHold, TypeOK, LedgerTypeOK
  <1>6. OwnerHolds'
    BY <1>1, <1>3 DEF Known, Holds, OwnerHolds, TypeOK, LedgerTypeOK, WriterTypeOK
  <1>7. ProcessHolds'
    BY <1>1, <1>3, <1>4, InHand, PcSets DEF Steady, Known, Holds, ProcessHolds, TypeOK,
       WriterTypeOK, Goto, ChangePcs
  <1> QED
    BY <1>4, <1>5, <1>6, <1>7 DEF Held, Holds

\* Processing an apply, up to the first command.
LEMMA ApplyStartsHeld ==
  ASSUME Known, NEW w \in Writers,
         Validate(w) \/ Observe(w) \/ Backup(w) \/ BuildTarget(w)
  PROVE  Held
  <1>1. /\ guard = w /\ pc[w] \in {"validate", "observe", "backup", "build"}
        /\ pc[w] \in WorkPcs
    BY PcSets DEF Validate, Observe, Backup, BuildTarget, Loaded, At, ClaimedPcs
  <1>2. CASE FailOperation(w) /\ UNCHANGED change
    BY <1>1, <1>2, FailOperationHeld
  <1>3. CASE /\ pc[w] \in ClaimedPcs /\ UNCHANGED change
             /\ \E b \in {"error", "suggest_fix"} : Close(w, "failed", "failed", b)
    <2>1. opState[wop[w]] \notin Committed
      BY <1>1, <1>3 DEF Known, Holds, OwnerHolds, Committed
    <2> QED
      BY <1>1, <1>3, <2>1, CloseHeld
  <1>4. CASE Validate(w)
    <2>1. CASE Close(w, "failed", "failed", "error") /\ UNCHANGED change
      BY <1>3, <1>4, <2>1 DEF Validate, Loaded, At, ClaimedPcs
    <2>2. CASE Goto(w, "observe") /\ UNCHANGED <<ledgerVars, guard, wop, rec>>
      <3>1. pc[w] = "validate"
        BY <1>4 DEF Validate, Loaded, At
      <3> QED
        BY <2>2, <3>1, PcSets, MoveHeld DEF ledgerVars, ClaimedPcs, ChangePcs
    <2> QED
      BY <1>4, <2>1, <2>2 DEF Validate
  <1>5. CASE Observe(w)
    <2>1. pc[w] = "observe" /\ pc[w] \in ClaimedPcs
      BY <1>5 DEF Observe, At, ClaimedPcs
    <2>2. CASE /\ opState' = [opState EXCEPT ![wop[w]] = "writing"]
               /\ Goto(w, "backup")
               /\ UNCHANGED <<row, outbox, change, guard, wop, rec>>
      BY <1>1, <2>1, <2>2, PcSets, WriteHeld DEF ChangePcs
    <2> QED
      BY <1>2, <1>3, <1>5, <2>1, <2>2 DEF Observe
  <1>6. CASE Backup(w)
    <2>1. pc[w] = "backup"
      BY <1>6 DEF Backup, At
    <2>2. CASE /\ SetChange(wop[w], "pending_apply") /\ Goto(w, "build")
               /\ UNCHANGED <<row, opState, outbox, guard, wop, rec>>
      <3>1. /\ change'[wop[w]] # "none"
            /\ \A o \in Ops : change[o] # "none" => change'[o] # "none"
        BY <1>1, <2>2, InHand DEF SetChange, Known, TypeOK, LedgerTypeOK
      <3> QED
        BY <2>1, <2>2, <3>1, PcSets, MoveHeld DEF ClaimedPcs, ChangePcs
    <2> QED
      BY <1>2, <1>6, <2>2 DEF Backup
  <1>7. CASE BuildTarget(w)
    <2>1. pc[w] = "build"
      BY <1>7 DEF BuildTarget, At
    <2>2. CASE Goto(w, "apply") /\ UNCHANGED <<ledgerVars, guard, wop, rec>>
      BY <2>1, <2>2, PcSets, MoveHeld DEF ledgerVars, ClaimedPcs, ChangePcs
    <2> QED
      BY <1>2, <1>7, <2>2 DEF BuildTarget, Commands
  <1> QED
    BY <1>4, <1>5, <1>6, <1>7

\* A change row gets another status.
LEMMA SetChangeSteady ==
  ASSUME Known, NEW c, NEW s \in ChangeStates \ {"none"}, SetChange(c, s)
  PROVE  \A o \in Ops : change[o] # "none" => change'[o] # "none"
  BY DEF SetChange, Known, TypeOK, LedgerTypeOK

\* A visited operation that was closed already keeps its outcome.
LEMMA OutcomeHeld ==
  ASSUME Known, NEW w \in Writers, pc[w] \in WritePcs, NEW s \in Committed
  PROVE  Outcome(w, s) \in Committed
  BY DEF Outcome, Known, Holds, ProcessHolds

\* Rollback, verification and restore of an apply.
LEMMA ApplyEndsHeld ==
  ASSUME Known, NEW w \in Writers,
         \/ ApplyDone(w) \/ ApplyFails(w) \/ RollbackDone(w) \/ RolledBack(w)
         \/ Verify(w) \/ RestoreDone(w)
  PROVE  Held
  <1>1. pc[w] \in {"apply", "rollback", "rolled", "verify", "restore"}
    BY DEF ApplyDone, ApplyFails, RollbackDone, RolledBack, Verify, RestoreDone, Finished,
       Loaded, At
  <1>2. pc[w] \in WorkPcs /\ pc[w] \in WritePcs /\ pc[w] \in ChangePcs
    BY <1>1, PcSets DEF ChangePcs
  <1>3. ASSUME NEW l \in {"verify", "rolled", "rollback", "restore"}, Goto(w, l),
               UNCHANGED <<row, opState, outbox, guard, wop, rec>>,
               \A o \in Ops : change[o] # "none" => change'[o] # "none"
        PROVE  Held
    BY <1>2, <1>3, PcSets, MoveHeld DEF ClaimedPcs
  <1>4. {"restored", "restore_failed", "succeeded"} \subseteq Committed
    BY DEF Committed
  <1>5. CASE ApplyDone(w) \/ RollbackDone(w)
    <2>1. \E s \in ChangeStates \ {"none"} : SetChange(wop[w], s)
      BY <1>5 DEF ApplyDone, RollbackDone, ChangeStates
    <2>2. /\ \E l \in {"verify", "rolled"} : Goto(w, l)
          /\ UNCHANGED <<row, opState, outbox, guard, wop, rec>>
      BY <1>5 DEF ApplyDone, RollbackDone, LedgerRest
    <2> QED
      BY <1>3, <2>1, <2>2, SetChangeSteady
  <1>6. CASE ApplyFails(w)
    BY <1>3, <1>6 DEF ApplyFails, Commands, ledgerVars
  <1>7. CASE RolledBack(w)
    BY <1>2, <1>4, <1>7, CloseHeld DEF RolledBack, Loaded, At
  <1>8. CASE Verify(w)
    <2>1. guard = w
      BY <1>8 DEF Verify, Loaded, At
    <2>2. CASE FailOperation(w) /\ UNCHANGED change
      BY <1>2, <2>1, <2>2, FailOperationHeld
    <2>3. CASE Close(w, "succeeded", "published", "applied") /\ UNCHANGED change
      BY <1>2, <1>4, <2>1, <2>3, CloseHeld
    <2>4. CASE Commands(w, "restore", RestorePlan(wop[w], wop[w]))
               /\ UNCHANGED <<ledgerVars, bstat, wop>>
      BY <1>3, <2>4 DEF Commands, ledgerVars
    <2> QED
      BY <1>8, <2>2, <2>3, <2>4 DEF Verify
  <1>9. CASE RestoreDone(w)
    <2>1. guard = w /\ Outcome(w, "restore_failed") \in Committed
      BY <1>2, <1>4, <1>9, OutcomeHeld DEF RestoreDone, At
    <2>2. \E s \in ChangeStates \ {"none"} : SetChange(wop[w], s)
      BY <1>9 DEF RestoreDone, ChangeStates
    <2>3. \E s \in {"restored", Outcome(w, "restore_failed")}, b \in {"error", "suggest_fix"} :
             Close(w, s, "failed", b)
      BY <1>9 DEF RestoreDone
    <2>4. ASSUME NEW s \in Committed, NEW b, Close(w, s, "failed", b)
          PROVE  Held
      <3>1. s # "failed"
        BY DEF Committed
      <3> QED
        BY <1>2, <2>1, <2>2, <2>4, <3>1, SetChangeSteady, CloseHeld
    <2> QED
      BY <1>4, <2>1, <2>3, <2>4
  <1> QED
    BY <1>5, <1>6, <1>7, <1>8, <1>9

LEMMA UndoHeld ==
  ASSUME Known, NEW w \in Writers,
         UndoCheck(w) \/ UndoDone(w) \/ UndoFails(w) \/ UndoRollbackDone(w)
  PROVE  Held
  <1>1. /\ guard = w /\ pc[w] \in {"undo_check", "undo", "undo_rollback"}
        /\ pc[w] \in WorkPcs
    BY PcSets DEF UndoCheck, UndoDone, UndoFails, UndoRollbackDone, Loaded, At, ClaimedPcs
  <1>2. CASE FailOperation(w) /\ UNCHANGED change
    BY <1>1, <1>2, FailOperationHeld
  <1>3. CASE UndoCheck(w)
    <2>1. pc[w] = "undo_check" /\ pc[w] \in ClaimedPcs
      BY <1>3 DEF UndoCheck, Loaded, At, ClaimedPcs
    <2>2. CASE /\ UNCHANGED change
               /\ \E b \in {"error", "applied"} : Close(w, "failed", "failed", b)
      <3>1. opState[wop[w]] \notin Committed
        BY <1>1, <2>1 DEF Known, Holds, OwnerHolds, Committed
      <3> QED
        BY <1>1, <2>2, <3>1, CloseHeld
    <2>3. CASE /\ opState' = [opState EXCEPT ![wop[w]] = "writing"]
               /\ Commands(w, "undo", RestorePlan(Undone(w), Undone(w)))
               /\ UNCHANGED <<row, outbox, lock, lease, change, crun, acked, bstat,
                              wop, why>>
      BY <1>1, <2>1, <2>3, PcSets, WriteHeld DEF Commands, ChangePcs
    <2> QED
      BY <1>2, <1>3, <2>2, <2>3 DEF UndoCheck
  <1>4. CASE UndoDone(w)
    <2>1. CASE /\ SetChange(Undone(w), "undone")
               /\ Close(w, "succeeded", "published", "suggest_fix")
      <3>1. \A o \in Ops : change[o] # "none" => change'[o] # "none"
        BY <2>1, SetChangeSteady DEF ChangeStates
      <3> QED
        BY <1>1, <2>1, <3>1, CloseHeld DEF Committed
    <2> QED
      BY <1>2, <1>4, <2>1 DEF UndoDone
  <1>5. CASE UndoFails(w)
    <2>1. pc[w] = "undo" /\ Goto(w, "undo_rollback")
          /\ UNCHANGED <<row, opState, outbox, change, guard, wop, rec>>
      BY <1>5 DEF UndoFails, Loaded, At, Commands, ledgerVars
    <2> QED
      BY <2>1, PcSets, MoveHeld DEF ClaimedPcs, ChangePcs
  <1>6. CASE UndoRollbackDone(w)
    <2>1. pc[w] \in WritePcs
      BY <1>6, PcSets DEF UndoRollbackDone, At
    <2>2. Outcome(w, "restore_failed") \in Committed /\ "restored" \in Committed
      BY <2>1, OutcomeHeld DEF Committed
    <2>3. ASSUME NEW s \in Committed, NEW b, Close(w, s, "failed", b)
          PROVE  Held
      <3>1. s # "failed" /\ UNCHANGED change
        BY <1>6 DEF Committed, UndoRollbackDone
      <3> QED
        BY <1>1, <2>3, <3>1, CloseHeld
    <2> QED
      BY <1>6, <2>2, <2>3 DEF UndoRollbackDone
  <1> QED
    BY <1>3, <1>4, <1>5, <1>6

\* Visiting an interrupted operation.
LEMMA VisitHeld ==
  ASSUME Known, NEW w \in Writers, ReconcileApply(w) \/ ReconcileUndo(w)
  PROVE  Held
  <1>1. /\ guard = w /\ pc[w] \in {"visit", "visit_undo"}
        /\ pc[w] \in WorkPcs /\ pc[w] \in WritePcs
    BY PcSets DEF ReconcileApply, ReconcileUndo, At
  <1>2. Outcome(w, "unknown") \in Committed
        /\ {"restored", "succeeded"} \subseteq Committed /\ "failed" \notin Committed
    BY <1>1, OutcomeHeld DEF Committed
  <1>3. ASSUME NEW s \in ChangeStates \ {"none"}, FollowChange(wop[w], s)
        PROVE  \A o \in Ops : change[o] # "none" => change'[o] # "none"
    BY <1>3, SetChangeSteady DEF FollowChange
  <1>4. ASSUME NEW s \in Committed, NEW e \in {"published", "failed"}, NEW b,
               e = "published" => s = "succeeded", Close(w, s, e, b),
               \A o \in Ops : change[o] # "none" => change'[o] # "none"
        PROVE  Held
    BY <1>1, <1>2, <1>4, CloseHeld
  <1>5. {"failed_rollback_failed", "applied", "failed_rolled_back", "undone"}
          \subseteq ChangeStates \ {"none"}
    BY DEF ChangeStates
  <1>6. CASE ReconcileApply(w)
    <2>1. CASE /\ Commands(w, "restore", RestorePlan(wop[w], wop[w]))
               /\ change[wop[w]] # "none"
               /\ UNCHANGED <<ledgerVars, bstat, wop>>
      <3>1. /\ Goto(w, "restore")
            /\ UNCHANGED <<row, opState, outbox, change, guard, wop, rec>>
        BY <2>1 DEF Commands, ledgerVars
      <3> QED
        BY <1>1, <2>1, <3>1, PcSets, MoveHeld DEF ClaimedPcs
    <2>2. CASE \E s \in Committed, e \in {"published", "failed"}, b \in BookStates :
                 /\ e = "published" => s = "succeeded"
                 /\ Close(w, s, e, b)
                 /\ \/ UNCHANGED change
                    \/ \E t \in ChangeStates \ {"none"} : FollowChange(wop[w], t)
      BY <1>3, <1>4, <2>2
    <2> QED
      BY <1>2, <1>5, <1>6, <2>1, <2>2 DEF ReconcileApply, BookStates
  <1>7. CASE ReconcileUndo(w)
    <2>1. CASE /\ Commands(w, "undo_rollback", RestorePlan(wop[w], Undone(w)))
               /\ UNCHANGED <<ledgerVars, bstat, wop, why>>
      <3>1. /\ Goto(w, "undo_rollback")
            /\ UNCHANGED <<row, opState, outbox, change, guard, wop, rec>>
        BY <2>1 DEF Commands, ledgerVars
      <3> QED
        BY <1>1, <3>1, PcSets, MoveHeld DEF ClaimedPcs, ChangePcs
    <2>2. CASE \E s \in Committed, e \in {"published", "failed"}, b \in BookStates :
                 /\ e = "published" => s = "succeeded"
                 /\ Close(w, s, e, b)
                 /\ UNCHANGED change \/ SetChange(Undone(w), "undone")
      BY <1>4, <1>5, <2>2, SetChangeSteady
    <2> QED
      BY <1>2, <1>7, <2>1, <2>2 DEF ReconcileUndo, BookStates
  <1> QED
    BY <1>6, <1>7

\* Listing and releasing interrupted operations, and the ends of a process.
LEMMA RestartHeld ==
  ASSUME Known, NEW w \in Writers,
         \/ Start(w) \/ ReconcileEnds(w)
         \/ \E o \in Ops : ReconcileClaimed(w, o) \/ ReconcileNoEvidence(w, o) \/ Visit(w, o)
         \/ TransitionRaises(w) \/ ExitUnfenced(w)
  PROVE  Held
  <1> USE DEF Known
  <1>1. CASE Start(w)
    <2>1. UNCHANGED <<row, opState, outbox, change, wop>>
      BY <1>1 DEF Start, ledgerVars
    <2>2. Steady /\ EventsHold'
      BY <2>1 DEF Steady, Holds, EventsHold
    <2>3. OwnerHolds'
      BY <1>1, <2>1 DEF Start, Goto, Holds, OwnerHolds, TypeOK, WriterTypeOK, ClaimedPcs, Active
    <2>4. ProcessHolds'
      BY <1>1, <2>1, PcSets DEF Start, Goto, Holds, ProcessHolds, TypeOK, WriterTypeOK, ChangePcs
    <2> QED
      BY <2>2, <2>3, <2>4 DEF Held, Holds
  <1>2. CASE ReconcileEnds(w)
    <2>1. UNCHANGED <<row, opState, outbox, change, wop, guard, rec>>
      BY <1>2 DEF ReconcileEnds, ledgerVars
    <2>2. Steady /\ EventsHold'
      BY <2>1 DEF Steady, Holds, EventsHold
    <2>3. OwnerHolds' /\ ProcessHolds'
      BY <1>2, <2>1, PcSets DEF ReconcileEnds, Goto, Holds, OwnerHolds, ProcessHolds, TypeOK,
         WriterTypeOK, ClaimedPcs, ChangePcs
    <2> QED
      BY <2>2, <2>3 DEF Held, Holds
  <1>3. ASSUME NEW o \in Ops, ReconcileClaimed(w, o) \/ ReconcileNoEvidence(w, o)
        PROVE  Held
    <2>1. /\ guard = w /\ pc[w] = "reconcile"
          /\ rec' = [rec EXCEPT ![w] = @ \ {o}]
          /\ UNCHANGED <<row, change, guard, pc, wop>>
      BY <1>3 DEF ReconcileClaimed, ReconcileNoEvidence, At, ledgerVars, LedgerRest
    <2>2. \/ UNCHANGED <<opState, outbox>>
          \/ /\ opState[o] = "claimed"
             /\ opState' = [opState EXCEPT ![o] = "requested"]
             /\ outbox'  = [outbox EXCEPT ![o] = "pending"]
          \/ /\ opState[o] = "failed"
             /\ opState' = [opState EXCEPT ![o] = "failed"]
             /\ outbox'  = [outbox EXCEPT ![o] = "failed"]
      BY <1>3 DEF ReconcileClaimed, ReconcileNoEvidence, Finish, ledgerVars
    <2>3. Steady
      BY <2>1, <2>2 DEF Steady, TypeOK, LedgerTypeOK, Committed
    <2>4. EventsHold'
      BY <2>2 DEF Holds, EventsHold, TypeOK, LedgerTypeOK
    <2>5. OwnerHolds'
      BY <2>1, <2>2 DEF Holds, OwnerHolds, TypeOK, LedgerTypeOK, WriterTypeOK, ClaimedPcs
    <2>6. ProcessHolds'
      BY <2>1, <2>3, InHand, PcSets DEF Steady, Holds, ProcessHolds, ChangePcs
    <2> QED
      BY <2>3, <2>4, <2>5, <2>6 DEF Held, Holds
  <1>4. ASSUME NEW o \in Ops, Visit(w, o)
        PROVE  Held
    <2>1. /\ guard = w /\ opState[o] \in Committed
          /\ UNCHANGED <<row, opState, outbox, change, guard, rec>>
      BY <1>4 DEF Visit, At, ledgerVars, Holds, OwnerHolds, TypeOK, LedgerTypeOK, OpStates,
         Active, Terminal, Committed
    <2>2. Steady /\ EventsHold'
      BY <2>1 DEF Steady, Holds, EventsHold
    <2>3. OwnerHolds' /\ ProcessHolds'
      BY <1>4, <2>1, PcSets DEF Visit, Goto, Holds, OwnerHolds, ProcessHolds, TypeOK,
         WriterTypeOK, ClaimedPcs, ChangePcs
    <2> QED
      BY <2>2, <2>3 DEF Held, Holds
  <1>5. CASE TransitionRaises(w)
    BY <1>5, PcSets, FailOperationHeld DEF TransitionRaises, LoadPcs, ClaimedPcs
  <1>6. CASE ExitUnfenced(w)
    <2>1. UNCHANGED <<row, change, guard>> /\ Dies(w)
      BY <1>6 DEF ExitUnfenced, LedgerRest, ledgerVars
    <2>2. \/ UNCHANGED <<opState, outbox>>
          \/ /\ wop[w] \in Ops
             /\ opState' = [opState EXCEPT ![wop[w]] = FailedState(wop[w])]
             /\ outbox'  = [outbox EXCEPT ![wop[w]] = "failed"]
      BY <1>6 DEF ExitUnfenced, Finish, ledgerVars, TypeOK, WriterTypeOK
    <2>3. Steady
      BY <2>1, <2>2 DEF Steady, TypeOK, LedgerTypeOK, Committed, FailedState
    <2>4. EventsHold'
      BY <2>2 DEF Holds, EventsHold, TypeOK, LedgerTypeOK, FailedState
    <2>5. /\ \A o \in Ops : opState[o] = "claimed" => opState'[o] \in {"claimed", "failed"}
          /\ \A o \in Ops : opState[o] \notin {"claimed", "writing"} => opState'[o] = opState[o]
          /\ \A o \in Ops : outbox[o] \in {"processing", "failed"}
                              => outbox'[o] \in {"processing", "failed"}
      BY <2>2 DEF TypeOK, LedgerTypeOK, FailedState
    <2> QED
      BY <2>1, <2>3, <2>4, <2>5, DiesHeld
  <1> QED
    BY <1>1, <1>2, <1>3, <1>4, <1>5, <1>6

-----------------------------------------------------------------------------
(* The invariant.                                                          *)

LEMMA StepHeld ==
  ASSUME Known, [Next]_vars
  PROVE  Held
  <1>1. CASE Coordinate
    BY <1>1, CoordinateHeld
  <1>2. CASE Environment
    BY <1>2, EnvironmentHeld
  <1>3. ASSUME NEW w \in Writers, WriterStep(w) \/ Start(w)
        PROVE  Held
    <2>1. CASE ClearMissing(w) \/ RunCommand(w) \/ CommandFails(w)
      BY <2>1, OtherHeld DEF ClearMissing, RunCommand, CommandFails, CommandRest, ledgerVars
    <2> QED
      BY <1>3, <2>1, ClaimHeld, ApplyStartsHeld, ApplyEndsHeld, UndoHeld, VisitHeld,
         RestartHeld DEF WriterStep
  <1>4. ASSUME NEW w \in Writers, Poll(w)
        PROVE  Held
    BY <1>4, OtherHeld DEF Poll, ledgerVars, writerVars
  <1>5. ASSUME NEW o \in Ops, LeaseExpires(o)
        PROVE  Held
    BY <1>5, OtherHeld DEF LeaseExpires, writerVars
  <1>6. CASE UNCHANGED vars
    BY <1>6, OtherHeld DEF vars, ledgerVars, writerVars
  <1> QED
    BY <1>1, <1>2, <1>3, <1>4, <1>5, <1>6 DEF Next

LEMMA InitHolds == Init => Holds
  BY PcSets DEF Init, Holds, EventsHold, OwnerHolds, ProcessHolds, ClaimedPcs, ChangePcs

LEMMA KnownAlways == Spec => []Known
  <1>1. Init => Known
    BY InitTyped, InitHolds DEF Known
  <1>2. Known /\ [Next]_vars => Known'
    BY NextTyped, StepHeld DEF Known, Held
  <1> QED
    BY <1>1, <1>2, PTL DEF Spec

\* A published event always stands for a success, whichever process loses its
\* connection at whichever step: what the reservations of later pilots step
\* over without looking at the operation (queue_v2_operation).
THEOREM PublishedAreSuccesses == Spec => []PublishedMeansSucceeded
  <1>1. Known => PublishedMeansSucceeded
    BY DEF Known, Holds, EventsHold, PublishedMeansSucceeded
  <1> QED
    BY <1>1, KnownAlways, PTL

-----------------------------------------------------------------------------
(* Reservations.                                                           *)

\* What the writers never touch.
Supervision == <<row, acked, brun, snap, flocks, auth, pilotVars, edits, deployed, deploys, api>>

LEMMA WriterLeaves ==
  ASSUME NEW w \in Writers, WriterStep(w) \/ Start(w) \/ Poll(w)
  PROVE  UNCHANGED Supervision
  <1> USE DEF Supervision, ledgerVars, bookVars, envVars, writerVars, Close, FailOperation,
              Commands, CommandRest, LedgerRest, OutsideRest, Dies
  <1>1. CASE \/ ClearMissing(w) \/ RunCommand(w) \/ CommandFails(w) \/ Claim(w) \/ Poll(w)
             \/ Validate(w) \/ Observe(w) \/ Backup(w) \/ BuildTarget(w)
    BY <1>1 DEF ClearMissing, RunCommand, CommandFails, Claim, Validate, Observe, Backup,
       BuildTarget, Poll
  <1>2. CASE \/ ApplyDone(w) \/ ApplyFails(w) \/ RollbackDone(w) \/ RolledBack(w)
             \/ Verify(w) \/ RestoreDone(w)
    BY <1>2 DEF ApplyDone, ApplyFails, RollbackDone, RolledBack, Verify, RestoreDone
  <1>3. CASE UndoCheck(w) \/ UndoDone(w) \/ UndoFails(w) \/ UndoRollbackDone(w)
    BY <1>3 DEF UndoCheck, UndoDone, UndoFails, UndoRollbackDone
  <1>4. CASE ReconcileEnds(w) \/ ReconcileApply(w) \/ ReconcileUndo(w)
    BY <1>4 DEF ReconcileEnds, ReconcileApply, ReconcileUndo
  <1>5. CASE \/ \E o \in Ops : ReconcileClaimed(w, o) \/ ReconcileNoEvidence(w, o)
                                \/ Visit(w, o)
             \/ TransitionRaises(w) \/ ExitUnfenced(w) \/ Start(w)
    BY <1>5 DEF ReconcileClaimed, ReconcileNoEvidence, Visit, TransitionRaises, ExitUnfenced,
       Start
  <1> QED
    BY <1>1, <1>2, <1>3, <1>4, <1>5 DEF WriterStep

LEMMA EnvironmentLeaves ==
  ASSUME Environment \/ (\E o \in Ops : LeaseExpires(o)) \/ UNCHANGED vars
  PROVE  UNCHANGED <<row, acked, bookVars, pilotVars, api>> \/ \E w \in Writers : Crash(w)
  BY DEF Environment, Redeploy, HeartbeatExpires, ExternalEdit, GuardLost, LeaseExpires, vars,
     ledgerVars, bookVars, envVars

\* Only a reservation takes from the budget of a pilot.
LEMMA OnlyReserveReserves ==
  ASSUME [Next]_vars
  PROVE  UNCHANGED reserved \/ \E q \in Requests : Reserve(q)
  <1>1. CASE Coordinate
    BY <1>1 DEF Coordinate, RecordPackage, Authorize, LockField, Review, LoadRequest,
       RejectRequest, QueueUndo, Acknowledge, PilotStop, pilotVars
  <1>2. CASE Environment \/ (\E o \in Ops : LeaseExpires(o)) \/ UNCHANGED vars
    BY <1>2, EnvironmentLeaves DEF Crash, Dies, pilotVars
  <1>3. ASSUME NEW w \in Writers, WriterStep(w) \/ Start(w) \/ Poll(w)
        PROVE  UNCHANGED reserved
    BY <1>3, WriterLeaves DEF Supervision, pilotVars
  <1> QED
    BY <1>1, <1>2, <1>3 DEF Next

\* After an operation ended unknown, restored or restore_failed, or an undo
\* failed, no reservation is made any more, in any interleaving of requests,
\* acknowledgements, stopped pilots and unfenced processes.
THEOREM IncidentsBlock == Spec => IncidentBlocksReservations
  <1>1. Known /\ [Next]_vars => [(\E o \in Ops : Incident(o)) => reserved' = reserved]_vars
    <2> SUFFICES ASSUME Known, [Next]_vars, NEW o \in Ops, Incident(o)
                 PROVE  reserved' = reserved
      OBVIOUS
    <2>1. ASSUME NEW q \in Requests, Reserve(q)
          PROVE  FALSE
      <3>1. PICK r \in api[q] : OutboxClear(r)
        BY <2>1 DEF Reserve, Reservable
      <3>2. opState[o] # "none" /\ opState[o] # "succeeded"
        BY DEF Incident
      <3>3. SteppedOver(o, r)
        BY <3>1, <3>2 DEF OutboxClear, Known, Holds, EventsHold
      <3> QED
        BY <3>3 DEF SteppedOver, Incident
    <2> QED
      BY <2>1, OnlyReserveReserves
  <1> QED
    BY <1>1, KnownAlways, PTL DEF Spec, IncidentBlocksReservations

-----------------------------------------------------------------------------
(* Budgets.                                                                *)

\* Why the budget is exact: an unused row belongs to no pilot, and a session that
\* does not exist yet has reserved nothing.
BudgetHolds ==
    /\ \A o \in Ops : opState[o] = "none" => row[o].pilot = "none"
    /\ \A p \in Pilots : pilotState[p] = "none" => reserved[p] = 0
    /\ BudgetExact

LEMMA CountType ==
  ASSUME NEW p
  PROVE  IsFiniteSet({o \in Ops : row[o].pilot = p}) /\ PilotOperationCount(p) \in Nat
  <1>1. IsFiniteSet(Ops)
    BY MaxOpsAssumption, FS_Interval DEF Ops
  <1>2. IsFiniteSet({o \in Ops : row[o].pilot = p})
    BY <1>1, FS_Subset
  <1> QED
    BY <1>2, FS_CardinalityType DEF PilotOperationCount

\* Steps that add no row.
LEMMA BudgetStays ==
  ASSUME Known, BudgetHolds, [Next]_vars, row' = row, reserved' = reserved,
         \A p \in Pilots : pilotState[p] # "none" => pilotState'[p] # "none"
  PROVE  BudgetHolds'
  <1>1. \A o \in Ops : opState'[o] = "none" => opState[o] = "none"
    BY StepHeld DEF Held, Steady
  <1>2. BudgetExact'
    BY DEF BudgetHolds, BudgetExact, PilotOperationCount
  <1> QED
    BY <1>1, <1>2 DEF BudgetHolds

\* A new row counts for its own pilot and for no other.
LEMMA RowCounts ==
  ASSUME Known, BudgetHolds, NEW r \in Row, CreateOperation(r), NEW p \in Pilots
  PROVE  PilotOperationCount(p)' = IF r.pilot = p THEN PilotOperationCount(p) + 1
                                   ELSE PilotOperationCount(p)
  <1>1. PICK o \in Ops : opState[o] = "none" /\ row' = [row EXCEPT ![o] = r]
    BY DEF CreateOperation
  <1> DEFINE mine == {x \in Ops : row[x].pilot = p}
             next == {x \in Ops : row'[x].pilot = p}
  <1>2. o \notin mine
    BY <1>1, PilotsAssumption DEF BudgetHolds
  <1>3. next = IF r.pilot = p THEN mine \cup {o} ELSE mine
    BY <1>1, <1>2 DEF Known, TypeOK, LedgerTypeOK
  <1>4. IsFiniteSet(mine)
    BY CountType
  <1>5. Cardinality(mine \cup {o}) = Cardinality(mine) + 1
    BY <1>2, <1>4, FS_AddElement
  <1>6. PilotOperationCount(p)' = Cardinality(next) /\ PilotOperationCount(p) = Cardinality(mine)
    BY DEF PilotOperationCount
  <1> QED
    BY <1>3, <1>5, <1>6

LEMMA ReserveBudget ==
  ASSUME Known, BudgetHolds, NEW q \in Requests, Reserve(q), Held
  PROVE  BudgetHolds'
  <1>1. PICK r \in api[q] :
          /\ Reservable(r)
          /\ CreateOperation(RowOf(r))
          /\ pilotState'   = [pilotState EXCEPT ![r.pilot] = "open"]
          /\ reserved'     = [reserved EXCEPT ![r.pilot] = @ + 1]
    BY DEF Reserve
  <1>2. r \in LoadedRows
    BY <1>1 DEF Known, TypeOK, EnvTypeOK
  <1>3. RowOf(r) \in Row /\ RowOf(r).pilot = r.pilot /\ r.pilot \in Pilots
    BY <1>2 DEF LoadedRows, RowOf, Row, ChangeStates
  <1>4. reserved \in [Pilots -> Nat] /\ pilotState \in [Pilots -> {"none", "open", "stopped"}]
    BY DEF Known, TypeOK, EnvTypeOK
  <1>5. reserved[r.pilot] + 1 <= Budget
    BY <1>1, <1>3, <1>4, BudgetAssumption DEF Reservable, PilotOpen, BudgetHolds
  <1>6. BudgetExact'
    <2> SUFFICES ASSUME NEW p \in Pilots
                 PROVE  reserved'[p] = PilotOperationCount(p)' /\ reserved'[p] <= Budget
      BY DEF BudgetExact
    <2>1. PilotOperationCount(p)' = IF r.pilot = p THEN PilotOperationCount(p) + 1
                                    ELSE PilotOperationCount(p)
      BY <1>1, <1>3, RowCounts
    <2> QED
      BY <1>1, <1>3, <1>4, <1>5, <2>1 DEF BudgetHolds, BudgetExact
  <1>7. \A o \in Ops : opState'[o] = "none" => row'[o].pilot = "none"
    <2>1. PICK n \in Ops : /\ row' = [row EXCEPT ![n] = RowOf(r)]
                           /\ opState' = [opState EXCEPT ![n] = "requested"]
      BY <1>1 DEF CreateOperation
    <2> QED
      BY <2>1 DEF BudgetHolds, Known, TypeOK, LedgerTypeOK
  <1>8. \A p \in Pilots : pilotState'[p] = "none" => reserved'[p] = 0
    BY <1>1, <1>3, <1>4 DEF BudgetHolds
  <1> QED
    BY <1>6, <1>7, <1>8 DEF BudgetHolds

\* An undo belongs to no pilot.
LEMMA UndoBudget ==
  ASSUME Known, BudgetHolds, NEW c \in Ops, QueueUndo(c), CreateOperation(UndoRow(c))
  PROVE  BudgetHolds'
  <1>1. UndoRow(c) \in Row /\ UndoRow(c).pilot = "none"
    BY UnsetType DEF UndoRow, Row, Known, TypeOK, LedgerTypeOK
  <1>2. UNCHANGED <<reserved, pilotState>>
    BY DEF QueueUndo, pilotVars
  <1>3. \A p \in Pilots : PilotOperationCount(p)' = PilotOperationCount(p)
    BY <1>1, RowCounts, PilotsAssumption
  <1>4. \A o \in Ops : opState'[o] = "none" => row'[o].pilot = "none"
    <2>1. PICK n \in Ops : /\ row' = [row EXCEPT ![n] = UndoRow(c)]
                           /\ opState' = [opState EXCEPT ![n] = "requested"]
      BY DEF CreateOperation
    <2> QED
      BY <2>1 DEF BudgetHolds, Known, TypeOK, LedgerTypeOK
  <1> QED
    BY <1>2, <1>3, <1>4 DEF BudgetHolds, BudgetExact

LEMMA BudgetStep == Known /\ BudgetHolds /\ [Next]_vars => BudgetHolds'
  <1> SUFFICES ASSUME Known, BudgetHolds, [Next]_vars PROVE BudgetHolds'
    OBVIOUS
  <1>1. ASSUME row' = row, UNCHANGED pilotVars
        PROVE  BudgetHolds'
    BY <1>1, BudgetStays DEF pilotVars
  <1>2. CASE Coordinate
    <2>1. ASSUME NEW q \in Requests, Reserve(q)
          PROVE  BudgetHolds'
      BY <2>1, StepHeld, ReserveBudget
    <2>2. ASSUME NEW c \in Ops, QueueUndo(c)
          PROVE  BudgetHolds'
      BY <1>1, <2>2, UndoBudget DEF QueueUndo, ledgerVars
    <2>3. ASSUME NEW p \in Pilots, PilotStop(p)
          PROVE  BudgetHolds'
      <3>1. row' = row /\ reserved' = reserved
        BY <2>3 DEF PilotStop, ledgerVars
      <3>2. \A x \in Pilots : pilotState[x] # "none" => pilotState'[x] # "none"
        BY <2>3 DEF PilotStop, Known, TypeOK, EnvTypeOK
      <3> QED
        BY <3>1, <3>2, BudgetStays
    <2> QED
      BY <1>1, <1>2, <2>1, <2>2, <2>3 DEF Coordinate, RecordPackage, Authorize, LockField,
         Review, LoadRequest, RejectRequest, Acknowledge, ledgerVars
  <1>3. CASE Environment \/ (\E o \in Ops : LeaseExpires(o)) \/ UNCHANGED vars
    BY <1>1, <1>3, EnvironmentLeaves DEF Crash, Dies, ledgerVars
  <1>4. ASSUME NEW w \in Writers, WriterStep(w) \/ Start(w) \/ Poll(w)
        PROVE  BudgetHolds'
    BY <1>1, <1>4, WriterLeaves DEF Supervision
  <1> QED
    BY <1>2, <1>3, <1>4 DEF Next

LEMMA BudgetInit == Init => BudgetHolds
  <1> SUFFICES ASSUME Init PROVE BudgetHolds
    OBVIOUS
  <1>1. ASSUME NEW p \in Pilots
        PROVE  PilotOperationCount(p) = 0
    <2>1. {o \in Ops : row[o].pilot = p} = {}
      BY PilotsAssumption DEF Init, BlankRow
    <2> QED
      BY <2>1, FS_EmptySet DEF PilotOperationCount
  <1> QED
    BY <1>1, BudgetAssumption DEF Init, BudgetHolds, BudgetExact, BlankRow

\* The budget a pilot has used is exactly its rows in the ledger and is never
\* exceeded, for every number of concurrent requests and of pilots, so that the
\* consistency check of _lock_or_create_pilot never fires.
THEOREM BudgetsAreExact == Spec => []BudgetExact
  <1>1. BudgetHolds => BudgetExact
    BY DEF BudgetHolds
  <1> QED
    BY <1>1, BudgetInit, BudgetStep, KnownAlways, PTL DEF Spec

-----------------------------------------------------------------------------
(* Revocation.                                                             *)

\* What a request or a row was bound to is not newer than the book: runs and
\* locks only grow.
Fits(r) == r.pilot \in Pilots /\ r.run <= brun[r.book] /\ r.locks \subseteq flocks[r.book]

RequestsFit ==
    /\ \A o \in Ops : row[o].kind = "apply" => Fits(row[o])
    /\ \A q \in Requests : \A r \in api[q] : Fits(r)

\* A ground for refusal that nothing takes back.
Barred(o) ==
    /\ row[o].kind = "apply"
    /\ \/ pilotState[row[o].pilot] = "stopped"
       \/ row[o].run # brun[row[o].book]
       \/ row[o].locks # flocks[row[o].book]

\* It came before the owner of the lock validated the operation.
Shut(o) ==
    /\ Barred(o) /\ opState[o] \notin {"none", "writing"}
    /\ \A w \in Writers : guard = w /\ pc[w] = "observe" => wop[w] # o

\* Runs and locks of books only grow, and a stopped pilot stays stopped.
Grows ==
    /\ \A b \in Books : brun[b] <= brun'[b] /\ flocks[b] \subseteq flocks'[b]
    /\ \A p \in Pilots : pilotState[p] = "stopped" => pilotState'[p] = "stopped"

LEMMA StepGrows ==
  ASSUME Known, [Next]_vars
  PROVE  Grows
  <1> USE DEF Grows
  <1>0. brun \in [Books -> Nat] /\ flocks \in [Books -> SUBSET Written]
    BY DEF Known, TypeOK, BookTypeOK
  <1>1. CASE UNCHANGED <<brun, flocks, pilotVars>>
    BY <1>0, <1>1 DEF pilotVars
  <1>2. CASE Coordinate
    <2>1. ASSUME NEW b \in Books, RecordPackage(b)
          PROVE  Grows
      BY <1>0, <2>1 DEF RecordPackage, pilotVars
    <2>2. ASSUME NEW b \in Books, NEW p \in LockedParts, LockField(b, p)
          PROVE  Grows
      BY <1>0, <2>2 DEF LockField, pilotVars
    <2>3. ASSUME NEW p \in Pilots, PilotStop(p)
          PROVE  Grows
      BY <1>0, <2>3 DEF PilotStop, bookVars, Known, TypeOK, EnvTypeOK
    <2>4. ASSUME NEW q \in Requests, Reserve(q)
          PROVE  Grows
      <3>1. PICK r \in api[q] : /\ Reservable(r)
                                /\ pilotState' = [pilotState EXCEPT ![r.pilot] = "open"]
                                /\ UNCHANGED <<brun, flocks>>
        BY <2>4 DEF Reserve
      <3> QED
        BY <1>0, <3>1 DEF Reservable, PilotOpen, Known, TypeOK, EnvTypeOK
    <2> QED
      BY <1>1, <1>2, <2>1, <2>2, <2>3, <2>4 DEF Coordinate, Authorize, Review, LoadRequest,
         RejectRequest, QueueUndo, Acknowledge, bookVars
  <1>3. CASE Environment \/ (\E o \in Ops : LeaseExpires(o)) \/ UNCHANGED vars
    BY <1>1, <1>3, EnvironmentLeaves DEF Crash, Dies, bookVars
  <1>4. ASSUME NEW w \in Writers, WriterStep(w) \/ Start(w) \/ Poll(w)
        PROVE  Grows
    BY <1>1, <1>4, WriterLeaves DEF Supervision
  <1> QED
    BY <1>2, <1>3, <1>4 DEF Next

\* What fits, still fits after the book has moved on.
LEMMA FitsStays ==
  ASSUME Known, Grows, NEW r, r.book \in Books, r.run \in Nat, Fits(r),
         brun' \in [Books -> Nat]
  PROVE  r.pilot \in Pilots /\ r.run <= brun'[r.book] /\ r.locks \subseteq flocks'[r.book]
  BY DEF Fits, Grows, Known, TypeOK, BookTypeOK

LEMMA RequestsStep == Known /\ RequestsFit /\ [Next]_vars => RequestsFit'
  <1> SUFFICES ASSUME Known, RequestsFit, [Next]_vars PROVE RequestsFit'
    OBVIOUS
  <1>1. Grows /\ Steady /\ brun' \in [Books -> Nat]
    BY StepGrows, StepHeld, NextTyped DEF Held, Known, TypeOK, BookTypeOK
  <1>2. \A o \in Ops : row[o].book \in Books /\ row[o].run \in Nat
    BY DEF Known, TypeOK, LedgerTypeOK, Row
  <1>3. \A q \in Requests : \A r \in api[q] : r.book \in Books /\ r.run \in Nat
    BY DEF Known, TypeOK, EnvTypeOK, LoadedRows
  <1> DEFINE New(r) == /\ r.pilot \in Pilots /\ r.run <= brun'[r.book]
                       /\ r.locks \subseteq flocks'[r.book]
  <1>4. \A o \in Ops : row[o].kind = "apply" => New(row[o])
    BY <1>1, <1>2, FitsStays DEF RequestsFit
  <1>5. \A q \in Requests : \A r \in api[q] : New(r)
    BY <1>1, <1>3, FitsStays DEF RequestsFit
  <1>6. SUFFICES /\ \A o \in Ops : row'[o].kind = "apply" => New(row'[o])
                 /\ \A q \in Requests : \A r \in api'[q] : New(r)
    BY DEF RequestsFit, Fits
  <1> HIDE DEF New
  <1> DEFINE Goal == /\ \A o \in Ops : row'[o].kind = "apply" => New(row'[o])
                     /\ \A q \in Requests : \A r \in api'[q] : New(r)
  <1>7. CASE UNCHANGED <<row, api>>
    BY <1>4, <1>5, <1>7
  <1>8. CASE Coordinate
    <2>1. ASSUME NEW q \in Requests, NEW b \in Books, LoadRequest(q, b)
          PROVE  Goal
      <3> DEFINE r == [kind |-> "apply", book |-> b, run |-> brun[b],
                       patch |-> Patch(b), locks |-> flocks[b],
                       pilot |-> deployed.pilot, expect |-> snap[b],
                       change |-> NoOp, status |-> "none",
                       release |-> deployed.release]
      <3>1. api' = [api EXCEPT ![q] = {r}]
        BY <2>1 DEF LoadRequest
      <3>2. row' = row /\ brun' = brun /\ flocks' = flocks
        BY <2>1 DEF LoadRequest, ledgerVars, bookVars
      <3>3. New(r)
        BY <3>2 DEF New, Known, TypeOK, EnvTypeOK, BookTypeOK, Guards
      <3> HIDE DEF r
      <3> QED
        BY <1>4, <1>5, <3>1, <3>2, <3>3 DEF Known, TypeOK, EnvTypeOK
    <2>2. ASSUME NEW q \in Requests, Reserve(q)
          PROVE  Goal
      <3>1. PICK r \in api[q] : CreateOperation(RowOf(r)) /\ api' = [api EXCEPT ![q] = {}]
        BY <2>2 DEF Reserve
      <3>2. New(RowOf(r))
        BY <1>5 DEF New, RowOf
      <3>3. PICK n \in Ops : row' = [row EXCEPT ![n] = RowOf(r)]
        BY <3>1 DEF CreateOperation
      <3>4. \A o \in Ops : row'[o].kind = "apply" => New(row'[o])
        BY <1>4, <3>2, <3>3 DEF Known, TypeOK, LedgerTypeOK
      <3>5. \A x \in Requests : \A y \in api'[x] : New(y)
        BY <1>5, <3>1 DEF Known, TypeOK, EnvTypeOK
      <3> QED
        BY <3>4, <3>5
    <2>3. ASSUME NEW q \in Requests, RejectRequest(q)
          PROVE  Goal
      BY <1>4, <1>5, <2>3 DEF RejectRequest, ledgerVars, Known, TypeOK, EnvTypeOK
    <2>4. ASSUME NEW c \in Ops, QueueUndo(c)
          PROVE  Goal
      <3>1. api' = api
        BY <2>4 DEF QueueUndo, envVars
      <3>2. row' = row \/ \E n \in Ops : row' = [row EXCEPT ![n] = UndoRow(c)]
        BY <2>4 DEF QueueUndo, CreateOperation, ledgerVars
      <3>3. UndoRow(c).kind # "apply"
        BY DEF UndoRow
      <3>4. \A o \in Ops : row'[o].kind = "apply" => New(row'[o])
        BY <1>4, <3>2, <3>3 DEF Known, TypeOK, LedgerTypeOK
      <3> QED
        BY <1>5, <3>1, <3>4
    <2> QED
      BY <1>7, <1>8, <2>1, <2>2, <2>3, <2>4 DEF Coordinate, RecordPackage, Authorize,
         LockField, Review, Acknowledge, PilotStop, ledgerVars, envVars
  <1>9. CASE Environment \/ (\E o \in Ops : LeaseExpires(o)) \/ UNCHANGED vars
    BY <1>7, <1>9, EnvironmentLeaves DEF Crash, Dies, ledgerVars, envVars
  <1>10. ASSUME NEW w \in Writers, WriterStep(w) \/ Start(w) \/ Poll(w)
         PROVE  Goal
    BY <1>7, <1>10, WriterLeaves DEF Supervision
  <1> QED
    BY <1>8, <1>9, <1>10 DEF Next

\* Where an operation moves to writing, and what the owner of the lock knows there.
LEMMA WritingStarts ==
  ASSUME Known, NEW w \in Writers, WriterStep(w) \/ Start(w) \/ Poll(w), NEW o \in Ops,
         opState'[o] = "writing", opState[o] # "writing"
  PROVE  guard = w /\ wop[w] = o /\ pc[w] \in {"observe", "undo_check"}
  <1>0. opState \in [Ops -> OpStates]
    BY DEF Known, TypeOK, LedgerTypeOK
  <1>1. ASSUME NEW s, NEW e, NEW b, Close(w, s, e, b), s # "writing" \/ s = opState[wop[w]]
        PROVE  FALSE
    BY <1>0, <1>1 DEF Close, Finish
  <1>2. ASSUME NEW s \in OpStates \ {"writing"}, NEW e, NEW b, Close(w, Outcome(w, s), e, b)
        PROVE  FALSE
    BY <1>1, <1>2 DEF Outcome
  <1>3. ASSUME FailOperation(w)
        PROVE  FALSE
    BY <1>1, <1>3 DEF FailOperation, FailedState
  <1>4. {"restore_failed", "unknown"} \subseteq OpStates \ {"writing"}
    BY DEF OpStates, Terminal
  <1> USE DEF ledgerVars, At, Loaded
  <1>5. CASE \/ ClearMissing(w) \/ RunCommand(w) \/ CommandFails(w) \/ Poll(w) \/ Start(w)
             \/ ApplyDone(w) \/ ApplyFails(w) \/ RollbackDone(w) \/ ReconcileEnds(w)
             \/ UndoFails(w) \/ \E x \in Ops : Visit(w, x)
    BY <1>5 DEF ClearMissing, RunCommand, CommandFails, CommandRest, Poll, Start, ApplyDone,
       ApplyFails, RollbackDone, ReconcileEnds, UndoFails, Visit
  <1>6. CASE Claim(w) \/ \E x \in Ops : ReconcileClaimed(w, x) \/ ReconcileNoEvidence(w, x)
    BY <1>0, <1>6 DEF Claim, ReconcileClaimed, ReconcileNoEvidence, Finish
  <1>7. CASE Validate(w) \/ Backup(w) \/ BuildTarget(w) \/ TransitionRaises(w)
    BY <1>1, <1>3, <1>7 DEF Validate, Backup, BuildTarget, TransitionRaises
  <1>8. CASE Observe(w) \/ UndoCheck(w)
    BY <1>0, <1>1, <1>3, <1>8 DEF Observe, UndoCheck
  <1>9. CASE RolledBack(w) \/ Verify(w) \/ RestoreDone(w)
    BY <1>1, <1>2, <1>3, <1>4, <1>9 DEF RolledBack, Verify, RestoreDone
  <1>10. CASE UndoDone(w) \/ UndoRollbackDone(w)
    BY <1>1, <1>2, <1>3, <1>4, <1>10 DEF UndoDone, UndoRollbackDone
  <1>11. CASE ReconcileApply(w) \/ ReconcileUndo(w)
    BY <1>1, <1>2, <1>4, <1>11 DEF ReconcileApply, ReconcileUndo
  <1>12. CASE ExitUnfenced(w)
    BY <1>0, <1>12 DEF ExitUnfenced, Finish, FailedState
  <1> QED
    BY <1>5, <1>6, <1>7, <1>8, <1>9, <1>10, <1>11, <1>12 DEF WriterStep

\* The owner observes only what it has just found valid.
LEMMA ObserveStarts ==
  ASSUME Known, NEW w \in Writers, WriterStep(w) \/ Start(w) \/ Poll(w), NEW v \in Writers,
         guard' = v, pc'[v] = "observe"
  PROVE  /\ guard = v /\ wop'[v] = wop[v]
         /\ pc[v] = "observe" \/ Valid(v, wop[v])
  <1>0. pc \in [Writers -> Pcs] /\ wop \in [Writers -> Ops \cup {NoOp}]
    BY DEF Known, TypeOK, WriterTypeOK
  <1>1. CASE UNCHANGED <<guard, pc, wop>>
    BY <1>1
  <1>2. CASE \E l \in Pcs \ {"observe"} : Goto(w, l) /\ guard' = guard
                                           /\ \A x \in Writers : x # w => wop'[x] = wop[x]
    BY <1>0, <1>2 DEF Goto
  <1>3. CASE Return(w)
    BY <1>0, <1>2, <1>3 DEF Return, Pcs
  <1> USE DEF Close, FailOperation, Commands, At, Loaded
  <1>4. CASE \/ ClearMissing(w) \/ RunCommand(w) \/ CommandFails(w) \/ Poll(w)
             \/ \E o \in Ops : ReconcileClaimed(w, o) \/ ReconcileNoEvidence(w, o)
    BY <1>1, <1>4 DEF ClearMissing, RunCommand, CommandFails, CommandRest, Poll, writerVars,
       ReconcileClaimed, ReconcileNoEvidence
  <1>5. CASE Start(w)
    BY <1>0, <1>5 DEF Start, Goto
  <1>6. CASE Claim(w) \/ ReconcileEnds(w) \/ \E o \in Ops : Visit(w, o)
    BY <1>0, <1>2, <1>6 DEF Claim, ReconcileEnds, Visit, Pcs
  <1>7. CASE Validate(w)
    <2>1. CASE Valid(w, wop[w]) /\ Goto(w, "observe") /\ UNCHANGED <<guard, wop>>
      BY <1>0, <1>7, <2>1 DEF Validate, Goto
    <2> QED
      BY <1>3, <1>7, <2>1 DEF Validate
  <1>8. CASE Observe(w) \/ Backup(w) \/ BuildTarget(w)
    BY <1>2, <1>3, <1>8 DEF Observe, Backup, BuildTarget, Pcs
  <1>9. CASE \/ ApplyDone(w) \/ ApplyFails(w) \/ RollbackDone(w) \/ RolledBack(w)
             \/ Verify(w) \/ RestoreDone(w)
    BY <1>2, <1>3, <1>9 DEF ApplyDone, ApplyFails, RollbackDone, RolledBack, Verify,
       RestoreDone, Pcs
  <1>10. CASE UndoCheck(w) \/ UndoDone(w) \/ UndoFails(w) \/ UndoRollbackDone(w)
    BY <1>2, <1>3, <1>10 DEF UndoCheck, UndoDone, UndoFails, UndoRollbackDone, Pcs
  <1>11. CASE ReconcileApply(w) \/ ReconcileUndo(w) \/ TransitionRaises(w)
    BY <1>2, <1>3, <1>11 DEF ReconcileApply, ReconcileUndo, TransitionRaises, Pcs
  <1>12. CASE ExitUnfenced(w)
    BY <1>0, <1>2, <1>12 DEF ExitUnfenced, Dies, Pcs
  <1> QED
    BY <1>4, <1>5, <1>6, <1>7, <1>8, <1>9, <1>10, <1>11, <1>12 DEF WriterStep
LEMMA InitFit == Init => RequestsFit
  BY DEF Init, RequestsFit, BlankRow

\* Steps of the coordinator and of the environment start no write and validate
\* nothing.
LEMMA OthersLeave ==
  ASSUME Known, Coordinate \/ Environment \/ (\E o \in Ops : LeaseExpires(o)) \/ UNCHANGED vars
  PROVE  /\ \A o \in Ops : opState'[o] = "writing" => opState[o] = "writing"
         /\ \A v \in Writers : guard' = v /\ pc'[v] = "observe" =>
               guard = v /\ pc[v] = "observe" /\ wop'[v] = wop[v]
  <1>0. opState \in [Ops -> OpStates] /\ pc \in [Writers -> Pcs]
        /\ wop \in [Writers -> Ops \cup {NoOp}]
    BY DEF Known, TypeOK, LedgerTypeOK, WriterTypeOK
  <1>1. CASE UNCHANGED <<opState, writerVars>>
    BY <1>1 DEF writerVars
  <1>2. CASE UNCHANGED writerVars /\ \E r : CreateOperation(r)
    BY <1>0, <1>2 DEF writerVars, CreateOperation
  <1>3. CASE \E w \in Writers : Crash(w) \/ GuardLost(w)
    BY <1>0, <1>3, ProcessAssumption DEF Crash, GuardLost, Dies, Goto, ledgerVars
  <1> USE DEF ledgerVars
  <1>4. CASE Environment \/ (\E o \in Ops : LeaseExpires(o)) \/ UNCHANGED vars
    BY <1>1, <1>3, <1>4 DEF Environment, Redeploy, HeartbeatExpires, ExternalEdit,
       LeaseExpires, vars
  <1>5. CASE Coordinate
    BY <1>1, <1>2, <1>5 DEF Coordinate, RecordPackage, Authorize, LockField, Review,
       LoadRequest, Reserve, RejectRequest, QueueUndo, Acknowledge, PilotStop
  <1> QED
    BY <1>4, <1>5

LEMMA BarredStays ==
  ASSUME Known, RequestsFit, [Next]_vars, NEW o \in Ops, opState[o] # "none", Barred(o)
  PROVE  Barred(o)'
  <1>1. Grows /\ row'[o] = row[o] /\ brun' \in [Books -> Nat]
    BY StepGrows, StepHeld, NextTyped DEF Held, Steady, Known, TypeOK, BookTypeOK
  <1>2. Fits(row[o]) /\ row[o].book \in Books /\ row[o].run \in Nat
    BY DEF Barred, RequestsFit, Known, TypeOK, LedgerTypeOK, Row
  <1>3. CASE pilotState[row[o].pilot] = "stopped"
    BY <1>1, <1>2, <1>3 DEF Barred, Grows, Fits
  <1>4. CASE row[o].run # brun[row[o].book]
    <2>1. row[o].run < brun[row[o].book]
      BY <1>2, <1>4 DEF Fits, Known, TypeOK, BookTypeOK
    <2>2. row[o].run # brun'[row[o].book]
      BY <1>1, <1>2, <2>1 DEF Grows, Known, TypeOK, BookTypeOK
    <2> QED
      BY <1>1, <2>2 DEF Barred
  <1>5. CASE row[o].locks # flocks[row[o].book]
    <2>1. row[o].locks # flocks'[row[o].book]
      BY <1>1, <1>2, <1>5 DEF Fits, Grows
    <2> QED
      BY <1>1, <2>1 DEF Barred
  <1> QED
    BY <1>3, <1>4, <1>5 DEF Barred

LEMMA ShutStays ==
  ASSUME Known, RequestsFit, [Next]_vars, NEW o \in Ops, Shut(o)
  PROVE  Shut(o)'
  <1>1. Barred(o)'
    BY BarredStays DEF Shut
  <1>2. opState'[o] # "none"
    BY StepHeld DEF Shut, Held, Steady
  <1>3. CASE Coordinate \/ Environment \/ (\E x \in Ops : LeaseExpires(x)) \/ UNCHANGED vars
    BY <1>1, <1>2, <1>3, OthersLeave DEF Shut
  <1>4. ASSUME NEW w \in Writers, WriterStep(w) \/ Start(w) \/ Poll(w)
        PROVE  Shut(o)'
    <2>1. opState'[o] # "writing"
      <3> SUFFICES ASSUME opState'[o] = "writing" PROVE FALSE
        OBVIOUS
      <3>1. guard = w /\ wop[w] = o /\ pc[w] \in {"observe", "undo_check"}
        BY <1>4, WritingStarts DEF Shut
      <3>2. pc[w] = "undo_check" => row[o].kind = "undo"
        BY <3>1 DEF Known, WorkRecorded, UndoPcs
      <3> QED
        BY <3>1, <3>2 DEF Shut, Barred
    <2>2. ASSUME NEW v \in Writers, guard' = v, pc'[v] = "observe", wop'[v] = o
          PROVE  FALSE
      <3>1. guard = v /\ wop[v] = o /\ (pc[v] = "observe" \/ Valid(v, o))
        BY <1>4, <2>2, ObserveStarts
      <3>2. CASE pc[v] = "observe"
        BY <3>1, <3>2 DEF Shut
      <3>3. CASE Valid(v, o)
        BY <3>3 DEF Valid, Shut, Barred
      <3> QED
        BY <3>1, <3>2, <3>3
    <2> QED
      BY <1>1, <1>2, <2>1, <2>2 DEF Shut
  <1> QED
    BY <1>3, <1>4 DEF Next

\* A revoked operation is still requested, so that no owner has validated it.
LEMMA RevokedIsShut ==
  ASSUME Known, NEW o \in Ops, Revoked(o)
  PROVE  Shut(o)
  BY DEF Known, Holds, OwnerHolds, Revoked, Shut, Barred, ClaimedPcs

\* An apply whose pilot is stopped, whose book is verified again or gets another
\* lock while it is queued never starts to write, in any later restart, claim or
\* reconciliation, by an owner of the lock or by a process that has lost it.
THEOREM RevocationHolds == Spec => RevokedNeverWrites
  <1> SUFFICES ASSUME NEW o \in Ops
               PROVE  Spec => [](Revoked(o) => [](opState[o] # "writing"))
    BY DEF RevokedNeverWrites
  <1>1. Known /\ Revoked(o) => Shut(o)
    BY RevokedIsShut
  <1>2. Known /\ RequestsFit /\ Shut(o) /\ [Next]_vars => Shut(o)'
    BY ShutStays
  <1>3. Shut(o) => opState[o] # "writing"
    BY DEF Shut
  <1>4. Spec => []RequestsFit
    BY InitFit, RequestsStep, KnownAlways, PTL DEF Spec
  <1> QED
    BY <1>1, <1>2, <1>3, <1>4, KnownAlways, PTL DEF Spec
=============================================================================
