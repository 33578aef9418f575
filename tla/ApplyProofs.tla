----------------------------- MODULE ApplyProofs -----------------------------
(***************************************************************************)
(* Proofs about ApplySystem, for every library, number of writers, pilots, *)
(* ledger rows, crashes, failing commands and lost connections.            *)
(***************************************************************************)
EXTENDS ApplySystem, TLAPS

-----------------------------------------------------------------------------
(* Facts about the operators the actions are built from.                   *)

LEMMA NoOpFresh == NoOp \notin Ops
  BY MaxOpsAssumption DEF NoOp, Ops

LEMMA UnsetType == Unset \in Meta
  BY DEF Unset, Meta, Val

LEMMA DoneType == Done \in Plans
  BY DEF Done, Plans

LEMMA BlankRowType == BlankRow \in Row
  <1>1. (CHOOSE b \in Books : TRUE) \in Books
    BY ProcessAssumption
  <1>2. 0 \in Nat
    OBVIOUS
  <1> QED
    BY <1>1, <1>2, UnsetType DEF BlankRow, Row, ChangeStates

\* The commands of an apply set well-formed values.
LEMMA ApplyPlanType ==
  ASSUME LedgerTypeOK, NEW o \in Ops
  PROVE  ApplyPlan(o) \in Plans
  BY DEF LedgerTypeOK, ApplyPlan, Plans, Meta, Parts, Written, Val, Keep

\* So do the commands of a restore, whichever artifacts it takes.
LEMMA RestorePlanType ==
  ASSUME LedgerTypeOK, NEW o \in Ops, NEW c \in Ops
  PROVE  RestorePlan(o, c) \in Plans
  BY DEF LedgerTypeOK, RestorePlan, Plans, Meta, Parts, Written, Val, Keep

LEMMA NextPartType ==
  ASSUME NEW w \in Writers
  PROVE  NextPart(w) \in Written
  BY DEF NextPart, Written

LEMMA FailedStateType ==
  ASSUME LedgerTypeOK, NEW o \in Ops, opState[o] # "none"
  PROVE  FailedState(o) \in OpStates \ {"none"}
  BY DEF LedgerTypeOK, FailedState, OpStates, Active, Terminal

\* A step of a writer that closes its operation keeps every variable in its
\* domain and every process on a recorded operation.
LEMMA CloseKeeps ==
  ASSUME TypeOK, WorkRecorded, NEW w \in Writers, NEW s \in OpStates \ {"none"},
         NEW e \in OutboxStates, NEW b \in BookStates, Close(w, s, e, b),
         change' \in [Ops -> ChangeStates], faults' \in Nat
  PROVE  TypeOK' /\ WorkRecorded'
  <1> USE DEF TypeOK, Close, Finish, SetBook, Return, Goto, LedgerRest, OutsideRest,
              pilotVars
  <1>1. LedgerTypeOK'
    BY DEF LedgerTypeOK
  <1>2. BookTypeOK'
    BY DEF BookTypeOK
  <1>3. EnvTypeOK'
    BY DEF EnvTypeOK
  <1>4. WriterTypeOK'
    BY DEF WriterTypeOK, Pcs
  <1>5. WorkRecorded'
    BY DEF WorkRecorded, WorkPcs, UndoPcs, Pcs, LedgerTypeOK, WriterTypeOK
  <1> QED
    BY <1>1, <1>2, <1>3, <1>4, <1>5

\* A step that starts a sequence of commands does so too.
LEMMA CommandsKeeps ==
  ASSUME TypeOK, WorkRecorded, NEW w \in Writers, NEW l \in WorkPcs, NEW p \in Plans,
         Commands(w, l, p), pc[w] \in WorkPcs,
         l \in UndoPcs => pc[w] \in UndoPcs,
         UNCHANGED <<row, outbox, lock, lease, change, crun, acked, bstat, wop>>,
         before' \in [Ops -> Meta], backup' \in [Ops -> Meta],
         opState' \in [Ops -> OpStates],
         \A o \in Ops : opState[o] # "none" => opState'[o] # "none",
         why' \in [Writers -> {"target", "files", "closed"}],
         OutsideRest, faults' \in Nat
  PROVE  TypeOK' /\ WorkRecorded'
  <1> USE DEF TypeOK, Commands, Goto, OutsideRest, pilotVars
  <1>1. LedgerTypeOK'
    BY DEF LedgerTypeOK
  <1>2. BookTypeOK'
    BY DEF BookTypeOK
  <1>3. EnvTypeOK'
    BY DEF EnvTypeOK
  <1>4. WriterTypeOK'
    BY DEF WriterTypeOK, WorkPcs
  <1>5. WorkRecorded'
    BY DEF WorkRecorded, WorkPcs, UndoPcs, Pcs, LedgerTypeOK, WriterTypeOK
  <1> QED
    BY <1>1, <1>2, <1>3, <1>4, <1>5

-----------------------------------------------------------------------------
(* Coordinator and environment.                                            *)

\* A new row of the ledger.
LEMMA CreateKeeps ==
  ASSUME LedgerTypeOK, WorkRecorded, WriterTypeOK, NEW r \in Row, CreateOperation(r),
         r.kind = "undo" => r.change \in Ops, UNCHANGED writerVars
  PROVE  LedgerTypeOK' /\ WorkRecorded'
  <1>1. PICK o \in Ops :
          /\ opState[o] = "none"
          /\ row'     = [row EXCEPT ![o] = r]
          /\ opState' = [opState EXCEPT ![o] = "requested"]
          /\ outbox'  = [outbox EXCEPT ![o] = "pending"]
          /\ UNCHANGED <<lock, lease, before, backup, change, crun, acked>>
    BY DEF CreateOperation
  <1>2. LedgerTypeOK'
    BY <1>1 DEF LedgerTypeOK, OpStates, OutboxStates
  <1>3. WorkRecorded'
    BY <1>1 DEF WorkRecorded, WorkPcs, UndoPcs, Pcs, LedgerTypeOK, WriterTypeOK, writerVars
  <1> QED
    BY <1>2, <1>3

LEMMA CoordinateKeeps ==
  ASSUME TypeOK, WorkRecorded, Coordinate
  PROVE  TypeOK' /\ WorkRecorded'
  <1> USE DEF TypeOK
  <1>1. ASSUME NEW b \in Books, RecordPackage(b)
        PROVE  TypeOK' /\ WorkRecorded'
    BY <1>1 DEF RecordPackage, ledgerVars, pilotVars, envVars, writerVars, LedgerTypeOK,
       BookTypeOK, EnvTypeOK, WriterTypeOK, BookStates, WorkRecorded
  <1>2. ASSUME NEW b \in Books, Authorize(b)
        PROVE  TypeOK' /\ WorkRecorded'
    BY <1>2, PatchAssumption DEF Authorize, Patch, ledgerVars, pilotVars, envVars,
       writerVars, LedgerTypeOK, BookTypeOK, EnvTypeOK, WriterTypeOK, WorkRecorded
  <1>3. ASSUME NEW b \in Books, NEW p \in LockedParts, LockField(b, p)
        PROVE  TypeOK' /\ WorkRecorded'
    BY <1>3, ReviewAssumption DEF LockField, ledgerVars, pilotVars, envVars, writerVars,
       LedgerTypeOK, BookTypeOK, EnvTypeOK, WriterTypeOK, WorkRecorded
  <1>4. ASSUME NEW b \in Reviewed, NEW v \in {"suggest_fix", "scanned"}, Review(b, v)
        PROVE  TypeOK' /\ WorkRecorded'
    BY <1>4 DEF Review, ledgerVars, pilotVars, envVars, writerVars, LedgerTypeOK,
       BookTypeOK, EnvTypeOK, WriterTypeOK, BookStates, WorkRecorded
  <1>5. ASSUME NEW q \in Requests, NEW b \in Books, LoadRequest(q, b)
        PROVE  TypeOK' /\ WorkRecorded'
    <2>1. Patch(b) \in SUBSET Written
      BY PatchAssumption DEF Patch
    <2>2. [kind |-> "apply", book |-> b, run |-> brun[b], patch |-> Patch(b),
           locks |-> flocks[b], pilot |-> deployed.pilot, expect |-> snap[b],
           change |-> NoOp, status |-> "none", release |-> deployed.release]
          \in LoadedRows
      BY <2>1 DEF BookTypeOK, EnvTypeOK, Guards, LoadedRows
    <2>3. api' \in [Requests -> SUBSET LoadedRows]
      BY <1>5, <2>2 DEF LoadRequest, EnvTypeOK
    <2> QED
      BY <1>5, <2>3 DEF LoadRequest, ledgerVars, bookVars, pilotVars, writerVars,
         LedgerTypeOK, BookTypeOK, EnvTypeOK, WriterTypeOK, WorkRecorded
  <1>6. ASSUME NEW q \in Requests, Reserve(q)
        PROVE  TypeOK' /\ WorkRecorded'
    <2>1. PICK r \in api[q] :
            /\ CreateOperation(RowOf(r))
            /\ pilotState'   = [pilotState EXCEPT ![r.pilot] = "open"]
            /\ pilotRelease' = [pilotRelease EXCEPT ![r.pilot] = r.release]
            /\ reserved'     = [reserved EXCEPT ![r.pilot] = @ + 1]
            /\ bstat' = [bstat EXCEPT ![r.book] = "apply_queued"]
            /\ api'   = [api EXCEPT ![q] = {}]
            /\ UNCHANGED <<brun, snap, flocks, auth, live, edits, faults, deployed,
                           deploys, hb, writerVars>>
      BY <1>6 DEF Reserve
    <2>2. r \in LoadedRows
      BY <2>1 DEF EnvTypeOK
    <2>3. RowOf(r) \in Row /\ RowOf(r).kind # "undo"
      BY <2>2 DEF LoadedRows, RowOf, Row, ChangeStates
    <2>4. LedgerTypeOK' /\ WorkRecorded'
      BY <2>1, <2>3, CreateKeeps
    <2>5. BookTypeOK' /\ WriterTypeOK'
      BY <2>1 DEF BookTypeOK, WriterTypeOK, BookStates, writerVars
    <2>6. EnvTypeOK'
      BY <2>1, <2>2 DEF EnvTypeOK, LoadedRows, writerVars
    <2> QED
      BY <2>4, <2>5, <2>6
  <1>7. ASSUME NEW q \in Requests, RejectRequest(q)
        PROVE  TypeOK' /\ WorkRecorded'
    BY <1>7 DEF RejectRequest, ledgerVars, bookVars, pilotVars, writerVars,
       LedgerTypeOK, BookTypeOK, EnvTypeOK, WriterTypeOK, WorkRecorded
  <1>8. ASSUME NEW c \in Ops, QueueUndo(c)
        PROVE  TypeOK' /\ WorkRecorded'
    <2>1. UndoRow(c) \in Row /\ UndoRow(c).change \in Ops
      BY UnsetType DEF UndoRow, Row, LedgerTypeOK
    <2>2. LedgerTypeOK' /\ WorkRecorded'
      <3>1. CASE UNCHANGED ledgerVars
        BY <1>8, <3>1 DEF QueueUndo, ledgerVars, writerVars, LedgerTypeOK, WorkRecorded
      <3>2. CASE CreateOperation(UndoRow(c))
        <4>1. UNCHANGED writerVars
          BY <1>8 DEF QueueUndo
        <4> QED
          BY <3>2, <4>1, <2>1, CreateKeeps
      <3> QED
        BY <1>8, <3>1, <3>2 DEF QueueUndo
    <2>3. BookTypeOK' /\ EnvTypeOK' /\ WriterTypeOK'
      BY <1>8 DEF QueueUndo, SetBook, pilotVars, envVars, writerVars, BookTypeOK,
         EnvTypeOK, WriterTypeOK, BookStates
    <2> QED
      BY <2>2, <2>3
  <1>9. ASSUME NEW o \in Ops, Acknowledge(o)
        PROVE  TypeOK' /\ WorkRecorded'
    BY <1>9 DEF Acknowledge, bookVars, pilotVars, envVars, writerVars, LedgerTypeOK,
       BookTypeOK, EnvTypeOK, WriterTypeOK, WorkRecorded
  <1>10. ASSUME NEW p \in Pilots, PilotStop(p)
         PROVE  TypeOK' /\ WorkRecorded'
    BY <1>10 DEF PilotStop, ledgerVars, bookVars, envVars, writerVars, LedgerTypeOK,
       BookTypeOK, EnvTypeOK, WriterTypeOK, WorkRecorded
  <1> QED
    BY <1>1, <1>2, <1>3, <1>4, <1>5, <1>6, <1>7, <1>8, <1>9, <1>10 DEF Coordinate

LEMMA EnvironmentKeeps ==
  ASSUME TypeOK, WorkRecorded, Environment
  PROVE  TypeOK' /\ WorkRecorded'
  <1> USE DEF TypeOK, ledgerVars, bookVars, pilotVars, writerVars, LedgerTypeOK,
              BookTypeOK, EnvTypeOK, WriterTypeOK, WorkRecorded
  <1>1. ASSUME NEW g \in Guards, Redeploy(g)
        PROVE  TypeOK' /\ WorkRecorded'
    BY <1>1 DEF Redeploy
  <1>2. ASSUME HeartbeatExpires
        PROVE  TypeOK' /\ WorkRecorded'
    BY <1>2 DEF HeartbeatExpires
  <1>3. ASSUME NEW b \in Books, NEW p \in EditedParts, ExternalEdit(b, p)
        PROVE  TypeOK' /\ WorkRecorded'
    BY <1>3, EditsAssumption DEF ExternalEdit, Meta, Val
  <1>4. ASSUME NEW w \in Writers, Crash(w)
        PROVE  TypeOK' /\ WorkRecorded'
    BY <1>4, DoneType DEF Crash, Dies, Goto, envVars, Pcs, WorkPcs, UndoPcs
  <1>5. ASSUME NEW w \in Writers, GuardLost(w)
        PROVE  TypeOK' /\ WorkRecorded'
    BY <1>5 DEF GuardLost, envVars
  <1> QED
    BY <1>1, <1>2, <1>3, <1>4, <1>5 DEF Environment

-----------------------------------------------------------------------------
(* Steps of a writer.                                                      *)

LEMMA CommandSteps ==
  ASSUME TypeOK, WorkRecorded, NEW w \in Writers,
         ClearMissing(w) \/ RunCommand(w) \/ CommandFails(w)
  PROVE  TypeOK' /\ WorkRecorded'
  <1> USE DEF TypeOK, Commanding, CommandRest, ledgerVars, bookVars, pilotVars,
              LedgerTypeOK, BookTypeOK, EnvTypeOK, WriterTypeOK, WorkRecorded
  <1>1. NextPart(w) \in Written /\ NextPart(w) \in Parts
    BY NextPartType DEF Parts
  <1>2. ASSUME Commanding(w), plan[w][NextPart(w)] # Keep
        PROVE  plan[w][NextPart(w)] \in Val
    BY <1>1, <1>2 DEF Plans
  <1>3. Commanding(w) => plan[w][NextPart(w)] # Keep
    BY DEF NextPart, Plans, Done, Written
  <1>4. CASE ClearMissing(w)
    BY <1>4 DEF ClearMissing, NoFault, Meta, Val
  <1>5. CASE RunCommand(w)
    <2>1. plan[w][NextPart(w)] \in Val
      BY <1>5, <1>2, <1>3 DEF RunCommand
    <2>2. live' \in [Books -> Meta]
      BY <1>5, <1>1, <2>1 DEF RunCommand, Meta
    <2>3. plan' \in [Writers -> Plans]
      BY <1>5, <1>1 DEF RunCommand, Plans
    <2> QED
      BY <1>5, <2>2, <2>3 DEF RunCommand, NoFault
  <1>6. CASE CommandFails(w)
    <2>1. plan[w][NextPart(w)] \in Val
      BY <1>6, <1>2, <1>3 DEF CommandFails
    <2>2. live' \in [Books -> Meta]
      <3>1. CASE UNCHANGED live
        BY <3>1
      <3>2. CASE live' = [live EXCEPT ![Book(w)][NextPart(w)] = plan[w][NextPart(w)]]
        BY <3>2, <1>1, <2>1 DEF Meta
      <3> QED
        BY <1>6, <3>1, <3>2 DEF CommandFails
    <2>3. plan' \in [Writers -> Plans]
      BY <1>6, DoneType DEF CommandFails
    <2> QED
      BY <1>6, <2>2, <2>3 DEF CommandFails, Fault
  <1> QED
    BY <1>4, <1>5, <1>6

LEMMA FaultType == ASSUME TypeOK, Fault \/ NoFault PROVE faults' \in Nat
  BY DEF TypeOK, EnvTypeOK, Fault, NoFault

LEMMA FailOperationKeeps ==
  ASSUME TypeOK, WorkRecorded, NEW w \in Writers, pc[w] \in WorkPcs, FailOperation(w),
         change' \in [Ops -> ChangeStates], faults' \in Nat
  PROVE  TypeOK' /\ WorkRecorded'
  <1>1. FailedState(wop[w]) \in OpStates \ {"none"}
    BY FailedStateType DEF TypeOK, WorkRecorded
  <1> QED
    BY <1>1, CloseKeeps DEF FailOperation, OutboxStates, BookStates

\* Processing an apply, up to the first command.
LEMMA ApplyStarts ==
  ASSUME TypeOK, WorkRecorded, NEW w \in Writers,
         \/ Claim(w) \/ Validate(w) \/ Observe(w) \/ Backup(w) \/ BuildTarget(w)
  PROVE  TypeOK' /\ WorkRecorded'
  <1> USE DEF OpStates, Active, Terminal, OutboxStates, BookStates
  <1>1. change \in [Ops -> ChangeStates]
    BY DEF TypeOK, LedgerTypeOK
  <1>2. pc[w] \in WorkPcs => wop[w] \in Ops /\ Live(w) \in Meta
    BY DEF TypeOK, LedgerTypeOK, BookTypeOK, WorkRecorded, Live, Book, Row
  <1>3. CASE Claim(w)
    <2>1. PICK o \in Ops :
            /\ opState' = [opState EXCEPT ![o] = "claimed"]
            /\ outbox'  = [outbox EXCEPT ![o] = "processing"]
            /\ lock'    = [lock EXCEPT ![row[o].book] = o]
            /\ lease'   = [lease EXCEPT ![o] = "active"]
            /\ wop'     = [wop EXCEPT ![w] = o]
            /\ Goto(w, IF row[o].kind = "undo" THEN "undo_check" ELSE "validate")
      BY <1>3 DEF Claim
    <2>2. LedgerTypeOK'
      BY <1>3, <2>1 DEF Claim, TypeOK, LedgerTypeOK, LeaseStates
    <2>5. BookTypeOK' /\ EnvTypeOK'
      BY <1>3 DEF Claim, TypeOK, BookTypeOK, EnvTypeOK, WriterTypeOK, bookVars, pilotVars
    <2>3. WriterTypeOK'
      BY <1>3, <2>1 DEF Claim, Goto, TypeOK, WriterTypeOK, Pcs
    <2>4. WorkRecorded'
      BY <1>3, <2>1 DEF Claim, Goto, TypeOK, LedgerTypeOK, WriterTypeOK, WorkRecorded,
         WorkPcs, UndoPcs, Pcs
    <2> QED
      BY <2>2, <2>3, <2>4, <2>5 DEF TypeOK
  <1>4. CASE Validate(w)
    <2>1. faults' \in Nat
      BY <1>4, FaultType DEF Validate
    <2>2. CASE Close(w, "failed", "failed", "error") /\ UNCHANGED change
      BY <2>1, <2>2, <1>1, CloseKeeps
    <2>3. CASE /\ Goto(w, "observe")
               /\ UNCHANGED <<ledgerVars, bookVars, pilotVars, live, edits, deployed,
                              deploys, hb, api, guard, wop, plan, ok, why, rec,
                              bound, crashes, losses>>
      BY <1>4, <2>1, <2>3 DEF Validate, Loaded, At, Goto, TypeOK, LedgerTypeOK,
         BookTypeOK, EnvTypeOK, WriterTypeOK, WorkRecorded, WorkPcs, UndoPcs, Pcs,
         ledgerVars, bookVars, pilotVars
    <2> QED
      BY <1>4, <2>2, <2>3 DEF Validate
  <1>5. CASE Observe(w)
    <2>1. faults' \in Nat /\ pc[w] = "observe"
      BY <1>5, FaultType DEF Observe, At
    <2>2. pc[w] \in WorkPcs
      BY <2>1 DEF WorkPcs, Pcs
    <2>3. CASE FailOperation(w) /\ UNCHANGED change
      BY <2>1, <2>2, <2>3, <1>1, FailOperationKeeps
    <2>4. CASE Close(w, "failed", "failed", "error") /\ UNCHANGED change
      BY <2>1, <2>4, <1>1, CloseKeeps
    <2>5. CASE Close(w, "failed", "failed", "suggest_fix") /\ UNCHANGED change
      BY <2>1, <2>5, <1>1, CloseKeeps
    <2>6. CASE /\ before'  = [before EXCEPT ![wop[w]] = Live(w)]
               /\ opState' = [opState EXCEPT ![wop[w]] = "writing"]
               /\ Goto(w, "backup")
               /\ UNCHANGED <<row, outbox, lock, lease, backup, change, crun, acked,
                              bstat, guard, wop, plan, ok, why, rec, bound, crashes,
                              losses>>
               /\ OutsideRest
      BY <1>2, <2>1, <2>2, <2>6 DEF Goto, OutsideRest, TypeOK, LedgerTypeOK, BookTypeOK,
         EnvTypeOK, WriterTypeOK, WorkRecorded, WorkPcs, UndoPcs, Pcs, pilotVars
    <2> QED
      BY <1>5, <2>3, <2>4, <2>5, <2>6 DEF Observe
  <1>6. CASE Backup(w)
    <2>1. faults' \in Nat /\ pc[w] = "backup"
      BY <1>6, FaultType DEF Backup, At
    <2>2. pc[w] \in WorkPcs
      BY <2>1 DEF WorkPcs, Pcs
    <2>3. CASE FailOperation(w) /\ UNCHANGED change
      BY <2>1, <2>2, <2>3, <1>1, FailOperationKeeps
    <2>4. CASE /\ backup' = [backup EXCEPT ![wop[w]] = Live(w)]
               /\ crun'   = [crun EXCEPT ![wop[w]] = brun[Book(w)]]
               /\ SetChange(wop[w], "pending_apply")
               /\ Goto(w, "build")
               /\ UNCHANGED <<row, opState, outbox, lock, lease, before, acked, bstat,
                              guard, wop, plan, ok, why, rec, bound, crashes, losses>>
               /\ OutsideRest
      BY <1>2, <2>1, <2>2, <2>4 DEF Goto, SetChange, OutsideRest, TypeOK, LedgerTypeOK,
         BookTypeOK, EnvTypeOK, WriterTypeOK, WorkRecorded, WorkPcs, UndoPcs, Pcs,
         pilotVars, ChangeStates, Book, Row
    <2> QED
      BY <1>6, <2>3, <2>4 DEF Backup
  <1>7. CASE BuildTarget(w)
    <2>1. faults' \in Nat /\ pc[w] = "build"
      BY <1>7, FaultType DEF BuildTarget, At
    <2>2. pc[w] \in WorkPcs /\ "apply" \in WorkPcs /\ "apply" \notin UndoPcs
      BY <2>1 DEF WorkPcs, UndoPcs, Pcs
    <2>3. CASE FailOperation(w) /\ UNCHANGED change
      BY <2>1, <2>2, <2>3, <1>1, FailOperationKeeps
    <2>4. CASE /\ Commands(w, "apply", ApplyPlan(wop[w]))
               /\ UNCHANGED <<ledgerVars, bstat, wop, why>>
               /\ OutsideRest
      <3>1. ApplyPlan(wop[w]) \in Plans
        BY <1>2, <2>2, ApplyPlanType DEF TypeOK
      <3> QED
        BY <3>1, <2>1, <2>2, <2>4, CommandsKeeps DEF TypeOK, LedgerTypeOK, WriterTypeOK,
           ledgerVars
    <2> QED
      BY <1>7, <2>3, <2>4 DEF BuildTarget
  <1> QED
    BY <1>3, <1>4, <1>5, <1>6, <1>7

LEMMA SetChangeType ==
  ASSUME TypeOK, NEW o, NEW s \in ChangeStates, SetChange(o, s)
  PROVE  change' \in [Ops -> ChangeStates]
  BY DEF TypeOK, LedgerTypeOK, SetChange

LEMMA OutcomeType ==
  ASSUME TypeOK, WorkRecorded, NEW w \in Writers, pc[w] \in WorkPcs,
         NEW s \in OpStates \ {"none"}
  PROVE  Outcome(w, s) \in OpStates \ {"none"}
  BY DEF TypeOK, LedgerTypeOK, WorkRecorded, Outcome

\* Where a step moves on without commands and without closing the operation.
LEMMA ChangeSteps ==
  ASSUME TypeOK, WorkRecorded, NEW w \in Writers, ApplyDone(w) \/ RollbackDone(w)
  PROVE  TypeOK' /\ WorkRecorded'
  <1>1. faults' \in Nat
    BY FaultType DEF ApplyDone, RollbackDone
  <1>2. change' \in [Ops -> ChangeStates]
    BY SetChangeType DEF ApplyDone, RollbackDone, ChangeStates
  <1>3. /\ pc[w] \in {"apply", "rollback"}
        /\ Goto(w, "verify") \/ Goto(w, "rolled")
        /\ UNCHANGED <<opState, outbox, lock, bstat, guard, wop, plan, ok, why, rec,
                       bound, crashes, losses>>
        /\ LedgerRest /\ OutsideRest
    BY DEF ApplyDone, RollbackDone, Finished
  <1>4. LedgerTypeOK' /\ BookTypeOK'
    BY <1>2, <1>3 DEF TypeOK, LedgerTypeOK, BookTypeOK, LedgerRest, OutsideRest
  <1>5. EnvTypeOK' /\ WriterTypeOK'
    BY <1>1, <1>3 DEF TypeOK, EnvTypeOK, WriterTypeOK, OutsideRest, Goto, Pcs, pilotVars
  <1>6. WorkRecorded'
    BY <1>3 DEF WorkRecorded, LedgerRest, Goto, TypeOK, LedgerTypeOK, WriterTypeOK,
       WorkPcs, UndoPcs, Pcs
  <1> QED
    BY <1>4, <1>5, <1>6 DEF TypeOK

\* A step that only starts a restore from the artifacts of operation o.
LEMMA RestoreStarts ==
  ASSUME TypeOK, WorkRecorded, NEW w \in Writers, pc[w] \in WorkPcs, NEW l \in WorkPcs,
         l \in UndoPcs => pc[w] \in UndoPcs, NEW o \in Ops, NEW c \in Ops,
         Commands(w, l, RestorePlan(o, c)), UNCHANGED <<ledgerVars, bstat, wop>>,
         why' \in [Writers -> {"target", "files", "closed"}], OutsideRest,
         faults' \in Nat
  PROVE  TypeOK' /\ WorkRecorded'
  <1>1. RestorePlan(o, c) \in Plans
    BY RestorePlanType DEF TypeOK
  <1>2. /\ before' \in [Ops -> Meta] /\ backup' \in [Ops -> Meta]
        /\ opState' \in [Ops -> OpStates] /\ opState' = opState
        /\ UNCHANGED <<row, outbox, lock, lease, change, crun, acked, bstat, wop>>
    BY DEF TypeOK, LedgerTypeOK, ledgerVars
  <1> QED
    BY <1>1, <1>2, CommandsKeeps

\* Rollback, verification and restore of an apply.
LEMMA ApplyEnds ==
  ASSUME TypeOK, WorkRecorded, NEW w \in Writers,
         ApplyFails(w) \/ RolledBack(w) \/ Verify(w) \/ RestoreDone(w)
  PROVE  TypeOK' /\ WorkRecorded'
  <1> USE DEF OpStates, Active, Terminal, OutboxStates, BookStates, ChangeStates
  <1>1. change \in [Ops -> ChangeStates] /\ why \in [Writers -> {"target", "files", "closed"}]
    BY DEF TypeOK, LedgerTypeOK, WriterTypeOK
  <1>2. pc[w] \in WorkPcs => wop[w] \in Ops
    BY DEF WorkRecorded
  <1>3. "rollback" \in WorkPcs \ UndoPcs /\ "restore" \in WorkPcs \ UndoPcs
    BY DEF WorkPcs, UndoPcs, Pcs
  <1>4. pc[w] \in {"apply", "rolled", "verify", "restore"} /\ faults' \in Nat
    BY FaultType DEF ApplyFails, RolledBack, Verify, RestoreDone, Finished, Loaded, At
  <1>5. pc[w] \in WorkPcs
    BY <1>4 DEF WorkPcs, Pcs
  <1>6. CASE ApplyFails(w)
    BY <1>6, <1>1, <1>2, <1>3, <1>4, <1>5, RestoreStarts DEF ApplyFails
  <1>7. CASE RolledBack(w)
    <2>1. CASE Close(w, "restored", "failed", "suggest_fix")
      BY <1>7, <2>1, <1>1, <1>4, CloseKeeps DEF RolledBack
    <2>2. CASE Close(w, "restore_failed", "failed", "error")
      BY <1>7, <2>2, <1>1, <1>4, CloseKeeps DEF RolledBack
    <2> QED
      BY <1>7, <2>1, <2>2 DEF RolledBack
  <1>8. CASE Verify(w)
    <2>1. CASE FailOperation(w) /\ UNCHANGED change
      BY <2>1, <1>1, <1>4, <1>5, FailOperationKeeps
    <2>2. CASE Close(w, "succeeded", "published", "applied") /\ UNCHANGED change
      BY <2>2, <1>1, <1>4, CloseKeeps
    <2>3. CASE /\ why' = [why EXCEPT ![w] = IF FilesVerified(wop[w]) THEN "target" ELSE "files"]
               /\ Commands(w, "restore", RestorePlan(wop[w], wop[w]))
               /\ UNCHANGED <<ledgerVars, bstat, wop>>
               /\ OutsideRest
      <3>1. why' \in [Writers -> {"target", "files", "closed"}]
        BY <1>1, <2>3
      <3> QED
        BY <3>1, <2>3, <1>2, <1>3, <1>4, <1>5, RestoreStarts
    <2> QED
      BY <1>8, <2>1, <2>2, <2>3 DEF Verify
  <1>9. CASE RestoreDone(w)
    <2>1. change' \in [Ops -> ChangeStates]
      BY <1>9, SetChangeType DEF RestoreDone
    <2>2. CASE Close(w, "restored", "failed",
                     IF why[w] = "files" THEN "error" ELSE "suggest_fix")
      BY <2>1, <2>2, <1>4, CloseKeeps
    <2>3. CASE Close(w, Outcome(w, "restore_failed"), "failed", "error")
      <3>1. Outcome(w, "restore_failed") \in OpStates \ {"none"}
        BY <1>5, OutcomeType
      <3> QED
        BY <3>1, <2>1, <2>3, <1>4, CloseKeeps
    <2> QED
      BY <1>9, <2>2, <2>3 DEF RestoreDone
  <1> QED
    BY <1>6, <1>7, <1>8, <1>9

\* Processing an undo.
LEMMA UndoSteps ==
  ASSUME TypeOK, WorkRecorded, NEW w \in Writers,
         UndoCheck(w) \/ UndoDone(w) \/ UndoFails(w) \/ UndoRollbackDone(w)
  PROVE  TypeOK' /\ WorkRecorded'
  <1> USE DEF OpStates, Active, Terminal, OutboxStates, BookStates, ChangeStates
  <1>1. change \in [Ops -> ChangeStates] /\ why \in [Writers -> {"target", "files", "closed"}]
    BY DEF TypeOK, LedgerTypeOK, WriterTypeOK
  <1>2. pc[w] \in UndoPcs /\ faults' \in Nat
    BY FaultType DEF UndoCheck, UndoDone, UndoFails, UndoRollbackDone, Loaded, At, UndoPcs
  <1>3. pc[w] \in WorkPcs
    BY <1>2 DEF WorkPcs, UndoPcs, Pcs
  <1>4. wop[w] \in Ops /\ Undone(w) \in Ops /\ Live(w) \in Meta
    BY <1>2, <1>3 DEF WorkRecorded, Undone, Live, Book, TypeOK, LedgerTypeOK, BookTypeOK, Row
  <1>5. "undo" \in WorkPcs /\ "undo_rollback" \in WorkPcs
    BY DEF WorkPcs, Pcs
  <1>6. CASE UndoCheck(w)
    <2>1. CASE FailOperation(w) /\ UNCHANGED change
      BY <2>1, <1>1, <1>2, <1>3, FailOperationKeeps
    <2>2. CASE Close(w, "failed", "failed", "error") /\ UNCHANGED change
      BY <2>2, <1>1, <1>2, CloseKeeps
    <2>3. CASE Close(w, "failed", "failed", "applied") /\ UNCHANGED change
      BY <2>3, <1>1, <1>2, CloseKeeps
    <2>4. CASE /\ before'  = [before EXCEPT ![wop[w]] = Live(w)]
               /\ backup'  = [backup EXCEPT ![wop[w]] = Live(w)]
               /\ opState' = [opState EXCEPT ![wop[w]] = "writing"]
               /\ Commands(w, "undo", RestorePlan(Undone(w), Undone(w)))
               /\ UNCHANGED <<row, outbox, lock, lease, change, crun, acked, bstat,
                              wop, why>>
               /\ OutsideRest
      <3>1. RestorePlan(Undone(w), Undone(w)) \in Plans
        BY <1>4, RestorePlanType DEF TypeOK
      <3>2. /\ before' \in [Ops -> Meta] /\ backup' \in [Ops -> Meta]
            /\ opState' \in [Ops -> OpStates]
            /\ \A o \in Ops : opState[o] # "none" => opState'[o] # "none"
        BY <2>4, <1>4 DEF TypeOK, LedgerTypeOK
      <3> QED
        BY <3>1, <3>2, <2>4, <1>1, <1>2, <1>3, <1>5, CommandsKeeps
    <2> QED
      BY <1>6, <2>1, <2>2, <2>3, <2>4 DEF UndoCheck
  <1>7. CASE UndoDone(w)
    <2>1. CASE FailOperation(w) /\ UNCHANGED change
      BY <2>1, <1>1, <1>2, <1>3, FailOperationKeeps
    <2>2. CASE /\ SetChange(Undone(w), "undone")
               /\ Close(w, "succeeded", "published", "suggest_fix")
      <3>1. change' \in [Ops -> ChangeStates]
        BY <2>2, SetChangeType
      <3> QED
        BY <3>1, <2>2, <1>2, CloseKeeps
    <2> QED
      BY <1>7, <2>1, <2>2 DEF UndoDone
  <1>8. CASE UndoFails(w)
    BY <1>8, <1>1, <1>2, <1>3, <1>4, <1>5, RestoreStarts DEF UndoFails
  <1>9. CASE UndoRollbackDone(w)
    <2>1. CASE Close(w, "restored", "failed", "applied")
      BY <1>9, <2>1, <1>1, <1>2, CloseKeeps DEF UndoRollbackDone
    <2>2. CASE Close(w, Outcome(w, "restore_failed"), "failed", "error")
      <3>1. Outcome(w, "restore_failed") \in OpStates \ {"none"}
        BY <1>3, OutcomeType
      <3> QED
        BY <1>9, <3>1, <2>2, <1>1, <1>2, CloseKeeps DEF UndoRollbackDone
    <2> QED
      BY <1>9, <2>1, <2>2 DEF UndoRollbackDone
  <1> QED
    BY <1>6, <1>7, <1>8, <1>9

\* Visiting an interrupted operation.
LEMMA VisitSteps ==
  ASSUME TypeOK, WorkRecorded, NEW w \in Writers, ReconcileApply(w) \/ ReconcileUndo(w)
  PROVE  TypeOK' /\ WorkRecorded'
  <1> USE DEF OpStates, Active, Terminal, OutboxStates, BookStates, ChangeStates
  <1>1. change \in [Ops -> ChangeStates] /\ why \in [Writers -> {"target", "files", "closed"}]
    BY DEF TypeOK, LedgerTypeOK, WriterTypeOK
  <1>2. pc[w] \in {"visit", "visit_undo"} /\ faults' \in Nat
    BY FaultType DEF ReconcileApply, ReconcileUndo, At
  <1>3. pc[w] \in WorkPcs
    BY <1>2 DEF WorkPcs, Pcs
  <1>4. wop[w] \in Ops /\ (pc[w] = "visit_undo" => Undone(w) \in Ops)
    BY <1>3 DEF WorkRecorded, Undone, UndoPcs, TypeOK, LedgerTypeOK, Row
  <1>5. "restore" \in WorkPcs \ UndoPcs /\ "undo_rollback" \in WorkPcs
        /\ "visit_undo" \in UndoPcs
    BY DEF WorkPcs, UndoPcs, Pcs
  <1>6. Outcome(w, "unknown") \in OpStates \ {"none"}
    BY <1>3, OutcomeType
  <1>7. ASSUME NEW s \in ChangeStates, FollowChange(wop[w], s)
        PROVE  change' \in [Ops -> ChangeStates]
    BY <1>7, <1>1, SetChangeType DEF FollowChange
  <1>8. CASE ReconcileApply(w)
    <2>1. CASE /\ Close(w, Outcome(w, "unknown"), "failed", "error")
               /\ FollowChange(wop[w], "failed_rollback_failed") \/ UNCHANGED change
      <3>1. change' \in [Ops -> ChangeStates]
        BY <2>1, <1>1, <1>7
      <3> QED
        BY <3>1, <2>1, <1>2, <1>6, CloseKeeps
    <2>2. CASE /\ Close(w, "succeeded", "published", "applied")
               /\ FollowChange(wop[w], "applied")
      <3>1. change' \in [Ops -> ChangeStates]
        BY <2>2, <1>7
      <3> QED
        BY <3>1, <2>2, <1>2, CloseKeeps
    <2>3. CASE /\ Close(w, "restored", "failed", "suggest_fix")
               /\ FollowChange(wop[w], "failed_rolled_back")
      <3>1. change' \in [Ops -> ChangeStates]
        BY <2>3, <1>7
      <3> QED
        BY <3>1, <2>3, <1>2, CloseKeeps
    <2>4. CASE /\ why' = [why EXCEPT ![w] = IF why[w] = "closed" THEN "closed"
                             ELSE IF FilesVerified(wop[w]) THEN "target" ELSE "files"]
               /\ Commands(w, "restore", RestorePlan(wop[w], wop[w]))
               /\ UNCHANGED <<ledgerVars, bstat, wop>>
               /\ OutsideRest
      <3>1. why' \in [Writers -> {"target", "files", "closed"}]
        BY <1>1, <2>4
      <3> QED
        BY <3>1, <2>4, <1>2, <1>3, <1>4, <1>5, RestoreStarts
    <2> QED
      BY <1>8, <2>1, <2>2, <2>3, <2>4 DEF ReconcileApply
  <1>9. CASE ReconcileUndo(w)
    <2>1. CASE Close(w, Outcome(w, "unknown"), "failed", "error") /\ UNCHANGED change
      BY <2>1, <1>1, <1>2, <1>6, CloseKeeps
    <2>2. CASE /\ Close(w, "succeeded", "published", "suggest_fix")
               /\ SetChange(Undone(w), "undone")
      <3>1. change' \in [Ops -> ChangeStates]
        BY <2>2, SetChangeType
      <3> QED
        BY <3>1, <2>2, <1>2, CloseKeeps
    <2>3. CASE Close(w, "restored", "failed", "applied") /\ UNCHANGED change
      BY <2>3, <1>1, <1>2, CloseKeeps
    <2>4. CASE /\ Commands(w, "undo_rollback", RestorePlan(wop[w], Undone(w)))
               /\ UNCHANGED <<ledgerVars, bstat, wop, why>>
               /\ OutsideRest
      <3>1. pc[w] = "visit_undo"
        BY <1>9 DEF ReconcileUndo, At
      <3> QED
        BY <3>1, <2>4, <1>1, <1>2, <1>3, <1>4, <1>5, RestoreStarts
    <2> QED
      BY <1>9, <2>1, <2>2, <2>3, <2>4 DEF ReconcileUndo
  <1> QED
    BY <1>8, <1>9

\* Listing and releasing interrupted operations, and the ends of a process.
LEMMA RestartSteps ==
  ASSUME TypeOK, WorkRecorded, NEW w \in Writers,
         \/ Start(w) \/ ReconcileEnds(w) \/ Poll(w)
         \/ \E o \in Ops : ReconcileClaimed(w, o) \/ ReconcileNoEvidence(w, o) \/ Visit(w, o)
         \/ TransitionRaises(w) \/ ExitUnfenced(w)
  PROVE  TypeOK' /\ WorkRecorded'
  <1> USE DEF Active, Terminal
  <1>1. CASE Start(w)
    BY <1>1 DEF Start, Goto, ledgerVars, bookVars, pilotVars, envVars, TypeOK, LedgerTypeOK,
       BookTypeOK, EnvTypeOK, WriterTypeOK, WorkRecorded, WorkPcs, UndoPcs, Pcs
  <1>2. CASE ReconcileEnds(w)
    BY <1>2 DEF ReconcileEnds, Goto, ledgerVars, bookVars, pilotVars, envVars, TypeOK,
       LedgerTypeOK, BookTypeOK, EnvTypeOK, WriterTypeOK, WorkRecorded, WorkPcs, UndoPcs, Pcs
  <1>3. CASE Poll(w)
    BY <1>3 DEF Poll, ledgerVars, bookVars, pilotVars, writerVars, TypeOK, LedgerTypeOK,
       BookTypeOK, EnvTypeOK, WriterTypeOK, WorkRecorded
  <1>4. ASSUME NEW o \in Ops, ReconcileClaimed(w, o)
        PROVE  TypeOK' /\ WorkRecorded'
    <2>1. LedgerTypeOK' /\ row' = row
      BY <1>4 DEF ReconcileClaimed, Finish, ledgerVars, TypeOK, LedgerTypeOK, OpStates,
         OutboxStates, LeaseStates
    <2>2. BookTypeOK' /\ EnvTypeOK' /\ WriterTypeOK'
      BY <1>4 DEF ReconcileClaimed, bookVars, pilotVars, envVars, TypeOK, BookTypeOK,
         EnvTypeOK, WriterTypeOK
    <2>3. \A p \in Ops : opState[p] # "none" => opState'[p] # "none"
      BY <1>4 DEF ReconcileClaimed, Finish, ledgerVars, TypeOK, LedgerTypeOK
    <2>4. WorkRecorded'
      BY <1>4, <2>1, <2>3 DEF ReconcileClaimed, TypeOK, WriterTypeOK, WorkRecorded
    <2> QED
      BY <2>1, <2>2, <2>4 DEF TypeOK
  <1>5. ASSUME NEW o \in Ops, ReconcileNoEvidence(w, o)
        PROVE  TypeOK' /\ WorkRecorded'
    <2>1. LedgerTypeOK' /\ row' = row
      BY <1>5 DEF ReconcileNoEvidence, Finish, LedgerRest, TypeOK, LedgerTypeOK, OpStates,
         OutboxStates
    <2>2. BookTypeOK' /\ EnvTypeOK' /\ WriterTypeOK'
      BY <1>5 DEF ReconcileNoEvidence, SetBook, OutsideRest, pilotVars, TypeOK, BookTypeOK,
         EnvTypeOK, WriterTypeOK, BookStates
    <2>3. \A p \in Ops : opState[p] # "none" => opState'[p] # "none"
      BY <1>5 DEF ReconcileNoEvidence, Finish, TypeOK, LedgerTypeOK
    <2>4. WorkRecorded'
      BY <1>5, <2>1, <2>3 DEF ReconcileNoEvidence, TypeOK, WriterTypeOK, WorkRecorded
    <2> QED
      BY <2>1, <2>2, <2>4 DEF TypeOK
  <1>6. ASSUME NEW o \in Ops, Visit(w, o)
        PROVE  TypeOK' /\ WorkRecorded'
    BY <1>6 DEF Visit, At, Goto, ledgerVars, bookVars, pilotVars, envVars, TypeOK,
       LedgerTypeOK, BookTypeOK, EnvTypeOK, WriterTypeOK, WorkRecorded, WorkPcs, UndoPcs, Pcs
  <1>7. CASE TransitionRaises(w)
    <2>1. pc[w] \in WorkPcs /\ faults' \in Nat /\ change' \in [Ops -> ChangeStates]
      BY <1>7, FaultType DEF TransitionRaises, LoadPcs, WorkPcs, Pcs, TypeOK, LedgerTypeOK
    <2> QED
      BY <1>7, <2>1, FailOperationKeeps DEF TransitionRaises
  <1>8. CASE ExitUnfenced(w)
    <2>1. WriterTypeOK' /\ EnvTypeOK'
      BY <1>8, DoneType DEF ExitUnfenced, Dies, Goto, TypeOK, WriterTypeOK, EnvTypeOK, Pcs,
         pilotVars, envVars
    <2>2. live' = live /\ row' = row
      BY <1>8 DEF ExitUnfenced, Dies, LedgerRest, ledgerVars
    <2>3. /\ LedgerTypeOK' /\ BookTypeOK'
          /\ \A p \in Ops : opState[p] # "none" => opState'[p] # "none"
      <3>1. CASE UNCHANGED <<ledgerVars, bookVars>>
        BY <3>1, <2>2 DEF ledgerVars, bookVars, TypeOK, LedgerTypeOK, BookTypeOK
      <3>2. CASE /\ wop[w] # NoOp
                 /\ Finish(wop[w], FailedState(wop[w]), "failed")
                 /\ SetBook(wop[w], "error")
                 /\ LedgerRest /\ UNCHANGED <<change, brun, snap, flocks, auth>>
        <4>1. wop[w] \in Ops
          BY <3>2 DEF TypeOK, WriterTypeOK
        <4>2. FailedState(wop[w]) \in OpStates
              /\ (opState[wop[w]] # "none" => FailedState(wop[w]) # "none")
          BY <4>1 DEF FailedState, TypeOK, LedgerTypeOK, OpStates
        <4> QED
          BY <3>2, <4>1, <4>2, <2>2 DEF Finish, SetBook, LedgerRest, TypeOK, LedgerTypeOK,
             BookTypeOK, OutboxStates, BookStates
      <3> QED
        BY <1>8, <3>1, <3>2 DEF ExitUnfenced
    <2>4. WorkRecorded'
      BY <1>8, <2>2, <2>3 DEF ExitUnfenced, Dies, Goto, WorkRecorded, TypeOK, LedgerTypeOK,
         WriterTypeOK, WorkPcs, UndoPcs, Pcs
    <2> QED
      BY <2>1, <2>3, <2>4 DEF TypeOK
  <1> QED
    BY <1>1, <1>2, <1>3, <1>4, <1>5, <1>6, <1>7, <1>8

-----------------------------------------------------------------------------
(* Type correctness.                                                       *)

LEMMA InitTyped == Init => TypeOK /\ WorkRecorded
  <1> SUFFICES ASSUME Init PROVE TypeOK /\ WorkRecorded
    OBVIOUS
  <1>1. LedgerTypeOK
    BY BlankRowType, UnsetType DEF Init, LedgerTypeOK, OpStates, OutboxStates, LeaseStates,
       ChangeStates
  <1>2. BookTypeOK
    BY UnsetType DEF Init, BookTypeOK, BookStates
  <1>3. (CHOOSE r \in Releases : TRUE) \in Releases
    BY PilotsAssumption
  <1>4. EnvTypeOK
    BY <1>3 DEF Init, EnvTypeOK
  <1>5. WriterTypeOK
    BY DoneType DEF Init, WriterTypeOK, Pcs
  <1>6. WorkRecorded
    BY DEF Init, WorkRecorded, BlankRow, WorkPcs, UndoPcs, Pcs
  <1> QED
    BY <1>1, <1>2, <1>4, <1>5, <1>6 DEF TypeOK

LEMMA NextTyped == TypeOK /\ WorkRecorded /\ [Next]_vars => TypeOK' /\ WorkRecorded'
  <1> SUFFICES ASSUME TypeOK, WorkRecorded, [Next]_vars
               PROVE  TypeOK' /\ WorkRecorded'
    OBVIOUS
  <1>1. CASE Coordinate
    BY <1>1, CoordinateKeeps
  <1>2. CASE Environment
    BY <1>2, EnvironmentKeeps
  <1>3. ASSUME NEW w \in Writers, WriterStep(w) \/ Start(w) \/ Poll(w)
        PROVE  TypeOK' /\ WorkRecorded'
    BY <1>3, CommandSteps, ApplyStarts, ChangeSteps, ApplyEnds, UndoSteps, VisitSteps,
       RestartSteps DEF WriterStep
  <1>4. ASSUME NEW o \in Ops, LeaseExpires(o)
        PROVE  TypeOK' /\ WorkRecorded'
    BY <1>4 DEF LeaseExpires, bookVars, pilotVars, envVars, writerVars, TypeOK, LedgerTypeOK,
       BookTypeOK, EnvTypeOK, WriterTypeOK, WorkRecorded, LeaseStates
  <1>5. CASE UNCHANGED vars
    BY <1>5 DEF vars, ledgerVars, bookVars, pilotVars, envVars, writerVars, TypeOK,
       LedgerTypeOK, BookTypeOK, EnvTypeOK, WriterTypeOK, WorkRecorded
  <1> QED
    BY <1>1, <1>2, <1>3, <1>4, <1>5 DEF Next

\* Every variable stays in its domain, and no process ever works on an
\* operation the ledger does not have, whatever crashes, fails or is lost.
THEOREM TypeCorrect == Spec => [](TypeOK /\ WorkRecorded)
  BY InitTyped, NextTyped, PTL DEF Spec
=============================================================================
