-------------------------- MODULE ApplyChangeProofs --------------------------
(***************************************************************************)
(* As long as no writer loses the connection that fences it: one apply at  *)
(* a time, change rows that tell how each write ended, and a library that  *)
(* holds what the change rows say. For every number of books, operations,  *)
(* requests, crashes and failing commands.                                 *)
(***************************************************************************)
EXTENDS ApplyLedgerProofs, ApplyUnfencedProofs

\* An apply proposes something, and nothing that the book had when it was sealed.
Proposes(r) == r.patch # {} /\ \A p \in r.patch : r.expect[p] # "new"

RowsHold ==
    /\ \A o \in Ops : opState[o] = "none" => row[o].kind = "none"
    /\ \A o \in Ops : opState[o] # "none" => row[o].kind # "none"
    /\ \A o \in Ops : row[o].kind = "apply" => Proposes(row[o])
    /\ \A q \in Requests : \A r \in api[q] : Proposes(r)

\* Applies are reserved one after the other: whatever is older has an outcome.
InOrder ==
    \A o, p \in Ops : p < o /\ row[o].kind = "apply" => opState[p] \in Terminal

\* An undo names an older apply of its book.
UndosHold ==
    \A o \in Ops : row[o].kind = "undo" =>
        /\ row[o].change \in Ops /\ row[o].change < o
        /\ row[row[o].change].kind = "apply"
        /\ row[row[o].change].book = row[o].book

\* What the change row of an apply is in each state of its operation.
ChangeOf(o) ==
    /\ opState[o] \in {"none", "requested", "claimed", "failed"} => change[o] = "none"
    /\ opState[o] = "succeeded" =>
          \/ change[o] \in {"applied", "undone"}
          \/ change[o] = "none" /\ row[o].patch = {"cover"}
    /\ opState[o] = "restored" => change[o] \in {"none", "failed_rolled_back"}
    /\ opState[o] = "restore_failed" => change[o] = "failed_rollback_failed"
    /\ opState[o] = "writing" /\ change[o] = "none" =>
          \A p \in row[o].patch \ {"cover"} : live[row[o].book][p] # "new"

ChangesHold ==
    \A o \in Ops :
        /\ row[o].kind = "apply" => ChangeOf(o)
        /\ row[o].kind # "apply" => change[o] = "none"
        /\ row[o].kind = "undo" /\ opState[o] = "writing" =>
              change[row[o].change] = "applied"

\* Where the process is tells the status of the change row.
StatusAt(l) ==
    CASE l = "backup" -> {"none"}
      [] l \in {"build", "apply", "rollback"} -> {"pending_apply"}
      [] l = "rolled" -> {"failed_rolled_back", "failed_rollback_failed"}
      [] l = "verify" -> {"applied"}
      [] l = "restore" -> ChangeStates \ {"none"}
      [] OTHER -> ChangeStates

WorkHolds ==
    \A w \in Writers : pc[w] \in WorkPcs \ UndoPcs =>
        row[wop[w]].kind = "apply" /\ change[wop[w]] \in StatusAt(pc[w])

Records == RowsHold /\ InOrder /\ UndosHold /\ ChangesHold /\ WorkHolds

\* What every step may assume.
Ready == Fenced /\ Known /\ Records

-----------------------------------------------------------------------------
(* Facts about fenced states.                                              *)

\* Only the owner of the lock is alive, and its operation holds its book.
LEMMA OneAlive ==
  ASSUME Fenced, NEW w \in Writers, pc[w] # "down"
  PROVE  guard = w /\ \A v \in Writers : v # w => pc[v] = "down"
  BY DEF Fenced, WriterAgrees

LEMMA Holder ==
  ASSUME Fenced, NEW w \in Writers, pc[w] \in WorkPcs
  PROVE  /\ wop[w] \in Ops /\ guard = w
         /\ opState[wop[w]] = IF pc[w] \in ClaimedPcs THEN "claimed" ELSE "writing"
         /\ \A x \in Ops : opState[x] \in Active /\ row[x].book = row[wop[w]].book
                             => x = wop[w]
  BY DEF Fenced, WorkRecorded, WriterAgrees, LedgerAgrees, WorkPcs, Active

\* Two operations in progress are about different books.
LEMMA LocksExclude ==
  ASSUME Fenced, NEW x \in Ops, NEW y \in Ops, opState[x] \in Active, opState[y] \in Active,
         row[x].book = row[y].book
  PROVE  x = y
  BY DEF Fenced, LedgerAgrees

\* Only the commands of a process and the owner of the library change a book.
LEMMA LiveSteps ==
  ASSUME TypeOK, [Next]_vars
  PROVE  \/ live' = live
         \/ /\ edits' # edits
            /\ \A b \in Books : \A p \in Parts : live'[b][p] \in {live[b][p], "ext"}
         \/ \E w \in Writers : ClearMissing(w) \/ RunCommand(w) \/ CommandFails(w)
  <1> USE DEF OutsideRest, Close, FailOperation, Dies
  <1>1. CASE Coordinate
    BY <1>1 DEF Coordinate, RecordPackage, Authorize, LockField, Review, LoadRequest,
       Reserve, RejectRequest, QueueUndo, Acknowledge, PilotStop
  <1>2. CASE Environment
    <2>1. ASSUME NEW b \in Books, NEW p \in EditedParts, ExternalEdit(b, p)
          PROVE  /\ edits' # edits
                 /\ \A c \in Books : \A x \in Parts : live'[c][x] \in {live[c][x], "ext"}
      BY <2>1, EditsAssumption DEF ExternalEdit, TypeOK, BookTypeOK, EnvTypeOK, Meta
    <2> QED
      BY <1>2, <2>1 DEF Environment, Redeploy, HeartbeatExpires, Crash, GuardLost
  <1>3. ASSUME NEW w \in Writers, Start(w) \/ Poll(w)
        PROVE  live' = live
    BY <1>3 DEF Start, Poll
  <1>4. ASSUME NEW w \in Writers, WriterStep(w)
        PROVE  live' = live \/ ClearMissing(w) \/ RunCommand(w) \/ CommandFails(w)
    <2>1. CASE Claim(w) \/ Validate(w) \/ Observe(w) \/ Backup(w) \/ BuildTarget(w)
      BY <2>1 DEF Claim, Validate, Observe, Backup, BuildTarget
    <2>2. CASE \/ ApplyDone(w) \/ ApplyFails(w) \/ RollbackDone(w) \/ RolledBack(w)
               \/ Verify(w) \/ RestoreDone(w)
      BY <2>2 DEF ApplyDone, ApplyFails, RollbackDone, RolledBack, Verify, RestoreDone
    <2>3. CASE UndoCheck(w) \/ UndoDone(w) \/ UndoFails(w) \/ UndoRollbackDone(w)
      BY <2>3 DEF UndoCheck, UndoDone, UndoFails, UndoRollbackDone
    <2>4. CASE ReconcileEnds(w) \/ ReconcileApply(w) \/ ReconcileUndo(w)
      BY <2>4 DEF ReconcileEnds, ReconcileApply, ReconcileUndo
    <2>5. CASE \/ \E o \in Ops : ReconcileClaimed(w, o) \/ ReconcileNoEvidence(w, o)
                                  \/ Visit(w, o)
               \/ TransitionRaises(w) \/ ExitUnfenced(w)
      BY <2>5 DEF ReconcileClaimed, ReconcileNoEvidence, Visit, TransitionRaises,
         ExitUnfenced
    <2> QED
      BY <1>4, <2>1, <2>2, <2>3, <2>4, <2>5 DEF WriterStep
  <1>5. CASE (\E o \in Ops : LeaseExpires(o)) \/ UNCHANGED vars
    BY <1>5 DEF LeaseExpires, vars
  <1> QED
    BY <1>1, <1>2, <1>3, <1>4, <1>5 DEF Next

\* The commands of a process change no other book than that of its operation.
LEMMA CommandBook ==
  ASSUME TypeOK, NEW w \in Writers, ClearMissing(w) \/ RunCommand(w) \/ CommandFails(w)
  PROVE  /\ Commanding(w)
         /\ \A b \in Books : b # Book(w) => live'[b] = live[b]
  BY DEF TypeOK, BookTypeOK, ClearMissing, RunCommand, CommandFails

\* A write without a change row: nobody writes to its book.
Calm ==
    \A x \in Ops :
        row[x].kind = "apply" /\ opState[x] = "writing" /\ change[x] = "none" =>
            \A p \in row[x].patch \ {"cover"} : live'[row[x].book][p] # "new"

LEMMA StepCalm ==
  ASSUME Ready, [Next]_vars
  PROVE  Calm
  <1> SUFFICES ASSUME NEW x \in Ops, row[x].kind = "apply", opState[x] = "writing",
                      change[x] = "none", NEW p \in row[x].patch \ {"cover"}
               PROVE  live'[row[x].book][p] # "new"
    BY DEF Calm
  <1>1. TypeOK /\ row[x].book \in Books /\ p \in Parts
    BY DEF Ready, Fenced, TypeOK, LedgerTypeOK, Row, Parts
  <1>2. live[row[x].book][p] # "new"
    BY DEF Ready, Records, ChangesHold, ChangeOf
  <1>3. ASSUME NEW w \in Writers, ClearMissing(w) \/ RunCommand(w) \/ CommandFails(w)
        PROVE  live'[row[x].book] = live[row[x].book]
    <2> SUFFICES ASSUME Book(w) = row[x].book PROVE FALSE
      BY <1>1, <1>3, CommandBook
    <2>1. pc[w] \in CommandPcs /\ pc[w] \in WorkPcs
      BY <1>1, <1>3, CommandBook DEF Commanding, CommandPcs, WorkPcs, Pcs
    <2>2. wop[w] = x
      BY <2>1, Holder DEF Ready, Book, Active
    <2>3. pc[w] \notin UndoPcs
      BY <2>1, <2>2 DEF Ready, Known, WorkRecorded
    <2>4. change[x] \in StatusAt(pc[w])
      BY <2>1, <2>2, <2>3 DEF Ready, Records, WorkHolds
    <2> QED
      BY <2>1, <2>3, <2>4 DEF StatusAt, CommandPcs, UndoPcs
  <1> QED
    BY <1>1, <1>2, <1>3, LiveSteps

-----------------------------------------------------------------------------
(* Rows.                                                                   *)

\* Writers start work only on operations of the ledger.
LEMMA WritersStartNothing ==
  ASSUME Known, NEW w \in Writers, WriterStep(w) \/ Start(w) \/ Poll(w),
         NEW o \in Ops, opState[o] = "none"
  PROVE  opState'[o] = "none"
  <1>0. opState \in [Ops -> OpStates]
    BY DEF Known, TypeOK, LedgerTypeOK
  <1>1. ASSUME NEW s, NEW e, NEW b, Close(w, s, e, b), pc[w] \in WorkPcs
        PROVE  opState'[o] = "none"
    BY <1>0, <1>1 DEF Close, Finish, Known, WorkRecorded
  <1>2. ASSUME FailOperation(w), pc[w] \in WorkPcs
        PROVE  opState'[o] = "none"
    BY <1>1, <1>2 DEF FailOperation
  <1>3. \A l \in Pcs \ {"down", "reconcile", "idle"} : pc[w] = l => pc[w] \in WorkPcs
    BY DEF WorkPcs
  <1> USE DEF ledgerVars, At, Loaded, Pcs
  <1>4. CASE \/ ClearMissing(w) \/ RunCommand(w) \/ CommandFails(w) \/ Poll(w) \/ Start(w)
             \/ ApplyDone(w) \/ ApplyFails(w) \/ RollbackDone(w) \/ ReconcileEnds(w)
             \/ UndoFails(w) \/ \E x \in Ops : Visit(w, x)
    BY <1>4 DEF ClearMissing, RunCommand, CommandFails, CommandRest, Poll, Start, ApplyDone,
       ApplyFails, RollbackDone, ReconcileEnds, UndoFails, Visit
  <1>5. CASE Claim(w) \/ \E x \in Ops : ReconcileClaimed(w, x) \/ ReconcileNoEvidence(w, x)
    BY <1>0, <1>5 DEF Claim, ReconcileClaimed, ReconcileNoEvidence, Finish, FirstPending,
       Known, Holds, EventsHold
  <1>6. CASE Validate(w) \/ Backup(w) \/ BuildTarget(w)
    BY <1>1, <1>2, <1>3, <1>6 DEF Validate, Backup, BuildTarget
  <1>7. CASE Observe(w) \/ UndoCheck(w)
    BY <1>0, <1>1, <1>2, <1>3, <1>7 DEF Observe, UndoCheck, Known, WorkRecorded
  <1>8. CASE RolledBack(w) \/ Verify(w) \/ RestoreDone(w)
    BY <1>1, <1>2, <1>3, <1>8 DEF RolledBack, Verify, RestoreDone
  <1>9. CASE UndoDone(w) \/ UndoRollbackDone(w)
    BY <1>1, <1>2, <1>3, <1>9 DEF UndoDone, UndoRollbackDone
  <1>10. CASE ReconcileApply(w) \/ ReconcileUndo(w)
    BY <1>1, <1>3, <1>10 DEF ReconcileApply, ReconcileUndo
  <1>11. CASE TransitionRaises(w)
    BY <1>2, <1>3, <1>11 DEF TransitionRaises, LoadPcs
  <1>12. CASE ExitUnfenced(w)
    BY <1>0, <1>12 DEF ExitUnfenced, Finish, FailedState
  <1> QED
    BY <1>4, <1>5, <1>6, <1>7, <1>8, <1>9, <1>10, <1>11, <1>12 DEF WriterStep

\* An outcome is final.
LEMMA OutcomesFinal ==
  ASSUME TypeOK, LifeStep, NEW o \in Ops, opState[o] \in Terminal
  PROVE  opState'[o] = opState[o]
  <1>1. CASE UNCHANGED Life!lifecycle
    BY <1>1 DEF Life!lifecycle
  <1>2. CASE Life!LifeNext
    BY <1>2 DEF TypeOK, LedgerTypeOK, Terminal, Life!LifeNext, Life!Request, Life!Take,
       Life!Release, Life!Refuse, Life!Write, Life!Resolve, Life!Move
  <1> QED
    BY <1>1, <1>2 DEF LifeStep

\* Steps that create nothing.
LEMMA SameRows ==
  ASSUME Ready, Steady, LifeStep, row' = row,
         \A q \in Requests : \A r \in api'[q] : Proposes(r),
         \A o \in Ops : opState[o] = "none" => opState'[o] = "none"
  PROVE  RowsHold' /\ InOrder' /\ UndosHold'
  <1>1. RowsHold'
    BY DEF Ready, Records, RowsHold, Proposes, Steady
  <1>2. InOrder'
    BY OutcomesFinal DEF Ready, Records, InOrder, Fenced
  <1>3. UndosHold'
    BY DEF Ready, Records, UndosHold
  <1> QED
    BY <1>1, <1>2, <1>3

\* A row is added behind the others.
LEMMA NewRow ==
  ASSUME Ready, Steady, LifeStep, NEW r, CreateOperation(r), r.kind \in {"apply", "undo"},
         r.kind = "apply" => Proposes(r) /\ \A o \in Ops : ~Nonterminal(o),
         r.kind = "undo" =>
            /\ r.change \in Ops /\ opState[r.change] # "none"
            /\ row[r.change].kind = "apply" /\ row[r.change].book = r.book,
         \A q \in Requests : \A x \in api'[q] : Proposes(x)
  PROVE  RowsHold' /\ InOrder' /\ UndosHold'
  <1>1. PICK n \in Ops :
          /\ opState[n] = "none"
          /\ \A p \in Ops : p < n => opState[p] # "none"
          /\ row'     = [row EXCEPT ![n] = r]
          /\ opState' = [opState EXCEPT ![n] = "requested"]
    BY DEF CreateOperation
  <1>0. row \in [Ops -> Row] /\ opState \in [Ops -> OpStates]
    BY DEF Ready, Fenced, TypeOK, LedgerTypeOK
  <1>2. RowsHold'
    BY <1>0, <1>1 DEF Ready, Records, RowsHold, Proposes
  <1>3. ASSUME NEW o \in Ops, row[o].kind = "apply"
        PROVE  o < n
    <2>1. o # n
      BY <1>1, <1>3 DEF Ready, Records, RowsHold
    <2>2. ~(n < o)
      BY <1>1, <1>3 DEF Ready, Records, InOrder, Terminal
    <2> QED
      BY <2>1, <2>2, MaxOpsAssumption DEF Ops
  <1>4. InOrder'
    <2> SUFFICES ASSUME NEW o \in Ops, NEW p \in Ops, p < o, row'[o].kind = "apply"
                 PROVE  opState'[p] \in Terminal
      BY DEF InOrder
    <2>1. CASE o = n
      <3>1. opState[p] \in Terminal
        BY <1>0, <1>1, <2>1 DEF Nonterminal, OpStates
      <3> QED
        BY <3>1, OutcomesFinal DEF Ready, Fenced
    <2>2. CASE o # n
      <3>1. opState[p] \in Terminal
        BY <1>0, <1>1, <2>2 DEF Ready, Records, InOrder
      <3> QED
        BY <3>1, OutcomesFinal DEF Ready, Fenced
    <2> QED
      BY <2>1, <2>2
  <1>5. UndosHold'
    <2> SUFFICES ASSUME NEW o \in Ops, row'[o].kind = "undo"
                 PROVE  /\ row'[o].change \in Ops /\ row'[o].change < o
                        /\ row'[row'[o].change].kind = "apply"
                        /\ row'[row'[o].change].book = row'[o].book
      BY DEF UndosHold
    <2>1. CASE o = n
      <3>1. row'[o] = r /\ r.change # n
        BY <1>0, <1>1, <2>1
      <3>2. r.change < n
        BY <1>0, <1>1, <1>3, <2>1, <3>1
      <3> QED
        BY <1>0, <1>1, <2>1, <3>1, <3>2
    <2>2. CASE o # n
      <3>1. row'[o] = row[o] /\ row[o].change \in Ops /\ row[row[o].change].kind = "apply"
        BY <1>0, <1>1, <2>2 DEF Ready, Records, UndosHold
      <3>2. row[o].change # n
        BY <1>1, <3>1 DEF Ready, Records, RowsHold
      <3> QED
        BY <1>0, <1>1, <2>2, <3>1, <3>2 DEF Ready, Records, UndosHold
    <2> QED
      BY <2>1, <2>2
  <1> QED
    BY <1>2, <1>4, <1>5

LEMMA RowsStep ==
  ASSUME Ready, Steady, LifeStep, [Next]_vars
  PROVE  RowsHold' /\ InOrder' /\ UndosHold'
  <1> DEFINE Goal == RowsHold' /\ InOrder' /\ UndosHold'
  <1>0. /\ row \in [Ops -> Row] /\ opState \in [Ops -> OpStates] /\ snap \in [Books -> Meta]
        /\ api \in [Requests -> SUBSET LoadedRows]
        /\ \A q \in Requests : \A r \in api[q] : Proposes(r)
    BY DEF Ready, Records, RowsHold, Fenced, TypeOK, LedgerTypeOK, EnvTypeOK, BookTypeOK
  <1>1. CASE UNCHANGED <<row, api, opState>>
    BY <1>0, <1>1, SameRows
  <1>2. ASSUME NEW q \in Requests, NEW b \in Books, LoadRequest(q, b)
        PROVE  Goal
    <2> DEFINE r == [kind |-> "apply", book |-> b, run |-> brun[b],
                     patch |-> Patch(b), locks |-> flocks[b],
                     pilot |-> deployed.pilot, expect |-> snap[b],
                     change |-> NoOp, status |-> "none",
                     release |-> deployed.release]
    <2>1. api' = [api EXCEPT ![q] = {r}] /\ UNCHANGED ledgerVars
      BY <1>2 DEF LoadRequest
    <2>2. Proposes(r)
      BY <1>2 DEF LoadRequest, CurrentPackage, Patch, Proposes
    <2> HIDE DEF r
    <2>3. \A x \in Requests : \A y \in api'[x] : Proposes(y)
      BY <1>0, <2>1, <2>2
    <2> QED
      BY <2>1, <2>3, SameRows DEF ledgerVars
  <1>3. ASSUME NEW q \in Requests, Reserve(q)
        PROVE  Goal
    <2>1. PICK r \in api[q] : /\ Reservable(r) /\ CreateOperation(RowOf(r))
                              /\ api' = [api EXCEPT ![q] = {}]
      BY <1>3 DEF Reserve
    <2>2. RowOf(r).kind = "apply" /\ Proposes(RowOf(r))
      BY <1>0, <2>1 DEF RowOf, Proposes, LoadedRows
    <2>3. \A x \in Requests : \A y \in api'[x] : Proposes(y)
      BY <1>0, <2>1
    <2> QED
      BY <2>1, <2>2, <2>3, NewRow DEF Reservable
  <1>4. ASSUME NEW q \in Requests, RejectRequest(q)
        PROVE  Goal
    <2>1. \A x \in Requests : \A y \in api'[x] : Proposes(y)
      BY <1>0, <1>4 DEF RejectRequest
    <2> QED
      BY <1>4, <2>1, SameRows DEF RejectRequest, ledgerVars
  <1>5. ASSUME NEW c \in Ops, QueueUndo(c), CreateOperation(UndoRow(c))
        PROVE  Goal
    <2>1. row[c].kind = "apply" /\ opState[c] # "none" /\ api' = api
      BY <1>5 DEF QueueUndo, envVars, Ready, Records, ChangesHold, RowsHold
    <2>2. /\ UndoRow(c).kind = "undo" /\ UndoRow(c).change = c
          /\ UndoRow(c).book = row[c].book
      BY DEF UndoRow
    <2> QED
      BY <1>0, <1>5, <2>1, <2>2, NewRow
  <1>6. CASE Coordinate
    BY <1>1, <1>2, <1>3, <1>4, <1>5, <1>6 DEF Coordinate, RecordPackage, Authorize, LockField,
       Review, QueueUndo, Acknowledge, PilotStop, ledgerVars, envVars
  <1>7. CASE Environment \/ (\E o \in Ops : LeaseExpires(o)) \/ UNCHANGED vars
    BY <1>1, <1>7 DEF Environment, Redeploy, HeartbeatExpires, ExternalEdit, Crash, GuardLost,
       Dies, LeaseExpires, vars, ledgerVars, envVars
  <1>8. ASSUME NEW w \in Writers, WriterStep(w) \/ Start(w) \/ Poll(w)
        PROVE  Goal
    BY <1>0, <1>8, WriterLeaves, WritersStartNothing, SameRows DEF Supervision, Ready
  <1> QED
    BY <1>6, <1>7, <1>8 DEF Next

-----------------------------------------------------------------------------
(* Change rows: the shapes of steps.                                       *)

\* One operation moves or gets another change status, and the others do not.
LEMMA OneMoves ==
  ASSUME Ready, Calm, row' = row, NEW o \in Ops,
         \A x \in Ops : x # o => opState'[x] = opState[x] /\ change'[x] = change[x],
         row[o].kind = "apply" => ChangeOf(o)',
         row[o].kind # "apply" => change'[o] = "none",
         row[o].kind = "undo" /\ opState'[o] = "writing" => change'[row[o].change] = "applied",
         change'[o] = change[o] \/ opState[o] \in Active
  PROVE  ChangesHold'
  <1> SUFFICES ASSUME NEW x \in Ops, x # o
               PROVE  /\ row[x].kind = "apply" => ChangeOf(x)'
                      /\ row[x].kind # "apply" => change'[x] = "none"
                      /\ row[x].kind = "undo" /\ opState'[x] = "writing" =>
                            change'[row[x].change] = "applied"
    BY DEF ChangesHold
  <1>1. opState'[x] = opState[x] /\ change'[x] = change[x]
    OBVIOUS
  <1>2. row[x].kind = "apply" => ChangeOf(x)'
    BY <1>1 DEF Ready, Records, ChangesHold, ChangeOf, Calm
  <1>3. row[x].kind # "apply" => change'[x] = "none"
    BY <1>1 DEF Ready, Records, ChangesHold
  <1>4. ASSUME row[x].kind = "undo", opState[x] = "writing"
        PROVE  change'[row[x].change] = "applied"
    <2>1. /\ row[x].change \in Ops /\ change[row[x].change] = "applied"
          /\ row[row[x].change].book = row[x].book
      BY <1>4 DEF Ready, Records, ChangesHold, UndosHold
    <2>2. CASE row[x].change = o /\ opState[o] \in Active
      BY <1>4, <2>1, <2>2, LocksExclude DEF Ready, Active
    <2> QED
      BY <2>1, <2>2
  <1> QED
    BY <1>1, <1>2, <1>3, <1>4

\* Nobody works on an operation any more.
LEMMA WorkEnds ==
  ASSUME Ready, NEW w \in Writers, pc[w] # "down", pc'[w] \in {"idle", "reconcile", "down"},
         \A v \in Writers : v # w => pc'[v] = pc[v]
  PROVE  WorkHolds'
  <1>1. \A v \in Writers : pc'[v] \notin WorkPcs
    BY OneAlive DEF Ready, WorkPcs
  <1> QED
    BY <1>1 DEF WorkHolds

\* The outcomes that agree with a status of the change row.
Agrees(o, s, t) ==
    IF row[o].kind # "apply" THEN t = "none"
    ELSE /\ s = "failed" => t = "none"
         /\ s = "succeeded" => t \in {"applied", "undone"}
                               \/ (t = "none" /\ row[o].patch = {"cover"})
         /\ s = "restored" => t \in {"none", "failed_rolled_back"}
         /\ s = "restore_failed" => t = "failed_rollback_failed"

LEMMA CloseChange ==
  ASSUME Ready, Calm, NEW w \in Writers, pc[w] \in WorkPcs, NEW s \in Terminal, NEW e, NEW b,
         Close(w, s, e, b), NEW t,
         change' = [change EXCEPT ![wop[w]] = t], Agrees(wop[w], s, t)
  PROVE  ChangesHold' /\ WorkHolds'
  <1>1. PICK o \in Ops : o = wop[w] /\ opState[o] \in Active
    BY Holder DEF Ready, Active
  <1>2. /\ opState' = [opState EXCEPT ![o] = s]
        /\ change' = [change EXCEPT ![o] = t] /\ row' = row
    BY <1>1 DEF Close, Finish, LedgerRest
  <1>3. opState \in [Ops -> OpStates] /\ change \in [Ops -> ChangeStates]
    BY DEF Ready, Fenced, TypeOK, LedgerTypeOK
  <1>4. Agrees(o, s, t)
    BY <1>1
  <1>5. opState'[o] = s /\ change'[o] = t /\ s \in Terminal
    BY <1>1, <1>2, <1>3
  <1>6. row[o].kind = "apply" => ChangeOf(o)'
    BY <1>2, <1>4, <1>5 DEF ChangeOf, Agrees, Terminal
  <1>7. ChangesHold'
    BY <1>1, <1>2, <1>3, <1>4, <1>5, <1>6, OneMoves DEF Agrees, Terminal
  <1>8. /\ pc[w] # "down" /\ pc'[w] \in {"idle", "reconcile", "down"}
        /\ \A v \in Writers : v # w => pc'[v] = pc[v]
    BY DEF Close, Return, Goto, WorkPcs, Ready, Fenced, TypeOK, WriterTypeOK
  <1> QED
    BY <1>7, <1>8, WorkEnds

LEMMA SameChange ==
  ASSUME TypeOK, UNCHANGED change, NEW o \in Ops
  PROVE  change' = [change EXCEPT ![o] = change[o]]
  BY DEF TypeOK, LedgerTypeOK

\* A claim fails, and a write that had started becomes uncertain.
LEMMA FailChange ==
  ASSUME Ready, Calm, NEW w \in Writers, pc[w] \in WorkPcs, FailOperation(w), UNCHANGED change
  PROVE  ChangesHold' /\ WorkHolds'
  <1>1. PICK o \in Ops : o = wop[w] /\ opState[o] \in Active
    BY Holder DEF Ready, Active
  <1>2. Close(w, FailedState(o), "failed", "error")
    BY <1>1 DEF FailOperation
  <1>3. FailedState(o) \in {"failed", "unknown"}
        /\ (FailedState(o) = "failed" => opState[o] = "claimed")
    BY <1>1 DEF FailedState, Active
  <1>4. Agrees(o, FailedState(o), change[o])
    BY <1>1, <1>3 DEF Agrees, Ready, Records, ChangesHold, ChangeOf
  <1>5. change' = [change EXCEPT ![o] = change[o]]
    BY <1>1, SameChange DEF Ready, Fenced
  <1>6. FailedState(o) \in Terminal
    BY <1>3 DEF Terminal
  <1>7. ASSUME NEW s \in Terminal, s = FailedState(o), NEW t, t = change[o]
        PROVE  ChangesHold' /\ WorkHolds'
    <2>1. /\ Close(w, s, "failed", "error") /\ change' = [change EXCEPT ![wop[w]] = t]
          /\ Agrees(wop[w], s, t)
      BY <1>1, <1>2, <1>4, <1>5, <1>7
    <2> QED
      BY <2>1, CloseChange
  <1> QED
    BY <1>6, <1>7

\* An undo succeeds and takes its change back.
LEMMA UndoneChange ==
  ASSUME Ready, Calm, NEW w \in Writers, pc[w] \in {"undo", "visit_undo"}, NEW e, NEW b,
         Close(w, "succeeded", e, b), SetChange(Undone(w), "undone")
  PROVE  ChangesHold' /\ WorkHolds'
  <1>1. PICK u \in Ops : /\ u = wop[w] /\ opState[u] = "writing" /\ row[u].kind = "undo"
                         /\ pc[w] \in WorkPcs
    <2>1. pc[w] \in WorkPcs /\ pc[w] \in UndoPcs /\ pc[w] \notin ClaimedPcs
      BY DEF WorkPcs, UndoPcs, ClaimedPcs, Pcs
    <2> QED
      BY <2>1, Holder DEF Ready, Known, WorkRecorded
  <1>2. PICK c \in Ops : /\ c = row[u].change /\ row[c].kind = "apply"
                         /\ row[c].book = row[u].book /\ change[c] = "applied" /\ c # u
    BY <1>1 DEF Ready, Records, UndosHold, ChangesHold
  <1>3. opState[c] \notin Active
    BY <1>1, <1>2, LocksExclude DEF Ready, Active
  <1>4. /\ opState' = [opState EXCEPT ![u] = "succeeded"]
        /\ change' = [change EXCEPT ![c] = "undone"] /\ row' = row
    BY <1>1, <1>2 DEF Close, Finish, LedgerRest, SetChange, Undone
  <1>5. opState \in [Ops -> OpStates] /\ change \in [Ops -> ChangeStates]
    BY DEF Ready, Fenced, TypeOK, LedgerTypeOK
  <1>6. ASSUME NEW x \in Ops
        PROVE  row[x].kind = "apply" => ChangeOf(x)'
    <2>1. CASE x = c
      <3>1. opState'[x] = opState[x] /\ change'[x] = "undone" /\ change[x] = "applied"
        BY <1>2, <1>4, <1>5, <2>1
      <3>2. row[x].kind = "apply" => ChangeOf(x)
        BY DEF Ready, Records, ChangesHold
      <3> QED
        BY <1>3, <1>4, <2>1, <3>1, <3>2 DEF ChangeOf, Active
    <2>2. CASE x # c
      <3>1. change'[x] = change[x]
            /\ (opState'[x] = opState[x] \/ x = u)
        BY <1>4, <1>5, <2>2
      <3> QED
        BY <1>1, <1>4, <3>1 DEF Ready, Records, ChangesHold, ChangeOf, Calm
    <2> QED
      BY <2>1, <2>2
  <1>7. ASSUME NEW x \in Ops, row[x].kind = "undo", opState'[x] = "writing"
        PROVE  change'[row[x].change] = "applied"
    <2>1. x # u /\ opState[x] = "writing"
      BY <1>1, <1>4, <1>5, <1>7
    <2>2. /\ change[row[x].change] = "applied" /\ row[x].change \in Ops
          /\ row[row[x].change].book = row[x].book
      BY <1>7, <2>1 DEF Ready, Records, ChangesHold, UndosHold
    <2>3. row[x].change # c
      BY <1>1, <1>2, <2>1, <2>2, LocksExclude DEF Ready, Active
    <2> QED
      BY <1>4, <1>5, <2>2, <2>3
  <1>8. \A x \in Ops : row[x].kind # "apply" => change'[x] = "none"
    BY <1>2, <1>4, <1>5 DEF Ready, Records, ChangesHold
  <1>9. /\ pc[w] # "down" /\ pc'[w] \in {"idle", "reconcile", "down"}
        /\ \A v \in Writers : v # w => pc'[v] = pc[v]
    BY DEF Close, Return, Goto, Ready, Fenced, TypeOK, WriterTypeOK
  <1> QED
    BY <1>4, <1>6, <1>7, <1>8, <1>9, WorkEnds DEF ChangesHold

\* A process moves on with its operation, and the change row with it.
LEMMA MoveChange ==
  ASSUME Ready, Calm, NEW w \in Writers, pc[w] \in WorkPcs, NEW l \in WorkPcs, Goto(w, l),
         UNCHANGED <<row, opState, wop>>, NEW t \in ChangeStates,
         change' = [change EXCEPT ![wop[w]] = t],
         l \in UndoPcs \/ (pc[w] \notin UndoPcs /\ t \in StatusAt(l)),
         \/ t = change[wop[w]]
         \/ pc[w] \notin ClaimedPcs /\ pc[w] \notin UndoPcs /\ t # "none"
  PROVE  ChangesHold' /\ WorkHolds'
  <1>1. PICK o \in Ops : /\ o = wop[w] /\ opState[o] \in Active
                         /\ opState[o] = "claimed" => pc[w] \in ClaimedPcs
                         /\ pc[w] \notin UndoPcs => row[o].kind = "apply"
    BY Holder DEF Ready, Active, Records, WorkHolds
  <1>2. change' = [change EXCEPT ![o] = t] /\ change \in [Ops -> ChangeStates]
    BY <1>1 DEF Ready, Fenced, TypeOK, LedgerTypeOK
  <1>3. t = change[o] \/ (pc[w] \notin ClaimedPcs /\ pc[w] \notin UndoPcs /\ t # "none")
    BY <1>1
  <1>4. WorkHolds'
    <2>1. /\ pc'[w] = l
          /\ \A v \in Writers : v # w => pc'[v] = "down"
      BY OneAlive DEF Ready, Fenced, TypeOK, WriterTypeOK, Goto, WorkPcs
    <2>2. \A v \in Writers : pc'[v] \in WorkPcs => v = w
      BY <2>1 DEF WorkPcs
    <2>3. pc'[w] \notin UndoPcs => row'[o].kind = "apply" /\ change'[o] \in StatusAt(l)
      BY <1>1, <1>2, <2>1
    <2> QED
      BY <1>1, <2>1, <2>2, <2>3 DEF WorkHolds
  <1>5. ChangesHold'
    <2>1. change'[o] = t /\ \A x \in Ops : x # o => change'[x] = change[x]
      BY <1>1, <1>2
    <2>2. row[o].kind = "apply" => ChangeOf(o)'
      BY <1>1, <1>3, <2>1 DEF Ready, Records, ChangesHold, ChangeOf, Calm, Active
    <2>3. row[o].kind # "apply" => change'[o] = "none"
      BY <1>1, <1>3, <2>1 DEF Ready, Records, ChangesHold
    <2>4. row[o].kind = "undo" /\ opState[o] = "writing" => change'[row[o].change] = "applied"
      <3>1. row[o].kind = "undo" => row[o].change # o
        BY <1>1 DEF Ready, Records, UndosHold
      <3> QED
        BY <1>1, <2>1, <3>1 DEF Ready, Records, ChangesHold, UndosHold
    <2> QED
      BY <1>1, <2>1, <2>2, <2>3, <2>4, OneMoves
  <1> QED
    BY <1>4, <1>5

\* The same without a word about the change row.
LEMMA PassChange ==
  ASSUME Ready, Calm, NEW w \in Writers, pc[w] \in WorkPcs, NEW l \in WorkPcs, Goto(w, l),
         UNCHANGED <<row, opState, wop, change>>,
         l \in UndoPcs \/ (pc[w] \notin UndoPcs /\ StatusAt(pc[w]) \subseteq StatusAt(l))
  PROVE  ChangesHold' /\ WorkHolds'
  <1>1. wop[w] \in Ops
    BY Holder DEF Ready
  <1>2. change[wop[w]] \in ChangeStates
    BY <1>1 DEF Ready, Fenced, TypeOK, LedgerTypeOK
  <1>3. pc[w] \notin UndoPcs => change[wop[w]] \in StatusAt(pc[w])
    BY DEF Ready, Records, WorkHolds
  <1> QED
    BY <1>1, <1>2, <1>3, SameChange, MoveChange DEF Ready, Fenced

\* Steps without effect on the operations and on what is done with them.
LEMMA RestChange ==
  ASSUME Ready, Calm, UNCHANGED <<row, opState, change>>,
         \/ UNCHANGED <<pc, wop>>
         \/ \E w \in Writers : /\ pc'[w] \in {"idle", "reconcile", "down"}
                               /\ \A v \in Writers : v # w => pc'[v] = pc[v] /\ wop'[v] = wop[v]
  PROVE  ChangesHold' /\ WorkHolds'
  <1>1. ChangesHold'
    BY DEF Ready, Records, ChangesHold, ChangeOf, Calm
  <1>2. WorkHolds'
    BY DEF Ready, Records, WorkHolds, WorkPcs
  <1> QED
    BY <1>1, <1>2

\* An operation is closed and its change row left alone.
LEMMA CloseSame ==
  ASSUME Ready, Calm, NEW w \in Writers, pc[w] \in WorkPcs, NEW s \in Terminal, NEW e, NEW b,
         Close(w, s, e, b), UNCHANGED change, Agrees(wop[w], s, change[wop[w]])
  PROVE  ChangesHold' /\ WorkHolds'
  <1>1. wop[w] \in Ops
    BY Holder DEF Ready
  <1>2. PICK t : t = change[wop[w]]
    OBVIOUS
  <1>3. change' = [change EXCEPT ![wop[w]] = t] /\ Agrees(wop[w], s, t)
    BY <1>1, <1>2, SameChange DEF Ready, Fenced
  <1> QED
    BY <1>3, CloseChange

\* The evidence is committed, with the move to writing.
LEMMA WriteChange ==
  ASSUME Ready, Calm, NEW w \in Writers, pc[w] \in ClaimedPcs, NEW l \in WorkPcs, Goto(w, l),
         l \in UndoPcs \/ (pc[w] \notin UndoPcs /\ l = "backup"),
         opState' = [opState EXCEPT ![wop[w]] = "writing"],
         UNCHANGED <<row, change, wop, live>>,
         row[wop[w]].kind = "apply" =>
            \A p \in row[wop[w]].patch \ {"cover"} : live[row[wop[w]].book][p] # "new",
         row[wop[w]].kind = "undo" => change[row[wop[w]].change] = "applied"
  PROVE  ChangesHold' /\ WorkHolds'
  <1>0. pc[w] \in WorkPcs
    BY DEF WorkPcs, ClaimedPcs, Pcs
  <1>1. PICK o \in Ops : /\ o = wop[w] /\ opState[o] = "claimed"
                         /\ pc[w] \notin UndoPcs => row[o].kind = "apply"
    BY <1>0, Holder DEF Ready, Records, WorkHolds
  <1>2. row[o].kind = "apply" => change[o] = "none"
    BY <1>1 DEF Ready, Records, ChangesHold, ChangeOf
  <1>3. /\ opState'[o] = "writing"
        /\ \A x \in Ops : x # o => opState'[x] = opState[x]
    BY <1>1 DEF Ready, Fenced, TypeOK, LedgerTypeOK
  <1>4. WorkHolds'
    <2>1. /\ pc'[w] = l
          /\ \A v \in Writers : v # w => pc'[v] = "down"
      BY <1>0, OneAlive DEF Ready, Fenced, TypeOK, WriterTypeOK, Goto, WorkPcs
    <2>2. \A v \in Writers : pc'[v] \in WorkPcs => v = w
      BY <2>1 DEF WorkPcs
    <2>3. pc'[w] \notin UndoPcs => row'[o].kind = "apply" /\ change'[o] \in StatusAt(l)
      BY <1>1, <1>2, <2>1 DEF StatusAt
    <2> QED
      BY <1>1, <2>1, <2>2, <2>3 DEF WorkHolds
  <1>5. row[o].kind = "apply" => ChangeOf(o)'
    BY <1>1, <1>3 DEF ChangeOf
  <1>6. row[o].kind # "apply" => change'[o] = "none"
    BY DEF Ready, Records, ChangesHold
  <1> QED
    BY <1>1, <1>3, <1>4, <1>5, <1>6, OneMoves

\* What the process knows of its operation.
LEMMA HandChange ==
  ASSUME Ready, NEW w \in Writers, pc[w] \in WorkPcs
  PROVE  /\ wop[w] \in Ops /\ guard = w /\ why[w] # "closed"
         /\ pc[w] \notin UndoPcs => /\ row[wop[w]].kind = "apply"
                                    /\ change[wop[w]] \in StatusAt(pc[w])
         /\ pc[w] \in UndoPcs => /\ row[wop[w]].kind = "undo"
                                 /\ change[wop[w]] = "none"
                                 /\ row[wop[w]].change \in Ops
         /\ pc[w] \in ClaimedPcs => opState[wop[w]] = "claimed" /\ change[wop[w]] = "none"
         /\ pc[w] \notin ClaimedPcs => opState[wop[w]] = "writing"
  <1>1. wop[w] \in Ops /\ guard = w /\ why[w] # "closed"
        /\ opState[wop[w]] = IF pc[w] \in ClaimedPcs THEN "claimed" ELSE "writing"
    BY Holder DEF Ready, Fenced, WriterAgrees
  <1>2. pc[w] \notin UndoPcs => row[wop[w]].kind = "apply" /\ change[wop[w]] \in StatusAt(pc[w])
    BY DEF Ready, Records, WorkHolds
  <1>3. pc[w] \in UndoPcs => row[wop[w]].kind = "undo" /\ row[wop[w]].change \in Ops
    BY <1>1 DEF Ready, Known, WorkRecorded
  <1> QED
    BY <1>1, <1>2, <1>3 DEF Ready, Records, ChangesHold, ChangeOf

LEMMA ApplyStartsChange ==
  ASSUME Ready, Calm, NEW w \in Writers,
         Validate(w) \/ Observe(w) \/ Backup(w) \/ BuildTarget(w)
  PROVE  ChangesHold' /\ WorkHolds'
  <1>0. pc[w] \in {"validate", "observe", "backup", "build"} /\ pc[w] \in WorkPcs
        /\ pc[w] \notin UndoPcs
    BY DEF Validate, Observe, Backup, BuildTarget, Loaded, At, WorkPcs, Pcs, UndoPcs
  <1>1. /\ {"observe", "backup", "build", "apply"} \subseteq WorkPcs \ UndoPcs
        /\ {"failed", "unknown"} \subseteq Terminal
        /\ {"validate", "observe"} \subseteq ClaimedPcs
        /\ {"backup", "build"} \cap ClaimedPcs = {}
    BY DEF WorkPcs, Pcs, UndoPcs, Terminal, ClaimedPcs
  <1>2. StatusAt("validate") = StatusAt("observe") /\ StatusAt("build") = StatusAt("apply")
        /\ "pending_apply" \in StatusAt("build") /\ "pending_apply" \in ChangeStates
    BY DEF StatusAt, ChangeStates
  <1>3. CASE Validate(w)
    <2>1. pc[w] = "validate"
      BY <1>3 DEF Validate, Loaded, At
    <2>2. CASE Goto(w, "observe") /\ UNCHANGED ledgerVars /\ UNCHANGED wop
      BY <1>0, <1>1, <1>2, <2>1, <2>2, PassChange DEF ledgerVars
    <2>3. CASE Close(w, "failed", "failed", "error") /\ UNCHANGED change
      BY <1>0, <1>1, <2>1, <2>3, HandChange, CloseSame DEF Agrees
    <2> QED
      BY <1>3, <2>2, <2>3 DEF Validate
  <1>4. CASE Observe(w)
    <2>1. pc[w] = "observe"
      BY <1>4 DEF Observe, Loaded, At
    <2>2. CASE FailOperation(w) /\ UNCHANGED change
      BY <1>0, <2>2, FailChange
    <2>3. CASE \E b : Close(w, "failed", "failed", b) /\ UNCHANGED change
      BY <1>0, <1>1, <2>1, <2>3, HandChange, CloseSame DEF Agrees
    <2>4. CASE /\ MatchesExpected(Live(w), wop[w])
               /\ opState' = [opState EXCEPT ![wop[w]] = "writing"]
               /\ Goto(w, "backup")
               /\ UNCHANGED <<row, change, wop, live>>
      <3>1. row[wop[w]].kind = "apply" /\ Proposes(row[wop[w]])
        BY <1>0, HandChange DEF Ready, Records, RowsHold
      <3>2. \A p \in row[wop[w]].patch \ {"cover"} : live[row[wop[w]].book][p] # "new"
        BY <2>4, <3>1 DEF MatchesExpected, Live, Book, Proposes
      <3> QED
        BY <1>0, <1>1, <2>1, <2>4, <3>1, <3>2, WriteChange
    <2> QED
      BY <1>4, <2>2, <2>3, <2>4 DEF Observe, OutsideRest
  <1>5. CASE Backup(w)
    <2>1. pc[w] = "backup"
      BY <1>5 DEF Backup, At
    <2>2. CASE FailOperation(w) /\ UNCHANGED change
      BY <1>0, <2>2, FailChange
    <2>3. CASE /\ SetChange(wop[w], "pending_apply") /\ Goto(w, "build")
               /\ UNCHANGED <<row, opState, wop>>
      BY <1>0, <1>1, <1>2, <2>1, <2>3, MoveChange DEF SetChange
    <2> QED
      BY <1>5, <2>2, <2>3 DEF Backup
  <1>6. CASE BuildTarget(w)
    <2>1. pc[w] = "build"
      BY <1>6 DEF BuildTarget, At
    <2>2. CASE FailOperation(w) /\ UNCHANGED change
      BY <1>0, <2>2, FailChange
    <2>3. CASE Goto(w, "apply") /\ UNCHANGED ledgerVars /\ UNCHANGED wop
      BY <1>0, <1>1, <1>2, <2>1, <2>3, PassChange DEF ledgerVars
    <2> QED
      BY <1>6, <2>2, <2>3 DEF BuildTarget, Commands
  <1> QED
    BY <1>3, <1>4, <1>5, <1>6

LEMMA ApplyEndsChange ==
  ASSUME Ready, Calm, NEW w \in Writers,
         \/ ApplyDone(w) \/ ApplyFails(w) \/ RollbackDone(w) \/ RolledBack(w)
         \/ Verify(w) \/ RestoreDone(w)
  PROVE  ChangesHold' /\ WorkHolds'
  <1>0. pc[w] \in {"apply", "rollback", "rolled", "verify", "restore"} /\ pc[w] \in WorkPcs
        /\ pc[w] \notin UndoPcs /\ pc[w] \notin ClaimedPcs
    BY DEF ApplyDone, ApplyFails, RollbackDone, RolledBack, Verify, RestoreDone, Finished,
       Loaded, At, WorkPcs, Pcs, UndoPcs, ClaimedPcs
  <1>1. /\ {"rollback", "rolled", "verify", "restore"} \subseteq WorkPcs \ UndoPcs
        /\ {"failed", "restored", "restore_failed", "succeeded"} \subseteq Terminal
    BY DEF WorkPcs, Pcs, UndoPcs, Terminal
  <1>2. /\ StatusAt("rollback") = StatusAt("apply")
        /\ StatusAt("verify") = {"applied"} /\ StatusAt("verify") \subseteq StatusAt("restore")
        /\ StatusAt("rolled") = {"failed_rolled_back", "failed_rollback_failed"}
        /\ {"applied", "failed_rolled_back", "failed_rollback_failed"} \subseteq ChangeStates
    BY DEF StatusAt, ChangeStates
  <1>3. ASSUME NEW t \in ChangeStates \ {"none"}, NEW l \in WorkPcs \ UndoPcs, t \in StatusAt(l),
               SetChange(wop[w], t), Goto(w, l), UNCHANGED <<row, opState, wop>>
        PROVE  ChangesHold' /\ WorkHolds'
    BY <1>0, <1>3, MoveChange DEF SetChange
  <1>4. CASE ApplyDone(w)
    BY <1>1, <1>2, <1>3, <1>4 DEF ApplyDone, LedgerRest
  <1>5. CASE ApplyFails(w)
    BY <1>0, <1>1, <1>2, <1>5, PassChange DEF ApplyFails, Finished, Commands, ledgerVars
  <1>6. CASE RollbackDone(w)
    BY <1>1, <1>2, <1>3, <1>6 DEF RollbackDone, LedgerRest
  <1>7. CASE RolledBack(w)
    <2>1. /\ change[wop[w]] \in {"failed_rolled_back", "failed_rollback_failed"}
          /\ row[wop[w]].kind = "apply" /\ UNCHANGED change
      BY <1>0, <1>2, <1>7, HandChange DEF RolledBack, Loaded, At
    <2>2. CASE change[wop[w]] = "failed_rolled_back"
      <3>1. Close(w, "restored", "failed", "suggest_fix")
        BY <1>7, <2>2 DEF RolledBack
      <3> QED
        BY <1>0, <1>1, <2>1, <2>2, <3>1, CloseSame DEF Agrees
    <2>3. CASE change[wop[w]] = "failed_rollback_failed"
      <3>1. Close(w, "restore_failed", "failed", "error")
        BY <1>7, <2>3 DEF RolledBack
      <3> QED
        BY <1>0, <1>1, <2>1, <2>3, <3>1, CloseSame DEF Agrees
    <2> QED
      BY <2>1, <2>2, <2>3
  <1>8. CASE Verify(w)
    <2>1. pc[w] = "verify" /\ change[wop[w]] = "applied" /\ row[wop[w]].kind = "apply"
      BY <1>0, <1>2, <1>8, HandChange DEF Verify, Loaded, At
    <2>2. CASE FailOperation(w) /\ UNCHANGED change
      BY <1>0, <2>2, FailChange
    <2>3. CASE Close(w, "succeeded", "published", "applied") /\ UNCHANGED change
      BY <1>0, <1>1, <2>1, <2>3, CloseSame DEF Agrees
    <2>4. CASE Goto(w, "restore") /\ UNCHANGED ledgerVars /\ UNCHANGED wop
      BY <1>0, <1>1, <1>2, <2>1, <2>4, PassChange DEF ledgerVars
    <2> QED
      BY <1>8, <2>2, <2>3, <2>4 DEF Verify, Commands
  <1>9. CASE RestoreDone(w)
    <2>1. why[w] # "closed" /\ row[wop[w]].kind = "apply"
      BY <1>0, HandChange
    <2>2. ASSUME NEW b, SetChange(wop[w], "failed_rolled_back"), Close(w, "restored", "failed", b)
          PROVE  ChangesHold' /\ WorkHolds'
      BY <1>0, <1>1, <2>1, <2>2, CloseChange DEF SetChange, Agrees
    <2>3. CASE /\ SetChange(wop[w], "failed_rollback_failed")
               /\ Close(w, "restore_failed", "failed", "error")
      BY <1>0, <1>1, <2>1, <2>3, CloseChange DEF SetChange, Agrees
    <2> QED
      BY <1>9, <2>1, <2>2, <2>3 DEF RestoreDone, Outcome
  <1> QED
    BY <1>4, <1>5, <1>6, <1>7, <1>8, <1>9

LEMMA UndoChange ==
  ASSUME Ready, Calm, NEW w \in Writers,
         \/ UndoCheck(w) \/ UndoDone(w) \/ UndoFails(w) \/ UndoRollbackDone(w)
         \/ ReconcileUndo(w)
  PROVE  ChangesHold' /\ WorkHolds'
  <1>0. /\ pc[w] \in UndoPcs /\ pc[w] \in WorkPcs
        /\ pc[w] = "undo_check" => pc[w] \in ClaimedPcs
    BY DEF UndoCheck, UndoDone, UndoFails, UndoRollbackDone, ReconcileUndo, Loaded, At, WorkPcs,
       Pcs, UndoPcs, ClaimedPcs
  <1>1. /\ {"undo", "undo_rollback"} \subseteq WorkPcs \cap UndoPcs
        /\ {"failed", "restored", "restore_failed", "succeeded", "unknown"} \subseteq Terminal
    BY DEF WorkPcs, Pcs, UndoPcs, Terminal
  <1>2. /\ why[w] # "closed" /\ row[wop[w]].kind = "undo" /\ change[wop[w]] = "none"
        /\ row[wop[w]].change \in Ops
    BY <1>0, HandChange
  <1>3. ASSUME NEW s \in Terminal, NEW e, NEW b, Close(w, s, e, b), UNCHANGED change
        PROVE  ChangesHold' /\ WorkHolds'
    BY <1>0, <1>2, <1>3, CloseSame DEF Agrees
  <1>4. ASSUME NEW l \in WorkPcs \cap UndoPcs, Goto(w, l), UNCHANGED ledgerVars, UNCHANGED wop
        PROVE  ChangesHold' /\ WorkHolds'
    BY <1>0, <1>4, PassChange DEF ledgerVars
  <1>5. CASE FailOperation(w) /\ UNCHANGED change
    BY <1>0, <1>5, FailChange
  <1>6. CASE UndoCheck(w)
    <2>1. CASE /\ ~StaleUndo(w) /\ pc[w] = "undo_check"
               /\ opState' = [opState EXCEPT ![wop[w]] = "writing"]
               /\ Goto(w, "undo") /\ UNCHANGED <<row, change, wop, live>>
      <3>1. change[row[wop[w]].change] = "applied"
        BY <2>1 DEF StaleUndo, Undone
      <3> QED
        BY <1>0, <1>1, <1>2, <2>1, <3>1, WriteChange
    <2> QED
      BY <1>1, <1>3, <1>5, <1>6, <2>1 DEF UndoCheck, Commands, OutsideRest, Loaded, At
  <1>7. CASE UndoDone(w)
    <2>1. pc[w] = "undo"
      BY <1>7 DEF UndoDone, Loaded, At
    <2> QED
      BY <1>5, <1>7, <2>1, UndoneChange DEF UndoDone
  <1>8. CASE UndoFails(w)
    BY <1>1, <1>4, <1>8 DEF UndoFails, Commands
  <1>9. CASE UndoRollbackDone(w)
    BY <1>1, <1>2, <1>3, <1>9 DEF UndoRollbackDone, Outcome
  <1>10. CASE ReconcileUndo(w)
    <2>1. pc[w] = "visit_undo"
      BY <1>10 DEF ReconcileUndo, At
    <2>2. CASE Close(w, "succeeded", "published", "suggest_fix") /\ SetChange(Undone(w), "undone")
      BY <2>1, <2>2, UndoneChange
    <2> QED
      BY <1>1, <1>2, <1>3, <1>4, <1>10, <2>2 DEF ReconcileUndo, Outcome, Commands
  <1> QED
    BY <1>6, <1>7, <1>8, <1>9, <1>10

\* A write that left no change row and is found complete was a cover in place.
LEMMA CoverInPlace ==
  ASSUME Ready, NEW o \in Ops, row[o].kind = "apply", opState[o] = "writing",
         change[o] = "none", MatchesTarget(live[row[o].book], before[o], row[o].patch)
  PROVE  row[o].patch = {"cover"}
  <1>1. row[o].patch \subseteq Written /\ row[o].patch # {}
    BY DEF Ready, Fenced, TypeOK, LedgerTypeOK, Row, Records, RowsHold, Proposes
  <1>2. \A p \in row[o].patch \ {"cover"} : live[row[o].book][p] # "new"
    BY DEF Ready, Records, ChangesHold, ChangeOf
  <1>3. "opf" \notin row[o].patch /\ "custom" \notin row[o].patch
    BY <1>2 DEF MatchesTarget
  <1> QED
    BY <1>1, <1>3 DEF Written

LEMMA VisitChange ==
  ASSUME Ready, Calm, NEW w \in Writers, ReconcileApply(w)
  PROVE  ChangesHold' /\ WorkHolds'
  <1> DEFINE o == wop[w]
  <1>0. /\ pc[w] = "visit" /\ pc[w] \in WorkPcs \ UndoPcs /\ pc[w] \notin ClaimedPcs
        /\ "restore" \in WorkPcs \ UndoPcs
        /\ {"restored", "succeeded", "unknown"} \subseteq Terminal
    BY DEF ReconcileApply, At, WorkPcs, Pcs, UndoPcs, ClaimedPcs, Terminal
  <1>1. /\ why[w] # "closed" /\ row[o].kind = "apply" /\ o \in Ops /\ opState[o] = "writing"
        /\ change[o] \in ChangeStates
    BY <1>0, HandChange DEF Ready, Fenced, TypeOK, LedgerTypeOK
  <1>2. ASSUME NEW s \in Terminal, NEW e, NEW b, Close(w, s, e, b), NEW t,
               FollowChange(o, t),
               change[o] = "none" => Agrees(o, s, "none"),
               change[o] # "none" => Agrees(o, s, t)
        PROVE  ChangesHold' /\ WorkHolds'
    <2>1. CASE change[o] = "none"
      BY <1>0, <1>2, <2>1, CloseSame DEF FollowChange
    <2>2. CASE change[o] # "none"
      BY <1>0, <1>2, <2>2, CloseChange DEF FollowChange, SetChange
    <2> QED
      BY <2>1, <2>2
  <1>3. CASE /\ Close(w, Outcome(w, "unknown"), "failed", "error")
             /\ FollowChange(o, "failed_rollback_failed")
    BY <1>0, <1>1, <1>2, <1>3 DEF Outcome, Agrees
  <1>4. CASE /\ MatchesTarget(Live(w), before[o], row[o].patch)
             /\ Close(w, "succeeded", "published", "applied") /\ FollowChange(o, "applied")
    <2>1. change[o] = "none" => row[o].patch = {"cover"}
      BY <1>1, <1>4, CoverInPlace DEF Live, Book
    <2> QED
      BY <1>0, <1>1, <1>2, <1>4, <2>1 DEF Agrees
  <1>5. CASE /\ Close(w, "restored", "failed", "suggest_fix")
             /\ FollowChange(o, "failed_rolled_back")
    BY <1>0, <1>1, <1>2, <1>5 DEF Agrees
  <1>6. CASE Close(w, Outcome(w, "unknown"), "failed", "error") /\ UNCHANGED change
    BY <1>0, <1>1, <1>6, CloseSame DEF Outcome, Agrees
  <1>7. CASE change[o] # "none" /\ Goto(w, "restore") /\ UNCHANGED <<row, opState, wop, change>>
    <2>1. change[o] \in StatusAt("restore")
      BY <1>1, <1>7 DEF StatusAt
    <2> QED
      BY <1>0, <1>1, <1>7, <2>1, SameChange, MoveChange DEF Ready, Fenced
  <1> QED
    BY <1>1, <1>3, <1>4, <1>5, <1>6, <1>7 DEF ReconcileApply, Commands, ledgerVars

\* A new row has no change yet.
LEMMA CreateChange ==
  ASSUME Ready, Calm, NEW r, CreateOperation(r), UNCHANGED <<pc, wop>>
  PROVE  ChangesHold' /\ WorkHolds'
  <1>1. PICK n \in Ops :
          /\ opState[n] = "none"
          /\ row'     = [row EXCEPT ![n] = r]
          /\ opState' = [opState EXCEPT ![n] = "requested"]
          /\ change'  = change
    BY DEF CreateOperation
  <1>2. row \in [Ops -> Row] /\ opState \in [Ops -> OpStates]
    BY DEF Ready, Fenced, TypeOK, LedgerTypeOK
  <1>3. row[n].kind = "none" /\ change[n] = "none"
    BY <1>1 DEF Ready, Records, RowsHold, ChangesHold
  <1>4. /\ row'[n] = r /\ opState'[n] = "requested"
        /\ \A x \in Ops : x # n => row'[x] = row[x] /\ opState'[x] = opState[x]
    BY <1>1, <1>2
  <1>5. ChangeOf(n)'
    BY <1>1, <1>3, <1>4 DEF ChangeOf
  <1>6. ASSUME NEW x \in Ops, x # n
        PROVE  /\ row'[x].kind = "apply" => ChangeOf(x)'
               /\ row'[x].kind # "apply" => change'[x] = "none"
               /\ row'[x].kind = "undo" /\ opState'[x] = "writing" =>
                     change'[row'[x].change] = "applied"
    BY <1>1, <1>4, <1>6 DEF Ready, Records, ChangesHold, ChangeOf, Calm
  <1>7. ChangesHold'
    BY <1>1, <1>3, <1>4, <1>5, <1>6 DEF ChangesHold
  <1>8. WorkHolds'
    BY <1>1, <1>2 DEF Ready, Records, WorkHolds, Known, WorkRecorded
  <1> QED
    BY <1>7, <1>8

LEMMA CoordinateChange ==
  ASSUME Ready, Calm, Coordinate
  PROVE  ChangesHold' /\ WorkHolds'
  <1> USE DEF ledgerVars, writerVars
  <1>1. CASE UNCHANGED <<row, opState, change, pc, wop>>
    BY <1>1, RestChange
  <1>2. ASSUME NEW q \in Requests, Reserve(q)
        PROVE  ChangesHold' /\ WorkHolds'
    BY <1>2, CreateChange DEF Reserve
  <1>3. ASSUME NEW c \in Ops, QueueUndo(c)
        PROVE  ChangesHold' /\ WorkHolds'
    BY <1>1, <1>3, CreateChange DEF QueueUndo
  <1> QED
    BY <1>1, <1>2, <1>3 DEF Coordinate, RecordPackage, Authorize, LockField, Review,
       LoadRequest, RejectRequest, Acknowledge, PilotStop

LEMMA EnvironmentChange ==
  ASSUME Ready, Calm, Environment \/ (\E o \in Ops : LeaseExpires(o)) \/ UNCHANGED vars
  PROVE  ChangesHold' /\ WorkHolds'
  <1> USE DEF ledgerVars, writerVars
  <1>1. CASE UNCHANGED <<row, opState, change, pc, wop>>
    BY <1>1, RestChange
  <1>2. ASSUME NEW w \in Writers, Crash(w)
        PROVE  ChangesHold' /\ WorkHolds'
    <2>1. pc'[w] = "down" /\ \A v \in Writers : v # w => pc'[v] = pc[v] /\ wop'[v] = wop[v]
      BY <1>2 DEF Crash, Dies, Goto, Ready, Fenced, TypeOK, WriterTypeOK
    <2> QED
      BY <1>2, <2>1, RestChange DEF Crash
  <1> QED
    BY <1>1, <1>2 DEF Environment, Redeploy, HeartbeatExpires, ExternalEdit, GuardLost,
       LeaseExpires, vars

\* A claim, and a claim that is released: there is no change row yet.
LEMMA ClaimChange ==
  ASSUME Ready, Calm, NEW w \in Writers, Claim(w) \/ \E o \in Ops : ReconcileClaimed(w, o)
  PROVE  ChangesHold' /\ WorkHolds'
  <1>0. opState \in [Ops -> OpStates] /\ pc \in [Writers -> Pcs]
        /\ wop \in [Writers -> Ops \cup {NoOp}] /\ change \in [Ops -> ChangeStates]
    BY DEF Ready, Fenced, TypeOK, LedgerTypeOK, WriterTypeOK
  <1>1. ASSUME NEW o \in Ops, NEW s \in {"requested", "claimed"},
               opState[o] \in {"requested", "claimed"},
               opState' = [opState EXCEPT ![o] = s], UNCHANGED <<row, change>>
        PROVE  ChangesHold'
    <2>1. opState'[o] = s /\ \A x \in Ops : x # o => opState'[x] = opState[x]
      BY <1>0, <1>1
    <2>2. change[o] = "none"
      BY <1>1 DEF Ready, Records, ChangesHold, ChangeOf
    <2>3. ChangeOf(o)'
      BY <1>1, <2>1, <2>2 DEF ChangeOf
    <2> QED
      BY <1>1, <2>1, <2>2, <2>3, OneMoves
  <1>2. CASE Claim(w)
    <2>1. PICK o \in Ops :
            /\ FirstPending(o) /\ opState' = [opState EXCEPT ![o] = "claimed"]
            /\ wop' = [wop EXCEPT ![w] = o]
            /\ Goto(w, IF row[o].kind = "undo" THEN "undo_check" ELSE "validate")
      BY <1>2 DEF Claim
    <2>2. UNCHANGED <<row, change>> /\ pc[w] # "down"
      BY <1>2 DEF Claim, At
    <2>3. opState[o] = "requested"
      BY <2>1 DEF FirstPending, Ready, Known, Holds, EventsHold
    <2>4. ChangesHold'
      BY <1>1, <2>1, <2>2, <2>3
    <2>5. row[o].kind \in {"apply", "undo"}
      BY <2>3 DEF Ready, Records, RowsHold, Fenced, TypeOK, LedgerTypeOK, Row
    <2>6. \A v \in Writers : v # w => pc'[v] = "down"
      BY <1>0, <2>1, <2>2, OneAlive DEF Ready, Goto
    <2>7. CASE row[o].kind = "undo"
      <3>1. \A v \in Writers : pc'[v] \notin WorkPcs \ UndoPcs
        BY <1>0, <2>1, <2>6, <2>7 DEF Goto, WorkPcs, UndoPcs
      <3> QED
        BY <2>4, <3>1 DEF WorkHolds
    <2>8. CASE row[o].kind = "apply"
      <3>1. pc'[w] = "validate" /\ wop'[w] = o
        BY <1>0, <2>1, <2>8 DEF Goto
      <3>2. \A v \in Writers : pc'[v] \in WorkPcs => v = w
        BY <2>6 DEF WorkPcs
      <3>3. change[o] \in StatusAt("validate")
        BY <1>0 DEF StatusAt
      <3> QED
        BY <2>2, <2>4, <2>8, <3>1, <3>2, <3>3 DEF WorkHolds
    <2> QED
      BY <2>5, <2>7, <2>8
  <1>3. ASSUME NEW o \in Ops, ReconcileClaimed(w, o)
        PROVE  ChangesHold' /\ WorkHolds'
    <2>1. UNCHANGED <<row, change, pc, wop>> /\ opState[o] = "claimed"
      BY <1>3 DEF ReconcileClaimed, ledgerVars
    <2>2. WorkHolds'
      BY <2>1 DEF Ready, Records, WorkHolds
    <2>3. CASE UNCHANGED opState
      BY <2>1, <2>3, RestChange
    <2>4. CASE opState' = [opState EXCEPT ![o] = "requested"]
      BY <1>1, <2>1, <2>2, <2>4
    <2> QED
      BY <1>3, <2>3, <2>4 DEF ReconcileClaimed, Finish, ledgerVars
  <1> QED
    BY <1>2, <1>3

LEMMA RestartChange ==
  ASSUME Ready, Calm, NEW w \in Writers,
         \/ Start(w) \/ ReconcileEnds(w) \/ TransitionRaises(w) \/ ExitUnfenced(w)
         \/ \E o \in Ops : ReconcileNoEvidence(w, o) \/ Visit(w, o)
  PROVE  ChangesHold' /\ WorkHolds'
  <1>0. pc \in [Writers -> Pcs] /\ wop \in [Writers -> Ops \cup {NoOp}]
        /\ change \in [Ops -> ChangeStates]
    BY DEF Ready, Fenced, TypeOK, LedgerTypeOK, WriterTypeOK
  <1>1. CASE Start(w) \/ ReconcileEnds(w)
    BY <1>0, <1>1, RestChange DEF Start, ReconcileEnds, Goto, ledgerVars
  <1>2. CASE TransitionRaises(w)
    <2>1. pc[w] \in WorkPcs
      BY <1>2 DEF TransitionRaises, LoadPcs, WorkPcs, Pcs
    <2> QED
      BY <1>2, <2>1, Holder DEF TransitionRaises, Ready, Active
  <1>3. CASE ExitUnfenced(w)
    BY <1>3, OneAlive DEF ExitUnfenced, Ready
  <1>4. ASSUME NEW o \in Ops, ReconcileNoEvidence(w, o)
        PROVE  FALSE
    BY <1>4 DEF ReconcileNoEvidence, Ready, Fenced, WriterAgrees, Active
  <1>5. ASSUME NEW o \in Ops, Visit(w, o)
        PROVE  ChangesHold' /\ WorkHolds'
    <2>1. /\ UNCHANGED <<row, opState, change, live>> /\ opState[o] # "none" /\ pc[w] # "down"
          /\ pc'[w] = (IF row[o].kind = "undo" THEN "visit_undo" ELSE "visit")
          /\ wop'[w] = o
      BY <1>0, <1>5 DEF Visit, Goto, At, ledgerVars, Ready, Fenced, WriterAgrees, Active
    <2>2. ChangesHold'
      BY <2>1 DEF Ready, Records, ChangesHold, ChangeOf
    <2>3. row[o].kind \in {"apply", "undo"}
      BY <2>1 DEF Ready, Records, RowsHold, Fenced, TypeOK, LedgerTypeOK, Row
    <2>4. \A v \in Writers : v # w => pc'[v] = "down"
      BY <1>0, <1>5, <2>1, OneAlive DEF Ready, Visit, Goto
    <2>5. \A v \in Writers : pc'[v] \in WorkPcs => v = w
      BY <2>4 DEF WorkPcs
    <2>6. row[o].kind = "apply" => change[o] \in StatusAt(pc'[w])
      BY <1>0, <2>1 DEF StatusAt
    <2>7. pc'[w] \notin UndoPcs => row[o].kind = "apply"
      BY <2>1, <2>3 DEF UndoPcs
    <2>8. WorkHolds'
      BY <2>1, <2>5, <2>6, <2>7 DEF WorkHolds
    <2> QED
      BY <2>2, <2>8
  <1> QED
    BY <1>1, <1>2, <1>3, <1>4, <1>5

-----------------------------------------------------------------------------
(* One apply at a time, and change rows that tell how each write ended.     *)

LEMMA RecordsStep ==
  ASSUME Ready, [Next]_vars, losses' = 0
  PROVE  Records'
  <1>1. Steady /\ LifeStep /\ Calm
    BY StepHeld, StepKept, StepCalm DEF Ready, Held, Kept
  <1>2. RowsHold' /\ InOrder' /\ UndosHold'
    BY <1>1, RowsStep
  <1>3. ASSUME NEW w \in Writers, WriterStep(w) \/ Start(w) \/ Poll(w)
        PROVE  ChangesHold' /\ WorkHolds'
    <2>1. CASE ClearMissing(w) \/ RunCommand(w) \/ CommandFails(w) \/ Poll(w)
      BY <1>1, <2>1, RestChange DEF ClearMissing, RunCommand, CommandFails, CommandRest, Poll,
         ledgerVars, writerVars
    <2> QED
      BY <1>1, <1>3, <2>1, ClaimChange, ApplyStartsChange, ApplyEndsChange, UndoChange,
         VisitChange, RestartChange DEF WriterStep
  <1>4. ChangesHold' /\ WorkHolds'
    BY <1>1, <1>3, CoordinateChange, EnvironmentChange DEF Next
  <1> QED
    BY <1>2, <1>4 DEF Records

LEMMA RecordsInit == Init => Records
  <1> SUFFICES ASSUME Init PROVE Records
    OBVIOUS
  <1>1. \A o \in Ops : row[o].kind = "none" /\ opState[o] = "none" /\ change[o] = "none"
    BY DEF Init, BlankRow
  <1>2. RowsHold /\ InOrder /\ UndosHold /\ ChangesHold
    BY <1>1 DEF Init, RowsHold, InOrder, UndosHold, ChangesHold
  <1>3. WorkHolds
    BY DEF Init, WorkHolds, WorkPcs
  <1> QED
    BY <1>2, <1>3 DEF Records

\* Until a connection is lost, the change rows and the processes agree.
FencedRecords == losses = 0 => Records

LEMMA RecordsNext ==
  TypeOK /\ WorkRecorded /\ WriterAgrees /\ LedgerAgrees /\ Known /\ FencedRecords /\ [Next]_vars
    => FencedRecords'
  <1> SUFFICES ASSUME TypeOK, WorkRecorded, WriterAgrees, LedgerAgrees, Known, FencedRecords,
                      [Next]_vars, losses' = 0
               PROVE  Records'
    BY DEF FencedRecords
  <1>1. losses = 0
    BY LossesGrow DEF TypeOK, EnvTypeOK
  <1> QED
    BY <1>1, RecordsStep DEF Ready, Fenced, FencedRecords

LEMMA RecordsAlways == Spec => []FencedRecords
  <1>1. Init => FencedRecords
    BY RecordsInit DEF FencedRecords
  <1> QED
    BY <1>1, RecordsNext, TypeCorrect, LedgerStaysConsistent, KnownAlways, PTL DEF Spec

\* Until a connection is lost, at most one apply is in flight, for every number
\* of concurrent requests, of pilots and of redeployments: whatever is older
\* than an apply had its outcome when it was reserved, and outcomes are final.
THEOREM OneApplyAtATime == Spec => []SingleApply
  <1>1. TypeOK /\ FencedRecords => SingleApply
    <2> SUFFICES ASSUME TypeOK, Records, losses = 0, NEW o \in Ops, NEW p \in Ops,
                        Nonterminal(o), Nonterminal(p),
                        row[o].kind = "apply", row[p].kind = "apply", o # p
                 PROVE  FALSE
      BY DEF FencedRecords, SingleApply
    <2>1. o < p \/ p < o
      BY MaxOpsAssumption DEF Ops
    <2>2. opState[o] \in Terminal \/ opState[p] \in Terminal
      BY <2>1 DEF Records, InOrder
    <2> QED
      BY <2>2 DEF Nonterminal, Terminal, Active
  <1> QED
    BY <1>1, RecordsAlways, TypeCorrect, PTL

\* Until a connection is lost, the change row tells how the write of its
\* operation ended, wherever the writer crashed between the two commits and
\* whatever the owner of the library edited.
THEOREM ChangesTellOutcomes == Spec => []ChangeAgrees
  <1>1. FencedRecords => ChangeAgrees
    <2> SUFFICES ASSUME Records, losses = 0, NEW o \in Ops, row[o].kind = "apply"
                 PROVE  CASE opState[o] \in {"requested", "claimed", "failed"} -> change[o] = "none"
                          [] opState[o] = "succeeded" ->
                                \/ change[o] \in {"applied", "undone"}
                                \/ change[o] = "none" /\ row[o].patch = {"cover"}
                          [] opState[o] = "restored" -> change[o] \in {"none", "failed_rolled_back"}
                          [] opState[o] = "restore_failed" -> change[o] = "failed_rollback_failed"
                          [] OTHER -> TRUE
      BY DEF FencedRecords, ChangeAgrees
    <2>1. ChangeOf(o)
      BY DEF Records, ChangesHold
    <2> QED
      BY <2>1 DEF ChangeOf
  <1> QED
    BY <1>1, RecordsAlways, PTL

\* No process, fenced or not, changes a book before its restore point is
\* committed; and until a connection is lost a book changes only under its lock,
\* by an operation in state writing, for an undo one of a change still applied.
THEOREM WritesHaveRestorePoints == Spec => WritesAreRecoverable
  <1> DEFINE Safe == Commanded =>
         /\ \A w \in Writers : Commanding(w) => RestorePointCommitted(w)
         /\ losses = 0 => \A b \in Books : live'[b] # live[b] =>
               /\ lock[b] # NoOp
               /\ opState[lock[b]] = "writing"
               /\ IF row[lock[b]].kind = "apply"
                  THEN change[lock[b]] # "none"
                  ELSE change[row[lock[b]].change] = "applied"
  <1>1. ASSUME Known, WriterAgrees, LedgerAgrees, FencedRecords, [Next]_vars, Commanded
        PROVE  Safe
    <2>1. ASSUME NEW w \in Writers, Commanding(w)
          PROVE  RestorePointCommitted(w)
      <3>1. /\ pc[w] \in {"undo", "undo_rollback"} => opState[wop[w]] \in Committed
            /\ pc[w] \in {"apply", "rollback", "restore"} => change[wop[w]] # "none"
        <4>1. /\ pc[w] \in {"undo", "undo_rollback"} => pc[w] \in WritePcs
              /\ pc[w] \in {"apply", "rollback", "restore"} => pc[w] \in ChangePcs
          BY PcSets DEF ChangePcs
        <4> QED
          BY <1>1, <4>1 DEF Known, Holds, ProcessHolds
      <3>2. pc[w] \in CommandPcs
        BY <2>1 DEF Commanding
      <3> QED
        BY <3>1, <3>2 DEF RestorePointCommitted, Committed, CommandPcs
    <2>2. ASSUME losses = 0, NEW b \in Books, live'[b] # live[b]
          PROVE  /\ lock[b] # NoOp
                 /\ opState[lock[b]] = "writing"
                 /\ IF row[lock[b]].kind = "apply"
                    THEN change[lock[b]] # "none"
                    ELSE change[row[lock[b]].change] = "applied"
      <3>0. Ready
        BY <1>1, <2>2 DEF Ready, Fenced, Known, FencedRecords
      <3>1. PICK w \in Writers : ClearMissing(w) \/ RunCommand(w) \/ CommandFails(w)
        BY <1>1, <2>2, LiveSteps DEF Known, Commanded
      <3>2. Commanding(w) /\ Book(w) = b
        BY <2>2, <3>1, CommandBook, <1>1 DEF Known
      <3>3. pc[w] \in CommandPcs /\ pc[w] \in WorkPcs /\ pc[w] \notin ClaimedPcs
        BY <3>2 DEF Commanding, CommandPcs, WorkPcs, ClaimedPcs, Pcs
      <3>4. wop[w] \in Ops /\ opState[wop[w]] = "writing"
        BY <3>0, <3>3, HandChange
      <3>5. lock[b] = wop[w]
        BY <3>0, <3>2, <3>4 DEF Ready, Fenced, LedgerAgrees, Book, Active
      <3>6. IF row[wop[w]].kind = "apply" THEN change[wop[w]] # "none"
            ELSE change[row[wop[w]].change] = "applied"
        <4>1. CASE pc[w] \in UndoPcs
          BY <3>0, <3>3, <3>4, <4>1, HandChange DEF Ready, Records, ChangesHold
        <4>2. CASE pc[w] \notin UndoPcs
          <5>1. row[wop[w]].kind = "apply" /\ change[wop[w]] \in StatusAt(pc[w])
            BY <3>0, <3>3, <4>2, HandChange
          <5> QED
            BY <3>3, <4>2, <5>1 DEF StatusAt, CommandPcs, UndoPcs
        <4> QED
          BY <4>1, <4>2
      <3> QED
        BY <3>4, <3>5, <3>6, NoOpFresh
    <2> QED
      BY <2>1, <2>2
  <1>2. Known /\ WriterAgrees /\ LedgerAgrees /\ FencedRecords /\ [Next]_vars => [Safe]_vars
    BY <1>1
  <1> QED
    BY <1>2, RecordsAlways, LedgerStaysConsistent, KnownAlways, PTL
       DEF Spec, WritesAreRecoverable

-----------------------------------------------------------------------------
(* The library, as long as nobody else edits it. The verdicts of the writer *)
(* compare what it reads with what was recorded before the write, so that   *)
(* nothing has to be known of the commands in between.                      *)

Text == {"opf", "custom"}

\* What the changes of the book other than o say.
RecordedBut(o, b, p) ==
    IF \E c \in Ops \ {o} : row[c].kind = "apply" /\ row[c].book = b
                            /\ change[c] = "applied" /\ p \in row[c].patch
    THEN "new" ELSE "old"

Sound(b) ==
    /\ \A o \in Ops : row[o].book = b => opState[o] \notin {"unknown", "restore_failed"}
    /\ ~UndoneOutOfOrder(b)

\* No later operation of the book has got a change row.
Last(c) ==
    \A d \in Ops : c < d /\ row[d].book = row[c].book => change[d] = "none"

\* A book without a write in progress holds what the changes say.
AtRest(b) ==
    lock[b] = NoOp \/ opState[lock[b]] = "claimed" =>
        \A p \in Text : live[b][p] = Recorded(b, p)

\* What was observed before a write, and before the last change of a book, is
\* what the other changes say.
Evidence(o) ==
    /\ row[o].kind = "apply" /\ (opState[o] = "writing" \/ (change[o] = "applied" /\ Last(o)))
          => \A p \in Text : before[o][p] = RecordedBut(o, row[o].book, p)
    /\ row[o].kind = "undo" /\ opState[o] = "writing"
          => \A p \in Text : before[o][p] = Recorded(row[o].book, p)
    /\ row[o].kind = "apply" /\ opState[o] = "writing" /\ "custom" \notin row[o].patch
          => live[row[o].book]["custom"] = before[o]["custom"]

\* The commands leave a column alone that is not patched, and a rollback that
\* was found complete is.
Restores(w) ==
    /\ pc[w] \in {"apply", "rollback", "restore"} /\ "custom" \notin row[wop[w]].patch
          => plan[w]["custom"] = Keep
    /\ pc[w] = "rolled" /\ change[wop[w]] = "failed_rolled_back" /\ Sound(row[wop[w]].book)
          => MatchesBefore(live[row[wop[w]].book], before[wop[w]])

BooksRest     == \A b \in Books : Sound(b) => AtRest(b)
EvidenceHolds == \A o \in Ops : Sound(row[o].book) => Evidence(o)
RestoresHold  == \A w \in Writers : Restores(w)

LibraryHolds == BooksRest /\ EvidenceHolds /\ RestoresHold

\* What every step may assume.
LibStep == Ready /\ LibraryHolds /\ edits = 0 /\ edits' = 0 /\ Steady /\ LifeStep

\* What makes a book unsound stays.
LEMMA SoundBack ==
  ASSUME LibStep, NEW b \in Books, Sound(b)'
  PROVE  Sound(b)
  <1>1. ASSUME NEW o \in Ops, row[o].book = b, opState[o] \in {"unknown", "restore_failed"}
        PROVE  FALSE
    <2>1. opState'[o] = opState[o] /\ row'[o] = row[o]
      BY <1>1, OutcomesFinal DEF LibStep, Steady, Ready, Fenced, Terminal
    <2> QED
      BY <1>1, <2>1 DEF Sound
  <1>2. ASSUME UndoneOutOfOrder(b)
        PROVE  FALSE
    <2>1. PICK c \in Ops, d \in Ops, u \in Ops :
            /\ c < d /\ d < u
            /\ row[u].kind = "undo" /\ row[u].book = b /\ row[u].change = c
            /\ opState[u] = "succeeded"
            /\ row[d].book = b /\ change[d] # "none"
      BY <1>2 DEF UndoneOutOfOrder
    <2>2. row'[u] = row[u] /\ opState'[u] = "succeeded"
      BY <2>1, OutcomesFinal DEF LibStep, Steady, Ready, Fenced, Terminal
    <2>3. row[d].kind = "apply" /\ opState[d] # "none"
      BY <2>1 DEF LibStep, Ready, Records, ChangesHold, RowsHold
    <2>4. row'[d] = row[d] /\ change'[d] # "none"
      BY <2>1, <2>3 DEF LibStep, Steady
    <2> QED
      BY <2>1, <2>2, <2>4 DEF Sound, UndoneOutOfOrder
  <1> QED
    BY <1>1, <1>2 DEF Sound

\* What the changes of a book say, when they do not change.
LEMMA RecordedSame ==
  ASSUME row' = row, NEW b, NEW p, NEW o,
         \A x \in Ops : x # o /\ row[x].book = b => change'[x] = change[x]
  PROVE  /\ RecordedBut(o, b, p)' = RecordedBut(o, b, p)
         /\ change'[o] = change[o] => Recorded(b, p)' = Recorded(b, p)
  BY DEF RecordedBut, Recorded

\* The share of one change in what the changes say.
LEMMA RecordedWith ==
  ASSUME NEW o \in Ops, NEW p
  PROVE  Recorded(row[o].book, p) =
            IF row[o].kind = "apply" /\ change[o] = "applied" /\ p \in row[o].patch THEN "new"
            ELSE RecordedBut(o, row[o].book, p)
  BY DEF RecordedBut, Recorded

\* One operation moves, and only the lock of its book.
Touches(o) ==
    /\ row' = row /\ live' = live
    /\ \A x \in Ops : x # o => opState'[x] = opState[x] /\ before'[x] = before[x]
    /\ \A d \in Books : d # row[o].book => lock'[d] = lock[d]

\* The other books do not notice.
LEMMA OtherBooks ==
  ASSUME LibStep, NEW o \in Ops, Touches(o),
         \A x \in Ops : row[x].book # row[o].book => change'[x] = change[x]
  PROVE  /\ \A d \in Books : d # row[o].book /\ Sound(d)' => AtRest(d)'
         /\ \A x \in Ops : row[x].book # row[o].book /\ Sound(row[x].book)' => Evidence(x)'
  <1>1. ASSUME NEW d \in Books, d # row[o].book, Sound(d)'
        PROVE  AtRest(d)'
    <2>1. Sound(d) /\ AtRest(d)
      BY <1>1, SoundBack DEF LibStep, LibraryHolds, BooksRest
    <2>2. lock'[d] = lock[d] /\ (lock[d] # NoOp => lock[d] \in Ops /\ lock[d] # o)
      BY <1>1 DEF Touches, LibStep, Ready, Fenced, LedgerAgrees, TypeOK, LedgerTypeOK
    <2>3. lock[d] # NoOp => opState'[lock[d]] = opState[lock[d]]
      BY <2>2 DEF Touches
    <2>4. \A p \in Text : Recorded(d, p)' = Recorded(d, p)
      BY <1>1 DEF Recorded, Touches
    <2> QED
      BY <2>1, <2>2, <2>3, <2>4 DEF AtRest, Touches
  <1>2. ASSUME NEW x \in Ops, row[x].book # row[o].book, Sound(row[x].book)'
        PROVE  Evidence(x)'
    <2>1. PICK b \in Books : b = row[x].book
      BY DEF LibStep, Ready, Fenced, TypeOK, LedgerTypeOK, Row
    <2>2. row' = row /\ live' = live
      BY DEF Touches
    <2>3. Sound(b)'
      BY <1>2, <2>1, <2>2 DEF Sound, UndoneOutOfOrder
    <2>4. Evidence(x)
      BY <2>1, <2>3, SoundBack DEF LibStep, LibraryHolds, EvidenceHolds
    <2>5. x # o /\ opState'[x] = opState[x] /\ before'[x] = before[x] /\ change'[x] = change[x]
      BY <1>2 DEF Touches
    <2>6. \A p \in Text : /\ Recorded(b, p)' = Recorded(b, p)
                          /\ RecordedBut(x, b, p)' = RecordedBut(x, b, p)
      BY <1>2, <2>1, <2>2 DEF Recorded, RecordedBut
    <2>7. Last(x)' => Last(x)
      BY <1>2, <2>2 DEF Last
    <2> QED
      BY <2>1, <2>2, <2>4, <2>5, <2>6, <2>7 DEF Evidence
  <1> QED
    BY <1>1, <1>2

\* Its own book: the other operations of the book are closed, and an older change
\* is no longer the last one.
LEMMA SameBook ==
  ASSUME LibStep, NEW o \in Ops, Touches(o), row[o].kind = "apply", opState[o] = "writing",
         NEW t, change' = [change EXCEPT ![o] = t], t = change[o] \/ t # "none",
         NEW x \in Ops, x # o, row[x].book = row[o].book, Sound(row[x].book)'
  PROVE  Evidence(x)'
  <1>1. PICK b \in Books : b = row[x].book
    BY DEF LibStep, Ready, Fenced, TypeOK, LedgerTypeOK, Row
  <1>2. row' = row /\ live' = live /\ opState'[x] = opState[x] /\ before'[x] = before[x]
    BY DEF Touches
  <1>3. Evidence(x)
    <2>1. Sound(b)'
      BY <1>1, <1>2 DEF Sound, UndoneOutOfOrder
    <2> QED
      BY <1>1, <2>1, SoundBack DEF LibStep, LibraryHolds, EvidenceHolds
  <1>4. opState[x] # "writing"
    BY LocksExclude DEF LibStep, Ready, Active
  <1>5. change \in [Ops -> ChangeStates]
    BY DEF LibStep, Ready, Fenced, TypeOK, LedgerTypeOK
  <1>6. ASSUME row[x].kind = "apply", change'[x] = "applied", Last(x)'
        PROVE  \A p \in Text : before'[x][p] = RecordedBut(x, b, p)'
    <2>1. x < o
      BY <1>4, <1>6, MaxOpsAssumption DEF LibStep, Ready, Records, InOrder, Terminal, Ops
    <2>2. t = change[o]
      BY <1>2, <1>5, <1>6, <2>1 DEF Last
    <2>3. change' = change
      BY <1>5, <2>2
    <2>4. Last(x)
      BY <1>2, <1>6, <2>3 DEF Last
    <2>5. \A p \in Text : RecordedBut(x, b, p)' = RecordedBut(x, b, p)
      BY <1>2, <2>3 DEF RecordedBut
    <2> QED
      BY <1>1, <1>2, <1>3, <1>6, <2>3, <2>4, <2>5 DEF Evidence
  <1> QED
    BY <1>1, <1>2, <1>4, <1>6 DEF Evidence

\* A process moves on in the middle of a write.
LEMMA WritingMoves ==
  ASSUME LibStep, NEW o \in Ops, Touches(o), row[o].kind = "apply", opState[o] = "writing",
         UNCHANGED <<opState, before, lock>>,
         NEW t, change' = [change EXCEPT ![o] = t], t = change[o] \/ t # "none"
  PROVE  BooksRest' /\ EvidenceHolds'
  <1>0. row' = row /\ live' = live /\ change \in [Ops -> ChangeStates]
    BY DEF Touches, LibStep, Ready, Fenced, TypeOK, LedgerTypeOK
  <1>1. PICK b \in Books : b = row[o].book
    BY DEF LibStep, Ready, Fenced, TypeOK, LedgerTypeOK, Row
  <1>2. \A x \in Ops : x # o => change'[x] = change[x]
    BY <1>0
  <1>3. lock[b] = o /\ opState'[lock'[b]] = "writing" /\ o # NoOp
    BY <1>1, NoOpFresh DEF LibStep, Ready, Fenced, LedgerAgrees, Active
  <1>4. BooksRest'
    BY <1>1, <1>2, <1>3, OtherBooks DEF BooksRest, AtRest
  <1>5. ASSUME Sound(b)'
        PROVE  Evidence(o)'
    <2>1. Evidence(o)
      BY <1>1, <1>5, SoundBack DEF LibStep, LibraryHolds, EvidenceHolds
    <2>2. \A p \in Text : RecordedBut(o, b, p)' = RecordedBut(o, b, p)
      BY <1>0, <1>2 DEF RecordedBut
    <2> QED
      BY <1>0, <1>1, <2>1, <2>2 DEF Evidence
  <1>6. ASSUME NEW x \in Ops, Sound(row[x].book)'
        PROVE  Evidence(x)'
    <2>1. CASE x = o
      <3>1. Sound(b)'
        BY <1>0, <1>1, <1>6, <2>1 DEF Sound, UndoneOutOfOrder
      <3> QED
        BY <1>5, <2>1, <3>1
    <2>2. CASE x # o /\ row[x].book = row[o].book
      BY <1>6, <2>2, SameBook
    <2>3. CASE row[x].book # row[o].book
      BY <1>2, <1>6, <2>3, OtherBooks
    <2> QED
      BY <2>1, <2>2, <2>3
  <1> QED
    BY <1>4, <1>6 DEF EvidenceHolds

\* An apply is closed: its book holds the target or what was there before.
LEMMA CloseLibrary ==
  ASSUME LibStep, NEW o \in Ops, Touches(o), row[o].kind = "apply", opState[o] = "writing",
         UNCHANGED before, NEW s, opState'[o] = s, s \in Terminal \ {"failed"},
         NEW t, change' = [change EXCEPT ![o] = t], t = change[o] \/ t # "none",
         s = "succeeded" => /\ MatchesTarget(live[row[o].book], before[o], row[o].patch)
                            /\ t = "applied" \/ row[o].patch = {"cover"},
         s = "restored" /\ Sound(row[o].book) =>
            /\ MatchesBefore(live[row[o].book], before[o])
            /\ t # "applied"
  PROVE  BooksRest' /\ EvidenceHolds'
  <1>0. row' = row /\ live' = live /\ change \in [Ops -> ChangeStates]
    BY DEF Touches, LibStep, Ready, Fenced, TypeOK, LedgerTypeOK
  <1>1. PICK b \in Books : b = row[o].book
    BY DEF LibStep, Ready, Fenced, TypeOK, LedgerTypeOK, Row
  <1>2. change'[o] = t /\ \A x \in Ops : x # o => change'[x] = change[x]
    BY <1>0
  <1>3. ASSUME Sound(b)'
        PROVE  AtRest(b)' /\ Evidence(o)'
    <2>1. Sound(b) /\ Evidence(o)
      BY <1>1, <1>3, SoundBack DEF LibStep, LibraryHolds, EvidenceHolds
    <2>2. s \in {"succeeded", "restored"}
      BY <1>0, <1>1, <1>3 DEF Sound, Terminal
    <2>3. \A p \in Text : /\ before[o][p] = RecordedBut(o, b, p)
                          /\ RecordedBut(o, b, p)' = RecordedBut(o, b, p)
      BY <1>0, <1>1, <1>2, <2>1 DEF Evidence, RecordedBut
    <2>4. \A p \in Text : Recorded(b, p)' = IF t = "applied" /\ p \in row[o].patch THEN "new"
                                            ELSE RecordedBut(o, b, p)
      BY <1>0, <1>1, <1>2 DEF Recorded, RecordedBut
    <2>5. \A p \in Text : live[b][p] = Recorded(b, p)'
      <3>1. CASE s = "succeeded"
        BY <1>1, <2>3, <2>4, <3>1 DEF MatchesTarget, Text
      <3>2. CASE s = "restored"
        BY <1>1, <2>1, <2>3, <2>4, <3>2 DEF MatchesBefore, Text
      <3> QED
        BY <2>2, <3>1, <3>2
    <2>6. AtRest(b)'
      BY <1>0, <2>5 DEF AtRest
    <2>7. Evidence(o)'
      BY <1>0, <1>1, <2>2, <2>3 DEF Evidence
    <2> QED
      BY <2>6, <2>7
  <1>4. BooksRest'
    BY <1>1, <1>2, <1>3, OtherBooks DEF BooksRest
  <1>5. ASSUME NEW x \in Ops, Sound(row[x].book)'
        PROVE  Evidence(x)'
    <2>1. CASE x = o
      <3>1. Sound(b)'
        BY <1>0, <1>1, <1>5, <2>1 DEF Sound, UndoneOutOfOrder
      <3> QED
        BY <1>3, <2>1, <3>1
    <2>2. CASE x # o /\ row[x].book = row[o].book
      BY <1>5, <2>2, SameBook
    <2>3. CASE row[x].book # row[o].book
      BY <1>2, <1>5, <2>3, OtherBooks
    <2> QED
      BY <2>1, <2>2, <2>3
  <1> QED
    BY <1>4, <1>5 DEF EvidenceHolds

\* One operation moves and no change row does.
LEMMA ChangesStay ==
  ASSUME LibStep, NEW o \in Ops, Touches(o), UNCHANGED change,
         Sound(row[o].book)' => AtRest(row[o].book)' /\ Evidence(o)'
  PROVE  BooksRest' /\ EvidenceHolds'
  <1>0. row' = row /\ live' = live
    BY DEF Touches
  <1>1. PICK b \in Books : b = row[o].book
    BY DEF LibStep, Ready, Fenced, TypeOK, LedgerTypeOK, Row
  <1>2. Sound(b)' => AtRest(b)' /\ Evidence(o)'
    BY <1>0, <1>1 DEF Sound, UndoneOutOfOrder, AtRest, Recorded
  <1>3. BooksRest'
    BY <1>1, <1>2, OtherBooks DEF BooksRest
  <1>4. ASSUME NEW x \in Ops, Sound(row[x].book)'
        PROVE  Evidence(x)'
    <2>1. CASE x = o
      BY <1>4, <2>1
    <2>2. CASE x # o
      <3>1. PICK d \in Books : d = row[x].book
        BY DEF LibStep, Ready, Fenced, TypeOK, LedgerTypeOK, Row
      <3>2. Sound(d)'
        BY <1>0, <1>4, <3>1 DEF Sound, UndoneOutOfOrder
      <3>3. Evidence(x)
        BY <3>1, <3>2, SoundBack DEF LibStep, LibraryHolds, EvidenceHolds
      <3>4. opState'[x] = opState[x] /\ before'[x] = before[x]
        BY <2>2 DEF Touches
      <3>5. \A p \in Text : /\ Recorded(d, p)' = Recorded(d, p)
                            /\ RecordedBut(x, d, p)' = RecordedBut(x, d, p)
        BY <1>0 DEF Recorded, RecordedBut
      <3>6. Last(x)' => Last(x)
        BY <1>0 DEF Last
      <3> QED
        BY <1>0, <3>1, <3>3, <3>4, <3>5, <3>6 DEF Evidence
    <2> QED
      BY <2>1, <2>2
  <1> QED
    BY <1>3, <1>4 DEF EvidenceHolds

\* Claims, claims that are released and claims that fail.
LEMMA ClaimLibrary ==
  ASSUME LibStep, NEW o \in Ops, Touches(o), UNCHANGED change,
         opState[o] \in {"requested", "claimed"},
         lock[row[o].book] = NoOp \/ opState[lock[row[o].book]] = "claimed",
         opState'[o] # "writing"
  PROVE  BooksRest' /\ EvidenceHolds'
  <1>0. row' = row /\ live' = live
    BY DEF Touches
  <1>1. PICK b \in Books : b = row[o].book
    BY DEF LibStep, Ready, Fenced, TypeOK, LedgerTypeOK, Row
  <1>2. ASSUME Sound(b)'
        PROVE  AtRest(b)' /\ Evidence(o)'
    <2>1. AtRest(b)
      BY <1>2, SoundBack DEF LibStep, LibraryHolds, BooksRest
    <2>2. AtRest(b)'
      BY <1>0, <1>1, <2>1 DEF AtRest, Recorded
    <2>3. row[o].kind = "apply" => change[o] = "none"
      BY DEF LibStep, Ready, Records, ChangesHold, ChangeOf
    <2>4. Evidence(o)'
      BY <1>0, <2>3 DEF Evidence
    <2> QED
      BY <2>2, <2>4
  <1>3. Sound(row[o].book)' => AtRest(row[o].book)' /\ Evidence(o)'
    BY <1>0, <1>1, <1>2 DEF Sound, UndoneOutOfOrder, AtRest, Recorded
  <1> QED
    BY <1>3, ChangesStay

\* The evidence is committed, with the move to writing.
LEMMA WriteLibrary ==
  ASSUME LibStep, NEW o \in Ops, Touches(o), UNCHANGED <<change, lock>>,
         opState[o] = "claimed", opState'[o] = "writing",
         before'[o] = live[row[o].book]
  PROVE  BooksRest' /\ EvidenceHolds'
  <1>0. row' = row /\ live' = live
    BY DEF Touches
  <1>1. PICK b \in Books : b = row[o].book
    BY DEF LibStep, Ready, Fenced, TypeOK, LedgerTypeOK, Row
  <1>2. lock[b] = o /\ o # NoOp
    BY <1>1, NoOpFresh DEF LibStep, Ready, Fenced, LedgerAgrees, Active
  <1>3. ASSUME Sound(b)'
        PROVE  AtRest(b)' /\ Evidence(o)'
    <2>1. \A p \in Text : live[b][p] = Recorded(b, p)
      BY <1>2, <1>3, SoundBack DEF LibStep, LibraryHolds, BooksRest, AtRest
    <2>2. row[o].kind = "apply" => change[o] = "none"
      BY DEF LibStep, Ready, Records, ChangesHold, ChangeOf
    <2>3. \A p \in Text : /\ Recorded(b, p)' = Recorded(b, p)
                          /\ row[o].kind = "apply" =>
                                RecordedBut(o, b, p)' = Recorded(b, p)
      BY <1>0, <2>2 DEF Recorded, RecordedBut
    <2>4. AtRest(b)'
      BY <1>2 DEF AtRest
    <2>5. Evidence(o)'
      BY <1>0, <1>1, <2>1, <2>2, <2>3 DEF Evidence
    <2> QED
      BY <2>4, <2>5
  <1>4. Sound(row[o].book)' => AtRest(row[o].book)' /\ Evidence(o)'
    BY <1>0, <1>1, <1>3 DEF Sound, UndoneOutOfOrder, AtRest, Recorded
  <1> QED
    BY <1>4, ChangesStay

\* An undo that took nothing back, or of which nothing is known.
LEMMA CloseUndoLibrary ==
  ASSUME LibStep, NEW o \in Ops, Touches(o), UNCHANGED <<change, before>>,
         row[o].kind = "undo", opState[o] = "writing",
         opState'[o] \in {"restored", "restore_failed", "unknown"},
         opState'[o] = "restored" => MatchesBefore(live[row[o].book], before[o])
  PROVE  BooksRest' /\ EvidenceHolds'
  <1>0. row' = row /\ live' = live
    BY DEF Touches
  <1>1. PICK b \in Books : b = row[o].book
    BY DEF LibStep, Ready, Fenced, TypeOK, LedgerTypeOK, Row
  <1>2. ASSUME Sound(b)'
        PROVE  AtRest(b)' /\ Evidence(o)'
    <2>1. Evidence(o)
      BY <1>1, <1>2, SoundBack DEF LibStep, LibraryHolds, EvidenceHolds
    <2>2. opState'[o] = "restored"
      BY <1>0, <1>1, <1>2 DEF Sound
    <2>3. \A p \in Text : live[b][p] = Recorded(b, p)
      BY <1>1, <2>1, <2>2 DEF Evidence, MatchesBefore, Text
    <2>4. AtRest(b)'
      BY <1>0, <2>3 DEF AtRest, Recorded
    <2>5. Evidence(o)'
      BY <1>0, <2>2 DEF Evidence
    <2> QED
      BY <2>4, <2>5
  <1>3. Sound(row[o].book)' => AtRest(row[o].book)' /\ Evidence(o)'
    BY <1>0, <1>1, <1>2 DEF Sound, UndoneOutOfOrder, AtRest, Recorded
  <1> QED
    BY <1>3, ChangesStay

\* A change is undone: unless it was the last one of its book, the book is
\* no longer sound.
LEMMA UndoneLibrary ==
  ASSUME LibStep, NEW u \in Ops, Touches(u), UNCHANGED before,
         row[u].kind = "undo", opState[u] = "writing", opState'[u] = "succeeded",
         change' = [change EXCEPT ![row[u].change] = "undone"],
         MatchesBefore(live[row[u].book], before[row[u].change])
  PROVE  BooksRest' /\ EvidenceHolds'
  <1>0. row' = row /\ live' = live /\ change \in [Ops -> ChangeStates]
    BY DEF Touches, LibStep, Ready, Fenced, TypeOK, LedgerTypeOK
  <1>1. PICK b \in Books : b = row[u].book
    BY DEF LibStep, Ready, Fenced, TypeOK, LedgerTypeOK, Row
  <1>2. PICK c \in Ops : /\ c = row[u].change /\ c < u /\ row[c].kind = "apply"
                         /\ row[c].book = b /\ change[c] = "applied"
    BY <1>1 DEF LibStep, Ready, Records, UndosHold, ChangesHold
  <1>3. change'[c] = "undone" /\ \A x \in Ops : x # c => change'[x] = change[x]
    BY <1>0, <1>2
  <1>4. \A x \in Ops : row[x].book = b /\ opState[x] = "writing" => x = u
    BY <1>1, LocksExclude DEF LibStep, Ready, Active
  <1>5. ASSUME Sound(b)'
        PROVE  Last(c)
    <2> SUFFICES ASSUME NEW d \in Ops, c < d, row[d].book = b, change[d] # "none"
                 PROVE  FALSE
      BY <1>2 DEF Last
    <2>1. row[d].kind = "apply"
      BY DEF LibStep, Ready, Records, ChangesHold
    <2>2. d # u /\ ~(u < d)
      BY <2>1 DEF LibStep, Ready, Records, InOrder, Terminal
    <2>3. d < u /\ d # c
      BY <2>2, MaxOpsAssumption DEF Ops
    <2>4. UndoneOutOfOrder(b)'
      BY <1>0, <1>1, <1>2, <1>3, <2>3 DEF UndoneOutOfOrder
    <2> QED
      BY <1>5, <2>4 DEF Sound
  <1>6. ASSUME Sound(b)'
        PROVE  AtRest(b)'
    <2>1. Evidence(c)
      BY <1>2, <1>6, SoundBack DEF LibStep, LibraryHolds, EvidenceHolds
    <2>2. \A p \in Text : before[c][p] = RecordedBut(c, b, p)
      BY <1>2, <1>5, <1>6, <2>1 DEF Evidence
    <2>3. \A p \in Text : Recorded(b, p)' = RecordedBut(c, b, p)
      BY <1>0, <1>2, <1>3 DEF Recorded, RecordedBut
    <2>4. \A p \in Text : live[b][p] = before[c][p]
      BY <1>1, <1>2 DEF MatchesBefore, Text
    <2> QED
      BY <1>0, <2>2, <2>3, <2>4 DEF AtRest
  <1>7. \A x \in Ops : row[x].book # row[u].book => change'[x] = change[x]
    BY <1>1, <1>2, <1>3
  <1>8. BooksRest'
    BY <1>1, <1>6, <1>7, OtherBooks DEF BooksRest
  <1>9. ASSUME NEW x \in Ops, Sound(row[x].book)', row[x].book = b
        PROVE  Evidence(x)'
    <2>1. Sound(b)'
      BY <1>0, <1>9 DEF Sound, UndoneOutOfOrder
    <2>2. opState'[x] # "writing"
      BY <1>4, <1>9 DEF Touches
    <2>3. row[x].kind = "apply" /\ change'[x] = "applied" => ~Last(x)'
      <3> SUFFICES ASSUME row[x].kind = "apply", change'[x] = "applied", Last(x)'
                   PROVE  FALSE
        OBVIOUS
      <3>1. x # c /\ change[x] = "applied"
        BY <1>3
      <3>2. ~(x < c)
        BY <1>0, <1>2, <1>3, <1>9 DEF Last
      <3>3. ~(c < x)
        BY <1>2, <1>5, <1>9, <2>1, <3>1 DEF Last
      <3> QED
        BY <3>1, <3>2, <3>3, MaxOpsAssumption DEF Ops
    <2> QED
      BY <1>0, <2>2, <2>3 DEF Evidence
  <1> QED
    BY <1>1, <1>7, <1>8, <1>9, OtherBooks DEF EvidenceHolds, Touches

\* A new row has no change yet.
LEMMA CreateLibrary ==
  ASSUME LibStep, NEW r, CreateOperation(r), UNCHANGED live
  PROVE  BooksRest' /\ EvidenceHolds'
  <1>1. PICK n \in Ops :
          /\ opState[n] = "none"
          /\ row'     = [row EXCEPT ![n] = r]
          /\ opState' = [opState EXCEPT ![n] = "requested"]
          /\ UNCHANGED <<lock, before, change>>
    BY DEF CreateOperation
  <1>2. row \in [Ops -> Row] /\ opState \in [Ops -> OpStates]
        /\ lock \in [Books -> Ops \cup {NoOp}]
    BY DEF LibStep, Ready, Fenced, TypeOK, LedgerTypeOK
  <1>3. row[n].kind = "none" /\ change[n] = "none"
    BY <1>1 DEF LibStep, Ready, Records, RowsHold, ChangesHold
  <1>4. /\ row'[n] = r /\ opState'[n] = "requested"
        /\ \A x \in Ops : x # n => row'[x] = row[x] /\ opState'[x] = opState[x]
    BY <1>1, <1>2
  <1>5. \A d, p : Recorded(d, p)' = Recorded(d, p)
    BY <1>1, <1>3, <1>4 DEF Recorded
  <1>6. ASSUME NEW d \in Books, Sound(d)'
        PROVE  AtRest(d)'
    <2>1. AtRest(d)
      BY <1>6, SoundBack DEF LibStep, LibraryHolds, BooksRest
    <2>2. lock[d] # NoOp => lock[d] \in Ops /\ lock[d] # n
      BY <1>1, <1>2 DEF LibStep, Ready, Fenced, LedgerAgrees, Active
    <2> QED
      BY <1>1, <1>4, <1>5, <2>1, <2>2 DEF AtRest
  <1>7. ASSUME NEW x \in Ops, Sound(row[x].book)', x # n
        PROVE  Evidence(x)'
    <2>1. PICK d \in Books : d = row[x].book
      BY <1>2 DEF Row
    <2>2. row'[x] = row[x] /\ opState'[x] = opState[x]
      BY <1>4, <1>7
    <2>3. Sound(d)'
      BY <1>7, <2>1, <2>2 DEF Sound, UndoneOutOfOrder
    <2>4. Evidence(x)
      BY <2>1, <2>3, SoundBack DEF LibStep, LibraryHolds, EvidenceHolds
    <2>5. \A p : RecordedBut(x, d, p)' = RecordedBut(x, d, p)
      BY <1>1, <1>3, <1>4 DEF RecordedBut
    <2>6. Last(x)' => Last(x)
      BY <1>1, <1>3, <1>4, <2>2 DEF Last
    <2> QED
      BY <1>1, <1>5, <2>1, <2>2, <2>4, <2>5, <2>6 DEF Evidence
  <1>8. Evidence(n)'
    BY <1>1, <1>3, <1>4 DEF Evidence
  <1>9. ASSUME NEW x \in Ops, Sound(row[x].book)'
        PROVE  Evidence(x)'
    BY <1>7, <1>8, <1>9
  <1> QED
    BY <1>6, <1>9 DEF BooksRest, EvidenceHolds

\* Steps that touch neither the records nor the library.
LEMMA RestLibrary ==
  ASSUME LibStep, UNCHANGED <<row, opState, lock, before, change, live>>
  PROVE  BooksRest' /\ EvidenceHolds'
  <1>1. BooksRest'
    BY DEF LibStep, LibraryHolds, BooksRest, Sound, UndoneOutOfOrder, AtRest, Recorded
  <1>2. \A x \in Ops : /\ Sound(row[x].book)' => Sound(row[x].book)
                       /\ Last(x)' <=> Last(x)
                       /\ \A b, p : RecordedBut(x, b, p)' = RecordedBut(x, b, p)
    BY DEF Sound, UndoneOutOfOrder, Last, RecordedBut
  <1>3. \A b, p : Recorded(b, p)' = Recorded(b, p)
    BY DEF Recorded
  <1>4. ASSUME NEW x \in Ops, Evidence(x)
        PROVE  Evidence(x)'
    BY <1>2, <1>3, <1>4 DEF Evidence
  <1> QED
    BY <1>1, <1>2, <1>4 DEF LibStep, LibraryHolds, EvidenceHolds

\* The columns a sequence of commands leaves alone.
LEMMA CommandKeeps ==
  ASSUME TypeOK, NEW w \in Writers, ClearMissing(w) \/ RunCommand(w) \/ CommandFails(w),
         wop[w] \in Ops, plan[w]["custom"] = Keep
  PROVE  plan'[w]["custom"] = Keep /\ live'[Book(w)]["custom"] = live[Book(w)]["custom"]
  <1>1. /\ live \in [Books -> Meta] /\ plan \in [Writers -> Plans] /\ Book(w) \in Books
        /\ NextPart(w) # "custom" /\ NextPart(w) \in Written
    BY DEF TypeOK, BookTypeOK, WriterTypeOK, LedgerTypeOK, Row, Book, NextPart, Written
  <1>2. live[Book(w)] \in [Parts -> Val] /\ plan[w] \in [Written -> Val \cup {Keep}]
    BY <1>1 DEF Meta, Plans
  <1>3. {"opf", "custom", "cover"} \subseteq Parts /\ Written = {"opf", "custom", "cover"}
    BY DEF Parts, Written
  <1>4. CASE ClearMissing(w)
    BY <1>1, <1>2, <1>3, <1>4 DEF ClearMissing
  <1>5. CASE RunCommand(w)
    BY <1>1, <1>2, <1>3, <1>5 DEF RunCommand
  <1>6. CASE CommandFails(w)
    BY <1>1, <1>2, <1>3, <1>6 DEF CommandFails, Done
  <1> QED
    BY <1>4, <1>5, <1>6

LEMMA CommandLibrary ==
  ASSUME LibStep, NEW w \in Writers, ClearMissing(w) \/ RunCommand(w) \/ CommandFails(w)
  PROVE  LibraryHolds'
  <1>0. UNCHANGED <<row, opState, lock, before, change, pc, wop>>
    BY DEF ClearMissing, RunCommand, CommandFails, CommandRest, ledgerVars
  <1>1. TypeOK /\ pc[w] \in CommandPcs
    BY CommandBook DEF LibStep, Ready, Fenced, Commanding
  <1>2. pc[w] \in WorkPcs \ ClaimedPcs
    BY <1>1 DEF CommandPcs, WorkPcs, Pcs, ClaimedPcs
  <1>3. PICK o \in Ops : /\ o = wop[w] /\ opState[o] = "writing"
                         /\ pc[w] \notin UndoPcs => row[o].kind = "apply"
                         /\ pc[w] \in UndoPcs => row[o].kind = "undo"
    BY <1>2, HandChange DEF LibStep
  <1>4. PICK b \in Books : b = row[o].book /\ b = Book(w)
    BY <1>3 DEF LibStep, Ready, Fenced, TypeOK, LedgerTypeOK, Row, Book
  <1>5. lock[b] = o /\ o # NoOp
    <2>1. opState[o] \in Active /\ row[o].book = b
      BY <1>3, <1>4 DEF Active
    <2> QED
      BY <2>1, NoOpFresh DEF LibStep, Ready, Fenced, LedgerAgrees
  <1>6. \A d \in Books : d # b => live'[d] = live[d]
    BY <1>1, <1>4, CommandBook
  <1>7. \A v \in Writers : v # w => pc[v] = "down"
    BY <1>1, OneAlive DEF LibStep, Ready, CommandPcs
  <1>8. \A d \in Books : Sound(d)' => Sound(d)
    BY <1>0 DEF Sound, UndoneOutOfOrder
  <1>9. \A d, p : Recorded(d, p)' = Recorded(d, p)
    BY <1>0 DEF Recorded
  <1>10. pc[w] \notin UndoPcs /\ "custom" \notin row[o].patch =>
            /\ plan[w]["custom"] = Keep /\ plan'[w]["custom"] = Keep
            /\ live'[b]["custom"] = live[b]["custom"]
    <2>1. pc[w] \notin UndoPcs => pc[w] \in {"apply", "rollback", "restore"}
      BY <1>1 DEF CommandPcs, UndoPcs
    <2>2. pc[w] \notin UndoPcs /\ "custom" \notin row[o].patch => plan[w]["custom"] = Keep
      BY <1>3, <2>1 DEF LibStep, LibraryHolds, RestoresHold, Restores
    <2> QED
      BY <1>1, <1>3, <1>4, <2>2, CommandKeeps
  <1>11. BooksRest'
    <2> SUFFICES ASSUME NEW d \in Books, Sound(d)' PROVE AtRest(d)'
      BY DEF BooksRest
    <2>1. AtRest(d)
      BY <1>8 DEF LibStep, LibraryHolds, BooksRest
    <2> QED
      BY <1>0, <1>3, <1>5, <1>6, <1>9, <2>1 DEF AtRest
  <1>12. EvidenceHolds'
    <2> SUFFICES ASSUME NEW x \in Ops, Sound(row[x].book)' PROVE Evidence(x)'
      BY DEF EvidenceHolds
    <2>1. PICK d \in Books : d = row[x].book
      BY <1>1 DEF TypeOK, LedgerTypeOK, Row
    <2>2. Sound(d)'
      BY <1>0, <2>1 DEF Sound, UndoneOutOfOrder
    <2>3. Evidence(x)
      BY <1>8, <2>1, <2>2 DEF LibStep, LibraryHolds, EvidenceHolds
    <2>4. Last(x)' <=> Last(x)
      BY <1>0 DEF Last
    <2>5. \A p : RecordedBut(x, d, p)' = RecordedBut(x, d, p)
      BY <1>0 DEF RecordedBut
    <2>6. row[x].kind = "apply" /\ opState[x] = "writing" /\ "custom" \notin row[x].patch
             => live'[d]["custom"] = before[x]["custom"]
      <3> SUFFICES ASSUME row[x].kind = "apply", opState[x] = "writing",
                          "custom" \notin row[x].patch
                   PROVE  live'[d]["custom"] = before[x]["custom"]
        OBVIOUS
      <3>1. live[d]["custom"] = before[x]["custom"]
        BY <2>1, <2>3 DEF Evidence
      <3>2. CASE d = b
        <4>1. x = o
          BY <1>3, <1>4, <2>1, <3>2, LocksExclude DEF LibStep, Ready, Active
        <4> QED
          BY <1>3, <1>10, <3>1, <3>2, <4>1
      <3>3. CASE d # b
        BY <1>6, <3>1, <3>3
      <3> QED
        BY <3>2, <3>3
    <2> QED
      BY <1>0, <1>9, <2>1, <2>3, <2>4, <2>5, <2>6 DEF Evidence
  <1>13. RestoresHold'
    <2>1. Restores(w)'
      <3>1. pc'[w] # "rolled"
        BY <1>0, <1>1 DEF CommandPcs
      <3>2. pc'[w] \in {"apply", "rollback", "restore"} => pc[w] \notin UndoPcs
        BY <1>0 DEF UndoPcs
      <3> QED
        BY <1>0, <1>3, <1>10, <3>1, <3>2 DEF Restores
    <2>2. \A v \in Writers : v # w => Restores(v)'
      BY <1>0, <1>7 DEF Restores
    <2> QED
      BY <2>1, <2>2 DEF RestoresHold
  <1> QED
    BY <1>11, <1>12, <1>13 DEF LibraryHolds

\* A process is at work with one sequence of commands at a time.
LEMMA RestoresAt ==
  ASSUME LibStep, NEW w \in Writers, pc[w] # "down",
         \A v \in Writers : v # w => pc'[v] = pc[v], Restores(w)'
  PROVE  RestoresHold'
  <1>1. \A v \in Writers : v # w => pc'[v] = "down"
    BY OneAlive DEF LibStep, Ready
  <1>2. \A v \in Writers : v # w => Restores(v)'
    BY <1>1 DEF Restores
  <1> QED
    BY <1>2 DEF RestoresHold

LEMMA NothingToRestore ==
  ASSUME NEW w, pc'[w] \notin {"apply", "rollback", "restore", "rolled"}
  PROVE  Restores(w)'
  BY DEF Restores

\* Steps of others.
LEMMA RestoresStay ==
  ASSUME LibStep, UNCHANGED <<pc, wop, plan, change, live, before>>
  PROVE  RestoresHold'
  <1> SUFFICES ASSUME NEW w \in Writers, pc[w] \in {"apply", "rollback", "restore", "rolled"}
               PROVE  Restores(w)'
    BY DEF RestoresHold, Restores
  <1>1. Restores(w)
    BY DEF LibStep, LibraryHolds, RestoresHold
  <1>2. pc[w] \in WorkPcs
    BY DEF WorkPcs, Pcs
  <1>3. PICK o \in Ops : o = wop[w] /\ opState[o] # "none"
    BY <1>2, Holder DEF LibStep, Ready
  <1>4. row'[o] = row[o]
    BY <1>3 DEF LibStep, Steady
  <1>5. PICK b \in Books : b = row[o].book
    BY DEF LibStep, Ready, Fenced, TypeOK, LedgerTypeOK, Row
  <1>6. Sound(row[o].book)' => Sound(b)
    <2>1. Sound(row[o].book)' => Sound(b)'
      BY <1>4, <1>5 DEF Sound, UndoneOutOfOrder
    <2> QED
      BY <2>1, SoundBack
  <1>7. wop' = wop /\ pc' = pc
    OBVIOUS
  <1> QED
    BY <1>1, <1>3, <1>4, <1>5, <1>6, <1>7 DEF Restores

\* An operation is closed, and the process returns with nothing in its hands.
LEMMA CloseMoves ==
  ASSUME LibStep, NEW w \in Writers, pc[w] \in WorkPcs, NEW s, NEW e, NEW b, Close(w, s, e, b)
  PROVE  /\ Touches(wop[w]) /\ UNCHANGED before /\ opState'[wop[w]] = s
         /\ lock[row[wop[w]].book] = wop[w] /\ lock'[row[wop[w]].book] = NoOp
         /\ RestoresHold'
  <1>1. PICK o \in Ops : o = wop[w] /\ opState[o] \in Active
    BY Holder DEF LibStep, Ready, Active
  <1>2. /\ opState \in [Ops -> OpStates] /\ lock \in [Books -> Ops \cup {NoOp}]
        /\ row[o].book \in Books
        /\ pc \in [Writers -> Pcs]
    BY DEF LibStep, Ready, Fenced, TypeOK, LedgerTypeOK, WriterTypeOK, Row
  <1>3. lock[row[o].book] = o
    BY <1>1 DEF LibStep, Ready, Fenced, LedgerAgrees
  <1>4. /\ opState' = [opState EXCEPT ![o] = s]
        /\ lock' = [lock EXCEPT ![row[o].book] = NoOp]
        /\ UNCHANGED <<row, before, live>>
    BY <1>1, <1>2, <1>3 DEF Close, Finish, LedgerRest, OutsideRest
  <1>5. Touches(o)
    BY <1>2, <1>4 DEF Touches
  <1>6. opState'[o] = s /\ lock'[row[o].book] = NoOp
    BY <1>2, <1>4
  <1>7. /\ pc[w] # "down" /\ pc'[w] \in {"idle", "reconcile"}
        /\ \A v \in Writers : v # w => pc'[v] = pc[v]
    BY <1>2 DEF Close, Return, Goto, WorkPcs
  <1>8. RestoresHold'
    BY <1>7, NothingToRestore, RestoresAt
  <1> QED
    BY <1>1, <1>3, <1>4, <1>5, <1>6, <1>8

LEMMA CloseApply ==
  ASSUME LibStep, NEW w \in Writers, pc[w] \in WorkPcs \ UndoPcs, pc[w] \notin ClaimedPcs,
         NEW s \in Terminal \ {"failed"}, NEW e, NEW b, Close(w, s, e, b),
         NEW t, change' = [change EXCEPT ![wop[w]] = t], t = change[wop[w]] \/ t # "none",
         s = "succeeded" => /\ MatchesTarget(Live(w), before[wop[w]], row[wop[w]].patch)
                            /\ t = "applied" \/ row[wop[w]].patch = {"cover"},
         s = "restored" /\ Sound(Book(w)) =>
            MatchesBefore(Live(w), before[wop[w]]) /\ t # "applied"
  PROVE  LibraryHolds'
  <1>1. PICK o \in Ops : o = wop[w] /\ row[o].kind = "apply" /\ opState[o] = "writing"
    BY HandChange DEF LibStep
  <1>2. Touches(o) /\ UNCHANGED before /\ opState'[o] = s /\ RestoresHold'
    BY <1>1, CloseMoves
  <1>3. BooksRest' /\ EvidenceHolds'
    BY <1>1, <1>2, CloseLibrary DEF Live, Book
  <1> QED
    BY <1>2, <1>3 DEF LibraryHolds

LEMMA CloseUndo ==
  ASSUME LibStep, NEW w \in Writers, pc[w] \in WorkPcs \cap UndoPcs, pc[w] \notin ClaimedPcs,
         NEW s \in {"restored", "restore_failed", "unknown"}, NEW e, NEW b, Close(w, s, e, b),
         UNCHANGED change, s = "restored" => MatchesBefore(Live(w), before[wop[w]])
  PROVE  LibraryHolds'
  <1>1. PICK o \in Ops : o = wop[w] /\ row[o].kind = "undo" /\ opState[o] = "writing"
    BY HandChange DEF LibStep
  <1>2. Touches(o) /\ UNCHANGED before /\ opState'[o] = s /\ RestoresHold'
    BY <1>1, CloseMoves
  <1>3. BooksRest' /\ EvidenceHolds'
    BY <1>1, <1>2, CloseUndoLibrary DEF Live, Book
  <1> QED
    BY <1>2, <1>3 DEF LibraryHolds

LEMMA CloseUndone ==
  ASSUME LibStep, NEW w \in Writers, pc[w] \in WorkPcs \cap UndoPcs, pc[w] \notin ClaimedPcs,
         NEW e, NEW b, Close(w, "succeeded", e, b), SetChange(Undone(w), "undone"),
         MatchesBefore(Live(w), before[Undone(w)])
  PROVE  LibraryHolds'
  <1>1. PICK o \in Ops : o = wop[w] /\ row[o].kind = "undo" /\ opState[o] = "writing"
    BY HandChange DEF LibStep
  <1>2. Touches(o) /\ UNCHANGED before /\ opState'[o] = "succeeded" /\ RestoresHold'
    BY <1>1, CloseMoves
  <1>3. BooksRest' /\ EvidenceHolds'
    BY <1>1, <1>2, UndoneLibrary DEF Live, Book, Undone, SetChange
  <1> QED
    BY <1>2, <1>3 DEF LibraryHolds

LEMMA CloseClaimed ==
  ASSUME LibStep, NEW w \in Writers, pc[w] \in ClaimedPcs, NEW e, NEW b,
         Close(w, "failed", e, b), UNCHANGED change
  PROVE  LibraryHolds'
  <1>0. pc[w] \in WorkPcs
    BY DEF ClaimedPcs, WorkPcs, Pcs
  <1>1. PICK o \in Ops : o = wop[w] /\ opState[o] = "claimed"
    BY <1>0, HandChange DEF LibStep
  <1>2. /\ Touches(o) /\ opState'[o] = "failed" /\ RestoresHold'
        /\ lock[row[o].book] = o
    BY <1>0, <1>1, CloseMoves
  <1>3. BooksRest' /\ EvidenceHolds'
    BY <1>1, <1>2, ClaimLibrary
  <1> QED
    BY <1>2, <1>3 DEF LibraryHolds

LEMMA FailLibrary ==
  ASSUME LibStep, NEW w \in Writers, pc[w] \in WorkPcs, FailOperation(w), UNCHANGED change
  PROVE  LibraryHolds'
  <1>1. CASE pc[w] \in ClaimedPcs
    BY <1>1, HandChange, CloseClaimed DEF FailOperation, FailedState, LibStep
  <1>2. CASE pc[w] \notin ClaimedPcs
    <2>1. /\ Close(w, "unknown", "failed", "error") /\ wop[w] \in Ops
          /\ "unknown" \in Terminal \ {"failed"}
      BY <1>2, HandChange DEF FailOperation, FailedState, LibStep, Terminal
    <2>2. PICK t : t = change[wop[w]]
      OBVIOUS
    <2>3. change' = [change EXCEPT ![wop[w]] = t]
      BY <2>1, <2>2, SameChange DEF LibStep, Ready, Fenced
    <2>4. CASE pc[w] \in UndoPcs
      BY <1>2, <2>1, <2>4, CloseUndo
    <2>5. CASE pc[w] \notin UndoPcs
      <3>1. pc[w] \in WorkPcs \ UndoPcs
        BY <2>5
      <3>2. PICK s : s = "unknown"
        OBVIOUS
      <3>3. /\ Close(w, s, "failed", "error") /\ s \in Terminal \ {"failed"}
            /\ s # "succeeded" /\ s # "restored"
        BY <2>1, <3>2
      <3> QED
        BY <1>2, <2>2, <2>3, <3>1, <3>3, CloseApply
    <2> QED
      BY <2>4, <2>5
  <1> QED
    BY <1>1, <1>2

\* A process goes on with its apply, with or without a new status of the change.
LEMMA MoveLibrary ==
  ASSUME LibStep, NEW w \in Writers, pc[w] \in WorkPcs \ UndoPcs, pc[w] \notin ClaimedPcs,
         NEW l, Goto(w, l), UNCHANGED <<row, opState, before, lock, live>>,
         NEW t, change' = [change EXCEPT ![wop[w]] = t], t = change[wop[w]] \/ t # "none",
         Restores(w)'
  PROVE  LibraryHolds'
  <1>1. PICK o \in Ops : o = wop[w] /\ row[o].kind = "apply" /\ opState[o] = "writing"
    BY HandChange DEF LibStep
  <1>2. Touches(o)
    BY DEF Touches
  <1>3. BooksRest' /\ EvidenceHolds'
    BY <1>1, <1>2, WritingMoves
  <1>4. RestoresHold'
    BY RestoresAt DEF Goto, WorkPcs, LibStep, Ready, Fenced, TypeOK, WriterTypeOK
  <1> QED
    BY <1>3, <1>4 DEF LibraryHolds

\* A sequence of commands starts that leaves an unpatched column alone.
LEMMA StartCommands ==
  ASSUME LibStep, NEW w \in Writers, pc[w] \in WorkPcs \ UndoPcs, pc[w] \notin ClaimedPcs,
         NEW l \in {"apply", "rollback", "restore"}, NEW p, Commands(w, l, p),
         UNCHANGED <<ledgerVars, wop, live>>,
         "custom" \notin row[wop[w]].patch => p["custom"] = Keep
  PROVE  LibraryHolds'
  <1>0. plan \in [Writers -> Plans] /\ pc \in [Writers -> Pcs] /\ wop[w] \in Ops
    BY HandChange DEF LibStep, Ready, Fenced, TypeOK, WriterTypeOK
  <1>1. Goto(w, l) /\ pc'[w] = l /\ plan'[w] = p /\ UNCHANGED <<row, opState, before, lock, change>>
    BY <1>0 DEF Commands, Goto, ledgerVars
  <1>2. Restores(w)'
    BY <1>1 DEF Restores
  <1>3. PICK t : t = change[wop[w]]
    OBVIOUS
  <1>4. change' = [change EXCEPT ![wop[w]] = t]
    BY <1>0, <1>1, <1>3, SameChange DEF LibStep, Ready, Fenced
  <1> QED
    BY <1>1, <1>2, <1>3, <1>4, MoveLibrary

LEMMA ApplyStartsLibrary ==
  ASSUME LibStep, NEW w \in Writers,
         Validate(w) \/ Observe(w) \/ Backup(w) \/ BuildTarget(w)
  PROVE  LibraryHolds'
  <1>0. pc[w] \in {"validate", "observe", "backup", "build"} /\ pc[w] \in WorkPcs \ UndoPcs
    BY DEF Validate, Observe, Backup, BuildTarget, Loaded, At, WorkPcs, Pcs, UndoPcs
  <1>1. /\ pc[w] \in {"validate", "observe"} => pc[w] \in ClaimedPcs
        /\ pc[w] \in {"backup", "build"} => pc[w] \notin ClaimedPcs
    BY DEF ClaimedPcs
  <1>2. /\ pc \in [Writers -> Pcs] /\ pc[w] # "down"
        /\ opState \in [Ops -> OpStates] /\ before \in [Ops -> Meta]
    BY <1>0 DEF LibStep, Ready, Fenced, TypeOK, LedgerTypeOK, WriterTypeOK
  <1>3. ASSUME NEW l, l \notin {"apply", "rollback", "restore", "rolled"}, Goto(w, l)
        PROVE  Restores(w)' /\ RestoresHold'
    BY <1>2, <1>3, NothingToRestore, RestoresAt DEF Goto
  <1>4. CASE Validate(w)
    <2>1. pc[w] = "validate"
      BY <1>4 DEF Validate, Loaded, At
    <2>2. CASE Goto(w, "observe") /\ UNCHANGED <<ledgerVars, live>>
      BY <1>3, <2>2, RestLibrary DEF ledgerVars, LibraryHolds
    <2>3. CASE Close(w, "failed", "failed", "error") /\ UNCHANGED change
      BY <1>1, <2>1, <2>3, CloseClaimed
    <2> QED
      BY <1>4, <2>2, <2>3 DEF Validate
  <1>5. CASE Observe(w)
    <2>1. pc[w] = "observe"
      BY <1>5 DEF Observe, At
    <2>2. CASE FailOperation(w) /\ UNCHANGED change
      BY <1>0, <2>2, FailLibrary
    <2>3. CASE \E b : Close(w, "failed", "failed", b) /\ UNCHANGED change
      BY <1>1, <2>1, <2>3, CloseClaimed
    <2>4. CASE /\ before'  = [before EXCEPT ![wop[w]] = Live(w)]
               /\ opState' = [opState EXCEPT ![wop[w]] = "writing"]
               /\ Goto(w, "backup") /\ UNCHANGED <<row, lock, change, live>>
      <3>1. PICK o \in Ops : o = wop[w] /\ opState[o] = "claimed"
        BY <1>0, <1>1, <2>1, HandChange DEF LibStep
      <3>2. Touches(o) /\ opState'[o] = "writing" /\ before'[o] = live[row[o].book]
        BY <1>2, <2>4, <3>1 DEF Touches, Live, Book
      <3> QED
        BY <1>3, <2>4, <3>1, <3>2, WriteLibrary DEF LibraryHolds
    <2> QED
      BY <1>5, <2>2, <2>3, <2>4 DEF Observe, OutsideRest
  <1>6. CASE Backup(w)
    <2>1. pc[w] = "backup"
      BY <1>6 DEF Backup, At
    <2>2. CASE FailOperation(w) /\ UNCHANGED change
      BY <1>0, <2>2, FailLibrary
    <2>3. CASE /\ SetChange(wop[w], "pending_apply") /\ Goto(w, "build")
               /\ UNCHANGED <<row, opState, before, lock, live>>
      BY <1>0, <1>1, <1>3, <2>1, <2>3, MoveLibrary DEF SetChange
    <2> QED
      BY <1>6, <2>2, <2>3 DEF Backup, OutsideRest
  <1>7. CASE BuildTarget(w)
    <2>1. pc[w] = "build"
      BY <1>7 DEF BuildTarget, At
    <2>2. CASE FailOperation(w) /\ UNCHANGED change
      BY <1>0, <2>2, FailLibrary
    <2>3. CASE Commands(w, "apply", ApplyPlan(wop[w])) /\ UNCHANGED <<ledgerVars, wop, live>>
      <3>1. PICK p : p = ApplyPlan(wop[w])
        OBVIOUS
      <3>2. "custom" \notin row[wop[w]].patch => p["custom"] = Keep
        BY <3>1 DEF ApplyPlan, Written
      <3> QED
        BY <1>0, <1>1, <2>1, <2>3, <3>1, <3>2, StartCommands
    <2> QED
      BY <1>7, <2>2, <2>3 DEF BuildTarget, OutsideRest
  <1> QED
    BY <1>4, <1>5, <1>6, <1>7

LEMMA ApplyEndsLibrary ==
  ASSUME LibStep, NEW w \in Writers,
         \/ ApplyDone(w) \/ ApplyFails(w) \/ RollbackDone(w) \/ RolledBack(w)
         \/ Verify(w) \/ RestoreDone(w)
  PROVE  LibraryHolds'
  <1>0. pc[w] \in {"apply", "rollback", "rolled", "verify", "restore"}
        /\ pc[w] \in WorkPcs \ UndoPcs /\ pc[w] \notin ClaimedPcs
    BY DEF ApplyDone, ApplyFails, RollbackDone, RolledBack, Verify, RestoreDone, Finished,
       Loaded, At, WorkPcs, Pcs, UndoPcs, ClaimedPcs
  <1>1. PICK o \in Ops : /\ o = wop[w] /\ row[o].kind = "apply" /\ opState[o] = "writing"
                         /\ change[o] \in StatusAt(pc[w]) /\ why[w] # "closed"
    BY <1>0, HandChange DEF LibStep
  <1>2. /\ pc \in [Writers -> Pcs] /\ change \in [Ops -> ChangeStates]
        /\ {"restored", "restore_failed", "succeeded"} \subseteq Terminal \ {"failed"}
    BY DEF LibStep, Ready, Fenced, TypeOK, LedgerTypeOK, WriterTypeOK, Terminal
  <1>3. PICK p : p = RestorePlan(o, o)
    OBVIOUS
  <1>4. "custom" \notin row[wop[w]].patch => p["custom"] = Keep
    BY <1>1, <1>3 DEF RestorePlan, Written
  <1>5. PICK t : t = change[o] /\ (UNCHANGED change => change' = [change EXCEPT ![o] = t])
    BY <1>2
  <1>6. CASE ApplyDone(w)
    <2>1. /\ change' = [change EXCEPT ![wop[w]] = "applied"] /\ Goto(w, "verify")
          /\ UNCHANGED <<row, opState, before, lock, live>>
      BY <1>6 DEF ApplyDone, SetChange, LedgerRest, OutsideRest
    <2>2. Restores(w)'
      BY <1>2, <2>1, NothingToRestore DEF Goto
    <2> QED
      BY <1>0, <2>1, <2>2, MoveLibrary
  <1>7. CASE ApplyFails(w)
    <2>1. Commands(w, "rollback", p) /\ UNCHANGED <<ledgerVars, wop, live>>
      BY <1>1, <1>3, <1>7 DEF ApplyFails, OutsideRest
    <2> QED
      BY <1>0, <1>4, <2>1, StartCommands
  <1>8. CASE RollbackDone(w)
    <2>1. PICK s \in {"failed_rolled_back", "failed_rollback_failed"} :
            /\ change' = [change EXCEPT ![wop[w]] = s]
            /\ s = "failed_rolled_back" => MatchesRestore(Live(w), wop[w])
      BY <1>8 DEF RollbackDone, SetChange
    <2>2. Goto(w, "rolled") /\ UNCHANGED <<row, opState, before, lock, live, wop>>
      BY <1>8 DEF RollbackDone, LedgerRest, OutsideRest
    <2>3. pc'[w] = "rolled" /\ wop'[w] = o /\ change'[o] = s
      BY <1>1, <1>2, <2>1, <2>2 DEF Goto
    <2>4. PICK b \in Books : b = row[o].book
      BY DEF LibStep, Ready, Fenced, TypeOK, LedgerTypeOK, Row
    <2>5. ASSUME s = "failed_rolled_back", Sound(row[wop[w]].book)'
          PROVE  MatchesBefore(live[b], before[o])
      <3>1. Sound(b)'
        BY <2>2, <2>3, <2>4, <2>5 DEF Sound, UndoneOutOfOrder
      <3>2. Evidence(o)
        BY <2>4, <3>1, SoundBack DEF LibStep, LibraryHolds, EvidenceHolds
      <3>3. "custom" \notin row[o].patch => live[b]["custom"] = before[o]["custom"]
        BY <1>1, <2>4, <3>2 DEF Evidence
      <3> QED
        BY <1>1, <2>1, <2>4, <2>5, <3>3 DEF MatchesRestore, MatchesBefore, Live, Book
    <2>6. Restores(w)'
      BY <2>2, <2>3, <2>4, <2>5 DEF Restores
    <2> QED
      BY <1>0, <2>1, <2>2, <2>6, MoveLibrary
  <1>9. CASE RolledBack(w)
    <2>1. /\ UNCHANGED change /\ pc[w] = "rolled"
          /\ change[o] \in {"failed_rolled_back", "failed_rollback_failed"}
      BY <1>1, <1>9 DEF RolledBack, Loaded, At, StatusAt
    <2>2. CASE change[o] = "failed_rolled_back"
      <3>1. Close(w, "restored", "failed", "suggest_fix")
        BY <1>1, <1>9, <2>2 DEF RolledBack
      <3>2. Sound(Book(w)) => MatchesBefore(Live(w), before[wop[w]])
        BY <1>1, <2>1, <2>2 DEF LibStep, LibraryHolds, RestoresHold, Restores, Live, Book
      <3> QED
        BY <1>0, <1>1, <1>2, <1>5, <2>1, <2>2, <3>1, <3>2, CloseApply
    <2>3. CASE change[o] = "failed_rollback_failed"
      <3>1. Close(w, "restore_failed", "failed", "error")
        BY <1>1, <1>9, <2>3 DEF RolledBack
      <3> QED
        BY <1>0, <1>1, <1>2, <1>5, <2>1, <3>1, CloseApply
    <2> QED
      BY <2>1, <2>2, <2>3
  <1>10. CASE Verify(w)
    <2>1. change[o] = "applied"
      BY <1>1, <1>10 DEF Verify, Loaded, At, StatusAt
    <2>2. CASE FailOperation(w) /\ UNCHANGED change
      BY <1>0, <2>2, FailLibrary
    <2>3. CASE /\ MatchesTarget(Live(w), before[wop[w]], row[wop[w]].patch)
               /\ Close(w, "succeeded", "published", "applied") /\ UNCHANGED change
      BY <1>0, <1>1, <1>2, <1>5, <2>1, <2>3, CloseApply
    <2>4. CASE Commands(w, "restore", p) /\ UNCHANGED <<ledgerVars, wop, live>>
      BY <1>0, <1>4, <2>4, StartCommands
    <2> QED
      BY <1>1, <1>3, <1>10, <2>2, <2>3, <2>4 DEF Verify, OutsideRest
  <1>11. CASE RestoreDone(w)
    <2>1. ASSUME NEW b, MatchesBefore(Live(w), before[wop[w]]),
                 SetChange(wop[w], "failed_rolled_back"), Close(w, "restored", "failed", b)
          PROVE  LibraryHolds'
      BY <1>0, <1>2, <2>1, CloseApply DEF SetChange
    <2>2. CASE /\ SetChange(wop[w], "failed_rollback_failed")
               /\ Close(w, "restore_failed", "failed", "error")
      BY <1>0, <1>2, <2>2, CloseApply DEF SetChange
    <2> QED
      BY <1>1, <1>11, <2>1, <2>2 DEF RestoreDone, Outcome
  <1> QED
    BY <1>6, <1>7, <1>8, <1>9, <1>10, <1>11

LEMMA UndoLibrary ==
  ASSUME LibStep, NEW w \in Writers,
         \/ UndoCheck(w) \/ UndoDone(w) \/ UndoFails(w) \/ UndoRollbackDone(w)
         \/ ReconcileUndo(w)
  PROVE  LibraryHolds'
  <1>0. /\ pc[w] \in WorkPcs \cap UndoPcs /\ pc[w] # "down"
        /\ pc[w] = "undo_check" => pc[w] \in ClaimedPcs
        /\ pc[w] # "undo_check" => pc[w] \notin ClaimedPcs
    BY DEF UndoCheck, UndoDone, UndoFails, UndoRollbackDone, ReconcileUndo, Loaded, At, WorkPcs,
       Pcs, UndoPcs, ClaimedPcs
  <1>1. PICK o \in Ops : o = wop[w] /\ why[w] # "closed"
                         /\ (pc[w] = "undo_check" => opState[o] = "claimed")
    BY <1>0, HandChange DEF LibStep
  <1>2. /\ pc \in [Writers -> Pcs] /\ opState \in [Ops -> OpStates] /\ before \in [Ops -> Meta]
    BY DEF LibStep, Ready, Fenced, TypeOK, LedgerTypeOK, WriterTypeOK
  <1>3. ASSUME NEW l \in {"undo", "undo_rollback"}, Goto(w, l)
        PROVE  RestoresHold'
    BY <1>0, <1>2, <1>3, NothingToRestore, RestoresAt DEF Goto
  <1>4. CASE FailOperation(w) /\ UNCHANGED change
    BY <1>0, <1>4, FailLibrary
  <1>5. CASE UndoCheck(w)
    <2>1. pc[w] = "undo_check"
      BY <1>5 DEF UndoCheck, Loaded, At
    <2>2. CASE \E b : Close(w, "failed", "failed", b) /\ UNCHANGED change
      BY <1>0, <2>1, <2>2, CloseClaimed
    <2>3. CASE /\ before'  = [before EXCEPT ![wop[w]] = Live(w)]
               /\ opState' = [opState EXCEPT ![wop[w]] = "writing"]
               /\ Goto(w, "undo") /\ UNCHANGED <<row, lock, change, live>>
      <3>1. Touches(o) /\ opState'[o] = "writing" /\ before'[o] = live[row[o].book]
        BY <1>1, <1>2, <2>3 DEF Touches, Live, Book
      <3> QED
        BY <1>1, <1>3, <2>1, <2>3, <3>1, WriteLibrary DEF LibraryHolds
    <2> QED
      BY <1>4, <1>5, <2>2, <2>3 DEF UndoCheck, Commands, OutsideRest
  <1>6. CASE UndoDone(w)
    <2>1. pc[w] # "undo_check"
      BY <1>6 DEF UndoDone, Loaded, At
    <2> QED
      BY <1>0, <1>4, <1>6, <2>1, CloseUndone DEF UndoDone
  <1>7. CASE UndoFails(w)
    BY <1>3, <1>7, RestLibrary DEF UndoFails, Commands, ledgerVars, OutsideRest, LibraryHolds
  <1>8. CASE UndoRollbackDone(w)
    <2>1. pc[w] # "undo_check" /\ UNCHANGED change
      BY <1>8 DEF UndoRollbackDone, At
    <2>2. CASE /\ MatchesBefore(Live(w), before[wop[w]])
               /\ Close(w, "restored", "failed", "applied")
      BY <1>0, <2>1, <2>2, CloseUndo
    <2>3. CASE Close(w, "restore_failed", "failed", "error")
      BY <1>0, <2>1, <2>3, CloseUndo
    <2> QED
      BY <1>1, <1>8, <2>2, <2>3 DEF UndoRollbackDone, Outcome
  <1>9. CASE ReconcileUndo(w)
    <2>1. pc[w] # "undo_check"
      BY <1>9 DEF ReconcileUndo, At
    <2>2. CASE Close(w, "unknown", "failed", "error") /\ UNCHANGED change
      BY <1>0, <2>1, <2>2, CloseUndo
    <2>3. CASE /\ MatchesBefore(Live(w), before[Undone(w)])
               /\ Close(w, "succeeded", "published", "suggest_fix")
               /\ SetChange(Undone(w), "undone")
      BY <1>0, <2>1, <2>3, CloseUndone
    <2>4. CASE /\ MatchesBefore(Live(w), before[wop[w]])
               /\ Close(w, "restored", "failed", "applied") /\ UNCHANGED change
      BY <1>0, <2>1, <2>4, CloseUndo
    <2>5. CASE Goto(w, "undo_rollback") /\ UNCHANGED <<ledgerVars, live>>
      BY <1>3, <2>5, RestLibrary DEF ledgerVars, LibraryHolds
    <2> QED
      BY <1>1, <1>9, <2>2, <2>3, <2>4, <2>5 DEF ReconcileUndo, Outcome, Commands, OutsideRest
  <1> QED
    BY <1>5, <1>6, <1>7, <1>8, <1>9

LEMMA VisitLibrary ==
  ASSUME LibStep, NEW w \in Writers, ReconcileApply(w)
  PROVE  LibraryHolds'
  <1>0. /\ pc[w] = "visit" /\ pc[w] \in WorkPcs \ UndoPcs /\ pc[w] \notin ClaimedPcs
        /\ {"restored", "succeeded", "unknown"} \subseteq Terminal \ {"failed"}
    BY DEF ReconcileApply, At, WorkPcs, Pcs, UndoPcs, ClaimedPcs, Terminal
  <1>1. PICK o \in Ops : /\ o = wop[w] /\ why[w] # "closed" /\ row[o].kind = "apply"
                         /\ opState[o] = "writing"
    BY <1>0, HandChange DEF LibStep
  <1>2. change \in [Ops -> ChangeStates]
    BY DEF LibStep, Ready, Fenced, TypeOK, LedgerTypeOK
  <1>3. ASSUME NEW s, FollowChange(o, s), s # "none"
        PROVE  \E t : /\ change' = [change EXCEPT ![wop[w]] = t]
                      /\ t = change[o] \/ t # "none"
                      /\ IF change[o] = "none" THEN t = "none" ELSE t = s
    BY <1>1, <1>2, <1>3 DEF FollowChange, SetChange
  <1>4. CASE Close(w, "unknown", "failed", "error") /\ FollowChange(o, "failed_rollback_failed")
    <2>1. PICK t : /\ change' = [change EXCEPT ![wop[w]] = t]
                   /\ t = change[o] \/ t # "none"
      BY <1>3, <1>4
    <2> QED
      BY <1>0, <1>1, <1>4, <2>1, CloseApply
  <1>5. CASE /\ MatchesTarget(Live(w), before[wop[w]], row[wop[w]].patch)
             /\ Close(w, "succeeded", "published", "applied") /\ FollowChange(o, "applied")
    <2>1. PICK t : /\ change' = [change EXCEPT ![wop[w]] = t]
                   /\ t = change[o] \/ t # "none"
                   /\ change[o] = "none" \/ t = "applied"
      BY <1>3, <1>5
    <2>2. change[o] = "none" => row[o].patch = {"cover"}
      BY <1>1, <1>5, CoverInPlace DEF Live, Book, LibStep
    <2> QED
      BY <1>0, <1>1, <1>5, <2>1, <2>2, CloseApply
  <1>6. CASE /\ MatchesBefore(Live(w), before[wop[w]])
             /\ Close(w, "restored", "failed", "suggest_fix")
             /\ FollowChange(o, "failed_rolled_back")
    <2>1. PICK t : /\ change' = [change EXCEPT ![wop[w]] = t]
                   /\ t = change[o] \/ t # "none"
                   /\ t # "applied"
      BY <1>3, <1>6
    <2> QED
      BY <1>0, <1>1, <1>6, <2>1, CloseApply
  <1>7. CASE Close(w, "unknown", "failed", "error") /\ UNCHANGED change
    <2>1. PICK t : /\ change' = [change EXCEPT ![wop[w]] = t]
                   /\ t = change[wop[w]] \/ t # "none"
      BY <1>1, <1>2, <1>7
    <2>2. Close(w, "unknown", "failed", "error")
      BY <1>7
    <2> QED
      BY <1>0, <2>1, <2>2, CloseApply
  <1>8. CASE Commands(w, "restore", RestorePlan(o, o)) /\ UNCHANGED <<ledgerVars, wop, live>>
    <2>1. PICK p : p = RestorePlan(o, o)
      OBVIOUS
    <2>2. "custom" \notin row[wop[w]].patch => p["custom"] = Keep
      BY <1>1, <2>1 DEF RestorePlan, Written
    <2> QED
      BY <1>0, <1>8, <2>1, <2>2, StartCommands
  <1> QED
    BY <1>1, <1>4, <1>5, <1>6, <1>7, <1>8 DEF ReconcileApply, Outcome, OutsideRest

LEMMA CoordinateLibrary ==
  ASSUME LibStep, Coordinate
  PROVE  LibraryHolds'
  <1> USE DEF ledgerVars, writerVars, LibraryHolds
  <1>1. CASE UNCHANGED <<ledgerVars, writerVars, live>>
    BY <1>1, RestLibrary, RestoresStay
  <1>2. ASSUME NEW r, CreateOperation(r), UNCHANGED <<writerVars, live>>
        PROVE  LibraryHolds'
    BY <1>2, CreateLibrary, RestoresStay DEF CreateOperation
  <1>3. ASSUME NEW q \in Requests, Reserve(q)
        PROVE  LibraryHolds'
    BY <1>2, <1>3 DEF Reserve
  <1>4. ASSUME NEW c \in Ops, QueueUndo(c)
        PROVE  LibraryHolds'
    BY <1>1, <1>2, <1>4 DEF QueueUndo
  <1>5. ASSUME NEW c \in Ops, Acknowledge(c)
        PROVE  LibraryHolds'
    BY <1>5, RestLibrary, RestoresStay DEF Acknowledge
  <1> QED
    BY <1>1, <1>3, <1>4, <1>5 DEF Coordinate, RecordPackage, Authorize, LockField, Review,
       LoadRequest, RejectRequest, PilotStop

LEMMA EnvironmentLibrary ==
  ASSUME LibStep, Environment \/ (\E o \in Ops : LeaseExpires(o)) \/ UNCHANGED vars
  PROVE  LibraryHolds'
  <1> USE DEF ledgerVars, writerVars, LibraryHolds
  <1>1. CASE UNCHANGED <<row, opState, lock, before, change, live, pc, wop, plan>>
    BY <1>1, RestLibrary, RestoresStay
  <1>2. ASSUME NEW w \in Writers, Crash(w)
        PROVE  LibraryHolds'
    <2>1. /\ pc[w] # "down" /\ pc'[w] = "down"
          /\ \A v \in Writers : v # w => pc'[v] = pc[v]
          /\ UNCHANGED <<ledgerVars, live>>
      BY <1>2 DEF Crash, Dies, Goto, LibStep, Ready, Fenced, TypeOK, WriterTypeOK
    <2> QED
      BY <2>1, RestLibrary, NothingToRestore, RestoresAt
  <1>3. ASSUME NEW b \in Books, NEW p \in EditedParts, ExternalEdit(b, p)
        PROVE  FALSE
    BY <1>3 DEF ExternalEdit, LibStep
  <1> QED
    BY <1>1, <1>2, <1>3 DEF Environment, Redeploy, HeartbeatExpires, GuardLost,
       LeaseExpires, vars, envVars

LEMMA ClaimStepLibrary ==
  ASSUME LibStep, NEW w \in Writers, Claim(w) \/ \E o \in Ops : ReconcileClaimed(w, o)
  PROVE  LibraryHolds'
  <1>0. opState \in [Ops -> OpStates] /\ pc \in [Writers -> Pcs]
        /\ lock \in [Books -> Ops \cup {NoOp}] /\ row \in [Ops -> Row]
    BY DEF LibStep, Ready, Fenced, TypeOK, LedgerTypeOK, WriterTypeOK
  <1>1. CASE Claim(w)
    <2>1. PICK o \in Ops :
            /\ FirstPending(o) /\ lock[row[o].book] = NoOp
            /\ opState' = [opState EXCEPT ![o] = "claimed"]
            /\ lock'    = [lock EXCEPT ![row[o].book] = o]
            /\ Goto(w, IF row[o].kind = "undo" THEN "undo_check" ELSE "validate")
      BY <1>1 DEF Claim
    <2>2. UNCHANGED <<row, change, before, live>> /\ pc[w] # "down"
      BY <1>1 DEF Claim, At
    <2>3. opState[o] = "requested"
      BY <2>1 DEF FirstPending, LibStep, Ready, Known, Holds, EventsHold
    <2>4. Touches(o) /\ opState'[o] = "claimed"
      BY <1>0, <2>1, <2>2 DEF Touches
    <2>5. BooksRest' /\ EvidenceHolds'
      BY <2>1, <2>2, <2>3, <2>4, ClaimLibrary
    <2>6. pc'[w] \in {"undo_check", "validate"} /\ \A v \in Writers : v # w => pc'[v] = pc[v]
      BY <1>0, <2>1 DEF Goto
    <2> QED
      BY <2>2, <2>5, <2>6, NothingToRestore, RestoresAt DEF LibraryHolds
  <1>2. ASSUME NEW o \in Ops, ReconcileClaimed(w, o)
        PROVE  LibraryHolds'
    <2>1. /\ UNCHANGED <<row, change, before, live, pc, wop, plan>> /\ opState[o] = "claimed"
      BY <1>2 DEF ReconcileClaimed, ledgerVars
    <2>2. RestoresHold'
      BY <2>1, RestoresStay
    <2>3. CASE UNCHANGED ledgerVars
      BY <2>1, <2>2, <2>3, RestLibrary DEF ledgerVars, LibraryHolds
    <2>4. CASE Finish(o, "requested", "pending")
      <3>1. Touches(o) /\ opState'[o] = "requested"
        BY <1>0, <2>1, <2>4 DEF Touches, Finish
      <3>2. lock[row[o].book] = o
        BY <2>1 DEF LibStep, Ready, Fenced, LedgerAgrees, Active
      <3> QED
        BY <2>1, <2>2, <3>1, <3>2, ClaimLibrary DEF LibraryHolds
    <2> QED
      BY <1>2, <2>3, <2>4 DEF ReconcileClaimed
  <1> QED
    BY <1>1, <1>2

LEMMA RestartLibrary ==
  ASSUME LibStep, NEW w \in Writers,
         \/ Start(w) \/ ReconcileEnds(w) \/ TransitionRaises(w) \/ ExitUnfenced(w) \/ Poll(w)
         \/ \E o \in Ops : ReconcileNoEvidence(w, o) \/ Visit(w, o)
  PROVE  LibraryHolds'
  <1>0. pc \in [Writers -> Pcs]
    BY DEF LibStep, Ready, Fenced, TypeOK, WriterTypeOK
  <1> USE DEF ledgerVars, LibraryHolds
  <1>1. CASE Start(w)
    <2>1. \A v \in Writers : pc[v] = "down"
      BY <1>1, ProcessAssumption DEF Start, LibStep, Ready, Fenced, WriterAgrees
    <2>2. \A v \in Writers : pc'[v] \in {"down", "reconcile"}
      BY <1>0, <1>1, <2>1 DEF Start, Goto
    <2> QED
      BY <1>1, <2>2, RestLibrary DEF Start, RestoresHold, Restores
  <1>2. CASE ReconcileEnds(w) \/ \E o \in Ops : Visit(w, o)
    <2>1. /\ pc[w] # "down" /\ pc'[w] \in {"idle", "visit", "visit_undo"}
          /\ \A v \in Writers : v # w => pc'[v] = pc[v]
          /\ UNCHANGED <<ledgerVars, live>>
      BY <1>0, <1>2 DEF ReconcileEnds, Visit, Goto, At
    <2> QED
      BY <2>1, RestLibrary, NothingToRestore, RestoresAt
  <1>3. CASE Poll(w)
    BY <1>3, RestLibrary, RestoresStay DEF Poll, writerVars
  <1>4. CASE TransitionRaises(w)
    <2>1. pc[w] \in WorkPcs
      BY <1>4 DEF TransitionRaises, LoadPcs, WorkPcs, Pcs
    <2> QED
      BY <1>4, <2>1, FailLibrary DEF TransitionRaises
  <1>5. CASE ExitUnfenced(w)
    BY <1>5, OneAlive DEF ExitUnfenced, LibStep, Ready
  <1>6. ASSUME NEW o \in Ops, ReconcileNoEvidence(w, o)
        PROVE  FALSE
    BY <1>6 DEF ReconcileNoEvidence, LibStep, Ready, Fenced, WriterAgrees, Active
  <1> QED
    BY <1>1, <1>2, <1>3, <1>4, <1>5, <1>6

-----------------------------------------------------------------------------
(* A library that holds what the change rows say.                          *)

LEMMA LibraryStep ==
  ASSUME Ready, LibraryHolds, [Next]_vars, losses' = 0, edits = 0, edits' = 0
  PROVE  LibraryHolds'
  <1>1. LibStep
    BY StepHeld, StepKept DEF LibStep, Ready, Held, Kept
  <1>2. ASSUME NEW w \in Writers, WriterStep(w) \/ Start(w) \/ Poll(w)
        PROVE  LibraryHolds'
    BY <1>1, <1>2, CommandLibrary, ClaimStepLibrary, ApplyStartsLibrary, ApplyEndsLibrary,
       UndoLibrary, VisitLibrary, RestartLibrary DEF WriterStep
  <1> QED
    BY <1>1, <1>2, CoordinateLibrary, EnvironmentLibrary DEF Next

LEMMA LibraryInit == Init => LibraryHolds
  <1> SUFFICES ASSUME Init PROVE LibraryHolds
    OBVIOUS
  <1>1. /\ \A b \in Books : \A p \in Text : live[b][p] = "old"
        /\ \A o \in Ops : row[o].kind = "none"
        /\ \A w \in Writers : pc[w] = "down"
    BY DEF Init, Unset, BlankRow, Text, Parts, Written
  <1>2. BooksRest
    BY <1>1 DEF BooksRest, AtRest, Recorded
  <1>3. EvidenceHolds
    BY <1>1 DEF EvidenceHolds, Evidence
  <1>4. RestoresHold
    BY <1>1 DEF RestoresHold, Restores
  <1> QED
    BY <1>2, <1>3, <1>4 DEF LibraryHolds

\* Edits are only ever counted up.
LEMMA EditsGrow ==
  ASSUME TypeOK, [Next]_vars, edits' = 0
  PROVE  edits = 0
  <1> USE DEF OutsideRest, Close, FailOperation, Dies, envVars
  <1>1. CASE Coordinate
    BY <1>1 DEF Coordinate, RecordPackage, Authorize, LockField, Review, LoadRequest,
       Reserve, RejectRequest, QueueUndo, Acknowledge, PilotStop
  <1>2. CASE Environment
    BY <1>2 DEF Environment, Redeploy, HeartbeatExpires, Crash, GuardLost, ExternalEdit,
       TypeOK, EnvTypeOK
  <1>3. ASSUME NEW w \in Writers, Start(w) \/ Poll(w)
        PROVE  edits' = edits
    BY <1>3 DEF Start, Poll
  <1>4. ASSUME NEW w \in Writers, WriterStep(w)
        PROVE  edits' = edits
    <2>1. CASE Claim(w) \/ Validate(w) \/ Observe(w) \/ Backup(w) \/ BuildTarget(w)
      BY <2>1 DEF Claim, Validate, Observe, Backup, BuildTarget
    <2>2. CASE \/ ApplyDone(w) \/ ApplyFails(w) \/ RollbackDone(w) \/ RolledBack(w)
               \/ Verify(w) \/ RestoreDone(w)
      BY <2>2 DEF ApplyDone, ApplyFails, RollbackDone, RolledBack, Verify, RestoreDone
    <2>3. CASE UndoCheck(w) \/ UndoDone(w) \/ UndoFails(w) \/ UndoRollbackDone(w)
      BY <2>3 DEF UndoCheck, UndoDone, UndoFails, UndoRollbackDone
    <2>4. CASE ReconcileEnds(w) \/ ReconcileApply(w) \/ ReconcileUndo(w)
      BY <2>4 DEF ReconcileEnds, ReconcileApply, ReconcileUndo
    <2>5. CASE \/ \E o \in Ops : ReconcileClaimed(w, o) \/ ReconcileNoEvidence(w, o)
                                  \/ Visit(w, o)
               \/ TransitionRaises(w) \/ ExitUnfenced(w)
      BY <2>5 DEF ReconcileClaimed, ReconcileNoEvidence, Visit, TransitionRaises,
         ExitUnfenced
    <2>6. CASE ClearMissing(w) \/ RunCommand(w) \/ CommandFails(w)
      BY <2>6 DEF ClearMissing, RunCommand, CommandFails, CommandRest
    <2> QED
      BY <1>4, <2>1, <2>2, <2>3, <2>4, <2>5, <2>6 DEF WriterStep
  <1>5. CASE (\E o \in Ops : LeaseExpires(o)) \/ UNCHANGED vars
    BY <1>5 DEF LeaseExpires, vars
  <1> QED
    BY <1>1, <1>2, <1>3, <1>4, <1>5 DEF Next

\* Until a connection is lost or somebody else edits the library.
UneditedLibrary == losses = 0 /\ edits = 0 => LibraryHolds

LEMMA LibraryNext ==
  TypeOK /\ WorkRecorded /\ WriterAgrees /\ LedgerAgrees /\ Known /\ FencedRecords
    /\ UneditedLibrary /\ [Next]_vars => UneditedLibrary'
  <1> SUFFICES ASSUME TypeOK, WorkRecorded, WriterAgrees, LedgerAgrees, Known, FencedRecords,
                      UneditedLibrary, [Next]_vars, losses' = 0, edits' = 0
               PROVE  LibraryHolds'
    BY DEF UneditedLibrary
  <1>1. losses = 0 /\ edits = 0
    BY LossesGrow, EditsGrow DEF TypeOK, EnvTypeOK
  <1> QED
    BY <1>1, LibraryStep DEF Ready, Fenced, FencedRecords, UneditedLibrary

\* As long as the owner edits nothing, no connection is lost and changes are
\* undone in order, a book nobody works on and without an unresolved incident
\* holds what its applied changes say, for every number of books, operations,
\* crashes and failing commands.
THEOREM LibraryHoldsChanges == Spec => []LibraryMatchesChanges
  <1>1. Init => UneditedLibrary
    BY LibraryInit DEF UneditedLibrary
  <1>2. UneditedLibrary => LibraryMatchesChanges
    <2> SUFFICES ASSUME LibraryHolds, NEW b \in Books, Quiet(b), ~UndoneOutOfOrder(b),
                        NEW p \in Text
                 PROVE  live[b][p] = Recorded(b, p)
      BY DEF UneditedLibrary, LibraryMatchesChanges, Text
    <2>1. Sound(b) /\ lock[b] = NoOp
      BY DEF Sound, Quiet
    <2> QED
      BY <2>1 DEF LibraryHolds, BooksRest, AtRest
  <1> QED
    BY <1>1, <1>2, LibraryNext, RecordsAlways, TypeCorrect, LedgerStaysConsistent, KnownAlways,
       PTL DEF Spec
=============================================================================
