-------------------------- MODULE CertificateAProofs --------------------------
(***************************************************************************)
(* Types of CertificateA and the effect of its steps, for every number of  *)
(* verifiers, books, runs, releases, crashes, stalls and faults.           *)
(***************************************************************************)
EXTENDS CertificateA, FiniteSetTheorems, TLAPS

EarlyPcs == {"down", "poll", "contract", "check_start", "open", "freeze",
             "check_frozen", "resume"}

\* What a process knows about itself, whoever holds the lease.
Coherent(w) ==
    /\ AtWork(w) => wrun[w] \in Runs
    /\ pc[w] \in EarlyPcs => ~errors[w]
    /\ pc[w] \in {"announce", "record"} /\ outcome[w] = "failed" => errors[w]
    /\ pc[w] \in {"final", "check_end"} => todo[w] = {}
    /\ pc[w] = "close" => verdict[w] \notin {"completed", "completed_with_errors"}

MemoryAgrees == \A w \in Workers : Coherent(w)

-----------------------------------------------------------------------------
(* Types.                                                                  *)

LEMMA CountType ==
  ASSUME NEW res, NEW ev
  PROVE  Count(res, ev) \in 0..BookCount
  <1> DEFINE S == {b \in Books : res[b] \in Outcomes /\ ev[b] # {}}
  <1>1. IsFiniteSet(Books) /\ Cardinality(Books) = BookCount
    BY FS_Interval, CountsAssumption DEF Books
  <1>2. S \subseteq Books
    OBVIOUS
  <1>3. Cardinality(S) \in Nat /\ Cardinality(S) <= BookCount
    BY <1>1, <1>2, FS_Subset, FS_CardinalityType, CountsAssumption
  <1> QED
    BY <1>3, CountsAssumption DEF Count

\* Nothing but the heartbeat of a process changes.
Untouched(x) ==
    UNCHANGED <<pc[x], wrun[x], wfence[x], source[x], todo[x], outcome[x], errors[x],
                verdict[x]>>

\* A step of one process.
Moves(w) == WorkerTypeOK' /\ Coherent(w)' /\ \A x \in Workers \ {w} : Untouched(x)

LEMMA ForgetMoves ==
  ASSUME WorkerTypeOK, NEW w \in Workers, NEW l \in {"down", "poll"}, Goto(w, l), Forget(w),
         boot' \in [Workers -> Releases]
  PROVE  Moves(w)
  <1>1. 0 \in Versions /\ 0 \in Nat
    BY CountsAssumption DEF Versions
  <1>2. "failed" \in Outcomes /\ "failed" \in TerminalStatuses /\ l \in Pcs
    BY DEF Outcomes, TerminalStatuses, Pcs
  <1>3. {} \in SUBSET Books /\ FALSE \in BOOLEAN /\ NoRun \in Runs \cup {NoRun}
    OBVIOUS
  <1>4. WorkerTypeOK'
    BY <1>1, <1>2, <1>3 DEF WorkerTypeOK, Goto, Forget
  <1>5. Coherent(w)'
    BY DEF Coherent, WorkerTypeOK, AtWork, Goto, Forget
  <1>6. \A x \in Workers \ {w} : Untouched(x)
    BY DEF Untouched, WorkerTypeOK, Goto, Forget
  <1> QED
    BY <1>4, <1>5, <1>6 DEF Moves

LEMMA ConcludeMoves ==
  ASSUME WorkerTypeOK, NEW w \in Workers, Coherent(w), AtWork(w),
         NEW l \in {"finish", "close"}, NEW v \in TerminalStatuses, Conclude(w, l, v),
         l = "close" => v \notin {"completed", "completed_with_errors"}
  PROVE  Moves(w)
  <1>1. l \in Pcs
    BY DEF Pcs, StorePcs
  <1>2. WorkerTypeOK'
    BY <1>1 DEF WorkerTypeOK, Conclude, Goto, WorldRest
  <1>3. Coherent(w)'
    BY DEF Coherent, WorkerTypeOK, AtWork, Conclude, Goto, EarlyPcs
  <1>4. \A x \in Workers \ {w} : Untouched(x)
    BY DEF Untouched, WorkerTypeOK, Conclude, Goto
  <1> QED
    BY <1>2, <1>3, <1>4 DEF Moves

LEMMA StepMoves ==
  ASSUME WorkerTypeOK, NEW w \in Workers, Coherent(w), AtWork(w),
         NEW l \in Pcs \ {"down", "poll", "close", "announce"}, Step(w, l),
         l \in EarlyPcs => pc[w] \in EarlyPcs,
         l = "record" => pc[w] = "announce",
         l \in {"final", "check_end"} => pc[w] = "final"
  PROVE  Moves(w)
  <1>1. WorkerTypeOK'
    BY DEF WorkerTypeOK, Step, Goto, WorldRest, memory
  <1>2. Coherent(w)'
    BY DEF Coherent, WorkerTypeOK, AtWork, Step, Goto, memory
  <1>3. \A x \in Workers \ {w} : Untouched(x)
    BY DEF Untouched, WorkerTypeOK, Step, Goto, memory
  <1> QED
    BY <1>1, <1>2, <1>3 DEF Moves

LEMMA DecideMoves ==
  ASSUME WorkerTypeOK, NEW w \in Workers, Coherent(w), AtWork(w), NEW o \in Outcomes,
         Decide(w, o)
  PROVE  Moves(w)
  <1>1. (errors[w] \/ o = "failed") \in BOOLEAN
    OBVIOUS
  <1>2. WorkerTypeOK'
    BY <1>1 DEF WorkerTypeOK, Decide, Goto, WorldRest, Pcs
  <1>3. Coherent(w)'
    BY DEF Coherent, WorkerTypeOK, AtWork, Decide, Goto, EarlyPcs
  <1>4. \A x \in Workers \ {w} : Untouched(x)
    BY DEF Untouched, WorkerTypeOK, Decide, Goto
  <1> QED
    BY <1>2, <1>3, <1>4 DEF Moves

\* The transactions of the holder of a lease.
HolderStep(w) ==
    \/ pc[w] = "freeze" /\ Writable(w) /\ SameSource(w) /\ FreezeInventory(w)
    \/ /\ pc[w] \in {"begin", "announce"} /\ Writable(w)
       /\ \E b \in InHand(w), s \in ResultStates : RecordState(w, b, s)
    \/ pc[w] = "record" /\ \E b \in InHand(w) : RecordPackage(w, b)
    \/ pc[w] \in {"finish", "close"} /\ FinishRun(w)

\* All a step of a verifier can do to the store.
StoreStep(w) == NoStore \/ Claim(w) \/ (AtWork(w) /\ Owned(w) /\ HolderStep(w))

LEMMA WorkerStoreStep ==
  ASSUME WorkerTypeOK, NEW w \in Workers, WorkerStep(w)
  PROVE  StoreStep(w)
  <1> USE DEF StoreStep
  <1>1. outcome[w] \in ResultStates /\ "working" \in ResultStates
    BY DEF WorkerTypeOK, ResultStates
  <1>2. CASE LeaseLost(w) \/ EnsureCurrent(w)
    BY <1>2 DEF LeaseLost, EnsureCurrent, Abandon
  <1>3. CASE LoadContract(w) \/ CheckCancellation(w) \/ OpenSource(w) \/ AuditBook(w)
             \/ AssertUnchanged(w)
    BY <1>3 DEF LoadContract, CheckCancellation, OpenSource, AuditBook, AssertUnchanged
  <1>4. CASE Freeze(w)
    BY <1>4 DEF Freeze, CancelHandled, HolderStep, Writable, AtWork
  <1>5. CASE Resume(w)
    BY <1>5 DEF Resume, CancelHandled
  <1>6. CASE BeginBook(w)
    BY <1>6, <1>1 DEF BeginBook, HolderStep, Writable, AtWork
  <1>7. CASE Announce(w)
    BY <1>7, <1>1 DEF Announce, Announced, Abandon, CancelHandled, HolderStep, Writable,
       AtWork
  <1>8. CASE Record(w)
    BY <1>8 DEF Record, HolderStep, AtWork
  <1>9. CASE Finish(w) \/ Close(w)
    BY <1>9 DEF Finish, Close, HolderStep, AtWork
  <1> QED
    BY <1>2, <1>3, <1>4, <1>5, <1>6, <1>7, <1>8, <1>9 DEF WorkerStep

\* The holder of a lease leaves well-typed rows.
LEMMA HolderStepType ==
  ASSUME StoreTypeOK, WorkerTypeOK, NEW w \in Workers, wrun[w] \in Runs, HolderStep(w)
  PROVE  StoreTypeOK'
  <1>1. CASE FreezeInventory(w)
    <2>1. [b \in Books |-> IF result[wrun[w]][b] = "none" THEN "pending"
                           ELSE result[wrun[w]][b]] \in [Books -> ResultStates]
      BY DEF StoreTypeOK, ResultStates
    <2>2. {source[w]} \in SUBSET Versions /\ "running" \in ActiveStatuses
      BY DEF WorkerTypeOK, ActiveStatuses
    <2> QED
      BY <1>1, <2>1, <2>2 DEF FreezeInventory, StoreRest, StoreTypeOK
  <1>2. ASSUME NEW b \in InHand(w), NEW s \in ResultStates, RecordState(w, b, s)
        PROVE  StoreTypeOK'
    BY <1>2 DEF RecordState, runVars, StoreTypeOK
  <1>3. ASSUME NEW b \in InHand(w), RecordPackage(w, b)
        PROVE  StoreTypeOK'
    <2>1. outcome[w] \in ResultStates
      BY DEF WorkerTypeOK, ResultStates
    <2>2. [state |-> outcome[w], source |-> source[w]] \in Packages /\ source[w] \in Versions
      BY DEF WorkerTypeOK, Packages
    <2>3. Count(result'[wrun[w]], evidence'[wrun[w]]) \in 0..BookCount
      BY CountType
    <2>4. b \in Books
      BY DEF InHand, WorkerTypeOK
    <2>5. record' \in [Versions -> [Books -> Runs \cup {NoRun}]]
      BY <1>3, <2>2 DEF RecordPackage, StoreTypeOK
    <2>6. evidence' \in [Runs -> [Books -> SUBSET Packages]]
      BY <1>3, <2>2 DEF RecordPackage, StoreTypeOK
    <2>7. result' \in [Runs -> [Books -> ResultStates]]
      BY <1>3, <2>1 DEF RecordPackage, StoreTypeOK
    <2>8. completed' \in [Runs -> 0..BookCount]
      BY <1>3, <2>3 DEF RecordPackage, StoreTypeOK
    <2> QED
      BY <1>3, <2>5, <2>6, <2>7, <2>8 DEF RecordPackage, StoreRest, StoreTypeOK
  <1>4. CASE FinishRun(w)
    <2>1. Count(result[wrun[w]], evidence[wrun[w]]) \in 0..BookCount
      BY CountType
    <2> QED
      BY <1>4, <2>1 DEF FinishRun, StoreRest, StoreTypeOK, WorkerTypeOK
  <1> QED
    BY <1>1, <1>2, <1>3, <1>4 DEF HolderStep

LEMMA ClaimType ==
  ASSUME StoreTypeOK, WorkerTypeOK, NEW w \in Workers, Claim(w)
  PROVE  StoreTypeOK' /\ WorkerTypeOK'
  <1>1. PICK r \in Runs :
          /\ fence'  = [fence EXCEPT ![r] = @ + 1]
          /\ holder' = [holder EXCEPT ![r] = w]
          /\ lease'  = [lease EXCEPT ![r] = "live"]
          /\ status' = [status EXCEPT ![r] = IF @ = "pending" THEN "inventorying" ELSE @]
          /\ wrun'   = [wrun EXCEPT ![w] = r]
          /\ wfence' = [wfence EXCEPT ![w] = fence[r] + 1]
          /\ Goto(w, "contract")
          /\ UNCHANGED <<release, cancelReq, frozen, completed, result, evidence,
                         record, faults, source, todo, outcome, errors, verdict, hbLost>>
          /\ WorldRest
    BY DEF Claim
  <1>2. fence[r] + 1 \in Nat /\ "inventorying" \in ActiveStatuses
    BY DEF StoreTypeOK, ActiveStatuses
  <1>3. StoreTypeOK'
    BY <1>1, <1>2 DEF StoreTypeOK
  <1>4. WorkerTypeOK'
    BY <1>1, <1>2 DEF WorkerTypeOK, Goto, WorldRest, Pcs, StorePcs
  <1> QED
    BY <1>3, <1>4

LEMMA ClaimMoves ==
  ASSUME TypeOK, MemoryAgrees, NEW w \in Workers, Claim(w)
  PROVE  Moves(w)
  <1>1. WorkerTypeOK'
    BY ClaimType DEF TypeOK
  <1>2. PICK r \in Runs :
          /\ pc[w] = "poll"
          /\ wrun'   = [wrun EXCEPT ![w] = r]
          /\ wfence' = [wfence EXCEPT ![w] = fence[r] + 1]
          /\ Goto(w, "contract")
          /\ UNCHANGED <<source, todo, outcome, errors, verdict, hbLost>>
    BY DEF Claim
  <1>3. Coherent(w)'
    BY <1>2 DEF MemoryAgrees, Coherent, TypeOK, WorkerTypeOK, AtWork, Goto, EarlyPcs
  <1>4. \A x \in Workers \ {w} : Untouched(x)
    BY <1>2 DEF Untouched, TypeOK, WorkerTypeOK, Goto
  <1> QED
    BY <1>1, <1>3, <1>4 DEF Moves

\* The pipeline goes on to the next book or to its end.
LEMMA TurnMoves ==
  ASSUME TypeOK, MemoryAgrees, NEW w \in Workers, pc[w] \in {"resume", "record"},
         NEW S \in SUBSET Books, todo' = [todo EXCEPT ![w] = S],
         Goto(w, Turn(todo'[w])),
         UNCHANGED <<boot, wrun, wfence, source, outcome, errors, verdict, hbLost>>
  PROVE  Moves(w)
  <1>1. todo'[w] = S /\ Turn(S) \in Pcs
    BY DEF TypeOK, WorkerTypeOK, Turn, Pcs
  <1>2. WorkerTypeOK'
    BY <1>1 DEF TypeOK, WorkerTypeOK, Goto
  <1>3. Coherent(w)'
    BY <1>1 DEF MemoryAgrees, Coherent, TypeOK, WorkerTypeOK, AtWork, Goto, Turn, EarlyPcs
  <1>4. \A x \in Workers \ {w} : Untouched(x)
    BY DEF Untouched, TypeOK, WorkerTypeOK, Goto
  <1> QED
    BY <1>2, <1>3, <1>4 DEF Moves

\* Every step of a verifier moves that verifier only, and coherently.
LEMMA WorkerMoves ==
  ASSUME TypeOK, MemoryAgrees, NEW w \in Workers, WorkerStep(w)
  PROVE  Moves(w)
  <1>1. WorkerTypeOK /\ Coherent(w) /\ boot \in [Workers -> Releases]
    BY DEF TypeOK, MemoryAgrees, WorkerTypeOK
  <1>2. /\ {"failed", "cancelled", "blocked_recovery", "source_changed", "completed",
            "completed_with_errors"} \subseteq TerminalStatuses
        /\ {"check_start", "open", "check_frozen", "resume", "audit", "record", "check_end"}
             \subseteq Pcs \ {"down", "poll", "close", "announce"}
    BY DEF TerminalStatuses, Pcs, StorePcs
  <1>3. ASSUME Abandon(w)
        PROVE  Moves(w)
    BY <1>1, <1>3, ForgetMoves DEF Abandon, WorldRest
  <1>4. ASSUME AtWork(w), Fails(w)
        PROVE  Moves(w)
    BY <1>1, <1>2, <1>4, ConcludeMoves DEF Fails
  <1>5. ASSUME AtWork(w), CancelHandled(w)
        PROVE  Moves(w)
    BY <1>1, <1>2, <1>5, ConcludeMoves DEF CancelHandled
  <1>6. CASE Claim(w)
    BY <1>6, ClaimMoves
  <1>7. CASE LeaseLost(w) \/ EnsureCurrent(w)
    BY <1>3, <1>7 DEF LeaseLost, EnsureCurrent
  <1>8. CASE LoadContract(w)
    BY <1>1, <1>2, <1>4, <1>8, ConcludeMoves, StepMoves DEF LoadContract, AtWork, EarlyPcs
  <1>9. CASE CheckCancellation(w)
    BY <1>1, <1>2, <1>4, <1>9, ConcludeMoves, StepMoves
       DEF CheckCancellation, AtWork, EarlyPcs
  <1>10. CASE OpenSource(w)
    <2>1. AtWork(w) /\ pc[w] = "open"
      BY <1>10 DEF OpenSource, AtWork
    <2>2. ASSUME Goto(w, "freeze"), source' = [source EXCEPT ![w] = lib],
                 UNCHANGED <<wrun, wfence, todo, outcome, errors, verdict, hbLost>>, WorldRest
          PROVE  Moves(w)
      BY <1>1, <2>1, <2>2 DEF Moves, Coherent, Untouched, WorkerTypeOK, TypeOK, EnvTypeOK,
         AtWork, Goto, WorldRest, EarlyPcs, Pcs, StorePcs
    <2>3. ASSUME Goto(w, "close"), verdict' = [verdict EXCEPT ![w] = "source_changed"],
                 UNCHANGED <<wrun, wfence, source, todo, outcome, errors, hbLost, boot>>
          PROVE  Moves(w)
      BY <1>1, <1>2, <2>1, <2>3 DEF Moves, Coherent, Untouched, WorkerTypeOK, AtWork, Goto,
         EarlyPcs, Pcs, StorePcs
    <2>4. ASSUME NEW v \in {"failed", "source_changed"}, Conclude(w, "close", v)
          PROVE  Moves(w)
      BY <1>1, <1>2, <2>1, <2>4, ConcludeMoves
    <2> QED
      BY <1>10, <2>2, <2>3, <2>4 DEF OpenSource
  <1>11. CASE Freeze(w)
    BY <1>1, <1>2, <1>4, <1>5, <1>11, ConcludeMoves, StepMoves DEF Freeze, AtWork, EarlyPcs
  <1>12. CASE Resume(w)
    BY <1>4, <1>5, <1>12, TurnMoves DEF Resume, AtWork, WorldRest
  <1>13. CASE BeginBook(w)
    BY <1>1, <1>2, <1>13, DecideMoves, StepMoves DEF BeginBook, AtWork, EarlyPcs, Outcomes
  <1>14. CASE AuditBook(w)
    BY <1>1, <1>14, DecideMoves DEF AuditBook, AtWork, Outcomes
  <1>15. CASE Announce(w)
    BY <1>1, <1>2, <1>3, <1>4, <1>5, <1>15, DecideMoves, StepMoves
       DEF Announce, AtWork, EarlyPcs, Outcomes
  <1>16. CASE Record(w)
    <2>1. todo[w] \in SUBSET Books /\ AtWork(w) /\ pc[w] = "record"
      BY <1>1, <1>16 DEF WorkerTypeOK, Record, AtWork
    <2> QED
      BY <1>1, <1>2, <1>4, <1>16, <2>1, ConcludeMoves, TurnMoves DEF Record, WorldRest
  <1>17. CASE AssertUnchanged(w)
    BY <1>1, <1>2, <1>17, ConcludeMoves, StepMoves DEF AssertUnchanged, AtWork, EarlyPcs
  <1>18. CASE Finish(w)
    BY <1>1, <1>4, <1>18, ForgetMoves DEF Finish, AtWork, WorldRest
  <1>19. CASE Close(w)
    BY <1>1, <1>19, ForgetMoves DEF Close, WorldRest
  <1> QED
    BY <1>6, <1>7, <1>8, <1>9, <1>10, <1>11, <1>12, <1>13, <1>14, <1>15, <1>16, <1>17,
       <1>18, <1>19 DEF WorkerStep

LEMMA WorkerEnvType ==
  ASSUME EnvTypeOK, NEW w \in Workers, WorkerStep(w)
  PROVE  EnvTypeOK'
  <1> USE DEF Fault, NoFault, Fails, WorldRest, Conclude, CancelHandled, Step, Decide
  <1>1. ASSUME UNCHANGED <<lib, deployed, deploys, crashes, lapses>>,
               faults' \in {faults, faults + 1}
        PROVE  EnvTypeOK'
    BY <1>1 DEF EnvTypeOK
  <1>2. CASE Claim(w) \/ LeaseLost(w) \/ EnsureCurrent(w)
    BY <1>1, <1>2 DEF Claim, LeaseLost, EnsureCurrent, Abandon
  <1>3. CASE LoadContract(w) \/ CheckCancellation(w)
    BY <1>1, <1>3 DEF LoadContract, CheckCancellation
  <1>4. CASE OpenSource(w)
    BY <1>4, CountsAssumption DEF OpenSource, EnvTypeOK, Versions
  <1>5. CASE Freeze(w) \/ Resume(w)
    BY <1>1, <1>5 DEF Freeze, Resume
  <1>6. CASE BeginBook(w) \/ AuditBook(w)
    BY <1>1, <1>6 DEF BeginBook, AuditBook
  <1>7. CASE Announce(w)
    BY <1>1, <1>7 DEF Announce, Abandon
  <1>8. CASE Record(w) \/ AssertUnchanged(w)
    BY <1>1, <1>8 DEF Record, AssertUnchanged
  <1>9. CASE Finish(w) \/ Close(w)
    BY <1>1, <1>9 DEF Finish, Close
  <1> QED
    BY <1>2, <1>3, <1>4, <1>5, <1>6, <1>7, <1>8, <1>9 DEF WorkerStep

LEMMA WorkerStoreType ==
  ASSUME TypeOK, MemoryAgrees, NEW w \in Workers, StoreStep(w)
  PROVE  StoreTypeOK'
  <1>1. CASE NoStore
    BY <1>1 DEF NoStore, runVars, TypeOK, StoreTypeOK
  <1>2. CASE Claim(w)
    BY <1>2, ClaimType DEF TypeOK
  <1>3. CASE AtWork(w) /\ HolderStep(w)
    BY <1>3, HolderStepType DEF TypeOK, MemoryAgrees, Coherent
  <1> QED
    BY <1>1, <1>2, <1>3 DEF StoreStep

LEMMA UntouchedStaysCoherent ==
  ASSUME NEW x \in Workers, Coherent(x), Untouched(x)
  PROVE  Coherent(x)'
  BY DEF Coherent, Untouched, AtWork

LEMMA TypeStep ==
  ASSUME TypeOK, MemoryAgrees, [Next]_vars
  PROVE  TypeOK' /\ MemoryAgrees'
  <1> USE DEF TypeOK, MemoryAgrees
  <1>1. ASSUME StoreTypeOK', EnvTypeOK', NEW w \in Workers, Moves(w)
        PROVE  TypeOK' /\ MemoryAgrees'
    BY <1>1, UntouchedStaysCoherent DEF Moves
  <1>2. ASSUME StoreTypeOK', EnvTypeOK', UNCHANGED <<pc, boot, memory>>
        PROVE  TypeOK' /\ MemoryAgrees'
    BY <1>2 DEF WorkerTypeOK, Coherent, AtWork, memory
  <1>3. ASSUME NEW r \in Runs, StartVerification(r)
        PROVE  TypeOK' /\ MemoryAgrees'
    BY <1>2, <1>3 DEF StartVerification, StoreTypeOK, EnvTypeOK, ActiveStatuses
  <1>4. ASSUME NEW r \in Runs, CancelRun(r)
        PROVE  TypeOK' /\ MemoryAgrees'
    BY <1>2, <1>4 DEF CancelRun, StoreTypeOK, EnvTypeOK, ActiveStatuses
  <1>5. ASSUME NEW r \in Runs, LeaseExpires(r) \/ LeaseLapses(r)
        PROVE  TypeOK' /\ MemoryAgrees'
    <2>1. Expire(r) /\ lapses' \in {lapses, lapses + 1}
      BY <1>5 DEF LeaseExpires, LeaseLapses
    <2>2. StoreTypeOK'
      BY <2>1 DEF Expire, StoreTypeOK
    <2>3. EnvTypeOK' /\ UNCHANGED <<pc, boot, memory>>
      BY <2>1 DEF Expire, EnvTypeOK
    <2> QED
      BY <1>2, <2>2, <2>3
  <1>6. ASSUME NEW w \in Workers, WorkerStep(w)
        PROVE  TypeOK' /\ MemoryAgrees'
    BY <1>1, <1>6, WorkerEnvType, WorkerStoreStep, WorkerStoreType, WorkerMoves
  <1>7. ASSUME NEW w \in Workers, HeartbeatLost(w)
        PROVE  TypeOK' /\ MemoryAgrees'
    <2>1. StoreTypeOK' /\ EnvTypeOK'
      BY <1>7 DEF HeartbeatLost, Fault, NoFault, runVars, StoreTypeOK, EnvTypeOK
    <2>2. WorkerTypeOK'
      BY <1>7 DEF HeartbeatLost, WorkerTypeOK
    <2>3. \A x \in Workers : Untouched(x)
      BY <1>7 DEF HeartbeatLost, Untouched
    <2> QED
      BY <2>1, <2>2, <2>3, UntouchedStaysCoherent
  <1>8. ASSUME NEW w \in Workers, Start(w)
        PROVE  TypeOK' /\ MemoryAgrees'
    <2>1. StoreTypeOK' /\ EnvTypeOK'
      BY <1>8 DEF Start, runVars, StoreTypeOK, EnvTypeOK
    <2>2. WorkerTypeOK'
      BY <1>8 DEF Start, Goto, memory, EnvTypeOK, WorkerTypeOK, Pcs
    <2>3. Coherent(w)'
      BY <1>8 DEF Start, Goto, memory, WorkerTypeOK, Coherent, AtWork, EarlyPcs
    <2>4. \A x \in Workers \ {w} : Untouched(x)
      BY <1>8 DEF Start, Goto, memory, WorkerTypeOK, Untouched
    <2> QED
      BY <1>1, <2>1, <2>2, <2>3, <2>4 DEF Moves
  <1>9. ASSUME NEW w \in Workers, Crash(w)
        PROVE  TypeOK' /\ MemoryAgrees'
    <2>1. StoreTypeOK' /\ EnvTypeOK'
      BY <1>9 DEF Crash, NoStore, runVars, StoreTypeOK, EnvTypeOK
    <2>2. Moves(w)
      BY <1>9, ForgetMoves DEF Crash, WorkerTypeOK
    <2> QED
      BY <1>1, <2>1, <2>2
  <1>10. ASSUME NEW d \in Releases, Redeploy(d)
         PROVE  TypeOK' /\ MemoryAgrees'
    BY <1>2, <1>10 DEF Redeploy, NoStore, runVars, StoreTypeOK, EnvTypeOK
  <1>11. CASE LibraryChanges
    BY <1>2, <1>11, CountsAssumption DEF LibraryChanges, NoStore, runVars, StoreTypeOK,
       EnvTypeOK, Versions
  <1>12. CASE UNCHANGED vars
    BY <1>2, <1>12 DEF vars, runVars, StoreTypeOK, EnvTypeOK
  <1> QED
    BY <1>3, <1>4, <1>5, <1>6, <1>7, <1>8, <1>9, <1>10, <1>11, <1>12 DEF Next

LEMMA TypeInit == Init => TypeOK /\ MemoryAgrees
  <1> SUFFICES ASSUME Init
               PROVE  TypeOK /\ MemoryAgrees
    OBVIOUS
  <1> USE DEF Init
  <1>1. 0 \in Versions /\ 0 \in 0..BookCount
    BY CountsAssumption DEF Versions
  <1>2. StoreTypeOK
    BY <1>1 DEF StoreTypeOK, ResultStates
  <1>3. EnvTypeOK
    BY <1>1 DEF EnvTypeOK
  <1>4. WorkerTypeOK
    BY <1>1 DEF WorkerTypeOK, Pcs, Outcomes, TerminalStatuses
  <1>5. MemoryAgrees
    BY DEF MemoryAgrees, Coherent, AtWork, EarlyPcs
  <1> QED
    BY <1>2, <1>3, <1>4, <1>5 DEF TypeOK

\* Every variable of Certificate A stays in its domain, in particular the
\* progress counter within the number of books (_refresh_counts).
THEOREM CertificateTypeCorrect == Spec => []TypeOK
  <1>1. Init => TypeOK /\ MemoryAgrees
    BY TypeInit
  <1>2. TypeOK /\ MemoryAgrees /\ [Next]_vars => (TypeOK /\ MemoryAgrees)'
    BY TypeStep
  <1> QED
    BY <1>1, <1>2, PTL DEF Spec
=============================================================================
