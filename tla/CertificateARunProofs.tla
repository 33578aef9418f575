------------------------ MODULE CertificateARunProofs ------------------------
(***************************************************************************)
(* Safety of CertificateA, for every number of verifiers, books, runs,     *)
(* releases, crashes, stalls and faults: the properties of the runs as     *)
(* consequences of one inductive invariant, IInv, and the store as an      *)
(* implementation of VerificationRuns.                                     *)
(***************************************************************************)
EXTENDS CertificateAProofs

\* Nobody holds a run that was not requested.
FreshRuns == \A r \in Runs : status[r] = "none" => holder[r] = "none"

\* A sealed verdict is the state of the book.
SealsAgree == \A r \in Runs, b \in Books : Sealed(r, b) => result[r][b] = "settled"

\* Runs are requested in order, one after the other has ended, and only
\* requested ones leave book records.
RunOrder ==
    /\ \A r \in Runs, q \in Runs : q < r /\ status[r] # "none" => status[q] \in TerminalStatuses
    /\ \A v \in Versions, b \in Books :
          record[v][b] \in Runs => status[record[v][b]] # "none"

IInv ==
    /\ TypeOK /\ MemoryAgrees /\ FreshRuns /\ RunOrder /\ SealsAgree /\ HolderAgrees
    /\ StatusTellsResults /\ CountsExact /\ EvidenceIsOfFrozenSource

-----------------------------------------------------------------------------
(* What a step can do to the store.                                        *)

StoreNext ==
    \/ NoStore
    \/ \E r \in Runs : StartVerification(r) \/ CancelRun(r) \/ Expire(r)
    \/ \E w \in Workers : Claim(w) \/ (AtWork(w) /\ Owned(w) /\ HolderStep(w))

LEMMA NextStoreStep ==
  ASSUME TypeOK, [Next]_vars
  PROVE  StoreNext
  <1> USE DEF StoreNext
  <1>1. ASSUME NEW w \in Workers, WorkerStep(w)
        PROVE  StoreNext
    BY <1>1, WorkerStoreStep DEF TypeOK, StoreStep
  <1>2. ASSUME NEW w \in Workers, HeartbeatLost(w) \/ Start(w) \/ Crash(w)
        PROVE  StoreNext
    BY <1>2 DEF HeartbeatLost, Start, Crash, NoStore
  <1>3. CASE LibraryChanges \/ \E d \in Releases : Redeploy(d)
    BY <1>3 DEF LibraryChanges, Redeploy
  <1>4. CASE UNCHANGED vars
    BY <1>4 DEF vars, NoStore
  <1> QED
    BY <1>1, <1>2, <1>3, <1>4 DEF Next, LeaseExpires, LeaseLapses

\* The run of a holder that is at work.
LEMMA HolderRun ==
  ASSUME TypeOK, MemoryAgrees, NEW w \in Workers, AtWork(w)
  PROVE  wrun[w] \in Runs /\ InHand(w) \subseteq todo[w] /\ todo[w] \subseteq Books
  BY DEF MemoryAgrees, Coherent, InHand, TypeOK, WorkerTypeOK

LEMMA StatusesDisjoint ==
  /\ ActiveStatuses \cap TerminalStatuses = {}
  /\ "none" \notin ActiveStatuses /\ "none" \notin TerminalStatuses
  /\ {"pending", "inventorying", "running", "cancelling"} \subseteq ActiveStatuses
  BY DEF ActiveStatuses, TerminalStatuses

\* A run keeps its rows unless its holder changes them.
SameRun(r) ==
    UNCHANGED <<status[r], fence[r], frozen[r], completed[r], result[r], evidence[r]>>

LEMMA HolderStepLocal ==
  ASSUME TypeOK, MemoryAgrees, NEW w \in Workers, AtWork(w), HolderStep(w), NEW q \in Runs
  PROVE  /\ q # wrun[w] => SameRun(q) /\ UNCHANGED <<holder[q], lease[q]>>
         /\ holder'[wrun[w]] \in {holder[wrun[w]], "none"}
  <1>1. wrun[w] \in Runs
    BY HolderRun
  <1>2. CASE FreezeInventory(w)
    BY <1>1, <1>2 DEF FreezeInventory, SameRun, StoreRest, TypeOK, StoreTypeOK
  <1>3. ASSUME NEW b, NEW s, RecordState(w, b, s)
        PROVE  /\ q # wrun[w] => SameRun(q) /\ UNCHANGED <<holder[q], lease[q]>>
               /\ holder'[wrun[w]] \in {holder[wrun[w]], "none"}
    BY <1>1, <1>3 DEF RecordState, SameRun, runVars, TypeOK, StoreTypeOK
  <1>4. ASSUME NEW b, RecordPackage(w, b)
        PROVE  /\ q # wrun[w] => SameRun(q) /\ UNCHANGED <<holder[q], lease[q]>>
               /\ holder'[wrun[w]] \in {holder[wrun[w]], "none"}
    BY <1>1, <1>4 DEF RecordPackage, SameRun, StoreRest, TypeOK, StoreTypeOK
  <1>5. CASE FinishRun(w)
    BY <1>1, <1>5 DEF FinishRun, SameRun, StoreRest, TypeOK, StoreTypeOK
  <1> QED
    BY <1>2, <1>3, <1>4, <1>5 DEF HolderStep

-----------------------------------------------------------------------------
(* Ended runs.                                                             *)

LEMMA EndedStep ==
  ASSUME TypeOK, MemoryAgrees, StoreNext, NEW r \in Runs, status[r] \in TerminalStatuses
  PROVE  SameRun(r)
  <1> USE StatusesDisjoint
  <1>1. CASE NoStore
    BY <1>1 DEF NoStore, runVars, SameRun
  <1>2. ASSUME NEW q \in Runs, StartVerification(q) \/ CancelRun(q) \/ Expire(q)
        PROVE  SameRun(r)
    BY <1>2 DEF StartVerification, CancelRun, Expire, SameRun, TypeOK, StoreTypeOK
  <1>3. ASSUME NEW w \in Workers, Claim(w)
        PROVE  SameRun(r)
    BY <1>3 DEF Claim, Claimable, SameRun, TypeOK, StoreTypeOK
  <1>4. ASSUME NEW w \in Workers, AtWork(w), Owned(w), HolderStep(w)
        PROVE  SameRun(r)
    BY <1>4, HolderStepLocal DEF Owned
  <1> QED
    BY <1>1, <1>2, <1>3, <1>4 DEF StoreNext

\* Runs end by the hand of their holder only.
LEMMA EndStep ==
  ASSUME TypeOK, MemoryAgrees, StoreNext, NEW r \in Runs, status'[r] \in TerminalStatuses
  PROVE  \/ status[r] \in TerminalStatuses
         \/ \E w \in Workers : /\ AtWork(w) /\ Owned(w) /\ r = wrun[w]
                              /\ pc[w] \in {"finish", "close"} /\ FinishRun(w)
  <1> USE StatusesDisjoint
  <1>1. CASE NoStore
    BY <1>1 DEF NoStore, runVars
  <1>2. ASSUME NEW q \in Runs, StartVerification(q) \/ CancelRun(q) \/ Expire(q)
        PROVE  status[r] \in TerminalStatuses
    <2>1. status' \in {status, [status EXCEPT ![q] = "pending"],
                        [status EXCEPT ![q] = "cancelling"]}
      BY <1>2 DEF StartVerification, CancelRun, Expire
    <2> QED
      BY <2>1 DEF TypeOK, StoreTypeOK
  <1>3. ASSUME NEW w \in Workers, Claim(w)
        PROVE  status[r] \in TerminalStatuses
    BY <1>3 DEF Claim, TypeOK, StoreTypeOK
  <1>4. ASSUME NEW w \in Workers, AtWork(w), Owned(w), HolderStep(w), ~FinishRun(w)
        PROVE  status[r] \in TerminalStatuses
    <2>1. wrun[w] \in Runs
      BY <1>4, HolderRun
    <2> QED
      BY <1>4, <2>1, ZenonT(60) DEF HolderStep, FreezeInventory, RecordState, RecordPackage, runVars,
         TypeOK, StoreTypeOK
  <1>5. ASSUME NEW w \in Workers, AtWork(w), Owned(w), HolderStep(w), FinishRun(w),
               r # wrun[w]
        PROVE  status[r] \in TerminalStatuses
    BY <1>5, HolderStepLocal DEF SameRun
  <1>6. ASSUME NEW w \in Workers, HolderStep(w), FinishRun(w), AtWork(w),
               r = wrun[w], pc[w] \notin {"finish", "close"}
        PROVE  status[r] \in TerminalStatuses
    <2>1. wrun[w] \in Runs
      BY <1>6, HolderRun
    <2> QED
      BY <1>6, <2>1 DEF HolderStep, FreezeInventory, RecordState, RecordPackage, runVars,
         TypeOK, StoreTypeOK
  <1> QED
    BY <1>1, <1>2, <1>3, <1>4, <1>5, <1>6 DEF StoreNext

\* An ended run never changes again, whatever processes are still at work on it
\* (_claim_predicate, _load_owned_run).
THEOREM EndedRunsStayEnded == Spec => EndedRunsStay
  <1>1. Init => TypeOK /\ MemoryAgrees
    BY TypeInit
  <1>2. TypeOK /\ MemoryAgrees /\ [Next]_vars => (TypeOK /\ MemoryAgrees)'
    BY TypeStep
  <1>3. TypeOK /\ MemoryAgrees /\ [Next]_vars =>
          [\A r \in Runs : status[r] \in TerminalStatuses =>
             UNCHANGED <<status[r], fence[r], frozen[r], completed[r], result[r],
                         evidence[r]>>]_vars
    BY NextStoreStep, EndedStep DEF SameRun
  <1> QED
    BY <1>1, <1>2, <1>3, PTL DEF Spec, EndedRunsStay

-----------------------------------------------------------------------------
(* Processes other than the one that steps.                                *)

\* The run of a process keeps what the process takes for granted.
SameRows(r) == UNCHANGED <<frozen[r], result[r], evidence[r]>>

LEMMA UntouchedOwner ==
  ASSUME NEW x \in Workers, Untouched(x), NEW r \in Runs, wrun[x] = r,
         holder'[r] = holder[r], fence'[r] = fence[r], status'[r] = status[r],
         lease'[r] = lease[r], Owned(x)'
  PROVE  Owned(x)
  BY DEF Owned, Untouched

\* Another verifier leaves the rows of a holder alone.
LEMMA ForeignStep ==
  ASSUME TypeOK, MemoryAgrees, NEW w \in Workers, StoreStep(w), NEW x \in Workers \ {w},
         Untouched(x), NEW r \in Runs, wrun[x] = r, Owned(x)'
  PROVE  Owned(x) /\ SameRows(r)
  <1>1. x # "none" /\ holder'[r] = x
    BY WorkersAssumption DEF Owned, Untouched
  <1>2. CASE NoStore
    BY <1>2, UntouchedOwner DEF NoStore, runVars, SameRows
  <1>3. CASE Claim(w)
    <2>1. PICK q \in Runs :
            /\ holder' = [holder EXCEPT ![q] = w]
            /\ fence'  = [fence EXCEPT ![q] = @ + 1]
            /\ lease'  = [lease EXCEPT ![q] = "live"]
            /\ status' = [status EXCEPT ![q] = IF @ = "pending" THEN "inventorying" ELSE @]
            /\ UNCHANGED <<frozen, result, evidence>>
      BY <1>3 DEF Claim
    <2>2. q # r
      BY <1>1, <2>1 DEF TypeOK, StoreTypeOK
    <2> QED
      BY <2>1, <2>2, UntouchedOwner DEF TypeOK, StoreTypeOK, SameRows
  <1>4. CASE AtWork(w) /\ Owned(w) /\ HolderStep(w)
    <2>1. r # wrun[w]
      BY <1>1, <1>4, HolderStepLocal DEF Owned
    <2>2. SameRun(r) /\ holder'[r] = holder[r] /\ lease'[r] = lease[r]
      BY <1>4, <2>1, HolderStepLocal
    <2> QED
      BY <2>2, UntouchedOwner DEF SameRun, SameRows
  <1> QED
    BY <1>2, <1>3, <1>4 DEF StoreStep

\* So do the web process and the clock.
LEMMA OutsideStep ==
  ASSUME TypeOK, FreshRuns, NEW q \in Runs,
         StartVerification(q) \/ CancelRun(q) \/ Expire(q),
         NEW x \in Workers, Untouched(x), NEW r \in Runs, wrun[x] = r, Owned(x)'
  PROVE  Owned(x) /\ SameRows(r)
  <1>1. x # "none" /\ holder'[r] = x /\ lease'[r] = "live"
    BY WorkersAssumption DEF Owned, Untouched
  <1>2. SameRows(r) /\ UNCHANGED <<holder, fence>>
    BY DEF StartVerification, CancelRun, Expire, SameRows
  <1>3. CASE q = r
    <2>1. ~StartVerification(q)
      BY <1>1, <1>2, <1>3 DEF StartVerification, FreshRuns
    <2>2. ~Expire(q)
      BY <1>1, <1>3 DEF Expire, TypeOK, StoreTypeOK
    <2>3. CancelRun(q)
      BY <2>1, <2>2
    <2>4. wrun'[x] = r /\ wfence'[x] = wfence[x]
      BY DEF Untouched
    <2> QED
      BY <1>2, <1>3, <2>3, <2>4 DEF CancelRun, Owned
  <1>4. CASE q # r
    <2>1. status'[r] = status[r] /\ lease'[r] = lease[r]
      BY <1>4 DEF StartVerification, CancelRun, Expire, TypeOK, StoreTypeOK
    <2> QED
      BY <1>2, <2>1, UntouchedOwner
  <1> QED
    BY <1>3, <1>4

LEMMA AgreesKept ==
  ASSUME NEW x \in Workers, Untouched(x), NEW r \in Runs, wrun[x] = r, SameRows(r), Agrees(x)
  PROVE  Agrees(x)'
  BY DEF Agrees, Untouched, SameRows, Sealed, InHand, Tells

-----------------------------------------------------------------------------
(* The process that steps.                                                 *)

\* The holder keeps its claim and its rows while it goes on to another label.
LEMMA NoStoreOwner ==
  ASSUME NEW w \in Workers, NoStore, UNCHANGED <<wrun, wfence>>, Owned(w)'
  PROVE  Owned(w)
  BY DEF NoStore, runVars, Owned

\* Labels at which nothing is taken for granted.
LEMMA NothingAssumed ==
  ASSUME NEW w \in Workers,
         pc'[w] \in {"down", "poll", "contract", "check_start", "open", "freeze", "close"}
  PROVE  Agrees(w)'
  BY DEF Agrees, FrozenPcs, PipelinePcs

LEMMA ConcludeAgrees ==
  ASSUME TypeOK, NEW w \in Workers, NEW v, Conclude(w, "close", v)
  PROVE  Agrees(w)'
  BY NothingAssumed DEF Conclude, Goto, TypeOK, WorkerTypeOK

\* A recorded outcome for one of the books that are left.
LEMMA RecordStateAgrees ==
  ASSUME TypeOK, NEW w \in Workers, Agrees(w), pc[w] \in {"begin", "announce"},
         wrun[w] \in Runs, NEW b \in InHand(w), NEW s, RecordState(w, b, s)
  PROVE  /\ frozen'[wrun[w]] = {source[w]} /\ b \in Books
         /\ evidence' = evidence
         /\ \A c \in Books : result'[wrun[w]][c] = IF c = b THEN s ELSE result[wrun[w]][c]
  BY DEF TypeOK, StoreTypeOK, WorkerTypeOK, InHand, RecordState, runVars, Agrees, FrozenPcs

\* The outcome of an audit, whether or not the state of its book was recorded.
LEMMA DecideAgrees ==
  ASSUME TypeOK, MemoryAgrees, NEW w \in Workers, Agrees(w), NEW r \in Runs, wrun[w] = r,
         pc[w] \in {"begin", "audit", "announce"}, NEW o \in Outcomes, Decide(w, o),
         frozen'[r] = frozen[r], evidence'[r] = evidence[r],
         \A b \in Books \ todo[w] : result'[r][b] = result[r][b],
         pc[w] = "announce" => outcome[w] # "failed"
  PROVE  Agrees(w)'
  <1>1. /\ pc'[w] = "announce" /\ outcome'[w] = o /\ wrun'[w] = r
        /\ todo'[w] = todo[w] /\ source'[w] = source[w]
        /\ errors'[w] = (errors[w] \/ o = "failed")
    BY DEF Decide, Goto, TypeOK, WorkerTypeOK
  <1>2. frozen[r] = {source[w]}
    BY DEF Agrees, FrozenPcs
  <1>3. /\ \A b \in todo[w] : ~Sealed(r, b)
        /\ \A b \in Books \ todo[w] :
              result[r][b] = "settled" \/ (result[r][b] = "failed" /\ errors[w])
        /\ errors[w] => \E b \in Books \ todo[w] : result[r][b] = "failed"
    BY DEF Agrees, PipelinePcs
  <1>4. \A b \in todo'[w] : ~Sealed(r, b)'
    BY <1>1, <1>3 DEF Sealed
  <1>5. \A b \in Books \ todo'[w] :
           result'[r][b] = "settled" \/ (result'[r][b] = "failed" /\ errors'[w])
    BY <1>1, <1>3, ZenonT(60)
  <1>6. errors'[w] => (\E b \in Books \ todo'[w] : result'[r][b] = "failed")
                      \/ outcome'[w] = "failed"
    BY <1>1, <1>3
  <1> QED
    BY <1>1, <1>2, <1>4, <1>5, <1>6 DEF Agrees, FrozenPcs, PipelinePcs

LEMMA BeginBookAgrees ==
  ASSUME TypeOK, MemoryAgrees, NEW w \in Workers, AtWork(w) /\ Owned(w) => Agrees(w),
         BeginBook(w), Owned(w)'
  PROVE  Agrees(w)'
  <1>1. pc[w] = "begin" /\ AtWork(w) /\ wrun[w] \in Runs
    BY HolderRun DEF BeginBook, AtWork
  <1>2. PICK r \in Runs : r = wrun[w]
    BY <1>1
  <1>3. "failed" \in Outcomes
    BY DEF Outcomes
  <1>4. CASE NoStore /\ Decide(w, "failed")
    <2>1. Agrees(w)
      BY <1>1, <1>4, NoStoreOwner DEF Decide
    <2> QED
      BY <1>1, <1>2, <1>3, <1>4, <2>1, DecideAgrees DEF NoStore, runVars
  <1>5. ASSUME NEW b \in InHand(w), Writable(w), RecordState(w, b, "working"),
               Decide(w, "failed")
        PROVE  Agrees(w)'
    <2>1. Agrees(w)
      BY <1>1, <1>5 DEF Writable
    <2>2. b \in todo[w] /\ frozen' = frozen
      BY <1>5 DEF InHand, RecordState, runVars
    <2>3. /\ evidence' = evidence
          /\ \A c \in Books : result'[r][c] = IF c = b THEN "working" ELSE result[r][c]
      BY <1>1, <1>2, <1>5, <2>1, RecordStateAgrees
    <2> QED
      BY <1>1, <1>2, <1>3, <1>5, <2>1, <2>2, <2>3, DecideAgrees
  <1>6. ASSUME NEW b \in InHand(w), Writable(w), RecordState(w, b, "working"),
               Step(w, "audit")
        PROVE  Agrees(w)'
    <2>1. Agrees(w)
      BY <1>1, <1>6 DEF Writable
    <2>2. b \in todo[w] /\ pc'[w] = "audit" /\ UNCHANGED memory
      BY <1>6 DEF InHand, Step, Goto, TypeOK, WorkerTypeOK
    <2>3. /\ frozen'[r] = {source[w]} /\ evidence' = evidence
          /\ \A c \in Books : result'[r][c] = IF c = b THEN "working" ELSE result[r][c]
      BY <1>1, <1>2, <1>6, <2>1, RecordStateAgrees
    <2> QED
      BY <1>1, <1>2, <2>1, <2>2, <2>3 DEF Agrees, FrozenPcs, PipelinePcs, Sealed, memory
  <1> QED
    BY <1>4, <1>5, <1>6 DEF BeginBook

LEMMA AuditBookAgrees ==
  ASSUME TypeOK, MemoryAgrees, NEW w \in Workers, AtWork(w) /\ Owned(w) => Agrees(w),
         AuditBook(w), Owned(w)'
  PROVE  Agrees(w)'
  <1>1. pc[w] = "audit" /\ AtWork(w) /\ wrun[w] \in Runs /\ NoStore
    BY HolderRun DEF AuditBook, AtWork
  <1>2. PICK r \in Runs : r = wrun[w]
    BY <1>1
  <1>3. PICK o \in Outcomes : Decide(w, o)
    BY DEF AuditBook, Outcomes
  <1>4. Agrees(w)
    BY <1>1, <1>3, NoStoreOwner DEF Decide
  <1> QED
    BY <1>1, <1>2, <1>3, <1>4, DecideAgrees DEF NoStore, runVars

LEMMA AnnounceAgrees ==
  ASSUME TypeOK, MemoryAgrees, NEW w \in Workers, AtWork(w) /\ Owned(w) => Agrees(w),
         Announce(w), Owned(w)'
  PROVE  Agrees(w)'
  <1>1. pc[w] = "announce" /\ AtWork(w) /\ wrun[w] \in Runs
    BY HolderRun DEF Announce, AtWork
  <1>2. PICK r \in Runs : r = wrun[w]
    BY <1>1
  <1>3. "failed" \in Outcomes
    BY DEF Outcomes
  <1>4. CASE NoStore /\ Decide(w, "failed") /\ outcome[w] = "settled"
    <2>1. Agrees(w)
      BY <1>1, <1>4, NoStoreOwner DEF Decide
    <2> QED
      BY <1>1, <1>2, <1>3, <1>4, <2>1, DecideAgrees DEF NoStore, runVars
  <1>5. CASE Announced(w) /\ (Step(w, "record") \/ (Decide(w, "failed") /\ outcome[w] = "settled"))
    <2>1. PICK b \in InHand(w) : RecordState(w, b, outcome[w])
      BY <1>5 DEF Announced
    <2>2. Agrees(w)
      BY <1>1, <1>5 DEF Announced, Writable
    <2>3. b \in todo[w] /\ frozen' = frozen
      BY <2>1 DEF InHand, RecordState, runVars
    <2>4. /\ frozen'[r] = {source[w]} /\ evidence' = evidence /\ b \in Books
          /\ \A c \in Books : result'[r][c] = IF c = b THEN outcome[w] ELSE result[r][c]
      BY <1>1, <1>2, <2>1, <2>2, RecordStateAgrees
    <2>5. CASE Step(w, "record")
      <3>1. pc'[w] = "record" /\ UNCHANGED memory
        BY <2>5 DEF Step, Goto, TypeOK, WorkerTypeOK
      <3>2. \A c \in InHand(w) : c = b
        BY <2>1, HolderRun, <1>1 DEF InHand, Books
      <3>3. \A c \in InHand(w)' : result'[r][c] = outcome[w]
        BY <2>4, <3>1, <3>2 DEF InHand, memory
      <3> QED
        BY <1>1, <1>2, <2>2, <2>3, <2>4, <3>1, <3>3
           DEF Agrees, FrozenPcs, PipelinePcs, Sealed, memory
    <2>6. CASE Decide(w, "failed") /\ outcome[w] = "settled"
      BY <1>1, <1>2, <1>3, <2>2, <2>3, <2>4, <2>6, DecideAgrees
    <2> QED
      BY <1>5, <2>5, <2>6
  <1>6. CASE Abandon(w)
    BY <1>6, NothingAssumed DEF Abandon, Goto, TypeOK, WorkerTypeOK
  <1>7. CASE CancelHandled(w) \/ Fails(w)
    BY <1>7, ConcludeAgrees DEF CancelHandled, Fails
  <1> QED
    BY <1>4, <1>5, <1>6, <1>7 DEF Announce

LEMMA RecordAgrees ==
  ASSUME TypeOK, MemoryAgrees, NEW w \in Workers, AtWork(w) /\ Owned(w) => Agrees(w),
         Record(w), Owned(w)'
  PROVE  Agrees(w)'
  <1>1. pc[w] = "record" /\ AtWork(w) /\ wrun[w] \in Runs /\ Agrees(w)
    BY HolderRun DEF Record, AtWork
  <1>2. PICK r \in Runs : r = wrun[w]
    BY <1>1
  <1>3. CASE Fails(w) \/ Conclude(w, "close", "source_changed")
    BY <1>3, ConcludeAgrees DEF Fails
  <1>4. ASSUME NEW b \in InHand(w), RecordPackage(w, b), outcome[w] # "source_changed",
               todo' = [todo EXCEPT ![w] = @ \ {b}], Goto(w, Turn(todo'[w])),
               UNCHANGED <<wrun, wfence, source, outcome, errors, verdict, hbLost>>
        PROVE  Agrees(w)'
    <2>1. b \in Books /\ b \in todo[w] /\ todo[w] \subseteq Books
      BY <1>1, HolderRun
    <2>2. /\ frozen' = frozen
          /\ \A c \in Books : result'[r][c] = IF c = b THEN outcome[w] ELSE result[r][c]
          /\ \A c \in Books \ {b} : evidence'[r][c] = evidence[r][c]
      BY <1>2, <1>4, <2>1 DEF RecordPackage, StoreRest, TypeOK, StoreTypeOK
    <2>3. todo'[w] = todo[w] \ {b} /\ pc'[w] \in {"begin", "final"}
      BY <1>4 DEF TypeOK, WorkerTypeOK, Goto, Turn
    <2>4. /\ frozen[r] = {source[w]}
          /\ \A c \in todo[w] : ~Sealed(r, c)
          /\ \A c \in Books \ todo[w] :
                result[r][c] = "settled" \/ (result[r][c] = "failed" /\ errors[w])
          /\ errors[w] => (\E c \in Books \ todo[w] : result[r][c] = "failed")
                          \/ outcome[w] = "failed"
      BY <1>1, <1>2 DEF Agrees, FrozenPcs, PipelinePcs
    <2>5. outcome[w] = "settled" \/ (outcome[w] = "failed" /\ errors[w])
      BY <1>1, <1>4 DEF TypeOK, WorkerTypeOK, Outcomes, MemoryAgrees, Coherent
    <2>6. \A c \in todo'[w] : ~Sealed(r, c)'
      BY <2>1, <2>2, <2>3, <2>4 DEF Sealed
    <2>7. \A c \in Books \ todo'[w] :
             result'[r][c] = "settled" \/ (result'[r][c] = "failed" /\ errors[w])
      BY <2>1, <2>2, <2>3, <2>4, <2>5
    <2>8. errors[w] => \E c \in Books \ todo'[w] : result'[r][c] = "failed"
      BY <2>1, <2>2, <2>3, <2>4, <2>5
    <2> QED
      BY <1>2, <1>4, <2>2, <2>3, <2>4, <2>6, <2>7, <2>8 DEF Agrees, FrozenPcs, PipelinePcs
  <1> QED
    BY <1>3, <1>4 DEF Record

LEMMA ResumeAgrees ==
  ASSUME TypeOK, MemoryAgrees, SealsAgree, NEW w \in Workers,
         AtWork(w) /\ Owned(w) => Agrees(w), Resume(w)
  PROVE  Agrees(w)'
  <1>1. pc[w] = "resume" /\ AtWork(w) /\ wrun[w] \in Runs
    BY HolderRun DEF Resume, AtWork
  <1>2. PICK r \in Runs : r = wrun[w]
    BY <1>1
  <1>3. CASE CancelHandled(w) \/ Fails(w)
    BY <1>3, ConcludeAgrees DEF CancelHandled, Fails
  <1>4. ASSUME Writable(w), NoStore,
               todo' = [todo EXCEPT ![w] = Books \ Resumable(wrun[w])],
               Goto(w, Turn(todo'[w])),
               UNCHANGED <<wrun, wfence, source, outcome, errors, verdict, hbLost>>
        PROVE  Agrees(w)'
    <2>1. frozen[r] = {source[w]}
      BY <1>1, <1>2, <1>4 DEF Writable, Agrees, FrozenPcs
    <2>2. todo'[w] = Books \ Resumable(r) /\ pc'[w] \in {"begin", "final"}
      BY <1>2, <1>4 DEF TypeOK, WorkerTypeOK, Goto, Turn
    <2>3. ~errors[w]
      BY <1>1 DEF MemoryAgrees, Coherent, EarlyPcs
    <2>4. \A b \in todo'[w] : ~Sealed(r, b)
      BY <2>2 DEF SealsAgree, Resumable, Sealed
    <2>5. \A b \in Books \ todo'[w] : result[r][b] = "settled"
      BY <2>2 DEF Resumable
    <2>6. UNCHANGED <<frozen, result, evidence>>
      BY <1>4 DEF NoStore, runVars
    <2> QED
      BY <1>2, <1>4, <2>1, <2>2, <2>3, <2>4, <2>5, <2>6
         DEF Agrees, FrozenPcs, PipelinePcs, Sealed
  <1> QED
    BY <1>3, <1>4 DEF Resume

LEMMA CheckCancellationAgrees ==
  ASSUME TypeOK, MemoryAgrees, NEW w \in Workers, AtWork(w) /\ Owned(w) => Agrees(w),
         CheckCancellation(w)
  PROVE  Agrees(w)'
  <1>1. /\ pc[w] \in {"check_start", "check_frozen", "check_end"} /\ AtWork(w)
        /\ wrun[w] \in Runs /\ Agrees(w) /\ NoStore
    BY HolderRun DEF CheckCancellation, AtWork
  <1>2. PICK r \in Runs : r = wrun[w]
    BY <1>1
  <1>3. UNCHANGED <<frozen, result, evidence>>
    BY <1>1 DEF NoStore, runVars
  <1>4. CASE Fails(w)
    BY <1>4, ConcludeAgrees DEF Fails
  <1>5. ASSUME NEW v, Conclude(w, "finish", v), Tells(r, v)
        PROVE  Agrees(w)'
    <2>1. pc'[w] = "finish" /\ verdict'[w] = v /\ wrun'[w] = r
      BY <1>2, <1>5 DEF Conclude, Goto, TypeOK, WorkerTypeOK
    <2> QED
      BY <1>3, <1>5, <2>1 DEF Agrees, FrozenPcs, PipelinePcs, Tells
  <1>6. CASE Conclude(w, "finish", "cancelled")
    BY <1>5, <1>6 DEF Tells
  <1>7. CASE Step(w, "open")
    BY <1>7, NothingAssumed DEF Step, Goto, TypeOK, WorkerTypeOK
  <1>8. CASE Step(w, "resume") /\ pc[w] = "check_frozen"
    <2>1. pc'[w] = "resume" /\ wrun'[w] = r /\ source'[w] = source[w]
      BY <1>2, <1>8 DEF Step, Goto, TypeOK, WorkerTypeOK, memory
    <2>2. frozen[r] = {source[w]}
      BY <1>1, <1>2, <1>8 DEF Agrees, FrozenPcs
    <2> QED
      BY <1>3, <2>1, <2>2 DEF Agrees, FrozenPcs, PipelinePcs
  <1>9. CASE /\ pc[w] = "check_end"
             /\ Conclude(w, "finish",
                         IF errors[w] THEN "completed_with_errors" ELSE "completed")
    <2>1. todo[w] = {}
      BY <1>9 DEF MemoryAgrees, Coherent
    <2>2. /\ \A b \in Books :
                result[r][b] = "settled" \/ (result[r][b] = "failed" /\ errors[w])
          /\ errors[w] => \E b \in Books : result[r][b] = "failed"
      BY <1>1, <1>2, <1>9, <2>1 DEF Agrees, PipelinePcs
    <2>3. Tells(r, IF errors[w] THEN "completed_with_errors" ELSE "completed")
      BY <2>2 DEF Tells
    <2> QED
      BY <1>5, <1>9, <2>3
  <1> QED
    BY <1>4, <1>6, <1>7, <1>8, <1>9 DEF CheckCancellation

LEMMA FreezeAgrees ==
  ASSUME TypeOK, MemoryAgrees, NEW w \in Workers, Freeze(w)
  PROVE  Agrees(w)'
  <1>1. CASE CancelHandled(w) \/ Fails(w) \/ Conclude(w, "close", "source_changed")
    BY <1>1, ConcludeAgrees DEF CancelHandled, Fails
  <1>2. CASE FreezeInventory(w) /\ Step(w, "check_frozen")
    <2>1. wrun[w] \in Runs
      BY HolderRun DEF Freeze, AtWork
    <2>2. frozen'[wrun[w]] = {source[w]}
      BY <1>2, <2>1 DEF FreezeInventory, TypeOK, StoreTypeOK
    <2>3. pc'[w] = "check_frozen" /\ UNCHANGED memory
      BY <1>2 DEF Step, Goto, TypeOK, WorkerTypeOK
    <2> QED
      BY <2>2, <2>3 DEF Agrees, FrozenPcs, PipelinePcs, memory
  <1> QED
    BY <1>1, <1>2 DEF Freeze

LEMMA AssertUnchangedAgrees ==
  ASSUME TypeOK, MemoryAgrees, NEW w \in Workers, AtWork(w) /\ Owned(w) => Agrees(w),
         AssertUnchanged(w), Owned(w)'
  PROVE  Agrees(w)'
  <1>1. pc[w] = "final" /\ AtWork(w) /\ wrun[w] \in Runs /\ NoStore
    BY HolderRun DEF AssertUnchanged, AtWork
  <1>2. CASE Conclude(w, "close", "source_changed")
    BY <1>2, ConcludeAgrees
  <1>3. CASE Step(w, "check_end")
    <2>1. pc'[w] = "check_end" /\ UNCHANGED memory
      BY <1>3 DEF Step, Goto, TypeOK, WorkerTypeOK
    <2>2. Agrees(w)
      BY <1>1, <2>1, NoStoreOwner DEF memory
    <2>3. UNCHANGED <<frozen, result, evidence>>
      BY <1>1 DEF NoStore, runVars
    <2> QED
      BY <1>1, <2>1, <2>2, <2>3 DEF Agrees, FrozenPcs, PipelinePcs, Sealed, memory
  <1> QED
    BY <1>2, <1>3 DEF AssertUnchanged

\* A holder that stays at work after its own step still agrees with the store.
LEMMA WorkerAgrees ==
  ASSUME TypeOK, MemoryAgrees, SealsAgree, NEW w \in Workers,
         AtWork(w) /\ Owned(w) => Agrees(w), WorkerStep(w), Owned(w)'
  PROVE  Agrees(w)'
  <1>1. CASE Claim(w)
    BY <1>1, NothingAssumed DEF Claim, Goto, TypeOK, WorkerTypeOK
  <1>2. CASE LeaseLost(w) \/ EnsureCurrent(w)
    BY <1>2, NothingAssumed DEF LeaseLost, EnsureCurrent, Abandon, Goto, TypeOK, WorkerTypeOK
  <1>3. CASE LoadContract(w)
    <2>1. Fails(w) \/ Conclude(w, "close", "blocked_recovery") \/ Step(w, "check_start")
      BY <1>3 DEF LoadContract
    <2>2. CASE Step(w, "check_start")
      BY <2>2, NothingAssumed DEF Step, Goto, TypeOK, WorkerTypeOK
    <2> QED
      BY <2>1, <2>2, ConcludeAgrees DEF Fails
  <1>4. CASE OpenSource(w)
    BY <1>4, NothingAssumed DEF OpenSource, Fails, Conclude, Goto, TypeOK, WorkerTypeOK
  <1>5. CASE Finish(w) \/ Close(w)
    BY <1>5, NothingAssumed DEF Finish, Close, Fails, Conclude, Goto, TypeOK, WorkerTypeOK
  <1> QED
    BY <1>1, <1>2, <1>3, <1>4, <1>5, CheckCancellationAgrees, FreezeAgrees, ResumeAgrees,
       BeginBookAgrees, AuditBookAgrees, AnnounceAgrees, RecordAgrees, AssertUnchangedAgrees
       DEF WorkerStep

LEMMA NoStoreKeepsAgreement ==
  ASSUME TypeOK, MemoryAgrees, HolderAgrees, NEW x \in Workers, NoStore, Untouched(x),
         AtWork(x)', Owned(x)'
  PROVE  Agrees(x)'
  <1>1. AtWork(x) /\ wrun[x] \in Runs
    BY HolderRun DEF AtWork, Untouched
  <1>2. PICK r \in Runs : wrun[x] = r
    BY <1>1
  <1>3. Owned(x) /\ SameRows(r)
    BY <1>2, UntouchedOwner DEF NoStore, runVars, SameRows
  <1> QED
    BY <1>1, <1>2, <1>3, AgreesKept DEF HolderAgrees

LEMMA HolderAgreesStep ==
  ASSUME TypeOK, MemoryAgrees, FreshRuns, SealsAgree, HolderAgrees, [Next]_vars
  PROVE  HolderAgrees'
  <1> SUFFICES ASSUME NEW x \in Workers, AtWork(x)', Owned(x)'
               PROVE  Agrees(x)'
    BY DEF HolderAgrees
  <1>1. ASSUME Untouched(x)
        PROVE  AtWork(x) /\ wrun[x] \in Runs
    BY <1>1, HolderRun DEF AtWork, Untouched
  <1>2. ASSUME NEW q \in Runs, StartVerification(q) \/ CancelRun(q) \/ Expire(q), Untouched(x)
        PROVE  Agrees(x)'
    <2>1. PICK r \in Runs : wrun[x] = r
      BY <1>1, <1>2
    <2>2. Owned(x) /\ SameRows(r)
      BY <1>2, <2>1, OutsideStep
    <2> QED
      BY <1>1, <1>2, <2>1, <2>2, AgreesKept DEF HolderAgrees
  <1>3. ASSUME NEW q \in Runs, StartVerification(q) \/ CancelRun(q) \/ LeaseExpires(q)
                               \/ LeaseLapses(q)
        PROVE  Agrees(x)'
    <2>1. StartVerification(q) \/ CancelRun(q) \/ Expire(q)
      BY <1>3 DEF LeaseExpires, LeaseLapses
    <2>2. Untouched(x)
      BY <2>1 DEF StartVerification, CancelRun, Expire, memory, Untouched
    <2> QED
      BY <1>2, <2>1, <2>2
  <1>4. ASSUME NEW w \in Workers, WorkerStep(w)
        PROVE  Agrees(x)'
    <2>1. CASE x = w
      BY <1>4, <2>1, WorkerAgrees DEF HolderAgrees
    <2>2. CASE x # w
      <3>1. Untouched(x)
        BY <1>4, <2>2, WorkerMoves DEF Moves
      <3>2. PICK r \in Runs : wrun[x] = r
        BY <1>1, <3>1
      <3>3. StoreStep(w)
        BY <1>4, WorkerStoreStep DEF TypeOK
      <3>4. Owned(x) /\ SameRows(r)
        BY <2>2, <3>1, <3>2, <3>3, ForeignStep
      <3> QED
        BY <1>1, <3>1, <3>2, <3>4, AgreesKept DEF HolderAgrees
    <2> QED
      BY <2>1, <2>2
  <1>5. ASSUME NEW w \in Workers, HeartbeatLost(w)
        PROVE  Agrees(x)'
    <2>1. NoStore /\ Untouched(x)
      BY <1>5 DEF HeartbeatLost, NoStore, Untouched
    <2> QED
      BY <2>1, NoStoreKeepsAgreement
  <1>6. ASSUME NEW w \in Workers, Start(w) \/ Crash(w)
        PROVE  Agrees(x)'
    <2>1. NoStore /\ pc'[w] \in {"down", "poll"}
      BY <1>6 DEF Start, Crash, NoStore, Goto, TypeOK, WorkerTypeOK
    <2>2. x # w
      BY <2>1 DEF AtWork
    <2>3. Untouched(x)
      BY <1>6, <2>2 DEF Start, Crash, Goto, Forget, memory, Untouched, TypeOK, WorkerTypeOK
    <2> QED
      BY <2>1, <2>3, NoStoreKeepsAgreement
  <1>7. CASE LibraryChanges \/ (\E d \in Releases : Redeploy(d)) \/ UNCHANGED vars
    <2>1. NoStore /\ Untouched(x)
      BY <1>7 DEF LibraryChanges, Redeploy, vars, memory, NoStore, Untouched
    <2> QED
      BY <2>1, NoStoreKeepsAgreement
  <1> QED
    BY <1>3, <1>4, <1>5, <1>6, <1>7 DEF Next

-----------------------------------------------------------------------------
(* Results and evidence.                                                   *)

\* A sealed verdict stays as it is, and so does the state of its book.
LEMMA SealedStep ==
  ASSUME TypeOK, MemoryAgrees, SealsAgree, HolderAgrees, StoreNext,
         NEW r \in Runs, NEW b \in Books, Sealed(r, b)
  PROVE  evidence'[r][b] = evidence[r][b] /\ result'[r][b] = result[r][b]
  <1>1. ASSUME UNCHANGED <<evidence, result>>
        PROVE  evidence'[r][b] = evidence[r][b] /\ result'[r][b] = result[r][b]
    BY <1>1
  <1>2. CASE NoStore \/ (\E q \in Runs : StartVerification(q) \/ CancelRun(q) \/ Expire(q))
             \/ (\E w \in Workers : Claim(w))
    BY <1>1, <1>2 DEF NoStore, StartVerification, CancelRun, Expire, Claim
  <1>3. ASSUME NEW w \in Workers, AtWork(w), Owned(w), HolderStep(w)
        PROVE  evidence'[r][b] = evidence[r][b] /\ result'[r][b] = result[r][b]
    <2>1. wrun[w] \in Runs /\ InHand(w) \subseteq Books
      BY <1>3, HolderRun
    <2>2. result[r][b] = "settled"
      BY DEF SealsAgree
    <2>3. ASSUME pc[w] \in PipelinePcs, NEW c \in InHand(w)
          PROVE  wrun[w] # r \/ c # b
      BY <1>3, <2>3 DEF HolderAgrees, Agrees, InHand
    <2>4. CASE FreezeInventory(w)
      BY <2>1, <2>2, <2>4 DEF FreezeInventory, TypeOK, StoreTypeOK
    <2>5. ASSUME pc[w] \in {"begin", "announce"}, NEW c \in InHand(w), NEW s,
                 RecordState(w, c, s)
          PROVE  evidence'[r][b] = evidence[r][b] /\ result'[r][b] = result[r][b]
      BY <2>1, <2>3, <2>5 DEF RecordState, PipelinePcs, TypeOK, StoreTypeOK
    <2>6. ASSUME pc[w] = "record", NEW c \in InHand(w), RecordPackage(w, c)
          PROVE  evidence'[r][b] = evidence[r][b] /\ result'[r][b] = result[r][b]
      BY <2>1, <2>3, <2>6 DEF RecordPackage, PipelinePcs, TypeOK, StoreTypeOK
    <2>7. CASE FinishRun(w)
      BY <2>7 DEF FinishRun
    <2> QED
      BY <1>3, <2>4, <2>5, <2>6, <2>7 DEF HolderStep
  <1> QED
    BY <1>2, <1>3 DEF StoreNext

\* New evidence comes from record_package only.
LEMMA NewEvidence ==
  ASSUME TypeOK, MemoryAgrees, StoreNext, NEW r \in Runs, NEW b \in Books,
         evidence'[r][b] # evidence[r][b]
  PROVE  \E w \in Workers : /\ AtWork(w) /\ Owned(w) /\ pc[w] = "record" /\ wrun[w] = r
                            /\ b \in InHand(w) /\ RecordPackage(w, b)
  <1>1. ~(evidence' = evidence)
    OBVIOUS
  <1>2. PICK w \in Workers : AtWork(w) /\ Owned(w) /\ HolderStep(w)
    BY <1>1 DEF StoreNext, NoStore, StartVerification, CancelRun, Expire, Claim
  <1>3. wrun[w] \in Runs
    BY <1>2, HolderRun
  <1>4. pc[w] = "record" /\ \E c \in InHand(w) : RecordPackage(w, c)
    BY <1>1, <1>2 DEF HolderStep, FreezeInventory, RecordState, FinishRun
  <1>5. PICK c \in InHand(w) : RecordPackage(w, c)
    BY <1>4
  <1>6. wrun[w] = r /\ c = b
    BY <1>3, <1>5 DEF RecordPackage, TypeOK, StoreTypeOK
  <1> QED
    BY <1>2, <1>4, <1>5, <1>6

LEMMA SealsAgreeStep ==
  ASSUME TypeOK, MemoryAgrees, SealsAgree, HolderAgrees, StoreNext
  PROVE  SealsAgree'
  <1> SUFFICES ASSUME NEW r \in Runs, NEW b \in Books, Sealed(r, b)'
               PROVE  result'[r][b] = "settled"
    BY DEF SealsAgree
  <1>1. CASE evidence'[r][b] = evidence[r][b]
    <2>1. Sealed(r, b)
      BY <1>1 DEF Sealed
    <2> QED
      BY <2>1, SealedStep DEF SealsAgree
  <1>2. CASE evidence'[r][b] # evidence[r][b]
    <2>1. PICK w \in Workers : wrun[w] = r /\ RecordPackage(w, b)
      BY <1>2, NewEvidence
    <2>2. /\ result'[r][b] = outcome[w]
          /\ evidence'[r][b] = {[state |-> outcome[w], source |-> source[w]]}
      BY <2>1 DEF RecordPackage, TypeOK, StoreTypeOK
    <2>3. outcome[w] = "settled"
      BY <2>2 DEF Sealed
    <2> QED
      BY <2>2, <2>3
  <1> QED
    BY <1>1, <1>2

\* A frozen snapshot is never replaced once there is evidence of it.
LEMMA FrozenStep ==
  ASSUME TypeOK, MemoryAgrees, StoreNext, NEW r \in Runs, frozen[r] # {}
  PROVE  frozen'[r] = frozen[r]
  <1>1. ASSUME NEW w \in Workers, AtWork(w), SameSource(w), FreezeInventory(w)
        PROVE  frozen'[r] = frozen[r]
    <2>1. wrun[w] \in Runs
      BY <1>1, HolderRun
    <2> QED
      BY <1>1, <2>1 DEF SameSource, FreezeInventory, TypeOK, StoreTypeOK
  <1>2. ASSUME frozen' = frozen
        PROVE  frozen'[r] = frozen[r]
    BY <1>2
  <1> QED
    BY <1>1, <1>2 DEF StoreNext, NoStore, StartVerification, CancelRun, Expire, Claim,
       HolderStep, RecordState, RecordPackage, FinishRun, runVars

LEMMA FrozenSourceStep ==
  ASSUME TypeOK, MemoryAgrees, HolderAgrees, EvidenceIsOfFrozenSource, StoreNext
  PROVE  EvidenceIsOfFrozenSource'
  <1> SUFFICES ASSUME NEW r \in Runs, NEW b \in Books, NEW e \in evidence'[r][b]
               PROVE  frozen'[r] = {e.source}
    BY DEF EvidenceIsOfFrozenSource
  <1>1. CASE evidence'[r][b] = evidence[r][b]
    <2>1. frozen[r] = {e.source}
      BY <1>1 DEF EvidenceIsOfFrozenSource
    <2> QED
      BY <2>1, FrozenStep
  <1>2. CASE evidence'[r][b] # evidence[r][b]
    <2>1. PICK w \in Workers : /\ AtWork(w) /\ Owned(w) /\ pc[w] = "record" /\ wrun[w] = r
                               /\ RecordPackage(w, b)
      BY <1>2, NewEvidence
    <2>2. evidence'[r][b] = {[state |-> outcome[w], source |-> source[w]]} /\ frozen' = frozen
      BY <2>1 DEF RecordPackage, TypeOK, StoreTypeOK
    <2>3. frozen[r] = {source[w]}
      BY <2>1 DEF HolderAgrees, Agrees, FrozenPcs
    <2> QED
      BY <2>2, <2>3
  <1> QED
    BY <1>1, <1>2

-----------------------------------------------------------------------------
(* Statuses, counters and the order of runs.                               *)

LEMMA StatusStep ==
  ASSUME TypeOK, MemoryAgrees, HolderAgrees, StatusTellsResults, StoreNext
  PROVE  StatusTellsResults'
  <1> SUFFICES ASSUME NEW r \in Runs
               PROVE  Tells(r, status[r])'
    BY DEF StatusTellsResults
  <1>1. CASE status'[r] \notin TerminalStatuses
    BY <1>1 DEF Tells, TerminalStatuses
  <1>2. CASE status[r] \in TerminalStatuses
    <2>1. status'[r] = status[r] /\ result'[r] = result[r]
      BY <1>2, EndedStep DEF SameRun
    <2> QED
      BY <2>1 DEF StatusTellsResults, Tells
  <1>3. ASSUME NEW w \in Workers, AtWork(w), Owned(w), r = wrun[w],
               pc[w] \in {"finish", "close"}, FinishRun(w)
        PROVE  Tells(r, status[r])'
    <2>1. status'[r] = verdict[w] /\ result' = result
      BY <1>3 DEF FinishRun, TypeOK, StoreTypeOK
    <2>2. Tells(r, verdict[w])
      BY <1>3 DEF HolderAgrees, Agrees, Tells, MemoryAgrees, Coherent
    <2> QED
      BY <2>1, <2>2 DEF Tells
  <1> QED
    BY <1>1, <1>2, <1>3, EndStep

LEMMA CountsStep ==
  ASSUME TypeOK, MemoryAgrees, CountsExact, StoreNext
  PROVE  CountsExact'
  <1> SUFFICES ASSUME NEW r \in Runs, status'[r] \in TerminalStatuses
               PROVE  completed'[r] = Count(result'[r], evidence'[r])
    BY DEF CountsExact, Count
  <1>1. CASE status[r] \in TerminalStatuses
    BY <1>1, EndedStep DEF SameRun, CountsExact
  <1>2. ASSUME NEW w \in Workers, r = wrun[w], FinishRun(w)
        PROVE  completed'[r] = Count(result'[r], evidence'[r])
    BY <1>2 DEF FinishRun, TypeOK, StoreTypeOK
  <1> QED
    BY <1>1, <1>2, EndStep

\* A requested run is never forgotten, and only the next one is requested.
LEMMA RequestStep ==
  ASSUME TypeOK, MemoryAgrees, StoreNext, NEW r \in Runs
  PROVE  /\ status[r] # "none" => status'[r] # "none"
         /\ status[r] = "none" /\ status'[r] # "none" => StartVerification(r)
         /\ status[r] = "none" /\ status'[r] = "none" /\ holder[r] = "none"
               => holder'[r] = "none"
  <1> USE StatusesDisjoint
  <1>1. CASE NoStore
    BY <1>1 DEF NoStore, runVars
  <1>2. ASSUME NEW q \in Runs, StartVerification(q)
        PROVE  /\ status[r] # "none" => status'[r] # "none"
               /\ status[r] = "none" /\ status'[r] # "none" => StartVerification(r)
               /\ holder' = holder
    <2>1. status' = [status EXCEPT ![q] = "pending"] /\ holder' = holder
      BY <1>2 DEF StartVerification
    <2>2. q # r => status'[r] = status[r]
      BY <2>1 DEF TypeOK, StoreTypeOK
    <2>3. q = r => status'[r] = "pending"
      BY <2>1 DEF TypeOK, StoreTypeOK
    <2> QED
      BY <1>2, <2>1, <2>2, <2>3
  <1>3. ASSUME NEW q \in Runs, CancelRun(q) \/ Expire(q)
        PROVE  /\ status[r] # "none" => status'[r] # "none"
               /\ status[r] = "none" => status'[r] = "none"
               /\ holder' = holder
    BY <1>3 DEF CancelRun, Expire, TypeOK, StoreTypeOK
  <1>4. ASSUME NEW w \in Workers, Claim(w)
        PROVE  /\ status[r] # "none" => status'[r] # "none"
               /\ status[r] = "none" => status'[r] = "none" /\ holder'[r] = holder[r]
    BY <1>4 DEF Claim, Claimable, TypeOK, StoreTypeOK
  <1>5. ASSUME NEW w \in Workers, AtWork(w), Owned(w), HolderStep(w)
        PROVE  /\ status[r] # "none" => status'[r] # "none"
               /\ status[r] = "none" => status'[r] = "none" /\ holder'[r] = holder[r]
    <2>1. wrun[w] \in Runs /\ status[wrun[w]] \in ActiveStatuses
      BY <1>5, HolderRun DEF Owned
    <2>2. CASE r # wrun[w]
      BY <1>5, <2>2, HolderStepLocal DEF SameRun
    <2>3. CASE r = wrun[w]
      BY <1>5, <2>1, <2>3 DEF HolderStep, FreezeInventory, RecordState, RecordPackage,
         FinishRun, runVars, TypeOK, StoreTypeOK, WorkerTypeOK
    <2> QED
      BY <2>2, <2>3
  <1> QED
    BY <1>1, <1>2, <1>3, <1>4, <1>5 DEF StoreNext

LEMMA FreshRunsStep ==
  ASSUME TypeOK, MemoryAgrees, FreshRuns, StoreNext
  PROVE  FreshRuns'
  BY RequestStep DEF FreshRuns

\* The record of a book passes to the run that records it, which is the newest.
LEMMA RecordStep ==
  ASSUME TypeOK, MemoryAgrees, RunOrder, StoreNext, NEW v \in Versions, NEW b \in Books,
         record'[v][b] # record[v][b]
  PROVE  /\ record'[v][b] \in Runs /\ status[record'[v][b]] # "none"
         /\ record'[v][b] >= record[v][b]
  <1>1. record' # record
    OBVIOUS
  <1>2. PICK w \in Workers, c \in Books : AtWork(w) /\ Owned(w) /\ RecordPackage(w, c)
    <2>1. PICK w \in Workers : AtWork(w) /\ Owned(w) /\ HolderStep(w)
      BY <1>1 DEF StoreNext, NoStore, StartVerification, CancelRun, Expire, Claim
    <2>2. \E c \in InHand(w) : RecordPackage(w, c)
      BY <1>1, <2>1 DEF HolderStep, FreezeInventory, RecordState, FinishRun
    <2>3. InHand(w) \subseteq Books
      BY <2>1, HolderRun
    <2> QED
      BY <2>1, <2>2, <2>3
  <1>3. PICK r \in Runs : r = wrun[w] /\ status[r] \in ActiveStatuses
    BY <1>2, HolderRun DEF Owned
  <1>4. record'[v][b] = r
    BY <1>2, <1>3 DEF RecordPackage, TypeOK, StoreTypeOK
  <1>5. status[r] # "none" /\ status[r] \notin TerminalStatuses
    BY <1>3, StatusesDisjoint
  <1>6. record[v][b] \in Runs \cup {NoRun}
    BY DEF TypeOK, StoreTypeOK
  <1>7. r \in Nat \ {0} /\ \A q \in Runs : q \in Nat
    BY DEF Runs
  <1>8. ASSUME record[v][b] \in Runs, r < record[v][b]
        PROVE  FALSE
    BY <1>5, <1>8 DEF RunOrder
  <1>9. r >= record[v][b]
    <2>1. CASE record[v][b] = NoRun
      BY <1>7, <2>1 DEF NoRun
    <2>2. CASE record[v][b] \in Runs
      <3>1. r \in Int /\ record[v][b] \in Int
        BY <2>2 DEF Runs
      <3>2. ~(r < record[v][b])
        BY <1>8, <2>2
      <3> QED
        BY <3>1, <3>2
    <2> QED
      BY <1>6, <2>1, <2>2
  <1> QED
    BY <1>4, <1>5, <1>9

LEMMA RunOrderStep ==
  ASSUME TypeOK, MemoryAgrees, RunOrder, StoreNext
  PROVE  RunOrder'
  <1> USE StatusesDisjoint
  <1>1. ASSUME NEW r \in Runs, NEW q \in Runs, q < r, status'[r] # "none"
        PROVE  status'[q] \in TerminalStatuses
    <2>1. CASE status[r] # "none"
      <3>1. status[q] \in TerminalStatuses
        BY <1>1, <2>1 DEF RunOrder
      <3> QED
        BY <3>1, EndedStep DEF SameRun
    <2>2. CASE status[r] = "none"
      <3>1. StartVerification(r)
        BY <1>1, <2>2, RequestStep
      <3>2. status[q] \in TerminalStatuses
        BY <1>1, <3>1 DEF StartVerification, NoActiveRun, TypeOK, StoreTypeOK
      <3> QED
        BY <3>2, EndedStep DEF SameRun
    <2> QED
      BY <2>1, <2>2
  <1>2. ASSUME NEW v \in Versions, NEW b \in Books, record'[v][b] \in Runs
        PROVE  status'[record'[v][b]] # "none"
    <2>1. status[record'[v][b]] # "none"
      <3>1. CASE record'[v][b] = record[v][b]
        BY <1>2, <3>1 DEF RunOrder
      <3>2. CASE record'[v][b] # record[v][b]
        BY <3>2, RecordStep
      <3> QED
        BY <3>1, <3>2
    <2> QED
      BY <1>2, <2>1, RequestStep
  <1> QED
    BY <1>1, <1>2 DEF RunOrder

-----------------------------------------------------------------------------
(* The invariant and its consequences.                                     *)

LEMMA IInvInit == Init => IInv
  <1> SUFFICES ASSUME Init
               PROVE  IInv
    OBVIOUS
  <1>1. TypeOK /\ MemoryAgrees
    BY TypeInit
  <1>2. FreshRuns /\ RunOrder
    BY DEF Init, FreshRuns, RunOrder, Runs, NoRun
  <1>3. SealsAgree /\ EvidenceIsOfFrozenSource
    BY DEF Init, SealsAgree, Sealed, EvidenceIsOfFrozenSource
  <1>4. HolderAgrees
    BY DEF Init, HolderAgrees, AtWork
  <1>5. StatusTellsResults /\ CountsExact
    BY DEF Init, StatusTellsResults, Tells, CountsExact, TerminalStatuses
  <1> QED
    BY <1>1, <1>2, <1>3, <1>4, <1>5 DEF IInv

LEMMA IInvStep ==
  ASSUME IInv, [Next]_vars
  PROVE  IInv'
  <1> USE DEF IInv
  <1>1. StoreNext
    BY NextStoreStep
  <1>2. TypeOK' /\ MemoryAgrees'
    BY TypeStep
  <1>3. FreshRuns' /\ RunOrder'
    BY <1>1, FreshRunsStep, RunOrderStep
  <1>4. SealsAgree' /\ HolderAgrees'
    BY <1>1, SealsAgreeStep, HolderAgreesStep
  <1>5. StatusTellsResults' /\ CountsExact' /\ EvidenceIsOfFrozenSource'
    BY <1>1, StatusStep, CountsStep, FrozenSourceStep
  <1> QED
    BY <1>2, <1>3, <1>4, <1>5

\* The invariant the properties follow from holds in every behaviour.
THEOREM IInvHolds == Spec => []IInv
  BY IInvInit, IInvStep, PTL DEF Spec

\* A run ends as completed, or completed with errors, only when its results say
\* so (execute_certificate_a_claim, resumable_book_keys).
THEOREM StatusesTellResults == Spec => []StatusTellsResults
  BY IInvHolds, PTL DEF IInv

\* The counter of an ended run is exact (_refresh_counts, finish).
THEOREM CountersAreExact == Spec => []CountsExact
  BY IInvHolds, PTL DEF IInv

\* All evidence of a run is of the version of the library it froze (inventory).
THEOREM EvidenceOfOneSource == Spec => []EvidenceIsOfFrozenSource
  BY IInvHolds, PTL DEF IInv

\* The memory of the process that holds the lease agrees with the store
\* (_load_owned_run, resumable_book_keys, LibraryAuditPipeline.run).
THEOREM HoldersAgree == Spec => []HolderAgrees
  BY IInvHolds, PTL DEF IInv

\* A sealed verdict is never replaced within its run (resumable_book_keys,
\* _load_owned_run).
THEOREM SealedVerdictsStay == Spec => DecisionsAreFinal
  <1>1. IInv /\ [Next]_vars =>
          [\A r \in Runs, b \in Books :
             Sealed(r, b) => UNCHANGED <<evidence[r][b], result[r][b]>>]_vars
    BY NextStoreStep, SealedStep DEF IInv
  <1> QED
    BY <1>1, IInvHolds, PTL DEF Spec, DecisionsAreFinal

\* After a cancellation was accepted no book is started, announced or retried
\* (FencedCertificateAStore._run, cancel_run).
THEOREM CancellationStopsBooks == Spec => CancelStopsBooks
  <1>1. ASSUME IInv, [Next]_vars, NEW r \in Runs, cancelReq[r]
        PROVE  /\ UNCHANGED <<result[r], frozen[r]>>
               /\ \A b \in Books : evidence'[r][b] # evidence[r][b] => result[r][b] \in Outcomes
    <2> USE <1>1 DEF IInv
    <2>1. StoreNext
      BY NextStoreStep
    <2>2. ASSUME NEW b \in Books, evidence'[r][b] # evidence[r][b]
          PROVE  result[r][b] \in Outcomes
      <3>1. PICK w \in Workers : /\ AtWork(w) /\ Owned(w) /\ pc[w] = "record"
                                 /\ wrun[w] = r /\ b \in InHand(w)
        BY <2>1, <2>2, NewEvidence
      <3>2. result[r][b] = outcome[w]
        BY <3>1 DEF HolderAgrees, Agrees
      <3> QED
        BY <3>2 DEF TypeOK, WorkerTypeOK
    <2>3. ASSUME NEW w \in Workers, AtWork(w), Owned(w), HolderStep(w)
          PROVE  result'[r] = result[r] /\ frozen'[r] = frozen[r]
      <3>1. CASE wrun[w] # r
        BY <2>3, <3>1, HolderStepLocal DEF SameRun
      <3>2. CASE wrun[w] = r
        <4>1. ~Writable(w)
          BY <3>2 DEF Writable
        <4>2. CASE FinishRun(w)
          BY <4>2 DEF FinishRun
        <4>3. ASSUME pc[w] = "record", NEW b \in InHand(w), RecordPackage(w, b)
              PROVE  result'[r] = result[r] /\ frozen'[r] = frozen[r]
          <5>1. result[r][b] = outcome[w] /\ b \in Books
            BY <2>3, <3>2, <4>3, HolderRun DEF HolderAgrees, Agrees
          <5> QED
            BY <3>2, <4>3, <5>1 DEF RecordPackage, TypeOK, StoreTypeOK
        <4> QED
          BY <2>3, <4>1, <4>2, <4>3 DEF HolderStep
      <3> QED
        BY <3>1, <3>2
    <2>4. ASSUME UNCHANGED <<result, frozen>>
          PROVE  result'[r] = result[r] /\ frozen'[r] = frozen[r]
      BY <2>4
    <2>5. result'[r] = result[r] /\ frozen'[r] = frozen[r]
      BY <2>1, <2>3, <2>4 DEF StoreNext, NoStore, runVars, StartVerification, CancelRun,
         Expire, Claim
    <2> QED
      BY <2>2, <2>5
  <1>2. IInv /\ [Next]_vars =>
          [\A r \in Runs : cancelReq[r] =>
             /\ UNCHANGED <<result[r], frozen[r]>>
             /\ \A b \in Books : evidence'[r][b] # evidence[r][b] =>
                   result[r][b] \in Outcomes]_vars
    BY <1>1
  <1> QED
    BY <1>2, IInvHolds, PTL DEF Spec, CancelStopsBooks

\* The record of a book never goes back to an older run (record_package,
\* uq_verificationrun_active_source).
THEOREM RecordsFollowRuns == Spec => RecordsFollowNewestRun
  <1>1. ASSUME IInv, [Next]_vars, NEW v \in Versions, NEW b \in Books
        PROVE  record'[v][b] >= record[v][b]
    <2>1. StoreNext
      BY <1>1, NextStoreStep DEF IInv
    <2>2. CASE record'[v][b] = record[v][b]
      <3>1. record[v][b] \in Int
        BY <1>1 DEF IInv, TypeOK, StoreTypeOK, Runs, NoRun
      <3> QED
        BY <2>2, <3>1
    <2>3. CASE record'[v][b] # record[v][b]
      BY <1>1, <2>1, <2>3, RecordStep DEF IInv
    <2> QED
      BY <2>2, <2>3
  <1>2. IInv /\ [Next]_vars =>
          [\A v \in Versions, b \in Books : record'[v][b] >= record[v][b]]_vars
    BY <1>1
  <1> QED
    BY <1>2, IInvHolds, PTL DEF Spec, RecordsFollowNewestRun

-----------------------------------------------------------------------------
(* The runs as readers see them: VerificationRuns.                         *)

Completions == {"completed", "completed_with_errors"}

\* What a process saw to before it came to where it is, whoever holds its run by now:
\* the library is frozen before a book is judged, and a run is closed as cancelled
\* when somebody has asked for it.
Prepared(w) ==
    /\ pc[w] \in FrozenPcs \cup PipelinePcs => frozen[wrun[w]] # {}
    /\ pc[w] = "finish" /\ verdict[w] \in Completions => frozen[wrun[w]] # {}
    /\ pc[w] \in {"finish", "close"} /\ verdict[w] = "cancelled" => cancelReq[wrun[w]]

Ready ==
    /\ \A w \in Workers : Prepared(w)
    /\ \A r \in Runs : status[r] = "none" => ~cancelReq[r]

\* A cancellation is never taken back, and asks for a run that was requested.
LEMMA RequestsStay ==
  ASSUME TypeOK, MemoryAgrees, StoreNext, NEW r \in Runs
  PROVE  /\ cancelReq[r] => cancelReq'[r]
         /\ cancelReq'[r] => cancelReq[r] \/ status[r] \in ActiveStatuses
  <1>1. cancelReq' = cancelReq \/ \E q \in Runs : CancelRun(q)
    BY DEF StoreNext, NoStore, runVars, StartVerification, Expire, Claim, HolderStep,
       FreezeInventory, RecordState, RecordPackage, FinishRun, StoreRest
  <1>2. ASSUME NEW q \in Runs, CancelRun(q)
        PROVE  /\ cancelReq' = [cancelReq EXCEPT ![q] = TRUE] /\ status[q] \in ActiveStatuses
    BY <1>2 DEF CancelRun
  <1>3. cancelReq \in [Runs -> BOOLEAN]
    BY DEF TypeOK, StoreTypeOK
  <1> QED
    BY <1>1, <1>2, <1>3

\* A process that stands still stays prepared.
LEMMA PreparedKept ==
  ASSUME TypeOK, MemoryAgrees, StoreNext, NEW x \in Workers, Untouched(x), Prepared(x)
  PROVE  Prepared(x)'
  <1>1. CASE AtWork(x)
    <2>1. wrun[x] \in Runs /\ wrun'[x] = wrun[x]
      BY <1>1, HolderRun DEF Untouched
    <2>2. /\ frozen[wrun[x]] # {} => frozen'[wrun[x]] # {}
          /\ cancelReq[wrun[x]] => cancelReq'[wrun[x]]
      BY <2>1, FrozenStep, RequestsStay
    <2> QED
      BY <2>1, <2>2 DEF Prepared, Untouched
  <1>2. CASE ~AtWork(x)
    BY <1>2 DEF AtWork, Prepared, Untouched, FrozenPcs, PipelinePcs
  <1> QED
    BY <1>1, <1>2

\* So does one that goes on with a frozen library, or closes its run.
LEMMA PreparedWorker ==
  ASSUME TypeOK, MemoryAgrees, StoreNext, NEW w \in Workers, Prepared(w), WorkerStep(w)
  PROVE  Prepared(w)'
  <1> DEFINE r == wrun[w]
  <1>0. pc \in [Workers -> Pcs] /\ verdict \in [Workers -> TerminalStatuses] /\ frozen \in [Runs -> SUBSET Versions]
    BY DEF TypeOK, WorkerTypeOK, StoreTypeOK
  <1>1. AtWork(w) => r \in Runs
    BY HolderRun
  <1>2. AtWork(w) =>
          /\ frozen[r] # {} => frozen'[r] # {}
          /\ cancelReq[r] => cancelReq'[r]
    BY <1>1, FrozenStep, RequestsStay
  <1>3. ASSUME pc'[w] \in {"poll", "down", "contract", "check_start", "open", "freeze"}
        PROVE  Prepared(w)'
    BY <1>3 DEF Prepared, FrozenPcs, PipelinePcs
  <1>4. ASSUME AtWork(w), wrun' = wrun, pc'[w] \in {"finish", "close"},
               verdict'[w] \notin Completions \cup {"cancelled"}
        PROVE  Prepared(w)'
    BY <1>4 DEF Prepared, FrozenPcs, PipelinePcs
  <1>5. ASSUME AtWork(w), wrun' = wrun, pc'[w] \in {"finish", "close"}, verdict'[w] = "cancelled",
               cancelReq[r]
        PROVE  Prepared(w)'
    BY <1>2, <1>5 DEF Prepared, FrozenPcs, PipelinePcs, Completions
  <1>6. ASSUME AtWork(w), wrun' = wrun, frozen'[r] # {},
               pc'[w] \in FrozenPcs \cup PipelinePcs
        PROVE  Prepared(w)'
    BY <1>6 DEF Prepared, FrozenPcs, PipelinePcs
  <1>7. ASSUME AtWork(w), wrun' = wrun, NEW l \in {"finish", "close"}, NEW v, Conclude(w, l, v)
        PROVE  pc'[w] \in {"finish", "close"} /\ verdict'[w] = v
    BY <1>0, <1>7 DEF Conclude, Goto
  <1>8. ASSUME AtWork(w), Fails(w)
        PROVE  Prepared(w)'
    BY <1>4, <1>7, <1>8 DEF Fails, Conclude, Completions
  <1>9. ASSUME AtWork(w), CancelHandled(w)
        PROVE  Prepared(w)'
    BY <1>5, <1>7, <1>9 DEF CancelHandled, Conclude, Writable
  <1>10. ASSUME NEW l, Goto(w, l)
         PROVE  pc'[w] = l
    BY <1>0, <1>10 DEF Goto
  <1>11. CASE Claim(w) \/ LeaseLost(w) \/ EnsureCurrent(w)
    BY <1>3, <1>10, <1>11 DEF Claim, LeaseLost, EnsureCurrent, Abandon
  <1>12. CASE LoadContract(w)
    BY <1>3, <1>4, <1>7, <1>8, <1>10, <1>12 DEF LoadContract, AtWork, Step, Conclude, Completions
  <1>13. CASE OpenSource(w)
    <2>1. AtWork(w)
      BY <1>13 DEF OpenSource, AtWork
    <2>2. CASE \E v \in {"failed", "source_changed"} : Conclude(w, "close", v)
      BY <1>4, <1>7, <2>1, <2>2 DEF Conclude, Completions
    <2>3. CASE Goto(w, "freeze")
      BY <1>3, <1>10, <2>3
    <2>4. CASE /\ Goto(w, "close") /\ UNCHANGED wrun
               /\ verdict' = [verdict EXCEPT ![w] = "source_changed"]
      BY <1>0, <1>4, <1>10, <2>1, <2>4 DEF Completions
    <2> QED
      BY <1>13, <2>2, <2>3, <2>4 DEF OpenSource
  <1>14. CASE CheckCancellation(w)
    <2>1. AtWork(w)
      BY <1>14 DEF CheckCancellation, AtWork
    <2>2. CASE cancelReq[r] /\ Conclude(w, "finish", "cancelled")
      BY <1>5, <1>7, <2>1, <2>2 DEF Conclude
    <2>3. CASE Step(w, "open")
      BY <1>3, <1>10, <2>3 DEF Step
    <2>4. CASE pc[w] = "check_frozen" /\ Step(w, "resume")
      BY <1>2, <1>6, <1>10, <2>1, <2>4 DEF Step, memory, Prepared, FrozenPcs
    <2>5. ASSUME pc[w] = "check_end", NEW v \in Completions, Conclude(w, "finish", v)
          PROVE  Prepared(w)'
      <3>1. pc'[w] = "finish" /\ verdict'[w] = v /\ wrun' = wrun /\ frozen'[r] # {}
        BY <1>2, <1>7, <1>10, <2>1, <2>5 DEF Conclude, Prepared, PipelinePcs
      <3> QED
        BY <2>5, <3>1 DEF Prepared, Completions, FrozenPcs, PipelinePcs
    <2> QED
      BY <1>8, <1>14, <2>1, <2>2, <2>3, <2>4, <2>5 DEF CheckCancellation, Completions
  <1>15. CASE Freeze(w)
    <2>1. AtWork(w)
      BY <1>15 DEF Freeze, AtWork
    <2>2. CASE Conclude(w, "close", "source_changed")
      BY <1>4, <1>7, <2>1, <2>2 DEF Conclude, Completions
    <2>3. CASE FreezeInventory(w) /\ Step(w, "check_frozen")
      <3>1. frozen'[r] = {source[w]} /\ wrun' = wrun /\ pc'[w] = "check_frozen"
        BY <1>0, <1>1, <1>10, <2>1, <2>3 DEF FreezeInventory, Step, memory
      <3> QED
        BY <1>6, <2>1, <3>1 DEF FrozenPcs
    <2> QED
      BY <1>8, <1>9, <1>15, <2>1, <2>2, <2>3 DEF Freeze
  <1>16. ASSUME AtWork(w), wrun' = wrun, pc[w] \in FrozenPcs \cup PipelinePcs,
                pc'[w] \in FrozenPcs \cup PipelinePcs
         PROVE  Prepared(w)'
    BY <1>2, <1>6, <1>16 DEF Prepared
  <1>17. \A rest : Turn(rest) \in {"begin", "final"}
    BY DEF Turn
  <1>18. CASE Resume(w)
    BY <1>8, <1>9, <1>10, <1>16, <1>17, <1>18 DEF Resume, AtWork, FrozenPcs, PipelinePcs
  <1>19. ASSUME NEW o, Decide(w, o)
         PROVE  pc'[w] = "announce" /\ wrun' = wrun
    BY <1>10, <1>19 DEF Decide
  <1>20. CASE BeginBook(w) \/ AuditBook(w)
    <2>1. AtWork(w) /\ pc[w] \in FrozenPcs
      BY <1>20 DEF BeginBook, AuditBook, AtWork, FrozenPcs
    <2>2. Step(w, "audit") \/ \E o : Decide(w, o)
      BY <1>20 DEF BeginBook, AuditBook
    <2>3. wrun' = wrun /\ pc'[w] \in FrozenPcs
      BY <1>10, <1>19, <2>2 DEF Step, memory, FrozenPcs
    <2> QED
      BY <1>16, <2>1, <2>3
  <1>21. CASE Announce(w)
    <2>1. AtWork(w) /\ pc[w] \in FrozenPcs
      BY <1>21 DEF Announce, AtWork, FrozenPcs
    <2>2. CASE Step(w, "record")
      BY <1>10, <1>16, <2>1, <2>2 DEF Step, memory, FrozenPcs
    <2>3. CASE Decide(w, "failed")
      BY <1>16, <1>19, <2>1, <2>3 DEF FrozenPcs
    <2>4. CASE Abandon(w)
      BY <1>3, <1>10, <2>4 DEF Abandon
    <2> QED
      BY <1>8, <1>9, <1>21, <2>1, <2>2, <2>3, <2>4 DEF Announce
  <1>22. CASE Record(w)
    <2>1. AtWork(w) /\ pc[w] \in FrozenPcs
      BY <1>22 DEF Record, AtWork, FrozenPcs
    <2>2. CASE Conclude(w, "close", "source_changed")
      BY <1>4, <1>7, <2>1, <2>2 DEF Conclude, Completions
    <2>3. CASE wrun' = wrun /\ Goto(w, Turn(todo'[w]))
      BY <1>10, <1>16, <1>17, <2>1, <2>3 DEF PipelinePcs
    <2> QED
      BY <1>8, <1>22, <2>1, <2>2, <2>3 DEF Record
  <1>23. CASE AssertUnchanged(w)
    <2>1. AtWork(w) /\ pc[w] \in PipelinePcs
      BY <1>23 DEF AssertUnchanged, AtWork, PipelinePcs
    <2>2. CASE Conclude(w, "close", "source_changed")
      BY <1>4, <1>7, <2>1, <2>2 DEF Conclude, Completions
    <2>3. CASE Step(w, "check_end")
      BY <1>10, <1>16, <2>1, <2>3 DEF Step, memory, PipelinePcs
    <2> QED
      BY <1>23, <2>2, <2>3 DEF AssertUnchanged
  <1>24. CASE Finish(w)
    <2>1. AtWork(w)
      BY <1>24 DEF Finish, AtWork
    <2> QED
      BY <1>3, <1>8, <1>10, <1>24, <2>1 DEF Finish
  <1>25. CASE Close(w)
    BY <1>3, <1>10, <1>25 DEF Close
  <1> QED
    BY <1>11, <1>12, <1>13, <1>14, <1>15, <1>18, <1>20, <1>21, <1>22, <1>23, <1>24, <1>25 DEF WorkerStep

LEMMA ReadyStep ==
  ASSUME TypeOK, MemoryAgrees, FreshRuns, Ready, [Next]_vars
  PROVE  Ready'
  <1>1. StoreNext
    BY NextStoreStep
  <1>2. \A r \in Runs : status'[r] = "none" => ~cancelReq'[r]
    BY <1>1, RequestStep, RequestsStay, StatusesDisjoint DEF Ready
  <1>3. ASSUME NEW x \in Workers, Untouched(x)
        PROVE  Prepared(x)'
    BY <1>1, <1>3, PreparedKept DEF Ready
  <1>4. ASSUME NEW w \in Workers, WorkerStep(w), NEW x \in Workers
        PROVE  Prepared(x)'
    <2>1. CASE x = w
      BY <1>1, <1>4, <2>1, PreparedWorker DEF Ready
    <2>2. CASE x # w
      BY <1>3, <1>4, <2>2, WorkerMoves DEF Moves, TypeOK, MemoryAgrees
    <2> QED
      BY <2>1, <2>2
  <1>5. ASSUME NEW w \in Workers, Start(w) \/ Crash(w), NEW x \in Workers
        PROVE  Prepared(x)'
    <2>1. CASE x = w
      BY <1>5, <2>1 DEF Start, Crash, Goto, TypeOK, WorkerTypeOK, Prepared, FrozenPcs, PipelinePcs
    <2>2. CASE x # w
      <3>1. Untouched(x)
        BY <1>5, <2>2 DEF Start, Crash, Goto, Forget, memory, Untouched, TypeOK, WorkerTypeOK
      <3> QED
        BY <1>3, <3>1
    <2> QED
      BY <2>1, <2>2
  <1>6. ASSUME \/ \E r \in Runs : StartVerification(r) \/ CancelRun(r) \/ LeaseExpires(r) \/ LeaseLapses(r)
               \/ \E w \in Workers : HeartbeatLost(w)
               \/ LibraryChanges \/ (\E d \in Releases : Redeploy(d)) \/ UNCHANGED vars,
               NEW x \in Workers
        PROVE  Prepared(x)'
    <2>1. Untouched(x)
      BY <1>6 DEF StartVerification, CancelRun, LeaseExpires, LeaseLapses, Expire, HeartbeatLost,
         LibraryChanges, Redeploy, vars, memory, Untouched
    <2> QED
      BY <1>3, <2>1
  <1>7. \A x \in Workers : Prepared(x)'
    BY <1>4, <1>5, <1>6 DEF Next
  <1> QED
    BY <1>2, <1>7 DEF Ready

-----------------------------------------------------------------------------
(* Every step of the store is one of VerificationRuns, or none.            *)

PhaseSeen    == [r \in Runs |-> Phase(r)]
VerdictsSeen == [r \in Runs |-> [b \in Books |-> VerdictSeen(r, b)]]

\* What stays of the other runs.
LEMMA SeenAlike ==
  /\ status' = status /\ cancelReq' = cancelReq => PhaseSeen' = PhaseSeen
  /\ result' = result => VerdictsSeen' = VerdictsSeen
  BY DEF PhaseSeen, Phase, VerdictsSeen, VerdictSeen

\* The phase of one run moves.
LEMMA PhaseMoves ==
  ASSUME TypeOK, NEW r \in Runs, NEW s,
         status' = [status EXCEPT ![r] = s],
         cancelReq' = cancelReq \/ cancelReq' = [cancelReq EXCEPT ![r] = TRUE]
  PROVE  PhaseSeen' = [PhaseSeen EXCEPT ![r] = Phase(r)']
  BY DEF PhaseSeen, Phase, TypeOK, StoreTypeOK

\* The verdict of one book moves.
LEMMA VerdictMoves ==
  ASSUME TypeOK, NEW r \in Runs, NEW b \in Books, NEW s,
         result' = [result EXCEPT ![r][b] = s]
  PROVE  /\ VerdictsSeen' = [VerdictsSeen EXCEPT ![r][b] = VerdictSeen(r, b)']
         /\ VerdictSeen(r, b)' = IF s \in Outcomes THEN s ELSE "none"
  <1>1. /\ result \in [Runs -> [Books -> ResultStates]]
        /\ \A q \in Runs, c \in Books : result'[q][c] = IF q = r /\ c = b THEN s ELSE result[q][c]
    BY DEF TypeOK, StoreTypeOK
  <1>2. VerdictSeen(r, b)' = IF s \in Outcomes THEN s ELSE "none"
    BY <1>1 DEF VerdictSeen
  <1>3. \A q \in Runs, c \in Books : q # r \/ c # b => VerdictSeen(q, c)' = VerdictSeen(q, c)
    BY <1>1 DEF VerdictSeen
  <1>4. VerdictsSeen' = [q \in Runs |-> [c \in Books |-> VerdictSeen(q, c)']]
    BY DEF VerdictsSeen
  <1> DEFINE one == VerdictSeen(r, b)'
             row == [VerdictsSeen[r] EXCEPT ![b] = one]
  <1>5. row = [c \in Books |-> VerdictSeen(r, c)']
    BY <1>3 DEF VerdictsSeen
  <1>6. \A q \in Runs : q # r => VerdictsSeen[q] = [c \in Books |-> VerdictSeen(q, c)']
    BY <1>3 DEF VerdictsSeen
  <1> HIDE DEF row, one
  <1>7. VerdictsSeen' = [VerdictsSeen EXCEPT ![r] = row]
    BY <1>4, <1>5, <1>6 DEF VerdictsSeen
  <1> QED
    BY <1>2, <1>7 DEF row, one

\* The counter of the store is the tally of what is seen.
LEMMA TallySeen ==
  ASSUME NEW r \in Runs, NEW ps
  PROVE  Promised!Tally(VerdictsSeen[r], ps) = Count(result[r], ps)
  <1>1. \A b \in Books : VerdictsSeen[r][b] # "none" <=> result[r][b] \in Outcomes
    BY DEF VerdictsSeen, VerdictSeen, Outcomes
  <1>2. Promised!Tally(VerdictsSeen[r], ps)
          = Cardinality({b \in Books : VerdictsSeen[r][b] # "none" /\ ps[b] # {}})
    BY DEF Promised!Tally, Promised!Cardinality, Cardinality
  <1>3. Count(result[r], ps) = Cardinality({b \in Books : result[r][b] \in Outcomes /\ ps[b] # {}})
    BY DEF Count
  <1>4. {b \in Books : VerdictsSeen[r][b] # "none" /\ ps[b] # {}}
          = {b \in Books : result[r][b] \in Outcomes /\ ps[b] # {}}
    BY <1>1
  <1> QED
    BY <1>2, <1>3, <1>4

PromisedStep == [Promised!RunsNext]_(Promised!promised)

LEMMA StutterSeen ==
  ASSUME PhaseSeen' = PhaseSeen, VerdictsSeen' = VerdictsSeen,
         UNCHANGED <<frozen, evidence, completed, record>>
  PROVE  PromisedStep
  BY DEF PromisedStep, Promised!promised, PhaseSeen, VerdictsSeen

\* A run is requested, and cancelled.
LEMMA RequestSeen ==
  ASSUME TypeOK, Ready, NEW r \in Runs, StartVerification(r)
  PROVE  PromisedStep
  <1>1. /\ status' = [status EXCEPT ![r] = "pending"] /\ cancelReq' = cancelReq /\ ~cancelReq[r]
        /\ UNCHANGED <<frozen, completed, result, evidence, record>>
    BY DEF StartVerification, Ready
  <1>2. PhaseSeen' = [PhaseSeen EXCEPT ![r] = "open"]
    <2>1. Phase(r)' = "open"
      BY <1>1 DEF Phase, ActiveStatuses, TypeOK, StoreTypeOK
    <2> QED
      BY <1>1, <2>1, PhaseMoves
  <1>3. /\ PhaseSeen[r] = "none"
        /\ \A q \in Runs : /\ PhaseSeen[q] \notin Promised!Going
                           /\ q < r => PhaseSeen[q] # "none"
    BY DEF StartVerification, NoActiveRun, PhaseSeen, Phase, Promised!Going, ActiveStatuses,
       TerminalStatuses, TypeOK, StoreTypeOK
  <1>4. Promised!Request(r)
    BY <1>1, <1>2, <1>3, SeenAlike DEF Promised!Request, PhaseSeen, VerdictsSeen
  <1> QED
    BY <1>4 DEF PromisedStep, Promised!RunsNext

LEMMA CancelSeen ==
  ASSUME TypeOK, NEW r \in Runs, CancelRun(r)
  PROVE  PromisedStep
  <1>1. /\ status' = [status EXCEPT ![r] = "cancelling"] /\ cancelReq' = [cancelReq EXCEPT ![r] = TRUE]
        /\ status[r] \in ActiveStatuses /\ ~cancelReq[r]
        /\ UNCHANGED <<frozen, completed, result, evidence, record>>
    BY DEF CancelRun
  <1>2. PhaseSeen' = [PhaseSeen EXCEPT ![r] = "cancelling"] /\ PhaseSeen[r] = "open"
    <2>1. Phase(r)' = "cancelling" /\ Phase(r) = "open"
      BY <1>1 DEF Phase, ActiveStatuses, TypeOK, StoreTypeOK
    <2> QED
      BY <1>1, <2>1, PhaseMoves DEF PhaseSeen
  <1>3. Promised!Cancel(r)
    BY <1>1, <1>2, SeenAlike DEF Promised!Cancel, PhaseSeen, VerdictsSeen
  <1> QED
    BY <1>3 DEF PromisedStep, Promised!RunsNext

\* A claim changes nothing a reader sees.
LEMMA ClaimSeen ==
  ASSUME TypeOK, NEW w \in Workers, Claim(w)
  PROVE  PromisedStep
  <1>1. PICK r \in Runs :
          /\ status[r] \in ActiveStatuses
          /\ status' = [status EXCEPT ![r] = IF @ = "pending" THEN "inventorying" ELSE @]
          /\ UNCHANGED <<cancelReq, frozen, completed, result, evidence, record>>
    BY DEF Claim, Claimable
  <1>2. \A q \in Runs : Phase(q)' = Phase(q)
    BY <1>1 DEF Phase, ActiveStatuses, TypeOK, StoreTypeOK
  <1>3. PhaseSeen' = PhaseSeen
    BY <1>2 DEF PhaseSeen
  <1> QED
    BY <1>1, <1>3, SeenAlike, StutterSeen

\* The first inventory freezes the library, a later one finds it frozen.
LEMMA FreezeSeen ==
  ASSUME TypeOK, MemoryAgrees, NEW w \in Workers, AtWork(w), Writable(w), SameSource(w),
         FreezeInventory(w)
  PROVE  PromisedStep
  <1> DEFINE r == wrun[w]
  <1>1. r \in Runs /\ source[w] \in Versions
    BY HolderRun DEF TypeOK, WorkerTypeOK
  <1>2. /\ status' = [status EXCEPT ![r] = "running"] /\ frozen' = [frozen EXCEPT ![r] = {source[w]}]
        /\ result' = [result EXCEPT ![r] = [b \in Books |-> IF @[b] = "none" THEN "pending" ELSE @[b]]]
        /\ UNCHANGED <<cancelReq, completed, evidence, record>>
    BY DEF FreezeInventory, StoreRest
  <1>3. status[r] \in ActiveStatuses /\ ~cancelReq[r] /\ frozen[r] \in {{}, {source[w]}}
    BY DEF Writable, Owned, SameSource
  <1> HIDE DEF r
  <1>4. /\ \A q \in Runs : Phase(q)' = Phase(q)
        /\ Phase(r) = "open"
    BY <1>1, <1>2, <1>3 DEF Phase, ActiveStatuses, TypeOK, StoreTypeOK
  <1>5. PhaseSeen' = PhaseSeen /\ PhaseSeen[r] = "open"
    BY <1>1, <1>4 DEF PhaseSeen
  <1>6. \A q \in Runs, b \in Books : VerdictSeen(q, b)' = VerdictSeen(q, b)
    BY <1>1, <1>2 DEF VerdictSeen, Outcomes, TypeOK, StoreTypeOK
  <1>7. VerdictsSeen' = VerdictsSeen
    BY <1>6 DEF VerdictsSeen
  <1>8. CASE frozen[r] = {source[w]}
    <2>1. frozen' = frozen
      BY <1>1, <1>2, <1>8 DEF TypeOK, StoreTypeOK
    <2> QED
      BY <1>2, <1>5, <1>7, <2>1, StutterSeen
  <1>9. CASE frozen[r] = {}
    <2>1. Promised!FreezeLibrary(r)
      BY <1>1, <1>2, <1>5, <1>7, <1>9 DEF Promised!FreezeLibrary, PhaseSeen, VerdictsSeen
    <2> QED
      BY <1>1, <2>1 DEF PromisedStep, Promised!RunsNext
  <1> QED
    BY <1>3, <1>8, <1>9

\* A book in hand is judged: its state is recorded.
LEMMA JudgeSeen ==
  ASSUME IInv, NEW w \in Workers, AtWork(w), Writable(w), pc[w] \in {"begin", "announce"},
         NEW b \in InHand(w), NEW s \in ResultStates, RecordState(w, b, s)
  PROVE  PromisedStep
  <1> DEFINE r == wrun[w]
             v == IF s \in Outcomes THEN s ELSE "none"
  <1>1. TypeOK /\ r \in Runs /\ b \in Books /\ b \in todo[w]
    BY HolderRun DEF IInv, InHand
  <1>2. Owned(w) /\ status[r] \in ActiveStatuses /\ ~cancelReq[r]
    BY DEF Writable, Owned
  <1>3. frozen[r] = {source[w]} /\ ~Sealed(r, b)
    BY <1>1, <1>2 DEF IInv, HolderAgrees, Agrees, FrozenPcs, PipelinePcs
  <1>4. /\ result' = [result EXCEPT ![r][b] = s]
        /\ UNCHANGED <<status, cancelReq, frozen, completed, evidence, record>>
    BY DEF RecordState, runVars
  <1> HIDE DEF r, v
  <1>5. PhaseSeen' = PhaseSeen /\ PhaseSeen[r] = "open"
    BY <1>1, <1>2, <1>4, SeenAlike DEF PhaseSeen, Phase
  <1>6. VerdictsSeen' = [VerdictsSeen EXCEPT ![r][b] = v] /\ v \in Promised!Verdicts \cup {"none"}
    BY <1>1, <1>4, VerdictMoves DEF v, Promised!Verdicts, Outcomes
  <1>7. ~Promised!Settled(r, b)
    BY <1>3 DEF Promised!Settled, Sealed
  <1>8. Promised!Judge(r, b)
    BY <1>3, <1>4, <1>5, <1>6, <1>7 DEF Promised!Judge, PhaseSeen, VerdictsSeen
  <1> QED
    BY <1>1, <1>8 DEF PromisedStep, Promised!RunsNext

\* Its package is sealed.
LEMMA SealSeen ==
  ASSUME IInv, NEW w \in Workers, AtWork(w), Owned(w), pc[w] = "record",
         NEW b \in InHand(w), RecordPackage(w, b)
  PROVE  PromisedStep
  <1> DEFINE r == wrun[w]
             m == source[w]
             o == outcome[w]
  <1>1. TypeOK /\ r \in Runs /\ b \in Books /\ b \in todo[w] /\ o \in Outcomes
    BY HolderRun DEF IInv, InHand, TypeOK, WorkerTypeOK
  <1>2. /\ frozen[r] = {m} /\ ~Sealed(r, b) /\ result[r][b] = o
        /\ status[r] \in ActiveStatuses
    BY <1>1 DEF IInv, HolderAgrees, Agrees, FrozenPcs, PipelinePcs, Owned
  <1>3. /\ evidence' = [evidence EXCEPT ![r][b] = {[state |-> o, source |-> m]}]
        /\ result' = [result EXCEPT ![r][b] = o]
        /\ record' = [record EXCEPT ![m][b] = r]
        /\ completed' = [completed EXCEPT ![r] = Count(result'[r], evidence'[r])]
        /\ UNCHANGED <<status, cancelReq, frozen>>
    BY DEF RecordPackage, StoreRest
  <1> HIDE DEF r, m, o
  <1>4. result' = result
    BY <1>1, <1>2, <1>3 DEF TypeOK, StoreTypeOK
  <1>5. PhaseSeen' = PhaseSeen /\ PhaseSeen[r] \in Promised!Going
    BY <1>1, <1>2, <1>3, SeenAlike DEF PhaseSeen, Phase, Promised!Going
  <1>6. VerdictsSeen' = VerdictsSeen /\ VerdictsSeen[r][b] = o /\ o # "none"
    BY <1>1, <1>2, <1>4, SeenAlike DEF VerdictsSeen, VerdictSeen, Outcomes
  <1>7. completed' = [completed EXCEPT ![r] = Promised!Tally(VerdictsSeen[r], evidence'[r])]
    BY <1>1, <1>3, <1>4, TallySeen
  <1>8. ~Promised!Settled(r, b)
    BY <1>2 DEF Promised!Settled, Sealed
  <1>9. Promised!Seal(r, b)
    BY <1>2, <1>3, <1>5, <1>6, <1>7, <1>8 DEF Promised!Seal, PhaseSeen, VerdictsSeen
  <1> QED
    BY <1>1, <1>9 DEF PromisedStep, Promised!RunsNext

\* The run ends with the status that its books have earned.
LEMMA FinishSeen ==
  ASSUME IInv, Ready, NEW w \in Workers, AtWork(w), Owned(w), pc[w] \in {"finish", "close"},
         FinishRun(w)
  PROVE  PromisedStep
  <1>0. PICK r \in Runs, s \in TerminalStatuses : r = wrun[w] /\ s = verdict[w]
    BY HolderRun DEF IInv, TypeOK, WorkerTypeOK
  <1>1. TypeOK /\ status[r] \in ActiveStatuses
    BY <1>0 DEF IInv, Owned
  <1>2. /\ status' = [status EXCEPT ![r] = s]
        /\ completed' = [completed EXCEPT ![r] = Count(result[r], evidence[r])]
        /\ UNCHANGED <<cancelReq, frozen, result, evidence, record>>
    BY <1>0 DEF FinishRun, StoreRest
  <1>3. /\ s = "cancelled" => cancelReq[r]
        /\ s \in Completions => frozen[r] # {} /\ Tells(r, s)
    <2>1. pc[w] = "close" => s \notin Completions
      BY <1>0 DEF IInv, MemoryAgrees, Coherent, Completions
    <2>2. Prepared(w) /\ (pc[w] = "finish" => Tells(r, s))
      BY <1>0 DEF Ready, IInv, HolderAgrees, Agrees
    <2> QED
      BY <1>0, <2>1, <2>2 DEF Prepared
  <1>4. PhaseSeen' = [PhaseSeen EXCEPT ![r] = s]
    <2>1. Phase(r)' = s
      BY <1>1, <1>2, StatusesDisjoint DEF Phase, TypeOK, StoreTypeOK
    <2> QED
      BY <1>1, <1>2, <2>1, PhaseMoves
  <1>5. /\ PhaseSeen[r] \in Promised!Going
        /\ cancelReq[r] => PhaseSeen[r] = "cancelling"
    BY <1>1 DEF PhaseSeen, Phase, Promised!Going
  <1>6. VerdictsSeen' = VerdictsSeen
    BY <1>2, SeenAlike
  <1>7. completed' = [completed EXCEPT ![r] = Promised!Tally(VerdictsSeen[r], evidence[r])]
    BY <1>1, <1>2, TallySeen
  <1>8. Promised!Earned(r, s) /\ s \in Promised!Ends
    <2>1. \A b \in Books, o \in {"settled", "failed"} :
             result[r][b] = o => VerdictsSeen[r][b] = o
      BY <1>1 DEF VerdictsSeen, VerdictSeen, Outcomes
    <2>2. s = "completed" => \A b \in Books : VerdictsSeen[r][b] = "settled"
      BY <1>3, <2>1 DEF Completions, Tells
    <2>3. s = "completed_with_errors" =>
            /\ \A b \in Books : VerdictsSeen[r][b] \in {"settled", "failed"}
            /\ \E b \in Books : VerdictsSeen[r][b] = "failed"
      BY <1>3, <2>1 DEF Completions, Tells
    <2> QED
      BY <1>1, <1>3, <1>5, <2>2, <2>3
         DEF Promised!Earned, Promised!Ends, Completions, TerminalStatuses, PhaseSeen, VerdictsSeen
  <1>9. Promised!End(r)
    BY <1>2, <1>4, <1>5, <1>6, <1>7, <1>8 DEF Promised!End, PhaseSeen, VerdictsSeen
  <1> QED
    BY <1>1, <1>9 DEF PromisedStep, Promised!RunsNext

LEMMA StepSeen ==
  ASSUME IInv, Ready, [Next]_vars
  PROVE  PromisedStep
  <1>1. StoreNext /\ TypeOK /\ MemoryAgrees
    BY NextStoreStep DEF IInv
  <1>2. CASE NoStore \/ \E r \in Runs : Expire(r)
    BY <1>2, SeenAlike, StutterSeen DEF NoStore, runVars, Expire
  <1>3. ASSUME NEW w \in Workers, AtWork(w), Owned(w), HolderStep(w)
        PROVE  PromisedStep
    BY <1>1, <1>3, FreezeSeen, JudgeSeen, SealSeen, FinishSeen DEF HolderStep
  <1> QED
    BY <1>1, <1>2, <1>3, RequestSeen, CancelSeen, ClaimSeen DEF StoreNext

LEMMA StartSeen == Init => Promised!RunsInit
  <1> SUFFICES ASSUME Init
               PROVE  Promised!RunsInit
    OBVIOUS
  <1>1. \A r \in Runs : Phase(r) = "none"
    BY DEF Init, Phase, ActiveStatuses
  <1>2. \A r \in Runs, b \in Books : VerdictSeen(r, b) = "none"
    BY DEF Init, VerdictSeen, Outcomes
  <1> QED
    BY <1>1, <1>2 DEF Init, Promised!RunsInit, NoRun

\* What readers see of the store is a behaviour of VerificationRuns, for every number of
\* verifiers, runs, books, crashes, stalls and faults (_load_owned_run, inventory,
\* record_state, record_package, finish).
THEOREM StoreImplementsRuns == Spec => RunsAsPromised
  <1>1. Init => Ready
    BY DEF Init, Ready, Prepared, FrozenPcs, PipelinePcs
  <1>2. IInv /\ Ready /\ [Next]_vars => Ready'
    BY ReadyStep DEF IInv
  <1>3. IInv /\ Ready /\ [Next]_vars => [Promised!RunsNext]_(Promised!promised)
    BY StepSeen DEF PromisedStep
  <1> QED
    BY <1>1, <1>2, <1>3, StartSeen, IInvHolds, PTL DEF Spec, RunsAsPromised, Promised!RunsSpec
=============================================================================
