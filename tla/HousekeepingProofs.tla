-------------------------- MODULE HousekeepingProofs --------------------------
(***************************************************************************)
(* Verification runs of the web app that survive their process, for every  *)
(* number of processes, books, crashes, restarts and POSTs; the journaled  *)
(* deletion of restore points, for every number of commands, points,       *)
(* transactions and interruptions; the jobs of ingested files, for every   *)
(* number of processes, jobs and files; the V1 run, for every library; and *)
(* the cover review, for every library, page size and number of edits.     *)
(***************************************************************************)
EXTENDS DurableRuns, RetentionJournal, IngestJobs, LegacyVerify, CoverDeck,
        FiniteSetTheorems, SequenceTheorems, TLAPS

-----------------------------------------------------------------------------
(* Durable runs.                                                           *)

Pipeline == {"next", "book"} \cup Outcomes
Places   == Outside \cup {"reset", "beat", "begin", "failing", "release"} \cup Pipeline

Row == [state : {"absent", "pending", "working"} \cup Outcomes, ev : Nat, says : {"none"} \cup Outcomes]

DurableTypeOK ==
    /\ status \in {"none", "running"} \cup Ended
    /\ results \in [Books -> Row]
    /\ at \in [Apps -> Places] /\ given \in [Apps -> SUBSET Books] /\ todo \in [Apps -> SUBSET Books]
    /\ current \in [Apps -> Books] /\ erred \in [Apps -> BOOLEAN]
    /\ sealed \in Nat /\ overlapped \in BOOLEAN

\* A run that anybody knows of has books, and so its membership is frozen.
Frozen ==
    /\ status # "none" => Members # {}
    /\ \A a \in Apps : at[a] \notin {"idle", "listing"} => status # "none"

\* overlapped is the history that it says it is.
Exclusive == ~overlapped => \A a, b \in AtWork : a = b

\* A package that says done belongs to a book that is done; a book that was
\* never listed has nothing.
RowsAgree ==
    \A b \in Books :
        /\ results[b].state = "absent" => results[b] = NoRow
        /\ results[b].says # "none" => results[b].ev # 0
        /\ ~overlapped /\ results[b].says = "done" => results[b].state = "done"

\* What the pipeline has still to do, and what it has done. The package of an earlier
\* failure makes a book resumable as soon as it is announced as done.
Progress ==
    ~overlapped => \A a \in Apps : at[a] \in Pipeline =>
        /\ \A b \in todo[a] :
              /\ b \in Members /\ results[b].says # "done"
              /\ b \in Resumable => at[a] = "done" /\ b = current[a]
        /\ at[a] # "next" => current[a] \in todo[a]
        /\ \A b \in Members \ todo[a] :
              results[b].state \in Outcomes /\ results[b].ev # 0 /\ (~erred[a] => results[b].state = "done")
        /\ at[a] = "failed" => erred[a]
        /\ erred[a] => \E b \in Members : /\ results[b].state = "failed"
                                          /\ b \in todo[a] => at[a] = "failed" /\ b = current[a]

\* A run that is completed, or that a starting process has looked at and is about
\* to close, lacks nothing, and what is at work on it finds nothing to do. On a run
\* that ended otherwise there is only a task whose heartbeat is refused.
Settled ==
    ~overlapped =>
        /\ status = "completed" \/ (\E a \in Apps : at[a] = "closing") => Incomplete = {}
        /\ status = "completed_with_errors" =>
              \A b \in Members : results[b].state \in Outcomes /\ results[b].ev # 0
        /\ status \in {"completed", "completed_with_errors"} => completed = Counted(results)
        /\ status \in {"failed", "completed_with_errors"} =>
              \A a \in AtWork : at[a] \in {"reset", "beat", "failing"}

DurableInv == DurableTypeOK /\ Frozen /\ Exclusive /\ RowsAgree /\ Progress /\ Settled

-----------------------------------------------------------------------------
LEMMA DurableStarts ==
  ASSUME DurableInit
  PROVE  DurableInv
  <1>1. (CHOOSE b \in Books : TRUE) \in Books
    BY DurableAssumption
  <1>2. DurableTypeOK
    BY <1>1 DEF DurableInit, DurableTypeOK, Places, Outside, Row, NoRow
  <1>3. Frozen /\ Exclusive /\ RowsAgree /\ Progress /\ Settled
    BY DEF DurableInit, Frozen, Exclusive, RowsAgree, Progress, Settled, Outside, AtWork, Pipeline,
       Outcomes, NoRow
  <1> QED
    BY <1>2, <1>3 DEF DurableInv

\* A step that leaves the rows alone and ends outside the work on the run: of a
\* claim, of the recovery, of a task that is over or gone.
LEMMA OutsideKeeps ==
  ASSUME DurableInv, NEW a \in Apps, NEW l \in Outside, Go(a, l),
         l \notin {"idle", "listing"} => status # "none",
         l = "closing" => Incomplete = {},
         UNCHANGED <<status, results, completed, current, sealed, overlapped>>,
         given' \in [Apps -> SUBSET Books], todo' \in [Apps -> SUBSET Books],
         erred' \in [Apps -> BOOLEAN],
         \A b \in Apps : b # a => todo'[b] = todo[b] /\ erred'[b] = erred[b]
  PROVE  DurableInv'
  <1> USE DEF Outside, Pipeline, Outcomes, Places
  <1>0. DurableTypeOK /\ Frozen /\ Exclusive /\ RowsAgree /\ Progress /\ Settled
    BY DEF DurableInv
  <1>1. /\ at'[a] = l /\ \A b \in Apps : b # a => at'[b] = at[b]
        /\ at' \in [Apps -> Places]
        /\ Members' = Members /\ Resumable' = Resumable /\ Incomplete' = Incomplete
        /\ Counted(results)' = Counted(results)
    BY <1>0 DEF DurableTypeOK, Go, Members, Resumable, Incomplete, Counted
  <1>2. AtWork' \subseteq AtWork /\ \A b \in AtWork' : at'[b] = at[b]
    BY <1>1 DEF AtWork
  <1>3. DurableTypeOK'
    BY <1>0, <1>1 DEF DurableTypeOK
  <1>4. Frozen'
    BY <1>0, <1>1 DEF Frozen
  <1>5. Exclusive'
    BY <1>0, <1>2 DEF Exclusive
  <1>6. RowsAgree'
    BY <1>0 DEF RowsAgree
  <1>7. Progress'
    BY <1>0, <1>1 DEF Progress
  <1>8. Settled'
    <2> SUFFICES ASSUME ~overlapped PROVE Settled'
      BY DEF Settled
    <2>1. status' = "completed" \/ (\E b \in Apps : at'[b] = "closing") => Incomplete' = {}
      BY <1>0, <1>1 DEF Settled
    <2> QED
      BY <1>0, <1>1, <1>2, <2>1 DEF Settled
  <1> QED
    BY <1>3, <1>4, <1>5, <1>6, <1>7, <1>8 DEF DurableInv

\* The task at work is the only one, and it finds an open run or one that lacks nothing.
LEMMA AtWorkAlone ==
  ASSUME DurableInv, NEW a \in AtWork, ~overlapped
  PROVE  /\ \A b \in Apps : b # a => b \notin AtWork /\ at[b] \notin Pipeline
         /\ at[a] \in Pipeline \cup {"begin"} => status \in {"running", "completed"}
  <1>1. a \in Apps /\ \A b \in Apps : b # a => b \notin AtWork
    BY DEF DurableInv, Exclusive, AtWork
  <1> QED
    BY <1>1 DEF DurableInv, DurableTypeOK, Frozen, Settled, AtWork, Outside, Pipeline, Outcomes, Ended

\* What holds after a step of the task at work that leaves the status alone.
LEMMA AloneStays ==
  ASSUME DurableInv, NEW a \in AtWork, NEW l \in Places \ Outside, Go(a, l),
         UNCHANGED <<status, overlapped>>
  PROVE  /\ a \in Apps /\ at'[a] = l /\ at' \in [Apps -> Places]
         /\ \A b \in Apps : b # a => at'[b] = at[b]
         /\ ~overlapped => \A b \in Apps : b # a => at'[b] \notin Pipeline
         /\ Exclusive'
         /\ \A b \in AtWork' : b # a => b \in AtWork /\ at'[b] = at[b]
         /\ \A b \in Apps : at'[b] = "closing" => at[b] = "closing"
  <1> USE DEF Places, Outside, Pipeline, Outcomes
  <1>1. /\ a \in Apps /\ at'[a] = l /\ at' \in [Apps -> Places]
        /\ \A b \in Apps : b # a => at'[b] = at[b]
    BY DEF DurableInv, DurableTypeOK, Go, AtWork
  <1>2. \A b \in AtWork' : b # a => b \in AtWork /\ at'[b] = at[b]
    BY <1>1 DEF AtWork
  <1>3. Exclusive'
    BY <1>2 DEF DurableInv, Exclusive
  <1>4. ~overlapped => \A b \in Apps : b # a => at'[b] \notin Pipeline
    BY <1>1, AtWorkAlone
  <1> QED
    BY <1>1, <1>2, <1>3, <1>4

\* The membership of a run that anybody knows of is frozen: it is listed again
\* or refused.
LEMMA StartedMembers ==
  ASSUME DurableTypeOK, RowsAgree, NEW bs \in SUBSET Books, CanStart(bs),
         results' = Started(bs)
  PROVE  /\ results' \in [Books -> Row] /\ Members' = bs
         /\ Members # {} => results' = results /\ bs = Members
         /\ \A b \in Books : results'[b] = results[b] \/ (results'[b] = PendingRow /\ results[b] = NoRow)
  <1>1. results' \in [Books -> Row]
    BY DEF DurableTypeOK, Started, Row, PendingRow, NoRow
  <1>2. \A b \in Books : results'[b] = results[b] \/ (results'[b] = PendingRow /\ results[b] = NoRow)
    BY DEF Started
  <1>3. NoRow.state = "absent" /\ PendingRow.state = "pending"
    BY DEF NoRow, PendingRow
  <1>4. Members # {} => bs = Members
    BY DEF CanStart
  <1>5. ASSUME Members # {}
        PROVE  results' = results
    <2>1. \A b \in bs : results[b] # NoRow
      BY <1>3, <1>4, <1>5 DEF Members
    <2>2. \A b \in Books : results'[b] = results[b]
      BY <2>1 DEF Started
    <2>3. results \in [Books -> Row]
      BY DEF DurableTypeOK
    <2>4. results = [b \in Books |-> results[b]] /\ results' = [b \in Books |-> results'[b]]
      BY <1>1, <2>3
    <2> QED
      BY <2>2, <2>4
  <1>6. Members' = bs
    <2>1. CASE Members # {}
      BY <1>4, <1>5, <2>1 DEF Members
    <2>2. CASE Members = {}
      <3>1. \A b \in Books : results[b].state = "absent"
        BY <2>2 DEF Members
      <3>2. \A b \in Books : results[b] = NoRow
        BY <3>1 DEF RowsAgree
      <3> SUFFICES \A b \in Books : results'[b].state # "absent" <=> b \in bs
        BY DEF Members
      <3> TAKE b \in Books
      <3> QED
        BY <1>3, <3>2 DEF Started
    <2> QED
      BY <2>1, <2>2
  <1> QED
    BY <1>1, <1>2, <1>4, <1>5, <1>6

LEMMA StartVerifyKeeps ==
  ASSUME DurableInv, NEW a \in Apps, StartVerify(a)
  PROVE  DurableInv'
  <1> USE DEF Outside, Pipeline, Outcomes, Places, Ended
  <1>0. DurableTypeOK /\ Frozen /\ Exclusive /\ RowsAgree /\ Progress /\ Settled
    BY DEF DurableInv
  <1>1. PICK bs \in (SUBSET Books) \ {{}} :
          /\ CanStart(bs) /\ results' = Started(bs)
          /\ given' = [given EXCEPT ![a] = bs]
    BY DEF StartVerify
  <1>2. /\ results' \in [Books -> Row] /\ Members' = bs
        /\ Members # {} => results' = results /\ bs = Members
        /\ \A b \in Books : results'[b] = results[b] \/ (results'[b] = PendingRow /\ results[b] = NoRow)
    BY <1>0, <1>1, StartedMembers
  <1>3. /\ at[a] = "idle" /\ at'[a] = "claim" /\ \A b \in Apps : b # a => at'[b] = at[b]
        /\ status' = IF status = "none" THEN "running" ELSE status
        /\ UNCHANGED <<completed, todo, current, erred, overlapped>>
    BY <1>0 DEF StartVerify, DurableTypeOK, Go
  <1>4. DurableTypeOK'
    BY <1>0, <1>1, <1>2 DEF StartVerify, DurableTypeOK, Go
  <1>5. Frozen'
    BY <1>1, <1>2, <1>3 DEF Frozen
  <1>6. AtWork' = AtWork /\ \A b \in AtWork : at'[b] = at[b]
    BY <1>3 DEF AtWork
  <1>7. Exclusive'
    BY <1>0, <1>3, <1>6 DEF Exclusive
  <1>8. RowsAgree'
    BY <1>0, <1>2, <1>3 DEF RowsAgree, PendingRow, NoRow
  <1>9. CASE Members # {}
    <2>1. /\ results' = results /\ Members' = Members /\ Resumable' = Resumable
          /\ Incomplete' = Incomplete /\ Counted(results)' = Counted(results)
      BY <1>2, <1>9 DEF Members, Resumable, Incomplete, Counted
    <2>2. Progress'
      BY <1>0, <1>3, <2>1 DEF Progress
    <2>3. Settled'
      BY <1>0, <1>3, <1>6, <2>1 DEF Settled
    <2> QED
      BY <1>4, <1>5, <1>7, <1>8, <2>2, <2>3 DEF DurableInv
  <1>10. CASE Members = {}
    <2>1. status' = "running" /\ \A b \in Apps : at'[b] \in {"idle", "listing", "claim"}
      BY <1>0, <1>3, <1>10 DEF Frozen
    <2>2. Progress' /\ Settled'
      BY <2>1 DEF Progress, Settled
    <2> QED
      BY <1>4, <1>5, <1>7, <1>8, <2>2 DEF DurableInv
  <1> QED
    BY <1>9, <1>10

\* A claim that overlaps with work is remembered; one that does not overlap finds
\* nobody at work.
LEMMA ClaimWriteKeeps ==
  ASSUME DurableInv, NEW a \in Apps, ClaimWrite(a)
  PROVE  DurableInv'
  <1> USE DEF Outside, Pipeline, Outcomes, Places, Ended
  <1>0. DurableTypeOK /\ Frozen /\ Exclusive /\ RowsAgree /\ Progress /\ Settled
    BY DEF DurableInv
  <1>1. PICK l \in {"reset", "failing", "claim"} :
          /\ Go(a, l) /\ overlapped' = (overlapped \/ (l # "claim" /\ AtWork # {}))
    BY DEF ClaimWrite
  <1>2. /\ at[a] \in {"recovering", "claiming"} /\ status # "none"
        /\ UNCHANGED <<status, results, completed, given, todo, current, erred, sealed>>
    BY <1>0 DEF ClaimWrite, Frozen
  <1>3. CASE l = "claim"
    <2>1. overlapped' = overlapped
      BY <1>0, <1>1, <1>3, Zenon DEF DurableTypeOK
    <2> QED
      BY <1>0, <1>1, <1>2, <1>3, <2>1, OutsideKeeps DEF DurableTypeOK
  <1>4. CASE l \in {"reset", "failing"}
    <2>1. /\ at'[a] = l /\ \A b \in Apps : b # a => at'[b] = at[b]
          /\ at' \in [Apps -> Places]
          /\ Members' = Members /\ Resumable' = Resumable /\ Incomplete' = Incomplete
          /\ Counted(results)' = Counted(results)
      BY <1>0, <1>1, <1>2 DEF DurableTypeOK, Go, Members, Resumable, Incomplete, Counted
    <2>2. ~overlapped' => ~overlapped /\ AtWork = {} /\ AtWork' = {a}
      BY <1>1, <1>4, <2>1 DEF AtWork
    <2>3. DurableTypeOK'
      BY <1>0, <1>1, <1>2, <2>1 DEF DurableTypeOK
    <2>4. Frozen'
      BY <1>0, <1>2, <2>1 DEF Frozen
    <2>5. Exclusive'
      BY <2>2 DEF Exclusive
    <2>6. RowsAgree'
      BY <1>0, <1>2, <2>2 DEF RowsAgree
    <2>7. Progress'
      BY <1>0, <1>2, <1>4, <2>1, <2>2 DEF Progress
    <2>8. Settled'
      <3> SUFFICES ASSUME ~overlapped' PROVE Settled'
        BY DEF Settled
      <3>1. \A b \in Apps : at'[b] = "closing" => at[b] = "closing"
        BY <1>4, <2>1
      <3>2. \A b \in AtWork' : at'[b] \in {"reset", "failing"}
        BY <1>4, <2>1, <2>2
      <3> QED
        BY <1>0, <1>2, <2>1, <2>2, <3>1, <3>2 DEF Settled
    <2> QED
      BY <2>3, <2>4, <2>5, <2>6, <2>7, <2>8 DEF DurableInv
  <1> QED
    BY <1>1, <1>3, <1>4

LEMMA ResetStatesKeeps ==
  ASSUME DurableInv, NEW a \in Apps, ResetStates(a)
  PROVE  DurableInv'
  <1> USE DEF Outside, Pipeline, Outcomes, Places, Ended
  <1>0. DurableTypeOK /\ Frozen /\ Exclusive /\ RowsAgree /\ Progress /\ Settled
    BY DEF DurableInv
  <1>1. /\ at[a] = "reset" /\ Go(a, "beat") /\ a \in AtWork
        /\ UNCHANGED <<status, completed, given, todo, current, erred, sealed, overlapped>>
    BY DEF ResetStates, boundVars, AtWork
  <1>2. /\ at'[a] = "beat" /\ at' \in [Apps -> Places]
        /\ \A b \in Apps : b # a => at'[b] = at[b]
        /\ ~overlapped => \A b \in Apps : b # a => at'[b] \notin Pipeline
        /\ Exclusive'
        /\ \A b \in AtWork' : b # a => b \in AtWork /\ at'[b] = at[b]
        /\ \A b \in Apps : at'[b] = "closing" => at[b] = "closing"
    BY <1>1, AloneStays
  <1>3. \A b \in Books : \/ results'[b] = results[b]
                         \/ /\ results[b].state = "working"
                            /\ results'[b] = [results[b] EXCEPT !.state = "pending"]
    BY DEF ResetStates
  <1>4. results' \in [Books -> Row]
    BY <1>0 DEF ResetStates, DurableTypeOK, Row
  <1>5. DurableTypeOK'
    BY <1>0, <1>1, <1>2, <1>4 DEF DurableTypeOK
  <1>6. \A b \in Books : /\ results'[b].ev = results[b].ev /\ results'[b].says = results[b].says
                         /\ results[b].state # "working" => results'[b] = results[b]
                         /\ results[b].state = "working" => results'[b].state = "pending"
    <2> SUFFICES ASSUME NEW b \in Books
                 PROVE  /\ results'[b].ev = results[b].ev /\ results'[b].says = results[b].says
                        /\ results[b].state # "working" => results'[b] = results[b]
                        /\ results[b].state = "working" => results'[b].state = "pending"
      OBVIOUS
    <2>1. results[b] \in Row
      BY <1>0 DEF DurableTypeOK
    <2>2. results'[b] = IF results[b].state = "working"
                        THEN [results[b] EXCEPT !.state = "pending"] ELSE results[b]
      BY DEF ResetStates
    <2> QED
      BY <2>1, <2>2 DEF Row
  <1>7. Members' = Members
    BY <1>6 DEF Members
  <1>8. Resumable' = Resumable /\ Incomplete' = Incomplete
    BY <1>6, <1>7 DEF Resumable, Incomplete, Members
  <1>9. Counted(results)' = Counted(results)
    <2>1. {b \in Books : results'[b].state \in {"done", "failed"} /\ results'[b].ev # 0}
            = {b \in Books : results[b].state \in {"done", "failed"} /\ results[b].ev # 0}
      BY <1>6
    <2> QED
      BY <2>1 DEF Counted
  <1>10. Frozen'
    BY <1>0, <1>1, <1>2, <1>7 DEF Frozen
  <1>11. RowsAgree'
    BY <1>0, <1>1, <1>6 DEF RowsAgree
  <1>12. Progress'
    BY <1>1, <1>2 DEF Progress
  <1>13. Settled'
    <2> SUFFICES ASSUME ~overlapped PROVE Settled'
      BY <1>1 DEF Settled
    <2>1. status = "completed_with_errors" => \A b \in Members : results'[b] = results[b]
      BY <1>0, <1>6 DEF Settled, Members
    <2>2. \A b \in AtWork' : b = a \/ (b \in AtWork /\ at'[b] = at[b])
      BY <1>2
    <2> QED
      BY <1>0, <1>1, <1>2, <1>7, <1>8, <1>9, <2>1, <2>2 DEF Settled
  <1> QED
    BY <1>2, <1>5, <1>10, <1>11, <1>12, <1>13 DEF DurableInv

\* A task that only moves: to the run when it is open, or to its end.
LEMMA MovesKeep ==
  ASSUME DurableInv, NEW a \in AtWork, NEW l \in {"begin", "failing"}, Go(a, l),
         l = "begin" => status \notin Ended,
         UNCHANGED <<status, results, completed, given, todo, current, erred, sealed, overlapped>>
  PROVE  DurableInv'
  <1> USE DEF Outside, Pipeline, Outcomes, Places, Ended
  <1>0. DurableTypeOK /\ Frozen /\ Exclusive /\ RowsAgree /\ Progress /\ Settled
    BY DEF DurableInv
  <1>1. /\ a \in Apps /\ at'[a] = l /\ at' \in [Apps -> Places]
        /\ \A b \in Apps : b # a => at'[b] = at[b]
        /\ ~overlapped => \A b \in Apps : b # a => at'[b] \notin Pipeline
        /\ Exclusive'
        /\ \A b \in AtWork' : b # a => b \in AtWork /\ at'[b] = at[b]
        /\ \A b \in Apps : at'[b] = "closing" => at[b] = "closing"
    BY AloneStays
  <1>2. /\ Members' = Members /\ Resumable' = Resumable /\ Incomplete' = Incomplete
        /\ Counted(results)' = Counted(results)
    BY DEF Members, Resumable, Incomplete, Counted
  <1>3. DurableTypeOK'
    BY <1>0, <1>1 DEF DurableTypeOK
  <1>4. Frozen'
    BY <1>0, <1>1, <1>2 DEF Frozen, AtWork
  <1>5. RowsAgree'
    BY <1>0 DEF RowsAgree
  <1>6. Progress'
    BY <1>1 DEF Progress
  <1>7. Settled'
    <2>1. status \in {"failed", "completed_with_errors"} => l = "failing"
      OBVIOUS
    <2> QED
      BY <1>0, <1>1, <1>2, <2>1 DEF Settled
  <1> QED
    BY <1>1, <1>3, <1>4, <1>5, <1>6, <1>7 DEF DurableInv

LEMMA BeatKeeps ==
  ASSUME DurableInv, NEW a \in Apps, Beat(a)
  PROVE  DurableInv'
  <1>1. a \in AtWork
    BY DEF Beat, AtWork, Outside
  <1>2. PICK l \in {"begin", "failing"} : Go(a, l) /\ (l = "begin" => status \notin Ended)
    BY DEF Beat
  <1> QED
    BY <1>1, <1>2, MovesKeep DEF Beat, boundVars

LEMMA RaiseKeeps ==
  ASSUME DurableInv, NEW a \in Apps, Raise(a)
  PROVE  DurableInv'
  <1>1. a \in AtWork
    BY DEF Raise, AtWork, Outside, Outcomes
  <1> QED
    BY <1>1, MovesKeep DEF Raise, rowVars

\* The pipeline is given every book of the membership that has no intact outcome.
LEMMA BeginRunKeeps ==
  ASSUME DurableInv, NEW a \in Apps, BeginRun(a)
  PROVE  DurableInv'
  <1> USE DEF Outside, Pipeline, Outcomes, Places, Ended
  <1>0. DurableTypeOK /\ Frozen /\ Exclusive /\ RowsAgree /\ Progress /\ Settled
    BY DEF DurableInv
  <1>1. /\ at[a] = "begin" /\ a \in AtWork
        /\ UNCHANGED <<status, completed, given, current, sealed, overlapped>>
    BY DEF BeginRun, boundVars, AtWork
  <1>2. Members # {}
    BY <1>0, <1>1 DEF Frozen
  <1>3. PICK bs \in SUBSET Books :
          IF CanStart(bs)
          THEN /\ results' = Started(bs)
               /\ todo' = [todo EXCEPT ![a] = bs \ Resumable]
               /\ erred' = [erred EXCEPT ![a] = FALSE]
               /\ Go(a, "next")
          ELSE UNCHANGED <<results, todo, erred>> /\ Go(a, "failing")
    BY <1>0 DEF BeginRun, DurableTypeOK
  <1>4. CASE ~CanStart(bs)
    BY <1>1, <1>3, <1>4, MovesKeep
  <1>5. CASE CanStart(bs)
    <2>1. results' = results /\ bs = Members
      BY <1>0, <1>2, <1>3, <1>5, StartedMembers
    <2>2. /\ Members' = Members /\ Resumable' = Resumable /\ Incomplete' = Incomplete
          /\ Counted(results)' = Counted(results)
      BY <2>1 DEF Members, Resumable, Incomplete, Counted
    <2>3. /\ at'[a] = "next" /\ at' \in [Apps -> Places]
          /\ \A b \in Apps : b # a => at'[b] = at[b]
          /\ ~overlapped => \A b \in Apps : b # a => at'[b] \notin Pipeline
          /\ Exclusive'
          /\ \A b \in AtWork' : b # a => b \in AtWork /\ at'[b] = at[b]
          /\ \A b \in Apps : at'[b] = "closing" => at[b] = "closing"
      BY <1>1, <1>3, <1>5, AloneStays
    <2>4. /\ todo' \in [Apps -> SUBSET Books] /\ erred' \in [Apps -> BOOLEAN]
          /\ todo'[a] = Members \ Resumable /\ ~erred'[a]
      <3>1. /\ todo' = [todo EXCEPT ![a] = Members \ Resumable] /\ Members \ Resumable \in SUBSET Books
            /\ erred' = [erred EXCEPT ![a] = FALSE]
        BY <1>3, <1>5, <2>1 DEF Members
      <3>2. todo \in [Apps -> SUBSET Books] /\ erred \in [Apps -> BOOLEAN]
        BY <1>0 DEF DurableTypeOK
      <3> QED
        BY <3>1, <3>2
    <2>5. DurableTypeOK'
      BY <1>0, <1>1, <2>1, <2>3, <2>4 DEF DurableTypeOK
    <2>6. Frozen'
      BY <1>0, <1>1, <2>2, <2>3 DEF Frozen
    <2>7. RowsAgree'
      BY <1>0, <1>1, <2>1 DEF RowsAgree
    <2>8. Progress'
      <3> SUFFICES ASSUME ~overlapped
                   PROVE  /\ \A b \in todo'[a] : /\ b \in Members /\ results[b].says # "done"
                                                 /\ b \notin Resumable
                          /\ \A b \in Members \ todo'[a] : results[b].state = "done" /\ results[b].ev # 0
        BY <1>1, <2>1, <2>2, <2>3, <2>4 DEF Progress
      <3>1. \A b \in Books : results[b].says = "done" => results[b].state = "done" /\ results[b].ev # 0
        BY <1>0 DEF RowsAgree
      <3> QED
        BY <2>4, <3>1 DEF Resumable, Members
    <2>9. Settled'
      <3>1. ~overlapped => status \in {"running", "completed"}
        BY <1>1, AtWorkAlone
      <3> QED
        BY <1>0, <1>1, <2>1, <2>2, <2>3, <3>1 DEF Settled
    <2> QED
      BY <2>3, <2>5, <2>6, <2>7, <2>8, <2>9 DEF DurableInv
  <1> QED
    BY <1>4, <1>5

\* The state of the book in hand changes, and its package does not.
LEMMA StateSet ==
  ASSUME DurableTypeOK, NEW b \in Books, NEW s \in {"working"} \cup Outcomes, SetState(b, s)
  PROVE  /\ results' \in [Books -> Row]
         /\ results'[b].state = s /\ results'[b].ev = results[b].ev /\ results'[b].says = results[b].says
         /\ \A c \in Books : c # b => results'[c] = results[c]
  <1>1. results \in [Books -> Row]
    BY DEF DurableTypeOK
  <1>2. results' = [results EXCEPT ![b] = [results[b] EXCEPT !.state = s]]
    BY DEF SetState
  <1>3. results[b] \in Row
    BY <1>1
  <1>4. /\ [results[b] EXCEPT !.state = s] \in Row
        /\ [results[b] EXCEPT !.state = s].state = s
        /\ [results[b] EXCEPT !.state = s].ev = results[b].ev
        /\ [results[b] EXCEPT !.state = s].says = results[b].says
    BY <1>3 DEF Row, Outcomes
  <1> QED
    BY <1>1, <1>2, <1>4

\* A book in hand lacks something, so the run is open and nobody is about to close it.
LEMMA SomethingToDo ==
  ASSUME DurableInv, NEW a \in AtWork, NEW b \in todo[a], ~overlapped,
         at[a] = "next" \/ (at[a] = "book" /\ b = current[a])
  PROVE  /\ b \in Books /\ b \in Members /\ results[b].says # "done"
         /\ status = "running" /\ \A c \in Apps : at[c] # "closing"
  <1> USE DEF Outside, Pipeline, Outcomes
  <1>1. a \in Apps /\ at[a] \in Pipeline
    BY DEF AtWork
  <1>2. b \in Books /\ b \in Members /\ results[b].says # "done" /\ b \notin Resumable
    BY <1>1 DEF DurableInv, DurableTypeOK, Progress
  <1>3. Incomplete # {}
    BY <1>2 DEF Incomplete
  <1> QED
    BY <1>1, <1>2, <1>3, AtWorkAlone DEF DurableInv, Settled

LEMMA WorkOnKeeps ==
  ASSUME DurableInv, NEW a \in Apps, WorkOn(a)
  PROVE  DurableInv'
  <1> USE DEF Outside, Pipeline, Outcomes, Places, Ended
  <1>0. DurableTypeOK /\ Frozen /\ Exclusive /\ RowsAgree /\ Progress /\ Settled
    BY DEF DurableInv
  <1>1. PICK b \in todo[a] : SetState(b, "working") /\ current' = [current EXCEPT ![a] = b]
    BY DEF WorkOn
  <1>2. /\ at[a] = "next" /\ Go(a, "book") /\ a \in AtWork
        /\ UNCHANGED <<status, completed, given, todo, erred, sealed, overlapped>>
    BY DEF WorkOn, boundVars, AtWork
  <1>3. /\ at'[a] = "book" /\ at' \in [Apps -> Places]
        /\ \A c \in Apps : c # a => at'[c] = at[c]
        /\ ~overlapped => \A c \in Apps : c # a => at'[c] \notin Pipeline
        /\ Exclusive'
        /\ \A c \in AtWork' : c # a => c \in AtWork /\ at'[c] = at[c]
        /\ \A c \in Apps : at'[c] = "closing" => at[c] = "closing"
    BY <1>2, AloneStays
  <1>4. b \in Books
    BY <1>0, <1>1 DEF DurableTypeOK
  <1>5. /\ results' \in [Books -> Row]
        /\ results'[b].state = "working" /\ results'[b].ev = results[b].ev
        /\ results'[b].says = results[b].says
        /\ \A c \in Books : c # b => results'[c] = results[c]
    BY <1>0, <1>1, <1>4, StateSet
  <1>6. DurableTypeOK' /\ current'[a] = b
    BY <1>0, <1>1, <1>2, <1>3, <1>4, <1>5 DEF DurableTypeOK
  <1>7. Members' = Members \cup {b}
    BY <1>4, <1>5 DEF Members
  <1>8. Frozen'
    BY <1>0, <1>2, <1>3, <1>7 DEF Frozen
  <1>9. ~overlapped => /\ b \in Members /\ results[b].says # "done"
                       /\ status = "running" /\ \A c \in Apps : at[c] # "closing"
    BY <1>1, <1>2, SomethingToDo
  <1>10. RowsAgree'
    BY <1>0, <1>2, <1>5, <1>9 DEF RowsAgree
  <1>11. Progress'
    <2> SUFFICES ASSUME ~overlapped
                 PROVE  /\ \A c \in todo[a] : c \in Members' /\ results'[c].says # "done" /\ c \notin Resumable'
                        /\ \A c \in Members' \ todo[a] :
                              /\ results'[c].state \in Outcomes /\ results'[c].ev # 0
                              /\ ~erred[a] => results'[c].state = "done"
                        /\ erred[a] => \E c \in Members' : results'[c].state = "failed" /\ c \notin todo[a]
      BY <1>1, <1>2, <1>3, <1>6 DEF Progress
    <2>1. /\ \A c \in todo[a] : c \in Members /\ results[c].says # "done" /\ c \notin Resumable
          /\ \A c \in Members \ todo[a] :
                /\ results[c].state \in Outcomes /\ results[c].ev # 0
                /\ ~erred[a] => results[c].state = "done"
          /\ erred[a] => \E c \in Members : results[c].state = "failed" /\ c \notin todo[a]
      BY <1>0, <1>2 DEF Progress
    <2>2. \A c \in Members \ todo[a] : results'[c] = results[c]
      BY <1>1, <1>5 DEF Members
    <2>3. Members' = Members
      BY <1>7, <1>9
    <2>4. \A c \in todo[a] : results'[c].says # "done" /\ c \notin Resumable'
      BY <1>5, <2>1, <2>3 DEF Resumable, Members
    <2> QED
      BY <2>1, <2>2, <2>3, <2>4
  <1>12. Settled'
    BY <1>2, <1>3, <1>9 DEF Settled
  <1> QED
    BY <1>3, <1>6, <1>8, <1>10, <1>11, <1>12 DEF DurableInv

LEMMA AnnounceKeeps ==
  ASSUME DurableInv, NEW a \in Apps, NEW s \in Outcomes, Announce(a, s)
  PROVE  DurableInv'
  <1> USE DEF Outside, Pipeline, Outcomes, Places, Ended
  <1>0. DurableTypeOK /\ Frozen /\ Exclusive /\ RowsAgree /\ Progress /\ Settled
    BY DEF DurableInv
  <1>1. PICK b \in Books : b = current[a]
    BY <1>0 DEF DurableTypeOK
  <1>2. /\ at[a] = "book" /\ Go(a, s) /\ a \in AtWork /\ SetState(b, s)
        /\ UNCHANGED <<status, completed, given, todo, current, sealed, overlapped>>
    BY <1>1 DEF Announce, boundVars, AtWork
  <1>3. /\ at'[a] = s /\ at' \in [Apps -> Places]
        /\ \A c \in Apps : c # a => at'[c] = at[c]
        /\ ~overlapped => \A c \in Apps : c # a => at'[c] \notin Pipeline
        /\ Exclusive'
        /\ \A c \in AtWork' : c # a => c \in AtWork /\ at'[c] = at[c]
        /\ \A c \in Apps : at'[c] = "closing" => at[c] = "closing"
    BY <1>2, AloneStays
  <1>5. /\ results' \in [Books -> Row]
        /\ results'[b].state = s /\ results'[b].ev = results[b].ev
        /\ results'[b].says = results[b].says
        /\ \A c \in Books : c # b => results'[c] = results[c]
    BY <1>0, <1>2, StateSet
  <1>6. erred' = [erred EXCEPT ![a] = erred[a] \/ s = "failed"]
    BY DEF Announce
  <1>7. /\ erred' \in [Apps -> BOOLEAN] /\ (erred[a] => erred'[a]) /\ (s = "failed" => erred'[a])
        /\ erred'[a] => erred[a] \/ s = "failed"
    BY <1>0, <1>6 DEF DurableTypeOK
  <1>8. DurableTypeOK'
    BY <1>0, <1>2, <1>3, <1>5, <1>7 DEF DurableTypeOK
  <1>9. Members' = Members \cup {b}
    BY <1>5 DEF Members
  <1>10. Frozen'
    BY <1>0, <1>2, <1>3, <1>9 DEF Frozen
  <1>11. ~overlapped => /\ b \in todo[a] /\ b \in Members /\ results[b].says # "done"
                        /\ status = "running" /\ \A c \in Apps : at[c] # "closing"
    <2>1. ~overlapped => b \in todo[a]
      BY <1>0, <1>1, <1>2 DEF Progress
    <2> QED
      BY <1>1, <1>2, <2>1, SomethingToDo
  <1>12. RowsAgree'
    BY <1>0, <1>2, <1>5, <1>11 DEF RowsAgree
  <1>13. Progress'
    <2> SUFFICES ASSUME ~overlapped
                 PROVE  /\ \A c \in todo[a] : /\ c \in Members' /\ results'[c].says # "done"
                                              /\ c \in Resumable' => s = "done" /\ c = b
                        /\ b \in todo[a]
                        /\ \A c \in Members' \ todo[a] :
                              /\ results'[c].state \in Outcomes /\ results'[c].ev # 0
                              /\ ~erred'[a] => results'[c].state = "done"
                        /\ s = "failed" => erred'[a]
                        /\ erred'[a] => \E c \in Members' : /\ results'[c].state = "failed"
                                                            /\ c \in todo[a] => s = "failed" /\ c = b
      BY <1>1, <1>2, <1>3 DEF Progress
    <2>1. /\ \A c \in todo[a] : c \in Members /\ results[c].says # "done" /\ c \notin Resumable
          /\ \A c \in Members \ todo[a] :
                /\ results[c].state \in Outcomes /\ results[c].ev # 0
                /\ ~erred[a] => results[c].state = "done"
          /\ erred[a] => \E c \in Members : results[c].state = "failed" /\ c \notin todo[a]
      BY <1>0, <1>2 DEF Progress
    <2>2. Members' = Members /\ \A c \in Members \ todo[a] : results'[c] = results[c]
      BY <1>5, <1>9, <1>11 DEF Members
    <2>3. \A c \in todo[a] : results'[c].says # "done" /\ (c \in Resumable' => s = "done" /\ c = b)
      BY <1>5, <2>1, <2>2 DEF Resumable, Members
    <2>4. erred'[a] => \E c \in Members' : /\ results'[c].state = "failed"
                                           /\ c \in todo[a] => s = "failed" /\ c = b
      BY <1>5, <1>7, <1>11, <2>1, <2>2
    <2> QED
      BY <1>7, <1>11, <2>1, <2>2, <2>3, <2>4
  <1>14. Settled'
    BY <1>2, <1>3, <1>11 DEF Settled
  <1> QED
    BY <1>3, <1>8, <1>10, <1>12, <1>13, <1>14 DEF DurableInv

LEMMA RecordPackageKeeps ==
  ASSUME DurableInv, NEW a \in Apps, NEW s \in Outcomes, RecordPackage(a, s)
  PROVE  DurableInv'
  <1> USE DEF Outside, Pipeline, Outcomes, Places, Ended
  <1>0. DurableTypeOK /\ Frozen /\ Exclusive /\ RowsAgree /\ Progress /\ Settled
    BY DEF DurableInv
  <1>1. PICK b \in Books : b = current[a]
    BY <1>0 DEF DurableTypeOK
  <1>2. /\ at[a] = s /\ Go(a, "next") /\ a \in AtWork
        /\ results' = [results EXCEPT ![b] = [state |-> s, ev |-> sealed + 1, says |-> s]]
        /\ completed' = Counted(results')
        /\ todo' = [todo EXCEPT ![a] = todo[a] \ {b}]
        /\ UNCHANGED <<status, given, current, erred, overlapped>>
        /\ sealed' = sealed + 1
    BY <1>1 DEF RecordPackage, AtWork
  <1>3. /\ at'[a] = "next" /\ at' \in [Apps -> Places]
        /\ \A c \in Apps : c # a => at'[c] = at[c]
        /\ ~overlapped => \A c \in Apps : c # a => at'[c] \notin Pipeline
        /\ Exclusive'
        /\ \A c \in AtWork' : c # a => c \in AtWork /\ at'[c] = at[c]
        /\ \A c \in Apps : at'[c] = "closing" => at[c] = "closing"
    BY <1>2, AloneStays
  <1>4. sealed \in Nat /\ sealed + 1 \in Nat /\ sealed + 1 # 0
    <2>1. sealed \in Nat
      BY <1>0 DEF DurableTypeOK
    <2> QED
      BY <2>1
  <1>5. /\ results' \in [Books -> Row]
        /\ results'[b].state = s /\ results'[b].ev = sealed + 1 /\ results'[b].says = s
        /\ results'[b].ev # 0
        /\ \A c \in Books : c # b => results'[c] = results[c]
    <2>1. [state |-> s, ev |-> sealed + 1, says |-> s] \in Row
      BY <1>4 DEF Row
    <2> QED
      BY <1>0, <1>2, <1>4, <2>1 DEF DurableTypeOK
  <1>6. todo' \in [Apps -> SUBSET Books] /\ todo'[a] = todo[a] \ {b}
    BY <1>0, <1>2 DEF DurableTypeOK
  <1>7. DurableTypeOK'
    BY <1>0, <1>2, <1>3, <1>4, <1>5, <1>6 DEF DurableTypeOK
  <1>8. Members' = Members \cup {b}
    BY <1>5 DEF Members
  <1>9. Frozen'
    BY <1>0, <1>2, <1>3, <1>8 DEF Frozen
  <1>10. RowsAgree'
    BY <1>0, <1>2, <1>5 DEF RowsAgree
  <1>11. ~overlapped => /\ b \in todo[a] /\ b \in Members
                        /\ \A c \in todo[a] : /\ c \in Members /\ results[c].says # "done"
                                              /\ c \in Resumable => c = b
                        /\ \A c \in Members \ todo[a] :
                              /\ results[c].state \in Outcomes /\ results[c].ev # 0
                              /\ ~erred[a] => results[c].state = "done"
                        /\ s = "failed" => erred[a]
                        /\ erred[a] => \E c \in Members : /\ results[c].state = "failed"
                                                          /\ c \in todo[a] => s = "failed" /\ c = b
    BY <1>0, <1>1, <1>2 DEF Progress
  <1>12. Progress'
    <2> SUFFICES ASSUME ~overlapped
                 PROVE  /\ \A c \in todo'[a] : c \in Members' /\ results'[c].says # "done" /\ c \notin Resumable'
                        /\ \A c \in Members' \ todo'[a] :
                              /\ results'[c].state \in Outcomes /\ results'[c].ev # 0
                              /\ ~erred[a] => results'[c].state = "done"
                        /\ erred[a] => \E c \in Members' : results'[c].state = "failed" /\ c \notin todo'[a]
      BY <1>2, <1>3 DEF Progress
    <2>1. Members' = Members
      BY <1>8, <1>11
    <2>2. \A c \in todo'[a] : results'[c] = results[c]
      BY <1>5, <1>6, <1>11 DEF Members
    <2>3. \A c \in todo'[a] : c \in Members' /\ results'[c].says # "done" /\ c \notin Resumable'
      BY <1>6, <1>11, <2>1, <2>2 DEF Resumable
    <2>4. \A c \in Members' \ todo'[a] : c = b \/ (c \in Members \ todo[a] /\ results'[c] = results[c])
      BY <1>5, <1>6, <2>1 DEF Members
    <2>5. erred[a] => \E c \in Members' : results'[c].state = "failed" /\ c \notin todo'[a]
      <3> SUFFICES ASSUME erred[a] PROVE \E c \in Members' : results'[c].state = "failed" /\ c \notin todo'[a]
        OBVIOUS
      <3>1. PICK c \in Members : results[c].state = "failed" /\ (c \in todo[a] => s = "failed" /\ c = b)
        BY <1>11
      <3>2. c \in Books /\ c \notin todo'[a]
        BY <1>6, <3>1 DEF Members
      <3>3. results'[c].state = "failed"
        BY <1>5, <1>11, <3>1, <3>2
      <3> QED
        BY <2>1, <3>2, <3>3
    <2> QED
      BY <1>5, <1>11, <2>3, <2>4, <2>5
  <1>13. Settled'
    <2> SUFFICES ASSUME ~overlapped PROVE Settled'
      BY <1>2 DEF Settled
    <2>1. status \in {"running", "completed"}
      BY <1>2, AtWorkAlone
    <2>2. ASSUME Incomplete = {} PROVE Incomplete' = {}
      <3>1. ~erred[a]
        BY <1>11, <2>2 DEF Incomplete, Resumable
      <3>2. s = "done"
        BY <1>11, <3>1
      <3>3. Members' = Members
        BY <1>8, <1>11
      <3>4. \A c \in Members : results[c].state = "done" /\ results[c].ev # 0
        BY <2>2 DEF Incomplete, Resumable
      <3>5. \A c \in Members : results'[c].state = "done" /\ results'[c].ev # 0
        BY <1>5, <3>2, <3>4 DEF Members
      <3> QED
        BY <3>3, <3>5 DEF Incomplete, Resumable
    <2> QED
      BY <1>0, <1>2, <1>3, <2>1, <2>2 DEF Settled
  <1> QED
    BY <1>3, <1>7, <1>9, <1>10, <1>12, <1>13 DEF DurableInv

\* The counter of a run whose members all have an outcome and its evidence.
LEMMA AllCounted ==
  ASSUME \A b \in Members : results[b].state \in Outcomes /\ results[b].ev # 0, RowsAgree
  PROVE  /\ Counted(results) = Cardinality({b \in Members : results[b].ev # 0})
         /\ Counted(results) = Cardinality(Members)
  <1>1. {b \in Books : results[b].state \in {"done", "failed"} /\ results[b].ev # 0} = Members
    BY DEF Members, Outcomes
  <1>2. {b \in Members : results[b].ev # 0} = Members
    OBVIOUS
  <1> QED
    BY <1>1, <1>2 DEF Counted

\* A run ends: by the task at work, or by a process that starts. The rows stay.
LEMMA EndKeeps ==
  ASSUME DurableInv, NEW a \in Apps, at[a] \in {"next", "failing", "closing"},
         NEW l \in {"release", "idle"}, Go(a, l), NEW s \in Ended, FinishAs(s),
         s = "failed" => at[a] = "failing",
         s = "completed" => at[a] = "closing" \/ (at[a] = "next" /\ todo[a] = {} /\ ~erred[a]),
         s = "completed_with_errors" => at[a] = "next" /\ todo[a] = {},
         UNCHANGED <<given, todo, current, erred, sealed, overlapped>>
  PROVE  DurableInv'
  <1> USE DEF Outside, Pipeline, Outcomes, Places, Ended
  <1>0. DurableTypeOK /\ Frozen /\ Exclusive /\ RowsAgree /\ Progress /\ Settled
    BY DEF DurableInv
  <1>1. /\ at'[a] = l /\ \A b \in Apps : b # a => at'[b] = at[b]
        /\ at' \in [Apps -> Places]
        /\ status' = s /\ results' = results /\ completed' = Counted(results)
    BY <1>0 DEF DurableTypeOK, Go, FinishAs
  <1>2. /\ Members' = Members /\ Resumable' = Resumable /\ Incomplete' = Incomplete
        /\ Counted(results)' = Counted(results)
    BY <1>1 DEF Members, Resumable, Incomplete, Counted
  <1>3. DurableTypeOK'
    BY <1>0, <1>1 DEF DurableTypeOK
  <1>4. Frozen'
    BY <1>0, <1>1, <1>2 DEF Frozen
  <1>5. AtWork' = AtWork \ {a} /\ \A b \in AtWork' : at'[b] = at[b]
    BY <1>1 DEF AtWork
  <1>6. Exclusive'
    BY <1>0, <1>5 DEF Exclusive
  <1>7. RowsAgree'
    BY <1>0, <1>1 DEF RowsAgree
  <1>8. Progress'
    BY <1>0, <1>1, <1>2 DEF Progress
  <1>9. Settled'
    <2> SUFFICES ASSUME ~overlapped PROVE Settled'
      BY DEF Settled
    <2>1. at[a] = "next" /\ todo[a] = {} =>
            \A b \in Members : /\ results[b].state \in Outcomes /\ results[b].ev # 0
                               /\ ~erred[a] => results[b].state = "done"
      BY <1>0 DEF Progress
    <2>2. s = "completed" => Incomplete = {}
      <3>1. CASE at[a] = "closing"
        BY <1>0, <3>1 DEF Settled
      <3>2. CASE at[a] = "next" /\ todo[a] = {} /\ ~erred[a]
        BY <2>1, <3>2 DEF Incomplete, Resumable
      <3> QED
        BY <3>1, <3>2
    <2>3. s \in {"failed", "completed_with_errors"} => AtWork' = {}
      <3>1. at[a] # "closing" => a \in AtWork
        BY DEF AtWork
      <3> QED
        BY <1>0, <1>5, <3>1 DEF Exclusive
    <2>4. (\E b \in Apps : at'[b] = "closing") => Incomplete = {}
      BY <1>0, <1>1 DEF Settled
    <2> QED
      BY <1>1, <1>2, <2>1, <2>2, <2>3, <2>4 DEF Settled
  <1> QED
    BY <1>3, <1>4, <1>6, <1>7, <1>8, <1>9 DEF DurableInv

LEMMA FinishKeeps ==
  ASSUME DurableInv, NEW a \in Apps, FinishRun(a) \/ FinishFailed(a) \/ CloseRun(a)
  PROVE  DurableInv'
  <1> USE DEF boundVars, Ended
  <1>1. CASE FinishRun(a)
    <2>1. CASE erred[a]
      BY <1>1, <2>1, EndKeeps DEF FinishRun
    <2>2. CASE ~erred[a]
      BY <1>1, <2>2, EndKeeps DEF FinishRun
    <2> QED
      BY <2>1, <2>2
  <1>2. CASE FinishFailed(a)
    BY <1>2, EndKeeps DEF FinishFailed
  <1>3. CASE CloseRun(a)
    BY <1>3, EndKeeps DEF CloseRun
  <1> QED
    BY <1>1, <1>2, <1>3

\* The steps of a task outside the work on the run.
LEMMA OutsideStepsKeep ==
  ASSUME DurableInv, NEW a \in Apps,
         \/ ClaimRead(a) \/ Release(a) \/ RaiseEarly(a) \/ CrashApp(a) \/ StartApp(a)
         \/ ListRuns(a) \/ InspectRun(a)
  PROVE  DurableInv'
  <1> USE DEF Outside
  <1>0. DurableTypeOK /\ Frozen
    BY DEF DurableInv
  <1>1. /\ given \in [Apps -> SUBSET Books] /\ todo \in [Apps -> SUBSET Books]
        /\ erred \in [Apps -> BOOLEAN]
    BY <1>0 DEF DurableTypeOK
  <1>2. CASE ClaimRead(a)
    <2>1. PICK l \in {"idle", "claiming", "recovering"} : Go(a, l)
      BY <1>2 DEF ClaimRead, Abandoned
    <2>2. status # "none"
      BY <1>0, <1>2 DEF ClaimRead, Frozen
    <2> QED
      BY <1>1, <1>2, <2>1, <2>2, OutsideKeeps DEF ClaimRead, boundVars
  <1>3. CASE RaiseEarly(a)
    BY <1>1, <1>3, OutsideKeeps DEF RaiseEarly, Abandoned
  <1>4. CASE Release(a) \/ CrashApp(a)
    <2>1. /\ given' = [given EXCEPT ![a] = {}] /\ todo' = [todo EXCEPT ![a] = {}]
          /\ erred' = [erred EXCEPT ![a] = FALSE] /\ Go(a, "idle")
          /\ UNCHANGED <<status, results, completed, current, sealed, overlapped>>
      BY <1>4 DEF Release, CrashApp, Abandoned, boundVars
    <2>2. /\ given' \in [Apps -> SUBSET Books] /\ todo' \in [Apps -> SUBSET Books]
          /\ erred' \in [Apps -> BOOLEAN]
          /\ \A b \in Apps : b # a => todo'[b] = todo[b] /\ erred'[b] = erred[b]
      BY <1>1, <2>1
    <2> QED
      BY <2>1, <2>2, OutsideKeeps
  <1>5. CASE StartApp(a)
    BY <1>1, <1>5, OutsideKeeps DEF StartApp, rowVars, boundVars
  <1>6. CASE ListRuns(a)
    <2>1. PICK l \in {"inspecting", "idle"} : Go(a, l) /\ (l = "inspecting" => status # "none")
      BY <1>6 DEF ListRuns, Recoverable
    <2> QED
      BY <1>1, <1>6, <2>1, OutsideKeeps DEF ListRuns, rowVars, boundVars
  <1>7. CASE InspectRun(a)
    <2>1. PICK l \in {"closing", "recover"} : Go(a, l) /\ (l = "closing" => Incomplete = {})
      BY <1>7 DEF InspectRun
    <2>2. status # "none"
      BY <1>0, <1>7 DEF InspectRun, Frozen
    <2> QED
      BY <1>1, <1>7, <2>1, <2>2, OutsideKeeps DEF InspectRun, rowVars, boundVars
  <1> QED
    BY <1>2, <1>3, <1>4, <1>5, <1>6, <1>7

LEMMA StillKeeps ==
  ASSUME DurableInv, UNCHANGED <<status, results, completed, at, given, todo, current, erred, sealed, overlapped>>
  PROVE  DurableInv'
  BY DEF DurableInv, DurableTypeOK, Frozen, Exclusive, RowsAgree, Progress, Settled, Members, Resumable,
     Incomplete, AtWork, Counted

LEMMA DurableStep ==
  ASSUME DurableInv, [DurableNext]_durableVars
  PROVE  DurableInv'
  <1>1. ASSUME NEW a \in Apps, Task(a)
        PROVE  DurableInv'
    <2>1. CASE ClaimRead(a) \/ Release(a) \/ ListRuns(a) \/ InspectRun(a)
      BY <2>1, OutsideStepsKeep
    <2>2. CASE ClaimWrite(a) \/ ResetStates(a) \/ Beat(a) \/ BeginRun(a) \/ WorkOn(a)
      BY <2>2, ClaimWriteKeeps, ResetStatesKeeps, BeatKeeps, BeginRunKeeps, WorkOnKeeps
    <2>3. CASE FinishRun(a) \/ FinishFailed(a) \/ CloseRun(a)
      BY <2>3, FinishKeeps
    <2>4. CASE \E s \in Outcomes : Announce(a, s) \/ RecordPackage(a, s)
      BY <2>4, AnnounceKeeps, RecordPackageKeeps
    <2> QED
      BY <1>1, <2>1, <2>2, <2>3, <2>4 DEF Task
  <1>2. ASSUME NEW a \in Apps, StartVerify(a) \/ Raise(a) \/ RaiseEarly(a) \/ CrashApp(a) \/ StartApp(a)
        PROVE  DurableInv'
    BY <1>2, StartVerifyKeeps, RaiseKeeps, OutsideStepsKeep
  <1>3. CASE ExpireLease
    BY <1>3, StillKeeps DEF ExpireLease, taskVars
  <1>4. CASE UNCHANGED durableVars
    BY <1>4, StillKeeps DEF durableVars, rowVars, taskVars, boundVars
  <1> QED
    BY <1>1, <1>2, <1>3, <1>4 DEF DurableNext

\* What every theorem about durable runs rests on.
LEMMA DurableInvariant == DurableSpec => []DurableInv
  BY DurableStarts, DurableStep, PTL DEF DurableSpec

\* Unless two tasks were at work at once, a run that says it is completed has evidence
\* for all its books, whoever completed it, and an exact counter
\* (SQLAuditStore.finish, recover_orphaned_v2_runs).
THEOREM CompletedRunsAreSealed == DurableSpec => []CompletedMeansSealed
  <1>1. ASSUME DurableInv PROVE CompletedMeansSealed
    <2> USE DEF Outcomes
    <2> SUFFICES ASSUME ~overlapped, status \in {"completed", "completed_with_errors"}
                 PROVE  /\ completed = Cardinality({b \in Members : results[b].ev # 0})
                        /\ completed = Cardinality(Members)
                        /\ status = "completed" => \A b \in Members : results[b].state = "done"
      BY DEF CompletedMeansSealed
    <2>1. status = "completed" => \A b \in Members : results[b].state = "done" /\ results[b].ev # 0
      BY <1>1 DEF DurableInv, Settled, Incomplete, Resumable
    <2>2. \A b \in Members : results[b].state \in Outcomes /\ results[b].ev # 0
      BY <1>1, <2>1 DEF DurableInv, Settled
    <2>3. completed = Counted(results)
      BY <1>1 DEF DurableInv, Settled
    <2> QED
      BY <1>1, <2>1, <2>2, <2>3, AllCounted DEF DurableInv
  <1> QED
    BY <1>1, DurableInvariant, PTL

-----------------------------------------------------------------------------
\* A package that says done is left alone, because no pipeline is given its book; the
\* task at work and the process that closes find a run that lacks nothing, or that
\* has not ended.
LEMMA SealedStep ==
  ASSUME DurableInv, DurableNext, ~overlapped'
  PROVE  /\ \A b \in Books :
               results[b].state = "done" /\ results[b].says = "done" => results'[b] = results[b]
         /\ status \in Ended /\ status' # status =>
               status' = "failed" \/ (status' = "completed" /\ Incomplete = {})
  <1> USE DEF Outside, Pipeline, Outcomes, Places, Ended
  <1> DEFINE Stay == /\ \A b \in Books : results[b].state = "done" /\ results[b].says = "done" =>
                                            results'[b] = results[b]
                     /\ status \in Ended /\ status' # status =>
                           status' = "failed" \/ (status' = "completed" /\ Incomplete = {})
  <1>0. DurableTypeOK /\ Frozen /\ RowsAgree /\ Progress /\ Settled
    BY DEF DurableInv
  <1>1. ASSUME NEW a \in Apps,
               \/ ClaimRead(a) \/ ClaimWrite(a) \/ Beat(a) \/ Release(a) \/ Raise(a) \/ RaiseEarly(a)
               \/ CrashApp(a) \/ StartApp(a) \/ ListRuns(a) \/ InspectRun(a)
        PROVE  Stay
    BY <1>1 DEF ClaimRead, ClaimWrite, Beat, Release, Raise, RaiseEarly, CrashApp, StartApp, ListRuns,
       InspectRun, rowVars
  <1>2. ASSUME NEW a \in Apps, ResetStates(a)
        PROVE  Stay
    BY <1>2 DEF ResetStates
  <1>3. ASSUME NEW a \in Apps, BeginRun(a)
        PROVE  Stay
    BY <1>3 DEF BeginRun, Started, NoRow
  <1>4. ASSUME NEW a \in Apps, StartVerify(a)
        PROVE  Stay
    BY <1>4 DEF StartVerify, Started, NoRow
  <1>5. ASSUME NEW a \in Apps, WorkOn(a)
        PROVE  Stay
    <2>1. ~overlapped /\ at[a] = "next" /\ status' = status
      BY <1>5 DEF WorkOn, boundVars
    <2>2. PICK b \in todo[a] : SetState(b, "working")
      BY <1>5 DEF WorkOn
    <2>3. b \in Books /\ results[b].says # "done"
      BY <1>0, <2>1, <2>2 DEF Progress, DurableTypeOK
    <2>4. \A c \in Books : c # b => results'[c] = results[c]
      BY <1>0, <2>2, <2>3, StateSet
    <2> QED
      BY <2>1, <2>3, <2>4
  <1>6. ASSUME NEW a \in Apps, NEW s \in Outcomes, Announce(a, s) \/ RecordPackage(a, s)
        PROVE  Stay
    <2>1. ~overlapped /\ at[a] \in {"book"} \cup Outcomes /\ status' = status
      BY <1>6 DEF Announce, RecordPackage, boundVars
    <2>2. current[a] \in todo[a] /\ results[current[a]].says # "done"
      BY <1>0, <2>1 DEF Progress
    <2>3. \A c \in Books : c # current[a] => results'[c] = results[c]
      BY <1>0, <1>6 DEF DurableTypeOK, Announce, RecordPackage, SetState
    <2> QED
      BY <2>1, <2>2, <2>3
  <1>7. ASSUME NEW a \in Apps, FinishRun(a)
        PROVE  Stay
    <2>1. ~overlapped /\ at[a] = "next" /\ results' = results /\ a \in AtWork
      BY <1>7 DEF FinishRun, FinishAs, boundVars, AtWork
    <2>2. status \in Ended => status = "completed" /\ Incomplete = {}
      BY <1>0, <2>1, AtWorkAlone DEF Settled
    <2>3. Incomplete = {} => ~erred[a]
      BY <1>0, <2>1 DEF Progress, Incomplete, Resumable
    <2> QED
      BY <1>7, <2>1, <2>2, <2>3 DEF FinishRun, FinishAs
  <1>8. ASSUME NEW a \in Apps, FinishFailed(a)
        PROVE  Stay
    BY <1>8 DEF FinishFailed, FinishAs
  <1>9. ASSUME NEW a \in Apps, CloseRun(a)
        PROVE  Stay
    <2>1. ~overlapped /\ Incomplete = {}
      BY <1>0, <1>9 DEF CloseRun, Settled, boundVars
    <2> QED
      BY <1>9, <2>1 DEF CloseRun, FinishAs
  <1>10. ASSUME ExpireLease
        PROVE  Stay
    BY <1>10 DEF ExpireLease
  <1> QED
    BY <1>1, <1>2, <1>3, <1>4, <1>5, <1>6, <1>7, <1>8, <1>9, <1>10 DEF DurableNext, Task

\* Unless two tasks were at work at once, a resumed run replaces no sealed outcome that
\* needs no retry, and the status of an ended run only turns into failed, or into
\* completed when no book lacks anything (SQLAuditStore.resumable_book_keys, finish).
THEOREM SealedOutcomesStay == DurableSpec => SealedStays
  <1>1. ASSUME DurableInv, [DurableNext]_durableVars
        PROVE  [~overlapped' =>
                  /\ \A b \in Books : results[b].state = "done" /\ results[b].says = "done" =>
                                         results'[b] = results[b]
                  /\ status \in Ended /\ status' # status =>
                        status' = "failed" \/ (status' = "completed" /\ Incomplete = {})]_durableVars
    BY <1>1, SealedStep
  <1> QED
    BY <1>1, DurableInvariant, PTL DEF DurableSpec, SealedStays

-----------------------------------------------------------------------------
(* Retention of restore points.                                            *)

Moving    == {"prepared", "quarantining", "quarantined"}
CommandAt == {"idle", "guard", "check", "stage", "publish", "prepared", "move", "rename", "note",
              "quarantined", "delete", "recover"}
Stamped_  == [Points -> Nat]

RetTypeOK ==
    /\ point \in Stamped_ /\ bare \subseteq Points /\ made \in Nat /\ horizon \in Nat
    /\ tx \in [Txs -> {"none", "staging"} \cup Published]
    /\ cands \in [Txs -> Stamped_] /\ payload \in [Txs -> Stamped_]
    /\ moved \in [Txs -> SUBSET Points] /\ root \in [Txs -> BOOLEAN]
    /\ lockedBy \in Commands \cup {"none", "writer"}
    /\ writerAt \in {"down", "idle", "creating"}
    /\ making \in Points \cup {Nothing} /\ (writerAt = "creating" => making \in Points)
    /\ cpc \in [Commands -> CommandAt] /\ sel \in [Commands -> Stamped_]
    /\ ctx \in [Commands -> Txs \cup {Nothing}] /\ left \in [Commands -> SUBSET Points]
    /\ drops \in Nat

\* The guard keeps one command, or the writer, at work.
Guarded ==
    /\ \A c \in Commands : cpc[c] \notin {"idle", "guard"} => lockedBy = c
    /\ writerAt # "down" => lockedBy = "writer"

\* What is selected or journaled was expired, and nothing older takes the place
\* of a point.
Stamps_ ==
    /\ horizon <= made /\ \A p \in Points : point[p] <= made
    /\ \A p \in Points, c \in Commands :
          sel[c][p] <= horizon /\ (point[p] # Nothing => sel[c][p] <= point[p])
    /\ \A p \in Points, t \in Txs :
          cands[t][p] <= horizon /\ (point[p] # Nothing => cands[t][p] <= point[p])

\* A list of candidates was made before the transactions that are pending, so it
\* names nothing newer; and pending transactions name the same point at a path.
Listed ==
    \A t \in Txs, p \in Points : tx[t] \in Unfinished /\ cands[t][p] # Nothing =>
        /\ \A c \in Commands : sel[c][p] <= cands[t][p]
        /\ \A u \in Txs : tx[u] \in Unfinished /\ cands[u][p] # Nothing => cands[u][p] = cands[t][p]

\* What a command knows of its transaction.
Phased ==
    \A c \in Commands :
        /\ cpc[c] \in {"publish", "prepared", "move", "rename", "note", "quarantined", "delete", "recover"}
              => ctx[c] \in Txs
        /\ ctx[c] # Nothing /\ cpc[c] # "publish" => tx[ctx[c]] \in Published
        /\ cpc[c] = "publish" => tx[ctx[c]] \in {"none", "staging"}
        /\ cpc[c] \in {"prepared", "move", "rename", "note"} => tx[ctx[c]] \in Moving
        /\ cpc[c] = "quarantined" => tx[ctx[c]] = "quarantined"
        /\ cpc[c] = "delete" => tx[ctx[c]] = "deleting"

\* The candidates were validated under the guard,
Validated ==
    \A c \in Commands :
        /\ cpc[c] \in {"stage", "publish"} => \A p \in Selected(c) : point[p] = sel[c][p]
        /\ cpc[c] = "publish" =>
              /\ left[c] = Selected(c) /\ cands[ctx[c]] = sel[c] /\ moved[ctx[c]] = {}
              /\ tx[ctx[c]] = "staging" => root[ctx[c]]
        /\ cpc[c] = "rename" => \A p \in Current(c) : point[p] = cands[ctx[c]][p] /\ p \notin bare

\* and what is no longer left was moved and noted.
Worked ==
    \A c \in Commands :
        /\ cpc[c] \in {"prepared", "move", "rename", "note"} =>
              \A p \in Candidates(ctx[c]) \ left[c] : p \in moved[ctx[c]] /\ payload[ctx[c]][p] # Nothing
        /\ cpc[c] = "note" => \A p \in Current(c) : payload[ctx[c]][p] # Nothing

\* The journal and the payload of a transaction agree.
Journaled ==
    \A t \in Txs :
        /\ tx[t] \in {"none", "staging"} => payload[t] = Blank
        /\ tx[t] \in Moving =>
              /\ root[t]
              /\ \A p \in Points :
                    /\ payload[t][p] # Nothing => payload[t][p] = cands[t][p]
                    /\ p \in moved[t] => payload[t][p] # Nothing
        /\ tx[t] = "quarantined" => \A p \in Candidates(t) : payload[t][p] # Nothing /\ p \in moved[t]
        /\ tx[t] = "deleted" => ~root[t]
        /\ \A p \in Candidates(t) :
              payload[t][p] # Nothing \/ tx[t] \in {"deleting", "deleted"} => point[p] # cands[t][p]

\* A candidate that was not moved is in its place, or was replaced, or taken.
Present ==
    \A t \in Txs : tx[t] \in Moving =>
        \A p \in Candidates(t) : \/ payload[t][p] # Nothing \/ There(p)
                                 \/ \E u \in Txs \ {t} : tx[u] \in Published /\ cands[u][p] = cands[t][p]

RetSafe == Guarded /\ Stamps_ /\ Listed /\ Phased /\ Validated /\ Worked /\ Journaled /\ Present
RetInv == RetTypeOK /\ (drops = 0 => RetSafe)

-----------------------------------------------------------------------------
LEMMA BlankStamped == Blank \in Stamped_ /\ \A p \in Points : Blank[p] = Nothing
  BY DEF Blank, Stamped_, Nothing

LEMMA RetentionStarts ==
  ASSUME RetentionInit
  PROVE  RetInv
  <1> USE BlankStamped, RetentionAssumption
  <1>1. RetTypeOK
    BY DEF RetentionInit, RetTypeOK, CommandAt, Nothing, Stamped_
  <1>2. Guarded /\ Stamps_ /\ Listed /\ Phased
    BY DEF RetentionInit, Guarded, Stamps_, Listed, Phased, Unfinished, Nothing
  <1>3. Validated /\ Worked /\ Present
    BY DEF RetentionInit, Validated, Worked, Present, Moving
  <1>4. Journaled
    BY DEF RetentionInit, Journaled, Candidates, Moving
  <1> QED
    BY <1>1, <1>2, <1>3, <1>4 DEF RetInv, RetSafe

\* A command gives up: it forgets everything and its guard.
LEMMA QuitTyped ==
  ASSUME RetTypeOK, NEW c \in Commands, Quit(c)
  PROVE  /\ cpc' \in [Commands -> CommandAt] /\ sel' \in [Commands -> Stamped_]
         /\ ctx' \in [Commands -> Txs \cup {Nothing}] /\ left' \in [Commands -> SUBSET Points]
         /\ lockedBy' \in Commands \cup {"none", "writer"}
         /\ cpc'[c] = "idle" /\ sel'[c] = Blank /\ ctx'[c] = Nothing
         /\ \A d \in Commands : d # c => /\ cpc'[d] = cpc[d] /\ sel'[d] = sel[d] /\ ctx'[d] = ctx[d]
                                         /\ left'[d] = left[d]
         /\ lockedBy # c => lockedBy' = lockedBy
         /\ lockedBy' # lockedBy => lockedBy = c /\ lockedBy' = "none"
  BY BlankStamped DEF RetTypeOK, Quit, CommandAt

LEMMA QuitKeeps ==
  ASSUME RetTypeOK, RetSafe, NEW c \in Commands, Quit(c), UNCHANGED <<diskVars, txVars, writerAt>>
  PROVE  RetSafe'
  <1> USE QuitTyped, BlankStamped
  <1>0. Guarded /\ Stamps_ /\ Listed /\ Phased /\ Validated /\ Worked /\ Journaled /\ Present
    BY DEF RetSafe
  <1>1. /\ UNCHANGED <<point, bare, made, horizon, tx, cands, moved, bound, payload, root, writerAt>>
        /\ \A p \in Points : sel'[c][p] = Nothing
    BY DEF diskVars, txVars
  <1>2. \A t \in Txs : Candidates(t)' = Candidates(t)
    BY <1>1 DEF Candidates
  <1>3. Guarded'
    BY <1>0, <1>1, RetentionAssumption DEF Guarded
  <1>4. Stamps_'
    BY <1>0, <1>1 DEF Stamps_, RetTypeOK, Nothing, Stamped_
  <1>5. Listed'
    BY <1>0, <1>1 DEF Listed, RetTypeOK, Nothing, Stamped_
  <1>6. Phased'
    BY <1>0, <1>1 DEF Phased
  <1>7. Validated'
    <2>1. \A d \in Commands : d # c => Selected(d)' = Selected(d) /\ Current(d)' = Current(d)
      BY <1>1 DEF Selected, Current
    <2> QED
      BY <1>0, <1>1, <2>1 DEF Validated
  <1>8. Worked'
    <2>1. \A d \in Commands : d # c => Current(d)' = Current(d)
      BY <1>1 DEF Current
    <2> QED
      BY <1>0, <1>1, <2>1 DEF Worked, Candidates
  <1>9. Journaled'
    BY <1>0, <1>1, <1>2 DEF Journaled
  <1>10. Present'
    BY <1>0, <1>1, <1>2 DEF Present, There
  <1> QED
    BY <1>3, <1>4, <1>5, <1>6, <1>7, <1>8, <1>9, <1>10 DEF RetSafe

\* Steps that concern neither the journal nor a command.
LEMMA AsideKeeps ==
  ASSUME RetTypeOK, RetSafe, Guarded',
         UNCHANGED <<point, bare, made, horizon, txVars, cpc, mine>>
  PROVE  RetSafe'
  <1>0. Guarded /\ Stamps_ /\ Listed /\ Phased /\ Validated /\ Worked /\ Journaled /\ Present
    BY DEF RetSafe
  <1> USE DEF txVars, mine
  <1>1. Stamps_' /\ Listed' /\ Phased'
    BY <1>0 DEF Stamps_, Listed, Phased
  <1>2. Validated' /\ Worked'
    BY <1>0 DEF Validated, Worked, Selected, Current, Candidates
  <1>3. Journaled' /\ Present'
    BY <1>0 DEF Journaled, Present, Candidates, There
  <1> QED
    BY <1>1, <1>2, <1>3 DEF RetSafe

LEMMA TimeKeeps ==
  ASSUME RetTypeOK, RetSafe, TimePasses
  PROVE  RetSafe'
  <1>0. Guarded /\ Stamps_ /\ Listed /\ Phased /\ Validated /\ Worked /\ Journaled /\ Present
    BY DEF RetSafe
  <1> USE DEF TimePasses, txVars, mine, writer_
  <1>1. Stamps_'
    BY <1>0 DEF Stamps_, RetTypeOK, Stamped_
  <1>2. Guarded' /\ Listed' /\ Phased'
    BY <1>0 DEF Guarded, Listed, Phased
  <1>3. Validated' /\ Worked'
    BY <1>0 DEF Validated, Worked, Selected, Current, Candidates
  <1>4. Journaled' /\ Present'
    BY <1>0 DEF Journaled, Present, Candidates, There
  <1> QED
    BY <1>1, <1>2, <1>3, <1>4 DEF RetSafe

\* While the writer is up no command works on its transaction, so a new restore
\* point meets nothing but journals, and is newer than all they name.
LEMMA WriterKeeps ==
  ASSUME RetTypeOK, RetSafe, FinishPoint \/ \E p \in Points : BeginPoint(p)
  PROVE  RetSafe'
  <1>0. Guarded /\ Stamps_ /\ Listed /\ Phased /\ Validated /\ Worked /\ Journaled /\ Present
    BY DEF RetSafe
  <1>1. /\ writerAt # "down" /\ writerAt' # "down"
        /\ UNCHANGED <<horizon, tx, cands, moved, bound, payload, root, lockedBy, cpc, sel, ctx, left>>
    BY DEF BeginPoint, FinishPoint, txVars, mine
  <1>2. \A c \in Commands : cpc[c] \in {"idle", "guard"}
    BY <1>0, <1>1, RetentionAssumption DEF Guarded
  <1>3. /\ made' \in Nat /\ made <= made' /\ point' \in Stamped_
        /\ \A p \in Points : \/ point'[p] = point[p]
                             \/ point'[p] = made + 1 /\ made' = made + 1
        /\ \A p \in Points : There(p) => There(p)'
    <2>1. CASE FinishPoint
      <3>1. /\ making \in Points /\ point \in Stamped_ /\ made \in Nat /\ made + 1 \in Nat /\ made + 1 # 0
        BY <2>1 DEF FinishPoint, RetTypeOK
      <3>2. /\ point' = [point EXCEPT ![making] = made + 1] /\ made' = made + 1 /\ bare' = bare \ {making}
        BY <2>1 DEF FinishPoint
      <3>3. point'[making] = made + 1 /\ \A p \in Points : p # making => point'[p] = point[p]
        BY <3>1, <3>2 DEF Stamped_
      <3>4. point' \in Stamped_
        BY <3>1, <3>2 DEF Stamped_
      <3>5. made <= made' /\ made' \in Nat
        BY <3>1, <3>2
      <3>6. \A p \in Points : There(p) => There(p)'
        BY <3>1, <3>2, <3>3 DEF There, Nothing
      <3> QED
        BY <3>2, <3>3, <3>4, <3>5, <3>6
    <2>2. CASE \E p \in Points : BeginPoint(p)
      BY <2>2 DEF BeginPoint, There, RetTypeOK, Stamped_
    <2> QED
      BY <2>1, <2>2
  <1>4. /\ made \in Nat /\ horizon \in Nat /\ point \in Stamped_ /\ sel \in [Commands -> Stamped_]
        /\ cands \in [Txs -> Stamped_]
    BY DEF RetTypeOK
  <1>5. Guarded'
    BY <1>0, <1>1 DEF Guarded
  <1>6. Stamps_'
    <2>1. horizon' <= made' /\ \A p \in Points : point'[p] <= made'
      BY <1>0, <1>1, <1>3, <1>4 DEF Stamps_, Stamped_
    <2>2. \A p \in Points, c \in Commands :
             sel[c][p] <= horizon /\ (point'[p] # Nothing => sel[c][p] <= point'[p])
      BY <1>0, <1>3, <1>4 DEF Stamps_, Stamped_
    <2>3. \A p \in Points, t \in Txs :
             cands[t][p] <= horizon /\ (point'[p] # Nothing => cands[t][p] <= point'[p])
      BY <1>0, <1>3, <1>4 DEF Stamps_, Stamped_
    <2> QED
      BY <1>1, <2>1, <2>2, <2>3 DEF Stamps_
  <1>7. Listed' /\ Phased'
    BY <1>0, <1>1 DEF Listed, Phased
  <1>8. Validated' /\ Worked'
    BY <1>1, <1>2 DEF Validated, Worked
  <1>9. Journaled'
    <2>1. \A t \in Txs, p \in Points : point'[p] = cands[t][p] => point[p] = cands[t][p]
      BY <1>0, <1>3, <1>4 DEF Stamps_, Stamped_
    <2> QED
      BY <1>0, <1>1, <2>1 DEF Journaled, Candidates
  <1>10. Present'
    BY <1>0, <1>1, <1>3 DEF Present, Candidates
  <1> QED
    BY <1>5, <1>6, <1>7, <1>8, <1>9, <1>10 DEF RetSafe

\* A command with its guard is alone.
LEMMA GuardAlone ==
  ASSUME RetTypeOK, RetSafe, NEW c \in Commands, cpc[c] \notin {"idle", "guard"}
  PROVE  /\ lockedBy = c /\ writerAt = "down"
         /\ \A d \in Commands : d # c => cpc[d] \in {"idle", "guard"}
  BY RetentionAssumption DEF RetSafe, Guarded

\* Discarding abandoned staging concerns nothing that was published.
LEMMA PreviewKeeps ==
  ASSUME RetTypeOK, RetSafe, NEW c \in Commands, Preview(c)
  PROVE  RetSafe'
  <1>0. Guarded /\ Stamps_ /\ Listed /\ Phased /\ Validated /\ Worked /\ Journaled /\ Present
    BY DEF RetSafe
  <1>1. /\ cpc[c] = "idle"
        /\ UNCHANGED <<point, bare, made, horizon, cands, moved, bound, payload, ctx, left, lockedBy, writerAt>>
    BY DEF Preview, Elsewhere, diskVars, writer_
  <1>2. \A t \in Txs : /\ tx[t] = "staging" => tx'[t] = "none"
                       /\ tx[t] # "staging" => tx'[t] = tx[t] /\ root'[t] = root[t]
    BY DEF Preview, RetTypeOK
  <1>3. \A d \in Commands : d # c => cpc'[d] = cpc[d] /\ sel'[d] = sel[d]
    BY DEF Preview, RetTypeOK
  <1>4. \/ cpc' = cpc /\ sel' = sel
        \/ /\ cpc'[c] = "guard" /\ sel'[c] = Expired
           /\ NonePending
    BY DEF Preview, RetTypeOK
  <1>5. cpc'[c] \in {"idle", "guard"}
    BY <1>1, <1>4
  <1>6. \A t \in Txs : Candidates(t)' = Candidates(t)
    BY <1>1 DEF Candidates
  <1>7. \A t \in Txs : tx'[t] \in Published <=> tx[t] \in Published
    BY <1>2 DEF Published, Unfinished
  <1>8. \A p \in Points : There(p)' <=> There(p)
    BY <1>1 DEF There
  <1>9. Guarded'
    BY <1>0, <1>1, <1>3, <1>5 DEF Guarded
  <1>10. Stamps_'
    <2>1. \A p \in Points : /\ sel'[c][p] <= horizon
                            /\ point[p] # Nothing => sel'[c][p] <= point[p]
      <3>1. \A p \in Points : (Expired[p] = point[p] /\ point[p] <= horizon) \/ Expired[p] = Nothing
        BY DEF Expired, RetTypeOK, Stamped_
      <3>2. horizon \in Nat /\ point \in Stamped_
        BY DEF RetTypeOK
      <3> QED
        BY <1>0, <1>4, <3>1, <3>2 DEF Stamps_, Nothing, Stamped_
    <2> QED
      BY <1>0, <1>1, <1>3, <2>1 DEF Stamps_
  <1>11. Listed'
    <2>1. \A t \in Txs : tx'[t] \in Unfinished => tx[t] \in Unfinished
      BY <1>2 DEF Unfinished
    <2>2. CASE sel' = sel
      BY <1>0, <1>1, <2>1, <2>2 DEF Listed
    <2>3. CASE NonePending
      <3>1. \A t \in Txs : tx[t] \notin Unfinished
        BY <2>3 DEF NonePending, Unfinished, Published
      <3> QED
        BY <2>1, <3>1 DEF Listed
    <2> QED
      BY <1>4, <2>2, <2>3
  <1>12. Phased'
    BY <1>0, <1>1, <1>2, <1>3, <1>5, <1>7 DEF Phased, RetTypeOK, Moving
  <1>13. Validated'
    <2>1. \A d \in Commands : d # c => Selected(d)' = Selected(d) /\ Current(d)' = Current(d)
      BY <1>1, <1>3 DEF Selected, Current
    <2>2. \A d \in Commands : cpc[d] = "publish" => ctx[d] \in Txs
      BY <1>0 DEF Phased
    <2>3. ASSUME NEW d \in Commands, d # c
          PROVE  /\ cpc[d] = "publish" /\ tx'[ctx[d]] = "staging" => tx[ctx[d]] = "staging" /\ root'[ctx[d]]
      BY <1>0, <1>2, <2>2 DEF Validated
    <2> QED
      BY <1>0, <1>1, <1>3, <1>5, <2>1, <2>3 DEF Validated
  <1>14. Worked'
    <2>1. \A d \in Commands : Current(d)' = Current(d)
      BY <1>1 DEF Current
    <2> QED
      BY <1>0, <1>1, <1>3, <1>5, <2>1 DEF Worked, Candidates
  <1>15. Journaled'
    BY <1>0, <1>1, <1>2, <1>6 DEF Journaled, Moving
  <1>16. Present'
    <2>1. \A t \in Txs : tx'[t] \in Moving => tx[t] \in Moving
      BY <1>2 DEF Moving
    <2> SUFFICES ASSUME NEW t \in Txs, tx[t] \in Moving, NEW p \in Candidates(t)
                 PROVE  \/ payload[t][p] # Nothing \/ There(p)
                        \/ \E u \in Txs \ {t} : tx'[u] \in Published /\ cands[u][p] = cands[t][p]
      BY <1>1, <1>6, <1>8, <2>1 DEF Present, Candidates
    <2> QED
      BY <1>0, <1>7 DEF Present
  <1> QED
    BY <1>9, <1>10, <1>11, <1>12, <1>13, <1>14, <1>15, <1>16 DEF RetSafe

\* A command without the guard chooses a transaction, or gets the guard.
LEMMA EnterKeeps ==
  ASSUME RetTypeOK, RetSafe, NEW c \in Commands, cpc[c] \in {"idle", "guard"},
         NEW l \in {"guard", "check", "recover"}, cpc' = [cpc EXCEPT ![c] = l],
         NEW x \in Txs \cup {Nothing}, ctx' = [ctx EXCEPT ![c] = x],
         x # Nothing => tx[x] \in Published, l = "recover" => x \in Txs,
         \/ l = "guard" /\ lockedBy' = lockedBy
         \/ lockedBy = "none" /\ lockedBy' = c,
         UNCHANGED <<diskVars, txVars, writerAt, sel, left>>
  PROVE  RetSafe'
  <1>0. Guarded /\ Stamps_ /\ Listed /\ Phased /\ Validated /\ Worked /\ Journaled /\ Present
    BY DEF RetSafe
  <1> USE DEF diskVars, txVars
  <1>1. /\ cpc'[c] = l /\ ctx'[c] = x
        /\ \A d \in Commands : d # c => cpc'[d] = cpc[d] /\ ctx'[d] = ctx[d]
    BY DEF RetTypeOK
  <1>2. Guarded'
    BY <1>0, <1>1, RetentionAssumption DEF Guarded
  <1>3. Stamps_' /\ Listed'
    BY <1>0 DEF Stamps_, Listed
  <1>4. Phased'
    BY <1>0, <1>1 DEF Phased
  <1>5. \A d \in Commands : Selected(d)' = Selected(d) /\ Current(d)' = Current(d)
    BY DEF Selected, Current
  <1>6. Validated'
    BY <1>0, <1>1, <1>5 DEF Validated
  <1>7. Worked'
    BY <1>0, <1>1, <1>5 DEF Worked, Candidates
  <1>8. Journaled' /\ Present'
    BY <1>0 DEF Journaled, Present, Candidates, There
  <1> QED
    BY <1>2, <1>3, <1>4, <1>6, <1>7, <1>8 DEF RetSafe

LEMMA ChooseRecoveryKeeps ==
  ASSUME RetTypeOK, RetSafe, NEW c \in Commands, NEW t \in Txs, ChooseRecovery(c, t)
  PROVE  RetSafe'
  BY EnterKeeps DEF ChooseRecovery, Elsewhere, writer_

LEMMA AcquireGuardKeeps ==
  ASSUME RetTypeOK, RetSafe, NEW c \in Commands, AcquireGuard(c)
  PROVE  RetSafe'
  <1>1. UNCHANGED <<diskVars, txVars, writerAt>> /\ cpc[c] = "guard"
    BY DEF AcquireGuard, Elsewhere, writer_
  <1>2. CASE Quit(c)
    BY <1>1, <1>2, QuitKeeps
  <1>3. CASE lockedBy = "none" /\ ~queued /\ ~beat
    <2>1. /\ lockedBy' = c /\ UNCHANGED <<sel, ctx, left>>
          /\ cpc' = [cpc EXCEPT ![c] = IF ctx[c] = Nothing THEN "check" ELSE "recover"]
      BY <1>3 DEF AcquireGuard, mine
    <2>2. /\ ctx[c] \in Txs \cup {Nothing} /\ ctx' = [ctx EXCEPT ![c] = ctx[c]]
      BY <2>1 DEF RetTypeOK
    <2>3. ctx[c] # Nothing => ctx[c] \in Txs /\ tx[ctx[c]] \in Published
      BY <1>1, <2>2 DEF RetSafe, Phased
    <2>4. CASE ctx[c] = Nothing
      BY <1>1, <1>3, <2>1, <2>2, <2>4, EnterKeeps
    <2>5. CASE ctx[c] # Nothing
      BY <1>1, <1>3, <2>1, <2>2, <2>3, <2>5, EnterKeeps
    <2> QED
      BY <2>4, <2>5
  <1> QED
    BY <1>2, <1>3 DEF AcquireGuard

\* A command with the guard goes on and changes nothing but what it remembers.
LEMMA OwnMove ==
  ASSUME RetTypeOK, RetSafe, NEW c \in Commands, cpc[c] \notin {"idle", "guard", "publish"},
         NEW l \in {"stage", "move", "rename", "note", "delete"}, cpc' = [cpc EXCEPT ![c] = l],
         NEW x \in SUBSET Points, left' = [left EXCEPT ![c] = x],
         UNCHANGED <<diskVars, txVars, writerAt, lockedBy, sel, ctx>>,
         l # "stage" => ctx[c] \in Txs,
         l = "stage" => \A p \in Selected(c) : point[p] = sel[c][p],
         l = "delete" => tx[ctx[c]] = "deleting",
         l \in {"move", "rename", "note"} =>
            /\ tx[ctx[c]] \in Moving
            /\ \A p \in Candidates(ctx[c]) \ x : p \in moved[ctx[c]] /\ payload[ctx[c]][p] # Nothing,
         l = "rename" => \A p \in x : (\A q \in x : p <= q) => point[p] = cands[ctx[c]][p] /\ p \notin bare,
         l = "note" => \A p \in x : (\A q \in x : p <= q) => payload[ctx[c]][p] # Nothing
  PROVE  RetSafe'
  <1>0. Guarded /\ Stamps_ /\ Listed /\ Phased /\ Validated /\ Worked /\ Journaled /\ Present
    BY DEF RetSafe
  <1> USE DEF diskVars, txVars
  <1>1. /\ cpc'[c] = l /\ left'[c] = x
        /\ \A d \in Commands : d # c => cpc'[d] = cpc[d] /\ left'[d] = left[d]
    BY DEF RetTypeOK
  <1>2. \A d \in Commands : d # c => cpc'[d] \in {"idle", "guard"}
    BY <1>1, GuardAlone
  <1>3. Guarded'
    BY <1>0, <1>1 DEF Guarded
  <1>4. Stamps_' /\ Listed'
    BY <1>0 DEF Stamps_, Listed
  <1>5. Phased'
    BY <1>0, <1>1 DEF Phased
  <1>6. Validated'
    BY <1>1, <1>2 DEF Validated, Current, Selected
  <1>7. Worked'
    BY <1>1, <1>2 DEF Worked, Candidates, Current
  <1>8. Journaled' /\ Present'
    BY <1>0 DEF Journaled, Present, Candidates, There
  <1> QED
    BY <1>3, <1>4, <1>5, <1>6, <1>7, <1>8 DEF RetSafe

LEMMA CheckCandidatesKeeps ==
  ASSUME RetTypeOK, RetSafe, NEW c \in Commands, CheckCandidates(c)
  PROVE  RetSafe'
  <1>1. UNCHANGED <<diskVars, txVars, writerAt>> /\ cpc[c] = "check"
    BY DEF CheckCandidates, Elsewhere, writer_
  <1>2. CASE Quit(c)
    BY <1>1, <1>2, QuitKeeps
  <1>3. CASE To(c, "stage") /\ \A p \in Selected(c) : Identical(p, sel[c][p])
    <2>1. left[c] \in SUBSET Points /\ left' = [left EXCEPT ![c] = left[c]]
      BY <1>3 DEF RetTypeOK, To, mine
    <2> QED
      BY <1>1, <1>3, <2>1, OwnMove DEF To, mine, Identical
  <1> QED
    BY <1>2, <1>3 DEF CheckCandidates

LEMMA ValidateMoveKeeps ==
  ASSUME RetTypeOK, RetSafe, NEW c \in Commands, ValidateMove(c)
  PROVE  RetSafe'
  <1>1. UNCHANGED <<diskVars, txVars, writerAt>> /\ cpc[c] = "move"
    BY DEF ValidateMove, Elsewhere, writer_
  <1>2. CASE Quit(c)
    BY <1>1, <1>2, QuitKeeps
  <1>3. CASE ~Quit(c)
    <2>1. PICK p \in Current(c) :
             \/ payload[ctx[c]][p] # Nothing /\ To(c, "note")
             \/ point[p] = cands[ctx[c]][p] /\ p \notin bare /\ To(c, "rename")
      BY <1>3 DEF ValidateMove, Identical
    <2>2. /\ left[c] \in SUBSET Points /\ left' = [left EXCEPT ![c] = left[c]]
          /\ UNCHANGED <<lockedBy, sel, ctx>>
      BY <2>1 DEF RetTypeOK, To, mine
    <2>3. \A q \in left[c] : (\A r \in left[c] : q <= r) => q = p
      BY <2>1, <2>2 DEF Current, Points
    <2>4. /\ ctx[c] \in Txs /\ tx[ctx[c]] \in Moving
          /\ \A q \in Candidates(ctx[c]) \ left[c] : q \in moved[ctx[c]] /\ payload[ctx[c]][q] # Nothing
      BY <1>1 DEF RetSafe, Phased, Worked
    <2>5. CASE payload[ctx[c]][p] # Nothing /\ To(c, "note")
      <3>1. cpc' = [cpc EXCEPT ![c] = "note"]
        BY <2>5 DEF To
      <3>2. \A q \in left[c] : (\A r \in left[c] : q <= r) => payload[ctx[c]][q] # Nothing
        BY <2>3, <2>5
      <3> QED
        BY <1>1, <2>2, <2>4, <3>1, <3>2, OwnMove
    <2>6. CASE point[p] = cands[ctx[c]][p] /\ p \notin bare /\ To(c, "rename")
      <3>1. cpc' = [cpc EXCEPT ![c] = "rename"]
        BY <2>6 DEF To
      <3>2. \A q \in left[c] : (\A r \in left[c] : q <= r) => point[q] = cands[ctx[c]][q] /\ q \notin bare
        BY <2>3, <2>6
      <3> QED
        BY <1>1, <2>2, <2>4, <3>1, <3>2, OwnMove
    <2> QED
      BY <2>1, <2>5, <2>6
  <1> QED
    BY <1>2, <1>3

\* A recovery starts from what the preflight found.
LEMMA RecoverKeeps ==
  ASSUME RetTypeOK, RetSafe, NEW c \in Commands, Recover(c)
  PROVE  RetSafe'
  <1>1. UNCHANGED <<diskVars, txVars, writerAt>> /\ cpc[c] = "recover"
    BY DEF Recover, Elsewhere, writer_
  <1>2. CASE Quit(c)
    BY <1>1, <1>2, QuitKeeps
  <1>3. CASE ~Quit(c)
    <2>1. /\ tx[ctx[c]] # "deleted"
          /\ cpc' = [cpc EXCEPT ![c] = IF tx[ctx[c]] = "deleting" THEN "delete" ELSE "move"]
          /\ left' = [left EXCEPT ![c] = Candidates(ctx[c])]
          /\ UNCHANGED <<sel, ctx, lockedBy>>
      BY <1>3 DEF Recover
    <2>2. ctx[c] \in Txs
      BY <1>1 DEF RetSafe, Phased
    <2>3. ctx[c] # Nothing
      BY <2>2 DEF Txs, Nothing
    <2>4. tx[ctx[c]] \in Moving \cup {"deleting"}
      BY <1>1, <2>1, <2>3 DEF RetSafe, Phased, Published, Unfinished, Moving
    <2>5. Candidates(ctx[c]) \in SUBSET Points
      BY DEF Candidates
    <2>6. CASE tx[ctx[c]] = "deleting"
      <3>1. cpc' = [cpc EXCEPT ![c] = "delete"]
        BY <2>1, <2>6
      <3> QED
        BY <1>1, <2>1, <2>2, <2>5, <2>6, <3>1, OwnMove
    <2>7. CASE tx[ctx[c]] # "deleting"
      <3>1. cpc' = [cpc EXCEPT ![c] = "move"]
        BY <2>1, <2>7
      <3>2. tx[ctx[c]] \in Moving
        BY <2>4, <2>7
      <3> QED
        BY <1>1, <2>1, <2>2, <2>5, <3>1, <3>2, OwnMove
    <2> QED
      BY <2>6, <2>7
  <1> QED
    BY <1>2, <1>3

\* The journal of an unfinished transaction gets its next state.
LEMMA JournalStep ==
  ASSUME RetTypeOK, RetSafe, NEW t \in Txs, NEW s \in Published, tx' = [tx EXCEPT ![t] = s],
         UNCHANGED <<point, bare, cands, moved, payload, root>>,
         \A d \in Commands, p \in Points : sel'[d][p] \in {sel[d][p], Nothing},
         tx[t] \in Unfinished, s \in Moving => tx[t] \in Moving,
         s = "quarantined" => \A p \in Candidates(t) : payload[t][p] # Nothing /\ p \in moved[t],
         s \in {"deleting", "deleted"} => tx[t] \in {"quarantined", "deleting"},
         s = "deleted" => ~root[t]
  PROVE  Listed' /\ Journaled' /\ Present'
  <1>0. Listed /\ Journaled /\ Present
    BY DEF RetSafe
  <1>1. tx'[t] = s /\ \A u \in Txs : u # t => tx'[u] = tx[u]
    BY DEF RetTypeOK
  <1>2. \A u \in Txs : /\ Candidates(u)' = Candidates(u)
                       /\ tx'[u] \in Unfinished => tx[u] \in Unfinished
                       /\ tx[u] \in Published => tx'[u] \in Published
                       /\ tx'[u] \in Moving => tx[u] \in Moving
    BY <1>1 DEF Candidates
  <1>3. Listed'
    <2>1. \A d \in Commands, p \in Points, u \in Txs :
             sel[d][p] <= cands[u][p] => sel'[d][p] <= cands[u][p]
      <3>1. \A p \in Points, u \in Txs : cands[u][p] \in Nat /\ Nothing <= cands[u][p]
        BY DEF RetTypeOK, Stamped_, Nothing
      <3> QED
        BY <3>1
    <2> QED
      BY <1>0, <1>2, <2>1 DEF Listed
  <1>4. Journaled'
    <2> SUFFICES ASSUME NEW u \in Txs
                 PROVE  /\ tx'[u] \in {"none", "staging"} => payload[u] = Blank
                        /\ tx'[u] \in Moving =>
                              /\ root[u]
                              /\ \A p \in Points :
                                    /\ payload[u][p] # Nothing => payload[u][p] = cands[u][p]
                                    /\ p \in moved[u] => payload[u][p] # Nothing
                        /\ tx'[u] = "quarantined" =>
                              \A p \in Candidates(u) : payload[u][p] # Nothing /\ p \in moved[u]
                        /\ tx'[u] = "deleted" => ~root[u]
                        /\ \A p \in Candidates(u) :
                              payload[u][p] # Nothing \/ tx'[u] \in {"deleting", "deleted"} =>
                                 point[p] # cands[u][p]
      BY <1>2 DEF Journaled
    <2>1. CASE u # t
      BY <1>0, <1>1, <2>1 DEF Journaled
    <2>2. CASE u = t
      BY <1>0, <1>1, <2>2 DEF Journaled, Published, Unfinished, Moving
    <2> QED
      BY <2>1, <2>2
  <1>5. Present'
    BY <1>0, <1>2 DEF Present, There
  <1> QED
    BY <1>3, <1>4, <1>5

LEMMA AdvanceKeeps ==
  ASSUME RetTypeOK, RetSafe, NEW c \in Commands, Advance(c)
  PROVE  RetSafe'
  <1>0. Guarded /\ Stamps_ /\ Listed /\ Phased /\ Validated /\ Worked /\ Journaled /\ Present
    BY DEF RetSafe
  <1>1. PICK s \in {"quarantining", "quarantined", "deleting"}, l \in {"move", "quarantined", "delete"} :
          /\ Journal(c, s) /\ To(c, l)
          /\ \/ cpc[c] = "prepared" /\ s = "quarantining" /\ l = "move"
             \/ cpc[c] = "move" /\ left[c] = {} /\ s = "quarantined" /\ l = "quarantined"
             \/ cpc[c] = "quarantined" /\ s = "deleting" /\ l = "delete"
    BY DEF Advance
  <1>2. PICK t \in Txs : t = ctx[c]
    BY <1>0, <1>1 DEF Phased
  <1>3. /\ tx' = [tx EXCEPT ![t] = s]
        /\ UNCHANGED <<point, bare, made, horizon, cands, moved, bound, payload, root, lockedBy, sel,
                       ctx, left, writerAt>>
        /\ cpc' = [cpc EXCEPT ![c] = l]
    BY <1>1, <1>2 DEF Advance, Journal, To, mine, Elsewhere, diskVars, writer_
  <1>4. /\ cpc'[c] = l /\ \A d \in Commands : d # c => cpc'[d] = cpc[d]
        /\ tx'[t] = s /\ \A u \in Txs : u # t => tx'[u] = tx[u]
    BY <1>3 DEF RetTypeOK
  <1>5. \A d \in Commands : d # c => cpc[d] \in {"idle", "guard"}
    BY <1>1, GuardAlone
  <1>6. tx[t] \in Moving
    BY <1>0, <1>1, <1>2 DEF Phased, Moving
  <1>7. s = "quarantined" => \A p \in Candidates(t) : payload[t][p] # Nothing /\ p \in moved[t]
    BY <1>0, <1>1, <1>2 DEF Worked
  <1>8. s = "deleting" => tx[t] = "quarantined"
    BY <1>0, <1>1, <1>2 DEF Phased
  <1>9. Listed' /\ Journaled' /\ Present'
    <2>1. s \in Published /\ tx[t] \in Unfinished
      BY <1>6 DEF Published, Unfinished, Moving
    <2>2. \A d \in Commands, p \in Points : sel'[d][p] \in {sel[d][p], Nothing}
      BY <1>3
    <2>3. s \in {"deleting", "deleted"} => s = "deleting"
      OBVIOUS
    <2> QED
      BY <1>3, <1>6, <1>7, <1>8, <2>1, <2>2, <2>3, JournalStep
  <1>10. Guarded' /\ Stamps_'
    BY <1>0, <1>1, <1>3, <1>4 DEF Guarded, Stamps_
  <1>11. Phased'
    <2>1. \A u \in Txs : tx[u] \in Published => tx'[u] \in Published
      BY <1>4 DEF Published, Unfinished
    <2>2. \A d \in Commands : ctx[d] \in Txs \cup {Nothing}
      BY DEF RetTypeOK
    <2>3. s = "quarantining" => l = "move"
      BY <1>1
    <2>4. /\ l = "move" => s \in Moving
          /\ l = "quarantined" => s = "quarantined"
          /\ l = "delete" => s = "deleting"
      BY <1>1 DEF Moving
    <2>5. s \in Published
      BY DEF Published, Unfinished
    <2> SUFFICES ASSUME NEW d \in Commands
                 PROVE  /\ cpc'[d] \in {"publish", "prepared", "move", "rename", "note", "quarantined",
                                        "delete", "recover"} => ctx[d] \in Txs
                        /\ ctx[d] # Nothing /\ cpc'[d] # "publish" => tx'[ctx[d]] \in Published
                        /\ cpc'[d] = "publish" => tx'[ctx[d]] \in {"none", "staging"}
                        /\ cpc'[d] \in {"prepared", "move", "rename", "note"} => tx'[ctx[d]] \in Moving
                        /\ cpc'[d] = "quarantined" => tx'[ctx[d]] = "quarantined"
                        /\ cpc'[d] = "delete" => tx'[ctx[d]] = "deleting"
      BY <1>3 DEF Phased
    <2>6. CASE d = c
      BY <1>2, <1>4, <2>4, <2>5, <2>6
    <2>7. CASE d # c
      <3>1. cpc'[d] \in {"idle", "guard"} /\ cpc[d] # "publish"
        BY <1>4, <1>5, <2>7
      <3> QED
        BY <1>0, <2>1, <2>2, <3>1 DEF Phased
    <2> QED
      BY <2>6, <2>7
  <1>12. Validated'
    <2>1. \A d \in Commands : cpc'[d] \notin {"stage", "publish", "rename"}
      BY <1>4, <1>5
    <2> QED
      BY <2>1 DEF Validated
  <1>13. Worked'
    <2>1. \A d \in Commands : cpc'[d] \in {"prepared", "move", "rename", "note"} =>
                                 d = c /\ cpc'[d] = "move" /\ cpc[c] = "prepared"
      BY <1>1, <1>4, <1>5
    <2> QED
      BY <1>0, <1>3, <2>1 DEF Worked, Candidates
  <1> QED
    BY <1>9, <1>10, <1>11, <1>12, <1>13 DEF RetSafe

LEMMA TombstoneKeeps ==
  ASSUME RetTypeOK, RetSafe, NEW c \in Commands, Tombstone(c)
  PROVE  RetSafe'
  <1>0. Guarded /\ Stamps_ /\ Listed /\ Phased /\ Validated /\ Worked /\ Journaled /\ Present
    BY DEF RetSafe
  <1>1. PICK t \in Txs : t = ctx[c] /\ tx[t] = "deleting"
    BY <1>0 DEF Phased, Tombstone
  <1>2. /\ tx' = [tx EXCEPT ![t] = "deleted"] /\ ~root[t] /\ Quit(c)
        /\ UNCHANGED <<point, bare, made, horizon, cands, moved, bound, payload, root, writerAt>>
        /\ cpc[c] = "delete"
    BY <1>1 DEF Tombstone, Journal, Elsewhere, diskVars, writer_
  <1>3. tx'[t] = "deleted" /\ \A u \in Txs : u # t => tx'[u] = tx[u]
    BY <1>2 DEF RetTypeOK
  <1>4. /\ cpc'[c] = "idle" /\ sel'[c] = Blank /\ ctx'[c] = Nothing
        /\ \A d \in Commands : d # c => /\ cpc'[d] = cpc[d] /\ sel'[d] = sel[d] /\ ctx'[d] = ctx[d]
        /\ lockedBy' # lockedBy => lockedBy = c
    BY <1>2, QuitTyped
  <1>5. \A d \in Commands : cpc'[d] \in {"idle", "guard"}
    BY <1>2, <1>4, GuardAlone
  <1>6. \A d \in Commands, p \in Points : sel'[d][p] \in {sel[d][p], Nothing}
    BY <1>4, BlankStamped
  <1>7. Listed' /\ Journaled' /\ Present'
    <2>1. "deleted" \in Published /\ tx[t] \in Unfinished /\ "deleted" \notin Moving
      BY <1>1 DEF Published, Unfinished, Moving
    <2> QED
      BY <1>1, <1>2, <1>6, <2>1, JournalStep
  <1>8. Guarded'
    <2>1. writerAt = "down"
      BY <1>2, GuardAlone
    <2> QED
      BY <1>2, <1>5, <2>1 DEF Guarded
  <1>9. Stamps_'
    <2>1. horizon \in Nat /\ Nothing <= horizon /\ \A p \in Points : Nothing <= point[p]
      BY DEF RetTypeOK, Stamped_, Nothing
    <2>2. \A d \in Commands, p \in Points :
             sel'[d][p] <= horizon /\ (point[p] # Nothing => sel'[d][p] <= point[p])
      BY <1>0, <1>6, <2>1 DEF Stamps_
    <2> QED
      BY <1>0, <1>2, <2>2 DEF Stamps_
  <1>10. Phased'
    <2>1. \A u \in Txs : tx[u] \in Published => tx'[u] \in Published
      BY <1>3 DEF Published
    <2>2. \A d \in Commands : d # c => cpc[d] # "publish" /\ ctx[d] \in Txs \cup {Nothing}
      BY <1>4, <1>5 DEF RetTypeOK
    <2> QED
      BY <1>0, <1>4, <1>5, <2>1, <2>2 DEF Phased
  <1>11. Validated' /\ Worked'
    BY <1>5 DEF Validated, Worked
  <1> QED
    BY <1>7, <1>8, <1>9, <1>10, <1>11 DEF RetSafe

\* A transaction is built from what was validated.
LEMMA StageKeeps ==
  ASSUME RetTypeOK, RetSafe, NEW c \in Commands, Stage(c)
  PROVE  RetSafe'
  <1>0. Guarded /\ Stamps_ /\ Listed /\ Phased /\ Validated /\ Worked /\ Journaled /\ Present
    BY DEF RetSafe
  <1>1. PICK t \in Txs :
          /\ tx[t] = "none" /\ tx' = [tx EXCEPT ![t] = "staging"]
          /\ cands' = [cands EXCEPT ![t] = sel[c]] /\ moved' = [moved EXCEPT ![t] = {}]
          /\ root' = [root EXCEPT ![t] = TRUE] /\ ctx' = [ctx EXCEPT ![c] = t]
    BY DEF Stage
  <1>2. /\ cpc[c] = "stage" /\ cpc' = [cpc EXCEPT ![c] = "publish"]
        /\ left' = [left EXCEPT ![c] = Selected(c)]
        /\ UNCHANGED <<point, bare, made, horizon, payload, sel, lockedBy, writerAt>>
    BY DEF Stage, Elsewhere, diskVars, writer_
  <1>3. /\ cpc'[c] = "publish" /\ ctx'[c] = t /\ left'[c] = Selected(c)
        /\ \A d \in Commands : d # c => cpc'[d] = cpc[d] /\ ctx'[d] = ctx[d]
        /\ tx'[t] = "staging" /\ cands'[t] = sel[c] /\ moved'[t] = {} /\ root'[t] = TRUE
        /\ \A u \in Txs : u # t => /\ tx'[u] = tx[u] /\ cands'[u] = cands[u] /\ moved'[u] = moved[u]
                                   /\ root'[u] = root[u]
    BY <1>1, <1>2 DEF RetTypeOK
  <1>4. \A d \in Commands : d # c => cpc'[d] \in {"idle", "guard"}
    BY <1>2, <1>3, GuardAlone
  <1>5. \A u \in Txs : tx'[u] \in Published => u # t
    BY <1>3 DEF Published, Unfinished
  <1>6. \A p \in Selected(c) : point[p] = sel[c][p]
    BY <1>0, <1>2 DEF Validated
  <1>7. t # Nothing
    BY DEF Txs, Nothing
  <1>8. Guarded'
    BY <1>0, <1>2, <1>3 DEF Guarded
  <1>9. Stamps_'
    <2>1. ASSUME NEW u \in Txs, NEW p \in Points
          PROVE  cands'[u][p] <= horizon /\ (point[p] # Nothing => cands'[u][p] <= point[p])
      <3>1. CASE u = t
        BY <1>0, <1>3, <3>1 DEF Stamps_
      <3>2. CASE u # t
        BY <1>0, <1>3, <3>2 DEF Stamps_
      <3> QED
        BY <3>1, <3>2
    <2> QED
      BY <1>0, <1>2, <2>1 DEF Stamps_
  <1>10. Listed'
    <2>1. \A u \in Txs : tx'[u] \in Unfinished => tx[u] \in Unfinished /\ cands'[u] = cands[u]
      BY <1>3, <1>5 DEF Published
    <2> QED
      BY <1>0, <1>2, <2>1 DEF Listed
  <1>11. Phased'
    <2>1. \A d \in Commands : d # c => cpc[d] # "publish" /\ ctx[d] \in Txs \cup {Nothing}
      BY <1>3, <1>4 DEF RetTypeOK
    <2>2. \A u \in Txs : tx[u] \in Published => tx'[u] \in Published
      BY <1>1, <1>3 DEF Published, Unfinished
    <2> QED
      BY <1>0, <1>3, <1>4, <2>1, <2>2 DEF Phased
  <1>12. Validated'
    <2>1. Selected(c)' = Selected(c)
      BY <1>2 DEF Selected
    <2> QED
      BY <1>2, <1>3, <1>4, <1>6, <2>1 DEF Validated
  <1>13. Worked'
    BY <1>3, <1>4 DEF Worked
  <1>14. \A u \in Txs : u # t => Candidates(u)' = Candidates(u)
    BY <1>3 DEF Candidates
  <1>15. Journaled'
    <2>1. payload[t] = Blank
      BY <1>0, <1>1 DEF Journaled
    <2>2. \A p \in Points : payload[t][p] = Nothing
      BY <2>1, BlankStamped
    <2> SUFFICES ASSUME NEW u \in Txs
                 PROVE  /\ tx'[u] \in {"none", "staging"} => payload[u] = Blank
                        /\ tx'[u] \in Moving =>
                              /\ root'[u]
                              /\ \A p \in Points :
                                    /\ payload[u][p] # Nothing => payload[u][p] = cands'[u][p]
                                    /\ p \in moved'[u] => payload[u][p] # Nothing
                        /\ tx'[u] = "quarantined" =>
                              \A p \in Candidates(u)' : payload[u][p] # Nothing /\ p \in moved'[u]
                        /\ tx'[u] = "deleted" => ~root'[u]
                        /\ \A p \in Candidates(u)' :
                              payload[u][p] # Nothing \/ tx'[u] \in {"deleting", "deleted"} =>
                                 point[p] # cands'[u][p]
      BY <1>2 DEF Journaled
    <2>3. CASE u = t
      BY <1>3, <2>1, <2>2, <2>3 DEF Moving, Candidates
    <2>4. CASE u # t
      BY <1>0, <1>3, <1>14, <2>4 DEF Journaled
    <2> QED
      BY <2>3, <2>4
  <1>16. Present'
    <2> SUFFICES ASSUME NEW u \in Txs, tx'[u] \in Moving, NEW p \in Candidates(u)'
                 PROVE  \/ payload[u][p] # Nothing \/ There(p)
                        \/ \E v \in Txs \ {u} : tx'[v] \in Published /\ cands'[v][p] = cands'[u][p]
      BY <1>2 DEF Present, There
    <2>1. u # t /\ tx[u] \in Moving /\ p \in Candidates(u) /\ cands'[u] = cands[u]
      BY <1>3, <1>14 DEF Moving
    <2>2. \A v \in Txs : tx[v] \in Published => tx'[v] = tx[v] /\ cands'[v] = cands[v]
      BY <1>1, <1>3 DEF Published, Unfinished
    <2> QED
      BY <1>0, <2>1, <2>2 DEF Present
  <1> QED
    BY <1>8, <1>9, <1>10, <1>11, <1>12, <1>13, <1>15, <1>16 DEF RetSafe

\* It is published while its points are in their places, and every transaction
\* that is pending then names the same ones.
LEMMA PublishKeeps ==
  ASSUME RetTypeOK, RetSafe, NEW c \in Commands, Publish(c)
  PROVE  RetSafe'
  <1>0. Guarded /\ Stamps_ /\ Listed /\ Phased /\ Validated /\ Worked /\ Journaled /\ Present
    BY DEF RetSafe
  <1>1. UNCHANGED <<diskVars, writerAt>> /\ cpc[c] = "publish"
    BY DEF Publish, Elsewhere, writer_
  <1>2. CASE Quit(c) /\ UNCHANGED txVars
    BY <1>1, <1>2, QuitKeeps
  <1>3. CASE tx[ctx[c]] = "staging" /\ Journal(c, "prepared") /\ To(c, "prepared")
    <2>1. PICK t \in Txs : t = ctx[c]
      BY <1>0, <1>1 DEF Phased
    <2>2. /\ tx[t] = "staging" /\ tx' = [tx EXCEPT ![t] = "prepared"]
          /\ UNCHANGED <<point, bare, made, horizon, cands, moved, payload, root, lockedBy, sel, ctx, left,
                         writerAt>>
          /\ cpc' = [cpc EXCEPT ![c] = "prepared"]
      BY <1>1, <1>3, <2>1 DEF Journal, To, mine, diskVars
    <2>3. /\ cpc'[c] = "prepared" /\ \A d \in Commands : d # c => cpc'[d] = cpc[d]
          /\ tx'[t] = "prepared" /\ \A u \in Txs : u # t => tx'[u] = tx[u]
      BY <2>2 DEF RetTypeOK
    <2>4. \A d \in Commands : d # c => cpc'[d] \in {"idle", "guard"}
      BY <1>1, <2>3, GuardAlone
    <2>5. /\ left[c] = Selected(c) /\ cands[t] = sel[c] /\ moved[t] = {} /\ root[t]
          /\ \A p \in Selected(c) : point[p] = sel[c][p]
      BY <1>0, <1>1, <2>1, <2>2 DEF Validated
    <2>6. Candidates(t) = Selected(c) /\ \A p \in Candidates(t) : point[p] = cands[t][p]
      BY <2>5 DEF Candidates, Selected
    <2>7. payload[t] = Blank /\ \A p \in Points : payload[t][p] = Nothing
      BY <1>0, <2>2, BlankStamped DEF Journaled
    <2>8. \A u \in Txs : /\ Candidates(u)' = Candidates(u)
                         /\ tx[u] \in Published => tx'[u] \in Published
                         /\ u # t /\ tx'[u] \in Unfinished => tx[u] \in Unfinished
      BY <2>2, <2>3 DEF Candidates, Published, Unfinished
    <2>9. Guarded' /\ Stamps_'
      BY <1>0, <1>1, <2>2, <2>3 DEF Guarded, Stamps_
    <2>10. Listed'
      <3>1. ASSUME NEW p \in Points, cands[t][p] # Nothing
            PROVE  /\ \A d \in Commands : sel[d][p] <= cands[t][p]
                   /\ \A u \in Txs : u # t /\ tx[u] \in Unfinished /\ cands[u][p] # Nothing =>
                         cands[u][p] = cands[t][p]
        <4>1. point[p] = cands[t][p] /\ point[p] # Nothing
          BY <2>6, <3>1 DEF Candidates
        <4>2. \A d \in Commands : sel[d][p] <= cands[t][p]
          BY <1>0, <4>1 DEF Stamps_
        <4>3. ASSUME NEW u \in Txs, tx[u] \in Unfinished, cands[u][p] # Nothing
              PROVE  cands[u][p] = cands[t][p]
          <5>1. cands[u][p] <= cands[t][p]
            BY <1>0, <4>1 DEF Stamps_
          <5>2. sel[c][p] <= cands[u][p]
            BY <1>0, <4>3 DEF Listed
          <5>3. cands[u][p] \in Nat /\ cands[t][p] \in Nat
            BY DEF RetTypeOK, Stamped_
          <5> QED
            BY <2>5, <5>1, <5>2, <5>3
        <4> QED
          BY <4>2, <4>3
      <3> SUFFICES ASSUME NEW u \in Txs, NEW p \in Points, tx'[u] \in Unfinished, cands[u][p] # Nothing
                   PROVE  /\ \A d \in Commands : sel[d][p] <= cands[u][p]
                          /\ \A v \in Txs : tx'[v] \in Unfinished /\ cands[v][p] # Nothing =>
                                cands[v][p] = cands[u][p]
        BY <2>2 DEF Listed
      <3>2. CASE u = t
        BY <2>8, <3>1, <3>2
      <3>3. CASE u # t
        <4>1. tx[u] \in Unfinished
          BY <2>8, <3>3
        <4> QED
          BY <1>0, <2>8, <3>1, <3>3, <4>1 DEF Listed
      <3> QED
        BY <3>2, <3>3
    <2>11. Phased'
      <3>1. \A d \in Commands : d # c => cpc[d] # "publish" /\ ctx[d] \in Txs \cup {Nothing}
        BY <2>3, <2>4 DEF RetTypeOK
      <3>2. "prepared" \in Moving /\ "prepared" \in Published
        BY DEF Moving, Published, Unfinished
      <3> QED
        BY <1>0, <2>1, <2>2, <2>3, <2>4, <2>8, <3>1, <3>2 DEF Phased
    <2>12. Validated'
      BY <2>3, <2>4 DEF Validated
    <2>13. Worked'
      <3>1. Candidates(ctx[c])' \ left'[c] = {}
        BY <2>1, <2>2, <2>5, <2>6, <2>8
      <3> QED
        BY <2>2, <2>3, <2>4, <3>1 DEF Worked
    <2>14. Journaled'
      <3> SUFFICES ASSUME NEW u \in Txs
                   PROVE  /\ tx'[u] \in {"none", "staging"} => payload[u] = Blank
                          /\ tx'[u] \in Moving =>
                                /\ root[u]
                                /\ \A p \in Points :
                                      /\ payload[u][p] # Nothing => payload[u][p] = cands[u][p]
                                      /\ p \in moved[u] => payload[u][p] # Nothing
                          /\ tx'[u] = "quarantined" =>
                                \A p \in Candidates(u) : payload[u][p] # Nothing /\ p \in moved[u]
                          /\ tx'[u] = "deleted" => ~root[u]
                          /\ \A p \in Candidates(u) :
                                payload[u][p] # Nothing \/ tx'[u] \in {"deleting", "deleted"} =>
                                   point[p] # cands[u][p]
        BY <2>2, <2>8 DEF Journaled
      <3>1. CASE u = t
        BY <2>3, <2>5, <2>7, <3>1 DEF Candidates
      <3>2. CASE u # t
        BY <1>0, <2>3, <3>2 DEF Journaled
      <3> QED
        BY <3>1, <3>2
    <2>15. Present'
      <3> SUFFICES ASSUME NEW u \in Txs, tx'[u] \in Moving, NEW p \in Candidates(u)
                   PROVE  \/ payload[u][p] # Nothing \/ There(p)
                          \/ \E v \in Txs \ {u} : tx'[v] \in Published /\ cands[v][p] = cands[u][p]
        BY <2>2, <2>8 DEF Present, There
      <3>1. CASE u = t
        BY <2>6, <3>1 DEF There, Candidates
      <3>2. CASE u # t
        BY <1>0, <2>3, <2>8, <3>2 DEF Present
      <3> QED
        BY <3>1, <3>2
    <2> QED
      BY <2>9, <2>10, <2>11, <2>12, <2>13, <2>14, <2>15 DEF RetSafe
  <1> QED
    BY <1>2, <1>3 DEF Publish

\* The point that leaves its place is the one every pending transaction names.
LEMMA RenameKeeps ==
  ASSUME RetTypeOK, RetSafe, NEW c \in Commands, Rename(c)
  PROVE  RetSafe'
  <1>0. Guarded /\ Stamps_ /\ Listed /\ Phased /\ Validated /\ Worked /\ Journaled /\ Present
    BY DEF RetSafe
  <1>1. PICK t \in Txs : t = ctx[c]
    BY <1>0 DEF Phased, Rename
  <1>2. PICK p \in Current(c) :
          /\ There(p) /\ payload[t][p] = Nothing /\ bare' = bare \ {p}
          /\ payload' = [payload EXCEPT ![t][p] = point[p]] /\ point' = [point EXCEPT ![p] = Nothing]
    BY <1>1 DEF Rename
  <1>3. /\ cpc[c] = "rename" /\ cpc' = [cpc EXCEPT ![c] = "note"]
        /\ UNCHANGED <<made, horizon, tx, cands, moved, root, lockedBy, sel, ctx, left, writerAt>>
    BY DEF Rename, To, mine, writer_
  <1>4. p \in Points /\ p \in left[c] /\ \A q \in Current(c) : q = p
    BY DEF Current, RetTypeOK, Points
  <1>5. /\ cpc'[c] = "note" /\ \A d \in Commands : d # c => cpc'[d] \in {"idle", "guard"} /\ cpc'[d] = cpc[d]
    BY <1>3, GuardAlone DEF RetTypeOK
  <1>6. /\ point'[p] = Nothing /\ \A q \in Points : q # p => point'[q] = point[q]
        /\ payload'[t][p] = point[p] /\ \A q \in Points : q # p => payload'[t][q] = payload[t][q]
        /\ \A u \in Txs : u # t => payload'[u] = payload[u]
    BY <1>2, <1>4 DEF RetTypeOK, Stamped_
  <1>7. tx[t] \in Moving /\ point[p] = cands[t][p] /\ p \notin bare
    BY <1>0, <1>1, <1>2, <1>3 DEF Phased, Validated
  <1>8. \A u \in Txs : Candidates(u)' = Candidates(u)
    BY <1>3 DEF Candidates
  <1>9. point[p] # Nothing /\ bare' = bare
    BY <1>2, <1>7 DEF There
  <1>10. Guarded'
    BY <1>0, <1>3, <1>5 DEF Guarded
  <1>11. Stamps_'
    <2>1. Nothing <= made
      BY DEF RetTypeOK, Nothing
    <2> QED
      BY <1>0, <1>3, <1>6, <2>1 DEF Stamps_
  <1>12. Listed' /\ Phased'
    BY <1>0, <1>3, <1>5 DEF Listed, Phased
  <1>13. Validated'
    BY <1>5 DEF Validated
  <1>14. Journaled'
    <2> SUFFICES ASSUME NEW u \in Txs
                 PROVE  /\ tx[u] \in {"none", "staging"} => payload'[u] = Blank
                        /\ tx[u] \in Moving =>
                              /\ root[u]
                              /\ \A q \in Points :
                                    /\ payload'[u][q] # Nothing => payload'[u][q] = cands[u][q]
                                    /\ q \in moved[u] => payload'[u][q] # Nothing
                        /\ tx[u] = "quarantined" =>
                              \A q \in Candidates(u) : payload'[u][q] # Nothing /\ q \in moved[u]
                        /\ tx[u] = "deleted" => ~root[u]
                        /\ \A q \in Candidates(u) :
                              payload'[u][q] # Nothing \/ tx[u] \in {"deleting", "deleted"} =>
                                 point'[q] # cands[u][q]
      BY <1>3, <1>8 DEF Journaled
    <2>1. \A q \in Candidates(u) : point[q] # cands[u][q] => point'[q] # cands[u][q]
      BY <1>6 DEF Candidates
    <2>2. CASE u # t
      BY <1>0, <1>6, <2>1, <2>2 DEF Journaled
    <2>3. CASE u = t
      <3>1. root[u] /\ tx[u] \notin {"none", "staging", "deleting", "deleted"}
        BY <1>0, <1>7, <2>3 DEF Journaled, Moving
      <3>2. \A q \in Points : /\ payload'[u][q] # Nothing => payload'[u][q] = cands[u][q]
                              /\ q \in moved[u] => payload'[u][q] # Nothing
        BY <1>0, <1>2, <1>4, <1>6, <1>7, <2>3 DEF Journaled
      <3>3. tx[u] = "quarantined" =>
              \A q \in Candidates(u) : payload'[u][q] # Nothing /\ q \in moved[u]
        BY <1>0, <1>2, <1>6, <1>7, <2>3 DEF Journaled, Candidates
      <3>4. \A q \in Candidates(u) : payload'[u][q] # Nothing => point'[q] # cands[u][q]
        BY <1>0, <1>6, <1>7, <2>3 DEF Journaled, Candidates
      <3> QED
        BY <3>1, <3>2, <3>3, <3>4
    <2> QED
      BY <2>2, <2>3
  <1>15. Present'
    <2> SUFFICES ASSUME NEW u \in Txs, tx[u] \in Moving, NEW q \in Candidates(u)
                 PROVE  \/ payload'[u][q] # Nothing \/ There(q)'
                        \/ \E v \in Txs \ {u} : tx[v] \in Published /\ cands[v][q] = cands[u][q]
      BY <1>3, <1>8 DEF Present
    <2>1. q \in Points /\ cands[u][q] # Nothing
      BY DEF Candidates
    <2>2. CASE q # p
      <3>1. There(q) => There(q)'
        BY <1>3, <1>6, <1>9, <2>1, <2>2 DEF There
      <3>2. payload'[u][q] = payload[u][q]
        BY <1>6, <2>1, <2>2
      <3> QED
        BY <1>0, <3>1, <3>2 DEF Present
    <2>3. CASE q = p /\ u = t
      BY <1>6, <1>7, <2>1, <2>3
    <2>4. CASE q = p /\ u # t
      <3>1. tx[u] \in Unfinished /\ tx[t] \in Unfinished /\ tx[t] \in Published
        BY <1>7 DEF Moving, Unfinished, Published
      <3> QED
        BY <1>0, <1>7, <1>9, <2>1, <2>4, <3>1 DEF Listed
    <2> QED
      BY <2>2, <2>3, <2>4
  <1>16. Worked'
    <2>1. \A q \in Candidates(t) \ left[c] : q \in moved[t] /\ payload[t][q] # Nothing
      BY <1>0, <1>1, <1>3 DEF Worked
    <2>2. \A q \in Candidates(t) \ left[c] : q \in moved[t] /\ payload'[t][q] # Nothing
      BY <1>4, <1>6, <2>1 DEF Candidates
    <2>3. Current(c)' = Current(c)
      BY <1>3 DEF Current
    <2>4. payload'[t][p] # Nothing
      BY <1>6, <1>9
    <2> QED
      BY <1>1, <1>3, <1>4, <1>5, <1>8, <2>2, <2>3, <2>4 DEF Worked
  <1> QED
    BY <1>10, <1>11, <1>12, <1>13, <1>14, <1>15, <1>16 DEF RetSafe

LEMMA NoteMoveKeeps ==
  ASSUME RetTypeOK, RetSafe, NEW c \in Commands, NoteMove(c)
  PROVE  RetSafe'
  <1>0. Guarded /\ Stamps_ /\ Listed /\ Phased /\ Validated /\ Worked /\ Journaled /\ Present
    BY DEF RetSafe
  <1>1. PICK t \in Txs : t = ctx[c] /\ tx[t] \in Moving
    BY <1>0 DEF Phased, NoteMove
  <1>2. PICK p \in Current(c) : /\ moved' = [moved EXCEPT ![t] = moved[t] \cup {p}]
                                /\ left' = [left EXCEPT ![c] = left[c] \ {p}]
    BY <1>1 DEF NoteMove
  <1>3. /\ cpc[c] = "note" /\ cpc' = [cpc EXCEPT ![c] = "move"]
        /\ UNCHANGED <<point, bare, made, horizon, tx, cands, payload, root, lockedBy, sel, ctx, writerAt>>
    BY DEF NoteMove, Elsewhere, diskVars, writer_
  <1>4. /\ cpc'[c] = "move" /\ \A d \in Commands : d # c => cpc'[d] \in {"idle", "guard"} /\ cpc'[d] = cpc[d]
        /\ left'[c] = left[c] \ {p}
    BY <1>2, <1>3, GuardAlone DEF RetTypeOK
  <1>5. moved'[t] = moved[t] \cup {p} /\ \A u \in Txs : u # t => moved'[u] = moved[u]
    BY <1>2 DEF RetTypeOK
  <1>6. payload[t][p] # Nothing
    BY <1>0, <1>1, <1>2, <1>3 DEF Worked
  <1>7. \A u \in Txs : Candidates(u)' = Candidates(u)
    BY <1>3 DEF Candidates
  <1>8. Guarded' /\ Stamps_' /\ Listed' /\ Phased'
    BY <1>0, <1>3, <1>4 DEF Guarded, Stamps_, Listed, Phased
  <1>9. Validated'
    BY <1>4 DEF Validated
  <1>10. Worked'
    <2>1. \A q \in Candidates(t) \ left[c] : q \in moved[t] /\ payload[t][q] # Nothing
      BY <1>0, <1>1, <1>3 DEF Worked
    <2>2. \A q \in Candidates(t) \ left'[c] : q \in moved'[t] /\ payload[t][q] # Nothing
      BY <1>4, <1>5, <1>6, <2>1
    <2> QED
      BY <1>1, <1>3, <1>4, <1>7, <2>2 DEF Worked
  <1>11. Journaled'
    <2>1. \A u \in Txs, q \in Points : q \in moved'[u] => q \in moved[u] \/ (u = t /\ q = p)
      BY <1>5
    <2>2. \A u \in Txs : moved[u] \subseteq moved'[u]
      BY <1>5
    <2> QED
      BY <1>0, <1>3, <1>6, <1>7, <2>1, <2>2 DEF Journaled
  <1>12. Present'
    BY <1>0, <1>3, <1>7 DEF Present, There
  <1> QED
    BY <1>8, <1>9, <1>10, <1>11, <1>12 DEF RetSafe

\* The payload is removed only of a transaction whose journal says so.
LEMMA RemoveKeeps ==
  ASSUME RetTypeOK, RetSafe, NEW c \in Commands, RemoveRoot(c) \/ \E p \in Points : RemoveEntry(c, p)
  PROVE  RetSafe'
  <1>0. Guarded /\ Stamps_ /\ Listed /\ Phased /\ Validated /\ Worked /\ Journaled /\ Present
    BY DEF RetSafe
  <1>1. cpc[c] = "delete"
    BY DEF RemoveRoot, RemoveEntry
  <1>2. PICK t \in Txs : t = ctx[c] /\ tx[t] = "deleting"
    BY <1>0, <1>1 DEF Phased
  <1>3. UNCHANGED <<point, bare, made, horizon, tx, cands, moved, lockedBy, sel, ctx, left, cpc, writerAt>>
    BY DEF RemoveRoot, RemoveEntry, Elsewhere, diskVars, writer_, mine
  <1>4. /\ \A u \in Txs : u # t => payload'[u] = payload[u] /\ root'[u] = root[u]
        /\ \A p \in Points : payload'[t][p] # Nothing => payload[t][p] # Nothing
    <2>1. CASE RemoveRoot(c)
      BY <1>2, <2>1 DEF RemoveRoot, RetTypeOK
    <2>2. CASE \E p \in Points : RemoveEntry(c, p)
      BY <1>2, <2>2 DEF RemoveEntry, RetTypeOK, Stamped_
    <2> QED
      BY <2>1, <2>2
  <1>5. \A d \in Commands : d # c => cpc[d] \in {"idle", "guard"}
    BY <1>1, GuardAlone
  <1>6. \A u \in Txs : Candidates(u)' = Candidates(u)
    BY <1>3 DEF Candidates
  <1>7. Guarded' /\ Stamps_' /\ Listed' /\ Phased'
    BY <1>0, <1>3 DEF Guarded, Stamps_, Listed, Phased
  <1>8. Validated' /\ Worked'
    BY <1>1, <1>3, <1>5 DEF Validated, Worked
  <1>9. Journaled'
    <2> SUFFICES ASSUME NEW u \in Txs
                 PROVE  /\ tx[u] \in {"none", "staging"} => payload'[u] = Blank
                        /\ tx[u] \in Moving =>
                              /\ root'[u]
                              /\ \A q \in Points :
                                    /\ payload'[u][q] # Nothing => payload'[u][q] = cands[u][q]
                                    /\ q \in moved[u] => payload'[u][q] # Nothing
                        /\ tx[u] = "quarantined" =>
                              \A q \in Candidates(u) : payload'[u][q] # Nothing /\ q \in moved[u]
                        /\ tx[u] = "deleted" => ~root'[u]
                        /\ \A q \in Candidates(u) :
                              payload'[u][q] # Nothing \/ tx[u] \in {"deleting", "deleted"} =>
                                 point[q] # cands[u][q]
      BY <1>3, <1>6 DEF Journaled
    <2>1. CASE u # t
      BY <1>0, <1>4, <2>1 DEF Journaled
    <2>2. CASE u = t
      BY <1>0, <1>2, <2>2 DEF Journaled, Moving
    <2> QED
      BY <2>1, <2>2
  <1>10. Present'
    <2>1. \A u \in Txs : tx[u] \in Moving => u # t
      BY <1>2 DEF Moving
    <2> QED
      BY <1>0, <1>3, <1>4, <1>6, <2>1 DEF Present, There
  <1> QED
    BY <1>7, <1>8, <1>9, <1>10 DEF RetSafe

-----------------------------------------------------------------------------
\* Types: one step per action that changes what the invariant types.
LEMMA CommandTyped ==
  ASSUME RetTypeOK, NEW c \in Commands, CommandStep(c)
  PROVE  RetTypeOK'
  <1> USE BlankStamped, QuitTyped DEF RetTypeOK, Elsewhere, diskVars, txVars, writer_, mine, To
  <1>1. CASE Preview(c)
    <2>1. Expired \in Stamped_
      BY DEF Expired, Stamped_, Nothing
    <2>2. cpc' \in [Commands -> CommandAt] /\ sel' \in [Commands -> Stamped_]
      BY <1>1, <2>1 DEF Preview, CommandAt
    <2>3. tx' \in [Txs -> {"none", "staging"} \cup Published] /\ root' \in [Txs -> BOOLEAN]
      BY <1>1 DEF Preview
    <2> QED
      BY <1>1, <2>2, <2>3 DEF Preview
  <1>2. CASE AcquireGuard(c)
    BY <1>2 DEF AcquireGuard, CommandAt
  <1>3. CASE CheckCandidates(c)
    BY <1>3 DEF CheckCandidates, CommandAt
  <1>4. CASE Stage(c)
    BY <1>4 DEF Stage, CommandAt, Selected
  <1>5. CASE Publish(c) \/ Advance(c) \/ Tombstone(c)
    BY <1>5 DEF Publish, Advance, Tombstone, Journal, CommandAt, Published, Unfinished
  <1>6. CASE ValidateMove(c)
    BY <1>6 DEF ValidateMove, CommandAt
  <1>7. CASE Rename(c)
    <2>1. PICK p \in Current(c) :
            /\ payload' = [payload EXCEPT ![ctx[c]][p] = point[p]] /\ point' = [point EXCEPT ![p] = Nothing]
            /\ bare' = bare \ {p}
      BY <1>7 DEF Rename
    <2>2. p \in Points
      BY <2>1 DEF Current
    <2>3. point' \in Stamped_ /\ payload' \in [Txs -> Stamped_]
      BY <2>1, <2>2 DEF Stamped_, Nothing
    <2> QED
      BY <1>7, <2>1, <2>3 DEF Rename, CommandAt
  <1>8. CASE NoteMove(c)
    <2>1. PICK p \in Current(c) : /\ moved' = [moved EXCEPT ![ctx[c]] = @ \cup {p}]
                                  /\ left' = [left EXCEPT ![c] = @ \ {p}]
      BY <1>8 DEF NoteMove
    <2>2. p \in Points
      BY <2>1 DEF Current
    <2>3. moved' \in [Txs -> SUBSET Points] /\ left' \in [Commands -> SUBSET Points]
      BY <2>1, <2>2, ZenonT(60)
    <2> QED
      BY <1>8, <2>3 DEF NoteMove, CommandAt
  <1>9. CASE RemoveRoot(c)
    BY <1>9 DEF RemoveRoot
  <1>10. CASE Recover(c)
    BY <1>10 DEF Recover, CommandAt, Candidates
  <1>11. CASE \E p \in Points : RemoveEntry(c, p)
    <2>1. PICK p \in Points : payload' = [payload EXCEPT ![ctx[c]][p] = Nothing]
      BY <1>11 DEF RemoveEntry
    <2>2. payload' \in [Txs -> Stamped_]
      BY <2>1 DEF Stamped_, Nothing
    <2> QED
      BY <1>11, <2>2 DEF RemoveEntry
  <1>12. CASE \E t \in Txs : ChooseRecovery(c, t)
    BY <1>12 DEF ChooseRecovery, CommandAt
  <1> QED
    BY <1>1, <1>2, <1>3, <1>4, <1>5, <1>6, <1>7, <1>8, <1>9, <1>10, <1>11, <1>12 DEF CommandStep

LEMMA RetTypeStep ==
  ASSUME RetTypeOK, [RetentionNext]_retVars
  PROVE  RetTypeOK'
  <1> USE DEF RetTypeOK, diskVars, txVars, writer_, mine
  <1>1. CASE UNCHANGED retVars
    BY <1>1 DEF retVars
  <1>2. CASE QueueOperation \/ WriterStarts \/ WriterStops \/ BeatExpires
    BY <1>2 DEF QueueOperation, WriterStarts, WriterStops, BeatExpires
  <1>3. CASE FinishPoint
    <2>1. made + 1 \in Nat
      OBVIOUS
    <2>2. point' \in Stamped_
      BY <1>3, <2>1 DEF FinishPoint, Stamped_
    <2> QED
      BY <1>3, <2>1, <2>2 DEF FinishPoint
  <1>4. CASE TimePasses
    <2>1. horizon + 1 \in Nat
      OBVIOUS
    <2> QED
      BY <1>4, <2>1 DEF TimePasses
  <1>5. CASE \E p \in Points : BeginPoint(p)
    BY <1>5 DEF BeginPoint
  <1>6. CASE \E c \in Commands : CommandStep(c)
    BY <1>6, CommandTyped
  <1>7. CASE \E c \in Commands : Interrupt(c)
    BY <1>7, QuitTyped DEF Interrupt
  <1>8. CASE \E c \in Commands : DropGuard(c)
    <2>1. drops + 1 \in Nat
      OBVIOUS
    <2> QED
      BY <1>8, <2>1 DEF DropGuard
  <1> QED
    BY <1>1, <1>2, <1>3, <1>4, <1>5, <1>6, <1>7, <1>8 DEF RetentionNext

LEMMA CommandKeeps ==
  ASSUME RetTypeOK, RetSafe, NEW c \in Commands, CommandStep(c)
  PROVE  RetSafe'
  BY PreviewKeeps, AcquireGuardKeeps, CheckCandidatesKeeps, StageKeeps, PublishKeeps, AdvanceKeeps,
     ValidateMoveKeeps, RenameKeeps, NoteMoveKeeps, RemoveKeeps, TombstoneKeeps, RecoverKeeps,
     ChooseRecoveryKeeps DEF CommandStep

LEMMA RetentionStep ==
  ASSUME RetInv, [RetentionNext]_retVars
  PROVE  RetInv'
  <1>1. RetTypeOK /\ RetTypeOK'
    BY RetTypeStep DEF RetInv
  <1>2. ASSUME drops' = 0
        PROVE  RetSafe'
    <2>1. drops = 0
      <3>1. drops \in Nat /\ (drops' = drops \/ drops' = drops + 1)
        BY <1>1, ZenonT(60) DEF RetTypeOK, RetentionNext, retVars, QueueOperation, WriterStarts, FinishPoint, WriterStops,
                    BeatExpires, TimePasses, BeginPoint, CommandStep, Interrupt, DropGuard, Preview,
                    AcquireGuard, CheckCandidates, Stage, Publish, Advance, ValidateMove, Rename,
                    NoteMove, RemoveRoot, Tombstone, Recover, RemoveEntry, ChooseRecovery, Elsewhere
      <3> QED
        BY <1>2, <3>1
    <2>2. RetSafe /\ Guarded
      BY <2>1 DEF RetInv, RetSafe
    <2>3. CASE UNCHANGED retVars
      <3>1. Guarded'
        BY <2>2, <2>3 DEF Guarded, retVars, writer_
      <3> QED
        BY <1>1, <2>2, <2>3, <3>1, AsideKeeps DEF retVars, diskVars
    <2>4. CASE QueueOperation \/ BeatExpires
      <3>1. Guarded'
        BY <2>2, <2>4 DEF Guarded, QueueOperation, BeatExpires
      <3> QED
        BY <1>1, <2>2, <2>4, <3>1, AsideKeeps DEF QueueOperation, BeatExpires, diskVars
    <2>5. CASE WriterStarts
      <3>1. Guarded'
        BY <2>2, <2>5, RetentionAssumption DEF Guarded, WriterStarts
      <3> QED
        BY <1>1, <2>2, <2>5, <3>1, AsideKeeps DEF WriterStarts, diskVars
    <2>6. CASE WriterStops
      <3>1. Guarded'
        BY <2>2, <2>6, RetentionAssumption DEF Guarded, WriterStops
      <3> QED
        BY <1>1, <2>2, <2>6, <3>1, AsideKeeps DEF WriterStops, diskVars
    <2>7. CASE TimePasses
      BY <1>1, <2>2, <2>7, TimeKeeps
    <2>8. CASE FinishPoint \/ \E p \in Points : BeginPoint(p)
      BY <1>1, <2>2, <2>8, WriterKeeps
    <2>9. CASE \E c \in Commands : CommandStep(c)
      BY <1>1, <2>2, <2>9, CommandKeeps
    <2>10. CASE \E c \in Commands : Interrupt(c)
      BY <1>1, <2>2, <2>10, QuitKeeps DEF Interrupt, writer_
    <2>11. CASE \E c \in Commands : DropGuard(c)
      BY <1>1, <1>2, <2>11 DEF DropGuard, RetTypeOK
    <2> QED
      BY <2>3, <2>4, <2>5, <2>6, <2>7, <2>8, <2>9, <2>10, <2>11 DEF RetentionNext
  <1> QED
    BY <1>1, <1>2 DEF RetInv

LEMMA RetentionInvariant == RetentionSpec => []RetInv
  <1>1. RetentionInit => RetInv
    BY RetentionStarts
  <1>2. RetInv /\ [RetentionNext]_retVars => RetInv'
    BY RetentionStep
  <1> QED
    BY <1>1, <1>2, PTL DEF RetentionSpec

-----------------------------------------------------------------------------
\* Wherever a deletion was interrupted its recovery is not refused, for any number
\* of commands, transactions and restore points: the journal never promises more
\* than the disk holds (quarantine_and_delete, _preflight_quarantine,
\* recover_quarantine).
THEOREM InterruptedDeletionsRecover == RetentionSpec => []InterruptionsRecoverable
  <1>1. RetInv => InterruptionsRecoverable
    <2> SUFFICES ASSUME RetTypeOK, RetSafe, NEW t \in Txs, Interrupted(t), ~HalfRecovered(t), ~Overtaken(t)
                 PROVE  Preflight(t)
      BY DEF RetInv, InterruptionsRecoverable
    <2>1. Journaled /\ Present
      BY DEF RetSafe
    <2>2. tx[t] \in Moving \cup {"deleting", "deleted"}
      BY DEF Interrupted, Published, Unfinished, Moving
    <2>3. tx[t] = "deleted" => ~root[t]
      BY <2>1 DEF Journaled
    <2>4. tx[t] \in {"prepared", "quarantining", "quarantined"} => root[t]
      BY <2>1 DEF Journaled, Moving
    <2>5. \A p \in Candidates(t) : There(p) => point[p] = cands[t][p]
      BY DEF Interrupted, Recreated
    <2>6. ASSUME NEW p \in Candidates(t), tx[t] \in {"deleting", "deleted"}
          PROVE  ~There(p)
      BY <2>1, <2>5, <2>6 DEF Journaled
    <2>7. ASSUME NEW p \in Candidates(t), tx[t] \in Moving
          PROVE  /\ There(p) # (payload[t][p] # Nothing)
                 /\ cands[t][p] = IF payload[t][p] # Nothing THEN payload[t][p] ELSE point[p]
                 /\ tx[t] = "prepared" => payload[t][p] = Nothing /\ p \notin moved[t]
                 /\ p \in moved[t] => payload[t][p] # Nothing
                 /\ tx[t] = "quarantined" => payload[t][p] # Nothing /\ p \in moved[t]
      <3>1. p \in Points
        BY DEF Candidates
      <3>2. payload[t][p] # Nothing => ~There(p) /\ payload[t][p] = cands[t][p]
        BY <2>1, <2>5, <2>7, <3>1 DEF Journaled
      <3>3. payload[t][p] = Nothing => There(p)
        BY <2>1, <2>7 DEF Present, Overtaken
      <3>4. p \in moved[t] => payload[t][p] # Nothing
        BY <2>1, <2>7, <3>1 DEF Journaled
      <3>5. tx[t] = "prepared" => payload[t][p] = Nothing
        BY <3>1, BlankStamped DEF HalfRecovered
      <3>6. tx[t] = "quarantined" => payload[t][p] # Nothing /\ p \in moved[t]
        BY <2>1 DEF Journaled
      <3>7. There(p) # (payload[t][p] # Nothing)
        BY <3>2, <3>3 DEF There
      <3> QED
        BY <2>5, <3>2, <3>3, <3>4, <3>5, <3>6, <3>7
    <2>8. tx[t] \notin {"deleting", "deleted"} => tx[t] \in Moving
      BY <2>2
    <2> QED
      BY <2>3, <2>4, <2>6, <2>7, <2>8 DEF Preflight
  <1> QED
    BY <1>1, RetentionInvariant, PTL

\* Only an expired restore point leaves its place, and only a journaled deletion
\* destroys one, whatever the writer and overlapping commands do in between
\* (build_deletion_manifest, _validate_candidate_identity, _finish_quarantine_delete).
THEOREM OnlyExpiredPointsLeave == RetentionSpec => OnlyExpiredLeave
  <1>1. ASSUME RetInv, [RetentionNext]_retVars, drops = 0
        PROVE  /\ \A p \in Points : point[p] # Nothing /\ point'[p] = Nothing => point[p] <= horizon
               /\ \A t \in Txs, p \in Points :
                    payload[t][p] # Nothing /\ payload'[t][p] = Nothing => tx[t] = "deleting"
    <2>1. RetTypeOK /\ RetSafe /\ Stamps_ /\ Phased /\ Validated
      BY <1>1 DEF RetInv, RetSafe
    <2>2. CASE \E c \in Commands : Rename(c)
      <3>0. PICK c \in Commands : Rename(c)
        BY <2>2
      <3>1. PICK p \in Current(c) :
               /\ cpc[c] = "rename" /\ There(p) /\ payload[ctx[c]][p] = Nothing
               /\ payload' = [payload EXCEPT ![ctx[c]][p] = point[p]]
               /\ point' = [point EXCEPT ![p] = Nothing]
        BY <3>0 DEF Rename
      <3>2. ctx[c] \in Txs /\ p \in Points /\ point[p] = cands[ctx[c]][p] /\ point[p] <= horizon
        BY <2>1, <3>1 DEF Phased, Validated, Stamps_, Current, RetTypeOK
      <3>3. \A q \in Points : q # p => point'[q] = point[q]
        BY <2>1, <3>1 DEF RetTypeOK, Stamped_
      <3>4. \A t \in Txs, q \in Points : (t # ctx[c] \/ q # p) => payload'[t][q] = payload[t][q]
        BY <2>1, <3>1 DEF RetTypeOK, Stamped_
      <3> QED
        BY <3>1, <3>2, <3>3, <3>4
    <2>3. CASE \E c \in Commands, p \in Points : RemoveEntry(c, p)
      <3>1. PICK c \in Commands, p \in Points :
               cpc[c] = "delete" /\ payload' = [payload EXCEPT ![ctx[c]][p] = Nothing] /\ point' = point
        BY <2>3 DEF RemoveEntry, Elsewhere, diskVars
      <3>2. tx[ctx[c]] = "deleting"
        BY <2>1, <3>1 DEF Phased
      <3>3. \A t \in Txs, q \in Points : t # ctx[c] => payload'[t][q] = payload[t][q]
        BY <2>1, <3>1 DEF RetTypeOK, Stamped_
      <3> QED
        BY <3>1, <3>2, <3>3
    <2>4. CASE FinishPoint
      <3>1. made + 1 # 0 /\ making \in Points /\ payload' = payload
        BY <2>1, <2>4 DEF RetTypeOK, FinishPoint, txVars
      <3>2. \A p \in Points : point'[p] = point[p] \/ point'[p] = made + 1
        BY <2>1, <2>4, <3>1 DEF RetTypeOK, FinishPoint, Stamped_
      <3> QED
        BY <3>1, <3>2 DEF Nothing
    <2>5. CASE UNCHANGED <<point, payload>>
      BY <2>5
    <2>6. \/ \E c \in Commands : Rename(c)
          \/ \E c \in Commands, p \in Points : RemoveEntry(c, p)
          \/ FinishPoint \/ UNCHANGED <<point, payload>>
      BY <1>1 DEF RetentionNext, retVars, QueueOperation, WriterStarts, WriterStops, BeatExpires, TimePasses,
                  BeginPoint, CommandStep, Interrupt, DropGuard, Preview, AcquireGuard, CheckCandidates,
                  Stage, Publish, Advance, ValidateMove, NoteMove, RemoveRoot, Tombstone, Recover,
                  ChooseRecovery, Journal, Elsewhere, diskVars, txVars
    <2> QED
      BY <2>2, <2>3, <2>4, <2>5, <2>6
  <1> QED
    BY <1>1, RetentionInvariant, PTL DEF RetentionSpec, OnlyExpiredLeave

-----------------------------------------------------------------------------
(* Background jobs.                                                        *)

RunNames  == [task : {"none", "ingest", "scan"}, second : Nat]
JobStates == {"absent", "pending", "running"} \cup Ended_
JobRecs   == [task : {"none", "ingest", "scan", "audit"}, target : Keys \cup {0},
              run : RunNames, status : JobStates]
Working   == {"scan", "ingest", "audit", "auditing"} \cup Ended_
Records   == [run : RunNames, state : {"none", "scanned", "judged"}]

JobsTypeOK ==
    /\ job \in [Jobs -> JobRecs] /\ waiting \in Seq(Jobs) /\ enqueued \in 0..MaxJobs
    /\ step \in [Procs -> {"idle", "popped", "mark"} \cup Working] /\ holds \in [Procs -> Nat]
    /\ itsRun \in [Procs -> RunNames] /\ books \in [Procs -> SUBSET Keys]
    /\ runs \subseteq RunNames /\ second \in Nat
    /\ record \in [Keys -> Records]
    /\ begun \in [Jobs -> Nat]
    /\ \A c \in callbacks : /\ c.job \in 1..enqueued /\ job[c.job].task = "audit"
                            /\ c.read \in {"nothing"} \cup JobStates

\* A job is in the queue once or with one worker.
Queued ==
    /\ \A i, k \in 1..Len(waiting) : waiting[i] = waiting[k] => i = k
    /\ \A i \in 1..Len(waiting) : waiting[i] <= enqueued
    /\ \A p \in Procs : step[p] # "idle" =>
          /\ holds[p] \in 1..enqueued /\ \A i \in 1..Len(waiting) : waiting[i] # holds[p]
          /\ \A q \in Procs : q # p /\ step[q] # "idle" => holds[q] # holds[p]

\* Nobody has begun a job that is in the queue, or that was just taken from it.
Begun ==
    /\ \A j \in Jobs : begun[j] <= 1 /\ (j > enqueued => begun[j] = 0)
    /\ \A i \in 1..Len(waiting) : begun[waiting[i]] = 0
    /\ \A p \in Procs : step[p] \in {"popped", "mark"} => begun[holds[p]] = 0

\* What the status says of a job that is under way.
Statuses ==
    /\ \A j \in 1..enqueued : /\ job[j].task # "none"
                              /\ job[j].task = "ingest" => job[j].target \in Keys
    /\ \A i \in 1..Len(waiting) : job[waiting[i]].task # "audit" => job[waiting[i]].status = "pending"
    /\ \A p \in Procs : step[p] # "idle" /\ job[holds[p]].task # "audit" =>
          job[holds[p]].status = IF step[p] \in {"popped", "mark"} THEN "pending" ELSE "running"
    /\ \A p \in Procs : step[p] \in {"scan", "ingest"} => job[holds[p]].task = step[p]

\* A run that judged a file, or whose file was registered by a later run.
Judged(k, r) == <<k, r>> \in judgements \cup skipped \/ r \in taken

\* The file of an ingest job belongs to its run until it is judged.
Followed ==
    \A p \in Procs : LET j == job[holds[p]] IN
        step[p] \in {"audit", "auditing", "completed"} /\ j.task = "ingest" =>
            /\ j.run = itsRun[p]
            /\ step[p] = "audit" => record[j.target].run = j.run \/ j.run \in taken
            /\ step[p] = "auditing" => j.target \in books[p] \/ Judged(j.target, j.run)
            /\ step[p] = "completed" => Judged(j.target, j.run)

JobsInv == JobsTypeOK /\ Queued /\ Begun /\ Statuses /\ Followed /\ JobsAccounted /\ CompletedIsJudged

\* A sequence of jobs is a function on 1..Len, and its range is what is in it.
LEMMA WaitingIs ==
  ASSUME JobsTypeOK
  PROVE  /\ Len(waiting) \in Nat /\ DOMAIN waiting = 1..Len(waiting)
         /\ Range(waiting) = {waiting[i] : i \in 1..Len(waiting)}
         /\ \A i \in 1..Len(waiting) : waiting[i] \in Jobs
         /\ enqueued \in Nat /\ MaxJobs \in Nat /\ 1..enqueued \subseteq Jobs
  <1>1. Len(waiting) \in Nat /\ DOMAIN waiting = 1..Len(waiting)
    BY DEF JobsTypeOK
  <1>2. \A i \in 1..Len(waiting) : waiting[i] \in Jobs
    BY DEF JobsTypeOK
  <1>3. enqueued \in Nat /\ MaxJobs \in Nat /\ 1..enqueued \subseteq Jobs
    BY JobsAssumption DEF JobsTypeOK, Jobs
  <1> QED BY <1>1, <1>2, <1>3 DEF Range

LEMMA NoJobIs == NoRun \in RunNames /\ NoJob \in JobRecs
  <1>1. NoRun \in RunNames
    BY DEF NoRun, RunNames
  <1> HIDE DEF NoRun
  <1>2. "absent" \in JobStates /\ 0 \in Keys \cup {0}
    BY DEF JobStates
  <1> QED BY <1>1, <1>2 DEF NoJob, JobRecs

LEMMA JobsStart == JobsInit => JobsInv
  <1> SUFFICES ASSUME JobsInit PROVE JobsInv
    OBVIOUS
  <1>1. NoRun \in RunNames /\ NoJob \in JobRecs
    BY NoJobIs
  <1>2. JobsTypeOK
    <2>1. /\ waiting \in Seq(Jobs) /\ enqueued \in 0..MaxJobs
          /\ [run |-> NoRun, state |-> "none"] \in Records
      BY <1>1, JobsAssumption DEF JobsInit, Records
    <2>2. begun \in [Jobs -> Nat] /\ callbacks = {} /\ runs = {} /\ second = 0
      BY DEF JobsInit
    <2> QED BY <1>1, <2>1, <2>2 DEF JobsInit, JobsTypeOK
  <1>3. Len(waiting) = 0 /\ enqueued = 0
    BY DEF JobsInit
  <1>4. \A j \in Jobs : begun[j] = 0 /\ job[j] = NoJob
    BY DEF JobsInit
  <1>5. Queued /\ Begun /\ Statuses /\ Followed
    BY <1>3, <1>4 DEF JobsInit, Queued, Begun, Statuses, Followed
  <1>6. JobsAccounted /\ CompletedIsJudged
    BY <1>3, <1>4 DEF JobsAccounted, CompletedIsJudged, NoJob
  <1> QED BY <1>2, <1>5, <1>6 DEF JobsInv

\* Steps of the watchers, of the clock and of the folder.
LEMMA JobsStay ==
  ASSUME JobsInv, UNCHANGED <<queueVars, loopVars, dbVars, begun, dropped>>, second' \in Nat
  PROVE  JobsInv'
  <1>1. JobsTypeOK'
    BY DEF JobsInv, JobsTypeOK, queueVars, loopVars, dbVars
  <1>2. Queued' /\ Begun' /\ Statuses' /\ Followed'
    BY DEF JobsInv, Queued, Begun, Statuses, Followed, Judged, queueVars, loopVars, dbVars
  <1>3. JobsAccounted' /\ CompletedIsJudged'
    BY DEF JobsInv, JobsAccounted, CompletedIsJudged, Held, queueVars, loopVars, dbVars
  <1> QED BY <1>1, <1>2, <1>3 DEF JobsInv

\* A new job goes to the end of the queue, or is lost with the call that failed.
LEMMA JobsEnqueue ==
  ASSUME JobsInv, NEW j \in JobRecs, j.task # "none", j.task = "ingest" => j.target \in Keys,
         Enqueue(j), UNCHANGED <<loopVars, dbVars, second, begun>>
  PROVE  JobsInv'
  <1> DEFINE e == enqueued + 1
             jj == [j EXCEPT !.status = "pending"]
  <1>0. JobsTypeOK /\ Queued /\ Begun /\ Statuses /\ Followed /\ JobsAccounted /\ CompletedIsJudged
    BY DEF JobsInv
  <1>1. /\ e \in Jobs /\ e \in Nat /\ enqueued' = e /\ e > enqueued
        /\ jj \in JobRecs /\ jj.status = "pending" /\ jj.task = j.task /\ jj.target = j.target
        /\ job' = [job EXCEPT ![e] = jj]
    <2>1. e \in Jobs /\ e \in Nat /\ enqueued' = e /\ e > enqueued /\ job' = [job EXCEPT ![e] = jj]
      BY <1>0, JobsAssumption DEF JobsTypeOK, Jobs, Enqueue
    <2>2. "pending" \in JobStates
      BY DEF JobStates
    <2>3. jj \in JobRecs /\ jj.status = "pending" /\ jj.task = j.task /\ jj.target = j.target
      BY <2>2 DEF JobRecs
    <2> QED BY <2>1, <2>3
  <1>2. /\ Len(waiting) \in Nat /\ DOMAIN waiting = 1..Len(waiting)
        /\ Range(waiting) = {waiting[i] : i \in 1..Len(waiting)}
        /\ \A i \in 1..Len(waiting) : waiting[i] \in Jobs
        /\ enqueued \in Nat /\ MaxJobs \in Nat /\ 1..enqueued \subseteq Jobs
    BY <1>0, WaitingIs
  <1> HIDE DEF e, jj
  <1>3. job' \in [Jobs -> JobRecs] /\ job'[e] = jj /\ \A i \in Jobs : i # e => job'[i] = job[i]
    BY <1>0, <1>1 DEF JobsTypeOK
  <1>4. \/ waiting' = waiting /\ dropped' = dropped \cup {e}
        \/ waiting' = Append(waiting, e) /\ dropped' = dropped
    BY DEF Enqueue, e
  <1>5. /\ waiting' \in Seq(Jobs)
        /\ \A i \in 1..Len(waiting) : i \in 1..Len(waiting)' /\ waiting'[i] = waiting[i]
        /\ \A i \in 1..Len(waiting)' :
             i \in 1..Len(waiting) \/ (i = Len(waiting) + 1 /\ waiting'[i] = e)
    <2>1. waiting \in Seq(Jobs)
      BY <1>0 DEF JobsTypeOK
    <2>2. CASE waiting' = waiting
      BY <1>2, <2>1, <2>2
    <2>3. CASE waiting' = Append(waiting, e)
      <3>1. /\ waiting' \in Seq(Jobs) /\ Len(waiting)' = Len(waiting) + 1
            /\ \A i \in 1..Len(waiting) : waiting'[i] = waiting[i]
            /\ waiting'[Len(waiting) + 1] = e
        BY <1>1, <2>1, <2>3, AppendProperties
      <3> QED BY <1>2, <3>1
    <2> QED BY <1>4, <2>2, <2>3
  <1>6. UNCHANGED <<step, holds, itsRun, books, callbacks, runs, record, judgements, skipped, taken,
                    second, begun>>
    BY DEF loopVars, dbVars
  <1>7. JobsTypeOK'
    <2>1. /\ waiting' \in Seq(Jobs) /\ enqueued' \in 0..MaxJobs
          /\ \A c \in callbacks' : /\ c.job \in 1..enqueued' /\ job'[c.job].task = "audit"
                                   /\ c.read \in {"nothing"} \cup JobStates
      BY <1>0, <1>1, <1>2, <1>3, <1>5, <1>6 DEF JobsTypeOK, Jobs
    <2> QED BY <2>1, <1>0, <1>3, <1>6 DEF JobsTypeOK
  <1>8. \A i \in 1..Len(waiting) : waiting[i] # e
    BY <1>0, <1>1, <1>2 DEF Queued, Jobs
  <1>9. \A p \in Procs : step[p] # "idle" => holds[p] \in Jobs /\ holds[p] # e
    BY <1>0, <1>1, <1>2 DEF Queued, Jobs
  <1>10. Queued'
    <2>1. \A i, k \in 1..Len(waiting)' : waiting'[i] = waiting'[k] => i = k
      BY <1>0, <1>5, <1>8 DEF Queued
    <2>2. \A i \in 1..Len(waiting)' : waiting'[i] <= enqueued'
      <3>1. \A i \in 1..Len(waiting) : waiting[i] <= enqueued /\ waiting[i] \in Nat
        BY <1>0, <1>2 DEF Queued, Jobs
      <3> QED BY <1>1, <1>2, <1>5, <3>1
    <2>3. \A p \in Procs : step[p] # "idle" =>
            /\ holds[p] \in 1..enqueued' /\ \A i \in 1..Len(waiting)' : waiting'[i] # holds[p]
      <3> SUFFICES ASSUME NEW p \in Procs, step[p] # "idle"
                   PROVE  /\ holds[p] \in 1..enqueued'
                          /\ \A i \in 1..Len(waiting)' : waiting'[i] # holds[p]
        OBVIOUS
      <3>1. holds[p] \in 1..enqueued /\ \A i \in 1..Len(waiting) : waiting[i] # holds[p]
        BY <1>0 DEF Queued
      <3> QED BY <1>1, <1>2, <1>5, <1>9, <3>1
    <2> QED BY <1>0, <1>6, <2>1, <2>2, <2>3 DEF Queued
  <1>11. Begun'
    <2>1. \A i \in Jobs : i \in Nat /\ begun[i] <= 1 /\ (i > enqueued => begun[i] = 0)
      BY <1>0 DEF Begun, Jobs
    <2>2. \A i \in Jobs : begun[i] <= 1 /\ (i > enqueued' => begun[i] = 0)
      BY <1>1, <1>2, <2>1
    <2>3. \A i \in 1..Len(waiting)' : begun[waiting'[i]] = 0
      BY <1>0, <1>1, <1>5, <2>1 DEF Begun
    <2> QED BY <1>0, <1>6, <2>2, <2>3 DEF Begun
  <1>12. Statuses'
    <2>1. \A i \in 1..enqueued' : i = e \/ (i \in 1..enqueued /\ i # e /\ job'[i] = job[i])
      BY <1>1, <1>2, <1>3 DEF e
    <2>2. \A i \in 1..enqueued' : /\ job'[i].task # "none"
                                  /\ job'[i].task = "ingest" => job'[i].target \in Keys
      BY <1>0, <1>1, <1>3, <2>1 DEF Statuses
    <2>3. \A i \in 1..Len(waiting)' : job'[waiting'[i]].task # "audit" => job'[waiting'[i]].status = "pending"
      BY <1>0, <1>1, <1>2, <1>3, <1>5, <1>8 DEF Statuses
    <2>4. \A p \in Procs : step[p] # "idle" => job'[holds[p]] = job[holds[p]]
      BY <1>3, <1>9
    <2> QED BY <1>0, <1>6, <2>2, <2>3, <2>4 DEF Statuses
  <1>13. Followed'
    BY <1>0, <1>3, <1>6, <1>9 DEF Followed, Judged
  <1>14. JobsAccounted'
    <2>1. Range(waiting)' = {waiting'[i] : i \in 1..Len(waiting)'}
      BY <1>7, WaitingIs DEF Range, JobsTypeOK
    <2>2. Held' = Held
      BY <1>6 DEF Held
    <2>3. Range(waiting) \subseteq Range(waiting)' /\ dropped \subseteq dropped'
      BY <1>2, <1>4, <1>5, <2>1
    <2>4. e \in Range(waiting)' \cup dropped'
      BY <1>1, <1>2, <1>4, <2>1
    <2>5. \A i \in 1..enqueued' : i = e \/ i \in 1..enqueued
      BY <1>1, <1>2 DEF e
    <2>6. begun'[e] = 0 /\ \A i \in Jobs : begun'[i] = begun[i]
      BY <1>0, <1>1, <1>6 DEF Begun
    <2> QED BY <1>0, <1>2, <1>3, <2>2, <2>3, <2>4, <2>5, <2>6 DEF JobsAccounted
  <1>15. CompletedIsJudged'
    BY <1>0, <1>1, <1>3, <1>6 DEF CompletedIsJudged
  <1> QED BY <1>7, <1>10, <1>11, <1>12, <1>13, <1>14, <1>15 DEF JobsInv

\* The queue gives its first job to a worker.
LEMMA JobsDequeue ==
  ASSUME JobsInv, NEW p \in Procs, Dequeue(p)
  PROVE  JobsInv'
  <1> DEFINE h == Head(waiting)
  <1>0. JobsTypeOK /\ Queued /\ Begun /\ Statuses /\ Followed /\ JobsAccounted /\ CompletedIsJudged
    BY DEF JobsInv
  <1>1. /\ Len(waiting) \in Nat /\ DOMAIN waiting = 1..Len(waiting)
        /\ Range(waiting) = {waiting[i] : i \in 1..Len(waiting)}
        /\ \A i \in 1..Len(waiting) : waiting[i] \in Jobs
        /\ enqueued \in Nat /\ MaxJobs \in Nat /\ 1..enqueued \subseteq Jobs
    BY <1>0, WaitingIs
  <1>2. /\ step[p] = "idle" /\ waiting # <<>> /\ waiting' = Tail(waiting)
        /\ step' = [step EXCEPT ![p] = "popped"] /\ holds' = [holds EXCEPT ![p] = h]
        /\ UNCHANGED <<job, enqueued, itsRun, books, callbacks, runs, record, judgements, skipped,
                       taken, second, begun, dropped>>
    BY DEF Dequeue, At, Rest, dbVars
  <1>3. /\ waiting' \in Seq(Jobs) /\ Len(waiting) > 0 /\ Len(waiting)' = Len(waiting) - 1
        /\ h = waiting[1] /\ h \in Jobs
        /\ \A i \in 1..Len(waiting)' : i + 1 \in 1..Len(waiting) /\ waiting'[i] = waiting[i + 1]
        /\ \A i \in 1..Len(waiting) : i = 1 \/ (i - 1 \in 1..Len(waiting)' /\ waiting[i] = waiting'[i - 1])
    BY <1>0, <1>1, <1>2 DEF JobsTypeOK
  <1> HIDE DEF h
  <1>4. /\ step'[p] = "popped" /\ holds'[p] = h
        /\ \A q \in Procs : q # p => step'[q] = step[q] /\ holds'[q] = holds[q]
    BY <1>0, <1>2 DEF JobsTypeOK
  <1>5. JobsTypeOK'
    BY <1>0, <1>2, <1>3 DEF JobsTypeOK, Jobs
  <1>6. h \in 1..enqueued /\ begun[h] = 0
    BY <1>0, <1>1, <1>3 DEF Queued, Begun, Jobs
  <1>7. Queued'
    <2>1. ASSUME NEW i \in 1..Len(waiting)', NEW k \in 1..Len(waiting)', waiting'[i] = waiting'[k]
          PROVE  i = k
      <3>1. i + 1 \in 1..Len(waiting) /\ k + 1 \in 1..Len(waiting) /\ waiting[i + 1] = waiting[k + 1]
        BY <1>3, <2>1
      <3>2. i + 1 = k + 1
        BY <1>0, <3>1 DEF Queued
      <3>3. i \in Int /\ k \in Int
        BY <2>1
      <3> QED BY <3>2, <3>3
    <2>2. \A i \in 1..Len(waiting)' : waiting'[i] <= enqueued' /\ waiting'[i] # h
      BY <1>0, <1>1, <1>2, <1>3 DEF Queued
    <2>3. \A q \in Procs : step[q] # "idle" => holds[q] # h /\ \A i \in 1..Len(waiting)' : waiting'[i] # holds[q]
      BY <1>0, <1>1, <1>3 DEF Queued
    <2> QED BY <1>0, <1>2, <1>4, <1>6, <2>1, <2>2, <2>3 DEF Queued
  <1>8. Begun'
    BY <1>0, <1>2, <1>3, <1>4, <1>6 DEF Begun
  <1>9. Statuses'
    BY <1>0, <1>1, <1>2, <1>3, <1>4 DEF Statuses, Working, Ended_
  <1>10. Followed'
    BY <1>0, <1>2, <1>4 DEF Followed, Judged
  <1>11. JobsAccounted'
    <2>1. Range(waiting)' = {waiting'[i] : i \in 1..Len(waiting)'}
      BY <1>5, WaitingIs DEF Range, JobsTypeOK
    <2>2. Held \cup {h} \subseteq Held'
      BY <1>2, <1>4 DEF Held
    <2>3. Range(waiting) \subseteq Range(waiting)' \cup {h}
      BY <1>1, <1>3, <2>1, SMTT(30)
    <2> QED BY <1>0, <1>2, <2>2, <2>3 DEF JobsAccounted
  <1>12. CompletedIsJudged'
    BY <1>0, <1>2 DEF CompletedIsJudged
  <1> QED BY <1>5, <1>7, <1>8, <1>9, <1>10, <1>11, <1>12 DEF JobsInv

\* A worker leaves the queue and its own job where they are: what is left to show.
LEMMA WorkerMoves ==
  ASSUME JobsInv, NEW p \in Procs, NEW s \in {"idle", "popped", "mark"} \cup Working,
         step[p] # "idle", step' = [step EXCEPT ![p] = s],
         UNCHANGED <<waiting, enqueued, holds>>,
         s = "idle" => \/ holds[p] \in dropped'
                       \/ job'[holds[p]].task = "audit" \/ job'[holds[p]].status \in Ended_,
         dropped \subseteq dropped', begun' \in [Jobs -> Nat],
         \A j \in Jobs : begun'[j] = begun[j] \/ (j = holds[p] /\ begun'[j] <= 1 /\ s \in Working),
         s \in {"popped", "mark"} => step[p] \in {"popped", "mark"},
         \A j \in Jobs : j # holds[p] => job'[j] = job[j],
         \A j \in Jobs : job'[j].task = job[j].task /\ job'[j].target = job[j].target,
         \A j \in Jobs : job[j].task # "audit" /\ job'[j].status \notin Ended_ => job[j].status \notin Ended_
  PROVE  Queued' /\ Begun' /\ JobsAccounted'
  <1>0. JobsTypeOK /\ Queued /\ Begun /\ Statuses /\ JobsAccounted
    BY DEF JobsInv
  <1>1. /\ Len(waiting) \in Nat /\ \A i \in 1..Len(waiting) : waiting[i] \in Jobs
        /\ enqueued \in Nat /\ MaxJobs \in Nat /\ 1..enqueued \subseteq Jobs
    BY <1>0, WaitingIs
  <1>2. step'[p] = s /\ \A q \in Procs : q # p => step'[q] = step[q]
    BY <1>0 DEF JobsTypeOK
  <1>3. Queued'
    BY <1>0, <1>2 DEF Queued
  <1>4. Begun'
    <2>1. \A j \in Jobs : begun'[j] <= 1 /\ (j > enqueued => begun'[j] = 0)
      <3> SUFFICES ASSUME NEW j \in Jobs PROVE begun'[j] <= 1 /\ (j > enqueued => begun'[j] = 0)
        OBVIOUS
      <3>1. begun[j] <= 1 /\ (j > enqueued => begun[j] = 0)
        BY <1>0 DEF Begun
      <3>2. holds[p] \in Nat /\ holds[p] <= enqueued
        BY <1>0, <1>1 DEF Queued
      <3>3. begun'[j] = begun[j] \/ (j = holds[p] /\ begun'[j] <= 1)
        OBVIOUS
      <3> QED BY <1>1, <3>1, <3>2, <3>3
    <2>2. \A i \in 1..Len(waiting) : begun'[waiting[i]] = 0
      BY <1>0, <1>1 DEF Begun, Queued
    <2>3. \A q \in Procs : step'[q] \in {"popped", "mark"} => begun'[holds[q]] = 0
      <3> SUFFICES ASSUME NEW q \in Procs, step'[q] \in {"popped", "mark"} PROVE begun'[holds[q]] = 0
        OBVIOUS
      <3>1. step[q] \in {"popped", "mark"} /\ holds[q] \in Jobs /\ begun[holds[q]] = 0
        BY <1>0, <1>1, <1>2 DEF Queued, Begun
      <3>2. q = p => s \notin Working
        BY <1>2 DEF Working, Ended_
      <3> QED BY <1>0, <1>2, <3>1, <3>2 DEF Queued
    <2> QED BY <2>1, <2>2, <2>3 DEF Begun
  <1>5. JobsAccounted'
    <2>1. \A j \in 1..enqueued : j \in Held => j \in Held' \/ j = holds[p]
      BY <1>2 DEF Held
    <2>2. s # "idle" => holds[p] \in Held'
      BY <1>2 DEF Held
    <2>3. Range(waiting)' = Range(waiting)
      OBVIOUS
    <2> SUFFICES ASSUME NEW j \in 1..enqueued, job'[j].task # "audit", job'[j].status \notin Ended_
                 PROVE  j \in Range(waiting)' \cup Held' \cup dropped'
      BY <1>1, <1>4 DEF JobsAccounted, Begun
    <2>4. j \in Jobs /\ j \in Range(waiting) \cup Held \cup dropped
      BY <1>0, <1>1 DEF JobsAccounted
    <2> QED BY <2>1, <2>2, <2>3, <2>4
  <1> QED BY <1>3, <1>4, <1>5

\* Whose job it is: two workers never have the same one.
LEMMA OwnJob ==
  ASSUME JobsInv, NEW p \in Procs, step[p] # "idle"
  PROVE  /\ holds[p] \in Jobs /\ holds[p] \in 1..enqueued /\ job[holds[p]] \in JobRecs
         /\ job[holds[p]].task \in {"ingest", "scan", "audit"}
         /\ job[holds[p]].task = "ingest" => job[holds[p]].target \in Keys
         /\ \A q \in Procs : q # p /\ step[q] # "idle" => holds[q] # holds[p]
         /\ \A i \in 1..Len(waiting) : waiting[i] # holds[p]
  <1>0. JobsTypeOK /\ Queued /\ Statuses
    BY DEF JobsInv
  <1>1. 1..enqueued \subseteq Jobs
    BY <1>0, WaitingIs
  <1>2. holds[p] \in Jobs /\ holds[p] \in 1..enqueued
    BY <1>0, <1>1 DEF Queued
  <1>3. job[holds[p]] \in JobRecs /\ job[holds[p]].task # "none"
    BY <1>0, <1>2 DEF JobsTypeOK, Statuses
  <1> QED BY <1>0, <1>2, <1>3 DEF Queued, Statuses, JobRecs

LEMMA JobsPick ==
  ASSUME JobsInv, NEW p \in Procs, Pick(p)
  PROVE  JobsInv'
  <1> DEFINE s == IF job[holds[p]].status = "pending" THEN "mark" ELSE "idle"
  <1>0. JobsTypeOK /\ Queued /\ Begun /\ Statuses /\ Followed /\ CompletedIsJudged
    BY DEF JobsInv
  <1>1. /\ step[p] = "popped" /\ step' = [step EXCEPT ![p] = s]
        /\ UNCHANGED <<job, waiting, enqueued, holds, itsRun, books, callbacks, runs, record, judgements,
                       skipped, taken, second, begun, dropped>>
    BY DEF Pick, queueVars, dbVars
  <1>2. s = "idle" => job[holds[p]].task = "audit"
    BY <1>0, <1>1 DEF Statuses
  <1>3. s \in {"idle", "mark"}
    OBVIOUS
  <1> HIDE DEF s
  <1>4. step'[p] = s /\ \A q \in Procs : q # p => step'[q] = step[q]
    BY <1>0, <1>1 DEF JobsTypeOK
  <1>5. JobsTypeOK'
    BY <1>0, <1>1, <1>3 DEF JobsTypeOK
  <1>6. Queued' /\ Begun' /\ JobsAccounted'
    <2>1. begun' \in [Jobs -> Nat] /\ s \in {"idle", "popped", "mark"} \cup Working
      BY <1>0, <1>1, <1>3 DEF JobsTypeOK
    <2> QED BY <1>1, <1>2, <1>3, <2>1, WorkerMoves
  <1>7. Statuses'
    BY <1>0, <1>1, <1>3, <1>4 DEF Statuses
  <1>8. Followed'
    BY <1>0, <1>1, <1>3, <1>4 DEF Followed, Judged
  <1>9. CompletedIsJudged'
    BY <1>0, <1>1 DEF CompletedIsJudged
  <1> QED BY <1>5, <1>6, <1>7, <1>8, <1>9 DEF JobsInv

LEMMA JobsMarkRunning ==
  ASSUME JobsInv, NEW p \in Procs, MarkRunning(p)
  PROVE  JobsInv'
  <1> DEFINE h == holds[p]
             s == job[h].task
             r == IF s = "audit" THEN job[h].run ELSE [task |-> s, second |-> second]
  <1>0. JobsTypeOK /\ Queued /\ Begun /\ Statuses /\ Followed /\ CompletedIsJudged
    BY DEF JobsInv
  <1>1. /\ step[p] = "mark" /\ step' = [step EXCEPT ![p] = s]
        /\ job' = [job EXCEPT ![h].status = "running"] /\ begun' = [begun EXCEPT ![h] = @ + 1]
        /\ itsRun' = [itsRun EXCEPT ![p] = r]
        /\ UNCHANGED <<waiting, enqueued, holds, books, callbacks, runs, record, judgements, skipped,
                       taken, second, dropped>>
    BY DEF MarkRunning, At, SetStatus, dbVars
  <1>2. /\ h \in Jobs /\ h \in 1..enqueued /\ job[h] \in JobRecs /\ s \in {"ingest", "scan", "audit"}
        /\ \A q \in Procs : q # p /\ step[q] # "idle" => holds[q] # h
        /\ \A i \in 1..Len(waiting) : waiting[i] # h
    BY <1>1, OwnJob
  <1>3. r \in RunNames
    <2>1. CASE s = "audit"
      BY <1>2, <2>1 DEF JobRecs
    <2>2. CASE s # "audit"
      BY <1>0, <1>2, <2>2 DEF JobsTypeOK, RunNames
    <2> QED BY <2>1, <2>2
  <1>4. /\ job' \in [Jobs -> JobRecs] /\ job'[h].status = "running"
        /\ \A j \in Jobs : /\ j # h => job'[j] = job[j]
                           /\ job'[j].task = job[j].task /\ job'[j].target = job[j].target
                           /\ job'[j].run = job[j].run
    BY <1>0, <1>1, <1>2 DEF JobsTypeOK, JobRecs, JobStates
  <1>5. /\ begun' \in [Jobs -> Nat] /\ begun[h] = 0 /\ begun'[h] = 1
        /\ \A j \in Jobs : j # h => begun'[j] = begun[j]
    BY <1>0, <1>1, <1>2 DEF JobsTypeOK, Begun
  <1>6. s \in Working
    BY <1>2 DEF Working
  <1> HIDE DEF s, r
  <1>7. step'[p] = s /\ \A q \in Procs : q # p => step'[q] = step[q]
    BY <1>0, <1>1 DEF JobsTypeOK
  <1>8. JobsTypeOK'
    <2>1. itsRun' \in [Procs -> RunNames]
      BY <1>0, <1>1, <1>3 DEF JobsTypeOK
    <2>2. step' \in [Procs -> {"idle", "popped", "mark"} \cup Working]
      BY <1>0, <1>1, <1>6 DEF JobsTypeOK
    <2>3. \A c \in callbacks : c.job \in Jobs
      BY <1>0, WaitingIs DEF JobsTypeOK
    <2> QED BY <1>0, <1>1, <1>4, <1>5, <2>1, <2>2, <2>3 DEF JobsTypeOK
  <1>9. Queued' /\ Begun' /\ JobsAccounted'
    <2>1. s \notin {"idle", "popped", "mark"}
      BY <1>2 DEF s
    <2>2. \A j \in Jobs : job[j].task # "audit" /\ job'[j].status \notin Ended_ => job[j].status \notin Ended_
      <3>1. job[h].task # "audit" => job[h].status = "pending"
        BY <1>0, <1>1 DEF Statuses
      <3> QED BY <1>4, <3>1 DEF Ended_
    <2>3. \A j \in Jobs : begun'[j] = begun[j] \/ (j = holds[p] /\ begun'[j] <= 1 /\ s \in Working)
      BY <1>5, <1>6
    <2>4. \A j \in Jobs : j # holds[p] => job'[j] = job[j]
      BY <1>4
    <2>5. \A j \in Jobs : job'[j].task = job[j].task /\ job'[j].target = job[j].target
      BY <1>4
    <2>6. /\ step[p] # "idle" /\ step' = [step EXCEPT ![p] = s] /\ dropped \subseteq dropped'
          /\ UNCHANGED <<waiting, enqueued, holds>> /\ begun' \in [Jobs -> Nat]
          /\ s \in {"idle", "popped", "mark"} \cup Working
      BY <1>1, <1>5, <1>6
    <2> QED BY <2>1, <2>2, <2>3, <2>4, <2>5, <2>6, WorkerMoves
  <1>10. Statuses'
    <2>1. 1..enqueued \subseteq Jobs /\ \A i \in 1..Len(waiting) : waiting[i] \in Jobs
      BY <1>0, WaitingIs
    <2>2. \A q \in Procs : q # p /\ step[q] # "idle" => holds[q] \in Jobs
      BY OwnJob
    <2>3. s \notin {"popped", "mark"}
      BY <1>2 DEF s
    <2> QED BY <1>0, <1>1, <1>2, <1>4, <1>7, <2>1, <2>2, <2>3 DEF Statuses, s
  <1>11. Followed'
    <2>1. \A q \in Procs : q # p /\ step[q] # "idle" => job'[holds[q]] = job[holds[q]]
      BY <1>2, <1>4, OwnJob
    <2>2. \A q \in Procs : q # p => itsRun'[q] = itsRun[q]
      BY <1>0, <1>1 DEF JobsTypeOK
    <2>3. s \in {"audit", "auditing", "completed"} => job'[h].task # "ingest"
      BY <1>2, <1>4 DEF s
    <2> QED BY <1>0, <1>1, <1>7, <2>1, <2>2, <2>3 DEF Followed, Judged
  <1>12. CompletedIsJudged'
    BY <1>0, <1>1, <1>4 DEF CompletedIsJudged
  <1> QED BY <1>8, <1>9, <1>10, <1>11, <1>12 DEF JobsInv

\* What a new registration takes from another run is recorded as taken.
LEMMA Registering ==
  ASSUME JobsTypeOK, NEW p \in Procs, NEW ks \in SUBSET Keys, NEW to,
         Register(p, ks, to)
  PROVE  /\ record' \in [Keys -> Records]
         /\ runs' \subseteq RunNames /\ taken \subseteq taken'
         /\ UNCHANGED <<judgements, skipped>> /\ step' = [step EXCEPT ![p] = to]
         /\ \A k \in Keys : record'[k] = record[k] \/ record[k].run \in taken'
         /\ \A k \in ks : record'[k].run = itsRun[p]
  <1>1. itsRun[p] \in RunNames
    BY DEF JobsTypeOK
  <1>2. \A k \in ks : record[k].run \in taken'
    BY DEF Register
  <1>3. /\ record' = [k \in Keys |-> IF k \in ks THEN [run |-> itsRun[p], state |-> "scanned"] ELSE record[k]]
        /\ runs' = runs \cup {itsRun[p]} /\ taken \subseteq taken' /\ UNCHANGED <<judgements, skipped>>
        /\ step' = [step EXCEPT ![p] = to]
    BY DEF Register, Registered
  <1>4. \A k \in Keys : record[k] \in Records
    BY DEF JobsTypeOK
  <1>5. record' \in [Keys -> Records]
    <2>1. [run |-> itsRun[p], state |-> "scanned"] \in Records
      BY <1>1 DEF Records
    <2> QED BY <1>3, <1>4, <2>1
  <1> QED BY <1>1, <1>2, <1>3, <1>5 DEF JobsTypeOK

LEMMA JobsScan ==
  ASSUME JobsInv, NEW p \in Procs, Scan(p)
  PROVE  JobsInv'
  <1>0. JobsTypeOK /\ Queued /\ Begun /\ Statuses /\ Followed /\ CompletedIsJudged
    BY DEF JobsInv
  <1>1. PICK s \in {"failed", "completed"} :
          /\ step' = [step EXCEPT ![p] = s] /\ taken \subseteq taken' /\ UNCHANGED <<judgements, skipped>>
          /\ record' \in [Keys -> Records]
          /\ runs' \subseteq RunNames
          /\ \A k \in Keys : record'[k] = record[k] \/ record[k].run \in taken'
    <2>1. CASE itsRun[p] \in runs
      BY <1>0, <2>1 DEF Scan, Fail, dbVars, JobsTypeOK
    <2>2. CASE itsRun[p] \notin runs
      <3>1. Register(p, LibraryBooks, "completed") /\ LibraryBooks \in SUBSET Keys
        BY <2>2 DEF Scan, Keys
      <3> QED BY <1>0, <3>1, Registering
    <2> QED BY <2>1, <2>2
  <1>2. /\ step[p] = "scan"
        /\ UNCHANGED <<job, waiting, enqueued, holds, itsRun, books, callbacks, second, begun, dropped>>
    BY DEF Scan, queueVars
  <1>3. step'[p] = s /\ s \in Working /\ \A q \in Procs : q # p => step'[q] = step[q]
    BY <1>0, <1>1 DEF JobsTypeOK, Working, Ended_
  <1>4. job[holds[p]].task = "scan"
    BY <1>0, <1>2 DEF Statuses
  <1>5. JobsTypeOK'
    BY <1>0, <1>1, <1>2, <1>3 DEF JobsTypeOK
  <1>6. Queued' /\ Begun' /\ JobsAccounted'
    <2>1. begun' \in [Jobs -> Nat] /\ s \notin {"idle", "popped", "mark"}
      BY <1>0, <1>1, <1>2 DEF JobsTypeOK
    <2> QED BY <1>1, <1>2, <1>3, <2>1, WorkerMoves
  <1>7. Statuses'
    BY <1>0, <1>1, <1>2, <1>3 DEF Statuses
  <1>8. Followed'
    <2>1. \A q \in Procs : step[q] # "idle" /\ job[holds[q]].task = "ingest" => job[holds[q]].target \in Keys
      BY OwnJob
    <2> QED BY <1>0, <1>1, <1>2, <1>3, <1>4, <2>1 DEF Followed, Judged
  <1>9. CompletedIsJudged'
    BY <1>0, <1>1, <1>2 DEF CompletedIsJudged
  <1> QED BY <1>5, <1>6, <1>7, <1>8, <1>9 DEF JobsInv

LEMMA JobsIngest ==
  ASSUME JobsInv, NEW p \in Procs, Ingest(p)
  PROVE  JobsInv'
  <1> DEFINE h == holds[p]
             JudgedNext(k, r) == <<k, r>> \in judgements' \cup skipped' \/ r \in taken'
  <1>0. JobsTypeOK /\ Queued /\ Begun /\ Statuses /\ Followed /\ CompletedIsJudged
    BY DEF JobsInv
  <1>1. /\ step[p] = "ingest"
        /\ UNCHANGED <<waiting, enqueued, holds, itsRun, books, callbacks, second, begun, dropped>>
    BY DEF Ingest
  <1>2. /\ h \in Jobs /\ h \in 1..enqueued /\ job[h] \in JobRecs /\ job[h].target \in Keys
        /\ job[h].task = "ingest" /\ job[h].status = "running"
        /\ \A q \in Procs : q # p /\ step[q] # "idle" => holds[q] # h
        /\ \A i \in 1..Len(waiting) : waiting[i] # h
    BY <1>0, <1>1, OwnJob DEF Statuses
  <1>3. PICK s \in {"failed", "audit"} :
          /\ step' = [step EXCEPT ![p] = s] /\ taken \subseteq taken' /\ UNCHANGED <<judgements, skipped>>
          /\ record' \in [Keys -> Records]
          /\ runs' \subseteq RunNames
          /\ \A k \in Keys : record'[k] = record[k] \/ record[k].run \in taken'
          /\ IF s = "failed" THEN job' = job
             ELSE /\ job' = [job EXCEPT ![h].run = itsRun[p]]
                  /\ record'[job[h].target].run = itsRun[p]
    <2>1. CASE job[h].target \notin folder \/ itsRun[p] \in runs
      <3>1. Fail(p) /\ job' = job
        BY <2>1 DEF Ingest
      <3> QED BY <1>0, <3>1 DEF Fail, dbVars, JobsTypeOK
    <2>2. CASE ~(job[h].target \notin folder \/ itsRun[p] \in runs)
      <3>1. /\ Register(p, {job[h].target}, "audit") /\ {job[h].target} \in SUBSET Keys
            /\ job' = [job EXCEPT ![h].run = itsRun[p]]
        BY <1>2, <2>2 DEF Ingest
      <3> HIDE DEF h
      <3>2. /\ step' = [step EXCEPT ![p] = "audit"] /\ taken \subseteq taken' /\ UNCHANGED <<judgements, skipped>>
            /\ record' \in [Keys -> Records]
            /\ runs' \subseteq RunNames
            /\ \A k \in Keys : record'[k] = record[k] \/ record[k].run \in taken'
            /\ record'[job[h].target].run = itsRun[p]
        BY <1>0, <3>1, Registering
      <3> QED BY <3>1, <3>2
    <2> QED BY <2>1, <2>2
  <1>4. step'[p] = s /\ s \in Working /\ \A q \in Procs : q # p => step'[q] = step[q]
    BY <1>0, <1>3 DEF JobsTypeOK, Working, Ended_
  <1>5. /\ job' \in [Jobs -> JobRecs] /\ \A j \in Jobs : j # h => job'[j] = job[j]
        /\ \A j \in Jobs : /\ job'[j].task = job[j].task /\ job'[j].target = job[j].target
                           /\ job'[j].status = job[j].status
        /\ s = "audit" => job'[h].run = itsRun[p]
    <2>1. itsRun[p] \in RunNames
      BY <1>0 DEF JobsTypeOK
    <2>2. CASE s = "failed"
      BY <1>0, <1>3, <2>2 DEF JobsTypeOK
    <2>3. CASE s = "audit"
      <3>1. job' = [job EXCEPT ![h].run = itsRun[p]] /\ job \in [Jobs -> JobRecs]
        BY <1>0, <1>3, <2>3 DEF JobsTypeOK
      <3> QED BY <1>2, <2>1, <3>1 DEF JobRecs
    <2> QED BY <2>2, <2>3
  <1> HIDE DEF h
  <1>6. JobsTypeOK'
    <2>1. \A c \in callbacks : c.job \in Jobs
      BY <1>0, WaitingIs DEF JobsTypeOK
    <2>2. step' \in [Procs -> {"idle", "popped", "mark"} \cup Working]
      BY <1>0, <1>3, <1>4 DEF JobsTypeOK
    <2> QED BY <1>0, <1>1, <1>3, <1>5, <2>1, <2>2 DEF JobsTypeOK
  <1>7. Queued' /\ Begun' /\ JobsAccounted'
    <2>1. begun' \in [Jobs -> Nat] /\ s \notin {"idle", "popped", "mark"}
      BY <1>0, <1>1, <1>3 DEF JobsTypeOK
    <2> QED BY <1>1, <1>3, <1>4, <1>5, <2>1, WorkerMoves DEF h
  <1>8. Statuses'
    <2>1. 1..enqueued \subseteq Jobs /\ \A i \in 1..Len(waiting) : waiting[i] \in Jobs
      BY <1>0, WaitingIs
    <2>2. \A q \in Procs : step[q] # "idle" => holds[q] \in Jobs
      BY OwnJob
    <2> QED BY <1>0, <1>1, <1>2, <1>3, <1>4, <1>5, <2>1, <2>2 DEF Statuses, h
  <1>9. Followed'
    <2> SUFFICES ASSUME NEW q \in Procs, step'[q] \in {"audit", "auditing", "completed"},
                        job'[holds[q]].task = "ingest"
                 PROVE  /\ job'[holds[q]].run = itsRun[q]
                        /\ step'[q] = "audit" => \/ record'[job'[holds[q]].target].run = job'[holds[q]].run
                                                 \/ job'[holds[q]].run \in taken'
                        /\ step'[q] = "auditing" => \/ job'[holds[q]].target \in books[q]
                                                    \/ JudgedNext(job'[holds[q]].target, job'[holds[q]].run)
                        /\ step'[q] = "completed" => JudgedNext(job'[holds[q]].target, job'[holds[q]].run)
      BY <1>1 DEF Followed, Judged
    <2>1. CASE q = p
      BY <1>3, <1>4, <1>5, <1>2, <2>1 DEF h
    <2>2. CASE q # p
      <3>1. /\ step'[q] = step[q] /\ job'[holds[q]] = job[holds[q]] /\ job[holds[q]].target \in Keys
        BY <1>2, <1>4, <1>5, <2>2, OwnJob
      <3> QED BY <1>0, <1>3, <3>1 DEF Followed, Judged
    <2> QED BY <2>1, <2>2
  <1>10. CompletedIsJudged'
    BY <1>0, <1>2, <1>3, <1>5 DEF CompletedIsJudged
  <1> QED BY <1>6, <1>7, <1>8, <1>9, <1>10 DEF JobsInv

LEMMA JobsLoadBooks ==
  ASSUME JobsInv, NEW p \in Procs, LoadBooks(p)
  PROVE  JobsInv'
  <1> DEFINE s == "auditing"
  <1>0. JobsTypeOK /\ Queued /\ Begun /\ Statuses /\ Followed /\ CompletedIsJudged
    BY DEF JobsInv
  <1>1. /\ step[p] = "audit" /\ step' = [step EXCEPT ![p] = s]
        /\ books' = [books EXCEPT ![p] = {k \in Keys : record[k].run = itsRun[p]}]
        /\ UNCHANGED <<job, waiting, enqueued, holds, itsRun, callbacks, runs, record, judgements,
                       skipped, taken, second, begun, dropped>>
    BY DEF LoadBooks, At, queueVars, dbVars
  <1>2. step'[p] = s /\ s \in Working /\ \A q \in Procs : q # p => step'[q] = step[q]
    BY <1>0, <1>1 DEF JobsTypeOK, Working
  <1>3. /\ books' \in [Procs -> SUBSET Keys] /\ \A q \in Procs : q # p => books'[q] = books[q]
        /\ books'[p] = {k \in Keys : record[k].run = itsRun[p]}
    BY <1>0, <1>1 DEF JobsTypeOK
  <1>4. JobsTypeOK'
    BY <1>0, <1>1, <1>2, <1>3 DEF JobsTypeOK
  <1>5. Queued' /\ Begun' /\ JobsAccounted'
    <2>1. begun' \in [Jobs -> Nat] /\ s \notin {"idle", "popped", "mark"}
      BY <1>0, <1>1 DEF JobsTypeOK
    <2> QED BY <1>1, <1>2, <2>1, WorkerMoves
  <1>6. Statuses'
    BY <1>0, <1>1, <1>2 DEF Statuses
  <1>7. Followed'
    <2>1. step[p] # "idle" /\ job[holds[p]].task = "ingest" => job[holds[p]].target \in Keys
      BY OwnJob
    <2> QED BY <1>0, <1>1, <1>2, <1>3, <2>1 DEF Followed, Judged
  <1>8. CompletedIsJudged'
    BY <1>0, <1>1 DEF CompletedIsJudged
  <1> QED BY <1>4, <1>5, <1>6, <1>7, <1>8 DEF JobsInv

LEMMA JobsAuditBook ==
  ASSUME JobsInv, NEW p \in Procs, NEW k \in Keys, AuditBook(p, k)
  PROVE  JobsInv'
  <1>0. JobsTypeOK /\ Queued /\ Begun /\ Statuses /\ Followed /\ CompletedIsJudged /\ JobsAccounted
    BY DEF JobsInv
  <1>1. /\ step[p] = "auditing" /\ k \in books[p] /\ books' = [books EXCEPT ![p] = @ \ {k}]
        /\ UNCHANGED <<job, waiting, enqueued, step, holds, itsRun, runs, taken, second, begun, dropped>>
    BY DEF AuditBook, queueVars
  <1>2. /\ judgements \subseteq judgements' /\ skipped \subseteq skipped'
        /\ <<k, itsRun[p]>> \in judgements' \cup skipped'
        /\ record' \in [Keys -> Records]
        /\ \A x \in Keys : record'[x].run = record[x].run
    <2>1. record \in [Keys -> Records]
      BY <1>0 DEF JobsTypeOK
    <2>2. \/ /\ record' = [record EXCEPT ![k].state = "judged"]
             /\ judgements' = judgements \cup {<<k, itsRun[p]>>} /\ skipped' = skipped
          \/ /\ skipped' = skipped \cup {<<k, itsRun[p]>>} /\ UNCHANGED <<record, judgements>>
      BY DEF AuditBook
    <2>3. /\ [record EXCEPT ![k].state = "judged"] \in [Keys -> Records]
          /\ \A x \in Keys : [record EXCEPT ![k].state = "judged"][x].run = record[x].run
      BY <2>1 DEF Records
    <2> QED BY <2>1, <2>2, <2>3
  <1>3. \A c \in callbacks' : c \in callbacks
          \/ (c.job = holds[p] /\ c.read = "nothing" /\ job[holds[p]].task = "audit")
    BY DEF AuditBook
  <1>4. /\ books' \in [Procs -> SUBSET Keys] /\ \A q \in Procs : q # p => books'[q] = books[q]
        /\ books'[p] = books[p] \ {k}
    BY <1>0, <1>1 DEF JobsTypeOK
  <1>5. JobsTypeOK'
    <2>1. \A c \in callbacks' : /\ c.job \in 1..enqueued' /\ job'[c.job].task = "audit"
                                /\ c.read \in {"nothing"} \cup JobStates
      BY <1>0, <1>1, <1>3, OwnJob DEF JobsTypeOK
    <2> QED BY <1>0, <1>1, <1>2, <1>4, <2>1 DEF JobsTypeOK
  <1>6. Queued' /\ Begun' /\ Statuses'
    BY <1>0, <1>1 DEF Queued, Begun, Statuses
  <1>7. JobsAccounted'
    BY <1>0, <1>1 DEF JobsAccounted, Held
  <1>8. Followed'
    <2>1. \A q \in Procs : step[q] # "idle" /\ job[holds[q]].task = "ingest" => job[holds[q]].target \in Keys
      BY OwnJob
    <2> QED BY <1>0, <1>1, <1>2, <1>4, <2>1 DEF Followed, Judged
  <1>9. CompletedIsJudged'
    BY <1>0, <1>1, <1>2 DEF CompletedIsJudged
  <1> QED BY <1>5, <1>6, <1>7, <1>8, <1>9 DEF JobsInv

LEMMA JobsEndAudit ==
  ASSUME JobsInv, NEW p \in Procs, EndAudit(p)
  PROVE  JobsInv'
  <1> DEFINE s == "completed"
  <1>0. JobsTypeOK /\ Queued /\ Begun /\ Statuses /\ Followed /\ CompletedIsJudged
    BY DEF JobsInv
  <1>1. /\ step[p] = "auditing" /\ books[p] = {} /\ step' = [step EXCEPT ![p] = s]
        /\ UNCHANGED <<job, waiting, enqueued, holds, itsRun, books, callbacks, runs, record, judgements,
                       skipped, taken, second, begun, dropped>>
    BY DEF EndAudit, At, queueVars, dbVars
  <1>2. step'[p] = s /\ s \in Working /\ \A q \in Procs : q # p => step'[q] = step[q]
    BY <1>0, <1>1 DEF JobsTypeOK, Working, Ended_
  <1>3. JobsTypeOK'
    BY <1>0, <1>1, <1>2 DEF JobsTypeOK
  <1>4. Queued' /\ Begun' /\ JobsAccounted'
    <2>1. begun' \in [Jobs -> Nat] /\ s \notin {"idle", "popped", "mark"}
      BY <1>0, <1>1 DEF JobsTypeOK
    <2> QED BY <1>1, <1>2, <2>1, WorkerMoves
  <1>5. Statuses'
    BY <1>0, <1>1, <1>2 DEF Statuses
  <1>6. Followed'
    BY <1>0, <1>1, <1>2 DEF Followed, Judged
  <1>7. CompletedIsJudged'
    BY <1>0, <1>1 DEF CompletedIsJudged
  <1> QED BY <1>3, <1>4, <1>5, <1>6, <1>7 DEF JobsInv

LEMMA JobsFinish ==
  ASSUME JobsInv, NEW p \in Procs, Finish(p)
  PROVE  JobsInv'
  <1> DEFINE h == holds[p]
             e == step[p]
             s == "idle"
  <1>0. JobsTypeOK /\ Queued /\ Begun /\ Statuses /\ Followed /\ CompletedIsJudged
    BY DEF JobsInv
  <1>1. /\ e \in Ended_ /\ step' = [step EXCEPT ![p] = s] /\ job' = [job EXCEPT ![h].status = e]
        /\ UNCHANGED <<waiting, enqueued, holds, itsRun, books, callbacks, runs, record, judgements,
                       skipped, taken, second, begun, dropped>>
    BY DEF Finish, SetStatus, dbVars
  <1>2. /\ h \in Jobs /\ h \in 1..enqueued /\ job[h] \in JobRecs
        /\ \A q \in Procs : q # p /\ step[q] # "idle" => holds[q] # h
        /\ \A i \in 1..Len(waiting) : waiting[i] # h
    BY <1>1, OwnJob DEF Ended_
  <1>3. step'[p] = s /\ \A q \in Procs : q # p => step'[q] = step[q]
    BY <1>0, <1>1 DEF JobsTypeOK
  <1>4. /\ job' \in [Jobs -> JobRecs] /\ job'[h].status = e /\ \A j \in Jobs : j # h => job'[j] = job[j]
        /\ \A j \in Jobs : /\ job'[j].task = job[j].task /\ job'[j].target = job[j].target
                           /\ job'[j].run = job[j].run
    BY <1>0, <1>1, <1>2 DEF JobsTypeOK, JobRecs, JobStates
  <1>5. e = "completed" /\ job[h].task = "ingest" => job[h].run = itsRun[p] /\ Judged(job[h].target, job[h].run)
    BY <1>0 DEF Followed
  <1> HIDE DEF h, e
  <1>6. JobsTypeOK'
    <2>1. \A c \in callbacks : c.job \in Jobs
      BY <1>0, WaitingIs DEF JobsTypeOK
    <2>2. step' \in [Procs -> {"idle", "popped", "mark"} \cup Working]
      BY <1>0, <1>1 DEF JobsTypeOK
    <2> QED BY <1>0, <1>1, <1>4, <2>1, <2>2 DEF JobsTypeOK
  <1>7. Queued' /\ Begun' /\ JobsAccounted'
    <2>1. begun' \in [Jobs -> Nat] /\ step[p] # "idle" /\ s \in {"idle", "popped", "mark"} \cup Working
      BY <1>0, <1>1 DEF JobsTypeOK, Ended_, e
    <2>2. job'[holds[p]].status \in Ended_ /\ \A j \in Jobs : j # holds[p] => job'[j] = job[j]
      BY <1>1, <1>4 DEF h
    <2>3. \A j \in Jobs : job[j].task # "audit" /\ job'[j].status \notin Ended_ => job[j].status \notin Ended_
      BY <2>2
    <2>4. dropped \subseteq dropped' /\ \A j \in Jobs : begun'[j] = begun[j]
      BY <1>1
    <2>5. \A j \in Jobs : job'[j].task = job[j].task /\ job'[j].target = job[j].target
      BY <1>4
    <2>6. step' = [step EXCEPT ![p] = s] /\ UNCHANGED <<waiting, enqueued, holds>>
      BY <1>1
    <2>7. s \notin {"popped", "mark"}
      OBVIOUS
    <2> HIDE DEF s
    <2> QED BY <2>1, <2>2, <2>3, <2>4, <2>5, <2>6, <2>7, WorkerMoves
  <1>8. Statuses'
    <2>1. 1..enqueued \subseteq Jobs /\ \A i \in 1..Len(waiting) : waiting[i] \in Jobs
      BY <1>0, WaitingIs
    <2>2. \A q \in Procs : step[q] # "idle" => holds[q] \in Jobs
      BY OwnJob
    <2> QED BY <1>0, <1>1, <1>2, <1>3, <1>4, <2>1, <2>2 DEF Statuses
  <1>9. Followed'
    <2>1. \A q \in Procs : q # p /\ step[q] # "idle" => job'[holds[q]] = job[holds[q]]
      BY <1>2, <1>4, OwnJob
    <2> QED BY <1>0, <1>1, <1>3, <2>1 DEF Followed, Judged
  <1>10. CompletedIsJudged'
    <2>1. job'[h].task = "ingest" /\ job'[h].status = "completed" =>
            \/ <<job'[h].target, job'[h].run>> \in judgements' \cup skipped'
            \/ job'[h].run \in taken'
      BY <1>1, <1>2, <1>4, <1>5 DEF Judged
    <2> QED BY <1>0, <1>1, <1>4, <2>1 DEF CompletedIsJudged
  <1> QED BY <1>6, <1>7, <1>8, <1>9, <1>10 DEF JobsInv

\* A worker that is interrupted, by an error or with its process, drops its job.
LEMMA JobsDrop ==
  ASSUME JobsInv, NEW p \in Procs, step' = [step EXCEPT ![p] = "idle"],
         \/ step[p] = "idle" /\ dropped' = dropped
         \/ step[p] # "idle" /\ dropped' = dropped \cup {holds[p]},
         books' \in [Procs -> SUBSET Keys], \A q \in Procs : q # p => books'[q] = books[q],
         callbacks' \subseteq callbacks,
         UNCHANGED <<queueVars, holds, itsRun, dbVars, second, begun>>
  PROVE  JobsInv'
  <1> DEFINE s == "idle"
  <1>0. JobsTypeOK /\ Queued /\ Begun /\ Statuses /\ Followed /\ JobsAccounted /\ CompletedIsJudged
    BY DEF JobsInv
  <1>1. UNCHANGED <<job, waiting, enqueued, holds, itsRun, runs, record, judgements, skipped, taken,
                    second, begun>>
    BY DEF queueVars, dbVars
  <1>2. step'[p] = s /\ \A q \in Procs : q # p => step'[q] = step[q]
    BY <1>0 DEF JobsTypeOK
  <1>3. JobsTypeOK'
    BY <1>0, <1>1 DEF JobsTypeOK
  <1>4. Queued' /\ Begun' /\ JobsAccounted'
    <2>1. CASE step[p] = "idle"
      <3>1. step' = step
        BY <1>0, <2>1 DEF JobsTypeOK
      <3> QED BY <1>0, <1>1, <2>1, <3>1 DEF Queued, Begun, JobsAccounted, Held
    <2>2. CASE step[p] # "idle"
      <3>1. begun' \in [Jobs -> Nat] /\ s \in {"idle", "popped", "mark"} \cup Working
        BY <1>0, <1>1 DEF JobsTypeOK
      <3>2. dropped \subseteq dropped' /\ holds[p] \in dropped' /\ s \notin {"popped", "mark"}
        BY <2>2
      <3> QED BY <1>1, <2>2, <3>1, <3>2, WorkerMoves
    <2> QED BY <2>1, <2>2
  <1>5. Statuses'
    BY <1>0, <1>1, <1>2 DEF Statuses
  <1>6. Followed'
    BY <1>0, <1>1, <1>2 DEF Followed, Judged
  <1>7. CompletedIsJudged'
    BY <1>0, <1>1 DEF CompletedIsJudged
  <1> QED BY <1>3, <1>4, <1>5, <1>6, <1>7 DEF JobsInv

\* A progress update reads a status, and later writes it back: of an audit job.
LEMMA JobsReadProgress ==
  ASSUME JobsInv, NEW c \in callbacks, ReadProgress(c)
  PROVE  JobsInv'
  <1>0. JobsTypeOK /\ Queued /\ Begun /\ Statuses /\ Followed /\ JobsAccounted /\ CompletedIsJudged
    BY DEF JobsInv
  <1>1. UNCHANGED <<job, waiting, enqueued, step, holds, itsRun, books, runs, record, judgements, skipped,
                    taken, second, begun, dropped>>
    BY DEF ReadProgress, queueVars, dbVars
  <1>2. \A d \in callbacks' : /\ d.job \in 1..enqueued /\ job[d.job].task = "audit"
                              /\ d.read \in {"nothing"} \cup JobStates
    <2> DEFINE d == [c EXCEPT !.read = job[c.job].status]
    <2>1. callbacks' = (callbacks \ {c}) \cup {d}
      BY DEF ReadProgress
    <2>2. c.job \in 1..enqueued /\ job[c.job].task = "audit" /\ c.job \in Jobs
      BY <1>0, WaitingIs DEF JobsTypeOK
    <2>3. job[c.job].status \in JobStates
      BY <1>0, <2>2 DEF JobsTypeOK, JobRecs
    <2>4. d.read = job[c.job].status /\ d.job = c.job
      OBVIOUS
    <2> HIDE DEF d
    <2> QED BY <1>0, <2>1, <2>2, <2>3, <2>4 DEF JobsTypeOK
  <1>3. JobsTypeOK'
    BY <1>0, <1>1, <1>2 DEF JobsTypeOK
  <1>4. Queued' /\ Begun' /\ Statuses' /\ Followed' /\ JobsAccounted' /\ CompletedIsJudged'
    BY <1>0, <1>1 DEF Queued, Begun, Statuses, Followed, Judged, JobsAccounted, Held, CompletedIsJudged
  <1> QED BY <1>3, <1>4 DEF JobsInv

LEMMA JobsWriteProgress ==
  ASSUME JobsInv, NEW c \in callbacks, WriteProgress(c)
  PROVE  JobsInv'
  <1> DEFINE h == c.job
             e == c.read
  <1>0. JobsTypeOK /\ Queued /\ Begun /\ Statuses /\ Followed /\ JobsAccounted /\ CompletedIsJudged
    BY DEF JobsInv
  <1>1. /\ e # "nothing" /\ job' = [job EXCEPT ![h].status = e] /\ callbacks' = callbacks \ {c}
        /\ UNCHANGED <<waiting, enqueued, step, holds, itsRun, books, runs, record, judgements, skipped,
                       taken, second, begun, dropped>>
    BY DEF WriteProgress, SetStatus, dbVars
  <1>2. /\ h \in Jobs /\ job[h].task = "audit" /\ e \in JobStates
        /\ 1..enqueued \subseteq Jobs /\ \A i \in 1..Len(waiting) : waiting[i] \in Jobs
    BY <1>0, <1>1, WaitingIs DEF JobsTypeOK
  <1>3. /\ job' \in [Jobs -> JobRecs]
        /\ \A j \in Jobs : /\ j # h => job'[j] = job[j]
                           /\ job'[j].task = job[j].task /\ job'[j].target = job[j].target
                           /\ job'[j].run = job[j].run
                           /\ job[j].task # "audit" => job'[j] = job[j]
    BY <1>0, <1>1, <1>2, ZenonT(60) DEF JobsTypeOK, JobRecs
  <1> HIDE DEF h, e
  <1>4. JobsTypeOK'
    <2>1. \A d \in callbacks' : /\ d.job \in 1..enqueued' /\ job'[d.job].task = "audit"
                                /\ d.read \in {"nothing"} \cup JobStates
      BY <1>0, <1>1, <1>2, <1>3 DEF JobsTypeOK
    <2> QED BY <1>0, <1>1, <1>3, <2>1 DEF JobsTypeOK
  <1>5. Queued' /\ Begun'
    BY <1>0, <1>1 DEF Queued, Begun
  <1>6. \A p \in Procs : step[p] # "idle" => holds[p] \in Jobs
    BY OwnJob
  <1>7. Statuses'
    BY <1>0, <1>1, <1>2, <1>3, <1>6 DEF Statuses
  <1>8. Followed'
    BY <1>0, <1>1, <1>3, <1>6 DEF Followed, Judged
  <1>9. JobsAccounted'
    BY <1>0, <1>1, <1>2, <1>3 DEF JobsAccounted, Held
  <1>10. CompletedIsJudged'
    <2> SUFFICES ASSUME NEW j \in Jobs, job'[j].task = "ingest", job'[j].status = "completed"
                 PROVE  <<job'[j].target, job'[j].run>> \in judgements' \cup skipped' \/ job'[j].run \in taken'
      BY DEF CompletedIsJudged
    <2>1. job[j].task = "ingest"
      BY <1>3
    <2>2. job'[j] = job[j]
      BY <1>3, <2>1
    <2>3. <<job[j].target, job[j].run>> \in judgements \cup skipped \/ job[j].run \in taken
      BY <1>0, <2>1, <2>2 DEF CompletedIsJudged
    <2> QED BY <1>1, <2>2, <2>3
  <1> QED BY <1>4, <1>5, <1>7, <1>8, <1>9, <1>10 DEF JobsInv

LEMMA JobsStep ==
  ASSUME JobsInv, [JobsNext]_jobVars
  PROVE  JobsInv'
  <1>0. JobsTypeOK /\ second \in Nat
    BY DEF JobsInv, JobsTypeOK
  <1>1. ASSUME NEW k \in Paths, AddFile(k) \/ RemoveFile(k) PROVE JobsInv'
    BY <1>0, <1>1, JobsStay DEF AddFile, RemoveFile
  <1>2. ASSUME NEW p \in Procs, Start(p) PROVE JobsInv'
    BY <1>0, <1>2, JobsStay DEF Start
  <1>3. ASSUME Second PROVE JobsInv'
    BY <1>0, <1>3, JobsStay DEF Second
  <1>4. ASSUME NEW k \in Paths, NEW p \in Procs, OnCreated(p, k) \/ Poll(p, k) PROVE JobsInv'
    <2>1. /\ Enqueue(IngestJob(k)) /\ UNCHANGED <<loopVars, dbVars, second, begun>>
      BY <1>4 DEF OnCreated, Poll
    <2>2. /\ IngestJob(k) \in JobRecs /\ IngestJob(k).task = "ingest" /\ IngestJob(k).target = k /\ k \in Keys
      BY NoJobIs DEF IngestJob, JobRecs, Keys
    <2> QED BY <2>1, <2>2, JobsEnqueue
  <1>5. ASSUME RequestScan PROVE JobsInv'
    <2> DEFINE j == [NoJob EXCEPT !.task = "scan"]
    <2>1. /\ Enqueue(j) /\ UNCHANGED <<loopVars, dbVars, second, begun>>
      BY <1>5 DEF RequestScan
    <2>2. /\ j \in JobRecs /\ j.task = "scan"
      BY NoJobIs DEF JobRecs
    <2> HIDE DEF j
    <2> QED BY <2>1, <2>2, JobsEnqueue
  <1>6. ASSUME NEW r \in runs, RequestAudit(r) PROVE JobsInv'
    <2> DEFINE j == [NoJob EXCEPT !.task = "audit", !.run = r]
    <2>1. /\ Enqueue(j) /\ UNCHANGED <<loopVars, dbVars, second, begun>>
      BY <1>6 DEF RequestAudit
    <2>2. r \in RunNames
      BY <1>0 DEF JobsTypeOK
    <2>3. /\ j \in JobRecs /\ j.task = "audit"
      BY <2>2, NoJobIs DEF JobRecs
    <2> HIDE DEF j
    <2> QED BY <2>1, <2>3, JobsEnqueue
  <1>7. ASSUME NEW p \in Procs, LoseJob(p) PROVE JobsInv'
    <2>1. /\ step' = [step EXCEPT ![p] = "idle"] /\ step[p] # "idle" /\ dropped' = dropped \cup {holds[p]}
          /\ UNCHANGED <<queueVars, holds, itsRun, books, callbacks, dbVars, second, begun>>
      BY <1>7 DEF LoseJob, Ended_
    <2> QED BY <1>0, <2>1, JobsDrop DEF JobsTypeOK
  <1>8. ASSUME NEW p \in Procs, Stop(p) PROVE JobsInv'
    <2>1. /\ step' = [step EXCEPT ![p] = "idle"] /\ callbacks' \subseteq callbacks
          /\ books' = [books EXCEPT ![p] = {}]
          /\ dropped' = IF step[p] = "idle" THEN dropped ELSE dropped \cup {holds[p]}
          /\ UNCHANGED <<queueVars, holds, itsRun, dbVars, second, begun>>
      BY <1>8 DEF Stop
    <2>2. books' \in [Procs -> SUBSET Keys] /\ \A q \in Procs : q # p => books'[q] = books[q]
      BY <1>0, <2>1 DEF JobsTypeOK
    <2> QED BY <2>1, <2>2, JobsDrop
  <1>9. ASSUME UNCHANGED jobVars PROVE JobsInv'
    BY <1>0, <1>9, JobsStay DEF jobVars
  <1>10. ASSUME NEW p \in Procs, NEW k \in Keys, AuditBook(p, k) PROVE JobsInv'
    BY <1>10, JobsAuditBook
  <1>11. ASSUME NEW p \in Procs,
                \/ Dequeue(p) \/ Pick(p) \/ MarkRunning(p) \/ Scan(p) \/ Ingest(p) \/ LoadBooks(p)
                \/ EndAudit(p) \/ Finish(p)
         PROVE  JobsInv'
    BY <1>11, JobsDequeue, JobsPick, JobsMarkRunning, JobsScan, JobsIngest, JobsLoadBooks, JobsEndAudit,
       JobsFinish
  <1>12. ASSUME NEW c \in callbacks, ReadProgress(c) \/ WriteProgress(c) PROVE JobsInv'
    BY <1>12, JobsReadProgress, JobsWriteProgress
  <1> QED BY <1>1, <1>2, <1>3, <1>4, <1>5, <1>6, <1>7, <1>8, <1>9, <1>10, <1>11, <1>12 DEF JobsNext

LEMMA JobsInvariant == JobsSpec => []JobsInv
  <1>1. JobsInv /\ [JobsNext]_jobVars => JobsInv'
    BY JobsStep
  <1> QED BY JobsStart, <1>1, PTL DEF JobsSpec

\* However many files, requests, processes, ends and failing calls there are, no
\* job is begun twice, and one of the scans and the ingested files without an
\* outcome is in the queue, with a worker, or was lost with one (enqueue, dequeue,
\* worker_loop).
THEOREM JobsAreAccountedFor == JobsSpec => []JobsAccounted
  <1>1. JobsInv => JobsAccounted
    BY DEF JobsInv
  <1> QED BY JobsInvariant, <1>1, PTL

\* A file whose job says completed was judged, or its audit raised, or a later
\* registration took it over (audit_ingested_file).
THEOREM IngestedMeansJudged == JobsSpec => []CompletedIsJudged
  <1>1. JobsInv => CompletedIsJudged
    BY DEF JobsInv
  <1> QED BY JobsInvariant, <1>1, PTL

-----------------------------------------------------------------------------
(* A V1 verification run.                                                  *)

Marks == {"pending", "completed", "failed"}

LegacyTypeOK ==
    /\ legacyRun \in [status : {"none", "running", "completed"}, total : Nat, completed : Nat,
                      counts : [Actions -> Nat]]
    /\ verdicts \in [DOMAIN verdicts -> Actions] /\ DOMAIN verdicts \subseteq 1..legacyRun.total
    /\ position \in Nat /\ committed \in BOOLEAN /\ legacyEnds \in Nat

\* How far the task is says which books can have a verdict.
Walked ==
    /\ position # 0 => /\ legacyRun.status = "running" /\ legacyEnds = 0
                       /\ position <= legacyRun.total + 1
                       /\ \A b \in DOMAIN verdicts : b < position \/ (b = position /\ committed)
    /\ position = 0 => ~committed
    /\ committed => position \in DOMAIN verdicts
    /\ legacyRun.status = "none" => legacyRun = NoLegacyRun /\ DOMAIN verdicts = {} /\ position = 0

\* The store marks as failed the books the task has passed without a verdict.
Marked ==
    /\ position # 0 =>
          /\ store \in [1..legacyRun.total -> Marks]
          /\ \A b \in 1..legacyRun.total :
                store[b] = "failed" <=> b < position /\ b \notin DOMAIN verdicts
    /\ legacyRun.status = "completed" /\ legacyEnds = 0 =>
          \A b \in 1..legacyRun.total : store[b] = "failed" <=> b \notin DOMAIN verdicts

LegacyInv == LegacyTypeOK /\ Walked /\ Marked /\ LegacyAccounts

\* Max is the member that no other exceeds.
LEMMA MaxIs ==
  ASSUME NEW S \in SUBSET Nat, NEW m \in S, \A y \in S : m >= y
  PROVE  Max(S) = m
  <1> DEFINE Highest(x) == \A y \in S : x >= y
  <1>1. Max(S) = CHOOSE x \in S : Highest(x)
    BY DEF Max
  <1>2. \E x \in S : Highest(x)
    OBVIOUS
  <1> HIDE DEF Highest
  <1>3. Max(S) \in S /\ Highest(Max(S))
    BY <1>1, <1>2
  <1>4. Max(S) >= m /\ m >= Max(S) /\ Max(S) \in Nat
    BY <1>3 DEF Highest
  <1> QED BY <1>4

\* The verdicts of an action are finitely many.
LEMMA VerdictsFinite ==
  ASSUME LegacyTypeOK
  PROVE  \A x : IsFiniteSet({b \in DOMAIN verdicts : verdicts[b] = x})
  <1> SUFFICES ASSUME NEW x PROVE IsFiniteSet({b \in DOMAIN verdicts : verdicts[b] = x})
    OBVIOUS
  <1>1. legacyRun.total \in Nat
    BY DEF LegacyTypeOK
  <1>2. IsFiniteSet(1..legacyRun.total)
    BY <1>1, FS_Interval
  <1>3. {b \in DOMAIN verdicts : verdicts[b] = x} \in SUBSET (1..legacyRun.total)
    BY DEF LegacyTypeOK
  <1> QED BY <1>2, <1>3, FS_Subset

LEMMA LegacyStart == LegacyInit => LegacyInv
  <1> SUFFICES ASSUME LegacyInit PROVE LegacyInv
    OBVIOUS
  <1>1. /\ legacyRun.status = "none" /\ legacyRun.total = 0 /\ legacyRun.completed = 0
        /\ \A x \in Actions : legacyRun.counts[x] = 0
        /\ position = 0 /\ committed = FALSE /\ legacyEnds = 0
    BY DEF LegacyInit, NoLegacyRun
  <1>2. DOMAIN verdicts = {}
    BY DEF LegacyInit
  <1>3. LegacyTypeOK
    <2>1. verdicts \in [{} -> Actions]
      BY DEF LegacyInit
    <2>2. NoLegacyRun \in [status : {"none", "running", "completed"}, total : Nat, completed : Nat,
                           counts : [Actions -> Nat]]
      BY DEF NoLegacyRun
    <2> QED BY <1>1, <1>2, <2>1, <2>2 DEF LegacyTypeOK, LegacyInit
  <1>4. Walked /\ Marked
    BY <1>1, <1>2 DEF Walked, Marked, LegacyInit
  <1>5. LegacyAccounts
    <2>1. \A x : {b \in DOMAIN verdicts : verdicts[b] = x} = {}
      BY <1>2
    <2> QED BY <1>1, <1>2, <2>1, FS_EmptySet DEF LegacyAccounts
  <1> QED BY <1>3, <1>4, <1>5 DEF LegacyInv

LEMMA LegacyPost ==
  ASSUME LegacyInv, PostLegacy
  PROVE  LegacyInv'
  <1>0. LegacyTypeOK /\ Walked /\ Marked /\ LegacyAccounts
    BY DEF LegacyInv
  <1>1. PICK n \in 0..MaxLegacyBooks :
          /\ legacyRun' = [NoLegacyRun EXCEPT !.status = "running", !.total = n]
          /\ store' = [b \in 1..n |-> "pending"]
    BY DEF PostLegacy
  <1>2. /\ legacyRun.status = "none" /\ legacyEnds = 0 /\ position' = 1 /\ n \in Nat
        /\ UNCHANGED <<verdicts, committed, legacyEnds>>
    BY LegacyAssumption DEF PostLegacy
  <1>3. /\ DOMAIN verdicts = {} /\ ~committed /\ legacyRun = NoLegacyRun
    BY <1>0, <1>2 DEF Walked
  <1>4. /\ legacyRun'.status = "running" /\ legacyRun'.total = n
        /\ legacyRun'.completed = 0 /\ legacyRun'.counts = [x \in Actions |-> 0]
        /\ legacyRun' \in [status : {"none", "running", "completed"}, total : Nat, completed : Nat,
                           counts : [Actions -> Nat]]
    BY <1>1, <1>2 DEF NoLegacyRun
  <1>5. LegacyTypeOK'
    BY <1>0, <1>2, <1>3, <1>4 DEF LegacyTypeOK
  <1>6. Walked'
    BY <1>2, <1>3, <1>4 DEF Walked
  <1>7. Marked'
    BY <1>1, <1>2, <1>3, <1>4 DEF Marked, Marks
  <1>8. LegacyAccounts'
    <2>1. \A x : {b \in DOMAIN verdicts' : verdicts'[b] = x} = {}
      BY <1>2, <1>3
    <2> QED BY <1>2, <1>3, <1>4, <2>1, FS_EmptySet DEF LegacyAccounts
  <1> QED BY <1>5, <1>6, <1>7, <1>8 DEF LegacyInv

\* A verdict counts once, for its action, and the progress moves to its book.
LEMMA LegacyJudge ==
  ASSUME LegacyInv, NEW x \in Actions, JudgeLegacy(x)
  PROVE  LegacyInv'
  <1> DEFINE D == DOMAIN verdicts
             Of(y) == {b \in DOMAIN verdicts : verdicts[b] = y}
  <1>0. LegacyTypeOK /\ Walked /\ Marked /\ LegacyAccounts
    BY DEF LegacyInv
  <1>1. /\ position \in 1..legacyRun.total /\ ~committed
        /\ legacyRun' = [legacyRun EXCEPT !.counts = Tallied(@, x), !.completed = position]
        /\ verdicts' = [b \in D \cup {position} |-> IF b = position THEN x ELSE verdicts[b]]
        /\ committed' = TRUE /\ UNCHANGED <<store, position, legacyEnds>>
    BY DEF JudgeLegacy, AtBook
  <1>2. /\ legacyRun.total \in Nat /\ position \in Nat /\ position # 0 /\ D \subseteq Nat
        /\ \A b \in D : b < position
    BY <1>0, <1>1 DEF LegacyTypeOK, Walked
  <1>3. /\ DOMAIN verdicts' = D \cup {position} /\ verdicts'[position] = x /\ position \notin D
        /\ \A b \in D : verdicts'[b] = verdicts[b]
    BY <1>1, <1>2
  <1>4. /\ legacyRun'.status = legacyRun.status /\ legacyRun'.total = legacyRun.total
        /\ legacyRun'.completed = position /\ legacyRun'.counts = [legacyRun.counts EXCEPT ![x] = @ + 1]
        /\ legacyRun'.counts \in [Actions -> Nat]
        /\ legacyRun' \in [status : {"none", "running", "completed"}, total : Nat, completed : Nat,
                           counts : [Actions -> Nat]]
    <2>1. legacyRun \in [status : {"none", "running", "completed"}, total : Nat, completed : Nat,
                         counts : [Actions -> Nat]]
      BY <1>0 DEF LegacyTypeOK
    <2> DEFINE c == [legacyRun.counts EXCEPT ![x] = @ + 1]
    <2>2. c \in [Actions -> Nat]
      BY <2>1
    <2>3. legacyRun' = [legacyRun EXCEPT !.counts = c, !.completed = position]
      BY <1>1 DEF Tallied
    <2> HIDE DEF c
    <2>4. legacyRun'.counts = c
      BY <2>1, <2>3
    <2> QED BY <1>2, <2>1, <2>2, <2>3, <2>4 DEF c
  <1>5. legacyRun.status = "running"
    BY <1>0, <1>2 DEF Walked
  <1>6. LegacyTypeOK'
    BY <1>0, <1>1, <1>2, <1>3, <1>4 DEF LegacyTypeOK
  <1>7. Walked'
    BY <1>0, <1>1, <1>2, <1>3, <1>4, <1>5 DEF Walked
  <1>8. Marked'
    BY <1>0, <1>1, <1>2, <1>3, <1>4, <1>5 DEF Marked
  <1>9. LegacyAccounts'
    <2>1. \A y \in Actions : legacyRun'.counts[y] = Cardinality({b \in DOMAIN verdicts' : verdicts'[b] = y})
      <3> SUFFICES ASSUME NEW y \in Actions
                   PROVE  legacyRun'.counts[y] = Cardinality({b \in DOMAIN verdicts' : verdicts'[b] = y})
        OBVIOUS
      <3>1. IsFiniteSet(Of(y)) /\ legacyRun.counts[y] = Cardinality(Of(y)) /\ legacyRun.counts \in [Actions -> Nat]
        BY <1>0, VerdictsFinite DEF LegacyAccounts, LegacyTypeOK
      <3>2. CASE y = x
        <4>1. {b \in DOMAIN verdicts' : verdicts'[b] = y} = Of(y) \cup {position} /\ position \notin Of(y)
          BY <1>3, <3>2
        <4>2. Cardinality(Of(y) \cup {position}) = Cardinality(Of(y)) + 1
          BY <3>1, <4>1, FS_AddElement
        <4> QED BY <1>4, <3>1, <3>2, <4>1, <4>2
      <3>3. CASE y # x
        <4>1. {b \in DOMAIN verdicts' : verdicts'[b] = y} = Of(y)
          BY <1>3, <3>3
        <4> QED BY <1>4, <3>1, <3>3, <4>1
      <3> QED BY <3>2, <3>3
    <2>2. Max(DOMAIN verdicts') = position
      <3>1. DOMAIN verdicts' \in SUBSET Nat /\ position \in DOMAIN verdicts'
            /\ \A y \in DOMAIN verdicts' : position >= y
        BY <1>2, <1>3
      <3> QED BY <3>1, MaxIs
    <2> QED BY <1>3, <1>4, <1>5, <2>1, <2>2 DEF LegacyAccounts
  <1> QED BY <1>6, <1>7, <1>8, <1>9 DEF LegacyInv

\* A mark moves the task to the next book.
LEMMA LegacyMark ==
  ASSUME LegacyInv, AtBook, NEW s \in Marks, Mark(s), s = "failed" <=> ~committed
  PROVE  LegacyInv'
  <1>0. LegacyTypeOK /\ Walked /\ Marked /\ LegacyAccounts
    BY DEF LegacyInv
  <1>1. /\ position \in 1..legacyRun.total /\ store' = [store EXCEPT ![position] = s]
        /\ position' = position + 1 /\ committed' = FALSE
        /\ UNCHANGED <<legacyRun, verdicts, legacyEnds>>
    BY DEF AtBook, Mark
  <1>2. /\ legacyRun.total \in Nat /\ position \in Nat /\ position # 0 /\ DOMAIN verdicts \subseteq Nat
        /\ legacyRun.status = "running"
        /\ \A b \in DOMAIN verdicts : b < position \/ (b = position /\ committed)
        /\ store \in [1..legacyRun.total -> Marks]
        /\ committed <=> position \in DOMAIN verdicts
    BY <1>0, <1>1 DEF LegacyTypeOK, Walked, Marked
  <1>3. LegacyTypeOK'
    <2>1. position' \in Nat
      BY <1>1, <1>2
    <2>2. committed' \in BOOLEAN
      BY <1>1, Zenon
    <2> QED BY <1>0, <1>1, <2>1, <2>2 DEF LegacyTypeOK
  <1>4. Walked'
    BY <1>0, <1>1, <1>2 DEF Walked
  <1>5. \A b \in 1..legacyRun.total : store'[b] = "failed" <=> b < position + 1 /\ b \notin DOMAIN verdicts
    <2> SUFFICES ASSUME NEW b \in 1..legacyRun.total
                 PROVE  store'[b] = "failed" <=> b < position + 1 /\ b \notin DOMAIN verdicts
      OBVIOUS
    <2>1. CASE b = position
      BY <1>1, <1>2, <2>1
    <2>2. CASE b # position
      <3>1. store'[b] = store[b] /\ (b < position + 1 <=> b < position)
        BY <1>1, <1>2, <2>2
      <3> QED BY <1>0, <1>2, <3>1 DEF Marked
    <2> QED BY <2>1, <2>2
  <1>6. Marked'
    BY <1>1, <1>2, <1>5 DEF Marked
  <1>7. LegacyAccounts'
    BY <1>0, <1>1, <1>2 DEF LegacyAccounts
  <1> QED BY <1>3, <1>4, <1>6, <1>7 DEF LegacyInv

LEMMA LegacyFinish ==
  ASSUME LegacyInv, FinishLegacy
  PROVE  LegacyInv'
  <1>0. LegacyTypeOK /\ Walked /\ Marked /\ LegacyAccounts
    BY DEF LegacyInv
  <1>1. /\ position > legacyRun.total /\ legacyRun' = [legacyRun EXCEPT !.status = "completed"]
        /\ position' = 0 /\ UNCHANGED <<verdicts, store, committed, legacyEnds>>
    BY DEF FinishLegacy
  <1>2. /\ legacyRun.total \in Nat /\ position \in Nat /\ position # 0 /\ ~committed
        /\ DOMAIN verdicts \subseteq 1..legacyRun.total
    BY <1>0, <1>1 DEF LegacyTypeOK, Walked
  <1>3. /\ legacyRun'.status = "completed" /\ legacyRun'.total = legacyRun.total
        /\ legacyRun'.completed = legacyRun.completed /\ legacyRun'.counts = legacyRun.counts
        /\ legacyRun' \in [status : {"none", "running", "completed"}, total : Nat, completed : Nat,
                           counts : [Actions -> Nat]]
    <2>1. legacyRun \in [status : {"none", "running", "completed"}, total : Nat, completed : Nat,
                         counts : [Actions -> Nat]]
      BY <1>0 DEF LegacyTypeOK
    <2> QED BY <1>1, <2>1
  <1>4. LegacyTypeOK' /\ Walked'
    BY <1>0, <1>1, <1>2, <1>3 DEF LegacyTypeOK, Walked
  <1>5. \A b \in 1..legacyRun.total : store[b] = "failed" <=> b \notin DOMAIN verdicts
    BY <1>0, <1>1, <1>2 DEF Marked
  <1>6. Marked'
    BY <1>1, <1>3, <1>5 DEF Marked
  <1>7. LegacyAccounts'
    <2>1. {b \in 1..legacyRun.total : store[b] = "failed"} = (1..legacyRun.total) \ DOMAIN verdicts
      BY <1>5
    <2> QED BY <1>0, <1>1, <1>3, <2>1 DEF LegacyAccounts
  <1> QED BY <1>4, <1>6, <1>7 DEF LegacyInv

LEMMA LegacyEnd ==
  ASSUME LegacyInv, EndLegacy
  PROVE  LegacyInv'
  <1>0. LegacyTypeOK /\ Walked /\ Marked /\ LegacyAccounts
    BY DEF LegacyInv
  <1>1. /\ legacyEnds' = legacyEnds + 1 /\ position' = 0 /\ committed' = FALSE
        /\ UNCHANGED <<legacyRun, verdicts>> /\ legacyEnds' # 0 /\ legacyEnds' \in Nat
    BY <1>0 DEF EndLegacy, LegacyTypeOK
  <1>2. LegacyTypeOK' /\ Walked' /\ Marked' /\ LegacyAccounts'
    BY <1>0, <1>1 DEF LegacyTypeOK, Walked, Marked, LegacyAccounts
  <1> QED BY <1>2 DEF LegacyInv

\* What a client polls adds up, for every number of books and wherever the
\* process ends (start_verify, get_verify_run).
THEOREM LegacyRunsAddUp == LegacySpec => []LegacyAccounts
  <1>1. LegacyInv /\ [LegacyNext]_legacyVars => LegacyInv'
    <2> SUFFICES ASSUME LegacyInv, [LegacyNext]_legacyVars PROVE LegacyInv'
      OBVIOUS
    <2>1. ASSUME MarkCompleted PROVE LegacyInv'
      BY <2>1, LegacyMark DEF MarkCompleted, Marks
    <2>2. ASSUME BookFailed PROVE LegacyInv'
      BY <2>2, LegacyMark DEF BookFailed, Marks
    <2>3. ASSUME UNCHANGED legacyVars PROVE LegacyInv'
      BY <2>3 DEF legacyVars, LegacyInv, LegacyTypeOK, Walked, Marked, LegacyAccounts
    <2> QED
      BY <2>1, <2>2, <2>3, LegacyPost, LegacyJudge, LegacyFinish, LegacyEnd DEF LegacyNext
  <1>2. LegacyInv => LegacyAccounts
    BY DEF LegacyInv
  <1> QED BY LegacyStart, <1>1, <1>2, PTL DEF LegacySpec

-----------------------------------------------------------------------------
(* The review of covers.                                                   *)

DeckTypeOK ==
    /\ shelf \in [Ids -> Covers \cup {NoBook_}] /\ folder_ \in [Ids -> Nat]
    /\ untouched \subseteq Ids /\ deck \subseteq Ids /\ shown \subseteq Ids
    /\ cursor \in Nat /\ lastId \in Nat /\ limit \in Nat
    /\ page \in Seq([id : Ids, path : Nat])
    /\ deckStep \in {"idle", "streaming", "finished"}

\* The books the operator must see, as far as they stay as they were.
Due == {b \in untouched : shelf[b] \in {"missing", "faulty"}}

\* A page is in order, between the cards so far and the last row that was read,
\* and up to date about the books nobody has changed.
Paged ==
    /\ \A b \in untouched : shelf[b] # NoBook_
    /\ \A i, k \in 1..Len(page) : i < k => page[i].id < page[k].id
    /\ \A i \in 1..Len(page) :
          /\ page[i].id <= lastId /\ \A d \in deck : d < page[i].id
          /\ page[i].id \in untouched => page[i].path = folder_[page[i].id]

\* The cards of a request come after the cursor, and one of them is the last.
Dealt ==
    /\ \A d \in deck : cursor < d /\ d <= lastId /\ (d \in untouched => d \in Due)
    /\ deck # {} => \E d \in deck : \A c \in deck : c <= d
    /\ deckStep = "idle" => deck = {} /\ page = <<>> /\ lastId = 0
    /\ deckStep = "streaming" => limit > 0
    /\ deckStep = "finished" => Due \subseteq shown

\* Up to the cursor, and to every card that was shown, nothing is left out.
Shown ==
    /\ \A b \in shown : b \in untouched => b \in Due
    /\ \A c \in shown \cup {cursor} : \A b \in Due : b <= c => b \in shown

\* What is after the cursor is on a card, on the page, or not read yet.
Coming ==
    deckStep = "streaming" =>
        \A b \in Due : b > cursor =>
            b \in deck \/ b > lastId \/ \E i \in 1..Len(page) : page[i].id = b

DeckInv == DeckTypeOK /\ Paged /\ Dealt /\ Shown /\ Coming

LEMMA DeckStart == DeckInit => DeckInv
  <1> SUFFICES ASSUME DeckInit PROVE DeckInv
    OBVIOUS
  <1>1. Len(page) = 0 /\ page \in Seq([id : Ids, path : Nat])
    BY DEF DeckInit
  <1>2. Ids \subseteq Nat /\ \A b \in Ids : b > 0
    BY DEF Ids
  <1>3. DeckTypeOK
    BY <1>1 DEF DeckInit, DeckTypeOK
  <1>4. Paged /\ Dealt
    BY <1>1 DEF DeckInit, Paged, Dealt
  <1>5. Shown /\ Coming
    BY <1>2 DEF DeckInit, Shown, Coming, Due
  <1> QED BY <1>3, <1>4, <1>5 DEF DeckInv

\* A book that Calibre adds or changes is no longer untouched; the others are as
\* they were.
LEMMA LibraryChanges ==
  ASSUME DeckInv, NEW b \in Ids, Change(b),
         shelf' \in [Ids -> Covers \cup {NoBook_}], folder_' \in [Ids -> Nat],
         \A c \in Ids : c # b => shelf'[c] = shelf[c] /\ folder_'[c] = folder_[c]
  PROVE  DeckInv'
  <1>0. DeckTypeOK /\ Paged /\ Dealt /\ Shown /\ Coming
    BY DEF DeckInv
  <1>1. /\ untouched' = untouched \ {b}
        /\ UNCHANGED <<deckStep, limit, lastId, page, deck, cursor, shown>>
    BY DEF Change
  <1>2. Due' = Due \ {b}
    <2>1. \A c \in untouched' : c \in Ids /\ c # b /\ shelf'[c] = shelf[c]
      BY <1>0, <1>1 DEF DeckTypeOK
    <2> QED BY <1>1, <2>1 DEF Due
  <1>3. DeckTypeOK'
    BY <1>0, <1>1 DEF DeckTypeOK
  <1>4. Paged'
    <2>1. \A c \in untouched' : c \in Ids /\ c # b /\ c \in untouched
      BY <1>0, <1>1 DEF DeckTypeOK
    <2> QED BY <1>0, <1>1, <2>1 DEF Paged
  <1>5. Dealt'
    BY <1>0, <1>1, <1>2 DEF Dealt
  <1>6. Shown'
    BY <1>0, <1>1, <1>2 DEF Shown
  <1>7. Coming'
    BY <1>0, <1>1, <1>2 DEF Coming
  <1> QED BY <1>3, <1>4, <1>5, <1>6, <1>7 DEF DeckInv

LEMMA DeckLibrary ==
  ASSUME DeckInv, NEW b \in Ids, AddBook(b) \/ ChangeBook(b)
  PROVE  DeckInv'
  <1>0. shelf \in [Ids -> Covers \cup {NoBook_}] /\ folder_ \in [Ids -> Nat]
    BY DEF DeckInv, DeckTypeOK
  <1>1. Change(b)
    BY DEF AddBook, ChangeBook
  <1>2. \/ folder_' = folder_ /\ \E q \in Covers \cup {NoBook_} : shelf' = [shelf EXCEPT ![b] = q]
        \/ shelf' = shelf /\ folder_' = [folder_ EXCEPT ![b] = @ + 1]
    BY DEF AddBook, ChangeBook
  <1>3. /\ shelf' \in [Ids -> Covers \cup {NoBook_}] /\ folder_' \in [Ids -> Nat]
        /\ \A c \in Ids : c # b => shelf'[c] = shelf[c] /\ folder_'[c] = folder_[c]
    <2>1. CASE folder_' = folder_ /\ \E q \in Covers \cup {NoBook_} : shelf' = [shelf EXCEPT ![b] = q]
      BY <1>0, <2>1
    <2>2. CASE shelf' = shelf /\ folder_' = [folder_ EXCEPT ![b] = @ + 1]
      BY <1>0, <2>2
    <2> QED BY <1>2, <2>1, <2>2
  <1> QED BY <1>1, <1>3, LibraryChanges

LEMMA DeckRequest ==
  ASSUME DeckInv, RequestDeck
  PROVE  DeckInv'
  <1>0. DeckTypeOK /\ Paged /\ Dealt /\ Shown /\ Coming
    BY DEF DeckInv
  <1>1. /\ deckStep' = "streaming" /\ limit' \in Limits
        /\ lastId' = 0 /\ page' = <<>> /\ deck' = {}
        /\ UNCHANGED <<shelf, folder_, untouched, cursor, shown>>
    BY DEF RequestDeck, libraryVars
  <1>2. limit' \in Nat /\ limit' > 0
    BY <1>1, DeckAssumption
  <1>3. Len(page') = 0 /\ page' \in Seq([id : Ids, path : Nat])
    BY <1>1
  <1>4. \A b \in Ids : b \in Nat /\ b > 0
    BY DEF Ids
  <1>5. Due' = Due /\ Due \subseteq Ids
    BY <1>0, <1>1 DEF Due, DeckTypeOK
  <1>6. DeckTypeOK'
    BY <1>0, <1>1, <1>2, <1>3 DEF DeckTypeOK
  <1>7. Paged' /\ Dealt' /\ Shown' /\ Coming'
    BY <1>0, <1>1, <1>2, <1>3, <1>4, <1>5 DEF Paged, Dealt, Shown, Coming
  <1> QED BY <1>6, <1>7 DEF DeckInv

\* An answer shows what is on the cards: everything due up to the last of them.
\* Without cards it must mean that nothing due comes after the cursor.
LEMMA DeckAnswer ==
  ASSUME DeckInv, deckStep = "streaming", Answer,
         deck = {} => \A b \in Due : b <= cursor
  PROVE  DeckInv'
  <1>0. DeckTypeOK /\ Paged /\ Dealt /\ Shown /\ Coming
    BY DEF DeckInv
  <1>1. /\ deckStep' = IF deck = {} THEN "finished" ELSE "idle"
        /\ cursor' = IF deck = {} THEN cursor ELSE CHOOSE b \in deck : \A c \in deck : c <= b
        /\ shown' = shown \cup deck
        /\ lastId' = 0 /\ page' = <<>> /\ deck' = {} /\ limit' = 0
        /\ UNCHANGED <<shelf, folder_, untouched>>
    BY DEF Answer, libraryVars
  <1>2. Len(page') = 0 /\ page' \in Seq([id : Ids, path : Nat])
    BY <1>1
  <1>3. \A b \in Ids : b \in Nat /\ b > 0
    BY DEF Ids
  <1>4. Due' = Due /\ Due \subseteq Ids
    BY <1>0, <1>1 DEF Due, DeckTypeOK
  <1>5. deck # {} => cursor' \in deck /\ \A c \in deck : c <= cursor'
    BY <1>0, <1>1 DEF Dealt
  <1>6. cursor' \in Nat /\ deck \subseteq Nat /\ cursor \in Nat /\ lastId \in Nat
    BY <1>0, <1>1, <1>3, <1>5 DEF DeckTypeOK
  <1>7. DeckTypeOK'
    BY <1>0, <1>1, <1>2, <1>6 DEF DeckTypeOK
  <1>8. Paged'
    BY <1>0, <1>1, <1>2 DEF Paged
  <1>9. \A c \in deck \cup {cursor} : \A b \in Due : b <= c => b \in shown \cup deck
    <2> SUFFICES ASSUME NEW c \in deck \cup {cursor}, NEW b \in Due, b <= c, b > cursor PROVE b \in deck
      BY <1>0, <1>3, <1>4, <1>6 DEF Shown
    <2>1. c \in deck /\ c <= lastId /\ b \in Nat /\ c \in Nat
      BY <1>0, <1>3, <1>4, <1>6 DEF Dealt
    <2>2. \A i \in 1..Len(page) : page[i].id > c /\ page[i].id \in Nat
      <3> SUFFICES ASSUME NEW i \in 1..Len(page) PROVE page[i].id > c /\ page[i].id \in Nat
        OBVIOUS
      <3>1. page[i] \in [id : Ids, path : Nat]
        <4>1. page \in Seq([id : Ids, path : Nat])
          BY <1>0 DEF DeckTypeOK
        <4> QED BY <4>1, ElementOfSeq
      <3>2. c < page[i].id
        BY <1>0, <2>1 DEF Paged
      <3> QED BY <1>3, <2>1, <3>1, <3>2
    <2>3. b \in deck \/ b > lastId \/ \E i \in 1..Len(page) : page[i].id = b
      BY <1>0 DEF Coming
    <2> QED BY <1>6, <2>1, <2>2, <2>3
  <1>10. Dealt'
    <2>1. deck = {} => Due \subseteq shown
      BY <1>0, <1>9
    <2> QED BY <1>1, <1>4, <2>1 DEF Dealt
  <1>11. Shown'
    <2>1. \A c \in shown' \cup {cursor'} : \A b \in Due : b <= c => b \in shown'
      BY <1>0, <1>1, <1>5, <1>9 DEF Shown
    <2>2. \A b \in shown' : b \in untouched => b \in Due
      BY <1>0, <1>1 DEF Shown, Dealt
    <2> QED BY <1>1, <1>4, <2>1, <2>2 DEF Shown
  <1>12. Coming'
    BY <1>1 DEF Coming
  <1> QED BY <1>7, <1>8, <1>10, <1>11, <1>12 DEF DeckInv

LEMMA DeckReadPage ==
  ASSUME DeckInv, ReadPage
  PROVE  DeckInv'
  <1>0. DeckTypeOK /\ Paged /\ Dealt /\ Shown /\ Coming
    BY DEF DeckInv
  <1>1. deckStep = "streaming" /\ page = <<>> /\ Len(page) = 0
    BY DEF ReadPage
  <1>2. \A b \in Ids : b \in Nat /\ b > 0
    BY DEF Ids
  <1>3. BatchSize \in Nat /\ BatchSize > 0 /\ lastId \in Nat /\ cursor \in Nat /\ Due \subseteq Ids
    BY <1>0, DeckAssumption DEF DeckTypeOK, Due
  <1>4. \A b \in Due : b > lastId => b \in Rows(lastId)
    BY <1>0, <1>3 DEF Rows, Due, Paged
  <1>5. PICK n \in 0..BatchSize : \E rows \in Page(Rows(lastId), n) :
          IF n = 0 THEN Answer
          ELSE /\ page' = [i \in 1..n |-> [id |-> rows[i], path |-> folder_[rows[i]]]]
               /\ lastId' = rows[n]
               /\ UNCHANGED <<libraryVars, deckStep, limit, deck, cursor, shown, returns>>
    BY DEF ReadPage
  <1>6. PICK rows \in Page(Rows(lastId), n) :
          IF n = 0 THEN Answer
          ELSE /\ page' = [i \in 1..n |-> [id |-> rows[i], path |-> folder_[rows[i]]]]
               /\ lastId' = rows[n]
               /\ UNCHANGED <<libraryVars, deckStep, limit, deck, cursor, shown, returns>>
    BY <1>5
  <1>7. /\ rows \in [1..n -> Rows(lastId)]
        /\ \A i, k \in 1..n : i < k => rows[i] < rows[k]
        /\ \A b \in Rows(lastId) : \/ \E i \in 1..n : rows[i] = b
                                   \/ n = BatchSize /\ \A i \in 1..n : rows[i] < b
    BY <1>6 DEF Page
  <1>8. CASE n = 0
    <2>1. Answer
      BY <1>6, <1>8
    <2>2. Rows(lastId) = {}
      BY <1>3, <1>7, <1>8
    <2>3. deck = {} => \A b \in Due : b <= cursor
      BY <1>0, <1>1, <1>2, <1>3, <1>4, <2>2 DEF Coming
    <2> QED BY <1>1, <2>1, <2>3, DeckAnswer
  <1>9. CASE n # 0
    <2>1. /\ page' = [i \in 1..n |-> [id |-> rows[i], path |-> folder_[rows[i]]]]
          /\ lastId' = rows[n] /\ n \in Nat /\ n \in 1..n
          /\ UNCHANGED <<shelf, folder_, untouched, deckStep, limit, deck, cursor, shown>>
      BY <1>3, <1>6, <1>9 DEF libraryVars
    <2>2. \A i \in 1..n : rows[i] \in Ids /\ rows[i] > lastId /\ rows[i] \in Nat
      BY <1>2, <1>7 DEF Rows
    <2>3. /\ page' \in Seq([id : Ids, path : Nat]) /\ Len(page') = n
          /\ \A i \in 1..n : page'[i].id = rows[i] /\ page'[i].path = folder_[rows[i]]
      <3>1. \A i \in 1..n : [id |-> rows[i], path |-> folder_[rows[i]]] \in [id : Ids, path : Nat]
        BY <1>0, <2>2 DEF DeckTypeOK
      <3> QED BY <2>1, <3>1
    <2>4. \A i \in 1..n : rows[i] <= rows[n]
      BY <1>7, <2>1, <2>2
    <2>5. Due' = Due
      BY <2>1 DEF Due
    <2>6. lastId' > lastId /\ lastId' \in Nat
      BY <2>1, <2>2
    <2>7. DeckTypeOK'
      BY <1>0, <2>1, <2>3, <2>6 DEF DeckTypeOK
    <2>8. Paged'
      <3>1. \A i \in 1..n : \A d \in deck : d < rows[i]
        <4> SUFFICES ASSUME NEW i \in 1..n, NEW d \in deck PROVE d < rows[i]
          OBVIOUS
        <4>1. d <= lastId /\ d \in Nat
          BY <1>0, <1>2 DEF Dealt, DeckTypeOK
        <4> QED BY <1>3, <2>2, <4>1
      <3> QED BY <1>0, <1>7, <2>1, <2>3, <2>4, <3>1 DEF Paged
    <2>9. Dealt'
      <3>1. \A d \in deck : d <= lastId'
        <4> SUFFICES ASSUME NEW d \in deck PROVE d <= lastId'
          OBVIOUS
        <4>1. d <= lastId /\ d \in Nat
          BY <1>0, <1>2 DEF Dealt, DeckTypeOK
        <4> QED BY <1>3, <2>6, <4>1
      <3> QED BY <1>0, <1>1, <2>1, <2>5, <3>1 DEF Dealt
    <2>10. Shown'
      BY <1>0, <2>1, <2>5 DEF Shown
    <2>11. Coming'
      <3> SUFFICES ASSUME NEW b \in Due, b > cursor
                   PROVE  b \in deck \/ b > lastId' \/ \E i \in 1..n : page'[i].id = b
        BY <2>1, <2>3, <2>5 DEF Coming
      <3>1. b \in deck \/ b > lastId
        BY <1>0, <1>1 DEF Coming
      <3>2. b > lastId => \/ \E i \in 1..n : rows[i] = b
                          \/ rows[n] < b
        BY <1>4, <1>7, <2>1
      <3>3. b \in Nat /\ rows[n] \in Nat
        BY <1>2, <1>3, <2>1, <2>2
      <3> QED BY <2>1, <2>3, <3>1, <3>2, <3>3
    <2> QED BY <2>7, <2>8, <2>9, <2>10, <2>11 DEF DeckInv
  <1> QED BY <1>8, <1>9

\* The cover of a row: it becomes a card when it is after the cursor and flagged.
LEMMA DeckLookAt ==
  ASSUME DeckInv, LookAt
  PROVE  DeckInv'
  <1> DEFINE row == Head(page)
  <1>0. DeckTypeOK /\ Paged /\ Dealt /\ Shown /\ Coming
    BY DEF DeckInv
  <1>1. deckStep = "streaming" /\ page # <<>>
    BY DEF LookAt
  <1>2. \A b \in Ids : b \in Nat /\ b > 0
    BY DEF Ids
  <1>3. CASE Cardinality(deck) >= limit
    <2>1. Answer
      BY <1>3 DEF LookAt
    <2>2. limit \in Nat /\ limit > 0
      BY <1>0, <1>1 DEF Dealt, DeckTypeOK
    <2>3. deck # {}
      BY <1>3, <2>2, FS_EmptySet
    <2> QED BY <1>1, <2>1, <2>3, DeckAnswer
  <1>4. CASE ~(Cardinality(deck) >= limit)
    <2>1. /\ page' = Tail(page)
          /\ deck' = IF row.id > cursor /\ Flagged(row) THEN deck \cup {row.id} ELSE deck
          /\ UNCHANGED <<shelf, folder_, untouched, deckStep, limit, lastId, cursor, shown>>
      BY <1>4 DEF LookAt, libraryVars
    <2>2. /\ page \in Seq([id : Ids, path : Nat]) /\ Len(page) \in Nat /\ Len(page) > 0
          /\ page' \in Seq([id : Ids, path : Nat]) /\ Len(page') = Len(page) - 1
          /\ \A i \in 1..Len(page') : i + 1 \in 1..Len(page) /\ page'[i] = page[i + 1]
          /\ \A i \in 1..Len(page) : i = 1 \/ (i - 1 \in 1..Len(page') /\ page[i] = page'[i - 1])
          /\ row = page[1] /\ 1 \in 1..Len(page) /\ row \in [id : Ids, path : Nat]
      <3>1. page \in Seq([id : Ids, path : Nat])
        BY <1>0 DEF DeckTypeOK
      <3>2. /\ page' \in Seq([id : Ids, path : Nat]) /\ Len(page') = Len(page) - 1
            /\ Len(page) \in Nat /\ Len(page) > 0 /\ row \in [id : Ids, path : Nat]
        <4> DEFINE R == [id : Ids, path : Nat]
        <4>1. page \in Seq(R) /\ page # <<>>
          BY <1>1, <3>1
        <4> HIDE DEF R
        <4>2. Len(page) \in Nat \ {0}
          BY <4>1, EmptySeq
        <4>3. Head(page) \in R /\ Tail(page) \in Seq(R) /\ Len(Tail(page)) = Len(page) - 1
          BY <4>1, HeadTailProperties
        <4> QED BY <2>1, <4>2, <4>3 DEF R
      <3>3. row = page[1] /\ \A i \in 1..Len(page') : page'[i] = page[i + 1]
        BY <1>1, <2>1, <3>1, <3>2
      <3> QED BY <3>1, <3>2, <3>3, SMTT(30)
    <2>3. row.id \in untouched => (Flagged(row) <=> row.id \in Due)
      <3>1. row.id \in untouched => row.path = folder_[row.id] /\ shelf[row.id] # NoBook_
        BY <1>0, <2>2 DEF Paged
      <3> QED BY <3>1 DEF Flagged, Due
    <2> HIDE DEF row
    <2>4. /\ row.id \in Ids /\ row.id \in Nat /\ row.id <= lastId
          /\ \A d \in deck : d < row.id /\ d \in Nat
          /\ \A i \in 1..Len(page') : row.id < page'[i].id
      <3>1. row.id \in Ids /\ row.id \in Nat
        BY <1>2, <2>2
      <3>2. row.id <= lastId /\ \A d \in deck : d < row.id /\ d \in Nat
        BY <1>0, <1>2, <2>2 DEF Paged, DeckTypeOK
      <3>3. \A i \in 1..Len(page') : row.id < page'[i].id
        <4> SUFFICES ASSUME NEW i \in 1..Len(page') PROVE row.id < page[i + 1].id
          BY <2>2
        <4>1. i + 1 \in 1..Len(page) /\ 1 < i + 1
          BY <2>2
        <4> QED BY <1>0, <2>2, <4>1 DEF Paged
      <3> QED BY <3>1, <3>2, <3>3
    <2>5. /\ deck' = deck \/ (deck' = deck \cup {row.id} /\ row.id > cursor /\ Flagged(row))
          /\ row.id > cursor /\ Flagged(row) => row.id \in deck'
          /\ deck \subseteq deck'
      BY <2>1
    <2>6. Due' = Due /\ Due \subseteq untouched
      BY <2>1 DEF Due
    <2>7. DeckTypeOK'
      BY <1>0, <2>1, <2>2, <2>4, <2>5 DEF DeckTypeOK
    <2>8. Paged'
      <3>1. \A i, k \in 1..Len(page') : i < k => page'[i].id < page'[k].id
        <4> SUFFICES ASSUME NEW i \in 1..Len(page'), NEW k \in 1..Len(page'), i < k
                     PROVE  page[i + 1].id < page[k + 1].id
          BY <2>2
        <4>1. i + 1 \in 1..Len(page) /\ k + 1 \in 1..Len(page) /\ i + 1 < k + 1
          BY <2>2
        <4> QED BY <1>0, <4>1 DEF Paged
      <3>2. \A i \in 1..Len(page') :
              /\ page'[i].id <= lastId /\ \A d \in deck : d < page'[i].id
              /\ page'[i].id \in untouched => page'[i].path = folder_[page'[i].id]
        BY <1>0, <2>2, SMTT(30) DEF Paged
      <3>3. \A i \in 1..Len(page') : \A d \in deck' : d < page'[i].id
        BY <2>4, <2>5, <3>2
      <3> QED BY <1>0, <2>1, <3>1, <3>2, <3>3 DEF Paged
    <2>9. Dealt'
      <3>1. \A d \in deck' : cursor < d /\ d <= lastId /\ (d \in untouched => d \in Due)
        BY <1>0, <2>3, <2>4, <2>5 DEF Dealt
      <3>2. deck' # {} => \E d \in deck' : \A c \in deck' : c <= d
        <4>1. CASE deck' = deck
          BY <1>0, <4>1 DEF Dealt
        <4>2. CASE deck' = deck \cup {row.id}
          BY <2>4, <4>2
        <4> QED BY <2>5, <4>1, <4>2
      <3> QED BY <1>0, <1>1, <2>1, <2>6, <3>1, <3>2 DEF Dealt
    <2>10. Shown'
      BY <1>0, <2>1, <2>6 DEF Shown
    <2>11. Coming'
      <3> SUFFICES ASSUME NEW b \in Due, b > cursor
                   PROVE  b \in deck' \/ b > lastId \/ \E i \in 1..Len(page') : page'[i].id = b
        BY <2>1, <2>6 DEF Coming
      <3>1. b \in deck \/ b > lastId \/ \E i \in 1..Len(page) : page[i].id = b
        BY <1>0, <1>1 DEF Coming
      <3>2. b = row.id => b \in deck'
        BY <2>3, <2>5, <2>6
      <3>3. ASSUME NEW i \in 1..Len(page), page[i].id = b
            PROVE  b = row.id \/ \E k \in 1..Len(page') : page'[k].id = b
        BY <2>2, <3>3
      <3> QED BY <2>5, <3>1, <3>2, <3>3
    <2> QED BY <2>7, <2>8, <2>9, <2>10, <2>11 DEF DeckInv
  <1> QED BY <1>3, <1>4

LEMMA DeckReturn ==
  ASSUME DeckInv, Return
  PROVE  DeckInv'
  <1>0. DeckTypeOK /\ Paged /\ Dealt /\ Shown /\ Coming
    BY DEF DeckInv
  <1>1. /\ deckStep = "idle" /\ cursor' \in {0} \cup shown
        /\ UNCHANGED <<shelf, folder_, untouched, deckStep, limit, lastId, page, deck, shown>>
    BY DEF Return, libraryVars
  <1>2. \A b \in Ids : b \in Nat /\ b > 0
    BY DEF Ids
  <1>3. deck = {} /\ Due' = Due /\ Due \subseteq Ids
    BY <1>0, <1>1 DEF Dealt, Due, DeckTypeOK
  <1>4. DeckTypeOK'
    BY <1>0, <1>1, <1>2 DEF DeckTypeOK
  <1>5. Paged' /\ Dealt' /\ Coming'
    BY <1>0, <1>1, <1>3 DEF Paged, Dealt, Coming
  <1>6. Shown'
    BY <1>0, <1>1, <1>2, <1>3 DEF Shown
  <1> QED BY <1>4, <1>5, <1>6 DEF DeckInv

\* An operator who is told that the deck is empty has seen the books with a
\* missing or faulty cover and no others, as far as they did not change, for every
\* library, every size of a page and of a request, and every number of changes and
\* returns (get_cover_review_deck, handle_cover_deck_action).
THEOREM DecksAreExact == DeckSpec => []DeckIsExact
  <1>1. DeckInv /\ [DeckNext]_deckVars => DeckInv'
    <2> SUFFICES ASSUME DeckInv, [DeckNext]_deckVars PROVE DeckInv'
      OBVIOUS
    <2>1. ASSUME UNCHANGED deckVars PROVE DeckInv'
      BY <2>1 DEF deckVars, libraryVars, DeckInv, DeckTypeOK, Paged, Dealt, Shown, Coming, Due
    <2> QED
      BY <2>1, DeckLibrary, DeckRequest, DeckReadPage, DeckLookAt, DeckReturn DEF DeckNext
  <1>2. DeckInv => DeckIsExact
    BY DEF DeckInv, DeckTypeOK, Dealt, Shown, Due, DeckIsExact
  <1> QED BY DeckStart, <1>1, <1>2, PTL DEF DeckSpec
=============================================================================
