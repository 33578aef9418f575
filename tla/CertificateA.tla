----------------------------- MODULE CertificateA -----------------------------
(***************************************************************************)
(* Certificate A: read-only verification of a stopped Calibre library. The *)
(* web process inserts requests and cancellations                          *)
(* (web/api/production_verify.py); verifier processes claim them under a   *)
(* fenced lease, freeze the library, audit one book after the other and    *)
(* record sealed evidence (verification/certificate_a_worker.py, with the  *)
(* loop of verification/pipeline_v2.py). PostgreSQL is the only shared     *)
(* state; every transaction locks the row of its run, so it is one action. *)
(***************************************************************************)
EXTENDS Integers, FiniteSets

CONSTANTS
    Workers,      \* verifier processes
    BookCount,    \* selected books of the library, audited in id order
    Releases,     \* release digests that are deployed one after the other
    MaxRuns,      \* bound: requests
    MaxVersions,  \* bound: changes of the library
    MaxDeploys,   \* bound: redeployments
    MaxCrashes,   \* bound: crashes of a verifier
    MaxLapses,    \* bound: stalls that let the lease of a live process expire
    MaxFaults     \* bound: failing statements, source reads and inspections

ASSUME WorkersAssumption  == "none" \notin Workers
ASSUME CountsAssumption   ==
    /\ BookCount \in Nat /\ MaxRuns \in Nat /\ MaxVersions \in Nat
    /\ MaxDeploys \in Nat /\ MaxCrashes \in Nat /\ MaxLapses \in Nat
    /\ MaxFaults \in Nat
ASSUME ReleasesAssumption == Releases # {}

Books    == 1..BookCount
Runs     == 1..MaxRuns      \* rows of VerificationRun, in order of started_at
NoRun    == 0
Versions == 0..MaxVersions  \* what the fingerprint of the library tells apart

ActiveStatuses   == {"pending", "inventorying", "running", "cancelling"}
TerminalStatuses == {"cancelled", "completed", "completed_with_errors", "failed",
                     "source_changed", "blocked_recovery"}

\* shadowed, review and deferred differ only in the identity tier: "settled".
\* The stages from snapshotting to decided differ in nothing else: "working".
Outcomes     == {"settled", "failed", "source_changed"}
ResultStates == {"none", "pending", "working"} \cup Outcomes
Packages     == [state : Outcomes, source : Versions]

VARIABLES
    status, release, cancelReq,   \* VerificationRun: request and progress
    fence, holder, lease,         \* its claim
    frozen,                       \* source_snapshot: {} or the frozen version
    completed,                    \* its progress counter
    result,                       \* VerificationResult.state
    evidence,                     \* the sealed package a result is linked to
    record                        \* BookRecord.run_id, one row per fingerprint

runVars == <<status, release, cancelReq, fence, holder, lease, frozen, completed>>

VARIABLES
    lib,                          \* the library as it is on disk
    deployed, deploys,            \* release digest of the deployed settings
    crashes, lapses, faults

VARIABLES
    pc,        \* where each verifier process is
    boot,      \* the release it was started with
    wrun,      \* CertificateAClaim.run_id
    wfence,    \* CertificateAClaim.fence_token
    source,    \* the version its OfflineCalibreSource was opened on
    todo,      \* books the pipeline still has to audit
    outcome,   \* state of the package in hand
    errors,    \* has_errors of the pipeline
    verdict,   \* status the run is about to get
    hbLost     \* _HeartbeatGuard._lost

memory == <<wrun, wfence, source, todo, outcome, errors, verdict, hbLost>>
vars   == <<runVars, result, evidence, record, lib, deployed, deploys, crashes,
            lapses, faults, pc, boot, memory>>

-----------------------------------------------------------------------------
(* The web process.                                                        *)

\* Mutant: the unique index does not cover runs that are being cancelled.
NoUncancelledRun == \A r \in Runs : status[r] \notin ActiveStatuses \ {"cancelling"}

\* uq_verificationrun_active_source. All requests are for the one library the
\* deployment mounts.
NoActiveRun == \A r \in Runs : status[r] \notin ActiveStatuses

\* start_verification with a new idempotency key; a known key changes nothing.
\* Its checks before the insert are repeated by the unique indexes.
StartVerification(r) ==
    /\ status[r] = "none" /\ \A q \in Runs : q < r => status[q] # "none"
    /\ NoActiveRun
    /\ status'  = [status EXCEPT ![r] = "pending"]
    /\ release' = [release EXCEPT ![r] = deployed]
    /\ UNCHANGED <<cancelReq, fence, holder, lease, frozen, completed, result,
                   evidence, record, lib, deployed, deploys, crashes, lapses,
                   faults, pc, boot, memory>>

\* cancel_run
CancelRun(r) ==
    /\ status[r] \in ActiveStatuses /\ ~cancelReq[r]
    /\ status'    = [status EXCEPT ![r] = "cancelling"]
    /\ cancelReq' = [cancelReq EXCEPT ![r] = TRUE]
    /\ UNCHANGED <<release, fence, holder, lease, frozen, completed, result,
                   evidence, record, lib, deployed, deploys, crashes, lapses,
                   faults, pc, boot, memory>>

-----------------------------------------------------------------------------
(* Leases.                                                                 *)

\* Mutant: a live lease is enough, whoever holds it.
OwnedByAnyone(w) == lease[wrun[w]] = "live" /\ status[wrun[w]] \in ActiveStatuses

\* _load_owned_run: owner, fence, status and lease of the claimed run.
Owned(w) ==
    /\ holder[wrun[w]] = w /\ fence[wrun[w]] = wfence[w]
    /\ status[wrun[w]] \in ActiveStatuses
    /\ lease[wrun[w]] = "live"

\* Mutant: cancellation is not looked at.
WritableWhileCancelling(w) == Owned(w)

\* _run(allow_cancelling=False)
Writable(w) == Owned(w) /\ ~cancelReq[wrun[w]]

AtWork(w) == pc[w] \notin {"down", "poll"}

\* The heartbeat thread of some process keeps the lease alive.
Renewed(r) == \E w \in Workers : AtWork(w) /\ wrun[w] = r /\ Owned(w) /\ ~hbLost[w]

Expire(r) ==
    /\ lease[r] = "live"
    /\ lease' = [lease EXCEPT ![r] = "expired"]
    /\ UNCHANGED <<status, release, cancelReq, fence, holder, frozen, completed,
                   result, evidence, record, lib, deployed, deploys, crashes,
                   faults, pc, boot, memory>>

\* Nobody renews the lease and its time is up.
LeaseExpires(r) == ~Renewed(r) /\ Expire(r) /\ UNCHANGED lapses

\* The process that should renew the lease is stalled for longer than it lasts.
LeaseLapses(r) ==
    /\ Renewed(r) /\ lapses < MaxLapses
    /\ lapses' = lapses + 1
    /\ Expire(r)

Fault   == faults < MaxFaults /\ faults' = faults + 1
NoFault == UNCHANGED faults

\* The heartbeat thread is refused or fails, remembers it and ends.
HeartbeatLost(w) ==
    /\ AtWork(w) /\ ~hbLost[w]
    /\ \/ ~Owned(w) /\ NoFault
       \/ Fault
    /\ hbLost' = [hbLost EXCEPT ![w] = TRUE]
    /\ UNCHANGED <<runVars, result, evidence, record, lib, deployed, deploys,
                   crashes, lapses, pc, boot, wrun, wfence, source, todo, outcome,
                   errors, verdict>>

-----------------------------------------------------------------------------
(* The process loop.                                                       *)

Goto(w, l) == pc' = [pc EXCEPT ![w] = l]

\* The claim and everything the process remembers of it are dropped.
Forget(w) ==
    /\ wrun'    = [wrun EXCEPT ![w] = NoRun]
    /\ wfence'  = [wfence EXCEPT ![w] = 0]
    /\ source'  = [source EXCEPT ![w] = 0]
    /\ todo'    = [todo EXCEPT ![w] = {}]
    /\ outcome' = [outcome EXCEPT ![w] = "failed"]
    /\ errors'  = [errors EXCEPT ![w] = FALSE]
    /\ verdict' = [verdict EXCEPT ![w] = "failed"]
    /\ hbLost'  = [hbLost EXCEPT ![w] = FALSE]

StoreRest == UNCHANGED <<release, cancelReq, fence>>
WorldRest == UNCHANGED <<lib, deployed, deploys, crashes, lapses, boot>>
NoStore   == UNCHANGED <<runVars, result, evidence, record>>

\* Mutant: a run that is being cancelled is left alone.
ClaimableUncancelled(r) ==
    status[r] \in ActiveStatuses \ {"cancelling"} /\ lease[r] # "live"

\* _claim_predicate
Claimable(r) == status[r] \in ActiveStatuses /\ lease[r] # "live"

\* claim_next_certificate_a_run: the oldest claimable run.
Claim(w) ==
    \E r \in Runs :
        /\ pc[w] = "poll"
        /\ Claimable(r) /\ \A q \in Runs : q < r => ~Claimable(q)
        /\ fence'  = [fence EXCEPT ![r] = @ + 1]
        /\ holder' = [holder EXCEPT ![r] = w]
        /\ lease'  = [lease EXCEPT ![r] = "live"]
        /\ status' = [status EXCEPT ![r] = IF @ = "pending" THEN "inventorying" ELSE @]
        /\ wrun'   = [wrun EXCEPT ![w] = r]
        /\ wfence' = [wfence EXCEPT ![w] = fence[r] + 1]
        /\ Goto(w, "contract")
        /\ UNCHANGED <<release, cancelReq, frozen, completed, result, evidence,
                       record, faults, source, todo, outcome, errors, verdict, hbLost>>
        /\ WorldRest

\* LostVerifierLeaseError reaches the loop, which goes on polling.
Abandon(w) == Goto(w, "poll") /\ Forget(w) /\ NoStore /\ NoFault /\ WorldRest

\* The verdict is reached in the body of execute_certificate_a_claim ("finish")
\* or in one of its exception handlers ("close").
Conclude(w, l, v) ==
    /\ Goto(w, l)
    /\ verdict' = [verdict EXCEPT ![w] = v]
    /\ UNCHANGED <<wrun, wfence, source, todo, outcome, errors, hbLost>>
    /\ WorldRest

Step(w, l) == Goto(w, l) /\ UNCHANGED memory /\ WorldRest

\* An exception other than a lost lease: finish("failed").
Fails(w) == Fault /\ Conclude(w, "close", "failed")

CancelHandled(w) ==
    Owned(w) /\ ~Writable(w) /\ NoStore /\ NoFault /\ Conclude(w, "close", "cancelled")

\* The steps whose transaction raises when the lease is lost.
StorePcs == {"contract", "check_start", "freeze", "check_frozen", "resume", "record",
             "check_end", "finish", "close"}

LeaseLost(w) == pc[w] \in StorePcs /\ ~Owned(w) /\ Abandon(w)

\* heartbeat.ensure_current
EnsureCurrent(w) ==
    pc[w] \in {"check_frozen", "check_end"} /\ Owned(w) /\ hbLost[w] /\ Abandon(w)

-----------------------------------------------------------------------------
(* execute_certificate_a_claim.                                            *)

\* load_certificate_a_contract
LoadContract(w) ==
    /\ pc[w] = "contract" /\ Owned(w) /\ NoStore
    /\ \/ Fails(w)
       \/ /\ NoFault /\ boot[w] # release[wrun[w]]
          /\ Conclude(w, "close", "blocked_recovery")
       \/ NoFault /\ boot[w] = release[wrun[w]] /\ Step(w, "check_start")

\* cancellation_requested, at the three safe boundaries.
CheckCancellation(w) ==
    /\ pc[w] \in {"check_start", "check_frozen", "check_end"} /\ Owned(w)
    /\ pc[w] # "check_start" => ~hbLost[w]
    /\ NoStore
    /\ \/ Fails(w)
       \/ NoFault /\ cancelReq[wrun[w]] /\ Conclude(w, "finish", "cancelled")
       \/ NoFault /\ ~cancelReq[wrun[w]] /\ pc[w] = "check_start" /\ Step(w, "open")
       \/ NoFault /\ ~cancelReq[wrun[w]] /\ pc[w] = "check_frozen" /\ Step(w, "resume")
       \/ /\ NoFault /\ ~cancelReq[wrun[w]] /\ pc[w] = "check_end"
          /\ Conclude(w, "finish",
                      IF errors[w] THEN "completed_with_errors" ELSE "completed")

\* OfflineCalibreSource: the library is hashed, and once more at the end, where
\* a file that cannot be read counts as changed.
OpenSource(w) ==
    /\ pc[w] = "open" /\ NoStore
    /\ \/ \E v \in {"failed", "source_changed"} : Fault /\ Conclude(w, "close", v)
       \/ /\ NoFault /\ Goto(w, "freeze")
          /\ source' = [source EXCEPT ![w] = lib]
          /\ UNCHANGED <<wrun, wfence, todo, outcome, errors, verdict, hbLost>>
          /\ WorldRest
       \/ /\ NoFault /\ lib < MaxVersions /\ lib' = lib + 1
          /\ Goto(w, "close")
          /\ verdict' = [verdict EXCEPT ![w] = "source_changed"]
          /\ UNCHANGED <<wrun, wfence, source, todo, outcome, errors, hbLost,
                         deployed, deploys, crashes, lapses, boot>>

\* Mutant: recovery freezes the library again.
SameSourceUnchecked(w) == TRUE

\* The frozen snapshot of an earlier claim is the one in hand. The keys of the
\* books hold the fingerprint, so membership changes with it.
SameSource(w) == frozen[wrun[w]] \subseteq {source[w]}

\* Mutant: recovery starts every book over.
FreezeInventoryAnew(w) ==
    /\ frozen' = [frozen EXCEPT ![wrun[w]] = {source[w]}]
    /\ status' = [status EXCEPT ![wrun[w]] = "running"]
    /\ result' = [result EXCEPT ![wrun[w]] = [b \in Books |-> "pending"]]
    /\ UNCHANGED <<holder, lease, completed, evidence, record>> /\ StoreRest

\* inventory
FreezeInventory(w) ==
    LET r == wrun[w] IN
    /\ frozen' = [frozen EXCEPT ![r] = {source[w]}]
    /\ status' = [status EXCEPT ![r] = "running"]
    /\ result' = [result EXCEPT ![r] =
                    [b \in Books |-> IF @[b] = "none" THEN "pending" ELSE @[b]]]
    /\ UNCHANGED <<holder, lease, completed, evidence, record>> /\ StoreRest

Freeze(w) ==
    /\ pc[w] = "freeze"
    /\ \/ CancelHandled(w)
       \/ /\ Writable(w) /\ ~SameSource(w) /\ NoStore /\ NoFault
          /\ Conclude(w, "close", "source_changed")
       \/ /\ Writable(w) /\ SameSource(w) /\ FreezeInventory(w)
          /\ (NoFault /\ Step(w, "check_frozen")) \/ Fails(w)
       \/ Owned(w) /\ NoStore /\ Fails(w)

\* resumable_book_keys: settled, and linked to a package with an intact seal.
\* The state the package was sealed with is not compared.
Resumable(r) == {b \in Books : result[r][b] = "settled" /\ evidence[r][b] # {}}

\* The next book, or the end of the pipeline.
Turn(rest) == IF rest = {} THEN "final" ELSE "begin"

Resume(w) ==
    /\ pc[w] = "resume"
    /\ \/ CancelHandled(w)
       \/ Owned(w) /\ NoStore /\ Fails(w)
       \/ /\ Writable(w) /\ NoStore /\ NoFault
          /\ todo' = [todo EXCEPT ![w] = Books \ Resumable(wrun[w])]
          /\ Goto(w, Turn(todo'[w]))
          /\ UNCHANGED <<wrun, wfence, source, outcome, errors, verdict, hbLost>>
          /\ WorldRest

-----------------------------------------------------------------------------
(* LibraryAuditPipeline.run.                                               *)

\* The book in hand: the smallest id that is left.
InHand(w) == {b \in todo[w] : \A c \in todo[w] : b <= c}

\* record_state
RecordState(w, b, s) ==
    /\ result' = [result EXCEPT ![wrun[w]][b] = s]
    /\ UNCHANGED <<runVars, evidence, record>>

\* The audit of the book has an outcome that is to be announced.
Decide(w, o) ==
    /\ Goto(w, "announce")
    /\ outcome' = [outcome EXCEPT ![w] = o]
    /\ errors'  = [errors EXCEPT ![w] = @ \/ o = "failed"]
    /\ UNCHANGED <<wrun, wfence, source, todo, verdict, hbLost>>
    /\ WorldRest

\* The stages from snapshotting to decided. Any exception, a lost lease and
\* a cancellation included, makes it a failed book.
BeginBook(w) ==
    /\ pc[w] = "begin"
    /\ \/ \E b \in InHand(w) :
            /\ Writable(w) /\ RecordState(w, b, "working")
            /\ (NoFault /\ Step(w, "audit")) \/ (Fault /\ Decide(w, "failed"))
       \/ NoStore /\ Fault /\ Decide(w, "failed")
       \/ ~Writable(w) /\ NoStore /\ NoFault /\ Decide(w, "failed")

\* The files are materialized, inspected and compared with the frozen ones. A
\* change of the library is noticed unless it is confined to other books, and a
\* file that cannot be read counts as changed.
AuditBook(w) ==
    /\ pc[w] = "audit" /\ NoStore
    /\ \/ NoFault /\ Decide(w, "settled")
       \/ \E o \in {"failed", "source_changed"} : Fault /\ Decide(w, o)
       \/ NoFault /\ lib # source[w] /\ Decide(w, "source_changed")

\* The outcome is recorded as the state of the book.
Announced(w) == Writable(w) /\ \E b \in InHand(w) : RecordState(w, b, outcome[w])

\* The final state is recorded before the package. Where that raises, a
\* settled book becomes a failed one; the announcement of a failed or changed
\* book is made in an exception handler, out of which the exception escapes.
Announce(w) ==
    /\ pc[w] = "announce"
    /\ \/ Announced(w) /\ NoFault /\ Step(w, "record")
       \/ /\ outcome[w] = "settled"
          /\ \/ ~Writable(w) /\ NoStore /\ NoFault
             \/ NoStore /\ Fault
             \/ Announced(w) /\ Fault
          /\ Decide(w, "failed")
       \/ /\ outcome[w] # "settled"
          /\ \/ ~Owned(w) /\ Abandon(w)
             \/ CancelHandled(w)
             \/ Owned(w) /\ NoStore /\ Fails(w)
             \/ Announced(w) /\ Fails(w)

\* _refresh_counts
Count(res, ev) == Cardinality({b \in Books : res[b] \in Outcomes /\ ev[b] # {}})

\* Mutant: the counter is incremented, once more for a book that is retried.
RecordPackageCounting(w, b) ==
    LET r == wrun[w] IN
    /\ evidence'  = [evidence EXCEPT ![r][b] =
                       {[state |-> outcome[w], source |-> source[w]]}]
    /\ result'    = [result EXCEPT ![r][b] = outcome[w]]
    /\ record'    = [record EXCEPT ![source[w]][b] = r]
    /\ completed' = [completed EXCEPT ![r] = @ + 1]
    /\ UNCHANGED <<status, holder, lease, frozen>> /\ StoreRest

\* record_package: evidence, result, book record and counters.
RecordPackage(w, b) ==
    LET r == wrun[w] IN
    /\ evidence'  = [evidence EXCEPT ![r][b] =
                       {[state |-> outcome[w], source |-> source[w]]}]
    /\ result'    = [result EXCEPT ![r][b] = outcome[w]]
    /\ record'    = [record EXCEPT ![source[w]][b] = r]
    /\ completed' = [completed EXCEPT ![r] = Count(result'[r], evidence'[r])]
    /\ UNCHANGED <<status, holder, lease, frozen>> /\ StoreRest

Record(w) ==
    /\ pc[w] = "record" /\ Owned(w)
    /\ \E b \in InHand(w) :
       \/ RecordPackage(w, b) /\ Fails(w)
       \/ NoStore /\ Fails(w)
       \/ /\ RecordPackage(w, b) /\ NoFault /\ outcome[w] = "source_changed"
          /\ Conclude(w, "close", "source_changed")
       \/ /\ RecordPackage(w, b) /\ NoFault /\ outcome[w] # "source_changed"
          /\ todo' = [todo EXCEPT ![w] = @ \ {b}]
          /\ Goto(w, Turn(todo'[w]))
          /\ UNCHANGED <<wrun, wfence, source, outcome, errors, verdict, hbLost>>
          /\ WorldRest

\* source.assert_unchanged: the whole library is hashed again.
AssertUnchanged(w) ==
    /\ pc[w] = "final" /\ NoStore
    /\ \/ Fault /\ Conclude(w, "close", "source_changed")
       \/ NoFault /\ lib # source[w] /\ Conclude(w, "close", "source_changed")
       \/ NoFault /\ lib = source[w] /\ Step(w, "check_end")

-----------------------------------------------------------------------------
(* The end of a run.                                                       *)

\* Mutant: the counters are not refreshed.
FinishRunStale(w) ==
    /\ status' = [status EXCEPT ![wrun[w]] = verdict[w]]
    /\ holder' = [holder EXCEPT ![wrun[w]] = "none"]
    /\ lease'  = [lease EXCEPT ![wrun[w]] = "none"]
    /\ UNCHANGED <<frozen, completed, result, evidence, record>> /\ StoreRest

\* Mutant: the errors of the pipeline are dropped.
FinishRunClean(w) ==
    /\ status'    = [status EXCEPT ![wrun[w]] =
                       IF verdict[w] = "completed_with_errors" THEN "completed" ELSE verdict[w]]
    /\ holder'    = [holder EXCEPT ![wrun[w]] = "none"]
    /\ lease'     = [lease EXCEPT ![wrun[w]] = "none"]
    /\ completed' = [completed EXCEPT ![wrun[w]] =
                       Count(result[wrun[w]], evidence[wrun[w]])]
    /\ UNCHANGED <<frozen, result, evidence, record>> /\ StoreRest

\* finish
FinishRun(w) ==
    LET r == wrun[w] IN
    /\ status'    = [status EXCEPT ![r] = verdict[w]]
    /\ holder'    = [holder EXCEPT ![r] = "none"]
    /\ lease'     = [lease EXCEPT ![r] = "none"]
    /\ completed' = [completed EXCEPT ![r] = Count(result[r], evidence[r])]
    /\ UNCHANGED <<frozen, result, evidence, record>> /\ StoreRest

\* In the body of the try a failing finish is followed by another one.
Finish(w) ==
    /\ pc[w] = "finish" /\ Owned(w)
    /\ \/ FinishRun(w) /\ NoFault /\ Goto(w, "poll") /\ Forget(w) /\ WorldRest
       \/ FinishRun(w) /\ Fails(w)
       \/ NoStore /\ Fails(w)

\* In a handler it ends the process.
Close(w) ==
    /\ pc[w] = "close" /\ Owned(w)
    /\ \/ FinishRun(w) /\ NoFault /\ Goto(w, "poll")
       \/ FinishRun(w) /\ Fault /\ Goto(w, "down")
       \/ NoStore /\ Fault /\ Goto(w, "down")
    /\ Forget(w) /\ WorldRest

-----------------------------------------------------------------------------
(* Processes and their environment.                                        *)

Start(w) ==
    /\ pc[w] = "down"
    /\ Goto(w, "poll")
    /\ boot' = [boot EXCEPT ![w] = deployed]
    /\ UNCHANGED <<runVars, result, evidence, record, lib, deployed, deploys,
                   crashes, lapses, faults, memory>>

Crash(w) ==
    /\ pc[w] # "down" /\ crashes < MaxCrashes
    /\ crashes' = crashes + 1
    /\ Goto(w, "down") /\ Forget(w) /\ NoStore
    /\ UNCHANGED <<lib, deployed, deploys, lapses, faults, boot>>

Redeploy(d) ==
    /\ deploys < MaxDeploys /\ d # deployed
    /\ deployed' = d
    /\ deploys'  = deploys + 1
    /\ NoStore /\ UNCHANGED <<lib, crashes, lapses, faults, pc, boot, memory>>

\* Somebody uses the library although it was confirmed to be stopped.
LibraryChanges ==
    /\ lib < MaxVersions
    /\ lib' = lib + 1
    /\ NoStore /\ UNCHANGED <<deployed, deploys, crashes, lapses, faults, pc, boot, memory>>

Init ==
    /\ status    = [r \in Runs |-> "none"]
    /\ cancelReq = [r \in Runs |-> FALSE]
    /\ fence     = [r \in Runs |-> 0]
    /\ holder    = [r \in Runs |-> "none"]
    /\ lease     = [r \in Runs |-> "none"]
    /\ frozen    = [r \in Runs |-> {}]
    /\ completed = [r \in Runs |-> 0]
    /\ result    = [r \in Runs |-> [b \in Books |-> "none"]]
    /\ evidence  = [r \in Runs |-> [b \in Books |-> {}]]
    /\ record    = [v \in Versions |-> [b \in Books |-> NoRun]]
    /\ lib = 0 /\ deploys = 0 /\ crashes = 0 /\ lapses = 0 /\ faults = 0
    /\ deployed  \in Releases
    /\ release   = [r \in Runs |-> deployed]
    /\ pc        = [w \in Workers |-> "down"]
    /\ boot      = [w \in Workers |-> deployed]
    /\ wrun      = [w \in Workers |-> NoRun]
    /\ wfence    = [w \in Workers |-> 0]
    /\ source    = [w \in Workers |-> 0]
    /\ todo      = [w \in Workers |-> {}]
    /\ outcome   = [w \in Workers |-> "failed"]
    /\ errors    = [w \in Workers |-> FALSE]
    /\ verdict   = [w \in Workers |-> "failed"]
    /\ hbLost    = [w \in Workers |-> FALSE]

\* One step of the code of a verifier process.
WorkerStep(w) ==
    \/ Claim(w) \/ LeaseLost(w) \/ EnsureCurrent(w)
    \/ LoadContract(w) \/ CheckCancellation(w) \/ OpenSource(w) \/ Freeze(w)
    \/ Resume(w) \/ BeginBook(w) \/ AuditBook(w) \/ Announce(w) \/ Record(w)
    \/ AssertUnchanged(w) \/ Finish(w) \/ Close(w)

Next ==
    \/ \E r \in Runs :
         StartVerification(r) \/ CancelRun(r) \/ LeaseExpires(r) \/ LeaseLapses(r)
    \/ \E w \in Workers : WorkerStep(w) \/ HeartbeatLost(w) \/ Start(w) \/ Crash(w)
    \/ \E d \in Releases : Redeploy(d)
    \/ LibraryChanges

Spec == Init /\ [][Next]_vars

\* Verifier processes run and are restarted (unless-stopped), and time passes.
Fairness ==
    /\ \A w \in Workers : WF_vars(WorkerStep(w)) /\ WF_vars(Start(w))
    /\ \A r \in Runs : WF_vars(LeaseExpires(r))

FairSpec == Spec /\ Fairness

-----------------------------------------------------------------------------
(* Properties.                                                             *)

Pcs == StorePcs \cup {"down", "poll", "open", "begin", "audit", "announce", "final"}

StoreTypeOK ==
    /\ status    \in [Runs -> {"none"} \cup ActiveStatuses \cup TerminalStatuses]
    /\ release   \in [Runs -> Releases]
    /\ cancelReq \in [Runs -> BOOLEAN]
    /\ fence     \in [Runs -> Nat]
    /\ holder    \in [Runs -> Workers \cup {"none"}]
    /\ lease     \in [Runs -> {"none", "live", "expired"}]
    /\ frozen    \in [Runs -> SUBSET Versions]
    /\ completed \in [Runs -> 0..BookCount]
    /\ result    \in [Runs -> [Books -> ResultStates]]
    /\ evidence  \in [Runs -> [Books -> SUBSET Packages]]
    /\ record    \in [Versions -> [Books -> Runs \cup {NoRun}]]

EnvTypeOK ==
    /\ lib \in Versions /\ deployed \in Releases
    /\ deploys \in Nat /\ crashes \in Nat /\ lapses \in Nat /\ faults \in Nat

WorkerTypeOK ==
    /\ pc      \in [Workers -> Pcs]
    /\ boot    \in [Workers -> Releases]
    /\ wrun    \in [Workers -> Runs \cup {NoRun}]
    /\ wfence  \in [Workers -> Nat]
    /\ source  \in [Workers -> Versions]
    /\ todo    \in [Workers -> SUBSET Books]
    /\ outcome \in [Workers -> Outcomes]
    /\ errors  \in [Workers -> BOOLEAN]
    /\ verdict \in [Workers -> TerminalStatuses]
    /\ hbLost  \in [Workers -> BOOLEAN]

\* Every variable stays within its domain.
TypeOK == StoreTypeOK /\ EnvTypeOK /\ WorkerTypeOK

\* What a final status says about the results of the run.
Tells(r, s) ==
    /\ s = "completed" => \A b \in Books : result[r][b] = "settled"
    /\ s = "completed_with_errors" =>
          /\ \A b \in Books : result[r][b] \in {"settled", "failed"}
          /\ \E b \in Books : result[r][b] = "failed"

\* A run is completed only when every selected book was settled, and completed
\* with errors only when every book has an outcome and some have failed, over
\* all the claims it took and whatever stale processes tried to record
\* (execute_certificate_a_claim, resumable_book_keys, _load_owned_run).
StatusTellsResults == \A r \in Runs : Tells(r, status[r])

FrozenPcs   == {"check_frozen", "resume", "begin", "audit", "announce", "record"}
PipelinePcs == {"begin", "audit", "announce", "record", "final", "check_end"}

Sealed(r, b) == \E e \in evidence[r][b] : e.state = "settled"

\* What the process that holds the lease takes for granted.
Agrees(w) ==
    LET r == wrun[w] IN
    /\ pc[w] \in FrozenPcs => frozen[r] = {source[w]}
    /\ pc[w] \in PipelinePcs =>
          /\ \A b \in todo[w] : ~Sealed(r, b)
          /\ \A b \in Books \ todo[w] :
                \/ result[r][b] = "settled"
                \/ result[r][b] = "failed" /\ errors[w]
          /\ errors[w] =>
                \/ \E b \in Books \ todo[w] : result[r][b] = "failed"
                \/ pc[w] \in {"announce", "record"} /\ outcome[w] = "failed"
    /\ pc[w] = "record" => \A b \in InHand(w) : result[r][b] = outcome[w]
    /\ pc[w] = "finish" => Tells(r, verdict[w])

\* Whoever holds the lease works on what the store holds: the version in hand
\* is the frozen one, no book it will still audit has a sealed verdict, every
\* other book is settled or failed under its eyes, has_errors stands for a
\* recorded failure or the one in hand, and the status it is about to write is
\* what the results say, although earlier holders left their work at any point
\* and are still running (inventory, resumable_book_keys, LibraryAuditPipeline.run).
HolderAgrees == \A w \in Workers : AtWork(w) /\ Owned(w) => Agrees(w)

\* The progress counter of an ended run is the number of books that have an
\* outcome and evidence, although books that are retried leave and rejoin that
\* number without a refresh (record_state, _refresh_counts, finish).
CountsExact ==
    \A r \in Runs : status[r] \in TerminalStatuses =>
        completed[r] = Count(result[r], evidence[r])

\* All evidence of a run describes the one version of the library it froze,
\* however often it was recovered and the library changed (inventory).
EvidenceIsOfFrozenSource ==
    \A r \in Runs, b \in Books : \A e \in evidence[r][b] : frozen[r] = {e.source}

\* Every selected book of a completed run has evidence that was sealed with the
\* state its result shows.
CompletedIsSealed ==
    \A r \in Runs : status[r] = "completed" =>
        \A b \in Books : \E e \in evidence[r][b] : e.state = result[r][b]

\* What readers see of a run.
Phase(r) ==
    IF status[r] \notin ActiveStatuses THEN status[r]
    ELSE IF cancelReq[r] THEN "cancelling" ELSE "open"

VerdictSeen(r, b) == IF result[r][b] \in Outcomes THEN result[r][b] ELSE "none"

Promised == INSTANCE VerificationRuns WITH
    Requests <- Runs, Selected <- Books, Moments <- Versions,
    phase    <- [r \in Runs |-> Phase(r)],
    snapshot <- frozen,
    verdict  <- [r \in Runs |-> [b \in Books |-> VerdictSeen(r, b)]],
    package  <- evidence,
    tally    <- completed,
    latest   <- record

\* Whatever verifiers crash, stall, lose their lease or go on without it, the store
\* changes as if one auditor had done it all: the steps of VerificationRuns
\* (_load_owned_run, inventory, record_state, record_package, finish).
RunsAsPromised == Promised!RunsSpec

\* An ended run never changes again, whatever processes are still at work on it
\* (_claim_predicate, _load_owned_run).
EndedRunsStay ==
    [][\A r \in Runs : status[r] \in TerminalStatuses =>
          UNCHANGED <<status[r], fence[r], frozen[r], completed[r], result[r],
                      evidence[r]>>]_vars

\* A book whose verdict was sealed is never audited again in the same run,
\* nor is its package replaced by that of another process.
DecisionsAreFinal ==
    [][\A r \in Runs, b \in Books :
          Sealed(r, b) => UNCHANGED <<evidence[r][b], result[r][b]>>]_vars

\* Once a cancellation is accepted no book is started, announced or retried:
\* all that can still happen is that the package of an announced book is
\* sealed and that the run ends (record_state, record_package, cancel_run).
CancelStopsBooks ==
    [][\A r \in Runs : cancelReq[r] =>
          /\ UNCHANGED <<result[r], frozen[r]>>
          /\ \A b \in Books : evidence'[r][b] # evidence[r][b] =>
                result[r][b] \in Outcomes]_vars

\* The record of a book is never taken back to an older run: a process of an
\* earlier run cannot overwrite what a later run has recorded (record_package,
\* uq_verificationrun_active_source).
RecordsFollowNewestRun ==
    [][\A v \in Versions, b \in Books : record'[v][b] >= record[v][b]]_vars

\* Every accepted request ends, and so does every accepted cancellation,
\* although verifiers crash, stall, are redeployed or fail on the way
\* (run_certificate_a_worker).
RunsEnd == \A r \in Runs : (status[r] \in ActiveStatuses) ~> (status[r] \in TerminalStatuses)
=============================================================================
