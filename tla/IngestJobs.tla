------------------------------ MODULE IngestJobs ------------------------------
(***************************************************************************)
(* Background jobs of the development web app on the Valkey backend: the   *)
(* watcher of the library folder (ingest/watcher.py, ingest/polling.py),   *)
(* start_job, the queue and its worker loop (queue/valkey.py, web/jobs.py) *)
(* and what the jobs do to runs, book records and evidence                 *)
(* (ingest/single_file.py, do_scan, run_audit). Steps of an event loop     *)
(* that await something in between are separate actions.                   *)
(***************************************************************************)
EXTENDS Integers, Sequences, FiniteSets, SequencesExt

CONSTANTS
    Procs,        \* app processes, each with a watcher and a worker loop
    Observed,     \* those that have watchdog; the others poll
    Paths,        \* numbers of the files that may be in the watched folder
    LibraryBooks, \* numbers of the books a scan of the Calibre library finds
    MaxSeen,      \* max_seen_files of the polling watcher
    MaxJobs,      \* bound: jobs
    MaxSeconds,   \* bound: seconds of the clock, which name the runs
    MaxStops_,    \* bound: ends of processes
    MaxErrs       \* bound: failing Valkey calls and failing audits of a book

ASSUME JobsAssumption ==
    /\ Observed \subseteq Procs /\ Paths \subseteq Nat /\ LibraryBooks \subseteq Nat
    /\ Paths \cap LibraryBooks = {} /\ MaxSeen \in Nat \ {0} /\ MaxJobs \in Nat

Jobs   == 1..MaxJobs
Keys   == Paths \cup LibraryBooks
NoRun  == [task |-> "none", second |-> 0]

VARIABLES
    folder,     \* files in the watched folder
    up,         \* processes that run
    seen,       \* seen_files of a polling process, the oldest first
    events,     \* on_created events under way
    job,        \* the values of job:<id>
    waiting,    \* queue:jobs
    enqueued,   \* jobs enqueued so far
    step,       \* where the worker of a process is
    holds,      \* the job it has
    itsRun,     \* the run of that job
    books,      \* books it has loaded and not audited yet
    callbacks,  \* progress updates under way: the status they have read
    runs, record, judgements,   \* Run, BookRecord and EvidencePackage rows
    second, ends, errs,
    begun,      \* history: how often a job was begun
    dropped,    \* history: jobs lost with a process or a failed call
    taken,      \* history: runs whose book another run registered later
    skipped     \* history: books whose audit failed

queueVars == <<job, waiting, enqueued>>
loopVars  == <<step, holds, itsRun, books, callbacks>>
dbVars    == <<runs, record, judgements, skipped, taken>>
hostVars  == <<folder, up, seen, events>>
jobVars   == <<hostVars, queueVars, loopVars, dbVars, second, ends, errs, begun, dropped>>

NoJob  == [task |-> "none", target |-> 0, run |-> NoRun, status |-> "absent"]
Ended_ == {"completed", "failed"}
Held   == {holds[p] : p \in {q \in Procs : step[q] # "idle"}}

At(p, from, to) == step[p] = from /\ step' = [step EXCEPT ![p] = to]

\* enqueue: the value is set, then its id is pushed; the second call may fail.
Enqueue(j) ==
    /\ enqueued < MaxJobs /\ enqueued' = enqueued + 1
    /\ job' = [job EXCEPT ![enqueued + 1] = [j EXCEPT !.status = "pending"]]
    /\ \/ waiting' = Append(waiting, enqueued + 1) /\ UNCHANGED <<errs, dropped>>
       \/ /\ errs < MaxErrs /\ errs' = errs + 1
          /\ dropped' = dropped \cup {enqueued + 1} /\ UNCHANGED waiting

IngestJob(k) == [NoJob EXCEPT !.task = "ingest", !.target = k]

-----------------------------------------------------------------------------
(* Files and watchers.                                                     *)

AddFile(k) ==
    /\ k \notin folder /\ folder' = folder \cup {k}
    /\ events' = events \cup ({p \in up : p \in Observed} \X {k})
    /\ UNCHANGED <<up, seen, queueVars, loopVars, dbVars, second, ends, errs, begun, dropped>>

RemoveFile(k) ==
    /\ k \in folder /\ folder' = folder \ {k}
    /\ UNCHANGED <<up, seen, events, queueVars, loopVars, dbVars, second, ends, errs, begun, dropped>>

\* IngestHandler.on_created, then on_file_created on the event loop.
OnCreated(p, k) ==
    /\ <<p, k>> \in events /\ events' = events \ {<<p, k>>}
    /\ Enqueue(IngestJob(k))
    /\ UNCHANGED <<folder, up, seen, loopVars, dbVars, second, ends, begun>>

\* _remember: at capacity the oldest tenth, at least one, is forgotten.
Remember(s, k) ==
    IF Len(s) < MaxSeen THEN Append(s, k)
    ELSE Append(SubSeq(s, 1 + (IF MaxSeen \div 10 > 1 THEN MaxSeen \div 10 ELSE 1), Len(s)), k)

\* A tick meets a file it does not remember; it remembers it even if the callback fails.
Poll(p, k) ==
    /\ p \in up \ Observed /\ k \in folder /\ k \notin Range(seen[p])
    /\ seen' = [seen EXCEPT ![p] = Remember(@, k)]
    /\ Enqueue(IngestJob(k))
    /\ UNCHANGED <<folder, up, events, loopVars, dbVars, second, ends, begun>>

\* POST /runs/scan
RequestScan ==
    /\ up # {} /\ Enqueue([NoJob EXCEPT !.task = "scan"])
    /\ UNCHANGED <<hostVars, loopVars, dbVars, second, ends, begun>>

\* POST /runs/{run_id}/audit
RequestAudit(r) ==
    /\ up # {} /\ Enqueue([NoJob EXCEPT !.task = "audit", !.run = r])
    /\ UNCHANGED <<hostVars, loopVars, dbVars, second, ends, begun>>

-----------------------------------------------------------------------------
(* The worker loop of a process.                                           *)

\* blpop
Rest == Tail(waiting)

Dequeue(p) ==
    /\ p \in up /\ waiting # <<>> /\ At(p, "idle", "popped")
    /\ holds' = [holds EXCEPT ![p] = Head(waiting)] /\ waiting' = Rest
    /\ UNCHANGED <<hostVars, job, enqueued, itsRun, books, callbacks, dbVars, second, ends, errs, begun,
                   dropped>>

\* get_status of dequeue; a job that is not pending is let go.
Pick(p) ==
    /\ step[p] = "popped"
    /\ step' = [step EXCEPT ![p] = IF job[holds[p]].status = "pending" THEN "mark" ELSE "idle"]
    /\ UNCHANGED <<hostVars, queueVars, holds, itsRun, books, callbacks, dbVars, second, ends, errs,
                   begun, dropped>>

SetStatus(j, s) == job' = [job EXCEPT ![j].status = s]

\* update_job(running); run_job_from_payload names the run after the second it is in.
MarkRunning(p) ==
    LET j == holds[p] IN
    /\ At(p, "mark", job[j].task) /\ SetStatus(j, "running")
    /\ begun' = [begun EXCEPT ![j] = @ + 1]
    /\ itsRun' = [itsRun EXCEPT ![p] = IF job[j].task = "audit" THEN job[j].run
                                       ELSE [task |-> job[j].task, second |-> second]]
    /\ UNCHANGED <<hostVars, waiting, enqueued, holds, books, callbacks, dbVars, second, ends, errs,
                   dropped>>

\* Mutant: a record that exists stays with its run.
RegisteredOnce(ks, r) ==
    [k \in Keys |-> IF k \in ks /\ record[k].run = NoRun THEN [run |-> r, state |-> "scanned"]
                    ELSE record[k]]

Registered(ks, r) ==
    [k \in Keys |-> IF k \in ks THEN [run |-> r, state |-> "scanned"] ELSE record[k]]

\* One transaction inserts the Run, whose id is unique, and the records of its books.
Register(p, ks, to) ==
    /\ runs' = runs \cup {itsRun[p]} /\ record' = Registered(ks, itsRun[p])
    /\ taken' = taken \cup {record[k].run : k \in ks}
    /\ step' = [step EXCEPT ![p] = to]
    /\ UNCHANGED <<judgements, skipped>>

\* Mutant: an error leaves the job as it is.
FailSilently(p) == step' = [step EXCEPT ![p] = "idle"] /\ UNCHANGED dbVars

\* The error ends in an update_job(failed).
Fail(p) == step' = [step EXCEPT ![p] = "failed"] /\ UNCHANGED dbVars

\* do_scan
Scan(p) ==
    /\ step[p] = "scan"
    /\ IF itsRun[p] \in runs THEN Fail(p) ELSE Register(p, LibraryBooks, "completed")
    /\ UNCHANGED <<hostVars, queueVars, holds, itsRun, books, callbacks, second, ends, errs, begun,
                   dropped>>

\* audit_ingested_file, up to its run_audit; it remembers its run for the result.
Ingest(p) ==
    LET k == job[holds[p]].target IN
    /\ step[p] = "ingest"
    /\ IF k \notin folder \/ itsRun[p] \in runs
       THEN Fail(p) /\ UNCHANGED job
       ELSE /\ Register(p, {k}, "audit")
            /\ job' = [job EXCEPT ![holds[p]].run = itsRun[p]]
    /\ UNCHANGED <<hostVars, waiting, enqueued, holds, itsRun, books, callbacks, second, ends, errs,
                   begun, dropped>>

\* run_audit loads the books of the run
LoadBooks(p) ==
    /\ At(p, "audit", "auditing")
    /\ books' = [books EXCEPT ![p] = {k \in Keys : record[k].run = itsRun[p]}]
    /\ UNCHANGED <<hostVars, queueVars, holds, itsRun, callbacks, dbVars, second, ends, errs, begun,
                   dropped>>

\* and judges them one by one. Only an audit job reports its progress, with a task
\* of its own.
AuditBook(p, k) ==
    /\ step[p] = "auditing" /\ k \in books[p]
    /\ books' = [books EXCEPT ![p] = @ \ {k}]
    /\ callbacks' = IF job[holds[p]].task # "audit" THEN callbacks
                    ELSE callbacks \cup {[proc |-> p, job |-> holds[p], read |-> "nothing"]}
    /\ \/ /\ record' = [record EXCEPT ![k].state = "judged"]
          /\ judgements' = judgements \cup {<<k, itsRun[p]>>} /\ UNCHANGED <<skipped, errs>>
       \/ /\ errs < MaxErrs /\ errs' = errs + 1
          /\ skipped' = skipped \cup {<<k, itsRun[p]>>} /\ UNCHANGED <<record, judgements>>
    /\ UNCHANGED <<hostVars, queueVars, step, holds, itsRun, runs, taken, second, ends, begun,
                   dropped>>

EndAudit(p) ==
    /\ books[p] = {} /\ At(p, "auditing", "completed")
    /\ UNCHANGED <<hostVars, queueVars, holds, itsRun, books, callbacks, dbVars, second, ends, errs,
                   begun, dropped>>

\* The last update_job.
Finish(p) ==
    /\ step[p] \in Ended_ /\ SetStatus(holds[p], step[p])
    /\ step' = [step EXCEPT ![p] = "idle"]
    /\ UNCHANGED <<hostVars, waiting, enqueued, holds, itsRun, books, callbacks, dbVars, second, ends,
                   errs, begun, dropped>>

\* A Valkey call of the loop raises: worker_loop logs it and goes on.
LoseJob(p) ==
    /\ errs < MaxErrs /\ errs' = errs + 1
    /\ step[p] \in {"popped", "mark"} \cup Ended_
    /\ step' = [step EXCEPT ![p] = "idle"] /\ dropped' = dropped \cup {holds[p]}
    /\ UNCHANGED <<hostVars, queueVars, holds, itsRun, books, callbacks, dbVars, second, ends, begun>>

\* The two halves of an update_job of a progress callback.
ReadProgress(c) ==
    /\ c.read = "nothing"
    /\ callbacks' = (callbacks \ {c}) \cup {[c EXCEPT !.read = job[c.job].status]}
    /\ UNCHANGED <<hostVars, queueVars, step, holds, itsRun, books, dbVars, second, ends, errs, begun,
                   dropped>>

WriteProgress(c) ==
    /\ c.read # "nothing" /\ SetStatus(c.job, c.read) /\ callbacks' = callbacks \ {c}
    /\ UNCHANGED <<hostVars, waiting, enqueued, step, holds, itsRun, books, dbVars, second, ends, errs,
                   begun, dropped>>

-----------------------------------------------------------------------------
\* A process ends, or stop_worker_task cancels its loop.
Stop(p) ==
    /\ p \in up /\ ends < MaxStops_ /\ ends' = ends + 1 /\ up' = up \ {p}
    /\ dropped' = IF step[p] = "idle" THEN dropped ELSE dropped \cup {holds[p]}
    /\ step' = [step EXCEPT ![p] = "idle"] /\ books' = [books EXCEPT ![p] = {}]
    /\ events' = {e \in events : e[1] # p} /\ callbacks' = {c \in callbacks : c.proc # p}
    /\ UNCHANGED <<folder, seen, queueVars, holds, itsRun, dbVars, second, errs, begun>>

\* The watcher starts with what is in the folder and announces none of it.
Start(p) ==
    /\ p \notin up /\ up' = up \cup {p}
    /\ seen' = [seen EXCEPT ![p] = FoldLeft(Remember, <<>>, SetToSortSeq(folder, <))]
    /\ UNCHANGED <<folder, events, queueVars, loopVars, dbVars, second, ends, errs, begun, dropped>>

Second ==
    /\ second < MaxSeconds /\ second' = second + 1
    /\ UNCHANGED <<hostVars, queueVars, loopVars, dbVars, ends, errs, begun, dropped>>

JobsInit ==
    /\ folder = {} /\ up = Procs /\ seen = [p \in Procs |-> <<>>] /\ events = {}
    /\ job = [j \in Jobs |-> NoJob] /\ waiting = <<>> /\ enqueued = 0
    /\ step = [p \in Procs |-> "idle"] /\ holds = [p \in Procs |-> 1]
    /\ itsRun = [p \in Procs |-> NoRun] /\ books = [p \in Procs |-> {}] /\ callbacks = {}
    /\ runs = {} /\ record = [k \in Keys |-> [run |-> NoRun, state |-> "none"]] /\ judgements = {}
    /\ second = 0 /\ ends = 0 /\ errs = 0 /\ begun = [j \in Jobs |-> 0]
    /\ dropped = {} /\ taken = {} /\ skipped = {}

JobsNext ==
    \/ RequestScan \/ Second \/ \E r \in runs : RequestAudit(r)
    \/ \E k \in Paths : AddFile(k) \/ RemoveFile(k) \/ \E p \in Procs : OnCreated(p, k) \/ Poll(p, k)
    \/ \E p \in Procs :
        \/ Dequeue(p) \/ Pick(p) \/ MarkRunning(p) \/ Scan(p) \/ Ingest(p) \/ LoadBooks(p)
        \/ EndAudit(p) \/ Finish(p) \/ LoseJob(p) \/ Stop(p) \/ Start(p)
        \/ \E k \in Keys : AuditBook(p, k)
    \/ \E c \in callbacks : ReadProgress(c) \/ WriteProgress(c)

JobsSpec == JobsInit /\ [][JobsNext]_jobVars

-----------------------------------------------------------------------------
(* Properties.                                                             *)

\* Whatever ends, starts and fails, no job is begun twice, and one without an
\* outcome is in the queue or with a worker, unless a process ended or a Valkey
\* call failed while it had the job (enqueue, dequeue, worker_loop). Audit jobs are
\* left out of the second part: a late progress update makes them running again.
JobsAccounted ==
    \A j \in 1..enqueued :
        /\ begun[j] <= 1
        /\ job[j].task # "audit" /\ job[j].status \notin Ended_ =>
              j \in Range(waiting) \cup Held \cup dropped

\* An ingest job that is reported as completed has judged its file, or the audit
\* raised, or a later job has registered the file again (audit_ingested_file).
CompletedIsJudged ==
    \A j \in Jobs :
        job[j].task = "ingest" /\ job[j].status = "completed" =>
            \/ <<job[j].target, job[j].run>> \in judgements \cup skipped
            \/ job[j].run \in taken
=============================================================================
