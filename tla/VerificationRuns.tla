--------------------------- MODULE VerificationRuns ---------------------------
(***************************************************************************)
(* What certificate A promises of a verification run, without processes,   *)
(* leases or fences: as if one auditor had frozen the library, judged and  *)
(* sealed one book after the other and closed the run, although others     *)
(* took over, stalled or worked on in between. A settled book stays        *)
(* settled, everything sealed is about the frozen library, a cancelled run *)
(* had a cancellation and stops judging with it, and the status of an      *)
(* ended run and its counter are what its books say.                       *)
(***************************************************************************)
EXTENDS Integers, FiniteSets

CONSTANTS Requests, Selected, Moments

VARIABLES phase,      \* of each run
          snapshot,   \* the moment of the library it froze, if it has
          verdict,    \* what was said of each of its books
          package,    \* the evidence that was sealed for it
          tally,      \* the books that have both, as readers are shown
          latest      \* the run that sealed a book last, for each moment

promised == <<phase, snapshot, verdict, package, tally, latest>>

Going    == {"open", "cancelling"}
Verdicts == {"settled", "failed", "source_changed"}

Settled(r, b) == \E p \in package[r][b] : p.state = "settled"
Tally(vs, ps) == Cardinality({b \in Selected : vs[b] # "none" /\ ps[b] # {}})

RunsInit ==
    /\ phase    = [r \in Requests |-> "none"]
    /\ snapshot = [r \in Requests |-> {}]
    /\ verdict  = [r \in Requests |-> [b \in Selected |-> "none"]]
    /\ package  = [r \in Requests |-> [b \in Selected |-> {}]]
    /\ tally    = [r \in Requests |-> 0]
    /\ latest   = [m \in Moments |-> [b \in Selected |-> 0]]

\* One run at a time, in the order of the requests.
Request(r) ==
    /\ phase[r] = "none"
    /\ \A q \in Requests : phase[q] \notin Going /\ (q < r => phase[q] # "none")
    /\ phase' = [phase EXCEPT ![r] = "open"]
    /\ UNCHANGED <<snapshot, verdict, package, tally, latest>>

Cancel(r) ==
    /\ phase[r] = "open"
    /\ phase' = [phase EXCEPT ![r] = "cancelling"]
    /\ UNCHANGED <<snapshot, verdict, package, tally, latest>>

FreezeLibrary(r) ==
    /\ phase[r] = "open" /\ snapshot[r] = {}
    /\ \E m \in Moments : snapshot' = [snapshot EXCEPT ![r] = {m}]
    /\ UNCHANGED <<phase, verdict, package, tally, latest>>

\* A book that has no settled package is judged, or taken up again.
Judge(r, b) ==
    /\ phase[r] = "open" /\ snapshot[r] # {} /\ ~Settled(r, b)
    /\ \E s \in Verdicts \cup {"none"} : verdict' = [verdict EXCEPT ![r][b] = s]
    /\ UNCHANGED <<phase, snapshot, package, tally, latest>>

\* Its verdict is sealed, also while the run is being cancelled.
Seal(r, b) ==
    /\ phase[r] \in Going /\ verdict[r][b] # "none" /\ ~Settled(r, b)
    /\ \E m \in snapshot[r] :
          /\ package' = [package EXCEPT ![r][b] = {[state |-> verdict[r][b], source |-> m]}]
          /\ latest'  = [latest EXCEPT ![m][b] = r]
    /\ tally' = [tally EXCEPT ![r] = Tally(verdict[r], package'[r])]
    /\ UNCHANGED <<phase, snapshot, verdict>>

\* When a run may end so.
Earned(r, s) ==
    /\ s = "cancelled" => phase[r] = "cancelling"
    /\ s \in {"completed", "completed_with_errors"} => snapshot[r] # {}
    /\ s = "completed" => \A b \in Selected : verdict[r][b] = "settled"
    /\ s = "completed_with_errors" =>
          /\ \A b \in Selected : verdict[r][b] \in {"settled", "failed"}
          /\ \E b \in Selected : verdict[r][b] = "failed"

Ends == {"cancelled", "completed", "completed_with_errors", "failed", "source_changed",
         "blocked_recovery"}

End(r) ==
    /\ phase[r] \in Going
    /\ \E s \in Ends : Earned(r, s) /\ phase' = [phase EXCEPT ![r] = s]
    /\ tally' = [tally EXCEPT ![r] = Tally(verdict[r], package[r])]
    /\ UNCHANGED <<snapshot, verdict, package, latest>>

RunsNext ==
    \E r \in Requests :
       \/ Request(r) \/ Cancel(r) \/ FreezeLibrary(r) \/ End(r)
       \/ \E b \in Selected : Judge(r, b) \/ Seal(r, b)

RunsSpec == RunsInit /\ [][RunsNext]_promised
=============================================================================
