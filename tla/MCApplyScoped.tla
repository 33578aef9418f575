----------------------------- MODULE MCApplyScoped -----------------------------
(* Several envelopes of bounds in one run: a behaviour chooses one of them at *)
(* its start. An envelope only takes steps away from the environment (crashes, *)
(* losses, edits, failing commands, a second operation), never from the code.  *)
EXTENDS MCApply

CONSTANT Scopes

VARIABLE scope

\* Nobody reviews, locks a field or verifies again.
Unreviewed ==
    \A b \in Books :
        /\ brun'[b] <= 1 /\ flocks'[b] = {}
        /\ bstat'[b] \in {"scanned", "suggest_fix"} => bstat'[b] = bstat[b] \/ opState' # opState

Within ==
    CASE scope = "reviews"  -> opState'[2] = "none" /\ faults' = 0
      [] scope = "failures" -> Unreviewed

ScopedSpec == Init /\ scope \in Scopes /\ [][Next /\ Within /\ scope' = scope]_<<vars, scope>>

ScopedFairSpec == ScopedSpec /\ Fairness
================================================================================
