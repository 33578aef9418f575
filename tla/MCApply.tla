------------------------------- MODULE MCApply -------------------------------
(* Small instances of ApplySystem for TLC.                                  *)
EXTENDS ApplySystem, TLC

CONSTANTS b1, b2, w1, w2, q1, q2, p1, p2, r1, r2

WholePatch == (b1 :> {"opf", "custom", "cover"})
PlainPatch == (b1 :> {"opf"}) @@ (b2 :> {"opf"})
TextPatch  == (b1 :> {"opf", "custom"})

\* Requests, writer processes and pilots are interchangeable; the books are
\* not, since an unused ledger row names one of them.
Interchangeable ==
    Permutations({q1, q2}) \cup Permutations({w1, w2}) \cup Permutations({p1, p2})

\* Envelopes of bounds, as action constraints. A lost connection excludes crashes,
\* edits and a second failure, and an edit excludes a second failure.
CrashesOrLosses ==
    /\ losses' = 0 \/ (crashes' = 0 /\ edits' = 0 /\ faults' <= 1)
    /\ edits' + faults' <= 2

\* A crash and a redeployment of one behaviour share two ledger rows.
CrashAndRedeployment == (crashes' > 0 /\ deploys' > 0) => opState'[3] = "none"
=============================================================================
