----------------------------- MODULE MCEvidence ------------------------------
(* Small instances of what a verification does with a book: freezing the    *)
(* source, collecting evidence, judging fields. The components share no     *)
(* state: a behaviour chooses one at its start and the others stay still.   *)
EXTENDS VerdictEngine, EvidencePipeline, SourceSnapshot, TLC

CONSTANTS Parts, f1, f2, db, i1, i2

VARIABLE part

PartsInit ==
    /\ part \in Parts
    /\ VerdictInit /\ EvidenceInit /\ SnapInit
    /\ part # "snapshot" => kind = "offline"

PartsNext ==
    /\ UNCHANGED part
    /\ \/ part = "verdict" /\ VerdictNext
       \/ part # "verdict" /\ UNCHANGED verdictVars
    /\ \/ part = "evidence" /\ EvidenceNext
       \/ part # "evidence" /\ UNCHANGED evidenceVars
    /\ \/ part = "snapshot" /\ SnapNext
       \/ part # "snapshot" /\ UNCHANGED snapVars

PartsSpec == PartsInit /\ [][PartsNext]_<<part, verdictVars, evidenceVars, snapVars>>

\* ISBNs and files of the library are interchangeable.
Interchangeable == Permutations(Isbns) \cup Permutations(Files)
==============================================================================
