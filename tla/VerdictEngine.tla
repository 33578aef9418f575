----------------------------- MODULE VerdictEngine ----------------------------
(***************************************************************************)
(* ContentVerificationEngine and the optional LLM witness: the rules judge *)
(* field after field, the verdicts are aggregated into an action and a     *)
(* patch, an LLM may adjudicate the ambiguous fields, and the conservative *)
(* gate decides whether the patch may be applied without a reviewer        *)
(* (verification/engine.py, verdict.py, engine_llm.py, audit/engine.py,    *)
(* ConservativeAutoApply of verification/restore.py).                      *)
(***************************************************************************)
EXTENDS VerdictRules, FiniteSetsExt

CONSTANTS
    MaxFieldsWithData,  \* bound: fields of the book that have any value at all
    MaxWitnessed        \* bound: fields the witness answers about

ASSUME VerdictAssumption == MaxFieldsWithData \in Nat /\ MaxWitnessed \in Nat

VARIABLES
    stage,      \* "start", "judging" or "decided"
    low,        \* the extraction is of low quality
    sampled,    \* running headers were sampled
    judged,     \* the verdict of each field judged so far
    book,       \* the aggregated BookVerdict
    witnessed   \* fields the witness was asked about

verdictVars == <<stage, low, sampled, judged, book, witnessed>>

HIGH_RISK_FLAGS == {"author_swap", "isbn_conflict", "edition_ambiguous", "cover_mismatch",
                    "wrong_book", "series_mismatch", "publisher_mismatch"}

\* _FIELD_BINDINGS: the order in which the fields are judged.
FieldOrder == <<"isbn", "title", "authors", "publisher", "published_date", "language", "series",
                "series_index", "volume", "chapter", "series_position">>

Position(f) == CHOOSE i \in DOMAIN FieldOrder : FieldOrder[i] = f

NoBook == [action |-> "none", eligible |-> FALSE, patch |-> {}, flags |-> {}, overall |-> 0]

HasData(v) == v.declared # "none" \/ v.observed # "none"
Empty(v)   == v.declared \in {"none", "empty"} /\ v.observed = "none"

-----------------------------------------------------------------------------
(* Aggregation.                                                            *)

Decided(vs) == {f \in DOMAIN vs : vs[f].kind # "ambiguous"}
Patched(vs) == {f \in DOMAIN vs : vs[f].kind \in {"mismatch", "missing"}}
AllFlags(vs) == UNION {vs[f].flags : f \in DOMAIN vs}

\* A field with no value on either side is skipped without a word.
Undecided(vs) == {f \in DOMAIN vs : vs[f].kind = "ambiguous" /\ ~Empty(vs[f])}

MeanConfidence(vs, fs) ==
    IF fs = {} THEN 0
    ELSE MapThenSumSet(LAMBDA f : vs[f].confidence, fs) \div Cardinality(fs)

decide_action(vs) ==
    LET overall == MeanConfidence(vs, Decided(vs)) IN
    FirstRow(<<
        <<AllFlags(vs) \cap HIGH_RISK_FLAGS # {},   "needs_review">>,
        <<Undecided(vs) # {},                       "needs_review">>,
        <<Patched(vs) = {},                         "no_change">>,
        <<overall >= 85,                            "suggest_fix">>,
        <<overall >= 70,                            "needs_review">>,
        <<TRUE,                                     "defer">> >>)

\* Mutant: a field that asks for review does not stop the patch.
is_auto_apply_unreviewed(vs) ==
    /\ decide_action(vs) = "suggest_fix" /\ Patched(vs) # {}
    /\ MeanConfidence(vs, Patched(vs)) >= 80
    /\ \A f \in Patched(vs) : vs[f].confidence >= 75

is_auto_apply_eligible(vs) ==
    /\ decide_action(vs) = "suggest_fix"
    /\ Undecided(vs) = {}
    /\ AllFlags(vs) \cap HIGH_RISK_FLAGS = {}
    /\ Patched(vs) # {}
    /\ MeanConfidence(vs, Patched(vs)) >= 80
    /\ \A f \in Patched(vs) : vs[f].confidence >= 75 /\ ~vs[f].review

Aggregate(vs) ==
    [action |-> decide_action(vs), eligible |-> is_auto_apply_eligible(vs),
     patch |-> [f \in Patched(vs) |-> vs[f].observed], flags |-> AllFlags(vs),
     overall |-> MeanConfidence(vs, Decided(vs))]

\* ConservativeAutoApply.is_eligible
GateOpen ==
    /\ book.eligible
    /\ book.flags \cap HIGH_RISK_FLAGS = {}
    /\ book.overall >= 80
    /\ DOMAIN book.patch # {}

-----------------------------------------------------------------------------
(* The run of one book.                                                    *)

Observe ==
    /\ stage = "start" /\ stage' = "judging"
    /\ low' \in BOOLEAN /\ sampled' \in BOOLEAN
    /\ UNCHANGED <<judged, book, witnessed>>

WithData(vs) == {f \in DOMAIN vs : HasData(vs[f])}

\* One turn of the loop of ContentVerificationEngine.verify; after the last one
\* the verdicts are aggregated.
JudgeField ==
    /\ stage = "judging"
    /\ LET f == FieldOrder[Cardinality(DOMAIN judged) + 1] IN
       \E v \in Verdicts(f, low, sampled) :
        LET next == [g \in DOMAIN judged \cup {f} |-> IF g = f THEN v ELSE judged[g]] IN
        /\ Cardinality(WithData(next)) <= MaxFieldsWithData
        /\ judged' = next
        /\ IF DOMAIN next = Fields
           THEN stage' = "decided" /\ book' = Aggregate(next)
           ELSE UNCHANGED <<stage, book>>
    /\ UNCHANGED <<low, sampled, witnessed>>

\* An answer of the LLM that has the required shape.
Answers == [kind : {"confirmed", "mismatch", "missing", "ambiguous"}, confidence : {95},
            observed : {"value"}, flags : {{}, {"wrong_book"}}]

\* _build_refined_verdict
Refined(v, a) ==
    [v EXCEPT !.kind = a.kind, !.observed = a.observed,
              !.confidence = IF a.kind = "ambiguous" THEN @ ELSE a.confidence,
              !.flags = @ \cup a.flags,
              !.review = @ \/ a.kind = "ambiguous", !.deterministic = FALSE]

\* The next ambiguous field; one with no value on either side is asked about too.
Asked(f) ==
    /\ f \notin witnessed /\ judged[f].kind = "ambiguous"
    /\ \A g \in witnessed : Position(g) < Position(f)
    /\ Cardinality(witnessed) < MaxWitnessed

\* Mutant: the verdicts are aggregated again.
WitnessAggregates(f) ==
    /\ stage = "decided" /\ Asked(f)
    /\ witnessed' = witnessed \cup {f}
    /\ \E a \in Answers : judged' = [judged EXCEPT ![f] = Refined(@, a)]
    /\ book' = Aggregate(judged')
    /\ UNCHANGED <<stage, low, sampled>>

\* witness_field; a failed request or an answer of another shape keeps the
\* verdict. What was aggregated before is not touched.
Witness(f) ==
    /\ stage = "decided" /\ Asked(f)
    /\ witnessed' = witnessed \cup {f}
    /\ \E a \in Answers : judged' = [judged EXCEPT ![f] = Refined(@, a)]
    /\ UNCHANGED <<stage, low, sampled, book>>

\* run_audit stores the verdict and goes on with the next book.
SaveVerdict ==
    /\ stage = "decided" /\ stage' = "start"
    /\ low' = FALSE /\ sampled' = FALSE
    /\ judged' = <<>> /\ book' = NoBook /\ witnessed' = {}

VerdictInit ==
    /\ stage = "start" /\ low = FALSE /\ sampled = FALSE
    /\ judged = <<>> /\ book = NoBook /\ witnessed = {}

VerdictNext == Observe \/ JudgeField \/ SaveVerdict \/ \E f \in Fields : Witness(f)

VerdictSpec == VerdictInit /\ [][VerdictNext]_verdictVars

-----------------------------------------------------------------------------
(* Properties.                                                             *)

\* What the gate lets through without a reviewer is harmless whatever the other
\* fields say: it erases no value, writes no ISBN whose checksum was not verified
\* and replaces none, changes nothing when the book looks like another one
\* (wrong title, author swap, other publisher or series), and no field that has a
\* value was left undecided (ContentVerificationEngine._is_auto_apply_eligible,
\* ConservativeAutoApply.is_eligible).
AutoApplyHarmless ==
    GateOpen =>
        /\ \A f \in DOMAIN book.patch : book.patch[f] # "none"
        /\ "isbn" \in DOMAIN book.patch => book.patch["isbn"] = "valid"
        /\ \A f \in DOMAIN book.patch \ {"title", "authors", "language"} :
              f \in {"isbn", "publisher", "published_date", "series"} => judged[f].declared = "none"
        /\ book.flags = {}
        /\ witnessed = {} => Undecided(judged) = {}

\* The LLM never is the source of a change: every value the book's patch would
\* write is the one a deterministic rule observed, whatever the witness said of
\* other fields before the verdict is stored (the head of engine_llm.py).
PatchIsDeterministic ==
    stage = "decided" =>
        \A f \in DOMAIN book.patch :
            judged[f].deterministic /\ judged[f].observed = book.patch[f]
=============================================================================
