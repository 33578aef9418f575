------------------------- MODULE ManifestationIdentity ------------------------
(***************************************************************************)
(* resolve_manifestation (verification/identity_v2.py): which edition the  *)
(* formats of a book are, in which tier, and what may be patched. Values   *)
(* and ISBNs are compared after normalisation, so equal means equal keys.  *)
(***************************************************************************)
EXTENDS Integers, Sequences, FiniteSets

Absent == "absent"

Core        == {"title", "authors", "languages"}
PatchFields == Core \cup {"identifiers", "publisher", "cover"}

INTERNAL_PROMOTION_KINDS == {"embedded_metadata", "content_native", "ocr_consensus"}
INTERNAL_IDENTITY_KINDS  == {"content_native", "ocr_consensus"}
OFFICIAL_KINDS           == {"official_page", "national_library"}
EXTERNAL_PROMOTION_KINDS == OFFICIAL_KINDS \cup {"provider_structured"}

\* An item of SourceEvidence. root is its effective_root; bytes is the version of
\* the file an internal item was read from (artifact_sha256).
Evidence(id, root, kind, field, value, isbn, bytes) ==
    [id |-> id, root |-> root, kind |-> kind, field |-> field, value |-> value, isbn |-> isbn,
     bytes |-> bytes,
     authoritative |-> kind \notin {"ocr_observation", "vision", "llm"}]

Ranged(s) == {s[i] : i \in DOMAIN s}

\* The distinct ISBNs of the readable formats.
FormatIds(formats) == {f.isbn : f \in {g \in Ranged(formats) : g.status = "readable"}} \ {Absent}

CoreConflict(formats) ==
    \E c \in Core : Cardinality({f.core[c] : f \in Ranged(formats)} \ {Absent}) > 1

CompleteCore(formats) == \A f \in Ranged(formats), c \in Core : f.core[c] # Absent

Identifies(e, kinds, isbn) ==
    e.field = "identifiers" /\ e.authoritative /\ e.kind \in kinds /\ e.isbn = isbn

ExternalRoots(ev, isbn) == {e.root : e \in {x \in ev : Identifies(x, EXTERNAL_PROMOTION_KINDS, isbn)}}

\* What the external roots that confirm the ISBN say of the core fields.
ExternalCore(ev, isbn) ==
    {e \in ev : /\ e.authoritative /\ e.kind \in EXTERNAL_PROMOTION_KINDS
                /\ e.root \in ExternalRoots(ev, isbn) /\ e.field \in Core}

ExternalConflict(formats, ev, isbn) ==
    \E e \in ExternalCore(ev, isbn) : e.value # formats[1].core[e.field]

ExternalMatch(formats, ev, isbn) ==
    \E r \in ExternalRoots(ev, isbn) : \A c \in Core :
        \E e \in ev : e.authoritative /\ e.root = r /\ e.field = c /\ e.value = formats[1].core[c]

-----------------------------------------------------------------------------
(* _resolve_fields                                                         *)

Eligible(ev, field, isbn) ==
    {e \in ev : /\ e.field = field /\ e.authoritative /\ e.isbn = isbn
                /\ e.kind \in INTERNAL_PROMOTION_KINDS \cup EXTERNAL_PROMOTION_KINDS}

\* Mutant: two records of one source count as two.
DecideByCount(ev, current, field, isbn) ==
    LET items == Eligible(ev, field, isbn) IN
    IF Cardinality({e.value : e \in items}) # 1 \/ Cardinality(items) < 2 THEN "review"
    ELSE IF current[field] \in {e.value : e \in items} THEN "unchanged" ELSE "auto"

\* One value, two independent roots, one of them internal or official.
Decide(ev, current, field, isbn) ==
    LET items == Eligible(ev, field, isbn) IN
    IF \/ Cardinality({e.value : e \in items}) # 1
       \/ Cardinality({e.root : e \in items}) < 2
       \/ {e.kind : e \in items} \cap (INTERNAL_PROMOTION_KINDS \cup OFFICIAL_KINDS) = {}
    THEN "review"
    ELSE IF current[field] \in {e.value : e \in items} THEN "unchanged" ELSE "auto"

ResolveFields(ev, current, isbn) ==
    LET auto == {f \in PatchFields : Decide(ev, current, f, isbn) = "auto"} IN
    [f \in auto |-> (CHOOSE e \in Eligible(ev, f, isbn) : TRUE).value]

-----------------------------------------------------------------------------
Resolution(tier, isbn, flag, patch) == [tier |-> tier, isbn |-> isbn, flag |-> flag, patch |-> patch]

\* The early returns in the order of the code; only tier A carries a patch.
Resolve(formats, ev, current) ==
    LET ids  == FormatIds(formats)
        isbn == IF Cardinality(ids) = 1 THEN CHOOSE i \in ids : TRUE ELSE Absent
        Stop(tier, flag) == Resolution(tier, isbn, flag, <<>>)
    IN CASE Cardinality(ids) > 1 -> Stop("C", "format_manifestation_conflict")
         [] OTHER ->
            IF \E f \in Ranged(formats) : f.status # "readable"
                THEN Stop("B", "incomplete_format_evidence")
            ELSE IF ids = {} THEN Stop("B", "missing_manifestation_identifier")
            ELSE IF ~\E e \in ev : Identifies(e, INTERNAL_IDENTITY_KINDS, isbn)
                THEN Stop("B", "missing_internal_manifestation_confirmation")
            ELSE IF ExternalRoots(ev, isbn) = {}
                THEN Stop("B", "missing_external_manifestation_confirmation")
            ELSE IF CoreConflict(formats) THEN Stop("C", "format_expression_conflict")
            ELSE IF ~CompleteCore(formats) THEN Stop("B", "incomplete_internal_core_evidence")
            ELSE IF ExternalConflict(formats, ev, isbn)
                THEN Stop("C", "external_expression_conflict")
            ELSE IF ~ExternalMatch(formats, ev, isbn)
                THEN Stop("B", "missing_external_core_confirmation")
            ELSE Resolution("A", isbn, "none", ResolveFields(ev, current, isbn))
=============================================================================
