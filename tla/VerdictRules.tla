----------------------------- MODULE VerdictRules -----------------------------
(***************************************************************************)
(* The deterministic rules of verification/rules.py. A rule compares the   *)
(* value Calibre declares with the value observed in the book. The values  *)
(* are abstracted to what the rules tell apart: whether each is there, and *)
(* how the two relate after normalisation. Similarities are percentages,   *)
(* one for each interval between the thresholds of the rules.              *)
(***************************************************************************)
EXTENDS Integers, Sequences

Fields == {"isbn", "title", "authors", "publisher", "published_date", "language", "series",
           "series_index", "volume", "chapter", "series_position"}

\* FieldVerdict without its wording and its evidence spans.
Verdict(d, o, kind, confidence, flags, review) ==
    [declared |-> d, observed |-> o, kind |-> kind, confidence |-> confidence,
     flags |-> flags, review |-> review, deterministic |-> TRUE]

Plain(d, o, kind, confidence) == Verdict(d, o, kind, confidence, {}, FALSE)

\* The early returns of a rule: the first row whose condition holds.
FirstRow(rows) ==
    rows[CHOOSE i \in DOMAIN rows : rows[i][1] /\ \A j \in 1..(i - 1) : ~rows[j][1]][2]

-----------------------------------------------------------------------------
IsbnInputs ==
    {i \in [d : {"none", "valid", "invalid"}, o : {"none", "valid", "invalid"},
            rel : {"same", "converts", "differs"}] :
        /\ i.rel = "same" => i.d = i.o
        /\ i.rel = "converts" => {i.d, i.o} \cap {"valid"} # {} /\ "none" \notin {i.d, i.o}}

\* An observed ISBN with a wrong checksum counts as an observation.
IsbnAbsent(i) ==
    LET V(kind, c) == Plain(i.d, i.o, kind, c) IN <<
        <<i.d = "none" /\ i.o = "none",       V("ambiguous", 0)>>,
        <<i.d = "none" /\ i.o = "valid",      V("missing", 95)>>,
        <<i.d = "none",                       V("ambiguous", 40)>>,
        <<i.o = "none",                       V("ambiguous", 50)>> >>

IsbnCompared(i) ==
    LET V(kind, c) == Plain(i.d, i.o, kind, c)
        Conflict(c) == Verdict(i.d, i.o, "mismatch", c, {"isbn_conflict"}, TRUE)
    IN <<
        <<i.d = "invalid" /\ i.o = "invalid", V("ambiguous", 30)>>,
        <<i.rel = "same",                     V("confirmed", 99)>>,
        <<i.rel = "converts",                 V("confirmed", 90)>>,
        <<i.d = "valid" /\ i.o = "valid",     Conflict(98)>>,
        <<i.o = "valid",                      Conflict(92)>>,
        <<TRUE,                               Conflict(88)>> >>

verify_isbn(i) == FirstRow(IsbnAbsent(i) \o IsbnCompared(i))

\* noise: what the raw declared title carries; sub: which normalised title
\* contains the other; "near" is a length difference of at most 20.
TitleNoise == {"junk", "punctuation", "by_author", "edition", "filename"}

TitleInputs ==
    {i \in [d : {"none", "empty", "text"}, o : {"none", "short", "text"},
            noise : SUBSET TitleNoise, sim : {30, 45, 60, 80, 92, 96},
            sub : {"no", "near", "far"}, low : BOOLEAN] :
        /\ "punctuation" \in i.noise => i.sim = 96
        /\ "by_author" \in i.noise => i.sub # "no"
        /\ (i.d # "text" \/ i.o = "none") => i.noise = {} /\ i.sim = 30 /\ i.sub = "no"}

TitleAbsent(i) ==
    LET V(kind, c) == Plain(i.d, i.o, kind, c) IN <<
        <<i.d = "none" /\ i.o = "none",               V("ambiguous", 0)>>,
        <<i.d = "none" /\ i.low,                      V("ambiguous", 55)>>,
        <<i.d = "none",                               V("missing", IF i.o = "text" THEN 95 ELSE 70)>>,
        <<i.d = "text" /\ i.o = "none",               V("ambiguous", 50)>>,
        <<i.d = "empty",                              V("ambiguous", 40)>> >>

\* A declared title that carries something the book does not is corrected.
TitleNoisy(i) ==
    LET V(kind, c) == Plain(i.d, i.o, kind, c) IN <<
        <<"junk" \in i.noise,                         V("mismatch", 95)>>,
        <<"punctuation" \in i.noise,                  V("mismatch", 80)>>,
        <<"by_author" \in i.noise,                    V("mismatch", 88)>>,
        <<"edition" \in i.noise /\ i.sim >= 90,       V("mismatch", 82)>>,
        <<"filename" \in i.noise /\ i.sim >= 50,      V("mismatch", 92)>> >>

TitleCompared(i) ==
    LET V(kind, c) == Plain(i.d, i.o, kind, c) IN <<
        <<i.sim >= 95 /\ i.low,                       V("ambiguous", 55)>>,
        <<i.sim >= 95,                                V("confirmed", 95)>>,
        <<i.sub = "near",                             V("confirmed", 85)>>,
        <<i.sub = "far",                              V("mismatch", 80)>>,
        <<i.sim < 40,  Verdict(i.d, i.o, "mismatch", 95, {"wrong_book"}, FALSE)>>,
        <<i.sim < 70,                                 V("mismatch", 95)>>,
        <<TRUE,                                       V("ambiguous", 60)>> >>

verify_title(i) == FirstRow(TitleAbsent(i) \o TitleNoisy(i) \o TitleCompared(i))

\* rel: how the two author sets relate, in the order the rule asks. "tolerant"
\* is a match up to transliteration or surname; "extra" are declared authors the
\* book does not name, "extra_alike" when each resembles one it does name.
AuthorsInputs ==
    {i \in [d : {"none", "names"}, o : {"none", "names"}, low : BOOLEAN,
            rel : {"equal", "tolerant", "sentinel", "disjoint", "extra", "extra_alike",
                   "co_author", "partial"}] :
        "none" \in {i.d, i.o} => i.rel = "equal"}

AuthorsAbsent(i) ==
    LET V(kind, c) == Plain(i.d, i.o, kind, c) IN <<
        <<i.d = "none" /\ i.o = "none",   V("ambiguous", 0)>>,
        <<i.d = "none",                   V("missing", 95)>>,
        <<i.o = "none",                   V("ambiguous", 50)>> >>

AuthorsMatch(i) ==
    LET V(kind, c) == Plain(i.d, i.o, kind, c) IN <<
        <<i.rel = "equal" /\ i.low,       V("ambiguous", 55)>>,
        <<i.rel = "equal",                V("confirmed", 99)>>,
        <<i.rel = "tolerant",             V("confirmed", 88)>> >>

AuthorsDiffer(i) ==
    LET V(kind, c) == Plain(i.d, i.o, kind, c)
        Swap(c) == Verdict(i.d, i.o, "mismatch", c, {"author_swap"}, TRUE)
    IN <<
        <<i.rel = "sentinel",             V("mismatch", 92)>>,
        <<i.rel = "disjoint",             Swap(92)>>,
        <<i.rel = "extra",                Swap(88)>>,
        <<i.rel = "extra_alike",          V("mismatch", 88)>>,
        <<i.rel = "co_author",            V("mismatch", 92)>>,
        <<TRUE,                           V("mismatch", 80)>> >>

verify_authors(i) == FirstRow(AuthorsAbsent(i) \o AuthorsMatch(i) \o AuthorsDiffer(i))

\* Values of the other fields: there or not, and how they compare.
Pair(rels) ==
    {i \in [d : {"none", "value"}, o : {"none", "value"}, rel : rels] :
        "none" \in {i.d, i.o} => i.rel = "same"}

PublisherInputs == Pair({"same", "variant", "alike", "far"})
DateInputs      == Pair({"same", "next_year", "far", "unparsed"})
LanguageInputs  == Pair({"same", "far"})
IndexInputs     == Pair({"same", "far", "unparsed"})
NumberInputs    == Pair({"same", "far"})
SeriesInputs    == {[sampled |-> s, d |-> i.d, o |-> i.o, rel |-> i.rel] :
                        s \in BOOLEAN, i \in Pair({"same", "far"})}

PublisherRows(i) ==
    LET V(kind, c) == Plain(i.d, i.o, kind, c) IN <<
        <<i.d = "none" /\ i.o = "none",   V("ambiguous", 0)>>,
        <<i.d = "none",                   V("missing", 80)>>,
        <<i.o = "none",                   V("ambiguous", 50)>>,
        <<i.rel = "same",                 V("confirmed", 99)>>,
        <<i.rel = "variant",              V("confirmed", 85)>>,
        <<i.rel = "far",  Verdict(i.d, i.o, "mismatch", 85, {"publisher_mismatch"}, TRUE)>>,
        <<TRUE,                           V("ambiguous", 60)>> >>

verify_publisher(i) == FirstRow(PublisherRows(i))

DateRows(i) ==
    LET V(kind, c) == Plain(i.d, i.o, kind, c) IN <<
        <<i.d = "none" /\ i.o = "none",   V("ambiguous", 0)>>,
        <<i.d = "none",                   V("missing", 85)>>,
        <<i.o = "none",                   V("ambiguous", 50)>>,
        <<i.rel = "unparsed",             V("ambiguous", 40)>>,
        <<i.rel = "next_year",            V("confirmed", 80)>>,
        <<i.rel = "far",                  Verdict(i.d, i.o, "mismatch", 90, {}, TRUE)>>,
        <<TRUE,                           V("confirmed", 90)>> >>

verify_published_date(i) == FirstRow(DateRows(i))

LanguageRows(i) ==
    LET V(kind, c) == Plain(i.d, i.o, kind, c) IN <<
        <<i.d = "none" /\ i.o = "none",   V("ambiguous", 0)>>,
        <<i.d = "none",                   V("missing", 90)>>,
        <<i.o = "none",                   V("ambiguous", 50)>>,
        <<i.rel = "same",                 V("confirmed", 99)>>,
        <<TRUE,                           V("mismatch", 90)>> >>

verify_language(i) == FirstRow(LanguageRows(i))

\* A declared series is held against headers that were sampled.
SeriesRows(i) ==
    LET V(kind, c) == Plain(i.d, i.o, kind, c)
        Differs(c) == Verdict(i.d, i.o, "mismatch", c, {"series_mismatch"}, TRUE)
    IN <<
        <<i.d = "none" /\ i.o = "none",   V("confirmed", IF i.sampled THEN 95 ELSE 90)>>,
        <<i.d = "none",                   V("missing", 85)>>,
        <<i.o = "none" /\ ~i.sampled,     V("ambiguous", 50)>>,
        <<i.o = "none",                   Differs(80)>>,
        <<i.rel = "same",                 V("confirmed", 95)>>,
        <<TRUE,                           Differs(85)>> >>

verify_series(i) == FirstRow(SeriesRows(i))

\* Two numbers; one that cannot be parsed is none.
NumberRows(i) ==
    LET V(kind, c) == Plain(i.d, i.o, kind, c) IN <<
        <<i.d = "none" /\ i.o = "none",   V("confirmed", 90)>>,
        <<i.d = "none",                   V("missing", 85)>>,
        <<i.o = "none",                   V("ambiguous", 50)>>,
        <<i.rel = "same",                 V("confirmed", 95)>>,
        <<TRUE,                           V("mismatch", 90)>> >>

verify_number(i) == FirstRow(NumberRows(i))

\* Volumes are compared as whole numbers, the others as decimals.
verify_volume(i)          == verify_number(i)
verify_chapter(i)         == verify_number(i)
verify_series_position(i) == verify_number(i)

verify_series_index(i) ==
    IF i.rel = "unparsed" THEN Plain(i.d, i.o, "ambiguous", 40) ELSE verify_number(i)

-----------------------------------------------------------------------------
\* RULE_REGISTRY: the verdicts the rule of a field can reach, given the quality
\* of the extraction and whether headers were sampled.
Verdicts(f, low, sampled) ==
    CASE f = "isbn"           -> {verify_isbn(i) : i \in IsbnInputs}
      [] f = "title"          -> {verify_title(i) : i \in {j \in TitleInputs : j.low = low}}
      [] f = "authors"        -> {verify_authors(i) : i \in {j \in AuthorsInputs : j.low = low}}
      [] f = "publisher"      -> {verify_publisher(i) : i \in PublisherInputs}
      [] f = "published_date" -> {verify_published_date(i) : i \in DateInputs}
      [] f = "language"       -> {verify_language(i) : i \in LanguageInputs}
      [] f = "series"         ->
            {verify_series(i) : i \in {j \in SeriesInputs : j.sampled = sampled}}
      [] f = "series_index"   -> {verify_series_index(i) : i \in IndexInputs}
      [] f = "volume"         -> {verify_volume(i) : i \in NumberInputs}
      [] f = "chapter"        -> {verify_chapter(i) : i \in NumberInputs}
      [] f = "series_position" -> {verify_series_position(i) : i \in NumberInputs}
=============================================================================
