--------------------------- MODULE EvidencePipeline ---------------------------
(***************************************************************************)
(* The evidence of one book of a local library: every format is inspected  *)
(* from a stable copy, OCR and cover vision may recognise an ISBN, the     *)
(* public providers are asked for that ISBN, an LLM may transcribe, and    *)
(* the resolution is sealed into a package. Files may be edited meanwhile. *)
(* (extractors/multiformat.py, ocr/recognition_v2.py,                      *)
(* providers/evidence_v2.py, verification/service_v2.py and                *)
(* LibraryAuditPipeline._process_book.)                                    *)
(***************************************************************************)
EXTENDS ManifestationIdentity

CONSTANTS
    Isbns,         \* checksum-valid ISBNs
    Kinds,         \* kinds of format a book may have, of FormatKinds
    MaxFormats,    \* bound: formats of the book, each of another kind
    MaxImages,     \* covers shown to the vision backend (max_images)
    MaxFileEdits   \* bound: edits of its files by someone else

FormatKinds == <<"EPUB", "PDF", "CBZ", "TXT">>

ASSUME EvidenceAssumption ==
    /\ Isbns # {} /\ Absent \notin Isbns /\ Kinds \subseteq Ranged(FormatKinds)
    /\ MaxFormats \in Nat \ {0} /\ MaxImages \in Nat /\ MaxFileEdits \in Nat

VARIABLES
    shelf,      \* the kinds of the book's formats
    bytes,      \* the version of each file
    task,       \* what the pipeline does next
    turn,       \* and for which format
    before,     \* the version the inspection in hand copied
    formats,    \* the inspections so far (FormatEvidence)
    evidence,   \* SourceEvidence collected
    clash,      \* two items of evidence have the same identifier
    consent,    \* [remote, setting, run]: the provider is remote; who allows egress
    sent,       \* what left the machine: texts and covers to a model, ISBNs to a provider
    receipts,   \* privacy receipts
    package     \* the sealed package

evidenceVars == <<shelf, bytes, task, turn, before, formats, evidence, clash, consent, sent,
                  receipts, package>>

NoPackage == [state |-> "none", identity |-> Resolution("C", Absent, "none", <<>>), receipts |-> {}]

\* What a source says of the descriptive fields: two sources agree, or they
\* differ in the title.
Profiles == {"same_title", "other_title"}
Says(p) == [f \in Core \cup {"publisher"} |->
              IF p = "other_title" /\ f = "title" THEN "v2" ELSE "v1"]

Unknown == [f \in Core \cup {"publisher"} |-> Absent]

\* The Calibre record under audit.
CurrentRecord == [f \in PatchFields |-> IF f \in Core THEN "v2" ELSE Absent]

Step(t) == task' = t /\ turn' = 1

\* Adds items; one whose identifier is there already is a clash.
Collect(items, dup) ==
    /\ evidence' = evidence \cup items
    /\ clash' = (clash \/ dup \/ \E e \in items, x \in evidence : e.id = x.id)

-----------------------------------------------------------------------------
OpenBook ==
    /\ task = "start"
    /\ \E n \in 1..MaxFormats : \E nth \in [1..n -> DOMAIN FormatKinds] :
          /\ \A i, j \in 1..n : i < j => nth[i] < nth[j]
          /\ shelf' = [i \in 1..n |-> FormatKinds[nth[i]]] /\ Ranged(shelf') \subseteq Kinds
    /\ bytes' = [i \in DOMAIN shelf' |-> 0]
    /\ consent' \in [remote : BOOLEAN, setting : BOOLEAN, run : BOOLEAN]
    /\ ~consent'.remote => consent'.setting /\ consent'.run    \* not read then
    /\ Step("copy")
    /\ UNCHANGED <<before, formats, evidence, clash, sent, receipts, package>>

\* Another program replaces a file of the library; once the recognition is over
\* nothing reads the files.
EditFile(i) ==
    /\ task \in {"copy", "parse", "ocr", "vision"} /\ i \in DOMAIN shelf
    /\ \A j \in DOMAIN shelf : bytes[j] < MaxFileEdits
    /\ bytes' = [bytes EXCEPT ![i] = @ + 1]
    /\ UNCHANGED <<shelf, task, turn, before, formats, evidence, clash, consent, sent, receipts,
                   package>>

\* inspect_format copies the file before it parses the copy,
CopySource ==
    /\ task = "copy" /\ task' = "parse" /\ before' = bytes[turn]
    /\ UNCHANGED <<shelf, bytes, turn, formats, evidence, clash, consent, sent, receipts, package>>

\* What a parser can find: the ISBN in the package metadata, the only ISBN on the
\* edition pages, and the descriptive metadata.
Found == [embedded : Isbns \cup {Absent}, content : Isbns \cup {Absent}, profile : Profiles]

Metadata(i, says, isbn) ==
    {Evidence(<<"format", i, f>>, "book_content", "embedded_metadata", f, says[f], isbn, before) :
        f \in {g \in DOMAIN says : says[g] # Absent}}

Identified(i, kind, isbn) ==
    IF isbn = Absent THEN {}
    ELSE {Evidence(<<"format", i, kind>>, "book_content", kind, "identifiers", isbn, isbn, before)}

\* _inspect_epub, also for a converted MOBI or AZW3: one ISBN on the edition
\* pages outweighs the embedded one; the metadata is bound to the embedded one.
InspectEpub(i, x) ==
    [isbn |-> IF x.content # Absent THEN x.content ELSE x.embedded,
     core |-> Says(x.profile),
     items |-> Metadata(i, Says(x.profile), x.embedded)
               \cup Identified(i, "embedded_metadata", x.embedded)
               \cup Identified(i, "content_native", x.content)]

\* _inspect_pdf: no language and no publisher, the first valid ISBN of an edition
\* page, and title and authors bound to it.
InspectPdf(i, x) ==
    LET says == [f \in Core \cup {"publisher"} |->
                   IF f \in {"title", "authors"} THEN Says(x.profile)[f] ELSE Absent]
    IN [isbn |-> x.content, core |-> says,
        items |-> Metadata(i, says, x.content)
                  \cup Identified(i, "content_native", x.content)]

\* _inspect_cbz, also for a converted CBR: only ComicInfo.xml.
InspectCbz(i, x) ==
    LET says == [Says(x.profile) EXCEPT !["publisher"] = Absent] IN
    [isbn |-> x.embedded, core |-> says,
     items |-> Metadata(i, says, x.embedded) \cup Identified(i, "embedded_metadata", x.embedded)]

Inspect(i, x) ==
    CASE shelf[i] = "EPUB" -> InspectEpub(i, x)
      [] shelf[i] = "PDF"  -> InspectPdf(i, x)
      [] OTHER             -> InspectCbz(i, x)

FormatRecord(status, isbn, core, sha) ==
    [status |-> status, isbn |-> isbn, core |-> core, sha |-> sha, seed |-> "none"]

NextFormat == IF turn = Len(shelf) THEN Step("ocr") ELSE task' = "copy" /\ turn' = turn + 1

\* and compares the file with the copy afterwards.
SameBytes == bytes[turn] = before

\* The parser reads the copy; DRM, damage, a missing converter or an edit make the
\* format unreadable.
ParseCopy ==
    /\ task = "parse"
    /\ \/ /\ shelf[turn] # "TXT" /\ SameBytes
          /\ \E x \in Found :
                /\ shelf[turn] = "CBZ" => x.content = Absent
                /\ shelf[turn] = "PDF" => x.embedded = Absent
                /\ LET r == Inspect(turn, x) IN
                   /\ formats' = Append(formats, FormatRecord("readable", r.isbn, r.core, before))
                   /\ Collect(r.items, FALSE)
       \/ /\ formats' = Append(formats,
                          FormatRecord(IF SameBytes THEN "corrupt" ELSE "error", Absent, Unknown,
                                       bytes[turn]))
          /\ UNCHANGED <<evidence, clash>>
    /\ NextFormat
    /\ UNCHANGED <<shelf, bytes, before, consent, sent, receipts, package>>

-----------------------------------------------------------------------------
(* Recognition.                                                            *)

\* Mutant: the file is not compared with what was inspected.
ReadableSource(i) == formats[i].status = "readable"

\* _safe_source, before and after the recognition: readable, and still the bytes that were inspected.
SafeSource(i) == formats[i].status = "readable" /\ bytes[i] = formats[i].sha

\* _seed_candidate_identifier
Seeds(i, isbn) == formats[i].isbn \in {Absent, isbn}
Seed(i, isbn, by) ==
    formats' = [formats EXCEPT ![i].isbn = isbn, ![i].seed = IF formats[i].isbn = Absent THEN by ELSE @]

Onward(t) == IF turn = Len(shelf) THEN Step(t) ELSE task' = task /\ turn' = turn + 1

\* The engines that build_v2_enricher installs.
Engines == {"tesseract", "paddleocr"}

\* ocr_pdf_pages: the ISBNs on the first pages, none when the engine failed, ran
\* out of time or wrote more than is read.
ocr_pdf_pages == SUBSET Isbns

OcrItem(i, engines, isbn) ==
    Evidence(<<"ocr", i>>, "book_content",
             IF Cardinality(engines) >= 2 THEN "ocr_consensus" ELSE "ocr_observation",
             "identifiers", isbn, isbn, bytes[i])

\* The engines read the stable copy of a PDF that has no ISBN yet. One ISBN is
\* recognised when every engine that read any read just that one.
Recognise ==
    /\ task = "ocr"
    /\ \/ /\ shelf[turn] = "PDF" /\ formats[turn].isbn = Absent /\ SafeSource(turn)
          /\ \E answers \in [Engines -> ocr_pdf_pages] :
             LET read == {e \in Engines : answers[e] # {}} IN
             \E i \in Isbns :
                /\ read # {} /\ \A e \in read : answers[e] = {i}
                /\ Seed(turn, i, IF Cardinality(read) >= 2 THEN "engines" ELSE "engine")
                /\ Collect({OcrItem(turn, read, i)}, FALSE)
       \/ UNCHANGED <<formats, evidence, clash>>
    /\ Onward("vision")
    /\ UNCHANGED <<shelf, bytes, before, consent, sent, receipts, package>>

\* Mutant: the setting or the consent of the run is enough.
MayLeaveEither == ~consent.remote \/ consent.setting \/ consent.run

\* A remote provider needs the setting and the consent of the run.
MayLeave == ~consent.remote \/ (consent.setting /\ consent.run)

Send(what) ==
    /\ sent' = IF consent.remote THEN sent \cup {what} ELSE sent
    /\ receipts' = receipts \cup {what}

\* Mutant: what was seen on the cover is recorded like two agreeing engines.
VisionItemTrusted(i, isbn, same) ==
    Evidence(<<"vision", i>>, "book_content", "ocr_consensus", "identifiers", isbn, isbn, bytes[i])

\* The items of a cover are named after the cover: two formats with the same
\* cover (same) give the same identifiers.
VisionItem(i, isbn, same) ==
    Evidence(<<"vision", IF same THEN i - 1 ELSE i>>, "vision", "vision", "identifiers", isbn, isbn,
             bytes[i])

\* The receipt is written before the cover is sent; the answer counts only if the
\* file is still the same.
ShowCover ==
    /\ task = "vision"
    /\ \/ /\ SafeSource(turn) /\ MayLeave
          /\ Cardinality({x \in receipts : x[1] = "cover"}) < MaxImages
          /\ Send(<<"cover", turn>>)
          /\ \/ \E i \in Isbns, same \in {FALSE, turn > 1} :
                  /\ Collect({VisionItem(turn, i, same)}, FALSE)
                  /\ IF Seeds(turn, i) THEN Seed(turn, i, "vision") ELSE UNCHANGED formats
             \/ UNCHANGED <<formats, evidence, clash>>
       \/ UNCHANGED <<formats, evidence, clash, sent, receipts>>
    /\ Onward("providers")
    /\ UNCHANGED <<shelf, bytes, before, consent, package>>

-----------------------------------------------------------------------------
(* External evidence.                                                      *)

Providers == {"google_books", "openlibrary"}

\* _record_evidence of one record that carries the ISBN itself.
RecordItems(provider, n, profile, isbn) ==
    LET says == Says(profile)
        Item(f, v) == Evidence(<<provider, n, f>>, provider, "provider_structured", f, v, isbn, 0)
    IN {Item("identifiers", isbn), Item("cover", "v1")}
       \cup {Item(f, says[f]) : f \in {g \in DOMAIN says : says[g] # Absent}}

\* A provider fails closed, finds nothing, or returns records of that ISBN; Google
\* Books may return several.
Answer(provider, profiles, isbn) ==
    UNION {RecordItems(provider, p, p, isbn) : p \in profiles}

\* Mutant: every ISBN that a format has is looked up.
LookUpEach ==
    /\ task = "providers"
    /\ \E isbn \in {formats[i].isbn : i \in DOMAIN formats} \ {Absent} :
          sent' = sent \cup {<<"isbn", isbn>>} /\ Collect(Answer("openlibrary", {"same_title"}, isbn), FALSE)
    /\ Step("llm")
    /\ UNCHANGED <<shelf, bytes, before, formats, consent, receipts, package>>

\* StructuredEvidenceEnricher.collect: only when the formats have exactly one ISBN.
\* Its query asks for no consent and leaves no receipt.
LookUp ==
    /\ task = "providers"
    /\ LET ids == {formats[i].isbn : i \in DOMAIN formats} \ {Absent} IN
       IF Cardinality(ids) # 1 THEN UNCHANGED <<evidence, clash, sent>>
       ELSE \E isbn \in ids, google \in SUBSET Profiles, open \in {{}} \cup {{p} : p \in Profiles} :
              /\ sent' = sent \cup {<<"isbn", isbn>>}
              /\ Collect(Answer("google_books", google, isbn) \cup Answer("openlibrary", open, isbn),
                         FALSE)
    /\ Step("llm")
    /\ UNCHANGED <<shelf, bytes, before, formats, consent, receipts, package>>

\* MinimalEvidenceLLMEnricher: bounded excerpts of title and copyright pages, a
\* receipt before the request, and only quoted observations count. Two
\* observations of one field in one answer (twice) have the same identifier.
Transcribe ==
    /\ task = "llm"
    /\ \/ /\ MayLeave /\ \E i \in DOMAIN formats : formats[i].status = "readable"
          /\ Send(<<"text", 0>>)
          /\ LET ids == {formats[i].isbn : i \in DOMAIN formats} \ {Absent} IN
             \/ \E f \in {"title", "identifiers"}, isbn \in Isbns, twice \in BOOLEAN :
                  /\ Cardinality(ids) = 1 => isbn \in ids
                  /\ twice => f = "title"
                  /\ Collect({Evidence(<<"llm", f>>, "llm", "llm", f,
                                       IF f = "title" THEN "v2" ELSE isbn,
                                       IF Cardinality(ids) = 1 THEN isbn ELSE Absent, 0)}, twice)
             \/ UNCHANGED <<evidence, clash>>
       \/ UNCHANGED <<evidence, clash, sent, receipts>>
    /\ Step("resolve")
    /\ UNCHANGED <<shelf, bytes, before, formats, consent, package>>

\* The package of a book whose processing raised has no evidence and no receipts.
Failed == [state |-> "failed", identity |-> Resolution("C", Absent, "pipeline_error", <<>>),
           receipts |-> {}]

StateOf(tier) == CASE tier = "A" -> "shadowed" [] tier = "B" -> "review" [] OTHER -> "deferred"

\* _process_book resolves and seals; the seal refuses a clash of identifiers.
SealPackage ==
    /\ task = "resolve"
    /\ LET r == Resolve(formats, evidence, CurrentRecord) IN
       package' = IF clash THEN Failed
                  ELSE [state |-> StateOf(r.tier), identity |-> r, receipts |-> receipts]
    /\ Step("sealed")
    /\ UNCHANGED <<shelf, bytes, before, formats, evidence, clash, consent, sent, receipts>>

\* The next book of the run.
NextBook ==
    /\ task = "sealed" /\ Step("start")
    /\ shelf' = <<>> /\ bytes' = <<>> /\ before' = 0 /\ formats' = <<>> /\ evidence' = {}
    /\ clash' = FALSE /\ consent' = [remote |-> FALSE, setting |-> FALSE, run |-> FALSE]
    /\ sent' = {} /\ receipts' = {} /\ package' = NoPackage

EvidenceInit ==
    /\ shelf = <<>> /\ bytes = <<>> /\ task = "start" /\ turn = 1 /\ before = 0
    /\ formats = <<>> /\ evidence = {} /\ clash = FALSE
    /\ consent = [remote |-> FALSE, setting |-> FALSE, run |-> FALSE]
    /\ sent = {} /\ receipts = {} /\ package = NoPackage

EvidenceNext ==
    \/ OpenBook \/ CopySource \/ ParseCopy \/ Recognise \/ ShowCover \/ LookUp \/ Transcribe
    \/ SealPackage \/ NextBook
    \/ \E i \in 1..MaxFormats : EditFile(i)

EvidenceSpec == EvidenceInit /\ [][EvidenceNext]_evidenceVars

-----------------------------------------------------------------------------
(* Properties.                                                             *)

\* The formats and the evidence without what one OCR engine, cover vision and the
\* LLM contributed.
Unaided == [i \in DOMAIN formats |->
              IF formats[i].seed \in {"engine", "vision"}
              THEN [formats[i] EXCEPT !.isbn = Absent] ELSE formats[i]]
Authoritative == {e \in evidence : e.authoritative}

\* One OCR engine, cover vision and the LLM never promote a book: whatever reached
\* tier A reaches it, with the same patch, without them (ADR-002, the head of
\* identity_v2.py). They may still block it.
WitnessesNeverPromote ==
    package.identity.tier = "A" => package.identity = Resolve(Unaided, Authoritative, CurrentRecord)

\* Every value of a patch was read in the book and in a public record of the same
\* ISBN, no authoritative source of that ISBN says otherwise, and all formats that
\* were read agree with it.
PatchCorroborated ==
    LET r == package.identity IN
    \A f \in DOMAIN r.patch :
        /\ \E e \in evidence : e.root = "book_content" /\ e.field = f /\ e.value = r.patch[f]
        /\ \E e \in evidence : /\ e.root \in Providers /\ e.field = f
                               /\ e.value = r.patch[f] /\ e.isbn = r.isbn
        /\ ~\E e \in Authoritative : e.field = f /\ e.isbn = r.isbn /\ e.value # r.patch[f]
        /\ f \in Core => \A i \in DOMAIN formats : formats[i].core[f] = r.patch[f]

\* The internal evidence of a format was read from the very bytes its hash names,
\* although the file may be replaced at any moment.
EvidenceOfRecordedBytes ==
    \A i \in DOMAIN formats : \A e \in evidence :
        e.root = "book_content" /\ e.id[2] = i => e.bytes = formats[i].sha

\* Texts and covers, as opposed to the query of the public providers
Payloads == {x \in sent : x[1] # "isbn"}

\* Texts and covers leave the machine only with the setting and the consent of the
\* run, and a decided package has a receipt for each (the package of a book whose
\* processing raised, _failed_package, has none). The query of the public
\* providers needs neither and has no receipt (StructuredEvidenceEnricher.collect);
\* it carries one ISBN, which no format of the book contradicts.
EgressAccounted ==
    /\ Payloads # {} => consent.setting /\ consent.run
    /\ package.state \notin {"none", "failed"} => Payloads \subseteq package.receipts
    /\ \A x \in sent \ Payloads : \A i \in DOMAIN formats : formats[i].isbn \in {Absent, x[2]}
=============================================================================
