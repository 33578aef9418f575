------------------------------ MODULE CoverDeck -------------------------------
(***************************************************************************)
(* The review of covers (web/api/covers_api.py, stream_books of            *)
(* calibre/direct_engine.py, covers/scorer.py): an operator walks through  *)
(* the flagged covers of the library with a cursor, while Calibre changes  *)
(* the library. A request reads metadata.db page by page, every page in a  *)
(* transaction of its own, and the covers one by one.                      *)
(***************************************************************************)
EXTENDS Integers, FiniteSets, Sequences

CONSTANTS
    MaxDeckId,     \* bound: identifiers Calibre gives out
    BatchSize,     \* rows of a page, 100 in the code
    Limits,        \* cards per request, 1 in the page and 1..100 in the API
    MaxDeckEdits,  \* bound: changes of the library
    MaxReturns     \* bound: reloads and uses of an older page

ASSUME DeckAssumption ==
    /\ MaxDeckId \in Nat /\ BatchSize \in Nat \ {0} /\ Limits \subseteq Nat \ {0}
    /\ MaxDeckEdits \in Nat /\ MaxReturns \in Nat

Ids     == 1..MaxDeckId
NoBook_ == "no book"

\* A cover cannot be read, has a fatal defect or a score below 60, or passes.
Covers == {"missing", "faulty", "fair"}

VARIABLES
    shelf,       \* the cover of each book in the library
    folder_,     \* where the files of a book are: Calibre moves them
    deckStep,    \* "idle", "streaming" or "finished"
    limit,       \* cards this request may have
    lastId,      \* last_id of stream_books
    page,        \* rows that were read and not yet looked at
    deck,        \* cards of this request
    cursor,      \* after_book_id of the operator
    shown,       \* books the operator has seen
    untouched,   \* books that have not changed since the review began
    edits_, returns

libraryVars == <<shelf, folder_, untouched, edits_>>
deckVars    == <<libraryVars, deckStep, limit, lastId, page, deck, cursor, shown, returns>>

-----------------------------------------------------------------------------
(* Calibre.                                                                *)

Change(b) ==
    /\ edits_ < MaxDeckEdits /\ edits_' = edits_ + 1
    /\ untouched' = untouched \ {b}
    /\ UNCHANGED <<deckStep, limit, lastId, page, deck, cursor, shown, returns>>

\* A new book has a greater identifier than the others.
AddBook(b) ==
    /\ \A other \in Ids : other >= b => shelf[other] = NoBook_
    /\ shelf' \in {[shelf EXCEPT ![b] = q] : q \in Covers}
    /\ Change(b) /\ UNCHANGED folder_

ChangeBook(b) ==
    /\ shelf[b] # NoBook_
    /\ \/ shelf' \in {[shelf EXCEPT ![b] = q] : q \in (Covers \cup {NoBook_}) \ {shelf[b]}}
          /\ UNCHANGED folder_
       \/ folder_' = [folder_ EXCEPT ![b] = @ + 1] /\ UNCHANGED shelf
    /\ Change(b)

-----------------------------------------------------------------------------
(* A request for the deck.                                                 *)

\* SELECT ... WHERE id > last_id
Rows(after) == {b \in Ids : shelf[b] # NoBook_ /\ b > after}

\* ... ORDER BY id LIMIT batch_size: what is left out of a page of n rows comes
\* after all of them, and only because the page is full.
Page(found, n) ==
    {rows \in [1..n -> found] :
        /\ \A i, j \in 1..n : i < j => rows[i] < rows[j]
        /\ \A b \in found : \/ \E i \in 1..n : rows[i] = b
                            \/ n = BatchSize /\ \A i \in 1..n : rows[i] < b}

RequestDeck ==
    /\ deckStep = "idle" /\ deckStep' = "streaming"
    /\ limit' \in Limits
    /\ lastId' = 0 /\ page' = <<>> /\ deck' = {}
    /\ UNCHANGED <<libraryVars, cursor, shown, returns>>

\* Mutant: the cursor goes on from the last row that was read.
AnswerAfterPage ==
    /\ deckStep' = IF deck = {} THEN "finished" ELSE "idle"
    /\ cursor' = lastId
    /\ shown' = shown \cup deck
    /\ lastId' = 0 /\ page' = <<>> /\ deck' = {} /\ limit' = 0
    /\ UNCHANGED <<libraryVars, returns>>

\* The operator sees the cards; the cursor goes on from the last of them.
Answer ==
    /\ deckStep' = IF deck = {} THEN "finished" ELSE "idle"
    /\ cursor' = IF deck = {} THEN cursor ELSE CHOOSE b \in deck : \A c \in deck : c <= b
    /\ shown' = shown \cup deck
    /\ lastId' = 0 /\ page' = <<>> /\ deck' = {} /\ limit' = 0
    /\ UNCHANGED <<libraryVars, returns>>

ReadPage ==
    /\ deckStep = "streaming" /\ page = <<>>
    /\ \E n \in 0..BatchSize : \E rows \in Page(Rows(lastId), n) :
        IF n = 0 THEN Answer
        ELSE /\ page' = [i \in 1..n |-> [id |-> rows[i], path |-> folder_[rows[i]]]]
             /\ lastId' = rows[n]
             /\ UNCHANGED <<libraryVars, deckStep, limit, deck, cursor, shown, returns>>

\* _read_book_cover_bytes: nothing, when the row is older than the folder.
Flagged(row) ==
    \/ shelf[row.id] \in {NoBook_, "missing"} \/ folder_[row.id] # row.path
    \/ shelf[row.id] = "faulty"

LookAt ==
    /\ deckStep = "streaming" /\ page # <<>>
    /\ LET row == Head(page) IN
        IF Cardinality(deck) >= limit THEN Answer
        ELSE /\ page' = Tail(page)
             /\ deck' = IF row.id > cursor /\ Flagged(row) THEN deck \cup {row.id} ELSE deck
             /\ UNCHANGED <<libraryVars, deckStep, limit, lastId, cursor, shown, returns>>

\* An older page is opened again or skipped from; a cursor never goes back by itself.
Return ==
    /\ deckStep = "idle" /\ returns < MaxReturns /\ returns' = returns + 1
    /\ cursor' \in {0} \cup shown
    /\ UNCHANGED <<libraryVars, deckStep, limit, lastId, page, deck, shown>>

DeckInit ==
    /\ shelf \in [Ids -> Covers \cup {NoBook_}] /\ shelf[MaxDeckId] = NoBook_
    /\ folder_ = [b \in Ids |-> 0] /\ edits_ = 0 /\ returns = 0
    /\ untouched = {b \in Ids : shelf[b] # NoBook_}
    /\ deckStep = "idle" /\ limit = 0 /\ lastId = 0 /\ page = <<>> /\ deck = {}
    /\ cursor = 0 /\ shown = {}

DeckNext ==
    \/ RequestDeck \/ ReadPage \/ LookAt \/ Return
    \/ \E b \in Ids : AddBook(b) \/ ChangeBook(b)

DeckSpec == DeckInit /\ [][DeckNext]_deckVars

-----------------------------------------------------------------------------
\* When the deck is empty at last, the operator has seen the books with a missing
\* or faulty cover and no others, as far as a book did not change during the review
\* (get_cover_review_deck, handle_cover_deck_action).
DeckIsExact ==
    deckStep = "finished" =>
        \A b \in untouched : b \in shown <=> shelf[b] \in {"missing", "faulty"}
=============================================================================
