---------------------------- MODULE SourceSnapshot ----------------------------
(***************************************************************************)
(* The bytes an audit works on while other programs edit the library: the  *)
(* frozen inventory of an OfflineCalibreSource (calibre/offline.py), the   *)
(* exports of a ContentServerSource (calibre/content_server.py), the       *)
(* rooted reads of security/files.py and the final comparison of           *)
(* _inspect_remote (verification/pipeline_v2.py). One book is audited      *)
(* again and again. Every read is one step, every edit another.            *)
(***************************************************************************)
EXTENDS Integers

CONSTANTS
    Files,        \* the formats of the book
    Db,           \* metadata.db of a folder, the row of the book on a server
    MaxVersion    \* bound: edits of each of them

ASSUME SnapshotAssumption == Db \notin Files /\ MaxVersion \in Nat

Items   == Files \cup {Db}

VARIABLES
    kind,      \* source_kind: "offline" or "server"
    live,      \* the version of every item; any write gives a new identity
    dbtx,      \* the transaction of Calibre: none, open, or open with a format written
    phase,     \* where the source or the audit of the book is
    inv,       \* versions of the inventory: _formats and _metadata_sha256
    have,      \* items the inventory has so far
    checked,   \* items assert_unchanged has compared so far
    got,       \* the version that was inspected of every format
    todo_,     \* formats still to export
    format,    \* the format being exported
    moments    \* history: versions the library has had since a point the actions set

snapVars == <<kind, live, dbtx, phase, inv, have, checked, got, todo_, format, moments>>

Idle     == "no transaction"
Sidecar  == dbtx # Idle
Zero     == [i \in Items |-> 0]

-----------------------------------------------------------------------------
(* The other programs. Calibre changes its database in a transaction that  *)
(* leaves a sidecar file; behind a server it writes one format and then    *)
(* the row. In a folder any program may replace a file.                    *)

Write(i) == /\ live[i] < MaxVersion
            /\ live' = [live EXCEPT ![i] = @ + 1]
            /\ moments' = moments \cup {live'}

BeginTx ==
    /\ ~Sidecar /\ live[Db] < MaxVersion /\ dbtx' = "open"
    /\ UNCHANGED <<kind, live, phase, inv, have, checked, got, todo_, format, moments>>

CommitTx ==
    /\ Sidecar /\ Write(Db) /\ dbtx' = Idle
    /\ UNCHANGED <<kind, phase, inv, have, checked, got, todo_, format>>

EditFormat(f) ==
    /\ kind = "server" => dbtx = "open"
    /\ Write(f) /\ dbtx' = IF kind = "server" THEN "written" ELSE dbtx
    /\ UNCHANGED <<kind, phase, inv, have, checked, got, todo_, format>>

-----------------------------------------------------------------------------
(* The source. A read of security/files.py opens the file beneath the      *)
(* library without following links and compares the identity of the        *)
(* descriptor before and after, so that it returns one version or raises.  *)

Calibre == <<kind, live, dbtx>>
Outcome == {"sealed", "source_changed", "failed", "closed"}

\* An error anywhere: the source is closed, the book fails or has changed.
Conclude(o) ==
    /\ phase' = o
    /\ UNCHANGED <<Calibre, inv, have, checked, got, todo_, format, moments>>

SourceError == phase \in {"copy", "inventory", "check_source"} /\ Conclude("closed")
BookError   == /\ kind = "offline"
               /\ phase \in {"export", "copying", "verify", "after", "check_book"}
               /\ Conclude("failed")

\* calibredb fails, times out or answers with something that is not the book.
RemoteError == kind = "server" /\ phase \in {"start", "export"} /\ Conclude("failed")

\* OfflineCalibreSource.__init__ and _reject_sidecars.
OpenSource ==
    /\ kind = "offline" /\ phase = "start" /\ ~Sidecar
    /\ phase' = "copy"
    /\ UNCHANGED <<Calibre, inv, have, checked, got, todo_, format, moments>>

\* copy_file_beneath of metadata.db, then _reject_sidecars once more.
CopyDb ==
    /\ phase = "copy" /\ inv' = [inv EXCEPT ![Db] = live[Db]] /\ have' = {Db}
    /\ phase' = "inventory"
    /\ UNCHANGED <<Calibre, checked, got, todo_, format, moments>>

Refuse == phase = "inventory" /\ have = {Db} /\ Sidecar /\ Conclude("closed")

\* _load_formats and _describe_file.
Describe(f) ==
    /\ phase = "inventory" /\ f \notin have
    /\ have = {Db} => ~Sidecar
    /\ inv' = [inv EXCEPT ![f] = live[f]] /\ have' = have \cup {f}
    /\ UNCHANGED <<Calibre, phase, checked, got, todo_, format, moments>>

\* Mutant: the source is not compared with the library before it is used.
BeginCheckNever ==
    /\ phase = "inventory" /\ have = Items
    /\ phase' = "open"
    /\ checked' = {} /\ moments' = {live}
    /\ UNCHANGED <<Calibre, inv, have, got, todo_, format>>

\* assert_unchanged: first the sidecars, then metadata.db, then every format.
BeginCheck ==
    /\ phase = "inventory" /\ have = Items
    /\ phase' = IF Sidecar THEN "closed" ELSE "check_source"
    /\ checked' = {} /\ moments' = {live}
    /\ UNCHANGED <<Calibre, inv, have, got, todo_, format>>

Checking == phase \in {"check_source", "check_book"} /\ kind = "offline"
Reject   == IF phase = "check_source" THEN "closed" ELSE "source_changed"

\* _assert_file
Check(i) ==
    /\ Checking /\ i \notin checked
    /\ i = Db \/ Db \in checked
    /\ IF live[i] = inv[i] THEN checked' = checked \cup {i} /\ UNCHANGED phase
       ELSE phase' = Reject /\ UNCHANGED checked
    /\ UNCHANGED <<Calibre, inv, have, got, todo_, format, moments>>

EndCheck ==
    /\ Checking /\ checked = Items
    /\ phase' = IF phase = "check_source" THEN "open" ELSE "sealed"
    /\ UNCHANGED <<Calibre, inv, have, checked, got, todo_, format, moments>>

-----------------------------------------------------------------------------
(* The audit of the book: _book_snapshot and _inspect_remote.              *)

\* show_metadata and format_references: the frozen row of a folder, the row as the
\* server has it now.
ShownRow == IF kind = "offline" THEN inv[Db] ELSE live[Db]

Snapshot ==
    /\ phase \in IF kind = "offline" THEN {"open", "next"} ELSE {"start"}
    /\ phase' = "export" /\ todo_' = Files /\ got' = Zero
    /\ inv' = [inv EXCEPT ![Db] = ShownRow]
    /\ moments' = IF kind = "offline" THEN moments ELSE {live}
    /\ UNCHANGED <<Calibre, have, checked, format>>

\* export_format of a folder: _reject_sidecars and _assert_file,
Export(f) ==
    /\ kind = "offline" /\ phase = "export" /\ f \in todo_
    /\ phase' = IF Sidecar \/ live[f] # inv[f] THEN "source_changed" ELSE "copying"
    /\ format' = f /\ todo_' = todo_ \ {f}
    /\ UNCHANGED <<Calibre, inv, have, checked, got, moments>>

\* a copy that must have the frozen hash,
CopyFormat ==
    /\ phase = "copying" /\ got' = [got EXCEPT ![format] = live[format]]
    /\ phase' = IF live[format] = inv[format] THEN "verify" ELSE "source_changed"
    /\ UNCHANGED <<Calibre, inv, have, checked, todo_, format, moments>>

\* and _assert_file before and after the copy is inspected and shown to the enrichers.
Reassert ==
    /\ phase \in {"verify", "after"}
    /\ phase' = IF live[format] # inv[format] THEN "source_changed"
                ELSE IF phase = "verify" THEN "after" ELSE "export"
    /\ UNCHANGED <<Calibre, inv, have, checked, got, todo_, format, moments>>

\* export_format of a server: calibredb export, one regular file or an error.
ExportRemote(f) ==
    /\ kind = "server" /\ phase = "export" /\ f \in todo_
    /\ got' = [got EXCEPT ![f] = live[f]] /\ todo_' = todo_ \ {f}
    /\ UNCHANGED <<Calibre, phase, inv, have, checked, format, moments>>

\* The formats are done: the sources are read again.
Reread ==
    /\ phase = "export" /\ todo_ = {} /\ kind = "offline"
    /\ phase' = IF Sidecar THEN "source_changed" ELSE "check_book"
    /\ checked' = {} /\ moments' = {live}
    /\ UNCHANGED <<Calibre, inv, have, got, todo_, format>>

\* Mutant: the title and the list of formats are compared, not the revision.
SameRowLoosely == TRUE

\* The row and its revision hash, which Calibre's last_modified is part of.
SameRow == ShownRow = inv[Db]

RereadRemote ==
    /\ phase = "export" /\ todo_ = {} /\ kind = "server"
    /\ phase' = IF SameRow THEN "sealed" ELSE "source_changed"
    /\ UNCHANGED <<Calibre, inv, have, checked, got, todo_, format, moments>>

\* The next book; a closed source is opened again.
Again ==
    /\ phase \in Outcome
    /\ phase' = IF kind = "offline" /\ phase # "closed" THEN "next" ELSE "start"
    /\ UNCHANGED <<Calibre, inv, have, checked, got, todo_, format, moments>>

-----------------------------------------------------------------------------
SnapInit ==
    /\ kind \in {"offline", "server"} /\ live = Zero /\ dbtx = Idle /\ phase = "start"
    /\ inv = Zero /\ have = {} /\ checked = {} /\ got = Zero /\ todo_ = {} /\ format = Db
    /\ moments = {Zero}

SnapNext ==
    \/ BeginTx \/ CommitTx \/ OpenSource \/ CopyDb \/ Refuse \/ BeginCheck \/ EndCheck
    \/ SourceError \/ BookError \/ RemoteError \/ Snapshot \/ CopyFormat \/ Reassert \/ Reread \/ RereadRemote
    \/ Again
    \/ \E i \in Items : Check(i)
    \/ \E f \in Files : EditFormat(f) \/ Describe(f) \/ Export(f) \/ ExportRemote(f)

SnapSpec == SnapInit /\ [][SnapNext]_snapVars

-----------------------------------------------------------------------------
(* Properties.                                                             *)

\* When the source of a folder is open, the database and the files of its
\* inventory were in the library together at one moment, although they were read
\* one after the other while other programs wrote (OfflineCalibreSource).
InventoryIsOneMoment == kind = "offline" /\ phase = "open" => inv \in moments

\* The row and the formats a sealed package was made from were in the library
\* together: for a folder at a moment after the last format was inspected, for a
\* server at a moment of the audit of the book (_inspect_remote).
PackageIsOneMoment == phase = "sealed" => [got EXCEPT ![Db] = inv[Db]] \in moments
=============================================================================
