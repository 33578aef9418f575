--------------------------- MODULE EvidenceProofs ----------------------------
(***************************************************************************)
(* What an audit took its evidence from was in the library together, for   *)
(* every number of formats and every number of edits: the frozen inventory *)
(* of a folder, and the package of a book from a folder or from a server.  *)
(*                                                                         *)
(* What the evidence of a book says was read from the bytes it names, what *)
(* was sent to a model has a receipt, and a patch rests on two independent *)
(* sources, for every number of formats, numbers, edits and cover images.  *)
(*                                                                         *)
(* What the rules and the witness make of a book: a patch is what rules    *)
(* observed, and what passes without a reviewer is harmless, for every     *)
(* number of fields with data and of answers of the witness.               *)
(***************************************************************************)
EXTENDS EvidencePipeline, SourceSnapshot, VerdictEngine,
        FiniteSetTheorems, SequenceTheorems, WellFoundedInduction, TLAPS

Phases == {"start", "copy", "inventory", "check_source", "open", "next", "export", "copying",
           "verify", "after", "check_book"} \cup Outcome

SnapTypeOK ==
    /\ kind \in {"offline", "server"}
    /\ live \in [Items -> Nat] /\ inv \in [Items -> Nat] /\ got \in [Items -> Nat]
    /\ dbtx \in {Idle, "open", "written"}
    /\ phase \in Phases
    /\ have \subseteq Items /\ checked \subseteq Items
    /\ todo_ \subseteq Files /\ format \in Items
    /\ moments \subseteq [Items -> Nat]

\* Versions only grow, so nothing was read that is still to come.
Behind == \A i \in Items : inv[i] <= live[i]

\* What the audit of a server goes through.
Remote == kind = "server" => phase \in {"start", "export"} \cup Outcome

\* The moment at which a comparison began: an item that is the same then and
\* when it is compared was the same in between.
Comparing ==
    kind = "offline" /\ phase \in {"check_source", "check_book"} =>
        \E m \in moments : \A i \in Items :
            inv[i] <= m[i] /\ m[i] <= live[i] /\ (i \in checked => inv[i] = m[i])

Compared == kind = "offline" /\ phase \in {"open", "sealed"} => inv \in moments

\* The formats that were exported from a folder are those of the inventory.
Copied ==
    kind = "offline" /\ phase \in {"export", "copying", "verify", "after", "check_book", "sealed"} =>
        /\ \A f \in Files : f \in todo_ \/ (phase = "copying" /\ f = format) \/ got[f] = inv[f]
        /\ phase \in {"check_book", "sealed"} => todo_ = {}

\* While a server has the row the audit has seen, at most one transaction of
\* Calibre is open, and it has written one format since the audit began.
Exported ==
    kind = "server" /\ phase = "export" /\ live[Db] = inv[Db] =>
        \E m \in moments :
            /\ live \in moments
            /\ \/ live = m
               \/ dbtx = "written" /\ \E g \in Files : \A i \in Items : i # g => live[i] = m[i]
            /\ \A f \in Files \ todo_ : got[f] \in {m[f], live[f]}

SnapInv ==
    /\ SnapTypeOK /\ Behind /\ Remote /\ Comparing /\ Compared /\ Copied /\ Exported
    /\ PackageIsOneMoment

-----------------------------------------------------------------------------
(* The other programs.                                                     *)

\* An item gets a new version, and the library a moment it was never in before.
LEMMA WriteGrows ==
  ASSUME SnapTypeOK, NEW i \in Items, Write(i)
  PROVE  /\ live' \in [Items -> Nat] /\ live'[i] = live[i] + 1
         /\ \A j \in Items : j # i => live'[j] = live[j]
         /\ \A j \in Items : live[j] <= live'[j]
         /\ moments' = moments \cup {live'}
  BY DEF SnapTypeOK, Write

LEMMA OthersKeep ==
  ASSUME SnapInv, NEW i \in Items, Write(i),
         dbtx' \in {Idle, "open", "written"},
         UNCHANGED <<kind, phase, inv, have, checked, got, todo_, format>>
  PROVE  /\ SnapTypeOK' /\ Behind' /\ Remote' /\ Comparing' /\ Compared' /\ Copied'
         /\ PackageIsOneMoment'
  <1>0. SnapTypeOK
    BY DEF SnapInv
  <1>1. /\ live' \in [Items -> Nat] /\ \A j \in Items : live[j] <= live'[j]
        /\ moments' = moments \cup {live'}
    BY <1>0, WriteGrows
  <1>2. SnapTypeOK'
    BY <1>0, <1>1 DEF SnapTypeOK
  <1>3. Behind'
    BY <1>0, <1>1 DEF SnapInv, Behind, SnapTypeOK
  <1>4. Comparing'
    <2> SUFFICES ASSUME kind = "offline", phase \in {"check_source", "check_book"}
                 PROVE  \E m \in moments' : \A j \in Items :
                          inv[j] <= m[j] /\ m[j] <= live'[j] /\ (j \in checked => inv[j] = m[j])
      BY DEF Comparing
    <2>1. PICK m \in moments : \A j \in Items :
            inv[j] <= m[j] /\ m[j] <= live[j] /\ (j \in checked => inv[j] = m[j])
      BY DEF SnapInv, Comparing
    <2>2. m \in [Items -> Nat] /\ m \in moments'
      BY <1>0, <1>1 DEF SnapTypeOK
    <2>3. \A j \in Items : m[j] <= live'[j]
      BY <1>0, <1>1, <2>1, <2>2 DEF SnapTypeOK
    <2> QED
      BY <2>1, <2>2, <2>3
  <1>5. Remote' /\ Compared' /\ Copied' /\ PackageIsOneMoment'
    BY <1>1 DEF SnapInv, Remote, Compared, Copied, PackageIsOneMoment
  <1> QED
    BY <1>2, <1>3, <1>4, <1>5

LEMMA CalibreSteps ==
  ASSUME SnapInv, BeginTx \/ CommitTx \/ \E f \in Files : EditFormat(f)
  PROVE  SnapInv'
  <1>0. SnapTypeOK
    BY DEF SnapInv
  <1>1. CASE BeginTx
    <2>1. UNCHANGED <<kind, live, phase, inv, have, checked, got, todo_, format, moments>>
          /\ dbtx = Idle /\ dbtx' = "open"
      BY <1>1 DEF BeginTx, Sidecar
    <2>2. Exported'
      BY <2>1 DEF SnapInv, Exported, Idle
    <2> QED
      BY <2>1, <2>2 DEF SnapInv, SnapTypeOK, Behind, Remote, Comparing, Compared, Copied,
         PackageIsOneMoment
  <1>2. CASE CommitTx
    <2>1. Write(Db) /\ Db \in Items /\ dbtx' = Idle
          /\ UNCHANGED <<kind, phase, inv, have, checked, got, todo_, format>>
      BY <1>2 DEF CommitTx, Items
    <2>2. live'[Db] # inv'[Db]
      BY <1>0, <2>1, WriteGrows DEF SnapInv, Behind, SnapTypeOK
    <2>3. Exported'
      BY <2>2 DEF Exported
    <2> QED
      BY <2>1, <2>3, OthersKeep DEF SnapInv
  <1>3. ASSUME NEW f \in Files, EditFormat(f)
        PROVE  SnapInv'
    <2>1. Write(f) /\ f \in Items /\ f # Db /\ dbtx' \in {Idle, "open", "written"}
          /\ (kind = "server" => dbtx = "open" /\ dbtx' = "written")
          /\ UNCHANGED <<kind, phase, inv, have, checked, got, todo_, format>>
      BY <1>0, <1>3, SnapshotAssumption DEF EditFormat, Items, SnapTypeOK
    <2>2. /\ live' \in [Items -> Nat] /\ moments' = moments \cup {live'}
          /\ \A j \in Items : j # f => live'[j] = live[j]
      BY <1>0, <2>1, WriteGrows
    <2>3. Exported'
      <3> SUFFICES ASSUME kind = "server", phase = "export", live'[Db] = inv[Db]
                   PROVE  \E m \in moments' :
                            /\ live' \in moments'
                            /\ \E g \in Files : \A i \in Items : i # g => live'[i] = m[i]
                            /\ \A x \in Files \ todo_ : got[x] \in {m[x], live'[x]}
        BY <2>1 DEF Exported
      <3>1. live[Db] = inv[Db] /\ dbtx = "open"
        BY <2>1, <2>2 DEF Items
      <3>2. PICK m \in moments : live = m /\ \A x \in Files \ todo_ : got[x] \in {m[x], live[x]}
        BY <3>1 DEF SnapInv, Exported
      <3> QED
        BY <2>2, <3>2
    <2> QED
      BY <2>1, <2>3, OthersKeep DEF SnapInv
  <1> QED
    BY <1>1, <1>2, <1>3

-----------------------------------------------------------------------------
(* The source and the audit.                                               *)

\* An error, an end, or a step of the bookkeeping: what was read stays.
LEMMA Concludes ==
  ASSUME SnapInv, UNCHANGED <<Calibre, inv, got, todo_, format, moments>>,
         have' \subseteq Items, checked' \subseteq Items,
         phase' \in {"start", "copy", "inventory", "next", "source_changed", "failed", "closed"},
         kind = "server" => phase' \in {"start"} \cup Outcome
  PROVE  SnapInv'
  <1>1. SnapTypeOK' /\ Behind' /\ Remote'
    BY DEF SnapInv, SnapTypeOK, Behind, Remote, Calibre, Phases, Outcome
  <1>2. Comparing' /\ Compared' /\ Copied' /\ Exported' /\ PackageIsOneMoment'
    BY DEF Comparing, Compared, Copied, Exported, PackageIsOneMoment
  <1> QED
    BY <1>1, <1>2 DEF SnapInv

LEMMA SourceSteps ==
  ASSUME SnapInv,
         \/ OpenSource \/ CopyDb \/ Refuse \/ SourceError \/ BookError \/ RemoteError \/ Again
         \/ \E f \in Files : Describe(f)
  PROVE  SnapInv'
  <1>0. SnapTypeOK /\ Db \in Items
    BY DEF SnapInv, Items
  <1>1. CASE OpenSource \/ Refuse \/ SourceError \/ BookError \/ RemoteError \/ Again
    <2>1. /\ UNCHANGED <<Calibre, inv, have, checked, got, todo_, format, moments>>
          /\ phase' \in {"start", "copy", "inventory", "next", "source_changed", "failed", "closed"}
          /\ kind = "server" => phase' \in {"start"} \cup Outcome
      BY <1>1 DEF OpenSource, Refuse, SourceError, BookError, RemoteError, Again, Conclude, Outcome
    <2> QED
      BY <1>0, <2>1, Concludes DEF SnapTypeOK
  <1>2. ASSUME NEW i \in Items, inv' = [inv EXCEPT ![i] = live[i]],
               have' \subseteq Items, phase \in {"copy", "inventory"}, phase' = "inventory",
               UNCHANGED <<Calibre, checked, got, todo_, format, moments>>
        PROVE  SnapInv'
    <2>1. kind = "offline"
      BY <1>0, <1>2 DEF SnapInv, Remote, SnapTypeOK, Outcome
    <2>2. SnapTypeOK' /\ Behind' /\ Remote'
      BY <1>0, <1>2, <2>1 DEF SnapInv, SnapTypeOK, Behind, Remote, Calibre, Phases
    <2>3. Comparing' /\ Compared' /\ Copied' /\ Exported' /\ PackageIsOneMoment'
      BY <1>2 DEF Comparing, Compared, Copied, Exported, PackageIsOneMoment
    <2> QED
      BY <2>2, <2>3 DEF SnapInv
  <1>3. CASE CopyDb
    BY <1>0, <1>2, <1>3 DEF CopyDb
  <1>4. ASSUME NEW f \in Files, Describe(f)
        PROVE  SnapInv'
    <2>1. f \in Items /\ have' \subseteq Items
      BY <1>0, <1>4 DEF Describe, Items, SnapTypeOK
    <2> QED
      BY <1>2, <1>4, <2>1 DEF Describe
  <1> QED
    BY <1>1, <1>3, <1>4

\* A comparison begins: the library as it is now is the moment it is about.
LEMMA ComparisonBegins ==
  ASSUME SnapInv, BeginCheck \/ Reread
  PROVE  SnapInv'
  <1>0. SnapTypeOK
    BY DEF SnapInv
  <1>1. /\ UNCHANGED <<Calibre, inv, have, got, todo_, format>> /\ checked' = {} /\ moments' = {live}
        /\ phase' \in {"check_source", "check_book", "closed", "source_changed"}
        /\ kind = "offline"
        /\ phase' = "check_book" => phase = "export" /\ todo_ = {}
    BY <1>0 DEF BeginCheck, Reread, SnapInv, Remote, SnapTypeOK, Outcome
  <1>2. SnapTypeOK' /\ Behind' /\ Remote'
    BY <1>0, <1>1 DEF SnapInv, SnapTypeOK, Behind, Remote, Calibre, Phases, Outcome
  <1>3. Comparing'
    <2>1. live \in moments' /\ \A i \in Items : /\ inv'[i] <= live[i] /\ live[i] <= live'[i]
                                                /\ i \notin checked'
      BY <1>0, <1>1 DEF SnapInv, Behind, SnapTypeOK, Calibre
    <2> QED
      BY <2>1 DEF Comparing
  <1>4. Copied'
    BY <1>1 DEF SnapInv, Copied, Calibre
  <1>5. Compared' /\ Exported' /\ PackageIsOneMoment'
    BY <1>1 DEF Compared, Exported, PackageIsOneMoment
  <1> QED
    BY <1>2, <1>3, <1>4, <1>5 DEF SnapInv

\* One item after the other is compared.
LEMMA Compares ==
  ASSUME SnapInv, NEW i \in Items, Check(i)
  PROVE  SnapInv'
  <1>0. SnapTypeOK
    BY DEF SnapInv
  <1>1. UNCHANGED <<Calibre, inv, have, got, todo_, format, moments>> /\ kind = "offline"
        /\ phase \in {"check_source", "check_book"}
    BY DEF Check, Checking
  <1>2. CASE live[i] # inv[i]
    <2>1. phase' \in {"closed", "source_changed"} /\ checked' = checked
      BY <1>2 DEF Check, Reject
    <2> QED
      BY <1>0, <1>1, <2>1, Concludes DEF SnapTypeOK
  <1>3. CASE live[i] = inv[i]
    <2>1. checked' = checked \cup {i} /\ phase' = phase
      BY <1>3 DEF Check
    <2>2. SnapTypeOK' /\ Behind' /\ Remote' /\ Compared' /\ Copied' /\ Exported'
          /\ PackageIsOneMoment'
      BY <1>0, <1>1, <2>1 DEF SnapInv, SnapTypeOK, Behind, Remote, Compared, Copied, Exported,
         PackageIsOneMoment, Calibre
    <2>3. PICK m \in moments : \A j \in Items :
            inv[j] <= m[j] /\ m[j] <= live[j] /\ (j \in checked => inv[j] = m[j])
      BY <1>1 DEF SnapInv, Comparing
    <2>4. m \in [Items -> Nat] /\ live \in [Items -> Nat] /\ inv \in [Items -> Nat]
      BY <1>0 DEF SnapTypeOK
    <2>5. m[i] = inv[i]
      BY <1>3, <2>3, <2>4
    <2>6. Comparing'
      BY <1>1, <2>1, <2>3, <2>5 DEF Comparing, Calibre
    <2> QED
      BY <2>2, <2>6 DEF SnapInv
  <1> QED
    BY <1>2, <1>3

LEMMA ComparisonEnds ==
  ASSUME SnapInv, EndCheck
  PROVE  SnapInv'
  <1>0. SnapTypeOK
    BY DEF SnapInv
  <1>1. /\ UNCHANGED <<Calibre, inv, have, checked, got, todo_, format, moments>>
        /\ kind = "offline" /\ checked = Items
        /\ \/ phase = "check_source" /\ phase' = "open"
           \/ phase = "check_book" /\ phase' = "sealed"
    BY DEF EndCheck, Checking
  <1>2. inv \in moments
    <2>1. PICK m \in moments : \A j \in Items : inv[j] = m[j]
      BY <1>1 DEF SnapInv, Comparing
    <2>2. m \in [Items -> Nat] /\ inv \in [Items -> Nat]
      BY <1>0 DEF SnapTypeOK
    <2>3. m = inv
      BY <2>1, <2>2
    <2> QED
      BY <2>3
  <1>3. Copied'
    BY <1>1 DEF SnapInv, Copied, Calibre
  <1>4. PackageIsOneMoment'
    <2> SUFFICES ASSUME phase' = "sealed"
                 PROVE  [got EXCEPT ![Db] = inv[Db]] \in moments
      BY <1>1 DEF PackageIsOneMoment
    <2>1. \A f \in Files : got[f] = inv[f]
      BY <1>1 DEF SnapInv, Copied
    <2>2. [got EXCEPT ![Db] = inv[Db]] = inv
      BY <1>0, <2>1 DEF SnapTypeOK, Items
    <2> QED
      BY <1>2, <2>2
  <1>5. SnapTypeOK' /\ Behind' /\ Remote' /\ Comparing' /\ Compared' /\ Exported'
    BY <1>0, <1>1, <1>2 DEF SnapInv, SnapTypeOK, Behind, Remote, Comparing, Compared, Exported,
       Calibre, Phases, Outcome
  <1> QED
    BY <1>3, <1>4, <1>5 DEF SnapInv

LEMMA AuditBegins ==
  ASSUME SnapInv, Snapshot
  PROVE  SnapInv'
  <1>0. SnapTypeOK /\ Db \in Items
    BY DEF SnapInv, Items
  <1>1. /\ UNCHANGED <<Calibre, have, checked, format>>
        /\ phase' = "export" /\ todo_' = Files /\ got' = Zero
        /\ inv' = [inv EXCEPT ![Db] = ShownRow]
        /\ moments' = IF kind = "offline" THEN moments ELSE {live}
    BY DEF Snapshot
  <1>2. ShownRow \in {inv[Db], live[Db]} /\ (kind = "server" => ShownRow = live[Db])
    BY <1>0 DEF ShownRow, SnapTypeOK
  <1>3. Zero \in [Items -> Nat]
    BY DEF Zero
  <1>4. SnapTypeOK' /\ Behind' /\ Remote'
    <2>1. inv' \in [Items -> Nat] /\ \A i \in Items : inv'[i] <= live[i]
      BY <1>0, <1>1, <1>2 DEF SnapInv, SnapTypeOK, Behind
    <2>2. moments' \subseteq [Items -> Nat]
      BY <1>0, <1>1 DEF SnapTypeOK
    <2> QED
      BY <1>0, <1>1, <1>3, <2>1, <2>2 DEF SnapTypeOK, Behind, Remote, Calibre, Phases
  <1>5. Comparing' /\ Compared' /\ Copied' /\ PackageIsOneMoment'
    BY <1>1 DEF Comparing, Compared, Copied, PackageIsOneMoment
  <1>6. Exported'
    <2> SUFFICES ASSUME kind = "server"
                 PROVE  live' \in moments' /\ Files \ todo_' = {}
      BY <1>1 DEF Exported, Calibre
    <2> QED
      BY <1>1 DEF Calibre
  <1> QED
    BY <1>4, <1>5, <1>6 DEF SnapInv

\* A folder: a format is exported, copied and compared again.
LEMMA FolderExports ==
  ASSUME SnapInv, CopyFormat \/ Reassert \/ \E f \in Files : Export(f)
  PROVE  SnapInv'
  <1>0. SnapTypeOK
    BY DEF SnapInv
  <1>1. /\ UNCHANGED <<Calibre, inv, have, checked, moments>> /\ kind = "offline"
        /\ phase \in {"export", "copying", "verify", "after"}
        /\ phase' \in {"copying", "verify", "after", "export", "source_changed"}
    BY <1>0 DEF CopyFormat, Reassert, Export, SnapInv, Remote, SnapTypeOK, Outcome
  <1>2. SnapTypeOK'
    BY <1>0, <1>1 DEF SnapTypeOK, Calibre, Phases, Outcome, CopyFormat, Reassert, Export, Items
  <1>3. Behind' /\ Remote' /\ Comparing' /\ Compared' /\ Exported' /\ PackageIsOneMoment'
    BY <1>0, <1>1 DEF SnapInv, Behind, Remote, Comparing, Compared, Exported,
       PackageIsOneMoment, Calibre
  <1>4. \A f \in Files : f \in todo_ \/ (phase = "copying" /\ f = format) \/ got[f] = inv[f]
    BY <1>1 DEF SnapInv, Copied
  <1>5. ASSUME CopyFormat PROVE Copied'
    BY <1>0, <1>1, <1>4, <1>5 DEF CopyFormat, Copied, SnapTypeOK, Items
  <1>6. ASSUME Reassert PROVE Copied'
    BY <1>1, <1>4, <1>6 DEF Reassert, Copied
  <1>7. ASSUME NEW f \in Files, Export(f)
        PROVE  Copied'
    BY <1>1, <1>4, <1>7 DEF Export, Copied
  <1>8. Copied'
    BY <1>5, <1>6, <1>7
  <1> QED
    BY <1>2, <1>3, <1>8 DEF SnapInv

\* A server: a format is exported as it is now.
LEMMA ServerExports ==
  ASSUME SnapInv, NEW f \in Files, ExportRemote(f)
  PROVE  SnapInv'
  <1>0. SnapTypeOK /\ f \in Items
    BY DEF SnapInv, Items
  <1>1. /\ UNCHANGED <<Calibre, phase, inv, have, checked, format, moments>>
        /\ kind = "server" /\ phase = "export"
        /\ got' = [got EXCEPT ![f] = live[f]] /\ todo_' = todo_ \ {f}
    BY DEF ExportRemote
  <1>2. SnapTypeOK' /\ Behind' /\ Remote' /\ Comparing' /\ Compared' /\ Copied'
        /\ PackageIsOneMoment'
    BY <1>0, <1>1 DEF SnapInv, SnapTypeOK, Behind, Remote, Comparing, Compared, Copied,
       PackageIsOneMoment, Calibre
  <1>3. Exported'
    <2> SUFFICES ASSUME live[Db] = inv[Db]
                 PROVE  \E m \in moments :
                          /\ live \in moments
                          /\ \/ live = m
                             \/ /\ dbtx = "written"
                                /\ \E g \in Files : \A i \in Items : i # g => live[i] = m[i]
                          /\ \A x \in Files \ todo_' : got'[x] \in {m[x], live[x]}
      BY <1>1 DEF Exported, Calibre
    <2>1. PICK m \in moments :
            /\ live \in moments
            /\ \/ live = m
               \/ /\ dbtx = "written"
                  /\ \E g \in Files : \A i \in Items : i # g => live[i] = m[i]
            /\ \A x \in Files \ todo_ : got[x] \in {m[x], live[x]}
      BY <1>1 DEF SnapInv, Exported
    <2>2. \A x \in Files \ todo_' : got'[x] \in {m[x], live[x]}
      BY <1>0, <1>1, <2>1 DEF SnapTypeOK, Items
    <2> QED
      BY <2>1, <2>2
  <1> QED
    BY <1>2, <1>3 DEF SnapInv

\* The row is still the one that was seen: the formats are those of the moment
\* the audit began at, or those of now.
LEMMA ServerSeals ==
  ASSUME SnapInv, RereadRemote
  PROVE  SnapInv'
  <1>0. SnapTypeOK
    BY DEF SnapInv
  <1>1. /\ UNCHANGED <<Calibre, inv, have, checked, got, todo_, format, moments>>
        /\ kind = "server" /\ phase = "export" /\ todo_ = {}
        /\ phase' = IF live[Db] = inv[Db] THEN "sealed" ELSE "source_changed"
    BY DEF RereadRemote, SameRow, ShownRow
  <1>2. SnapTypeOK' /\ Behind' /\ Remote' /\ Comparing' /\ Compared' /\ Copied' /\ Exported'
    BY <1>0, <1>1 DEF SnapInv, SnapTypeOK, Behind, Remote, Comparing, Compared, Copied, Exported,
       Calibre, Phases, Outcome
  <1>3. ASSUME live[Db] = inv[Db]
        PROVE  [got EXCEPT ![Db] = inv[Db]] \in moments
    <2>1. PICK m \in moments :
            /\ live \in moments
            /\ live = m \/ \E g \in Files : \A i \in Items : i # g => live[i] = m[i]
            /\ \A x \in Files : got[x] \in {m[x], live[x]}
      BY <1>1, <1>3 DEF SnapInv, Exported
    <2>2. m \in [Items -> Nat] /\ live \in [Items -> Nat] /\ got \in [Items -> Nat]
      BY <1>0 DEF SnapTypeOK
    <2>3. CASE live = m
      <3>1. [got EXCEPT ![Db] = inv[Db]] = live
        BY <1>3, <2>1, <2>2, <2>3 DEF Items
      <3> QED
        BY <2>1, <3>1
    <2>4. ASSUME NEW g \in Files, \A i \in Items : i # g => live[i] = m[i]
          PROVE  [got EXCEPT ![Db] = inv[Db]] \in moments
      <3>1. g # Db /\ m[Db] = live[Db]
        BY <2>4, SnapshotAssumption DEF Items
      <3>2. CASE got[g] = m[g]
        <4>1. \A x \in Files : got[x] = m[x]
          BY <2>1, <2>4, <3>2 DEF Items
        <4>2. [got EXCEPT ![Db] = inv[Db]] = m
          BY <1>3, <2>2, <3>1, <4>1 DEF Items
        <4> QED
          BY <2>1, <4>2
      <3>3. CASE got[g] = live[g]
        <4>1. \A x \in Files : got[x] = live[x]
          BY <2>1, <2>4, <3>3 DEF Items
        <4>2. [got EXCEPT ![Db] = inv[Db]] = live
          BY <1>3, <2>2, <4>1 DEF Items
        <4> QED
          BY <2>1, <4>2
      <3> QED
        BY <2>1, <3>2, <3>3
    <2> QED
      BY <2>1, <2>3, <2>4
  <1>4. PackageIsOneMoment'
    BY <1>1, <1>3 DEF PackageIsOneMoment
  <1> QED
    BY <1>2, <1>4 DEF SnapInv

-----------------------------------------------------------------------------
LEMMA SnapInvInit == SnapInit => SnapInv
  <1> SUFFICES ASSUME SnapInit PROVE SnapInv
    OBVIOUS
  <1>1. Zero \in [Items -> Nat] /\ Db \in Items
    BY DEF Zero, Items
  <1>2. SnapTypeOK /\ Behind /\ Remote
    BY <1>1 DEF SnapInit, SnapTypeOK, Behind, Remote, Phases, Items
  <1>3. Comparing /\ Compared /\ Copied /\ Exported /\ PackageIsOneMoment
    BY DEF SnapInit, Comparing, Compared, Copied, Exported, PackageIsOneMoment
  <1> QED
    BY <1>2, <1>3 DEF SnapInv

LEMMA SnapInvNext == SnapInv /\ [SnapNext]_snapVars => SnapInv'
  <1> SUFFICES ASSUME SnapInv, [SnapNext]_snapVars PROVE SnapInv'
    OBVIOUS
  <1>1. CASE UNCHANGED snapVars
    BY <1>1 DEF snapVars, SnapInv, SnapTypeOK, Behind, Remote, Comparing, Compared, Copied,
       Exported, PackageIsOneMoment
  <1> QED
    BY <1>1, CalibreSteps, SourceSteps, ComparisonBegins, Compares, ComparisonEnds, AuditBegins,
       FolderExports, ServerExports, ServerSeals DEF SnapNext

LEMMA SnapInvAlways == SnapSpec => []SnapInv
  BY SnapInvInit, SnapInvNext, PTL DEF SnapSpec

\* The database and the files of the inventory of an open folder were in the
\* library together, for every number of files and however often and in whatever
\* order other programs replaced them while they were read one after the other.
THEOREM InventoryOfOneMoment == SnapSpec => []InventoryIsOneMoment
  <1>1. SnapInv => InventoryIsOneMoment
    BY DEF SnapInv, Compared, InventoryIsOneMoment
  <1> QED
    BY <1>1, SnapInvAlways, PTL

\* The row and the formats of a sealed package were in the library together, from
\* a folder on the word of the last comparison of everything that was read, from
\* a server on the word of the revision of the row alone.
THEOREM PackageOfOneMoment == SnapSpec => []PackageIsOneMoment
  <1>1. SnapInv => PackageIsOneMoment
    BY DEF SnapInv
  <1> QED
    BY <1>1, SnapInvAlways, PTL

-----------------------------------------------------------------------------
(* The evidence of one book.                                               *)

Values     == {"v1", "v2"}
FormatRecs == [status : {"readable", "corrupt", "error"}, isbn : Isbns \cup {Absent},
               core : [Core \cup {"publisher"} -> Values \cup {Absent}], sha : Nat,
               seed : {"none", "engine", "engines", "vision"}]

EvidenceTypeOK ==
    /\ shelf \in Seq({"EPUB", "PDF", "CBZ", "TXT"}) /\ bytes \in [1..Len(shelf) -> Nat]
    /\ task \in {"start", "copy", "parse", "ocr", "vision", "providers", "llm", "resolve", "sealed"}
    /\ turn \in Nat \ {0} /\ before \in Nat
    /\ formats \in Seq(FormatRecs)
    /\ consent \in [remote : BOOLEAN, setting : BOOLEAN, run : BOOLEAN]

\* Nothing is known of a book before it is opened, one inspection is recorded for
\* each turn, and the files are gone through to the last.
Turns ==
    /\ task = "start" => formats = <<>> /\ evidence = {} /\ sent = {} /\ receipts = {}
    /\ task \in {"copy", "parse"} => Len(formats) = turn - 1
    /\ task \in {"copy", "parse", "ocr", "vision"} => turn <= Len(shelf)
    /\ task \in {"ocr", "vision"} => Len(formats) = Len(shelf)

\* Which witness speaks of what: the file, a public provider, or one that never
\* counts as authoritative.
Sorted(e) ==
    /\ e.authoritative = (e.kind \notin {"ocr_observation", "vision", "llm"})
    /\ \/ e.root = "book_content" /\ e.kind \in INTERNAL_PROMOTION_KINDS \cup {"ocr_observation"}
       \/ e.root \in Providers /\ e.kind = "provider_structured"
       \/ e.root = e.kind /\ e.kind \in {"vision", "llm"}
    /\ e.authoritative => IF e.field = "identifiers" THEN e.value = e.isbn /\ e.isbn \in Isbns
                          ELSE e.value \in Values

Witnesses == \A e \in evidence : Sorted(e)

\* Evidence of a format comes with its inspection.
Filed ==
    task \in {"copy", "parse"} =>
        \A e \in evidence : e.root = "book_content" => e.id[2] \in DOMAIN formats

\* Whatever a provider says of a book, it says of a record with that ISBN.
Recorded ==
    \A e \in evidence : e.root \in Providers =>
        \E x \in evidence : /\ x.root = e.root /\ x.kind = e.kind /\ x.isbn = e.isbn
                            /\ x.field = "identifiers"

\* An ISBN that was read in the book is the one of a format that was not seeded by
\* a single engine or by vision.
Confirmed ==
    \A e \in evidence : Identifies(e, INTERNAL_IDENTITY_KINDS, e.isbn) =>
        \E i \in DOMAIN formats : /\ formats[i].status = "readable" /\ formats[i].isbn = e.isbn
                                  /\ formats[i].seed \notin {"engine", "vision"}

\* Once the providers were asked, the formats keep their ISBNs.
Enquired   == task \in {"llm", "resolve", "sealed"}
Queried == \A x \in sent \ Payloads : Enquired /\ \A i \in DOMAIN formats : formats[i].isbn \in {Absent, x[2]}

\* A text or a cover that was sent has a receipt and was allowed.
Allowed == Payloads \subseteq receipts /\ (Payloads # {} => consent.setting /\ consent.run) /\ Queried

\* The package is the resolution of what was collected.
SealedOf ==
    IF task = "sealed"
    THEN package \in {Failed, [state |-> StateOf(Resolve(formats, evidence, CurrentRecord).tier),
                               identity |-> Resolve(formats, evidence, CurrentRecord),
                               receipts |-> receipts]}
    ELSE package = NoPackage

EvidenceInv ==
    /\ EvidenceTypeOK /\ Turns /\ Witnesses /\ Filed /\ EvidenceOfRecordedBytes /\ Recorded
    /\ Confirmed /\ Allowed /\ SealedOf

-----------------------------------------------------------------------------
(* resolve_manifestation.                                                  *)

\* What tier A asks for, once the formats have one ISBN.
TierA(fs, ev, isbn) ==
    /\ \A f \in Ranged(fs) : f.status = "readable"
    /\ \E e \in ev : Identifies(e, INTERNAL_IDENTITY_KINDS, isbn)
    /\ ExternalRoots(ev, isbn) # {}
    /\ ~CoreConflict(fs) /\ CompleteCore(fs)
    /\ ~ExternalConflict(fs, ev, isbn) /\ ExternalMatch(fs, ev, isbn)

\* The formats of a book have finitely many ISBNs.
LEMMA FinitelyManyIsbns ==
  ASSUME NEW fs \in Seq(FormatRecs)
  PROVE  IsFiniteSet({fs[i].isbn : i \in DOMAIN fs}) /\ IsFiniteSet(FormatIds(fs))
  <1> DEFINE T == {fs[i].isbn : i \in 1..Len(fs)}
             g == [i \in 1..Len(fs) |-> fs[i].isbn]
  <1>1. Len(fs) \in Nat /\ DOMAIN fs = 1..Len(fs)
    OBVIOUS
  <1>2. IsFiniteSet(1..Len(fs))
    BY <1>1, FS_Interval
  <1>3. g \in Surjection(1..Len(fs), T)
    BY DEF Surjection
  <1>4. IsFiniteSet(T)
    BY <1>2, <1>3, FS_Surjection
  <1>5. FormatIds(fs) \in SUBSET T
    BY <1>1 DEF FormatIds, Ranged
  <1>6. {fs[i].isbn : i \in DOMAIN fs} = T
    BY <1>1
  <1> QED
    BY <1>4, <1>5, <1>6, FS_Subset

\* Only tier A carries a patch, and it is reached with one ISBN.
LEMMA ReachesTierA ==
  ASSUME NEW fs \in Seq(FormatRecs), NEW ev, NEW cur,
         \/ Resolve(fs, ev, cur).tier = "A" \/ DOMAIN Resolve(fs, ev, cur).patch # {}
  PROVE  \E isbn : /\ FormatIds(fs) = {isbn} /\ TierA(fs, ev, isbn)
                   /\ Resolve(fs, ev, cur) = Resolution("A", isbn, "none", ResolveFields(ev, cur, isbn))
  <1> DEFINE ids  == FormatIds(fs)
             isbn == IF Cardinality(ids) = 1 THEN CHOOSE i \in ids : TRUE ELSE Absent
             r    == Resolution("A", isbn, "none", ResolveFields(ev, cur, isbn))
  <1>1. \A t, f : Resolution(t, isbn, f, <<>>).tier = t /\ DOMAIN Resolution(t, isbn, f, <<>>).patch = {}
    BY DEF Resolution
  <1>2. /\ ~(Cardinality(ids) > 1) /\ ids # {} /\ TierA(fs, ev, isbn)
        /\ Resolve(fs, ev, cur) = r
    <2> HIDE DEF ids, isbn
    <2> DEFINE Stop(tier, flag) == Resolution(tier, isbn, flag, <<>>)
    <2>1. \A t, f : t # "A" => Resolve(fs, ev, cur) # Stop(t, f)
      BY <1>1
    <2> HIDE DEF Stop, r
    <2>2. Resolve(fs, ev, cur) =
            CASE Cardinality(ids) > 1 -> Stop("C", "format_manifestation_conflict")
              [] OTHER ->
                 IF \E f \in Ranged(fs) : f.status # "readable" THEN Stop("B", "incomplete_format_evidence")
                 ELSE IF ids = {} THEN Stop("B", "missing_manifestation_identifier")
                 ELSE IF ~\E e \in ev : Identifies(e, INTERNAL_IDENTITY_KINDS, isbn)
                      THEN Stop("B", "missing_internal_manifestation_confirmation")
                 ELSE IF ExternalRoots(ev, isbn) = {}
                      THEN Stop("B", "missing_external_manifestation_confirmation")
                 ELSE IF CoreConflict(fs) THEN Stop("C", "format_expression_conflict")
                 ELSE IF ~CompleteCore(fs) THEN Stop("B", "incomplete_internal_core_evidence")
                 ELSE IF ExternalConflict(fs, ev, isbn) THEN Stop("C", "external_expression_conflict")
                 ELSE IF ~ExternalMatch(fs, ev, isbn) THEN Stop("B", "missing_external_core_confirmation")
                 ELSE r
      BY DEF Resolve, ids, isbn, Stop, r
    <2> QED
      BY <2>1, <2>2 DEF TierA
  <1>3. IsFiniteSet(ids)
    BY FinitelyManyIsbns
  <1>4. Cardinality(ids) = 1
    <2>1. Cardinality(ids) \in Nat /\ Cardinality(ids) # 0
      BY <1>2, <1>3, FS_CardinalityType, FS_EmptySet
    <2> HIDE DEF ids
    <2> QED
      BY <1>2, <2>1
  <1>5. ids = {isbn}
    <2>1. \E x : ids = {x}
      BY <1>3, <1>4, FS_Singleton
    <2> QED
      BY <1>4, <2>1
  <1> QED
    BY <1>2, <1>5

\* And whatever meets its conditions reaches it.
LEMMA MeetsTierA ==
  ASSUME NEW fs, NEW ev, NEW cur, NEW isbn, FormatIds(fs) = {isbn}, TierA(fs, ev, isbn)
  PROVE  Resolve(fs, ev, cur) = Resolution("A", isbn, "none", ResolveFields(ev, cur, isbn))
  <1>1. Cardinality(FormatIds(fs)) = 1 /\ ~(Cardinality(FormatIds(fs)) > 1)
    BY FS_Singleton
  <1>2. (IF Cardinality(FormatIds(fs)) = 1 THEN CHOOSE i \in FormatIds(fs) : TRUE ELSE Absent) = isbn
    BY <1>1
  <1> QED
    BY <1>1, <1>2 DEF Resolve, TierA

\* A field is patched with the one value its eligible items have, and both the
\* book and a provider are among them.
LEMMA PatchedFields ==
  ASSUME Witnesses, NEW isbn, NEW f \in DOMAIN ResolveFields(evidence, CurrentRecord, isbn)
  PROVE  LET v == ResolveFields(evidence, CurrentRecord, isbn)[f]
             items == Eligible(evidence, f, isbn)
         IN  /\ \A e \in items : e.value = v
             /\ \E e \in items : e.root = "book_content"
             /\ \E e \in items : e.root \in Providers
  <1> DEFINE items == Eligible(evidence, f, isbn)
             v == ResolveFields(evidence, CurrentRecord, isbn)[f]
  <1>1. Decide(evidence, CurrentRecord, f, isbn) = "auto" /\ v = (CHOOSE e \in items : TRUE).value
    BY DEF ResolveFields
  <1>2. /\ Cardinality({e.value : e \in items}) = 1 /\ ~(Cardinality({e.root : e \in items}) < 2)
        /\ {e.kind : e \in items} \cap (INTERNAL_PROMOTION_KINDS \cup OFFICIAL_KINDS) # {}
    BY <1>1 DEF Decide
  <1>3. \A e \in items : /\ e \in evidence /\ Sorted(e) /\ e.authoritative /\ e.isbn = isbn /\ e.field = f
                         /\ e.kind \in INTERNAL_PROMOTION_KINDS \cup EXTERNAL_PROMOTION_KINDS
    BY DEF Eligible, Witnesses
  <1> HIDE DEF items, v
  <1>4. {e.value : e \in items} \in SUBSET (Values \cup {isbn})
    BY <1>3 DEF Sorted
  <1>5. IsFiniteSet(Values \cup {isbn})
    <2>1. Values \cup {isbn} = {"v1"} \cup {"v2"} \cup {isbn}
      BY DEF Values
    <2> QED
      BY <2>1, FS_Singleton, FS_Union
  <1>6. PICK w : {e.value : e \in items} = {w}
    BY <1>2, <1>4, <1>5, FS_Subset, FS_Singleton
  <1>7. \A e \in items : e.value = v
    <2>1. items # {} /\ \A e \in items : e.value = w
      BY <1>6
    <2>2. (CHOOSE e \in items : TRUE) \in items
      BY <2>1
    <2> QED
      BY <1>1, <2>1, <2>2
  <1>8. PICK e \in items : e.kind \in INTERNAL_PROMOTION_KINDS \cup OFFICIAL_KINDS
    BY <1>2
  <1>9. e.root = "book_content"
    BY <1>3, <1>8 DEF Sorted, Providers, INTERNAL_PROMOTION_KINDS, OFFICIAL_KINDS
  <1>10. \E x \in items : x.root # "book_content"
    <2> SUFFICES ASSUME \A x \in items : x.root = "book_content"
                 PROVE  FALSE
      OBVIOUS
    <2>1. {x.root : x \in items} = {"book_content"}
      BY <1>9
    <2>2. Cardinality({x.root : x \in items}) = 1
      BY <2>1, FS_Singleton
    <2> QED
      BY <1>2, <2>2
  <1>11. \E x \in items : x.root \in Providers
    BY <1>3, <1>10 DEF Sorted, INTERNAL_PROMOTION_KINDS, EXTERNAL_PROMOTION_KINDS, OFFICIAL_KINDS
  <1> QED
    BY <1>7, <1>9, <1>11 DEF items, v

\* The formats of a book in tier A have the same core.
LEMMA OneCore ==
  ASSUME EvidenceTypeOK, ~CoreConflict(formats), CompleteCore(formats), NEW c \in Core,
         NEW i \in DOMAIN formats, NEW j \in DOMAIN formats
  PROVE  formats[i].core[c] = formats[j].core[c]
  <1> DEFINE cores == {f.core[c] : f \in Ranged(formats)} \ {Absent}
  <1>1. formats[i].core[c] \in cores /\ formats[j].core[c] \in cores
    BY DEF CompleteCore, Ranged
  <1>2. cores \in SUBSET Values
    <2>1. \A k \in DOMAIN formats : formats[k] \in FormatRecs
      BY DEF EvidenceTypeOK
    <2>2. \A k \in DOMAIN formats : formats[k].core[c] \in Values \cup {Absent}
      BY <2>1 DEF FormatRecs
    <2> QED
      BY <2>2 DEF Ranged
  <1>3. IsFiniteSet(Values)
    <2>1. Values = {"v1"} \cup {"v2"}
      BY DEF Values
    <2> QED
      BY <2>1, FS_Singleton, FS_Union
  <1>4. IsFiniteSet(cores) /\ Cardinality(cores) \in Nat /\ Cardinality(cores) # 0
    BY <1>1, <1>2, <1>3, FS_Subset, FS_CardinalityType, FS_EmptySet
  <1>5. ~(Cardinality(cores) > 1)
    BY DEF CoreConflict
  <1> HIDE DEF cores
  <1>6. Cardinality(cores) = 1
    BY <1>4, <1>5
  <1>7. PICK x : cores = {x}
    BY <1>4, <1>6, FS_Singleton
  <1> QED
    BY <1>1, <1>7

LEMMA PatchesAreCorroborated ==
  ASSUME EvidenceTypeOK, Witnesses, Recorded, SealedOf
  PROVE  PatchCorroborated
  <1> DEFINE r == Resolve(formats, evidence, CurrentRecord)
  <1>1. CASE package.identity # r
    <2>1. package = Failed \/ package = NoPackage
      BY <1>1 DEF SealedOf
    <2>2. package.identity.patch = <<>>
      BY <2>1 DEF Failed, NoPackage, Resolution
    <2> QED
      BY <2>2 DEF PatchCorroborated
  <1>2. CASE package.identity = r
    <2> HIDE DEF r
    <2> SUFFICES ASSUME NEW f \in DOMAIN r.patch
                 PROVE  /\ \E e \in evidence : e.root = "book_content" /\ e.field = f /\ e.value = r.patch[f]
                        /\ \E e \in evidence : /\ e.root \in Providers /\ e.field = f
                                               /\ e.value = r.patch[f] /\ e.isbn = r.isbn
                        /\ ~\E e \in Authoritative : e.field = f /\ e.isbn = r.isbn /\ e.value # r.patch[f]
                        /\ f \in Core => \A i \in DOMAIN formats : formats[i].core[f] = r.patch[f]
      BY <1>2 DEF PatchCorroborated
    <2>1. PICK isbn : /\ FormatIds(formats) = {isbn} /\ TierA(formats, evidence, isbn)
                      /\ r = Resolution("A", isbn, "none", ResolveFields(evidence, CurrentRecord, isbn))
      BY ReachesTierA DEF r, EvidenceTypeOK
    <2>2. r.isbn = isbn /\ r.patch = ResolveFields(evidence, CurrentRecord, isbn)
      BY <2>1 DEF Resolution
    <2> DEFINE items == Eligible(evidence, f, isbn)
    <2>3. /\ \A e \in items : e.value = r.patch[f]
          /\ \E e \in items : e.root = "book_content"
          /\ \E e \in items : e.root \in Providers
      BY <2>2, PatchedFields
    <2>4. \A e \in items : e \in evidence /\ e.field = f /\ e.isbn = isbn /\ e.authoritative
      BY DEF Eligible
    <2>5. \A e \in Authoritative : e.field = f /\ e.isbn = isbn => e \in items
      BY DEF Authoritative, Eligible, Witnesses, Sorted, INTERNAL_PROMOTION_KINDS, EXTERNAL_PROMOTION_KINDS,
             OFFICIAL_KINDS
    <2>6. ASSUME f \in Core, NEW i \in DOMAIN formats
          PROVE  formats[i].core[f] = r.patch[f]
      <3>1. PICK e \in items : e.root \in Providers
        BY <2>3
      <3>2. e \in evidence /\ e.authoritative /\ e.kind = "provider_structured" /\ e.isbn = isbn /\ e.field = f
        BY <2>4, <3>1 DEF Witnesses, Sorted, Providers
      <3>3. PICK x \in evidence : /\ x.root = e.root /\ x.kind = e.kind /\ x.isbn = isbn
                                  /\ x.field = "identifiers"
        BY <3>1, <3>2 DEF Recorded
      <3>4. x.authoritative
        BY <3>2, <3>3 DEF Witnesses, Sorted
      <3>5. e.root \in ExternalRoots(evidence, isbn)
        BY <3>2, <3>3, <3>4 DEF ExternalRoots, Identifies, EXTERNAL_PROMOTION_KINDS
      <3>6. e \in ExternalCore(evidence, isbn)
        BY <2>6, <3>2, <3>5 DEF ExternalCore, EXTERNAL_PROMOTION_KINDS
      <3>7. e.value = formats[1].core[f]
        BY <2>1, <3>2, <3>6 DEF TierA, ExternalConflict
      <3>8. 1 \in DOMAIN formats
        BY DEF EvidenceTypeOK
      <3> QED
        BY <2>1, <2>3, <2>6, <3>1, <3>7, <3>8, OneCore DEF TierA
    <2> QED
      BY <2>2, <2>3, <2>4, <2>5, <2>6
  <1> QED
    BY <1>1, <1>2

\* The witnesses that do not count change nothing of what tier A looks at.
LEMMA UnaidedFormats ==
  ASSUME EvidenceTypeOK
  PROVE  /\ DOMAIN Unaided = DOMAIN formats
         /\ \A i \in DOMAIN formats : /\ Unaided[i].status = formats[i].status
                                      /\ Unaided[i].core = formats[i].core
                                      /\ Unaided[i].isbn \in {formats[i].isbn, Absent}
                                      /\ formats[i].seed \notin {"engine", "vision"} =>
                                            Unaided[i].isbn = formats[i].isbn
  <1>1. \A i \in DOMAIN formats : formats[i] \in FormatRecs
    BY DEF EvidenceTypeOK
  <1>2. DOMAIN Unaided = DOMAIN formats
    BY DEF Unaided
  <1> SUFFICES ASSUME NEW i \in DOMAIN formats
               PROVE  /\ Unaided[i].status = formats[i].status
                      /\ Unaided[i].core = formats[i].core
                      /\ Unaided[i].isbn \in {formats[i].isbn, Absent}
                      /\ formats[i].seed \notin {"engine", "vision"} => Unaided[i].isbn = formats[i].isbn
    BY <1>2
  <1>3. Unaided[i] = IF formats[i].seed \in {"engine", "vision"}
                     THEN [formats[i] EXCEPT !.isbn = Absent] ELSE formats[i]
    BY DEF Unaided
  <1> QED
    BY <1>1, <1>3 DEF FormatRecs

LEMMA OnlyAuthoritativeCount ==
  ASSUME NEW isbn
  PROVE  /\ ExternalRoots(Authoritative, isbn) = ExternalRoots(evidence, isbn)
         /\ ExternalCore(Authoritative, isbn) = ExternalCore(evidence, isbn)
         /\ \A f \in PatchFields : Eligible(Authoritative, f, isbn) = Eligible(evidence, f, isbn)
         /\ ResolveFields(Authoritative, CurrentRecord, isbn) = ResolveFields(evidence, CurrentRecord, isbn)
  <1>1. ExternalRoots(Authoritative, isbn) = ExternalRoots(evidence, isbn)
    BY DEF ExternalRoots, Identifies, Authoritative
  <1>2. ExternalCore(Authoritative, isbn) = ExternalCore(evidence, isbn)
    BY <1>1 DEF ExternalCore, Authoritative
  <1>3. \A f \in PatchFields : Eligible(Authoritative, f, isbn) = Eligible(evidence, f, isbn)
    BY DEF Eligible, Authoritative
  <1>4. \A f \in PatchFields :
          Decide(Authoritative, CurrentRecord, f, isbn) = Decide(evidence, CurrentRecord, f, isbn)
    BY <1>3 DEF Decide
  <1>5. ResolveFields(Authoritative, CurrentRecord, isbn) = ResolveFields(evidence, CurrentRecord, isbn)
    <2> DEFINE auto == {f \in PatchFields : Decide(evidence, CurrentRecord, f, isbn) = "auto"}
    <2>1. {f \in PatchFields : Decide(Authoritative, CurrentRecord, f, isbn) = "auto"} = auto
      BY <1>4
    <2> DEFINE Value(f, ev) == (CHOOSE e \in Eligible(ev, f, isbn) : TRUE).value
    <2>2. \A f \in auto : Value(f, Authoritative) = Value(f, evidence)
      BY <1>3
    <2>3. [f \in auto |-> Value(f, Authoritative)] = [f \in auto |-> Value(f, evidence)]
      <3> HIDE DEF auto, Value
      <3> QED
        BY <2>2, Zenon
    <2> QED
      BY <2>1, <2>3 DEF ResolveFields
  <1> QED
    BY <1>1, <1>2, <1>3, <1>5

LEMMA WitnessesChangeNothing ==
  ASSUME EvidenceTypeOK, Witnesses, Confirmed, SealedOf
  PROVE  WitnessesNeverPromote
  <1> DEFINE r == Resolve(formats, evidence, CurrentRecord)
  <1> SUFFICES ASSUME package.identity.tier = "A"
               PROVE  package.identity = Resolve(Unaided, Authoritative, CurrentRecord)
    BY DEF WitnessesNeverPromote
  <1>1. package.identity = r
    BY DEF SealedOf, Failed, NoPackage, Resolution
  <1> HIDE DEF r
  <1>2. PICK isbn : /\ FormatIds(formats) = {isbn} /\ TierA(formats, evidence, isbn)
                    /\ r = Resolution("A", isbn, "none", ResolveFields(evidence, CurrentRecord, isbn))
    BY <1>1, ReachesTierA DEF r, EvidenceTypeOK
  <1>3. isbn # Absent
    BY <1>2 DEF FormatIds
  <1>4. FormatIds(Unaided) = {isbn}
    <2>1. PICK e \in evidence : Identifies(e, INTERNAL_IDENTITY_KINDS, isbn)
      BY <1>2 DEF TierA
    <2>2. PICK i \in DOMAIN formats : /\ formats[i].status = "readable" /\ formats[i].isbn = isbn
                                      /\ formats[i].seed \notin {"engine", "vision"}
      BY <2>1 DEF Confirmed, Identifies
    <2>3. isbn \in FormatIds(Unaided)
      <3>1. Unaided[i].status = "readable" /\ Unaided[i].isbn = isbn /\ i \in DOMAIN Unaided
        BY <2>2, UnaidedFormats
      <3> QED
        BY <1>3, <3>1 DEF FormatIds, Ranged
    <2>4. FormatIds(Unaided) \subseteq FormatIds(formats)
      <3> SUFFICES ASSUME NEW k \in DOMAIN formats, Unaided[k].status = "readable", Unaided[k].isbn # Absent
                   PROVE  Unaided[k].isbn \in FormatIds(formats)
        BY UnaidedFormats DEF FormatIds, Ranged
      <3>1. formats[k].status = "readable" /\ Unaided[k].isbn = formats[k].isbn
        BY UnaidedFormats
      <3> QED
        BY <3>1 DEF FormatIds, Ranged
    <2> QED
      BY <1>2, <2>3, <2>4
  <1>5. TierA(Unaided, Authoritative, isbn)
    <2>1. \A f \in Ranged(Unaided) : f.status = "readable"
      BY <1>2, UnaidedFormats DEF TierA, Ranged
    <2>2. \E e \in Authoritative : Identifies(e, INTERNAL_IDENTITY_KINDS, isbn)
      BY <1>2 DEF TierA, Authoritative, Identifies
    <2>3. \A c \in Core : {f.core[c] : f \in Ranged(Unaided)} = {f.core[c] : f \in Ranged(formats)}
      <3> SUFFICES ASSUME NEW c \in Core
                   PROVE  {f.core[c] : f \in Ranged(Unaided)} = {f.core[c] : f \in Ranged(formats)}
        OBVIOUS
      <3>1. {f.core[c] : f \in Ranged(Unaided)} = {Unaided[k].core[c] : k \in DOMAIN formats}
        BY UnaidedFormats DEF Ranged
      <3>2. {f.core[c] : f \in Ranged(formats)} = {formats[k].core[c] : k \in DOMAIN formats}
        BY DEF Ranged
      <3>3. \A k \in DOMAIN formats : Unaided[k].core[c] = formats[k].core[c]
        BY UnaidedFormats
      <3>4. {Unaided[k].core[c] : k \in DOMAIN formats} = {formats[k].core[c] : k \in DOMAIN formats}
        BY <3>3, Zenon
      <3> QED
        BY <3>1, <3>2, <3>4
    <2>4. ~CoreConflict(Unaided)
      BY <1>2, <2>3 DEF TierA, CoreConflict
    <2>5. CompleteCore(Unaided)
      BY <1>2, UnaidedFormats DEF TierA, CompleteCore, Ranged
    <2>6. Unaided[1].core = formats[1].core
      <3>1. 1 \in DOMAIN formats
        <4>1. formats # <<>>
          BY <1>2 DEF FormatIds, Ranged
        <4> QED
          BY <4>1 DEF EvidenceTypeOK
      <3> QED
        BY <3>1, UnaidedFormats
    <2>7. ~ExternalConflict(Unaided, Authoritative, isbn)
      BY <1>2, <2>6, OnlyAuthoritativeCount DEF TierA, ExternalConflict
    <2>8. ExternalMatch(Unaided, Authoritative, isbn)
      BY <1>2, <2>6, OnlyAuthoritativeCount DEF TierA, ExternalMatch, Authoritative
    <2> QED
      BY <1>2, <2>1, <2>2, <2>4, <2>5, <2>7, <2>8, OnlyAuthoritativeCount DEF TierA
  <1>6. Resolve(Unaided, Authoritative, CurrentRecord) =
          Resolution("A", isbn, "none", ResolveFields(Authoritative, CurrentRecord, isbn))
    BY <1>4, <1>5, MeetsTierA
  <1> QED
    BY <1>1, <1>2, <1>6, OnlyAuthoritativeCount

-----------------------------------------------------------------------------
(* The steps of the pipeline.                                              *)

\* What a step sends to a model was allowed and has its receipt; the query of the
\* providers stays what it was.
LEMMA SendsAllowed ==
  ASSUME Allowed, consent' = consent,
         \/ UNCHANGED <<sent, receipts>>
         \/ MayLeave /\ \E what : what[1] # "isbn" /\ Send(what),
         Enquired => Enquired' /\ formats' = formats
  PROVE  Allowed'
  <1>1. sent' \ Payloads' = sent \ Payloads
    BY DEF Send, Payloads
  <1>2. Payloads' \subseteq receipts' /\ (Payloads' # {} => consent'.setting /\ consent'.run)
    <2>1. CASE UNCHANGED <<sent, receipts>>
      BY <2>1 DEF Allowed, Payloads
    <2>2. CASE MayLeave /\ \E what : what[1] # "isbn" /\ Send(what)
      <3>1. PICK what : what[1] # "isbn" /\ Send(what)
        BY <2>2
      <3>2. Payloads' \subseteq Payloads \cup {what} /\ receipts' = receipts \cup {what}
        BY <3>1 DEF Send, Payloads
      <3>3. (consent.setting /\ consent.run) \/ Payloads' = Payloads
        BY <2>2, <3>1 DEF MayLeave, Send, Payloads
      <3> QED
        BY <3>2, <3>3 DEF Allowed
    <2> QED
      BY <2>1, <2>2
  <1>3. Queried'
    BY <1>1 DEF Allowed, Queried
  <1> QED
    BY <1>2, <1>3 DEF Allowed

\* What an inspection finds is about its format and its bytes, and the ISBN that
\* was read on the pages is the one of the format.
LEMMA ParsesCopy ==
  ASSUME EvidenceInv, ParseCopy
  PROVE  EvidenceInv'
  <1>0. /\ EvidenceTypeOK /\ Turns /\ Witnesses /\ Filed /\ EvidenceOfRecordedBytes /\ Recorded
        /\ Confirmed /\ Allowed /\ SealedOf
    BY DEF EvidenceInv
  <1>1. /\ task = "parse" /\ turn \in 1..Len(shelf) /\ Len(formats) = turn - 1 /\ before \in Nat
        /\ bytes[turn] \in Nat /\ formats \in Seq(FormatRecs) /\ DOMAIN formats = 1..Len(formats)
    BY <1>0 DEF ParseCopy, Turns, EvidenceTypeOK
  <1>2. UNCHANGED <<shelf, bytes, before, consent, sent, receipts, package>>
    BY DEF ParseCopy
  <1>3. \/ task' = "ocr" /\ turn' = 1 /\ turn = Len(shelf)
        \/ task' = "copy" /\ turn' = turn + 1 /\ turn # Len(shelf)
    BY DEF ParseCopy, NextFormat, Step
  <1>4. PICK rec \in FormatRecs : \E items :
          /\ formats' = Append(formats, rec) /\ evidence' = evidence \cup items
          /\ \A e \in items :
               /\ Sorted(e) /\ e.root = "book_content" /\ e.id[2] = turn /\ e.bytes = rec.sha
               /\ Identifies(e, INTERNAL_IDENTITY_KINDS, e.isbn) =>
                     rec.status = "readable" /\ rec.isbn = e.isbn /\ rec.seed = "none"
    <2>1. ASSUME NEW x \in Found, shelf[turn] = "CBZ" => x.content = Absent,
                 formats' = Append(formats, FormatRecord("readable", Inspect(turn, x).isbn,
                                                         Inspect(turn, x).core, before)),
                 evidence' = evidence \cup Inspect(turn, x).items
          PROVE  \E rec \in FormatRecs : \E items :
                   /\ formats' = Append(formats, rec) /\ evidence' = evidence \cup items
                   /\ \A e \in items :
                        /\ Sorted(e) /\ e.root = "book_content" /\ e.id[2] = turn /\ e.bytes = rec.sha
                        /\ Identifies(e, INTERNAL_IDENTITY_KINDS, e.isbn) =>
                              rec.status = "readable" /\ rec.isbn = e.isbn /\ rec.seed = "none"
      <3> DEFINE r == Inspect(turn, x)
                 rec == FormatRecord("readable", r.isbn, r.core, before)
      <3>1. /\ r.isbn \in Isbns \cup {Absent} /\ r.core \in [Core \cup {"publisher"} -> Values \cup {Absent}]
            /\ \A e \in r.items :
                  /\ Sorted(e) /\ e.root = "book_content" /\ e.id[2] = turn /\ e.bytes = before
                  /\ Identifies(e, INTERNAL_IDENTITY_KINDS, e.isbn) => e.isbn = r.isbn
        <4> USE <1>1
        <4>1. \A p \in Profiles : Says(p) \in [Core \cup {"publisher"} -> Values]
          BY DEF Says, Values
        <4>2. x.embedded \in Isbns \cup {Absent} /\ x.content \in Isbns \cup {Absent} /\ x.profile \in Profiles
          BY DEF Found
        <4>3. \A isbn \in Isbns \cup {Absent} : \A says \in [Core \cup {"publisher"} -> Values \cup {Absent}] :
                \A e \in Metadata(turn, says, isbn) :
                  /\ Sorted(e) /\ e.root = "book_content" /\ e.id[2] = turn /\ e.bytes = before
                  /\ e.kind = "embedded_metadata"
          BY DEF Metadata, Evidence, Sorted, INTERNAL_PROMOTION_KINDS, Core
        <4>4. \A isbn \in Isbns \cup {Absent} : \A kd \in {"embedded_metadata", "content_native"} :
                \A e \in Identified(turn, kd, isbn) :
                  /\ Sorted(e) /\ e.root = "book_content" /\ e.id[2] = turn /\ e.bytes = before
                  /\ e.kind = kd /\ e.isbn = isbn
          BY DEF Identified, Evidence, Sorted, INTERNAL_PROMOTION_KINDS
        <4>5. CASE shelf[turn] = "EPUB"
          <5>1. Inspect(turn, x) = InspectEpub(turn, x)
            BY <4>5 DEF Inspect
          <5>2. Identified(turn, "content_native", x.content) = {} \/ x.content # Absent
            BY DEF Identified
          <5> DEFINE says == Says(x.profile)
                     isbn == IF x.content # Absent THEN x.content ELSE x.embedded
          <5>3. says \in [Core \cup {"publisher"} -> Values \cup {Absent}] /\ isbn \in Isbns \cup {Absent}
            BY <4>1, <4>2
          <5>4. InspectEpub(turn, x) = [isbn |-> isbn, core |-> says,
                                     items |-> Metadata(turn, says, x.embedded)
                                               \cup Identified(turn, "embedded_metadata", x.embedded)
                                               \cup Identified(turn, "content_native", x.content)]
            BY DEF InspectEpub
          <5> HIDE DEF says
          <5> QED
            BY <4>2, <4>3, <4>4, <5>1, <5>2, <5>3, <5>4, SMTT(30) DEF Identifies, INTERNAL_IDENTITY_KINDS
        <4>6. CASE shelf[turn] = "PDF"
          <5> DEFINE says == [f \in Core \cup {"publisher"} |->
                                IF f \in {"title", "authors"} THEN Says(x.profile)[f] ELSE Absent]
          <5>1. Inspect(turn, x) = InspectPdf(turn, x)
            BY <4>6 DEF Inspect
          <5>2. says \in [Core \cup {"publisher"} -> Values \cup {Absent}]
            BY <4>1, <4>2
          <5>3. InspectPdf(turn, x) = [isbn |-> x.content, core |-> says,
                                    items |-> Metadata(turn, says, x.content)
                                              \cup Identified(turn, "content_native", x.content)]
            BY DEF InspectPdf
          <5> HIDE DEF says
          <5>4. \A e \in Metadata(turn, says, x.content) :
                  /\ Sorted(e) /\ e.root = "book_content" /\ e.id[2] = turn /\ e.bytes = before
                  /\ e.kind = "embedded_metadata"
            BY <4>2, <4>3, <5>2
          <5>5. \A e \in Identified(turn, "content_native", x.content) :
                  /\ Sorted(e) /\ e.root = "book_content" /\ e.id[2] = turn /\ e.bytes = before
                  /\ e.isbn = x.content
            BY <4>2, <4>4
          <5>6. /\ r.isbn = x.content /\ r.core = says
                /\ r.items = Metadata(turn, says, x.content) \cup Identified(turn, "content_native", x.content)
            BY <5>1, <5>3
          <5> HIDE DEF r
          <5> QED
            BY <4>2, <5>2, <5>4, <5>5, <5>6 DEF Identifies, INTERNAL_IDENTITY_KINDS
        <4>7. CASE shelf[turn] \notin {"EPUB", "PDF"}
          <5> DEFINE says == [Says(x.profile) EXCEPT !["publisher"] = Absent]
          <5>1. Inspect(turn, x) = InspectCbz(turn, x)
            BY <4>7 DEF Inspect
          <5>2. says \in [Core \cup {"publisher"} -> Values \cup {Absent}]
            BY <4>1, <4>2
          <5>3. InspectCbz(turn, x) = [isbn |-> x.embedded, core |-> says,
                                    items |-> Metadata(turn, says, x.embedded)
                                              \cup Identified(turn, "embedded_metadata", x.embedded)]
            BY DEF InspectCbz
          <5> HIDE DEF says
          <5>4. \A e \in Metadata(turn, says, x.embedded) \cup Identified(turn, "embedded_metadata", x.embedded) :
                  /\ Sorted(e) /\ e.root = "book_content" /\ e.id[2] = turn /\ e.bytes = before
                  /\ e.kind = "embedded_metadata"
            <6>1. \A e \in Metadata(turn, says, x.embedded) :
                    /\ Sorted(e) /\ e.root = "book_content" /\ e.id[2] = turn /\ e.bytes = before
                    /\ e.kind = "embedded_metadata"
              BY <4>2, <4>3, <5>2
            <6>2. \A e \in Identified(turn, "embedded_metadata", x.embedded) :
                    /\ Sorted(e) /\ e.root = "book_content" /\ e.id[2] = turn /\ e.bytes = before
                    /\ e.kind = "embedded_metadata"
              BY <4>2, <4>4
            <6> QED BY <6>1, <6>2
          <5>5. /\ r.isbn = x.embedded /\ r.core = says
                /\ r.items = Metadata(turn, says, x.embedded) \cup Identified(turn, "embedded_metadata", x.embedded)
            BY <5>1, <5>3
          <5> HIDE DEF r
          <5> QED
            BY <4>2, <5>2, <5>4, <5>5 DEF Identifies, INTERNAL_IDENTITY_KINDS
        <4> QED
          BY <4>5, <4>6, <4>7
      <3> HIDE DEF r
      <3>2. /\ rec \in FormatRecs /\ rec.sha = before /\ rec.status = "readable" /\ rec.isbn = r.isbn
            /\ rec.seed = "none"
        BY <1>1, <3>1 DEF FormatRecord, FormatRecs
      <3>3. formats' = Append(formats, rec) /\ evidence' = evidence \cup r.items
        BY <2>1 DEF r
      <3> HIDE DEF rec
      <3> QED
        BY <3>1, <3>2, <3>3
    <2>2. ASSUME NEW s \in {"corrupt", "error"},
                 formats' = Append(formats, FormatRecord(s, Absent, Unknown, bytes[turn])),
                 evidence' = evidence
          PROVE  \E rec \in FormatRecs : \E items :
                   /\ formats' = Append(formats, rec) /\ evidence' = evidence \cup items
                   /\ \A e \in items :
                        /\ Sorted(e) /\ e.root = "book_content" /\ e.id[2] = turn /\ e.bytes = rec.sha
                        /\ Identifies(e, INTERNAL_IDENTITY_KINDS, e.isbn) =>
                              rec.status = "readable" /\ rec.isbn = e.isbn /\ rec.seed = "none"
      <3>1. FormatRecord(s, Absent, Unknown, bytes[turn]) \in FormatRecs
        BY <1>1 DEF FormatRecord, FormatRecs, Unknown
      <3>2. evidence' = evidence \cup {}
        BY <2>2
      <3>3. \E items : /\ evidence' = evidence \cup items
                       /\ items = {}
        BY <3>2
      <3> QED
        BY <2>2, <3>1, <3>3
    <2> QED
      BY <2>1, <2>2 DEF ParseCopy, Collect
  <1>15. PICK items :
          /\ formats' = Append(formats, rec) /\ evidence' = evidence \cup items
          /\ \A e \in items :
               /\ Sorted(e) /\ e.root = "book_content" /\ e.id[2] = turn /\ e.bytes = rec.sha
               /\ Identifies(e, INTERNAL_IDENTITY_KINDS, e.isbn) =>
                     rec.status = "readable" /\ rec.isbn = e.isbn /\ rec.seed = "none"
    BY <1>4
  <1>5. /\ formats' \in Seq(FormatRecs) /\ Len(formats') = turn /\ DOMAIN formats' = 1..turn
        /\ formats'[turn] = rec /\ \A i \in DOMAIN formats : formats'[i] = formats[i]
    BY <1>1, <1>15
  <1>6. DOMAIN formats' = DOMAIN formats \cup {turn} /\ turn \notin DOMAIN formats
    BY <1>1, <1>5
  <1>7. EvidenceTypeOK'
    BY <1>0, <1>2, <1>3, <1>5 DEF EvidenceTypeOK
  <1>8. Turns'
    BY <1>1, <1>2, <1>3, <1>5 DEF Turns
  <1>9. Witnesses'
    BY <1>0, <1>15 DEF Witnesses, Sorted
  <1>10. Filed'
    BY <1>0, <1>1, <1>15, <1>6 DEF Filed
  <1>11. EvidenceOfRecordedBytes'
    <2>1. \A e \in evidence : e.root = "book_content" => e.id[2] \in DOMAIN formats
      BY <1>0, <1>1 DEF Filed
    <2> QED
      BY <1>0, <1>15, <1>5, <1>6, <2>1 DEF EvidenceOfRecordedBytes
  <1>12. Recorded'
    <2>1. \A e \in items : e.root \notin Providers
      BY <1>15 DEF Providers
    <2> QED
      BY <1>0, <1>15, <2>1 DEF Recorded
  <1>13. Confirmed'
    <2>1. \A e \in evidence : Identifies(e, INTERNAL_IDENTITY_KINDS, e.isbn) =>
             \E i \in DOMAIN formats' : /\ formats'[i].status = "readable" /\ formats'[i].isbn = e.isbn
                                        /\ formats'[i].seed \notin {"engine", "vision"}
      <3> SUFFICES ASSUME NEW e \in evidence, Identifies(e, INTERNAL_IDENTITY_KINDS, e.isbn)
                   PROVE  \E i \in DOMAIN formats' :
                             /\ formats'[i].status = "readable" /\ formats'[i].isbn = e.isbn
                             /\ formats'[i].seed \notin {"engine", "vision"}
        OBVIOUS
      <3>1. PICK i \in DOMAIN formats : /\ formats[i].status = "readable" /\ formats[i].isbn = e.isbn
                                        /\ formats[i].seed \notin {"engine", "vision"}
        BY <1>0 DEF Confirmed
      <3>2. i \in DOMAIN formats' /\ formats'[i] = formats[i]
        BY <1>5, <1>6
      <3> QED
        BY <3>1, <3>2
    <2>2. \A e \in items : Identifies(e, INTERNAL_IDENTITY_KINDS, e.isbn) =>
             \E i \in DOMAIN formats' : /\ formats'[i].status = "readable" /\ formats'[i].isbn = e.isbn
                                        /\ formats'[i].seed \notin {"engine", "vision"}
      BY <1>15, <1>5, <1>6
    <2> QED
      BY <1>15, <2>1, <2>2 DEF Confirmed, Identifies
  <1>14. Allowed' /\ SealedOf'
    BY <1>0, <1>1, <1>2, <1>3, SendsAllowed DEF Enquired, SealedOf
  <1> QED
    BY <1>7, <1>8, <1>9, <1>10, <1>11, <1>12, <1>13, <1>14 DEF EvidenceInv

\* Later steps only add evidence, and give an ISBN to a format that has none.
LEMMA Accrues ==
  ASSUME EvidenceInv, evidence \subseteq evidence',
         task \in {"ocr", "vision", "providers", "llm"},
         task' \in {"ocr", "vision", "providers", "llm", "resolve"},
         DOMAIN formats' = DOMAIN formats,
         \A i \in DOMAIN formats : /\ formats'[i].sha = formats[i].sha /\ formats'[i].status = formats[i].status
                                   /\ formats[i].isbn # Absent => /\ formats'[i].isbn = formats[i].isbn
                                                                  /\ formats'[i].seed = formats[i].seed,
         \A e \in evidence' \ evidence :
            /\ Sorted(e)
            /\ e.root = "book_content" => \A i \in DOMAIN formats : e.id[2] = i => e.bytes = formats[i].sha
            /\ e.root \in Providers =>
                  \E x \in evidence' : /\ x.root = e.root /\ x.kind = e.kind /\ x.isbn = e.isbn
                                       /\ x.field = "identifiers"
            /\ Identifies(e, INTERNAL_IDENTITY_KINDS, e.isbn) =>
                  \E i \in DOMAIN formats : /\ formats'[i].status = "readable" /\ formats'[i].isbn = e.isbn
                                            /\ formats'[i].seed \notin {"engine", "vision"}
  PROVE  Witnesses' /\ Filed' /\ EvidenceOfRecordedBytes' /\ Recorded' /\ Confirmed'
  <1>0. Witnesses /\ EvidenceOfRecordedBytes /\ Recorded /\ Confirmed
    BY DEF EvidenceInv
  <1>1. Witnesses'
    BY <1>0 DEF Witnesses, Sorted
  <1>2. Filed'
    BY DEF Filed
  <1>3. EvidenceOfRecordedBytes'
    BY <1>0 DEF EvidenceOfRecordedBytes
  <1>4. Recorded'
    BY <1>0 DEF Recorded
  <1>5. Confirmed'
    <2>1. \A e \in evidence : Identifies(e, INTERNAL_IDENTITY_KINDS, e.isbn) => e.isbn # Absent
      BY <1>0, EvidenceAssumption DEF Witnesses, Sorted, Identifies
    <2> SUFFICES ASSUME NEW e \in evidence', Identifies(e, INTERNAL_IDENTITY_KINDS, e.isbn)
                 PROVE  \E i \in DOMAIN formats : /\ formats'[i].status = "readable" /\ formats'[i].isbn = e.isbn
                                                  /\ formats'[i].seed \notin {"engine", "vision"}
      BY DEF Confirmed, Identifies
    <2>2. CASE e \notin evidence
      BY <2>2
    <2>3. CASE e \in evidence
      <3>1. PICK i \in DOMAIN formats : /\ formats[i].status = "readable" /\ formats[i].isbn = e.isbn
                                        /\ formats[i].seed \notin {"engine", "vision"}
        BY <1>0, <2>3 DEF Confirmed
      <3> QED
        BY <2>1, <2>3, <3>1
    <2> QED
      BY <2>2, <2>3
  <1> QED
    BY <1>1, <1>2, <1>3, <1>4, <1>5

\* The files are gone through once more.
LEMMA GoesOn ==
  ASSUME EvidenceInv, NEW t \in {"vision", "providers"}, Onward(t), task \in {"ocr", "vision"},
         shelf' = shelf, Len(formats') = Len(formats)
  PROVE  /\ task' \in {"ocr", "vision", "providers"} /\ turn' \in Nat \ {0} /\ Turns'
  <1>1. turn \in Nat \ {0} /\ turn <= Len(shelf) /\ Len(shelf) \in Nat /\ Len(formats) = Len(shelf)
    BY DEF EvidenceInv, EvidenceTypeOK, Turns
  <1>2. \/ task' = t /\ turn' = 1
        \/ task' = task /\ turn' = turn + 1 /\ turn # Len(shelf)
    BY DEF Onward, Step
  <1> QED
    BY <1>1, <1>2 DEF Turns

LEMMA SeedsFormat ==
  ASSUME EvidenceInv, NEW isbn \in Isbns, NEW by \in {"engine", "engines", "vision"}, turn \in DOMAIN formats,
         Seed(turn, isbn, by)
  PROVE  /\ formats' \in Seq(FormatRecs) /\ DOMAIN formats' = DOMAIN formats /\ Len(formats') = Len(formats)
         /\ \A i \in DOMAIN formats : /\ formats'[i].sha = formats[i].sha
                                      /\ formats'[i].status = formats[i].status
                                      /\ i # turn => formats'[i] = formats[i]
         /\ formats'[turn].isbn = isbn
         /\ formats'[turn].seed = IF formats[turn].isbn = Absent THEN by ELSE formats[turn].seed
  <1>1. formats \in Seq(FormatRecs) /\ \A i \in DOMAIN formats : formats[i] \in FormatRecs
    BY DEF EvidenceInv, EvidenceTypeOK
  <1>2. PICK rec \in FormatRecs :
          /\ rec.sha = formats[turn].sha /\ rec.status = formats[turn].status /\ rec.isbn = isbn
          /\ rec.seed = IF formats[turn].isbn = Absent THEN by ELSE formats[turn].seed
          /\ formats' = [formats EXCEPT ![turn] = rec]
    <2> DEFINE rec == [formats[turn] EXCEPT !.isbn = isbn,
                                            !.seed = IF formats[turn].isbn = Absent THEN by ELSE @]
    <2>1. rec \in FormatRecs
      BY <1>1 DEF FormatRecs
    <2>2. /\ rec.sha = formats[turn].sha /\ rec.status = formats[turn].status /\ rec.isbn = isbn
          /\ rec.seed = IF formats[turn].isbn = Absent THEN by ELSE formats[turn].seed
      BY <1>1 DEF FormatRecs
    <2>3. formats' = [formats EXCEPT ![turn] = rec]
      BY <1>1 DEF Seed, FormatRecs
    <2> HIDE DEF rec
    <2> QED
      BY <2>1, <2>2, <2>3
  <1> QED
    BY <1>1, <1>2

LEMMA Recognises ==
  ASSUME EvidenceInv, Recognise
  PROVE  EvidenceInv'
  <1>0. EvidenceTypeOK /\ Turns /\ Allowed /\ SealedOf
    BY DEF EvidenceInv
  <1>1. /\ task = "ocr" /\ UNCHANGED <<shelf, bytes, before, consent, sent, receipts, package>>
        /\ Onward("vision")
    BY DEF Recognise
  <1>2. turn \in DOMAIN formats /\ DOMAIN formats = 1..Len(formats)
    BY <1>0, <1>1 DEF EvidenceTypeOK, Turns
  <1>4. ASSUME UNCHANGED <<formats, evidence>>
        PROVE  /\ formats' \in Seq(FormatRecs) /\ Turns' /\ turn' \in Nat \ {0}
               /\ task' \in {"ocr", "vision", "providers"}
               /\ Witnesses' /\ Filed' /\ EvidenceOfRecordedBytes' /\ Recorded' /\ Confirmed'
    <2>1. task' \in {"ocr", "vision", "providers"} /\ Turns' /\ turn' \in Nat \ {0}
      BY <1>1, <1>4, GoesOn
    <2> QED
      BY <1>0, <1>1, <1>4, <2>1, Accrues DEF EvidenceTypeOK
  <1>5. ASSUME NEW isbn \in Isbns, NEW read \in SUBSET Engines, SafeSource(turn), formats[turn].isbn = Absent,
               Seed(turn, isbn, IF Cardinality(read) >= 2 THEN "engines" ELSE "engine"),
               evidence' = evidence \cup {OcrItem(turn, read, isbn)}
        PROVE  /\ formats' \in Seq(FormatRecs) /\ Turns' /\ turn' \in Nat \ {0}
               /\ task' \in {"ocr", "vision", "providers"}
               /\ Witnesses' /\ Filed' /\ EvidenceOfRecordedBytes' /\ Recorded' /\ Confirmed'
    <2> DEFINE by == IF Cardinality(read) >= 2 THEN "engines" ELSE "engine"
               item == OcrItem(turn, read, isbn)
    <2>1. by \in {"engine", "engines", "vision"}
      OBVIOUS
    <2>2. /\ formats' \in Seq(FormatRecs) /\ DOMAIN formats' = DOMAIN formats /\ Len(formats') = Len(formats)
          /\ \A i \in DOMAIN formats : /\ formats'[i].sha = formats[i].sha
                                       /\ formats'[i].status = formats[i].status
                                       /\ i # turn => formats'[i] = formats[i]
          /\ formats'[turn].isbn = isbn /\ formats'[turn].seed = by
      <3> HIDE DEF by
      <3>1. Seed(turn, isbn, by)
        BY <1>5 DEF by
      <3> QED
        BY <1>2, <1>5, <2>1, <3>1, SeedsFormat
    <2>3. /\ item.root = "book_content" /\ item.id[2] = turn /\ item.bytes = formats[turn].sha /\ Sorted(item)
          /\ item.isbn = isbn /\ (item.kind \in INTERNAL_IDENTITY_KINDS => by = "engines")
      BY <1>5 DEF OcrItem, Evidence, SafeSource, Sorted, INTERNAL_PROMOTION_KINDS, INTERNAL_IDENTITY_KINDS
    <2>4. task' \in {"ocr", "vision", "providers"} /\ Turns' /\ turn' \in Nat \ {0}
      BY <1>1, <2>2, GoesOn
    <2> HIDE DEF by, item
    <2>5. item.root \notin Providers
      BY <2>3 DEF Providers
    <2>6. formats'[turn].status = "readable"
      BY <1>2, <1>5, <2>2 DEF SafeSource
    <2>7. evidence' = evidence \cup {item}
      BY <1>5 DEF item
    <2>8. \A i \in DOMAIN formats : formats[i].isbn # Absent => /\ formats'[i].isbn = formats[i].isbn
                                                                /\ formats'[i].seed = formats[i].seed
      BY <1>5, <2>2
    <2>9. Identifies(item, INTERNAL_IDENTITY_KINDS, item.isbn) =>
            \E i \in DOMAIN formats : /\ formats'[i].status = "readable" /\ formats'[i].isbn = item.isbn
                                      /\ formats'[i].seed \notin {"engine", "vision"}
      BY <1>2, <2>2, <2>3, <2>6 DEF Identifies
    <2>10. Witnesses' /\ Filed' /\ EvidenceOfRecordedBytes' /\ Recorded' /\ Confirmed'
      <3>1. evidence \subseteq evidence' /\ \A e \in evidence' \ evidence : e = item
        BY <2>7
      <3> QED
        BY <1>1, <2>2, <2>3, <2>4, <2>5, <2>8, <2>9, <3>1, Accrues
    <2> QED
      BY <2>2, <2>4, <2>10
  <1>6. /\ formats' \in Seq(FormatRecs) /\ Turns' /\ turn' \in Nat \ {0}
        /\ task' \in {"ocr", "vision", "providers"}
        /\ Witnesses' /\ Filed' /\ EvidenceOfRecordedBytes' /\ Recorded' /\ Confirmed'
    <2>1. CASE UNCHANGED <<formats, evidence>>
      BY <1>4, <2>1
    <2>2. CASE ~UNCHANGED <<formats, evidence>>
      <3>1. PICK answers \in [Engines -> ocr_pdf_pages], isbn \in Isbns :
              LET read == {e \in Engines : answers[e] # {}} IN
              /\ formats[turn].isbn = Absent /\ SafeSource(turn)
              /\ Seed(turn, isbn, IF Cardinality(read) >= 2 THEN "engines" ELSE "engine")
              /\ Collect({OcrItem(turn, read, isbn)}, FALSE)
        BY <2>2 DEF Recognise
      <3> DEFINE read == {e \in Engines : answers[e] # {}}
      <3>2. read \in SUBSET Engines
        OBVIOUS
      <3>3. /\ formats[turn].isbn = Absent /\ SafeSource(turn)
            /\ Seed(turn, isbn, IF Cardinality(read) >= 2 THEN "engines" ELSE "engine")
            /\ evidence' = evidence \cup {OcrItem(turn, read, isbn)}
        BY <3>1 DEF Collect
      <3> HIDE DEF read
      <3> QED
        BY <3>2, <3>3, <1>5
    <2> QED
      BY <2>1, <2>2
  <1>7. EvidenceTypeOK'
    BY <1>0, <1>1, <1>6 DEF EvidenceTypeOK
  <1>8. Allowed' /\ SealedOf'
    BY <1>0, <1>1, <1>6, SendsAllowed DEF Enquired, SealedOf
  <1> QED
    BY <1>6, <1>7, <1>8 DEF EvidenceInv


LEMMA ShowsCover ==
  ASSUME EvidenceInv, ShowCover
  PROVE  EvidenceInv'
  <1>0. EvidenceTypeOK /\ Turns /\ Allowed /\ SealedOf
    BY DEF EvidenceInv
  <1>1. task = "vision" /\ UNCHANGED <<shelf, bytes, before, consent, package>> /\ Onward("providers")
    BY DEF ShowCover
  <1>2. turn \in DOMAIN formats /\ DOMAIN formats = 1..Len(formats)
    BY <1>0, <1>1 DEF EvidenceTypeOK, Turns
  <1>3. \/ UNCHANGED <<formats, evidence>>
        \/ \E isbn \in Isbns, same \in {FALSE, turn > 1} :
              /\ evidence' = evidence \cup {VisionItem(turn, isbn, same)}
              /\ \/ formats' = formats
                 \/ Seeds(turn, isbn) /\ Seed(turn, isbn, "vision")
    BY DEF ShowCover, Collect
  <1>4. /\ formats' \in Seq(FormatRecs) /\ DOMAIN formats' = DOMAIN formats /\ Len(formats') = Len(formats)
        /\ \A i \in DOMAIN formats : /\ formats'[i].sha = formats[i].sha
                                     /\ formats'[i].status = formats[i].status
                                     /\ formats[i].isbn # Absent => /\ formats'[i].isbn = formats[i].isbn
                                                                    /\ formats'[i].seed = formats[i].seed
    <2>1. CASE formats' = formats
      BY <1>0, <2>1 DEF EvidenceTypeOK
    <2>2. CASE \E isbn \in Isbns : Seeds(turn, isbn) /\ Seed(turn, isbn, "vision")
      <3>1. PICK isbn \in Isbns : Seeds(turn, isbn) /\ Seed(turn, isbn, "vision")
        BY <2>2
      <3>2. formats[turn].isbn \in {Absent, isbn}
        BY <3>1 DEF Seeds
      <3> QED
        BY <1>2, <3>1, <3>2, SeedsFormat
    <2> QED
      BY <1>3, <2>1, <2>2
  <1>5. /\ evidence \subseteq evidence'
        /\ \A e \in evidence' \ evidence : Sorted(e) /\ e.root = "vision" /\ e.kind = "vision"
    <2>2. CASE UNCHANGED <<formats, evidence>>
      BY <2>2
    <2>3. CASE ~UNCHANGED <<formats, evidence>>
      <3>1. PICK isbn \in Isbns, same \in {FALSE, turn > 1} :
               evidence' = evidence \cup {VisionItem(turn, isbn, same)}
        BY <1>3, <2>3
      <3> DEFINE item == VisionItem(turn, isbn, same)
      <3>2. item.root = "vision" /\ item.kind = "vision" /\ item.authoritative = FALSE
        BY DEF VisionItem, Evidence
      <3>3. evidence' = evidence \cup {item}
        BY <3>1
      <3> HIDE DEF item
      <3>4. Sorted(item)
        BY <3>2 DEF Sorted
      <3> QED
        BY <3>2, <3>3, <3>4
    <2> QED
      BY <2>2, <2>3
  <1>6. task' \in {"ocr", "vision", "providers"} /\ Turns' /\ turn' \in Nat \ {0}
    BY <1>1, <1>4, GoesOn
  <1>7. Witnesses' /\ Filed' /\ EvidenceOfRecordedBytes' /\ Recorded' /\ Confirmed'
    <2>1. \A e \in evidence' \ evidence : /\ e.root # "book_content" /\ e.root \notin Providers
                                          /\ ~Identifies(e, INTERNAL_IDENTITY_KINDS, e.isbn)
      BY <1>5 DEF Providers, Identifies, INTERNAL_IDENTITY_KINDS
    <2> QED
      BY <1>1, <1>4, <1>5, <1>6, <2>1, Accrues
  <1>8. EvidenceTypeOK'
    BY <1>0, <1>1, <1>4, <1>6 DEF EvidenceTypeOK
  <1>9. Allowed'
    <2>1. ~Enquired
      BY <1>1 DEF Enquired
    <2>2. \/ UNCHANGED <<sent, receipts>>
          \/ MayLeave /\ Send(<<"cover", turn>>)
      BY DEF ShowCover
    <2>3. <<"cover", turn>>[1] # "isbn"
      OBVIOUS
    <2> QED
      BY <1>0, <1>1, <2>1, <2>2, <2>3, SendsAllowed
  <1>10. SealedOf'
    BY <1>0, <1>1, <1>6 DEF SealedOf
  <1> QED
    BY <1>6, <1>7, <1>8, <1>9, <1>10 DEF EvidenceInv

\* A record of a provider carries its ISBN itself.
LEMMA LooksUp ==
  ASSUME EvidenceInv, LookUp
  PROVE  EvidenceInv'
  <1>0. EvidenceTypeOK /\ Turns /\ Allowed /\ SealedOf
    BY DEF EvidenceInv
  <1>1. /\ task = "providers" /\ task' = "llm" /\ turn' = 1
        /\ UNCHANGED <<shelf, bytes, before, formats, consent, receipts, package>>
    BY DEF LookUp, Step
  <1>2. \A isbn \in Isbns, pr \in Providers, n \in Profiles : \A e \in RecordItems(pr, n, n, isbn) :
          /\ Sorted(e) /\ e.root = pr /\ e.isbn = isbn /\ e.kind = "provider_structured"
    <2>1. \A p \in Profiles : Says(p) \in [Core \cup {"publisher"} -> Values]
      BY DEF Says, Values
    <2> QED
      BY <2>1 DEF RecordItems, Evidence, Sorted, Values, Core
  <1>3. \A isbn \in Isbns, pr \in Providers, n \in Profiles :
          \E x \in RecordItems(pr, n, n, isbn) : x.field = "identifiers"
    <2> SUFFICES ASSUME NEW isbn \in Isbns, NEW pr \in Providers, NEW n \in Profiles
                 PROVE  \E x \in RecordItems(pr, n, n, isbn) : x.field = "identifiers"
      OBVIOUS
    <2> DEFINE x == Evidence(<<pr, n, "identifiers">>, pr, "provider_structured", "identifiers", isbn, isbn, 0)
    <2>1. x \in RecordItems(pr, n, n, isbn)
      BY DEF RecordItems
    <2>2. x.field = "identifiers"
      BY DEF Evidence
    <2> QED
      BY <2>1, <2>2
  <1>4. \A i \in DOMAIN formats : formats[i].isbn \in Isbns \cup {Absent}
    <2>1. \A i \in DOMAIN formats : formats[i] \in FormatRecs
      BY <1>0 DEF EvidenceTypeOK
    <2> QED
      BY <2>1 DEF FormatRecs
  <1>5. /\ evidence \subseteq evidence'
        /\ \A e \in evidence' \ evidence :
             \E isbn \in Isbns, pr \in Providers, n \in Profiles :
                e \in RecordItems(pr, n, n, isbn) /\ RecordItems(pr, n, n, isbn) \subseteq evidence'
    <2>1. CASE evidence' = evidence
      BY <2>1
    <2>2. CASE evidence' # evidence
      <3>1. PICK isbn \in Isbns, google \in SUBSET Profiles, open \in SUBSET Profiles :
              evidence' = evidence \cup (Answer("google_books", google, isbn) \cup Answer("openlibrary", open, isbn))
        BY <1>4, <2>2 DEF LookUp, Collect
      <3> QED
        BY <3>1 DEF Answer, Providers
    <2> QED
      BY <2>1, <2>2
  <1>6. \A e \in evidence' \ evidence :
          /\ Sorted(e) /\ e.root # "book_content" /\ ~Identifies(e, INTERNAL_IDENTITY_KINDS, e.isbn)
          /\ \E x \in evidence' : /\ x.root = e.root /\ x.kind = e.kind /\ x.isbn = e.isbn
                                  /\ x.field = "identifiers"
    <2> SUFFICES ASSUME NEW e \in evidence' \ evidence
                 PROVE  /\ Sorted(e) /\ e.root # "book_content"
                        /\ ~Identifies(e, INTERNAL_IDENTITY_KINDS, e.isbn)
                        /\ \E x \in evidence' : /\ x.root = e.root /\ x.kind = e.kind /\ x.isbn = e.isbn
                                                /\ x.field = "identifiers"
      OBVIOUS
    <2>1. PICK isbn \in Isbns, pr \in Providers, n \in Profiles :
             e \in RecordItems(pr, n, n, isbn) /\ RecordItems(pr, n, n, isbn) \subseteq evidence'
      BY <1>5
    <2>2. PICK x \in RecordItems(pr, n, n, isbn) : x.field = "identifiers"
      BY <1>3
    <2>3. /\ Sorted(e) /\ e.root = pr /\ e.isbn = isbn /\ e.kind = "provider_structured"
          /\ x.root = pr /\ x.isbn = isbn /\ x.kind = "provider_structured"
      BY <1>2, <2>1, <2>2
    <2> QED
      BY <2>1, <2>2, <2>3 DEF Providers, Identifies, INTERNAL_IDENTITY_KINDS
  <1>7. Witnesses' /\ Filed' /\ EvidenceOfRecordedBytes' /\ Recorded' /\ Confirmed'
    BY <1>1, <1>5, <1>6, Accrues
  <1>8. EvidenceTypeOK' /\ Turns'
    BY <1>0, <1>1 DEF EvidenceTypeOK, Turns
  <1>9. Allowed'
    <2>1. Queried'
      <3> DEFINE ids == {formats[i].isbn : i \in DOMAIN formats} \ {Absent}
      <3>1. sent \ Payloads = {}
        BY <1>0, <1>1 DEF Allowed, Queried, Enquired
      <3>2. CASE sent' = sent
        BY <3>1, <3>2 DEF Queried, Payloads
      <3>3. CASE sent' # sent
        <4>1. PICK isbn \in ids : sent' = sent \cup {<<"isbn", isbn>>} /\ Cardinality(ids) = 1
          BY <3>3 DEF LookUp
        <4>2. \E x : ids = {x}
          <5>1. IsFiniteSet({formats[i].isbn : i \in DOMAIN formats})
            BY <1>0, FinitelyManyIsbns DEF EvidenceTypeOK
          <5>2. IsFiniteSet(ids)
            BY <5>1, FS_Subset
          <5> HIDE DEF ids
          <5> QED
            BY <4>1, <5>2, FS_Singleton
        <4>3. \A i \in DOMAIN formats : formats[i].isbn \in {Absent, isbn}
          BY <4>1, <4>2
        <4>4. sent' \ Payloads' = {<<"isbn", isbn>>} /\ <<"isbn", isbn>>[2] = isbn
          BY <3>1, <4>1 DEF Payloads
        <4> QED
          BY <1>1, <4>3, <4>4 DEF Queried, Enquired
      <3> QED
        BY <3>2, <3>3
    <2>2. Payloads' = Payloads
      <3>1. sent' = sent \/ \E isbn : sent' = sent \cup {<<"isbn", isbn>>}
        BY DEF LookUp
      <3>2. \A isbn : <<"isbn", isbn>>[1] = "isbn"
        OBVIOUS
      <3> QED
        BY <3>1, <3>2 DEF Payloads
    <2> QED
      BY <1>0, <1>1, <2>1, <2>2 DEF Allowed
  <1>11. SealedOf'
    BY <1>0, <1>1 DEF SealedOf
  <1> QED
    BY <1>7, <1>8, <1>9, <1>11 DEF EvidenceInv

LEMMA Transcribes ==
  ASSUME EvidenceInv, Transcribe
  PROVE  EvidenceInv'
  <1>0. EvidenceTypeOK /\ Turns /\ Allowed /\ SealedOf
    BY DEF EvidenceInv
  <1>1. /\ task = "llm" /\ task' = "resolve" /\ turn' = 1
        /\ UNCHANGED <<shelf, bytes, before, formats, consent, package>>
    BY DEF Transcribe, Step
  <1>2. /\ evidence \subseteq evidence'
        /\ \A e \in evidence' \ evidence :
             \E id, field, value, isbn : e = Evidence(id, "llm", "llm", field, value, isbn, 0)
    BY DEF Transcribe, Collect
  <1>3. \A e \in evidence' \ evidence : Sorted(e) /\ e.root = "llm" /\ e.kind = "llm"
    <2> SUFFICES ASSUME NEW e \in evidence' \ evidence
                 PROVE  Sorted(e) /\ e.root = "llm" /\ e.kind = "llm"
      OBVIOUS
    <2>1. PICK id, field, value, isbn : e = Evidence(id, "llm", "llm", field, value, isbn, 0)
      BY <1>2
    <2>2. e.root = "llm" /\ e.kind = "llm" /\ e.authoritative = FALSE
      BY <2>1 DEF Evidence
    <2> QED
      BY <2>2 DEF Sorted
  <1>4. \A e \in evidence' \ evidence : /\ e.root # "book_content" /\ e.root \notin Providers
                                        /\ ~Identifies(e, INTERNAL_IDENTITY_KINDS, e.isbn)
    BY <1>3 DEF Providers, Identifies, INTERNAL_IDENTITY_KINDS
  <1>5. Witnesses' /\ Filed' /\ EvidenceOfRecordedBytes' /\ Recorded' /\ Confirmed'
    BY <1>1, <1>2, <1>3, <1>4, Accrues
  <1>6. EvidenceTypeOK' /\ Turns'
    BY <1>0, <1>1 DEF EvidenceTypeOK, Turns
  <1>7. Allowed'
    <2>1. Enquired' /\ formats' = formats
      BY <1>1 DEF Enquired
    <2>2. \/ UNCHANGED <<sent, receipts>>
          \/ MayLeave /\ Send(<<"text", 0>>)
      BY DEF Transcribe
    <2>3. <<"text", 0>>[1] # "isbn"
      OBVIOUS
    <2> QED
      BY <1>0, <1>1, <2>1, <2>2, <2>3, SendsAllowed
  <1>8. SealedOf'
    BY <1>0, <1>1 DEF SealedOf
  <1> QED
    BY <1>5, <1>6, <1>7, <1>8 DEF EvidenceInv

LEMMA OpensBook ==
  ASSUME EvidenceInv, OpenBook
  PROVE  EvidenceInv'
  <1>0. EvidenceTypeOK /\ Turns /\ Allowed /\ SealedOf
    BY DEF EvidenceInv
  <1>1. /\ task = "start" /\ task' = "copy" /\ turn' = 1
        /\ UNCHANGED <<before, formats, evidence, sent, receipts, package>>
        /\ consent' \in [remote : BOOLEAN, setting : BOOLEAN, run : BOOLEAN]
        /\ bytes' = [i \in DOMAIN shelf' |-> 0]
    BY DEF OpenBook, Step
  <1>2. formats = <<>> /\ evidence = {} /\ sent = {} /\ receipts = {}
    BY <1>0, <1>1 DEF Turns
  <1>2a. PICK n \in 1..MaxFormats : \E nth \in [1..n -> DOMAIN FormatKinds] :
          shelf' = [i \in 1..n |-> FormatKinds[nth[i]]]
    BY DEF OpenBook
  <1>3. PICK nth \in [1..n -> DOMAIN FormatKinds] : shelf' = [i \in 1..n |-> FormatKinds[nth[i]]]
    BY <1>2a
  <1>4. n \in Nat /\ n # 0
    BY EvidenceAssumption
  <1>5. \A i \in 1..n : FormatKinds[nth[i]] \in {"EPUB", "PDF", "CBZ", "TXT"}
    BY DEF FormatKinds
  <1>6. shelf' \in Seq({"EPUB", "PDF", "CBZ", "TXT"}) /\ Len(shelf') = n /\ DOMAIN shelf' = 1..n
    BY <1>3, <1>4, <1>5
  <1>7. EvidenceTypeOK'
    BY <1>0, <1>1, <1>6 DEF EvidenceTypeOK
  <1>8. Turns'
    <2>1. Len(formats') = 0
      BY <1>1, <1>2
    <2> QED
      BY <1>1, <1>4, <1>6, <2>1 DEF Turns
  <1>9. Witnesses' /\ Filed' /\ EvidenceOfRecordedBytes' /\ Recorded' /\ Confirmed' /\ Allowed'
    BY <1>1, <1>2 DEF Witnesses, Filed, EvidenceOfRecordedBytes, Recorded, Confirmed, Allowed, Queried,
                      Payloads
  <1>10. SealedOf'
    BY <1>0, <1>1 DEF SealedOf
  <1> QED
    BY <1>7, <1>8, <1>9, <1>10 DEF EvidenceInv

LEMMA FreshBook == EvidenceInit => EvidenceInv
  <1> SUFFICES ASSUME EvidenceInit
               PROVE  EvidenceInv
    OBVIOUS
  <1> USE DEF EvidenceInit
  <1>1. EvidenceTypeOK
    BY DEF EvidenceTypeOK
  <1>2. Turns /\ Witnesses /\ Filed /\ EvidenceOfRecordedBytes /\ Recorded /\ Confirmed /\ Allowed /\ SealedOf
    BY DEF Turns, Witnesses, Filed, EvidenceOfRecordedBytes, Recorded, Confirmed, Allowed, Queried,
           Payloads, SealedOf
  <1> QED
    BY <1>1, <1>2 DEF EvidenceInv

\* Steps that leave the inspections and the evidence alone.
LEMMA Stays ==
  ASSUME EvidenceInv, UNCHANGED <<shelf, formats, evidence, consent, sent, receipts>>,
         EvidenceTypeOK', Turns', SealedOf', task' \in {"copy", "parse"} => task \in {"copy", "parse"},
         Enquired => Enquired'
  PROVE  EvidenceInv'
  <1>1. Allowed'
    BY SendsAllowed DEF EvidenceInv
  <1> QED
    BY <1>1 DEF EvidenceInv, Witnesses, Sorted, Filed, EvidenceOfRecordedBytes, Recorded, Confirmed, Identifies

LEMMA EvidenceStep ==
  ASSUME EvidenceInv, [EvidenceNext]_evidenceVars
  PROVE  EvidenceInv'
  <1>0. EvidenceTypeOK /\ Turns /\ SealedOf
    BY DEF EvidenceInv
  <1>1. CASE UNCHANGED evidenceVars
    <2>1. EvidenceTypeOK' /\ Turns' /\ SealedOf'
      BY <1>0, <1>1 DEF evidenceVars, EvidenceTypeOK, Turns, SealedOf
    <2> QED
      BY <1>1, <2>1, Stays DEF evidenceVars, Enquired
  <1>2. CASE \E i \in 1..MaxFormats : EditFile(i)
    <2>1. PICK i : EditFile(i)
      BY <1>2
    <2>2. bytes' \in [1..Len(shelf) -> Nat]
      <3>1. i \in 1..Len(shelf) /\ bytes[i] + 1 \in Nat
        BY <1>0, <2>1 DEF EditFile, EvidenceTypeOK
      <3> QED
        BY <1>0, <2>1, <3>1 DEF EditFile, EvidenceTypeOK
    <2>3. /\ UNCHANGED <<shelf, task, turn, before, formats, evidence, consent, sent, receipts, package>>
          /\ task # "sealed"
      BY <2>1 DEF EditFile
    <2>4. EvidenceTypeOK' /\ Turns'
      BY <1>0, <2>2, <2>3 DEF EvidenceTypeOK, Turns
    <2>5. SealedOf'
      BY <1>0, <2>3 DEF SealedOf
    <2> QED
      BY <2>3, <2>4, <2>5, Stays DEF Enquired
  <1>3. CASE CopySource
    <2>1. /\ UNCHANGED <<shelf, bytes, turn, formats, evidence, consent, sent, receipts, package>>
          /\ task = "copy" /\ task' = "parse" /\ before' = bytes[turn]
      BY <1>3 DEF CopySource
    <2>2. before' \in Nat
      BY <1>0, <2>1 DEF EvidenceTypeOK, Turns
    <2>3. EvidenceTypeOK' /\ Turns'
      BY <1>0, <2>1, <2>2 DEF EvidenceTypeOK, Turns
    <2>4. SealedOf'
      BY <1>0, <2>1 DEF SealedOf
    <2> QED
      BY <2>1, <2>3, <2>4, Stays DEF Enquired
  <1>4. CASE SealPackage
    <2>1. /\ UNCHANGED <<shelf, bytes, before, formats, evidence, consent, sent, receipts>>
          /\ task' = "sealed" /\ turn' = 1
      BY <1>4 DEF SealPackage, Step
    <2>2. EvidenceTypeOK' /\ Turns'
      BY <1>0, <2>1 DEF EvidenceTypeOK, Turns
    <2>3. SealedOf'
      <3> DEFINE r == Resolve(formats, evidence, CurrentRecord)
                 q == [state |-> StateOf(r.tier), identity |-> r, receipts |-> receipts]
      <3>1. package' = Failed \/ package' = q
        BY <1>4 DEF SealPackage
      <3>2. Resolve(formats', evidence', CurrentRecord) = r
        BY <2>1
      <3> QED
        BY <2>1, <3>1, <3>2 DEF SealedOf
    <2> QED
      BY <2>1, <2>2, <2>3, Stays DEF Enquired
  <1>5. CASE NextBook
    <2>1. EvidenceInit'
      BY <1>5 DEF NextBook, Step, EvidenceInit
    <2>2. EvidenceInit' => EvidenceInv'
      BY FreshBook, PTL
    <2> QED
      BY <2>1, <2>2
  <1> QED
    BY <1>1, <1>2, <1>3, <1>4, <1>5, OpensBook, ParsesCopy, Recognises, ShowsCover, LooksUp, Transcribes
    DEF EvidenceNext

LEMMA EvidenceInvariant == EvidenceSpec => []EvidenceInv
  <1>1. EvidenceInit => EvidenceInv
    BY FreshBook
  <1>2. EvidenceInv /\ [EvidenceNext]_evidenceVars => EvidenceInv'
    BY EvidenceStep
  <1> QED
    BY <1>1, <1>2, PTL DEF EvidenceSpec

-----------------------------------------------------------------------------
\* The internal evidence of a format was read from the very bytes its hash names,
\* for any number of formats and edits (inspect_format, _safe_source).
THEOREM EvidenceHasItsBytes == EvidenceSpec => []EvidenceOfRecordedBytes
  <1>1. EvidenceInv => EvidenceOfRecordedBytes
    BY DEF EvidenceInv
  <1> QED
    BY <1>1, EvidenceInvariant, PTL

\* Texts and covers leave only with the setting and the consent of the run and a
\* decided package has a receipt for each (VisionRecognitionEnricher and the LLM
\* enricher, _process_book); the query of the public providers, which needs no
\* consent and has no receipt, carries one ISBN that no format contradicts.
THEOREM EgressHasReceipts == EvidenceSpec => []EgressAccounted
  <1>1. EvidenceInv => EgressAccounted
    <2> SUFFICES ASSUME Allowed, SealedOf
                 PROVE  EgressAccounted
      BY DEF EvidenceInv
    <2>1. package.state \in {"none", "failed"} \/ package.receipts = receipts
      BY DEF SealedOf, Failed, NoPackage
    <2> QED
      BY <2>1 DEF Allowed, Queried, EgressAccounted
  <1> QED
    BY <1>1, EvidenceInvariant, PTL

\* Every value of a patch was read in the book and in a public record of the same
\* ISBN and nothing authoritative contradicts it (_resolve_fields).
THEOREM PatchesHaveTwoSources == EvidenceSpec => []PatchCorroborated
  <1>1. EvidenceInv => PatchCorroborated
    BY PatchesAreCorroborated DEF EvidenceInv
  <1> QED
    BY <1>1, EvidenceInvariant, PTL

\* One OCR engine, cover vision and the LLM never promote a book nor change its
\* patch (resolve_manifestation, _seed_candidate_identifier).
THEOREM WeakWitnessesNeverPromote == EvidenceSpec => []WitnessesNeverPromote
  <1>1. EvidenceInv => WitnessesNeverPromote
    BY WitnessesChangeNothing DEF EvidenceInv
  <1> QED
    BY <1>1, EvidenceInvariant, PTL

-----------------------------------------------------------------------------
(* First rows.                                                             *)

\* Every set of naturals that is not empty has a least member.
LEMMA LeastNatural ==
  ASSUME NEW T \in SUBSET Nat, T # {}
  PROVE  \E x \in T : \A y \in T : x <= y
  <1> DEFINE R == OpToRel(<, Nat)
  <1>1. IsWellFoundedOn(R, Nat)
    BY Zenon, NatLessThanWellFounded
  <1>2. R = {ss \in Nat \X Nat : ss[1] < ss[2]}
    BY DEF OpToRel
  <1> HIDE DEF R
  <1>3. PICK x \in T : \A y \in T : ~(<<y, x>> \in R)
    BY <1>1, WFMin
  <1>4. \A y \in T : ~(y < x)
    BY <1>2, <1>3
  <1> QED BY <1>4

\* The row that FirstRow takes holds, and none before it does.
LEMMA FirstRowIs ==
  ASSUME NEW rows, NEW n \in Nat, DOMAIN rows = 1..n, \E k \in 1..n : rows[k][1]
  PROVE  \E i \in 1..n : /\ rows[i][1] /\ \A j \in 1..(i - 1) : ~rows[j][1]
                         /\ FirstRow(rows) = rows[i][2]
  <1> DEFINE T == {i \in 1..n : rows[i][1]}
             Is(i) == rows[i][1] /\ \A j \in 1..(i - 1) : ~rows[j][1]
  <1>1. T \in SUBSET Nat /\ T # {}
    OBVIOUS
  <1>2. PICK x \in T : \A y \in T : x <= y
    BY <1>1, LeastNatural
  <1>3. x \in DOMAIN rows /\ Is(x)
    BY <1>2
  <1>4. FirstRow(rows) = rows[CHOOSE i \in DOMAIN rows : Is(i)][2]
    BY DEF FirstRow
  <1> HIDE DEF Is
  <1>5. PICK c \in DOMAIN rows : c = (CHOOSE i \in DOMAIN rows : Is(i)) /\ Is(c)
    BY <1>3
  <1> QED BY <1>4, <1>5 DEF Is

\* The rows of two lists, one after the other.
LEMMA JoinedRows ==
  ASSUME NEW m \in Nat, NEW n \in Nat, NEW a, NEW b,
         a = [k \in 1..m |-> a[k]], b = [k \in 1..n |-> b[k]]
  PROVE  /\ DOMAIN (a \o b) = 1..(m + n)
         /\ \A k \in 1..m : (a \o b)[k] = a[k]
         /\ \A k \in 1..n : (a \o b)[m + k] = b[k]
         /\ a \o b = [k \in 1..(m + n) |-> (a \o b)[k]]
  <1> DEFINE S == {a[k] : k \in 1..m} \cup {b[k] : k \in 1..n}
  <1>1. a \in [1..m -> S] /\ b \in [1..n -> S]
    OBVIOUS
  <1> HIDE DEF S
  <1>2. a \in Seq(S) /\ b \in Seq(S) /\ Len(a) = m /\ Len(b) = n
    BY <1>1
  <1>3. /\ a \o b \in Seq(S) /\ Len(a \o b) = m + n
        /\ \A k \in 1..(m + n) : (a \o b)[k] = IF k <= m THEN a[k] ELSE b[k - m]
    BY <1>2, ConcatProperties, ZenonT(60)
  <1>4. DOMAIN (a \o b) = 1..(m + n)
    BY <1>3, LenProperties
  <1>5. \A k \in 1..n : (a \o b)[m + k] = b[k]
    BY <1>3
  <1>6. a \o b = [k \in 1..(m + n) |-> (a \o b)[k]]
    BY <1>3
  <1> QED BY <1>3, <1>4, <1>5, <1>6

-----------------------------------------------------------------------------
(* The verdicts of the rules.                                              *)

\* What a rule says is its own, and whatever it would write without a warning
\* that asks for a reviewer was observed; of four fields it only fills a gap.
Sound(f, v) ==
    /\ v.deterministic = TRUE /\ v.flags \subseteq HIGH_RISK_FLAGS
    /\ v.kind \in {"mismatch", "missing"} /\ v.flags = {} =>
          /\ v.observed # "none"
          /\ f = "isbn" => v.observed = "valid"
          /\ f \in {"isbn", "publisher", "published_date", "series"} /\ v.review = FALSE =>
                v.declared = "none"

\* The kinds of verdict that change a field.
Written == {"mismatch", "missing"}

\* A verdict without a flag is sound if it writes nothing, or fills a gap with what
\* was observed.
LEMMA PlainSound ==
  ASSUME NEW f, NEW d, NEW o, NEW what, NEW c,
         what \notin Written \/ (/\ o # "none" /\ (f = "isbn" => o = "valid")
                                 /\ (f \in {"isbn", "publisher", "published_date", "series"} => d = "none"))
  PROVE  Sound(f, Plain(d, o, what, c))
  BY DEF Sound, Plain, Verdict, Written

\* A verdict with a flag is.
LEMMA FlaggedSound ==
  ASSUME NEW f, NEW d, NEW o, NEW what, NEW c, NEW flags, NEW review,
         flags \subseteq HIGH_RISK_FLAGS, flags # {}
  PROVE  Sound(f, Verdict(d, o, what, c, flags, review))
  BY DEF Sound, Verdict

-----------------------------------------------------------------------------
(* Rule by rule: what each row says, and when it is reached.               *)

LEMMA PublisherSound ==
  ASSUME NEW i \in PublisherInputs
  PROVE  Sound("publisher", verify_publisher(i))
  <1> DEFINE rows == PublisherRows(i)
  <1>1. DOMAIN rows = 1..7 /\ \E k \in 1..7 : rows[k][1]
    BY DEF PublisherRows
  <1>2. ASSUME NEW k \in 1..7, rows[k][1], \A j \in 1..(k - 1) : ~rows[j][1]
        PROVE  Sound("publisher", rows[k][2])
    <2>1. CASE k \in {1, 3, 4, 5, 7}
      BY <2>1, SMT DEF PublisherRows, Plain, Verdict, Sound, HIGH_RISK_FLAGS
    <2>2. CASE k = 2
      BY <1>2, <2>2, SMT DEF PublisherRows, Plain, Verdict, Sound, HIGH_RISK_FLAGS
    <2>3. CASE k = 6
      BY <1>2, <2>3, SMT DEF PublisherRows, Plain, Verdict, Sound, HIGH_RISK_FLAGS
    <2> QED BY <2>1, <2>2, <2>3
  <1> HIDE DEF rows
  <1>3. \E k \in 1..7 : /\ rows[k][1] /\ \A j \in 1..(k - 1) : ~rows[j][1]
                        /\ FirstRow(rows) = rows[k][2]
    BY <1>1, FirstRowIs
  <1> QED BY <1>2, <1>3 DEF verify_publisher, rows

LEMMA IsbnSound ==
  ASSUME NEW i \in IsbnInputs
  PROVE  Sound("isbn", verify_isbn(i))
  <1> DEFINE a == IsbnAbsent(i)
             b == IsbnCompared(i)
             rows == a \o b
             Conflict(c) == Verdict(i.d, i.o, "mismatch", c, {"isbn_conflict"}, TRUE)
  <1>1. a = [k \in 1..4 |-> a[k]]
    BY DEF IsbnAbsent
  <1>2. b = [k \in 1..6 |-> b[k]]
    BY DEF IsbnCompared
  <1>3. /\ a[1][2] = Plain(i.d, i.o, "ambiguous", 0)
        /\ a[2][2] = Plain(i.d, i.o, "missing", 95) /\ (a[2][1] => i.d = "none" /\ i.o = "valid")
        /\ a[3][2] = Plain(i.d, i.o, "ambiguous", 40)
        /\ a[4][2] = Plain(i.d, i.o, "ambiguous", 50)
    BY DEF IsbnAbsent
  <1>4. /\ b[1][2] = Plain(i.d, i.o, "ambiguous", 30)
        /\ b[2][2] = Plain(i.d, i.o, "confirmed", 99)
        /\ b[3][2] = Plain(i.d, i.o, "confirmed", 90)
        /\ b[4][2] = Conflict(98) /\ b[5][2] = Conflict(92) /\ b[6][2] = Conflict(88) /\ b[6][1]
    BY DEF IsbnCompared
  <1>5. \A c : Sound("isbn", Conflict(c))
    BY FlaggedSound DEF HIGH_RISK_FLAGS
  <1> HIDE DEF a, b, Conflict
  <1>6. ASSUME NEW k \in 1..4, a[k][1] PROVE Sound("isbn", a[k][2])
    BY <1>3, <1>6, PlainSound DEF Written
  <1>7. ASSUME NEW k \in 1..6 PROVE Sound("isbn", b[k][2])
    BY <1>4, <1>5, PlainSound DEF Written
  <1>8. /\ DOMAIN rows = 1..10
        /\ \A k \in 1..4 : rows[k] = a[k]
        /\ \A k \in 1..6 : rows[4 + k] = b[k]
    BY <1>1, <1>2, JoinedRows
  <1> HIDE DEF rows
  <1>9. \E k \in 1..10 : rows[k][1] /\ FirstRow(rows) = rows[k][2]
    <2>1. DOMAIN rows = 1..10 /\ \E k \in 1..10 : rows[k][1]
      BY <1>4, <1>8
    <2> QED BY <2>1, FirstRowIs
  <1>10. \A k \in 1..10 : rows[k][1] => Sound("isbn", rows[k][2])
    <2>1. \A k \in 1..10 : k \in 1..4 \/ \E j \in 1..6 : k = 4 + j
      OBVIOUS
    <2> QED BY <1>6, <1>7, <1>8, <2>1
  <1> QED BY <1>9, <1>10 DEF verify_isbn, rows, a, b

LEMMA TitleSound ==
  ASSUME NEW i \in TitleInputs
  PROVE  Sound("title", verify_title(i))
  <1> DEFINE a == TitleAbsent(i)
             b == TitleNoisy(i)
             c == TitleCompared(i)
             ab == a \o b
             rows == ab \o c
             Wrong == Verdict(i.d, i.o, "mismatch", 95, {"wrong_book"}, FALSE)
             P(what, n) == Plain(i.d, i.o, what, n)
  <1>1. a = [k \in 1..5 |-> a[k]] /\ b = [k \in 1..5 |-> b[k]] /\ c = [k \in 1..7 |-> c[k]]
    BY DEF TitleAbsent, TitleNoisy, TitleCompared
  <1>2. /\ i.d \in {"none", "empty", "text"} /\ i.sim \in {30, 45, 60, 80, 92, 96}
        /\ i.noise # {} \/ i.sub # "no" \/ i.sim # 30 => i.o # "none"
    BY DEF TitleInputs
  <1>3. /\ a[1][2] = P("ambiguous", 0) /\ a[2][2] = P("ambiguous", 55)
        /\ a[3][2] = P("missing", IF i.o = "text" THEN 95 ELSE 70)
        /\ (a[3][1] /\ ~a[1][1] => i.o # "none")
        /\ a[4][2] = P("ambiguous", 50) /\ a[5][2] = P("ambiguous", 40)
    BY DEF TitleAbsent
  <1>4. /\ b[1][2] = P("mismatch", 95) /\ b[2][2] = P("mismatch", 80) /\ b[3][2] = P("mismatch", 88)
        /\ b[4][2] = P("mismatch", 82) /\ b[5][2] = P("mismatch", 92)
    BY DEF TitleNoisy
  <1>5. \A k \in 1..5 : b[k][1] => i.noise # {}
    <2>1. /\ b[1][1] => i.noise # {}
          /\ b[2][1] => i.noise # {}
          /\ b[3][1] => i.noise # {}
          /\ b[4][1] => i.noise # {}
          /\ b[5][1] => i.noise # {}
      BY DEF TitleNoisy
    <2> HIDE DEF b
    <2> QED BY <2>1
  <1>6. /\ c[1][2] = P("ambiguous", 55) /\ c[2][2] = P("confirmed", 95) /\ c[3][2] = P("confirmed", 85)
        /\ c[4][2] = P("mismatch", 80) /\ c[5][2] = Wrong
        /\ c[6][2] = P("mismatch", 95) /\ c[7][2] = P("ambiguous", 60)
    BY DEF TitleCompared
  <1>7. c[4][1] = (i.sub = "far") /\ c[5][1] = (i.sim < 40) /\ c[7][1]
    BY DEF TitleCompared
  <1>8. Sound("title", Wrong)
    BY FlaggedSound DEF HIGH_RISK_FLAGS
  <1>9. \A what, n : what \notin Written \/ i.o # "none" => Sound("title", P(what, n))
    BY PlainSound
  <1> HIDE DEF a, b, c, Wrong, P
  <1>10. ASSUME NEW k \in 1..5, a[k][1], k = 3 => ~a[1][1] PROVE Sound("title", a[k][2])
    BY <1>3, <1>9, <1>10 DEF Written
  <1>11. ASSUME NEW k \in 1..5, b[k][1] PROVE Sound("title", b[k][2])
    BY <1>2, <1>4, <1>5, <1>9, <1>11
  <1>12. ASSUME NEW k \in 1..7, c[k][1], k = 6 => ~c[5][1] PROVE Sound("title", c[k][2])
    <2>1. ASSUME k = 4 PROVE i.o # "none"
      BY <1>2, <1>7, <1>12, <2>1
    <2>2. ASSUME k = 6 PROVE i.o # "none"
      <3>1. ~(i.sim < 40)
        BY <1>7, <1>12, <2>2
      <3> QED BY <1>2, <3>1
    <2> QED BY <1>6, <1>8, <1>9, <2>1, <2>2 DEF Written
  <1>13. /\ ab = [k \in 1..10 |-> ab[k]]
         /\ \A k \in 1..5 : ab[k] = a[k] /\ ab[5 + k] = b[k]
    BY <1>1, JoinedRows
  <1> HIDE DEF ab
  <1>14. /\ DOMAIN rows = 1..17
         /\ \A k \in 1..10 : rows[k] = ab[k]
         /\ \A k \in 1..7 : rows[10 + k] = c[k]
    BY <1>1, <1>13, JoinedRows
  <1> HIDE DEF rows
  <1>15. PICK k \in 1..17 : /\ rows[k][1] /\ \A j \in 1..(k - 1) : ~rows[j][1]
                            /\ FirstRow(rows) = rows[k][2]
    <2>1. DOMAIN rows = 1..17 /\ \E k \in 1..17 : rows[k][1]
      BY <1>7, <1>14
    <2> QED BY <2>1, FirstRowIs
  <1>16. CASE k \in 1..5
    <2>1. rows[k] = a[k] /\ (k = 3 => rows[1] = a[1] /\ ~rows[1][1])
      BY <1>13, <1>14, <1>15, <1>16
    <2> QED BY <1>10, <1>15, <1>16, <2>1 DEF verify_title, rows, ab, a, b, c
  <1>17. CASE k \in 6..10
    <2>1. PICK j \in 1..5 : k = 5 + j
      BY <1>17
    <2>2. rows[k] = b[j]
      BY <1>13, <1>14, <2>1
    <2> QED BY <1>11, <1>15, <2>2 DEF verify_title, rows, ab, a, b, c
  <1>18. CASE k \in 11..17
    <2>1. PICK j \in 1..7 : k = 10 + j
      BY <1>18
    <2>2. rows[k] = c[j] /\ (j = 6 => rows[15] = c[5] /\ ~rows[15][1])
      BY <1>14, <1>15, <2>1
    <2> QED BY <1>12, <1>15, <2>2 DEF verify_title, rows, ab, a, b, c
  <1> QED BY <1>16, <1>17, <1>18

LEMMA AuthorsSound ==
  ASSUME NEW i \in AuthorsInputs
  PROVE  Sound("authors", verify_authors(i))
  <1> DEFINE a == AuthorsAbsent(i)
             b == AuthorsMatch(i)
             c == AuthorsDiffer(i)
             ab == a \o b
             rows == ab \o c
             Swap(n) == Verdict(i.d, i.o, "mismatch", n, {"author_swap"}, TRUE)
             P(what, n) == Plain(i.d, i.o, what, n)
  <1>1. a = [k \in 1..3 |-> a[k]] /\ b = [k \in 1..3 |-> b[k]] /\ c = [k \in 1..6 |-> c[k]]
    BY DEF AuthorsAbsent, AuthorsMatch, AuthorsDiffer
  <1>2. /\ a[1][2] = P("ambiguous", 0)
        /\ a[2][2] = P("missing", 95) /\ (a[2][1] /\ ~a[1][1] => i.o # "none")
        /\ a[3][2] = P("ambiguous", 50) /\ (~a[3][1] => i.o # "none")
    BY DEF AuthorsAbsent
  <1>3. b[1][2] = P("ambiguous", 55) /\ b[2][2] = P("confirmed", 99) /\ b[3][2] = P("confirmed", 88)
    BY DEF AuthorsMatch
  <1>4. /\ c[1][2] = P("mismatch", 92) /\ c[2][2] = Swap(92) /\ c[3][2] = Swap(88)
        /\ c[4][2] = P("mismatch", 88) /\ c[5][2] = P("mismatch", 92)
        /\ c[6][2] = P("mismatch", 80) /\ c[6][1]
    BY DEF AuthorsDiffer
  <1>5. \A n : Sound("authors", Swap(n))
    BY FlaggedSound DEF HIGH_RISK_FLAGS
  <1>6. \A what, n : what \notin Written \/ i.o # "none" => Sound("authors", P(what, n))
    BY PlainSound
  <1> HIDE DEF a, b, c, Swap, P
  <1>7. ASSUME NEW k \in 1..3, a[k][1], k = 2 => ~a[1][1] PROVE Sound("authors", a[k][2])
    BY <1>2, <1>6, <1>7 DEF Written
  <1>8. ASSUME NEW k \in 1..3 PROVE Sound("authors", b[k][2])
    BY <1>3, <1>6 DEF Written
  <1>9. ASSUME NEW k \in 1..6, ~a[3][1] PROVE Sound("authors", c[k][2])
    BY <1>2, <1>4, <1>5, <1>6, <1>9
  <1>10. /\ ab = [k \in 1..6 |-> ab[k]]
         /\ \A k \in 1..3 : ab[k] = a[k] /\ ab[3 + k] = b[k]
    BY <1>1, JoinedRows
  <1> HIDE DEF ab
  <1>11. /\ DOMAIN rows = 1..12
         /\ \A k \in 1..6 : rows[k] = ab[k] /\ rows[6 + k] = c[k]
    BY <1>1, <1>10, JoinedRows
  <1> HIDE DEF rows
  <1>12. PICK k \in 1..12 : /\ rows[k][1] /\ \A j \in 1..(k - 1) : ~rows[j][1]
                            /\ FirstRow(rows) = rows[k][2]
    <2>1. DOMAIN rows = 1..12 /\ \E k \in 1..12 : rows[k][1]
      BY <1>4, <1>11
    <2> QED BY <2>1, FirstRowIs
  <1>13. CASE k \in 1..3
    <2>1. rows[k] = a[k] /\ (k = 2 => rows[1] = a[1] /\ ~rows[1][1])
      BY <1>10, <1>11, <1>12, <1>13
    <2> QED BY <1>7, <1>12, <1>13, <2>1 DEF verify_authors, rows, ab, a, b, c
  <1>14. CASE k \in 4..6
    <2>1. PICK j \in 1..3 : k = 3 + j
      BY <1>14
    <2>2. rows[k] = b[j]
      BY <1>10, <1>11, <2>1
    <2> QED BY <1>8, <1>12, <2>2 DEF verify_authors, rows, ab, a, b, c
  <1>15. CASE k \in 7..12
    <2>1. PICK j \in 1..6 : k = 6 + j
      BY <1>15
    <2>2. rows[k] = c[j] /\ rows[3] = a[3] /\ ~rows[3][1]
      BY <1>10, <1>11, <1>12, <2>1
    <2> QED BY <1>9, <1>12, <2>2 DEF verify_authors, rows, ab, a, b, c
  <1> QED BY <1>13, <1>14, <1>15

LEMMA DateSound ==
  ASSUME NEW i \in DateInputs
  PROVE  Sound("published_date", verify_published_date(i))
  <1> DEFINE rows == DateRows(i)
  <1>1. DOMAIN rows = 1..7 /\ \E k \in 1..7 : rows[k][1]
    BY DEF DateRows
  <1>2. ASSUME NEW k \in 1..7, rows[k][1], \A j \in 1..(k - 1) : ~rows[j][1]
        PROVE  Sound("published_date", rows[k][2])
    <2>1. CASE k \in {1, 3, 4, 5, 7}
      BY <2>1, SMT DEF DateRows, Plain, Verdict, Sound, HIGH_RISK_FLAGS
    <2>2. CASE k = 2
      BY <1>2, <2>2, SMT DEF DateRows, Plain, Verdict, Sound, HIGH_RISK_FLAGS
    <2>3. CASE k = 6
      BY <1>2, <2>3, SMT DEF DateRows, Plain, Verdict, Sound, HIGH_RISK_FLAGS
    <2> QED BY <2>1, <2>2, <2>3
  <1> HIDE DEF rows
  <1>3. \E k \in 1..7 : /\ rows[k][1] /\ \A j \in 1..(k - 1) : ~rows[j][1]
                        /\ FirstRow(rows) = rows[k][2]
    BY <1>1, FirstRowIs
  <1> QED BY <1>2, <1>3 DEF verify_published_date, rows

LEMMA LanguageSound ==
  ASSUME NEW i \in LanguageInputs
  PROVE  Sound("language", verify_language(i))
  <1> DEFINE rows == LanguageRows(i)
  <1>1. DOMAIN rows = 1..5 /\ \E k \in 1..5 : rows[k][1]
    BY DEF LanguageRows
  <1>2. /\ rows[1][2] = Plain(i.d, i.o, "ambiguous", 0)
        /\ rows[2][2] = Plain(i.d, i.o, "missing", 90) /\ (rows[2][1] /\ ~rows[1][1] => i.o # "none")
        /\ rows[3][2] = Plain(i.d, i.o, "ambiguous", 50) /\ (~rows[3][1] => i.o # "none")
        /\ rows[4][2] = Plain(i.d, i.o, "confirmed", 99)
        /\ rows[5][2] = Plain(i.d, i.o, "mismatch", 90)
    BY DEF LanguageRows
  <1>3. \A what, c : what \notin Written \/ i.o # "none" => Sound("language", Plain(i.d, i.o, what, c))
    BY PlainSound
  <1> HIDE DEF rows
  <1>4. ASSUME NEW k \in 1..5, rows[k][1], \A j \in 1..(k - 1) : ~rows[j][1]
        PROVE  Sound("language", rows[k][2])
    BY <1>2, <1>3, <1>4 DEF Written
  <1>5. \E k \in 1..5 : /\ rows[k][1] /\ \A j \in 1..(k - 1) : ~rows[j][1]
                        /\ FirstRow(rows) = rows[k][2]
    BY <1>1, FirstRowIs
  <1> QED BY <1>5, <1>4 DEF verify_language, rows

LEMMA SeriesSound ==
  ASSUME NEW i \in SeriesInputs
  PROVE  Sound("series", verify_series(i))
  <1> DEFINE rows == SeriesRows(i)
             Differs(c) == Verdict(i.d, i.o, "mismatch", c, {"series_mismatch"}, TRUE)
  <1>1. DOMAIN rows = 1..6 /\ \E k \in 1..6 : rows[k][1]
    BY DEF SeriesRows
  <1>2. /\ rows[1][2] = Plain(i.d, i.o, "confirmed", IF i.sampled THEN 95 ELSE 90)
        /\ rows[2][2] = Plain(i.d, i.o, "missing", 85) /\ (rows[2][1] /\ ~rows[1][1] => i.o # "none")
        /\ rows[2][1] => i.d = "none"
        /\ rows[3][2] = Plain(i.d, i.o, "ambiguous", 50)
        /\ rows[4][2] = Differs(80)
        /\ rows[5][2] = Plain(i.d, i.o, "confirmed", 95)
        /\ rows[6][2] = Differs(85)
    BY DEF SeriesRows
  <1>3. \A c : Sound("series", Differs(c))
    BY FlaggedSound DEF HIGH_RISK_FLAGS
  <1>4. \A what, c : what \notin Written \/ (i.o # "none" /\ i.d = "none") => Sound("series", Plain(i.d, i.o, what, c))
    BY PlainSound
  <1> HIDE DEF rows, Differs
  <1>5. ASSUME NEW k \in 1..6, rows[k][1], \A j \in 1..(k - 1) : ~rows[j][1]
        PROVE  Sound("series", rows[k][2])
    BY <1>2, <1>3, <1>4, <1>5 DEF Written
  <1>6. \E k \in 1..6 : /\ rows[k][1] /\ \A j \in 1..(k - 1) : ~rows[j][1]
                        /\ FirstRow(rows) = rows[k][2]
    BY <1>1, FirstRowIs
  <1> QED BY <1>6, <1>5 DEF verify_series, rows

\* The numbers of a book and of a series have one rule.
Numbers == {"series_index", "volume", "chapter", "series_position"}

LEMMA NumberSound ==
  ASSUME NEW f \in Numbers, NEW i
  PROVE  Sound(f, verify_number(i))
  <1> DEFINE rows == NumberRows(i)
  <1>1. DOMAIN rows = 1..5 /\ \E k \in 1..5 : rows[k][1]
    BY DEF NumberRows
  <1>2. /\ rows[1][2] = Plain(i.d, i.o, "confirmed", 90)
        /\ rows[2][2] = Plain(i.d, i.o, "missing", 85) /\ (rows[2][1] /\ ~rows[1][1] => i.o # "none")
        /\ rows[3][2] = Plain(i.d, i.o, "ambiguous", 50) /\ (~rows[3][1] => i.o # "none")
        /\ rows[4][2] = Plain(i.d, i.o, "confirmed", 95)
        /\ rows[5][2] = Plain(i.d, i.o, "mismatch", 90)
    BY DEF NumberRows
  <1>3. \A what, c : what \notin Written \/ i.o # "none" => Sound(f, Plain(i.d, i.o, what, c))
    BY PlainSound DEF Numbers
  <1> HIDE DEF rows
  <1>4. ASSUME NEW k \in 1..5, rows[k][1], \A j \in 1..(k - 1) : ~rows[j][1]
        PROVE  Sound(f, rows[k][2])
    BY <1>2, <1>3, <1>4 DEF Written
  <1>5. \E k \in 1..5 : /\ rows[k][1] /\ \A j \in 1..(k - 1) : ~rows[j][1]
                        /\ FirstRow(rows) = rows[k][2]
    BY <1>1, FirstRowIs
  <1> QED BY <1>5, <1>4 DEF verify_number, rows

LEMMA IndexSound ==
  ASSUME NEW i \in IndexInputs
  PROVE  Sound("series_index", verify_series_index(i))
  <1>1. Sound("series_index", Plain(i.d, i.o, "ambiguous", 40))
    BY PlainSound DEF Written
  <1> QED BY <1>1, NumberSound DEF verify_series_index, Numbers

\* The rule of every field is sound, whatever was extracted.
LEMMA VerdictsSound ==
  ASSUME NEW f \in Fields, NEW v \in Verdicts(f, low, sampled)
  PROVE  Sound(f, v)
  <1>1. CASE f = "isbn"
    BY <1>1, IsbnSound DEF Verdicts
  <1>2. CASE f = "title"
    BY <1>2, TitleSound DEF Verdicts
  <1>3. CASE f = "authors"
    BY <1>3, AuthorsSound DEF Verdicts
  <1>4. CASE f = "publisher"
    BY <1>4, PublisherSound DEF Verdicts
  <1>5. CASE f = "published_date"
    BY <1>5, DateSound DEF Verdicts
  <1>6. CASE f = "language"
    BY <1>6, LanguageSound DEF Verdicts
  <1>7. CASE f = "series"
    BY <1>7, SeriesSound DEF Verdicts
  <1>8. CASE f = "series_index"
    BY <1>8, IndexSound DEF Verdicts
  <1>9. CASE f \in {"volume", "chapter", "series_position"}
    BY <1>9, NumberSound DEF Verdicts, Numbers, verify_volume, verify_chapter, verify_series_position
  <1> QED BY <1>1, <1>2, <1>3, <1>4, <1>5, <1>6, <1>7, <1>8, <1>9 DEF Fields

-----------------------------------------------------------------------------
(* The run of one book.                                                    *)

AsJudged == \A f \in DOMAIN judged : Sound(f, judged[f])

\* What was decided about the patch stays: the witness changes other fields.
AsDecided ==
    /\ DOMAIN book.patch \subseteq Fields /\ book.flags \subseteq HIGH_RISK_FLAGS
    /\ \A f \in DOMAIN book.patch :
          /\ judged[f].kind \in Written /\ Sound(f, judged[f]) /\ judged[f].flags \subseteq book.flags
          /\ book.patch[f] = judged[f].observed
          /\ book.eligible => judged[f].review = FALSE
    /\ book.eligible /\ witnessed = {} => Undecided(judged) = {}

VerdictInv ==
    /\ stage \in {"start", "judging", "decided"}
    /\ judged = [f \in DOMAIN judged |-> judged[f]] /\ DOMAIN judged \subseteq Fields
    /\ stage # "decided" => AsJudged /\ DOMAIN judged # Fields /\ book = NoBook /\ witnessed = {}
    /\ stage = "decided" => AsDecided /\ DOMAIN judged = Fields

\* As long as a field is left, the loop has a next one.
LEMMA FieldsInOrder ==
  ASSUME NEW D \in SUBSET Fields, D # Fields
  PROVE  FieldOrder[Cardinality(D) + 1] \in Fields
  <1> DEFINE order == [k \in 1..11 |-> FieldOrder[k]]
             I == 1..11
  <1>1. \A k \in I : FieldOrder[k] \in Fields
    BY DEF FieldOrder, Fields
  <1>2. \A f \in Fields : \E k \in I : f = FieldOrder[k]
    <2>1. /\ FieldOrder[1] = "isbn" /\ FieldOrder[2] = "title" /\ FieldOrder[3] = "authors"
          /\ FieldOrder[4] = "publisher" /\ FieldOrder[5] = "published_date" /\ FieldOrder[6] = "language"
          /\ FieldOrder[7] = "series" /\ FieldOrder[8] = "series_index" /\ FieldOrder[9] = "volume"
          /\ FieldOrder[10] = "chapter" /\ FieldOrder[11] = "series_position"
      BY DEF FieldOrder
    <2> QED BY <2>1 DEF Fields
  <1>3. order \in Surjection(I, Fields)
    BY <1>1, <1>2 DEF Surjection
  <1> HIDE DEF order
  <1>4. IsFiniteSet(I) /\ Cardinality(I) = 11
    <2>1. 1 \in Int /\ 11 \in Int
      OBVIOUS
    <2>2. IsFiniteSet(1..11) /\ Cardinality(1..11) = IF 1 > 11 THEN 0 ELSE 11 - 1 + 1
      BY <2>1, FS_Interval
    <2> QED BY <2>2
  <1> HIDE DEF I
  <1>5. IsFiniteSet(Fields) /\ Cardinality(Fields) <= 11
    BY <1>3, <1>4, FS_Surjection
  <1>6. IsFiniteSet(D) /\ Cardinality(D) <= Cardinality(Fields) /\ Cardinality(D) # Cardinality(Fields)
    BY <1>5, FS_Subset
  <1>7. Cardinality(D) \in Nat /\ Cardinality(Fields) \in Nat
    BY <1>5, <1>6, FS_CardinalityType
  <1>8. Cardinality(D) + 1 \in I
    BY <1>5, <1>6, <1>7 DEF I
  <1> QED BY <1>1, <1>8

LEMMA VerdictStarts == VerdictInit => VerdictInv
  BY DEF VerdictInit, VerdictInv, AsJudged, Fields

LEMMA FieldJudged ==
  ASSUME VerdictInv, JudgeField
  PROVE  VerdictInv'
  <1> DEFINE f == FieldOrder[Cardinality(DOMAIN judged) + 1]
  <1>1. f \in Fields
    BY FieldsInOrder DEF VerdictInv, JudgeField
  <1> HIDE DEF f
  <1>2. PICK v \in Verdicts(f, low, sampled) :
          /\ judged' = [g \in DOMAIN judged \cup {f} |-> IF g = f THEN v ELSE judged[g]]
          /\ IF DOMAIN judged' = Fields THEN stage' = "decided" /\ book' = Aggregate(judged')
                                        ELSE UNCHANGED <<stage, book>>
    BY DEF JudgeField, f
  <1>3. Sound(f, v)
    BY <1>1, <1>2, VerdictsSound
  <1>4. stage = "judging" /\ witnessed' = witnessed /\ witnessed = {}
    BY DEF JudgeField, VerdictInv
  <1>5. /\ DOMAIN judged' = DOMAIN judged \cup {f} /\ DOMAIN judged' \subseteq Fields
        /\ judged' = [g \in DOMAIN judged' |-> judged'[g]]
    BY <1>1, <1>2 DEF VerdictInv
  <1>6. AsJudged'
    BY <1>2, <1>3, <1>4, <1>5 DEF VerdictInv, AsJudged
  <1>7. CASE DOMAIN judged' = Fields
    <2>1. /\ DOMAIN book'.patch = Patched(judged')
          /\ \A g \in Patched(judged') : book'.patch[g] = judged'[g].observed
          /\ book'.flags = AllFlags(judged') /\ book'.eligible = is_auto_apply_eligible(judged')
      BY <1>2, <1>7 DEF Aggregate
    <2>2. AsDecided'
      <3>1. AllFlags(judged') \subseteq HIGH_RISK_FLAGS
        BY <1>6 DEF AllFlags, AsJudged, Sound
      <3>2. \A g \in Patched(judged') :
               /\ g \in DOMAIN judged' /\ judged'[g].kind \in Written
               /\ Sound(g, judged'[g]) /\ judged'[g].flags \subseteq AllFlags(judged')
        BY <1>6 DEF Patched, AsJudged, Written, AllFlags
      <3>3. is_auto_apply_eligible(judged') =>
               Undecided(judged') = {} /\ \A g \in Patched(judged') : ~judged'[g].review
        BY DEF is_auto_apply_eligible
      <3> QED BY <1>5, <2>1, <3>1, <3>2, <3>3 DEF AsDecided
    <2> QED BY <1>2, <1>5, <1>7, <2>2 DEF VerdictInv
  <1>8. CASE DOMAIN judged' # Fields
    BY <1>2, <1>4, <1>5, <1>6, <1>8 DEF VerdictInv
  <1> QED BY <1>7, <1>8

LEMMA FieldWitnessed ==
  ASSUME VerdictInv, NEW f \in Fields, Witness(f)
  PROVE  VerdictInv'
  <1>1. PICK a \in Answers : judged' = [judged EXCEPT ![f] = Refined(@, a)]
    BY DEF Witness
  <1>2. /\ stage = "decided" /\ stage' = "decided" /\ book' = book
        /\ witnessed' = witnessed \cup {f} /\ judged[f].kind = "ambiguous"
    BY DEF Witness, Asked
  <1>3. /\ DOMAIN judged' = DOMAIN judged /\ judged' = [g \in DOMAIN judged' |-> judged'[g]]
        /\ \A g \in DOMAIN judged : g # f => judged'[g] = judged[g]
    BY <1>1 DEF VerdictInv
  <1>4. AsDecided /\ DOMAIN judged = Fields
    BY <1>2 DEF VerdictInv
  <1>5. \A g \in DOMAIN book.patch : g # f /\ g \in DOMAIN judged
    BY <1>2, <1>4 DEF AsDecided, Written
  <1>6. AsDecided'
    BY <1>2, <1>3, <1>4, <1>5 DEF AsDecided
  <1> QED BY <1>2, <1>3, <1>4, <1>6 DEF VerdictInv

LEMMA VerdictInvariant == VerdictSpec => []VerdictInv
  <1>1. VerdictInv /\ [VerdictNext]_verdictVars => VerdictInv'
    <2> SUFFICES ASSUME VerdictInv, [VerdictNext]_verdictVars PROVE VerdictInv'
      OBVIOUS
    <2>1. CASE Observe
      BY <2>1 DEF Observe, VerdictInv, AsJudged
    <2>2. CASE SaveVerdict
      BY <2>2 DEF SaveVerdict, VerdictInv, AsJudged, Fields
    <2>3. CASE UNCHANGED verdictVars
      BY <2>3 DEF verdictVars, VerdictInv, AsJudged, AsDecided, Undecided
    <2> QED BY <2>1, <2>2, <2>3, FieldJudged, FieldWitnessed DEF VerdictNext
  <1> QED BY <1>1, VerdictStarts, PTL DEF VerdictSpec

\* Every value a patch would write was observed by a deterministic rule, whatever
\* the values of the fields and the answers of the witness (merge of the witnessed
\* fields in run_audit, _build_refined_verdict).
THEOREM PatchesComeFromRules == VerdictSpec => []PatchIsDeterministic
  <1>1. VerdictInv => PatchIsDeterministic
    BY DEF VerdictInv, AsDecided, Sound, PatchIsDeterministic
  <1> QED BY <1>1, VerdictInvariant, PTL

\* What the gate lets through without a reviewer is harmless, whatever the values
\* of the fields, the number of fields with data and the answers of the witness
\* (_is_auto_apply_eligible, ConservativeAutoApply.is_eligible).
THEOREM AutomaticPatchesAreHarmless == VerdictSpec => []AutoApplyHarmless
  <1>1. VerdictInv => AutoApplyHarmless
    <2> SUFFICES ASSUME VerdictInv, GateOpen PROVE AutoApplyHarmless
      BY DEF AutoApplyHarmless
    <2>1. stage = "decided" /\ AsDecided
      BY DEF GateOpen, NoBook, VerdictInv
    <2>2. book.flags = {} /\ book.eligible
      BY <2>1 DEF GateOpen, AsDecided
    <2>3. \A f \in DOMAIN book.patch :
             /\ judged[f].kind \in {"mismatch", "missing"} /\ judged[f].flags = {}
             /\ Sound(f, judged[f]) /\ book.patch[f] = judged[f].observed /\ judged[f].review = FALSE
      BY <2>1, <2>2 DEF AsDecided, Written
    <2>4. witnessed = {} => Undecided(judged) = {}
      BY <2>1, <2>2 DEF AsDecided
    <2> QED BY <2>2, <2>3, <2>4 DEF Sound, AutoApplyHarmless
  <1> QED BY <1>1, VerdictInvariant, PTL
=============================================================================
