--------------------------- MODULE RetentionJournal ---------------------------
(***************************************************************************)
(* Restore points and their journaled retention (verification/restore.py,  *)
(* the retention command of cli/main.py). The writer creates a restore     *)
(* point before it changes a book; an operator deletes expired ones. The   *)
(* deletion moves them into a quarantine transaction, journals every move  *)
(* and can be resumed after an interruption at any point. Every rename and *)
(* every journal write is followed by fsync, so a step that happened stays.*)
(***************************************************************************)
EXTENDS Integers, FiniteSets

CONSTANTS
    PointCount,    \* paths <run>/<book> that get restore points
    Commands,      \* invocations of the retention command that may overlap
    Backups,       \* digests of verified paired backups
    MaxMade,       \* bound: restore points created
    MaxTx,         \* bound: quarantine transactions
    MaxStops,      \* bound: crashes of a command or of the writer
    MaxDrops       \* bound: lost guard connections of a command

ASSUME RetentionAssumption ==
    /\ PointCount \in Nat /\ MaxMade \in Nat /\ MaxTx \in Nat
    /\ MaxStops \in Nat /\ MaxDrops \in Nat
    /\ Backups # {} /\ {"none", "writer"} \cap Commands = {}

Points  == 1..PointCount
Stamps  == 1..MaxMade     \* identity of a point: inode and digest of restore.json
Txs     == 1..MaxTx
Nothing == 0

Unfinished == {"prepared", "quarantining", "quarantined", "deleting"}
Published  == Unfinished \cup {"deleted"}

VARIABLES
    point,      \* the restore point at each path, Nothing if there is none
    bare,       \* directories that have no restore.json yet
    made,       \* restore points created so far
    horizon,    \* the points made up to here are past their retention target
    tx,         \* state in the journal; "staging" before it is published
    cands,      \* candidates of the journal: the identity per path
    moved,      \* moves the journal has recorded
    bound,      \* backup digest the journal is bound to
    payload,    \* what lies in the payload of the transaction
    root,       \* whether its payload directory exists
    lockedBy,   \* holder of the writer's advisory lock
    writerAt,   \* "down", "idle" or "creating"
    making,     \* the path whose point is being created
    beat,       \* the writer's heartbeat is fresh
    queued,     \* a non-terminal operation is in the ledger
    cpc, sel, ctx, left, cbak,   \* a retention command and what it remembers
    stops, drops

diskVars == <<point, bare, made, horizon>>
txVars   == <<tx, cands, moved, bound, payload, root>>
writer_  == <<writerAt, making, beat, queued>>
mine     == <<sel, ctx, left, cbak>>
retVars  == <<diskVars, txVars, lockedBy, writer_, cpc, mine, stops, drops>>

Blank == [p \in Points |-> Nothing]

-----------------------------------------------------------------------------
(* The writer, as far as retention meets it.                               *)

\* An operation is queued by the web process, which needs no lock.
QueueOperation ==
    /\ ~queued /\ queued' = TRUE
    /\ UNCHANGED <<diskVars, txVars, lockedBy, writerAt, making, beat, cpc, mine, stops, drops>>

WriterStarts ==
    /\ writerAt = "down" /\ lockedBy = "none"
    /\ lockedBy' = "writer" /\ writerAt' = "idle" /\ beat' = TRUE
    /\ UNCHANGED <<diskVars, txVars, making, queued, cpc, mine, stops, drops>>

\* RestorePointStore.create: the directory first, restore.json last.
BeginPoint(p) ==
    /\ writerAt = "idle" /\ queued /\ made < MaxMade
    /\ writerAt' = "creating" /\ making' = p
    /\ bare' = IF point[p] = Nothing THEN bare \cup {p} ELSE bare
    /\ UNCHANGED <<point, made, horizon, txVars, lockedBy, beat, queued, cpc, mine,
                   stops, drops>>

FinishPoint ==
    /\ writerAt = "creating"
    /\ made'  = made + 1
    /\ point' = [point EXCEPT ![making] = made + 1]
    /\ bare'  = bare \ {making}
    /\ writerAt' = "idle" /\ making' = Nothing /\ queued' = FALSE
    /\ UNCHANGED <<horizon, txVars, lockedBy, beat, cpc, mine, stops, drops>>

\* The process ends, by a crash or a shutdown; its connection goes with it.
WriterStops ==
    /\ writerAt # "down" /\ stops < MaxStops
    /\ stops' = stops + 1
    /\ writerAt' = "down" /\ making' = Nothing
    /\ lockedBy' = IF lockedBy = "writer" THEN "none" ELSE lockedBy
    /\ UNCHANGED <<diskVars, txVars, beat, queued, cpc, mine, drops>>

BeatExpires ==
    /\ beat /\ writerAt = "down" /\ beat' = FALSE
    /\ UNCHANGED <<diskVars, txVars, lockedBy, writerAt, making, queued, cpc, mine, stops, drops>>

\* applied_at + ttl is over; all points have the same retention target.
TimePasses ==
    /\ horizon < made /\ horizon' = horizon + 1
    /\ UNCHANGED <<point, bare, made, txVars, lockedBy, writer_, cpc, mine, stops, drops>>

-----------------------------------------------------------------------------
(* Preconditions.                                                          *)

Candidates(t) == {p \in Points : cands[t][p] # Nothing}
There(p)      == point[p] # Nothing \/ p \in bare

\* _preflight_quarantine of a published transaction.
Preflight(t) ==
    /\ tx[t] = "deleted" => ~root[t]
    /\ tx[t] \in {"prepared", "quarantining", "quarantined"} => root[t]
    /\ \A p \in Candidates(t) :
        IF tx[t] \in {"deleting", "deleted"} THEN ~There(p)
        ELSE /\ There(p) # (payload[t][p] # Nothing)
             /\ cands[t][p] = IF payload[t][p] # Nothing THEN payload[t][p] ELSE point[p]
             /\ tx[t] = "prepared" => payload[t][p] = Nothing /\ p \notin moved[t]
             /\ p \in moved[t] => payload[t][p] # Nothing
             /\ tx[t] = "quarantined" => payload[t][p] # Nothing /\ p \in moved[t]

\* list_pending_quarantines raises, or finds transactions.
NonePending ==
    \A t \in Txs : tx[t] \in Published => Preflight(t) /\ tx[t] = "deleted"

\* build_deletion_manifest: the expired points, none with a missing manifest.
Expired == [p \in Points |-> IF point[p] \in 1..horizon THEN point[p] ELSE Nothing]

\* Mutant: the candidate only has to exist.
StillThere(p, stamp) == There(p)

\* _validate_candidate_identity
Identical(p, stamp) == point[p] = stamp /\ p \notin bare

-----------------------------------------------------------------------------
(* The retention command.                                                  *)

Quit(c) ==
    /\ cpc'  = [cpc EXCEPT ![c] = "idle"]
    /\ sel'  = [sel EXCEPT ![c] = Blank]
    /\ ctx'  = [ctx EXCEPT ![c] = Nothing]
    /\ left' = [left EXCEPT ![c] = {}]
    /\ cbak' = [cbak EXCEPT ![c] = "none"]
    /\ lockedBy' = IF lockedBy = c THEN "none" ELSE lockedBy

To(c, l) == cpc' = [cpc EXCEPT ![c] = l] /\ UNCHANGED <<lockedBy, mine>>

Elsewhere == UNCHANGED <<diskVars, writer_, stops, drops>>

\* Without --recover-quarantine: abandoned staging is discarded. Nothing more
\* happens in a dry run, when a transaction is pending or invalid, or when the
\* list of candidates cannot be built; otherwise a backup is verified.
Preview(c) ==
    /\ cpc[c] = "idle"
    /\ tx' = [t \in Txs |-> IF tx[t] = "staging" THEN "none" ELSE tx[t]]
    /\ root' = [t \in Txs |-> root[t] /\ tx[t] # "staging"]
    /\ \/ UNCHANGED <<cpc, sel, cbak>>
       \/ /\ NonePending /\ bare = {}
          /\ \E b \in Backups :
               /\ cpc'  = [cpc EXCEPT ![c] = "guard"]
               /\ sel'  = [sel EXCEPT ![c] = Expired]
               /\ cbak' = [cbak EXCEPT ![c] = b]
    /\ UNCHANGED <<cands, moved, bound, payload, ctx, left, lockedBy>> /\ Elsewhere

\* With it: one transaction, and a backup that is verified.
ChooseRecovery(c, t) ==
    /\ cpc[c] = "idle" /\ tx[t] \in Published
    /\ \E b \in Backups :
         /\ cpc'  = [cpc EXCEPT ![c] = "guard"]
         /\ ctx'  = [ctx EXCEPT ![c] = t]
         /\ cbak' = [cbak EXCEPT ![c] = b]
    /\ UNCHANGED <<txVars, sel, left, lockedBy>> /\ Elsewhere

\* The advisory lock, the ledger and the heartbeat.
AcquireGuard(c) ==
    /\ cpc[c] = "guard"
    /\ IF lockedBy = "none" /\ ~queued /\ ~beat
       THEN /\ lockedBy' = c
            /\ cpc' = [cpc EXCEPT ![c] = IF ctx[c] = Nothing THEN "check" ELSE "recover"]
            /\ UNCHANGED mine
       ELSE Quit(c)
    /\ UNCHANGED txVars /\ Elsewhere

Selected(c) == {p \in Points : sel[c][p] # Nothing}

\* quarantine_and_delete validates every candidate before it does anything.
CheckCandidates(c) ==
    /\ cpc[c] = "check"
    /\ IF Selected(c) # {} /\ \A p \in Selected(c) : Identical(p, sel[c][p])
       THEN To(c, "stage") ELSE Quit(c)
    /\ UNCHANGED txVars /\ Elsewhere

\* A complete transaction is built under a staging name,
Stage(c) ==
    /\ cpc[c] = "stage"
    /\ \E t \in Txs :
        /\ tx[t] = "none" /\ \A u \in Txs : u < t => tx[u] # "none"
        /\ tx'    = [tx EXCEPT ![t] = "staging"]
        /\ cands' = [cands EXCEPT ![t] = sel[c]]
        /\ moved' = [moved EXCEPT ![t] = {}]
        /\ bound' = [bound EXCEPT ![t] = cbak[c]]
        /\ root'  = [root EXCEPT ![t] = TRUE]
        /\ ctx'   = [ctx EXCEPT ![c] = t]
    /\ cpc'  = [cpc EXCEPT ![c] = "publish"]
    /\ left' = [left EXCEPT ![c] = Selected(c)]
    /\ UNCHANGED <<payload, sel, cbak, lockedBy>> /\ Elsewhere

\* The state of the journal is replaced atomically.
Journal(c, s) ==
    /\ tx' = [tx EXCEPT ![ctx[c]] = s]
    /\ UNCHANGED <<cands, moved, bound, payload, root>>

\* published with one rename, unless a preview has discarded it meanwhile,
Publish(c) ==
    /\ cpc[c] = "publish"
    /\ IF tx[ctx[c]] = "staging" THEN Journal(c, "prepared") /\ To(c, "prepared")
       ELSE Quit(c) /\ UNCHANGED txVars
    /\ Elsewhere

\* and its state advances.
Advance(c) ==
    /\ \/ cpc[c] = "prepared" /\ Journal(c, "quarantining") /\ To(c, "move")
       \/ cpc[c] = "move" /\ left[c] = {} /\ Journal(c, "quarantined") /\ To(c, "quarantined")
       \/ cpc[c] = "quarantined" /\ Journal(c, "deleting") /\ To(c, "delete")
    /\ Elsewhere

Current(c) == {p \in left[c] : \A q \in left[c] : p <= q}

\* The next candidate is validated; recovery takes one that was moved before.
ValidateMove(c) ==
    /\ cpc[c] = "move"
    /\ \E p \in Current(c) :
        IF payload[ctx[c]][p] # Nothing THEN To(c, "note")
        ELSE IF Identical(p, cands[ctx[c]][p]) THEN To(c, "rename")
        ELSE Quit(c)
    /\ UNCHANGED txVars /\ Elsewhere

\* Mutant: the move is recorded before it is made.
RenameNoted(c) ==
    /\ cpc[c] = "rename"
    /\ \E p \in Current(c) :
        moved' = [moved EXCEPT ![ctx[c]] = @ \cup {p}]
    /\ To(c, "note")
    /\ UNCHANGED <<diskVars, tx, cands, bound, payload, root, writer_, stops, drops>>

\* A missing source or a target that exists makes the rename fail: see Interrupt.
Rename(c) ==
    /\ cpc[c] = "rename"
    /\ \E p \in Current(c) :
        /\ There(p) /\ payload[ctx[c]][p] = Nothing
        /\ payload' = [payload EXCEPT ![ctx[c]][p] = point[p]]
        /\ point'   = [point EXCEPT ![p] = Nothing] /\ bare' = bare \ {p}
    /\ To(c, "note")
    /\ UNCHANGED <<made, horizon, tx, cands, moved, bound, root, writer_, stops, drops>>

NoteMove(c) ==
    /\ cpc[c] = "note"
    /\ \E p \in Current(c) :
        /\ moved' = [moved EXCEPT ![ctx[c]] = @ \cup {p}]
        /\ left'  = [left EXCEPT ![c] = @ \ {p}]
    /\ cpc' = [cpc EXCEPT ![c] = "move"]
    /\ UNCHANGED <<tx, cands, bound, payload, root, sel, ctx, cbak, lockedBy>> /\ Elsewhere

\* _finish_quarantine_delete: the payload is removed entry by entry,
RemoveEntry(c, p) ==
    /\ cpc[c] = "delete" /\ payload[ctx[c]][p] # Nothing
    /\ payload' = [payload EXCEPT ![ctx[c]][p] = Nothing]
    /\ UNCHANGED <<tx, cands, moved, bound, root, lockedBy, cpc, mine>> /\ Elsewhere

RemoveRoot(c) ==
    /\ cpc[c] = "delete" /\ root[ctx[c]] /\ payload[ctx[c]] = Blank
    /\ root' = [root EXCEPT ![ctx[c]] = FALSE]
    /\ UNCHANGED <<tx, cands, moved, bound, payload, lockedBy, cpc, mine>> /\ Elsewhere

\* and the journal stays as a tombstone.
Tombstone(c) ==
    /\ cpc[c] = "delete" /\ ~root[ctx[c]]
    /\ Journal(c, "deleted") /\ Quit(c) /\ Elsewhere

\* recover_quarantine: nothing happens unless the preflight passes and the
\* backup is the one of the transaction.
Recover(c) ==
    LET t == ctx[c] IN
    /\ cpc[c] = "recover"
    /\ IF ~Preflight(t) \/ bound[t] # cbak[c] \/ tx[t] = "deleted" THEN Quit(c)
       ELSE /\ cpc'  = [cpc EXCEPT ![c] = IF tx[t] = "deleting" THEN "delete" ELSE "move"]
            /\ left' = [left EXCEPT ![c] = Candidates(t)]
            /\ UNCHANGED <<sel, ctx, cbak, lockedBy>>
    /\ UNCHANGED txVars /\ Elsewhere

\* The command is interrupted, or a file operation fails.
Interrupt(c) ==
    /\ cpc[c] # "idle" /\ stops < MaxStops
    /\ stops' = stops + 1
    /\ Quit(c) /\ UNCHANGED <<diskVars, txVars, writer_, drops>>

\* Its connection dies and the lock is free, while it goes on.
DropGuard(c) ==
    /\ lockedBy = c /\ drops < MaxDrops
    /\ drops' = drops + 1
    /\ lockedBy' = "none"
    /\ UNCHANGED <<diskVars, txVars, writer_, cpc, mine, stops>>

-----------------------------------------------------------------------------
RetentionInit ==
    /\ point = Blank /\ bare = {} /\ made = 0 /\ horizon = 0
    /\ tx = [t \in Txs |-> "none"] /\ cands = [t \in Txs |-> Blank]
    /\ moved = [t \in Txs |-> {}] /\ bound \in [Txs -> {CHOOSE b \in Backups : TRUE}]
    /\ payload = [t \in Txs |-> Blank] /\ root = [t \in Txs |-> FALSE]
    /\ lockedBy = "none" /\ writerAt = "down" /\ making = Nothing
    /\ beat = FALSE /\ queued = FALSE
    /\ cpc = [c \in Commands |-> "idle"] /\ sel = [c \in Commands |-> Blank]
    /\ ctx = [c \in Commands |-> Nothing] /\ left = [c \in Commands |-> {}]
    /\ cbak = [c \in Commands |-> "none"] /\ stops = 0 /\ drops = 0

CommandStep(c) ==
    \/ Preview(c) \/ AcquireGuard(c) \/ CheckCandidates(c) \/ Stage(c) \/ Publish(c)
    \/ Advance(c) \/ ValidateMove(c) \/ Rename(c) \/ NoteMove(c)
    \/ RemoveRoot(c) \/ Tombstone(c) \/ Recover(c)
    \/ \E p \in Points : RemoveEntry(c, p)
    \/ \E t \in Txs : ChooseRecovery(c, t)

RetentionNext ==
    \/ QueueOperation \/ WriterStarts \/ FinishPoint \/ WriterStops \/ BeatExpires
    \/ TimePasses
    \/ \E p \in Points : BeginPoint(p)
    \/ \E c \in Commands : CommandStep(c) \/ Interrupt(c) \/ DropGuard(c)

RetentionSpec == RetentionInit /\ [][RetentionNext]_retVars

-----------------------------------------------------------------------------
(* Properties.                                                             *)

Recreated(t) == \E p \in Candidates(t) : There(p) /\ point[p] # cands[t][p]

\* No command works on the transaction and nothing was put at its paths.
Interrupted(t) ==
    /\ tx[t] \in Published /\ ~Recreated(t)
    /\ \A c \in Commands : ctx[c] # t

\* A recovery that started from "prepared" has moved a point: see RecoveryResumes.
HalfRecovered(t) == tx[t] = "prepared" /\ payload[t] # Blank

\* Another transaction took over a point of this one: two commands listed the same
\* candidates before either had the guard, and nothing looks for pending
\* transactions again under the guard.
Overtaken(t) ==
    \E u \in Txs \ {t} : tx[u] \in Published /\ \E p \in Candidates(t) : cands[u][p] = cands[t][p]

\* Wherever a deletion was interrupted, its recovery is not refused: as long as
\* the writer has not created a new restore point at one of its paths and no
\* overlapping command took one of its points, the preflight accepts the journal
\* (_preflight_quarantine, recover_quarantine). The one exception is the state
\* RecoveryResumes is about.
InterruptionsRecoverable ==
    drops = 0 => \A t \in Txs :
        Interrupted(t) /\ ~HalfRecovered(t) /\ ~Overtaken(t) => Preflight(t)

\* The decision record: recovery always resumes deletion, also when it was itself
\* interrupted (recover_quarantine).
RecoveryResumes == drops = 0 => \A t \in Txs : Interrupted(t) => Preflight(t)

\* As long as no command loses its guard, a restore point leaves its place only
\* when it is past its retention target, although the list of candidates is made
\* before the writer is locked out and the writer may have refreshed a point since
\* (build_deletion_manifest, _validate_candidate), and it is destroyed only when its
\* journal says that the deletion has begun. Without the guard two commands may
\* work on one transaction and write its journal over each other.
OnlyExpiredLeave ==
    [][drops = 0 =>
         /\ \A p \in Points : point[p] # Nothing /\ point'[p] = Nothing => point[p] <= horizon
         /\ \A t \in Txs, p \in Points :
              payload[t][p] # Nothing /\ payload'[t][p] = Nothing => tx[t] = "deleting"]_retVars
=============================================================================
