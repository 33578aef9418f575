------------------------- MODULE OperationLifecycle -------------------------
(***************************************************************************)
(* What the operation ledger promises to its readers, without processes,   *)
(* outbox or library: every operation follows the life the transition      *)
(* table of storage/operations.py describes, as far as it is committed; an *)
(* outcome is final; and a book is never being worked on by two operations *)
(* at once.                                                                *)
(***************************************************************************)
CONSTANTS Operations, AllBooks

VARIABLES phase,   \* committed state of each operation
          target   \* the book each operation is about

lifecycle == <<phase, target>>

Outcomes == {"succeeded", "restored", "restore_failed", "unknown"}

LifeInit ==
    /\ phase  = [o \in Operations |-> "none"]
    /\ target \in [Operations -> AllBooks]

Move(o, s) == phase' = [phase EXCEPT ![o] = s] /\ UNCHANGED target

Request(o) ==
    /\ phase[o] = "none"
    /\ phase' = [phase EXCEPT ![o] = "requested"]
    /\ \E b \in AllBooks : target' = [target EXCEPT ![o] = b]

\* The book is taken for the operation, exclusively.
Take(o) ==
    /\ phase[o] = "requested"
    /\ \A p \in Operations :
          phase[p] \in {"claimed", "writing"} => target[p] # target[o]
    /\ Move(o, "claimed")

\* A claim can be given back as long as nothing was written.
Release(o) == phase[o] = "claimed" /\ Move(o, "requested")
Refuse(o)  == phase[o] = "claimed" /\ Move(o, "failed")
Write(o)   == phase[o] = "claimed" /\ Move(o, "writing")
Resolve(o) == phase[o] = "writing" /\ \E s \in Outcomes : Move(o, s)

LifeNext == \E o \in Operations :
    Request(o) \/ Take(o) \/ Release(o) \/ Refuse(o) \/ Write(o) \/ Resolve(o)

LifeSpec == LifeInit /\ [][LifeNext]_lifecycle
=============================================================================
