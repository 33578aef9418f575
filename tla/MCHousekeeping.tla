--------------------------- MODULE MCHousekeeping ----------------------------
(* Small instances of the processes around the pipeline: retention of        *)
(* restore points, verification runs, background jobs, the cover review. The *)
(* components share no state: a behaviour chooses one at its start and the   *)
(* others stay still.                                                        *)
(* Jobs have two envelopes: one file and the end of a process, or two files  *)
(* with every process alive. A run of the web app is followed until two      *)
(* tasks are at work on it: its properties say nothing of what comes then.   *)
EXTENDS RetentionJournal, DurableRuns, LegacyVerify, IngestJobs, CoverDeck, TLC

CONSTANTS Parts, a1, a2, c1, k1, k2, p1, p2

VARIABLE part

PartsInit ==
    /\ part \in Parts
    /\ RetentionInit /\ DurableInit /\ LegacyInit /\ JobsInit /\ DeckInit
    /\ part # "deck" => untouched = {}

PartsNext ==
    /\ UNCHANGED part
    /\ \/ part = "retention" /\ RetentionNext
       \/ part # "retention" /\ UNCHANGED retVars
    /\ \/ part = "durable" /\ DurableNext /\ ~overlapped
       \/ part # "durable" /\ UNCHANGED durableVars
    /\ \/ part = "legacy" /\ LegacyNext
       \/ part # "legacy" /\ UNCHANGED legacyVars
    /\ \/ part = "jobs" /\ JobsNext /\ folder' \subseteq {1}
       \/ part = "folder" /\ JobsNext /\ ends' = 0
       \/ part \notin {"jobs", "folder"} /\ UNCHANGED jobVars
    /\ \/ part = "deck" /\ DeckNext
       \/ part # "deck" /\ UNCHANGED deckVars

PartsSpec == PartsInit /\ [][PartsNext]_<<part, retVars, durableVars, legacyVars, jobVars, deckVars>>

\* The app processes that may work on a run are interchangeable.
Interchangeable == Permutations(Apps)
==============================================================================
