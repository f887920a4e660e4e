------------------------------ MODULE Startup ------------------------------
(***************************************************************************)
(* Starts, crashes and restarts of the two programs that share the cache   *)
(* file: the command line aggregator (crates/aggregator/src/main.rs) and   *)
(* the engine (bin/engine.rs), one process at a time.  Only the file       *)
(* survives a process.                                                     *)
(***************************************************************************)
EXTENDS PoolCache, ColdStart

CONSTANTS
    MaxAge,      \* CACHE_MAX_AGE
    MaxNow       \* bound: the last moment

ASSUME TimeAssumption == MaxAge \in Nat /\ MaxNow \in Nat

VARIABLES
    process,     \* which program runs, and where it is
    index,       \* its PoolIndex
    from_cache   \* loaded_from_cache

startup_vars == <<now, loads, file, saved, writing, cold_vars, process, index, from_cache>>

ThisProcess == <<process, index, from_cache>>
Disk == <<file, saved, writing>>

Program(kind, at) == [kind |-> kind, at |-> at]
IsAt(kind, at) == process = Program(kind, at)
Saving == process.at = "save" /\ process.kind # "none"

\* What a process has before it starts.
NoProcess ==
    /\ process = Program("none", "down")
    /\ index = <<>> /\ from_cache = FALSE
    /\ loads = [d \in Dexes |-> NotLoaded]
    /\ ColdInit

StartupInit ==
    /\ now = 0
    /\ file = NoFile /\ saved = <<>> /\ writing = {}
    /\ NoProcess

\* Between two programs: a start is short beside the age of a file.
NewTime ==
    /\ now < MaxNow /\ IsAt("none", "down")
    /\ now' = now + 1
    /\ UNCHANGED <<loads, Disk, cold_vars, ThisProcess>>

\* The start of a program: the pools of the file, or load_from_rpc.
Begin(kind, cached, then) ==
    /\ IsAt("none", "down")
    /\ IF cached
       THEN process' = Program(kind, then) /\ index' = CachedPools /\ from_cache' = TRUE
       ELSE process' = Program(kind, "load") /\ UNCHANGED <<index, from_cache>>
    /\ UNCHANGED <<now, loads, Disk, cold_vars>>

StartCli == Begin("cli", HasAge /\ CacheAge < MaxAge /\ Loadable, "truncate")

StartEngine == Begin("engine", file.exists /\ Loadable, "seed")

Load ==
    /\ process.at = "load"
    /\ LoadStep
    /\ UNCHANGED <<now, Disk, cold_vars, ThisProcess>>

\* load_all returns; the aggregator saves whatever it has.
FinishLoad ==
    /\ process.at = "load" /\ AllLoaded
    /\ index' = Loaded
    /\ process' = [process EXCEPT !.at = IF process.kind = "cli" THEN "truncate" ELSE "seed"]
    /\ loads' = [d \in Dexes |-> NotLoaded]
    /\ UNCHANGED <<now, Disk, cold_vars, from_cache>>

\* PUMPFUN_BC_MINTS; then the engine serves.
SeedCurves ==
    /\ process.at = "seed"
    /\ \E read \in SUBSET Curves : index' = WithCurves(index, read)
    /\ process' = Program("engine", "serve")
    /\ UNCHANGED <<now, loads, Disk, cold_vars, from_cache>>

Serving == process.kind = "engine" /\ process.at \notin {"load", "seed"}

Cold ==
    /\ Serving
    /\ FetchPhase(index) \/ TakeKeys(index) \/ ResolveMints \/ PollKeys
    /\ UNCHANGED <<now, loads, Disk, ThisProcess>>

\* After the cold start the engine saves what it has loaded from the RPC.
SaveAfterColdStart ==
    /\ IsAt("engine", "serve") /\ ColdDone /\ ~from_cache
    /\ process' = Program("engine", "truncate")
    /\ UNCHANGED <<now, loads, Disk, cold_vars, index, from_cache>>

Truncate ==
    /\ process.at = "truncate"
    /\ TruncateFile(index)
    /\ process' = [process EXCEPT !.at = "save"]
    /\ UNCHANGED <<now, loads, cold_vars, index, from_cache>>

Write ==
    /\ Saving
    /\ WriteHeader \/ WriteRecord(index)
    /\ UNCHANGED <<now, loads, cold_vars, ThisProcess>>

FinishSave ==
    /\ Saving
    /\ WriteSentinel(index)
    /\ process' = [process EXCEPT !.at = "saved"]
    /\ UNCHANGED <<now, loads, cold_vars, index, from_cache>>

\* An error of save_cache is a warning: the file stays as far as it got.
FailSave ==
    /\ process.at \in {"truncate", "save"}
    /\ process' = [process EXCEPT !.at = "saved"]
    /\ UNCHANGED <<now, loads, Disk, cold_vars, index, from_cache>>

\* The process ends, wherever it is.
Crash ==
    /\ process.kind # "none"
    /\ process' = Program("none", "down")
    /\ index' = <<>> /\ from_cache' = FALSE
    /\ loads' = [d \in Dexes |-> NotLoaded]
    /\ stored' = {} /\ lost' = {} /\ failures' = 0 /\ phase' = 1
    /\ polled' = {} /\ asking' = "reads"
    /\ UNCHANGED <<now, Disk>>

StartupNext ==
    \/ NewTime
    \/ StartCli \/ StartEngine
    \/ Load \/ FinishLoad \/ SeedCurves
    \/ Cold \/ SaveAfterColdStart
    \/ Truncate \/ Write \/ FinishSave \/ FailSave
    \/ Crash

StartupSpec == StartupInit /\ [][StartupNext]_startup_vars

-----------------------------------------------------------------------------
(* Properties *)

\* What a start loads from the file (Begin, load_cache) is the index that was
\* last saved to the end, wherever a later save was cut off; the engine adds
\* curves of its watch list and nothing else.
LoadedIsSaved ==
    from_cache =>
        /\ \A p \in DOMAIN saved : p \in DOMAIN index /\ index[p] = saved[p]
        /\ DOMAIN index \subseteq DOMAIN saved \cup Curves

\* When the cold start is over, every account an exact quote of an indexed
\* pool reads has been fetched, or was in a batch that failed: each phase finds
\* in the store what it depends on (cold_start, fetch_damm_v1_aux).
ColdStartCovers ==
    Serving /\ ColdDone => \A p \in DOMAIN index : Needs(index, p) \subseteq stored \cup lost

\* README.md:285 and main.rs:17: pools older than the maximal age are loaded
\* again when the aggregator starts.
StaleIsReloaded ==
    [][StartCli /\ from_cache' => \A p \in DOMAIN index' : now - index'[p] < MaxAge]_startup_vars
=============================================================================
