----------------------------- MODULE PoolCache -----------------------------
(***************************************************************************)
(* The pool cache file: crates/aggregator/src/cache.rs.  save_cache        *)
(* truncates the file, writes a header, a record per pool and a closing    *)
(* sentinel; a process that dies, or a disk that fills, leaves a prefix of *)
(* that, and a record cut in two reads as none.  load_cache takes a file   *)
(* only up to its sentinel and reports an error when there is none.        *)
(***************************************************************************)
EXTENDS Loader

VARIABLES
    file,     \* the file on disk
    saved,    \* the index that was last saved to the end
    writing   \* save_cache's pools that are not written yet

NoFile == [exists |-> FALSE, header |-> FALSE, timestamp |-> 0, pools |-> <<>>, closed |-> FALSE]

\* What a file is good for: its age is known, its pools can be loaded.
HasAge == file.header
CacheAge == now - file.timestamp

\* Mutant of Loadable: the end of the file is as good as a sentinel.
LoadableToTheEnd == file.header

Loadable == file.header /\ file.closed

\* Into the index goes a record of every pool.
CachedPools == file.pools

\* save_cache, in four steps
TruncateFile(index) ==
    /\ file' = [NoFile EXCEPT !.exists = TRUE, !.timestamp = now]
    /\ writing' = DOMAIN index
    /\ UNCHANGED saved

WriteHeader ==
    /\ file.exists /\ ~file.header
    /\ file' = [file EXCEPT !.header = TRUE]
    /\ UNCHANGED <<saved, writing>>

WriteRecord(index) ==
    /\ file.header
    /\ \E p \in writing :
         /\ file' = [file EXCEPT !.pools =
                        [q \in DOMAIN @ \cup {p} |-> IF q = p THEN index[p] ELSE @[q]]]
         /\ writing' = writing \ {p}
    /\ UNCHANGED saved

WriteSentinel(index) ==
    /\ file.header /\ writing = {}
    /\ file' = [file EXCEPT !.closed = TRUE]
    /\ saved' = index
    /\ UNCHANGED writing
=============================================================================
