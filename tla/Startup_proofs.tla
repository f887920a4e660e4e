--------------------------- MODULE Startup_proofs ---------------------------
(***************************************************************************)
(* What a program loads from the cache file is what was last saved to the  *)
(* end, for any set of pools, however often the programs crash, and        *)
(* wherever in save_cache they do.  The invariant follows the file through *)
(* the four steps of save_cache.                                           *)
(*                                                                         *)
(* And the cold start asks for everything the exact quotes read.  Its      *)
(* invariant says what each of the nine phases has tried by the time it is *)
(* over.                                                                   *)
(***************************************************************************)
EXTENDS Startup, TLAPS

\* Two indexes with the same pools.
Same(f, g) == DOMAIN f = DOMAIN g /\ \A p \in DOMAIN f : f[p] = g[p]

Kinds == {"none", "cli", "engine"}
Places == {"down", "load", "seed", "serve", "truncate", "save", "saved"}

\* The shape of a process and of a file
Shapes ==
    /\ process \in [kind : Kinds, at : Places]
    /\ process.kind = "none" <=> process.at = "down"
    /\ file = [exists |-> file.exists, header |-> file.header, timestamp |-> file.timestamp,
               pools |-> file.pools, closed |-> file.closed]
    /\ file.header \in BOOLEAN /\ file.closed \in BOOLEAN
    /\ from_cache \in BOOLEAN

\* A file with a sentinel holds the index that was last saved.
ClosedIsSaved == file.closed => Same(file.pools, saved)

\* While it is written, it holds the records that are not due any more.
WrittenSoFar ==
    process.at = "save" =>
        /\ ~file.closed
        /\ writing \subseteq DOMAIN index
        /\ DOMAIN file.pools = DOMAIN index \ writing
        /\ \A p \in DOMAIN file.pools : file.pools[p] = index[p]

\* No index comes from the file before one is loaded from it.
NothingLoaded == process.at \in {"down", "load"} => ~from_cache

StartupInv == Shapes /\ ClosedIsSaved /\ WrittenSoFar /\ NothingLoaded /\ LoadedIsSaved

-----------------------------------------------------------------------------

\* The empty index has no pools.
LEMMA EmptyDomain == DOMAIN <<>> = {}
  OBVIOUS

\* The invariant holds before the first program.
LEMMA StartupInvInit == StartupInit => StartupInv
  <1>. SUFFICES ASSUME StartupInit PROVE StartupInv
    OBVIOUS
  <1>1. /\ process = [kind |-> "none", at |-> "down"] /\ from_cache = FALSE
        /\ file = [exists |-> FALSE, header |-> FALSE, timestamp |-> 0, pools |-> <<>>,
                   closed |-> FALSE]
    BY DEF StartupInit, NoProcess, NoFile, Program
  <1>. QED
    BY <1>1 DEF StartupInv, Shapes, Kinds, Places, ClosedIsSaved, WrittenSoFar, NothingLoaded,
         LoadedIsSaved

\* Steps that leave the process, its index and the file alone
LEMMA FrameInv ==
    ASSUME StartupInv, UNCHANGED <<Disk, ThisProcess>>
    PROVE  StartupInv'
  BY DEF StartupInv, Disk, ThisProcess, Shapes, ClosedIsSaved, Same, WrittenSoFar,
         NothingLoaded, LoadedIsSaved

\* A start takes the pools of a file only with the sentinel.
LEMMA BeginInv ==
    ASSUME StartupInv, NEW kind \in {"cli", "engine"}, NEW cached, NEW then \in {"truncate", "seed"},
           cached => Loadable, Begin(kind, cached, then)
    PROVE  StartupInv'
  <1>1. UNCHANGED Disk /\ process.at = "down" /\ ~from_cache
    BY DEF Begin, IsAt, Program, StartupInv, NothingLoaded
  <1>2. CASE cached
    <2>1. /\ process' = [kind |-> kind, at |-> then]
          /\ index' = file.pools /\ from_cache' = TRUE
      BY <1>2 DEF Begin, Program, CachedPools
    <2>2. Same(file.pools, saved)
      BY <1>2 DEF Loadable, StartupInv, ClosedIsSaved
    <2>. QED
      BY <1>1, <2>1, <2>2 DEF StartupInv, Disk, Shapes, Kinds, Places, ClosedIsSaved, Same,
           WrittenSoFar, NothingLoaded, LoadedIsSaved
  <1>3. CASE ~cached
    <2>1. process' = [kind |-> kind, at |-> "load"] /\ UNCHANGED <<index, from_cache>>
      BY <1>3 DEF Begin, Program
    <2>. QED
      BY <1>1, <2>1 DEF StartupInv, Disk, Shapes, Kinds, Places, ClosedIsSaved, Same,
           WrittenSoFar, NothingLoaded, LoadedIsSaved
  <1>. QED
    BY <1>2, <1>3

\* A step that goes on to a place other than "save", with the index as it is
LEMMA MoveInv ==
    ASSUME StartupInv, NEW place \in Places \ {"save", "down", "load"},
           process' = [process EXCEPT !.at = place], process.kind # "none",
           UNCHANGED <<Disk, index, from_cache>>
    PROVE  StartupInv'
  <1>1. process'.at = place /\ process'.kind = process.kind /\ process' \in [kind : Kinds, at : Places]
    BY DEF StartupInv, Shapes, Places
  <1>. QED
    BY <1>1 DEF StartupInv, Disk, Shapes, ClosedIsSaved, Same, WrittenSoFar, NothingLoaded,
         LoadedIsSaved

\* What load_all returns does not come from the file.
LEMMA FinishLoadInv == StartupInv /\ FinishLoad => StartupInv'
  <1>. SUFFICES ASSUME StartupInv, FinishLoad PROVE StartupInv'
    OBVIOUS
  <1>1. ~from_cache /\ process.kind # "none" /\ UNCHANGED <<Disk, from_cache>>
    BY DEF FinishLoad, StartupInv, Shapes, NothingLoaded
  <1>2. PICK place \in {"truncate", "seed"} : process' = [process EXCEPT !.at = place]
    BY DEF FinishLoad
  <1>3. process'.at = place /\ process'.kind = process.kind /\ process' \in [kind : Kinds, at : Places]
    BY <1>2 DEF StartupInv, Shapes, Places
  <1>. QED
    BY <1>1, <1>3 DEF StartupInv, Disk, Shapes, ClosedIsSaved, Same, WrittenSoFar,
         NothingLoaded, LoadedIsSaved

\* The watch list only adds curves, and no pool of the index is replaced.
LEMMA SeedInv == StartupInv /\ SeedCurves => StartupInv'
  <1>. SUFFICES ASSUME StartupInv, SeedCurves PROVE StartupInv'
    OBVIOUS
  <1>1. PICK read \in SUBSET Curves : index' = WithCurves(index, read)
    BY DEF SeedCurves
  <1>2. /\ DOMAIN index' = DOMAIN index \cup (read \cap Tradeable)
        /\ \A p \in DOMAIN index : index'[p] = index[p]
    BY <1>1 DEF WithCurves
  <1>3. process' = [kind |-> "engine", at |-> "serve"] /\ UNCHANGED <<Disk, from_cache>>
    BY DEF SeedCurves, Program
  <1>. QED
    BY <1>2, <1>3 DEF StartupInv, Disk, Shapes, Kinds, Places, ClosedIsSaved, Same,
         WrittenSoFar, NothingLoaded, LoadedIsSaved

\* save_cache: the file is truncated,
LEMMA TruncateInv == StartupInv /\ Truncate => StartupInv'
  <1>. SUFFICES ASSUME StartupInv, Truncate PROVE StartupInv'
    OBVIOUS
  <1>1. /\ file' = [exists |-> TRUE, header |-> FALSE, timestamp |-> now, pools |-> <<>>,
                    closed |-> FALSE]
        /\ writing' = DOMAIN index /\ UNCHANGED <<saved, index, from_cache>>
    BY DEF Truncate, TruncateFile, NoFile
  <1>2. /\ process'.at = "save" /\ process'.kind = process.kind /\ process.kind # "none"
        /\ process' \in [kind : Kinds, at : Places]
    BY DEF Truncate, StartupInv, Shapes, Places
  <1>. QED
    BY <1>1, <1>2, EmptyDomain DEF StartupInv, Shapes, ClosedIsSaved, WrittenSoFar,
         NothingLoaded, LoadedIsSaved

\* header and records are written,
LEMMA WriteInv == StartupInv /\ Write => StartupInv'
  <1>. SUFFICES ASSUME StartupInv, Write PROVE StartupInv'
    OBVIOUS
  <1>1. /\ process.at = "save" /\ ~file.closed
        /\ UNCHANGED <<saved, process, index, from_cache>>
    BY DEF Write, Saving, WriteHeader, WriteRecord, ThisProcess, StartupInv, WrittenSoFar
  <1>2. CASE WriteHeader
    <2>1. file' = [file EXCEPT !.header = TRUE] /\ writing' = writing
      BY <1>2 DEF WriteHeader
    <2>2. /\ file' = [exists |-> file'.exists, header |-> file'.header, timestamp |-> file'.timestamp,
                      pools |-> file'.pools, closed |-> file'.closed]
          /\ file'.header = TRUE /\ file'.closed = file.closed /\ file'.pools = file.pools
      BY <2>1 DEF StartupInv, Shapes
    <2>. QED
      BY <1>1, <2>1, <2>2 DEF StartupInv, Shapes, ClosedIsSaved, WrittenSoFar, NothingLoaded,
           LoadedIsSaved
  <1>3. CASE WriteRecord(index)
    <2>1. PICK p \in writing :
             /\ file' = [file EXCEPT !.pools =
                            [q \in DOMAIN @ \cup {p} |-> IF q = p THEN index[p] ELSE @[q]]]
             /\ writing' = writing \ {p}
      BY <1>3 DEF WriteRecord
    <2>2. /\ file' = [exists |-> file'.exists, header |-> file'.header, timestamp |-> file'.timestamp,
                      pools |-> file'.pools, closed |-> file'.closed]
          /\ file'.header = file.header /\ file'.closed = file.closed
          /\ file'.pools = [q \in DOMAIN file.pools \cup {p} |->
                               IF q = p THEN index[p] ELSE file.pools[q]]
      BY <2>1 DEF StartupInv, Shapes
    <2>3. WrittenSoFar'
      BY <1>1, <2>1, <2>2 DEF StartupInv, WrittenSoFar
    <2>. QED
      BY <1>1, <2>2, <2>3 DEF StartupInv, Shapes, ClosedIsSaved, NothingLoaded, LoadedIsSaved
  <1>. QED
    BY <1>2, <1>3 DEF Write

\* and with the sentinel the index is saved.
LEMMA FinishSaveInv == StartupInv /\ FinishSave => StartupInv'
  <1>. SUFFICES ASSUME StartupInv, FinishSave PROVE StartupInv'
    OBVIOUS
  <1>1. /\ process.at = "save" /\ process.kind # "none" /\ writing = {}
        /\ file' = [file EXCEPT !.closed = TRUE] /\ saved' = index
        /\ UNCHANGED <<writing, index, from_cache>>
    BY DEF FinishSave, Saving, WriteSentinel
  <1>2. /\ process'.at = "saved" /\ process'.kind = process.kind
        /\ process' \in [kind : Kinds, at : Places]
    BY DEF FinishSave, StartupInv, Shapes, Places
  <1>3. /\ file' = [exists |-> file'.exists, header |-> file'.header, timestamp |-> file'.timestamp,
                    pools |-> file'.pools, closed |-> file'.closed]
        /\ file'.header = file.header /\ file'.closed = TRUE /\ file'.pools = file.pools
    BY <1>1 DEF StartupInv, Shapes
  <1>4. Same(file.pools, index)
    BY <1>1 DEF StartupInv, WrittenSoFar, Same
  <1>. QED
    BY <1>1, <1>2, <1>3, <1>4 DEF StartupInv, Shapes, ClosedIsSaved, WrittenSoFar,
         NothingLoaded, LoadedIsSaved

\* A crash loses the process and leaves the file.
LEMMA CrashInv == StartupInv /\ Crash => StartupInv'
  <1>. SUFFICES ASSUME StartupInv, Crash PROVE StartupInv'
    OBVIOUS
  <1>1. /\ process' = [kind |-> "none", at |-> "down"] /\ from_cache' = FALSE
        /\ UNCHANGED <<file, saved, writing>>
    BY DEF Crash, Program, Disk
  <1>. QED
    BY <1>1 DEF StartupInv, Shapes, Kinds, Places, ClosedIsSaved, Same, WrittenSoFar,
         NothingLoaded, LoadedIsSaved

\* No step breaks it.
LEMMA StartupInvStep == StartupInv /\ [StartupNext]_startup_vars => StartupInv'
  <1>. SUFFICES ASSUME StartupInv, [StartupNext]_startup_vars PROVE StartupInv'
    OBVIOUS
  <1>1. CASE NewTime
    BY <1>1, FrameInv DEF NewTime
  <1>2. CASE StartCli
    BY <1>2, BeginInv DEF StartCli
  <1>3. CASE StartEngine
    BY <1>3, BeginInv DEF StartEngine
  <1>4. CASE Load
    BY <1>4, FrameInv DEF Load
  <1>5. CASE FinishLoad
    BY <1>5, FinishLoadInv
  <1>6. CASE SeedCurves
    BY <1>6, SeedInv
  <1>7. CASE Cold
    BY <1>7, FrameInv DEF Cold
  <1>8. CASE SaveAfterColdStart
    <2>1. process' = [process EXCEPT !.at = "truncate"] /\ process.kind # "none"
      BY <1>8 DEF SaveAfterColdStart, IsAt, Program
    <2>. QED
      BY <1>8, <2>1, MoveInv DEF SaveAfterColdStart, Places
  <1>9. CASE Truncate
    BY <1>9, TruncateInv
  <1>10. CASE Write
    BY <1>10, WriteInv
  <1>11. CASE FinishSave
    BY <1>11, FinishSaveInv
  <1>12. CASE FailSave
    <2>1. process.kind # "none"
      BY <1>12 DEF FailSave, StartupInv, Shapes
    <2>. QED
      BY <1>12, <2>1, MoveInv DEF FailSave, Places
  <1>13. CASE Crash
    BY <1>13, CrashInv
  <1>14. CASE UNCHANGED startup_vars
    BY <1>14, FrameInv DEF startup_vars, Disk, ThisProcess
  <1>. QED
    BY <1>1, <1>2, <1>3, <1>4, <1>5, <1>6, <1>7, <1>8, <1>9, <1>10, <1>11, <1>12, <1>13, <1>14
       DEF StartupNext

\* However often the programs that share the cache file crash, in the middle of
\* save_cache or anywhere else, what a start loads from the file is the index
\* that was last saved to the end (load_cache, cache.rs:299-338).
THEOREM LoadedPoolsWereSaved == StartupSpec => []LoadedIsSaved
  <1>1. StartupInv => LoadedIsSaved
    BY DEF StartupInv
  <1>. QED
    BY StartupInvInit, StartupInvStep, <1>1, PTL DEF StartupSpec

-----------------------------------------------------------------------------
(***************************************************************************)
(* The cold start.  Each phase leaves tried what it is there for; to keep  *)
(* that, what a later phase reads off the store must not change under it.  *)
(***************************************************************************)

\* What was asked for, with or without an answer
Tried == stored \cup lost

V1(idx) == OfDex(idx, "Meteora DAMM V1")
Polls == {"Meteora DAMM V1", "Raydium AMM V4"}

\* A process has nothing in its store before it serves.
ColdBefore == ~Serving => ColdInit

\* The hot-vault refresh polls no pool of another kind, and no account of
\* another kind than these.
PollsApart ==
    \A k \in polled : Dex[k.pool] \in Polls /\ k.kind \in {"vault", "state", "lp", "mint"}

\* No bitmap extension is in the store of a pool that has none.
ExtensionsAre == \A p : Key("extension", p) \in stored => p \in Extended

\* After each phase the accounts it is there for have been asked for.
VaultsTried == phase > 1 => Keys("vault", VaultPools(index)) \subseteq Tried
TicksTried == phase > 3 => \E top \in RichestClmm(index) : Keys("ticks", top) \subseteq Tried
BinsTried == phase > 4 => Keys("bins", OfDex(index, "Meteora DLMM") \ Extended) \subseteq Tried
LpTried == phase > 5 => Keys("lp", V1(index)) \subseteq Tried
StatesTried == phase > 6 => Keys("state", V1(index)) \subseteq Tried
MintsTried == phase > 7 => \A p \in V1(index) : Key("state", p) \in lost \/ Key("mint", p) \in Tried
ArraysTried == phase > 8 => Keys("arrays", WhirlpoolPools(index)) \subseteq Tried
ConfigsTried == phase > 9 => Keys("config", ConfigPools(index)) \subseteq Tried

PhasesTried ==
    /\ phase \in Nat \ {0}
    /\ VaultsTried /\ TicksTried /\ BinsTried /\ LpTried
    /\ StatesTried /\ MintsTried /\ ArraysTried /\ ConfigsTried

ColdInv == ColdBefore /\ PollsApart /\ ExtensionsAre /\ PhasesTried

\* The index and the file hold pools only.
PoolsIndexed == DOMAIN index \subseteq Pools /\ DOMAIN file.pools \subseteq Pools

\* The phases in numbers
LEMMA PhaseKinds ==
    /\ Len(Phases) = 9
    /\ Phases[1] = "vault" /\ Phases[2] = "extension" /\ Phases[3] = "ticks" /\ Phases[4] = "bins"
    /\ Phases[5] = "lp" /\ Phases[6] = "state" /\ Phases[7] = "mint" /\ Phases[8] = "arrays"
    /\ Phases[9] = "config"
  BY DEF Phases

\* Two keys
LEMMA KeyIs ==
    /\ \A k, p : Key(k, p).kind = k /\ Key(k, p).pool = p
    /\ \A k, S, x : x \in Keys(k, S) => x.kind = k /\ x.pool \in S /\ x = Key(k, x.pool)
    /\ \A k, S, p : Key(k, p) \in Keys(k, S) <=> p \in S
  <1>1. \A k, p : Key(k, p).kind = k /\ Key(k, p).pool = p
    BY DEF Key
  <1>2. \A k, S, x : x \in Keys(k, S) => \E p \in S : x = Key(k, p)
    BY DEF Keys
  <1>3. \A k, S, p : p \in S => Key(k, p) \in Keys(k, S)
    BY DEF Keys
  <1>4. \A k, S, x : x \in Keys(k, S) => x.kind = k /\ x.pool \in S /\ x = Key(k, x.pool)
    BY <1>1, <1>2
  <1>. QED
    BY <1>1, <1>3, <1>4

\* Storing more of what is tried keeps what the phases have done, as long as
\* the balances of Raydium CLMM pools stay.
LEMMA MoreIsTried ==
    ASSUME PhasesTried, phase' = phase, index' = index, stored \subseteq stored', lost' = lost,
           phase > 3 => \A p : Dex[p] = "Raydium CLMM" =>
                          (Key("vault", p) \in stored' <=> Key("vault", p) \in stored)
    PROVE  PhasesTried'
  <1>1. Tried \subseteq Tried'
    BY DEF Tried
  <1>2. \A d : OfDex(index, d)' = OfDex(index, d)
    BY DEF OfDex
  <1>3. phase > 3 => RichestClmm(index)' = RichestClmm(index)
    BY DEF RichestClmm, IsRichest, Balance, OfDex, PoolsOf
  <1>. QED
    BY <1>1, <1>2, <1>3
       DEF PhasesTried, VaultsTried, TicksTried, BinsTried, LpTried, StatesTried, MintsTried, ArraysTried,
           ConfigsTried, VaultPools, V1, WhirlpoolPools, ConfigPools

\* What a phase asks for
LEMMA AskedIs ==
    ASSUME NEW pools \in Asked(index)
    PROVE  /\ phase = 1 => pools = VaultPools(index)
           /\ phase = 3 => pools \in RichestClmm(index)
           /\ phase = 2 => pools = Extended
           /\ phase = 4 => pools = ActiveBinPools(index)
           /\ phase \in {5, 6} => pools = V1(index)
           /\ phase = 7 => pools = VaultStatePools(index)
           /\ phase = 8 => pools = WhirlpoolPools(index)
           /\ phase = 9 => pools = ConfigPools(index)
  BY PhaseKinds DEF Asked, V1

\* One phase
LEMMA FetchTried ==
    ASSUME PhasesTried, ExtensionsAre, FetchPhase(index), index' = index
    PROVE  PhasesTried' /\ ExtensionsAre'
  <1>0. VaultsTried /\ TicksTried /\ BinsTried /\ LpTried /\ StatesTried /\ MintsTried /\ ArraysTried /\ ConfigsTried
    BY DEF PhasesTried
  <1>1. phase \in 1 .. 9 /\ phase' = phase + 1 /\ phase \in Nat
    <2>1. phase \in Nat \ {0} /\ ~(phase > Len(Phases)) /\ phase' = phase + 1
      BY DEF FetchPhase, ColdDone, PhasesTried
    <2>. QED
      BY <2>1, PhaseKinds
  <1>. DEFINE kind == Phases[phase]
  <1>2. PICK pools \in Asked(index) :
          LET keys == Keys(kind, pools)
          IN  \/ stored' = stored \cup keys /\ lost' = lost
              \/ lost' = lost \cup keys /\ stored' = stored
    BY DEF FetchPhase
  <1>3. Tried \subseteq Tried' /\ Keys(kind, pools) \subseteq Tried' /\ lost \subseteq lost'
    BY <1>2 DEF Tried
  <1>4. \A k \in stored' : k \in stored \/ (k.kind = kind /\ k.pool \in pools)
    BY <1>2, KeyIs
  <1>5. kind = "vault" <=> phase = 1
    BY <1>1, PhaseKinds
  <1>6. kind = "extension" <=> phase = 2
    BY <1>1, PhaseKinds
  <1>7. \A d : OfDex(index, d)' = OfDex(index, d)
    BY DEF OfDex
  <1>8. phase # 1 => RichestClmm(index)' = RichestClmm(index)
    <2>1. ASSUME phase # 1, NEW p PROVE Key("vault", p) \in stored' <=> Key("vault", p) \in stored
      <3>1. Key("vault", p).kind # kind
        BY <1>5, <2>1, KeyIs
      <3>. QED
        BY <1>2, <1>4, <3>1
    <2>. QED
      BY <2>1 DEF RichestClmm, IsRichest, Balance, OfDex, PoolsOf
  <1>9. ExtensionsAre'
    <2>. SUFFICES ASSUME NEW p, Key("extension", p) \in stored' PROVE p \in Extended
      BY DEF ExtensionsAre
    <2>1. CASE Key("extension", p) \in stored
      BY <2>1 DEF ExtensionsAre
    <2>2. CASE Key("extension", p).kind = kind /\ Key("extension", p).pool \in pools
      BY <1>6, <2>2, KeyIs, AskedIs
    <2>. QED
      BY <1>4, <2>1, <2>2
  <1>10. phase = 1 => Keys("vault", VaultPools(index)) \subseteq Tried'
    BY <1>3, PhaseKinds, AskedIs
  <1>11. phase = 3 => \E top \in RichestClmm(index) : Keys("ticks", top) \subseteq Tried'
    BY <1>3, PhaseKinds, AskedIs
  <1>12. phase = 4 => Keys("bins", OfDex(index, "Meteora DLMM") \ Extended) \subseteq Tried'
    <2>. SUFFICES ASSUME phase = 4, NEW p \in OfDex(index, "Meteora DLMM") \ Extended
                  PROVE  Key("bins", p) \in Tried'
      BY DEF Keys
    <2>1. pools = ActiveBinPools(index) /\ kind = "bins"
      BY PhaseKinds, AskedIs
    <2>2. p \in pools
      BY <2>1 DEF ActiveBinPools, BitmapExt, ExtensionsAre
    <2>. QED
      BY <1>3, <2>1, <2>2, KeyIs
  <1>13. phase = 5 => Keys("lp", V1(index)) \subseteq Tried'
    BY <1>3, PhaseKinds, AskedIs
  <1>14. phase = 6 => Keys("state", V1(index)) \subseteq Tried'
    BY <1>3, PhaseKinds, AskedIs
  <1>15. phase = 7 => \A p \in V1(index) : Key("state", p) \in lost' \/ Key("mint", p) \in Tried'
    <2>. SUFFICES ASSUME phase = 7, NEW p \in V1(index), Key("state", p) \notin lost'
                  PROVE  Key("mint", p) \in Tried'
      OBVIOUS
    <2>1. Key("state", p) \in stored
      <3>1. Key("state", p) \in Keys("state", V1(index)) /\ Key("state", p) \notin lost
        BY <1>3, KeyIs
      <3>2. Keys("state", V1(index)) \subseteq Tried
        BY DEF PhasesTried, StatesTried
      <3>. QED
        BY <3>1, <3>2 DEF Tried
    <2>2. p \in pools /\ kind = "mint"
      BY <2>1, PhaseKinds, AskedIs DEF VaultStatePools, V1
    <2>. QED
      BY <1>3, <2>2, KeyIs
  <1>16. phase = 8 => Keys("arrays", WhirlpoolPools(index)) \subseteq Tried'
    BY <1>3, PhaseKinds, AskedIs
  <1>17. phase = 9 => Keys("config", ConfigPools(index)) \subseteq Tried'
    BY <1>3, PhaseKinds, AskedIs
  <1>18. /\ VaultPools(index)' = VaultPools(index) /\ V1(index)' = V1(index)
         /\ WhirlpoolPools(index)' = WhirlpoolPools(index) /\ ConfigPools(index)' = ConfigPools(index)
    BY <1>7 DEF VaultPools, V1, WhirlpoolPools, ConfigPools
  <1>. HIDE DEF kind
  <1>19. PhasesTried'
    <2>1. phase' \in Nat \ {0}
      BY <1>1
    <2>2. phase' > 1 => Keys("vault", VaultPools(index)) \subseteq Tried'
      BY <1>0, <1>1, <1>3, <1>10 DEF VaultsTried
    <2>3. phase' > 3 => \E top \in RichestClmm(index) : Keys("ticks", top) \subseteq Tried'
      BY <1>0, <1>1, <1>3, <1>11 DEF TicksTried
    <2>4. phase' > 4 => Keys("bins", OfDex(index, "Meteora DLMM") \ Extended) \subseteq Tried'
      <3>. DEFINE keys == Keys("bins", OfDex(index, "Meteora DLMM") \ Extended)
      <3>1. (phase > 4 => keys \subseteq Tried) /\ (phase = 4 => keys \subseteq Tried')
        BY <1>0, <1>12 DEF BinsTried
      <3>. HIDE DEF keys
      <3>2. phase' > 4 => keys \subseteq Tried'
        BY <1>1, <1>3, <3>1
      <3>. QED
        BY <3>2 DEF keys
    <2>5. phase' > 5 => Keys("lp", V1(index)) \subseteq Tried'
      BY <1>0, <1>1, <1>3, <1>13 DEF LpTried
    <2>6. phase' > 6 => Keys("state", V1(index)) \subseteq Tried'
      BY <1>0, <1>1, <1>3, <1>14 DEF StatesTried
    <2>7. phase' > 7 => \A p \in V1(index) : Key("state", p) \in lost' \/ Key("mint", p) \in Tried'
      BY <1>0, <1>1, <1>3, <1>15 DEF MintsTried
    <2>8. phase' > 8 => Keys("arrays", WhirlpoolPools(index)) \subseteq Tried'
      BY <1>0, <1>1, <1>3, <1>16 DEF ArraysTried
    <2>9. phase' > 9 => Keys("config", ConfigPools(index)) \subseteq Tried'
      BY <1>0, <1>1, <1>3, <1>17 DEF ConfigsTried
    <2>10. phase' > 3 => RichestClmm(index)' = RichestClmm(index)
      BY <1>1, <1>8
    <2>11. OfDex(index, "Meteora DLMM")' = OfDex(index, "Meteora DLMM")
      BY <1>7
    <2>. QED
      BY <1>18, <2>1, <2>2, <2>3, <2>4, <2>5, <2>6, <2>7, <2>8, <2>9, <2>10, <2>11
         DEF PhasesTried, VaultsTried, TicksTried, BinsTried, LpTried, StatesTried, MintsTried,
             ArraysTried, ConfigsTried
  <1>. QED
    BY <1>9, <1>19

-----------------------------------------------------------------------------

\* A process that is not serving has tried nothing and polls nothing.
LEMMA ColdFresh == ColdInit => PollsApart /\ ExtensionsAre /\ PhasesTried
  BY DEF ColdInit, PollsApart, ExtensionsAre, PhasesTried, VaultsTried, TicksTried, BinsTried, LpTried,
       StatesTried, MintsTried, ArraysTried, ConfigsTried

\* That is how a process starts.
LEMMA ColdInvInit == StartupInit => ColdInv
  BY ColdFresh DEF StartupInit, NoProcess, ColdInv, ColdBefore

\* The keys the refresh takes off the registry,
LEMMA TakeApart ==
    ASSUME TakeKeys(index)
    PROVE  PollsApart'
  <1>1. PICK ranked \in SUBSET (V1(index) \cup OfDex(index, "Raydium AMM V4")) :
            polled' = Keys("vault", ranked) \cup Keys("state", ranked \cap V1(index))
                      \cup Keys("lp", ranked \cap V1(index))
    BY DEF TakeKeys, V1
  <1>2. \A p \in ranked : Dex[p] \in Polls
    BY <1>1 DEF V1, OfDex, PoolsOf, Polls
  <1>. SUFFICES ASSUME NEW k \in polled'
                PROVE  Dex[k.pool] \in Polls /\ k.kind \in {"vault", "state", "lp", "mint"}
    BY DEF PollsApart
  <1>3. k.kind \in {"vault", "state", "lp"} /\ k.pool \in ranked
    <2>. DEFINE some == ranked \cap V1(index)
    <2>. HIDE DEF some
    <2>1. k \in Keys("vault", ranked) \/ k \in Keys("state", some) \/ k \in Keys("lp", some)
      BY <1>1 DEF some
    <2>2. k.kind \in {"vault", "state", "lp"} /\ (k.pool \in ranked \/ k.pool \in some)
      <3>1. \A kind, pools : k \in Keys(kind, pools) => k.kind = kind /\ k.pool \in pools
        BY KeyIs
      <3>. QED
        BY <2>1, <3>1, Zenon
    <2>. QED
      BY <2>2 DEF some
  <1>. QED
    BY <1>2, <1>3

\* and the mints it adds
LEMMA ResolveApart ==
    ASSUME PollsApart, ResolveMints
    PROVE  PollsApart'
  <1>1. polled' = polled \cup {Key("mint", k.pool) : k \in {s \in polled \cap stored : s.kind = "state"}}
    BY DEF ResolveMints
  <1>. SUFFICES ASSUME NEW k \in polled'
                PROVE  Dex[k.pool] \in Polls /\ k.kind \in {"vault", "state", "lp", "mint"}
    BY DEF PollsApart
  <1>2. CASE k \in polled
    BY <1>2 DEF PollsApart
  <1>3. CASE k \notin polled
    <2>1. PICK s \in polled : k = Key("mint", s.pool)
      BY <1>1, <1>3
    <2>2. k.kind = "mint" /\ k.pool = s.pool
      BY <2>1, KeyIs
    <2>. QED
      BY <2>2 DEF PollsApart
  <1>. QED
    BY <1>2, <1>3

\* A round of the refresh stores no balance of a Raydium CLMM pool and no
\* bitmap extension.
LEMMA PollTried ==
    ASSUME PollsApart, ExtensionsAre, PhasesTried, PollKeys, index' = index
    PROVE  PollsApart' /\ ExtensionsAre' /\ PhasesTried'
  <1>1. stored' = stored \cup polled /\ lost' = lost /\ phase' = phase /\ polled' = polled
    BY DEF PollKeys
  <1>2. \A p : Key("extension", p) \notin polled
    <2>. SUFFICES ASSUME NEW p, Key("extension", p) \in polled PROVE FALSE
      OBVIOUS
    <2>1. Key("extension", p).kind = "extension"
      BY KeyIs
    <2>. QED
      BY <2>1 DEF PollsApart
  <1>3. \A p : Dex[p] = "Raydium CLMM" => Key("vault", p) \notin polled
    <2>. SUFFICES ASSUME NEW p, Key("vault", p) \in polled PROVE Dex[p] # "Raydium CLMM"
      OBVIOUS
    <2>1. Key("vault", p).pool = p
      BY KeyIs
    <2>. QED
      BY <2>1 DEF PollsApart, Polls
  <1>4. PollsApart'
    BY <1>1 DEF PollsApart
  <1>5. ExtensionsAre'
    BY <1>1, <1>2 DEF ExtensionsAre
  <1>6. /\ stored \subseteq stored'
        /\ \A p : Dex[p] = "Raydium CLMM" => (Key("vault", p) \in stored' <=> Key("vault", p) \in stored)
    BY <1>1, <1>3
  <1>7. PhasesTried'
    BY <1>1, <1>6, MoreIsTried
  <1>. QED
    BY <1>4, <1>5, <1>7

\* A step of the cold start or of the refresh
LEMMA ColdStep ==
    ASSUME ColdInv, Cold
    PROVE  ColdInv'
  <1>1. index' = index /\ process' = process
    BY DEF Cold, ThisProcess
  <1>2. ColdBefore'
    BY <1>1 DEF Cold, Serving, ColdBefore
  <1>3. CASE FetchPhase(index)
    <2>1. PhasesTried' /\ ExtensionsAre'
      BY <1>1, <1>3, FetchTried DEF ColdInv
    <2>2. polled' = polled
      BY <1>3 DEF FetchPhase
    <2>. QED
      BY <1>2, <2>1, <2>2 DEF ColdInv, PollsApart
  <1>4. CASE TakeKeys(index) \/ ResolveMints
    <2>1. PollsApart'
      BY <1>4, TakeApart, ResolveApart DEF ColdInv
    <2>2. stored' = stored /\ lost' = lost /\ phase' = phase
      BY <1>4 DEF TakeKeys, ResolveMints
    <2>3. PhasesTried'
      BY <1>1, <2>2, MoreIsTried DEF ColdInv
    <2>. QED
      BY <1>2, <2>1, <2>2, <2>3 DEF ColdInv, ExtensionsAre
  <1>5. CASE PollKeys
    <2>1. PollsApart' /\ ExtensionsAre' /\ PhasesTried'
      BY <1>1, <1>5, PollTried DEF ColdInv
    <2>. QED
      BY <1>2, <2>1 DEF ColdInv
  <1>. QED
    BY <1>3, <1>4, <1>5 DEF Cold

\* The index changes only while nothing is served.
LEMMA ColdInvStep ==
    ASSUME ColdInv, Shapes, [StartupNext]_startup_vars
    PROVE  ColdInv'
  <1>1. CASE Cold
    BY <1>1, ColdStep
  <1>2. CASE Crash
    <2>1. ColdInit' /\ process' = [kind |-> "none", at |-> "down"]
      BY <1>2 DEF Crash, ColdInit, Program
    <2>2. (PollsApart /\ ExtensionsAre /\ PhasesTried)'
      BY <2>1, ColdFresh, PTL
    <2>. QED
      BY <2>1, <2>2 DEF ColdInv, ColdBefore
  <1>3. CASE cold_vars' = cold_vars /\ ~Serving
    <2>1. ColdInit'
      BY <1>3 DEF ColdInv, ColdBefore, ColdInit, cold_vars
    <2>2. (PollsApart /\ ExtensionsAre /\ PhasesTried)'
      BY <2>1, ColdFresh, PTL
    <2>. QED
      BY <2>1, <2>2 DEF ColdInv, ColdBefore
  <1>4. CASE cold_vars' = cold_vars /\ index' = index /\ Serving'
    <2>1. stored' = stored /\ lost' = lost /\ phase' = phase /\ polled' = polled
      BY <1>4 DEF cold_vars
    <2>2. PhasesTried'
      BY <1>4, <2>1, MoreIsTried DEF ColdInv
    <2>. QED
      BY <1>4, <2>1, <2>2 DEF ColdInv, ColdBefore, PollsApart, ExtensionsAre
  <1>5. ASSUME cold_vars' = cold_vars, process' = process, index' = index
        PROVE  ColdInv'
    BY <1>3, <1>4, <1>5 DEF Serving
  <1>6. CASE NewTime \/ Load \/ Write \/ UNCHANGED startup_vars
    BY <1>5, <1>6 DEF NewTime, Load, Write, ThisProcess, startup_vars
  <1>7. CASE StartCli \/ StartEngine
    <2>1. cold_vars' = cold_vars /\ process = [kind |-> "none", at |-> "down"]
      BY <1>7 DEF StartCli, StartEngine, Begin, IsAt, Program
    <2>. QED
      BY <1>3, <2>1 DEF Serving
  <1>8. CASE FinishLoad \/ SeedCurves
    <2>1. cold_vars' = cold_vars /\ process.at \in {"load", "seed"}
      BY <1>8 DEF FinishLoad, SeedCurves
    <2>. QED
      BY <1>3, <2>1 DEF Serving
  <1>9. CASE SaveAfterColdStart \/ Truncate \/ FinishSave \/ FailSave
    <2>1. cold_vars' = cold_vars /\ index' = index
      BY <1>9 DEF SaveAfterColdStart, Truncate, FinishSave, FailSave
    <2>2. PICK place \in {"truncate", "save", "saved"} : process' = [process EXCEPT !.at = place]
      BY <1>9 DEF SaveAfterColdStart, Truncate, FinishSave, FailSave, IsAt, Program
    <2>3. process'.kind = process.kind /\ process'.at \notin {"load", "seed"}
      BY <2>2 DEF Shapes
    <2>. QED
      BY <1>3, <1>4, <2>1, <2>3 DEF Serving
  <1>. QED
    BY <1>1, <1>2, <1>6, <1>7, <1>8, <1>9 DEF StartupNext

-----------------------------------------------------------------------------

\* The records save_cache writes are of pools of the index.
LEMMA PoolsInFile ==
    ASSUME PoolsIndexed, StartupInv, Write
    PROVE  PoolsIndexed'
  <1>1. process.at = "save" /\ index' = index
    BY DEF Write, Saving, ThisProcess
  <1>2. CASE WriteHeader
    <2>1. file'.pools = file.pools
      BY <1>2 DEF WriteHeader, StartupInv, Shapes
    <2>. QED
      BY <1>1, <2>1 DEF PoolsIndexed
  <1>3. CASE WriteRecord(index)
    <2>1. PICK p \in writing :
            file' = [file EXCEPT !.pools =
                       [q \in DOMAIN @ \cup {p} |-> IF q = p THEN index[p] ELSE @[q]]]
      BY <1>3 DEF WriteRecord
    <2>2. DOMAIN file'.pools = DOMAIN file.pools \cup {p}
      <3>1. file'.pools = [q \in DOMAIN file.pools \cup {p} |-> IF q = p THEN index[p] ELSE file.pools[q]]
        BY <2>1 DEF StartupInv, Shapes
      <3>. QED
        BY <3>1
    <2>3. p \in DOMAIN index
      BY <1>1 DEF StartupInv, WrittenSoFar
    <2>. QED
      BY <1>1, <2>2, <2>3 DEF PoolsIndexed
  <1>. QED
    BY <1>2, <1>3 DEF Write

\* Every other step takes its pools from the file, the RPC or the watch list.
LEMMA PoolsIndexedStep ==
    ASSUME PoolsIndexed, StartupInv, [StartupNext]_startup_vars
    PROVE  PoolsIndexed'
  <1>1. CASE index' = index /\ file' = file
    BY <1>1 DEF PoolsIndexed
  <1>2. CASE NewTime \/ Load \/ Cold \/ SaveAfterColdStart \/ FailSave \/ UNCHANGED startup_vars
    BY <1>1, <1>2 DEF NewTime, Load, Cold, SaveAfterColdStart, FailSave, ThisProcess, Disk, startup_vars
  <1>3. CASE StartCli \/ StartEngine
    <2>1. file' = file /\ (index' = index \/ index' = file.pools)
      BY <1>3 DEF StartCli, StartEngine, Begin, CachedPools, Disk
    <2>. QED
      BY <2>1 DEF PoolsIndexed
  <1>4. CASE FinishLoad
    <2>1. file' = file /\ index' = Loaded
      BY <1>4 DEF FinishLoad, Disk
    <2>2. DOMAIN Loaded \subseteq Pools
      BY DEF Loaded
    <2>. QED
      BY <2>1, <2>2 DEF PoolsIndexed
  <1>5. CASE SeedCurves
    <2>1. PICK read \in SUBSET Curves : index' = WithCurves(index, read)
      BY <1>5 DEF SeedCurves
    <2>2. DOMAIN index' = DOMAIN index \cup (read \cap Tradeable)
      BY <2>1 DEF WithCurves
    <2>. QED
      BY <1>5, <2>1, <2>2, CurveAssumption DEF PoolsIndexed, SeedCurves, Disk
  <1>6. CASE Truncate
    <2>1. index' = index /\ file'.pools = <<>>
      BY <1>6 DEF Truncate, TruncateFile, NoFile
    <2>. QED
      BY <2>1, EmptyDomain DEF PoolsIndexed
  <1>7. CASE Write
    BY <1>7, PoolsInFile
  <1>8. CASE FinishSave
    <2>1. index' = index /\ file'.pools = file.pools
      BY <1>8 DEF FinishSave, WriteSentinel, StartupInv, Shapes
    <2>. QED
      BY <2>1 DEF PoolsIndexed
  <1>9. CASE Crash
    BY <1>9, EmptyDomain DEF Crash, Disk, PoolsIndexed
  <1>. QED
    BY <1>2, <1>3, <1>4, <1>5, <1>6, <1>7, <1>8, <1>9 DEF StartupNext

\* What the phases have tried is what the quotes need.
LEMMA TriedIsNeeded ==
    ASSUME ColdInv, PoolsIndexed
    PROVE  ColdStartCovers
  <1>. SUFFICES ASSUME ColdDone, NEW p \in DOMAIN index
                PROVE  Needs(index, p) \subseteq Tried
    BY DEF ColdStartCovers, Tried
  <1>1. phase > 9 /\ phase \in Nat
    BY PhaseKinds DEF ColdDone, ColdInv, PhasesTried
  <1>2. p \in OfDex(index, Dex[p])
    BY DEF PoolsIndexed, OfDex, PoolsOf
  <1>3. Dex[p] # "Pumpfun AMM" => Key("vault", p) \in Tried
    <2>1. Dex[p] # "Pumpfun AMM" => Key("vault", p) \in Keys("vault", VaultPools(index))
      BY KeyIs DEF VaultPools
    <2>2. Keys("vault", VaultPools(index)) \subseteq Tried
      <3>1. VaultsTried /\ phase > 1
        BY <1>1 DEF ColdInv, PhasesTried
      <3>. QED
        BY <3>1 DEF VaultsTried
    <2>. QED
      BY <2>1, <2>2
  <1>4. CASE Dex[p] = "Meteora DAMM V1"
    <2>1. p \in V1(index)
      BY <1>2, <1>4 DEF V1
    <2>2. Key("lp", p) \in Tried /\ Key("state", p) \in Tried
      <3>1. Key("lp", p) \in Keys("lp", V1(index)) /\ Key("state", p) \in Keys("state", V1(index))
        BY <2>1, KeyIs
      <3>. QED
        BY <1>1, <3>1 DEF ColdInv, PhasesTried, LpTried, StatesTried
    <2>3. Key("state", p) \in lost \/ Key("mint", p) \in Tried
      BY <1>1, <2>1 DEF ColdInv, PhasesTried, MintsTried
    <2>4. Needs(index, p) = {Key("vault", p), Key("state", p), Key("lp", p)} \cup
                            (IF Key("state", p) \in lost THEN {} ELSE {Key("mint", p)})
      BY <1>4 DEF Needs
    <2>. QED
      BY <1>3, <1>4, <2>2, <2>3, <2>4
  <1>5. CASE Dex[p] = "Meteora DLMM"
    <2>1. p \notin Extended => Key("bins", p) \in Tried
      <3>1. p \notin Extended => Key("bins", p) \in Keys("bins", OfDex(index, "Meteora DLMM") \ Extended)
        BY <1>2, <1>5 DEF Keys
      <3>2. Keys("bins", OfDex(index, "Meteora DLMM") \ Extended) \subseteq Tried
        <4>1. BinsTried /\ phase > 4
          BY <1>1 DEF ColdInv, PhasesTried
        <4>. QED
          BY <4>1 DEF BinsTried
      <3>. QED
        BY <3>1, <3>2
    <2>2. Needs(index, p) = {Key("vault", p)} \cup (IF p \in Extended THEN {} ELSE {Key("bins", p)})
      BY <1>5 DEF Needs
    <2>. QED
      BY <1>3, <1>5, <2>1, <2>2
  <1>6. CASE Dex[p] = "Orca Whirlpool"
    <2>1. Key("arrays", p) \in Keys("arrays", WhirlpoolPools(index))
      BY <1>2, <1>6, KeyIs DEF WhirlpoolPools
    <2>2. Key("arrays", p) \in Tried
      BY <1>1, <2>1 DEF ColdInv, PhasesTried, ArraysTried
    <2>3. Needs(index, p) = {Key("vault", p), Key("arrays", p)}
      BY <1>6 DEF Needs
    <2>. QED
      BY <1>3, <1>6, <2>2, <2>3
  <1>7. CASE Dex[p] = "Raydium CLMM"
    <2>1. Key("config", p) \in Keys("config", ConfigPools(index))
      BY <1>2, <1>7, KeyIs DEF ConfigPools
    <2>2. Key("config", p) \in Tried
      BY <1>1, <2>1 DEF ColdInv, PhasesTried, ConfigsTried
    <2>3. PICK top \in RichestClmm(index) : Keys("ticks", top) \subseteq Tried
      BY <1>1 DEF ColdInv, PhasesTried, TicksTried
    <2>4. p \in top => Key("ticks", p) \in Tried
      BY <2>3, KeyIs
    <2>5. Needs(index, p) = {Key("vault", p), Key("config", p)} \cup
                            (IF \E set \in RichestClmm(index) : p \notin set THEN {} ELSE {Key("ticks", p)})
      BY <1>7 DEF Needs
    <2>. QED
      BY <1>3, <1>7, <2>2, <2>3, <2>4, <2>5
  <1>8. CASE Dex[p] \notin {"Meteora DAMM V1", "Meteora DLMM", "Orca Whirlpool", "Raydium CLMM"}
    BY <1>8 DEF Needs
  <1>. QED
    BY <1>4, <1>5, <1>6, <1>7, <1>8

\* For any pools and any failures: once the cold start is over, every account
\* that the exact quote of an indexed pool reads has been fetched or was in a
\* batch that failed (bin/engine.rs, fetch_damm_v1_aux), although the phases
\* read the store, the hot-vault refresh writes it, and programs crash.
THEOREM ColdStartCovered == StartupSpec => []ColdStartCovers
  <1>1. StartupInit => PoolsIndexed
    BY EmptyDomain DEF StartupInit, NoProcess, NoFile, PoolsIndexed
  <1>2. StartupInit => StartupInv /\ ColdInv /\ PoolsIndexed
    BY <1>1, StartupInvInit, ColdInvInit
  <1>3. StartupInv /\ ColdInv /\ PoolsIndexed /\ [StartupNext]_startup_vars
        => (StartupInv /\ ColdInv /\ PoolsIndexed)'
    BY StartupInvStep, ColdInvStep, PoolsIndexedStep DEF StartupInv
  <1>4. StartupInv /\ ColdInv /\ PoolsIndexed => ColdStartCovers
    BY TriedIsNeeded
  <1>. QED
    BY <1>2, <1>3, <1>4, PTL DEF StartupSpec
=============================================================================
