----------------------------- MODULE SourceCache -----------------------------
(***************************************************************************)
(* src/Cache/SourceCache and the part of WorkspaceInternalCacheFile that   *)
(* stores it: for each build id (the toolchain and configuration being     *)
(* built) the second in which it was last built and a table of values, the *)
(* hashes of commands and the results of scripts.  A file counts as        *)
(* changed when its modification time is later than the recorded second.   *)
(*                                                                         *)
(* `saved` is what is on disk between two runs of the program, `cache` is  *)
(* what the running program holds; the program dying forgets the latter.   *)
(* Time is counted in seconds, like the time_t of the code.                *)
(***************************************************************************)
EXTENDS Naturals

CONSTANTS Path,         \* the files whose modification time is looked at
          Key,          \* the keys of m_dataCache
          BuildId,      \* m_cachePathId: one per toolchain and configuration
          NoId,         \* no build id
          MaxTime       \* bound: the last second of the clock

ASSUME SourceCacheAssumption ==
    /\ MaxTime \in Nat \ {0}
    /\ NoId \notin BuildId

VARIABLES
    clock,      \* the system clock
    mtime,      \* the modification time of each file, 0 when it does not exist
    saved,      \* the workspace cache file
    cache       \* the SourceCache and output path cache in memory

cacheVars == <<clock, mtime, saved, cache>>

Time   == 0..MaxTime
Stamp  == 0..MaxTime + 1
NoData == [k \in Key |-> 0]

NoCache == [id |-> NoId, lastBuilt |-> 0, dirty |-> FALSE, data |-> NoData,
            wipe |-> FALSE]

(* Values are natural numbers: 0 for an absent or empty string.            *)
CacheTypeOK ==
    /\ clock \in Time
    /\ mtime \in [Path -> Time]
    /\ saved \in [builds: [BuildId -> [lastBuilt: Stamp, data: [Key -> Nat]]],
                  outputOf: BuildId \cup {NoId}]
    /\ cache \in [id: BuildId \cup {NoId}, lastBuilt: Stamp, dirty: BOOLEAN,
                  data: [Key -> Nat], wipe: BOOLEAN]

(* A first checkout: the files have just been written and nothing is cached. *)
CacheInit(files) ==
    /\ clock = 1
    /\ mtime = [p \in Path |-> IF p \in files THEN 1 ELSE 0]
    /\ saved = [builds |-> [i \in BuildId |-> [lastBuilt |-> 0, data |-> NoData]],
                outputOf |-> NoId]
    /\ cache = NoCache

Tick ==
    /\ clock < MaxTime
    /\ clock' = clock + 1
    /\ UNCHANGED <<mtime, saved, cache>>

-----------------------------------------------------------------------------
Exists(p) == mtime[p] # 0

FileChangedOrDoesNotExist(p) == ~Exists(p) \/ mtime[p] > cache.lastBuilt

DataCacheValueChanged(k, v) == cache.data[k] # v

(* Scripts store 2 for "1" (the script succeeded) and 1 for "0".           *)
Failure == 1
Success == 2
DataCacheValueIsFalse(k) == cache.data[k] \in {0, Failure}

AddData(table, k, v) == [table EXCEPT !.data[k] = v, !.dirty = TRUE]

(* Loading always marks the cache as dirty (updateInitializedTime).  The   *)
(* output folder belongs to the toolchain that wrote it last.              *)
LoadCache(i) ==
    cache' = [id |-> i,
              lastBuilt |-> saved.builds[i].lastBuilt,
              dirty |-> TRUE,
              data |-> saved.builds[i].data,
              wipe |-> saved.outputOf \notin {NoId, i}]

(* A slip of asJson: the stamp is written in milliseconds.                 *)
AsJson_Milliseconds == [lastBuilt |-> 1000 * (clock + 1), data |-> cache.data]

(* What save() writes for the current build: the time of saving, not of    *)
(* the checks, and one second more.                                        *)
AsJson == [lastBuilt |-> clock + 1, data |-> cache.data]

(* A cache that is not dirty is not written again.                         *)
Written == IF cache.dirty
             THEN [builds |-> [saved.builds EXCEPT ![cache.id] = AsJson],
                   outputOf |-> cache.id]
             ELSE saved

=============================================================================
