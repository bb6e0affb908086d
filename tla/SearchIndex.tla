---------------------------- MODULE SearchIndex ----------------------------
(***************************************************************************)
(* The keyword index of a namespace (search/index.ts): a DuckDB file under *)
(* .search/ that any process may rebuild, before it answers a read or on a *)
(* command.  One rebuild runs per process (rebuildInFlight) and, by a lock *)
(* file in the namespace, one per host; who finds the lock waits and uses  *)
(* what the owner leaves.  A rebuild may fail at any step, a process may   *)
(* be killed at any step, and a lock ten minutes old whose process is dead *)
(* is removed.                                                             *)
(*                                                                         *)
(* Source rows are numbered as they are acknowledged, so a number is also  *)
(* the time of a write.  The pid of a dead process is not given to another. *)
(* Calls that join a read or a rebuild in their process are answered as    *)
(* the call they joined.                                                   *)
(***************************************************************************)
EXTENDS Integers, FiniteSets

CONSTANTS
  Searcher,        \* processes that read or rebuild the index
  NoIndex,         \* no such file
  MaxSourceRows,   \* bound: rows written
  AutoBuildRows,   \* most rows a read indexes (DUCKBRAIN_SEARCH_AUTOBUILD_MAX_ROWS)
  MaxSearchFaults  \* bound: kills and failures

ASSUME SearchIndexAssumption ==
  /\ {MaxSourceRows, AutoBuildRows, MaxSearchFaults} \subseteq Nat
  /\ \A lock \in [by : Searcher, named : BOOLEAN, dead : BOOLEAN, old : BOOLEAN] : lock # NoIndex

VARIABLES
  sourceRows,    \* rows in the JSONL files
  sidecar,       \* .search/: the index, its meta, the one being built, the staged rows
  rebuildLock,   \* .search.rebuild.lock
  flight,        \* the rebuild of each process
  reading,       \* a keyword search in each process
  searchFaults,
  racedRows,     \* history: rows written while a rebuild ran, and not indexed since
  stoleLock      \* history: a lock was removed as stale that was another's

searchVars ==
  <<sourceRows, sidecar, rebuildLock, flight, reading, searchFaults, racedRows, stoleLock>>

NoSidecar == [db |-> NoIndex, indexedAt |-> NoIndex, tmp |-> NoIndex, staged |-> NoIndex]
NoFlight == [at |-> "idle", rows |-> 0, deserted |-> FALSE]
NoReading == [at |-> "idle", since |-> 0, excused |-> FALSE]

At(p, step) == flight[p].at = step
Goes(p, step) == flight' = [flight EXCEPT ![p].at = step]

\* Where a rebuild awaits something, so that its process can begin another read.
Awaits(p) == flight[p].at \in {"idle", "wait", "staged", "built"}

\* A flight without the lock: whether it polls, races or looks at a stale one.
Waits(p) == flight[p].at \in {"race", "reap", "wait"}

\* The owner gave up the lock without a result: whoever waits may take the meta
\* it finds for the result.
Deserted(fl) ==
  [q \in Searcher |-> IF Waits(q) THEN [fl[q] EXCEPT !.deserted = TRUE] ELSE fl[q]]

-----------------------------------------------------------------------------
(* Reads                                                                   *)

WriteSourceRow ==
  /\ sourceRows < MaxSourceRows
  /\ sourceRows' = sourceRows + 1
  /\ racedRows' = IF \E p \in Searcher : ~At(p, "idle")
                  THEN racedRows \cup {sourceRows + 1} ELSE racedRows
  /\ UNCHANGED <<sidecar, rebuildLock, flight, reading, searchFaults, stoleLock>>

\* newestSourceMtimeMs is the latest row's.
IndexIsFresh ==
  /\ sidecar.db # NoIndex
  /\ sidecar.indexedAt # NoIndex
  /\ sourceRows <= sidecar.indexedAt

\* rebuildNamespaceIndex: the caller joins the rebuild of its process.
Joins(p) == flight' = IF At(p, "idle") THEN [flight EXCEPT ![p].at = "race"] ELSE flight

\* keywordSearch up to its first await: an index that is not fresh is rebuilt, unless
\* the namespace is too large.
StartRead(p) ==
  LET refused == sourceRows > AutoBuildRows
      direct == IndexIsFresh \/ refused
  IN /\ reading[p].at = "idle" /\ Awaits(p)
     /\ reading' = [reading EXCEPT ![p] =
          [at |-> IF direct THEN "query" ELSE "ensure",
           since |-> sourceRows, excused |-> refused /\ ~IndexIsFresh]]
     /\ IF direct THEN UNCHANGED flight ELSE Joins(p)
     /\ UNCHANGED <<sourceRows, sidecar, rebuildLock, searchFaults, racedRows, stoleLock>>

\* duckbrain search-index rebuild, or the warm-up at boot.
CommandRebuild(p) ==
  /\ At(p, "idle")
  /\ Joins(p)
  /\ UNCHANGED <<sourceRows, sidecar, rebuildLock, reading, searchFaults, racedRows, stoleLock>>

\* The search itself: it answers from the index that is there, or throws
\* SearchIndexMissingError.
Answer(p) ==
  /\ reading[p].at = "query"
  /\ reading' = [reading EXCEPT ![p] = NoReading]
  /\ UNCHANGED <<sourceRows, sidecar, rebuildLock, flight, searchFaults, racedRows, stoleLock>>

\* The rebuild is over: the read that awaits it goes on, with a reason when it failed.
SettleFlight(p, fl, excused) ==
  /\ flight' = [fl EXCEPT ![p] = NoFlight]
  /\ reading' = IF reading[p].at = "ensure"
                THEN [reading EXCEPT ![p].at = "query", ![p].excused = excused] ELSE reading

-----------------------------------------------------------------------------
(* The rebuild lock                                                        *)

\* openSync with wx; the pid is written by a call of its own.
CreateRebuildLock(p) ==
  /\ At(p, "race")
  /\ rebuildLock = NoIndex
  /\ rebuildLock' = [by |-> p, named |-> FALSE, dead |-> FALSE, old |-> FALSE]
  /\ flight' = [flight EXCEPT ![p].at = "opened", ![p].deserted = FALSE]
  /\ UNCHANGED <<sourceRows, sidecar, reading, searchFaults, racedRows, stoleLock>>

NameRebuildLock(p) ==
  /\ At(p, "opened")
  /\ rebuildLock' = IF rebuildLock # NoIndex /\ rebuildLock.by = p
                    THEN [rebuildLock EXCEPT !.named = TRUE] ELSE rebuildLock
  /\ Goes(p, "owns")
  /\ UNCHANGED <<sourceRows, sidecar, reading, searchFaults, racedRows, stoleLock>>

IsStale(lock) == lock.named /\ lock.dead /\ lock.old

\* The lock is there: whoever finds it stale is about to remove it, whichever lock
\* that will be.
FindRebuildLock(p) ==
  /\ At(p, "race")
  /\ rebuildLock # NoIndex
  /\ Goes(p, IF IsStale(rebuildLock) THEN "reap" ELSE "wait")
  /\ UNCHANGED <<sourceRows, sidecar, rebuildLock, reading, searchFaults, racedRows, stoleLock>>

RemoveStaleLock(p) ==
  /\ At(p, "reap")
  /\ rebuildLock' = NoIndex
  /\ flight' = [Deserted(flight) EXCEPT ![p].at = "wait"]
  /\ stoleLock' = (stoleLock \/ (rebuildLock # NoIndex /\ ~IsStale(rebuildLock)))
  /\ UNCHANGED <<sourceRows, sidecar, reading, searchFaults, racedRows>>

\* The poll: no lock and a readable meta are the owner's result; anything else races
\* again.
Poll(p) ==
  /\ At(p, "wait")
  /\ IF rebuildLock = NoIndex /\ sidecar.indexedAt # NoIndex
     THEN SettleFlight(p, flight, flight[p].deserted)
     ELSE Goes(p, "race") /\ UNCHANGED reading
  /\ UNCHANGED <<sourceRows, sidecar, rebuildLock, searchFaults, racedRows, stoleLock>>

\* Mutant: the lock is inside the directory that is wiped.
StageWipesLock(p) ==
  /\ At(p, "owns")
  /\ sidecar' = [NoSidecar EXCEPT !.tmp = [by |-> p, rows |-> 0, whole |-> FALSE],
                                  !.staged = sourceRows]
  /\ flight' = [flight EXCEPT ![p].at = "staged", ![p].rows = sourceRows]
  /\ rebuildLock' = NoIndex
  /\ UNCHANGED <<sourceRows, reading, searchFaults, racedRows, stoleLock>>

-----------------------------------------------------------------------------
(* The rebuild                                                             *)

\* The live rows are collected, the directory is wiped, the rows are staged and an
\* empty database is opened under the temporary name, all without an await.
Stage(p) ==
  /\ At(p, "owns")
  /\ sidecar' = [NoSidecar EXCEPT !.tmp = [by |-> p, rows |-> 0, whole |-> FALSE],
                                  !.staged = sourceRows]
  /\ flight' = [flight EXCEPT ![p].at = "staged", ![p].rows = sourceRows]
  /\ UNCHANGED <<sourceRows, rebuildLock, reading, searchFaults, racedRows, stoleLock>>

\* The awaited load reads the staged file by its name and fills the database it opened,
\* wherever that is by now.
Load(p) ==
  LET filled(file) == IF file # NoIndex /\ file.by = p
                      THEN [file EXCEPT !.rows = sidecar.staged, !.whole = TRUE] ELSE file
  IN /\ At(p, "staged")
     /\ sidecar.staged # NoIndex
     /\ sidecar' = [sidecar EXCEPT !.tmp = filled(@), !.db = filled(@)]
     /\ Goes(p, "built")
     /\ UNCHANGED <<sourceRows, rebuildLock, reading, searchFaults, racedRows, stoleLock>>

RenameIndex(p) ==
  /\ At(p, "built")
  /\ sidecar.tmp # NoIndex
  /\ sidecar' = [sidecar EXCEPT !.db = sidecar.tmp, !.tmp = NoIndex, !.staged = NoIndex]
  /\ Goes(p, "renamed")
  /\ UNCHANGED <<sourceRows, rebuildLock, reading, searchFaults, racedRows, stoleLock>>

\* indexedAt is the time of this write, not of the collection.
WriteIndexMeta(p) ==
  /\ At(p, "renamed")
  /\ sidecar' = [sidecar EXCEPT !.indexedAt = sourceRows]
  /\ racedRows' = racedRows \ (1..flight[p].rows)
  /\ Goes(p, "done")
  /\ UNCHANGED <<sourceRows, rebuildLock, reading, searchFaults, stoleLock>>

ReleaseRebuildLock(p) ==
  /\ At(p, "done")
  /\ rebuildLock' = NoIndex
  /\ SettleFlight(p, flight, FALSE)
  /\ UNCHANGED <<sourceRows, sidecar, searchFaults, racedRows, stoleLock>>

\* A step throws: the staged or the temporary file is gone, or DuckDB or the disk
\* failed.  The lock is removed, unless the failing step was to name it.
RebuildThrows(p) ==
  /\ flight[p].at \in {"opened", "owns", "staged", "built", "renamed"}
  /\ \/ At(p, "staged") /\ sidecar.staged = NoIndex /\ UNCHANGED searchFaults
     \/ At(p, "built") /\ sidecar.tmp = NoIndex /\ UNCHANGED searchFaults
     \/ searchFaults < MaxSearchFaults /\ searchFaults' = searchFaults + 1
  /\ rebuildLock' = IF At(p, "opened") THEN rebuildLock ELSE NoIndex
  /\ SettleFlight(p, IF At(p, "opened") THEN flight ELSE Deserted(flight), TRUE)
  /\ UNCHANGED <<sourceRows, sidecar, racedRows, stoleLock>>

-----------------------------------------------------------------------------
(* Kills and time                                                          *)

KillSearcher(p) ==
  /\ searchFaults < MaxSearchFaults
  /\ ~At(p, "idle")
  /\ searchFaults' = searchFaults + 1
  /\ flight' = [flight EXCEPT ![p] = NoFlight]
  /\ reading' = [reading EXCEPT ![p] = NoReading]
  /\ rebuildLock' = IF rebuildLock # NoIndex /\ rebuildLock.by = p
                    THEN [rebuildLock EXCEPT !.dead = TRUE] ELSE rebuildLock
  /\ UNCHANGED <<sourceRows, sidecar, racedRows, stoleLock>>

\* Ten minutes pass, which matters for the lock of a dead process alone.
AgeRebuildLock ==
  /\ rebuildLock # NoIndex /\ rebuildLock.dead /\ rebuildLock.named /\ ~rebuildLock.old
  /\ rebuildLock' = [rebuildLock EXCEPT !.old = TRUE]
  /\ UNCHANGED <<sourceRows, sidecar, flight, reading, searchFaults, racedRows, stoleLock>>

SearchInit ==
  /\ sourceRows = 0
  /\ sidecar = NoSidecar
  /\ rebuildLock = NoIndex
  /\ flight = [p \in Searcher |-> NoFlight]
  /\ reading = [p \in Searcher |-> NoReading]
  /\ searchFaults = 0
  /\ racedRows = {}
  /\ stoleLock = FALSE

SearchNext ==
  \/ WriteSourceRow \/ AgeRebuildLock
  \/ \E p \in Searcher :
       \/ StartRead(p) \/ CommandRebuild(p) \/ Answer(p)
       \/ CreateRebuildLock(p) \/ NameRebuildLock(p) \/ FindRebuildLock(p)
       \/ RemoveStaleLock(p) \/ Poll(p)
       \/ Stage(p) \/ Load(p) \/ RenameIndex(p) \/ WriteIndexMeta(p)
       \/ ReleaseRebuildLock(p) \/ RebuildThrows(p) \/ KillSearcher(p)

-----------------------------------------------------------------------------
(* Properties                                                              *)

IndexFile == [by : Searcher, rows : 0..MaxSourceRows, whole : BOOLEAN] \cup {NoIndex}

SearchTypeOK ==
  /\ sourceRows \in 0..MaxSourceRows
  /\ {sidecar.db, sidecar.tmp} \subseteq IndexFile
  /\ {sidecar.indexedAt, sidecar.staged} \subseteq 0..sourceRows \cup {NoIndex}
  /\ rebuildLock \in {NoIndex} \cup
       [by : Searcher, named : BOOLEAN, dead : BOOLEAN, old : BOOLEAN]
  /\ \A p \in Searcher :
       /\ flight[p].at \in
            {"idle", "race", "opened", "reap", "wait", "owns", "staged", "built", "renamed", "done"}
       /\ reading[p].at \in {"idle", "ensure", "query"}
       /\ reading[p].since \in 0..sourceRows
  /\ racedRows \subseteq 1..sourceRows

\* Served is current: a search that was not told that its index could not be
\* refreshed answers from a whole index with every row acknowledged before it
\* started, whoever rebuilt it, whoever failed or died meanwhile.  The exceptions:
\* rows written while a process rebuilt the index or waited for it, which the meta
\* counts as indexed or the meta the waiter takes does not; a search that waited for an
\* owner that gave up, and takes the old meta for its result; and two processes that
\* remove the lock of one dead owner, of which the second removes the first's.
ServedIsCurrent ==
  /\ SearchTypeOK
  /\ ~stoleLock =>
       \A p \in Searcher :
         /\ reading[p].at = "query" /\ ~reading[p].excused /\ sidecar.db # NoIndex
         => /\ sidecar.db.whole
            /\ 1..reading[p].since \subseteq 1..sidecar.db.rows \cup racedRows

=============================================================================
