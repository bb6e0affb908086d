---------------------------- MODULE KeyListCache ----------------------------
(***************************************************************************)
(* The key-list cache of src/keys/keyListCache.ts: a sidecar on disk that  *)
(* all server processes share, and an entry in the memory of each.         *)
(*                                                                         *)
(* The corpus is the number of rows appended; its fingerprint is that      *)
(* number too, because every append changes a file's size.  A key list is  *)
(* the number of rows it was built from.                                   *)
(***************************************************************************)
EXTENDS Naturals, FiniteSets

CONSTANTS
  Server,     \* server processes
  MaxRows,    \* rows appended
  MaxCalls,   \* list_keys calls answered, by each process
  NoList      \* no list, no meta file

ASSUME KeyListAssumption ==
  /\ {MaxRows, MaxCalls} \subseteq Nat
  /\ NoList \notin Nat

VARIABLES
  corpus,      \* rows in the JSONL files
  ackedRows,   \* rows acknowledged
  meta,        \* fingerprint in .keys/meta.json
  artifact,    \* list in .keys/keys.json
  memory,      \* memoryCache of each process
  hook,        \* a process between its append and invalidateKeysCache
  rebuild,     \* rebuildInFlight: [fingerprint, list, step]
  joined,      \* calls that wait for that rebuild and what each must show
  calls,       \* calls answered by each process
  lag,         \* history: the worst answer of each kind
  rebuilders,  \* history: processes that published a sidecar
  behind       \* history: processes with a list from before another's rebuild

keyListVars == <<corpus, ackedRows, meta, artifact, memory, hook, rebuild, joined,
                 calls, lag, rebuilders, behind>>

NoRebuild == [fingerprint |-> 0, list |-> NoList, step |-> "none"]
Kind == {"memory", "behind", "artifact", "own", "joined"}

KeyListInit ==
  /\ corpus \in {0, 1} \cap 0..MaxRows /\ ackedRows = corpus
  /\ meta = NoList /\ artifact = NoList
  /\ memory = [p \in Server |-> NoList]
  /\ hook = [p \in Server |-> FALSE]
  /\ rebuild = [p \in Server |-> NoRebuild]
  /\ joined = [p \in Server |-> {}]
  /\ calls = [p \in Server |-> 0]
  /\ lag = [k \in Kind |-> 0]
  /\ rebuilders = {} /\ behind = {}

-----------------------------------------------------------------------------
(* Writes                                                                  *)

\* The flush appends; the next action is its best-effort hook.
AppendRow(p) ==
  /\ corpus < MaxRows
  /\ ~hook[p]
  /\ corpus' = corpus + 1
  /\ hook' = [hook EXCEPT ![p] = TRUE]
  /\ UNCHANGED <<ackedRows, meta, artifact, memory, rebuild, joined, calls, lag, rebuilders, behind>>

\* invalidateKeysCache drops the entry and the meta file; the write is
\* acknowledged after it.
InvalidateKeysCache(p) ==
  /\ hook[p]
  /\ hook' = [hook EXCEPT ![p] = FALSE]
  /\ memory' = [memory EXCEPT ![p] = NoList]
  /\ meta' = NoList
  /\ ackedRows' = corpus
  /\ UNCHANGED <<corpus, artifact, rebuild, joined, calls, lag, rebuilders>>
  /\ behind' = behind \ {p}

-----------------------------------------------------------------------------
(* Reads                                                                   *)

Larger(a, b) == IF a > b THEN a ELSE b

\* An answer lags by the acknowledged rows it does not show.
Lagging(floor, list) == IF floor > list THEN floor - list ELSE 0
Record(kind, by) == lag' = [lag EXCEPT ![kind] = Larger(@, by)]

Calls(p) == ~hook[p] /\ calls[p] + Cardinality(joined[p]) < MaxCalls
Answered(p) == calls' = [calls EXCEPT ![p] = @ + 1]
Fresh == meta = corpus

\* A fresh sidecar: the entry in memory, or the artifact when there is none.
ServeFresh(p) ==
  /\ Calls(p)
  /\ corpus > 0 /\ Fresh
  /\ \/ /\ memory[p] # NoList
        /\ Record(IF p \in behind THEN "behind" ELSE "memory", Lagging(ackedRows, memory[p]))
        /\ UNCHANGED <<memory, behind>>
     \/ /\ memory[p] = NoList /\ artifact # NoList
        /\ memory' = [memory EXCEPT ![p] = artifact]
        /\ Record("artifact", Lagging(ackedRows, artifact))
        /\ behind' = behind \ {p}
  /\ Answered(p)
  /\ UNCHANGED <<corpus, ackedRows, meta, artifact, hook, rebuild, joined, rebuilders>>

\* A namespace without files has no keys.
ServeEmpty(p) ==
  /\ Calls(p)
  /\ corpus = 0
  /\ memory' = [memory EXCEPT ![p] = NoList]
  /\ Answered(p)
  /\ UNCHANGED <<corpus, ackedRows, meta, artifact, hook, rebuild, joined, lag, rebuilders, behind>>

NeedsRebuild(p) ==
  /\ Calls(p)
  /\ corpus > 0
  /\ Fresh => memory[p] = NoList /\ artifact = NoList

\* The fingerprint is taken before the scan, which is awaited.
StartRebuild(p) ==
  /\ NeedsRebuild(p)
  /\ rebuild[p].step = "none"
  /\ rebuild' = [rebuild EXCEPT ![p] =
       [fingerprint |-> corpus, list |-> NoList, step |-> "scan"]]
  /\ joined' = [joined EXCEPT ![p] = {[floor |-> ackedRows, own |-> TRUE, at |-> calls[p]]}]
  /\ UNCHANGED <<corpus, ackedRows, meta, artifact, memory, hook, calls, lag, rebuilders, behind>>

\* Single flight: a later call waits for the rebuild that runs.
JoinRebuild(p) ==
  /\ NeedsRebuild(p)
  /\ rebuild[p].step # "none"
  /\ joined' = [joined EXCEPT ![p] = @ \cup
       {[floor |-> ackedRows, own |-> FALSE, at |-> calls[p] + Cardinality(joined[p])]}]
  /\ UNCHANGED <<corpus, ackedRows, meta, artifact, memory, hook, rebuild, calls, lag, rebuilders, behind>>

\* DuckDB reads the files at one moment of the scan.
Scan(p) ==
  /\ rebuild[p].step = "scan"
  /\ rebuild' = [rebuild EXCEPT ![p].list = corpus, ![p].step = "artifact"]
  /\ UNCHANGED <<corpus, ackedRows, meta, artifact, memory, hook, joined, calls, lag, rebuilders, behind>>

\* Two renames of one synchronous section: another process may come between.
RenameArtifact(p) ==
  /\ rebuild[p].step = "artifact" /\ ~hook[p]
  /\ artifact' = rebuild[p].list
  /\ rebuild' = [rebuild EXCEPT ![p].step = "meta"]
  /\ rebuilders' = rebuilders \cup {p}
  /\ UNCHANGED <<corpus, ackedRows, meta, memory, hook, joined, calls, lag, behind>>

\* The answers of all calls that wait, the rebuild is over.
Resolve(p, list) ==
  /\ lag' = [k \in Kind |->
       LET late == {Lagging(c.floor, list) : c \in {c \in joined[p] :
                      k = (IF c.own THEN "own" ELSE "joined")}}
       IN CHOOSE m \in late \cup {lag[k]} : \A n \in late \cup {lag[k]} : n <= m]
  /\ calls' = [calls EXCEPT ![p] = @ + Cardinality(joined[p])]
  /\ joined' = [joined EXCEPT ![p] = {}]
  /\ rebuild' = [rebuild EXCEPT ![p] = NoRebuild]

RenameMeta(p) ==
  /\ rebuild[p].step = "meta"
  /\ meta' = rebuild[p].fingerprint
  /\ memory' = [memory EXCEPT ![p] = rebuild[p].list]
  /\ Resolve(p, rebuild[p].list)
  /\ UNCHANGED <<corpus, ackedRows, artifact, hook, rebuilders>>
  /\ behind' = (behind \cup {q \in Server : memory[q] # NoList}) \ {p}

\* Mutant: a rebuild that failed answers with the sidecar as it is.
RebuildFailsServesOld(p) ==
  /\ rebuild[p].step = "scan"
  /\ Resolve(p, IF artifact = NoList THEN corpus ELSE artifact)
  /\ UNCHANGED <<corpus, ackedRows, meta, artifact, memory, hook, rebuilders, behind>>

\* The scan throws: its calls run the SQL of the cold path instead.
RebuildFails(p) ==
  /\ rebuild[p].step = "scan"
  /\ Resolve(p, corpus)
  /\ UNCHANGED <<corpus, ackedRows, meta, artifact, memory, hook, rebuilders, behind>>

\* A process is killed and started again.
RestartServer(p) ==
  /\ memory[p] # NoList \/ rebuild[p].step # "none"
  /\ memory' = [memory EXCEPT ![p] = NoList]
  /\ rebuild' = [rebuild EXCEPT ![p] = NoRebuild]
  /\ joined' = [joined EXCEPT ![p] = {}]
  /\ hook' = [hook EXCEPT ![p] = FALSE]
  /\ UNCHANGED <<corpus, ackedRows, meta, artifact, calls, lag, rebuilders>>
  /\ behind' = behind \ {p}

KeyListNext ==
  \E p \in Server :
    \/ AppendRow(p) \/ InvalidateKeysCache(p)
    \/ ServeFresh(p) \/ ServeEmpty(p) \/ StartRebuild(p) \/ JoinRebuild(p)
    \/ Scan(p) \/ RenameArtifact(p) \/ RenameMeta(p) \/ RebuildFails(p)
    \/ RestartServer(p)

-----------------------------------------------------------------------------
(* Properties                                                              *)

Lists == 0..MaxRows \cup {NoList}

KeyListTypeOK ==
  /\ corpus \in 0..MaxRows /\ ackedRows \in 0..corpus
  /\ {meta, artifact} \subseteq Lists
  /\ memory \in [Server -> Lists]
  /\ hook \in [Server -> BOOLEAN]
  /\ rebuild \in [Server -> [fingerprint : 0..MaxRows, list : Lists,
                              step : {"none", "scan", "artifact", "meta"}]]
  /\ calls \in [Server -> 0..MaxCalls]
  /\ lag \in [Kind -> 0..MaxRows]
  /\ rebuilders \cup behind \subseteq Server

\* While only one process rebuilds the sidecar, a warm answer is what a scan
\* would give, from memory and from the artifact, across kills and writes of all
\* processes.  The exception is a process that filled its memory before the
\* other's rebuild: the sidecar is fresh again, its own list is not.  The call that
\* rebuilds always shows every row acknowledged before it started, also when writes
\* land during its scan and when the scan fails.
WarmIsCold ==
  /\ KeyListTypeOK
  /\ lag["own"] = 0
  /\ Cardinality(rebuilders) <= 1 => lag["memory"] = 0 /\ lag["artifact"] = 0

=============================================================================
