----------------------------- MODULE Durability -----------------------------
(***************************************************************************)
(* Barriers before the acknowledgement (src/storage/durability.ts and the  *)
(* batches of src/serialization/namespaceWriter.ts) against a power loss,  *)
(* in the modes fsync and direct.                                          *)
(*                                                                         *)
(* The file system promises what POSIX does: bytes are stable after        *)
(* fdatasync of the file, a name after fsync of the directory it is in.    *)
(* data[f] holds what the current file f may be found with after a power   *)
(* loss, entry[f] what its name may be found to stand for instead.  A      *)
(* partition lies Depth directories below the namespace; directory 0       *)
(* exists.  An operation holds the namespace write lock to its end.        *)
(***************************************************************************)
EXTENDS Integers, FiniteSets, SequencesExt

CONSTANTS
  Depth,      \* directories between the namespace and its files
  LastFile,   \* files: 0 is current.jsonl, 1..LastFile are numbered
  ChunkRows,  \* MAX_LINES_PER_CHUNK
  LastLine,    \* rows written in all
  MaxFlush,   \* rows in a flush
  MaxLosses   \* power losses

ASSUME DurabilityAssumption ==
  /\ {Depth, ChunkRows, LastLine, MaxFlush} \subseteq Nat \ {0}
  /\ {LastFile, MaxLosses} \subseteq Nat

VARIABLES
  mode,      \* write mode of the namespace
  depth,     \* directories that exist
  loose,     \* directories whose name may be lost
  cache,     \* contents of each file as processes see them
  data, entry,
  op,        \* the operation that holds the write lock
  lastLine, losses,
  ackedLines, triedDeletes, ackedDeletes,
  excuse     \* history: what happened that the barriers do not cover

durabilityVars == <<mode, depth, loose, cache, data, entry, op, lastLine, losses, ackedLines,
                    triedDeletes, ackedDeletes, excuse>>

Absent == <<-1>>
HalfLine == 0        \* the beginning of a line
JoinedLine == -2     \* an unreadable line with its end
ChunkFile == 0..LastFile
Idle == [step |-> "idle", left |-> <<>>, rows |-> {}, files |-> {}, fresh |-> {},
         created |-> FALSE, dirs |-> {}, drop |-> 0]

DurabilityInit ==
  /\ mode \in {"fsync", "direct"}
  /\ depth \in {0, Depth - 1} /\ loose = {}
  /\ cache = [f \in ChunkFile |-> Absent]
  /\ data = [f \in ChunkFile |-> {Absent}] /\ entry = [f \in ChunkFile |-> {}]
  /\ op = Idle
  /\ lastLine = 0 /\ losses = 0
  /\ ackedLines = {} /\ triedDeletes = {} /\ ackedDeletes = {}
  /\ excuse = {}

-----------------------------------------------------------------------------

RowsIn(c) == IF c = Absent THEN <<>> ELSE c
Present(f) == cache[f] # Absent

\* resolveJsonlTargetPath for current.jsonl: the newest numbered file if there is
\* one; getNextChunkName once it is full.
NewestFile == CHOOSE f \in ChunkFile : /\ f = 0 \/ Present(f)
                                   /\ \A g \in ChunkFile : Present(g) => g <= f
TargetFile == IF Len(RowsIn(cache[NewestFile])) >= ChunkRows THEN NewestFile + 1 ELSE NewestFile

\* A row behind the beginning of a line makes one unreadable line with it.
WithRow(c, r) ==
  LET rows == RowsIn(c)
  IN IF rows # <<>> /\ rows[Len(rows)] = HalfLine
       THEN [rows EXCEPT ![Len(rows)] = JoinedLine] ELSE Append(rows, r)

BeginFlush ==
  /\ op.step = "idle"
  /\ \E n \in 1..MaxFlush :
       /\ lastLine + n <= LastLine
       /\ lastLine' = lastLine + n
       /\ op' = [Idle EXCEPT !.step = "append", !.left = [i \in 1..n |-> lastLine + i],
                             !.rows = {lastLine + i : i \in 1..n}]
  /\ UNCHANGED <<mode, depth, loose, cache, data, entry, losses, ackedLines, triedDeletes,
                 ackedDeletes, excuse>>

\* One row: ensureJsonlDir, the target, open, write.  A fsync batch has its
\* barriers after the last row, a direct batch after each.
AppendDurable ==
  /\ op.step = "append"
  /\ op.left # <<>>
  /\ TargetFile \in ChunkFile
  /\ LET f == TargetFile
         new == WithRow(cache[f], Head(op.left))
         half == Append(RowsIn(cache[f]), HalfLine)
     IN /\ cache' = [cache EXCEPT ![f] = new]
        /\ data' = [data EXCEPT ![f] = (IF Present(f) THEN @ ELSE {<<>>}) \cup {half, new}]
        /\ entry' = [entry EXCEPT ![f] = IF Present(f) THEN @ ELSE @ \cup data[f]]
        /\ op' = [op EXCEPT !.left = Tail(@),
                            !.files = @ \cup {f},
                            !.fresh = IF Present(f) THEN @ ELSE @ \cup {f},
                            !.created = @ \/ depth < Depth,
                            !.step = IF mode = "direct" \/ Len(op.left) = 1
                                       THEN "barrier" ELSE "append"]
        /\ excuse' = excuse \cup (IF depth < Depth - 1 THEN {"nested"} ELSE {})
                            \cup (IF new[Len(new)] = JoinedLine THEN {"torn"} ELSE {})
  /\ depth' = Depth
  /\ loose' = loose \cup (depth + 1)..Depth
  /\ UNCHANGED <<mode, lastLine, losses, ackedLines, triedDeletes, ackedDeletes>>

\* Mutant: the directory of a chunk that a rotation made is not synced.
DirsToSyncOnlyFirst ==
  (IF op.created \/ 0 \in op.fresh THEN {Depth} ELSE {})
    \cup (IF op.created THEN {Depth - 1} ELSE {})

\* fsyncParentsForCreate: the directory of the files, and the parent of the
\* deepest directory that was made.
DirsToSync ==
  (IF op.created \/ op.fresh # {} THEN {Depth} ELSE {})
    \cup (IF op.created THEN {Depth - 1} ELSE {})

\* barrierFile: one fdatasync per file; the names are next.
BarrierFile ==
  /\ op.step = "barrier"
  /\ \E f \in op.files :
       /\ data' = [data EXCEPT ![f] = {cache[f]}]
       /\ op' = [op EXCEPT !.files = @ \ {f},
                           !.step = IF op.files = {f} THEN "names" ELSE @,
                           !.dirs = IF op.files = {f} THEN DirsToSync ELSE @]
  /\ UNCHANGED <<mode, depth, loose, cache, entry, lastLine, losses, ackedLines, triedDeletes,
                 ackedDeletes, excuse>>

\* fsync of directory d: the names in it are stable.
SyncDirectory ==
  /\ op.step = "names"
  /\ \E d \in op.dirs :
       /\ op' = [op EXCEPT !.dirs = @ \ {d}]
       /\ entry' = IF d = Depth THEN [f \in ChunkFile |-> {}] ELSE entry
       /\ loose' = loose \ {d + 1}
  /\ UNCHANGED <<mode, depth, cache, data, lastLine, losses, ackedLines, triedDeletes,
                 ackedDeletes, excuse>>

\* Every barrier of the row (direct), of the flush or of the rewrite is passed.
PassBarriers ==
  /\ op.step = "names"
  /\ op.dirs = {}
  /\ IF op.left # <<>>
       THEN /\ op' = [op EXCEPT !.step = "append", !.fresh = {}, !.created = FALSE]
            /\ UNCHANGED <<ackedLines, ackedDeletes>>
       ELSE /\ op' = Idle
            /\ ackedLines' = ackedLines \cup op.rows
            /\ ackedDeletes' = ackedDeletes \cup ({op.drop} \ {0})
  /\ UNCHANGED <<mode, depth, loose, cache, data, entry, lastLine, losses, triedDeletes, excuse>>

\* A rewrite ends every line that it keeps.
Ended(rows) == [i \in DOMAIN rows |-> IF rows[i] = HalfLine THEN JoinedLine ELSE rows[i]]

\* rewriteTextDurable without the line of one row: the temporary file is written
\* and synced, then renamed; the fsync of the directory is next.  Only the legacy
\* tables rewrite, and never a framed file.
Rewrite ==
  /\ op.step = "idle"
  /\ mode = "fsync"
  /\ Present(0)
  /\ \E i \in DOMAIN cache[0] :
       LET row == cache[0][i]
           kept == Ended(RemoveAt(cache[0], i))
       IN /\ row \notin {HalfLine, JoinedLine}
          /\ cache' = [cache EXCEPT ![0] = kept]
          /\ data' = [data EXCEPT ![0] = {kept}]
          /\ entry' = [entry EXCEPT ![0] = @ \cup data[0]]
          /\ op' = [Idle EXCEPT !.step = "names", !.dirs = {Depth}, !.drop = row]
          /\ triedDeletes' = triedDeletes \cup {row}
  /\ UNCHANGED <<mode, depth, loose, lastLine, losses, ackedLines, ackedDeletes, excuse>>

\* appendJsonlDirect removes the file it made when the write or its barrier fails.
FailedRemoves ==
  IF mode = "direct" /\ op.step = "barrier" THEN op.files \cap op.fresh ELSE {}

\* A write or a barrier fails, or the process dies and removes nothing.
FailOrDie ==
  /\ op.step # "idle"
  /\ \E gone \in {{}, FailedRemoves} :
       /\ cache' = [f \in ChunkFile |-> IF f \in gone THEN Absent ELSE cache[f]]
       /\ data' = [f \in ChunkFile |-> IF f \in gone THEN {Absent} ELSE data[f]]
       /\ entry' = [f \in ChunkFile |-> IF f \in gone THEN entry[f] \cup data[f] ELSE entry[f]]
       /\ excuse' = excuse \cup (IF op.fresh \ gone # {} \/ op.created \/ op.drop # 0
                                   THEN {"abandoned"} ELSE {})
  /\ op' = Idle
  /\ UNCHANGED <<mode, depth, loose, lastLine, losses, ackedLines, triedDeletes, ackedDeletes>>

\* Any name that is not stable may be lost, and any bytes.
LosePower ==
  /\ losses < MaxLosses
  /\ losses' = losses + 1
  /\ op' = Idle
  /\ loose' = {}
  /\ entry' = [f \in ChunkFile |-> {}]
  /\ \/ /\ \E d \in loose : depth' = d - 1
        /\ cache' = [f \in ChunkFile |-> Absent]
     \/ /\ depth' = depth
        /\ cache' \in [ChunkFile -> UNION {data[f] \cup entry[f] : f \in ChunkFile}]
        /\ \A f \in ChunkFile : cache'[f] \in data[f] \cup entry[f]
  /\ data' = [f \in ChunkFile |-> {cache'[f]}]
  /\ UNCHANGED <<mode, lastLine, ackedLines, triedDeletes,
                 ackedDeletes, excuse>>

DurabilityNext ==
  BeginFlush \/ AppendDurable \/ BarrierFile \/ SyncDirectory \/ PassBarriers \/ Rewrite
    \/ FailOrDie \/ LosePower

-----------------------------------------------------------------------------
(* Properties                                                              *)

DurabilityTypeOK ==
  /\ mode \in {"fsync", "direct"}
  /\ depth \in 0..Depth /\ loose \subseteq 1..depth
  /\ \A f \in ChunkFile : /\ cache[f] = Absent \/ cache[f] \in Seq(-2..LastLine)
                          /\ cache[f] \in data[f]
                          /\ Present(f) => depth = Depth
  /\ op.step \in {"idle", "append", "barrier", "names"}
  /\ lastLine \in 0..LastLine /\ losses \in 0..MaxLosses
  /\ ackedLines \subseteq 1..lastLine /\ ackedDeletes \subseteq triedDeletes
  /\ excuse \subseteq {"nested", "abandoned", "torn"}

Readable == UNION {{RowsIn(cache[f])[i] : i \in DOMAIN RowsIn(cache[f])} : f \in ChunkFile}

\* RPO 0 (durability.ts:20, docs/specs/SUPA-1-write-durability.md:32): a row that
\* was acknowledged and not deleted is read after any power loss.  Three things
\* break the promise and are excused: the flush made two levels of directories
\* and synced the upper name nowhere; an earlier operation died between making or
\* renaming a file and syncing its directory, and a later append found the file
\* there and synced its bytes only; a torn line was left and the next row was
\* written behind it.  A rewrite that was acknowledged is not undone either: its
\* rename is stable, and the deleted row does not come back.
AcknowledgedSurvivesPowerLoss ==
  /\ DurabilityTypeOK
  /\ excuse = {} => ackedLines \ triedDeletes \subseteq Readable
  /\ ackedDeletes \cap Readable = {}

=============================================================================
