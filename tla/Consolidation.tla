--------------------------- MODULE Consolidation ----------------------------
(***************************************************************************)
(* Chunk rotation (src/storage/jsonl.ts) and segment consolidation         *)
(* (src/storage/segment-consolidation.ts) of one partition.                *)
(*                                                                         *)
(* The server appends through the rotation; duckbrain squash --segments    *)
(* plans, rewrites and deletes in a process of its own.  It takes no lock, *)
(* so each of its file operations meets the server wherever that is.       *)
(*                                                                         *)
(* Records are numbered in the order they were appended.  A file is a      *)
(* number: 0 for current.jsonl, n for NNNN.jsonl.  Lines and bytes are one *)
(* weight: 1 a record, more than Bound for one over the byte limit alone.  *)
(* Reading file after file sees what one moment held, because the server   *)
(* only ever adds behind the last record.                                  *)
(***************************************************************************)
EXTENDS Integers, FiniteSets, Sequences, SequencesExt

CONSTANTS
  Layouts,     \* partitions to start from: the records of each file
  Bound,       \* SEGMENT_MAX_LINES, MAX_LINES_PER_CHUNK
  Huge,        \* records over SEGMENT_MAX_BYTES on their own
  MaxAppends,  \* records appended
  MaxPasses    \* consolidations started

VARIABLES
  segments,   \* records of each file on disk
  found,      \* records the partition was found with
  stored,     \* records 1..stored are acknowledged
  appending,  \* record and file of the append that has resolved its target
  pass,       \* step of the consolidation
  passes,     \* consolidations started
  plan,       \* what it decided
  before,     \* the records in order, as read before the rewrite
  outputs,    \* files it still has to write
  raced,      \* history: an append ran while a consolidation did
  upward      \* history: a split took names above its input's

consolidator == <<pass, passes, plan, before, outputs>>
consolidationVars == <<segments, found, stored, appending, consolidator, raced, upward>>

Running == pass \in {"planned", "read", "write", "delete"}
NoPlan == [merges |-> <<>>, chunks |-> <<>>, removed |-> {}, count |-> 0]

-----------------------------------------------------------------------------
(* Files                                                                   *)

\* compareChunkNames: numeric, never by text.
Ordered(S) ==
  [k \in 1..Cardinality(S) |-> CHOOSE n \in S : Cardinality({m \in S : m < n}) = k - 1]

Numeric(files) == DOMAIN files \ {0}
Newest(files) == CHOOSE n \in Numeric(files) : \A m \in Numeric(files) : m <= n

ReadOrder(files, names) == FlattenSeq([k \in 1..Cardinality(names) |-> files[Ordered(names)[k]]])

RecordWeight(r) == IF r \in Huge THEN Bound + 1 ELSE 1
Weight(lines) == Len(lines) + Bound * Cardinality({i \in DOMAIN lines : lines[i] \in Huge})

WriteFile(files, n, lines) ==
  [m \in DOMAIN files \cup {n} |-> IF m = n THEN lines ELSE files[m]]

\* A partition is found with its records in the order they were appended.
ASSUME ConsolidationAssumption ==
  /\ Bound \in Nat \ {0}
  /\ {MaxAppends, MaxPasses} \subseteq Nat
  /\ \A layout \in Layouts :
       /\ IsFiniteSet(DOMAIN layout) /\ DOMAIN layout \subseteq Nat
       /\ \A n \in DOMAIN layout : layout[n] \in Seq(Nat)
       /\ LET all == ReadOrder(layout, DOMAIN layout) IN \A i \in DOMAIN all : all[i] = i

ConsolidationInit ==
  /\ segments \in Layouts
  /\ found = Len(ReadOrder(segments, DOMAIN segments))
  /\ stored = found
  /\ appending = <<>>
  /\ pass = "idle" /\ passes = 0
  /\ plan = NoPlan
  /\ before = <<>> /\ outputs = <<>>
  /\ raced = FALSE /\ upward = FALSE

-----------------------------------------------------------------------------
(* The server                                                              *)

\* resolveJsonlTargetPath, asked for current.jsonl: the newest numbered file
\* once there is one, and a new one when the record does not fit.
NextChunk == IF Numeric(segments) = {} THEN 1 ELSE Newest(segments) + 1
Active == IF Numeric(segments) = {} THEN 0 ELSE Newest(segments)
Target(r) ==
  IF Active \in DOMAIN segments /\ Weight(segments[Active]) + RecordWeight(r) > Bound
    THEN NextChunk ELSE Active

ResolveTarget ==
  /\ appending = <<>>
  /\ stored < found + MaxAppends
  /\ appending' = <<stored + 1, Target(stored + 1)>>
  /\ raced' = (raced \/ Running)
  /\ UNCHANGED <<segments, found, stored, consolidator, upward>>

\* appendFileSync creates the file when it is not there any more.
AppendLine ==
  /\ appending # <<>>
  /\ segments' = LET n == appending[2]
                 IN WriteFile(segments, n,
                      Append(IF n \in DOMAIN segments THEN segments[n] ELSE <<>>, appending[1]))
  /\ stored' = appending[1]
  /\ appending' = <<>>
  /\ UNCHANGED <<found, consolidator, raced, upward>>

-----------------------------------------------------------------------------
(* The plan                                                                *)

\* packUnits, and the same greedy grouping of whole segments: a unit joins the
\* group before it as long as the group stays within the bound.  The result
\* says where each group ends.
Pack(units) ==
  LET after[n \in 0..Len(units)] ==
        IF n = 0 THEN [ends |-> <<>>, size |-> 0]
        ELSE LET group == after[n - 1]
             IN IF n > 1 /\ group.size + units[n] <= Bound
                  THEN [ends |-> Append(Front(group.ends), n), size |-> group.size + units[n]]
                  ELSE [ends |-> Append(group.ends, n), size |-> units[n]]
  IN after[Len(units)].ends

From(ends, i) == IF i = 1 THEN 0 ELSE ends[i - 1]

\* Runs of two or more segments, each packed into its first one.
Merges(files) ==
  LET names == Ordered(Numeric(files))
      ends == Pack([k \in DOMAIN names |-> Weight(files[names[k]])])
      run(i) == SubSeq(names, From(ends, i) + 1, ends[i])
      after[i \in 0..Len(ends)] ==
        IF i = 0 THEN <<>>
        ELSE IF Len(run(i)) > 1 THEN Append(after[i - 1], run(i)) ELSE after[i - 1]
  IN after[Len(ends)]
MergedAway(merges) == UNION {Range(Tail(g)) : g \in Range(merges)}

\* Mutant: any free name below the input will do.
SlotWide(n, need, survivors, claimed, last) ==
  LET below == (1..(n - 1)) \ (survivors \cup claimed)
  IN {c \in below : Cardinality({d \in below : d > c}) < need}

\* Names for all but one chunk of input n: the free ones next to it above its
\* surviving neighbour; behind the last file when nothing survives above.
Slot(n, need, survivors, claimed, last) ==
  LET floor == Max({0} \cup {s \in survivors : s < n})
      below == ((floor + 1)..(n - 1)) \ (survivors \cup claimed)
      near == {c \in below : Cardinality({d \in below : d > c}) < need}
      behind == ((last + 1)..(last + need + Cardinality(claimed))) \ claimed
      far == {c \in behind : Cardinality({d \in behind : d < c}) < need - Cardinality(near)}
  IN IF \E s \in survivors : s > n THEN near ELSE near \cup far

\* The chunks of one segment over the bound, in record order, with names that
\* none has taken so far.  A segment of one record, or without room, is
\* reported and left alone.
Cut(files, n, survivors, done) ==
  LET ends == Pack([i \in DOMAIN files[n] |-> RecordWeight(files[n][i])])
      names == Slot(n, Len(ends) - 1, survivors, {c.name : c \in Range(done)}, Newest(files))
  IN IF /\ Weight(files[n]) > Bound
        /\ Len(ends) > 1 /\ Cardinality(names) = Len(ends) - 1
       THEN [i \in DOMAIN ends |->
               [input |-> n, name |-> Ordered(names \cup {n})[i],
                from |-> From(ends, i), to |-> ends[i]]]
       ELSE <<>>

\* One segment after the other.
Chunks(files, survivors) ==
  LET names == Ordered(Numeric(files))
      after[k \in 0..Len(names)] ==
        IF k = 0 THEN <<>>
        ELSE LET done == after[k - 1] IN done \o Cut(files, names[k], survivors, done)
  IN after[Len(names)]

Written(merges, chunks) ==
  {g[1] : g \in Range(merges)} \cup {c.name : c \in Range(chunks)}

\* An input that is also an output is replaced, never removed.
MakePlan(files) ==
  LET merges == Merges(files)
      chunks == Chunks(files, Numeric(files) \ MergedAway(merges))
  IN [merges |-> merges, chunks |-> chunks,
      removed |-> (MergedAway(merges) \cup {c.input : c \in Range(chunks)})
                    \ Written(merges, chunks),
      count |-> Len(ReadOrder(files, Numeric(files)))]

\* The files to write, in the order they are written.
Outputs(p, files) ==
  LET merged(g) == [name |-> g[1], lines |-> FlattenSeq([i \in DOMAIN g |-> files[g[i]]])]
      chunk(c) == [name |-> c.name, lines |-> SubSeq(files[c.input], c.from + 1, c.to)]
  IN [i \in DOMAIN p.merges |-> merged(p.merges[i])]
       \o [i \in DOMAIN p.chunks |-> chunk(p.chunks[i])]

\* assertPlanLayout: the files to come, read in order, are the records as they
\* are, and no name is written twice.
KeepsLayout(p, files) ==
  LET outs == Outputs(p, files)
      result == FoldLeft(LAMBDA fs, o : WriteFile(fs, o.name, o.lines), files, outs)
  IN /\ \A i, j \in DOMAIN outs : outs[i].name = outs[j].name => i = j
     /\ ReadOrder(result, Numeric(result) \ p.removed) = ReadOrder(files, Numeric(files))

-----------------------------------------------------------------------------
(* The execution                                                           *)

planSegmentConsolidation ==
  /\ ~Running
  /\ passes < MaxPasses
  /\ plan' = MakePlan(segments)
  /\ pass' = IF KeepsLayout(plan', segments) THEN "planned" ELSE "failed"
  /\ passes' = passes + 1
  /\ upward' = (upward \/ \E c \in Range(plan'.chunks) : c.name > c.input)
  /\ raced' = (raced \/ appending # <<>>)
  /\ UNCHANGED <<segments, found, stored, appending, before, outputs>>

ReadOrderBefore ==
  /\ pass = "planned"
  /\ before' = ReadOrder(segments, Numeric(segments))
  /\ pass' = "read"
  /\ UNCHANGED <<segments, found, stored, appending, passes, plan, outputs, raced, upward>>

\* Mutant: the inputs go before their replacements are there.
ReadInputsDeletes ==
  /\ pass = "read"
  /\ outputs' = Outputs(plan, segments)
  /\ segments' = [n \in DOMAIN segments \ plan.removed |-> segments[n]]
  /\ pass' = "write"
  /\ UNCHANGED <<found, stored, appending, passes, plan, before, raced, upward>>

\* Every input is read again before anything is written.
ReadInputs ==
  /\ pass = "read"
  /\ outputs' = Outputs(plan, segments)
  /\ pass' = "write"
  /\ UNCHANGED <<segments, found, stored, appending, passes, plan, before, raced, upward>>

\* writeSegmentAtomic: the rename replaces whatever has the name.
WriteSegment ==
  /\ pass = "write"
  /\ outputs # <<>>
  /\ segments' = WriteFile(segments, Head(outputs).name, Head(outputs).lines)
  /\ outputs' = Tail(outputs)
  /\ UNCHANGED <<found, stored, appending, pass, passes, plan, before, raced, upward>>

\* Written and untouched files must account for the planned number of records.
CheckBeforeDelete ==
  /\ pass = "write"
  /\ outputs = <<>>
  /\ pass' = IF Len(ReadOrder(segments, Numeric(segments) \ plan.removed)) = plan.count
               THEN "delete" ELSE "failed"
  /\ UNCHANGED <<segments, found, stored, appending, passes, plan, before, outputs, raced, upward>>

DeleteInput ==
  /\ pass = "delete"
  /\ \E n \in plan.removed \cap DOMAIN segments :
       segments' = [m \in DOMAIN segments \ {n} |-> segments[m]]
  /\ UNCHANGED <<found, stored, appending, consolidator, raced, upward>>

\* assertOrderPreserved, when everything is deleted.
CheckAfter ==
  /\ pass = "delete"
  /\ plan.removed \cap DOMAIN segments = {}
  /\ pass' = IF ReadOrder(segments, Numeric(segments)) = before THEN "done" ELSE "failed"
  /\ UNCHANGED <<segments, found, stored, appending, passes, plan, before, outputs, raced, upward>>

KillPass ==
  /\ Running
  /\ pass' = "killed"
  /\ outputs' = <<>>
  /\ UNCHANGED <<segments, found, stored, appending, passes, plan, before, raced, upward>>

ConsolidationNext ==
  \/ ResolveTarget \/ AppendLine
  \/ planSegmentConsolidation \/ ReadOrderBefore \/ ReadInputs \/ WriteSegment
  \/ CheckBeforeDelete \/ DeleteInput \/ CheckAfter \/ KillPass

-----------------------------------------------------------------------------
(* Properties                                                              *)

OnDisk == UNION {Range(segments[n]) : n \in DOMAIN segments}

ConsolidationTypeOK ==
  /\ DOMAIN segments \subseteq Nat
  /\ \A n \in DOMAIN segments : segments[n] \in Seq(Nat)
  /\ pass \in {"idle", "planned", "read", "write", "delete", "done", "failed", "killed"}
  /\ appending # <<>> => appending[1] = stored + 1
  /\ passes \in 0..MaxPasses /\ {raced, upward} \subseteq BOOLEAN

\* A consolidation killed at any step, or followed by another one, loses no
\* acknowledged record: inputs go only after their replacements are there.
\* Not so when a segment is cut into names above its own: its first chunk
\* replaces it while the rest of its records are in memory only.  Nor when the
\* server appends meanwhile: a race may lose what it appended, no more.
KilledPassKeepsRecords ==
  ConsolidationTypeOK /\ (~upward => 1..(IF raced THEN found ELSE stored) \subseteq OnDisk)

\* A consolidation nothing interferes with never stops with an error: the plan
\* passes its own layout check, the count matches before anything is deleted,
\* and the partition then reads as the same sequence as before.
UndisturbedPassSucceeds == ~raced => pass # "failed"

=============================================================================
