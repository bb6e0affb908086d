------------------------------- MODULE Memories -------------------------------
(***************************************************************************)
(* Memories of one domain, from the calls that write them to the lists     *)
(* that show them (mcp/tools/remember.ts, forget.ts, PUT of                *)
(* http/routes/memories.ts, duckdb/queries.ts, git/squash.ts).  A row is   *)
(* never changed: a memory is its newest row, and is forgotten when that   *)
(* is a tombstone.  Rows are kept in one partition per month; a list reads *)
(* them all, a tombstone is written to the current month.                  *)
(*                                                                         *)
(* Rows are numbered as they are appended, which is the order of their     *)
(* timestamps; NoTime is a timestamp that does not parse.  The partition   *)
(* of a month is one file.  The serializer is NamespaceWriter's: here a    *)
(* row is appended and acknowledged at once, or its call fails.            *)
(***************************************************************************)
EXTENDS Integers, FiniteSetsExt, SequencesExt

CONSTANTS
  MemoryCall,      \* concurrent calls
  MemoryKey, Author,
  UnknownKey, SystemAuthor,  \* those of a tombstone whose original was not found
  NoFilter,
  MaxMemoryId,     \* bound: memories
  MaxMemoryRows,   \* bound: rows written
  MaxMonth,        \* bound: months
  Slack,           \* PLAIN_LIST_DEDUP_SLACK
  MaxWindow        \* PLAIN_LIST_MAX_WINDOW

ASSUME MemoriesAssumption ==
  /\ {MaxMemoryRows, Slack, MaxWindow} \subseteq Nat
  /\ {MaxMemoryId, MaxMonth} \subseteq Nat \ {0}
  /\ MemoryKey # {}

\* What a filter is compared with shows in its value: a key, an author or an id.
ASSUME FilterAssumption ==
  /\ (MemoryKey \cup Author \cup {UnknownKey, SystemAuthor, NoFilter}) \cap 1..MaxMemoryId = {}
  /\ MemoryKey \cap (Author \cup {SystemAuthor, NoFilter}) = {}

VARIABLES
  memoryRows,  \* rows of the JSONL partitions
  archive,     \* rows of the Parquet files, which no query reads
  month,       \* the current month
  lastId, lastTime,
  memoryCall,  \* a forget or an update in progress
  squash,      \* the squash in progress
  alive,       \* history: memories whose creation was acknowledged, no forget begun
  gone,        \* history: memories whose forgetting was acknowledged
  overtaken    \* history: rows appended to a partition that was being squashed

histories == <<alive, gone, overtaken>>
memoriesVars ==
  <<memoryRows, archive, month, lastId, lastTime, memoryCall, squash, histories>>

NoTime == 0
Unknown == [key |-> UnknownKey, by |-> SystemAuthor]
NoCall == [at |-> "idle", id |-> 0, key |-> UnknownKey, month |-> 0, stamp |-> Unknown,
           update |-> FALSE]
NoSquash == [at |-> "idle", month |-> 0, rows |-> {}]

-----------------------------------------------------------------------------
(* Queries                                                                 *)

\* The inner WHERE: one equality filter of a listing, by key, author or id.
Matches(row, filter) == filter = NoFilter \/ filter = row.key \/ filter = row.by \/ filter = row.id

Matching(rows, filter) == {row \in rows : Matches(row, filter)}

\* ROW_NUMBER over the rows that passed the WHERE: the newest of each id.
NewestOfEach(rows) == {row \in rows : \A other \in rows : other.id = row.id => other.at <= row.at}

IsLive(row) == row.act # "tombstone"

\* DEFAULT_ORDER_BY: newest first, rows without a time last, then by id.
InOrder(rows) ==
  SetToSortSeq(rows, LAMBDA a, b : a.at > b.at \/ (a.at = b.at /\ a.id < b.id))

PageOf(list, offset, limit) == SubSeq(list, offset + 1, Min({offset + limit, Len(list)}))

\* queryMemoriesWithTotalFused, queryMemories and countMemories.
Fused(rows, filter) == {row \in NewestOfEach(Matching(rows, filter)) : IsLive(row)}
FusedPage(rows, filter, offset, limit) == PageOf(InOrder(Fused(rows, filter)), offset, limit)

\* Mutant: a tombstone is dropped before its id is remembered.
DedupeLive(raw) ==
  LET live == SelectSeq(raw, IsLive)
      first(i) == \A j \in 1..(i - 1) : live[j].id # live[i].id
  IN [n \in 1..Cardinality({i \in DOMAIN live : first(i)}) |->
        live[CHOOSE i \in DOMAIN live : first(i) /\
               Cardinality({j \in 1..i : first(j)}) = n]]

\* dedupePage: the first row of each id in the window, unless it is a tombstone.
Dedupe(raw) ==
  LET shown(i) == IsLive(raw[i]) /\ \A j \in 1..(i - 1) : raw[j].id # raw[i].id
      places == SetToSortSeq({i \in DOMAIN raw : shown(i)}, <)
  IN [n \in DOMAIN places |-> raw[places[n]]]

\* runBoundedRead: the newest rows, one id or not, up to a window.
Window(rows, filter, size) ==
  LET ordered == InOrder(Matching(rows, filter))
  IN SubSeq(ordered, 1, Min({size, Len(ordered)}))

\* arg_max ignores rows without a time, so an id that has no other is not counted.
BoundedTotal(rows, filter) ==
  LET timed == {row \in Matching(rows, filter) : row.at # NoTime}
  IN Cardinality({row \in NewestOfEach(timed) : IsLive(row)})

\* queryPlainListBounded doubles its window until the page is full or the rows are
\* exhausted; past the cap the fused statement answers.
BoundedPage(rows, filter, offset, limit) ==
  LET windows == {w \in {(offset + limit + Slack) * 2^n : n \in 0..3} : w <= MaxWindow}
      page(w) == PageOf(Dedupe(Window(rows, filter, w)), offset, limit)
      done(w) == Len(page(w)) = limit \/ Len(Window(rows, filter, w)) < w
      enough == {w \in windows : done(w)}
  IN CASE limit = 0 -> <<>>
       [] limit # 0 /\ enough # {} -> page(Min(enough))
       [] OTHER -> FusedPage(rows, filter, offset, limit)

-----------------------------------------------------------------------------
(* Writes                                                                  *)

MemoryLine(id, key, by, act, m) ==
  [id |-> id, key |-> key, by |-> by, act |-> act, at |-> lastTime + 1, month |-> m]

\* insertMemoryToPartition.
AppendMemory(row) ==
  /\ lastTime < MaxMemoryRows
  /\ lastTime' = row.at
  /\ memoryRows' = memoryRows \cup {row}
  /\ overtaken' = IF squash.month = row.month THEN overtaken \cup {row} ELSE overtaken

\* A new memory gets a new id and goes to the current month.
AddMemory(key, by) ==
  /\ lastId < MaxMemoryId
  /\ lastId' = lastId + 1
  /\ AppendMemory(MemoryLine(lastId + 1, key, by, "add", month))
  /\ alive' = alive \cup {lastId + 1}

Remember(key, by) ==
  /\ AddMemory(key, by)
  /\ UNCHANGED <<archive, month, memoryCall, squash, gone>>

\* forgetTool finds the memory in any partition, by its id alone, and chooses the
\* partition of the current month for the tombstone; so does the PUT route, whose new
\* version will have the key it found.
FindMemory(call, id, update) ==
  /\ memoryCall[call].at = "idle"
  /\ \E row \in Fused(memoryRows, id) :
       memoryCall' = [memoryCall EXCEPT ![call] =
         [at |-> "found", id |-> id, key |-> row.key, month |-> month, stamp |-> Unknown,
          update |-> update]]
  /\ alive' = alive \ {id}
  /\ UNCHANGED <<memoryRows, archive, month, lastId, lastTime, squash, gone, overtaken>>

\* tombstoneMemory looks for the original once more, in that partition alone; not there,
\* the tombstone has neither its key nor its author.
LookInPartition(call) ==
  LET here == {row \in memoryRows : row.month = memoryCall[call].month}
      original == Fused(here, memoryCall[call].id)
      stamps == IF original = {} THEN {Unknown}
                ELSE {[key |-> row.key, by |-> row.by] : row \in original}
  IN /\ memoryCall[call].at = "found"
     /\ \E stamp \in stamps :
          memoryCall' = [memoryCall EXCEPT ![call].at = "named", ![call].stamp = stamp]
     /\ UNCHANGED <<memoryRows, archive, month, lastId, lastTime, squash, histories>>

\* by is the caller, if the call names one.
Tombstone(call, by) ==
  LET found == memoryCall[call]
      author == IF by = NoFilter THEN found.stamp.by ELSE by
  IN /\ found.at = "named"
     /\ AppendMemory(MemoryLine(found.id, found.stamp.key, author, "tombstone", found.month))
     /\ gone' = gone \cup {found.id}
     /\ memoryCall' = [memoryCall EXCEPT ![call] =
          IF found.update THEN [NoCall EXCEPT !.at = "forgot", !.key = found.key] ELSE NoCall]
     /\ UNCHANGED <<archive, month, lastId, squash, alive>>

\* The second half of a PUT: the new version is a new memory.
RememberUpdate(call, by) ==
  /\ memoryCall[call].at = "forgot"
  /\ AddMemory(memoryCall[call].key, by)
  /\ memoryCall' = [memoryCall EXCEPT ![call] = NoCall]
  /\ UNCHANGED <<archive, month, squash, gone>>

\* The call is refused by the serializer, or its process dies.
AbandonCall(call) ==
  /\ memoryCall[call].at # "idle"
  /\ memoryCall' = [memoryCall EXCEPT ![call] = NoCall]
  /\ UNCHANGED <<memoryRows, archive, month, lastId, lastTime, squash, histories>>

NextMonth ==
  /\ month < MaxMonth
  /\ month' = month + 1
  /\ UNCHANGED <<memoryRows, archive, lastId, lastTime, memoryCall, squash, histories>>

-----------------------------------------------------------------------------
(* squashPartition                                                         *)

\* The rows of the partition are loaded into a temporary table.
ReadPartition(m) ==
  LET rows == {row \in memoryRows : row.month = m}
  IN /\ squash.at = "idle"
     /\ rows # {}
     /\ squash' = [at |-> "read", month |-> m, rows |-> rows]
     /\ UNCHANGED <<memoryRows, archive, month, lastId, lastTime, memoryCall, histories>>

\* Mutant: the files are removed before the copy.
RemoveBeforeCopy ==
  /\ squash.at = "read"
  /\ memoryRows' = {row \in memoryRows : row.month # squash.month}
  /\ squash' = NoSquash
  /\ UNCHANGED <<archive, month, lastId, lastTime, memoryCall, histories>>

\* The rows that are no tombstones are copied to a Parquet file.
CopyToParquet ==
  /\ squash.at = "read"
  /\ archive' = archive \cup {row \in squash.rows : IsLive(row)}
  /\ squash' = [squash EXCEPT !.at = "copied"]
  /\ UNCHANGED <<memoryRows, month, lastId, lastTime, memoryCall, histories>>

\* The JSONL files are removed, with whatever was appended to them meanwhile.
RemoveJsonl ==
  /\ squash.at = "copied"
  /\ memoryRows' = {row \in memoryRows : row.month # squash.month}
  /\ squash' = NoSquash
  /\ UNCHANGED <<archive, month, lastId, lastTime, memoryCall, histories>>

\* DuckDB or the disk fails, or the process dies.
AbandonSquash ==
  /\ squash.at # "idle"
  /\ squash' = NoSquash
  /\ UNCHANGED <<memoryRows, archive, month, lastId, lastTime, memoryCall, histories>>

\* A namespace may hold an imported row whose timestamp does not parse.
MemoriesInit ==
  /\ month = 1
  /\ lastId \in 0..1
  /\ memoryRows = {[id |-> i, key |-> key, by |-> SystemAuthor, act |-> "add",
                    at |-> NoTime, month |-> 1] :
                     i \in 1..lastId, key \in {CHOOSE key \in MemoryKey : TRUE}}
  /\ alive = 1..lastId
  /\ archive = {} /\ gone = {} /\ overtaken = {}
  /\ lastTime = 0
  /\ memoryCall = [call \in MemoryCall |-> NoCall]
  /\ squash = NoSquash

MemoriesNext ==
  \/ \E key \in MemoryKey, by \in Author : Remember(key, by)
  \/ \E call \in MemoryCall, id \in 1..MaxMemoryId, update \in BOOLEAN :
       FindMemory(call, id, update)
  \/ \E call \in MemoryCall : LookInPartition(call)
  \/ \E call \in MemoryCall, by \in Author \cup {NoFilter} : Tombstone(call, by)
  \/ \E call \in MemoryCall, by \in Author : RememberUpdate(call, by)
  \/ \E call \in MemoryCall : AbandonCall(call)
  \/ \E m \in 1..MaxMonth : ReadPartition(m)
  \/ CopyToParquet \/ RemoveJsonl \/ AbandonSquash
  \/ NextMonth

-----------------------------------------------------------------------------
(* Properties                                                              *)

MemoryRow == [id : 1..MaxMemoryId, key : MemoryKey \cup {UnknownKey},
              by : Author \cup {SystemAuthor}, act : {"add", "tombstone"},
              at : 0..MaxMemoryRows, month : 1..MaxMonth]

MemoriesTypeOK ==
  /\ memoryRows \cup archive \cup squash.rows \subseteq MemoryRow
  /\ month \in 1..MaxMonth
  /\ lastId \in 0..MaxMemoryId /\ lastTime \in 0..MaxMemoryRows
  /\ \A call \in MemoryCall : memoryCall[call].at \in {"idle", "found", "named", "forgot"}
  /\ squash.at \in {"idle", "read", "copied"}
  /\ alive \cup gone \subseteq 1..lastId

Filters == {NoFilter, UnknownKey, SystemAuthor} \cup MemoryKey \cup Author

\* Bounded is exact: whatever versions, tombstones and imported rows a namespace holds,
\* a plain list answers with the page and the total that the statement over all rows
\* would, for every filter, offset and limit, whether its window held enough rows, was
\* doubled, or was given up.  The total leaves out memories without a single timestamp
\* that parses.  (Asked where no call is under way: a list depends on the rows alone.)
BoundedIsExact ==
  memoryRows # {} /\ squash = NoSquash /\ (\A c \in MemoryCall : memoryCall[c] = NoCall) =>
  \A filter \in Filters :
    LET rows == Matching(memoryRows, filter)
        timeless == {row.id : row \in rows} \ {row.id : row \in {r \in rows : r.at # NoTime}}
    IN /\ timeless = {} =>
            BoundedTotal(memoryRows, filter) = Cardinality(Fused(memoryRows, filter))
       /\ \A offset \in 0..2, limit \in 0..2 :
            BoundedPage(memoryRows, filter, offset, limit)
              = FusedPage(memoryRows, filter, offset, limit)

Listed == {row.id : row \in Fused(memoryRows, NoFilter)}
Archived(id) == \E row \in archive : row.id = id
Overtaken(id) == \E row \in overtaken : row.id = id
TombstoneSquashed(id) == ~\E row \in memoryRows : row.id = id /\ ~IsLive(row)

\* The list is what lives: in any month and across concurrent forgets, updates and
\* squashes, stopped anywhere, the unfiltered list shows every memory that was
\* acknowledged and that nobody began to forget, unless a squash moved it to Parquet or
\* it was written to a partition during its squash; and it shows none whose forgetting
\* was acknowledged, unless a squash dropped its tombstone and not its row.  A list by key
\* shows a forgotten memory only if all its tombstones are of later months than its row.
ListIsLive ==
  /\ MemoriesTypeOK
  /\ \A id \in alive : id \in Listed \/ Archived(id) \/ Overtaken(id)
  /\ \A id \in gone : id \in Listed => TombstoneSquashed(id)
  /\ \A key \in MemoryKey : \A row \in Fused(memoryRows, key) : row.id \in gone =>
       \A other \in memoryRows :
         other.id = row.id /\ ~IsLive(other) => other.month > row.month

=============================================================================
