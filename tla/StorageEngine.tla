--------------------------- MODULE StorageEngine ---------------------------
(***************************************************************************)
(* internal/engine with the packages it composes: internal/wal,            *)
(* internal/memtable, and internal/sstable and internal/bloom seen through *)
(* what the engine does with their files.                                  *)
(*                                                                         *)
(* Every operation runs under e.mu, so no reader sees the inside of one;   *)
(* but Flush and Compact write several files, and the process may die      *)
(* between any two of them.  They are therefore split at each change of    *)
(* the disk ("pc"), while Put, Delete and Open are one step each.          *)
(*                                                                         *)
(* A value, a key's bytes and the framing of files are abstracted: keys    *)
(* are 1..NumKeys in their byte order, a log frame is a record or a torn   *)
(* one (a partial write), a Bloom filter is the set of keys MightContain   *)
(* accepts.  A crash is the death of the process: what it handed to the    *)
(* operating system stays, and a rename is atomic.                         *)
(***************************************************************************)
EXTENDS Integers, Sequences, FiniteSetsExt

CONSTANTS
  NumKeys,          \* keys are 1..NumKeys
  Values,           \* values of Put
  Nil,              \* a tombstone's value, and Get's answer "not found"
  FalsePositives,   \* keys a Bloom filter may accept without holding them
  SyncOnWrite,      \* Options.WALSyncOnWrite
  MaxWrites,        \* bound: log appends tried
  MaxOpens,         \* bound: calls of Open
  MaxCompactions,   \* bound: compactions started
  MaxFaults,        \* bound: I/O errors returned to the engine
  MaxTorn           \* bound: partial frames left in the log

ASSUME EngineAssumption ==
  /\ NumKeys \in Nat \ {0}
  /\ Nil \notin Values
  /\ FalsePositives \subseteq 1..NumKeys
  /\ SyncOnWrite \in BOOLEAN
  /\ {MaxWrites, MaxOpens, MaxCompactions, MaxFaults, MaxTorn} \subseteq Nat

VARIABLES
  wal,         \* disk: frames of wal.log
  manifest,    \* disk: MANIFEST.json (newManifest while there is no file)
  sst,         \* disk: file ID -> entries, for each table-NNNNNN.sst
  blooms,      \* disk: file ID -> keys accepted, for each table-NNNNNN.bloom
  status,      \* "open", or "closed": closed, crashed or not opened yet
  pc,          \* "idle": e.mu is free; else the next step of Flush or Compact
  mem,         \* e.mem: key -> entry
  tables,      \* e.tables, oldest first
  nextSeq,     \* e.nextSeq
  nextFileID,  \* e.nextFileID
  walSeq,      \* e.walLog.seq
  victims,     \* file IDs Compact has still to remove
  acked,       \* history: value of the last acknowledged write of each key
  unsure,      \* history: values of its unacknowledged writes since then
  used         \* how much of each bound is used up

diskVars == <<wal, manifest, sst, blooms>>
memVars  == <<status, pc, mem, tables, nextSeq, nextFileID, walSeq, victims>>
vars     == <<diskVars, memVars, acked, unsure, used>>

Keys   == 1..NumKeys
Datum  == Values \cup {Nil}
Entry  == [value : Datum, seq : Nat]
FlushSteps   == {"flushBloom", "flushCommit", "flushRotate", "flushReopen"}
CompactSteps == {"compactBloom", "compactCommit", "compactCleanup"}

----------------------------------------------------------------------------
(* Partial functions: a map of the code, a directory of files.             *)

EmptyMap        == [x \in {} |-> Nil]
With(f, x, y)   == [z \in DOMAIN f \cup {x} |-> IF z = x THEN y ELSE f[z]]
Without(f, x)   == [z \in DOMAIN f \ {x} |-> f[z]]

----------------------------------------------------------------------------
(* internal/wal                                                            *)

Frame(k, v, s) == [torn |-> FALSE, key |-> k, value |-> v, seq |-> s]
TornFrame      == [torn |-> TRUE, key |-> 0, value |-> Nil, seq |-> 0]

\* What a write that did not succeed may leave at the end of the file.
Remains(left, k, v) ==
  CASE left = "nothing" -> <<>>
    [] left = "torn"    -> <<TornFrame>>
    [] left = "whole"   -> <<Frame(k, v, walSeq + 1)>>

\* Replay stops, without an error, at a frame that the end of the file cuts
\* short.  When later appends have filled the gap it may also fail (Buried).
ReplayedFrames(w) == {i \in 1..Len(w) : \A j \in 1..i : ~w[j].torn}
Buried(w)         == \E i \in 1..Len(w) : i < Len(w) /\ w[i].torn

\* The MemTable after Replay: for each key, the last record replayed.
ReplayMem(w) ==
  LET Of(k) == {i \in ReplayedFrames(w) : w[i].key = k}
  IN  [k \in {w[i].key : i \in ReplayedFrames(w)} |->
         [value |-> w[Max(Of(k))].value, seq |-> w[Max(Of(k))].seq]]

\* The highest sequence number replayed, 0 for an empty log.
ReplaySeq(w) == Max({0} \cup {w[i].seq : i \in ReplayedFrames(w)})

----------------------------------------------------------------------------
(* internal/sstable and internal/bloom as the engine uses them             *)

\* A row of the manifest: sstable.Metadata gives the first and the last key.
TableEntry(id, entries) ==
  [id |-> id, minKey |-> Min(DOMAIN entries), maxKey |-> Max(DOMAIN entries)]

\* The handle of a row: a reader opened on the SSTable and its Bloom filter.
TableHandle(row) ==
  [id |-> row.id, minKey |-> row.minKey, maxKey |-> row.maxKey,
   entries |-> sst[row.id], bloom |-> blooms[row.id]]

NewManifest == [nextFileID |-> 1, nextSeq |-> 1, tables |-> <<>>]

\* Every row names two files that are there and pass the checks of
\* loadManifest: IDs distinct and not zero, tables not empty.
FilesPresent ==
  LET rows == manifest.tables
  IN  \A i \in 1..Len(rows) :
        /\ rows[i].id > 0
        /\ rows[i].id \in DOMAIN sst \cap DOMAIN blooms
        /\ DOMAIN sst[rows[i].id] # {}
        /\ \A j \in 1..Len(rows) : rows[i].id = rows[j].id => i = j

OpenTables == [i \in 1..Len(manifest.tables) |-> TableHandle(manifest.tables[i])]

----------------------------------------------------------------------------
(* Reads                                                                   *)

\* Faulty variant: the first key of a table is left out.
MayHoldStrict(th, k) == th.minKey < k /\ k <= th.maxKey /\ k \in th.bloom

\* Get looks into a table when the bounds and the Bloom filter let it.
MayHold(th, k) == th.minKey <= k /\ k <= th.maxKey /\ k \in th.bloom

\* Faulty variant: the oldest table that holds the key is asked first.
LookupOldest(m, ts, k) ==
  LET holding == {i \in 1..Len(ts) : MayHold(ts[i], k) /\ k \in DOMAIN ts[i].entries}
  IN  IF k \in DOMAIN m THEN m[k].value
      ELSE IF holding = {} THEN Nil
      ELSE ts[Min(holding)].entries[k].value

\* Get: the MemTable, then the newest table that holds the key.
Lookup(m, ts, k) ==
  LET holding == {i \in 1..Len(ts) : MayHold(ts[i], k) /\ k \in DOMAIN ts[i].entries}
  IN  IF k \in DOMAIN m THEN m[k].value
      ELSE IF holding = {} THEN Nil
      ELSE ts[Max(holding)].entries[k].value

Get(k) == Lookup(mem, tables, k)

Outcome(th, k) ==
  IF k < th.minKey \/ k > th.maxKey THEN "boundsSkip"
  ELSE IF k \notin th.bloom THEN "bloomSkip"
  ELSE IF k \in DOMAIN th.entries THEN "hit" ELSE "miss"

\* ExplainGet: its answer, and what came of each table it asked, newest first,
\* down to the one that holds the key.
ExplainGet(k) ==
  LET newest == [n \in 1..Len(tables) |-> tables[Len(tables) + 1 - n]]
      hits   == {n \in 1..Len(tables) : Outcome(newest[n], k) = "hit"}
      last   == IF hits = {} THEN Len(tables) ELSE Min(hits)
  IN  IF k \in DOMAIN mem THEN [value |-> mem[k].value, asked |-> <<>>]
      ELSE [value |-> IF hits = {} THEN Nil ELSE newest[last].entries[k].value,
            asked |-> [n \in 1..last |-> [table |-> newest[n], outcome |-> Outcome(newest[n], k)]]]

\* Faulty variant: the source met last wins.
NewestLast(sources, k) == Max({i \in 1..Len(sources) : k \in DOMAIN sources[i]})

\* The merge of Scan and of compact: the highest sequence number wins, and
\* among equals the source met first.
Newest(sources, k) ==
  LET holding == {i \in 1..Len(sources) : k \in DOMAIN sources[i]}
  IN  CHOOSE i \in holding : \A j \in holding :
        \/ sources[j][k].seq < sources[i][k].seq
        \/ sources[j][k].seq = sources[i][k].seq /\ i <= j

Merge(sources) ==
  [k \in UNION {DOMAIN sources[i] : i \in 1..Len(sources)} |->
     sources[Newest(sources, k)][k]]

TableSources == [i \in 1..Len(tables) |-> tables[i].entries]

\* Scan merges the MemTable and all tables and leaves tombstones out; this is
\* its answer for one key.
Scan(k) ==
  LET best == Merge(<<mem>> \o TableSources)
  IN  IF k \in DOMAIN best THEN best[k].value ELSE Nil

\* Faulty variant: tombstones are dropped before the merge.
LiveEntriesDroppedFirst ==
  LET live(f) == [k \in {x \in DOMAIN f : f[x].value # Nil} |-> f[k]]
  IN  Merge([i \in 1..Len(tables) |-> live(tables[i].entries)])

\* The entries a compaction writes: the merge of all tables, tombstones dropped.
LiveEntries ==
  LET best == Merge(TableSources)
  IN  [k \in {x \in DOMAIN best : best[x].value # Nil} |-> best[k]]

----------------------------------------------------------------------------
Init ==
  /\ wal = <<>> /\ manifest = NewManifest /\ sst = EmptyMap /\ blooms = EmptyMap
  /\ status = "closed" /\ pc = "idle" /\ mem = EmptyMap /\ tables = <<>>
  /\ nextSeq = 0 /\ nextFileID = 0 /\ walSeq = 0 /\ victims = <<>>
  /\ acked = [k \in Keys |-> Nil] /\ unsure = [k \in Keys |-> {}]
  /\ used = [writes |-> 0, opens |-> 0, compactions |-> 0, faults |-> 0, torn |-> 0]

Unlocked == status = "open" /\ pc = "idle"

Fault ==
  /\ used.faults < MaxFaults
  /\ used' = [used EXCEPT !.faults = @ + 1]

\* The next sequence number: past the log's and the manifest's.
NextSeqAfterReplay(w) ==
  IF ReplaySeq(w) >= manifest.nextSeq THEN ReplaySeq(w) + 1 ELSE manifest.nextSeq

\* Open: manifest, tables, then the log replayed into a new MemTable.  A torn frame
\* ends the replay without an error, as it does at the log's end; with later frames
\* behind it, it may also be read as a corrupt record (wal.go:257-286), and an Open
\* that is refused changes nothing, which is no step.
Open ==
  /\ status = "closed" /\ used.opens < MaxOpens /\ FilesPresent
  /\ status' = "open"
  /\ tables' = OpenTables
  /\ mem' = ReplayMem(wal)
  /\ walSeq' = ReplaySeq(wal)
  /\ nextSeq' = NextSeqAfterReplay(wal)
  /\ nextFileID' = manifest.nextFileID
  /\ used' = [used EXCEPT !.opens = @ + 1]
  /\ UNCHANGED <<diskVars, pc, victims, acked, unsure>>

\* The process loses its memory: Close, or a crash at any point.
LoseMemory ==
  /\ status' = "closed" /\ pc' = "idle" /\ mem' = EmptyMap /\ tables' = <<>>
  /\ nextSeq' = 0 /\ nextFileID' = 0 /\ walSeq' = 0 /\ victims' = <<>>

\* Close, or a crash while no operation runs: the disk is left as it is.
Close == Unlocked /\ LoseMemory /\ UNCHANGED <<diskVars, acked, unsure, used>>

\* A crash between two steps of Flush or Compact.
Crash ==
  /\ status = "open" /\ pc # "idle"
  /\ LoseMemory /\ UNCHANGED <<diskVars, acked, unsure, used>>

----------------------------------------------------------------------------
(* Put and Delete: one record in the log, then the MemTable.  The engine   *)
(* stamps the MemTable entry with its own nextSeq, but Append numbers the  *)
(* record with the log's counter, which starts again at 0 with each file.  *)

LogAppend(frames, torn) ==
  /\ used.writes < MaxWrites
  /\ used.torn + torn <= MaxTorn
  /\ wal' = wal \o frames

Write(k, v) ==
  /\ Unlocked
  /\ LogAppend(<<Frame(k, v, walSeq + 1)>>, 0)
  /\ walSeq' = walSeq + 1
  /\ mem' = With(mem, k, [value |-> v, seq |-> nextSeq])
  /\ nextSeq' = nextSeq + 1
  /\ acked' = [acked EXCEPT ![k] = v]
  /\ unsure' = [unsure EXCEPT ![k] = {}]
  /\ used' = [used EXCEPT !.writes = @ + 1]
  /\ UNCHANGED <<manifest, sst, blooms, status, pc, tables, nextFileID, victims>>

Put(k, v) == v \in Values /\ Write(k, v)
Delete(k) == Write(k, Nil)

\* The traced variants (explain.go) write the same.
ExplainPut(k, v) == Put(k, v)
ExplainDelete(k) == Delete(k)

TornCount(left) == IF left = "torn" THEN 1 ELSE 0

\* What the caller may see later of a write that did not return nil.
MayHappen(left, k, v) ==
  unsure' = IF left = "whole" THEN [unsure EXCEPT ![k] = @ \cup {v}] ELSE unsure

\* Append returns an error and its caller takes nextSeq back; the log keeps
\* its counter and whatever reached the file.  A whole record stays when only
\* the fsync of SyncOnWrite failed.
WriteFails(k, v, left) ==
  /\ Unlocked
  /\ left = "whole" => SyncOnWrite
  /\ used.faults < MaxFaults
  /\ LogAppend(Remains(left, k, v), TornCount(left))
  /\ walSeq' = walSeq + 1
  /\ MayHappen(left, k, v)
  /\ used' = [used EXCEPT !.writes = @ + 1, !.faults = @ + 1,
                          !.torn = @ + TornCount(left)]
  /\ UNCHANGED <<manifest, sst, blooms, status, pc, mem, tables, nextSeq,
                 nextFileID, victims, acked>>

\* The process dies inside Append, before the MemTable is reached.
CrashInWrite(k, v, left) ==
  /\ Unlocked
  /\ left # "nothing"
  /\ LogAppend(Remains(left, k, v), TornCount(left))
  /\ LoseMemory
  /\ MayHappen(left, k, v)
  /\ used' = [used EXCEPT !.writes = @ + 1, !.torn = @ + TornCount(left)]
  /\ UNCHANGED <<manifest, sst, blooms, acked>>

----------------------------------------------------------------------------
(* Building a table, as Flush and Compact both do it.  The ID of the table *)
(* being built is nextFileID - 1.  (sstable.Create failing gives the ID    *)
(* back and leaves nothing behind: no step.)                               *)

NewID == nextFileID - 1

CreateTable(entries, next) ==
  /\ sst' = With(sst, nextFileID, entries)
  /\ nextFileID' = nextFileID + 1
  /\ pc' = next
  /\ UNCHANGED <<wal, manifest, blooms, status, mem, tables, nextSeq, walSeq,
                 victims, acked, unsure>>

\* Faulty variant: the filter is given the first key only.
WriteBloomFirstKey(next) ==
  /\ blooms' = With(blooms, NewID, {Min(DOMAIN sst[NewID])})
  /\ pc' = next
  /\ UNCHANGED <<wal, manifest, sst, status, mem, tables, nextSeq, nextFileID,
                 walSeq, victims, acked, unsure, used>>

WriteBloom(next) ==
  /\ \E extra \in SUBSET FalsePositives :
       blooms' = With(blooms, NewID, DOMAIN sst[NewID] \cup extra)
  /\ pc' = next
  /\ UNCHANGED <<wal, manifest, sst, status, mem, tables, nextSeq, nextFileID,
                 walSeq, victims, acked, unsure, used>>

\* A step before the commit fails: the files are removed (which may fail in
\* its turn, unnoticed) and the ID is given back.
UndoTable ==
  /\ Fault
  /\ \E s \in {sst, Without(sst, NewID)}, b \in {blooms, Without(blooms, NewID)} :
       sst' = s /\ blooms' = b
  /\ nextFileID' = nextFileID - 1
  /\ pc' = "idle"
  /\ UNCHANGED <<wal, manifest, status, mem, tables, nextSeq, walSeq, victims,
                 acked, unsure>>

\* Faulty variant: the new handle goes in front of e.tables.
CommitTableInFront(rows, handles) ==
  LET row == TableEntry(NewID, sst[NewID])
  IN  /\ manifest' = [nextFileID |-> nextFileID, nextSeq |-> nextSeq,
                      tables |-> Append(rows, row)]
      /\ tables' = <<TableHandle(row)>> \o handles

\* saveManifest with the row of the new table after the rows kept; the row's
\* handle takes the same place in e.tables.
CommitTable(rows, handles) ==
  LET row == TableEntry(NewID, sst[NewID])
  IN  /\ manifest' = [nextFileID |-> nextFileID, nextSeq |-> nextSeq,
                      tables |-> Append(rows, row)]
      /\ tables' = Append(handles, TableHandle(row))

----------------------------------------------------------------------------
(* Flush                                                                   *)

FlushCreate ==
  /\ Unlocked /\ DOMAIN mem # {}
  /\ CreateTable(mem, "flushBloom")
  /\ UNCHANGED used

\* Faulty variant: the log is removed before the manifest is saved.
FlushBloomRemovesLog ==
  /\ pc = "flushBloom" /\ pc' = "flushCommit"
  /\ blooms' = With(blooms, NewID, DOMAIN sst[NewID])
  /\ wal' = <<>>
  /\ UNCHANGED <<manifest, sst, status, mem, tables, nextSeq, nextFileID, walSeq,
                 victims, acked, unsure, used>>

FlushBloom == pc = "flushBloom" /\ WriteBloom("flushCommit")

FlushFails == pc \in {"flushBloom", "flushCommit"} /\ UndoTable

FlushCommit ==
  /\ pc = "flushCommit"
  /\ CommitTable(manifest.tables, tables)
  /\ mem' = EmptyMap
  /\ pc' = "flushRotate"
  /\ UNCHANGED <<wal, sst, blooms, status, nextSeq, nextFileID, walSeq, victims,
                 acked, unsure, used>>

\* os.Remove of the log; its error is ignored.
FlushRotate ==
  /\ pc = "flushRotate"
  /\ \/ wal' = <<>> /\ UNCHANGED used
     \/ wal' = wal /\ Fault
  /\ pc' = "flushReopen"
  /\ UNCHANGED <<manifest, sst, blooms, status, mem, tables, nextSeq, nextFileID,
                 walSeq, victims, acked, unsure>>

\* wal.Open of a log starts to number at 0; the flush does not replay it.
OpenNewLog == walSeq' = 0

FlushReopen ==
  /\ pc = "flushReopen"
  /\ OpenNewLog
  /\ pc' = "idle"
  /\ UNCHANGED <<diskVars, status, mem, tables, nextSeq, nextFileID, victims,
                 acked, unsure, used>>

\* The new log cannot be opened: the engine marks itself closed.
FlushReopenFails ==
  /\ pc = "flushReopen" /\ Fault
  /\ LoseMemory
  /\ UNCHANGED <<diskVars, acked, unsure>>

----------------------------------------------------------------------------
(* Compact                                                                 *)

TableIDs(ts) == [i \in 1..Len(ts) |-> ts[i].id]

CompactBegins ==
  /\ Unlocked /\ Len(tables) > 1
  /\ used.compactions < MaxCompactions
  /\ used' = [used EXCEPT !.compactions = @ + 1]

CompactCreate ==
  /\ CompactBegins
  /\ DOMAIN LiveEntries # {}
  /\ CreateTable(LiveEntries, "compactBloom")

CompactBloom == pc = "compactBloom" /\ WriteBloom("compactCommit")

CompactFails == pc \in {"compactBloom", "compactCommit"} /\ UndoTable

\* Faulty variant: the new table is among those to remove.
CompactCommitRemovesAll ==
  /\ pc = "compactCommit"
  /\ CommitTable(<<>>, <<>>)
  /\ victims' = TableIDs(tables) \o <<NewID>>
  /\ pc' = "compactCleanup"
  /\ UNCHANGED <<wal, sst, blooms, status, mem, nextSeq, nextFileID, walSeq,
                 acked, unsure, used>>

CompactCommit ==
  /\ pc = "compactCommit"
  /\ CommitTable(<<>>, <<>>)
  /\ victims' = TableIDs(tables)
  /\ pc' = "compactCleanup"
  /\ UNCHANGED <<wal, sst, blooms, status, mem, nextSeq, nextFileID, walSeq,
                 acked, unsure, used>>

\* Nothing survives the merge: the manifest is emptied and no table written.
CompactToNothing ==
  /\ CompactBegins
  /\ DOMAIN LiveEntries = {}
  /\ manifest' = [manifest EXCEPT !.nextSeq = nextSeq, !.tables = <<>>]
  /\ tables' = <<>>
  /\ victims' = TableIDs(tables)
  /\ pc' = "compactCleanup"
  /\ UNCHANGED <<wal, sst, blooms, status, mem, nextSeq, nextFileID, walSeq,
                 acked, unsure>>

\* The old files of one table are removed; an os.Remove that fails leaves its
\* file behind, and the rest goes on.
CompactCleanup ==
  /\ pc = "compactCleanup" /\ victims # <<>>
  /\ \E s \in {sst, Without(sst, Head(victims))},
        b \in {blooms, Without(blooms, Head(victims))} :
       /\ sst' = s /\ blooms' = b
       /\ IF s = sst \/ b = blooms THEN Fault ELSE UNCHANGED used
  /\ victims' = Tail(victims)
  /\ UNCHANGED <<wal, manifest, status, pc, mem, tables, nextSeq, nextFileID,
                 walSeq, acked, unsure>>

CompactEnds ==
  /\ pc = "compactCleanup" /\ victims = <<>>
  /\ pc' = "idle"
  /\ UNCHANGED <<diskVars, status, mem, tables, nextSeq, nextFileID, walSeq,
                 victims, acked, unsure, used>>

----------------------------------------------------------------------------
WriteStep ==
  \E k \in Keys :
    \/ Delete(k) \/ ExplainDelete(k)
    \/ \E v \in Values : Put(k, v) \/ ExplainPut(k, v)
    \/ \E v \in Datum, left \in {"nothing", "torn", "whole"} :
         WriteFails(k, v, left) \/ CrashInWrite(k, v, left)

FlushStep ==
  \/ FlushCreate \/ FlushBloom \/ FlushFails \/ FlushCommit
  \/ FlushRotate \/ FlushReopen \/ FlushReopenFails

CompactStep ==
  \/ CompactCreate \/ CompactToNothing \/ CompactBloom \/ CompactFails
  \/ CompactCommit \/ CompactCleanup \/ CompactEnds

Next == Open \/ Close \/ Crash \/ WriteStep \/ FlushStep \/ CompactStep

Spec == Init /\ [][Next]_vars

----------------------------------------------------------------------------
(* Properties                                                              *)

IsMap(f) == DOMAIN f \subseteq Keys /\ f \in [DOMAIN f -> Entry]
Frames   == [torn : BOOLEAN, key : Nat, value : Datum, seq : Nat]
Rows     == [id : Nat, minKey : Keys, maxKey : Keys]
Usage    == [writes : Nat, opens : Nat, compactions : Nat, faults : Nat, torn : Nat]

WalOK(w)    == w \in Seq(Frames) /\ \A i \in 1..Len(w) : w[i].torn \/ w[i].key \in Keys
SSTsOK(s)   == DOMAIN s \subseteq Nat /\ \A id \in DOMAIN s : IsMap(s[id])
BloomsOK(b) == DOMAIN b \subseteq Nat /\ \A id \in DOMAIN b : b[id] \subseteq Keys
TablesOK(t) == \A i \in 1..Len(t) : IsMap(t[i].entries) /\ t[i].bloom \subseteq Keys

\* The types of the variables.
TypeOK ==
  /\ WalOK(wal) /\ SSTsOK(sst) /\ BloomsOK(blooms)
  /\ manifest \in [nextFileID : Nat, nextSeq : Nat, tables : Seq(Rows)]
  /\ status \in {"open", "closed"}
  /\ pc \in {"idle"} \cup FlushSteps \cup CompactSteps
  /\ IsMap(mem) /\ TablesOK(tables)
  /\ nextSeq \in Nat /\ nextFileID \in Nat /\ walSeq \in Nat
  /\ victims \in Seq(Nat)
  /\ acked \in [Keys -> Datum] /\ unsure \in [Keys -> SUBSET Datum]
  /\ used \in Usage

\* What a restart would answer.
Restarted(k) == Lookup(ReplayMem(wal), OpenTables, k)

\* What a reader is told: by the open engine, or by the one a restart opens.
View(k) == IF status = "open" THEN Get(k)
           ELSE IF FilesPresent THEN Restarted(k)
           ELSE Nil

\* At every moment, through every crash between the steps of Flush and
\* Compact, the manifest on disk names only tables that are complete: both
\* files there, bounds that enclose the entries, no Bloom false negative.
\* Otherwise Open fails, or Get skips a table that holds its key.
ManifestComplete ==
  /\ FilesPresent
  /\ \A i \in 1..Len(manifest.tables) :
       LET row == manifest.tables[i]
       IN  \A k \in DOMAIN sst[row.id] :
             row.minKey <= k /\ k <= row.maxKey /\ k \in blooms[row.id]

\* The handles in memory are those a restart would open, so that reads before
\* and after it consult the same tables in the same order.
HandlesMatchManifest == status = "open" => tables = OpenTables

\* No acknowledged write is lost or undone, whatever is flushed, compacted,
\* crashed or reopened: reads answer it or a later write of unknown outcome.
Durable == \A k \in Keys : View(k) \in {acked[k]} \cup unsure[k]

\* A partial frame does no harm by itself: the only step that loses an
\* acknowledged write ends the process while the log holds a record behind a
\* torn frame.
LossOnlyWhenBuried == [][Durable /\ ~Durable' => Buried(wal')]_vars

\* The three ways to read agree on every key: choosing by sequence number
\* (Scan), choosing by position (Get), and the copy of Get that traces it, whose
\* trace never reports a table as skipped that holds the key.
ScanMatchesGet ==
  Unlocked => \A k \in Keys :
    LET traced == ExplainGet(k)
    IN  /\ Scan(k) = Get(k) /\ traced.value = Get(k)
        /\ \A n \in DOMAIN traced.asked :
             k \in DOMAIN traced.asked[n].table.entries => traced.asked[n].outcome = "hit"

\* The engine's next sequence number is above every one in use, so that a new
\* write wins every merge.
SeqFresh ==
  status = "open" =>
    /\ \A k \in DOMAIN mem : mem[k].seq < nextSeq
    /\ \A i \in 1..Len(tables) : \A k \in DOMAIN tables[i].entries :
         tables[i].entries[k].seq < nextSeq

\* No step of Flush or Compact, successful or failed, changes what a reader
\* is told (engine.go: "Get and Scan return identical live results").
MaintenanceKeepsReads ==
  [][status = "open" /\ status' = "open" /\ pc # pc'
       => \A k \in Keys : Get(k)' = Get(k)]_vars

\* A file that the manifest names before and after a step is not touched by
\* it: a reused file ID never overwrites or removes a live table.
ListedFilesImmutable ==
  [][\A i \in 1..Len(manifest.tables), j \in 1..Len(manifest'.tables) :
       LET id == manifest.tables[i].id
       IN  id = manifest'.tables[j].id =>
             /\ id \in DOMAIN sst' /\ sst'[id] = sst[id]
             /\ id \in DOMAIN blooms' /\ blooms'[id] = blooms[id]]_vars

----------------------------------------------------------------------------
(* What the invariants above rest on, step by step (StorageEngineProofs).  *)

Building  == pc \in {"flushBloom", "flushCommit", "compactBloom", "compactCommit"}
Committing == pc \in {"flushCommit", "compactCommit"}
Listed    == {manifest.tables[i].id : i \in 1..Len(manifest.tables)}

\* The ID of a table being built is above all those the manifest lists, and
\* the tables to remove are not listed any more.
FileIDs ==
  /\ manifest.nextFileID > 0
  /\ \A id \in Listed : id < manifest.nextFileID
  /\ status = "closed" => pc = "idle" /\ tables = <<>>
  /\ status = "open" =>
       nextFileID = manifest.nextFileID + (IF Building THEN 1 ELSE 0)
  /\ Building => NewID \in DOMAIN sst /\ DOMAIN sst[NewID] # {}
  /\ Committing => NewID \in DOMAIN blooms /\ DOMAIN sst[NewID] \subseteq blooms[NewID]
  /\ pc # "compactCleanup" => victims = <<>>
  /\ \A i \in 1..Len(victims) : victims[i] \notin Listed

\* Sequence numbers in the log are bounded by the writes tried, those in the
\* tables by what the manifest remembers, those in memory by nextSeq.
SeqBelow(entries, n) == \A k \in DOMAIN entries : entries[k].seq < n

SeqBounds ==
  /\ walSeq <= used.writes /\ \A i \in 1..Len(wal) : wal[i].seq <= used.writes
  /\ \A id \in Listed : SeqBelow(sst[id], manifest.nextSeq)
  /\ status = "open" => manifest.nextSeq <= nextSeq /\ SeqBelow(mem, nextSeq)
  /\ Building => SeqBelow(sst[NewID], nextSeq)

\* The inductive invariant of the files and the numbers.
IInv == TypeOK /\ FileIDs /\ ManifestComplete /\ HandlesMatchManifest /\ SeqBounds

\* What the counts say: no life yet, no compaction yet, no partial frame yet.
History ==
  /\ used.opens <= MaxOpens /\ used.compactions <= MaxCompactions /\ used.torn <= MaxTorn
  /\ used.opens = 0 => status = "closed" /\ wal = <<>> /\ manifest = NewManifest
  /\ pc \in CompactSteps => used.compactions > 0
  /\ used.torn = 0 => \A i \in 1..Len(wal) : ~wal[i].torn

\* A table being built holds what it is to replace, and a flushed MemTable is
\* empty until the new log is open.
Built ==
  /\ pc \in {"flushBloom", "flushCommit"} => sst[NewID] = mem
  /\ pc \in {"compactBloom", "compactCommit"} => sst[NewID] = LiveEntries
  /\ pc \in {"flushRotate", "flushReopen"} => mem = EmptyMap

\* For each key, a newer table has a higher number, and the MemTable the highest:
\* choosing by number is choosing by position.
Ordered ==
  status = "open" =>
    \A i \in 1..Len(tables) : \A k \in DOMAIN tables[i].entries :
      /\ k \in DOMAIN mem => tables[i].entries[k].seq < mem[k].seq
      /\ \A j \in i + 1..Len(tables) :
           k \in DOMAIN tables[j].entries => tables[i].entries[k].seq < tables[j].entries[k].seq

\* The log tells of every write in the MemTable, and of none that a reader has not
\* been told of and was acknowledged.
Logged ==
  status = "open" /\ ~Buried(wal) =>
    /\ DOMAIN mem \subseteq DOMAIN ReplayMem(wal)
    /\ \A k \in DOMAIN ReplayMem(wal) : ReplayMem(wal)[k].value \in {Get(k)} \cup unsure[k]

\* A log is numbered from 0 again after each flush, so that the order of the
\* numbers, which compact goes by, is lost when a later life replays one.
InOrder == used.opens <= 1
Calm    == InOrder \/ used.compactions = 0

\* The inductive invariant of what reads answer.
ReadsInv == History /\ Built /\ (InOrder => Ordered) /\ (Calm => Logged)

----------------------------------------------------------------------------
\* The engine is a durable dictionary: every step is one of KVStore's, or
\* changes nothing a caller can see.
Store == INSTANCE KVStore WITH store <- [k \in Keys |-> View(k)]
Implements == Store!KVSpec
=============================================================================
