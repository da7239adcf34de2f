----------------------------- MODULE DurableLog -----------------------------
(***************************************************************************)
(* internal/replnet/durable_log.go and journal_baseline.go: the primary's  *)
(* replication journal, a file of numbered records, each fsynced before    *)
(* Append returns; and the baseline file that tells the journal of a       *)
(* promoted follower where to start.                                       *)
(*                                                                         *)
(* A record is a sequence number and an operation.  What a cut write       *)
(* leaves after the last whole record is its kind: part of the 4 length    *)
(* bytes ("length"), these 4 bytes and nothing else ("header"), or part of *)
(* the body ("body").  A crash kills the process and keeps what the system *)
(* was given; a power loss also takes any part of what was not fsynced.    *)
(***************************************************************************)
EXTENDS Integers, Sequences, SequencesExt

CONSTANTS
  Ops,              \* operations: Put or Delete with their key and value
  None,             \* no baseline file
  MaxSeq,           \* math.MaxUint64
  TornKinds,        \* subset of {"length", "header", "body"}
  MaxOpens,         \* bound: calls of OpenDurableLog
  MaxFaults,        \* bound: file operations that fail
  MaxPowerLosses    \* bound: power losses

ASSUME LogAssumption ==
  /\ MaxSeq \in Nat \ {0}
  /\ None \notin Nat
  /\ TornKinds \subseteq {"length", "header", "body"}
  /\ {MaxOpens, MaxFaults, MaxPowerLosses} \subseteq Nat

VARIABLES
  records,    \* disk: the whole records of replication.journal
  tail,       \* disk: what follows them, "none" or a torn kind
  synced,     \* disk: how many records are sure to survive a power loss
  baseline,   \* disk: base_seq of the baseline file, or None
  status,     \* "open" or "closed"
  index,      \* dl.index: sequence number and offset of each record
  nextSeq,    \* dl.nextSeq
  baseSeq,    \* dl.baseSeq
  poisoned,   \* dl.poisoned
  acked,      \* history: the records Append returned
  served,     \* history: the records readers of the open log were last given
  used        \* how much of each bound is used up

fileVars == <<records, tail, synced, baseline>>
logVars  == <<status, index, nextSeq, baseSeq, poisoned>>
vars     == <<fileVars, logVars, acked, served, used>>

Record == [seq : 1..MaxSeq, op : Ops]
Tails  == {"none"} \cup TornKinds

----------------------------------------------------------------------------
(* Opening: the baseline, then the replay.                                 *)

BaseOf(b) == IF b = None THEN 0 ELSE b

\* replay accepts records base + 1, base + 2, ... below MaxUint64.  A partial
\* length or body is cut off; but with the length read and no byte after it
\* io.ReadFull answers io.EOF, which is returned as an error.
ReplayOK(base) ==
  /\ tail # "header"
  /\ \A i \in 1..Len(records) :
       records[i].seq = base + i /\ records[i].seq < MaxSeq

ReplayIndex == [i \in 1..Len(records) |-> [seq |-> records[i].seq, offset |-> i]]

\* truncateTailAndSync, when there is something to cut.
CutTail ==
  /\ tail' = "none"
  /\ synced' = IF tail = "none" THEN synced ELSE Len(records)

\* nextSeq after replay: one past the last record, or past the baseline.
NextAfterReplay(base) ==
  IF records # <<>> THEN Last(records).seq + 1
  ELSE IF base = MaxSeq THEN MaxSeq ELSE base + 1

OpenDurableLog ==
  /\ status = "closed" /\ used.opens < MaxOpens
  /\ ReplayOK(BaseOf(baseline))
  /\ CutTail
  /\ status' = "open"
  /\ index' = ReplayIndex
  /\ nextSeq' = NextAfterReplay(BaseOf(baseline))
  /\ baseSeq' = BaseOf(baseline)
  /\ poisoned' = FALSE
  /\ served' = records
  /\ used' = [used EXCEPT !.opens = @ + 1]
  /\ UNCHANGED <<records, baseline, acked>>

LoseMemory ==
  /\ status' = "closed" /\ index' = <<>> /\ nextSeq' = 0 /\ baseSeq' = 0
  /\ poisoned' = FALSE

\* Close, or a crash while nothing is being written.
Close ==
  /\ status = "open" /\ LoseMemory
  /\ UNCHANGED <<fileVars, acked, served, used>>

----------------------------------------------------------------------------
(* Append, under dl.mu: write, fsync, and only then the index.             *)

NewRecord(op) == [seq |-> nextSeq, op |-> op]

\* Faulty variants: a poisoned log goes on appending; the record is not fsynced.
CanAppendPoisoned == status = "open" /\ nextSeq # MaxSeq
NoFsync           == synced' = synced

\* file.Sync: all that is in the file is now safe.
Fsync == synced' = Len(records')

CanAppend == status = "open" /\ ~poisoned /\ nextSeq # MaxSeq

AppendRecord(op) ==
  /\ CanAppend
  /\ records' = Append(records, NewRecord(op))
  /\ Fsync
  /\ index' = Append(index, [seq |-> nextSeq, offset |-> Len(records')])
  /\ nextSeq' = nextSeq + 1
  /\ acked' = Append(acked, NewRecord(op))
  /\ served' = records'
  /\ UNCHANGED <<tail, baseline, status, baseSeq, poisoned, used>>

Fault ==
  /\ used.faults < MaxFaults
  /\ used' = [used EXCEPT !.faults = @ + 1]

\* Write or fsync fails; rollback truncates the file back and fsyncs it.
AppendRolledBack ==
  /\ CanAppend /\ Fault
  /\ UNCHANGED <<records, tail, baseline, logVars, acked, served>>
  /\ Fsync

\* What a record leaves on disk when nobody knows how far it was written.
Leaves(op, left) ==
  /\ records' = IF left = "whole" THEN Append(records, NewRecord(op)) ELSE records
  /\ tail' = IF left = "whole" THEN "none" ELSE left

\* The rollback fails in its turn, at truncate, seek or fsync: poisoned.
AppendPoisons(op, left) ==
  /\ CanAppend /\ Fault
  /\ Leaves(op, left)
  /\ poisoned' = TRUE
  /\ UNCHANGED <<synced, baseline, status, index, nextSeq, baseSeq, acked, served>>

\* The process dies in Append before the fsync is done.
CrashInAppend(op, left) ==
  /\ CanAppend
  /\ Leaves(op, left)
  /\ LoseMemory
  /\ UNCHANGED <<synced, baseline, acked, served, used>>

\* The machine stops: of the bytes that were not fsynced any prefix survives.
PowerLoss ==
  /\ used.powerLosses < MaxPowerLosses
  /\ used' = [used EXCEPT !.powerLosses = @ + 1]
  /\ \E n \in synced..Len(records) :
       /\ records' = SubSeq(records, 1, n)
       /\ tail' \in IF n < Len(records) \/ tail # "none" THEN Tails ELSE {"none"}
  /\ LoseMemory
  /\ UNCHANGED <<synced, baseline, acked, served>>

----------------------------------------------------------------------------
\* Faulty variant: an incompatible journal is started afresh.
CreateJournalBaselineAfresh(b) ==
  /\ status = "closed" /\ b # MaxSeq
  /\ baseline' = b
  /\ records' = <<>> /\ tail' = "none" /\ synced' = 0
  /\ UNCHANGED <<logVars, acked, served, used>>

\* CreateJournalBaseline, by a follower being promoted: refused when another
\* baseline is there, when base_seq + 1 would wrap, or when the journal holds
\* records that do not start at base_seq + 1.  The compatibility check opens
\* the journal, which cuts its tail.
CreateJournalBaseline(b) ==
  /\ status = "closed"
  /\ b # MaxSeq
  /\ baseline \in {None, b}
  /\ ReplayOK(BaseOf(baseline))
  /\ records # <<>> => records[1].seq = b + 1
  /\ CutTail
  /\ baseline' = b
  /\ UNCHANGED <<records, logVars, acked, served, used>>

----------------------------------------------------------------------------
(* Reading                                                                 *)

\* Where a search still looks: positions from lo (0-based), hi excluded.
Window == [lo : 0..Len(index), hi : 0..Len(index)]

\* Faulty variant: the cursor's own entry is found again.
SearchAfterInclusive(after) ==
  LET search[w \in Window] ==
        IF w.lo >= w.hi THEN w.lo
        ELSE LET mid == (w.lo + w.hi) \div 2
             IN  IF index[mid + 1].seq < after THEN search[[w EXCEPT !.lo = mid + 1]]
                 ELSE search[[w EXCEPT !.hi = mid]]
  IN  search[[lo |-> 0, hi |-> Len(index)]]

\* The loop of EntriesAfter: the first position of the index whose sequence
\* number is above "after".
SearchAfter(after) ==
  LET search[w \in Window] ==
        IF w.lo >= w.hi THEN w.lo
        ELSE LET mid == (w.lo + w.hi) \div 2
             IN  IF index[mid + 1].seq <= after THEN search[[w EXCEPT !.lo = mid + 1]]
                 ELSE search[[w EXCEPT !.hi = mid]]
  IN  search[[lo |-> 0, hi |-> Len(index)]]

\* EntriesAfter reads each record at its offset, up to the limit.
EntriesAfter(after, limit) ==
  LET lo == SearchAfter(after)
      n  == IF Len(index) - lo < limit THEN Len(index) - lo ELSE limit
  IN  [i \in 1..n |-> records[index[lo + i].offset]]

FirstAvailableSeq == IF index = <<>> THEN 0 ELSE index[1].seq
LatestSeq         == IF index = <<>> THEN baseSeq ELSE Last(index).seq

----------------------------------------------------------------------------
Init ==
  /\ records = <<>> /\ tail = "none" /\ synced = 0 /\ baseline = None
  /\ status = "closed" /\ index = <<>> /\ nextSeq = 0 /\ baseSeq = 0
  /\ poisoned = FALSE /\ acked = <<>> /\ served = <<>>
  /\ used = [opens |-> 0, faults |-> 0, powerLosses |-> 0]

Next ==
  \/ OpenDurableLog \/ Close \/ PowerLoss \/ AppendRolledBack
  \/ \E op \in Ops : AppendRecord(op)
  \/ \E op \in Ops, left \in Tails \cup {"whole"} :
       AppendPoisons(op, left) \/ CrashInAppend(op, left)
  \/ \E b \in 0..MaxSeq : CreateJournalBaseline(b)

Spec == Init /\ [][Next]_vars

----------------------------------------------------------------------------
(* Properties                                                              *)

\* The types of the variables.
TypeOK ==
  /\ records \in Seq(Record) /\ tail \in Tails
  /\ synced \in 0..Len(records) /\ baseline \in {None} \cup 0..MaxSeq - 1
  /\ status \in {"open", "closed"}
  /\ index \in Seq([seq : 1..MaxSeq, offset : Nat \ {0}])
  /\ nextSeq \in 0..MaxSeq /\ baseSeq \in 0..MaxSeq - 1 /\ poisoned \in BOOLEAN
  /\ acked \in Seq(Record) /\ served \in Seq(Record)
  /\ used \in [{"opens", "faults", "powerLosses"} -> Nat]

\* What Append acknowledged is in the part of the file that no crash and no
\* power loss can take away, through every failed append and rollback.
AcksSurvive == \A i \in 1..Len(acked) : \E j \in 1..synced : records[j] = acked[i]

\* Whatever a crash, a power loss or a failed rollback leaves in the file, the
\* next OpenDurableLog accepts it, unless it ends behind 4 length bytes.
OnlyHeaderBlocks ==
  status = "closed" => tail = "header" \/ ReplayOK(BaseOf(baseline))

\* The same without the exception, as durable_log.go says of its replay: a
\* partial tail is cut off.
ReopenSucceeds == status = "closed" => ReplayOK(BaseOf(baseline))

\* EntriesAfter(after, limit) is the first "limit" records above "after", for
\* every cursor a follower may send: nothing skipped, repeated or unindexed; and
\* the next number follows the last record, or the baseline, without a gap.
ReadsExact ==
  status = "open" =>
    /\ \A after \in 0..MaxSeq, limit \in 1..MaxSeq :
         \E lo \in 0..Len(served) :
           /\ \A i \in 1..Len(served) : served[i].seq > after <=> i > lo
           /\ EntriesAfter(after, limit) =
                SubSeq(served, lo + 1,
                       IF Len(served) < lo + limit THEN Len(served) ELSE lo + limit)
    /\ LatestSeq = baseSeq + Len(served) /\ nextSeq = LatestSeq + 1
    /\ FirstAvailableSeq \in {0, baseSeq + 1}

\* As long as the power stays on, the history a reader is given only grows: a
\* sequence number never comes to name another record than the one some
\* follower may have applied, through crashes, rollbacks and new baselines.
AppendOnly == [][used.powerLosses = 0 => IsPrefix(served, served')]_vars

----------------------------------------------------------------------------
(* The inductive invariant behind these properties                         *)

\* The records follow the baseline without a gap, and none has the last number.
NumberedInv ==
  \A i \in 1..Len(records) :
    records[i].seq = BaseOf(baseline) + i /\ records[i].seq < MaxSeq

\* An open log has indexed what its readers are given: all of the file, unless a
\* failed rollback has left something behind that.
OpenInv ==
  status = "open" =>
    /\ baseSeq = BaseOf(baseline) /\ nextSeq = baseSeq + Len(index) + 1
    /\ \A i \in 1..Len(index) : index[i] = [seq |-> baseSeq + i, offset |-> i]
    /\ Len(served) = Len(index) /\ IsPrefix(served, records)
    /\ ~poisoned => tail = "none" /\ Len(index) = Len(records)

\* Without a power loss the file still has all that a reader was ever given.
ServedInv == used.powerLosses = 0 => IsPrefix(served, records)

IInv == TypeOK /\ AcksSurvive /\ NumberedInv /\ OpenInv /\ ServedInv
=============================================================================
