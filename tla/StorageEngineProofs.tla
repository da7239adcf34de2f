------------------------ MODULE StorageEngineProofs ------------------------
(***************************************************************************)
(* Theorems about StorageEngine, for every value of its constants and any  *)
(* number of operations, faults and crashes.                               *)
(*                                                                         *)
(* The argument.  A table is built under an ID that the manifest on disk   *)
(* has not given out (FileIDs), so nothing done before the commit touches  *)
(* a listed file (FilesKept), and a step that leaves the manifest alone    *)
(* leaves all that it lists alone (ManifestKept).  A commit adds a table   *)
(* whose two files are complete by then (CommitOK).  The removals after it *)
(* are of tables no longer listed.  Sequence numbers: the log numbers its  *)
(* records below the engine, the manifest remembers a bound above those in *)
(* its tables, and the merge of a compaction invents none                  *)
(* (MergeFromSources).                                                     *)
(*                                                                         *)
(* Then what readers are told.  ReadsInv adds that a table being built is  *)
(* a copy of what it replaces (Built), that number and position give the   *)
(* same order (Ordered) and that the log tells of every write the MemTable *)
(* holds (Logged).  The first makes a commit invisible (LookupFlushed,     *)
(* LookupCompacted), the second makes Scan agree with Get, and the third   *)
(* makes a restart answer what was answered before (RestartAnswers).       *)
(* Ordered ends with the second life of an engine, whose log is numbered   *)
(* from 0 again; from then on a compaction may bring an old value back,    *)
(* so that what follows is claimed of calm histories only (Calm).          *)
(***************************************************************************)
EXTENDS StorageEngine, SequenceTheorems, WellFoundedInduction, TLAPS

USE EngineAssumption DEF Keys, Datum

----------------------------------------------------------------------------
(* Extrema of bounded sets of numbers; sequences                           *)

\* A set of naturals has a least element.
LEMMA LeastNat ==
  ASSUME NEW T, T \subseteq Nat, T # {}
  PROVE  \E x \in T : \A y \in T : x <= y
<1>1. PICK x \in T : \A y \in T : <<y, x>> \notin OpToRel(<, Nat)
  BY NatLessThanWellFounded, WFMin
<1>2. \A y \in T : ~(y < x) BY <1>1 DEF OpToRel
<1> QED BY <1>2

\* Min finds the least element.
LEMMA MinBounds ==
  ASSUME NEW S, S \subseteq Nat, S # {}
  PROVE  Min(S) \in S /\ \A y \in S : Min(S) <= y
BY LeastNat DEF Min

\* A bounded set of naturals has a greatest one, and Max finds it.
LEMMA MaxBounds ==
  ASSUME NEW S, NEW n \in Nat, S \subseteq 0..n, S # {}
  PROVE  Max(S) \in S /\ \A y \in S : y <= Max(S)
<1> DEFINE T == {n - x : x \in S}
<1>1. T \subseteq Nat /\ T # {} OBVIOUS
<1>2. PICK d \in T : \A e \in T : d <= e BY <1>1, LeastNat
<1>3. PICK x \in S : d = n - x BY <1>2
<1>4. \A y \in S : y <= x
  <2> TAKE y \in S
  <2>1. n - y \in T OBVIOUS
  <2>2. n - x <= n - y BY <2>1, <1>2, <1>3
  <2> QED BY <2>2
<1>5. \E z \in S : \A y \in S : z >= y BY <1>4
<1> QED BY <1>5 DEF Max

\* Append on a function over 1..n of values of any kind.
LEMMA AppendAny ==
  ASSUME NEW n \in Nat, NEW f, f = [i \in 1..n |-> f[i]], NEW x
  PROVE  /\ Len(f) = n /\ Len(Append(f, x)) = n + 1
         /\ Append(f, x)[n + 1] = x
         /\ \A i \in 1..n : Append(f, x)[i] = f[i]
         /\ Append(f, x) = [i \in 1..n + 1 |-> Append(f, x)[i]]
OBVIOUS

----------------------------------------------------------------------------
(* The files of the manifest                                               *)

Kept(id) == /\ id \in DOMAIN sst' /\ sst'[id] = sst[id]
            /\ id \in DOMAIN blooms' /\ blooms'[id] = blooms[id]


\* What a step needs to know of the manifest's files, of the one being built
\* and of those being removed.
LEMMA FileFacts ==
  ASSUME IInv
  PROVE  /\ manifest.nextFileID \in Nat \ {0} /\ nextFileID \in Nat
         /\ \A id \in Listed : /\ id \in Nat /\ id < manifest.nextFileID
                               /\ id \in DOMAIN sst \cap DOMAIN blooms
         /\ status = "open" /\ ~Building => nextFileID = manifest.nextFileID
         /\ Building => status = "open" /\ NewID = manifest.nextFileID
         /\ victims # <<>> => Head(victims) \notin Listed
<1>1. /\ manifest.nextFileID \in Nat /\ nextFileID \in Nat
      /\ status \in {"open", "closed"}
      /\ manifest.tables \in Seq(Rows)
  BY DEF IInv, TypeOK
<1>2. \A id \in Listed : id \in Nat /\ id \in DOMAIN sst \cap DOMAIN blooms
  <2> SUFFICES ASSUME NEW i \in 1..Len(manifest.tables)
               PROVE  /\ manifest.tables[i].id \in Nat
                      /\ manifest.tables[i].id \in DOMAIN sst \cap DOMAIN blooms
    BY DEF Listed
  <2>1. manifest.tables[i] \in Rows BY <1>1
  <2> QED BY <2>1 DEF IInv, ManifestComplete, FilesPresent, Rows
<1>3. victims # <<>> => Head(victims) \notin Listed
  <2>1. victims \in Seq(Nat) BY DEF IInv, TypeOK
  <2>2. victims # <<>> => 1 \in 1..Len(victims) /\ Head(victims) = victims[1]
    BY <2>1
  <2> QED BY <2>2 DEF IInv, FileIDs
<1>4. Building => status = "open" BY <1>1 DEF IInv, FileIDs, Building
<1> QED BY <1>1, <1>2, <1>3, <1>4 DEF IInv, FileIDs, NewID

\* No step touches a file that the manifest lists before and after it.
LEMMA FilesKept ==
  ASSUME IInv, [Next]_vars
  PROVE  \A id \in Listed \cap Listed' : Kept(id)
<1> USE FileFacts
<1>1. CASE sst' = sst /\ blooms' = blooms BY <1>1 DEF Kept
<1>2. ASSUME NEW entries, NEW next, CreateTable(entries, next), Unlocked
      PROVE  \A id \in Listed : Kept(id)
  <2>1. nextFileID = manifest.nextFileID BY <1>2 DEF Unlocked, Building
  <2>2. sst' = With(sst, nextFileID, entries) /\ blooms' = blooms
    BY <1>2 DEF CreateTable
  <2> QED BY <2>1, <2>2 DEF With, Kept
<1>3. ASSUME NEW next, WriteBloom(next), Building
      PROVE  \A id \in Listed : Kept(id)
  <2>1. NewID \notin Listed BY <1>3
  <2>2. PICK accepted : blooms' = With(blooms, NewID, accepted) /\ sst' = sst
    BY <1>3 DEF WriteBloom
  <2> QED BY <2>1, <2>2 DEF With, Kept
<1>4. ASSUME NEW x, x \notin Listed,
             sst' = sst \/ sst' = Without(sst, x),
             blooms' = blooms \/ blooms' = Without(blooms, x)
      PROVE  \A id \in Listed : Kept(id)
  BY <1>4 DEF Without, Kept
<1>5. ASSUME UndoTable, Building
      PROVE  \A id \in Listed : Kept(id)
  <2>1. NewID \notin Listed BY <1>5
  <2> QED BY <2>1, <1>4, <1>5 DEF UndoTable
<1>6. CASE CompactCleanup
  <2>1. Head(victims) \notin Listed BY <1>6 DEF CompactCleanup
  <2> QED BY <2>1, <1>4, <1>6 DEF CompactCleanup
<1>7. CASE FlushStep
  BY <1>1, <1>2, <1>3, <1>5, <1>7
  DEF FlushStep, FlushCreate, FlushBloom, FlushFails, FlushCommit, FlushRotate,
      FlushReopen, OpenNewLog, FlushReopenFails, Building, diskVars
<1>8. CASE CompactStep
  BY <1>1, <1>2, <1>3, <1>5, <1>6, <1>8
  DEF CompactStep, CompactBegins, CompactCreate, CompactToNothing, CompactBloom,
      CompactFails, CompactCommit, CompactEnds, Building, diskVars
<1>9. CASE WriteStep
  BY <1>1, <1>9
  DEF WriteStep, ExplainPut, ExplainDelete, Put, Delete, Write, WriteFails, CrashInWrite
<1> QED
  BY <1>1, <1>7, <1>8, <1>9 DEF Next, Open, Close, Crash, diskVars, vars

\* A step that does not write the manifest leaves what it lists as it was.
LEMMA ManifestKept ==
  ASSUME IInv, [Next]_vars, manifest' = manifest
  PROVE  /\ ManifestComplete' /\ OpenTables' = OpenTables /\ Listed' = Listed
         /\ \A id \in Listed' : SeqBelow(sst'[id], manifest'.nextSeq)
<1>1. Listed' = Listed BY DEF Listed
<1>2. \A i \in 1..Len(manifest.tables) : manifest.tables[i].id \in Listed
  BY DEF Listed
<1>3. \A id \in Listed : Kept(id) BY <1>1, FilesKept
<1>4. ManifestComplete'
  BY <1>2, <1>3 DEF IInv, ManifestComplete, FilesPresent, Kept
<1>5. OpenTables' = OpenTables
  BY <1>2, <1>3 DEF OpenTables, TableHandle, Kept
<1>6. \A id \in Listed' : SeqBelow(sst'[id], manifest'.nextSeq)
  BY <1>1, <1>3 DEF IInv, SeqBounds, Kept
<1> QED BY <1>1, <1>4, <1>5, <1>6

----------------------------------------------------------------------------
(* One lemma per operation: it preserves the inductive invariant           *)

\* An I/O error changes no other count.
LEMMA FaultCounts ==
  ASSUME IInv, UNCHANGED used \/ Fault
  PROVE  used' \in Usage /\ used'.writes = used.writes
<1>1. used \in Usage BY DEF IInv, TypeOK
<1> QED BY <1>1 DEF Fault, Usage

\* The counts of writes, faults and torn frames go up.
LEMMA CountsUp ==
  ASSUME NEW u \in Usage, NEW n \in Nat
  PROVE  /\ [u EXCEPT !.writes = @ + n] \in Usage
         /\ [u EXCEPT !.faults = @ + n] \in Usage
         /\ [u EXCEPT !.torn = @ + n] \in Usage
BY DEF Usage

\* A write tried is counted once.
LEMMA WriteCounts ==
  ASSUME IInv, NEW n \in Nat,
         \/ used' = [used EXCEPT !.writes = @ + 1, !.torn = @ + n]
         \/ used' = [used EXCEPT !.writes = @ + 1, !.faults = @ + 1, !.torn = @ + n]
  PROVE  used' \in Usage /\ used'.writes = used.writes + 1
<1> DEFINE a == [used EXCEPT !.writes = @ + 1]
           b == [a EXCEPT !.faults = @ + 1]
           c == [a EXCEPT !.torn = @ + n]
           d == [b EXCEPT !.torn = @ + n]
<1>1. used \in Usage BY DEF IInv, TypeOK
<1>2. a \in Usage BY <1>1, CountsUp
<1>3. b \in Usage BY <1>2, CountsUp
<1>4. c \in Usage /\ d \in Usage BY <1>2, <1>3, CountsUp
<1>5. used' = c \/ used' = d BY <1>1, <1>2, <1>3 DEF Usage
<1>6. used'.writes = used.writes + 1 BY <1>1 DEF Usage
<1> QED BY <1>4, <1>5, <1>6

\* Close, a crash of the process, a Flush that cannot reopen the log.
LEMMA LoseMemoryStep ==
  ASSUME IInv, [Next]_vars, LoseMemory, UNCHANGED <<diskVars, acked, unsure>>,
         UNCHANGED used \/ Fault
  PROVE  IInv'
<1>1. used' \in Usage /\ used'.writes = used.writes BY FaultCounts
<1>2. /\ wal' = wal /\ manifest' = manifest /\ sst' = sst /\ blooms' = blooms
      /\ acked' = acked /\ unsure' = unsure
  BY DEF diskVars
<1>3. /\ status' = "closed" /\ pc' = "idle" /\ mem' = EmptyMap /\ tables' = <<>>
      /\ nextSeq' = 0 /\ nextFileID' = 0 /\ walSeq' = 0 /\ victims' = <<>>
      /\ ~Building' /\ ~Committing'
  BY DEF LoseMemory, Building, Committing
<1>4. IsMap(EmptyMap) BY DEF IsMap, EmptyMap
<1>5. TablesOK(<<>>) BY DEF TablesOK
<1>6. TypeOK' BY <1>1, <1>2, <1>3, <1>4, <1>5 DEF IInv, TypeOK
<1>7. FileIDs' BY <1>2, <1>3, ManifestKept DEF IInv, FileIDs
<1>8. 0 <= used.writes BY DEF IInv, TypeOK, Usage
<1>9. SeqBounds' BY <1>1, <1>2, <1>3, <1>8, ManifestKept DEF IInv, SeqBounds
<1> QED BY <1>2, <1>3, <1>6, <1>7, <1>9, ManifestKept DEF IInv, HandlesMatchManifest

\* A frame added at the end of the log.
LEMMA LogGrows ==
  ASSUME WalOK(wal), NEW f \in Frames, f.torn \/ f.key \in Keys
  PROVE  /\ WalOK(wal \o <<f>>)
         /\ \A n \in Nat : (\A i \in 1..Len(wal) : wal[i].seq <= n) /\ f.seq <= n
              => \A i \in 1..Len(wal \o <<f>>) : (wal \o <<f>>)[i].seq <= n
<1> DEFINE w == wal \o <<f>>
<1>1. wal \in Seq(Frames) BY DEF WalOK
<1>2. w \in Seq(Frames) /\ Len(w) = Len(wal) + 1 BY <1>1
<1>3. \A i \in 1..Len(w) : (i \in 1..Len(wal) /\ w[i] = wal[i]) \/ w[i] = f
  BY <1>1
<1>4. \A i \in 1..Len(wal) : wal[i].torn \/ wal[i].key \in Keys BY DEF WalOK
<1> HIDE DEF w
<1>5. \A i \in 1..Len(w) : w[i].torn \/ w[i].key \in Keys
  BY <1>3, <1>4
<1>6. WalOK(w) BY <1>2, <1>5 DEF WalOK
<1>7. ASSUME NEW n \in Nat, \A i \in 1..Len(wal) : wal[i].seq <= n, f.seq <= n
      PROVE  \A i \in 1..Len(w) : w[i].seq <= n
  BY <1>3, <1>7
<1> QED BY <1>6, <1>7 DEF w

\* What an append tried leaves of the log, whether it is acknowledged or not.
LEMMA AppendTried ==
  ASSUME IInv, NEW k \in Keys, NEW v \in Datum, NEW left \in {"nothing", "torn", "whole"},
         wal' = wal \o Remains(left, k, v), used' \in Usage,
         used'.writes = used.writes + 1
  PROVE  /\ WalOK(wal') /\ walSeq + 1 <= used'.writes
         /\ \A i \in 1..Len(wal') : wal'[i].seq <= used'.writes
<1>1. /\ WalOK(wal) /\ walSeq \in Nat /\ used.writes \in Nat
      /\ walSeq <= used.writes /\ \A i \in 1..Len(wal) : wal[i].seq <= used.writes
  BY DEF IInv, TypeOK, SeqBounds, Usage
<1>2. used'.writes \in Nat BY DEF Usage
<1>3. wal \in Seq(Frames) BY <1>1 DEF WalOK
<1>4. \A i \in 1..Len(wal) : wal[i].seq \in Nat
  <2>1. \A i \in 1..Len(wal) : wal[i] \in Frames BY <1>3
  <2> QED BY <2>1 DEF Frames
<1>5. \A i \in 1..Len(wal) : wal[i].seq <= used'.writes BY <1>1, <1>2, <1>4
<1>6. walSeq + 1 <= used'.writes BY <1>1, <1>2
<1>7. CASE left = "nothing"
  <2>1. wal \o <<>> = wal BY <1>3, ConcatEmptySeq
  <2>2. Remains(left, k, v) = <<>> BY <1>7 DEF Remains
  <2> QED BY <1>1, <1>5, <1>6, <2>1, <2>2
<1>8. CASE left = "torn"
  <2>1. wal' = wal \o <<TornFrame>> BY <1>8 DEF Remains
  <2>2. TornFrame \in Frames /\ TornFrame.torn /\ TornFrame.seq <= used'.writes
    BY <1>2 DEF TornFrame, Frames
  <2> QED BY <1>1, <1>2, <1>5, <1>6, <2>1, <2>2, LogGrows
<1>9. CASE left = "whole"
  <2> DEFINE f == Frame(k, v, walSeq + 1)
  <2>1. wal' = wal \o <<f>> BY <1>9 DEF Remains
  <2>2. f \in Frames /\ f.key \in Keys /\ f.seq <= used'.writes
    BY <1>1, <1>6 DEF Frame, Frames
  <2> HIDE DEF f
  <2> QED BY <1>1, <1>2, <1>5, <1>6, <2>1, <2>2, LogGrows
<1> QED BY <1>7, <1>8, <1>9

\* A map stays one when a key is set.
LEMMA WithIsMap ==
  ASSUME NEW f, IsMap(f), NEW k \in Keys, NEW e \in Entry
  PROVE  IsMap(With(f, k, e))
BY DEF IsMap, With

\* Put and Delete that return nil.
LEMMA WriteStepOK ==
  ASSUME IInv, [Next]_vars, NEW k \in Keys, NEW v \in Datum, Write(k, v)
  PROVE  IInv'
<1>1. /\ wal' = wal \o <<Frame(k, v, walSeq + 1)>> /\ walSeq' = walSeq + 1
      /\ mem' = With(mem, k, [value |-> v, seq |-> nextSeq]) /\ nextSeq' = nextSeq + 1
      /\ acked' = [acked EXCEPT ![k] = v] /\ unsure' = [unsure EXCEPT ![k] = {}]
      /\ status = "open" /\ pc = "idle" /\ UNCHANGED <<manifest, sst, blooms, status, pc,
                                                     tables, nextFileID, victims>>
  BY DEF Write, LogAppend, Unlocked
<1>2. used' \in Usage /\ used'.writes = used.writes + 1
  <2>1. used \in Usage BY DEF IInv, TypeOK
  <2> QED BY <2>1 DEF Write, Usage
<1>3. /\ WalOK(wal') /\ walSeq + 1 <= used'.writes
      /\ \A i \in 1..Len(wal') : wal'[i].seq <= used'.writes
  BY <1>1, <1>2, AppendTried DEF Remains
<1>4. nextSeq \in Nat /\ walSeq \in Nat /\ IsMap(mem) BY DEF IInv, TypeOK
<1>5. [value |-> v, seq |-> nextSeq] \in Entry BY <1>4 DEF Entry
<1>6. IsMap(mem') BY <1>1, <1>4, <1>5, WithIsMap
<1>7. acked' \in [Keys -> Datum] /\ unsure' \in [Keys -> SUBSET Datum]
  BY <1>1 DEF IInv, TypeOK
<1>8. TypeOK'
  <2>1. TypeOK BY DEF IInv
  <2>2. walSeq' \in Nat /\ nextSeq' \in Nat BY <1>1, <1>4
  <2> QED BY <1>1, <1>2, <1>3, <1>6, <1>7, <2>1, <2>2 DEF TypeOK
<1>9. FileIDs' BY <1>1, ManifestKept DEF IInv, FileIDs, Building, Committing
<1>10. SeqBounds'
  <2>1. SeqBelow(mem', nextSeq')
    <3>1. SeqBelow(mem, nextSeq) BY <1>1 DEF IInv, SeqBounds
    <3>2. \A x \in DOMAIN mem : mem[x].seq \in Nat BY <1>4 DEF IsMap, Entry
    <3> QED BY <1>1, <1>4, <3>1, <3>2 DEF SeqBelow, With
  <2>2. manifest.nextSeq <= nextSeq' /\ nextSeq < nextSeq'
    <3>1. manifest.nextSeq \in Nat /\ manifest.nextSeq <= nextSeq
      BY <1>1 DEF IInv, TypeOK, SeqBounds
    <3> QED BY <1>1, <1>4, <3>1
  <2> QED BY <1>1, <1>3, <2>1, <2>2, ManifestKept DEF SeqBounds, Building
<1> QED
  BY <1>1, <1>8, <1>9, <1>10, ManifestKept DEF IInv, HandlesMatchManifest

\* An unsure write is recorded with its value.
LEMMA MayHappenTypes ==
  ASSUME IInv, NEW k \in Keys, NEW v \in Datum, NEW left, MayHappen(left, k, v)
  PROVE  unsure' \in [Keys -> SUBSET Datum]
<1>1. unsure \in [Keys -> SUBSET Datum] BY DEF IInv, TypeOK
<1>2. unsure' = unsure \/ unsure' = [unsure EXCEPT ![k] = @ \cup {v}] BY DEF MayHappen
<1> HIDE DEF Keys, Datum
<1> QED BY <1>1, <1>2

\* A write that returned an error.
LEMMA WriteFailsOK ==
  ASSUME IInv, [Next]_vars, NEW k \in Keys, NEW v \in Datum,
         NEW left \in {"nothing", "torn", "whole"}, WriteFails(k, v, left)
  PROVE  IInv'
<1>1. /\ wal' = wal \o Remains(left, k, v) /\ walSeq' = walSeq + 1
      /\ status = "open" /\ pc = "idle"
      /\ UNCHANGED <<manifest, sst, blooms, status, pc, mem, tables, nextSeq,
                     nextFileID, victims, acked>>
  BY DEF WriteFails, LogAppend, Unlocked
<1>2. used' \in Usage /\ used'.writes = used.writes + 1
  <2>1. TornCount(left) \in Nat BY DEF TornCount
  <2> QED BY <2>1, WriteCounts DEF WriteFails
<1>3. /\ WalOK(wal') /\ walSeq + 1 <= used'.writes
      /\ \A i \in 1..Len(wal') : wal'[i].seq <= used'.writes
  BY <1>1, <1>2, AppendTried
<1>4. walSeq' \in Nat BY <1>1 DEF IInv, TypeOK
<1>5. unsure' \in [Keys -> SUBSET Datum] BY MayHappenTypes DEF WriteFails
<1>6. TypeOK' BY <1>1, <1>2, <1>3, <1>4, <1>5 DEF IInv, TypeOK
<1>7. FileIDs' BY <1>1, ManifestKept DEF IInv, FileIDs, Building, Committing
<1>8. SeqBounds' BY <1>1, <1>3, ManifestKept DEF IInv, SeqBounds, Building
<1> QED BY <1>1, <1>6, <1>7, <1>8, ManifestKept DEF IInv, HandlesMatchManifest

\* A write that the process did not survive.
LEMMA CrashInWriteOK ==
  ASSUME IInv, [Next]_vars, NEW k \in Keys, NEW v \in Datum,
         NEW left \in {"nothing", "torn", "whole"}, CrashInWrite(k, v, left)
  PROVE  IInv'
<1>1. /\ wal' = wal \o Remains(left, k, v)
      /\ UNCHANGED <<manifest, sst, blooms, acked>>
  BY DEF CrashInWrite, LogAppend
<1>2. /\ status' = "closed" /\ pc' = "idle" /\ mem' = EmptyMap /\ tables' = <<>>
      /\ nextSeq' = 0 /\ nextFileID' = 0 /\ walSeq' = 0 /\ victims' = <<>>
      /\ ~Building' /\ ~Committing'
  BY DEF CrashInWrite, LoseMemory, Building, Committing
<1>3. used' \in Usage /\ used'.writes = used.writes + 1
  <2>1. TornCount(left) \in Nat BY DEF TornCount
  <2> QED BY <2>1, WriteCounts DEF CrashInWrite
<1>4. /\ WalOK(wal') /\ \A i \in 1..Len(wal') : wal'[i].seq <= used'.writes
  BY <1>1, <1>3, AppendTried
<1>5. unsure' \in [Keys -> SUBSET Datum] BY MayHappenTypes DEF CrashInWrite
<1>6. IsMap(EmptyMap) /\ TablesOK(<<>>) BY DEF IsMap, EmptyMap, TablesOK
<1>7. TypeOK' BY <1>1, <1>2, <1>3, <1>4, <1>5, <1>6 DEF IInv, TypeOK
<1>8. FileIDs' BY <1>1, <1>2, ManifestKept DEF IInv, FileIDs
<1>9. 0 <= used'.writes BY <1>3 DEF Usage
<1>10. SeqBounds' BY <1>1, <1>2, <1>4, <1>9, ManifestKept DEF SeqBounds
<1> QED BY <1>1, <1>2, <1>7, <1>8, <1>10, ManifestKept DEF IInv, HandlesMatchManifest

----------------------------------------------------------------------------
(* Building a table                                                        *)

\* sstable.Create of a new table by Flush or Compact.
LEMMA CreateTableOK ==
  ASSUME IInv, [Next]_vars, Unlocked, NEW entries, IsMap(entries), DOMAIN entries # {},
         SeqBelow(entries, nextSeq), NEW next \in {"flushBloom", "compactBloom"},
         CreateTable(entries, next), used' \in Usage, used'.writes = used.writes
  PROVE  IInv'
<1>1. /\ sst' = With(sst, nextFileID, entries) /\ nextFileID' = nextFileID + 1
      /\ pc' = next /\ status = "open" /\ pc = "idle"
      /\ UNCHANGED <<wal, manifest, blooms, status, mem, tables, nextSeq, walSeq,
                     victims, acked, unsure>>
  BY DEF CreateTable, Unlocked
<1>2. nextFileID \in Nat /\ SSTsOK(sst) /\ nextFileID = manifest.nextFileID
  BY <1>1, FileFacts DEF IInv, TypeOK, Building
<1>3. /\ SSTsOK(sst') /\ nextFileID \in DOMAIN sst' /\ sst'[nextFileID] = entries
  BY <1>1, <1>2 DEF SSTsOK, With
<1>4. NewID' = nextFileID BY <1>1, <1>2 DEF NewID
<1>5. TypeOK'
  BY <1>1, <1>2, <1>3 DEF IInv, TypeOK, FlushSteps, CompactSteps
<1>6. Building' /\ ~Committing' BY <1>1 DEF Building, Committing
<1>7. FileIDs' BY <1>1, <1>2, <1>3, <1>4, <1>6, ManifestKept DEF IInv, FileIDs
<1>8. SeqBounds' BY <1>1, <1>3, <1>4, <1>6, ManifestKept DEF IInv, SeqBounds
<1> QED BY <1>1, <1>5, <1>7, <1>8, ManifestKept DEF IInv, HandlesMatchManifest

\* Its Bloom filter.
LEMMA WriteBloomOK ==
  ASSUME IInv, [Next]_vars, NEW next \in {"flushCommit", "compactCommit"},
         pc \in {"flushBloom", "compactBloom"}, WriteBloom(next)
  PROVE  IInv'
<1>1. PICK extra \in SUBSET FalsePositives :
             blooms' = With(blooms, NewID, DOMAIN sst[NewID] \cup extra)
  BY DEF WriteBloom
<1>2. /\ pc' = next
      /\ UNCHANGED <<wal, manifest, sst, status, mem, tables, nextSeq, nextFileID,
                     walSeq, victims, acked, unsure, used>>
  BY DEF WriteBloom
<1>3. Building /\ Building' /\ NewID' = NewID
  BY <1>2 DEF Building, NewID
<1>4. NewID \in DOMAIN sst /\ SSTsOK(sst) /\ BloomsOK(blooms) /\ NewID \in Nat
  BY <1>3, FileFacts DEF IInv, FileIDs, TypeOK
<1>5. DOMAIN sst[NewID] \cup extra \subseteq Keys BY <1>4 DEF SSTsOK, IsMap
<1>6. /\ BloomsOK(blooms') /\ NewID \in DOMAIN blooms'
      /\ DOMAIN sst[NewID] \subseteq blooms'[NewID]
  BY <1>1, <1>4, <1>5 DEF BloomsOK, With
<1>7. TypeOK' BY <1>2, <1>6 DEF IInv, TypeOK, FlushSteps, CompactSteps
<1>8. FileIDs' BY <1>2, <1>3, <1>6, ManifestKept DEF IInv, FileIDs
<1>9. SeqBounds' BY <1>2, <1>3, ManifestKept DEF IInv, SeqBounds
<1> QED BY <1>2, <1>7, <1>8, <1>9, ManifestKept DEF IInv, HandlesMatchManifest

\* A failure before the commit.
LEMMA UndoTableOK ==
  ASSUME IInv, [Next]_vars, Building, UndoTable
  PROVE  IInv'
<1>1. /\ sst' = sst \/ sst' = Without(sst, NewID)
      /\ blooms' = blooms \/ blooms' = Without(blooms, NewID)
      /\ nextFileID' = nextFileID - 1 /\ pc' = "idle"
      /\ UNCHANGED <<wal, manifest, status, mem, tables, nextSeq, walSeq, victims,
                     acked, unsure>>
      /\ Fault
  BY DEF UndoTable
<1>2. used' \in Usage /\ used'.writes = used.writes BY <1>1, FaultCounts
<1>3. nextFileID' = manifest.nextFileID /\ nextFileID' \in Nat
  BY <1>1, FileFacts DEF NewID
<1>4. SSTsOK(sst') BY <1>1 DEF IInv, TypeOK, SSTsOK, Without
<1>5. BloomsOK(blooms') BY <1>1 DEF IInv, TypeOK, BloomsOK, Without
<1>6. TypeOK' BY <1>1, <1>2, <1>3, <1>4, <1>5 DEF IInv, TypeOK
<1>7. ~Building' /\ ~Committing' BY <1>1 DEF Building, Committing
<1>8. FileIDs'
  <2>1. victims = <<>> BY DEF IInv, FileIDs, Building
  <2>2. Len(victims) = 0 BY <2>1
  <2> QED BY <1>1, <1>3, <1>7, <2>1, <2>2, ManifestKept DEF IInv, FileIDs
<1>9. SeqBounds' BY <1>1, <1>2, <1>7, ManifestKept DEF IInv, SeqBounds
<1> QED BY <1>1, <1>6, <1>8, <1>9, ManifestKept DEF IInv, HandlesMatchManifest

----------------------------------------------------------------------------
(* The commit of a table                                                   *)

\* The rows a commit keeps: all of them (Flush) or none (Compact).
LEMMA CommitOK ==
  ASSUME IInv, Committing, NEW rows, NEW handles, CommitTable(rows, handles),
         \/ rows = manifest.tables /\ handles = tables
         \/ rows = <<>> /\ handles = <<>>,
         UNCHANGED <<sst, blooms, status>>
  PROVE  /\ manifest' \in [nextFileID : Nat, nextSeq : Nat, tables : Seq(Rows)]
         /\ Listed' \subseteq Listed \cup {NewID}
         /\ rows = <<>> => Listed' = {NewID}
         /\ ManifestComplete' /\ tables' = OpenTables' /\ TablesOK(tables')
<1> DEFINE row == TableEntry(NewID, sst[NewID])
           n   == Len(rows)
<1>1. /\ Building /\ status = "open" /\ NewID \in Nat \ {0} /\ NewID = manifest.nextFileID
      /\ \A id \in Listed : id # NewID
  BY FileFacts DEF Building, Committing
<1>2. /\ NewID \in DOMAIN sst \cap DOMAIN blooms /\ IsMap(sst[NewID])
      /\ DOMAIN sst[NewID] # {} /\ DOMAIN sst[NewID] \subseteq blooms[NewID]
      /\ blooms[NewID] \subseteq Keys
  BY <1>1 DEF IInv, TypeOK, FileIDs, SSTsOK, BloomsOK
<1>3. /\ row \in Rows /\ row.id = NewID
      /\ \A k \in DOMAIN sst[NewID] : row.minKey <= k /\ k <= row.maxKey
  <2>1. DOMAIN sst[NewID] \subseteq 1..NumKeys /\ DOMAIN sst[NewID] \subseteq 0..NumKeys
    BY <1>2 DEF IsMap
  <2> HIDE DEF Keys
  <2>2. /\ Min(DOMAIN sst[NewID]) \in Keys /\ Max(DOMAIN sst[NewID]) \in Keys
        /\ \A k \in DOMAIN sst[NewID] :
             Min(DOMAIN sst[NewID]) <= k /\ k <= Max(DOMAIN sst[NewID])
    BY <2>1, <1>2, MinBounds, MaxBounds DEF Keys
  <2> QED BY <1>1, <2>2 DEF TableEntry, Rows
<1>4. /\ manifest.tables \in Seq(Rows) /\ rows \in Seq(Rows) /\ n \in Nat
      /\ nextSeq \in Nat /\ nextFileID \in Nat
  <2>1. manifest.tables \in Seq(Rows) /\ nextSeq \in Nat /\ nextFileID \in Nat
    BY DEF IInv, TypeOK
  <2>2. CASE rows = manifest.tables BY <2>1, <2>2
  <2>3. CASE rows = <<>> BY <2>1, <2>3
  <2> QED BY <2>1, <2>2, <2>3
<1>5. /\ manifest' = [nextFileID |-> nextFileID, nextSeq |-> nextSeq,
                      tables |-> Append(rows, row)]
      /\ tables' = Append(handles, TableHandle(row))
  BY DEF CommitTable
<1>6. manifest' \in [nextFileID : Nat, nextSeq : Nat, tables : Seq(Rows)]
  BY <1>3, <1>4, <1>5
<1> HIDE DEF row
<1>7. /\ Len(manifest'.tables) = n + 1 /\ manifest'.tables[n + 1] = row
      /\ \A i \in 1..n : manifest'.tables[i] = rows[i]
  BY <1>3, <1>4, <1>5
<1>8. \A i \in 1..n : rows[i].id \in Listed BY DEF Listed
<1>9. Listed' = {NewID} \cup {rows[i].id : i \in 1..n}
  <2>1. \A i \in 1..n + 1 : i = n + 1 \/ i \in 1..n BY <1>4
  <2>2. \A i \in 1..n : i \in 1..n + 1 BY <1>4
  <2>3. n + 1 \in 1..n + 1 BY <1>4
  <2> QED BY <1>3, <1>7, <2>1, <2>2, <2>3 DEF Listed
<1>10. FilesPresent'
  <2>1. \A i \in 1..n + 1 : i = n + 1 \/ i \in 1..n BY <1>4
  <2>2. \A i \in 1..n : /\ rows[i].id > 0 /\ rows[i].id \in DOMAIN sst \cap DOMAIN blooms
                        /\ DOMAIN sst[rows[i].id] # {} /\ rows[i].id # NewID
                        /\ \A j \in 1..n : rows[i].id = rows[j].id => i = j
    BY <1>1, <1>8 DEF IInv, ManifestComplete, FilesPresent
  <2>3. NewID > 0 BY <1>1
  <2> QED BY <1>2, <1>3, <1>7, <2>1, <2>2, <2>3 DEF FilesPresent
<1>11. ManifestComplete'
  <2>1. \A i \in 1..n + 1 : i = n + 1 \/ i \in 1..n BY <1>4
  <2>2. \A i \in 1..n : \A k \in DOMAIN sst[rows[i].id] :
          rows[i].minKey <= k /\ k <= rows[i].maxKey /\ k \in blooms[rows[i].id]
    BY DEF IInv, ManifestComplete
  <2>3. ASSUME NEW i \in 1..n + 1, NEW k \in DOMAIN sst[manifest'.tables[i].id]
        PROVE  /\ manifest'.tables[i].minKey <= k /\ k <= manifest'.tables[i].maxKey
               /\ k \in blooms[manifest'.tables[i].id]
    <3>1. CASE i = n + 1 BY <1>2, <1>3, <1>7, <3>1
    <3>2. CASE i \in 1..n BY <1>7, <2>2, <3>2
    <3> QED BY <2>1, <3>1, <3>2
  <2> QED BY <1>7, <1>10, <2>3 DEF ManifestComplete
<1>12. handles = [i \in 1..n |-> TableHandle(rows[i])]
  <2>1. tables = [i \in 1..Len(manifest.tables) |-> TableHandle(manifest.tables[i])]
    BY <1>1 DEF IInv, HandlesMatchManifest, OpenTables
  <2>2. CASE rows = manifest.tables /\ handles = tables BY <2>1, <2>2
  <2>3. CASE rows = <<>> /\ handles = <<>>
    <3>1. n = 0 BY <2>3
    <3>2. 1..n = {} BY <3>1
    <3> HIDE DEF n
    <3> QED BY <2>3, <3>2
  <2> QED BY <2>2, <2>3
<1>13. /\ Len(tables') = n + 1 /\ tables'[n + 1] = TableHandle(row)
       /\ \A i \in 1..n : tables'[i] = TableHandle(rows[i])
       /\ tables' = [i \in 1..n + 1 |-> tables'[i]]
  <2>1. \A i \in 1..n : handles[i] = TableHandle(rows[i]) BY <1>12
  <2>2. handles = [i \in 1..n |-> handles[i]] BY <1>12
  <2>3. tables' = Append(handles, TableHandle(row)) /\ n \in Nat BY <1>4, <1>5
  <2> DEFINE h == TableHandle(row)
  <2>4. tables' = Append(handles, h) BY <2>3
  <2> HIDE DEF n, h
  <2>5. /\ Len(tables') = n + 1 /\ tables'[n + 1] = h
        /\ \A i \in 1..n : tables'[i] = handles[i]
        /\ tables' = [i \in 1..n + 1 |-> tables'[i]]
    BY <2>2, <2>3, <2>4, AppendAny
  <2> QED BY <2>1, <2>5 DEF h
<1>14. tables' = OpenTables'
  <2>1. \A i \in 1..n + 1 : i = n + 1 \/ i \in 1..n BY <1>4
  <2>2. \A i \in 1..n + 1 : tables'[i] = TableHandle(manifest'.tables[i])
    BY <1>7, <1>13, <2>1
  <2>3. OpenTables' = [i \in 1..Len(manifest'.tables) |-> TableHandle(manifest'.tables[i])]
    BY DEF OpenTables, TableHandle
  <2> QED BY <1>7, <1>13, <2>2, <2>3
<1>15. TablesOK(tables')
  <2>1. \A i \in 1..n + 1 : i = n + 1 \/ i \in 1..n BY <1>4
  <2>2. ASSUME NEW i \in 1..n
        PROVE  IsMap(sst[rows[i].id]) /\ blooms[rows[i].id] \subseteq Keys
    <3>1. rows[i].id \in DOMAIN sst \cap DOMAIN blooms BY <1>8, FileFacts
    <3> QED BY <3>1 DEF IInv, TypeOK, SSTsOK, BloomsOK
  <2>3. ASSUME NEW i \in 1..n + 1
        PROVE  IsMap(tables'[i].entries) /\ tables'[i].bloom \subseteq Keys
    <3>1. CASE i = n + 1
      <4>1. tables'[i] = TableHandle(row) BY <1>13, <3>1
      <4> QED BY <4>1, <1>2, <1>3 DEF TableHandle
    <3>2. CASE i \in 1..n
      <4>1. tables'[i] = TableHandle(rows[i]) BY <1>13, <3>2
      <4> QED BY <4>1, <2>2, <3>2 DEF TableHandle
    <3> QED BY <2>1, <3>1, <3>2
  <2> QED BY <1>13, <2>3 DEF TablesOK
<1>16. rows = <<>> => n = 0 BY DEF n
<1>17. Listed' \subseteq Listed \cup {NewID} /\ (rows = <<>> => Listed' = {NewID})
  BY <1>8, <1>9, <1>16
<1> QED BY <1>6, <1>11, <1>14, <1>15, <1>17

\* The tables Compact replaces are those the manifest lists.
LEMMA OldTables ==
  ASSUME IInv, status = "open"
  PROVE  /\ TableIDs(tables) \in Seq(Nat)
         /\ \A i \in 1..Len(TableIDs(tables)) : TableIDs(tables)[i] \in Listed
<1> DEFINE n == Len(manifest.tables)
<1>1. n \in Nat BY DEF IInv, TypeOK
<1>2. tables = [i \in 1..n |-> TableHandle(manifest.tables[i])]
  BY DEF IInv, HandlesMatchManifest, OpenTables
<1>3. Len(tables) = n BY <1>1, <1>2
<1>4. \A i \in 1..n : tables[i].id = manifest.tables[i].id BY <1>2 DEF TableHandle
<1>5. \A i \in 1..n : manifest.tables[i].id \in Listed BY DEF Listed
<1>6. \A i \in 1..n : tables[i].id \in Listed /\ tables[i].id \in Nat
  BY <1>4, <1>5, FileFacts
<1> HIDE DEF n
<1>7. TableIDs(tables) = [i \in 1..n |-> tables[i].id] BY <1>3 DEF TableIDs
<1> QED BY <1>1, <1>6, <1>7

\* The commit of Flush, after which the MemTable is empty.
LEMMA FlushCommitOK ==
  ASSUME IInv, FlushCommit
  PROVE  IInv'
<1>1. /\ pc = "flushCommit" /\ CommitTable(manifest.tables, tables)
      /\ mem' = EmptyMap /\ pc' = "flushRotate"
      /\ UNCHANGED <<wal, sst, blooms, status, nextSeq, nextFileID, walSeq, victims,
                     acked, unsure, used>>
  BY DEF FlushCommit
<1>2. Committing /\ Building /\ ~Building' /\ ~Committing'
  BY <1>1 DEF Committing, Building
<1>3. /\ manifest' \in [nextFileID : Nat, nextSeq : Nat, tables : Seq(Rows)]
      /\ Listed' \subseteq Listed \cup {NewID}
      /\ ManifestComplete' /\ tables' = OpenTables' /\ TablesOK(tables')
  BY <1>1, <1>2, CommitOK
<1>4. manifest'.nextFileID = nextFileID /\ manifest'.nextSeq = nextSeq
  BY <1>1 DEF CommitTable
<1>5. IsMap(EmptyMap) BY DEF IsMap, EmptyMap
<1>6. TypeOK'
  BY <1>1, <1>3, <1>5 DEF IInv, TypeOK, FlushSteps
<1>7. FileIDs'
  <2>1. /\ nextFileID \in Nat /\ NewID = manifest.nextFileID /\ status = "open"
        /\ manifest.nextFileID \in Nat \ {0} /\ nextFileID = NewID + 1
        /\ \A id \in Listed : id \in Nat /\ id < manifest.nextFileID
    BY <1>2, FileFacts DEF NewID
  <2>2. \A id \in Listed' : id < nextFileID BY <1>3, <2>1
  <2> QED BY <1>1, <1>2, <1>3, <1>4, <2>1, <2>2 DEF IInv, FileIDs
<1>8. SeqBounds'
  <2>1. /\ \A id \in Listed : SeqBelow(sst[id], manifest.nextSeq)
        /\ SeqBelow(sst[NewID], nextSeq) /\ status = "open" /\ manifest.nextSeq <= nextSeq
    BY <1>2, FileFacts DEF IInv, SeqBounds
  <2>2. nextSeq \in Nat /\ manifest.nextSeq \in Nat /\ SSTsOK(sst) BY DEF IInv, TypeOK
  <2>3. ASSUME NEW id \in Listed PROVE SeqBelow(sst[id], nextSeq)
    <3>1. IsMap(sst[id]) BY <2>2, FileFacts DEF SSTsOK
    <3>2. \A k \in DOMAIN sst[id] : sst[id][k].seq \in Nat BY <3>1 DEF IsMap, Entry
    <3> QED BY <2>1, <2>2, <3>2 DEF SeqBelow
  <2>4. SeqBelow(EmptyMap, nextSeq) BY DEF SeqBelow, EmptyMap
  <2> QED BY <1>1, <1>2, <1>3, <1>4, <2>1, <2>2, <2>3, <2>4 DEF IInv, SeqBounds
<1> QED BY <1>3, <1>6, <1>7, <1>8 DEF IInv, HandlesMatchManifest

\* The commit of Compact: its table is the only one left.
LEMMA CompactCommitOK ==
  ASSUME IInv, CompactCommit
  PROVE  IInv'
<1>1. /\ pc = "compactCommit" /\ CommitTable(<<>>, <<>>)
      /\ victims' = TableIDs(tables) /\ pc' = "compactCleanup"
      /\ UNCHANGED <<wal, sst, blooms, status, mem, nextSeq, nextFileID, walSeq,
                     acked, unsure, used>>
  BY DEF CompactCommit
<1>2. Committing /\ Building /\ ~Building' /\ ~Committing'
  BY <1>1 DEF Committing, Building
<1>3. /\ manifest' \in [nextFileID : Nat, nextSeq : Nat, tables : Seq(Rows)]
      /\ Listed' = {NewID}
      /\ ManifestComplete' /\ tables' = OpenTables' /\ TablesOK(tables')
  BY <1>1, <1>2, CommitOK
<1>4. manifest'.nextFileID = nextFileID /\ manifest'.nextSeq = nextSeq
  BY <1>1 DEF CommitTable
<1>5. /\ nextFileID \in Nat /\ NewID = manifest.nextFileID /\ status = "open"
      /\ manifest.nextFileID \in Nat \ {0} /\ nextFileID = NewID + 1
      /\ \A id \in Listed : id \in Nat /\ id < manifest.nextFileID
  BY <1>2, FileFacts DEF NewID
<1>6. victims' \in Seq(Nat) /\ \A i \in 1..Len(victims') : victims'[i] \in Listed
  BY <1>1, <1>5, OldTables
<1>7. TypeOK' BY <1>1, <1>3, <1>6 DEF IInv, TypeOK, CompactSteps
<1>8. FileIDs'
  <2>1. NewID \notin Listed BY <1>5
  <2>2. \A i \in 1..Len(victims') : victims'[i] \notin Listed'
    BY <1>3, <1>6, <2>1
  <2> QED BY <1>1, <1>2, <1>3, <1>4, <1>5, <2>2 DEF IInv, FileIDs
<1>9. SeqBounds'
  <2>1. SeqBelow(sst[NewID], nextSeq) BY <1>2 DEF IInv, SeqBounds
  <2>2. nextSeq \in Nat BY DEF IInv, TypeOK
  <2> QED BY <1>1, <1>2, <1>3, <1>4, <1>5, <2>1, <2>2 DEF IInv, SeqBounds
<1> QED BY <1>3, <1>7, <1>8, <1>9 DEF IInv, HandlesMatchManifest

----------------------------------------------------------------------------
(* Compaction: what the merge writes, and the removal of the old tables    *)

\* Every entry of the merge is an entry of one of its sources.
LEMMA MergeFromSources ==
  ASSUME NEW n \in Nat, NEW sources, sources = [i \in 1..n |-> sources[i]],
         NEW b \in Nat,
         \A i \in 1..n : IsMap(sources[i]) /\ SeqBelow(sources[i], b)
  PROVE  IsMap(Merge(sources)) /\ SeqBelow(Merge(sources), b)
<1> DEFINE all == UNION {DOMAIN sources[i] : i \in 1..n}
<1>1. Len(sources) = n OBVIOUS
<1>2. Merge(sources) = [k \in all |-> sources[Newest(sources, k)][k]]
  BY <1>1 DEF Merge
<1>3. ASSUME NEW k \in all
      PROVE  Newest(sources, k) \in 1..n /\ k \in DOMAIN sources[Newest(sources, k)]
  <2> DEFINE holding == {i \in 1..n : k \in DOMAIN sources[i]}
             S == {sources[i][k].seq : i \in holding}
  <2>1. holding # {} OBVIOUS
  <2>2. \A i \in holding : sources[i][k].seq \in 0..b
    <3> TAKE i \in holding
    <3>1. sources[i][k] \in Entry BY DEF IsMap
    <3>2. sources[i][k].seq \in Nat BY <3>1 DEF Entry
    <3>3. sources[i][k].seq < b BY DEF SeqBelow
    <3> QED BY <3>2, <3>3
  <2>3. S \subseteq 0..b /\ S # {}
    <3> DEFINE seqOf(i) == sources[i][k].seq
    <3>1. S = {seqOf(i) : i \in holding} /\ \A i \in holding : seqOf(i) \in 0..b BY <2>2
    <3> HIDE DEF holding, seqOf, S
    <3> QED BY ONLY <2>1, <3>1
  <2>4. PICK s \in S : \A t \in S : t <= s BY <2>3, MaxBounds
  <2> DEFINE best == {i \in holding : sources[i][k].seq = s}
  <2>5. best \subseteq Nat /\ best # {} BY <2>4
  <2>6. PICK i \in best : \A j \in best : i <= j BY <2>5, LeastNat
  <2>7. \A j \in holding : \/ sources[j][k].seq < sources[i][k].seq
                           \/ sources[j][k].seq = sources[i][k].seq /\ i <= j
    <3> TAKE j \in holding
    <3>1. /\ sources[j][k].seq \in 0..b /\ sources[i][k].seq = s /\ s \in 0..b
          /\ sources[j][k].seq \in S
      BY <2>2, <2>3, <2>6
    <3>2. sources[j][k].seq <= s BY <2>4, <3>1
    <3> QED BY <2>6, <3>1, <3>2
  <2>8. Newest(sources, k) \in holding
    <3>1. \E x \in holding : \A j \in holding :
            \/ sources[j][k].seq < sources[x][k].seq
            \/ sources[j][k].seq = sources[x][k].seq /\ x <= j
      BY <2>6, <2>7
    <3>2. Newest(sources, k) = CHOOSE x \in holding : \A j \in holding :
            \/ sources[j][k].seq < sources[x][k].seq
            \/ sources[j][k].seq = sources[x][k].seq /\ x <= j
      BY <1>1 DEF Newest
    <3> HIDE DEF holding
    <3> QED BY <3>1, <3>2
  <2> QED BY <2>8
<1>4. \A k \in all : k \in Keys BY DEF IsMap
<1>5. \A i \in 1..n : \A k \in DOMAIN sources[i] :
        sources[i][k] \in Entry /\ sources[i][k].seq < b
  BY DEF IsMap, SeqBelow
<1> HIDE DEF all
<1>6. \A k \in all : Merge(sources)[k] \in Entry /\ Merge(sources)[k].seq < b
  BY <1>2, <1>3, <1>5
<1> QED BY <1>2, <1>4, <1>6 DEF IsMap, SeqBelow

\* The entries of the open tables are below the next sequence number.
LEMMA TablesBelow ==
  ASSUME IInv, status = "open"
  PROVE  /\ Len(tables) \in Nat
         /\ \A i \in 1..Len(tables) :
              IsMap(tables[i].entries) /\ SeqBelow(tables[i].entries, nextSeq)
<1> DEFINE n == Len(manifest.tables)
<1>1. n \in Nat /\ nextSeq \in Nat /\ manifest.nextSeq \in Nat /\ SSTsOK(sst)
  BY DEF IInv, TypeOK
<1>2. tables = [i \in 1..n |-> TableHandle(manifest.tables[i])]
  BY DEF IInv, HandlesMatchManifest, OpenTables
<1>3. Len(tables) = n BY <1>1, <1>2
<1>4. \A i \in 1..n : tables[i].entries = sst[manifest.tables[i].id]
  BY <1>2 DEF TableHandle
<1>5. \A i \in 1..n : manifest.tables[i].id \in Listed BY DEF Listed
<1>6. ASSUME NEW i \in 1..n
      PROVE  IsMap(tables[i].entries) /\ SeqBelow(tables[i].entries, nextSeq)
  <2> DEFINE e == tables[i].entries
  <2>1. IsMap(e) BY <1>1, <1>4, <1>5, FileFacts DEF SSTsOK
  <2>2. SeqBelow(e, manifest.nextSeq) /\ manifest.nextSeq <= nextSeq
    BY <1>4, <1>5 DEF IInv, SeqBounds
  <2>3. \A k \in DOMAIN e : e[k].seq \in Nat BY <2>1 DEF IsMap, Entry
  <2> HIDE DEF e
  <2>4. SeqBelow(e, nextSeq) BY <1>1, <2>2, <2>3 DEF SeqBelow
  <2> QED BY <2>1, <2>4 DEF e
<1> QED BY <1>1, <1>3, <1>6

\* What Compact writes is typed and below the next sequence number.
LEMMA LiveEntriesOK ==
  ASSUME IInv, status = "open"
  PROVE  IsMap(LiveEntries) /\ SeqBelow(LiveEntries, nextSeq)
<1> DEFINE n == Len(tables)
           m == Merge(TableSources)
<1>1. nextSeq \in Nat BY DEF IInv, TypeOK
<1>2. n \in Nat /\ \A i \in 1..n : IsMap(tables[i].entries) /\ SeqBelow(tables[i].entries, nextSeq)
  BY TablesBelow
<1>3. /\ TableSources = [i \in 1..n |-> TableSources[i]]
      /\ \A i \in 1..n : TableSources[i] = tables[i].entries
  BY DEF TableSources
<1> HIDE DEF n
<1>4. IsMap(m) /\ SeqBelow(m, nextSeq)
  BY <1>1, <1>2, <1>3, MergeFromSources
<1> HIDE DEF m
<1>5. LiveEntries = [k \in {x \in DOMAIN m : m[x].value # Nil} |-> m[k]]
  BY DEF LiveEntries, m
<1> QED BY <1>4, <1>5 DEF IsMap, SeqBelow

\* Compact when nothing survives the merge.
LEMMA CompactToNothingOK ==
  ASSUME IInv, CompactToNothing
  PROVE  IInv'
<1>1. /\ pc = "idle" /\ status = "open" /\ pc' = "compactCleanup"
      /\ manifest' = [manifest EXCEPT !.nextSeq = nextSeq, !.tables = <<>>]
      /\ tables' = <<>> /\ victims' = TableIDs(tables)
      /\ used' = [used EXCEPT !.compactions = @ + 1]
      /\ UNCHANGED <<wal, sst, blooms, status, mem, nextSeq, nextFileID, walSeq,
                     acked, unsure>>
  BY DEF CompactToNothing, CompactBegins, Unlocked
<1>2. used' \in Usage /\ used'.writes = used.writes
  <2>1. used \in Usage BY DEF IInv, TypeOK
  <2> QED BY <1>1, <2>1 DEF Usage
<1>3. ~Building /\ ~Building' /\ ~Committing'
  BY <1>1 DEF Building, Committing
<1>4. /\ manifest'.nextFileID = manifest.nextFileID /\ manifest'.nextSeq = nextSeq
      /\ manifest'.tables = <<>>
      /\ manifest' \in [nextFileID : Nat, nextSeq : Nat, tables : Seq(Rows)]
  <2>1. /\ manifest \in [nextFileID : Nat, nextSeq : Nat, tables : Seq(Rows)]
        /\ nextSeq \in Nat
    BY DEF IInv, TypeOK
  <2>2. manifest' = [nextFileID |-> manifest.nextFileID, nextSeq |-> nextSeq, tables |-> <<>>]
    BY <1>1, <2>1
  <2> QED BY <2>1, <2>2
<1>5. 1..Len(manifest'.tables) = {}
  <2>1. Len(manifest'.tables) = 0 BY <1>4
  <2> QED BY <2>1
<1>6. Listed' = {} /\ ManifestComplete'
  BY <1>5 DEF Listed, ManifestComplete, FilesPresent
<1>7. OpenTables' = <<>>
  <2>1. OpenTables' = [i \in {} |-> TableHandle(manifest.tables[i])']
    BY <1>5 DEF OpenTables
  <2> QED BY <2>1
<1>8. victims' \in Seq(Nat) BY <1>1, OldTables
<1>9. TablesOK(<<>>) BY DEF TablesOK
<1>10. TypeOK' BY <1>1, <1>2, <1>4, <1>8, <1>9 DEF IInv, TypeOK, CompactSteps
<1>11. FileIDs' BY <1>1, <1>3, <1>4, <1>6 DEF IInv, FileIDs
<1>12. nextSeq <= nextSeq BY DEF IInv, TypeOK
<1>13. SeqBounds' BY <1>1, <1>2, <1>3, <1>4, <1>6, <1>12 DEF IInv, SeqBounds
<1> QED BY <1>1, <1>6, <1>7, <1>10, <1>11, <1>13 DEF IInv, HandlesMatchManifest

\* The removal of one old table.
LEMMA CompactCleanupOK ==
  ASSUME IInv, [Next]_vars, CompactCleanup
  PROVE  IInv'
<1> DEFINE x == Head(victims)
<1>1. /\ pc = "compactCleanup" /\ victims # <<>>
      /\ sst' = sst \/ sst' = Without(sst, x)
      /\ blooms' = blooms \/ blooms' = Without(blooms, x)
      /\ UNCHANGED used \/ Fault
      /\ victims' = Tail(victims)
      /\ UNCHANGED <<wal, manifest, status, pc, mem, tables, nextSeq, nextFileID,
                     walSeq, acked, unsure>>
  BY DEF CompactCleanup
<1>2. used' \in Usage /\ used'.writes = used.writes BY <1>1, FaultCounts
<1>3. SSTsOK(sst') BY <1>1 DEF IInv, TypeOK, SSTsOK, Without
<1>4. BloomsOK(blooms') BY <1>1 DEF IInv, TypeOK, BloomsOK, Without
<1>5. /\ victims' \in Seq(Nat)
      /\ \A i \in 1..Len(victims') : i + 1 \in 1..Len(victims) /\ victims'[i] = victims[i + 1]
  <2>1. victims \in Seq(Nat) BY DEF IInv, TypeOK
  <2> QED BY <1>1, <2>1
<1>6. TypeOK' BY <1>1, <1>2, <1>3, <1>4, <1>5 DEF IInv, TypeOK
<1>7. ~Building /\ ~Building' /\ ~Committing' BY <1>1 DEF Building, Committing
<1>8. FileIDs'
  <2>1. \A i \in 1..Len(victims') : victims'[i] \notin Listed'
    BY <1>1, <1>5, ManifestKept DEF IInv, FileIDs
  <2> QED BY <1>1, <1>7, <2>1, ManifestKept DEF IInv, FileIDs
<1>9. SeqBounds' BY <1>1, <1>2, <1>7, ManifestKept DEF IInv, SeqBounds
<1> QED BY <1>1, <1>6, <1>8, <1>9, ManifestKept DEF IInv, HandlesMatchManifest

\* The end of Compact.
LEMMA CompactEndsOK ==
  ASSUME IInv, [Next]_vars, CompactEnds
  PROVE  IInv'
<1>1. /\ pc = "compactCleanup" /\ victims = <<>> /\ pc' = "idle"
      /\ UNCHANGED <<wal, manifest, sst, blooms, status, mem, tables, nextSeq,
                     nextFileID, walSeq, victims, acked, unsure, used>>
  BY DEF CompactEnds, diskVars
<1>2. ~Building /\ ~Building' /\ ~Committing' BY <1>1 DEF Building, Committing
<1>3. TypeOK' BY <1>1 DEF IInv, TypeOK
<1>4. FileIDs' BY <1>1, <1>2, ManifestKept DEF IInv, FileIDs
<1>5. SeqBounds' BY <1>1, <1>2, ManifestKept DEF IInv, SeqBounds
<1> QED BY <1>1, <1>3, <1>4, <1>5, ManifestKept DEF IInv, HandlesMatchManifest

----------------------------------------------------------------------------
(* The log after a flush, and Open                                         *)

\* The log is removed, or its removal fails and nobody notices.
LEMMA FlushRotateOK ==
  ASSUME IInv, [Next]_vars, FlushRotate
  PROVE  IInv'
<1>1. /\ pc = "flushRotate" /\ pc' = "flushReopen"
      /\ wal' = <<>> \/ wal' = wal
      /\ UNCHANGED used \/ Fault
      /\ UNCHANGED <<manifest, sst, blooms, status, mem, tables, nextSeq, nextFileID,
                     walSeq, victims, acked, unsure>>
  BY DEF FlushRotate
<1>2. used' \in Usage /\ used'.writes = used.writes BY <1>1, FaultCounts
<1>3. WalOK(<<>>) BY DEF WalOK
<1>4. TypeOK' BY <1>1, <1>2, <1>3 DEF IInv, TypeOK, FlushSteps
<1>5. ~Building /\ ~Building' /\ ~Committing' BY <1>1 DEF Building, Committing
<1>6. FileIDs' BY <1>1, <1>5, ManifestKept DEF IInv, FileIDs
<1>7. \A i \in 1..Len(wal') : wal'[i].seq <= used'.writes
  BY <1>1, <1>2 DEF IInv, SeqBounds
<1>8. SeqBounds' BY <1>1, <1>2, <1>5, <1>7, ManifestKept DEF IInv, SeqBounds
<1> QED BY <1>1, <1>4, <1>6, <1>8, ManifestKept DEF IInv, HandlesMatchManifest

\* The new log starts its numbering again.
LEMMA FlushReopenOK ==
  ASSUME IInv, [Next]_vars, FlushReopen
  PROVE  IInv'
<1>1. /\ pc = "flushReopen" /\ pc' = "idle" /\ walSeq' = 0
      /\ UNCHANGED <<wal, manifest, sst, blooms, status, mem, tables, nextSeq,
                     nextFileID, victims, acked, unsure, used>>
  BY DEF FlushReopen, OpenNewLog, diskVars
<1>2. ~Building /\ ~Building' /\ ~Committing' BY <1>1 DEF Building, Committing
<1>3. TypeOK' BY <1>1 DEF IInv, TypeOK
<1>4. FileIDs' BY <1>1, <1>2, ManifestKept DEF IInv, FileIDs
<1>5. 0 <= used.writes
  <2>1. used \in Usage BY DEF IInv, TypeOK
  <2> QED BY <2>1 DEF Usage
<1>6. SeqBounds' BY <1>1, <1>2, <1>5, ManifestKept DEF IInv, SeqBounds
<1> QED BY <1>1, <1>3, <1>4, <1>6, ManifestKept DEF IInv, HandlesMatchManifest

\* The MemTable that Replay makes of the log.
LEMMA ReplayOK ==
  ASSUME IInv
  PROVE  /\ IsMap(ReplayMem(wal)) /\ ReplaySeq(wal) \in Nat
         /\ ReplaySeq(wal) <= used.writes
         /\ \A k \in DOMAIN ReplayMem(wal) : ReplayMem(wal)[k].seq <= ReplaySeq(wal)
<1> DEFINE n == Len(wal)
           R == ReplayedFrames(wal)
           S == {0} \cup {wal[i].seq : i \in R}
<1>1. /\ wal \in Seq(Frames) /\ \A i \in 1..n : wal[i].torn \/ wal[i].key \in Keys
      /\ n \in Nat
  BY DEF IInv, TypeOK, WalOK
<1>2. used.writes \in Nat
  <2>1. used \in Usage BY DEF IInv, TypeOK
  <2> QED BY <2>1 DEF Usage
<1>3. \A i \in R : i \in 1..n /\ ~wal[i].torn BY <1>1 DEF ReplayedFrames
<1>4. \A i \in 1..n : /\ wal[i].value \in Datum /\ wal[i].seq \in Nat
                      /\ wal[i].seq <= used.writes
  <2> TAKE i \in 1..n
  <2>1. wal[i] \in Frames BY <1>1
  <2> QED BY <2>1 DEF Frames, IInv, SeqBounds
<1> HIDE DEF R, n
<1>5. S \subseteq 0..used.writes /\ S # {} BY <1>2, <1>3, <1>4
<1>6. Max(S) \in S /\ \A y \in S : y <= Max(S)
  <2> HIDE DEF S
  <2> QED BY <1>2, <1>5, MaxBounds
<1>7. ReplaySeq(wal) = Max(S) BY DEF ReplaySeq, R
<1>8. ReplaySeq(wal) \in Nat /\ ReplaySeq(wal) <= used.writes
  <2> HIDE DEF S
  <2>1. Max(S) \in 0..used.writes BY <1>5, <1>6
  <2> QED BY <1>2, <1>7, <2>1
<1> DEFINE D     == {wal[i].key : i \in R}
           Of(k) == {i \in R : wal[i].key = k}
<1>9. ReplayMem(wal) = [k \in D |-> [value |-> wal[Max(Of(k))].value,
                                     seq |-> wal[Max(Of(k))].seq]]
  BY DEF ReplayMem, R
<1>10. ASSUME NEW k \in D PROVE Max(Of(k)) \in R
  <2>1. Of(k) \subseteq 0..n /\ Of(k) # {} BY <1>1, <1>3
  <2>2. Max(Of(k)) \in Of(k)
    <3> HIDE DEF Of
    <3> QED BY <1>1, <2>1, MaxBounds
  <2> QED BY <2>2
<1>11. D \subseteq Keys BY <1>1, <1>3 DEF n
<1>12. \A i \in R : /\ wal[i].value \in Datum /\ wal[i].seq \in Nat
                    /\ wal[i].seq <= ReplaySeq(wal)
  BY <1>3, <1>4, <1>6, <1>7
<1> HIDE DEF D, Of, S
<1>13. IsMap(ReplayMem(wal)) BY <1>9, <1>10, <1>11, <1>12 DEF IsMap, Entry
<1>14. \A k \in DOMAIN ReplayMem(wal) : ReplayMem(wal)[k].seq <= ReplaySeq(wal)
  BY <1>9, <1>10, <1>12
<1> QED BY <1>8, <1>13, <1>14

\* Open: the tables of the manifest, the log replayed.
LEMMA OpenOK ==
  ASSUME IInv, [Next]_vars, Open
  PROVE  IInv'
<1>1. /\ status = "closed" /\ status' = "open"
      /\ tables' = OpenTables /\ mem' = ReplayMem(wal) /\ walSeq' = ReplaySeq(wal)
      /\ nextSeq' = IF ReplaySeq(wal) >= manifest.nextSeq
                    THEN ReplaySeq(wal) + 1 ELSE manifest.nextSeq
      /\ nextFileID' = manifest.nextFileID
      /\ used' = [used EXCEPT !.opens = @ + 1]
      /\ UNCHANGED <<wal, manifest, sst, blooms, pc, victims, acked, unsure>>
  BY DEF Open, NextSeqAfterReplay, diskVars
<1>2. used' \in Usage /\ used'.writes = used.writes
  <2>1. used \in Usage BY DEF IInv, TypeOK
  <2> QED BY <1>1, <2>1 DEF Usage
<1>3. pc = "idle" /\ ~Building' /\ ~Committing'
  BY <1>1 DEF IInv, FileIDs, Building, Committing
<1>4. /\ nextSeq' \in Nat /\ ReplaySeq(wal) < nextSeq' /\ manifest.nextSeq <= nextSeq'
      /\ manifest.nextFileID \in Nat
  <2>1. manifest.nextSeq \in Nat /\ manifest.nextFileID \in Nat BY DEF IInv, TypeOK
  <2> QED BY <1>1, <2>1, ReplayOK
<1>5. TablesOK(OpenTables)
  <2> DEFINE n == Len(manifest.tables)
  <2>1. n \in Nat BY DEF IInv, TypeOK
  <2>2. OpenTables = [i \in 1..n |-> TableHandle(manifest.tables[i])] BY DEF OpenTables
  <2>3. \A i \in 1..n : manifest.tables[i].id \in Listed BY DEF Listed
  <2> HIDE DEF n
  <2>4. ASSUME NEW i \in 1..n
        PROVE  IsMap(OpenTables[i].entries) /\ OpenTables[i].bloom \subseteq Keys
    <3>1. manifest.tables[i].id \in DOMAIN sst \cap DOMAIN blooms BY <2>3, FileFacts
    <3>2. SSTsOK(sst) /\ BloomsOK(blooms) BY DEF IInv, TypeOK
    <3> QED BY <2>2, <3>1, <3>2 DEF TableHandle, SSTsOK, BloomsOK
  <2> QED BY <2>1, <2>2, <2>4 DEF TablesOK
<1>6. TypeOK' BY <1>1, <1>2, <1>4, <1>5, ReplayOK DEF IInv, TypeOK
<1>7. FileIDs' BY <1>1, <1>3, <1>4, ManifestKept DEF IInv, FileIDs
<1>8. SeqBelow(mem', nextSeq')
  <2>1. \A k \in DOMAIN mem' : mem'[k].seq \in Nat /\ mem'[k].seq <= ReplaySeq(wal)
    BY <1>1, ReplayOK DEF IsMap, Entry
  <2> QED BY <1>4, <2>1, ReplayOK DEF SeqBelow
<1>9. SeqBounds'
  BY <1>1, <1>2, <1>3, <1>4, <1>8, ReplayOK, ManifestKept DEF IInv, SeqBounds
<1> QED BY <1>1, <1>6, <1>7, <1>9, ManifestKept DEF IInv, HandlesMatchManifest

----------------------------------------------------------------------------
(* The theorems                                                            *)

\* An empty directory.
LEMMA InitOK == Init => IInv
<1> SUFFICES ASSUME Init PROVE IInv OBVIOUS
<1> USE DEF Init
<1>1. IsMap(EmptyMap) /\ SSTsOK(EmptyMap) /\ BloomsOK(EmptyMap)
      /\ WalOK(<<>>) /\ TablesOK(<<>>)
  BY DEF IsMap, EmptyMap, SSTsOK, BloomsOK, WalOK, TablesOK
<1>2. used \in Usage BY DEF Usage
<1>3. /\ manifest \in [nextFileID : Nat, nextSeq : Nat, tables : Seq(Rows)]
      /\ manifest.nextFileID = 1 /\ manifest.nextSeq = 1 /\ manifest.tables = <<>>
  BY DEF NewManifest
<1>4. TypeOK BY <1>1, <1>2, <1>3 DEF TypeOK
<1>5. 1..Len(manifest.tables) = {} BY <1>3
<1>6. Listed = {} /\ ManifestComplete
  BY <1>5 DEF Listed, ManifestComplete, FilesPresent
<1>7. ~Building /\ ~Committing /\ status = "closed" BY DEF Building, Committing
<1>8. FileIDs BY <1>3, <1>6, <1>7 DEF FileIDs
<1>9. SeqBounds BY <1>6, <1>7 DEF SeqBounds
<1> QED BY <1>4, <1>6, <1>7, <1>8, <1>9 DEF IInv, HandlesMatchManifest

\* The steps of flush.
LEMMA FlushStepOK ==
  ASSUME IInv, [Next]_vars, FlushStep
  PROVE  IInv'
<1>1. CASE FlushCreate
  <2>1. used' \in Usage /\ used'.writes = used.writes
    BY <1>1, FaultCounts DEF FlushCreate
  <2>2. /\ Unlocked /\ IsMap(mem) /\ DOMAIN mem # {} /\ SeqBelow(mem, nextSeq)
        /\ CreateTable(mem, "flushBloom")
    BY <1>1 DEF FlushCreate, Unlocked, IInv, TypeOK, SeqBounds
  <2> QED BY <2>1, <2>2, CreateTableOK
<1>2. CASE FlushBloom BY <1>2, WriteBloomOK DEF FlushBloom
<1>3. CASE FlushFails BY <1>3, UndoTableOK DEF FlushFails, Building
<1>4. CASE FlushReopenFails BY <1>4, LoseMemoryStep DEF FlushReopenFails
<1> QED
  BY <1>1, <1>2, <1>3, <1>4, FlushCommitOK, FlushRotateOK, FlushReopenOK DEF FlushStep

\* The steps of compact.
LEMMA CompactStepOK ==
  ASSUME IInv, [Next]_vars, CompactStep
  PROVE  IInv'
<1>1. CASE CompactCreate
  <2>1. used' \in Usage /\ used'.writes = used.writes
    <3>1. used \in Usage BY DEF IInv, TypeOK
    <3> QED BY <1>1, <3>1 DEF CompactCreate, CompactBegins, Usage
  <2>2. /\ Unlocked /\ status = "open" /\ DOMAIN LiveEntries # {}
        /\ CreateTable(LiveEntries, "compactBloom")
    BY <1>1 DEF CompactCreate, CompactBegins, Unlocked
  <2> QED BY <2>1, <2>2, LiveEntriesOK, CreateTableOK
<1>2. CASE CompactBloom BY <1>2, WriteBloomOK DEF CompactBloom
<1>3. CASE CompactFails BY <1>3, UndoTableOK DEF CompactFails, Building
<1> QED
  BY <1>1, <1>2, <1>3, CompactToNothingOK, CompactCommitOK, CompactCleanupOK,
     CompactEndsOK DEF CompactStep

\* The writes, whatever becomes of them.
LEMMA WriteStepsOK ==
  ASSUME IInv, [Next]_vars, WriteStep
  PROVE  IInv'
<1>1. ASSUME NEW k \in Keys, Delete(k) PROVE IInv'
  BY <1>1, WriteStepOK DEF Delete
<1>2. ASSUME NEW k \in Keys, NEW v \in Values, Put(k, v) PROVE IInv'
  BY <1>2, WriteStepOK DEF Put
<1>3. ASSUME NEW k \in Keys, NEW v \in Datum, NEW left \in {"nothing", "torn", "whole"},
             WriteFails(k, v, left) \/ CrashInWrite(k, v, left)
      PROVE  IInv'
  BY <1>3, WriteFailsOK, CrashInWriteOK
<1> QED BY <1>1, <1>2, <1>3 DEF WriteStep, ExplainPut, ExplainDelete

\* Every step preserves the invariant.
LEMMA NextOK == IInv /\ [Next]_vars => IInv'
<1> SUFFICES ASSUME IInv, [Next]_vars PROVE IInv' OBVIOUS
<1>1. CASE UNCHANGED vars
  <2>1. UNCHANGED <<wal, manifest, sst, blooms, status, pc, mem, tables, nextSeq,
                    nextFileID, walSeq, victims, acked, unsure, used>>
    BY <1>1 DEF vars, diskVars, memVars
  <2>2. /\ Building' = Building /\ Committing' = Committing /\ NewID' = NewID
        /\ Listed' = Listed
    BY <2>1 DEF Building, Committing, NewID, Listed
  <2>3. TypeOK' BY <2>1 DEF IInv, TypeOK
  <2>4. FileIDs' BY <2>1, <2>2 DEF IInv, FileIDs
  <2>5. SeqBounds' BY <2>1, <2>2 DEF IInv, SeqBounds
  <2> QED BY <2>1, <2>3, <2>4, <2>5, ManifestKept DEF IInv, HandlesMatchManifest
<1>2. CASE Close \/ Crash BY <1>2, LoseMemoryStep DEF Close, Crash
<1> QED BY <1>1, <1>2, OpenOK, WriteStepsOK, FlushStepOK, CompactStepOK DEF Next

\* The inductive invariant, through every operation of engine.go and every
\* crash between two of its writes to disk.
THEOREM InductiveInvariant == Spec => []IInv
BY InitOK, NextOK, PTL DEF Spec

\* Every variable keeps its type.
THEOREM TypeCorrect == Spec => []TypeOK
<1>1. IInv => TypeOK BY DEF IInv
<1> QED BY <1>1, InductiveInvariant, PTL

\* saveManifest is called only once both files of the table are there, and
\* os.Remove only for tables it no longer lists: wherever a crash stops Flush
\* or Compact, Open finds what the manifest names.
THEOREM ManifestAlwaysComplete == Spec => []ManifestComplete
<1>1. IInv => ManifestComplete BY DEF IInv
<1> QED BY <1>1, InductiveInvariant, PTL

\* e.tables is what Open would build from the manifest on disk, in its order,
\* at every step of flush and compact.
THEOREM HandlesAlwaysMatch == Spec => []HandlesMatchManifest
<1>1. IInv => HandlesMatchManifest BY DEF IInv
<1> QED BY <1>1, InductiveInvariant, PTL

\* Open takes nextSeq above the manifest's and above the log's, and no write
\* reuses a number: what is in memory or in a table is below nextSeq.
THEOREM SeqAlwaysFresh == Spec => []SeqFresh
<1>1. IInv => SeqFresh BY TablesBelow DEF IInv, SeqBounds, SeqFresh, SeqBelow
<1> QED BY <1>1, InductiveInvariant, PTL

\* A file ID given back by a failed flush or compaction, or forgotten by a
\* crash, is never that of a listed table: no step of the engine overwrites or
\* removes a file that the manifest lists before and after it.
THEOREM LiveTablesUntouched == Spec => ListedFilesImmutable
<1>1. IInv /\ [Next]_vars =>
        [\A i \in 1..Len(manifest.tables), j \in 1..Len(manifest'.tables) :
           LET id == manifest.tables[i].id
           IN  id = manifest'.tables[j].id =>
                 /\ id \in DOMAIN sst' /\ sst'[id] = sst[id]
                 /\ id \in DOMAIN blooms' /\ blooms'[id] = blooms[id]]_vars
  <2> SUFFICES ASSUME IInv, [Next]_vars,
                      NEW i \in 1..Len(manifest.tables),
                      NEW j \in 1..Len(manifest'.tables),
                      manifest.tables[i].id = manifest'.tables[j].id
               PROVE  Kept(manifest.tables[i].id)
    BY DEF Kept
  <2>1. manifest.tables[i].id \in Listed \cap Listed' BY DEF Listed
  <2> QED BY <2>1, FilesKept
<1> QED BY <1>1, InductiveInvariant, PTL DEF Spec, ListedFilesImmutable

----------------------------------------------------------------------------
(* What a lookup answers                                                   *)

\* Bounds and Bloom filter of each table let every key of it pass.
Sound(ts) == \A i \in 1..Len(ts) : \A k \in DOMAIN ts[i].entries : MayHold(ts[i], k)

\* A table that holds the key, and none behind it does.
LastHolding(ts, k, i) ==
  /\ i \in 1..Len(ts) /\ k \in DOMAIN ts[i].entries
  /\ \A j \in i + 1..Len(ts) : k \notin DOMAIN ts[j].entries

\* No table holds the key.
Absent(ts, k) == \A i \in 1..Len(ts) : k \notin DOMAIN ts[i].entries

\* A key is in no table, or one of them is the last to hold it.
LEMMA HeldOrAbsent ==
  ASSUME NEW ts, Len(ts) \in Nat, NEW k
  PROVE  Absent(ts, k) \/ \E i \in 1..Len(ts) : LastHolding(ts, k, i)
<1> SUFFICES ASSUME ~Absent(ts, k) PROVE \E i \in 1..Len(ts) : LastHolding(ts, k, i) OBVIOUS
<1> DEFINE S == {i \in 1..Len(ts) : k \in DOMAIN ts[i].entries}
<1>1. S # {} BY DEF Absent
<1>2. S \subseteq 0..Len(ts)
  <2>1. S \subseteq 1..Len(ts) /\ 1..Len(ts) \subseteq 0..Len(ts) OBVIOUS
  <2> HIDE DEF S
  <2> QED BY <2>1
<1>3. Max(S) \in S /\ \A y \in S : y <= Max(S)
  <2> HIDE DEF S
  <2> QED BY <1>1, <1>2, MaxBounds
<1>4. Max(S) \in 1..Len(ts) /\ k \in DOMAIN ts[Max(S)].entries BY <1>3
<1>5. \A j \in Max(S) + 1..Len(ts) : k \notin DOMAIN ts[j].entries
  <2> SUFFICES ASSUME NEW j \in Max(S) + 1..Len(ts), k \in DOMAIN ts[j].entries PROVE FALSE OBVIOUS
  <2>1. Max(S) \in 1..Len(ts) BY <1>4
  <2>2. j \in 1..Len(ts) /\ ~(j <= Max(S))
    <3> HIDE DEF S
    <3> QED BY <2>1
  <2>3. j \in S BY <2>2
  <2> QED BY <1>3, <2>2, <2>3
<1> QED BY <1>4, <1>5 DEF LastHolding

\* The answer for a key that the MemTable has.
LEMMA LookupMem ==
  ASSUME NEW m, NEW ts, NEW k \in DOMAIN m
  PROVE  Lookup(m, ts, k) = m[k].value
BY DEF Lookup

\* The answer for a key that nothing has.
LEMMA LookupNone ==
  ASSUME NEW m, NEW ts, NEW k, k \notin DOMAIN m, Absent(ts, k)
  PROVE  Lookup(m, ts, k) = Nil
<1>1. {i \in 1..Len(ts) : MayHold(ts[i], k) /\ k \in DOMAIN ts[i].entries} = {} BY DEF Absent
<1> QED BY <1>1 DEF Lookup

\* The answer for a key of the tables: that of the last to hold it.
LEMMA LookupLast ==
  ASSUME NEW m, NEW ts, Len(ts) \in Nat, Sound(ts), NEW k, k \notin DOMAIN m,
         NEW i, LastHolding(ts, k, i)
  PROVE  Lookup(m, ts, k) = ts[i].entries[k].value
<1> DEFINE S == {j \in 1..Len(ts) : MayHold(ts[j], k) /\ k \in DOMAIN ts[j].entries}
<1>1. i \in S BY DEF LastHolding, Sound
<1>2. S \subseteq 0..Len(ts)
  <2>1. S \subseteq 1..Len(ts) /\ 1..Len(ts) \subseteq 0..Len(ts) OBVIOUS
  <2> HIDE DEF S
  <2> QED BY <2>1
<1>3. Max(S) \in S /\ \A y \in S : y <= Max(S)
  <2> HIDE DEF S
  <2> QED BY <1>1, <1>2, MaxBounds
<1>4. Max(S) \in 1..Len(ts) /\ k \in DOMAIN ts[Max(S)].entries BY <1>3
<1>5. i <= Max(S) /\ i \in 1..Len(ts)
  <2>1. i \in 1..Len(ts) BY DEF LastHolding
  <2> QED BY <1>1, <1>3, <2>1
<1>6. Max(S) \notin i + 1..Len(ts) BY <1>4 DEF LastHolding
<1>7. Lookup(m, ts, k) = ts[Max(S)].entries[k].value BY <1>1 DEF Lookup
<1> HIDE DEF S
<1>8. Max(S) = i BY <1>4, <1>5, <1>6
<1> QED BY <1>7, <1>8

\* The answer for a key that the MemTable has not.
LEMMA LookupTables ==
  ASSUME NEW m, NEW ts, Len(ts) \in Nat, Sound(ts), NEW k, k \notin DOMAIN m
  PROVE  Lookup(m, ts, k) = Lookup(EmptyMap, ts, k)
<1>1. k \notin DOMAIN EmptyMap BY DEF EmptyMap
<1>2. CASE Absent(ts, k) BY <1>1, <1>2, LookupNone
<1>3. CASE \E i \in 1..Len(ts) : LastHolding(ts, k, i) BY <1>1, <1>3, LookupLast
<1> QED BY <1>2, <1>3, HeldOrAbsent

\* The answer is a value, or none.
LEMMA LookupType ==
  ASSUME NEW m, IsMap(m), NEW ts, Len(ts) \in Nat, Sound(ts), TablesOK(ts), NEW k
  PROVE  Lookup(m, ts, k) \in Datum
<1>1. ASSUME NEW e, IsMap(e), k \in DOMAIN e PROVE e[k].value \in Datum
  <2>1. e[k] \in Entry BY <1>1 DEF IsMap
  <2> QED BY <2>1 DEF Entry
<1>2. CASE k \in DOMAIN m BY <1>1, <1>2, LookupMem
<1>3. CASE k \notin DOMAIN m /\ Absent(ts, k) BY <1>3, LookupNone
<1>4. ASSUME k \notin DOMAIN m, NEW i \in 1..Len(ts), LastHolding(ts, k, i)
      PROVE  Lookup(m, ts, k) \in Datum
  <2>1. IsMap(ts[i].entries) /\ k \in DOMAIN ts[i].entries BY <1>4 DEF TablesOK, LastHolding
  <2>2. ts[i].entries[k].value \in Datum BY <1>1, <2>1
  <2> QED BY <1>4, <2>2, LookupLast
<1> QED BY <1>2, <1>3, <1>4, HeldOrAbsent

\* A flush: the MemTable becomes the newest table.
LEMMA LookupFlushed ==
  ASSUME NEW m, NEW n \in Nat, NEW ts, ts = [i \in 1..n |-> ts[i]], Sound(ts), NEW h,
         h.entries = m, Sound(Append(ts, h)), NEW k
  PROVE  Lookup(EmptyMap, Append(ts, h), k) = Lookup(m, ts, k)
<1> DEFINE new == Append(ts, h)
<1>1. Len(ts) = n /\ Len(new) = n + 1 /\ new[n + 1] = h /\ \A i \in 1..n : new[i] = ts[i]
  BY AppendAny
<1>2. k \notin DOMAIN EmptyMap BY DEF EmptyMap
<1> HIDE DEF new
<1>3. Sound(new) BY DEF new
<1>4. CASE k \in DOMAIN m
  <2>1. LastHolding(new, k, n + 1)
    <3>1. n + 1 \in 1..Len(new) BY <1>1
    <3>2. n + 1 + 1..Len(new) = {} BY <1>1
    <3> QED BY <1>1, <1>4, <3>1, <3>2 DEF LastHolding
  <2>2. Len(new) \in Nat BY <1>1
  <2>3. Lookup(EmptyMap, new, k) = new[n + 1].entries[k].value
    BY <1>2, <1>3, <2>1, <2>2, LookupLast
  <2>4. Lookup(m, ts, k) = m[k].value BY <1>4, LookupMem
  <2> QED BY <1>1, <2>3, <2>4 DEF new
<1>5. CASE k \notin DOMAIN m /\ Absent(ts, k)
  <2>1. \A i \in 1..n + 1 : i = n + 1 \/ i \in 1..n OBVIOUS
  <2>2. Absent(new, k) BY <1>1, <1>5, <2>1 DEF Absent
  <2> QED BY <1>2, <1>5, <2>2, LookupNone DEF new
<1>6. ASSUME k \notin DOMAIN m, NEW i \in 1..Len(ts), LastHolding(ts, k, i)
      PROVE  Lookup(EmptyMap, new, k) = Lookup(m, ts, k)
  <2>1. LastHolding(new, k, i)
    <3>1. i \in 1..Len(new) /\ i \in 1..n BY <1>1
    <3>2. k \in DOMAIN new[i].entries BY <1>1, <1>6, <3>1 DEF LastHolding
    <3>3. ASSUME NEW j \in i + 1..Len(new) PROVE k \notin DOMAIN new[j].entries
      <4>1. j = n + 1 \/ j \in i + 1..n BY <1>1, <3>1
      <4>2. CASE j = n + 1 BY <1>1, <1>6, <4>2
      <4>3. CASE j \in i + 1..n
        <5>1. j \in 1..n /\ j \in i + 1..Len(ts) BY <1>1, <3>1, <4>3
        <5> QED BY <1>1, <1>6, <5>1 DEF LastHolding
      <4> QED BY <4>1, <4>2, <4>3
    <3> QED BY <3>1, <3>2, <3>3 DEF LastHolding
  <2>2. Len(new) \in Nat /\ Len(ts) \in Nat BY <1>1
  <2>3. Lookup(EmptyMap, new, k) = new[i].entries[k].value
    BY <1>2, <1>3, <2>1, <2>2, LookupLast
  <2>4. Lookup(m, ts, k) = ts[i].entries[k].value BY <1>6, <2>2, LookupLast
  <2> QED BY <1>1, <2>3, <2>4
<1> QED BY <1>1, <1>4, <1>5, <1>6, HeldOrAbsent DEF new

----------------------------------------------------------------------------

\* The source that has the highest number for a key is the one the merge takes.
LEMMA NewestIs ==
  ASSUME NEW n \in Nat, NEW sources, Len(sources) = n, NEW k, NEW i \in 1..n,
         k \in DOMAIN sources[i],
         \A j \in 1..n : k \in DOMAIN sources[j] => sources[j][k].seq \in Nat,
         \A j \in 1..n : k \in DOMAIN sources[j] /\ j # i => sources[j][k].seq < sources[i][k].seq
  PROVE  Newest(sources, k) = i /\ k \in DOMAIN Merge(sources) /\ Merge(sources)[k] = sources[i][k]
<1> DEFINE holding == {j \in 1..Len(sources) : k \in DOMAIN sources[j]}
           Best(x) == \A j \in holding :
                        \/ sources[j][k].seq < sources[x][k].seq
                        \/ sources[j][k].seq = sources[x][k].seq /\ x <= j
<1>1. i \in holding OBVIOUS
<1>2. Best(i)
  <2> SUFFICES ASSUME NEW j \in holding
               PROVE  \/ sources[j][k].seq < sources[i][k].seq
                      \/ sources[j][k].seq = sources[i][k].seq /\ i <= j
    OBVIOUS
  <2>1. i <= i OBVIOUS
  <2> QED BY <2>1
<1>3. \A x \in holding : Best(x) => x = i
  <2> SUFFICES ASSUME NEW x \in holding, Best(x), x # i PROVE FALSE OBVIOUS
  <2>1. sources[x][k].seq < sources[i][k].seq OBVIOUS
  <2>2. \/ sources[i][k].seq < sources[x][k].seq
        \/ sources[i][k].seq = sources[x][k].seq
    BY <1>1
  <2>3. sources[x][k].seq \in Nat /\ sources[i][k].seq \in Nat OBVIOUS
  <2> QED BY <2>1, <2>2, <2>3
<1>4. Newest(sources, k) = CHOOSE x \in holding : Best(x) BY DEF Newest
<1> HIDE DEF holding, Best
<1>5. Newest(sources, k) = i BY <1>1, <1>2, <1>3, <1>4
<1>6. k \in UNION {DOMAIN sources[j] : j \in 1..Len(sources)} OBVIOUS
<1> QED BY <1>5, <1>6 DEF Merge

\* The merge has the keys of its sources.
LEMMA MergeDomain ==
  ASSUME NEW sources, NEW k
  PROVE  k \in DOMAIN Merge(sources) <=> \E j \in 1..Len(sources) : k \in DOMAIN sources[j]
BY DEF Merge

\* The part of Ordered about one key and the table that holds it last: no other table
\* has a higher number for it.
LEMMA LastIsNewest ==
  ASSUME IInv, status = "open", Ordered, NEW k, NEW i, LastHolding(tables, k, i)
  PROVE  /\ \A j \in 1..Len(tables) : k \in DOMAIN tables[j].entries /\ j # i =>
              tables[j].entries[k].seq < tables[i].entries[k].seq
         /\ \A j \in 1..Len(tables) : k \in DOMAIN tables[j].entries =>
              tables[j].entries[k].seq \in Nat
<1>1. i \in 1..Len(tables) /\ k \in DOMAIN tables[i].entries
      /\ \A j \in i + 1..Len(tables) : k \notin DOMAIN tables[j].entries
  BY DEF LastHolding
<1>2. Len(tables) \in Nat BY TablesBelow
<1>3. ASSUME NEW j \in 1..Len(tables), k \in DOMAIN tables[j].entries, j # i
      PROVE  tables[j].entries[k].seq < tables[i].entries[k].seq
  <2>1. j \notin i + 1..Len(tables) BY <1>1, <1>3
  <2>2. i \in j + 1..Len(tables) BY <1>1, <1>2, <1>3, <2>1
  <2> QED BY <1>1, <1>3, <2>2 DEF Ordered
<1>4. ASSUME NEW j \in 1..Len(tables), k \in DOMAIN tables[j].entries
      PROVE  tables[j].entries[k].seq \in Nat
  <2>1. IsMap(tables[j].entries) BY TablesBelow
  <2>2. tables[j].entries[k] \in Entry BY <1>4, <2>1 DEF IsMap
  <2> QED BY <2>2 DEF Entry
<1> QED BY <1>3, <1>4

\* The sources of a compaction are the entries of the tables.
LEMMA SourcesAre ==
  ASSUME Len(tables) \in Nat
  PROVE  /\ Len(TableSources) = Len(tables)
         /\ \A i \in 1..Len(tables) : TableSources[i] = tables[i].entries
BY DEF TableSources

\* What a compaction writes: for each key the entry of the last table that has it,
\* unless it is a tombstone.
LEMMA LiveEntriesAre ==
  ASSUME IInv, status = "open", Ordered, NEW k
  PROVE  /\ \A i \in 1..Len(tables) : LastHolding(tables, k, i) =>
              /\ k \in DOMAIN LiveEntries <=> tables[i].entries[k].value # Nil
              /\ k \in DOMAIN LiveEntries => LiveEntries[k] = tables[i].entries[k]
         /\ Absent(tables, k) => k \notin DOMAIN LiveEntries
<1> DEFINE n == Len(tables)
           best == Merge(TableSources)
<1>1. n \in Nat BY TablesBelow
<1>2. Len(TableSources) = n /\ \A i \in 1..n : TableSources[i] = tables[i].entries
  BY <1>1, SourcesAre
<1>3. /\ DOMAIN LiveEntries = {x \in DOMAIN best : best[x].value # Nil}
      /\ \A x \in DOMAIN LiveEntries : LiveEntries[x] = best[x]
  BY DEF LiveEntries
<1> HIDE DEF best, n
<1>4. ASSUME NEW i \in 1..n, LastHolding(tables, k, i)
      PROVE  k \in DOMAIN best /\ best[k] = tables[i].entries[k]
  <2>1. /\ \A j \in 1..n : k \in DOMAIN TableSources[j] /\ j # i =>
             TableSources[j][k].seq < TableSources[i][k].seq
        /\ \A j \in 1..n : k \in DOMAIN TableSources[j] => TableSources[j][k].seq \in Nat
    BY <1>2, <1>4, LastIsNewest DEF n
  <2>2. k \in DOMAIN TableSources[i] BY <1>2, <1>4 DEF LastHolding
  <2>3. k \in DOMAIN Merge(TableSources) /\ Merge(TableSources)[k] = TableSources[i][k]
    BY <1>1, <1>2, <2>1, <2>2, NewestIs
  <2> QED BY <1>2, <2>3 DEF best
<1>5. ASSUME Absent(tables, k) PROVE k \notin DOMAIN best
  <2>1. \A j \in 1..Len(TableSources) : k \notin DOMAIN TableSources[j]
    BY <1>2, <1>5 DEF Absent, n
  <2> QED BY <2>1, MergeDomain DEF best
<1>6. n = Len(tables) BY DEF n
<1> QED BY <1>3, <1>4, <1>5, <1>6

\* A compaction: one table in place of all.
LEMMA LookupCompacted ==
  ASSUME IInv, status = "open", Ordered, Sound(tables), NEW h, h.entries = LiveEntries,
         Sound(<<h>>), NEW m, NEW k
  PROVE  Lookup(m, <<h>>, k) = Lookup(m, tables, k)
<1>1. Len(tables) \in Nat BY TablesBelow
<1>2. Len(<<h>>) = 1 /\ <<h>>[1] = h OBVIOUS
<1>3. CASE k \in DOMAIN m BY <1>3, LookupMem
<1>4. CASE k \notin DOMAIN m /\ k \in DOMAIN LiveEntries
  <2>1. LastHolding(<<h>>, k, 1)
    <3>1. 1 + 1..Len(<<h>>) = {} BY <1>2
    <3> QED BY <1>2, <1>4, <3>1 DEF LastHolding
  <2>2. Lookup(m, <<h>>, k) = LiveEntries[k].value
    <3>1. Len(<<h>>) \in Nat BY <1>2
    <3>2. Lookup(m, <<h>>, k) = <<h>>[1].entries[k].value BY <1>4, <2>1, <3>1, LookupLast
    <3> QED BY <1>2, <3>2
  <2>3. PICK i \in 1..Len(tables) : LastHolding(tables, k, i)
    <3>1. ~Absent(tables, k) BY <1>4, LiveEntriesAre
    <3> QED BY <1>1, <3>1, HeldOrAbsent
  <2>4. Lookup(m, tables, k) = tables[i].entries[k].value BY <1>1, <1>4, <2>3, LookupLast
  <2>5. LiveEntries[k] = tables[i].entries[k] BY <1>4, <2>3, LiveEntriesAre
  <2> QED BY <2>2, <2>4, <2>5
<1>5. CASE k \notin DOMAIN m /\ k \notin DOMAIN LiveEntries
  <2>1. Absent(<<h>>, k) BY <1>2, <1>5 DEF Absent
  <2>2. Lookup(m, <<h>>, k) = Nil BY <1>5, <2>1, LookupNone
  <2>3. CASE Absent(tables, k) BY <1>5, <2>2, <2>3, LookupNone
  <2>4. ASSUME NEW i \in 1..Len(tables), LastHolding(tables, k, i)
        PROVE  Lookup(m, tables, k) = Nil
    <3>1. tables[i].entries[k].value = Nil BY <1>5, <2>4, LiveEntriesAre
    <3>2. Lookup(m, tables, k) = tables[i].entries[k].value BY <1>1, <1>5, <2>4, LookupLast
    <3> QED BY <3>1, <3>2
  <2> QED BY <1>1, <2>2, <2>3, <2>4, HeldOrAbsent
<1> QED BY <1>3, <1>4, <1>5

\* A compaction that leaves nothing.
LEMMA LookupEmptied ==
  ASSUME IInv, status = "open", Ordered, Sound(tables), DOMAIN LiveEntries = {}, NEW m, NEW k
  PROVE  Lookup(m, <<>>, k) = Lookup(m, tables, k)
<1>1. Len(tables) \in Nat BY TablesBelow
<1>2. CASE k \in DOMAIN m BY <1>2, LookupMem
<1>3. CASE k \notin DOMAIN m
  <2>1. Absent(<<>>, k) BY DEF Absent
  <2>2. Lookup(m, <<>>, k) = Nil BY <1>3, <2>1, LookupNone
  <2>3. CASE Absent(tables, k) BY <1>3, <2>2, <2>3, LookupNone
  <2>4. ASSUME NEW i \in 1..Len(tables), LastHolding(tables, k, i)
        PROVE  Lookup(m, tables, k) = Nil
    <3>1. tables[i].entries[k].value = Nil BY <2>4, LiveEntriesAre
    <3>2. Lookup(m, tables, k) = tables[i].entries[k].value BY <1>1, <1>3, <2>4, LookupLast
    <3> QED BY <3>1, <3>2
  <2> QED BY <1>1, <2>2, <2>3, <2>4, HeldOrAbsent
<1> QED BY <1>2, <1>3

\* The tables that are open, and those that Open would open, filter no key of theirs.
LEMMA SoundTables ==
  ASSUME IInv
  PROVE  /\ Sound(OpenTables) /\ Len(OpenTables) \in Nat
         /\ status = "open" => tables = OpenTables
         /\ TablesOK(OpenTables)
<1> DEFINE n == Len(manifest.tables)
<1>1. n \in Nat BY DEF IInv, TypeOK
<1>2. OpenTables = [i \in 1..n |-> TableHandle(manifest.tables[i])] BY DEF OpenTables
<1>3. \A i \in 1..n : \A k \in DOMAIN sst[manifest.tables[i].id] :
        /\ manifest.tables[i].minKey <= k /\ k <= manifest.tables[i].maxKey
        /\ k \in blooms[manifest.tables[i].id]
  BY DEF IInv, ManifestComplete
<1>4. \A i \in 1..n : manifest.tables[i].id \in Listed BY DEF Listed
<1>5. \A i \in 1..n : manifest.tables[i].id \in DOMAIN sst \cap DOMAIN blooms BY <1>4, FileFacts
<1> HIDE DEF n
<1>6. Len(OpenTables) = n BY <1>1, <1>2
<1>7. ASSUME NEW i \in 1..n, NEW k \in DOMAIN OpenTables[i].entries
      PROVE  MayHold(OpenTables[i], k)
  BY <1>2, <1>3 DEF TableHandle, MayHold
<1>8. ASSUME NEW i \in 1..n
      PROVE  IsMap(OpenTables[i].entries) /\ OpenTables[i].bloom \subseteq Keys
  <2>1. SSTsOK(sst) /\ BloomsOK(blooms) BY DEF IInv, TypeOK
  <2> QED BY <1>2, <1>5, <2>1 DEF TableHandle, SSTsOK, BloomsOK
<1> QED BY <1>1, <1>6, <1>7, <1>8 DEF Sound, TablesOK, IInv, HandlesMatchManifest

\* The same of the state after a step.
LEMMA SoundTablesNext ==
  ASSUME IInv'
  PROVE  Sound(OpenTables)' /\ (status = "open" => tables = OpenTables)'
<1> DEFINE n == Len(manifest'.tables)
<1>1. n \in Nat BY DEF IInv, TypeOK
<1>2. OpenTables' = [i \in 1..n |-> TableHandle(manifest.tables[i])'] BY DEF OpenTables
<1>3. \A i \in 1..n : \A k \in DOMAIN sst'[manifest'.tables[i].id] :
        /\ manifest'.tables[i].minKey <= k /\ k <= manifest'.tables[i].maxKey
        /\ k \in blooms'[manifest'.tables[i].id]
  BY DEF IInv, ManifestComplete
<1> HIDE DEF n
<1>4. Len(OpenTables') = n BY <1>1, <1>2
<1>5. ASSUME NEW i \in 1..n, NEW k \in DOMAIN OpenTables'[i].entries
      PROVE  MayHold(OpenTables'[i], k)
  BY <1>2, <1>3 DEF TableHandle, MayHold
<1> QED BY <1>4, <1>5 DEF Sound, IInv, HandlesMatchManifest

----------------------------------------------------------------------------
(* What a replay makes of a log                                            *)

\* The last frame that is replayed on a key.
LastFrame(w, k, i) ==
  /\ i \in ReplayedFrames(w) /\ w[i].key = k
  /\ \A j \in ReplayedFrames(w) : w[j].key = k => j <= i

\* The entry that a frame is replayed to.
EntryOf(f) == [value |-> f.value, seq |-> f.seq]

\* A replay knows the keys of the frames it reads.
LEMMA ReplayedDomain ==
  ASSUME NEW w
  PROVE  DOMAIN ReplayMem(w) = {w[i].key : i \in ReplayedFrames(w)}
BY DEF ReplayMem

\* For each key a replay keeps its last frame.
LEMMA ReplayedLast ==
  ASSUME NEW w \in Seq(Frames), NEW k \in DOMAIN ReplayMem(w)
  PROVE  \E i \in ReplayedFrames(w) :
           LastFrame(w, k, i) /\ ReplayMem(w)[k] = EntryOf(w[i])
<1> DEFINE R == ReplayedFrames(w)
           Of(x) == {i \in R : w[i].key = x}
<1>1. Len(w) \in Nat /\ R \subseteq 0..Len(w)
  <2>1. Len(w) \in Nat OBVIOUS
  <2>2. R \subseteq 1..Len(w) BY DEF ReplayedFrames
  <2> HIDE DEF R
  <2> QED BY <2>1, <2>2
<1>2. ReplayMem(w)[k] = EntryOf(w[Max(Of(k))]) /\ k \in {w[i].key : i \in R}
  BY DEF ReplayMem, EntryOf
<1>3. Max(Of(k)) \in Of(k) /\ \A y \in Of(k) : y <= Max(Of(k))
  <2>1. Of(k) # {} BY <1>2
  <2>2. Of(k) \subseteq 0..Len(w) BY <1>1
  <2> HIDE DEF Of
  <2> QED BY <1>1, <2>1, <2>2, MaxBounds
<1>4. Max(Of(k)) \in R /\ w[Max(Of(k))].key = k BY <1>3
<1>5. \A j \in R : w[j].key = k => j <= Max(Of(k)) BY <1>3
<1> HIDE DEF Of
<1> QED BY <1>2, <1>4, <1>5 DEF LastFrame

\* The last frame of a key is the one a replay keeps.
LEMMA ReplayedValue ==
  ASSUME NEW w \in Seq(Frames), NEW k, NEW i, LastFrame(w, k, i)
  PROVE  k \in DOMAIN ReplayMem(w) /\ ReplayMem(w)[k] = EntryOf(w[i])
<1>1. k \in DOMAIN ReplayMem(w) BY ReplayedDomain DEF LastFrame
<1>2. PICK j \in ReplayedFrames(w) : LastFrame(w, k, j) /\ ReplayMem(w)[k] = EntryOf(w[j])
  BY <1>1, ReplayedLast
<1>3. i <= j /\ j <= i BY <1>2 DEF LastFrame
<1>4. i \in 1..Len(w) /\ j \in 1..Len(w) BY DEF LastFrame, ReplayedFrames
<1>5. i = j BY <1>3, <1>4
<1> QED BY <1>1, <1>2, <1>5

\* new is the log w with one frame more.
Grows(w, new, f) ==
  /\ new \in Seq(Frames) /\ Len(new) = Len(w) + 1 /\ new[Len(w) + 1] = f
  /\ \A i \in 1..Len(w) : new[i] = w[i]

\* A frame behind a log: the log had no partial frame, or it is buried now.
LEMMA ReplayGrows ==
  ASSUME NEW w \in Seq(Frames), NEW new, NEW f \in Frames, Grows(w, new, f), ~Buried(new)
  PROVE  /\ ~Buried(w)
         /\ f.torn => /\ DOMAIN ReplayMem(new) = DOMAIN ReplayMem(w)
                      /\ \A k \in DOMAIN ReplayMem(w) :
                           ReplayMem(new)[k] = ReplayMem(w)[k]
         /\ ~f.torn => /\ DOMAIN ReplayMem(new) = DOMAIN ReplayMem(w) \cup {f.key}
                       /\ \A k \in DOMAIN ReplayMem(new) :
                            k = f.key => ReplayMem(new)[k] = EntryOf(f)
                       /\ \A k \in DOMAIN ReplayMem(w) :
                            k # f.key => ReplayMem(new)[k] = ReplayMem(w)[k]
<1> DEFINE n == Len(w)
<1>1. /\ n \in Nat /\ new \in Seq(Frames) /\ Len(new) = n + 1 /\ new[n + 1] = f
      /\ \A i \in 1..n : new[i] = w[i]
  BY DEF Grows
<1> HIDE DEF n
<1>2. \A i \in 1..n : ~w[i].torn
  <2> SUFFICES ASSUME NEW i \in 1..n, w[i].torn PROVE FALSE OBVIOUS
  <2>1. i \in 1..Len(new) /\ i < Len(new) /\ new[i].torn BY <1>1
  <2> QED BY <2>1 DEF Buried
<1>3. ~Buried(w) BY <1>2 DEF Buried, n
<1>4. ReplayedFrames(w) = 1..n
  <2>1. \A i \in 1..n : \A j \in 1..i : j \in 1..n BY <1>1
  <2> QED BY <1>2, <2>1 DEF ReplayedFrames, n
<1>5. ReplayedFrames(new) = IF f.torn THEN 1..n ELSE 1..n + 1
  <2>1. \A i \in 1..n : i \in 1..n + 1 /\ \A j \in 1..i : j \in 1..n BY <1>1
  <2>2. \A i \in 1..n + 1 : i = n + 1 \/ i \in 1..n BY <1>1
  <2>3. n + 1 \in 1..n + 1 BY <1>1
  <2>4. \A i \in 1..n : i \in ReplayedFrames(new) BY <1>1, <1>2, <2>1 DEF ReplayedFrames
  <2>5. n + 1 \in ReplayedFrames(new) <=> ~f.torn
    <3>1. \A j \in 1..n + 1 : new[j].torn => j = n + 1 BY <1>1, <1>2, <2>2
    <3> QED BY <1>1, <2>3, <3>1 DEF ReplayedFrames
  <2>6. \A i \in ReplayedFrames(new) : i \in 1..n + 1 BY <1>1 DEF ReplayedFrames
  <2>7. n + 1 \notin 1..n BY <1>1
  <2> QED BY <2>1, <2>2, <2>4, <2>5, <2>6, <2>7
<1>6. ASSUME f.torn
      PROVE  /\ DOMAIN ReplayMem(new) = DOMAIN ReplayMem(w)
             /\ \A k \in DOMAIN ReplayMem(w) : ReplayMem(new)[k] = ReplayMem(w)[k]
  <2>1. ReplayedFrames(new) = ReplayedFrames(w) /\ \A i \in ReplayedFrames(w) : new[i] = w[i]
    BY <1>1, <1>4, <1>5, <1>6
  <2>2. DOMAIN ReplayMem(new) = DOMAIN ReplayMem(w)
    <3>1. {new[i].key : i \in ReplayedFrames(new)} = {w[i].key : i \in ReplayedFrames(w)} BY <2>1
    <3> QED BY <3>1, ReplayedDomain
  <2>3. ASSUME NEW k \in DOMAIN ReplayMem(w) PROVE ReplayMem(new)[k] = ReplayMem(w)[k]
    <3>1. PICK i \in ReplayedFrames(w) :
            LastFrame(w, k, i) /\ ReplayMem(w)[k] = EntryOf(w[i])
      BY <2>3, ReplayedLast
    <3>2. LastFrame(new, k, i) BY <2>1, <3>1 DEF LastFrame
    <3>3. ReplayMem(new)[k] = EntryOf(new[i]) BY <1>1, <3>2, ReplayedValue
    <3> QED BY <2>1, <3>1, <3>3
  <2> QED BY <2>2, <2>3
<1>7. ASSUME ~f.torn
      PROVE  /\ DOMAIN ReplayMem(new) = DOMAIN ReplayMem(w) \cup {f.key}
             /\ \A k \in DOMAIN ReplayMem(new) :
                  k = f.key => ReplayMem(new)[k] = EntryOf(f)
             /\ \A k \in DOMAIN ReplayMem(w) :
                  k # f.key => ReplayMem(new)[k] = ReplayMem(w)[k]
  <2>1. /\ ReplayedFrames(new) = 1..n + 1 /\ n + 1 \in 1..n + 1
        /\ \A i \in 1..n + 1 : (i = n + 1 \/ i \in 1..n) /\ i <= n + 1
        /\ \A i \in 1..n : i \in 1..n + 1 /\ i # n + 1
    BY <1>1, <1>5, <1>7
  <2>2. DOMAIN ReplayMem(new) = DOMAIN ReplayMem(w) \cup {f.key}
    <3>1. {new[i].key : i \in 1..n + 1} = {w[i].key : i \in 1..n} \cup {f.key} BY <1>1, <2>1
    <3> QED BY <1>4, <2>1, <3>1, ReplayedDomain
  <2>3. ReplayMem(new)[f.key] = EntryOf(f)
    <3>1. LastFrame(new, f.key, n + 1) BY <1>1, <2>1 DEF LastFrame
    <3>2. ReplayMem(new)[f.key] = EntryOf(new[n + 1]) BY <1>1, <3>1, ReplayedValue
    <3> QED BY <1>1, <3>2
  <2>4. ASSUME NEW k \in DOMAIN ReplayMem(w), k # f.key
        PROVE  ReplayMem(new)[k] = ReplayMem(w)[k]
    <3>1. PICK i \in ReplayedFrames(w) :
            LastFrame(w, k, i) /\ ReplayMem(w)[k] = EntryOf(w[i])
      BY <2>4, ReplayedLast
    <3>2. i \in ReplayedFrames(new) /\ new[i] = w[i] /\ new[i].key = k
      BY <1>1, <1>4, <2>1, <3>1 DEF LastFrame
    <3>3. \A j \in ReplayedFrames(new) : new[j].key = k => j <= i
      BY <1>1, <1>4, <2>1, <2>4, <3>1 DEF LastFrame
    <3>4. LastFrame(new, k, i) BY <3>2, <3>3 DEF LastFrame
    <3>5. ReplayMem(new)[k] = EntryOf(new[i]) BY <1>1, <3>4, ReplayedValue
    <3> QED BY <3>1, <3>2, <3>5
  <2> QED BY <2>2, <2>3, <2>4
<1> QED BY <1>3, <1>6, <1>7

----------------------------------------------------------------------------
(* The steps, and what they are counted by                                 *)

\* The memory is lost: a close, a crash, or a log that cannot be opened.
Loses == /\ status = "open" /\ LoseMemory /\ UNCHANGED <<diskVars, acked, unsure>>
         /\ UNCHANGED used \/ Fault

\* A step that readers and the log do not see.
Unseen == /\ status = "open" /\ UNCHANGED <<status, wal, manifest, mem, tables, acked, unsure>>

\* A write, whatever becomes of it.
Tries(k, v, left) == WriteFails(k, v, left) \/ CrashInWrite(k, v, left)

\* Every step, by what it does to the log, the MemTable and the tables.
LEMMA StepCases ==
  ASSUME IInv, [Next]_vars
  PROVE  \/ UNCHANGED vars
         \/ Open \/ Loses \/ Unseen
         \/ \E k \in Keys, v \in Datum : Write(k, v)
         \/ \E k \in Keys, v \in Datum, left \in {"nothing", "torn", "whole"} : Tries(k, v, left)
         \/ FlushCommit \/ FlushRotate \/ CompactCommit \/ CompactToNothing
<1>1. pc # "idle" => status = "open" BY DEF IInv, TypeOK, FileIDs
<1>2. CASE Close \/ Crash BY <1>2 DEF Close, Crash, Unlocked, Loses
<1>3. CASE WriteStep
  <2>1. ASSUME NEW k \in Keys, Delete(k) PROVE \E v \in Datum : Write(k, v)
    BY <2>1 DEF Delete
  <2>2. ASSUME NEW k \in Keys, NEW v \in Values, Put(k, v) PROVE \E w \in Datum : Write(k, w)
    BY <2>2 DEF Put
  <2> QED BY <1>3, <2>1, <2>2 DEF WriteStep, ExplainPut, ExplainDelete, Tries
<1>4. CASE FlushStep
  <2>1. CASE FlushCreate BY <2>1 DEF FlushCreate, CreateTable, Unlocked, Unseen
  <2>2. CASE FlushBloom BY <1>1, <2>2 DEF FlushBloom, WriteBloom, Unseen
  <2>3. CASE FlushFails BY <1>1, <2>3 DEF FlushFails, UndoTable, Unseen
  <2>4. CASE FlushReopen BY <1>1, <2>4 DEF FlushReopen, Unseen, diskVars
  <2>5. CASE FlushReopenFails BY <1>1, <2>5 DEF FlushReopenFails, Loses
  <2> QED BY <1>4, <2>1, <2>2, <2>3, <2>4, <2>5 DEF FlushStep
<1>5. CASE CompactStep
  <2>1. CASE CompactCreate BY <2>1 DEF CompactCreate, CompactBegins, CreateTable, Unlocked, Unseen
  <2>2. CASE CompactBloom BY <1>1, <2>2 DEF CompactBloom, WriteBloom, Unseen
  <2>3. CASE CompactFails BY <1>1, <2>3 DEF CompactFails, UndoTable, Unseen
  <2>4. CASE CompactCleanup BY <1>1, <2>4 DEF CompactCleanup, Unseen
  <2>5. CASE CompactEnds BY <1>1, <2>5 DEF CompactEnds, Unseen, diskVars
  <2> QED BY <1>5, <2>1, <2>2, <2>3, <2>4, <2>5 DEF CompactStep
<1> QED BY <1>2, <1>3, <1>4, <1>5 DEF Next

\* What the steps do to the counts.
LEMMA Counting ==
  ASSUME IInv, [Next]_vars
  PROVE  /\ used.opens \in Nat /\ used.compactions \in Nat /\ used.torn \in Nat
         /\ \/ used'.opens = used.opens
            \/ Open /\ used'.opens = used.opens + 1
         /\ \/ used'.compactions = used.compactions
            \/ CompactBegins /\ used'.compactions = used.compactions + 1
         /\ \/ used'.torn = used.torn
            \/ /\ used'.torn = used.torn + 1 /\ used'.torn <= MaxTorn
               /\ \E k \in Keys, v \in Datum : Tries(k, v, "torn")
<1>1. used \in Usage BY DEF IInv, TypeOK
<1>2. used.opens \in Nat /\ used.compactions \in Nat /\ used.torn \in Nat BY <1>1 DEF Usage
<1> DEFINE Same == /\ used'.opens = used.opens /\ used'.compactions = used.compactions
                   /\ used'.torn = used.torn
<1> HIDE DEF Same
<1>3. UNCHANGED used \/ Fault => Same BY <1>1 DEF Fault, Usage, Same
<1>4. ASSUME UNCHANGED vars PROVE Same BY <1>3, <1>4 DEF vars
<1>5. CASE Open
  <2>1. used' = [used EXCEPT !.opens = @ + 1] BY <1>5 DEF Open
  <2> QED BY <1>1, <1>5, <2>1 DEF Usage
<1>6. ASSUME Close \/ Crash PROVE Same BY <1>3, <1>6 DEF Close, Crash
<1>7. ASSUME FlushStep PROVE Same
  <2>1. UNCHANGED used \/ Fault
    BY <1>7 DEF FlushStep, FlushCreate, FlushBloom, WriteBloom, FlushFails, UndoTable, FlushCommit,
                FlushRotate, FlushReopen, FlushReopenFails
  <2> QED BY <1>3, <2>1
<1>8. CASE CompactCreate \/ CompactToNothing
  <2>1. CompactBegins BY <1>8 DEF CompactCreate, CompactToNothing
  <2>2. used' = [used EXCEPT !.compactions = @ + 1] BY <2>1 DEF CompactBegins
  <2> QED BY <1>1, <2>1, <2>2 DEF Usage
<1>9. ASSUME CompactStep, ~(CompactCreate \/ CompactToNothing) PROVE Same
  <2>1. UNCHANGED used \/ Fault
    BY <1>9 DEF CompactStep, CompactBloom, WriteBloom, CompactFails, UndoTable, CompactCommit,
                CompactCleanup, CompactEnds
  <2> QED BY <1>3, <2>1
<1>10. ASSUME NEW k \in Keys, NEW v \in Datum, Write(k, v) PROVE Same
  <2>1. used' = [used EXCEPT !.writes = @ + 1] BY <1>10 DEF Write
  <2> QED BY <1>1, <2>1 DEF Usage, Same
<1>11. ASSUME NEW k \in Keys, NEW v \in Datum, NEW left \in {"nothing", "torn", "whole"},
              Tries(k, v, left)
       PROVE  /\ used'.opens = used.opens /\ used'.compactions = used.compactions
              /\ used'.torn = used.torn + TornCount(left) /\ used'.torn <= MaxTorn
  <2>1. \/ used' = [used EXCEPT !.writes = @ + 1, !.torn = @ + TornCount(left)]
        \/ used' = [used EXCEPT !.writes = @ + 1, !.faults = @ + 1, !.torn = @ + TornCount(left)]
    BY <1>11 DEF Tries, WriteFails, CrashInWrite
  <2>2. used.torn + TornCount(left) <= MaxTorn
    BY <1>11 DEF Tries, WriteFails, CrashInWrite, LogAppend
  <2> QED BY <1>1, <2>1, <2>2 DEF Usage
<1>12. CASE WriteStep
  <2>1. ASSUME NEW k \in Keys, Delete(k) PROVE Same BY <1>10, <2>1 DEF Delete
  <2>2. ASSUME NEW k \in Keys, NEW v \in Values, Put(k, v) PROVE Same BY <1>10, <2>2 DEF Put
  <2>3. ASSUME NEW k \in Keys, NEW v \in Datum, NEW left \in {"nothing", "torn", "whole"},
               Tries(k, v, left), left # "torn"
        PROVE  Same
    <3>1. TornCount(left) = 0 BY <2>3 DEF TornCount
    <3> HIDE DEF Keys, Datum
    <3> QED BY <1>2, <1>11, <2>3, <3>1 DEF Same
  <2>4. ASSUME NEW k \in Keys, NEW v \in Datum, Tries(k, v, "torn")
        PROVE  /\ used'.opens = used.opens /\ used'.compactions = used.compactions
               /\ used'.torn = used.torn + 1 /\ used'.torn <= MaxTorn
    <3>1. TornCount("torn") = 1 BY DEF TornCount
    <3> QED BY <1>11, <2>4, <3>1
  <2>5. \/ \E k \in Keys : Delete(k) \/ \E v \in Values : Put(k, v)
        \/ \E k \in Keys, v \in Datum, left \in {"nothing", "torn", "whole"} : Tries(k, v, left)
    BY <1>12 DEF WriteStep, ExplainPut, ExplainDelete, Tries
  <2>6. Same \/ \E k \in Keys, v \in Datum : Tries(k, v, "torn") BY <2>1, <2>2, <2>3, <2>5
  <2> QED BY <1>2, <2>4, <2>6 DEF Same
<1> QED BY <1>2, <1>4, <1>5, <1>6, <1>7, <1>8, <1>9, <1>12 DEF Next, Same

\* The counts only grow: what a state is spared, its past was.
LEMMA CalmBefore ==
  ASSUME IInv, [Next]_vars
  PROVE  (InOrder' => InOrder) /\ (Calm' => Calm)
BY Counting DEF InOrder, Calm

\* Before the first Open nothing is on disk, and no frame is torn while none was cut.
LEMMA HistoryKept ==
  ASSUME IInv, IInv', History, [Next]_vars
  PROVE  History'
<1>1. /\ used'.opens <= MaxOpens /\ used'.compactions <= MaxCompactions /\ used'.torn <= MaxTorn
  <2>1. Open => used.opens < MaxOpens BY DEF Open
  <2>2. CompactBegins => used.compactions < MaxCompactions BY DEF CompactBegins
  <2> QED BY <2>1, <2>2, Counting DEF History
<1>2. UNCHANGED vars \/ Open \/ status = "open"
  <2>1. pc # "idle" => status = "open" BY DEF IInv, TypeOK, FileIDs
  <2> QED
    BY <2>1, StepCases DEF Loses, Unseen, Write, Tries, WriteFails, CrashInWrite, Unlocked,
       FlushCommit, FlushRotate, CompactCommit, CompactToNothing, CompactBegins
<1>3. used'.opens = 0 => status' = "closed" /\ wal' = <<>> /\ manifest' = NewManifest
  <2> SUFFICES ASSUME used'.opens = 0
               PROVE  status' = "closed" /\ wal' = <<>> /\ manifest' = NewManifest
    OBVIOUS
  <2>1. used.opens = 0 /\ ~Open
    <3>1. Open => used' = [used EXCEPT !.opens = @ + 1] BY DEF Open
    <3>2. used \in Usage BY DEF IInv, TypeOK
    <3>3. Open => used'.opens = used.opens + 1 BY <3>1, <3>2 DEF Usage
    <3> QED BY <3>3, Counting
  <2>2. status = "closed" /\ wal = <<>> /\ manifest = NewManifest BY <2>1 DEF History
  <2>3. UNCHANGED vars BY <1>2, <2>1, <2>2
  <2> QED BY <2>2, <2>3 DEF vars, diskVars, memVars
<1>4. pc' \in CompactSteps => used'.compactions > 0
  <2> SUFFICES ASSUME pc' \in CompactSteps PROVE used'.compactions > 0 OBVIOUS
  <2>1. pc \in CompactSteps => used'.compactions > 0 BY Counting DEF History
  <2>2. CompactBegins => used'.compactions > 0
    <3>1. CompactBegins => used' = [used EXCEPT !.compactions = @ + 1] BY DEF CompactBegins
    <3>2. used \in Usage BY DEF IInv, TypeOK
    <3> QED BY <3>1, <3>2 DEF Usage
  <2>3. CASE UNCHANGED vars BY <2>1, <2>3 DEF vars, memVars
  <2>4. CASE Open BY <2>1, <2>4 DEF Open
  <2>5. CASE Close \/ Crash BY <2>5 DEF Close, Crash, LoseMemory, CompactSteps
  <2>6. CASE WriteStep
    BY <2>6 DEF WriteStep, Delete, Put, ExplainDelete, ExplainPut, Write, WriteFails,
       CrashInWrite, LoseMemory, Unlocked, CompactSteps
  <2>7. CASE FlushStep
    BY <2>7 DEF FlushStep, FlushCreate, CreateTable, FlushBloom, WriteBloom, FlushFails,
       UndoTable, FlushCommit, FlushRotate, FlushReopen, FlushReopenFails, LoseMemory, CompactSteps
  <2>8. CASE CompactStep
    BY <2>1, <2>2, <2>8 DEF CompactStep, CompactCreate, CompactToNothing, CompactBloom,
       CompactFails, UndoTable, CompactCommit, CompactCleanup, CompactEnds, CompactSteps
  <2> QED BY <2>3, <2>4, <2>5, <2>6, <2>7, <2>8 DEF Next
<1>5. used'.torn = 0 => \A i \in 1..Len(wal') : ~wal'[i].torn
  <2> SUFFICES ASSUME used'.torn = 0, NEW i \in 1..Len(wal'), wal'[i].torn PROVE FALSE OBVIOUS
  <2>1. /\ used.torn = 0 /\ used'.torn = used.torn BY Counting
  <2>2. \A j \in 1..Len(wal) : ~wal[j].torn BY <2>1 DEF History
  <2>3. wal \in Seq(Frames) BY DEF IInv, TypeOK, WalOK
  <2>4. ASSUME NEW f, ~f.torn, wal' = wal \o <<f>> PROVE FALSE
    <3>1. /\ Len(wal') = Len(wal) + 1 /\ wal'[Len(wal) + 1] = f /\ Len(wal) \in Nat
          /\ \A j \in 1..Len(wal) : wal'[j] = wal[j]
      BY <2>3, <2>4
    <3>2. i = Len(wal) + 1 \/ i \in 1..Len(wal) BY <3>1
    <3> QED BY <2>2, <2>4, <3>1, <3>2
  <2>5. wal' # wal /\ wal' # <<>> BY <2>2
  <2>6. CASE \E k \in Keys, v \in Datum : Write(k, v)
    <3>1. PICK k \in Keys, v \in Datum : Write(k, v) BY <2>6
    <3>2. wal' = wal \o <<Frame(k, v, walSeq + 1)>> BY <3>1 DEF Write, LogAppend
    <3>3. ~Frame(k, v, walSeq + 1).torn BY DEF Frame
    <3> QED BY <2>4, <3>2, <3>3
  <2>7. CASE \E k \in Keys, v \in Datum, left \in {"nothing", "torn", "whole"} : Tries(k, v, left)
    <3>1. PICK k \in Keys, v \in Datum, left \in {"nothing", "torn", "whole"} : Tries(k, v, left)
      BY <2>7
    <3>2. /\ wal' = wal \o Remains(left, k, v)
          /\ \/ used' = [used EXCEPT !.writes = @ + 1, !.torn = @ + TornCount(left)]
             \/ used' = [used EXCEPT !.writes = @ + 1, !.faults = @ + 1, !.torn = @ + TornCount(left)]
      BY <3>1 DEF Tries, WriteFails, CrashInWrite, LogAppend
    <3>3. used \in Usage BY DEF IInv, TypeOK
    <3>4. used'.torn = used.torn + TornCount(left) BY <3>2, <3>3 DEF Usage
    <3>5. left # "torn" BY <2>1, <3>4 DEF TornCount
    <3>6. left = "nothing" => wal' = wal BY <2>3, <3>2 DEF Remains
    <3>7. left = "whole" => wal' = wal \o <<Frame(k, v, walSeq + 1)>> BY <3>2 DEF Remains
    <3>8. ~Frame(k, v, walSeq + 1).torn BY DEF Frame
    <3> QED BY <2>4, <2>5, <3>5, <3>6, <3>7, <3>8
  <2> QED
    BY <2>5, <2>6, <2>7, StepCases DEF vars, diskVars, Open, Loses, Unseen, FlushCommit,
       FlushRotate, CompactCommit, CompactToNothing
<1> QED BY <1>1, <1>3, <1>4, <1>5 DEF History

\* What is being built stays what it is to replace.
LEMMA BuiltKept ==
  ASSUME IInv, Built, [Next]_vars
  PROVE  Built'
<1>0. LiveEntries' = LiveEntries \/ tables' # tables BY DEF LiveEntries, TableSources
<1>1. CASE UNCHANGED vars
  <2>1. UNCHANGED <<pc, sst, mem, tables, nextFileID>> BY <1>1 DEF vars, diskVars, memVars
  <2> QED BY <1>0, <2>1 DEF Built, NewID
<1>2. ASSUME pc' \in {"idle", "compactCleanup"} PROVE Built' BY <1>2 DEF Built
<1>3. CASE Open
  <2>1. pc' = "idle" BY <1>3 DEF Open, IInv, FileIDs
  <2> QED BY <1>2, <2>1
<1>4. CASE Close \/ Crash BY <1>2, <1>4 DEF Close, Crash, LoseMemory
<1>5. CASE WriteStep
  <2>1. pc' = "idle"
    BY <1>5 DEF WriteStep, Delete, Put, ExplainDelete, ExplainPut, Write, WriteFails,
       CrashInWrite, LoseMemory, Unlocked
  <2> QED BY <1>2, <2>1
<1>6. CASE FlushStep
  <2>1. CASE FlushCreate
    <3>1. /\ sst' = With(sst, nextFileID, mem) /\ nextFileID' = nextFileID + 1
          /\ pc' = "flushBloom" /\ mem' = mem
      BY <2>1 DEF FlushCreate, CreateTable
    <3>2. NewID' = nextFileID BY <3>1 DEF NewID, IInv, TypeOK
    <3>3. sst'[NewID'] = mem BY <3>1, <3>2 DEF With
    <3> QED BY <3>1, <3>3 DEF Built
  <2>2. CASE FlushBloom
    BY <2>2 DEF FlushBloom, WriteBloom, Built, NewID
  <2>3. CASE FlushFails BY <1>2, <2>3 DEF FlushFails, UndoTable
  <2>4. CASE FlushCommit BY <2>4 DEF FlushCommit, Built
  <2>5. CASE FlushRotate BY <2>5 DEF FlushRotate, Built
  <2>6. CASE FlushReopen BY <1>2, <2>6 DEF FlushReopen
  <2>7. CASE FlushReopenFails BY <1>2, <2>7 DEF FlushReopenFails, LoseMemory
  <2> QED BY <1>6, <2>1, <2>2, <2>3, <2>4, <2>5, <2>6, <2>7 DEF FlushStep
<1>7. CASE CompactStep
  <2>1. CASE CompactCreate
    <3>1. /\ sst' = With(sst, nextFileID, LiveEntries) /\ nextFileID' = nextFileID + 1
          /\ pc' = "compactBloom" /\ tables' = tables
      BY <2>1 DEF CompactCreate, CreateTable
    <3>2. NewID' = nextFileID BY <3>1 DEF NewID, IInv, TypeOK
    <3>3. sst'[NewID'] = LiveEntries BY <3>1, <3>2 DEF With
    <3> QED BY <1>0, <3>1, <3>3 DEF Built
  <2>2. CASE CompactBloom
    BY <1>0, <2>2 DEF CompactBloom, WriteBloom, Built, NewID
  <2>3. CASE CompactFails BY <1>2, <2>3 DEF CompactFails, UndoTable
  <2>4. CASE CompactCommit \/ CompactToNothing \/ CompactCleanup \/ CompactEnds
    BY <1>2, <2>4 DEF CompactCommit, CompactToNothing, CompactCleanup, CompactEnds
  <2> QED BY <1>7, <2>1, <2>2, <2>3, <2>4 DEF CompactStep
<1> QED BY <1>1, <1>3, <1>4, <1>5, <1>6, <1>7 DEF Next

----------------------------------------------------------------------------
(* What a commit does to the tables                                        *)

\* A flush puts the MemTable behind the tables.
LEMMA FlushedTables ==
  ASSUME IInv, IInv', Built, FlushCommit
  PROVE  /\ status = "open" /\ status' = "open" /\ mem' = EmptyMap
         /\ Len(tables) \in Nat /\ tables = [i \in 1..Len(tables) |-> tables[i]]
         /\ \E h : h.entries = mem /\ tables' = Append(tables, h)
<1>1. /\ pc = "flushCommit" /\ mem' = EmptyMap /\ status' = status
      /\ CommitTable(manifest.tables, tables)
  BY DEF FlushCommit
<1>2. status = "open" BY <1>1 DEF IInv, TypeOK, FileIDs
<1> DEFINE h == TableHandle(TableEntry(NewID, sst[NewID]))
<1>3. tables' = Append(tables, h) BY <1>1 DEF CommitTable
<1>4. h.entries = mem BY <1>1 DEF TableHandle, TableEntry, Built
<1>5. Len(tables) \in Nat BY <1>2, TablesBelow
<1>6. tables = [i \in 1..Len(manifest.tables) |-> TableHandle(manifest.tables[i])]
  BY <1>2 DEF IInv, HandlesMatchManifest, OpenTables
<1>7. Len(manifest.tables) \in Nat BY DEF IInv, TypeOK
<1>8. tables = [i \in 1..Len(tables) |-> tables[i]] BY <1>6, <1>7
<1> HIDE DEF h
<1> QED BY <1>1, <1>2, <1>3, <1>4, <1>5, <1>8

\* A compaction puts one table, of what is live, in place of all.
LEMMA CompactedTables ==
  ASSUME IInv, Built, CompactCommit
  PROVE  /\ status = "open" /\ status' = "open" /\ mem' = mem
         /\ \E h : h.entries = LiveEntries /\ tables' = <<h>>
<1>1. /\ pc = "compactCommit" /\ mem' = mem /\ status' = status
      /\ CommitTable(<<>>, <<>>)
  BY DEF CompactCommit
<1>2. status = "open" BY <1>1 DEF IInv, TypeOK, FileIDs
<1> DEFINE h == TableHandle(TableEntry(NewID, sst[NewID]))
<1>3. tables' = Append(<<>>, h) BY <1>1 DEF CommitTable
<1>4. h.entries = LiveEntries BY <1>1 DEF TableHandle, TableEntry, Built
<1> HIDE DEF h
<1>5. tables' = <<h>> BY <1>3
<1> QED BY <1>1, <1>2, <1>4, <1>5

\* No step of flush or compact changes an answer, as long as the numbers are in the
\* order of the tables.
LEMMA GetKept ==
  ASSUME IInv, IInv', Built, InOrder => Ordered, NEW k,
         FlushCommit \/ (InOrder /\ (CompactCommit \/ CompactToNothing)) \/ FlushRotate \/ Unseen
  PROVE  Get(k)' = Get(k)
<1>1. ASSUME UNCHANGED <<mem, tables>> PROVE Get(k)' = Get(k) BY <1>1 DEF Get
<1>2. CASE FlushRotate \/ Unseen BY <1>1, <1>2 DEF FlushRotate, Unseen
<1>3. CASE FlushCommit
  <2>1. PICK h : h.entries = mem /\ tables' = Append(tables, h) BY <1>3, FlushedTables
  <2>2. Sound(tables) /\ Sound(Append(tables, h))
    BY <1>3, <2>1, FlushedTables, SoundTables, SoundTablesNext
  <2>3. Lookup(EmptyMap, Append(tables, h), k) = Lookup(mem, tables, k)
    <3>1. Len(tables) \in Nat /\ tables = [i \in 1..Len(tables) |-> tables[i]]
      BY <1>3, FlushedTables
    <3> QED BY <2>1, <2>2, <3>1, LookupFlushed
  <2>4. mem' = EmptyMap BY <1>3, FlushedTables
  <2> QED BY <2>1, <2>3, <2>4 DEF Get
<1>4. CASE InOrder /\ CompactCommit
  <2>1. PICK h : h.entries = LiveEntries /\ tables' = <<h>> BY <1>4, CompactedTables
  <2>2. /\ Sound(tables) /\ Sound(<<h>>) /\ status = "open" /\ mem' = mem
    BY <1>4, <2>1, CompactedTables, SoundTables, SoundTablesNext
  <2>3. Lookup(mem, <<h>>, k) = Lookup(mem, tables, k)
    BY <1>4, <2>1, <2>2, LookupCompacted
  <2> QED BY <2>1, <2>2, <2>3 DEF Get
<1>5. CASE InOrder /\ CompactToNothing
  <2>1. /\ status = "open" /\ mem' = mem /\ tables' = <<>> /\ DOMAIN LiveEntries = {}
    BY <1>5 DEF CompactToNothing, CompactBegins, Unlocked
  <2>2. Sound(tables) BY <2>1, SoundTables
  <2>3. Lookup(mem, <<>>, k) = Lookup(mem, tables, k)
    BY <1>5, <2>1, <2>2, LookupEmptied
  <2> QED BY <2>1, <2>3 DEF Get
<1> QED BY <1>2, <1>3, <1>4, <1>5

----------------------------------------------------------------------------
(* The order of the numbers                                                *)

\* Ordered, of a MemTable and tables that need not be the engine's.
OrderedIn(m, ts) ==
  \A i \in 1..Len(ts) : \A k \in DOMAIN ts[i].entries :
    /\ k \in DOMAIN m => ts[i].entries[k].seq < m[k].seq
    /\ \A j \in i + 1..Len(ts) :
         k \in DOMAIN ts[j].entries => ts[i].entries[k].seq < ts[j].entries[k].seq

\* A write takes a number above all in use; a flush makes the MemTable the newest table;
\* a compaction keeps the number of what it keeps.
LEMMA OrderedKept ==
  ASSUME IInv, IInv', History, Built, InOrder => Ordered, [Next]_vars, InOrder'
  PROVE  Ordered'
<1>1. InOrder BY CalmBefore
<1> SUFFICES ASSUME status' = "open" PROVE OrderedIn(mem', tables') BY DEF Ordered, OrderedIn
<1>2. ASSUME status = "open" PROVE OrderedIn(mem, tables) BY <1>1, <1>2 DEF Ordered, OrderedIn
<1>3. ASSUME status = "open", UNCHANGED <<mem, tables>> PROVE OrderedIn(mem', tables')
  BY <1>2, <1>3
<1>4. CASE UNCHANGED vars \/ Unseen \/ FlushRotate
  <2>1. FlushRotate => status = "open" BY DEF FlushRotate, IInv, TypeOK, FileIDs
  <2>2. status = "open" /\ UNCHANGED <<mem, tables>>
    BY <1>4, <2>1 DEF vars, memVars, Unseen, FlushRotate
  <2> QED BY <1>3, <2>2
<1>5. CASE Open
  <2>1. used' = [used EXCEPT !.opens = @ + 1] /\ tables' = OpenTables BY <1>5 DEF Open
  <2>2. used \in Usage BY DEF IInv, TypeOK
  <2>3. used'.opens = used.opens + 1 /\ used.opens \in Nat BY <2>1, <2>2 DEF Usage
  <2>4. used.opens = 0 BY <2>3 DEF InOrder
  <2>5. manifest.tables = <<>> BY <2>4 DEF History, NewManifest
  <2>6. Len(OpenTables) = 0 BY <2>5 DEF OpenTables
  <2> QED BY <2>1, <2>6 DEF OrderedIn
<1>6. CASE Loses BY <1>6 DEF Loses, LoseMemory
<1>7. CASE \E k \in Keys, v \in Datum : Write(k, v)
  <2>1. PICK k \in Keys, v \in Datum : Write(k, v) BY <1>7
  <2>2. /\ status = "open" /\ tables' = tables
        /\ mem' = With(mem, k, [value |-> v, seq |-> nextSeq])
    BY <2>1 DEF Write, Unlocked
  <2>3. \A i \in 1..Len(tables) : \A x \in DOMAIN tables[i].entries :
          tables[i].entries[x].seq < nextSeq
    BY <2>2, TablesBelow DEF SeqBelow
  <2>4. OrderedIn(mem, tables) BY <1>2, <2>2
  <2>5. \A x \in DOMAIN mem' : mem'[x] = IF x = k THEN [value |-> v, seq |-> nextSeq] ELSE mem[x]
    BY <2>2 DEF With
  <2>6. \A x \in DOMAIN mem' : x # k => x \in DOMAIN mem BY <2>2 DEF With
  <2> QED BY <2>2, <2>3, <2>4, <2>5, <2>6 DEF OrderedIn
<1>8. CASE \E k \in Keys, v \in Datum, left \in {"nothing", "torn", "whole"} : Tries(k, v, left)
  <2>1. status = "open" /\ UNCHANGED <<mem, tables>>
    BY <1>8 DEF Tries, WriteFails, CrashInWrite, LoseMemory, Unlocked
  <2> QED BY <1>3, <2>1
<1>9. CASE FlushCommit
  <2>1. /\ status = "open" /\ mem' = EmptyMap
        /\ Len(tables) \in Nat /\ tables = [i \in 1..Len(tables) |-> tables[i]]
    BY <1>9, FlushedTables
  <2>2. PICK h : h.entries = mem /\ tables' = Append(tables, h) BY <1>9, FlushedTables
  <2> DEFINE n == Len(tables)
  <2>3. /\ n \in Nat /\ Len(tables') = n + 1 /\ tables'[n + 1].entries = mem
        /\ \A i \in 1..n : tables'[i] = tables[i]
    BY <2>1, <2>2, AppendAny
  <2>4. OrderedIn(mem, tables) BY <1>2, <2>1
  <2>5. DOMAIN mem' = {} BY <2>1 DEF EmptyMap
  <2>6. ASSUME NEW i \in 1..n + 1, NEW k \in DOMAIN tables'[i].entries, NEW j \in i + 1..n + 1,
               k \in DOMAIN tables'[j].entries
        PROVE  tables'[i].entries[k].seq < tables'[j].entries[k].seq
    <3>1. i \in 1..n /\ (j = n + 1 \/ j \in i + 1..n) BY <2>3
    <3>2. j \in i + 1..n => j \in 1..n BY <2>3, <3>1
    <3> HIDE DEF n
    <3>3. n = Len(tables) BY DEF n
    <3> QED BY <2>3, <2>4, <2>6, <3>1, <3>2, <3>3 DEF OrderedIn
  <2> HIDE DEF n
  <2> QED BY <2>3, <2>5, <2>6 DEF OrderedIn
<1>10. CASE CompactCommit
  <2>1. status = "open" /\ mem' = mem BY <1>10, CompactedTables
  <2>2. PICK h : h.entries = LiveEntries /\ tables' = <<h>> BY <1>10, CompactedTables
  <2>3. Len(tables') = 1 /\ tables'[1] = h BY <2>2
  <2>4. ASSUME NEW k \in DOMAIN LiveEntries, k \in DOMAIN mem
        PROVE  LiveEntries[k].seq < mem[k].seq
    <3>1. Ordered /\ Len(tables) \in Nat BY <1>1, <2>1, TablesBelow
    <3>2. ~Absent(tables, k) BY <2>1, <2>4, <3>1, LiveEntriesAre
    <3>3. PICK i \in 1..Len(tables) : LastHolding(tables, k, i) BY <3>1, <3>2, HeldOrAbsent
    <3>4. LiveEntries[k] = tables[i].entries[k] BY <2>1, <2>4, <3>1, <3>3, LiveEntriesAre
    <3>5. tables[i].entries[k].seq < mem[k].seq
      BY <2>1, <2>4, <3>1, <3>3 DEF Ordered, LastHolding
    <3> QED BY <3>4, <3>5
  <2>5. \A i \in 1..1 : i = 1 /\ i + 1..1 = {} OBVIOUS
  <2> QED BY <2>1, <2>2, <2>3, <2>4, <2>5 DEF OrderedIn
<1>11. CASE CompactToNothing
  <2>1. tables' = <<>> BY <1>11 DEF CompactToNothing
  <2> QED BY <2>1 DEF OrderedIn
<1> QED BY <1>4, <1>5, <1>6, <1>7, <1>8, <1>9, <1>10, <1>11, StepCases

----------------------------------------------------------------------------
(* What the log tells                                                      *)

\* A log w tells of every write in the MemTable, and else only of those in may.
TellsOf(w, may) ==
  /\ DOMAIN mem \subseteq DOMAIN ReplayMem(w)
  /\ \A k \in DOMAIN ReplayMem(w) : ReplayMem(w)[k].value \in {Get(k)} \cup may[k]

\* One record more at the end of the log.
LEMMA OneMore ==
  ASSUME NEW w \in Seq(Frames), NEW f \in Frames
  PROVE  Grows(w, w \o <<f>>, f)
BY DEF Grows

\* What a restart from such a log would answer.
LEMMA RestartAnswers ==
  ASSUME IInv, status = "open", NEW w, NEW may, TellsOf(w, may), NEW k
  PROVE  Lookup(ReplayMem(w), tables, k) \in {Get(k)} \cup may[k]
<1>1. CASE k \in DOMAIN ReplayMem(w)
  <2>1. Lookup(ReplayMem(w), tables, k) = ReplayMem(w)[k].value BY <1>1, LookupMem
  <2> QED BY <1>1, <2>1 DEF TellsOf
<1>2. CASE k \notin DOMAIN ReplayMem(w)
  <2>1. k \notin DOMAIN mem BY <1>2 DEF TellsOf
  <2>2. Len(tables) \in Nat /\ Sound(tables) BY TablesBelow, SoundTables
  <2>3. Lookup(ReplayMem(w), tables, k) = Lookup(EmptyMap, tables, k) BY <1>2, <2>2, LookupTables
  <2>4. Get(k) = Lookup(EmptyMap, tables, k) BY <2>1, <2>2, LookupTables DEF Get
  <2> QED BY <2>3, <2>4
<1> QED BY <1>1, <1>2

\* A log with a record more, which the MemTable has too.
LEMMA WrittenTells ==
  ASSUME IInv, Logged, NEW k \in Keys, NEW v \in Datum, Write(k, v), ~Buried(wal')
  PROVE  TellsOf(wal, unsure)' /\ Get(k)' = v /\ \A x : x # k => Get(x)' = Get(x)
<1>1. /\ status = "open" /\ tables' = tables /\ wal' = wal \o <<Frame(k, v, walSeq + 1)>>
      /\ mem' = With(mem, k, [value |-> v, seq |-> nextSeq])
      /\ unsure' = [unsure EXCEPT ![k] = {}]
  BY DEF Write, LogAppend, Unlocked
<1> DEFINE f == Frame(k, v, walSeq + 1)
<1>2. wal \in Seq(Frames) /\ f \in Frames /\ ~f.torn /\ f.key = k /\ f.value = v
  BY DEF IInv, TypeOK, WalOK, Frame, Frames
<1> HIDE DEF f
<1>3. wal' = wal \o <<f>> BY <1>1 DEF f
<1>4. /\ ~Buried(wal) /\ DOMAIN ReplayMem(wal') = DOMAIN ReplayMem(wal) \cup {k}
      /\ ReplayMem(wal')[k].value = v
      /\ \A x \in DOMAIN ReplayMem(wal) : x # k => ReplayMem(wal')[x] = ReplayMem(wal)[x]
  <2>1. Grows(wal, wal', f) BY <1>2, <1>3, OneMore
  <2>2. ~Buried(wal) BY <1>2, <2>1, ReplayGrows
  <2>3. DOMAIN ReplayMem(wal') = DOMAIN ReplayMem(wal) \cup {f.key} BY <1>2, <2>1, ReplayGrows
  <2>4. \A x \in DOMAIN ReplayMem(wal') : x = f.key => ReplayMem(wal')[x] = EntryOf(f)
    BY <1>2, <2>1, ReplayGrows
  <2>5. \A x \in DOMAIN ReplayMem(wal) : x # f.key => ReplayMem(wal')[x] = ReplayMem(wal)[x]
    BY <1>2, <2>1, ReplayGrows
  <2> QED BY <1>2, <2>2, <2>3, <2>4, <2>5 DEF EntryOf
<1>5. TellsOf(wal, unsure) BY <1>1, <1>4 DEF Logged, TellsOf
<1>6. /\ DOMAIN mem' = DOMAIN mem \cup {k} /\ mem'[k].value = v
      /\ \A x \in DOMAIN mem : x # k => mem'[x] = mem[x]
  BY <1>1 DEF With
<1>7. Get(k)' = v
  <2>1. Lookup(mem', tables', k) = v BY <1>6, LookupMem
  <2> QED BY <2>1 DEF Get
<1>8. ASSUME NEW x, x # k PROVE Get(x)' = Get(x)
  <2>1. x \in DOMAIN mem' <=> x \in DOMAIN mem BY <1>6, <1>8
  <2>2. CASE x \in DOMAIN mem
    <3>1. Lookup(mem', tables', x) = mem'[x].value /\ Lookup(mem, tables, x) = mem[x].value
      BY <2>1, <2>2, LookupMem
    <3> QED BY <1>6, <1>8, <2>2, <3>1 DEF Get
  <2>3. CASE x \notin DOMAIN mem
    <3>1. Len(tables) \in Nat /\ Sound(tables) BY <1>1, TablesBelow, SoundTables
    <3>2. Lookup(mem', tables, x) = Lookup(EmptyMap, tables, x)
      BY <2>1, <2>3, <3>1, LookupTables
    <3>3. Lookup(mem, tables, x) = Lookup(EmptyMap, tables, x) BY <2>3, <3>1, LookupTables
    <3> QED BY <1>1, <3>2, <3>3 DEF Get
  <2> QED BY <2>2, <2>3
<1>9. DOMAIN mem' \subseteq DOMAIN ReplayMem(wal') BY <1>4, <1>5, <1>6 DEF TellsOf
<1>10. ASSUME NEW x \in DOMAIN ReplayMem(wal')
       PROVE  ReplayMem(wal')[x].value \in {Get(x)'} \cup unsure'[x]
  <2>1. CASE x = k BY <1>4, <1>7, <2>1
  <2>2. CASE x # k
    <3>1. x \in DOMAIN ReplayMem(wal) BY <1>4, <1>10, <2>2
    <3>2. ReplayMem(wal)[x].value \in {Get(x)} \cup unsure[x] BY <1>5, <3>1 DEF TellsOf
    <3>3. unsure \in [Keys -> SUBSET Datum] BY DEF IInv, TypeOK
    <3>4. x \in Keys => unsure'[x] = unsure[x] BY <1>1, <2>2, <3>3
    <3>5. x \in Keys BY <3>1, ReplayOK DEF IsMap
    <3> QED BY <1>4, <1>8, <2>2, <3>1, <3>2, <3>4, <3>5
  <2> QED BY <2>1, <2>2
<1> QED BY <1>7, <1>8, <1>9, <1>10 DEF TellsOf

\* A log with what a write that did not return nil left there.
LEMMA TriedTells ==
  ASSUME IInv, Logged, NEW k \in Keys, NEW v \in Datum,
         NEW left \in {"nothing", "torn", "whole"}, Tries(k, v, left), ~Buried(wal')
  PROVE  TellsOf(wal', unsure') /\ \A x \in Keys : unsure[x] \subseteq unsure'[x]
<1>1. /\ status = "open" /\ wal' = wal \o Remains(left, k, v)
      /\ unsure' = IF left = "whole" THEN [unsure EXCEPT ![k] = @ \cup {v}] ELSE unsure
  BY DEF Tries, WriteFails, CrashInWrite, LogAppend, Unlocked, MayHappen
<1>2. /\ wal \in Seq(Frames) /\ walSeq \in Nat /\ unsure \in [Keys -> SUBSET Datum]
  BY DEF IInv, TypeOK, WalOK
<1>3. \A x \in Keys : unsure[x] \subseteq unsure'[x] BY <1>1, <1>2
<1> DEFINE R == ReplayMem(wal)
           S == ReplayMem(wal')
<1>4. /\ ~Buried(wal)
      /\ DOMAIN S = IF left = "whole" THEN DOMAIN R \cup {k} ELSE DOMAIN R
      /\ left = "whole" => S[k].value = v
      /\ \A x \in DOMAIN R : x # k \/ left # "whole" => S[x] = R[x]
  <2>1. CASE left = "nothing"
    <3>1. wal' = wal BY <1>1, <1>2, <2>1 DEF Remains
    <3> QED BY <2>1, <3>1
  <2>2. CASE left = "torn"
    <3>1. wal' = wal \o <<TornFrame>> BY <1>1, <2>2 DEF Remains
    <3>2. TornFrame \in Frames /\ TornFrame.torn BY DEF TornFrame, Frames
    <3>3. Grows(wal, wal', TornFrame) BY <1>2, <3>1, <3>2, OneMore
    <3>4. ~Buried(wal) BY <1>2, <3>2, <3>3, ReplayGrows
    <3>5. DOMAIN S = DOMAIN R BY <1>2, <3>2, <3>3, ReplayGrows
    <3>6. \A x \in DOMAIN R : S[x] = R[x] BY <1>2, <3>2, <3>3, ReplayGrows
    <3> QED BY <2>2, <3>4, <3>5, <3>6
  <2>3. CASE left = "whole"
    <3> DEFINE f == Frame(k, v, walSeq + 1)
    <3>1. wal' = wal \o <<f>> BY <1>1, <2>3 DEF Remains
    <3>2. f \in Frames /\ ~f.torn /\ f.key = k /\ f.value = v BY <1>2 DEF Frame, Frames
    <3> HIDE DEF f
    <3>3. Grows(wal, wal', f) BY <1>2, <3>1, <3>2, OneMore
    <3>4. ~Buried(wal) BY <1>2, <3>2, <3>3, ReplayGrows
    <3>5. DOMAIN S = DOMAIN R \cup {f.key} BY <1>2, <3>2, <3>3, ReplayGrows
    <3>6. \A x \in DOMAIN S : x = f.key => S[x] = EntryOf(f) BY <1>2, <3>2, <3>3, ReplayGrows
    <3>7. \A x \in DOMAIN R : x # f.key => S[x] = R[x] BY <1>2, <3>2, <3>3, ReplayGrows
    <3> QED BY <2>3, <3>2, <3>4, <3>5, <3>6, <3>7 DEF EntryOf
  <2> QED BY <2>1, <2>2, <2>3
<1>5. TellsOf(wal, unsure) BY <1>1, <1>4 DEF Logged, TellsOf
<1> HIDE DEF R, S
<1>6. DOMAIN mem \subseteq DOMAIN S BY <1>4, <1>5 DEF TellsOf, R
<1>7. ASSUME NEW x \in DOMAIN S PROVE S[x].value \in {Get(x)} \cup unsure'[x]
  <2>1. CASE x = k /\ left = "whole" BY <1>1, <1>2, <1>4, <2>1
  <2>2. CASE x # k \/ left # "whole"
    <3>1. x \in DOMAIN R BY <1>4, <1>7, <2>2
    <3>2. R[x].value \in {Get(x)} \cup unsure[x] BY <1>5, <3>1 DEF TellsOf, R
    <3>3. x \in Keys BY <3>1, ReplayOK DEF IsMap, R
    <3> QED BY <1>3, <1>4, <2>2, <3>1, <3>2, <3>3
  <2> QED BY <2>1, <2>2
<1> QED BY <1>3, <1>6, <1>7 DEF TellsOf, S

\* The log goes on telling of the writes, through every step.
LEMMA LoggedKept ==
  ASSUME IInv, IInv', ReadsInv, [Next]_vars, Calm'
  PROVE  Logged'
<1>1. Calm /\ Logged /\ History /\ Built /\ (InOrder => Ordered) BY CalmBefore DEF ReadsInv
<1> SUFFICES ASSUME status' = "open", ~Buried(wal') PROVE TellsOf(wal, unsure)'
  BY DEF Logged, TellsOf
<1>2. ASSUME status = "open", wal' = wal, unsure' = unsure, DOMAIN mem' \subseteq DOMAIN mem,
             \A k : Get(k)' = Get(k)
      PROVE  TellsOf(wal, unsure)'
  <2>1. TellsOf(wal, unsure) BY <1>1, <1>2 DEF Logged, TellsOf
  <2> QED BY <1>2, <2>1 DEF TellsOf
<1>3. CASE UNCHANGED vars
  <2>1. UNCHANGED <<wal, status, mem, tables, unsure>> BY <1>3 DEF vars, diskVars, memVars
  <2> QED BY <1>2, <2>1 DEF Get
<1>4. CASE Open
  <2>1. mem' = ReplayMem(wal) /\ wal' = wal BY <1>4 DEF Open, diskVars
  <2>2. ASSUME NEW k \in DOMAIN mem' PROVE Get(k)' = mem'[k].value
    <3>1. Lookup(mem', tables', k) = mem'[k].value BY <2>2, LookupMem
    <3> QED BY <3>1 DEF Get
  <2> QED BY <2>1, <2>2 DEF TellsOf
<1>5. CASE Loses BY <1>5 DEF Loses, LoseMemory
<1>6. CASE Unseen \/ (FlushRotate /\ wal' = wal)
  <2>1. status = "open" /\ UNCHANGED <<wal, mem, tables, unsure>>
    BY <1>6 DEF Unseen, FlushRotate, IInv, TypeOK, FileIDs
  <2> QED BY <1>2, <2>1 DEF Get
<1>7. CASE \E k \in Keys, v \in Datum : Write(k, v) BY <1>1, <1>7, WrittenTells
<1>8. CASE \E k \in Keys, v \in Datum, left \in {"nothing", "torn", "whole"} : Tries(k, v, left)
  <2>1. PICK k \in Keys, v \in Datum, left \in {"nothing", "torn", "whole"} : Tries(k, v, left)
    BY <1>8
  <2>2. UNCHANGED <<mem, tables>>
    BY <2>1 DEF Tries, WriteFails, CrashInWrite, LoseMemory
  <2>3. TellsOf(wal', unsure') BY <1>1, <2>1, TriedTells
  <2> QED BY <2>2, <2>3 DEF TellsOf, Get
<1>9. CASE FlushCommit
  <2>1. status = "open" /\ mem' = EmptyMap BY <1>1, <1>9, FlushedTables
  <2>2. wal' = wal /\ unsure' = unsure BY <1>9 DEF FlushCommit
  <2>3. \A k : Get(k)' = Get(k) BY <1>1, <1>9, GetKept
  <2>4. DOMAIN mem' \subseteq DOMAIN mem BY <2>1 DEF EmptyMap
  <2> QED BY <1>2, <2>1, <2>2, <2>3, <2>4
<1>10. CASE FlushRotate /\ wal' = <<>>
  <2>1. mem' = mem /\ mem = EmptyMap BY <1>1, <1>10 DEF FlushRotate, Built
  <2>2. ReplayedFrames(wal') = {} BY <1>10 DEF ReplayedFrames
  <2>3. DOMAIN ReplayMem(wal') = {} BY <2>2, ReplayedDomain
  <2>4. DOMAIN mem' = {} BY <2>1 DEF EmptyMap
  <2> QED BY <2>3, <2>4 DEF TellsOf
<1>11. CASE CompactCommit \/ CompactToNothing
  <2>1. used'.compactions > 0
    <3>1. CompactCommit => used' = used /\ pc \in CompactSteps BY DEF CompactCommit, CompactSteps
    <3>2. CompactToNothing => used' = [used EXCEPT !.compactions = @ + 1]
      BY DEF CompactToNothing, CompactBegins
    <3>3. used \in Usage BY DEF IInv, TypeOK
    <3>4. CompactToNothing => used'.compactions > 0 BY <3>2, <3>3 DEF Usage
    <3> QED BY <1>1, <1>11, <3>1, <3>4 DEF History
  <2>2. InOrder BY <2>1, CalmBefore DEF Calm
  <2>3. \A k : Get(k)' = Get(k) BY <1>1, <1>11, <2>2, GetKept
  <2>4. status = "open" BY <1>11, CompactedTables, <1>1 DEF CompactToNothing, CompactBegins, Unlocked
  <2>5. UNCHANGED <<wal, mem, unsure>> BY <1>11 DEF CompactCommit, CompactToNothing
  <2> QED BY <1>2, <2>3, <2>4, <2>5
<1>12. FlushRotate => wal' = wal \/ wal' = <<>> BY DEF FlushRotate
<1> QED
  BY <1>3, <1>4, <1>5, <1>6, <1>7, <1>8, <1>9, <1>10, <1>11, <1>12, StepCases

\* The engine has not been opened.
LEMMA ReadsInit == Init => ReadsInv
<1> SUFFICES ASSUME Init PROVE ReadsInv OBVIOUS
<1> USE DEF Init
<1>1. used.opens = 0 /\ used.compactions = 0 /\ used.torn = 0 /\ wal = <<>>
      /\ status = "closed" /\ manifest = NewManifest /\ pc = "idle"
  OBVIOUS
<1>2. 0 <= MaxOpens /\ 0 <= MaxCompactions /\ 0 <= MaxTorn OBVIOUS
<1>3. Len(wal) = 0 BY <1>1
<1>4. History BY <1>1, <1>2, <1>3 DEF History, CompactSteps
<1>5. Built BY <1>1 DEF Built
<1> QED BY <1>1, <1>4, <1>5 DEF ReadsInv, Ordered, Logged

\* Every step preserves the invariant of the reads.
LEMMA ReadsKept == IInv /\ IInv' /\ ReadsInv /\ [Next]_vars => ReadsInv'
<1> SUFFICES ASSUME IInv, IInv', ReadsInv, [Next]_vars PROVE ReadsInv' OBVIOUS
<1>1. History /\ Built /\ (InOrder => Ordered) BY DEF ReadsInv
<1>2. History' /\ Built' BY <1>1, HistoryKept, BuiltKept
<1>3. InOrder' => Ordered' BY <1>1, OrderedKept
<1>4. Calm' => Logged' BY LoggedKept
<1> QED BY <1>2, <1>3, <1>4 DEF ReadsInv

----------------------------------------------------------------------------
(* What a reader is told, before and after a step                          *)

\* An open engine answers Get, a closed one what a restart would read.
LEMMA ViewIs ==
  ASSUME IInv, NEW k
  PROVE  View(k) = IF status = "open" THEN Get(k) ELSE Lookup(ReplayMem(wal), OpenTables, k)
BY DEF View, Restarted, IInv, ManifestComplete

\* The same after a step.
LEMMA ViewIsNext ==
  ASSUME IInv', NEW k
  PROVE  View(k)' = IF status' = "open" THEN Get(k)' ELSE Lookup(ReplayMem(wal'), OpenTables', k)
BY DEF View, Restarted, IInv, ManifestComplete

\* The steps that change no answer.
LEMMA ViewKept ==
  ASSUME IInv, IInv', ReadsInv, [Next]_vars, Calm', NEW k,
         \/ UNCHANGED vars \/ Open \/ Unseen
         \/ \E x \in Keys, v \in Datum, left \in {"nothing", "torn", "whole"} : WriteFails(x, v, left)
         \/ FlushCommit \/ FlushRotate \/ CompactCommit \/ CompactToNothing
  PROVE  View(k)' = View(k) /\ acked' = acked
<1>1. Built /\ History /\ (InOrder => Ordered) BY DEF ReadsInv
<1>2. ASSUME status = "open", status' = "open", Get(k)' = Get(k) PROVE View(k)' = View(k)
  BY <1>2, ViewIs, ViewIsNext
<1>3. CASE UNCHANGED vars
  <2>1. UNCHANGED <<wal, manifest, sst, blooms, status, mem, tables, acked>>
    BY <1>3 DEF vars, diskVars, memVars
  <2> QED BY <2>1, ViewIs, ViewIsNext, ManifestKept DEF Get
<1>4. CASE Open
  <2>1. /\ status = "closed" /\ status' = "open" /\ tables' = OpenTables /\ mem' = ReplayMem(wal)
        /\ acked' = acked
    BY <1>4 DEF Open
  <2> QED BY <2>1, ViewIs, ViewIsNext DEF Get
<1>5. CASE Unseen
  <2>1. status = "open" /\ status' = "open" /\ acked' = acked /\ UNCHANGED <<mem, tables>>
    BY <1>5 DEF Unseen
  <2> QED BY <1>2, <2>1 DEF Get
<1>6. CASE \E x \in Keys, v \in Datum, left \in {"nothing", "torn", "whole"} : WriteFails(x, v, left)
  <2>1. status = "open" /\ status' = "open" /\ acked' = acked /\ UNCHANGED <<mem, tables>>
    BY <1>6 DEF WriteFails, Unlocked
  <2> QED BY <1>2, <2>1 DEF Get
<1>7. CASE FlushCommit
  <2>1. status = "open" /\ status' = "open" BY <1>1, <1>7, FlushedTables
  <2>2. Get(k)' = Get(k) BY <1>1, <1>7, GetKept
  <2>3. acked' = acked BY <1>7 DEF FlushCommit
  <2> QED BY <1>2, <2>1, <2>2, <2>3
<1>8. CASE FlushRotate
  <2>1. status = "open" /\ status' = "open" /\ acked' = acked /\ UNCHANGED <<mem, tables>>
    BY <1>8 DEF FlushRotate, IInv, TypeOK, FileIDs
  <2> QED BY <1>2, <2>1 DEF Get
<1>9. CASE CompactCommit \/ CompactToNothing
  <2>1. status = "open" /\ status' = "open" /\ acked' = acked
    BY <1>1, <1>9, CompactedTables DEF CompactCommit, CompactToNothing, CompactBegins, Unlocked
  <2>2. used'.compactions > 0
    <3>1. CompactCommit => used' = used /\ pc \in CompactSteps BY DEF CompactCommit, CompactSteps
    <3>2. CompactToNothing => used' = [used EXCEPT !.compactions = @ + 1]
      BY DEF CompactToNothing, CompactBegins
    <3>3. used \in Usage BY DEF IInv, TypeOK
    <3>4. CompactToNothing => used'.compactions > 0 BY <3>2, <3>3 DEF Usage
    <3> QED BY <1>1, <1>9, <3>1, <3>4 DEF History
  <2>3. InOrder BY <2>2, CalmBefore DEF Calm
  <2>4. Get(k)' = Get(k) BY <1>1, <1>9, <2>3, GetKept
  <2> QED BY <1>2, <2>1, <2>4
<1> QED BY <1>3, <1>4, <1>5, <1>6, <1>7, <1>8, <1>9

\* The steps that end the process.
LEMMA ViewLost ==
  ASSUME IInv, IInv', [Next]_vars, Calm => Logged, Calm', ~Buried(wal'), NEW x \in Keys,
         \/ Loses
         \/ \E k \in Keys, v \in Datum, left \in {"nothing", "torn", "whole"} : CrashInWrite(k, v, left)
  PROVE  View(x)' \in {View(x)} \cup unsure'[x] /\ acked' = acked
<1>1. Logged BY CalmBefore
<1>2. /\ status = "open" /\ status' = "closed" /\ UNCHANGED <<manifest, acked>>
  BY DEF Loses, CrashInWrite, Unlocked, LoseMemory, diskVars
<1>3. OpenTables' = OpenTables /\ OpenTables = tables
  BY <1>2, ManifestKept DEF IInv, HandlesMatchManifest
<1>4. TellsOf(wal', unsure')
  <2>1. CASE Loses
    <3>1. wal' = wal /\ unsure' = unsure BY <2>1 DEF Loses, diskVars
    <3> QED BY <1>1, <1>2, <3>1 DEF Logged, TellsOf
  <2>2. CASE \E k \in Keys, v \in Datum, left \in {"nothing", "torn", "whole"} : CrashInWrite(k, v, left)
    BY <1>1, <2>2, TriedTells DEF Tries
  <2> QED BY <2>1, <2>2
<1>5. Lookup(ReplayMem(wal'), tables, x) \in {Get(x)} \cup unsure'[x]
  BY <1>2, <1>4, RestartAnswers
<1> QED BY <1>2, <1>3, <1>5, ViewIs, ViewIsNext

\* A write that returned nil.
LEMMA ViewWritten ==
  ASSUME IInv, IInv', [Next]_vars, Calm => Logged, Calm', ~Buried(wal'), NEW k \in Keys, NEW v \in Datum,
         Write(k, v)
  PROVE  View(k)' = v /\ \A x : x # k => View(x)' = View(x)
<1>1. Logged BY CalmBefore
<1>2. status = "open" /\ status' = "open" BY DEF Write, Unlocked
<1>3. Get(k)' = v /\ \A x : x # k => Get(x)' = Get(x) BY <1>1, WrittenTells
<1> QED BY <1>2, <1>3, ViewIs, ViewIsNext

----------------------------------------------------------------------------
(* Durability                                                              *)

\* An acknowledged write is lost by no step but one that ends the process while a
\* record stands behind a torn frame.
LEMMA DurableStep ==
  ASSUME IInv, IInv', ReadsInv, [Next]_vars, Calm', ~Buried(wal'), Durable
  PROVE  Durable'
<1>1. Calm => Logged BY DEF ReadsInv
<1>2. unsure \in [Keys -> SUBSET Datum] /\ acked \in [Keys -> Datum] BY DEF IInv, TypeOK
<1>3. \A x \in Keys : View(x) \in {acked[x]} \cup unsure[x] BY DEF Durable
<1>4. ASSUME acked' = acked,
             \A x \in Keys : View(x)' \in {View(x)} \cup unsure'[x] /\ unsure[x] \subseteq unsure'[x]
      PROVE  Durable'
  <2> SUFFICES ASSUME NEW x \in Keys PROVE View(x)' \in {acked'[x]} \cup unsure'[x] BY DEF Durable
  <2> QED BY <1>3, <1>4
<1>5. CASE \/ UNCHANGED vars \/ Open \/ Unseen
           \/ FlushCommit \/ FlushRotate \/ CompactCommit \/ CompactToNothing
  <2>1. acked' = acked /\ \A x : View(x)' = View(x) BY <1>5, ViewKept
  <2>2. unsure' = unsure
    BY <1>5 DEF vars, Open, Unseen, FlushCommit, FlushRotate, CompactCommit, CompactToNothing
  <2> QED BY <1>4, <2>1, <2>2
<1>6. CASE Loses
  <2>1. acked' = acked /\ unsure' = unsure BY <1>6 DEF Loses
  <2>2. \A x \in Keys : View(x)' \in {View(x)} \cup unsure'[x] BY <1>1, <1>6, ViewLost
  <2> QED BY <1>4, <2>1, <2>2
<1>7. CASE \E k \in Keys, v \in Datum, left \in {"nothing", "torn", "whole"} : Tries(k, v, left)
  <2>1. PICK k \in Keys, v \in Datum, left \in {"nothing", "torn", "whole"} : Tries(k, v, left)
    BY <1>7
  <2>2. Logged BY <1>1, CalmBefore
  <2>3. \A x \in Keys : unsure[x] \subseteq unsure'[x] BY <2>1, <2>2, TriedTells
  <2>4. CASE WriteFails(k, v, left)
    <3>1. acked' = acked /\ \A x : View(x)' = View(x) BY <2>4, ViewKept
    <3> QED BY <1>4, <2>3, <3>1
  <2>5. CASE CrashInWrite(k, v, left)
    <3>1. \A x \in Keys : View(x)' \in {View(x)} \cup unsure'[x] BY <1>1, <2>5, ViewLost
    <3>2. acked' = acked BY <2>5 DEF CrashInWrite
    <3> QED BY <1>4, <2>3, <3>1, <3>2
  <2> QED BY <2>1, <2>4, <2>5 DEF Tries
<1>8. CASE \E k \in Keys, v \in Datum : Write(k, v)
  <2>1. PICK k \in Keys, v \in Datum : Write(k, v) BY <1>8
  <2>2. acked' = [acked EXCEPT ![k] = v] /\ unsure' = [unsure EXCEPT ![k] = {}]
    BY <2>1 DEF Write
  <2>3. View(k)' = v /\ \A x : x # k => View(x)' = View(x) BY <1>1, <2>1, ViewWritten
  <2> SUFFICES ASSUME NEW x \in Keys PROVE View(x)' \in {acked'[x]} \cup unsure'[x] BY DEF Durable
  <2>4. CASE x = k BY <1>2, <2>2, <2>3, <2>4
  <2>5. CASE x # k BY <1>2, <1>3, <2>2, <2>3, <2>5
  <2> QED BY <2>4, <2>5
<1> QED BY <1>5, <1>6, <1>7, <1>8, StepCases

\* Nothing was written yet.
LEMMA ViewInit ==
  ASSUME Init, NEW k
  PROVE  View(k) = Nil
<1>1. /\ status = "closed" /\ wal = <<>> /\ manifest.tables = <<>>
  BY DEF Init, NewManifest
<1>2. Len(OpenTables) = 0 BY <1>1 DEF OpenTables
<1>3. ReplayedFrames(wal) = {} BY <1>1 DEF ReplayedFrames
<1>4. DOMAIN ReplayMem(wal) = {} BY <1>3, ReplayedDomain
<1>5. Absent(OpenTables, k) BY <1>2 DEF Absent
<1>6. Lookup(ReplayMem(wal), OpenTables, k) = Nil BY <1>4, <1>5, LookupNone
<1> QED BY <1>1, <1>6 DEF View, Restarted

----------------------------------------------------------------------------
(* The three ways to read                                                  *)

\* The MemTable in front of the tables, as Scan merges them.
LEMMA ScanSources ==
  ASSUME IInv, status = "open"
  PROVE  /\ Len(tables) \in Nat /\ Len(<<mem>> \o TableSources) = Len(tables) + 1
         /\ (<<mem>> \o TableSources)[1] = mem
         /\ \A i \in 1..Len(tables) : (<<mem>> \o TableSources)[i + 1] = tables[i].entries
         /\ \A i \in 1..Len(tables) + 1 : i = 1 \/ \E j \in 1..Len(tables) : i = j + 1
<1> DEFINE n == Len(tables)
<1>1. n \in Nat BY TablesBelow
<1>2. TableSources = [i \in 1..n |-> tables[i].entries] BY DEF TableSources
<1> HIDE DEF n
<1>3. Len(TableSources) = n /\ \A i \in 1..n : TableSources[i] = tables[i].entries BY <1>1, <1>2
<1>4. /\ Len(<<mem>> \o TableSources) = n + 1 /\ (<<mem>> \o TableSources)[1] = mem
      /\ \A i \in 1..n : (<<mem>> \o TableSources)[i + 1] = TableSources[i]
  BY <1>1, <1>2, <1>3
<1>5. ASSUME NEW i \in 1..n + 1 PROVE i = 1 \/ \E j \in 1..n : i = j + 1
  <2>1. CASE i # 1
    <3>1. i - 1 \in 1..n /\ i = (i - 1) + 1 BY <1>1, <2>1
    <3> QED BY <3>1
  <2> QED BY <2>1
<1> QED BY <1>1, <1>3, <1>4, <1>5 DEF n

\* Scan chooses by number what Get chooses by position.
LEMMA ScanIsGet ==
  ASSUME IInv, status = "open", Ordered, NEW k
  PROVE  Scan(k) = Get(k)
<1> DEFINE n    == Len(tables)
           srcs == <<mem>> \o TableSources
<1>1. /\ n \in Nat /\ Len(srcs) = n + 1 /\ srcs[1] = mem
      /\ \A i \in 1..n : srcs[i + 1] = tables[i].entries
      /\ \A i \in 1..n + 1 : i = 1 \/ \E j \in 1..n : i = j + 1
  BY ScanSources
<1>2. Scan(k) = IF k \in DOMAIN Merge(srcs) THEN Merge(srcs)[k].value ELSE Nil BY DEF Scan
<1>3. \A i \in 1..n : IsMap(tables[i].entries) BY TablesBelow
<1>4. IsMap(mem) BY DEF IInv, TypeOK
<1> HIDE DEF n, srcs
<1>5. ASSUME NEW m, IsMap(m), NEW x \in DOMAIN m PROVE m[x].seq \in Nat
  <2>1. m[x] \in Entry BY <1>5 DEF IsMap
  <2> QED BY <2>1 DEF Entry
<1>6. \A i \in 1..n + 1 : k \in DOMAIN srcs[i] => srcs[i][k].seq \in Nat
  <2> TAKE i \in 1..n + 1
  <2>1. CASE i = 1 BY <1>1, <1>4, <1>5, <2>1
  <2>2. ASSUME NEW j \in 1..n, i = j + 1 PROVE k \in DOMAIN srcs[i] => srcs[i][k].seq \in Nat
    BY <1>1, <1>3, <1>5, <2>2
  <2> QED BY <1>1, <2>1, <2>2
<1>7. Sound(tables) BY SoundTables
<1>8. CASE k \in DOMAIN mem
  <2>1. ASSUME NEW j \in 1..n + 1, k \in DOMAIN srcs[j], j # 1
        PROVE  srcs[j][k].seq < srcs[1][k].seq
    <3>1. PICK i \in 1..n : j = i + 1 BY <1>1, <2>1
    <3>2. srcs[j] = tables[i].entries /\ srcs[1] = mem BY <1>1, <3>1
    <3>3. tables[i].entries[k].seq < mem[k].seq BY <1>8, <2>1, <3>2 DEF Ordered, n
    <3> QED BY <3>2, <3>3
  <2>2. 1 \in 1..n + 1 /\ n + 1 \in Nat BY <1>1
  <2>3. k \in DOMAIN srcs[1] BY <1>1, <1>8
  <2>4. k \in DOMAIN Merge(srcs) /\ Merge(srcs)[k] = srcs[1][k]
    BY <1>1, <1>6, <2>1, <2>2, <2>3, NewestIs
  <2>5. Get(k) = mem[k].value BY <1>8, LookupMem DEF Get
  <2> QED BY <1>1, <1>2, <2>4, <2>5
<1>9. ASSUME k \notin DOMAIN mem, NEW i \in 1..n, LastHolding(tables, k, i)
      PROVE  Scan(k) = Get(k)
  <2>1. i + 1 \in 1..n + 1 /\ srcs[i + 1] = tables[i].entries /\ n + 1 \in Nat BY <1>1
  <2>2. k \in DOMAIN srcs[i + 1] BY <1>9, <2>1 DEF LastHolding
  <2>3. ASSUME NEW j \in 1..n + 1, k \in DOMAIN srcs[j], j # i + 1
        PROVE  srcs[j][k].seq < srcs[i + 1][k].seq
    <3>1. j # 1 BY <1>1, <1>9, <2>3
    <3>2. PICK l \in 1..n : j = l + 1 BY <1>1, <2>3, <3>1
    <3>3. srcs[j] = tables[l].entries /\ l # i BY <1>1, <2>3, <3>2
    <3>4. tables[l].entries[k].seq < tables[i].entries[k].seq
      BY <1>9, <2>3, <3>3, LastIsNewest DEF n
    <3> QED BY <2>1, <3>3, <3>4
  <2>4. k \in DOMAIN Merge(srcs) /\ Merge(srcs)[k] = srcs[i + 1][k]
    <3> DEFINE a == i + 1
               l == n + 1
    <3>1. /\ l \in Nat /\ a \in 1..l /\ Len(srcs) = l /\ k \in DOMAIN srcs[a]
          /\ \A j \in 1..l : k \in DOMAIN srcs[j] => srcs[j][k].seq \in Nat
          /\ \A j \in 1..l : k \in DOMAIN srcs[j] /\ j # a => srcs[j][k].seq < srcs[a][k].seq
      BY <1>1, <1>6, <2>1, <2>2, <2>3
    <3> HIDE DEF a, l
    <3>2. k \in DOMAIN Merge(srcs) /\ Merge(srcs)[k] = srcs[a][k] BY <3>1, NewestIs
    <3> QED BY <3>2 DEF a
  <2>5. Lookup(mem, tables, k) = tables[i].entries[k].value
    BY <1>1, <1>7, <1>9, LookupLast DEF n
  <2> QED BY <1>2, <2>1, <2>4, <2>5 DEF Get
<1>10. CASE k \notin DOMAIN mem /\ Absent(tables, k)
  <2>1. \A j \in 1..n + 1 : k \notin DOMAIN srcs[j]
    <3> TAKE j \in 1..n + 1
    <3>1. CASE j = 1 BY <1>1, <1>10, <3>1
    <3>2. ASSUME NEW l \in 1..n, j = l + 1 PROVE k \notin DOMAIN srcs[j]
      BY <1>1, <1>10, <3>2 DEF Absent, n
    <3> QED BY <1>1, <3>1, <3>2
  <2>2. k \notin DOMAIN Merge(srcs) BY <1>1, <2>1, MergeDomain
  <2>3. Get(k) = Nil BY <1>10, LookupNone DEF Get
  <2> QED BY <1>2, <2>2, <2>3
<1> QED BY <1>1, <1>8, <1>9, <1>10, HeldOrAbsent DEF n

\* The bounds of a table are keys.
LEMMA BoundTypes ==
  ASSUME IInv, status = "open"
  PROVE  \A i \in 1..Len(tables) : tables[i].minKey \in Nat /\ tables[i].maxKey \in Nat
<1> DEFINE n == Len(manifest.tables)
<1>1. n \in Nat /\ \A i \in 1..n : manifest.tables[i] \in Rows BY DEF IInv, TypeOK
<1>2. tables = [i \in 1..n |-> TableHandle(manifest.tables[i])]
  BY DEF IInv, HandlesMatchManifest, OpenTables
<1> HIDE DEF n
<1>3. Len(tables) = n BY <1>1, <1>2
<1>4. \A i \in 1..n : /\ tables[i].minKey = manifest.tables[i].minKey
                      /\ tables[i].maxKey = manifest.tables[i].maxKey
  BY <1>2 DEF TableHandle
<1>5. ASSUME NEW row \in Rows PROVE row.minKey \in Nat /\ row.maxKey \in Nat
  <2>1. Keys \subseteq Nat OBVIOUS
  <2> HIDE DEF Keys
  <2> QED BY <2>1 DEF Rows
<1> QED BY <1>1, <1>3, <1>4, <1>5

\* The traced Get asks the tables newest first, and stops at the last that holds the key.
LEMMA TraceIsGet ==
  ASSUME IInv, status = "open", NEW k \in Keys
  PROVE  /\ ExplainGet(k).value = Get(k)
         /\ \A x \in DOMAIN ExplainGet(k).asked :
              k \in DOMAIN ExplainGet(k).asked[x].table.entries
              => ExplainGet(k).asked[x].outcome = "hit"
<1> DEFINE n      == Len(tables)
           newest == [x \in 1..n |-> tables[n + 1 - x]]
           hits   == {x \in 1..n : Outcome(newest[x], k) = "hit"}
           last   == IF hits = {} THEN n ELSE Min(hits)
<1>1. n \in Nat /\ Sound(tables) BY TablesBelow, SoundTables
<1>2. ExplainGet(k) = IF k \in DOMAIN mem THEN [value |-> mem[k].value, asked |-> <<>>]
        ELSE [value |-> IF hits = {} THEN Nil ELSE newest[last].entries[k].value,
              asked |-> [x \in 1..last |-> [table |-> newest[x], outcome |-> Outcome(newest[x], k)]]]
  BY DEF ExplainGet
<1>3. hits \subseteq 1..n OBVIOUS
<1>4. hits # {} => Min(hits) \in hits /\ \A y \in hits : Min(hits) <= y
  <2> SUFFICES ASSUME hits # {} PROVE Min(hits) \in hits /\ \A y \in hits : Min(hits) <= y
    OBVIOUS
  <2>1. hits \subseteq Nat BY <1>1
  <2> HIDE DEF hits
  <2> QED BY <2>1, MinBounds
<1>5. last \in Nat /\ last <= n
  <2>1. CASE hits = {}
    <3> HIDE DEF n, hits
    <3> QED BY <1>1, <2>1
  <2>2. CASE hits # {}
    <3>1. Min(hits) \in 1..n BY <1>3, <1>4, <2>2
    <3> HIDE DEF hits, n
    <3> QED BY <1>1, <2>2, <3>1
  <2> QED BY <2>1, <2>2
<1>6. \A x \in 1..n : n + 1 - x \in 1..n /\ newest[x] = tables[n + 1 - x] /\ n + 1 - (n + 1 - x) = x
  BY <1>1
<1>7. \A x \in 1..n : k \in DOMAIN newest[x].entries <=> Outcome(newest[x], k) = "hit"
  <2> TAKE x \in 1..n
  <2> DEFINE th == newest[x]
  <2>1. k \in DOMAIN th.entries => MayHold(th, k) BY <1>1, <1>6 DEF Sound
  <2> HIDE DEF th
  <2>2. k \in DOMAIN th.entries => ~(k < th.minKey) /\ ~(k > th.maxKey) /\ k \in th.bloom
    <3> SUFFICES ASSUME k \in DOMAIN th.entries
                 PROVE  ~(k < th.minKey) /\ ~(k > th.maxKey) /\ k \in th.bloom
      OBVIOUS
    <3>1. th.minKey \in Nat /\ th.maxKey \in Nat /\ k \in Nat BY <1>6, BoundTypes DEF th
    <3> QED BY <2>1, <3>1 DEF MayHold
  <2> QED BY <2>2 DEF Outcome, th
<1> HIDE DEF hits, newest, last
<1>8. CASE k \in DOMAIN mem
  <2>1. Get(k) = mem[k].value BY <1>8, LookupMem DEF Get
  <2>2. ExplainGet(k) = [value |-> mem[k].value, asked |-> <<>>] BY <1>2, <1>8
  <2>3. DOMAIN ExplainGet(k).asked = {} BY <2>2
  <2> QED BY <2>1, <2>2, <2>3
<1>9. CASE k \notin DOMAIN mem
  <2>1. /\ ExplainGet(k).value = IF hits = {} THEN Nil ELSE newest[last].entries[k].value
        /\ ExplainGet(k).asked =
             [x \in 1..last |-> [table |-> newest[x], outcome |-> Outcome(newest[x], k)]]
    BY <1>2, <1>9
  <2>2. ExplainGet(k).value = Get(k)
    <3>1. CASE hits = {}
      <4>1. ASSUME NEW i \in 1..n, k \in DOMAIN tables[i].entries PROVE FALSE
        <5>1. n + 1 - i \in 1..n /\ newest[n + 1 - i] = tables[i] BY <1>1, <1>6
        <5>2. n + 1 - i \in hits BY <1>7, <4>1, <5>1 DEF hits
        <5> QED BY <3>1, <5>2
      <4>2. Absent(tables, k) BY <4>1 DEF Absent
      <4> QED BY <1>9, <2>1, <3>1, <4>2, LookupNone DEF Get
    <3>2. CASE hits # {}
      <4> DEFINE i == n + 1 - last
      <4>1. last \in hits /\ \A y \in hits : last <= y BY <1>4, <3>2 DEF last
      <4>2. last \in 1..n BY <1>3, <4>1
      <4>3. i \in 1..n /\ newest[last] = tables[i] BY <1>1, <1>6, <4>2
      <4>4. k \in DOMAIN tables[i].entries BY <1>7, <4>1, <4>2, <4>3 DEF hits
      <4>5. ASSUME NEW j \in i + 1..n, k \in DOMAIN tables[j].entries PROVE FALSE
        <5>1. j \in 1..n /\ n + 1 - j \in 1..n /\ n + 1 - j < last BY <1>1, <4>2, <4>3
        <5>2. newest[n + 1 - j] = tables[j] BY <1>1, <1>6, <5>1
        <5>3. n + 1 - j \in hits BY <1>7, <4>5, <5>1, <5>2 DEF hits
        <5>4. last <= n + 1 - j BY <4>1, <5>3
        <5> HIDE DEF n, i
        <5> QED BY <1>1, <4>2, <5>1, <5>4
      <4> HIDE DEF i
      <4>6. LastHolding(tables, k, i) BY <4>3, <4>4, <4>5 DEF LastHolding, n
      <4>7. Lookup(mem, tables, k) = tables[i].entries[k].value
        BY <1>1, <1>9, <4>6, LookupLast DEF n
      <4> QED BY <2>1, <3>2, <4>3, <4>7 DEF Get
    <3> QED BY <3>1, <3>2
  <2>3. ASSUME NEW x \in DOMAIN ExplainGet(k).asked,
               k \in DOMAIN ExplainGet(k).asked[x].table.entries
        PROVE  ExplainGet(k).asked[x].outcome = "hit"
    <3>1. x \in 1..last /\ x \in 1..n BY <1>1, <1>5, <2>1, <2>3
    <3>2. ExplainGet(k).asked[x] = [table |-> newest[x], outcome |-> Outcome(newest[x], k)]
      BY <2>1, <3>1
    <3> QED BY <1>7, <2>3, <3>1, <3>2
  <2> QED BY <2>2, <2>3
<1> QED BY <1>8, <1>9

----------------------------------------------------------------------------
(* The theorems about reads                                                *)

\* What the log tells of the MemTable, and the tables of each other, through every
\* operation, fault and crash.
THEOREM ReadsInvariant == Spec => []ReadsInv
<1>1. IInv /\ ReadsInv /\ [Next]_vars => (IInv /\ ReadsInv)' BY NextOK, ReadsKept
<1>2. Init => IInv /\ ReadsInv BY InitOK, ReadsInit
<1> QED BY <1>1, <1>2, PTL DEF Spec

\* Within the first life of an engine.
THEOREM ScanMatchesGetAlways == Spec => [](InOrder => ScanMatchesGet)
<1>1. ASSUME IInv, ReadsInv, InOrder PROVE ScanMatchesGet
  <2> SUFFICES ASSUME Unlocked, NEW k \in Keys
               PROVE  /\ Scan(k) = Get(k) /\ ExplainGet(k).value = Get(k)
                      /\ \A n \in DOMAIN ExplainGet(k).asked :
                           k \in DOMAIN ExplainGet(k).asked[n].table.entries
                           => ExplainGet(k).asked[n].outcome = "hit"
    BY DEF ScanMatchesGet
  <2>1. status = "open" /\ Ordered BY <1>1 DEF Unlocked, ReadsInv
  <2> QED BY <1>1, <2>1, ScanIsGet, TraceIsGet
<1>2. IInv /\ ReadsInv => (InOrder => ScanMatchesGet) BY <1>1
<1> QED BY <1>2, InductiveInvariant, ReadsInvariant, PTL

\* By the bounds of an engine that is opened once, or never compacted.
LEMMA CalmNext ==
  ASSUME MaxOpens <= 1 \/ MaxCompactions = 0, IInv', ReadsInv'
  PROVE  Calm'
<1>1. used' \in Usage BY DEF IInv, TypeOK
<1> QED BY <1>1 DEF ReadsInv, History, Calm, InOrder, Usage

\* No step of flush or compact.
THEOREM MaintenanceKeepsReadsAlways ==
  ASSUME MaxOpens <= 1 \/ MaxCompactions = 0
  PROVE  Spec => MaintenanceKeepsReads
<1>1. ASSUME IInv, ReadsInv, [Next]_vars, status = "open", status' = "open", pc # pc', NEW k \in Keys
      PROVE  Get(k)' = Get(k)
  <2>1. IInv' /\ ReadsInv' BY <1>1, NextOK, ReadsKept
  <2>2. Calm' BY <2>1, CalmNext
  <2>3. ~UNCHANGED vars /\ ~Open /\ ~Loses
    BY <1>1 DEF vars, memVars, Open, Loses, LoseMemory
  <2>4. ASSUME NEW x \in Keys, NEW v \in Datum PROVE ~Write(x, v) BY <1>1 DEF Write
  <2>5. ASSUME NEW x \in Keys, NEW v \in Datum, NEW left \in {"nothing", "torn", "whole"}
        PROVE  ~Tries(x, v, left)
    BY <1>1 DEF Tries, WriteFails, CrashInWrite, LoseMemory
  <2>6. Unseen \/ FlushCommit \/ FlushRotate \/ CompactCommit \/ CompactToNothing
    BY <1>1, <2>3, <2>4, <2>5, StepCases
  <2>7. View(k)' = View(k) BY <1>1, <2>1, <2>2, <2>6, ViewKept
  <2> QED BY <1>1, <2>1, <2>7, ViewIs, ViewIsNext
<1>2. IInv /\ ReadsInv /\ [Next]_vars =>
        [status = "open" /\ status' = "open" /\ pc # pc'
           => \A k \in Keys : Get(k)' = Get(k)]_vars
  BY <1>1
<1> QED BY <1>2, InductiveInvariant, ReadsInvariant, PTL DEF Spec, MaintenanceKeepsReads

\* A torn frame at the end of the log.
THEOREM LossOnlyWhenBuriedAlways ==
  ASSUME MaxOpens <= 1 \/ MaxCompactions = 0
  PROVE  Spec => LossOnlyWhenBuried
<1>1. IInv /\ ReadsInv /\ [Next]_vars => [Durable /\ ~Durable' => Buried(wal')]_vars
  <2> SUFFICES ASSUME IInv, ReadsInv, [Next]_vars, Durable, ~Buried(wal') PROVE Durable'
    OBVIOUS
  <2>1. IInv' /\ ReadsInv' BY NextOK, ReadsKept
  <2>2. Calm' BY <2>1, CalmNext
  <2> QED BY <2>1, <2>2, DurableStep
<1> QED BY <1>1, InductiveInvariant, ReadsInvariant, PTL DEF Spec, LossOnlyWhenBuried

\* As long as no partial frame was left in the log.
THEOREM DurableAlways == Spec => [](Calm /\ used.torn = 0 => Durable)
<1> DEFINE P == Calm /\ used.torn = 0 => Durable
<1>1. Init => P BY ViewInit DEF Durable, Init
<1>2. IInv /\ ReadsInv /\ P /\ [Next]_vars => P'
  <2> SUFFICES ASSUME IInv, ReadsInv, P, [Next]_vars, Calm', used'.torn = 0 PROVE Durable'
    OBVIOUS
  <2>1. IInv' /\ ReadsInv' BY NextOK, ReadsKept
  <2>2. Calm /\ used.torn = 0 BY CalmBefore, Counting
  <2>3. \A i \in 1..Len(wal') : ~wal'[i].torn BY <2>1 DEF ReadsInv, History
  <2>4. ~Buried(wal') BY <2>3 DEF Buried
  <2> QED BY <2>1, <2>2, <2>4, DurableStep
<1> HIDE DEF P
<1>3. Spec => []P BY <1>1, <1>2, InductiveInvariant, ReadsInvariant, PTL DEF Spec
<1> QED BY <1>3 DEF P

----------------------------------------------------------------------------
(* The engine is a durable dictionary                                      *)

\* The answers are values.
LEMMA ViewType ==
  ASSUME IInv, NEW k
  PROVE  View(k) \in Datum
<1>1. Sound(OpenTables) /\ Len(OpenTables) \in Nat /\ TablesOK(OpenTables) BY SoundTables
<1>2. CASE status = "open"
  <2>1. tables = OpenTables /\ IsMap(mem) BY <1>2, SoundTables DEF IInv, TypeOK
  <2> QED BY <1>1, <1>2, <2>1, LookupType, ViewIs DEF Get
<1>3. CASE status # "open"
  <2>1. IsMap(ReplayMem(wal)) BY ReplayOK
  <2> QED BY <1>1, <1>3, <2>1, LookupType, ViewIs
<1> QED BY <1>2, <1>3

\* Every step of the engine is a step of the dictionary, or changes nothing it shows.
LEMMA StoreStep ==
  ASSUME IInv, IInv', ReadsInv, [Next]_vars, Calm', ~Buried(wal')
  PROVE  [Store!KVNext]_(Store!storeVars)
<1> DEFINE store == [k \in Keys |-> View(k)]
<1>1. Calm => Logged BY DEF ReadsInv
<1>2. unsure \in [Keys -> SUBSET Datum] /\ acked \in [Keys -> Datum] BY DEF IInv, TypeOK
<1>3. store' = [k \in Keys |-> View(k)'] OBVIOUS
<1>4. ASSUME \A k \in Keys : View(k)' = View(k) PROVE store' = store BY <1>3, <1>4
<1>5. CASE \/ UNCHANGED vars \/ Open \/ Unseen
           \/ FlushCommit \/ FlushRotate \/ CompactCommit \/ CompactToNothing
  <2>1. acked' = acked /\ \A x : View(x)' = View(x) BY <1>5, ViewKept
  <2>2. unsure' = unsure
    BY <1>5 DEF vars, Open, Unseen, FlushCommit, FlushRotate, CompactCommit, CompactToNothing
  <2> QED BY <1>4, <2>1, <2>2 DEF Store!storeVars
<1>6. ASSUME NEW k \in Keys, NEW v \in Datum, Write(k, v) PROVE Store!Acknowledge(k, v)
  <2>1. acked' = [acked EXCEPT ![k] = v] /\ unsure' = [unsure EXCEPT ![k] = {}]
    BY <1>6 DEF Write
  <2>2. View(k)' = v /\ \A x : x # k => View(x)' = View(x) BY <1>1, <1>6, ViewWritten
  <2>3. store' = [store EXCEPT ![k] = v] BY <1>3, <2>2
  <2> QED BY <2>1, <2>3 DEF Store!Acknowledge
<1>7. ASSUME acked' = acked, \A x \in Keys : View(x)' \in {View(x)} \cup unsure'[x]
      PROVE  Store!Settle(unsure')
  <2>1. unsure' \in [Keys -> SUBSET Datum] BY DEF IInv, TypeOK
  <2>2. \A x \in Keys : View(x)' \in Datum BY <1>7, <2>1, ViewType
  <2> QED BY <1>3, <1>7, <2>2 DEF Store!Settle
<1>8. ASSUME Loses PROVE Store!Stop
  <2>1. acked' = acked /\ unsure' = unsure BY <1>8 DEF Loses
  <2>2. \A x \in Keys : View(x)' \in {View(x)} \cup unsure'[x] BY <1>1, <1>8, ViewLost
  <2>3. Store!Settle(unsure') BY <1>7, <2>1, <2>2
  <2> QED BY <2>1, <2>3 DEF Store!Stop
<1>9. ASSUME NEW k \in Keys, NEW v \in Datum, NEW left \in {"nothing", "torn", "whole"},
             WriteFails(k, v, left)
      PROVE  Store!Refuse(k, v) \/ UNCHANGED Store!storeVars
  <2>1. acked' = acked /\ \A x : View(x)' = View(x) BY <1>9, ViewKept
  <2>2. store' = store BY <1>4, <2>1
  <2>3. unsure' = IF left = "whole" THEN [unsure EXCEPT ![k] = @ \cup {v}] ELSE unsure
    BY <1>9 DEF WriteFails, MayHappen
  <2> QED BY <2>1, <2>2, <2>3 DEF Store!Refuse, Store!storeVars
<1>10. ASSUME NEW k \in Keys, NEW v \in Datum, NEW left \in {"nothing", "torn", "whole"},
              CrashInWrite(k, v, left)
       PROVE  Store!StopInWrite(k, v) \/ Store!Stop
  <2>1. acked' = acked BY <1>10 DEF CrashInWrite
  <2>2. \A x \in Keys : View(x)' \in {View(x)} \cup unsure'[x] BY <1>1, <1>10, ViewLost
  <2>3. Store!Settle(unsure') BY <1>7, <2>1, <2>2
  <2>4. unsure' = IF left = "whole" THEN [unsure EXCEPT ![k] = @ \cup {v}] ELSE unsure
    BY <1>10 DEF CrashInWrite, MayHappen
  <2> QED BY <2>1, <2>3, <2>4 DEF Store!StopInWrite, Store!Stop
<1> QED
  BY <1>5, <1>6, <1>8, <1>9, <1>10, StepCases DEF Store!KVNext, Tries

\* Nothing was written yet.
LEMMA StoreInit ==
  ASSUME Init
  PROVE  Store!KVInit
<1>1. \A k \in Keys : View(k) = Nil BY ViewInit
<1>2. acked = [k \in Keys |-> Nil] /\ unsure = [k \in Keys |-> {}] BY DEF Init
<1> QED BY <1>1, <1>2 DEF Store!KVInit

\* Where no partial frame is left, none buries another.
LEMMA NeverBuriedNext ==
  ASSUME MaxTorn = 0, IInv', ReadsInv'
  PROVE  ~Buried(wal')
<1>1. used' \in Usage BY DEF IInv, TypeOK
<1>2. used'.torn = 0 BY <1>1 DEF ReadsInv, History, Usage
<1>3. \A i \in 1..Len(wal') : ~wal'[i].torn BY <1>2 DEF ReadsInv, History
<1> QED BY <1>3 DEF Buried

\* The engine implements KVStore.
THEOREM ImplementsDictionary ==
  ASSUME MaxOpens <= 1 \/ MaxCompactions = 0, MaxTorn = 0
  PROVE  Spec => Implements
<1>1. Init => Store!KVInit BY StoreInit
<1>2. IInv /\ ReadsInv /\ [Next]_vars => [Store!KVNext]_(Store!storeVars)
  <2> SUFFICES ASSUME IInv, ReadsInv, [Next]_vars PROVE [Store!KVNext]_(Store!storeVars)
    OBVIOUS
  <2>1. IInv' /\ ReadsInv' BY NextOK, ReadsKept
  <2>2. Calm' /\ ~Buried(wal') BY <2>1, CalmNext, NeverBuriedNext
  <2> QED BY <2>1, <2>2, StoreStep
<1> QED
  BY <1>1, <1>2, InductiveInvariant, ReadsInvariant, PTL DEF Spec, Implements, Store!KVSpec
=============================================================================
