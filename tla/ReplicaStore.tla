---------------------------- MODULE ReplicaStore ----------------------------
(***************************************************************************)
(* internal/replica: one leader and its followers, each with an engine of  *)
(* its own, in one process.  A write is logged, given to the leader's      *)
(* engine and committed by the file COMMIT; the followers are given        *)
(* committed operations by ReplicateOnce and ReplicateAll.                 *)
(*                                                                         *)
(* Each operation holds s.mu, so it is one action, and it may stop after   *)
(* any of its steps.  A process crash is such a stop followed by Crash.    *)
(*                                                                         *)
(* An engine is the pair of what it answers ("live") and what it would     *)
(* answer after a restart ("kept"): they differ by writes that failed and  *)
(* yet left a whole frame in the engine's log (StorageEngine).             *)
(***************************************************************************)
EXTENDS Integers, Sequences, FiniteSetsExt

CONSTANTS
  Keys, Values, Nil,   \* keys, values of Put, "no value"
  ReplicaCount,        \* opts.ReplicaCount
  Lags,                \* arguments of SetFollowerLag
  MaxLog,              \* bound: logged operations
  MaxOpens,            \* bound: calls of Open
  MaxFaults            \* bound: steps of the operations that fail

ASSUME ReplicaAssumption ==
  /\ ReplicaCount \in Nat \ {0}
  /\ Lags \subseteq Nat /\ {MaxLog, MaxOpens, MaxFaults} \subseteq Nat
  /\ Nil \notin Values

VARIABLES
  leader,       \* disk: leader_id of REPLICATION.json, or -1 without the file
  log,          \* log.dat and its cache: the operations; entry i has index i
  logBroken,    \* disk: log.dat holds part of a record or of the header
  commitFile,   \* disk: COMMIT, 0 without the file
  appliedFile,  \* disk: APPLIED of each replica, 0 without the file
  kept,         \* disk: what each engine answers once reopened
  live,         \* what each engine answers
  status,       \* "closed", "open", or "replicating": inside ReplicateAll
  commitIndex,  \* s.commitIndex
  applied,      \* appliedIndex of each replica
  paused,       \* paused of each replica
  lag,          \* maxApplyPerCall of each replica
  acked,        \* history: indexes returned by Put and Delete
  failed,       \* history: logged operations whose Put or Delete failed
  reached,      \* history: greatest index each follower's engine was given
  used          \* how much of each bound is used up

diskVars    == <<leader, log, logBroken, commitFile, appliedFile, kept>>
memoryVars  == <<live, status, commitIndex, applied, paused, lag>>
historyVars == <<acked, failed, reached>>
vars        == <<diskVars, memoryVars, historyVars, used>>

Replicas  == 0..(ReplicaCount - 1)
Followers == Replicas \ {leader}
Operation == [key : Keys, value : Values \cup {Nil}]

Spend(bound, max) == used[bound] < max /\ used' = [used EXCEPT ![bound] = @ + 1]
Fault == Spend("faults", MaxFaults)

----------------------------------------------------------------------------
(* Logged operations and engines.                                          *)

\* Which of the operations first..last of a log are on k.
On(ops, k, first, last) == {i \in first..last : ops[i].key = k}

\* An engine's answers after operations first..last of a log.
Apply(ops, data, first, last) ==
  [k \in Keys |-> IF On(ops, k, first, last) = {} THEN data[k]
                  ELSE ops[Max(On(ops, k, first, last))].value]

Empty == [k \in Keys |-> Nil]

\* What a replica that has applied exactly the first n operations answers.
StateAt(n) == Apply(log, Empty, 1, n)

\* eng.Put and eng.Delete.
Set(data, op) == [data EXCEPT ![op.key] = op.value]

\* A write that fails may still be found by the next Open of that engine.
MayKeep(data, op) == {data, Set(data, op)}

----------------------------------------------------------------------------
(* Open and Close.                                                         *)

Closed ==
  /\ status' = "closed" /\ commitIndex' = 0
  /\ live' = [r \in Replicas |-> Empty]
  /\ applied' = [r \in Replicas |-> 0]
  /\ paused' = [r \in Replicas |-> FALSE]
  /\ lag' = [r \in Replicas |-> 0]

\* The manifest is written once, and an existing one is kept: another leader
\* than the manifest's is ErrReplicaMismatch, a negative one takes any.
Manifest(id) ==
  \/ leader = -1 /\ id \in Replicas /\ leader' = id
  \/ leader # -1 /\ id \in {-1, leader} /\ leader' = leader

\* Faulty variant: all that is logged is taken for committed.
LastLogged == Len(log)

\* loadCommitIndex.
LoadCommitIndex == commitFile

\* loadAppliedIndex, of each replica.
LoadAppliedIndex == appliedFile

\* Header and records of log.dat are whole.
LogReadable == ~logBroken

\* openLog reads log.dat to its end and refuses a partial record; the engines
\* replay their own logs.
Open(id) ==
  /\ status = "closed" /\ Spend("opens", MaxOpens)
  /\ LogReadable
  /\ Manifest(id)
  /\ status' = "open"
  /\ live' = kept
  /\ applied' = LoadAppliedIndex
  /\ commitIndex' = LoadCommitIndex
  /\ UNCHANGED <<log, logBroken, commitFile, appliedFile, kept, paused, lag, historyVars>>

\* Open stops after it wrote the manifest: a header of log.dat cut short can
\* never be read.
OpenStops(id) ==
  /\ status = "closed" /\ leader = -1 /\ Fault
  /\ Manifest(id)
  /\ logBroken' \in BOOLEAN
  /\ UNCHANGED <<log, commitFile, appliedFile, kept, memoryVars, historyVars>>

Close ==
  /\ status = "open" /\ Closed
  /\ UNCHANGED <<diskVars, historyVars, used>>

\* The process dies inside ReplicateAll, which Close would wait for.
Crash ==
  /\ status = "replicating" /\ Closed
  /\ UNCHANGED <<diskVars, historyVars, used>>

----------------------------------------------------------------------------
(* Put and Delete: log, leader's engine, COMMIT, memory.                   *)

CanWrite == status = "open" /\ Len(log) < MaxLog

NextIndex == Len(log) + 1

LogAppend(op) == log' = Append(log, op)

\* Faulty variant: deleting a key the leader does not have writes nothing.
LeaderWritesIfPresent(op) ==
  IF op.value = Nil /\ live[leader][op.key] = Nil THEN UNCHANGED <<live, kept>>
  ELSE /\ live' = [live EXCEPT ![leader] = Set(@, op)]
       /\ kept' = [kept EXCEPT ![leader] = Set(@, op)]

LeaderWrites(op) ==
  /\ live' = [live EXCEPT ![leader] = Set(@, op)]
  /\ kept' = [kept EXCEPT ![leader] = Set(@, op)]

\* log.append fails: part of a record may stay in front of later ones.
LogAppendFails ==
  /\ CanWrite /\ Fault
  /\ logBroken' \in {logBroken, TRUE}
  /\ UNCHANGED <<leader, log, commitFile, appliedFile, kept, memoryVars, historyVars>>

\* A failed write leaves COMMIT and s.commitIndex alone.
NotCommitted == UNCHANGED <<commitFile, commitIndex>>

\* leader.eng.Put fails: the record stays in the log.
LeaderFails(op) ==
  /\ CanWrite /\ Fault
  /\ LogAppend(op)
  /\ \E data \in MayKeep(kept[leader], op) : kept' = [kept EXCEPT ![leader] = data]
  /\ NotCommitted
  /\ failed' = failed \cup {NextIndex}
  /\ UNCHANGED <<leader, logBroken, appliedFile, live, status, applied, paused,
                 lag, acked, reached>>

\* saveCommitIndex fails: the leader has the operation.
CommitFails(op) ==
  /\ CanWrite /\ Fault
  /\ LogAppend(op)
  /\ LeaderWrites(op)
  /\ NotCommitted
  /\ failed' = failed \cup {NextIndex}
  /\ UNCHANGED <<leader, logBroken, appliedFile, status, applied, paused, lag,
                 acked, reached>>

\* saveCommitIndex, then s.commitIndex.
Commit == commitFile' = NextIndex /\ commitIndex' = NextIndex

\* saveAppliedIndex is best effort: it may leave the index it found.
SaveApplied(r) ==
  \/ appliedFile' = [appliedFile EXCEPT ![r] = applied'[r]] /\ used' = used
  \/ appliedFile' = appliedFile /\ Fault

Write(op) ==
  /\ CanWrite
  /\ LogAppend(op)
  /\ LeaderWrites(op)
  /\ Commit
  /\ applied' = [applied EXCEPT ![leader] = NextIndex]
  /\ SaveApplied(leader)
  /\ acked' = acked \cup {NextIndex}
  /\ UNCHANGED <<leader, logBroken, status, paused, lag, failed, reached>>

Put(k, v) == Write([key |-> k, value |-> v])
Delete(k) == Write([key |-> k, value |-> Nil])

----------------------------------------------------------------------------
(* ReplicateOnce and ReplicateAll.                                         *)

\* Faulty variant: no limit means no operation.
LagLimit(f) == lag[f]

\* Operations given to a follower by one call; without a lag limit it is 1.
Limit(f) == IF lag[f] > 0 THEN lag[f] ELSE 1

\* How many operations a whole call applies to replica f, 0 for the leader.
Pending(f) ==
  IF f = leader \/ paused[f] \/ applied[f] >= commitIndex THEN 0
  ELSE Min({Limit(f), commitIndex - applied[f]})

\* The followers are served in the order of their IDs, and the first write that
\* fails ends the call: f gets n operations, those after f none.
StoppedAt(f, n) ==
  [r \in Replicas |-> IF r < f THEN Pending(r) ELSE IF r = f THEN n ELSE 0]

Advance(count) ==
  /\ applied' = [r \in Replicas |-> applied[r] + count[r]]
  /\ live' = [r \in Replicas |-> Apply(log, live[r], applied[r] + 1, applied'[r])]

\* Faulty variant: APPLIED is given the commit index.
SaveCommitAsApplied(count) ==
  /\ appliedFile' = [r \in Replicas |-> IF count[r] > 0 THEN commitIndex ELSE appliedFile[r]]
  /\ used' = used

\* APPLIED follows each operation, unless it could not be written.
SaveAllApplied(count) ==
  \/ /\ appliedFile' = [r \in Replicas |-> IF count[r] > 0 THEN applied'[r] ELSE appliedFile[r]]
     /\ used' = used
  \/ /\ Fault
     /\ \E saved \in [Replicas -> 0..Len(log)] :
          /\ appliedFile' = saved
          /\ \A r \in Replicas :
               saved[r] \in {appliedFile[r]} \cup (applied[r] + 1)..applied'[r]

Given(count) == [r \in Replicas |-> Apply(log, kept[r], applied[r] + 1, applied[r] + count[r])]

Reach(last) == reached' = [r \in Replicas |-> Max({reached[r], last[r]})]

\* No engine write fails; an APPLIED may.
Round ==
  LET count == [r \in Replicas |-> Pending(r)]
  IN  /\ Advance(count)
      /\ kept' = Given(count)
      /\ Reach([r \in Replicas |-> IF r = leader THEN 0 ELSE applied'[r]])
      /\ SaveAllApplied(count)

\* An engine write of follower f fails after n operations.
RoundFails ==
  /\ Fault
  /\ \E f \in Followers : \E n \in 0..(Pending(f) - 1) :
       LET count == StoppedAt(f, n)
           next  == applied[f] + n + 1
       IN  /\ Advance(count)
           /\ \E data \in MayKeep(Given(count)[f], log[next]) :
                kept' = [Given(count) EXCEPT ![f] = data]
           /\ Reach([r \in Replicas |->
                       IF r = leader THEN 0
                       ELSE IF r = f THEN next ELSE applied[r] + count[r]])
           /\ appliedFile' = [r \in Replicas |->
                                IF count[r] > 0 THEN applied'[r] ELSE appliedFile[r]]

restVars == <<leader, log, logBroken, commitFile, commitIndex, paused, lag, acked, failed>>

ReplicateOnce ==
  /\ status = "open" /\ UNCHANGED <<restVars, status>>
  /\ Round \/ RoundFails

\* Faulty variant: ReplicateAll goes on while any follower is behind.
Behind == \E f \in Followers : applied[f] < commitIndex

\* replicateOnce would apply something.
Progress == \E f \in Followers : Pending(f) > 0

\* ReplicateAll holds s.mu from its first round to its last: nothing but a crash
\* comes in between.
ReplicateAll ==
  /\ status = "open" /\ status' = "replicating"
  /\ UNCHANGED <<diskVars, live, commitIndex, applied, paused, lag, historyVars, used>>

ReplicateAllRound ==
  /\ status = "replicating" /\ Progress /\ UNCHANGED restVars
  /\ \/ Round /\ status' = status
     \/ RoundFails /\ status' = "open"

ReplicateAllDone ==
  /\ status = "replicating" /\ ~Progress /\ status' = "open"
  /\ UNCHANGED <<diskVars, live, commitIndex, applied, paused, lag, historyVars, used>>

----------------------------------------------------------------------------
(* Simulation controls, flushing and reading.                              *)

SetFollowerPaused(f, p) ==
  /\ status = "open" /\ f \in Followers
  /\ paused' = [paused EXCEPT ![f] = p]
  /\ UNCHANGED <<diskVars, live, status, commitIndex, applied, lag, historyVars, used>>

SetFollowerLag(f, n) ==
  /\ status = "open" /\ f \in Followers
  /\ lag' = [lag EXCEPT ![f] = n]
  /\ UNCHANGED <<diskVars, live, status, commitIndex, applied, paused, historyVars, used>>

\* Engines flush one after the other until one fails.  A flushed engine starts a
\* new log, so that it forgets writes that failed; one with an empty MemTable
\* does nothing.  Compact leaves MemTable and log alone: it changes nothing here.
Flush ==
  /\ status = "open"
  /\ \E flushed \in SUBSET Replicas :
       kept' = [r \in Replicas |-> IF r \in flushed THEN live[r] ELSE kept[r]]
  /\ UNCHANGED <<leader, log, logBroken, commitFile, appliedFile, memoryVars, historyVars, used>>

\* selectReplica: the replicas a read of this mode may be answered by.
Readable(mode) ==
  CASE mode = "leader"   -> {leader}
    [] mode = "follower" -> Followers
    [] mode = "any"      -> Replicas

Get(r, k) == live[r][k]

----------------------------------------------------------------------------
Init ==
  /\ leader = -1 /\ log = <<>> /\ logBroken = FALSE /\ commitFile = 0
  /\ appliedFile = [r \in Replicas |-> 0]
  /\ kept = [r \in Replicas |-> Empty]
  /\ live = [r \in Replicas |-> Empty]
  /\ status = "closed" /\ commitIndex = 0
  /\ applied = [r \in Replicas |-> 0]
  /\ paused = [r \in Replicas |-> FALSE]
  /\ lag = [r \in Replicas |-> 0]
  /\ acked = {} /\ failed = {}
  /\ reached = [r \in Replicas |-> 0]
  /\ used = [opens |-> 0, faults |-> 0]

Next ==
  \/ \E id \in {-1} \cup Replicas : Open(id) \/ OpenStops(id)
  \/ Close \/ Crash
  \/ LogAppendFails
  \/ \E op \in Operation : LeaderFails(op) \/ CommitFails(op)
  \/ \E k \in Keys, v \in Values : Put(k, v)
  \/ \E k \in Keys : Delete(k)
  \/ ReplicateOnce \/ ReplicateAll \/ ReplicateAllRound \/ ReplicateAllDone
  \/ \E f \in Replicas, p \in BOOLEAN : SetFollowerPaused(f, p)
  \/ \E f \in Replicas, n \in Lags : SetFollowerLag(f, n)
  \/ Flush

Spec == Init /\ [][Next]_vars

\* ReplicateAll loops without waiting for anybody.
LiveSpec == Spec /\ WF_vars(ReplicateAllRound) /\ WF_vars(ReplicateAllDone)

----------------------------------------------------------------------------
(* Properties.                                                             *)

Seqs  == 0..Len(log)
Data  == [Keys -> Values \cup {Nil}]
Usage == [{"opens", "faults"} -> Nat]

TypeOK ==
  /\ leader \in {-1} \cup Replicas
  /\ log \in Seq(Operation) /\ logBroken \in BOOLEAN
  /\ commitFile \in Seqs /\ commitIndex \in Seqs
  /\ appliedFile \in [Replicas -> Seqs] /\ applied \in [Replicas -> Seqs]
  /\ reached \in [Replicas -> Seqs]
  /\ kept \in [Replicas -> Data] /\ live \in [Replicas -> Data]
  /\ status \in {"closed", "open", "replicating"}
  /\ paused \in [Replicas -> BOOLEAN] /\ lag \in [Replicas -> Lags \cup {0}]
  /\ acked \subseteq 1..Len(log) /\ failed \subseteq 1..Len(log)
  /\ used \in Usage

\* No follower is ever given an operation that is not committed, and no APPLIED
\* file tells of more than was committed, whatever the log's tail holds.
OnlyCommittedApplied ==
  \A r \in Replicas : appliedFile[r] <= commitFile /\ reached[r] <= commitFile

\* The leader answers each key with its last acknowledged write or one tried
\* since, through restarts and after writes that failed half way.
LeaderServesAcked ==
  status # "closed" =>
    \A k \in Keys, r \in Readable("leader") :
      LET done == {i \in acked : log[i].key = k}
      IN  done # {} =>
            \E i \in Max(done)..Len(log) : log[i].key = k /\ Get(r, k) = log[i].value

\* A follower answers each key as some prefix of the log has it, between what
\* its APPLIED index says and the furthest it ever came: nothing is skipped, and
\* what a restart applies again never goes back behind its index.
FollowerBetween ==
  status # "closed" =>
    \A k \in Keys, r \in Readable("follower") :
      \E n \in applied[r]..reached[r] : Get(r, k) = StateAt(n)[k]

\* When ReplicateAll returns without an error, no follower that is not paused
\* is behind, whatever its lag limit.
AllCaughtUp ==
  [][ReplicateAllDone =>
       \A f \in Followers : paused[f] \/ applied[f] = commitIndex]_vars

\* ReplicateAll returns, whatever followers are paused or limited.
ReplicateAllReturns == status = "replicating" ~> status # "replicating"

----------------------------------------------------------------------------
(* The invariant that makes these inductive.                               *)

Running == status # "closed"

\* The index in memory is that of COMMIT; nothing is applied beyond it, and an
\* APPLIED file is at or behind the index in memory.  Nothing was written before
\* the first Open.
CommitInv ==
  /\ IF Running THEN commitIndex = commitFile /\ leader # -1
     ELSE commitIndex = 0 /\ applied = [r \in Replicas |-> 0]
  /\ \A r \in Replicas : /\ applied[r] <= commitIndex
                         /\ Running => appliedFile[r] <= applied[r]
  /\ leader = -1 => acked = {}

\* One of the operations on k from j on gave the key this value.
Since(k, j, value) == \E i \in j..Len(log) : log[i].key = k /\ log[i].value = value

\* The leader's engine has the last acknowledged write or a later one, now and
\* after a restart.
LeaderInv ==
  \A j \in acked, k \in Keys : log[j].key = k =>
    /\ Since(k, j, kept[leader][k])
    /\ Running => Since(k, j, live[leader][k])

\* Where a follower is, or where Open would start it.
Floor(r) == IF Running THEN applied[r] ELSE appliedFile[r]

\* Every key is as some prefix from there on has it, now and after a restart.
BetweenInv ==
  \A r \in Followers, k \in Keys :
    /\ \E n \in Floor(r)..reached[r] : kept[r][k] = StateAt(n)[k]
    /\ Running => \E n \in Floor(r)..reached[r] : live[r][k] = StateAt(n)[k]

IInv == TypeOK /\ CommitInv /\ OnlyCommittedApplied /\ LeaderInv /\ BetweenInv

----------------------------------------------------------------------------
(* What docs/DESIGN.md says and the code does not keep (README.md).        *)

\* docs/DESIGN.md: a write that returned an error leaves a record that is never
\* given to a follower.
FailedNeverReplicated ==
  \A i \in failed, r \in Replicas : reached[r] < i

\* docs/DESIGN.md: a follower's answers reflect only the operations up to its
\* applied index.
FollowerReadsApplied ==
  status # "closed" =>
    \A r \in Readable("follower") : live[r] = StateAt(applied[r])
=============================================================================
