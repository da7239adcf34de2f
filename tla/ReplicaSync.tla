---------------------------- MODULE ReplicaSync ----------------------------
(***************************************************************************)
(* Pull replication between two nodes (internal/node, internal/replnet).   *)
(*                                                                         *)
(* A write handler of the primary writes its engine, then appends to the   *)
(* journal; handlers run concurrently and nothing orders the two writes of *)
(* one with those of another.  On the follower, SyncFromPrimary (one at a  *)
(* time, by syncInProgress) and POST /replication/apply both hold only the *)
(* shared side of replicationMutationMu, so that they may run together.    *)
(*                                                                         *)
(* The engines are the dictionaries of KVStore, the journal is DurableLog  *)
(* without a baseline: entry i has sequence number i.  A batch of entries  *)
(* is the interval of their numbers.                                       *)
(***************************************************************************)
EXTENDS Integers, Sequences, FiniteSetsExt

CONSTANTS
  Keys, Values, Nil,   \* keys, values of PUT, "no value"
  Writers,             \* concurrent write requests of the primary
  Appliers,            \* concurrent requests of POST /replication/apply
  Sync,                \* the caller of SyncFromPrimary
  BatchLimit,          \* entries in one answer of GET /replication/log
  MaxWrites,           \* bound: PUTs and DELETEs
  MaxExplains,         \* bound: POST /explain/put and /explain/delete
  MaxJournalFaults,    \* bound: journal appends that fail
  MaxFaults,           \* bound: pulls, and follower operations, that fail
  MaxPrimaryCrashes,   \* bound: crashes of the primary
  MaxFollowerCrashes   \* bound: crashes of the follower

ASSUME SyncAssumption ==
  /\ Sync \notin Appliers
  /\ BatchLimit \in Nat \ {0}
  /\ {MaxWrites, MaxExplains, MaxJournalFaults, MaxFaults, MaxPrimaryCrashes,
      MaxFollowerCrashes} \subseteq Nat

VARIABLES
  pEngine,      \* primary: value of each key
  journal,      \* primary: entries of the durable log
  poisoned,     \* primary: the log refuses appends until it is reopened
  writer,       \* primary: write request in flight
  fEngine,      \* follower: value of each key
  lastApplied,  \* follower: s.lastApplied
  cursor,       \* follower disk: last_applied_seq of replication_state.json
  caller,       \* follower: local state of the sync and of each apply
  applied,      \* history: numbers of the entries the follower's engine was given
  mixed,        \* history: two callers have applied entries at the same time
  used          \* how much of each bound is used up

primaryVars  == <<pEngine, journal, poisoned, writer>>
history      == <<applied, mixed>>
followerVars == <<fEngine, lastApplied, cursor, caller, history>>
vars         == <<primaryVars, followerVars, used>>

Datum   == Values \cup {Nil}
Callers == {Sync} \cup Appliers
Seqs    == 0..Len(journal)

IdleWriter == [pc |-> "idle"]
IdleCaller == [pc |-> "idle"]

Spend(bound, max) == used[bound] < max /\ used' = [used EXCEPT ![bound] = @ + 1]
Fault == Spend("faults", MaxFaults)

----------------------------------------------------------------------------
(* The primary's write handlers                                            *)

\* handleKVPut and handleKVDelete: the engine first ...
WriteEngine(w, k, v) ==
  /\ writer[w].pc = "idle" /\ Spend("writes", MaxWrites)
  /\ pEngine' = [pEngine EXCEPT ![k] = v]
  /\ writer' = [writer EXCEPT ![w] = [pc |-> "journal", key |-> k, value |-> v]]
  /\ UNCHANGED <<journal, poisoned, followerVars>>

EndWrite(w) == writer' = [writer EXCEPT ![w] = IdleWriter]

\* Faulty variant: only a PUT is journaled.
WriteJournalPutsOnly(w) ==
  /\ writer[w].pc = "journal" /\ ~poisoned
  /\ journal' = IF writer[w].value = Nil THEN journal
                ELSE Append(journal, [key |-> writer[w].key, value |-> writer[w].value])
  /\ EndWrite(w)
  /\ UNCHANGED <<pEngine, poisoned, followerVars, used>>

\* ... then the journal, and the answer to the client.
WriteJournal(w) ==
  /\ writer[w].pc = "journal" /\ ~poisoned
  /\ journal' = Append(journal, [key |-> writer[w].key, value |-> writer[w].value])
  /\ EndWrite(w)
  /\ UNCHANGED <<pEngine, poisoned, followerVars, used>>

\* The error of Append is dropped: the client is told that all went well.
WriteJournalFails(w) ==
  /\ writer[w].pc = "journal"
  /\ \/ poisoned /\ UNCHANGED <<poisoned, used>>
     \/ /\ ~poisoned /\ poisoned' \in BOOLEAN
        /\ Spend("journalFaults", MaxJournalFaults)
  /\ EndWrite(w)
  /\ UNCHANGED <<pEngine, journal, followerVars>>

\* handleExplainPut and handleExplainDelete write the engine only.
ExplainWrite(k, v) ==
  /\ Spend("explains", MaxExplains)
  /\ pEngine' = [pEngine EXCEPT ![k] = v]
  /\ UNCHANGED <<journal, poisoned, writer, followerVars>>

PrimaryCrash ==
  /\ Spend("primaryCrashes", MaxPrimaryCrashes)
  /\ writer' = [w \in Writers |-> IdleWriter]
  /\ poisoned' = FALSE
  /\ UNCHANGED <<pEngine, journal, followerVars>>

----------------------------------------------------------------------------
(* The follower: pull, apply entry by entry, persist the cursor.           *)

Goto(c, state) == caller' = [caller EXCEPT ![c] = state]

\* SyncFromPrimary reads lastApplied and asks for what comes after it.
SyncBegin ==
  /\ caller[Sync].pc = "idle"
  /\ Goto(Sync, [pc |-> "pulling", after |-> lastApplied])
  /\ UNCHANGED <<primaryVars, fEngine, lastApplied, cursor, history, used>>

\* Faulty variant: the limit counts from the start of the journal.
SyncPulledFromStart ==
  /\ caller[Sync].pc = "pulling"
  /\ LET after == caller[Sync].after
     IN  Goto(Sync, [pc |-> "received", next |-> after + 1,
                     to |-> Min({Len(journal), BatchLimit})])
  /\ UNCHANGED <<primaryVars, fEngine, lastApplied, cursor, history, used>>

\* The primary answers: its journal after the cursor, up to the limit.
SyncPulled ==
  /\ caller[Sync].pc = "pulling"
  /\ LET after == caller[Sync].after
     IN  Goto(Sync, [pc |-> "received", next |-> after + 1,
                     to |-> Min({Len(journal), after + BatchLimit})])
  /\ UNCHANGED <<primaryVars, fEngine, lastApplied, cursor, history, used>>

SyncPullFails ==
  /\ caller[Sync].pc = "pulling" /\ Fault
  /\ Goto(Sync, IdleCaller)
  /\ UNCHANGED <<primaryVars, fEngine, lastApplied, cursor, history>>

\* POST /replication/apply with consecutive entries of the primary's journal.
ApplyRequest(c, first, to) ==
  /\ caller[c].pc = "idle"
  /\ Goto(c, [pc |-> "received", next |-> first, to |-> to])
  /\ UNCHANGED <<primaryVars, fEngine, lastApplied, cursor, history, used>>

\* applyReplicationEntriesLocked reads lastApplied once, before its loop.
ApplyBegin(c) ==
  /\ caller[c].pc = "received"
  /\ Goto(c, [pc |-> "applying", next |-> caller[c].next, to |-> caller[c].to,
              last |-> lastApplied])
  /\ mixed' = (mixed \/ \E d \in Callers \ {c} : caller[d].pc \in {"applying", "advancing"})
  /\ UNCHANGED <<primaryVars, fEngine, lastApplied, cursor, applied, used>>

Applying(c) == caller[c].pc = "applying" /\ caller[c].next <= caller[c].to

ApplySkip(c) ==
  /\ Applying(c) /\ caller[c].next <= caller[c].last
  /\ Goto(c, [caller[c] EXCEPT !.next = @ + 1])
  /\ UNCHANGED <<primaryVars, fEngine, lastApplied, cursor, history, used>>

\* An entry is missing: the loop returns an error and persists nothing.
ApplyGap(c) ==
  /\ Applying(c) /\ caller[c].next > caller[c].last + 1
  /\ Goto(c, IdleCaller)
  /\ UNCHANGED <<primaryVars, fEngine, lastApplied, cursor, history, used>>

\* Faulty variant: a DELETE is taken as applied without being so.
ApplyEntryPutsOnly(c) ==
  LET n == caller[c].next
  IN  /\ Applying(c) /\ n = caller[c].last + 1
      /\ fEngine' = IF journal[n].value = Nil THEN fEngine
                    ELSE [fEngine EXCEPT ![journal[n].key] = journal[n].value]
      /\ applied' = applied \cup {n} /\ mixed' = mixed
      /\ Goto(c, [caller[c] EXCEPT !.pc = "advancing"])
      /\ UNCHANGED <<primaryVars, lastApplied, cursor, used>>

\* The next entry is written to the engine ...
ApplyEntry(c) ==
  LET n == caller[c].next
  IN  /\ Applying(c) /\ n = caller[c].last + 1
      /\ fEngine' = [fEngine EXCEPT ![journal[n].key] = journal[n].value]
      /\ applied' = applied \cup {n} /\ mixed' = mixed
      /\ Goto(c, [caller[c] EXCEPT !.pc = "advancing"])
      /\ UNCHANGED <<primaryVars, lastApplied, cursor, used>>

\* ... and only then stored as the last one applied.
ApplyAdvance(c) ==
  LET n == caller[c].next
  IN  /\ caller[c].pc = "advancing"
      /\ lastApplied' = n
      /\ Goto(c, [caller[c] EXCEPT !.pc = "applying", !.next = n + 1, !.last = n])
      /\ UNCHANGED <<primaryVars, fEngine, cursor, history, used>>

\* Faulty variant: a batch that failed is persisted as if it had been applied.
ApplyFailsPersists(c) ==
  /\ caller[c].pc = "applying" /\ Fault
  /\ cursor' = caller[c].to
  /\ Goto(c, IdleCaller)
  /\ UNCHANGED <<primaryVars, fEngine, lastApplied, history>>

\* The engine refuses the entry, or the cursor cannot be written.
ApplyFails(c) ==
  /\ caller[c].pc = "applying" /\ Fault
  /\ Goto(c, IdleCaller)
  /\ UNCHANGED <<primaryVars, fEngine, lastApplied, cursor, history>>

\* AdvanceTo refuses to go back and leaves an equal cursor alone.
ApplyEnd(c) ==
  /\ caller[c].pc = "applying" /\ caller[c].next > caller[c].to
  /\ cursor' = IF caller[c].last > cursor THEN caller[c].last ELSE cursor
  /\ Goto(c, IdleCaller)
  /\ UNCHANGED <<primaryVars, fEngine, lastApplied, history, used>>

\* A restart reads the cursor back; the engine's own log kept its writes.
FollowerCrash ==
  /\ Spend("followerCrashes", MaxFollowerCrashes)
  /\ lastApplied' = cursor
  /\ caller' = [c \in Callers |-> IdleCaller]
  /\ UNCHANGED <<primaryVars, fEngine, cursor, history>>

----------------------------------------------------------------------------
Init ==
  /\ pEngine = [k \in Keys |-> Nil] /\ journal = <<>> /\ poisoned = FALSE
  /\ writer = [w \in Writers |-> IdleWriter]
  /\ fEngine = [k \in Keys |-> Nil] /\ lastApplied = 0 /\ cursor = 0
  /\ caller = [c \in Callers |-> IdleCaller]
  /\ applied = {} /\ mixed = FALSE
  /\ used = [writes |-> 0, explains |-> 0, journalFaults |-> 0, faults |-> 0,
             primaryCrashes |-> 0, followerCrashes |-> 0]

Primary ==
  \/ \E k \in Keys, v \in Datum :
       ExplainWrite(k, v) \/ \E w \in Writers : WriteEngine(w, k, v)
  \/ \E w \in Writers : WriteJournal(w) \/ WriteJournalFails(w)
  \/ PrimaryCrash

Work(c) == ApplyBegin(c) \/ ApplySkip(c) \/ ApplyEntry(c) \/ ApplyAdvance(c)
           \/ ApplyGap(c) \/ ApplyEnd(c)

Follower ==
  \/ SyncBegin \/ SyncPulled \/ SyncPullFails \/ FollowerCrash
  \/ \E c \in Appliers, first \in Seqs, to \in Seqs : first > 0 /\ ApplyRequest(c, first, to)
  \/ \E c \in Callers : Work(c) \/ ApplyFails(c)

Next == Primary \/ Follower

Spec == Init /\ [][Next]_vars

\* The background worker calls SyncFromPrimary again and again, and the calls
\* that neither fail nor crash come to their end.
LiveSpec ==
  /\ Spec
  /\ WF_vars(SyncBegin) /\ WF_vars(SyncPulled) /\ WF_vars(Work(Sync))

----------------------------------------------------------------------------
(* Properties                                                              *)

Entry == [key : Keys, value : Datum]

WriterState == {IdleWriter} \cup [pc : {"journal"}, key : Keys, value : Datum]

CallerState ==
  {IdleCaller} \cup [pc : {"pulling"}, after : Nat]
  \cup [pc : {"received"}, next : Nat \ {0}, to : Nat]
  \cup [pc : {"applying", "advancing"}, next : Nat \ {0}, to : Nat, last : Nat]

Usage == [{"writes", "explains", "journalFaults", "faults", "primaryCrashes", "followerCrashes"} -> Nat]

\* The types of the variables.
TypeOK ==
  /\ pEngine \in [Keys -> Datum] /\ fEngine \in [Keys -> Datum]
  /\ journal \in Seq(Entry) /\ poisoned \in BOOLEAN
  /\ writer \in [Writers -> WriterState] /\ caller \in [Callers -> CallerState]
  /\ lastApplied \in Seqs /\ cursor \in Seqs /\ applied \subseteq Seqs \ {0}
  /\ mixed \in BOOLEAN /\ used \in Usage

\* The dictionary that the first n entries of a journal make.
Replay(log, n) ==
  [k \in Keys |-> LET writes == {i \in 1..n : log[i].key = k}
                  IN  IF writes = {} THEN Nil ELSE log[Max(writes)].value]

\* A follower at entry n, having gone no further before, holds exactly what
\* the entries up to n make, whatever was retried, cut short by a crash or
\* applied twice: so a cursor, and a lag of 0, mean what they say.  It may be
\* otherwise once a sync and a POST /replication/apply have run at once.
PrefixState ==
  /\ ~mixed /\ \A c \in Callers : caller[c].pc # "advancing"
  /\ lastApplied = Max({0} \cup applied)
  => fEngine = Replay(journal, lastApplied)

\* Neither cursor passes over an entry that the engine was never given.
CursorCovered == 1..lastApplied \subseteq applied /\ 1..cursor \subseteq applied

\* With no write in flight the journal makes the primary's own dictionary, so
\* that a follower that is up to date answers what the primary does; except
\* after a POST /explain, a failed append or a crash of the primary.
MirrorsPrimary ==
  /\ \A w \in Writers : writer[w].pc = "idle"
  /\ used.explains = 0 /\ used.journalFaults = 0 /\ used.primaryCrashes = 0
  => Replay(journal, Len(journal)) = pEngine

\* Every entry of the journal is applied in the end, whatever calls of
\* SyncFromPrimary fail and however often the follower is restarted.
CatchesUp == \A n \in 1..MaxWrites : Len(journal) >= n ~> lastApplied >= n

----------------------------------------------------------------------------
(* The inductive invariant behind these properties                         *)

Active == {c \in Callers : caller[c].pc \in {"applying", "advancing"}}

\* A caller has only entries of the journal, and the engine was given all that
\* the caller takes for applied.
CallerInv ==
  \A c \in Callers :
    /\ caller[c].pc = "pulling" => caller[c].after \in Seqs
    /\ caller[c].pc \notin {"idle", "pulling"} => caller[c].to \in Seqs
    /\ c \in Active => caller[c].last \in Seqs /\ 1..caller[c].last \subseteq applied
    /\ caller[c].pc = "advancing" =>
         caller[c].next = caller[c].last + 1 /\ caller[c].next \in applied

\* The last entry of the present pass over the journal that the engine holds.
Reached ==
  IF \E c \in Callers : caller[c].pc = "advancing" THEN lastApplied + 1 ELSE lastApplied

\* As long as callers take turns: after a restart the engine is ahead of the pass
\* only in the keys that a later entry, applied before, writes again.
EngineInv ==
  ~mixed =>
    /\ cursor <= lastApplied
    /\ \A c, d \in Active : c = d
    /\ \A c \in Active : caller[c].last = lastApplied
    /\ \A k \in Keys : (\A i \in applied : i > Reached => journal[i].key # k)
                       => fEngine[k] = Replay(journal, Reached)[k]

\* With one writer, and nothing that keeps a write from the journal, the primary
\* is ahead of its journal by the write in flight only.
MirrorInv ==
  /\ poisoned => used.journalFaults > 0
  /\ /\ \A v, w \in Writers : v = w
     /\ used.explains = 0 /\ used.journalFaults = 0 /\ used.primaryCrashes = 0
     => /\ \A w \in Writers : writer[w].pc = "journal" => pEngine[writer[w].key] = writer[w].value
        /\ \A k \in Keys :
             (\A w \in Writers : writer[w].pc = "journal" => writer[w].key # k)
             => pEngine[k] = Replay(journal, Len(journal))[k]

IInv == TypeOK /\ CallerInv /\ CursorCovered /\ EngineInv /\ MirrorInv
=============================================================================
