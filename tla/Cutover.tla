------------------------------ MODULE Cutover ------------------------------
(***************************************************************************)
(* Planned failover (internal/node handlers.go, server.go, quiesce.go and  *)
(* the record files of internal/replnet): POST /replication/quiesce fences *)
(* the writes of a primary for ever, POST /replication/promote makes a     *)
(* follower that has caught up the new primary, and a restart works out    *)
(* from the files of the data directory what the node was.                 *)
(*                                                                         *)
(* A write is a number.  A file is None or what it says; each is replaced  *)
(* by a rename, so that a save that fails leaves the old one.  A quiesce   *)
(* record travels from the answer of one node to the request of the other  *)
(* in the hands of an operator ("issued"); that the operator also stops    *)
(* the old primary first is NOT assumed.                                   *)
(***************************************************************************)
EXTENDS Integers, Sequences

CONSTANTS
  Primary, Follower,   \* two nodes, by their configured roles
  QuiesceNodes,        \* the nodes an operator asks to quiesce
  Requests,            \* concurrent write requests
  None,                \* no file, no record
  MaxWrites,           \* bound: writes
  MaxQuiesceIDs,       \* bound: quiesce IDs generated
  MaxJournalFaults,    \* bound: journal appends that fail
  MaxFaults,           \* bound: file operations and pulls that fail
  MaxCrashes           \* bound: crashes, of either node

\* A quiesce record, a promotion record: the ID and the journal's last number.
QRecord == [id : Nat, seq : Nat]

ASSUME CutoverAssumption ==
  /\ Primary # Follower
  /\ QuiesceNodes \subseteq {Primary, Follower}
  /\ None \notin Nat \cup QRecord
  /\ {MaxWrites, MaxQuiesceIDs, MaxJournalFaults, MaxFaults, MaxCrashes} \subseteq Nat

VARIABLES
  disk,      \* files of each node
  journal,   \* entries of each node's replication.journal
  engine,    \* writes that each node's engine holds
  mem,       \* the fields of each node's Server
  quiesce,   \* the quiesce request that holds quiesceMu of each node
  promote,   \* the promote request that holds promoteMu of the follower
  sync,      \* the SyncFromPrimary in progress
  request,   \* write requests past the write gate
  acked,     \* history: writes acknowledged to a client
  issued,    \* history: quiesce records given to an operator
  used       \* how much of each bound is used up

nodeVars == <<disk, journal, engine, mem>>
vars == <<nodeVars, quiesce, promote, sync, request, acked, issued, used>>

Nodes == {Primary, Follower}
Idle  == [pc |-> "idle"]

Spend(bound, max) == used[bound] < max /\ used' = [used EXCEPT ![bound] = @ + 1]
Fault == Spend("faults", MaxFaults)

BaseOf(n)    == IF disk[n].baseline = None THEN 0 ELSE disk[n].baseline
LatestSeq(n) == BaseOf(n) + Len(journal[n])

Serves(n, role) == mem[n].up /\ mem[n].role = role
Writable(n)     == Serves(n, "primary") /\ ~mem[n].gate
Writing(n)      == {r \in Requests : request[r] # Idle /\ request[r].node = n}

----------------------------------------------------------------------------
(* Starting: resolveRuntimeRole, then what Open does for the role.         *)

Promoted(n)   == disk[n].promotion # None
StartRole(n)  == IF n = Primary \/ Promoted(n) THEN "primary" ELSE "follower"

\* The files a node refuses to start with.
StartupOK(n) ==
  IF Promoted(n)
  THEN /\ disk[n].baseline = disk[n].promotion.seq
       /\ disk[n].promotion.seq > 0 => disk[n].cursor = disk[n].promotion.seq
  ELSE StartRole(n) = "primary" /\ disk[n].intent # None /\ disk[n].final # None
         => disk[n].intent = disk[n].final.id

\* Faulty variant: without an intent the final record is not looked at.
StartStateByIntent(n) ==
  IF Promoted(n) \/ StartRole(n) = "follower" \/ disk[n].intent = None THEN "active"
  ELSE IF disk[n].final # None THEN "quiesced" ELSE "fenced"

\* A promotion record is looked at first, and nothing else then.
StartState(n) ==
  IF Promoted(n) \/ StartRole(n) = "follower" THEN "active"
  ELSE IF disk[n].final # None THEN "quiesced"
  ELSE IF disk[n].intent # None THEN "fenced" ELSE "active"

Down == [up |-> FALSE, role |-> "none", gate |-> FALSE, state |-> "active",
         record |-> None, promotion |-> "none", barrier |-> FALSE, lastApplied |-> 0]

Open(n) ==
  /\ ~mem[n].up /\ StartupOK(n)
  /\ mem' = [mem EXCEPT ![n] =
       [up          |-> TRUE,
        role        |-> StartRole(n),
        gate        |-> StartState(n) # "active",
        state       |-> StartState(n),
        record      |-> CASE StartState(n) = "quiesced" -> disk[n].final
                          [] StartState(n) = "fenced"   ->
                               [id |-> disk[n].intent, seq |-> LatestSeq(n)]
                          [] OTHER -> None,
        promotion   |-> IF Promoted(n) THEN "promoted" ELSE "none",
        barrier     |-> FALSE,
        lastApplied |-> IF StartRole(n) = "follower" THEN disk[n].cursor ELSE 0]]
  /\ disk' = IF StartState(n) = "quiesced"
             THEN [disk EXCEPT ![n].intent = None] ELSE disk
  /\ UNCHANGED <<journal, engine, quiesce, promote, sync, request, acked, issued, used>>

Crash(n) ==
  /\ mem[n].up /\ Spend("crashes", MaxCrashes)
  /\ mem' = [mem EXCEPT ![n] = Down]
  /\ quiesce' = [quiesce EXCEPT ![n] = Idle]
  /\ promote' = IF n = Follower THEN Idle ELSE promote
  /\ sync' = IF n = Follower THEN Idle ELSE sync
  /\ request' = [r \in Requests |-> IF r \in Writing(n) THEN Idle ELSE request[r]]
  /\ UNCHANGED <<disk, journal, engine, acked, issued>>

----------------------------------------------------------------------------
(* Writes.  From the gate's Enter to its Exit a request holds the gate.    *)

WriteEngine(r, n) ==
  /\ request[r] = Idle /\ Writable(n) /\ Spend("writes", MaxWrites)
  /\ engine' = [engine EXCEPT ![n] = @ \cup {used'.writes}]
  /\ request' = [request EXCEPT ![r] = [pc |-> "journal", node |-> n, write |-> used'.writes]]
  /\ UNCHANGED <<disk, journal, mem, quiesce, promote, sync, acked, issued>>

\* The client gets the same answer whether the journal took the entry or not.
Answer(r) ==
  /\ acked' = acked \cup {request[r].write}
  /\ request' = [request EXCEPT ![r] = Idle]
  /\ UNCHANGED <<disk, engine, mem, quiesce, promote, sync, issued>>

WriteJournal(r) ==
  /\ request[r] # Idle
  /\ journal' = [journal EXCEPT ![request[r].node] = Append(@, request[r].write)]
  /\ Answer(r) /\ UNCHANGED used

WriteJournalFails(r) ==
  /\ request[r] # Idle /\ Spend("journalFaults", MaxJournalFaults)
  /\ Answer(r) /\ UNCHANGED journal

----------------------------------------------------------------------------
(* handleQuiesce: intent, gate, final record, removal of the intent.       *)

QuiesceGoto(n, state) ==
  /\ quiesce' = [quiesce EXCEPT ![n] = state]
  /\ UNCHANGED <<journal, engine, promote, sync, request, acked>>

\* The intent is saved, or removed, in one step: a rename or an unlink.
SetIntent(n, id) == disk' = [disk EXCEPT ![n].intent = id]

QuiesceMay(n, state) ==
  /\ n \in QuiesceNodes /\ Serves(n, "primary")
  /\ quiesce[n] = Idle /\ mem[n].state = state

\* A new ID; without the intent on disk the request is refused.
QuiesceIntent(n) ==
  /\ QuiesceMay(n, "active") /\ Spend("quiesceIDs", MaxQuiesceIDs)
  /\ SetIntent(n, used'.quiesceIDs)
  /\ QuiesceGoto(n, [pc |-> "intent", id |-> used'.quiesceIDs])
  /\ UNCHANGED <<mem, issued>>

\* Faulty variant: the gate is raised without waiting for those inside.
QuiesceGateAtOnce(n) ==
  /\ quiesce[n].pc = "intent"
  /\ mem' = [mem EXCEPT ![n].gate = TRUE]
  /\ QuiesceGoto(n, [pc |-> "drained",
                     record |-> [id |-> quiesce[n].id, seq |-> LatestSeq(n)]])
  /\ UNCHANGED <<disk, issued, used>>

\* The gate's exclusive lock waits for the writes that hold it.
QuiesceGate(n) ==
  /\ quiesce[n].pc = "intent" /\ Writing(n) = {}
  /\ mem' = [mem EXCEPT ![n].gate = TRUE]
  /\ QuiesceGoto(n, [pc |-> "drained",
                     record |-> [id |-> quiesce[n].id, seq |-> LatestSeq(n)]])
  /\ UNCHANGED <<disk, issued, used>>

QuiesceSave(n) ==
  /\ quiesce[n].pc = "drained"
  /\ disk' = [disk EXCEPT ![n].final = quiesce[n].record]
  /\ QuiesceGoto(n, [quiesce[n] EXCEPT !.pc = "saved"])
  /\ UNCHANGED <<mem, issued, used>>

QuiesceSaveFails(n) ==
  /\ quiesce[n].pc = "drained" /\ Fault
  /\ mem' = [mem EXCEPT ![n].state = "fenced", ![n].record = quiesce[n].record]
  /\ QuiesceGoto(n, Idle)
  /\ UNCHANGED <<disk, issued>>

\* A request that finds the node quiesce_failed_fenced saves the same record.
QuiesceRetry(n) ==
  /\ QuiesceMay(n, "fenced")
  /\ disk' = [disk EXCEPT ![n].final = mem[n].record]
  /\ QuiesceGoto(n, [pc |-> "saved", record |-> mem[n].record])
  /\ UNCHANGED <<mem, issued, used>>

\* Faulty variant: the state of the node stays what it was.
QuiesceEndForgets(n) ==
  /\ quiesce[n].pc = "saved"
  /\ SetIntent(n, None)
  /\ issued' = issued \cup {[node |-> n, record |-> quiesce[n].record]}
  /\ QuiesceGoto(n, Idle)
  /\ UNCHANGED <<mem, used>>

\* The intent may stay behind; the answer carries the record.
QuiesceEnd(n) ==
  /\ quiesce[n].pc = "saved"
  /\ \/ SetIntent(n, None) /\ UNCHANGED used
     \/ disk' = disk /\ Fault
  /\ mem' = [mem EXCEPT ![n].state = "quiesced", ![n].record = quiesce[n].record]
  /\ issued' = issued \cup {[node |-> n, record |-> quiesce[n].record]}
  /\ QuiesceGoto(n, Idle)

\* A quiesced node answers its record again.
QuiesceAgain(n) ==
  /\ QuiesceMay(n, "quiesced")
  /\ issued' = issued \cup {[node |-> n, record |-> mem[n].record]}
  /\ UNCHANGED <<nodeVars, quiesce, promote, sync, request, acked, used>>

----------------------------------------------------------------------------
(* handlePromote, on the follower                                          *)

PromoteGoto(pc) ==
  /\ promote' = IF pc = "idle" THEN Idle ELSE [promote EXCEPT !.pc = pc]
  /\ UNCHANGED <<journal, engine, quiesce, sync, request, acked, issued>>

\* The record is the configured primary's; the barrier goes up.
PromoteBegin ==
  /\ Serves(Follower, "follower") /\ promote = Idle /\ mem[Follower].promotion = "none"
  /\ \E i \in issued : i.node = Primary /\ promote' = [pc |-> "barrier", record |-> i.record]
  /\ mem' = [mem EXCEPT ![Follower].barrier = TRUE, ![Follower].promotion = "promoting"]
  /\ UNCHANGED <<disk, journal, engine, quiesce, sync, request, acked, issued, used>>

HoldsWriteLock == promote.pc \in {"locked", "baselined", "committed"}
HoldsReadLock  == sync.pc \in {"pulling", "applying"}

\* Faulty variant: the cursors may lag.
CaughtUpOrBehind == /\ mem[Follower].lastApplied <= promote.record.seq
                    /\ disk[Follower].cursor <= promote.record.seq

CaughtUp == /\ mem[Follower].lastApplied = promote.record.seq
            /\ disk[Follower].cursor = promote.record.seq

\* replicationMutationMu is taken and the cursors are compared.
PromoteLock ==
  /\ promote.pc = "barrier" /\ ~HoldsReadLock /\ CaughtUp
  /\ PromoteGoto("locked")
  /\ UNCHANGED <<disk, mem, used>>

\* Another baseline would be refused; there is none, all records being the same
\* (OneQuiesceRecord).
BaselineOK == disk[Follower].baseline \in {None, promote.record.seq}

\* Before the commit point a failure makes the node a follower again.
PromoteReverts ==
  /\ \/ promote.pc = "barrier" /\ ~HoldsReadLock /\ ~CaughtUp /\ UNCHANGED used
     \/ promote.pc \in {"locked", "baselined"} /\ Fault
  /\ mem' = [mem EXCEPT ![Follower].barrier = FALSE, ![Follower].promotion = "none"]
  /\ PromoteGoto("idle")
  /\ UNCHANGED disk

\* Faulty variant: the promotion record is saved before the baseline.
PromoteBaselineLater ==
  /\ promote.pc = "locked" /\ BaselineOK
  /\ disk' = [disk EXCEPT ![Follower].promotion = promote.record]
  /\ PromoteGoto("baselined")
  /\ UNCHANGED <<mem, used>>

PromoteBaseline ==
  /\ promote.pc = "locked" /\ BaselineOK
  /\ disk' = [disk EXCEPT ![Follower].baseline = promote.record.seq]
  /\ PromoteGoto("baselined")
  /\ UNCHANGED <<mem, used>>

\* The promotion record is the commit point.
PromoteCommit ==
  /\ promote.pc = "baselined"
  /\ disk' = [disk EXCEPT ![Follower].promotion = promote.record]
  /\ PromoteGoto("committed")
  /\ UNCHANGED <<mem, used>>

PromoteSwitch ==
  /\ promote.pc = "committed"
  /\ mem' = [mem EXCEPT ![Follower].role = "primary", ![Follower].gate = FALSE,
                        ![Follower].state = "active", ![Follower].promotion = "promoted"]
  /\ PromoteGoto("idle")
  /\ UNCHANGED <<disk, used>>

\* The journal cannot be opened: the node stays as it is until a restart.
PromoteFailsLate ==
  /\ promote.pc = "committed" /\ Fault
  /\ PromoteGoto("idle")
  /\ UNCHANGED <<disk, mem>>

----------------------------------------------------------------------------
(* SyncFromPrimary, on the follower                                        *)

SyncGoto(state) ==
  /\ sync' = state
  /\ UNCHANGED <<journal, quiesce, promote, request, acked, issued>>

\* Role and barrier are checked, with no lock held ...
SyncBegin ==
  /\ sync = Idle /\ Serves(Follower, "follower") /\ ~mem[Follower].barrier
  /\ SyncGoto([pc |-> "waiting"])
  /\ UNCHANGED <<disk, engine, mem, used>>

\* ... and the barrier again under the shared side of replicationMutationMu.
SyncLock ==
  /\ sync.pc = "waiting" /\ ~HoldsWriteLock
  /\ SyncGoto(IF mem[Follower].barrier THEN Idle
              ELSE [pc |-> "pulling", after |-> mem[Follower].lastApplied])
  /\ UNCHANGED <<disk, engine, mem, used>>

SyncPull ==
  /\ sync.pc = "pulling"
  /\ SyncGoto(IF mem[Primary].up
              THEN [pc |-> "applying", next |-> sync.after + 1, to |-> Len(journal[Primary])]
              ELSE Idle)
  /\ UNCHANGED <<disk, engine, mem, used>>

SyncApply ==
  /\ sync.pc = "applying" /\ sync.next <= sync.to
  /\ engine' = [engine EXCEPT ![Follower] = @ \cup {journal[Primary][sync.next]}]
  /\ mem' = [mem EXCEPT ![Follower].lastApplied = sync.next]
  /\ SyncGoto([sync EXCEPT !.next = @ + 1])
  /\ UNCHANGED <<disk, used>>

\* The pull, an entry or the saving of the cursor fails; or the pull is
\* cancelled by the promotion, which stops the background worker.
SyncFails ==
  /\ \/ HoldsReadLock /\ Fault
     \/ sync.pc = "pulling" /\ mem[Follower].barrier /\ UNCHANGED used
  /\ SyncGoto(Idle)
  /\ UNCHANGED <<disk, engine, mem>>

SyncEnd ==
  /\ sync.pc = "applying" /\ sync.next > sync.to
  /\ disk' = [disk EXCEPT ![Follower].cursor = mem[Follower].lastApplied]
  /\ SyncGoto(Idle)
  /\ UNCHANGED <<engine, mem, used>>

----------------------------------------------------------------------------
Init ==
  /\ disk = [n \in Nodes |-> [intent |-> None, final |-> None, promotion |-> None,
                              baseline |-> None, cursor |-> 0]]
  /\ journal = [n \in Nodes |-> <<>>] /\ engine = [n \in Nodes |-> {}]
  /\ mem = [n \in Nodes |-> Down]
  /\ quiesce = [n \in Nodes |-> Idle] /\ promote = Idle /\ sync = Idle
  /\ request = [r \in Requests |-> Idle]
  /\ acked = {} /\ issued = {}
  /\ used = [writes |-> 0, quiesceIDs |-> 0, journalFaults |-> 0, faults |-> 0, crashes |-> 0]

WriteStep(r) == WriteJournal(r) \/ WriteJournalFails(r) \/ \E n \in Nodes : WriteEngine(r, n)

QuiesceStep(n) ==
  \/ QuiesceIntent(n) \/ QuiesceGate(n) \/ QuiesceSave(n) \/ QuiesceSaveFails(n)
  \/ QuiesceRetry(n) \/ QuiesceEnd(n) \/ QuiesceAgain(n)

PromoteStep ==
  \/ PromoteBegin \/ PromoteLock \/ PromoteReverts \/ PromoteBaseline \/ PromoteCommit
  \/ PromoteSwitch \/ PromoteFailsLate

SyncStep == SyncBegin \/ SyncLock \/ SyncPull \/ SyncApply \/ SyncFails \/ SyncEnd

Next ==
  \/ \E n \in Nodes : Open(n) \/ Crash(n) \/ QuiesceStep(n)
  \/ \E r \in Requests : WriteStep(r)
  \/ PromoteStep \/ SyncStep

Spec == Init /\ [][Next]_vars

----------------------------------------------------------------------------
(* Properties                                                              *)

Files ==
  [intent : {None} \cup Nat, final : {None} \cup QRecord, promotion : {None} \cup QRecord,
   baseline : {None} \cup Nat, cursor : Nat]

\* A node that is fenced or quiesced knows the record it answers.
Server ==
  {m \in [up : BOOLEAN, role : {"none", "primary", "follower"}, gate : BOOLEAN,
          state : {"active", "fenced", "quiesced"}, record : {None} \cup QRecord,
          promotion : {"none", "promoting", "promoted"}, barrier : BOOLEAN, lastApplied : Nat] :
     m.state # "active" => m.record # None}

QuiesceState ==
  {Idle} \cup [pc : {"intent"}, id : Nat] \cup [pc : {"drained", "saved"}, record : QRecord]

PromoteState ==
  {Idle} \cup [pc : {"barrier", "locked", "baselined", "committed"}, record : QRecord]

SyncState ==
  {Idle} \cup [pc : {"waiting"}] \cup [pc : {"pulling"}, after : Nat]
         \cup [pc : {"applying"}, next : Nat, to : Nat]

RequestState == {Idle} \cup [pc : {"journal"}, node : Nodes, write : Nat]

Usage == [{"writes", "quiesceIDs", "journalFaults", "faults", "crashes"} -> Nat]

\* The types of the variables.
TypeOK ==
  /\ disk \in [Nodes -> Files] /\ mem \in [Nodes -> Server]
  /\ journal \in [Nodes -> Seq(Nat)] /\ engine \in [Nodes -> SUBSET Nat]
  /\ quiesce \in [Nodes -> QuiesceState] /\ promote \in PromoteState /\ sync \in SyncState
  /\ request \in [Requests -> RequestState]
  /\ acked \subseteq Nat /\ issued \subseteq [node : Nodes, record : QRecord]
  /\ used \in Usage

\* Once a quiesce record is on disk the node takes no write ever again, in this
\* life or after any restart, and the record names the journal's true end
\* (MANUAL_PROMOTION_DESIGN.md section 5: "write-fenced forever").
QuiesceIsFinal ==
  \A n \in Nodes : disk[n].final # None =>
    /\ ~Writable(n) /\ Writing(n) = {}
    /\ disk[n].final.seq = LatestSeq(n)

\* A write reaches one primary only: from the promotion's commit on the old one
\* is fenced, although nobody stopped it.
AtMostOneWritable ==
  /\ ~(Writable(Primary) /\ Writable(Follower))
  /\ Promoted(Follower) => ~Writable(Primary)

Journaled == {journal[Primary][i] : i \in 1..Len(journal[Primary])}

\* Every write that a client was told is done is held by the new primary,
\* unless the old one's journal failed to take it (its error is dropped).
PromotedComplete == Promoted(Follower) => acked \cap Journaled \subseteq engine[Follower]

\* No crash leaves files that the node refuses to start with.
StartupResolves == \A n \in Nodes : ~mem[n].up => StartupOK(n)

\* All the quiesce records that a node ever gives out are the same.
OneQuiesceRecord == \A i, j \in issued : i.node = j.node => i = j

----------------------------------------------------------------------------
(* The inductive invariant behind these properties                         *)

\* What the files, the memory and the quiesce request of the configured
\* primary say of one another.
PrimaryInv ==
  LET d == disk[Primary]
      m == mem[Primary]
      q == quiesce[Primary]
  IN  /\ d.promotion = None /\ d.baseline = None
      /\ m.up => m.role = "primary"
      /\ ~m.up => q = Idle /\ Writing(Primary) = {} /\ m.state = "active"
      /\ q.pc = "intent" => d.intent = q.id /\ d.final = None /\ m.state = "active"
      /\ q.pc = "drained" => /\ m.gate /\ Writing(Primary) = {} /\ m.state = "active"
                             /\ q.record.seq = LatestSeq(Primary)
                             /\ d.intent = q.record.id /\ d.final = None
      /\ q.pc = "saved" => m.gate /\ d.final = q.record
      /\ m.state = "fenced" => /\ m.gate /\ Writing(Primary) = {}
                               /\ m.record.seq = LatestSeq(Primary)
                               /\ d.intent = m.record.id
      /\ m.state = "quiesced" => m.gate /\ d.final = m.record
      /\ m.up /\ d.final # None => m.state = "quiesced" \/ q.pc = "saved"
      /\ d.final # None => /\ Writing(Primary) = {}
                           /\ d.final.seq = LatestSeq(Primary)
                           /\ d.intent \in {None, d.final.id}

\* A record in the operator's hands, or past them, is the primary's own; nodes
\* that nobody asks to quiesce never do.
IssuedInv ==
  /\ \A i \in issued : i.node \in QuiesceNodes /\ (i.node = Primary => i.record = disk[Primary].final)
  /\ promote # Idle => promote.record = disk[Primary].final
  /\ Promoted(Follower) => disk[Follower].promotion = disk[Primary].final
  /\ \A n \in Nodes \ QuiesceNodes : quiesce[n] = Idle /\ disk[n].final = None

\* The follower's engine holds what its cursors have passed.
AppliedInv ==
  LET j == journal[Primary]
      m == mem[Follower]
  IN  /\ disk[Follower].cursor <= Len(j) /\ m.lastApplied <= Len(j)
      /\ \A i \in 1..disk[Follower].cursor : j[i] \in engine[Follower]
      /\ \A i \in 1..m.lastApplied : j[i] \in engine[Follower]
      /\ sync.pc = "pulling" => sync.after = m.lastApplied
      /\ sync.pc = "applying" => sync.next = m.lastApplied + 1 /\ sync.to <= Len(j)

\* How far a promotion is, and what it keeps from moving meanwhile.
PromoteInv ==
  LET d == disk[Follower]
      m == mem[Follower]
  IN  /\ ~m.up => sync = Idle /\ promote = Idle
      /\ m.role = "primary" => Promoted(Follower)
      /\ promote # Idle => m.role = "follower" /\ m.barrier /\ m.promotion = "promoting"
      /\ promote # Idle => (Promoted(Follower) <=> promote.pc = "committed")
      /\ HoldsWriteLock => /\ ~HoldsReadLock
                           /\ m.lastApplied = promote.record.seq /\ d.cursor = promote.record.seq
      /\ promote.pc \in {"baselined", "committed"} => d.baseline = promote.record.seq
      /\ Promoted(Follower) =>
           /\ d.baseline = d.promotion.seq /\ d.cursor = d.promotion.seq
           /\ ~HoldsReadLock
           /\ m.up => m.promotion # "none" /\ (m.role = "primary" \/ m.barrier)
                      /\ (sync = Idle \/ m.barrier)

IInv == TypeOK /\ PrimaryInv /\ IssuedInv /\ AppliedInv /\ PromoteInv
=============================================================================
