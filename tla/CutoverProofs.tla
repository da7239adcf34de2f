--------------------------- MODULE CutoverProofs ---------------------------
(***************************************************************************)
(* Proofs about the planned failover (module Cutover).                     *)
(*                                                                         *)
(* All of it follows from one inductive invariant, IInv, in four parts:    *)
(* PrimaryInv ties the files of the configured primary to its memory and   *)
(* to the quiesce request that is under way; IssuedInv says that a record  *)
(* outside the primary is the final record on its disk; AppliedInv that    *)
(* the follower's engine holds what its cursors have passed; PromoteInv    *)
(* what each stage of a promotion has secured.  From them: a follower with *)
(* a promotion record has the primary's final record, hence the primary is *)
(* fenced; its cursor is at the record's number, which is the end of the   *)
(* journal, hence its engine is complete.                                  *)
(*                                                                         *)
(* The record sets Files, Server, ... stay opaque in most steps: the first *)
(* sections state what an update of one file or of one field does, the     *)
(* frame lemmas which parts of IInv a step cannot disturb, and each        *)
(* XStep lemma that the action X preserves IInv.                           *)
(***************************************************************************)
EXTENDS Cutover, SequenceTheorems, TLAPS

USE CutoverAssumption

----------------------------------------------------------------------------
(* The fields of the records                                               *)

\* A function with one value replaced.
LEMMA UpdateOne ==
  ASSUME NEW S, NEW D, NEW f \in [S -> D], NEW n \in S, NEW x \in D
  PROVE  /\ [f EXCEPT ![n] = x] \in [S -> D]
         /\ [f EXCEPT ![n] = x][n] = x
         /\ \A o \in S : o # n => [f EXCEPT ![n] = x][o] = f[o]
OBVIOUS

LEMMA ServerFields ==
  ASSUME NEW m \in Server
  PROVE  /\ {m.up, m.gate, m.barrier} \subseteq BOOLEAN
         /\ m.role \in {"none", "primary", "follower"} /\ m.state \in {"active", "fenced", "quiesced"}
         /\ m.record \in {None} \cup QRecord /\ m.promotion \in {"none", "promoting", "promoted"}
         /\ m.lastApplied \in Nat
         /\ m.state # "active" => m.record \in QRecord
BY DEF Server

LEMMA FilesFields ==
  ASSUME NEW d \in Files
  PROVE  /\ d.intent \in {None} \cup Nat /\ d.final \in {None} \cup QRecord
         /\ d.promotion \in {None} \cup QRecord /\ d.baseline \in {None} \cup Nat /\ d.cursor \in Nat
BY DEF Files

LEMMA RecordFields == ASSUME NEW x \in QRecord PROVE x.id \in Nat /\ x.seq \in Nat /\ x # None
BY DEF QRecord

LEMMA QuiesceFields ==
  ASSUME NEW q \in QuiesceState
  PROVE  /\ q = Idle <=> q.pc = "idle"
         /\ q.pc \in {"idle", "intent", "drained", "saved"}
         /\ q.pc = "intent" => q.id \in Nat
         /\ q.pc \in {"drained", "saved"} => q.record \in QRecord
         /\ q.pc = "drained" => [q EXCEPT !.pc = "saved"] = [pc |-> "saved", record |-> q.record]
BY DEF QuiesceState, Idle

LEMMA QuiesceStates ==
  /\ Idle \in QuiesceState
  /\ \A id \in Nat : [pc |-> "intent", id |-> id] \in QuiesceState
  /\ \A x \in QRecord : [pc |-> "drained", record |-> x] \in QuiesceState
  /\ \A x \in QRecord : [pc |-> "saved", record |-> x] \in QuiesceState
BY DEF QuiesceState

LEMMA PromoteFields ==
  ASSUME NEW p \in PromoteState
  PROVE  /\ p = Idle <=> p.pc = "idle"
         /\ p.pc \in {"idle", "barrier", "locked", "baselined", "committed"}
         /\ p # Idle => /\ p.record \in QRecord
                        /\ \A x \in {"barrier", "locked", "baselined", "committed"} :
                             [p EXCEPT !.pc = x] = [pc |-> x, record |-> p.record]
BY DEF PromoteState, Idle

LEMMA SyncFields ==
  ASSUME NEW s \in SyncState
  PROVE  /\ s = Idle <=> s.pc = "idle"
         /\ s.pc \in {"idle", "waiting", "pulling", "applying"}
         /\ s.pc = "pulling" => s.after \in Nat
         /\ s.pc = "applying" => /\ s.next \in Nat /\ s.to \in Nat
                                 /\ \A x : [s EXCEPT !.next = x] = [pc |-> "applying", next |-> x, to |-> s.to]
BY DEF SyncState, Idle

LEMMA RequestFields ==
  ASSUME NEW r \in RequestState
  PROVE  r # Idle => r.node \in Nodes /\ r.write \in Nat
BY DEF RequestState, Idle

LEMMA Spent ==
  ASSUME used \in Usage, NEW max,
         NEW b \in {"writes", "quiesceIDs", "journalFaults", "faults", "crashes"}, Spend(b, max)
  PROVE  used' \in Usage /\ used'[b] = used[b] + 1 /\ used'[b] \in Nat
BY DEF Usage, Spend

LEMMA FaultSpent == ASSUME used \in Usage, Fault PROVE used' \in Usage
BY Spent DEF Fault

----------------------------------------------------------------------------
(* One file replaced, one field of the memory set                          *)

\* Saves and removals of the files of one node.
LEMMA IntentSaved ==
  ASSUME disk \in [Nodes -> Files], NEW n \in Nodes, NEW x \in {None} \cup Nat,
         disk' = [disk EXCEPT ![n].intent = x]
  PROVE  /\ disk' \in [Nodes -> Files] /\ \A o \in Nodes : o # n => disk'[o] = disk[o]
         /\ disk'[n].intent = x /\ disk'[n].final = disk[n].final
         /\ disk'[n].promotion = disk[n].promotion /\ disk'[n].baseline = disk[n].baseline
         /\ disk'[n].cursor = disk[n].cursor
<1>1. disk' = [disk EXCEPT ![n] = [disk[n] EXCEPT !.intent = x]] OBVIOUS
<1>2. [disk[n] EXCEPT !.intent = x] \in Files BY DEF Files
<1>3. /\ disk' \in [Nodes -> Files] /\ \A o \in Nodes : o # n => disk'[o] = disk[o]
      /\ disk'[n] = [disk[n] EXCEPT !.intent = x]
  BY <1>1, <1>2
<1> QED BY <1>3 DEF Files

LEMMA FinalSaved ==
  ASSUME disk \in [Nodes -> Files], NEW n \in Nodes, NEW x \in {None} \cup QRecord,
         disk' = [disk EXCEPT ![n].final = x]
  PROVE  /\ disk' \in [Nodes -> Files] /\ \A o \in Nodes : o # n => disk'[o] = disk[o]
         /\ disk'[n].final = x /\ disk'[n].intent = disk[n].intent
         /\ disk'[n].promotion = disk[n].promotion /\ disk'[n].baseline = disk[n].baseline
         /\ disk'[n].cursor = disk[n].cursor
<1>1. disk' = [disk EXCEPT ![n] = [disk[n] EXCEPT !.final = x]] OBVIOUS
<1>2. [disk[n] EXCEPT !.final = x] \in Files BY DEF Files
<1>3. /\ disk' \in [Nodes -> Files] /\ \A o \in Nodes : o # n => disk'[o] = disk[o]
      /\ disk'[n] = [disk[n] EXCEPT !.final = x]
  BY <1>1, <1>2
<1> QED BY <1>3 DEF Files

LEMMA PromotionSaved ==
  ASSUME disk \in [Nodes -> Files], NEW n \in Nodes, NEW x \in {None} \cup QRecord,
         disk' = [disk EXCEPT ![n].promotion = x]
  PROVE  /\ disk' \in [Nodes -> Files] /\ \A o \in Nodes : o # n => disk'[o] = disk[o]
         /\ disk'[n].promotion = x /\ disk'[n].intent = disk[n].intent
         /\ disk'[n].final = disk[n].final /\ disk'[n].baseline = disk[n].baseline
         /\ disk'[n].cursor = disk[n].cursor
<1>1. disk' = [disk EXCEPT ![n] = [disk[n] EXCEPT !.promotion = x]] OBVIOUS
<1>2. [disk[n] EXCEPT !.promotion = x] \in Files BY DEF Files
<1>3. /\ disk' \in [Nodes -> Files] /\ \A o \in Nodes : o # n => disk'[o] = disk[o]
      /\ disk'[n] = [disk[n] EXCEPT !.promotion = x]
  BY <1>1, <1>2
<1> QED BY <1>3 DEF Files

LEMMA BaselineSaved ==
  ASSUME disk \in [Nodes -> Files], NEW n \in Nodes, NEW x \in {None} \cup Nat,
         disk' = [disk EXCEPT ![n].baseline = x]
  PROVE  /\ disk' \in [Nodes -> Files] /\ \A o \in Nodes : o # n => disk'[o] = disk[o]
         /\ disk'[n].baseline = x /\ disk'[n].intent = disk[n].intent
         /\ disk'[n].final = disk[n].final /\ disk'[n].promotion = disk[n].promotion
         /\ disk'[n].cursor = disk[n].cursor
<1>1. disk' = [disk EXCEPT ![n] = [disk[n] EXCEPT !.baseline = x]] OBVIOUS
<1>2. [disk[n] EXCEPT !.baseline = x] \in Files BY DEF Files
<1>3. /\ disk' \in [Nodes -> Files] /\ \A o \in Nodes : o # n => disk'[o] = disk[o]
      /\ disk'[n] = [disk[n] EXCEPT !.baseline = x]
  BY <1>1, <1>2
<1> QED BY <1>3 DEF Files

LEMMA CursorSaved ==
  ASSUME disk \in [Nodes -> Files], NEW n \in Nodes, NEW x \in Nat,
         disk' = [disk EXCEPT ![n].cursor = x]
  PROVE  /\ disk' \in [Nodes -> Files] /\ \A o \in Nodes : o # n => disk'[o] = disk[o]
         /\ disk'[n].cursor = x /\ disk'[n].intent = disk[n].intent
         /\ disk'[n].final = disk[n].final /\ disk'[n].promotion = disk[n].promotion
         /\ disk'[n].baseline = disk[n].baseline
<1>1. disk' = [disk EXCEPT ![n] = [disk[n] EXCEPT !.cursor = x]] OBVIOUS
<1>2. [disk[n] EXCEPT !.cursor = x] \in Files BY DEF Files
<1>3. /\ disk' \in [Nodes -> Files] /\ \A o \in Nodes : o # n => disk'[o] = disk[o]
      /\ disk'[n] = [disk[n] EXCEPT !.cursor = x]
  BY <1>1, <1>2
<1> QED BY <1>3 DEF Files

\* Fields of the memory of one node.
LEMMA GateRaised ==
  ASSUME mem \in [Nodes -> Server], NEW n \in Nodes,
         mem' = [mem EXCEPT ![n].gate = TRUE]
  PROVE  /\ mem' \in [Nodes -> Server] /\ \A o \in Nodes : o # n => mem'[o] = mem[o]
         /\ mem'[n].gate = TRUE /\ mem'[n].up = mem[n].up /\ mem'[n].role = mem[n].role
         /\ mem'[n].state = mem[n].state /\ mem'[n].record = mem[n].record
         /\ mem'[n].promotion = mem[n].promotion /\ mem'[n].barrier = mem[n].barrier
         /\ mem'[n].lastApplied = mem[n].lastApplied
<1>1. mem' = [mem EXCEPT ![n] = [mem[n] EXCEPT !.gate = TRUE]] OBVIOUS
<1>2. [mem[n] EXCEPT !.gate = TRUE] \in Server BY DEF Server
<1>3. /\ mem' \in [Nodes -> Server] /\ \A o \in Nodes : o # n => mem'[o] = mem[o]
      /\ mem'[n] = [mem[n] EXCEPT !.gate = TRUE]
  BY <1>1, <1>2
<1> QED BY <1>3 DEF Server

LEMMA StateSet ==
  ASSUME mem \in [Nodes -> Server], NEW n \in Nodes, NEW s \in {"fenced", "quiesced"}, NEW x \in QRecord,
         mem' = [mem EXCEPT ![n].state = s, ![n].record = x]
  PROVE  /\ mem' \in [Nodes -> Server] /\ \A o \in Nodes : o # n => mem'[o] = mem[o]
         /\ mem'[n].state = s /\ mem'[n].record = x /\ mem'[n].up = mem[n].up
         /\ mem'[n].role = mem[n].role /\ mem'[n].gate = mem[n].gate
         /\ mem'[n].promotion = mem[n].promotion /\ mem'[n].barrier = mem[n].barrier
         /\ mem'[n].lastApplied = mem[n].lastApplied
<1>1. mem' = [mem EXCEPT ![n] = [mem[n] EXCEPT !.state = s, !.record = x]] OBVIOUS
<1>2. [mem[n] EXCEPT !.state = s, !.record = x] \in Server BY RecordFields DEF Server
<1>3. /\ mem' \in [Nodes -> Server] /\ \A o \in Nodes : o # n => mem'[o] = mem[o]
      /\ mem'[n] = [mem[n] EXCEPT !.state = s, !.record = x]
  BY <1>1, <1>2
<1> QED BY <1>3 DEF Server

LEMMA BarrierSet ==
  ASSUME mem \in [Nodes -> Server], NEW n \in Nodes, NEW b \in BOOLEAN, NEW p \in {"none", "promoting"},
         mem' = [mem EXCEPT ![n].barrier = b, ![n].promotion = p]
  PROVE  /\ mem' \in [Nodes -> Server] /\ \A o \in Nodes : o # n => mem'[o] = mem[o]
         /\ mem'[n].barrier = b /\ mem'[n].promotion = p /\ mem'[n].up = mem[n].up
         /\ mem'[n].role = mem[n].role /\ mem'[n].gate = mem[n].gate
         /\ mem'[n].state = mem[n].state /\ mem'[n].record = mem[n].record
         /\ mem'[n].lastApplied = mem[n].lastApplied
<1>1. mem' = [mem EXCEPT ![n] = [mem[n] EXCEPT !.barrier = b, !.promotion = p]] OBVIOUS
<1>2. [mem[n] EXCEPT !.barrier = b, !.promotion = p] \in Server BY DEF Server
<1>3. /\ mem' \in [Nodes -> Server] /\ \A o \in Nodes : o # n => mem'[o] = mem[o]
      /\ mem'[n] = [mem[n] EXCEPT !.barrier = b, !.promotion = p]
  BY <1>1, <1>2
<1> QED BY <1>3 DEF Server

LEMMA AppliedSet ==
  ASSUME mem \in [Nodes -> Server], NEW n \in Nodes, NEW x \in Nat,
         mem' = [mem EXCEPT ![n].lastApplied = x]
  PROVE  /\ mem' \in [Nodes -> Server] /\ \A o \in Nodes : o # n => mem'[o] = mem[o]
         /\ mem'[n].lastApplied = x /\ mem'[n].up = mem[n].up /\ mem'[n].role = mem[n].role
         /\ mem'[n].gate = mem[n].gate /\ mem'[n].state = mem[n].state
         /\ mem'[n].record = mem[n].record /\ mem'[n].promotion = mem[n].promotion
         /\ mem'[n].barrier = mem[n].barrier
<1>1. mem' = [mem EXCEPT ![n] = [mem[n] EXCEPT !.lastApplied = x]] OBVIOUS
<1>2. [mem[n] EXCEPT !.lastApplied = x] \in Server BY DEF Server
<1>3. /\ mem' \in [Nodes -> Server] /\ \A o \in Nodes : o # n => mem'[o] = mem[o]
      /\ mem'[n] = [mem[n] EXCEPT !.lastApplied = x]
  BY <1>1, <1>2
<1> QED BY <1>3 DEF Server

LEMMA RoleSwitched ==
  ASSUME mem \in [Nodes -> Server], NEW n \in Nodes,
         mem' = [mem EXCEPT ![n].role = "primary", ![n].gate = FALSE, ![n].state = "active", ![n].promotion = "promoted"]
  PROVE  /\ mem' \in [Nodes -> Server] /\ \A o \in Nodes : o # n => mem'[o] = mem[o]
         /\ mem'[n].role = "primary" /\ mem'[n].gate = FALSE /\ mem'[n].state = "active"
         /\ mem'[n].promotion = "promoted" /\ mem'[n].up = mem[n].up
         /\ mem'[n].record = mem[n].record /\ mem'[n].barrier = mem[n].barrier
         /\ mem'[n].lastApplied = mem[n].lastApplied
<1>1. mem' = [mem EXCEPT ![n] = [mem[n] EXCEPT !.role = "primary", !.gate = FALSE, !.state = "active", !.promotion = "promoted"]] OBVIOUS
<1>2. [mem[n] EXCEPT !.role = "primary", !.gate = FALSE, !.state = "active", !.promotion = "promoted"] \in Server BY DEF Server
<1>3. /\ mem' \in [Nodes -> Server] /\ \A o \in Nodes : o # n => mem'[o] = mem[o]
      /\ mem'[n] = [mem[n] EXCEPT !.role = "primary", !.gate = FALSE, !.state = "active", !.promotion = "promoted"]
  BY <1>1, <1>2
<1> QED BY <1>3 DEF Server

----------------------------------------------------------------------------
(* Types                                                                   *)

\* The types of one node's share of the variables.
LEMMA Types ==
  ASSUME TypeOK, NEW n \in Nodes
  PROVE  /\ disk \in [Nodes -> Files] /\ mem \in [Nodes -> Server]
         /\ quiesce \in [Nodes -> QuiesceState] /\ promote \in PromoteState /\ sync \in SyncState
         /\ disk[n] \in Files /\ mem[n] \in Server /\ quiesce[n] \in QuiesceState
         /\ journal[n] \in Seq(Nat) /\ Len(journal[n]) \in Nat /\ engine[n] \subseteq Nat
         /\ BaseOf(n) \in Nat /\ LatestSeq(n) \in Nat
<1>1. /\ disk[n] \in Files /\ mem[n] \in Server /\ quiesce[n] \in QuiesceState
      /\ journal[n] \in Seq(Nat) /\ engine[n] \subseteq Nat
  BY DEF TypeOK
<1>2. BaseOf(n) \in Nat BY <1>1, FilesFields DEF BaseOf
<1>3. LatestSeq(n) \in Nat BY <1>1, <1>2, LenProperties DEF LatestSeq
<1> QED BY <1>1, <1>2, <1>3, LenProperties DEF TypeOK

----------------------------------------------------------------------------
(* Frames                                                                  *)

\* What each part of IInv depends on.
LEMMA PrimaryKept ==
  ASSUME PrimaryInv, disk'[Primary] = disk[Primary], mem'[Primary] = mem[Primary],
         quiesce'[Primary] = quiesce[Primary], journal'[Primary] = journal[Primary],
         Writing(Primary)' \subseteq Writing(Primary)
  PROVE  PrimaryInv'
BY DEF PrimaryInv, LatestSeq, BaseOf

LEMMA IssuedKept ==
  ASSUME IssuedInv, issued' = issued, promote' = promote,
         \A n \in Nodes : disk'[n].final = disk[n].final,
         disk'[Follower].promotion = disk[Follower].promotion,
         \A n \in Nodes \ QuiesceNodes : quiesce'[n] = quiesce[n]
  PROVE  IssuedInv'
BY DEF IssuedInv, Promoted, Nodes

LEMMA AppliedKept ==
  ASSUME AppliedInv, journal'[Primary] = journal[Primary],
         engine[Follower] \subseteq engine'[Follower], sync' = sync,
         disk'[Follower].cursor = disk[Follower].cursor,
         mem'[Follower].lastApplied = mem[Follower].lastApplied
  PROVE  AppliedInv'
BY DEF AppliedInv

LEMMA PromoteKept ==
  ASSUME PromoteInv, sync' = sync, promote' = promote,
         disk'[Follower].promotion = disk[Follower].promotion,
         disk'[Follower].baseline = disk[Follower].baseline,
         disk'[Follower].cursor = disk[Follower].cursor,
         mem'[Follower].up = mem[Follower].up, mem'[Follower].role = mem[Follower].role,
         mem'[Follower].barrier = mem[Follower].barrier,
         mem'[Follower].promotion = mem[Follower].promotion,
         mem'[Follower].lastApplied = mem[Follower].lastApplied
  PROVE  PromoteInv'
BY DEF PromoteInv, Promoted, HoldsWriteLock, HoldsReadLock


\* What a step of the quiesce handler of node n leaves alone.
QuiesceFrame(n) ==
  /\ UNCHANGED <<journal, engine, promote, sync, request>>
  /\ \A o \in Nodes :
       /\ o # n => disk'[o] = disk[o] /\ mem'[o] = mem[o] /\ quiesce'[o] = quiesce[o]
       /\ disk'[o].promotion = disk[o].promotion /\ disk'[o].baseline = disk[o].baseline
       /\ disk'[o].cursor = disk[o].cursor
       /\ mem'[o].up = mem[o].up /\ mem'[o].role = mem[o].role
       /\ mem'[o].promotion = mem[o].promotion /\ mem'[o].barrier = mem[o].barrier
       /\ mem'[o].lastApplied = mem[o].lastApplied

LEMMA QuiesceFrameKeeps ==
  ASSUME IInv, NEW n \in Nodes, QuiesceFrame(n)
  PROVE  /\ Writing(Primary)' = Writing(Primary) /\ LatestSeq(Primary)' = LatestSeq(Primary)
         /\ n # Primary => PrimaryInv'
         /\ AppliedInv' /\ PromoteInv'
<1>1. Writing(Primary)' = Writing(Primary) BY DEF QuiesceFrame, Writing
<1>2. LatestSeq(Primary)' = LatestSeq(Primary) BY DEF QuiesceFrame, LatestSeq, BaseOf, Nodes
<1>3. n # Primary => PrimaryInv' BY <1>1, PrimaryKept DEF QuiesceFrame, IInv, Nodes
<1>4. AppliedInv' BY AppliedKept DEF QuiesceFrame, IInv, Nodes
<1>5. PromoteInv' BY PromoteKept DEF QuiesceFrame, IInv, Nodes
<1> QED BY <1>1, <1>2, <1>3, <1>4, <1>5

\* While the primary has no final record none of it is in anyone's hands.
LEMMA NoRecordYet ==
  ASSUME IInv, disk[Primary].final = None
  PROVE  /\ \A i \in issued : i.node # Primary
         /\ promote = Idle /\ ~Promoted(Follower)
<1>1. \A i \in issued : i.record # None
  BY RecordFields DEF IInv, TypeOK
<1>2. promote # Idle => promote.record # None
  BY PromoteFields, RecordFields DEF IInv, TypeOK
<1> QED BY <1>1, <1>2 DEF IInv, IssuedInv, Promoted

----------------------------------------------------------------------------
(* The quiesce handler                                                     *)

LEMMA QuiesceIntentStep == ASSUME IInv, NEW n \in Nodes, QuiesceIntent(n) PROVE IInv'
<1> DEFINE id == used'.quiesceIDs
           q  == [pc |-> "intent", id |-> id]
<1>1. TypeOK /\ disk \in [Nodes -> Files] /\ quiesce \in [Nodes -> QuiesceState] BY DEF IInv, TypeOK
<1>2. used' \in Usage /\ id \in Nat BY <1>1, Spent DEF QuiesceIntent, TypeOK
<1>3. disk' = [disk EXCEPT ![n].intent = id] /\ quiesce' = [quiesce EXCEPT ![n] = q]
  BY DEF QuiesceIntent, QuiesceGoto, SetIntent
<1>4. q \in QuiesceState /\ q.pc = "intent" /\ q.id = id BY <1>2, QuiesceStates
<1> HIDE DEF id, q
<1>5. /\ disk' \in [Nodes -> Files] /\ \A o \in Nodes : o # n => disk'[o] = disk[o]
      /\ disk'[n].intent = id /\ disk'[n].final = disk[n].final
      /\ disk'[n].promotion = disk[n].promotion /\ disk'[n].baseline = disk[n].baseline
      /\ disk'[n].cursor = disk[n].cursor
  BY <1>1, <1>2, <1>3, IntentSaved
<1>6. /\ quiesce' \in [Nodes -> QuiesceState] /\ quiesce'[n] = q
      /\ \A o \in Nodes : o # n => quiesce'[o] = quiesce[o]
  BY <1>1, <1>3, <1>4
<1>7. TypeOK' BY <1>1, <1>2, <1>5, <1>6 DEF QuiesceIntent, QuiesceGoto, TypeOK
<1>8. mem' = mem /\ issued' = issued /\ QuiesceFrame(n)
  BY <1>5, <1>6 DEF QuiesceIntent, QuiesceGoto, QuiesceFrame
<1>9. mem[n].up /\ mem[n].state = "active" /\ quiesce[n].pc = "idle" /\ n \in QuiesceNodes
  BY DEF QuiesceIntent, QuiesceMay, Serves, Idle
<1>10. PrimaryInv'
  <2>1. CASE n = Primary
    <3>1. disk[Primary].final = None BY <1>9, <2>1 DEF IInv, PrimaryInv
    <3> QED BY <1>4, <1>5, <1>6, <1>8, <1>9, <2>1, <3>1, QuiesceFrameKeeps DEF IInv, PrimaryInv
  <2> QED BY <1>8, <2>1, QuiesceFrameKeeps
<1>11. IssuedInv' BY <1>5, <1>8, <1>9, IssuedKept DEF IInv, QuiesceFrame, Nodes
<1> QED BY <1>7, <1>8, <1>10, <1>11, QuiesceFrameKeeps DEF IInv

LEMMA QuiesceGateStep == ASSUME IInv, NEW n \in Nodes, QuiesceGate(n) PROVE IInv'
<1> DEFINE x == [id |-> quiesce[n].id, seq |-> LatestSeq(n)]
           q == [pc |-> "drained", record |-> x]
<1>1. TypeOK /\ mem \in [Nodes -> Server] /\ quiesce \in [Nodes -> QuiesceState] BY DEF IInv, TypeOK
<1>2. quiesce[n].pc = "intent" /\ quiesce[n].id \in Nat /\ LatestSeq(n) \in Nat
  BY <1>1, Types, QuiesceFields DEF QuiesceGate
<1>3. x \in QRecord /\ x.id = quiesce[n].id /\ x.seq = LatestSeq(n) BY <1>2 DEF QRecord
<1>4. quiesce' = [quiesce EXCEPT ![n] = q] /\ mem' = [mem EXCEPT ![n].gate = TRUE]
  BY DEF QuiesceGate, QuiesceGoto
<1>5. q.pc = "drained" /\ q.record = x OBVIOUS
<1>6. q \in QuiesceState BY <1>3, QuiesceStates
<1> HIDE DEF x, q
<1>7. /\ mem' \in [Nodes -> Server] /\ \A o \in Nodes : o # n => mem'[o] = mem[o]
      /\ mem'[n].gate = TRUE /\ mem'[n].up = mem[n].up /\ mem'[n].role = mem[n].role
      /\ mem'[n].state = mem[n].state /\ mem'[n].record = mem[n].record
      /\ mem'[n].promotion = mem[n].promotion /\ mem'[n].barrier = mem[n].barrier
      /\ mem'[n].lastApplied = mem[n].lastApplied
  BY <1>1, <1>4, GateRaised
<1>8. /\ quiesce' \in [Nodes -> QuiesceState] /\ quiesce'[n] = q
      /\ \A o \in Nodes : o # n => quiesce'[o] = quiesce[o]
  BY <1>1, <1>4, <1>6
<1>9. TypeOK' BY <1>1, <1>7, <1>8 DEF QuiesceGate, QuiesceGoto, TypeOK
<1>10. disk' = disk /\ issued' = issued /\ QuiesceFrame(n)
  BY <1>7, <1>8 DEF QuiesceGate, QuiesceGoto, QuiesceFrame
<1>11. PrimaryInv'
  <2>1. CASE n = Primary
    <3>1. Writing(Primary) = {} BY <2>1 DEF QuiesceGate
    <3>2. Writing(Primary)' = {} /\ LatestSeq(Primary)' = LatestSeq(Primary)
      BY <1>10, <3>1, QuiesceFrameKeeps
    <3>3. /\ disk[Primary].promotion = None /\ disk[Primary].baseline = None
          /\ mem[Primary].role = "primary" /\ mem[Primary].up /\ mem[Primary].state = "active"
          /\ disk[Primary].intent = quiesce[Primary].id /\ disk[Primary].final = None
      BY <1>2, <2>1 DEF IInv, PrimaryInv, Idle
    <3>4. quiesce'[Primary].pc = "drained" /\ quiesce'[Primary].record = x BY <1>5, <1>8, <2>1
    <3> QED BY <1>3, <1>7, <1>10, <2>1, <3>2, <3>3, <3>4 DEF PrimaryInv
  <2> QED BY <1>10, <2>1, QuiesceFrameKeeps
<1>12. IssuedInv'
  <2>1. n \in QuiesceNodes BY <1>2 DEF IInv, IssuedInv, Idle
  <2> QED BY <1>8, <1>10, <2>1, IssuedKept DEF IInv, QuiesceFrame, Nodes
<1> QED BY <1>9, <1>10, <1>11, <1>12, QuiesceFrameKeeps DEF IInv

LEMMA QuiesceSaveStep == ASSUME IInv, NEW n \in Nodes, QuiesceSave(n) PROVE IInv'
<1> DEFINE x == quiesce[n].record
           q == [pc |-> "saved", record |-> x]
<1>1. TypeOK /\ disk \in [Nodes -> Files] /\ quiesce \in [Nodes -> QuiesceState] BY DEF IInv, TypeOK
<1>2. quiesce[n].pc = "drained" /\ x \in QRecord /\ x # None /\ [quiesce[n] EXCEPT !.pc = "saved"] = q
  BY <1>1, Types, QuiesceFields, RecordFields DEF QuiesceSave
<1>3. disk' = [disk EXCEPT ![n].final = x] /\ quiesce' = [quiesce EXCEPT ![n] = q]
  BY <1>2 DEF QuiesceSave, QuiesceGoto
<1>4. q \in QuiesceState /\ q.pc = "saved" /\ q.record = x BY <1>2, QuiesceStates
<1>a. x = quiesce[n].record OBVIOUS
<1> HIDE DEF x, q
<1>5. /\ disk' \in [Nodes -> Files] /\ \A o \in Nodes : o # n => disk'[o] = disk[o]
      /\ disk'[n].final = x /\ disk'[n].intent = disk[n].intent
      /\ disk'[n].promotion = disk[n].promotion /\ disk'[n].baseline = disk[n].baseline
      /\ disk'[n].cursor = disk[n].cursor
  BY <1>1, <1>2, <1>3, FinalSaved
<1>6. /\ quiesce' \in [Nodes -> QuiesceState] /\ quiesce'[n] = q
      /\ \A o \in Nodes : o # n => quiesce'[o] = quiesce[o]
  BY <1>1, <1>3, <1>4
<1>7. TypeOK' BY <1>1, <1>5, <1>6 DEF QuiesceSave, QuiesceGoto, TypeOK
<1>8. mem' = mem /\ issued' = issued /\ QuiesceFrame(n)
  BY <1>5, <1>6 DEF QuiesceSave, QuiesceGoto, QuiesceFrame
<1>9. n \in QuiesceNodes BY <1>2 DEF IInv, IssuedInv, Idle
<1>10. CASE n = Primary
  <2>1. /\ disk[Primary].promotion = None /\ disk[Primary].baseline = None
        /\ mem[Primary].role = "primary" /\ mem[Primary].up /\ mem[Primary].state = "active"
        /\ mem[Primary].gate /\ Writing(Primary) = {} /\ x.seq = LatestSeq(Primary)
        /\ disk[Primary].intent = x.id /\ disk[Primary].final = None
    BY <1>2, <1>10, <1>a DEF IInv, PrimaryInv, Idle
  <2>2. Writing(Primary)' = {} /\ LatestSeq(Primary)' = LatestSeq(Primary)
    BY <1>8, <2>1, QuiesceFrameKeeps
  <2>3. quiesce'[Primary].pc = "saved" /\ quiesce'[Primary].record = x BY <1>4, <1>6, <1>10
  <2>4. PrimaryInv' BY <1>5, <1>8, <1>10, <2>1, <2>2, <2>3 DEF PrimaryInv
  <2>5. (\A i \in issued : i.node # Primary) /\ promote = Idle /\ ~Promoted(Follower)
    BY <2>1, NoRecordYet
  <2>6. IssuedInv'
    BY <1>5, <1>6, <1>8, <1>9, <1>10, <2>5 DEF IInv, IssuedInv, QuiesceFrame, Promoted, Nodes
  <2> QED BY <1>7, <1>8, <2>4, <2>6, QuiesceFrameKeeps DEF IInv
<1>11. CASE n # Primary
  <2>1. IssuedInv'
    BY <1>5, <1>6, <1>8, <1>9, <1>11 DEF IInv, IssuedInv, QuiesceFrame, Promoted, Nodes
  <2> QED BY <1>7, <1>8, <1>11, <2>1, QuiesceFrameKeeps DEF IInv
<1> QED BY <1>10, <1>11

LEMMA QuiesceSaveFailsStep == ASSUME IInv, NEW n \in Nodes, QuiesceSaveFails(n) PROVE IInv'
<1> DEFINE x == quiesce[n].record
<1>1. TypeOK /\ mem \in [Nodes -> Server] /\ quiesce \in [Nodes -> QuiesceState] BY DEF IInv, TypeOK
<1>2. quiesce[n].pc = "drained" /\ x \in QRecord /\ x # None
  BY <1>1, Types, QuiesceFields, RecordFields DEF QuiesceSaveFails
<1>3. /\ mem' = [mem EXCEPT ![n].state = "fenced", ![n].record = x]
      /\ quiesce' = [quiesce EXCEPT ![n] = Idle] /\ Fault
  BY DEF QuiesceSaveFails, QuiesceGoto
<1>a. x = quiesce[n].record OBVIOUS
<1> HIDE DEF x
<1>4. /\ mem' \in [Nodes -> Server] /\ \A o \in Nodes : o # n => mem'[o] = mem[o]
      /\ mem'[n].state = "fenced" /\ mem'[n].record = x /\ mem'[n].up = mem[n].up
      /\ mem'[n].role = mem[n].role /\ mem'[n].gate = mem[n].gate
      /\ mem'[n].promotion = mem[n].promotion /\ mem'[n].barrier = mem[n].barrier
      /\ mem'[n].lastApplied = mem[n].lastApplied
  BY <1>1, <1>2, <1>3, StateSet
<1>5. /\ quiesce' \in [Nodes -> QuiesceState] /\ quiesce'[n] = Idle
      /\ \A o \in Nodes : o # n => quiesce'[o] = quiesce[o]
  BY <1>1, <1>3, QuiesceStates
<1>6. used' \in Usage BY <1>1, <1>3, FaultSpent DEF TypeOK
<1>7. TypeOK' BY <1>1, <1>4, <1>5, <1>6 DEF QuiesceSaveFails, QuiesceGoto, TypeOK
<1>8. disk' = disk /\ issued' = issued /\ QuiesceFrame(n)
  BY <1>4, <1>5 DEF QuiesceSaveFails, QuiesceGoto, QuiesceFrame
<1>9. ASSUME n = Primary PROVE PrimaryInv'
  <2>1. /\ disk[Primary].promotion = None /\ disk[Primary].baseline = None
        /\ mem[Primary].role = "primary" /\ mem[Primary].up
        /\ mem[Primary].gate /\ Writing(Primary) = {} /\ x.seq = LatestSeq(Primary)
        /\ disk[Primary].intent = x.id /\ disk[Primary].final = None
    BY <1>2, <1>9, <1>a DEF IInv, PrimaryInv, Idle
  <2>2. Writing(Primary)' = {} /\ LatestSeq(Primary)' = LatestSeq(Primary)
    BY <1>8, <2>1, QuiesceFrameKeeps
  <2>3. quiesce'[Primary].pc = "idle" BY <1>5, <1>9 DEF Idle
  <2>4. mem'[Primary].up /\ mem'[Primary].gate BY <1>4, <1>9, <2>1
  <2> QED BY <1>2, <1>4, <1>8, <1>9, <2>1, <2>2, <2>3, <2>4 DEF PrimaryInv
<1>10. PrimaryInv' BY <1>8, <1>9, QuiesceFrameKeeps DEF IInv
<1>11. IssuedInv'
  <2>1. n \in QuiesceNodes BY <1>2 DEF IInv, IssuedInv, Idle
  <2> QED BY <1>5, <1>8, <2>1, IssuedKept DEF IInv, QuiesceFrame, Nodes
<1> QED BY <1>7, <1>8, <1>10, <1>11, QuiesceFrameKeeps DEF IInv

LEMMA QuiesceRetryStep == ASSUME IInv, NEW n \in Nodes, QuiesceRetry(n) PROVE IInv'
<1> DEFINE x == mem[n].record
           q == [pc |-> "saved", record |-> x]
<1>1. TypeOK /\ disk \in [Nodes -> Files] /\ quiesce \in [Nodes -> QuiesceState] BY DEF IInv, TypeOK
<1>2. /\ n \in QuiesceNodes /\ mem[n].up /\ mem[n].role = "primary"
      /\ quiesce[n].pc = "idle" /\ mem[n].state = "fenced"
      /\ disk' = [disk EXCEPT ![n].final = x] /\ quiesce' = [quiesce EXCEPT ![n] = q]
  BY DEF QuiesceRetry, QuiesceMay, QuiesceGoto, Serves, Idle
<1>3. x \in QRecord /\ x # None BY <1>1, <1>2, Types, ServerFields, RecordFields
<1>4. q \in QuiesceState /\ q.pc = "saved" /\ q.record = x BY <1>3, QuiesceStates
<1>a. x = mem[n].record OBVIOUS
<1> HIDE DEF x, q
<1>5. /\ disk' \in [Nodes -> Files] /\ \A o \in Nodes : o # n => disk'[o] = disk[o]
      /\ disk'[n].final = x /\ disk'[n].intent = disk[n].intent
      /\ disk'[n].promotion = disk[n].promotion /\ disk'[n].baseline = disk[n].baseline
      /\ disk'[n].cursor = disk[n].cursor
  BY <1>1, <1>2, <1>3, FinalSaved
<1>6. /\ quiesce' \in [Nodes -> QuiesceState] /\ quiesce'[n] = q
      /\ \A o \in Nodes : o # n => quiesce'[o] = quiesce[o]
  BY <1>1, <1>2, <1>4
<1>7. TypeOK' BY <1>1, <1>5, <1>6 DEF QuiesceRetry, QuiesceGoto, TypeOK
<1>8. mem' = mem /\ issued' = issued /\ QuiesceFrame(n)
  BY <1>5, <1>6 DEF QuiesceRetry, QuiesceGoto, QuiesceFrame
<1>9. CASE n = Primary
  <2>1. /\ disk[Primary].promotion = None /\ disk[Primary].baseline = None
        /\ mem[Primary].gate /\ Writing(Primary) = {} /\ x.seq = LatestSeq(Primary)
        /\ disk[Primary].intent = x.id /\ disk[Primary].final = None
    BY <1>2, <1>9, <1>a DEF IInv, PrimaryInv
  <2>2. Writing(Primary)' = {} /\ LatestSeq(Primary)' = LatestSeq(Primary)
    BY <1>8, <2>1, QuiesceFrameKeeps
  <2>3. quiesce'[Primary].pc = "saved" /\ quiesce'[Primary].record = x BY <1>4, <1>6, <1>9
  <2>4. PrimaryInv' BY <1>2, <1>5, <1>8, <1>9, <1>a, <2>1, <2>2, <2>3 DEF PrimaryInv
  <2>5. (\A i \in issued : i.node # Primary) /\ promote = Idle /\ ~Promoted(Follower)
    BY <2>1, NoRecordYet
  <2>6. IssuedInv'
    BY <1>2, <1>5, <1>6, <1>8, <1>9, <2>5 DEF IInv, IssuedInv, QuiesceFrame, Promoted, Nodes
  <2> QED BY <1>7, <1>8, <2>4, <2>6, QuiesceFrameKeeps DEF IInv
<1>10. CASE n # Primary
  <2>1. IssuedInv'
    BY <1>2, <1>5, <1>6, <1>8, <1>10 DEF IInv, IssuedInv, QuiesceFrame, Promoted, Nodes
  <2> QED BY <1>7, <1>8, <1>10, <2>1, QuiesceFrameKeeps DEF IInv
<1> QED BY <1>9, <1>10

LEMMA QuiesceEndStep == ASSUME IInv, NEW n \in Nodes, QuiesceEnd(n) PROVE IInv'
<1> DEFINE x == quiesce[n].record
           i == [node |-> n, record |-> x]
<1>1. TypeOK /\ mem \in [Nodes -> Server] /\ quiesce \in [Nodes -> QuiesceState]
      /\ disk \in [Nodes -> Files]
  BY DEF IInv, TypeOK
<1>2. quiesce[n].pc = "saved" /\ x \in QRecord /\ x # None
  BY <1>1, Types, QuiesceFields, RecordFields DEF QuiesceEnd
<1>3. /\ mem' = [mem EXCEPT ![n].state = "quiesced", ![n].record = x]
      /\ quiesce' = [quiesce EXCEPT ![n] = Idle] /\ issued' = issued \cup {i}
  BY DEF QuiesceEnd, QuiesceGoto
<1>4. i \in [node : Nodes, record : QRecord] /\ i.node = n /\ i.record = x BY <1>2
<1>a. x = quiesce[n].record OBVIOUS
<1> HIDE DEF x, i
<1>5. /\ mem' \in [Nodes -> Server] /\ \A o \in Nodes : o # n => mem'[o] = mem[o]
      /\ mem'[n].state = "quiesced" /\ mem'[n].record = x /\ mem'[n].up = mem[n].up
      /\ mem'[n].role = mem[n].role /\ mem'[n].gate = mem[n].gate
      /\ mem'[n].promotion = mem[n].promotion /\ mem'[n].barrier = mem[n].barrier
      /\ mem'[n].lastApplied = mem[n].lastApplied
  BY <1>1, <1>2, <1>3, StateSet
<1>6. /\ quiesce' \in [Nodes -> QuiesceState] /\ quiesce'[n] = Idle
      /\ \A o \in Nodes : o # n => quiesce'[o] = quiesce[o]
  BY <1>1, <1>3, QuiesceStates
<1>7. /\ disk' \in [Nodes -> Files] /\ \A o \in Nodes : o # n => disk'[o] = disk[o]
      /\ disk'[n].final = disk[n].final /\ disk'[n].intent \in {None, disk[n].intent}
      /\ disk'[n].promotion = disk[n].promotion /\ disk'[n].baseline = disk[n].baseline
      /\ disk'[n].cursor = disk[n].cursor
      /\ used' \in Usage
  <2>1. CASE SetIntent(n, None) /\ UNCHANGED used
    BY <1>1, <2>1, IntentSaved DEF SetIntent, TypeOK
  <2>2. CASE disk' = disk /\ Fault
    BY <1>1, <2>2, FaultSpent DEF TypeOK
  <2> QED BY <2>1, <2>2 DEF QuiesceEnd
<1>8. TypeOK' BY <1>1, <1>3, <1>4, <1>5, <1>6, <1>7 DEF QuiesceEnd, QuiesceGoto, TypeOK
<1>9. QuiesceFrame(n) BY <1>5, <1>6, <1>7 DEF QuiesceEnd, QuiesceGoto, QuiesceFrame
<1>10. n = Primary => disk[Primary].final = x BY <1>2, <1>a DEF IInv, PrimaryInv
<1>11. ASSUME n = Primary PROVE PrimaryInv'
  <2>1. /\ disk[Primary].promotion = None /\ disk[Primary].baseline = None
        /\ mem[Primary].role = "primary" /\ mem[Primary].up
        /\ mem[Primary].gate /\ Writing(Primary) = {} /\ x.seq = LatestSeq(Primary)
        /\ disk[Primary].intent \in {None, x.id}
    BY <1>2, <1>10, <1>11 DEF IInv, PrimaryInv, Idle
  <2>2. Writing(Primary)' = {} /\ LatestSeq(Primary)' = LatestSeq(Primary)
    BY <1>9, <2>1, QuiesceFrameKeeps
  <2>3. quiesce'[Primary].pc = "idle" BY <1>6, <1>11 DEF Idle
  <2>4. mem'[Primary].up /\ mem'[Primary].gate BY <1>5, <1>11, <2>1
  <2> QED BY <1>2, <1>5, <1>7, <1>10, <1>11, <2>1, <2>2, <2>3, <2>4 DEF PrimaryInv
<1>12. PrimaryInv' BY <1>9, <1>11, QuiesceFrameKeeps DEF IInv
<1>13. IssuedInv'
  <2>1. n \in QuiesceNodes BY <1>2 DEF IInv, IssuedInv, Idle
  <2>2. \A m \in Nodes : disk'[m].final = disk[m].final BY <1>7
  <2> QED BY <1>3, <1>4, <1>6, <1>9, <1>10, <2>1, <2>2 DEF IInv, IssuedInv, QuiesceFrame, Promoted, Nodes
<1> QED BY <1>8, <1>9, <1>12, <1>13, QuiesceFrameKeeps DEF IInv

LEMMA QuiesceAgainStep == ASSUME IInv, NEW n \in Nodes, QuiesceAgain(n) PROVE IInv'
<1> DEFINE x == mem[n].record
           i == [node |-> n, record |-> x]
<1>1. TypeOK BY DEF IInv
<1>2. /\ n \in QuiesceNodes /\ mem[n].state = "quiesced" /\ issued' = issued \cup {i}
      /\ UNCHANGED <<nodeVars, quiesce, promote, sync, request, acked, used>>
  BY DEF QuiesceAgain, QuiesceMay
<1>3. x \in QRecord BY <1>1, <1>2, Types, ServerFields
<1>4. i \in [node : Nodes, record : QRecord] /\ i.node = n /\ i.record = x BY <1>3
<1>5. n = Primary => disk[Primary].final = x BY <1>2 DEF IInv, PrimaryInv
<1> HIDE DEF x, i
<1>6. QuiesceFrame(n) /\ disk' = disk /\ mem' = mem /\ quiesce' = quiesce BY <1>2 DEF QuiesceFrame, nodeVars
<1>7. TypeOK' BY <1>1, <1>2, <1>4 DEF TypeOK, nodeVars
<1>8. PrimaryInv' BY <1>6, QuiesceFrameKeeps, PrimaryKept DEF IInv, QuiesceFrame
<1>9. IssuedInv' BY <1>2, <1>4, <1>5, <1>6 DEF IInv, IssuedInv, QuiesceFrame, Promoted
<1> QED BY <1>6, <1>7, <1>8, <1>9, QuiesceFrameKeeps DEF IInv

----------------------------------------------------------------------------
(* Writes                                                                  *)

LEMMA WriteEngineStep ==
  ASSUME IInv, NEW r \in Requests, NEW n \in Nodes, WriteEngine(r, n)
  PROVE  IInv'
<1> DEFINE w == used'.writes
           q == [pc |-> "journal", node |-> n, write |-> w]
<1>1. TypeOK /\ request \in [Requests -> RequestState] /\ engine \in [Nodes -> SUBSET Nat]
  BY DEF IInv, TypeOK
<1>2. used' \in Usage /\ w \in Nat BY <1>1, Spent DEF WriteEngine, TypeOK
<1>3. /\ engine' = [engine EXCEPT ![n] = @ \cup {w}] /\ request' = [request EXCEPT ![r] = q]
      /\ UNCHANGED <<disk, journal, mem, quiesce, promote, sync, acked, issued>>
      /\ request[r] = Idle /\ mem[n].up /\ ~mem[n].gate
  BY DEF WriteEngine, Writable, Serves
<1>4. q \in RequestState /\ q.node = n BY <1>2 DEF RequestState
<1> HIDE DEF w, q
<1>5. /\ engine' \in [Nodes -> SUBSET Nat] /\ request' \in [Requests -> RequestState]
      /\ \A o \in Nodes : engine[o] \subseteq engine'[o]
      /\ request'[r] = q /\ \A o \in Requests : o # r => request'[o] = request[o]
  BY <1>1, <1>2, <1>3, <1>4
<1>6. TypeOK' BY <1>1, <1>2, <1>3, <1>5 DEF TypeOK
<1>7. PrimaryInv'
  <2>1. CASE n = Primary
    <3>1. mem[Primary].state = "active" /\ quiesce[Primary].pc \notin {"drained", "saved"}
          /\ disk[Primary].final = None
      BY <1>1, <1>3, <2>1, Types, ServerFields DEF IInv, PrimaryInv
    <3> QED BY <1>3, <2>1, <3>1 DEF IInv, PrimaryInv
  <2>2. CASE n # Primary
    <3>1. Writing(Primary)' \subseteq Writing(Primary) BY <1>4, <1>5, <2>2 DEF Writing
    <3> QED BY <1>3, <3>1, PrimaryKept DEF IInv
  <2> QED BY <2>1, <2>2
<1>8. IssuedInv' BY <1>3, IssuedKept DEF IInv
<1>9. AppliedInv' BY <1>3, <1>5, AppliedKept DEF IInv, Nodes
<1>10. PromoteInv' BY <1>3, PromoteKept DEF IInv
<1> QED BY <1>6, <1>7, <1>8, <1>9, <1>10 DEF IInv

\* The end of a write, whether its journal entry was written or not.
LEMMA AnswerKeeps ==
  ASSUME IInv, NEW r \in Requests, request[r] # Idle, Answer(r)
  PROVE  /\ request[r].node \in Nodes /\ request[r].write \in Nat
         /\ request' \in [Requests -> RequestState] /\ acked' \subseteq Nat
         /\ Writing(Primary)' \subseteq Writing(Primary)
         /\ request[r].node = Primary => r \in Writing(Primary)
         /\ UNCHANGED <<disk, engine, mem, quiesce, promote, sync, issued>>
         /\ IssuedInv' /\ PromoteInv'
<1>1. TypeOK /\ request \in [Requests -> RequestState] /\ acked \subseteq Nat BY DEF IInv, TypeOK
<1>2. request[r].node \in Nodes /\ request[r].write \in Nat BY <1>1, RequestFields
<1>3. /\ request' = [request EXCEPT ![r] = Idle] /\ acked' = acked \cup {request[r].write}
      /\ UNCHANGED <<disk, engine, mem, quiesce, promote, sync, issued>>
  BY DEF Answer
<1>4. Idle \in RequestState BY DEF RequestState
<1>5. /\ request' \in [Requests -> RequestState] /\ request'[r] = Idle
      /\ \A o \in Requests : o # r => request'[o] = request[o]
  BY <1>1, <1>3, <1>4
<1>6. Writing(Primary)' \subseteq Writing(Primary) BY <1>5 DEF Writing
<1>7. request[r].node = Primary => r \in Writing(Primary) BY DEF Writing
<1>8. IssuedInv' BY <1>3, IssuedKept DEF IInv
<1>9. PromoteInv' BY <1>3, PromoteKept DEF IInv
<1> QED BY <1>1, <1>2, <1>3, <1>5, <1>6, <1>7, <1>8, <1>9

LEMMA WriteJournalFailsStep ==
  ASSUME IInv, NEW r \in Requests, WriteJournalFails(r) PROVE IInv'
<1>1. TypeOK /\ request[r] # Idle /\ Answer(r) /\ journal' = journal /\ used' \in Usage
  BY Spent DEF IInv, TypeOK, WriteJournalFails
<1>2. TypeOK' BY <1>1, AnswerKeeps DEF TypeOK
<1>3. PrimaryInv' BY <1>1, AnswerKeeps, PrimaryKept DEF IInv
<1>4. AppliedInv' BY <1>1, AnswerKeeps, AppliedKept DEF IInv
<1> QED BY <1>1, <1>2, <1>3, <1>4, AnswerKeeps DEF IInv

LEMMA WriteJournalStep ==
  ASSUME IInv, NEW r \in Requests, WriteJournal(r) PROVE IInv'
<1> DEFINE n == request[r].node
           w == request[r].write
           j == journal[Primary]
<1>1. /\ TypeOK /\ request[r] # Idle /\ Answer(r) /\ used' = used
      /\ journal' = [journal EXCEPT ![n] = Append(@, w)]
  BY DEF IInv, WriteJournal
<1>2. n \in Nodes /\ w \in Nat BY <1>1, AnswerKeeps
<1>3. journal \in [Nodes -> Seq(Nat)] BY <1>1 DEF TypeOK
<1> HIDE DEF n, w
<1>4. journal' \in [Nodes -> Seq(Nat)] BY <1>1, <1>2, <1>3, AppendProperties
<1>5. TypeOK' BY <1>1, <1>4, AnswerKeeps DEF TypeOK
<1>6. CASE n # Primary
  <2>1. journal'[Primary] = journal[Primary] BY <1>1, <1>3, <1>6 DEF Nodes
  <2>2. PrimaryInv' BY <1>1, <2>1, AnswerKeeps, PrimaryKept DEF IInv
  <2>3. AppliedInv' BY <1>1, <2>1, AnswerKeeps, AppliedKept DEF IInv
  <2> QED BY <1>1, <1>5, <2>2, <2>3, AnswerKeeps DEF IInv
<1>7. CASE n = Primary
  <2>1. r \in Writing(Primary) BY <1>1, <1>7, AnswerKeeps DEF n
  <2>2. PrimaryInv' BY <1>1, <2>1, AnswerKeeps DEF IInv, PrimaryInv
  <2>3. journal'[Primary] = Append(j, w) /\ j \in Seq(Nat) BY <1>1, <1>3, <1>7 DEF Nodes
  <2>4. /\ Len(journal'[Primary]) = Len(j) + 1 /\ Len(j) \in Nat
        /\ \A i \in 1..Len(j) : journal'[Primary][i] = j[i]
    BY <1>2, <2>3, AppendProperties, LenProperties
  <2>5. disk[Follower].cursor \in Nat /\ mem[Follower].lastApplied \in Nat
    BY <1>1, Types, FilesFields, ServerFields DEF Nodes
  <2>6. UNCHANGED <<disk, mem, engine, sync>> BY <1>1, AnswerKeeps
  <2>7. sync.pc = "applying" => sync.to \in Nat BY <1>1, SyncFields DEF TypeOK
  <2>8. AppliedInv'
    <3>1. \A i \in 1..disk[Follower].cursor : i \in 1..Len(j) BY <2>4, <2>5 DEF IInv, AppliedInv
    <3>2. \A i \in 1..mem[Follower].lastApplied : i \in 1..Len(j) BY <2>4, <2>5 DEF IInv, AppliedInv
    <3>3. \A x \in Nat : x <= Len(j) => x <= Len(journal'[Primary]) BY <2>4
    <3>4. /\ \A i \in 1..disk[Follower].cursor : journal'[Primary][i] \in engine[Follower]
          /\ \A i \in 1..mem[Follower].lastApplied : journal'[Primary][i] \in engine[Follower]
      BY <2>4, <3>1, <3>2 DEF IInv, AppliedInv
    <3> QED BY <2>5, <2>6, <2>7, <3>3, <3>4 DEF IInv, AppliedInv
  <2> QED BY <1>1, <1>5, <2>2, <2>8, AnswerKeeps DEF IInv
<1> QED BY <1>6, <1>7

----------------------------------------------------------------------------
(* The promote handler                                                     *)

\* What a step of a promotion leaves alone.
PromoteFrame ==
  /\ UNCHANGED <<journal, engine, quiesce, sync, request, acked, issued>>
  /\ disk'[Primary] = disk[Primary] /\ mem'[Primary] = mem[Primary]
  /\ disk'[Follower].final = disk[Follower].final /\ disk'[Follower].cursor = disk[Follower].cursor
  /\ mem'[Follower].lastApplied = mem[Follower].lastApplied
  /\ mem'[Follower].up = mem[Follower].up

LEMMA PromoteFrameKeeps ==
  ASSUME IInv, PromoteFrame
  PROVE  /\ PrimaryInv' /\ AppliedInv'
         /\ \A n \in Nodes : disk'[n].final = disk[n].final
<1>1. Writing(Primary)' \subseteq Writing(Primary) BY DEF PromoteFrame, Writing
<1>2. PrimaryInv' BY <1>1, PrimaryKept DEF PromoteFrame, IInv
<1>3. AppliedInv' BY AppliedKept DEF PromoteFrame, IInv
<1> QED BY <1>2, <1>3 DEF PromoteFrame, Nodes

\* The promote request at its next stage, or gone.
LEMMA PromoteGoes ==
  ASSUME promote \in PromoteState, promote # Idle,
         NEW pc \in {"idle", "barrier", "locked", "baselined", "committed"}, PromoteGoto(pc)
  PROVE  /\ promote' \in PromoteState /\ promote'.pc = pc
         /\ pc = "idle" <=> promote' = Idle
         /\ pc # "idle" => promote'.record = promote.record
         /\ promote.record \in QRecord /\ promote.record # None /\ promote.record.seq \in Nat
<1>1. promote.record \in QRecord /\ promote.record # None /\ promote.record.seq \in Nat
  BY PromoteFields, RecordFields
<1>2. CASE pc = "idle" BY <1>1, <1>2 DEF PromoteGoto, Idle, PromoteState
<1>3. CASE pc # "idle"
  <2>1. promote' = [pc |-> pc, record |-> promote.record]
    BY <1>3, PromoteFields DEF PromoteGoto
  <2> QED BY <1>1, <1>3, <2>1 DEF Idle, PromoteState
<1> QED BY <1>2, <1>3

LEMMA PromoteBeginStep == ASSUME IInv, PromoteBegin PROVE IInv'
<1>1. /\ TypeOK /\ mem \in [Nodes -> Server] /\ promote \in PromoteState
      /\ issued \subseteq [node : Nodes, record : QRecord] /\ Follower \in Nodes
  BY DEF IInv, TypeOK, Nodes
<1>2. /\ mem[Follower].up /\ mem[Follower].role = "follower" /\ mem[Follower].promotion = "none"
      /\ mem' = [mem EXCEPT ![Follower].barrier = TRUE, ![Follower].promotion = "promoting"]
      /\ UNCHANGED <<disk, journal, engine, quiesce, sync, request, acked, issued, used>>
  BY DEF PromoteBegin, Serves
<1>3. PICK i \in issued : i.node = Primary /\ promote' = [pc |-> "barrier", record |-> i.record]
  BY DEF PromoteBegin
<1>4. i.record \in QRecord /\ i.record = disk[Primary].final
  BY <1>1, <1>3 DEF IInv, IssuedInv
<1>5. promote' \in PromoteState /\ promote'.pc = "barrier" /\ promote'.record = disk[Primary].final
  BY <1>3, <1>4 DEF PromoteState
<1>6. /\ mem' \in [Nodes -> Server] /\ \A o \in Nodes : o # Follower => mem'[o] = mem[o]
      /\ mem'[Follower].barrier = TRUE /\ mem'[Follower].promotion = "promoting"
      /\ mem'[Follower].up = mem[Follower].up
      /\ mem'[Follower].role = mem[Follower].role /\ mem'[Follower].gate = mem[Follower].gate
      /\ mem'[Follower].state = mem[Follower].state /\ mem'[Follower].record = mem[Follower].record
      /\ mem'[Follower].lastApplied = mem[Follower].lastApplied
  BY <1>1, <1>2, BarrierSet
<1>7. TypeOK' BY <1>1, <1>2, <1>5, <1>6 DEF TypeOK
<1>8. PromoteFrame BY <1>2, <1>6 DEF PromoteFrame, Nodes
<1>9. IssuedInv' BY <1>2, <1>5 DEF IInv, IssuedInv, Promoted
<1>10. ~Promoted(Follower) BY <1>2 DEF IInv, PromoteInv
<1>11. PromoteInv' BY <1>2, <1>5, <1>6, <1>10 DEF PromoteInv, Promoted, HoldsWriteLock, Idle
<1> QED BY <1>7, <1>8, <1>9, <1>11, PromoteFrameKeeps DEF IInv

LEMMA PromoteLockStep == ASSUME IInv, PromoteLock PROVE IInv'
<1>1. TypeOK /\ promote \in PromoteState /\ promote.pc = "barrier" /\ promote # Idle
  BY DEF IInv, TypeOK, PromoteLock, Idle
<1>2. /\ promote' \in PromoteState /\ promote'.pc = "locked" /\ promote' # Idle
      /\ promote'.record = promote.record
  BY <1>1, PromoteGoes DEF PromoteLock
<1>3. /\ disk' = disk /\ mem' = mem /\ used' = used
      /\ UNCHANGED <<journal, engine, quiesce, sync, request, acked, issued>>
  BY DEF PromoteLock, PromoteGoto
<1>4. TypeOK' BY <1>1, <1>2, <1>3 DEF TypeOK
<1>5. PromoteFrame BY <1>3 DEF PromoteFrame
<1>6. IssuedInv' BY <1>1, <1>2, <1>3 DEF IInv, IssuedInv, Promoted
<1>7. PromoteInv'
  <2>1. ~HoldsReadLock /\ CaughtUp BY DEF PromoteLock
  <2> QED BY <1>1, <1>2, <1>3, <2>1 DEF IInv, PromoteInv, Promoted, HoldsWriteLock, HoldsReadLock, CaughtUp
<1> QED BY <1>4, <1>5, <1>6, <1>7, PromoteFrameKeeps DEF IInv

LEMMA PromoteRevertsStep == ASSUME IInv, PromoteReverts PROVE IInv'
<1>1. /\ TypeOK /\ promote \in PromoteState /\ mem \in [Nodes -> Server] /\ Follower \in Nodes
      /\ promote.pc \in {"barrier", "locked", "baselined"} /\ promote # Idle
  BY DEF IInv, TypeOK, PromoteReverts, Idle, Nodes
<1>2. promote' \in PromoteState /\ promote'.pc = "idle" /\ promote' = Idle
  BY <1>1, PromoteGoes DEF PromoteReverts
<1>3. /\ disk' = disk /\ UNCHANGED <<journal, engine, quiesce, sync, request, acked, issued>>
      /\ mem' = [mem EXCEPT ![Follower].barrier = FALSE, ![Follower].promotion = "none"]
  BY DEF PromoteReverts, PromoteGoto
<1>4. used' \in Usage BY <1>1, FaultSpent DEF PromoteReverts, TypeOK
<1>5. /\ mem' \in [Nodes -> Server] /\ \A o \in Nodes : o # Follower => mem'[o] = mem[o]
      /\ mem'[Follower].barrier = FALSE /\ mem'[Follower].promotion = "none"
      /\ mem'[Follower].up = mem[Follower].up
      /\ mem'[Follower].role = mem[Follower].role /\ mem'[Follower].gate = mem[Follower].gate
      /\ mem'[Follower].state = mem[Follower].state /\ mem'[Follower].record = mem[Follower].record
      /\ mem'[Follower].lastApplied = mem[Follower].lastApplied
  BY <1>1, <1>3, BarrierSet
<1>6. TypeOK' BY <1>1, <1>2, <1>3, <1>4, <1>5 DEF TypeOK
<1>7. PromoteFrame BY <1>3, <1>5 DEF PromoteFrame, Nodes
<1>8. IssuedInv' BY <1>2, <1>3 DEF IInv, IssuedInv, Promoted
<1>9. ~Promoted(Follower) BY <1>1 DEF IInv, PromoteInv
<1>10. PromoteInv'
  BY <1>1, <1>2, <1>3, <1>5, <1>9 DEF IInv, PromoteInv, Promoted, HoldsWriteLock, HoldsReadLock
<1> QED BY <1>6, <1>7, <1>8, <1>10, PromoteFrameKeeps DEF IInv

LEMMA PromoteBaselineStep == ASSUME IInv, PromoteBaseline PROVE IInv'
<1>1. /\ TypeOK /\ promote \in PromoteState /\ disk \in [Nodes -> Files] /\ Follower \in Nodes
      /\ promote.pc = "locked" /\ promote # Idle
  BY DEF IInv, TypeOK, PromoteBaseline, Idle, Nodes
<1>2. /\ promote' \in PromoteState /\ promote'.pc = "baselined" /\ promote' # Idle
      /\ promote'.record = promote.record /\ promote.record.seq \in Nat
  BY <1>1, PromoteGoes DEF PromoteBaseline
<1>3. /\ mem' = mem /\ used' = used /\ UNCHANGED <<journal, engine, quiesce, sync, request, acked, issued>>
      /\ disk' = [disk EXCEPT ![Follower].baseline = promote.record.seq]
  BY DEF PromoteBaseline, PromoteGoto
<1>4. /\ disk' \in [Nodes -> Files] /\ \A o \in Nodes : o # Follower => disk'[o] = disk[o]
      /\ disk'[Follower].baseline = promote.record.seq
      /\ disk'[Follower].intent = disk[Follower].intent /\ disk'[Follower].final = disk[Follower].final
      /\ disk'[Follower].promotion = disk[Follower].promotion
      /\ disk'[Follower].cursor = disk[Follower].cursor
  BY <1>1, <1>2, <1>3, BaselineSaved
<1>5. TypeOK' BY <1>1, <1>2, <1>3, <1>4 DEF TypeOK
<1>6. PromoteFrame BY <1>3, <1>4 DEF PromoteFrame, Nodes
<1>7. IssuedInv'
  BY <1>1, <1>2, <1>3, <1>4, <1>6, PromoteFrameKeeps DEF IInv, IssuedInv, Promoted, Nodes
<1>8. PromoteInv'
  BY <1>1, <1>2, <1>3, <1>4 DEF IInv, PromoteInv, Promoted, HoldsWriteLock, HoldsReadLock
<1> QED BY <1>5, <1>6, <1>7, <1>8, PromoteFrameKeeps DEF IInv

LEMMA PromoteCommitStep == ASSUME IInv, PromoteCommit PROVE IInv'
<1>1. /\ TypeOK /\ promote \in PromoteState /\ disk \in [Nodes -> Files] /\ Follower \in Nodes
      /\ promote.pc = "baselined" /\ promote # Idle
  BY DEF IInv, TypeOK, PromoteCommit, Idle, Nodes
<1>2. /\ promote' \in PromoteState /\ promote'.pc = "committed" /\ promote' # Idle
      /\ promote'.record = promote.record /\ promote.record \in QRecord /\ promote.record # None
  BY <1>1, PromoteGoes DEF PromoteCommit
<1>3. /\ mem' = mem /\ used' = used /\ UNCHANGED <<journal, engine, quiesce, sync, request, acked, issued>>
      /\ disk' = [disk EXCEPT ![Follower].promotion = promote.record]
  BY DEF PromoteCommit, PromoteGoto
<1>4. /\ disk' \in [Nodes -> Files] /\ \A o \in Nodes : o # Follower => disk'[o] = disk[o]
      /\ disk'[Follower].promotion = promote.record
      /\ disk'[Follower].intent = disk[Follower].intent /\ disk'[Follower].final = disk[Follower].final
      /\ disk'[Follower].baseline = disk[Follower].baseline
      /\ disk'[Follower].cursor = disk[Follower].cursor
  BY <1>1, <1>2, <1>3, PromotionSaved
<1>5. TypeOK' BY <1>1, <1>2, <1>3, <1>4 DEF TypeOK
<1>6. PromoteFrame BY <1>3, <1>4 DEF PromoteFrame, Nodes
<1>7. IssuedInv'
  BY <1>1, <1>2, <1>3, <1>4, <1>6, PromoteFrameKeeps DEF IInv, IssuedInv, Promoted, Nodes
<1>8. PromoteInv'
  BY <1>1, <1>2, <1>3, <1>4 DEF IInv, PromoteInv, Promoted, HoldsWriteLock, HoldsReadLock
<1> QED BY <1>5, <1>6, <1>7, <1>8, PromoteFrameKeeps DEF IInv

LEMMA PromoteSwitchStep == ASSUME IInv, PromoteSwitch PROVE IInv'
<1>1. /\ TypeOK /\ promote \in PromoteState /\ mem \in [Nodes -> Server] /\ Follower \in Nodes
      /\ promote.pc = "committed" /\ promote # Idle
  BY DEF IInv, TypeOK, PromoteSwitch, Idle, Nodes
<1>2. promote' \in PromoteState /\ promote'.pc = "idle" /\ promote' = Idle
  BY <1>1, PromoteGoes DEF PromoteSwitch
<1>3. /\ disk' = disk /\ used' = used /\ UNCHANGED <<journal, engine, quiesce, sync, request, acked, issued>>
      /\ mem' = [mem EXCEPT ![Follower].role = "primary", ![Follower].gate = FALSE,
                            ![Follower].state = "active", ![Follower].promotion = "promoted"]
  BY DEF PromoteSwitch, PromoteGoto
<1>4. /\ mem' \in [Nodes -> Server] /\ \A o \in Nodes : o # Follower => mem'[o] = mem[o]
      /\ mem'[Follower].role = "primary" /\ mem'[Follower].gate = FALSE
      /\ mem'[Follower].state = "active" /\ mem'[Follower].promotion = "promoted"
      /\ mem'[Follower].up = mem[Follower].up /\ mem'[Follower].record = mem[Follower].record
      /\ mem'[Follower].barrier = mem[Follower].barrier
      /\ mem'[Follower].lastApplied = mem[Follower].lastApplied
  BY <1>1, <1>3, RoleSwitched
<1>5. TypeOK' BY <1>1, <1>2, <1>3, <1>4 DEF TypeOK
<1>6. PromoteFrame BY <1>3, <1>4 DEF PromoteFrame, Nodes
<1>7. IssuedInv' BY <1>2, <1>3 DEF IInv, IssuedInv, Promoted
<1>8. PromoteInv'
  BY <1>1, <1>2, <1>3, <1>4 DEF IInv, PromoteInv, Promoted, HoldsWriteLock, HoldsReadLock
<1> QED BY <1>5, <1>6, <1>7, <1>8, PromoteFrameKeeps DEF IInv

LEMMA PromoteFailsLateStep == ASSUME IInv, PromoteFailsLate PROVE IInv'
<1>1. TypeOK /\ promote \in PromoteState /\ promote.pc = "committed" /\ promote # Idle
  BY DEF IInv, TypeOK, PromoteFailsLate, Idle
<1>2. promote' \in PromoteState /\ promote'.pc = "idle" /\ promote' = Idle
  BY <1>1, PromoteGoes DEF PromoteFailsLate
<1>3. /\ disk' = disk /\ mem' = mem /\ used' \in Usage
      /\ UNCHANGED <<journal, engine, quiesce, sync, request, acked, issued>>
  BY <1>1, FaultSpent DEF PromoteFailsLate, PromoteGoto, TypeOK
<1>4. TypeOK' BY <1>1, <1>2, <1>3 DEF TypeOK
<1>5. PromoteFrame BY <1>3 DEF PromoteFrame
<1>6. IssuedInv' BY <1>2, <1>3 DEF IInv, IssuedInv, Promoted
<1>7. PromoteInv'
  BY <1>1, <1>2, <1>3 DEF IInv, PromoteInv, Promoted, HoldsWriteLock, HoldsReadLock
<1> QED BY <1>4, <1>5, <1>6, <1>7, PromoteFrameKeeps DEF IInv

----------------------------------------------------------------------------
(* Pulls                                                                   *)

\* What a step of a pull leaves alone.
SyncFrame ==
  /\ UNCHANGED <<journal, quiesce, promote, request, acked, issued>>
  /\ disk'[Primary] = disk[Primary] /\ mem'[Primary] = mem[Primary]
  /\ disk'[Follower].final = disk[Follower].final
  /\ disk'[Follower].promotion = disk[Follower].promotion
  /\ disk'[Follower].baseline = disk[Follower].baseline
  /\ mem'[Follower].up = mem[Follower].up /\ mem'[Follower].role = mem[Follower].role
  /\ mem'[Follower].barrier = mem[Follower].barrier
  /\ mem'[Follower].promotion = mem[Follower].promotion

LEMMA SyncFrameKeeps == ASSUME IInv, SyncFrame PROVE PrimaryInv' /\ IssuedInv'
<1>1. Writing(Primary)' \subseteq Writing(Primary) BY DEF SyncFrame, Writing
<1>2. PrimaryInv' BY <1>1, PrimaryKept DEF SyncFrame, IInv
<1>3. \A n \in Nodes : disk'[n].final = disk[n].final BY DEF SyncFrame, Nodes
<1>4. IssuedInv' BY <1>3, IssuedKept DEF SyncFrame, IInv
<1> QED BY <1>2, <1>4

\* A step of a pull that neither applies an entry nor saves the cursor.
LEMMA SyncMovesOnly ==
  ASSUME IInv, SyncFrame, disk' = disk, mem' = mem, engine' = engine, used' \in Usage,
         sync' \in SyncState,
         sync'.pc = "pulling" => sync'.after = mem[Follower].lastApplied,
         sync'.pc = "applying" => /\ sync'.next = mem[Follower].lastApplied + 1
                                  /\ sync'.to <= Len(journal[Primary]),
         sync' # Idle => mem[Follower].up,
         sync'.pc \in {"pulling", "applying"} => ~Promoted(Follower) /\ ~HoldsWriteLock,
         Promoted(Follower) => sync' = Idle \/ mem[Follower].barrier \/ ~mem[Follower].up
  PROVE  IInv'
<1>1. TypeOK' BY DEF IInv, TypeOK, SyncFrame
<1>2. AppliedInv' BY DEF IInv, AppliedInv, SyncFrame
<1>3. PromoteInv' BY DEF IInv, PromoteInv, SyncFrame, Promoted, HoldsWriteLock, HoldsReadLock
<1> QED BY <1>1, <1>2, <1>3, SyncFrameKeeps DEF IInv

LEMMA SyncBeginStep == ASSUME IInv, SyncBegin PROVE IInv'
<1>1. /\ sync'.pc = "waiting" /\ sync' \in SyncState
      /\ disk' = disk /\ mem' = mem /\ engine' = engine /\ used' = used
      /\ mem[Follower].up /\ mem[Follower].role = "follower" /\ ~mem[Follower].barrier
  BY DEF SyncBegin, SyncGoto, Serves, SyncState
<1>2. SyncFrame BY <1>1 DEF SyncFrame, SyncBegin, SyncGoto
<1>3. ~Promoted(Follower) BY <1>1 DEF IInv, PromoteInv
<1>4. used' \in Usage BY <1>1 DEF IInv, TypeOK
<1> QED BY <1>1, <1>2, <1>3, <1>4, SyncMovesOnly

LEMMA SyncLockStep == ASSUME IInv, SyncLock PROVE IInv'
<1>1. /\ disk' = disk /\ mem' = mem /\ engine' = engine /\ used' = used
      /\ sync.pc = "waiting" /\ ~HoldsWriteLock
      /\ sync' = IF mem[Follower].barrier THEN Idle
                 ELSE [pc |-> "pulling", after |-> mem[Follower].lastApplied]
  BY DEF SyncLock, SyncGoto
<1>2. SyncFrame BY <1>1 DEF SyncFrame, SyncLock, SyncGoto
<1>3. mem[Follower].lastApplied \in Nat /\ used' \in Usage
  BY <1>1, Types, ServerFields DEF IInv, TypeOK, Nodes
<1>4. mem[Follower].up BY <1>1 DEF IInv, PromoteInv, Idle
<1>5. CASE mem[Follower].barrier
  <2>1. sync' = Idle /\ sync'.pc = "idle" /\ sync' \in SyncState BY <1>1, <1>5 DEF SyncState, Idle
  <2> QED BY <1>1, <1>2, <1>3, <2>1, SyncMovesOnly
<1>6. CASE ~mem[Follower].barrier
  <2>1. sync'.pc = "pulling" /\ sync'.after = mem[Follower].lastApplied /\ sync' \in SyncState
    BY <1>1, <1>3, <1>6 DEF SyncState
  <2>2. ~Promoted(Follower) BY <1>1, <1>4, <1>6 DEF IInv, PromoteInv, Idle
  <2> QED BY <1>1, <1>2, <1>3, <1>4, <2>1, <2>2, SyncMovesOnly
<1> QED BY <1>5, <1>6

\* While a pull holds the lock the follower is up and no promotion is near its end.
LEMMA Pulling ==
  ASSUME IInv, HoldsReadLock
  PROVE  /\ mem[Follower].up /\ ~Promoted(Follower) /\ ~HoldsWriteLock
         /\ sync \in SyncState /\ Len(journal[Primary]) \in Nat /\ mem[Follower].lastApplied \in Nat
<1>1. sync \in SyncState /\ sync # Idle BY DEF IInv, TypeOK, HoldsReadLock, Idle
<1>2. mem[Follower].up /\ ~Promoted(Follower) /\ ~HoldsWriteLock BY <1>1 DEF IInv, PromoteInv
<1>3. Len(journal[Primary]) \in Nat /\ mem[Follower].lastApplied \in Nat
  BY Types, ServerFields DEF IInv, Nodes
<1> QED BY <1>1, <1>2, <1>3

LEMMA SyncPullStep == ASSUME IInv, SyncPull PROVE IInv'
<1>1. /\ disk' = disk /\ mem' = mem /\ engine' = engine /\ used' = used /\ sync.pc = "pulling"
      /\ sync' = IF mem[Primary].up
                 THEN [pc |-> "applying", next |-> sync.after + 1, to |-> Len(journal[Primary])]
                 ELSE Idle
  BY DEF SyncPull, SyncGoto
<1>2. SyncFrame BY <1>1 DEF SyncFrame, SyncPull, SyncGoto
<1>3. HoldsReadLock BY <1>1 DEF HoldsReadLock
<1>4. used' \in Usage BY <1>1 DEF IInv, TypeOK
<1>5. sync.after = mem[Follower].lastApplied BY <1>1 DEF IInv, AppliedInv
<1>6. CASE mem[Primary].up
  <2>1. /\ sync'.pc = "applying" /\ sync'.next = mem[Follower].lastApplied + 1
        /\ sync'.to = Len(journal[Primary]) /\ sync' \in SyncState
    BY <1>1, <1>3, <1>5, <1>6, Pulling DEF SyncState
  <2>2. sync'.to <= Len(journal[Primary]) BY <1>3, <2>1, Pulling
  <2> QED BY <1>1, <1>2, <1>3, <1>4, <2>1, <2>2, Pulling, SyncMovesOnly
<1>7. CASE ~mem[Primary].up
  <2>1. sync' = Idle /\ sync'.pc = "idle" /\ sync' \in SyncState BY <1>1, <1>7 DEF SyncState, Idle
  <2> QED BY <1>1, <1>2, <1>4, <2>1, SyncMovesOnly
<1> QED BY <1>6, <1>7

LEMMA SyncFailsStep == ASSUME IInv, SyncFails PROVE IInv'
<1>1. /\ disk' = disk /\ mem' = mem /\ engine' = engine
      /\ sync' = Idle /\ sync'.pc = "idle" /\ sync' \in SyncState
  BY DEF SyncFails, SyncGoto, SyncState, Idle
<1>2. SyncFrame BY <1>1 DEF SyncFrame, SyncFails, SyncGoto
<1>3. used' \in Usage BY FaultSpent DEF SyncFails, IInv, TypeOK
<1> QED BY <1>1, <1>2, <1>3, SyncMovesOnly

LEMMA SyncApplyStep == ASSUME IInv, SyncApply PROVE IInv'
<1> DEFINE j == journal[Primary]
           x == sync.next
<1>1. /\ TypeOK /\ sync.pc = "applying" /\ x <= sync.to /\ mem \in [Nodes -> Server]
      /\ engine \in [Nodes -> SUBSET Nat] /\ j \in Seq(Nat)
      /\ disk' = disk /\ used' = used
      /\ engine' = [engine EXCEPT ![Follower] = @ \cup {j[x]}]
      /\ mem' = [mem EXCEPT ![Follower].lastApplied = x]
      /\ sync' = [sync EXCEPT !.next = @ + 1] /\ Follower \in Nodes
  BY DEF IInv, TypeOK, SyncApply, SyncGoto, Nodes
<1>2. HoldsReadLock BY <1>1 DEF HoldsReadLock
<1>3. /\ x \in Nat /\ sync.to \in Nat
      /\ sync' = [pc |-> "applying", next |-> x + 1, to |-> sync.to]
  BY <1>1, <1>2, Pulling, SyncFields
<1>4. x = mem[Follower].lastApplied + 1 /\ sync.to <= Len(j)
  BY <1>1 DEF IInv, AppliedInv
<1>5. x \in 1..Len(j) BY <1>1, <1>2, <1>3, <1>4, Pulling
<1>6. j[x] \in Nat BY <1>1, <1>5, ElementOfSeq
<1>7. /\ sync'.pc = "applying" /\ sync'.next = x + 1 /\ sync'.to = sync.to /\ sync' \in SyncState
  BY <1>3 DEF SyncState
<1> HIDE DEF x
<1>8. /\ mem' \in [Nodes -> Server] /\ \A o \in Nodes : o # Follower => mem'[o] = mem[o]
      /\ mem'[Follower].lastApplied = x /\ mem'[Follower].up = mem[Follower].up
      /\ mem'[Follower].role = mem[Follower].role
      /\ mem'[Follower].gate = mem[Follower].gate /\ mem'[Follower].state = mem[Follower].state
      /\ mem'[Follower].record = mem[Follower].record
      /\ mem'[Follower].promotion = mem[Follower].promotion
      /\ mem'[Follower].barrier = mem[Follower].barrier
  BY <1>1, <1>3, AppliedSet
<1>9. /\ engine' \in [Nodes -> SUBSET Nat] /\ j[x] \in engine'[Follower]
      /\ engine[Follower] \subseteq engine'[Follower]
  BY <1>1, <1>6
<1>10. SyncFrame BY <1>1, <1>8 DEF SyncFrame, SyncApply, SyncGoto, Nodes
<1>11. TypeOK' BY <1>1, <1>7, <1>8, <1>9, <1>10 DEF TypeOK, SyncFrame
<1>12. AppliedInv'
  <2>1. mem[Follower].lastApplied \in Nat BY <1>2, Pulling
  <2>2. \A i \in 1..x : i = x \/ i \in 1..mem[Follower].lastApplied BY <1>3, <1>4, <2>1
  <2>3. \A i \in 1..x : j[i] \in engine'[Follower]
    BY <1>9, <2>2 DEF IInv, AppliedInv
  <2>4. journal' = journal BY <1>10 DEF SyncFrame
  <2> QED BY <1>1, <1>4, <1>5, <1>7, <1>8, <1>9, <2>3, <2>4 DEF IInv, AppliedInv
<1>13. PromoteInv'
  BY <1>1, <1>2, <1>7, <1>8, <1>10, Pulling
  DEF IInv, PromoteInv, SyncFrame, Promoted, HoldsWriteLock, HoldsReadLock
<1> QED BY <1>10, <1>11, <1>12, <1>13, SyncFrameKeeps DEF IInv

LEMMA SyncEndStep == ASSUME IInv, SyncEnd PROVE IInv'
<1> DEFINE x == mem[Follower].lastApplied
<1>1. /\ TypeOK /\ sync.pc = "applying" /\ disk \in [Nodes -> Files] /\ Follower \in Nodes
      /\ mem' = mem /\ used' = used /\ engine' = engine
      /\ disk' = [disk EXCEPT ![Follower].cursor = x]
      /\ sync' = Idle /\ sync'.pc = "idle" /\ sync' \in SyncState
  BY DEF IInv, TypeOK, SyncEnd, SyncGoto, Nodes, Idle, SyncState
<1>2. HoldsReadLock BY <1>1 DEF HoldsReadLock
<1>3. x \in Nat BY <1>2, Pulling
<1> HIDE DEF x
<1>4. /\ disk' \in [Nodes -> Files] /\ \A o \in Nodes : o # Follower => disk'[o] = disk[o]
      /\ disk'[Follower].cursor = x /\ disk'[Follower].intent = disk[Follower].intent
      /\ disk'[Follower].final = disk[Follower].final
      /\ disk'[Follower].promotion = disk[Follower].promotion
      /\ disk'[Follower].baseline = disk[Follower].baseline
  BY <1>1, <1>3, CursorSaved
<1>5. SyncFrame BY <1>1, <1>4 DEF SyncFrame, SyncEnd, SyncGoto, Nodes
<1>6. TypeOK' BY <1>1, <1>4, <1>5 DEF TypeOK, SyncFrame
<1>7. AppliedInv' BY <1>1, <1>4, <1>5 DEF IInv, AppliedInv, SyncFrame, x
<1>8. PromoteInv'
  BY <1>1, <1>2, <1>4, <1>5, Pulling
  DEF IInv, PromoteInv, SyncFrame, Promoted, HoldsWriteLock, HoldsReadLock
<1> QED BY <1>5, <1>6, <1>7, <1>8, SyncFrameKeeps DEF IInv

----------------------------------------------------------------------------
(* Initial states, crashes and restarts                                    *)

LEMMA InitIInv == Init => IInv
<1> SUFFICES ASSUME Init PROVE IInv OBVIOUS
<1>1. \A n \in Nodes : disk[n] \in Files BY DEF Init, Files
<1>2. \A n \in Nodes : mem[n] \in Server BY DEF Init, Server, Down
<1>3. quiesce \in [Nodes -> QuiesceState] /\ promote \in PromoteState /\ sync \in SyncState
      /\ request \in [Requests -> RequestState]
  BY DEF Init, QuiesceState, PromoteState, SyncState, RequestState
<1>4. used \in Usage BY DEF Init, Usage
<1>5. disk \in [Nodes -> Files] /\ mem \in [Nodes -> Server] BY <1>1, <1>2 DEF Init
<1>6. TypeOK BY <1>3, <1>4, <1>5 DEF Init, TypeOK
<1>7. \A n \in Nodes : /\ disk[n].intent = None /\ disk[n].final = None
                       /\ disk[n].promotion = None /\ disk[n].baseline = None /\ disk[n].cursor = 0
                       /\ quiesce[n] = Idle /\ mem[n] = Down
  BY DEF Init
<1>8. Primary \in Nodes /\ Follower \in Nodes /\ Writing(Primary) = {} BY DEF Nodes, Init, Writing
<1>9. PrimaryInv BY <1>7, <1>8 DEF PrimaryInv, Idle, Down
<1>10. IssuedInv BY <1>7, <1>8 DEF Init, IssuedInv, Promoted
<1>11. AppliedInv BY <1>7, <1>8 DEF Init, AppliedInv, Down, Idle
<1>12. PromoteInv BY <1>7, <1>8 DEF Init, PromoteInv, Down, Idle, Promoted, HoldsReadLock, HoldsWriteLock
<1> QED BY <1>6, <1>9, <1>10, <1>11, <1>12 DEF IInv

LEMMA CrashStep == ASSUME IInv, NEW n \in Nodes, Crash(n) PROVE IInv'
<1>1. /\ TypeOK /\ mem \in [Nodes -> Server] /\ quiesce \in [Nodes -> QuiesceState]
      /\ request \in [Requests -> RequestState] /\ used' \in Usage
  BY Spent DEF IInv, TypeOK, Crash
<1>2. /\ mem' = [mem EXCEPT ![n] = Down] /\ quiesce' = [quiesce EXCEPT ![n] = Idle]
      /\ UNCHANGED <<disk, journal, engine, acked, issued>>
      /\ promote' \in {promote, Idle} /\ sync' \in {sync, Idle}
      /\ n = Follower => promote' = Idle /\ sync' = Idle
      /\ n # Follower => promote' = promote /\ sync' = sync
      /\ request' = [r \in Requests |-> IF r \in Writing(n) THEN Idle ELSE request[r]]
  BY DEF Crash
<1>3. Down \in Server /\ Idle \in QuiesceState /\ Idle \in PromoteState /\ Idle \in SyncState
      /\ Idle \in RequestState
  BY DEF Server, Down, QuiesceState, PromoteState, SyncState, RequestState
<1>4. /\ mem' \in [Nodes -> Server] /\ mem'[n] = Down
      /\ quiesce' \in [Nodes -> QuiesceState] /\ quiesce'[n] = Idle
      /\ \A o \in Nodes : o # n => mem'[o] = mem[o] /\ quiesce'[o] = quiesce[o]
      /\ request' \in [Requests -> RequestState]
      /\ promote' \in PromoteState /\ sync' \in SyncState
  BY <1>1, <1>2, <1>3 DEF TypeOK
<1>5. TypeOK' BY <1>1, <1>2, <1>4 DEF TypeOK
<1>6. Writing(n)' = {} /\ Writing(Primary)' \subseteq Writing(Primary)
  BY <1>2 DEF Writing
<1>7. IssuedInv' BY <1>2, <1>4 DEF IInv, IssuedInv, Promoted, Nodes
<1>8. CASE n = Primary
  <2>1. ~mem'[Primary].up /\ mem'[Primary].state = "active" /\ quiesce'[Primary].pc = "idle"
        /\ quiesce'[Primary] = Idle /\ Writing(Primary)' = {}
    BY <1>4, <1>6, <1>8 DEF Down, Idle
  <2>3. PrimaryInv' BY <1>2, <2>1 DEF IInv, PrimaryInv, LatestSeq, BaseOf
  <2>2. mem'[Follower] = mem[Follower] BY <1>4, <1>8 DEF Nodes
  <2>4. AppliedInv' BY <1>2, <1>8, <2>2, AppliedKept DEF IInv
  <2>5. PromoteInv' BY <1>2, <1>8, <2>2, PromoteKept DEF IInv
  <2> QED BY <1>5, <1>7, <2>3, <2>4, <2>5 DEF IInv
<1>9. CASE n = Follower
  <2>1. mem'[Primary] = mem[Primary] /\ quiesce'[Primary] = quiesce[Primary]
    BY <1>4, <1>9 DEF Nodes
  <2>2. PrimaryInv' BY <1>2, <1>6, <2>1, PrimaryKept DEF IInv
  <2>3. /\ ~mem'[Follower].up /\ mem'[Follower].lastApplied = 0 /\ mem'[Follower].role = "none"
        /\ sync' = Idle /\ promote' = Idle /\ sync'.pc = "idle" /\ promote'.pc = "idle"
    BY <1>2, <1>4, <1>9 DEF Down, Idle
  <2>4. Len(journal[Primary]) \in Nat BY <1>1, Types DEF Nodes
  <2>5. AppliedInv' BY <1>2, <2>3, <2>4 DEF IInv, AppliedInv
  <2>6. PromoteInv'
    BY <1>2, <2>3 DEF IInv, PromoteInv, Promoted, HoldsReadLock, HoldsWriteLock
  <2> QED BY <1>5, <1>7, <2>2, <2>5, <2>6 DEF IInv
<1> QED BY <1>8, <1>9 DEF Nodes

\* What a node is when it has started.
LEMMA OpenEffect ==
  ASSUME TypeOK, NEW n \in Nodes, Open(n)
  PROVE  /\ TypeOK' /\ ~mem[n].up /\ mem'[n].up /\ mem'[n].role = StartRole(n)
         /\ mem'[n].gate = (StartState(n) # "active") /\ mem'[n].state = StartState(n)
         /\ StartState(n) = "quiesced" => mem'[n].record = disk[n].final
         /\ StartState(n) = "fenced" => /\ mem'[n].record.id = disk[n].intent
                                        /\ mem'[n].record.seq = LatestSeq(n)
         /\ Promoted(n) => mem'[n].promotion = "promoted"
         /\ mem'[n].lastApplied \in {0, disk[n].cursor}
         /\ \A o \in Nodes : o # n => mem'[o] = mem[o] /\ disk'[o] = disk[o]
         /\ disk'[n].final = disk[n].final /\ disk'[n].promotion = disk[n].promotion
         /\ disk'[n].baseline = disk[n].baseline /\ disk'[n].cursor = disk[n].cursor
         /\ disk'[n].intent = IF StartState(n) = "quiesced" THEN None ELSE disk[n].intent
<1> DEFINE state == StartState(n)
           record == CASE state = "quiesced" -> disk[n].final
                       [] state = "fenced"   -> [id |-> disk[n].intent, seq |-> LatestSeq(n)]
                       [] OTHER -> None
           promoted == IF Promoted(n) THEN "promoted" ELSE "none"
           applied  == IF StartRole(n) = "follower" THEN disk[n].cursor ELSE 0
           server   == [up |-> TRUE, role |-> StartRole(n), gate |-> state # "active",
                        state |-> state, record |-> record, promotion |-> promoted,
                        barrier |-> FALSE, lastApplied |-> applied]
<1>1. /\ disk[n] \in Files /\ LatestSeq(n) \in Nat /\ disk \in [Nodes -> Files]
      /\ mem \in [Nodes -> Server]
  BY Types
<1>2. state = "quiesced" => disk[n].final \in QRecord
  BY <1>1, FilesFields DEF StartState
<1>3. state = "fenced" => disk[n].intent \in Nat
  BY <1>1, FilesFields DEF StartState
<1>4. state \in {"active", "fenced", "quiesced"} BY DEF StartState
<1>5. StartRole(n) \in {"primary", "follower"} BY DEF StartRole
<1>6. promoted \in {"none", "promoted"} /\ (Promoted(n) => promoted = "promoted") OBVIOUS
<1>7. applied \in {0, disk[n].cursor} /\ applied \in Nat BY <1>1, FilesFields
<1>8. /\ mem' = [mem EXCEPT ![n] = server] /\ ~mem[n].up
      /\ disk' = IF state = "quiesced" THEN [disk EXCEPT ![n].intent = None] ELSE disk
      /\ UNCHANGED <<journal, engine, quiesce, promote, sync, request, acked, issued, used>>
  BY DEF Open
<1>9. /\ record \in {None} \cup QRecord /\ (state # "active" => record # None)
      /\ (state = "quiesced" => record = disk[n].final)
      /\ (state = "fenced" => record.id = disk[n].intent /\ record.seq = LatestSeq(n))
  <2> HIDE DEF state
  <2>1. CASE state = "quiesced" BY <1>2, <2>1, RecordFields
  <2>2. CASE state = "fenced"
    <3>1. record = [id |-> disk[n].intent, seq |-> LatestSeq(n)] BY <2>2
    <3>2. record \in QRecord BY <1>1, <1>3, <2>2, <3>1 DEF QRecord
    <3> QED BY <2>2, <3>1, <3>2, RecordFields
  <2>3. CASE state = "active" BY <2>3
  <2> QED BY <1>4, <2>1, <2>2, <2>3
<1>10. /\ server.up /\ server.role = StartRole(n) /\ server.gate = (state # "active")
       /\ server.state = state /\ server.record = record /\ server.promotion = promoted
       /\ server.lastApplied = applied
  OBVIOUS
<1>11. server \in Server
  <2> HIDE DEF state, record, promoted, applied
  <2> QED BY <1>4, <1>5, <1>6, <1>7, <1>9 DEF Server
<1> HIDE DEF state, record, promoted, applied, server
<1>12. /\ mem' \in [Nodes -> Server] /\ mem'[n] = server
       /\ \A o \in Nodes : o # n => mem'[o] = mem[o]
  BY <1>1, <1>8, <1>11
<1>13. /\ disk' \in [Nodes -> Files] /\ \A o \in Nodes : o # n => disk'[o] = disk[o]
       /\ disk'[n].final = disk[n].final /\ disk'[n].promotion = disk[n].promotion
       /\ disk'[n].baseline = disk[n].baseline /\ disk'[n].cursor = disk[n].cursor
       /\ disk'[n].intent = IF state = "quiesced" THEN None ELSE disk[n].intent
  <2>1. CASE state = "quiesced"
    <3>1. disk' = [disk EXCEPT ![n].intent = None] /\ None \in {None} \cup Nat BY <1>8, <2>1
    <3>2. /\ disk' \in [Nodes -> Files] /\ \A o \in Nodes : o # n => disk'[o] = disk[o]
          /\ disk'[n].intent = None /\ disk'[n].final = disk[n].final
          /\ disk'[n].promotion = disk[n].promotion /\ disk'[n].baseline = disk[n].baseline
          /\ disk'[n].cursor = disk[n].cursor
      BY <1>1, <3>1, IntentSaved
    <3> QED BY <2>1, <3>2
  <2>2. CASE state # "quiesced" BY <1>1, <1>8, <2>2
  <2> QED BY <2>1, <2>2
<1>14. TypeOK' BY <1>8, <1>12, <1>13 DEF TypeOK
<1> QED BY <1>6, <1>7, <1>8, <1>9, <1>10, <1>12, <1>13, <1>14 DEF state

LEMMA OpenStep == ASSUME IInv, NEW n \in Nodes, Open(n) PROVE IInv'
<1>1. TypeOK BY DEF IInv
<1>2. /\ TypeOK' /\ ~mem[n].up /\ mem'[n].up /\ mem'[n].role = StartRole(n)
      /\ mem'[n].gate = (StartState(n) # "active") /\ mem'[n].state = StartState(n)
      /\ StartState(n) = "quiesced" => mem'[n].record = disk[n].final
      /\ StartState(n) = "fenced" => /\ mem'[n].record.id = disk[n].intent
                                     /\ mem'[n].record.seq = LatestSeq(n)
      /\ Promoted(n) => mem'[n].promotion = "promoted"
      /\ mem'[n].lastApplied \in {0, disk[n].cursor}
      /\ \A o \in Nodes : o # n => mem'[o] = mem[o] /\ disk'[o] = disk[o]
      /\ disk'[n].final = disk[n].final /\ disk'[n].promotion = disk[n].promotion
      /\ disk'[n].baseline = disk[n].baseline /\ disk'[n].cursor = disk[n].cursor
      /\ disk'[n].intent = IF StartState(n) = "quiesced" THEN None ELSE disk[n].intent
  BY <1>1, OpenEffect
<1>3. UNCHANGED <<journal, engine, quiesce, promote, sync, request, acked, issued, used>>
  BY DEF Open
<1>4. \A o \in Nodes : disk'[o].final = disk[o].final BY <1>2
<1>5. disk'[Follower].promotion = disk[Follower].promotion
      /\ disk'[Follower].baseline = disk[Follower].baseline
      /\ disk'[Follower].cursor = disk[Follower].cursor
  BY <1>2 DEF Nodes
<1>6. IssuedInv' BY <1>3, <1>4, <1>5, IssuedKept DEF IInv
<1>7. Writing(Primary)' = Writing(Primary) BY <1>3 DEF Writing
<1>8. CASE n = Primary
  <2>1. /\ disk[Primary].promotion = None /\ disk[Primary].baseline = None
        /\ quiesce[Primary] = Idle /\ quiesce[Primary].pc = "idle" /\ Writing(Primary) = {}
        /\ disk[Primary].final # None => /\ disk[Primary].final.seq = LatestSeq(Primary)
                                         /\ disk[Primary].intent \in {None, disk[Primary].final.id}
    BY <1>2, <1>8 DEF IInv, PrimaryInv, Idle
  <2>2. ~Promoted(Primary) /\ StartRole(Primary) = "primary" BY <2>1 DEF Promoted, StartRole
  <2>3. StartState(Primary) = IF disk[Primary].final # None THEN "quiesced"
                              ELSE IF disk[Primary].intent # None THEN "fenced" ELSE "active"
    BY <2>2 DEF StartState
  <2>4. LatestSeq(Primary)' = LatestSeq(Primary) BY <1>2, <1>3, <1>8 DEF LatestSeq, BaseOf
  <2>5. PrimaryInv' BY <1>2, <1>3, <1>7, <1>8, <2>1, <2>2, <2>3, <2>4 DEF PrimaryInv
  <2>6. mem'[Follower] = mem[Follower] BY <1>2, <1>8 DEF Nodes
  <2>7. AppliedInv' BY <1>3, <1>5, <2>6, AppliedKept DEF IInv
  <2>8. PromoteInv' BY <1>3, <1>5, <2>6, PromoteKept DEF IInv
  <2> QED BY <1>2, <1>6, <2>5, <2>7, <2>8 DEF IInv
<1>9. CASE n = Follower
  <2>1. mem'[Primary] = mem[Primary] /\ disk'[Primary] = disk[Primary]
    BY <1>2, <1>9 DEF Nodes
  <2>2. PrimaryInv' BY <1>3, <1>7, <2>1, PrimaryKept DEF IInv
  <2>3. sync = Idle /\ promote = Idle /\ sync.pc = "idle" /\ promote.pc = "idle"
    BY <1>2, <1>9 DEF IInv, PromoteInv, Idle
  <2>4. mem'[Follower].role = "primary" <=> Promoted(Follower)
    BY <1>2, <1>9 DEF StartRole
  <2>5. Len(journal[Primary]) \in Nat BY <1>1, Types DEF Nodes
  <2>6. AppliedInv' BY <1>2, <1>3, <1>5, <1>9, <2>3, <2>5 DEF IInv, AppliedInv
  <2>7. PromoteInv'
    BY <1>2, <1>3, <1>5, <1>9, <2>3, <2>4
    DEF IInv, PromoteInv, Promoted, HoldsReadLock, HoldsWriteLock
  <2> QED BY <1>2, <1>6, <2>2, <2>6, <2>7 DEF IInv
<1> QED BY <1>8, <1>9 DEF Nodes

----------------------------------------------------------------------------
(* The theorems                                                            *)

LEMMA NextIInv == IInv /\ [Next]_vars => IInv'
<1> SUFFICES ASSUME IInv, [Next]_vars PROVE IInv' OBVIOUS
<1>1. CASE UNCHANGED vars
  <2>1. /\ UNCHANGED <<disk, journal, engine, mem, quiesce, promote, sync, request, acked, issued, used>>
        /\ Writing(Primary)' = Writing(Primary)
    BY <1>1 DEF vars, nodeVars, Writing
  <2>2. TypeOK' BY <2>1 DEF IInv, TypeOK
  <2>3. PrimaryInv' BY <2>1, PrimaryKept DEF IInv
  <2>4. IssuedInv' BY <2>1, IssuedKept DEF IInv
  <2>5. AppliedInv' BY <2>1, AppliedKept DEF IInv
  <2>6. PromoteInv' BY <2>1, PromoteKept DEF IInv
  <2> QED BY <2>2, <2>3, <2>4, <2>5, <2>6 DEF IInv
<1>2. ASSUME NEW n \in Nodes, Open(n) \/ Crash(n) PROVE IInv' BY <1>2, OpenStep, CrashStep
<1>3. ASSUME NEW n \in Nodes, QuiesceStep(n) PROVE IInv'
  BY <1>3, QuiesceIntentStep, QuiesceGateStep, QuiesceSaveStep, QuiesceSaveFailsStep,
     QuiesceRetryStep, QuiesceEndStep, QuiesceAgainStep
  DEF QuiesceStep
<1>4. ASSUME NEW r \in Requests, WriteStep(r) PROVE IInv'
  BY <1>4, WriteEngineStep, WriteJournalStep, WriteJournalFailsStep DEF WriteStep
<1>5. CASE PromoteStep
  BY <1>5, PromoteBeginStep, PromoteLockStep, PromoteRevertsStep, PromoteBaselineStep,
     PromoteCommitStep, PromoteSwitchStep, PromoteFailsLateStep
  DEF PromoteStep
<1>6. CASE SyncStep
  BY <1>6, SyncBeginStep, SyncLockStep, SyncPullStep, SyncApplyStep, SyncFailsStep, SyncEndStep
  DEF SyncStep
<1> QED BY <1>1, <1>2, <1>3, <1>4, <1>5, <1>6 DEF Next

\* IInv holds in every reachable state, with any number of requests, of quiesces
\* of either node, of faults and of crashes of the two nodes.
THEOREM InductiveInvariant == Spec => []IInv
BY InitIInv, NextIInv, PTL DEF Spec

\* Every variable keeps its type.
THEOREM TypeCorrect == Spec => []TypeOK
<1>1. IInv => TypeOK BY DEF IInv
<1> QED BY <1>1, InductiveInvariant, PTL

\* An up node with a final record is fenced: the configured primary.
LEMMA Fenced ==
  ASSUME IInv, disk[Primary].final # None
  PROVE  /\ ~Writable(Primary) /\ Writing(Primary) = {}
         /\ disk[Primary].final.seq = LatestSeq(Primary) /\ LatestSeq(Primary) = Len(journal[Primary])
<1>1. ~Writable(Primary) BY DEF IInv, PrimaryInv, Writable, Serves
<1>2. LatestSeq(Primary) = Len(journal[Primary])
  <2>1. Len(journal[Primary]) \in Nat /\ disk[Primary].baseline = None
    BY Types DEF IInv, PrimaryInv, Nodes
  <2> QED BY <2>1 DEF LatestSeq, BaseOf
<1> QED BY <1>1, <1>2 DEF IInv, PrimaryInv

\* A promotion record is the final record of the primary.
LEMMA PromotedFenced ==
  ASSUME IInv, Promoted(Follower)
  PROVE  disk[Follower].promotion = disk[Primary].final /\ disk[Primary].final # None
BY DEF IInv, IssuedInv, Promoted

\* Never do both nodes take writes, and from the save of the promotion record on
\* (handlePromote's commit point) the old primary takes none, across all crashes
\* and restarts and although nobody stopped it.
THEOREM AtMostOneWritableAlways == Spec => []AtMostOneWritable
<1>1. IInv => AtMostOneWritable
  <2> SUFFICES ASSUME IInv PROVE AtMostOneWritable OBVIOUS
  <2>1. Promoted(Follower) => ~Writable(Primary) BY PromotedFenced, Fenced
  <2>2. Writable(Follower) => Promoted(Follower)
    BY DEF IInv, PromoteInv, Writable, Serves
  <2> QED BY <2>1, <2>2 DEF AtMostOneWritable
<1> QED BY <1>1, InductiveInvariant, PTL

\* A promoted follower holds every acknowledged write that the old primary's
\* journal took: the check of the cursors in handlePromote, under the lock that
\* excludes pulls, loses nothing.
THEOREM PromotedCompleteAlways == Spec => []PromotedComplete
<1>1. IInv => PromotedComplete
  <2> SUFFICES ASSUME IInv, Promoted(Follower) PROVE acked \cap Journaled \subseteq engine[Follower]
    BY DEF PromotedComplete
  <2>1. disk[Follower].cursor = disk[Primary].final.seq
    BY PromotedFenced DEF IInv, PromoteInv
  <2>2. disk[Follower].cursor = Len(journal[Primary]) BY <2>1, PromotedFenced, Fenced
  <2> QED BY <2>2 DEF IInv, AppliedInv, Journaled
<1> QED BY <1>1, InductiveInvariant, PTL

\* resolveRuntimeRole and the checks of Open accept the files that any crash in
\* the middle of a quiesce, a promotion or a pull leaves behind.
THEOREM StartupResolvesAlways == Spec => []StartupResolves
<1>1. IInv => StartupResolves
  <2> SUFFICES ASSUME IInv PROVE StartupOK(Primary) /\ StartupOK(Follower)
    BY DEF StartupResolves, Nodes
  <2>1. StartupOK(Primary) BY DEF IInv, PrimaryInv, StartupOK, Promoted
  <2>2. StartupOK(Follower)
    <3>1. CASE Promoted(Follower) BY <3>1 DEF IInv, PromoteInv, StartupOK
    <3>2. CASE ~Promoted(Follower) BY <3>2 DEF StartupOK, StartRole
    <3> QED BY <3>1, <3>2
  <2> QED BY <2>1, <2>2
<1> QED BY <1>1, InductiveInvariant, PTL

\* A primary with a final record on disk takes no write again and the record names
\* the end of its journal.  The hypothesis: only the configured primary is asked
\* to quiesce (a promoted node that is quiesced and restarted takes writes again,
\* because resolveRuntimeRole looks at the promotion record first).
THEOREM QuiesceIsFinalAlways ==
  ASSUME QuiesceNodes \subseteq {Primary}
  PROVE  Spec => []QuiesceIsFinal
<1>1. IInv => QuiesceIsFinal
  <2> SUFFICES ASSUME IInv, NEW n \in Nodes, disk[n].final # None
               PROVE  ~Writable(n) /\ Writing(n) = {} /\ disk[n].final.seq = LatestSeq(n)
    BY DEF QuiesceIsFinal
  <2>1. n = Primary BY DEF IInv, IssuedInv, Nodes
  <2> QED BY <2>1, Fenced
<1> QED BY <1>1, InductiveInvariant, PTL

\* However often handleQuiesce is asked, fails, is retried or the node restarts,
\* it answers one record only.
THEOREM OneQuiesceRecordAlways ==
  ASSUME QuiesceNodes \subseteq {Primary}
  PROVE  Spec => []OneQuiesceRecord
<1>1. IInv => OneQuiesceRecord
  <2> SUFFICES ASSUME IInv, NEW i \in issued, NEW j \in issued, i.node = j.node PROVE i = j
    BY DEF OneQuiesceRecord
  <2>1. i.node = Primary /\ j.node = Primary /\ i.record = j.record BY DEF IInv, IssuedInv
  <2>2. i \in [node : Nodes, record : QRecord] /\ j \in [node : Nodes, record : QRecord]
    BY DEF IInv, TypeOK
  <2> QED BY <2>1, <2>2
<1> QED BY <1>1, InductiveInvariant, PTL
=============================================================================
