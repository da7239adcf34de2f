----------------------- MODULE ReplicaSyncProofs ----------------------------
(***************************************************************************)
(* Proofs about pull replication (module ReplicaSync): for any number of   *)
(* keys, of write and apply requests, of faults and of crashes.            *)
(*                                                                         *)
(* The inductive invariant IInv.  On the follower (EngineInv): as long as  *)
(* callers take turns, the engine holds what the entries up to Reached     *)
(* make, but for keys that an entry applied before, and yet to be passed   *)
(* again after a restart, writes.  A restart that goes back to the cursor  *)
(* keeps this, since the entries between the two are all among those       *)
(* applied (CursorCovered).  On the primary (MirrorInv): with one writer   *)
(* the journal makes the engine's dictionary but for the write in flight.  *)
(*                                                                         *)
(* The last section is about the worker that pulls (BackgroundSync).       *)
(***************************************************************************)
EXTENDS ReplicaSync, BackgroundSync, SequenceTheorems, WellFoundedInduction, TLAPS

----------------------------------------------------------------------------
(* Extrema of sets of numbers; replaying a journal                         *)

\* A set of naturals has a least element.
LEMMA LeastNat ==
  ASSUME NEW T, T \subseteq Nat, T # {}
  PROVE  \E x \in T : \A y \in T : x <= y
<1>1. PICK x \in T : \A y \in T : <<y, x>> \notin OpToRel(<, Nat)
  BY NatLessThanWellFounded, WFMin
<1>2. \A y \in T : ~(y < x) BY <1>1 DEF OpToRel
<1> QED BY <1>2

\* Min finds the least element.
LEMMA MinFound ==
  ASSUME NEW S, S \subseteq Nat, S # {}
  PROVE  Min(S) \in S /\ \A y \in S : Min(S) <= y
BY LeastNat DEF Min

\* A bounded set of naturals has a greatest one, and Max finds it.
LEMMA MaxBounds ==
  ASSUME NEW S, NEW n \in Nat, S \subseteq 0..n, S # {}
  PROVE  Max(S) \in S /\ \A y \in S : y <= Max(S)
<1> DEFINE T == {n - x : x \in S}
<1>1. T \subseteq Nat /\ T # {} OBVIOUS
<1>2. PICK d \in T : \A e \in T : d <= e BY <1>1, LeastNat
<1>3. PICK x \in S : d = n - x BY <1>2
<1>4. \A y \in S : y <= x
  <2> TAKE y \in S
  <2>1. n - y \in T OBVIOUS
  <2>2. n - x <= n - y BY <2>1, <1>2, <1>3
  <2> QED BY <2>2
<1>5. \E z \in S : \A y \in S : z >= y BY <1>4
<1> QED BY <1>5 DEF Max

\* What the first n entries make of a key is the value of the last that writes it.
LEMMA ReplayHit ==
  ASSUME NEW log, NEW n \in Nat \ {0}, NEW k \in Keys, log[n].key = k
  PROVE  Replay(log, n)[k] = log[n].value
<1> DEFINE writes == {i \in 1..n : log[i].key = k}
<1>1. n \in writes /\ writes \subseteq 0..n /\ writes # {} OBVIOUS
<1>2. Max(writes) \in writes /\ \A y \in writes : y <= Max(writes)
  <2> HIDE DEF writes
  <2> QED BY <1>1, MaxBounds
<1>3. Max(writes) = n BY <1>1, <1>2
<1>4. Replay(log, n)[k] = IF writes = {} THEN Nil ELSE log[Max(writes)].value BY DEF Replay
<1> QED BY <1>1, <1>3, <1>4

\* Entries of other keys make no difference, and two journals that agree on
\* their first entries make the same of them.
LEMMA ReplaySame ==
  ASSUME NEW log, NEW log2, NEW m \in Nat, NEW n \in Nat, m <= n, NEW k \in Keys,
         \A i \in 1..m : log2[i] = log[i],
         \A i \in m + 1..n : log2[i].key # k
  PROVE  Replay(log2, n)[k] = Replay(log, m)[k]
<1> DEFINE writes  == {i \in 1..m : log[i].key = k}
           writes2 == {i \in 1..n : log2[i].key = k}
<1>1. writes = writes2 OBVIOUS
<1>2. /\ Replay(log, m)[k] = IF writes = {} THEN Nil ELSE log[Max(writes)].value
      /\ Replay(log2, n)[k] = IF writes2 = {} THEN Nil ELSE log2[Max(writes2)].value
  BY DEF Replay
<1>3. ASSUME writes # {} PROVE log2[Max(writes)] = log[Max(writes)]
  <2>1. writes \subseteq 0..m OBVIOUS
  <2>2. Max(writes) \in writes
    <3> HIDE DEF writes
    <3> QED BY <1>3, <2>1, MaxBounds
  <2> QED BY <2>2
<1> HIDE DEF writes, writes2
<1> QED BY <1>1, <1>2, <1>3

\* Replay makes a dictionary.
LEMMA ReplayType ==
  ASSUME NEW log, NEW n
  PROVE  Replay(log, n) = [k \in Keys |-> Replay(log, n)[k]]
BY DEF Replay

\* The states of a caller, field by field.
LEMMA CallerFields ==
  ASSUME NEW s \in CallerState
  PROVE  /\ s.pc \in {"idle", "pulling", "received", "applying", "advancing"}
         /\ s.pc = "pulling" => s.after \in Nat
         /\ s.pc \in {"received", "applying", "advancing"} => s.next \in Nat \ {0} /\ s.to \in Nat
         /\ s.pc \in {"applying", "advancing"} =>
              /\ s.last \in Nat
              /\ s = [pc |-> s.pc, next |-> s.next, to |-> s.to, last |-> s.last]
BY DEF CallerState, IdleCaller

\* The states that the actions give a caller.
LEMMA CallerMade ==
  ASSUME NEW n \in Nat, NEW m \in Nat \ {0}, NEW t \in Nat
  PROVE  /\ IdleCaller \in CallerState
         /\ [pc |-> "pulling", after |-> n] \in CallerState
         /\ [pc |-> "received", next |-> m, to |-> t] \in CallerState
         /\ [pc |-> "applying", next |-> m, to |-> t, last |-> n] \in CallerState
         /\ [pc |-> "advancing", next |-> m, to |-> t, last |-> n] \in CallerState
BY DEF CallerState, IdleCaller

\* The states of a write request, field by field.
LEMMA WriterFields ==
  ASSUME NEW s \in WriterState
  PROVE  /\ s.pc \in {"idle", "journal"}
         /\ s.pc = "journal" => s.key \in Keys /\ s.value \in Datum
BY DEF WriterState, IdleWriter

\* The states that the actions give a write request.
LEMMA WriterMade ==
  ASSUME NEW k \in Keys, NEW v \in Datum
  PROVE  /\ IdleWriter \in WriterState
         /\ [pc |-> "journal", key |-> k, value |-> v] \in WriterState
BY DEF WriterState, IdleWriter

\* A bound used up a little more.
LEMMA SpendStep ==
  ASSUME used \in Usage, NEW bound \in {"writes", "explains", "journalFaults", "faults",
                                        "primaryCrashes", "followerCrashes"},
         NEW max, Spend(bound, max)
  PROVE  /\ used' \in Usage
         /\ used'[bound] = used[bound] + 1 /\ used[bound] \in Nat
         /\ \A b \in {"writes", "explains", "journalFaults", "faults",
                      "primaryCrashes", "followerCrashes"} \ {bound} : used'[b] = used[b]
BY DEF Spend, Usage

----------------------------------------------------------------------------
(* The primary                                                             *)

\* The entries that the journal had stay where they are.
JournalGrows ==
  /\ Len(journal) <= Len(journal')
  /\ \A i \in 1..Len(journal) : journal'[i] = journal[i]

\* The entry that the present pass has reached is one of the journal's.
LEMMA ReachedRange ==
  ASSUME TypeOK, CallerInv, EngineInv, ~mixed
  PROVE  Reached \in 0..Len(journal)
<1>1. lastApplied \in 0..Len(journal) /\ applied \subseteq 1..Len(journal) /\ Len(journal) \in Nat
  BY LenProperties DEF TypeOK, Seqs
<1>2. CASE \E c \in Callers : caller[c].pc = "advancing"
  <2>1. PICK c \in Callers : caller[c].pc = "advancing" BY <1>2
  <2>2. c \in Active BY <2>1 DEF Active
  <2>3. caller[c].last = lastApplied BY <2>2 DEF EngineInv
  <2>4. caller[c].next = lastApplied + 1 /\ caller[c].next \in applied
    BY <2>1, <2>3 DEF CallerInv
  <2>5. Reached = lastApplied + 1 BY <1>2 DEF Reached
  <2> QED BY <1>1, <2>4, <2>5
<1>3. CASE ~\E c \in Callers : caller[c].pc = "advancing"
  BY <1>1, <1>3 DEF Reached
<1> QED BY <1>2, <1>3

\* Nothing on the follower is affected by what the primary does.
LEMMA FollowerKeeps ==
  ASSUME TypeOK, CallerInv, CursorCovered, EngineInv, JournalGrows, Len(journal') \in Nat,
         UNCHANGED followerVars
  PROVE  /\ CallerInv' /\ CursorCovered' /\ EngineInv'
         /\ fEngine' \in [Keys -> Datum] /\ caller' \in [Callers -> CallerState]
         /\ lastApplied' \in Seqs' /\ cursor' \in Seqs' /\ applied' \subseteq Seqs' \ {0}
         /\ mixed' \in BOOLEAN
<1>0. /\ fEngine' = fEngine /\ lastApplied' = lastApplied /\ cursor' = cursor
      /\ caller' = caller /\ applied' = applied /\ mixed' = mixed
  BY DEF followerVars, history
<1>1. /\ Len(journal) \in Nat /\ Seqs = 0..Len(journal) /\ Seqs' = 0..Len(journal')
      /\ Seqs \subseteq Seqs'
  BY LenProperties DEF TypeOK, Seqs, JournalGrows
<1>2. /\ applied \subseteq 1..Len(journal) /\ lastApplied \in Seqs /\ cursor \in Seqs
  BY <1>1 DEF TypeOK
<1>3. CallerInv'
  <2> HIDE DEF Seqs
  <2>1. Active' = Active BY <1>0 DEF Active
  <2> QED BY <1>0, <1>1, <2>1 DEF CallerInv
<1>4. CursorCovered' BY <1>0 DEF CursorCovered
<1>5. ASSUME ~mixed PROVE EngineInv'
  <2>1. Active' = Active BY <1>0 DEF Active
  <2>2. Reached' = Reached BY <1>0 DEF Reached
  <2>3. Reached \in 0..Len(journal) BY <1>5, ReachedRange
  <2>4. ASSUME NEW k \in Keys, \A i \in applied : i > Reached => journal'[i].key # k
        PROVE  fEngine[k] = Replay(journal', Reached)[k]
    <3>1. \A i \in applied : i > Reached => journal[i].key # k
      BY <1>2, <2>4 DEF JournalGrows
    <3>2. fEngine[k] = Replay(journal, Reached)[k] BY <1>5, <3>1 DEF EngineInv
    <3>3. \A i \in 1..Reached : journal'[i] = journal[i] BY <2>3 DEF JournalGrows
    <3>4. Replay(journal', Reached)[k] = Replay(journal, Reached)[k]
      BY <2>3, <3>3, ReplaySame
    <3> QED BY <3>2, <3>4
  <2>5. /\ cursor <= lastApplied
        /\ \A c, d \in Active : c = d
        /\ \A c \in Active : caller[c].last = lastApplied
    BY <1>5 DEF EngineInv
  <2> HIDE DEF Reached
  <2> QED BY <1>0, <2>1, <2>2, <2>4, <2>5 DEF EngineInv
<1>6. ASSUME mixed PROVE EngineInv' BY <1>0, <1>6 DEF EngineInv
<1> QED BY <1>0, <1>1, <1>2, <1>3, <1>4, <1>5, <1>6 DEF TypeOK

\* An entry appended to the journal.
LEMMA JournalAppended ==
  ASSUME TypeOK, NEW e \in Entry, journal' = Append(journal, e)
  PROVE  /\ JournalGrows /\ journal' \in Seq(Entry) /\ Len(journal') = Len(journal) + 1
         /\ Len(journal) \in Nat /\ Len(journal') \in Nat
         /\ journal'[Len(journal')] = e
<1>1. journal \in Seq(Entry) BY DEF TypeOK
<1>2. /\ Append(journal, e) \in Seq(Entry) /\ Len(Append(journal, e)) = Len(journal) + 1
      /\ \A i \in 1..Len(journal) : Append(journal, e)[i] = journal[i]
      /\ Append(journal, e)[Len(journal) + 1] = e
  BY <1>1, AppendProperties
<1>3. Len(journal) \in Nat BY <1>1, LenProperties
<1> QED BY <1>2, <1>3 DEF JournalGrows

\* A journal left alone.
LEMMA JournalSame ==
  ASSUME TypeOK, journal' = journal
  PROVE  JournalGrows /\ journal' \in Seq(Entry) /\ Len(journal') \in Nat
BY LenProperties DEF TypeOK, JournalGrows

----------------------------------------------------------------------------
\* A write reaches the engine: it is the one in flight.
LEMMA WriteEngineStep ==
  ASSUME IInv, NEW w \in Writers, NEW k \in Keys, NEW v \in Datum, WriteEngine(w, k, v)
  PROVE  IInv'
<1>0. TypeOK /\ CallerInv /\ CursorCovered /\ EngineInv /\ MirrorInv BY DEF IInv
<1>1. /\ writer[w].pc = "idle" /\ journal' = journal /\ poisoned' = poisoned
      /\ pEngine' = [pEngine EXCEPT ![k] = v]
      /\ writer' = [writer EXCEPT ![w] = [pc |-> "journal", key |-> k, value |-> v]]
      /\ UNCHANGED followerVars
      /\ Spend("writes", MaxWrites)
  BY DEF WriteEngine
<1>2. /\ pEngine \in [Keys -> Datum] /\ writer \in [Writers -> WriterState]
      /\ poisoned \in BOOLEAN /\ used \in Usage
  BY <1>0 DEF TypeOK
<1>3. /\ used' \in Usage /\ used'.explains = used.explains
      /\ used'.journalFaults = used.journalFaults
      /\ used'.primaryCrashes = used.primaryCrashes
  <2>1. /\ used' \in Usage
        /\ \A b \in {"writes", "explains", "journalFaults", "faults",
                     "primaryCrashes", "followerCrashes"} \ {"writes"} : used'[b] = used[b]
    BY <1>1, <1>2, SpendStep
  <2> QED BY <2>1
<1>4. JournalGrows /\ journal' \in Seq(Entry) /\ Len(journal') \in Nat
  BY <1>0, <1>1, JournalSame
<1>5. /\ pEngine' \in [Keys -> Datum] /\ writer' \in [Writers -> WriterState]
  <2>1. [pc |-> "journal", key |-> k, value |-> v] \in WriterState BY WriterMade
  <2> QED BY <1>1, <1>2, <2>1
<1>6. MirrorInv'
  <2>1. poisoned' => used'.journalFaults > 0 BY <1>0, <1>1, <1>3 DEF MirrorInv
  <2>2. ASSUME \A x, y \in Writers : x = y,
               used.explains = 0 /\ used.journalFaults = 0 /\ used.primaryCrashes = 0
        PROVE  /\ \A x \in Writers : writer'[x].pc = "journal" => pEngine'[writer'[x].key] = writer'[x].value
               /\ \A l \in Keys : (\A x \in Writers : writer'[x].pc = "journal" => writer'[x].key # l)
                                  => pEngine'[l] = Replay(journal', Len(journal'))[l]
    <3>1. \A x \in Writers : x = w BY <2>2
    <3>2. writer'[w] = [pc |-> "journal", key |-> k, value |-> v] BY <1>1, <1>2
    <3>3. pEngine'[k] = v BY <1>1, <1>2
    <3>4. ASSUME NEW l \in Keys, l # k PROVE pEngine'[l] = Replay(journal', Len(journal'))[l]
      <4>1. pEngine'[l] = pEngine[l] BY <1>1, <1>2, <3>4
      <4>2. \A x \in Writers : writer[x].pc = "journal" => writer[x].key # l BY <1>1, <3>1
      <4>3. pEngine[l] = Replay(journal, Len(journal))[l] BY <1>0, <2>2, <4>2 DEF MirrorInv
      <4> QED BY <1>1, <4>1, <4>3
    <3> QED BY <3>1, <3>2, <3>3, <3>4
  <2> QED BY <1>3, <2>1, <2>2 DEF MirrorInv
<1>7. /\ CallerInv' /\ CursorCovered' /\ EngineInv'
      /\ fEngine' \in [Keys -> Datum] /\ caller' \in [Callers -> CallerState]
      /\ lastApplied' \in Seqs' /\ cursor' \in Seqs' /\ applied' \subseteq Seqs' \ {0}
      /\ mixed' \in BOOLEAN
  BY <1>0, <1>1, <1>4, FollowerKeeps
<1>8. TypeOK' BY <1>1, <1>2, <1>3, <1>4, <1>5, <1>7 DEF TypeOK
<1> QED BY <1>6, <1>7, <1>8 DEF IInv

\* A write reaches the journal: its entry is the last of its key.
LEMMA WriteJournalStep ==
  ASSUME IInv, NEW w \in Writers, WriteJournal(w)
  PROVE  IInv'
<1>0. TypeOK /\ CallerInv /\ CursorCovered /\ EngineInv /\ MirrorInv BY DEF IInv
<1>1. PICK e : e = [key |-> writer[w].key, value |-> writer[w].value] OBVIOUS
<1>2. /\ writer[w].pc = "journal" /\ journal' = Append(journal, e)
      /\ writer' = [writer EXCEPT ![w] = IdleWriter]
      /\ poisoned' = poisoned /\ pEngine' = pEngine /\ used' = used
      /\ UNCHANGED followerVars
  BY <1>1 DEF WriteJournal, EndWrite
<1>3. /\ pEngine \in [Keys -> Datum] /\ writer \in [Writers -> WriterState]
      /\ poisoned \in BOOLEAN /\ used \in Usage
  BY <1>0 DEF TypeOK
<1>4. writer[w].key \in Keys /\ writer[w].value \in Datum BY <1>2, <1>3, WriterFields
<1>5. /\ e \in Entry /\ e.key = writer[w].key /\ e.value = writer[w].value
  BY <1>1, <1>4 DEF Entry
<1>6. /\ JournalGrows /\ journal' \in Seq(Entry) /\ Len(journal') = Len(journal) + 1
      /\ Len(journal) \in Nat /\ Len(journal') \in Nat
      /\ journal'[Len(journal')] = e
  BY <1>0, <1>2, <1>5, JournalAppended
<1>7. writer' \in [Writers -> WriterState]
  <2>1. IdleWriter \in WriterState BY DEF WriterState
  <2> QED BY <1>2, <1>3, <2>1
<1>8. MirrorInv'
  <2>1. poisoned' => used'.journalFaults > 0 BY <1>0, <1>2 DEF MirrorInv
  <2>2. ASSUME \A x, y \in Writers : x = y,
               used.explains = 0 /\ used.journalFaults = 0 /\ used.primaryCrashes = 0
        PROVE  /\ \A x \in Writers : writer'[x].pc = "journal" => pEngine'[writer'[x].key] = writer'[x].value
               /\ \A l \in Keys : (\A x \in Writers : writer'[x].pc = "journal" => writer'[x].key # l)
                                  => pEngine'[l] = Replay(journal', Len(journal'))[l]
    <3>1. \A x \in Writers : x = w BY <2>2
    <3>2. writer'[w].pc = "idle" BY <1>2, <1>3 DEF IdleWriter
    <3>3. /\ pEngine[writer[w].key] = writer[w].value
          /\ \A l \in Keys : l # writer[w].key => pEngine[l] = Replay(journal, Len(journal))[l]
      BY <1>0, <1>2, <2>2, <3>1 DEF MirrorInv
    <3>4. ASSUME NEW l \in Keys PROVE pEngine[l] = Replay(journal', Len(journal'))[l]
      <4>1. ASSUME l = writer[w].key PROVE pEngine[l] = Replay(journal', Len(journal'))[l]
        <5>1. Len(journal') \in Nat \ {0} /\ journal'[Len(journal')].key = l
          BY <1>5, <1>6, <4>1
        <5>2. Replay(journal', Len(journal'))[l] = journal'[Len(journal')].value
          BY <5>1, ReplayHit
        <5> QED BY <1>5, <1>6, <3>3, <4>1, <5>2
      <4>2. ASSUME l # writer[w].key PROVE pEngine[l] = Replay(journal', Len(journal'))[l]
        <5>1. \A i \in Len(journal) + 1..Len(journal') : journal'[i].key # l
          BY <1>5, <1>6, <4>2
        <5>2. \A i \in 1..Len(journal) : journal'[i] = journal[i] BY <1>6 DEF JournalGrows
        <5>3. Len(journal) <= Len(journal') BY <1>6
        <5>4. Replay(journal', Len(journal'))[l] = Replay(journal, Len(journal))[l]
          BY <1>6, <5>1, <5>2, <5>3, ReplaySame
        <5> QED BY <3>3, <4>2, <5>4
      <4> QED BY <4>1, <4>2
    <3> QED BY <1>2, <3>1, <3>2, <3>4
  <2> QED BY <1>2, <2>1, <2>2 DEF MirrorInv
<1>9. /\ CallerInv' /\ CursorCovered' /\ EngineInv'
      /\ fEngine' \in [Keys -> Datum] /\ caller' \in [Callers -> CallerState]
      /\ lastApplied' \in Seqs' /\ cursor' \in Seqs' /\ applied' \subseteq Seqs' \ {0}
      /\ mixed' \in BOOLEAN
  BY <1>0, <1>2, <1>6, FollowerKeeps
<1>10. TypeOK' BY <1>2, <1>3, <1>6, <1>7, <1>9 DEF TypeOK
<1> QED BY <1>8, <1>9, <1>10 DEF IInv

\* An append that fails is counted.
LEMMA WriteJournalFailsStep ==
  ASSUME IInv, NEW w \in Writers, WriteJournalFails(w)
  PROVE  IInv'
<1>0. TypeOK /\ CallerInv /\ CursorCovered /\ EngineInv /\ MirrorInv BY DEF IInv
<1>1. /\ writer' = [writer EXCEPT ![w] = IdleWriter]
      /\ journal' = journal /\ pEngine' = pEngine /\ UNCHANGED followerVars
  BY DEF WriteJournalFails, EndWrite
<1>2. /\ pEngine \in [Keys -> Datum] /\ writer \in [Writers -> WriterState]
      /\ poisoned \in BOOLEAN /\ used \in Usage
  BY <1>0 DEF TypeOK
<1>3. used' \in Usage /\ poisoned' \in BOOLEAN /\ used'.journalFaults > 0
  <2>1. CASE poisoned /\ UNCHANGED <<poisoned, used>>
    BY <1>0, <1>2, <2>1 DEF MirrorInv
  <2>2. CASE poisoned' \in BOOLEAN /\ Spend("journalFaults", MaxJournalFaults)
    <3>1. used' \in Usage /\ used'["journalFaults"] = used["journalFaults"] + 1
          /\ used["journalFaults"] \in Nat
      BY <1>2, <2>2, SpendStep
    <3> QED BY <2>2, <3>1
  <2> QED BY <2>1, <2>2 DEF WriteJournalFails
<1>4. MirrorInv' BY <1>3 DEF MirrorInv
<1>5. writer' \in [Writers -> WriterState]
  <2>1. IdleWriter \in WriterState BY DEF WriterState
  <2> QED BY <1>1, <1>2, <2>1
<1>6. JournalGrows /\ journal' \in Seq(Entry) /\ Len(journal') \in Nat
  BY <1>0, <1>1, JournalSame
<1>7. /\ CallerInv' /\ CursorCovered' /\ EngineInv'
      /\ fEngine' \in [Keys -> Datum] /\ caller' \in [Callers -> CallerState]
      /\ lastApplied' \in Seqs' /\ cursor' \in Seqs' /\ applied' \subseteq Seqs' \ {0}
      /\ mixed' \in BOOLEAN
  BY <1>0, <1>1, <1>6, FollowerKeeps
<1>8. TypeOK' BY <1>1, <1>2, <1>3, <1>5, <1>6, <1>7 DEF TypeOK
<1> QED BY <1>4, <1>7, <1>8 DEF IInv

\* A write that is not journaled is counted.
LEMMA ExplainWriteStep ==
  ASSUME IInv, NEW k \in Keys, NEW v \in Datum, ExplainWrite(k, v)
  PROVE  IInv'
<1>0. TypeOK /\ CallerInv /\ CursorCovered /\ EngineInv /\ MirrorInv BY DEF IInv
<1>1. /\ pEngine' = [pEngine EXCEPT ![k] = v] /\ Spend("explains", MaxExplains)
      /\ journal' = journal /\ poisoned' = poisoned /\ writer' = writer
      /\ UNCHANGED followerVars
  BY DEF ExplainWrite
<1>2. /\ pEngine \in [Keys -> Datum] /\ writer \in [Writers -> WriterState]
      /\ poisoned \in BOOLEAN /\ used \in Usage
  BY <1>0 DEF TypeOK
<1>3. used' \in Usage /\ used'.explains > 0 /\ used'.journalFaults = used.journalFaults
  <2>1. /\ used' \in Usage /\ used'["explains"] = used["explains"] + 1 /\ used["explains"] \in Nat
        /\ \A b \in {"writes", "explains", "journalFaults", "faults",
                     "primaryCrashes", "followerCrashes"} \ {"explains"} : used'[b] = used[b]
    BY <1>1, <1>2, SpendStep
  <2> QED BY <2>1
<1>4. MirrorInv' BY <1>0, <1>1, <1>3 DEF MirrorInv
<1>5. pEngine' \in [Keys -> Datum] BY <1>1, <1>2
<1>6. JournalGrows /\ journal' \in Seq(Entry) /\ Len(journal') \in Nat
  BY <1>0, <1>1, JournalSame
<1>7. /\ CallerInv' /\ CursorCovered' /\ EngineInv'
      /\ fEngine' \in [Keys -> Datum] /\ caller' \in [Callers -> CallerState]
      /\ lastApplied' \in Seqs' /\ cursor' \in Seqs' /\ applied' \subseteq Seqs' \ {0}
      /\ mixed' \in BOOLEAN
  BY <1>0, <1>1, <1>6, FollowerKeeps
<1>8. TypeOK' BY <1>1, <1>2, <1>3, <1>5, <1>6, <1>7 DEF TypeOK
<1> QED BY <1>4, <1>7, <1>8 DEF IInv

\* A crash is counted, and closes the poisoned log.
LEMMA PrimaryCrashStep ==
  ASSUME IInv, PrimaryCrash
  PROVE  IInv'
<1>0. TypeOK /\ CallerInv /\ CursorCovered /\ EngineInv /\ MirrorInv BY DEF IInv
<1>1. /\ writer' = [w \in Writers |-> IdleWriter] /\ poisoned' = FALSE
      /\ Spend("primaryCrashes", MaxPrimaryCrashes)
      /\ journal' = journal /\ pEngine' = pEngine /\ UNCHANGED followerVars
  BY DEF PrimaryCrash
<1>2. /\ pEngine \in [Keys -> Datum] /\ used \in Usage
  BY <1>0 DEF TypeOK
<1>3. used' \in Usage /\ used'.primaryCrashes > 0
  <2>1. /\ used' \in Usage /\ used'["primaryCrashes"] = used["primaryCrashes"] + 1
        /\ used["primaryCrashes"] \in Nat
    BY <1>1, <1>2, SpendStep
  <2> QED BY <2>1
<1>4. MirrorInv' BY <1>1, <1>3 DEF MirrorInv
<1>5. writer' \in [Writers -> WriterState]
  <2>1. IdleWriter \in WriterState BY DEF WriterState
  <2> QED BY <1>1, <2>1
<1>6. JournalGrows /\ journal' \in Seq(Entry) /\ Len(journal') \in Nat
  BY <1>0, <1>1, JournalSame
<1>7. /\ CallerInv' /\ CursorCovered' /\ EngineInv'
      /\ fEngine' \in [Keys -> Datum] /\ caller' \in [Callers -> CallerState]
      /\ lastApplied' \in Seqs' /\ cursor' \in Seqs' /\ applied' \subseteq Seqs' \ {0}
      /\ mixed' \in BOOLEAN
  BY <1>0, <1>1, <1>6, FollowerKeeps
<1>8. TypeOK' BY <1>1, <1>2, <1>3, <1>5, <1>6, <1>7 DEF TypeOK
<1> QED BY <1>4, <1>7, <1>8 DEF IInv

----------------------------------------------------------------------------
(* The follower                                                            *)

\* Nothing on the primary is affected by what the follower does.
LEMMA PrimaryKeeps ==
  ASSUME TypeOK, MirrorInv, UNCHANGED primaryVars, used' \in Usage,
         /\ used'.explains = used.explains /\ used'.journalFaults = used.journalFaults
         /\ used'.primaryCrashes = used.primaryCrashes
  PROVE  /\ MirrorInv'
         /\ pEngine' \in [Keys -> Datum] /\ journal' \in Seq(Entry) /\ poisoned' \in BOOLEAN
         /\ writer' \in [Writers -> WriterState] /\ used' \in Usage
         /\ journal' = journal
<1>1. pEngine' = pEngine /\ journal' = journal /\ poisoned' = poisoned /\ writer' = writer
  BY DEF primaryVars
<1>2. MirrorInv' BY <1>1 DEF MirrorInv
<1> QED BY <1>1, <1>2 DEF TypeOK

\* What a fault, or a crash of the follower, uses up.
LEMMA FaultStep ==
  ASSUME TypeOK, Fault \/ Spend("followerCrashes", MaxFollowerCrashes) \/ UNCHANGED used
  PROVE  /\ used' \in Usage
         /\ used'.explains = used.explains /\ used'.journalFaults = used.journalFaults
         /\ used'.primaryCrashes = used.primaryCrashes
<1>1. used \in Usage BY DEF TypeOK
<1>2. CASE Fault
  <2>1. Spend("faults", MaxFaults) BY <1>2 DEF Fault
  <2>2. /\ used' \in Usage
        /\ \A b \in {"writes", "explains", "journalFaults", "faults",
                     "primaryCrashes", "followerCrashes"} \ {"faults"} : used'[b] = used[b]
    BY <1>1, <2>1, SpendStep
  <2> QED BY <2>2
<1>3. CASE Spend("followerCrashes", MaxFollowerCrashes)
  <2>2. /\ used' \in Usage
        /\ \A b \in {"writes", "explains", "journalFaults", "faults",
                     "primaryCrashes", "followerCrashes"} \ {"followerCrashes"} : used'[b] = used[b]
    BY <1>1, <1>3, SpendStep
  <2> QED BY <2>2
<1>4. CASE UNCHANGED used BY <1>1, <1>4
<1> QED BY <1>2, <1>3, <1>4

\* One caller takes a step.
LEMMA CallerStep ==
  ASSUME TypeOK, CallerInv, NEW c \in Callers, NEW s \in CallerState,
         caller' = [caller EXCEPT ![c] = s], journal' = journal, applied \subseteq applied',
         /\ s.pc = "pulling" => s.after \in Seqs
         /\ s.pc \in {"received", "applying", "advancing"} => s.to \in Seqs
         /\ s.pc \in {"applying", "advancing"} => s.last \in Seqs /\ 1..s.last \subseteq applied'
         /\ s.pc = "advancing" => s.next = s.last + 1 /\ s.next \in applied'
  PROVE  /\ CallerInv' /\ caller' \in [Callers -> CallerState]
         /\ caller'[c] = s /\ \A d \in Callers : d # c => caller'[d] = caller[d]
<1>1. caller \in [Callers -> CallerState] BY DEF TypeOK
<1>2. /\ caller' \in [Callers -> CallerState]
      /\ caller'[c] = s /\ \A d \in Callers : d # c => caller'[d] = caller[d]
  BY <1>1
<1>3. Seqs' = Seqs BY DEF Seqs
<1>4. s.pc \in {"idle", "pulling", "received", "applying", "advancing"} BY CallerFields
<1>5. ASSUME NEW d \in Callers
      PROVE  /\ caller'[d].pc = "pulling" => caller'[d].after \in Seqs
             /\ caller'[d].pc \notin {"idle", "pulling"} => caller'[d].to \in Seqs
             /\ caller'[d].pc \in {"applying", "advancing"} =>
                  caller'[d].last \in Seqs /\ 1..caller'[d].last \subseteq applied'
             /\ caller'[d].pc = "advancing" =>
                  caller'[d].next = caller'[d].last + 1 /\ caller'[d].next \in applied'
  <2>1. CASE d = c BY <1>2, <1>4, <2>1
  <2>2. CASE d # c
    <3>1. caller'[d] = caller[d] BY <1>2, <2>2
    <3>2. /\ caller[d].pc = "pulling" => caller[d].after \in Seqs
          /\ caller[d].pc \notin {"idle", "pulling"} => caller[d].to \in Seqs
          /\ caller[d].pc \in {"applying", "advancing"} =>
               caller[d].last \in Seqs /\ 1..caller[d].last \subseteq applied
          /\ caller[d].pc = "advancing" =>
               caller[d].next = caller[d].last + 1 /\ caller[d].next \in applied
      BY DEF CallerInv, Active
    <3> HIDE DEF Seqs
    <3> QED BY <3>1, <3>2
  <2> QED BY <2>1, <2>2
<1>6. CallerInv'
  <2> HIDE DEF Seqs
  <2> QED BY <1>3, <1>5 DEF CallerInv, Active
<1> QED BY <1>2, <1>6

\* A step of a caller that gives the engine nothing.
LEMMA EngineKeeps ==
  ASSUME TypeOK, EngineInv, NEW c \in Callers, NEW s \in CallerState,
         caller'[c] = s, \A d \in Callers : d # c => caller'[d] = caller[d],
         journal' = journal, fEngine' = fEngine, lastApplied' = lastApplied,
         applied' = applied, mixed' = mixed, ~mixed => cursor' <= lastApplied,
         caller[c].pc # "advancing", s.pc # "advancing",
         s.pc = "applying" => caller[c].pc = "applying" /\ s.last = caller[c].last
  PROVE  EngineInv'
<1>1. ASSUME ~mixed PROVE EngineInv'
  <2>1. /\ \A x, y \in Active : x = y
        /\ \A x \in Active : caller[x].last = lastApplied
        /\ \A k \in Keys : (\A i \in applied : i > Reached => journal[i].key # k)
                           => fEngine[k] = Replay(journal, Reached)[k]
    BY <1>1 DEF EngineInv
  <2>2. Active' \subseteq Active /\ \A x \in Active' : caller'[x].last = caller[x].last
    BY DEF Active
  <2>3. Reached' = Reached
    <3>1. (\E d \in Callers : caller'[d].pc = "advancing")
          <=> (\E d \in Callers : caller[d].pc = "advancing")
      OBVIOUS
    <3> QED BY <3>1 DEF Reached
  <2> HIDE DEF Reached, Active
  <2>4. \A x, y \in Active' : x = y BY <2>1, <2>2
  <2>5. \A x \in Active' : caller'[x].last = lastApplied' BY <2>1, <2>2
  <2> QED BY <1>1, <2>1, <2>3, <2>4, <2>5 DEF EngineInv
<1>2. ASSUME mixed PROVE EngineInv' BY <1>2 DEF EngineInv
<1> QED BY <1>1, <1>2

\* A step of a caller that changes nothing else, except what it counts.
LEMMA QuietStep ==
  ASSUME IInv, NEW c \in Callers, NEW s \in CallerState,
         Goto(c, s), UNCHANGED <<primaryVars, fEngine, lastApplied, cursor, history>>,
         Fault \/ UNCHANGED used,
         /\ s.pc = "pulling" => s.after \in Seqs
         /\ s.pc \in {"received", "applying", "advancing"} => s.to \in Seqs
         /\ s.pc \in {"applying", "advancing"} => s.last \in Seqs /\ 1..s.last \subseteq applied,
         caller[c].pc # "advancing", s.pc # "advancing",
         s.pc = "applying" => caller[c].pc = "applying" /\ s.last = caller[c].last
  PROVE  IInv'
<1>0. TypeOK /\ CallerInv /\ CursorCovered /\ EngineInv /\ MirrorInv BY DEF IInv
<1>1. /\ caller' = [caller EXCEPT ![c] = s] /\ UNCHANGED primaryVars
      /\ fEngine' = fEngine /\ lastApplied' = lastApplied /\ cursor' = cursor
      /\ applied' = applied /\ mixed' = mixed
  BY DEF Goto, history
<1>2. /\ used' \in Usage
      /\ used'.explains = used.explains /\ used'.journalFaults = used.journalFaults
      /\ used'.primaryCrashes = used.primaryCrashes
  BY <1>0, FaultStep
<1>3. /\ MirrorInv'
      /\ pEngine' \in [Keys -> Datum] /\ journal' \in Seq(Entry) /\ poisoned' \in BOOLEAN
      /\ writer' \in [Writers -> WriterState] /\ used' \in Usage
      /\ journal' = journal
  BY <1>0, <1>1, <1>2, PrimaryKeeps
<1>4. /\ CallerInv' /\ caller' \in [Callers -> CallerState]
      /\ caller'[c] = s /\ \A d \in Callers : d # c => caller'[d] = caller[d]
  <2> HIDE DEF Seqs
  <2> QED BY <1>0, <1>1, <1>3, CallerStep
<1>5. ~mixed => cursor' <= lastApplied BY <1>0, <1>1 DEF EngineInv
<1>6. EngineInv' BY <1>0, <1>1, <1>3, <1>4, <1>5, EngineKeeps
<1>7. CursorCovered' BY <1>0, <1>1 DEF CursorCovered
<1>8. Seqs' = Seqs BY <1>3 DEF Seqs
<1>9. TypeOK'
  <2> HIDE DEF Seqs
  <2> QED BY <1>0, <1>1, <1>3, <1>4, <1>8 DEF TypeOK
<1> QED BY <1>3, <1>4, <1>6, <1>7, <1>9 DEF IInv

----------------------------------------------------------------------------
(* The steps of the follower                                               *)

\* The sync reads its cursor.
LEMMA SyncBeginStep ==
  ASSUME IInv, SyncBegin
  PROVE  IInv'
<1>1. TypeOK BY DEF IInv
<1>2. PICK s : s = [pc |-> "pulling", after |-> lastApplied] OBVIOUS
<1>3. lastApplied \in Seqs /\ lastApplied \in Nat /\ Sync \in Callers
  BY <1>1 DEF TypeOK, Seqs, Callers
<1>4. s \in CallerState /\ s.pc = "pulling" /\ s.after = lastApplied BY <1>2, <1>3 DEF CallerState
<1>5. /\ caller[Sync].pc = "idle" /\ Goto(Sync, s)
      /\ UNCHANGED <<primaryVars, fEngine, lastApplied, cursor, history>> /\ UNCHANGED used
  BY <1>2 DEF SyncBegin
<1> HIDE DEF Seqs
<1> QED BY <1>3, <1>4, <1>5, QuietStep

\* An answer ends within the journal.
LEMMA SyncPulledStep ==
  ASSUME IInv, SyncPulled
  PROVE  IInv'
<1>1. TypeOK /\ CallerInv BY DEF IInv
<1>2. caller[Sync].pc = "pulling" /\ Sync \in Callers BY DEF SyncPulled, Callers
<1>3. caller[Sync].after \in Seqs BY <1>1, <1>2 DEF CallerInv
<1>4. Len(journal) \in Nat /\ caller[Sync].after \in Nat BY <1>1, <1>3, LenProperties DEF TypeOK, Seqs
<1>5. PICK t : t = Min({Len(journal), caller[Sync].after + BatchLimit}) OBVIOUS
<1>6. t \in Seqs
  <2>1. {Len(journal), caller[Sync].after + BatchLimit} \subseteq Nat
    BY <1>4, SyncAssumption
  <2>2. /\ t \in {Len(journal), caller[Sync].after + BatchLimit}
        /\ t <= Len(journal)
    BY <1>5, <2>1, MinFound
  <2> QED BY <1>4, <2>1, <2>2 DEF Seqs
<1>7. PICK s : s = [pc |-> "received", next |-> caller[Sync].after + 1, to |-> t] OBVIOUS
<1>8. s \in CallerState /\ s.pc = "received" /\ s.to = t
  <2>1. caller[Sync].after + 1 \in Nat \ {0} /\ t \in Nat BY <1>4, <1>6 DEF Seqs
  <2> QED BY <1>7, <2>1 DEF CallerState
<1>9. /\ Goto(Sync, s)
      /\ UNCHANGED <<primaryVars, fEngine, lastApplied, cursor, history>> /\ UNCHANGED used
  BY <1>5, <1>7 DEF SyncPulled
<1> HIDE DEF Seqs
<1> QED BY <1>2, <1>6, <1>8, <1>9, QuietStep

\* A pull that fails leaves the follower as it was.
LEMMA SyncPullFailsStep ==
  ASSUME IInv, SyncPullFails
  PROVE  IInv'
<1>1. Sync \in Callers /\ IdleCaller \in CallerState /\ IdleCaller.pc = "idle"
  BY DEF Callers, CallerState, IdleCaller
<1>2. /\ caller[Sync].pc = "pulling" /\ Goto(Sync, IdleCaller) /\ Fault
      /\ UNCHANGED <<primaryVars, fEngine, lastApplied, cursor, history>>
  BY DEF SyncPullFails
<1> QED BY <1>1, <1>2, QuietStep

\* A request has entries of the journal.
LEMMA ApplyRequestStep ==
  ASSUME IInv, NEW c \in Appliers, NEW first \in Seqs, NEW to \in Seqs, first > 0,
         ApplyRequest(c, first, to)
  PROVE  IInv'
<1>1. PICK s : s = [pc |-> "received", next |-> first, to |-> to] OBVIOUS
<1>2. s \in CallerState /\ s.pc = "received" /\ s.to = to
  <2>1. first \in Nat \ {0} /\ to \in Nat BY DEF Seqs
  <2> QED BY <1>1, <2>1 DEF CallerState
<1>3. /\ c \in Callers /\ caller[c].pc = "idle" /\ Goto(c, s)
      /\ UNCHANGED <<primaryVars, fEngine, lastApplied, cursor, history>> /\ UNCHANGED used
  BY <1>1 DEF ApplyRequest, Callers
<1> HIDE DEF Seqs
<1> QED BY <1>2, <1>3, QuietStep

\* An active caller: it holds the entries up to `to', of which the engine was given
\* those up to `last'.
LEMMA ActiveCaller ==
  ASSUME TypeOK, CallerInv, NEW c \in Callers, c \in Active
  PROVE  /\ caller[c].next \in Nat \ {0} /\ caller[c].to \in Seqs /\ caller[c].last \in Seqs
         /\ caller[c].to \in Nat /\ caller[c].last \in Nat
         /\ 1..caller[c].last \subseteq applied
         /\ caller[c] \in CallerState
         /\ caller[c] = [pc |-> caller[c].pc, next |-> caller[c].next, to |-> caller[c].to,
                         last |-> caller[c].last]
<1>1. caller[c] \in CallerState BY DEF TypeOK
<1>2. caller[c].pc \in {"applying", "advancing"} BY DEF Active
<1>3. /\ caller[c].next \in Nat \ {0} /\ caller[c].to \in Nat /\ caller[c].last \in Nat
      /\ caller[c] = [pc |-> caller[c].pc, next |-> caller[c].next, to |-> caller[c].to,
                      last |-> caller[c].last]
  BY <1>1, <1>2, CallerFields
<1>4. caller[c].to \in Seqs /\ caller[c].last \in Seqs /\ 1..caller[c].last \subseteq applied
  BY <1>2 DEF CallerInv
<1> QED BY <1>1, <1>3, <1>4

\* An entry applied before is passed over.
LEMMA ApplySkipStep ==
  ASSUME IInv, NEW c \in Callers, ApplySkip(c)
  PROVE  IInv'
<1>1. TypeOK /\ CallerInv BY DEF IInv
<1>2. caller[c].pc = "applying" /\ c \in Active BY DEF ApplySkip, Applying, Active
<1>3. /\ caller[c].next \in Nat \ {0} /\ caller[c].to \in Seqs /\ caller[c].last \in Seqs
      /\ caller[c].to \in Nat /\ caller[c].last \in Nat
      /\ 1..caller[c].last \subseteq applied
      /\ caller[c] = [pc |-> caller[c].pc, next |-> caller[c].next, to |-> caller[c].to,
                      last |-> caller[c].last]
  BY <1>1, <1>2, ActiveCaller
<1>4. PICK s : s = [caller[c] EXCEPT !.next = @ + 1] OBVIOUS
<1>5. s = [pc |-> "applying", next |-> caller[c].next + 1, to |-> caller[c].to,
           last |-> caller[c].last]
  <2> HIDE DEF Seqs
  <2> QED BY <1>2, <1>3, <1>4
<1>6. s \in CallerState /\ s.pc = "applying" /\ s.to = caller[c].to /\ s.last = caller[c].last
  <2>1. caller[c].next + 1 \in Nat \ {0} BY <1>3
  <2> QED BY <1>3, <1>5, <2>1, CallerMade
<1>7. /\ Goto(c, s)
      /\ UNCHANGED <<primaryVars, fEngine, lastApplied, cursor, history>> /\ UNCHANGED used
  BY <1>4 DEF ApplySkip
<1> HIDE DEF Seqs
<1> QED BY <1>2, <1>3, <1>6, <1>7, QuietStep

\* A caller that gives up.
LEMMA GiveUpStep ==
  ASSUME IInv, NEW c \in Callers, ApplyGap(c) \/ ApplyFails(c)
  PROVE  IInv'
<1>1. IdleCaller \in CallerState /\ IdleCaller.pc = "idle" BY DEF CallerState, IdleCaller
<1>2. /\ caller[c].pc = "applying" /\ Goto(c, IdleCaller) /\ (Fault \/ UNCHANGED used)
      /\ UNCHANGED <<primaryVars, fEngine, lastApplied, cursor, history>>
  BY DEF ApplyGap, ApplyFails, Applying
<1> QED BY <1>1, <1>2, QuietStep

\* The cursor that is persisted covers no more than was applied.
LEMMA ApplyEndStep ==
  ASSUME IInv, NEW c \in Callers, ApplyEnd(c)
  PROVE  IInv'
<1>0. TypeOK /\ CallerInv /\ CursorCovered /\ EngineInv /\ MirrorInv BY DEF IInv
<1>1. IdleCaller \in CallerState /\ IdleCaller.pc = "idle" BY DEF CallerState, IdleCaller
<1>2. /\ caller[c].pc = "applying" /\ caller' = [caller EXCEPT ![c] = IdleCaller]
      /\ cursor' = IF caller[c].last > cursor THEN caller[c].last ELSE cursor
      /\ UNCHANGED primaryVars /\ fEngine' = fEngine /\ lastApplied' = lastApplied
      /\ applied' = applied /\ mixed' = mixed /\ UNCHANGED used
  BY DEF ApplyEnd, Goto, history
<1>3. c \in Active BY <1>2 DEF Active
<1>4. caller[c].last \in Seqs /\ 1..caller[c].last \subseteq applied BY <1>0, <1>3, ActiveCaller
<1>5. /\ used' \in Usage
      /\ used'.explains = used.explains /\ used'.journalFaults = used.journalFaults
      /\ used'.primaryCrashes = used.primaryCrashes
  BY <1>0, <1>2, FaultStep
<1>6. /\ MirrorInv'
      /\ pEngine' \in [Keys -> Datum] /\ journal' \in Seq(Entry) /\ poisoned' \in BOOLEAN
      /\ writer' \in [Writers -> WriterState] /\ used' \in Usage
      /\ journal' = journal
  BY <1>0, <1>2, <1>5, PrimaryKeeps
<1>7. /\ CallerInv' /\ caller' \in [Callers -> CallerState]
      /\ caller'[c] = IdleCaller /\ \A d \in Callers : d # c => caller'[d] = caller[d]
  <2>1. applied \subseteq applied' BY <1>2
  <2> HIDE DEF Seqs
  <2> QED BY <1>0, <1>1, <1>2, <1>6, <2>1, CallerStep
<1>8. ~mixed => cursor' <= lastApplied
  <2>1. ~mixed => cursor <= lastApplied /\ caller[c].last = lastApplied BY <1>0, <1>3 DEF EngineInv
  <2>2. lastApplied \in Nat BY <1>0 DEF TypeOK, Seqs
  <2> QED BY <1>2, <2>1, <2>2
<1>9. EngineInv' BY <1>0, <1>1, <1>2, <1>6, <1>7, <1>8, EngineKeeps
<1>10. cursor' \in Seqs /\ 1..cursor' \subseteq applied
  <2> HIDE DEF Seqs
  <2>1. cursor \in Seqs /\ 1..cursor \subseteq applied BY <1>0 DEF TypeOK, CursorCovered
  <2> QED BY <1>2, <1>4, <2>1
<1>11. CursorCovered' BY <1>0, <1>2, <1>10 DEF CursorCovered
<1>12. Seqs' = Seqs BY <1>6 DEF Seqs
<1>13. TypeOK'
  <2> HIDE DEF Seqs
  <2> QED BY <1>0, <1>2, <1>6, <1>7, <1>10, <1>12 DEF TypeOK
<1> QED BY <1>6, <1>7, <1>9, <1>11, <1>13 DEF IInv

\* A caller begins: alone, or `mixed' says that it does not.
LEMMA ApplyBeginStep ==
  ASSUME IInv, NEW c \in Callers, ApplyBegin(c)
  PROVE  IInv'
<1>0. TypeOK /\ CallerInv /\ CursorCovered /\ EngineInv /\ MirrorInv BY DEF IInv
<1>1. PICK s : s = [pc |-> "applying", next |-> caller[c].next, to |-> caller[c].to,
                    last |-> lastApplied] OBVIOUS
<1>2. /\ caller[c].pc = "received" /\ caller' = [caller EXCEPT ![c] = s]
      /\ mixed' = (mixed \/ \E d \in Callers \ {c} : caller[d].pc \in {"applying", "advancing"})
      /\ UNCHANGED primaryVars /\ fEngine' = fEngine /\ lastApplied' = lastApplied
      /\ cursor' = cursor /\ applied' = applied /\ UNCHANGED used
  BY <1>1 DEF ApplyBegin, Goto
<1>3. /\ lastApplied \in Seqs /\ lastApplied \in Nat /\ caller[c] \in CallerState
      /\ mixed \in BOOLEAN
  BY <1>0 DEF TypeOK, Seqs
<1>4. /\ caller[c].next \in Nat \ {0} /\ caller[c].to \in Nat /\ caller[c].to \in Seqs
  BY <1>0, <1>2, <1>3, CallerFields DEF CallerInv
<1>5. s \in CallerState /\ s.pc = "applying" /\ s.to = caller[c].to /\ s.last = lastApplied
  BY <1>1, <1>3, <1>4, CallerMade
<1>6. 1..lastApplied \subseteq applied BY <1>0 DEF CursorCovered
<1>7. /\ used' \in Usage
      /\ used'.explains = used.explains /\ used'.journalFaults = used.journalFaults
      /\ used'.primaryCrashes = used.primaryCrashes
  BY <1>0, <1>2, FaultStep
<1>8. /\ MirrorInv'
      /\ pEngine' \in [Keys -> Datum] /\ journal' \in Seq(Entry) /\ poisoned' \in BOOLEAN
      /\ writer' \in [Writers -> WriterState] /\ used' \in Usage
      /\ journal' = journal
  BY <1>0, <1>2, <1>7, PrimaryKeeps
<1>9. /\ CallerInv' /\ caller' \in [Callers -> CallerState]
      /\ caller'[c] = s /\ \A d \in Callers : d # c => caller'[d] = caller[d]
  <2>1. applied \subseteq applied' BY <1>2
  <2> HIDE DEF Seqs
  <2> QED BY <1>0, <1>2, <1>3, <1>4, <1>5, <1>6, <1>8, <2>1, CallerStep
<1>10. ASSUME ~mixed, \A d \in Callers \ {c} : caller[d].pc \notin {"applying", "advancing"}
       PROVE  EngineInv'
  <2>1. /\ cursor <= lastApplied
        /\ \A k \in Keys : (\A i \in applied : i > Reached => journal[i].key # k)
                           => fEngine[k] = Replay(journal, Reached)[k]
    BY <1>0, <1>10 DEF EngineInv
  <2>2. \A d \in Callers : caller[d].pc # "advancing" BY <1>2, <1>10
  <2>3. \A d \in Callers : caller'[d].pc # "advancing" BY <1>5, <1>9, <2>2
  <2>4. Reached = lastApplied /\ Reached' = lastApplied BY <1>2, <2>2, <2>3 DEF Reached
  <2>5. \A d \in Active' : d = c BY <1>9, <1>10 DEF Active
  <2> HIDE DEF Active, Reached
  <2> QED BY <1>2, <1>5, <1>8, <1>9, <2>1, <2>4, <2>5 DEF EngineInv
<1>11. ASSUME mixed \/ \E d \in Callers \ {c} : caller[d].pc \in {"applying", "advancing"}
       PROVE  EngineInv'
  <2>1. mixed' BY <1>2, <1>11
  <2> QED BY <2>1 DEF EngineInv
<1>12. EngineInv' BY <1>10, <1>11
<1>13. CursorCovered' BY <1>0, <1>2 DEF CursorCovered
<1>14. mixed' \in BOOLEAN BY <1>2
<1>15. Seqs' = Seqs BY <1>8 DEF Seqs
<1>16. TypeOK'
  <2> HIDE DEF Seqs
  <2> QED BY <1>0, <1>2, <1>8, <1>9, <1>14, <1>15 DEF TypeOK
<1> QED BY <1>8, <1>9, <1>12, <1>13, <1>16 DEF IInv

\* The engine is given the entry after the last one.
LEMMA ApplyEntryStep ==
  ASSUME IInv, NEW c \in Callers, ApplyEntry(c)
  PROVE  IInv'
<1>0. TypeOK /\ CallerInv /\ CursorCovered /\ EngineInv /\ MirrorInv BY DEF IInv
<1>1. PICK n : n = caller[c].next OBVIOUS
<1>2. PICK s : s = [caller[c] EXCEPT !.pc = "advancing"] OBVIOUS
<1>3. /\ caller[c].pc = "applying" /\ n <= caller[c].to /\ n = caller[c].last + 1
      /\ fEngine' = [fEngine EXCEPT ![journal[n].key] = journal[n].value]
      /\ applied' = applied \cup {n} /\ mixed' = mixed
      /\ caller' = [caller EXCEPT ![c] = s]
      /\ UNCHANGED primaryVars /\ lastApplied' = lastApplied /\ cursor' = cursor
      /\ UNCHANGED used
  BY <1>1, <1>2 DEF ApplyEntry, Applying, Goto
<1>4. c \in Active BY <1>3 DEF Active
<1>5. /\ caller[c].next \in Nat \ {0} /\ caller[c].to \in Seqs /\ caller[c].last \in Seqs
      /\ caller[c].to \in Nat /\ caller[c].last \in Nat
      /\ 1..caller[c].last \subseteq applied
      /\ caller[c] = [pc |-> caller[c].pc, next |-> caller[c].next, to |-> caller[c].to,
                      last |-> caller[c].last]
  BY <1>0, <1>4, ActiveCaller
<1>6. s = [pc |-> "advancing", next |-> n, to |-> caller[c].to, last |-> caller[c].last]
  <2> HIDE DEF Seqs
  <2> QED BY <1>1, <1>2, <1>5
<1>7. /\ s \in CallerState /\ s.pc = "advancing" /\ s.to = caller[c].to
      /\ s.last = caller[c].last /\ s.next = n
  BY <1>1, <1>5, <1>6, CallerMade
<1>8. /\ n \in Seqs \ {0} /\ n \in Nat \ {0} /\ n \in 1..Len(journal)
      /\ Len(journal) \in Nat
  BY <1>0, <1>1, <1>3, <1>5, LenProperties DEF Seqs, TypeOK
<1>9. /\ used' \in Usage
      /\ used'.explains = used.explains /\ used'.journalFaults = used.journalFaults
      /\ used'.primaryCrashes = used.primaryCrashes
  BY <1>0, <1>3, FaultStep
<1>10. /\ MirrorInv'
       /\ pEngine' \in [Keys -> Datum] /\ journal' \in Seq(Entry) /\ poisoned' \in BOOLEAN
       /\ writer' \in [Writers -> WriterState] /\ used' \in Usage
       /\ journal' = journal
  BY <1>0, <1>3, <1>9, PrimaryKeeps
<1>11. /\ CallerInv' /\ caller' \in [Callers -> CallerState]
       /\ caller'[c] = s /\ \A d \in Callers : d # c => caller'[d] = caller[d]
  <2>1. applied \subseteq applied' /\ n \in applied' /\ 1..s.last \subseteq applied'
    BY <1>3, <1>5, <1>7
  <2> HIDE DEF Seqs
  <2> QED BY <1>0, <1>3, <1>5, <1>7, <1>10, <2>1, CallerStep
<1>12. /\ journal[n] \in Entry /\ journal[n].key \in Keys /\ journal[n].value \in Datum
       /\ fEngine \in [Keys -> Datum]
  <2>1. journal \in Seq(Entry) BY <1>0 DEF TypeOK
  <2>2. journal[n] \in Entry BY <1>8, <2>1, ElementOfSeq
  <2> QED BY <1>0, <2>2 DEF Entry, TypeOK
<1>13. fEngine' \in [Keys -> Datum] BY <1>3, <1>12
<1>14. ASSUME ~mixed PROVE EngineInv'
  <2>1. /\ cursor <= lastApplied
        /\ \A x, y \in Active : x = y
        /\ \A x \in Active : caller[x].last = lastApplied
        /\ \A k \in Keys : (\A i \in applied : i > Reached => journal[i].key # k)
                           => fEngine[k] = Replay(journal, Reached)[k]
    BY <1>0, <1>14 DEF EngineInv
  <2>2. n = lastApplied + 1 /\ lastApplied \in Nat /\ s.last = lastApplied
    BY <1>0, <1>3, <1>4, <1>7, <2>1 DEF TypeOK, Seqs
  <2>3. \A d \in Callers : caller[d].pc # "advancing"
    <3> SUFFICES ASSUME NEW d \in Callers, caller[d].pc = "advancing" PROVE FALSE OBVIOUS
    <3>1. d \in Active BY DEF Active
    <3>2. d = c BY <1>4, <2>1, <3>1
    <3> QED BY <1>3, <3>2
  <2>4. Reached = lastApplied BY <2>3 DEF Reached
  <2>5. Reached' = n BY <1>3, <1>7, <1>11, <2>2 DEF Reached
  <2>6. Active' = Active BY <1>3, <1>7, <1>11 DEF Active
  <2>7. \A x \in Active : x = c BY <1>4, <2>1
  <2>8. ASSUME NEW k \in Keys, \A i \in applied' : i > n => journal[i].key # k
        PROVE  fEngine'[k] = Replay(journal, n)[k]
    <3>1. ASSUME journal[n].key = k PROVE fEngine'[k] = Replay(journal, n)[k]
      <4>1. Replay(journal, n)[k] = journal[n].value BY <1>8, <3>1, ReplayHit
      <4>2. fEngine'[k] = journal[n].value BY <1>3, <1>12, <3>1
      <4> QED BY <4>1, <4>2
    <3>2. ASSUME journal[n].key # k PROVE fEngine'[k] = Replay(journal, n)[k]
      <4>1. fEngine'[k] = fEngine[k] BY <1>3, <1>12, <3>2
      <4>2. \A i \in applied : i \in Nat BY <1>0 DEF TypeOK, Seqs
      <4>3. \A i \in applied : i > lastApplied => journal[i].key # k
        BY <1>3, <2>2, <2>8, <3>2, <4>2
      <4>4. fEngine[k] = Replay(journal, lastApplied)[k] BY <2>1, <2>4, <4>3
      <4>5. lastApplied <= n /\ \A i \in lastApplied + 1..n : journal[i].key # k
        BY <2>2, <3>2
      <4>6. Replay(journal, n)[k] = Replay(journal, lastApplied)[k]
        BY <1>8, <2>2, <4>5, ReplaySame
      <4> QED BY <4>1, <4>4, <4>6
    <3> QED BY <3>1, <3>2
  <2> HIDE DEF Active, Reached
  <2>9. \A x \in Active' : caller'[x].last = lastApplied' BY <1>3, <1>11, <2>2, <2>6, <2>7
  <2>10. \A x, y \in Active' : x = y BY <2>6, <2>7
  <2>11. \A k \in Keys : (\A i \in applied' : i > Reached' => journal'[i].key # k)
                         => fEngine'[k] = Replay(journal', Reached')[k]
    BY <1>10, <2>5, <2>8
  <2> QED BY <1>3, <2>1, <2>9, <2>10, <2>11 DEF EngineInv
<1>15. ASSUME mixed PROVE EngineInv' BY <1>3, <1>15 DEF EngineInv
<1>16. EngineInv' BY <1>14, <1>15
<1>17. CursorCovered' BY <1>0, <1>3 DEF CursorCovered
<1>18. Seqs' = Seqs BY <1>10 DEF Seqs
<1>19. TypeOK'
  <2> HIDE DEF Seqs
  <2>1. applied' \subseteq Seqs \ {0} BY <1>0, <1>3, <1>8 DEF TypeOK
  <2> QED BY <1>0, <1>3, <1>10, <1>11, <1>13, <1>18, <2>1 DEF TypeOK
<1> QED BY <1>10, <1>11, <1>16, <1>17, <1>19 DEF IInv

\* The entry given to the engine becomes the last one applied.
LEMMA ApplyAdvanceStep ==
  ASSUME IInv, NEW c \in Callers, ApplyAdvance(c)
  PROVE  IInv'
<1>0. TypeOK /\ CallerInv /\ CursorCovered /\ EngineInv /\ MirrorInv BY DEF IInv
<1>1. PICK n : n = caller[c].next OBVIOUS
<1>2. PICK s : s = [caller[c] EXCEPT !.pc = "applying", !.next = n + 1, !.last = n] OBVIOUS
<1>3. /\ caller[c].pc = "advancing" /\ lastApplied' = n
      /\ caller' = [caller EXCEPT ![c] = s]
      /\ UNCHANGED primaryVars /\ fEngine' = fEngine /\ cursor' = cursor
      /\ applied' = applied /\ mixed' = mixed /\ UNCHANGED used
  BY <1>1, <1>2 DEF ApplyAdvance, Goto, history
<1>4. c \in Active BY <1>3 DEF Active
<1>5. /\ caller[c].next \in Nat \ {0} /\ caller[c].to \in Seqs /\ caller[c].last \in Seqs
      /\ caller[c].to \in Nat /\ caller[c].last \in Nat
      /\ 1..caller[c].last \subseteq applied
      /\ caller[c] = [pc |-> caller[c].pc, next |-> caller[c].next, to |-> caller[c].to,
                      last |-> caller[c].last]
  BY <1>0, <1>4, ActiveCaller
<1>6. s = [pc |-> "applying", next |-> n + 1, to |-> caller[c].to, last |-> n]
  <2> HIDE DEF Seqs
  <2> QED BY <1>1, <1>2, <1>5
<1>7. n = caller[c].last + 1 /\ n \in applied BY <1>0, <1>1, <1>3 DEF CallerInv
<1>8. n \in Seqs /\ n \in Nat /\ 1..n \subseteq applied
  BY <1>0, <1>5, <1>7 DEF TypeOK, Seqs
<1>9. /\ s \in CallerState /\ s.pc = "applying" /\ s.to = caller[c].to /\ s.last = n
  <2>1. n + 1 \in Nat \ {0} BY <1>8
  <2> QED BY <1>5, <1>6, <1>8, <2>1, CallerMade
<1>10. /\ used' \in Usage
       /\ used'.explains = used.explains /\ used'.journalFaults = used.journalFaults
       /\ used'.primaryCrashes = used.primaryCrashes
  BY <1>0, <1>3, FaultStep
<1>11. /\ MirrorInv'
       /\ pEngine' \in [Keys -> Datum] /\ journal' \in Seq(Entry) /\ poisoned' \in BOOLEAN
       /\ writer' \in [Writers -> WriterState] /\ used' \in Usage
       /\ journal' = journal
  BY <1>0, <1>3, <1>10, PrimaryKeeps
<1>12. /\ CallerInv' /\ caller' \in [Callers -> CallerState]
       /\ caller'[c] = s /\ \A d \in Callers : d # c => caller'[d] = caller[d]
  <2>1. applied \subseteq applied' /\ 1..s.last \subseteq applied' BY <1>3, <1>8, <1>9
  <2> HIDE DEF Seqs
  <2> QED BY <1>0, <1>3, <1>5, <1>8, <1>9, <1>11, <2>1, CallerStep
<1>13. ASSUME ~mixed PROVE EngineInv'
  <2>1. /\ cursor <= lastApplied
        /\ \A x, y \in Active : x = y
        /\ \A x \in Active : caller[x].last = lastApplied
        /\ \A k \in Keys : (\A i \in applied : i > Reached => journal[i].key # k)
                           => fEngine[k] = Replay(journal, Reached)[k]
    BY <1>0, <1>13 DEF EngineInv
  <2>2. n = lastApplied + 1 /\ lastApplied \in Nat /\ cursor \in Nat
    BY <1>0, <1>4, <1>7, <2>1 DEF TypeOK, Seqs
  <2>3. Reached = n BY <1>3, <2>2 DEF Reached
  <2>4. \A x \in Active : x = c BY <1>4, <2>1
  <2>5. \A d \in Callers : caller'[d].pc # "advancing"
    <3> SUFFICES ASSUME NEW d \in Callers, d # c PROVE caller[d].pc # "advancing" BY <1>9, <1>12
    <3>1. d \notin Active BY <2>4
    <3> QED BY <3>1 DEF Active
  <2>6. Reached' = n BY <1>3, <2>5 DEF Reached
  <2>7. \A x \in Active' : x = c BY <1>12, <2>4 DEF Active
  <2> HIDE DEF Active, Reached
  <2>8. \A x \in Active' : caller'[x].last = lastApplied' BY <1>3, <1>9, <1>12, <2>7
  <2>9. \A x, y \in Active' : x = y BY <2>7
  <2>10. cursor' <= lastApplied' BY <1>3, <2>1, <2>2
  <2>11. \A k \in Keys : (\A i \in applied' : i > Reached' => journal'[i].key # k)
                         => fEngine'[k] = Replay(journal', Reached')[k]
    BY <1>3, <1>11, <2>1, <2>3, <2>6
  <2> QED BY <2>8, <2>9, <2>10, <2>11 DEF EngineInv
<1>14. ASSUME mixed PROVE EngineInv' BY <1>3, <1>14 DEF EngineInv
<1>15. EngineInv' BY <1>13, <1>14
<1>16. CursorCovered' BY <1>0, <1>3, <1>8 DEF CursorCovered
<1>17. Seqs' = Seqs BY <1>11 DEF Seqs
<1>18. TypeOK'
  <2> HIDE DEF Seqs
  <2> QED BY <1>0, <1>3, <1>8, <1>11, <1>12, <1>17 DEF TypeOK
<1> QED BY <1>11, <1>12, <1>15, <1>16, <1>18 DEF IInv

\* A restart takes the pass back to the cursor: the entries between the two were
\* all given to the engine.
LEMMA FollowerCrashStep ==
  ASSUME IInv, FollowerCrash
  PROVE  IInv'
<1>0. TypeOK /\ CallerInv /\ CursorCovered /\ EngineInv /\ MirrorInv BY DEF IInv
<1>1. /\ lastApplied' = cursor /\ caller' = [c \in Callers |-> IdleCaller]
      /\ Spend("followerCrashes", MaxFollowerCrashes)
      /\ UNCHANGED primaryVars /\ fEngine' = fEngine /\ cursor' = cursor
      /\ applied' = applied /\ mixed' = mixed
  BY DEF FollowerCrash, history
<1>2. /\ used' \in Usage
      /\ used'.explains = used.explains /\ used'.journalFaults = used.journalFaults
      /\ used'.primaryCrashes = used.primaryCrashes
  BY <1>0, <1>1, FaultStep
<1>3. /\ MirrorInv'
      /\ pEngine' \in [Keys -> Datum] /\ journal' \in Seq(Entry) /\ poisoned' \in BOOLEAN
      /\ writer' \in [Writers -> WriterState] /\ used' \in Usage
      /\ journal' = journal
  BY <1>0, <1>1, <1>2, PrimaryKeeps
<1>4. \A c \in Callers : caller'[c].pc = "idle" BY <1>1 DEF IdleCaller
<1>5. caller' \in [Callers -> CallerState]
  <2>1. IdleCaller \in CallerState BY DEF CallerState
  <2> QED BY <1>1, <2>1
<1>6. CallerInv' BY <1>4 DEF CallerInv, Active
<1>7. ASSUME ~mixed PROVE EngineInv'
  <2>1. /\ cursor <= lastApplied
        /\ \A x \in Active : caller[x].last = lastApplied
        /\ \A k \in Keys : (\A i \in applied : i > Reached => journal[i].key # k)
                           => fEngine[k] = Replay(journal, Reached)[k]
    BY <1>0, <1>7 DEF EngineInv
  <2>2. /\ lastApplied \in Nat /\ cursor \in Nat /\ 1..lastApplied \subseteq applied
        /\ \A i \in applied : i \in Nat
    BY <1>0 DEF TypeOK, Seqs, CursorCovered
  <2>3. Reached \in Nat /\ cursor <= Reached /\ 1..Reached \subseteq applied
    <3>1. CASE \E c \in Callers : caller[c].pc = "advancing"
      <4>1. PICK c \in Callers : caller[c].pc = "advancing" BY <3>1
      <4>2. c \in Active BY <4>1 DEF Active
      <4>3. caller[c].next = lastApplied + 1 /\ caller[c].next \in applied
        BY <1>0, <2>1, <4>1, <4>2 DEF CallerInv
      <4>4. Reached = lastApplied + 1 BY <3>1 DEF Reached
      <4> QED BY <2>1, <2>2, <4>3, <4>4
    <3>2. CASE ~\E c \in Callers : caller[c].pc = "advancing"
      BY <2>1, <2>2, <3>2 DEF Reached
    <3> QED BY <3>1, <3>2
  <2>4. Reached' = cursor BY <1>1, <1>4 DEF Reached
  <2>5. ASSUME NEW k \in Keys, \A i \in applied : i > cursor => journal[i].key # k
        PROVE  fEngine[k] = Replay(journal, cursor)[k]
    <3> HIDE DEF Reached
    <3>1. \A i \in applied : i > Reached => journal[i].key # k BY <2>2, <2>3, <2>5
    <3>2. fEngine[k] = Replay(journal, Reached)[k] BY <2>1, <3>1
    <3>3. \A i \in cursor + 1..Reached : journal[i].key # k BY <2>2, <2>3, <2>5
    <3>4. Replay(journal, Reached)[k] = Replay(journal, cursor)[k]
      BY <2>2, <2>3, <3>3, ReplaySame
    <3> QED BY <3>2, <3>4
  <2>6. Active' = {} BY <1>4 DEF Active
  <2> HIDE DEF Active, Reached
  <2>7. \A k \in Keys : (\A i \in applied' : i > Reached' => journal'[i].key # k)
                        => fEngine'[k] = Replay(journal', Reached')[k]
    BY <1>1, <1>3, <2>4, <2>5
  <2>8. cursor' <= lastApplied' BY <1>1, <2>2
  <2> QED BY <2>6, <2>7, <2>8 DEF EngineInv
<1>8. ASSUME mixed PROVE EngineInv' BY <1>1, <1>8 DEF EngineInv
<1>9. EngineInv' BY <1>7, <1>8
<1>10. CursorCovered' BY <1>0, <1>1 DEF CursorCovered
<1>11. Seqs' = Seqs BY <1>3 DEF Seqs
<1>12. TypeOK'
  <2> HIDE DEF Seqs
  <2> QED BY <1>0, <1>1, <1>3, <1>5, <1>11 DEF TypeOK
<1> QED BY <1>3, <1>6, <1>9, <1>10, <1>12 DEF IInv

----------------------------------------------------------------------------
(* The theorems                                                            *)

\* No entries make the empty dictionary.
LEMMA ReplayNothing ==
  ASSUME NEW log, NEW k \in Keys
  PROVE  Replay(log, 0)[k] = Nil
BY DEF Replay

\* The invariant holds at the start.
LEMMA InitInv == Init => IInv
<1> SUFFICES ASSUME Init PROVE IInv OBVIOUS
<1>1. /\ pEngine = [k \in Keys |-> Nil] /\ journal = <<>> /\ poisoned = FALSE
      /\ writer = [w \in Writers |-> IdleWriter]
      /\ fEngine = [k \in Keys |-> Nil] /\ lastApplied = 0 /\ cursor = 0
      /\ caller = [c \in Callers |-> IdleCaller]
      /\ applied = {} /\ mixed = FALSE
      /\ used = [writes |-> 0, explains |-> 0, journalFaults |-> 0, faults |-> 0,
                 primaryCrashes |-> 0, followerCrashes |-> 0]
  BY DEF Init
<1>2. Len(journal) = 0 /\ Seqs = {0} /\ journal \in Seq(Entry) BY <1>1 DEF Seqs
<1>3. \A c \in Callers : caller[c].pc = "idle" BY <1>1 DEF IdleCaller
<1>4. \A w \in Writers : writer[w].pc = "idle" BY <1>1 DEF IdleWriter
<1>5. TypeOK
  <2>1. pEngine \in [Keys -> Datum] /\ fEngine \in [Keys -> Datum] BY <1>1 DEF Datum
  <2>2. IdleWriter \in WriterState /\ IdleCaller \in CallerState BY DEF WriterState, CallerState
  <2>3. writer \in [Writers -> WriterState] /\ caller \in [Callers -> CallerState]
    BY <1>1, <2>2
  <2>4. used \in Usage BY <1>1 DEF Usage
  <2>5. lastApplied \in Seqs /\ cursor \in Seqs /\ applied \subseteq Seqs \ {0} BY <1>1, <1>2
  <2>6. poisoned \in BOOLEAN /\ mixed \in BOOLEAN BY <1>1
  <2> HIDE DEF Seqs
  <2> QED BY <1>2, <2>1, <2>3, <2>4, <2>5, <2>6 DEF TypeOK
<1>6. Active = {} BY <1>3 DEF Active
<1>7. CallerInv BY <1>3, <1>6 DEF CallerInv
<1>8. CursorCovered BY <1>1 DEF CursorCovered
<1>9. Reached = 0 BY <1>1, <1>3 DEF Reached
<1>10. EngineInv
  <2> HIDE DEF Reached
  <2>1. \A k \in Keys : fEngine[k] = Replay(journal, 0)[k] BY <1>1, ReplayNothing
  <2> QED BY <1>1, <1>6, <1>9, <2>1 DEF EngineInv
<1>11. MirrorInv
  <2>1. \A k \in Keys : pEngine[k] = Replay(journal, Len(journal))[k]
    BY <1>1, <1>2, ReplayNothing
  <2> QED BY <1>1, <1>4, <2>1 DEF MirrorInv
<1> QED BY <1>5, <1>7, <1>8, <1>10, <1>11 DEF IInv

\* A step that changes nothing keeps the invariant.
LEMMA StutterInv ==
  ASSUME IInv, UNCHANGED vars
  PROVE  IInv'
<1>0. TypeOK /\ CallerInv /\ CursorCovered /\ EngineInv /\ MirrorInv BY DEF IInv
<1>1. UNCHANGED primaryVars /\ UNCHANGED followerVars /\ UNCHANGED used BY DEF vars
<1>2. /\ used' \in Usage
      /\ used'.explains = used.explains /\ used'.journalFaults = used.journalFaults
      /\ used'.primaryCrashes = used.primaryCrashes
  BY <1>0, <1>1, FaultStep
<1>3. /\ MirrorInv'
      /\ pEngine' \in [Keys -> Datum] /\ journal' \in Seq(Entry) /\ poisoned' \in BOOLEAN
      /\ writer' \in [Writers -> WriterState] /\ used' \in Usage
      /\ journal' = journal
  BY <1>0, <1>1, <1>2, PrimaryKeeps
<1>4. JournalGrows /\ Len(journal') \in Nat BY <1>0, <1>3, JournalSame
<1>5. /\ CallerInv' /\ CursorCovered' /\ EngineInv'
      /\ fEngine' \in [Keys -> Datum] /\ caller' \in [Callers -> CallerState]
      /\ lastApplied' \in Seqs' /\ cursor' \in Seqs' /\ applied' \subseteq Seqs' \ {0}
      /\ mixed' \in BOOLEAN
  BY <1>0, <1>1, <1>4, FollowerKeeps
<1>6. TypeOK' BY <1>3, <1>5 DEF TypeOK
<1> QED BY <1>3, <1>5, <1>6 DEF IInv

\* Every step keeps the invariant.
LEMMA NextInv ==
  ASSUME IInv, [Next]_vars
  PROVE  IInv'
<1>1. CASE Primary
  <2>1. CASE \E k \in Keys, v \in Datum :
               ExplainWrite(k, v) \/ \E w \in Writers : WriteEngine(w, k, v)
    BY <2>1, ExplainWriteStep, WriteEngineStep
  <2>2. CASE \E w \in Writers : WriteJournal(w) \/ WriteJournalFails(w)
    BY <2>2, WriteJournalStep, WriteJournalFailsStep
  <2>3. CASE PrimaryCrash BY <2>3, PrimaryCrashStep
  <2> QED BY <1>1, <2>1, <2>2, <2>3 DEF Primary
<1>2. CASE Follower
  <2>1. CASE SyncBegin \/ SyncPulled \/ SyncPullFails \/ FollowerCrash
    BY <2>1, SyncBeginStep, SyncPulledStep, SyncPullFailsStep, FollowerCrashStep
  <2>2. CASE \E c \in Appliers, first \in Seqs, to \in Seqs :
               first > 0 /\ ApplyRequest(c, first, to)
    <3> HIDE DEF Seqs
    <3> QED BY <2>2, ApplyRequestStep
  <2>3. CASE \E c \in Callers : Work(c) \/ ApplyFails(c)
    BY <2>3, ApplyBeginStep, ApplySkipStep, ApplyEntryStep, ApplyAdvanceStep, GiveUpStep,
       ApplyEndStep DEF Work
  <2> QED BY <1>2, <2>1, <2>2, <2>3 DEF Follower
<1>3. CASE UNCHANGED vars BY <1>3, StutterInv
<1> QED BY <1>1, <1>2, <1>3 DEF Next

\* IInv holds in every state that the two nodes can reach.
THEOREM InductiveInvariant == Spec => []IInv
<1>1. IInv /\ [Next]_vars => IInv' BY NextInv
<1> QED BY InitInv, <1>1, PTL DEF Spec

\* Neither lastApplied nor the persisted cursor of applyReplicationEntriesLocked
\* ever passes over an entry that the engine was not given.
THEOREM CursorCoveredAlways == Spec => []CursorCovered
<1>1. IInv => CursorCovered BY DEF IInv
<1> QED BY InductiveInvariant, <1>1, PTL

\* Nothing applied lies beyond the cursor: the engine is the prefix.
LEMMA PrefixFromInv == IInv => PrefixState
<1> SUFFICES ASSUME IInv, ~mixed, \A c \in Callers : caller[c].pc # "advancing",
                    lastApplied = Max({0} \cup applied)
             PROVE  fEngine = Replay(journal, lastApplied)
  BY DEF PrefixState
<1>1. TypeOK /\ EngineInv BY DEF IInv
<1>2. {0} \cup applied \subseteq 0..Len(journal) /\ Len(journal) \in Nat
  BY <1>1, LenProperties DEF TypeOK, Seqs
<1>3. \A i \in applied : i <= lastApplied /\ i \in Nat /\ lastApplied \in Nat
  <2>1. \A y \in {0} \cup applied : y <= Max({0} \cup applied) BY <1>2, MaxBounds
  <2>2. \A i \in applied : i <= lastApplied BY <2>1
  <2>3. lastApplied \in Nat BY <1>1 DEF TypeOK, Seqs
  <2>4. \A i \in applied : i \in Nat BY <1>2
  <2> QED BY <2>2, <2>3, <2>4
<1>4. Reached = lastApplied BY DEF Reached
<1>5. \A k \in Keys : fEngine[k] = Replay(journal, lastApplied)[k]
  <2>1. \A k \in Keys : (\A i \in applied : i > Reached => journal[i].key # k)
                        => fEngine[k] = Replay(journal, Reached)[k]
    BY <1>1 DEF EngineInv
  <2> HIDE DEF Reached
  <2>2. \A i \in applied : ~(i > Reached) BY <1>3, <1>4
  <2> QED BY <1>4, <2>1, <2>2
<1>6. fEngine = [k \in Keys |-> fEngine[k]] BY <1>1 DEF TypeOK
<1>7. Replay(journal, lastApplied) = [k \in Keys |-> Replay(journal, lastApplied)[k]]
  BY ReplayType
<1> QED BY <1>5, <1>6, <1>7

\* A follower at entry n holds exactly what the first n entries make, whatever
\* pull failed, batch stopped half-way or restart applied entries again.
THEOREM PrefixStateAlways == Spec => []PrefixState
BY InductiveInvariant, PrefixFromInv, PTL

\* No write in flight: the journal makes the dictionary of the primary.
LEMMA MirrorsFromInv ==
  ASSUME \A v, w \in Writers : v = w
  PROVE  IInv => MirrorsPrimary
<1> SUFFICES ASSUME IInv, \A w \in Writers : writer[w].pc = "idle",
                    used.explains = 0 /\ used.journalFaults = 0 /\ used.primaryCrashes = 0
             PROVE  Replay(journal, Len(journal)) = pEngine
  BY DEF MirrorsPrimary
<1>1. TypeOK /\ MirrorInv BY DEF IInv
<1>2. \A k \in Keys : pEngine[k] = Replay(journal, Len(journal))[k] BY <1>1 DEF MirrorInv
<1>3. pEngine = [k \in Keys |-> pEngine[k]] BY <1>1 DEF TypeOK
<1>4. Replay(journal, Len(journal)) = [k \in Keys |-> Replay(journal, Len(journal))[k]]
  BY ReplayType
<1> QED BY <1>2, <1>3, <1>4

\* With at most one write request at a time the journal that handleKVPut and
\* handleKVDelete leave makes the dictionary of the primary.  The assumption is
\* needed: run sync_two_writers refutes the property with two.
THEOREM MirrorsPrimaryAlways ==
  ASSUME \A v, w \in Writers : v = w
  PROVE  Spec => []MirrorsPrimary
<1>1. IInv => MirrorsPrimary BY MirrorsFromInv
<1> QED BY InductiveInvariant, <1>1, PTL

\* Lag 0 means equal: a follower that has applied the whole journal of an idle
\* primary answers what the primary does, under the provisos of both properties.
THEOREM UpToDateAgrees ==
  ASSUME \A v, w \in Writers : v = w
  PROVE  Spec => []( /\ lastApplied = Len(journal)
                     /\ ~mixed /\ \A c \in Callers : caller[c].pc # "advancing"
                     /\ \A w \in Writers : writer[w].pc = "idle"
                     /\ used.explains = 0 /\ used.journalFaults = 0 /\ used.primaryCrashes = 0
                     => fEngine = pEngine )
<1>1. IInv => ( /\ lastApplied = Len(journal)
                /\ ~mixed /\ \A c \in Callers : caller[c].pc # "advancing"
                /\ \A w \in Writers : writer[w].pc = "idle"
                /\ used.explains = 0 /\ used.journalFaults = 0 /\ used.primaryCrashes = 0
                => fEngine = pEngine )
  <2> SUFFICES ASSUME IInv, lastApplied = Len(journal),
                      ~mixed, \A c \in Callers : caller[c].pc # "advancing",
                      \A w \in Writers : writer[w].pc = "idle",
                      used.explains = 0, used.journalFaults = 0, used.primaryCrashes = 0
               PROVE  fEngine = pEngine
    OBVIOUS
  <2>1. TypeOK /\ EngineInv /\ PrefixState /\ MirrorsPrimary
    BY PrefixFromInv, MirrorsFromInv DEF IInv
  <2>2. lastApplied = Max({0} \cup applied)
    <3>1. {0} \cup applied \subseteq 0..Len(journal) /\ Len(journal) \in Nat
      BY <2>1, LenProperties DEF TypeOK, Seqs
    <3>2. Max({0} \cup applied) \in {0} \cup applied
          /\ \A y \in {0} \cup applied : y <= Max({0} \cup applied)
      BY <3>1, MaxBounds
    <3>3. 1..lastApplied \subseteq applied BY DEF IInv, CursorCovered
    <3>4. lastApplied \in {0} \cup applied BY <3>1, <3>3
    <3> QED BY <3>1, <3>2, <3>4
  <2>3. fEngine = Replay(journal, lastApplied) BY <2>1, <2>2 DEF PrefixState
  <2>4. Replay(journal, Len(journal)) = pEngine BY <2>1 DEF MirrorsPrimary
  <2> QED BY <2>3, <2>4
<1> QED BY InductiveInvariant, <1>1, PTL

----------------------------------------------------------------------------
(***************************************************************************)
(* The worker that calls SyncFromPrimary (module BackgroundSync), for any  *)
(* set of request handlers and any bounds.  Neither of its properties is   *)
(* inductive: that an open follower's worker runs rests on who may cancel  *)
(* it (WorkerOK) and on promote's place in its handler (CloseOK), that no  *)
(* sync gets past a promotion on who may lower the barrier (BarrierOK);    *)
(* that nothing is left after Close rests on who holds the syncInProgress  *)
(* flag (BusyOK).  The steps of the worker are taken together: whatever a  *)
(* call came to, Settle changes four fields.                               *)
(***************************************************************************)

\* What a call makes of the worker w: only these four fields change.
SettledAs(w, new, more) ==
  /\ new = [gen |-> w.gen, pc |-> new.pc, status |-> new.status, cancelled |-> w.cancelled,
            backoff |-> new.backoff, failures |-> more]
  /\ new.pc \in {"waiting", "blocked"} /\ new.status \in {"running", "backing_off", "blocked"}
  /\ new.backoff \in 0..MaxBackoff

\* The backoff never exceeds its maximum.
LEMMA BackoffIsCapped ==
  ASSUME NEW b \in 0..MaxBackoff PROVE NextBackoff(b) \in 0..MaxBackoff
<1>1. MaxBackoff \in Nat /\ InitialBackoff \in Nat BY BackgroundAssumption
<1> QED BY <1>1 DEF NextBackoff

\* Settling counts a failure, at most one, and only of a worker that runs on.
LEMMA SettleFacts ==
  ASSUME WorkerTypeOK, NEW result \in {"ok", "failed", "gap", "busy"}
  PROVE  /\ result = "ok" => SettledAs(worker, Settle(worker, result), 0)
                             \/ SettledAs(worker, Settle(worker, result), worker.failures)
         /\ result = "busy" => SettledAs(worker, Settle(worker, result), worker.failures)
         /\ result \in {"failed", "gap"} =>
              IF worker.cancelled THEN SettledAs(worker, Settle(worker, result), worker.failures)
              ELSE SettledAs(worker, Settle(worker, result), worker.failures + 1)
<1>0. /\ MaxBackoff \in Nat /\ 0 \in 0..MaxBackoff
      /\ worker.backoff \in 0..MaxBackoff /\ worker.cancelled \in BOOLEAN
      /\ worker = [gen |-> worker.gen, pc |-> worker.pc, status |-> worker.status,
                   cancelled |-> worker.cancelled, backoff |-> worker.backoff,
                   failures |-> worker.failures]
  BY BackgroundAssumption DEF WorkerTypeOK
<1>1. NextBackoff(worker.backoff) \in 0..MaxBackoff BY <1>0, BackoffIsCapped
<1>2. CASE result = "busy" BY <1>0, <1>2 DEF Settle, Wait, SettledAs
<1>3. CASE result # "busy" /\ worker.cancelled BY <1>0, <1>3 DEF Settle, Wait, SettledAs
<1>4. CASE result = "gap" /\ ~worker.cancelled BY <1>0, <1>4 DEF Settle, Wait, SettledAs
<1>5. CASE result = "failed" /\ ~worker.cancelled
  BY <1>0, <1>1, <1>5 DEF Settle, Wait, SettledAs
<1>6. CASE result = "ok" /\ ~worker.cancelled BY <1>0, <1>6 DEF Settle, Wait, SettledAs
<1> QED BY <1>0, <1>2, <1>3, <1>4, <1>5, <1>6

----------------------------------------------------------------------------
\* A new server has a worker that was not started and no call under way.
LEMMA InitWorkerInv == WorkerInit => WorkerInv
<1> SUFFICES ASSUME WorkerInit PROVE WorkerInv OBVIOUS
<1>0. /\ Worker \notin Handlers /\ Nobody \notin Handlers /\ Worker # Nobody
      /\ MaxBackoff \in Nat /\ MaxFailures \in Nat /\ MaxGaps \in Nat /\ MaxPromotions \in Nat
  BY BackgroundAssumption
<1>1. WorkerTypeOK
  <2>1. 0 \in 0..MaxPromotions /\ 0 \in 0..MaxBackoff /\ 0 \in 0..MaxFailures + MaxGaps BY <1>0
  <2>2. handler \in [Handlers -> {"idle", "calling", "pulling"}] BY DEF WorkerInit
  <2> QED BY <1>0, <2>1, <2>2 DEF WorkerInit, WorkerTypeOK, NewWorker, Stages
<1>2. CountsOK BY <1>0 DEF WorkerInit, CountsOK, NewWorker
<1>3. WorkerOK BY <1>0 DEF WorkerInit, WorkerOK, NewWorker
<1>4. BusyOK BY <1>0 DEF WorkerInit, BusyOK, NewWorker
<1>5. CloseOK BY <1>0 DEF WorkerInit, CloseOK, NewWorker, Gone, HasJournal
<1>6. BarrierOK
  BY <1>0 DEF WorkerInit, BarrierOK, HasJournal, Promoting
<1> QED BY <1>1, <1>2, <1>3, <1>4, <1>5, <1>6 DEF WorkerInv

\* The steps of the worker's goroutine (run, doSync, SyncFromPrimary) keep the
\* invariant.
LEMMA WorkerSteps == WorkerInv /\ WorkerStep => WorkerInv'
<1> SUFFICES ASSUME WorkerInv, WorkerStep PROVE WorkerInv' OBVIOUS
<1>0. /\ Worker \notin Handlers /\ Nobody \notin Handlers /\ Worker # Nobody
      /\ MaxBackoff \in Nat /\ MaxFailures \in Nat /\ MaxGaps \in Nat /\ MaxPromotions \in Nat
      /\ WorkerTypeOK /\ CountsOK /\ WorkerOK /\ BusyOK /\ CloseOK /\ BarrierOK
  BY BackgroundAssumption DEF WorkerInv
<1>1. CASE WorkerCalls
  <2>1. WorkerTypeOK' BY <1>0, <1>1 DEF WorkerCalls, WorkerTypeOK
  <2>2. CountsOK' BY <1>0, <1>1 DEF WorkerCalls, CountsOK, WorkerTypeOK
  <2>3. WorkerOK' BY <1>0, <1>1 DEF WorkerCalls, WorkerOK, WorkerTypeOK, closed
  <2>4. BusyOK' BY <1>0, <1>1 DEF WorkerCalls, BusyOK, WorkerTypeOK
  <2>5. CloseOK' BY <1>0, <1>1 DEF WorkerCalls, CloseOK, WorkerTypeOK, Gone, InFlight, HasJournal
  <2>6. BarrierOK'
    BY <1>0, <1>1
    DEF WorkerCalls, BarrierOK, WorkerOK, CloseOK, WorkerTypeOK, HasJournal, Promoting, Gone
  <2> QED BY <2>1, <2>2, <2>3, <2>4, <2>5, <2>6 DEF WorkerInv
<1>2. CASE WorkerExits
  <2>1. WorkerTypeOK' BY <1>0, <1>2 DEF WorkerExits, WorkerTypeOK
  <2>2. CountsOK' BY <1>0, <1>2 DEF WorkerExits, CountsOK, WorkerTypeOK
  <2>3. WorkerOK' BY <1>0, <1>2 DEF WorkerExits, WorkerOK, WorkerTypeOK, closed
  <2>4. BusyOK' BY <1>0, <1>2 DEF WorkerExits, BusyOK, WorkerTypeOK
  <2>5. CloseOK' BY <1>0, <1>2 DEF WorkerExits, CloseOK, WorkerTypeOK, Gone, InFlight, HasJournal
  <2>6. BarrierOK'
    BY <1>0, <1>2
    DEF WorkerExits, BarrierOK, WorkerOK, CloseOK, WorkerTypeOK, HasJournal, Promoting, Gone
  <2> QED BY <2>1, <2>2, <2>3, <2>4, <2>5, <2>6 DEF WorkerInv
<1>3. ASSUME NEW more,
             SettledAs(worker, worker', more), more \in 0..spent.failures' + spent.gaps',
             worker.pc \in {"calling", "pulling"}, ~muHeld, busy' # Worker,
             busy' = busy \/ busy' = Nobody,
             spent' \in [failures : 0..MaxFailures, gaps : 0..MaxGaps,
                         promotions : 0..MaxPromotions],
             spent'.promotions = spent.promotions,
             UNCHANGED <<started, closing, muHeld, role, barrier, promote, record, handler>>
      PROVE  WorkerInv'
  <2>1. more \in 0..MaxFailures + MaxGaps
    <3>1. /\ spent'.failures \in 0..MaxFailures /\ spent'.gaps \in 0..MaxGaps BY <1>3
    <3> HIDE DEF SettledAs
    <3> QED BY <1>0, <1>3, <3>1
  <2>2. /\ worker'.gen = worker.gen /\ worker'.cancelled = worker.cancelled
        /\ worker'.pc \in {"waiting", "blocked"} /\ worker'.failures = more
    BY <1>3 DEF SettledAs
  <2>3. WorkerTypeOK'
    <3>1. worker.gen \in 0..MaxPromotions /\ worker.cancelled \in BOOLEAN
      BY <1>0 DEF WorkerTypeOK
    <3>2. worker' \in [gen : 0..MaxPromotions, cancelled : BOOLEAN,
                 pc : {"new", "launched", "calling", "pulling", "waiting", "blocked", "gone"},
                 status : {"disabled", "starting", "running", "backing_off", "blocked",
                           "stopping", "stopped"},
                 backoff : 0..MaxBackoff, failures : 0..MaxFailures + MaxGaps]
      BY <1>3, <2>1, <3>1 DEF SettledAs
    <3> QED BY <1>0, <1>3, <3>2 DEF WorkerTypeOK
  <2>4. CountsOK' BY <1>0, <1>3, <2>2 DEF CountsOK
  <2>5. WorkerOK' BY <1>0, <1>3, <2>2 DEF WorkerOK, closed
  <2>6. BusyOK' BY <1>0, <1>3 DEF BusyOK
  <2>7. CloseOK' BY <1>0, <1>3, <2>2 DEF CloseOK, Gone, InFlight, HasJournal
  <2>8. BarrierOK' BY <1>0, <1>3, <2>2 DEF BarrierOK, CloseOK, HasJournal, Promoting, Gone
  <2> QED BY <2>3, <2>4, <2>5, <2>6, <2>7, <2>8 DEF WorkerInv
<1>4. /\ worker.failures \in Nat /\ worker.cancelled \in BOOLEAN
      /\ spent.failures \in Nat /\ spent.gaps \in Nat
      /\ worker.failures <= spent.failures + spent.gaps
  BY <1>0 DEF WorkerTypeOK, CountsOK
<1>5. ASSUME NEW result \in {"ok", "failed", "gap"}, Outcome(result, worker.cancelled)
      PROVE  /\ spent' \in [failures : 0..MaxFailures, gaps : 0..MaxGaps,
                           promotions : 0..MaxPromotions]
             /\ spent'.promotions = spent.promotions
             /\ \E more \in 0..spent.failures' + spent.gaps' :
                  SettledAs(worker, Settle(worker, result), more)
  <2>1. /\ spent' \in [failures : 0..MaxFailures, gaps : 0..MaxGaps,
                       promotions : 0..MaxPromotions]
        /\ spent'.promotions = spent.promotions
        /\ spent'.failures \in Nat /\ spent'.gaps \in Nat
        /\ spent'.failures + spent'.gaps >= spent.failures + spent.gaps
        /\ result # "ok" /\ ~worker.cancelled
             => spent'.failures + spent'.gaps = spent.failures + spent.gaps + 1
    <3>1. CASE result = "ok" BY <1>0, <1>4, <1>5, <3>1 DEF Outcome, CountsOK
    <3>2. CASE result = "failed" BY <1>0, <1>4, <1>5, <3>2 DEF Outcome, UseUp, CountsOK
    <3>3. CASE result = "gap" BY <1>0, <1>4, <1>5, <3>3 DEF Outcome, UseUp, CountsOK
    <3> QED BY <3>1, <3>2, <3>3
  <2>2. /\ 0 \in 0..spent.failures' + spent.gaps'
        /\ worker.failures \in 0..spent.failures' + spent.gaps'
        /\ result # "ok" /\ ~worker.cancelled
             => worker.failures + 1 \in 0..spent.failures' + spent.gaps'
    BY <1>4, <2>1
  <2>3. CASE result = "ok" BY <1>0, <2>1, <2>2, <2>3, SettleFacts
  <2>4. CASE result # "ok"
    <3>1. /\ result \in {"failed", "gap"}
          /\ IF worker.cancelled THEN SettledAs(worker, Settle(worker, result), worker.failures)
             ELSE SettledAs(worker, Settle(worker, result), worker.failures + 1)
      BY <1>0, <2>4, SettleFacts
    <3> QED BY <1>4, <2>1, <2>2, <2>4, <3>1
  <2> QED BY <2>3, <2>4
<1>6. CASE WorkerEnters
  <2>1. worker.pc = "calling" /\ ~muHeld
        /\ UNCHANGED <<started, closing, muHeld, role, barrier, promote, record, handler>>
    BY <1>6 DEF WorkerEnters
  <2>2. busy # Worker BY <1>0, <2>1 DEF BusyOK
  <2>3. CASE Refused
    <3>1. /\ Outcome("failed", worker.cancelled)
          /\ worker' = Settle(worker, "failed") /\ busy' = busy
      BY <1>6, <2>3 DEF WorkerEnters
    <3>2. PICK more \in 0..spent.failures' + spent.gaps' : SettledAs(worker, worker', more)
      BY <1>5, <3>1
    <3>3. /\ spent' \in [failures : 0..MaxFailures, gaps : 0..MaxGaps,
                         promotions : 0..MaxPromotions]
          /\ spent'.promotions = spent.promotions
      BY <1>5, <3>1
    <3> QED BY <1>3, <2>1, <2>2, <3>1, <3>2, <3>3
  <2>4. CASE ~Refused /\ busy # Nobody
    <3>1. worker' = Settle(worker, "busy") /\ UNCHANGED <<busy, spent>>
      BY <1>6, <2>4 DEF WorkerEnters
    <3>2. SettledAs(worker, worker', worker.failures) BY <1>0, <3>1, SettleFacts
    <3>3. spent' \in [failures : 0..MaxFailures, gaps : 0..MaxGaps,
                      promotions : 0..MaxPromotions]
      BY <1>0, <3>1 DEF CountsOK
    <3>4. worker.failures \in 0..spent.failures' + spent.gaps' BY <1>4, <3>1
    <3> QED BY <1>3, <2>1, <2>2, <3>1, <3>2, <3>3, <3>4
  <2>5. CASE ~Refused /\ busy = Nobody
    <3>1. worker' = [worker EXCEPT !.pc = "pulling"] /\ busy' = Worker /\ UNCHANGED spent
      BY <1>6, <2>5 DEF WorkerEnters
    <3>2. WorkerTypeOK' BY <1>0, <2>1, <3>1 DEF WorkerTypeOK
    <3>3. CountsOK' BY <1>0, <2>1, <3>1 DEF CountsOK, WorkerTypeOK
    <3>4. WorkerOK' BY <1>0, <2>1, <3>1 DEF WorkerOK, WorkerTypeOK, closed
    <3>5. BusyOK' BY <1>0, <2>1, <3>1 DEF BusyOK, WorkerTypeOK
    <3>6. CloseOK' BY <1>0, <2>1, <3>1 DEF CloseOK, WorkerTypeOK, Gone, InFlight, HasJournal
    <3>7. BarrierOK'
      BY <1>0, <2>1, <2>5, <3>1 DEF Refused, BarrierOK, CloseOK, HasJournal, Promoting, Gone
    <3> QED BY <3>2, <3>3, <3>4, <3>5, <3>6, <3>7 DEF WorkerInv
  <2> QED BY <2>3, <2>4, <2>5
<1>7. CASE WorkerSyncEnds
  <2>1. PICK result \in {"ok", "failed", "gap"} :
          Outcome(result, worker.cancelled) /\ worker' = Settle(worker, result)
    BY <1>7 DEF WorkerSyncEnds
  <2>2. PICK more \in 0..spent.failures' + spent.gaps' : SettledAs(worker, worker', more)
    BY <1>5, <2>1
  <2>3. /\ spent' \in [failures : 0..MaxFailures, gaps : 0..MaxGaps,
                       promotions : 0..MaxPromotions]
        /\ spent'.promotions = spent.promotions
    BY <1>5, <2>1
  <2>4. /\ worker.pc = "pulling" /\ ~muHeld /\ busy' = Nobody
        /\ UNCHANGED <<started, closing, muHeld, role, barrier, promote, record, handler>>
    BY <1>7 DEF WorkerSyncEnds
  <2> QED BY <1>0, <1>3, <2>2, <2>3, <2>4
<1> QED BY <1>1, <1>2, <1>6, <1>7 DEF WorkerStep

\* So do the steps of a request of POST /replication/sync: each changes its own
\* handler and the flag, and nothing is taken up once Close is done.
LEMMA HandlerSteps ==
  ASSUME WorkerInv, NEW h \in Handlers,
         HandlerArrives(h) \/ HandlerStep(h) \/ HandlerAnswered(h)
  PROVE  WorkerInv'
<1>0. /\ Worker \notin Handlers /\ Nobody \notin Handlers /\ Worker # Nobody
      /\ WorkerTypeOK /\ CountsOK /\ WorkerOK /\ BusyOK /\ CloseOK /\ BarrierOK
  BY BackgroundAssumption DEF WorkerInv
<1>1. PICK pc \in {"idle", "calling", "pulling", "answering"} :
        /\ handler' = [handler EXCEPT ![h] = pc]
        /\ UNCHANGED <<started, closing, muHeld, role, barrier, promote, record, worker, spent>>
        /\ \/ busy' = busy /\ handler[h] # "pulling" /\ pc # "pulling"
           \/ busy' = h /\ busy = Nobody /\ pc = "pulling" /\ ~Refused
           \/ busy' = Nobody /\ handler[h] = "pulling" /\ pc = "answering"
        /\ pc = "idle" \/ closing # "done"
  <2>1. CASE HandlerArrives(h)
    BY <2>1 DEF HandlerArrives, HandlerGoto, Serving
  <2>2. CASE HandlerEnters(h)
    <3>1. handler[h] = "calling" /\ closing # "done"
      BY <1>0, <2>2 DEF HandlerEnters, CloseOK, InFlight
    <3> QED BY <2>2, <3>1 DEF HandlerEnters, HandlerGoto
  <2>3. CASE HandlerSyncEnds(h)
    <3>1. closing # "done" BY <1>0, <2>3 DEF HandlerSyncEnds, CloseOK, InFlight
    <3> QED BY <2>3, <3>1 DEF HandlerSyncEnds, HandlerGoto
  <2>4. CASE HandlerAnswered(h)
    BY <2>4 DEF HandlerAnswered, HandlerGoto
  <2> QED BY <2>1, <2>2, <2>3, <2>4 DEF HandlerStep
<1>2. WorkerTypeOK' BY <1>0, <1>1 DEF WorkerTypeOK
<1>3. CountsOK' BY <1>0, <1>1 DEF CountsOK
<1>4. WorkerOK' BY <1>0, <1>1 DEF WorkerOK, closed
<1>5. BusyOK' BY <1>0, <1>1 DEF BusyOK, WorkerTypeOK
<1>6. CloseOK'
  <2>1. ASSUME closing = "done" PROVE handler'[h] = "idle"
    BY <1>0, <1>1, <2>1 DEF WorkerTypeOK
  <2>2. \A i \in Handlers \ {h} : handler'[i] = handler[i] BY <1>0, <1>1 DEF WorkerTypeOK
  <2> QED BY <1>0, <1>1, <2>1, <2>2 DEF CloseOK, Gone, InFlight, HasJournal
<1>7. BarrierOK' BY <1>0, <1>1 DEF Refused, BarrierOK, HasJournal, Promoting, Gone
<1> QED BY <1>2, <1>3, <1>4, <1>5, <1>6, <1>7 DEF WorkerInv

\* So do Start and Close.
LEMMA CloseSteps == ASSUME WorkerInv, Start \/ CloseBegins \/ CloseStep PROVE WorkerInv'
<1>0. /\ Worker \notin Handlers /\ Nobody \notin Handlers /\ Worker # Nobody
      /\ MaxBackoff \in Nat /\ MaxFailures \in Nat /\ MaxGaps \in Nat /\ MaxPromotions \in Nat
      /\ WorkerTypeOK /\ CountsOK /\ WorkerOK /\ BusyOK /\ CloseOK /\ BarrierOK
  BY BackgroundAssumption DEF WorkerInv
<1>1. CASE Start
  <2>1. WorkerTypeOK' BY <1>0, <1>1 DEF Start, Launched, Gone, WorkerTypeOK
  <2>2. CountsOK' BY <1>0, <1>1 DEF Start, Launched, Gone, CountsOK, WorkerTypeOK
  <2>3. WorkerOK'
    BY <1>0, <1>1 DEF Start, Launched, Gone, WorkerOK, WorkerTypeOK, closed, CloseOK
  <2>4. BusyOK' BY <1>0, <1>1 DEF Start, Launched, Gone, BusyOK, WorkerTypeOK
  <2>5. CloseOK'
    BY <1>0, <1>1
    DEF Start, Launched, Gone, CloseOK, WorkerTypeOK, closed, InFlight, HasJournal, WorkerOK
  <2>6. BarrierOK'
    BY <1>0, <1>1
    DEF Start, Launched, BarrierOK, WorkerOK, CloseOK, WorkerTypeOK, HasJournal, Promoting, Gone
  <2> QED BY <2>1, <2>2, <2>3, <2>4, <2>5, <2>6 DEF WorkerInv
<1>2. CASE CloseBegins
  <2>1. WorkerTypeOK' BY <1>0, <1>2 DEF CloseBegins, WorkerTypeOK
  <2>2. CountsOK' BY <1>0, <1>2 DEF CloseBegins, CountsOK, WorkerTypeOK
  <2>3. WorkerOK' BY <1>0, <1>2 DEF CloseBegins, WorkerOK, WorkerTypeOK, closed, CloseOK
  <2>4. BusyOK' BY <1>0, <1>2 DEF CloseBegins, BusyOK, WorkerTypeOK
  <2>5. CloseOK'
    BY <1>0, <1>2
    DEF CloseBegins, CloseOK, WorkerTypeOK, closed, Gone, InFlight, HasJournal, WorkerOK
  <2>6. BarrierOK'
    BY <1>0, <1>2
    DEF CloseBegins, BarrierOK, WorkerOK, CloseOK, WorkerTypeOK, HasJournal, Promoting, Gone
  <2> QED BY <2>1, <2>2, <2>3, <2>4, <2>5, <2>6 DEF WorkerInv
<1>3. CASE CloseStops
  <2>1. WorkerTypeOK' BY <1>0, <1>3 DEF CloseStops, Stopped, WorkerTypeOK
  <2>2. CountsOK' BY <1>0, <1>3 DEF CloseStops, Stopped, CountsOK, WorkerTypeOK
  <2>3. WorkerOK'
    BY <1>0, <1>3 DEF CloseStops, Stopped, WorkerOK, WorkerTypeOK, closed, CloseOK
  <2>4. BusyOK' BY <1>0, <1>3 DEF CloseStops, Stopped, BusyOK, WorkerTypeOK
  <2>5. CloseOK'
    BY <1>0, <1>3
    DEF CloseStops, Stopped, CloseOK, WorkerTypeOK, closed, Gone, InFlight, HasJournal, WorkerOK
  <2>6. BarrierOK'
    BY <1>0, <1>3
    DEF CloseStops, Stopped, BarrierOK, WorkerOK, CloseOK, WorkerTypeOK, HasJournal, Promoting, Gone
  <2> QED BY <2>1, <2>2, <2>3, <2>4, <2>5, <2>6 DEF WorkerInv
<1>4. CASE CloseLocks
  <2>1. WorkerTypeOK' BY <1>0, <1>4 DEF CloseLocks, WorkerTypeOK
  <2>2. CountsOK' BY <1>0, <1>4 DEF CloseLocks, CountsOK, WorkerTypeOK
  <2>3. WorkerOK' BY <1>0, <1>4 DEF CloseLocks, WorkerOK, WorkerTypeOK, closed, CloseOK
  <2>4. BusyOK' BY <1>0, <1>4 DEF CloseLocks, BusyOK, WorkerTypeOK
  <2>5. CloseOK'
    BY <1>0, <1>4
    DEF CloseLocks, CloseOK, WorkerTypeOK, closed, Gone, InFlight, HasJournal, WorkerOK
  <2>6. BarrierOK'
    BY <1>0, <1>4
    DEF CloseLocks, BarrierOK, WorkerOK, CloseOK, WorkerTypeOK, HasJournal, Promoting, Gone
  <2> QED BY <2>1, <2>2, <2>3, <2>4, <2>5, <2>6 DEF WorkerInv
<1>5. CASE CloseEnds
  <2>1. WorkerTypeOK' BY <1>0, <1>5 DEF CloseEnds, WorkerTypeOK
  <2>2. CountsOK' BY <1>0, <1>5 DEF CloseEnds, CountsOK, WorkerTypeOK
  <2>3. WorkerOK' BY <1>0, <1>5 DEF CloseEnds, WorkerOK, WorkerTypeOK, closed, CloseOK
  <2>4. BusyOK' BY <1>0, <1>5 DEF CloseEnds, BusyOK, WorkerTypeOK
  <2>5. CloseOK'
    BY <1>0, <1>5 DEF CloseEnds, CloseOK, WorkerTypeOK, closed, Gone, InFlight, HasJournal, WorkerOK
  <2>6. BarrierOK'
    BY <1>0, <1>5
    DEF CloseEnds, BarrierOK, WorkerOK, CloseOK, WorkerTypeOK, HasJournal, Promoting, Gone
  <2> QED BY <2>1, <2>2, <2>3, <2>4, <2>5, <2>6 DEF WorkerInv
<1> QED BY <1>1, <1>2, <1>3, <1>4, <1>5 DEF CloseStep

\* The worker of a failed promotion is a new one, already launched.
LEMMA FreshWorker ==
  ASSUME NEW gen \in Nat
  PROVE  Launched(NewWorker(gen)) =
           [gen |-> gen, pc |-> "launched", status |-> "starting", cancelled |-> FALSE,
            backoff |-> 0, failures |-> 0]
<1> DEFINE Recs == [gen : Nat, pc : {"new", "launched"}, status : {"disabled", "starting"},
                    cancelled : BOOLEAN, backoff : Nat, failures : Nat]
           new == NewWorker(gen)
<1>1. /\ new \in Recs /\ new.gen = gen /\ new.cancelled = FALSE /\ new.backoff = 0
      /\ new.failures = 0
  BY DEF NewWorker
<1> HIDE DEF new
<1>2. /\ Launched(new) \in Recs /\ Launched(new).gen = new.gen
      /\ Launched(new).pc = "launched" /\ Launched(new).status = "starting"
      /\ Launched(new).cancelled = new.cancelled /\ Launched(new).backoff = new.backoff
      /\ Launched(new).failures = new.failures
  BY <1>1 DEF Launched
<1>3. QED BY <1>1, <1>2 DEF new

\* So does the promotion handler: one that fails before its record is written
\* gives a stopped worker back, one that fails afterwards keeps the barrier up.
LEMMA PromoteSteps ==
  ASSUME WorkerInv,
         PromoteArrives \/ PromoteReads \/ PromoteStep \/ PromoteFailsLate \/ PromoteAnswered
  PROVE  WorkerInv'
<1>0. /\ Worker \notin Handlers /\ Nobody \notin Handlers /\ Worker # Nobody
      /\ MaxBackoff \in Nat /\ MaxFailures \in Nat /\ MaxGaps \in Nat /\ MaxPromotions \in Nat
      /\ WorkerTypeOK /\ CountsOK /\ WorkerOK /\ BusyOK /\ CloseOK /\ BarrierOK
  BY BackgroundAssumption DEF WorkerInv
<1>1. CASE PromoteArrives
  <2>1. WorkerTypeOK'
    BY <1>0, <1>1 DEF PromoteArrives, PromoteGoto, Serving, UseUp, WorkerTypeOK, Stages
  <2>2. CountsOK'
    BY <1>0, <1>1 DEF PromoteArrives, PromoteGoto, Serving, UseUp, CountsOK, WorkerTypeOK
  <2>3. WorkerOK'
    BY <1>0, <1>1
    DEF PromoteArrives, PromoteGoto, Serving, UseUp, WorkerOK, WorkerTypeOK, closed, CloseOK
  <2>4. BusyOK' BY <1>0, <1>1 DEF PromoteArrives, PromoteGoto, Serving, UseUp, BusyOK, WorkerTypeOK
  <2>5. CloseOK'
    BY <1>0, <1>1
    DEF PromoteArrives, PromoteGoto, Serving, UseUp, CloseOK, WorkerTypeOK, closed, Gone, InFlight,
        WorkerOK, HasJournal
  <2>6. BarrierOK'
    BY <1>0, <1>1
    DEF PromoteArrives, PromoteGoto, Serving, UseUp, BarrierOK, WorkerOK, CloseOK, Gone,
        HasJournal, Promoting
  <2> QED BY <2>1, <2>2, <2>3, <2>4, <2>5, <2>6 DEF WorkerInv
<1>2. CASE PromoteReads
  <2>1. WorkerTypeOK' BY <1>0, <1>2 DEF PromoteReads, PromoteGoto, WorkerTypeOK, Stages
  <2>2. CountsOK' BY <1>0, <1>2 DEF PromoteReads, PromoteGoto, CountsOK, WorkerTypeOK
  <2>3. WorkerOK'
    BY <1>0, <1>2 DEF PromoteReads, PromoteGoto, WorkerOK, WorkerTypeOK, closed, CloseOK
  <2>4. BusyOK' BY <1>0, <1>2 DEF PromoteReads, PromoteGoto, BusyOK, WorkerTypeOK
  <2>5. CloseOK'
    BY <1>0, <1>2
    DEF PromoteReads, PromoteGoto, CloseOK, WorkerTypeOK, closed, Gone, InFlight,
        WorkerOK, HasJournal
  <2>6. BarrierOK'
    BY <1>0, <1>2
    DEF PromoteReads, PromoteGoto, BarrierOK, WorkerOK, CloseOK, Gone, HasJournal, Promoting
  <2> QED BY <2>1, <2>2, <2>3, <2>4, <2>5, <2>6 DEF WorkerInv
<1>3. CASE PromoteBegins
  <2>0. /\ promote = "entered" /\ record \in BOOLEAN /\ barrier \in BOOLEAN
        /\ UNCHANGED <<started, closing, muHeld, role, record, worker, handler, busy, spent>>
        /\ \/ promote' = "answering" /\ barrier' = barrier
           \/ promote' = "barred" /\ barrier' = TRUE /\ role = "follower" /\ ~record
    <3>1. record \in BOOLEAN /\ barrier \in BOOLEAN BY <1>0 DEF WorkerTypeOK
    <3>2. CASE PromoteGoto("answering") /\ UNCHANGED barrier
      BY <1>3, <3>1, <3>2 DEF PromoteBegins, PromoteGoto
    <3>3. CASE ~(PromoteGoto("answering") /\ UNCHANGED barrier)
      <4>1. /\ promote = "entered" /\ ~closed /\ role = "follower" /\ ~record
            /\ PromoteGoto("barred") /\ barrier' = TRUE /\ UNCHANGED <<role, record, worker, spent>>
        BY <1>3, <3>3 DEF PromoteBegins
      <4> QED BY <3>1, <4>1 DEF PromoteGoto
    <3> QED BY <3>2, <3>3
  <2>1. WorkerTypeOK'
    <3>1. barrier' \in BOOLEAN /\ promote' \in Stages BY <2>0 DEF Stages
    <3>2. UNCHANGED <<started, closing, muHeld, role, record, worker, handler, busy>> BY <2>0
    <3> QED BY <1>0, <3>1, <3>2 DEF WorkerTypeOK
  <2>2. CountsOK' BY <1>0, <2>0 DEF CountsOK, WorkerTypeOK
  <2>3. WorkerOK' BY <1>0, <2>0 DEF WorkerOK, closed
  <2>4. BusyOK' BY <1>0, <2>0 DEF BusyOK
  <2>5. CloseOK' BY <1>0, <2>0 DEF CloseOK, Gone, InFlight, HasJournal
  <2>6. BarrierOK' BY <1>0, <2>0 DEF BarrierOK, Gone, HasJournal, Promoting
  <2> QED BY <2>1, <2>2, <2>3, <2>4, <2>5, <2>6 DEF WorkerInv
<1>4. CASE PromoteStops
  <2>1. WorkerTypeOK' BY <1>0, <1>4 DEF PromoteStops, PromoteGoto, Stopped, WorkerTypeOK, Stages
  <2>2. CountsOK' BY <1>0, <1>4 DEF PromoteStops, PromoteGoto, Stopped, CountsOK, WorkerTypeOK
  <2>3. WorkerOK'
    BY <1>0, <1>4 DEF PromoteStops, PromoteGoto, Stopped, WorkerOK, WorkerTypeOK, closed, CloseOK
  <2>4. BusyOK' BY <1>0, <1>4 DEF PromoteStops, PromoteGoto, Stopped, BusyOK, WorkerTypeOK
  <2>5. CloseOK'
    BY <1>0, <1>4
    DEF PromoteStops, PromoteGoto, Stopped, CloseOK, WorkerTypeOK, closed, Gone, InFlight,
        WorkerOK, HasJournal
  <2>6. BarrierOK'
    BY <1>0, <1>4
    DEF PromoteStops, PromoteGoto, Stopped, BarrierOK, WorkerOK, CloseOK, Gone, HasJournal,
        Promoting
  <2> QED BY <2>1, <2>2, <2>3, <2>4, <2>5, <2>6 DEF WorkerInv
<1>5. CASE PromoteLocks
  <2>1. WorkerTypeOK' BY <1>0, <1>5 DEF PromoteLocks, PromoteGoto, WorkerTypeOK, Stages
  <2>2. CountsOK' BY <1>0, <1>5 DEF PromoteLocks, PromoteGoto, CountsOK, WorkerTypeOK
  <2>3. WorkerOK'
    BY <1>0, <1>5 DEF PromoteLocks, PromoteGoto, WorkerOK, WorkerTypeOK, closed, CloseOK
  <2>4. BusyOK' BY <1>0, <1>5 DEF PromoteLocks, PromoteGoto, BusyOK, WorkerTypeOK
  <2>5. CloseOK'
    BY <1>0, <1>5
    DEF PromoteLocks, PromoteGoto, CloseOK, WorkerTypeOK, closed, Gone, InFlight,
        WorkerOK, HasJournal
  <2>6. BarrierOK'
    BY <1>0, <1>5
    DEF PromoteLocks, PromoteGoto, BarrierOK, WorkerOK, CloseOK, Gone, HasJournal, Promoting
  <2> QED BY <2>1, <2>2, <2>3, <2>4, <2>5, <2>6 DEF WorkerInv
<1>6. CASE PromoteValidates
  <2>1. WorkerTypeOK' BY <1>0, <1>6 DEF PromoteValidates, PromoteGoto, WorkerTypeOK, Stages
  <2>2. CountsOK' BY <1>0, <1>6 DEF PromoteValidates, PromoteGoto, CountsOK, WorkerTypeOK
  <2>3. WorkerOK'
    BY <1>0, <1>6 DEF PromoteValidates, PromoteGoto, WorkerOK, WorkerTypeOK, closed, CloseOK
  <2>4. BusyOK' BY <1>0, <1>6 DEF PromoteValidates, PromoteGoto, BusyOK, WorkerTypeOK
  <2>5. CloseOK'
    BY <1>0, <1>6
    DEF PromoteValidates, PromoteGoto, CloseOK, WorkerTypeOK, closed, Gone, InFlight,
        WorkerOK, HasJournal
  <2>6. BarrierOK'
    BY <1>0, <1>6
    DEF PromoteValidates, PromoteGoto, BarrierOK, WorkerOK, CloseOK, Gone, HasJournal, Promoting
  <2> QED BY <2>1, <2>2, <2>3, <2>4, <2>5, <2>6 DEF WorkerInv
<1>7. CASE PromoteCommits
  <2>1. WorkerTypeOK' BY <1>0, <1>7 DEF PromoteCommits, PromoteGoto, WorkerTypeOK, Stages
  <2>2. CountsOK' BY <1>0, <1>7 DEF PromoteCommits, PromoteGoto, CountsOK, WorkerTypeOK
  <2>3. WorkerOK'
    BY <1>0, <1>7 DEF PromoteCommits, PromoteGoto, WorkerOK, WorkerTypeOK, closed, CloseOK
  <2>4. BusyOK' BY <1>0, <1>7 DEF PromoteCommits, PromoteGoto, BusyOK, WorkerTypeOK
  <2>5. CloseOK'
    BY <1>0, <1>7
    DEF PromoteCommits, PromoteGoto, CloseOK, WorkerTypeOK, closed, Gone, InFlight,
        WorkerOK, HasJournal
  <2>6. BarrierOK'
    BY <1>0, <1>7
    DEF PromoteCommits, PromoteGoto, BarrierOK, WorkerOK, CloseOK, Gone, HasJournal, Promoting
  <2> QED BY <2>1, <2>2, <2>3, <2>4, <2>5, <2>6 DEF WorkerInv
<1>8. CASE PromoteSucceeds
  <2>1. WorkerTypeOK' BY <1>0, <1>8 DEF PromoteSucceeds, PromoteGoto, WorkerTypeOK, Stages
  <2>2. CountsOK' BY <1>0, <1>8 DEF PromoteSucceeds, PromoteGoto, CountsOK, WorkerTypeOK
  <2>3. WorkerOK'
    BY <1>0, <1>8 DEF PromoteSucceeds, PromoteGoto, WorkerOK, WorkerTypeOK, closed, CloseOK
  <2>4. BusyOK' BY <1>0, <1>8 DEF PromoteSucceeds, PromoteGoto, BusyOK, WorkerTypeOK
  <2>5. CloseOK'
    BY <1>0, <1>8
    DEF PromoteSucceeds, PromoteGoto, CloseOK, WorkerTypeOK, closed, Gone, InFlight,
        WorkerOK, HasJournal
  <2>6. BarrierOK'
    BY <1>0, <1>8
    DEF PromoteSucceeds, PromoteGoto, BarrierOK, WorkerOK, CloseOK, Gone, HasJournal, Promoting
  <2> QED BY <2>1, <2>2, <2>3, <2>4, <2>5, <2>6 DEF WorkerInv
<1>9. CASE PromoteFailsLate
  <2>1. WorkerTypeOK' BY <1>0, <1>9 DEF PromoteFailsLate, PromoteGoto, WorkerTypeOK, Stages
  <2>2. CountsOK' BY <1>0, <1>9 DEF PromoteFailsLate, PromoteGoto, CountsOK, WorkerTypeOK
  <2>3. WorkerOK'
    BY <1>0, <1>9 DEF PromoteFailsLate, PromoteGoto, WorkerOK, WorkerTypeOK, closed, CloseOK
  <2>4. BusyOK' BY <1>0, <1>9 DEF PromoteFailsLate, PromoteGoto, BusyOK, WorkerTypeOK
  <2>5. CloseOK'
    BY <1>0, <1>9
    DEF PromoteFailsLate, PromoteGoto, CloseOK, WorkerTypeOK, closed, Gone, InFlight,
        WorkerOK, HasJournal
  <2>6. BarrierOK'
    BY <1>0, <1>9
    DEF PromoteFailsLate, PromoteGoto, BarrierOK, WorkerOK, CloseOK, Gone, HasJournal, Promoting
  <2> QED BY <2>1, <2>2, <2>3, <2>4, <2>5, <2>6 DEF WorkerInv
<1>10. CASE PromoteFails
  <2> DEFINE Another == ~closed /\ worker.status \in {"stopped", "disabled"}
             fresh == [gen |-> worker.gen + 1, pc |-> "launched", status |-> "starting",
                       cancelled |-> FALSE, backoff |-> 0, failures |-> 0]
  <2>1. promote \in {"locked", "committing"} BY <1>10 DEF PromoteFails
  <2>2. worker.gen \in Nat /\ worker.gen + 1 \in Nat /\ worker.gen + 1 <= spent.promotions
        /\ spent.promotions \in 0..MaxPromotions
    BY <1>0, <2>1 DEF CountsOK, WorkerTypeOK
  <2>3. /\ promote' = "answering" /\ ~muHeld /\ barrier' = FALSE
        /\ worker' = IF Another THEN fresh ELSE worker
        /\ UNCHANGED <<started, closing, muHeld, handler, busy, role, record, spent>>
    <3>1. Launched(NewWorker(worker.gen + 1)) = fresh BY <2>2, FreshWorker
    <3> HIDE DEF fresh
    <3> QED BY <1>10, <3>1 DEF PromoteFails, PromoteGoto
  <2>4. started /\ worker.pc = "gone" /\ worker.cancelled /\ worker.status = "stopped"
    BY <1>0, <2>1, <2>3 DEF CloseOK, WorkerOK, Gone, HasJournal, InFlight
  <2>5. WorkerTypeOK'
    <3>1. worker.gen + 1 \in 0..MaxPromotions /\ 0 \in 0..MaxBackoff
          /\ 0 \in 0..MaxFailures + MaxGaps
      BY <1>0, <2>2
    <3> QED BY <1>0, <2>1, <2>3, <3>1 DEF WorkerTypeOK, Stages
  <2>6. CountsOK' BY <1>0, <2>1, <2>3, <2>2 DEF CountsOK, WorkerTypeOK
  <2>7. WorkerOK' BY <1>0, <2>1, <2>3, <2>4 DEF WorkerOK, closed
  <2>8. BusyOK' BY <1>0, <2>1, <2>3, <2>4 DEF BusyOK
  <2>9. CloseOK' BY <1>0, <2>1, <2>3, <2>4 DEF CloseOK, closed, Gone, InFlight, HasJournal
  <2>10. BarrierOK' BY <1>0, <2>1, <2>3 DEF BarrierOK, HasJournal, Promoting
  <2> QED BY <2>5, <2>6, <2>7, <2>8, <2>9, <2>10 DEF WorkerInv
<1>11. CASE PromoteAnswered
  <2>1. WorkerTypeOK' BY <1>0, <1>11 DEF PromoteAnswered, PromoteGoto, WorkerTypeOK, Stages
  <2>2. CountsOK' BY <1>0, <1>11 DEF PromoteAnswered, PromoteGoto, CountsOK, WorkerTypeOK
  <2>3. WorkerOK'
    BY <1>0, <1>11 DEF PromoteAnswered, PromoteGoto, WorkerOK, WorkerTypeOK, closed, CloseOK
  <2>4. BusyOK' BY <1>0, <1>11 DEF PromoteAnswered, PromoteGoto, BusyOK, WorkerTypeOK
  <2>5. CloseOK'
    BY <1>0, <1>11
    DEF PromoteAnswered, PromoteGoto, CloseOK, WorkerTypeOK, closed, Gone, InFlight,
        WorkerOK, HasJournal
  <2>6. BarrierOK'
    BY <1>0, <1>11
    DEF PromoteAnswered, PromoteGoto, BarrierOK, WorkerOK, CloseOK, Gone, HasJournal, Promoting
  <2> QED BY <2>1, <2>2, <2>3, <2>4, <2>5, <2>6 DEF WorkerInv
<1> QED BY <1>1, <1>2, <1>3, <1>4, <1>5, <1>6, <1>7, <1>8, <1>9, <1>10, <1>11
  DEF PromoteStep

----------------------------------------------------------------------------
\* The inductive invariant holds in every state the server can reach.
THEOREM WorkerInvariant == WorkerSpec => []WorkerInv
<1>1. WorkerInit => WorkerInv BY InitWorkerInv
<1>2. WorkerInv /\ [WorkerNext]_workerVars => WorkerInv'
  <2> SUFFICES ASSUME WorkerInv, [WorkerNext]_workerVars PROVE WorkerInv' OBVIOUS
  <2>1. CASE Start \/ CloseBegins \/ CloseStep BY <2>1, CloseSteps
  <2>2. CASE WorkerStep BY <2>2, WorkerSteps
  <2>3. CASE \/ PromoteArrives \/ PromoteReads \/ PromoteStep \/ PromoteFailsLate
             \/ PromoteAnswered
    BY <2>3, PromoteSteps
  <2>4. CASE \E h \in Handlers : HandlerArrives(h) \/ HandlerStep(h) \/ HandlerAnswered(h)
    BY <2>4, HandlerSteps
  <2>5. CASE UNCHANGED workerVars
     BY <2>5
     DEF workerVars, WorkerInv, WorkerTypeOK, CountsOK, WorkerOK, BusyOK, CloseOK, BarrierOK,
         closed, Gone, InFlight, HasJournal, Promoting
  <2> QED BY <2>1, <2>2, <2>3, <2>4, <2>5 DEF WorkerNext
<1> QED BY <1>1, <1>2, PTL DEF WorkerSpec

\* An open follower that is not being promoted has a running worker and no
\* barrier, after any number of failed promotions
\* (restartBackgroundWorkerAfterPromotionFailure); unless one failed after its
\* record was written, and then no sync gets past the barrier.
THEOREM WorkerRestoredAlways == WorkerSpec => []WorkerRestored
<1>1. WorkerInv => WorkerRestored
  BY DEF WorkerInv, WorkerOK, BarrierOK, WorkerRestored, Gone, closed, Promoting
<1> QED BY <1>1, WorkerInvariant, PTL

\* When Close has closed journal and engine no worker, sync or promotion is left,
\* and none begins.
THEOREM NothingAfterCloseAlways == WorkerSpec => []NothingAfterClose
<1>1. WorkerInv => NothingAfterClose
  <2> SUFFICES ASSUME WorkerInv, closing = "done"
               PROVE  Gone(worker) /\ busy = Nobody /\ promote = "idle"
    BY DEF NothingAfterClose
  <2>1. Gone(worker) /\ promote = "idle" /\ \A h \in Handlers : handler[h] = "idle"
    BY DEF WorkerInv, CloseOK, InFlight
  <2>2. busy # Worker BY <2>1 DEF WorkerInv, BusyOK, Gone
  <2>3. \A h \in Handlers : busy # h BY <2>1 DEF WorkerInv, BusyOK
  <2> QED BY <2>1, <2>2, <2>3 DEF WorkerInv, WorkerTypeOK
<1> QED BY <1>1, WorkerInvariant, PTL
=============================================================================

