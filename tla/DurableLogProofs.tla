------------------------ MODULE DurableLogProofs ----------------------------
(***************************************************************************)
(* Proofs about the replication journal (module DurableLog): for any       *)
(* number of openings, failed rollbacks, crashes and power losses, and any *)
(* length of the journal below MaxSeq.                                     *)
(*                                                                         *)
(* The first section is about the binary search of EntriesAfter alone: in  *)
(* an index numbered without a gap it finds what comes after the cursor,   *)
(* whatever its length (SearchAfterIs).  The proof is an induction on the  *)
(* width of the window, as a descent: of the windows where the search is   *)
(* wrong one would be narrowest, but a round of it looks at a narrower     *)
(* one.  The inductive invariant IInv then says that the records follow    *)
(* the baseline without a gap (NumberedInv), that an open log has indexed  *)
(* all that it serves (OpenInv), and that without a power loss the file    *)
(* keeps what was ever served (ServedInv).                                 *)
(***************************************************************************)
EXTENDS DurableLog, SequenceTheorems, WellFoundedInduction, TLAPS

----------------------------------------------------------------------------
(* The search of EntriesAfter                                              *)

\* A set of naturals has a least element.
LEMMA LeastNat ==
  ASSUME NEW T, T \subseteq Nat, T # {}
  PROVE  \E x \in T : \A y \in T : x <= y
<1>1. PICK x \in T : \A y \in T : <<y, x>> \notin OpToRel(<, Nat)
  BY NatLessThanWellFounded, WFMin
<1>2. \A y \in T : ~(y < x) BY <1>1 DEF OpToRel
<1> QED BY <1>2

\* The middle of a window that is not empty lies in it.
LEMMA Middle ==
  ASSUME NEW lo \in Nat, NEW hi \in Nat, lo < hi
  PROVE  (lo + hi) \div 2 \in lo..hi - 1
OBVIOUS

\* One round of the search, as a function of the search.
Round(f, after) ==
  [w \in Window |->
     IF w.lo >= w.hi THEN w.lo
     ELSE LET mid == (w.lo + w.hi) \div 2
          IN  IF index[mid + 1].seq <= after THEN f[[w EXCEPT !.lo = mid + 1]]
              ELSE f[[w EXCEPT !.hi = mid]]]

\* What the search finds in a window when the numbers up to position a are those
\* that are not above the cursor.
Found(a, w) ==
  IF w.lo >= w.hi THEN w.lo
  ELSE IF a < w.lo THEN w.lo ELSE IF a > w.hi THEN w.hi ELSE a

\* The windows that the search makes of a window.
LEMMA WindowFields ==
  ASSUME Len(index) \in Nat, NEW w \in Window
  PROVE  /\ w.lo \in Nat /\ w.hi \in Nat /\ w.lo <= Len(index) /\ w.hi <= Len(index)
         /\ \A m \in 0..Len(index) :
              /\ [w EXCEPT !.lo = m] \in Window /\ [w EXCEPT !.hi = m] \in Window
              /\ [w EXCEPT !.lo = m].lo = m /\ [w EXCEPT !.lo = m].hi = w.hi
              /\ [w EXCEPT !.hi = m].lo = w.lo /\ [w EXCEPT !.hi = m].hi = m
BY DEF Window

\* A round on half the window finds the same.
LEMMA RoundFinds ==
  ASSUME Len(index) \in Nat, NEW base \in Int, NEW after \in Int,
         \A i \in 1..Len(index) : index[i].seq = base + i,
         NEW w \in Window, w.lo < w.hi, NEW mid, mid = (w.lo + w.hi) \div 2
  PROVE  /\ mid \in w.lo..w.hi - 1 /\ mid \in 0..Len(index) /\ mid + 1 \in 0..Len(index)
         /\ index[mid + 1].seq <= after =>
              Found(after - base, [w EXCEPT !.lo = mid + 1]) = Found(after - base, w)
         /\ ~(index[mid + 1].seq <= after) =>
              Found(after - base, [w EXCEPT !.hi = mid]) = Found(after - base, w)
<1>1. w.lo \in Nat /\ w.hi \in Nat /\ w.lo <= Len(index) /\ w.hi <= Len(index) BY WindowFields
<1>2. mid \in w.lo..w.hi - 1 BY <1>1, Middle
<1>3. mid \in 0..Len(index) /\ mid + 1 \in 0..Len(index) /\ mid + 1 \in 1..Len(index)
  BY <1>1, <1>2
<1>4. index[mid + 1].seq = base + (mid + 1) BY <1>3
<1>5. /\ [w EXCEPT !.lo = mid + 1].lo = mid + 1 /\ [w EXCEPT !.lo = mid + 1].hi = w.hi
      /\ [w EXCEPT !.hi = mid].lo = w.lo /\ [w EXCEPT !.hi = mid].hi = mid
  BY <1>3, WindowFields
<1>6. ASSUME index[mid + 1].seq <= after
      PROVE  Found(after - base, [w EXCEPT !.lo = mid + 1]) = Found(after - base, w)
  <2>1. after - base >= mid + 1 BY <1>3, <1>4, <1>6
  <2> QED BY <1>1, <1>2, <1>5, <2>1 DEF Found
<1>7. ASSUME ~(index[mid + 1].seq <= after)
      PROVE  Found(after - base, [w EXCEPT !.hi = mid]) = Found(after - base, w)
  <2>1. after - base <= mid BY <1>3, <1>4, <1>7
  <2> QED BY <1>1, <1>2, <1>5, <2>1 DEF Found
<1> QED BY <1>2, <1>3, <1>6, <1>7

\* There is a function that the search describes: the one that it finds.
LEMMA SearchDefined ==
  ASSUME Len(index) \in Nat, NEW base \in Int, NEW after \in Int,
         \A i \in 1..Len(index) : index[i].seq = base + i
  PROVE  \E f : f = Round(f, after)
<1> DEFINE f == [w \in Window |-> Found(after - base, w)]
<1>1. ASSUME NEW w \in Window
      PROVE  Found(after - base, w) =
               IF w.lo >= w.hi THEN w.lo
               ELSE LET mid == (w.lo + w.hi) \div 2
                    IN  IF index[mid + 1].seq <= after THEN f[[w EXCEPT !.lo = mid + 1]]
                        ELSE f[[w EXCEPT !.hi = mid]]
  <2>1. CASE w.lo >= w.hi BY <2>1 DEF Found
  <2>2. CASE ~(w.lo >= w.hi)
    <3> DEFINE mid == (w.lo + w.hi) \div 2
    <3>1. w.lo < w.hi BY <2>2, WindowFields
    <3>2. /\ mid \in 0..Len(index) /\ mid + 1 \in 0..Len(index)
          /\ index[mid + 1].seq <= after =>
               Found(after - base, [w EXCEPT !.lo = mid + 1]) = Found(after - base, w)
          /\ ~(index[mid + 1].seq <= after) =>
               Found(after - base, [w EXCEPT !.hi = mid]) = Found(after - base, w)
      BY <3>1, RoundFinds
    <3>3. [w EXCEPT !.lo = mid + 1] \in Window /\ [w EXCEPT !.hi = mid] \in Window
      BY <3>2, WindowFields
    <3>4. /\ f[[w EXCEPT !.lo = mid + 1]] = Found(after - base, [w EXCEPT !.lo = mid + 1])
          /\ f[[w EXCEPT !.hi = mid]] = Found(after - base, [w EXCEPT !.hi = mid])
      BY <3>3
    <3> HIDE DEF f, mid
    <3>5. Found(after - base, w) =
            IF index[mid + 1].seq <= after THEN f[[w EXCEPT !.lo = mid + 1]]
            ELSE f[[w EXCEPT !.hi = mid]]
      BY <3>2, <3>4
    <3> QED BY <2>2, <3>5 DEF mid
  <2> QED BY <2>1, <2>2
<1>2. f = Round(f, after) BY <1>1 DEF Round
<1> QED BY <1>2

\* Whatever satisfies the description finds it: by the width of the window.
LEMMA SearchUnique ==
  ASSUME Len(index) \in Nat, NEW base \in Int, NEW after \in Int,
         \A i \in 1..Len(index) : index[i].seq = base + i,
         NEW f, f = Round(f, after), NEW v \in Window
  PROVE  f[v] = Found(after - base, v)
<1> DEFINE wrong == {w \in Window : f[w] # Found(after - base, w)}
           width(w) == IF w.lo >= w.hi THEN 0 ELSE w.hi - w.lo
           T == {width(w) : w \in wrong}
<1> SUFFICES ASSUME v \in wrong PROVE FALSE OBVIOUS
<1>1. \A w \in Window : width(w) \in Nat BY WindowFields
<1>2. T \subseteq Nat /\ T # {} BY <1>1
<1>3. PICK n \in T : \A m \in T : n <= m
  <2> HIDE DEF T
  <2> QED BY <1>2, LeastNat
<1>4. PICK w \in wrong : n = width(w) BY <1>3
<1>5. w \in Window /\ f[w] # Found(after - base, w) BY <1>4
<1>6. \A u \in Window : width(u) < width(w) => f[u] = Found(after - base, u)
  <2> TAKE u \in Window
  <2>1. u \in wrong => width(u) \in T OBVIOUS
  <2>2. width(u) \in Nat /\ width(w) \in Nat BY <1>1, <1>5
  <2>3. u \notin wrong => f[u] = Found(after - base, u) OBVIOUS
  <2> HIDE DEF wrong, T, width
  <2>4. u \in wrong => ~(width(u) < width(w)) BY <1>3, <1>4, <2>1, <2>2
  <2> QED BY <2>3, <2>4
<1>7. f[w] = IF w.lo >= w.hi THEN w.lo
             ELSE LET mid == (w.lo + w.hi) \div 2
                  IN  IF index[mid + 1].seq <= after THEN f[[w EXCEPT !.lo = mid + 1]]
                      ELSE f[[w EXCEPT !.hi = mid]]
  BY <1>5 DEF Round
<1>8. w.lo < w.hi
  <2>1. w.lo >= w.hi => f[w] = Found(after - base, w) BY <1>7 DEF Found
  <2> QED BY <1>5, <2>1, WindowFields
<1> DEFINE mid == (w.lo + w.hi) \div 2
<1>9. /\ mid \in w.lo..w.hi - 1 /\ mid \in 0..Len(index) /\ mid + 1 \in 0..Len(index)
      /\ index[mid + 1].seq <= after =>
           Found(after - base, [w EXCEPT !.lo = mid + 1]) = Found(after - base, w)
      /\ ~(index[mid + 1].seq <= after) =>
           Found(after - base, [w EXCEPT !.hi = mid]) = Found(after - base, w)
  BY <1>5, <1>8, RoundFinds
<1>10. /\ [w EXCEPT !.lo = mid + 1] \in Window /\ [w EXCEPT !.hi = mid] \in Window
       /\ [w EXCEPT !.lo = mid + 1].lo = mid + 1 /\ [w EXCEPT !.lo = mid + 1].hi = w.hi
       /\ [w EXCEPT !.hi = mid].lo = w.lo /\ [w EXCEPT !.hi = mid].hi = mid
       /\ w.lo \in Nat /\ w.hi \in Nat
  BY <1>5, <1>9, WindowFields
<1>11. f[w] = IF index[mid + 1].seq <= after THEN f[[w EXCEPT !.lo = mid + 1]]
              ELSE f[[w EXCEPT !.hi = mid]]
  BY <1>7, <1>8, <1>10
<1> HIDE DEF mid, wrong, T
<1>12. width([w EXCEPT !.lo = mid + 1]) < width(w) /\ width([w EXCEPT !.hi = mid]) < width(w)
  BY <1>8, <1>9, <1>10
<1> HIDE DEF width
<1>13. f[[w EXCEPT !.lo = mid + 1]] = Found(after - base, [w EXCEPT !.lo = mid + 1])
  BY <1>6, <1>10, <1>12
<1>14. f[[w EXCEPT !.hi = mid]] = Found(after - base, [w EXCEPT !.hi = mid])
  BY <1>6, <1>10, <1>12
<1> QED BY <1>5, <1>9, <1>11, <1>13, <1>14

\* The binary search of EntriesAfter, over numbers without a gap after the base.
LEMMA SearchAfterIs ==
  ASSUME Len(index) \in Nat, NEW base \in Int, NEW after \in Int,
         \A i \in 1..Len(index) : index[i].seq = base + i
  PROVE  SearchAfter(after) = Found(after - base, [lo |-> 0, hi |-> Len(index)])
<1> DEFINE f == CHOOSE f : f = Round(f, after)
           all == [lo |-> 0, hi |-> Len(index)]
<1>1. SearchAfter(after) = f[all] BY DEF SearchAfter, Round
<1>2. f = Round(f, after)
  <2>1. \E g : g = Round(g, after) BY SearchDefined
  <2> HIDE DEF Round
  <2> QED BY <2>1
<1>3. all \in Window BY DEF Window
<1> HIDE DEF f, all
<1>4. f[all] = Found(after - base, all) BY <1>2, <1>3, SearchUnique
<1> QED BY <1>1, <1>4 DEF all

----------------------------------------------------------------------------
(* The file                                                                *)

\* IsPrefix, entry by entry.
LEMMA PrefixIff ==
  ASSUME NEW s \in Seq(Record), NEW t \in Seq(Record)
  PROVE  IsPrefix(s, t) <=> Len(s) <= Len(t) /\ \A i \in 1..Len(s) : s[i] = t[i]
<1> DEFINE n == Len(s)
<1>1. n \in Nat /\ Len(t) \in Nat BY LenProperties
<1>2. \A i \in 1..n : s[i] \in Record BY ElementOfSeq
<1>3. /\ SubSeq(s, 1, n) \in Seq(Record) /\ Len(SubSeq(s, 1, n)) = n
      /\ \A i \in 1..n : SubSeq(s, 1, n)[i] = s[i]
  <2>1. /\ SubSeq(s, 1, n) \in Seq(Record)
        /\ Len(SubSeq(s, 1, n)) = IF 1 <= n THEN n - 1 + 1 ELSE 0
        /\ \A i \in 1..n - 1 + 1 : SubSeq(s, 1, n)[i] = s[1 + i - 1]
    BY <1>1, <1>2, SubSeqProperties
  <2> HIDE DEF n
  <2> QED BY <1>1, <2>1
<1>4. ASSUME n <= Len(t)
      PROVE  /\ SubSeq(t, 1, n) \in Seq(Record) /\ Len(SubSeq(t, 1, n)) = n
             /\ \A i \in 1..n : SubSeq(t, 1, n)[i] = t[i]
  <2>0. \A i \in 1..n : t[i] \in Record
    <3>1. \A i \in 1..Len(t) : t[i] \in Record BY ElementOfSeq
    <3> QED BY <1>1, <1>4, <3>1
  <2>1. /\ SubSeq(t, 1, n) \in Seq(Record)
        /\ Len(SubSeq(t, 1, n)) = IF 1 <= n THEN n - 1 + 1 ELSE 0
        /\ \A i \in 1..n - 1 + 1 : SubSeq(t, 1, n)[i] = t[1 + i - 1]
    BY <1>1, <2>0, SubSeqProperties
  <2> HIDE DEF n
  <2> QED BY <1>1, <2>1
<1>5. ASSUME n <= Len(t), \A i \in 1..n : s[i] = t[i] PROVE SubSeq(s, 1, n) = SubSeq(t, 1, n)
  <2>1. \A i \in 1..Len(SubSeq(s, 1, n)) : SubSeq(s, 1, n)[i] = SubSeq(t, 1, n)[i]
    BY <1>3, <1>4, <1>5
  <2> QED BY <1>3, <1>4, <1>5, <2>1, SeqEqual
<1>6. ASSUME n <= Len(t), SubSeq(s, 1, n) = SubSeq(t, 1, n) PROVE \A i \in 1..n : s[i] = t[i]
  BY <1>3, <1>4, <1>6
<1> QED BY <1>5, <1>6 DEF IsPrefix

\* The types of what is on disk, and of the counters.
LEMMA Types ==
  ASSUME TypeOK
  PROVE  /\ records \in Seq(Record) /\ served \in Seq(Record) /\ acked \in Seq(Record)
         /\ Len(records) \in Nat /\ Len(served) \in Nat /\ Len(acked) \in Nat
         /\ index \in Seq([seq : 1..MaxSeq, offset : Nat \ {0}]) /\ Len(index) \in Nat
         /\ BaseOf(baseline) \in 0..MaxSeq - 1
         /\ \A b \in 0..MaxSeq - 1 : BaseOf(b) = b
         /\ MaxSeq \in Nat \ {0}
<1>1. MaxSeq \in Nat \ {0} /\ None \notin Nat BY LogAssumption
<1>2. /\ records \in Seq(Record) /\ served \in Seq(Record) /\ acked \in Seq(Record)
      /\ index \in Seq([seq : 1..MaxSeq, offset : Nat \ {0}])
  BY DEF TypeOK
<1>3. BaseOf(baseline) \in 0..MaxSeq - 1
  <2>1. baseline \in {None} \cup 0..MaxSeq - 1 BY DEF TypeOK
  <2>2. CASE baseline = None
    <3>1. BaseOf(baseline) = 0 BY <2>2 DEF BaseOf
    <3>2. 0 \in 0..MaxSeq - 1 BY <1>1
    <3> QED BY <3>1, <3>2
  <2>3. CASE baseline # None
    <3>1. BaseOf(baseline) = baseline BY <2>3 DEF BaseOf
    <3>2. baseline \in 0..MaxSeq - 1 BY <2>1, <2>3
    <3> QED BY <3>1, <3>2
  <2> QED BY <2>2, <2>3
<1>4. \A b \in 0..MaxSeq - 1 : BaseOf(b) = b BY <1>1 DEF BaseOf
<1> QED BY <1>1, <1>2, <1>3, <1>4, LenProperties

\* The record that an open log appends next carries on the numbering.
LEMMA NextRecord ==
  ASSUME TypeOK, NumberedInv, OpenInv, CanAppend, NEW op \in Ops
  PROVE  /\ NewRecord(op) \in Record /\ NewRecord(op).seq = nextSeq
         /\ nextSeq = BaseOf(baseline) + Len(records) + 1
         /\ nextSeq \in 1..MaxSeq - 1 /\ baseSeq = BaseOf(baseline)
         /\ Len(index) = Len(records) /\ Len(served) = Len(records) /\ tail = "none"
<1>1. /\ baseSeq = BaseOf(baseline) /\ nextSeq = baseSeq + Len(index) + 1
      /\ tail = "none" /\ Len(index) = Len(records) /\ Len(served) = Len(records)
  BY DEF OpenInv, CanAppend
<1>2. nextSeq \in 0..MaxSeq /\ nextSeq # MaxSeq BY DEF TypeOK, CanAppend
<1>3. BaseOf(baseline) \in 0..MaxSeq - 1 /\ Len(records) \in Nat /\ MaxSeq \in Nat \ {0} BY Types
<1>4. nextSeq \in 1..MaxSeq - 1 BY <1>1, <1>2, <1>3
<1>5. NewRecord(op) \in Record /\ NewRecord(op).seq = nextSeq
  BY <1>3, <1>4 DEF NewRecord, Record
<1> QED BY <1>1, <1>4, <1>5

\* What a write leaves: the records that were there, and perhaps one more.
Kept ==
  /\ records' \in Seq(Record) /\ Len(records') \in Nat /\ Len(records) <= Len(records')
  /\ \A i \in 1..Len(records) : records'[i] = records[i]

\* A record appended by an open log.
LEMMA RecordAppended ==
  ASSUME TypeOK, NumberedInv, OpenInv, CanAppend, NEW op \in Ops, baseline' = baseline,
         records' = Append(records, NewRecord(op))
  PROVE  /\ Kept /\ NumberedInv' /\ Len(records') = Len(records) + 1
         /\ records'[Len(records')] = NewRecord(op)
<1>1. /\ NewRecord(op) \in Record /\ NewRecord(op).seq = nextSeq
      /\ nextSeq = BaseOf(baseline) + Len(records) + 1
      /\ nextSeq \in 1..MaxSeq - 1
  BY NextRecord
<1>2. records \in Seq(Record) /\ Len(records) \in Nat /\ MaxSeq \in Nat \ {0}
      /\ BaseOf(baseline) \in 0..MaxSeq - 1
  BY Types
<1>3. /\ records' \in Seq(Record) /\ Len(records') = Len(records) + 1
      /\ \A i \in 1..Len(records) : records'[i] = records[i]
      /\ records'[Len(records) + 1] = NewRecord(op)
  BY <1>1, <1>2, AppendProperties
<1>4. Kept BY <1>2, <1>3 DEF Kept
<1>5. \A i \in 1..Len(records') : records'[i].seq = BaseOf(baseline) + i /\ records'[i].seq < MaxSeq
  <2> TAKE i \in 1..Len(records')
  <2>1. CASE i \in 1..Len(records)
    <3>1. records'[i] = records[i] BY <1>3, <2>1
    <3>2. records[i].seq = BaseOf(baseline) + i /\ records[i].seq < MaxSeq BY <2>1 DEF NumberedInv
    <3> QED BY <3>1, <3>2
  <2>2. CASE i = Len(records) + 1
    <3>1. records'[i] = NewRecord(op) BY <1>3, <2>2
    <3> QED BY <1>1, <1>2, <2>2, <3>1
  <2> QED BY <1>2, <1>3, <2>1, <2>2
<1>6. NumberedInv' BY <1>5 DEF NumberedInv
<1> QED BY <1>3, <1>4, <1>6

\* A write that was cut short, or whole and not acknowledged.
LEMMA LeavesKept ==
  ASSUME TypeOK, NumberedInv, OpenInv, CanAppend, NEW op \in Ops, baseline' = baseline,
         NEW left \in Tails \cup {"whole"}, Leaves(op, left)
  PROVE  Kept /\ NumberedInv' /\ tail' \in Tails
<1>1. CASE left = "whole"
  <2>1. records' = Append(records, NewRecord(op)) /\ tail' = "none" BY <1>1 DEF Leaves
  <2> QED BY <2>1, RecordAppended DEF Tails
<1>2. CASE left # "whole"
  <2>1. records' = records /\ tail' = left BY <1>2 DEF Leaves
  <2>2. records \in Seq(Record) /\ Len(records) \in Nat BY Types
  <2>3. Kept BY <2>1, <2>2 DEF Kept
  <2>4. NumberedInv' BY <2>1 DEF NumberedInv
  <2> QED BY <1>2, <2>1, <2>3, <2>4
<1> QED BY <1>1, <1>2

\* As long as the synced part stays, so do the acknowledged records.
LEMMA AcksKeep ==
  ASSUME TypeOK, AcksSurvive, acked' = acked, synced' \in Nat, synced <= synced',
         \A i \in 1..synced : records'[i] = records[i]
  PROVE  AcksSurvive'
<1>0. synced \in Nat BY Types DEF TypeOK
<1> SUFFICES ASSUME NEW i \in 1..Len(acked)
             PROVE  \E j \in 1..synced' : records'[j] = acked[i]
  BY DEF AcksSurvive
<1>1. PICK j \in 1..synced : records[j] = acked[i] BY DEF AcksSurvive
<1>2. j \in 1..synced' /\ records'[j] = records[j] BY <1>0, <1>1
<1> QED BY <1>1, <1>2

\* What was served is still in front.
LEMMA ServedKeeps ==
  ASSUME TypeOK, NEW s \in Seq(Record), IsPrefix(s, records), Kept
  PROVE  IsPrefix(s, records')
<1>1. Len(s) <= Len(records) /\ \A i \in 1..Len(s) : s[i] = records[i] BY Types, PrefixIff
<1>2. records' \in Seq(Record) /\ Len(records') \in Nat /\ Len(records) <= Len(records')
      /\ \A i \in 1..Len(records) : records'[i] = records[i]
      /\ Len(s) \in Nat /\ Len(records) \in Nat
  BY Types, LenProperties DEF Kept
<1>3. Len(s) <= Len(records') /\ \A i \in 1..Len(s) : s[i] = records'[i] BY <1>1, <1>2
<1> QED BY <1>2, <1>3, PrefixIff

----------------------------------------------------------------------------
(* Opening, closing, power losses                                          *)

\* The bounds on faults, openings and power losses only count up.
LEMMA Counted ==
  ASSUME TypeOK,
         \/ UNCHANGED used
         \/ used' = [used EXCEPT !.opens = @ + 1]
         \/ used' = [used EXCEPT !.faults = @ + 1]
  PROVE  used' \in [{"opens", "faults", "powerLosses"} -> Nat] /\ used'.powerLosses = used.powerLosses
<1>1. used \in [{"opens", "faults", "powerLosses"} -> Nat] BY DEF TypeOK
<1> QED BY <1>1

\* Cutting the tail off leaves the records, and makes them no less safe.
LEMMA CutKeeps ==
  ASSUME TypeOK, CutTail
  PROVE  tail' = "none" /\ synced' \in 0..Len(records) /\ synced <= synced'
<1>1. synced \in 0..Len(records) /\ Len(records) \in Nat BY Types DEF TypeOK
<1> QED BY <1>1 DEF CutTail

\* A function on 1..m is a sequence of length m.
LEMMA MadeSeq ==
  ASSUME NEW S, NEW m \in Nat, NEW f \in [1..m -> S]
  PROVE  f \in Seq(S) /\ Len(f) = m
<1>1. f \in Seq(S)
  <2>1. f \in UNION {[1..n -> S] : n \in Nat} OBVIOUS
  <2> QED BY <2>1, SeqDef
<1>2. DOMAIN f = 1..m /\ DOMAIN f = 1..Len(f) /\ Len(f) \in Nat BY <1>1, LenProperties
<1> QED BY <1>1, <1>2

\* A log that is accepted is numbered from the base on.
LEMMA OpenedNumbers ==
  ASSUME TypeOK, ReplayOK(BaseOf(baseline))
  PROVE  /\ NumberedInv
         /\ ReplayIndex \in Seq([seq : 1..MaxSeq, offset : Nat \ {0}])
         /\ Len(ReplayIndex) = Len(records)
         /\ \A i \in 1..Len(records) :
              ReplayIndex[i] = [seq |-> BaseOf(baseline) + i, offset |-> i]
         /\ NextAfterReplay(BaseOf(baseline)) = BaseOf(baseline) + Len(records) + 1
         /\ NextAfterReplay(BaseOf(baseline)) \in 0..MaxSeq
<1> DEFINE n == Len(records)  b == BaseOf(baseline)
<1>1. n \in Nat /\ b \in 0..MaxSeq - 1 /\ MaxSeq \in Nat \ {0} /\ records \in Seq(Record)
  BY Types
<1>2. \A i \in 1..n : records[i].seq = b + i /\ records[i].seq < MaxSeq BY DEF ReplayOK
<1>3. NumberedInv BY <1>2 DEF NumberedInv
<1>4. \A i \in 1..n : records[i].seq \in 1..MaxSeq BY <1>1, <1>2
<1>5. ReplayIndex = [i \in 1..n |-> [seq |-> records[i].seq, offset |-> i]] BY DEF ReplayIndex
<1>6. ReplayIndex \in [1..n -> [seq : 1..MaxSeq, offset : Nat \ {0}]]
  <2> HIDE DEF n
  <2>1. \A i \in 1..n : [seq |-> records[i].seq, offset |-> i] \in [seq : 1..MaxSeq, offset : Nat \ {0}]
    BY <1>1, <1>4
  <2> QED BY <1>5, <2>1
<1>7. ReplayIndex \in Seq([seq : 1..MaxSeq, offset : Nat \ {0}]) /\ Len(ReplayIndex) = n
  <2> HIDE DEF n
  <2> QED BY <1>1, <1>6, MadeSeq
<1>9. \A i \in 1..n : ReplayIndex[i] = [seq |-> b + i, offset |-> i] BY <1>2, <1>5
<1>10. NextAfterReplay(b) = b + n + 1
  <2>1. CASE records # <<>>
    <3>1. n \in Nat \ {0} BY <1>1, <2>1, EmptySeq
    <3>2. Last(records).seq = b + n BY <1>2, <3>1 DEF Last
    <3> QED BY <2>1, <3>2 DEF NextAfterReplay
  <2>2. CASE records = <<>>
    <3>1. n = 0 BY <2>2
    <3> HIDE DEF b
    <3> QED BY <1>1, <2>2, <3>1 DEF NextAfterReplay
  <2> QED BY <2>1, <2>2
<1>11. b + n + 1 \in 0..MaxSeq
  <2>1. CASE n = 0 BY <1>1, <2>1
  <2>2. CASE n # 0
    <3>1. n \in 1..n BY <1>1, <2>2
    <3>2. b + n < MaxSeq BY <1>2, <3>1
    <3> HIDE DEF b, n
    <3> QED BY <1>1, <3>2
  <2> QED BY <2>1, <2>2
<1> QED BY <1>3, <1>7, <1>9, <1>10, <1>11

\* OpenDurableLog indexes the whole file, and cuts its tail.
LEMMA OpenStep ==
  ASSUME IInv, OpenDurableLog
  PROVE  IInv'
<1>0. TypeOK /\ AcksSurvive /\ NumberedInv /\ OpenInv /\ ServedInv BY DEF IInv
<1>1. /\ ReplayOK(BaseOf(baseline)) /\ CutTail /\ status' = "open" /\ index' = ReplayIndex
      /\ nextSeq' = NextAfterReplay(BaseOf(baseline)) /\ baseSeq' = BaseOf(baseline)
      /\ poisoned' = FALSE /\ served' = records /\ used' = [used EXCEPT !.opens = @ + 1]
      /\ records' = records /\ baseline' = baseline /\ acked' = acked
  BY DEF OpenDurableLog
<1>2. /\ NumberedInv
      /\ ReplayIndex \in Seq([seq : 1..MaxSeq, offset : Nat \ {0}])
      /\ Len(ReplayIndex) = Len(records)
      /\ \A i \in 1..Len(records) :
           ReplayIndex[i] = [seq |-> BaseOf(baseline) + i, offset |-> i]
      /\ NextAfterReplay(BaseOf(baseline)) = BaseOf(baseline) + Len(records) + 1
      /\ NextAfterReplay(BaseOf(baseline)) \in 0..MaxSeq
  BY <1>0, <1>1, OpenedNumbers
<1>3. tail' = "none" /\ synced' \in 0..Len(records) /\ synced <= synced' BY <1>0, <1>1, CutKeeps
<1>4. used' \in [{"opens", "faults", "powerLosses"} -> Nat] BY <1>0, <1>1, Counted
<1>5. records \in Seq(Record) /\ BaseOf(baseline) \in 0..MaxSeq - 1 /\ acked \in Seq(Record)
      /\ Len(records) \in Nat
  BY <1>0, Types
<1>6. IsPrefix(records, records) BY <1>5, PrefixIff
<1>7. TypeOK'
  <2>1. baseline' \in {None} \cup 0..MaxSeq - 1 BY <1>0, <1>1 DEF TypeOK
  <2>2. synced' \in 0..Len(records') /\ tail' \in Tails BY <1>1, <1>3 DEF Tails
  <2> QED BY <1>1, <1>2, <1>4, <1>5, <2>1, <2>2 DEF TypeOK
<1>8. AcksSurvive' BY <1>0, <1>1, <1>3, AcksKeep
<1>9. NumberedInv' BY <1>1, <1>2 DEF NumberedInv
<1>10. OpenInv' BY <1>1, <1>2, <1>3, <1>5, <1>6 DEF OpenInv
<1>11. ServedInv' BY <1>1, <1>6 DEF ServedInv
<1> QED BY <1>7, <1>8, <1>9, <1>10, <1>11 DEF IInv

\* What a closed log remembers.
LEMMA ForgottenTypes ==
  ASSUME LoseMemory
  PROVE  /\ status' = "closed" /\ index' \in Seq([seq : 1..MaxSeq, offset : Nat \ {0}])
         /\ nextSeq' \in 0..MaxSeq /\ baseSeq' \in 0..MaxSeq - 1 /\ poisoned' \in BOOLEAN
         /\ OpenInv'
<1>1. status' = "closed" /\ index' = <<>> /\ nextSeq' = 0 /\ baseSeq' = 0 /\ poisoned' = FALSE
  BY DEF LoseMemory
<1>2. OpenInv' BY <1>1 DEF OpenInv
<1>3. <<>> \in Seq([seq : 1..MaxSeq, offset : Nat \ {0}]) BY EmptySeq
<1>4. 0 \in 0..MaxSeq /\ 0 \in 0..MaxSeq - 1 BY LogAssumption
<1> QED BY <1>1, <1>2, <1>3, <1>4

\* Close forgets, and leaves the file alone.
LEMMA CloseStep ==
  ASSUME IInv, Close
  PROVE  IInv'
<1>0. TypeOK /\ AcksSurvive /\ NumberedInv /\ OpenInv /\ ServedInv BY DEF IInv
<1>1. /\ LoseMemory /\ records' = records /\ tail' = tail /\ synced' = synced
      /\ baseline' = baseline /\ acked' = acked /\ served' = served /\ used' = used
  BY DEF Close, fileVars
<1>2. /\ status' = "closed" /\ index' \in Seq([seq : 1..MaxSeq, offset : Nat \ {0}])
      /\ nextSeq' \in 0..MaxSeq /\ baseSeq' \in 0..MaxSeq - 1 /\ poisoned' \in BOOLEAN
      /\ OpenInv'
  BY <1>1, ForgottenTypes
<1>3. TypeOK' BY <1>0, <1>1, <1>2 DEF TypeOK
<1>4. AcksSurvive' BY <1>0, <1>1 DEF AcksSurvive
<1>5. NumberedInv' /\ ServedInv' BY <1>0, <1>1 DEF NumberedInv, ServedInv
<1> QED BY <1>2, <1>3, <1>4, <1>5 DEF IInv

\* A power loss takes records that were not fsynced, and so not acknowledged.
LEMMA PowerLossStep ==
  ASSUME IInv, PowerLoss
  PROVE  IInv'
<1>0. TypeOK /\ AcksSurvive /\ NumberedInv /\ OpenInv /\ ServedInv BY DEF IInv
<1>1. /\ LoseMemory /\ used' = [used EXCEPT !.powerLosses = @ + 1]
      /\ synced' = synced /\ baseline' = baseline /\ acked' = acked /\ served' = served
  BY DEF PowerLoss
<1>2. PICK n \in synced..Len(records) :
        /\ records' = SubSeq(records, 1, n)
        /\ tail' \in IF n < Len(records) \/ tail # "none" THEN Tails ELSE {"none"}
  BY DEF PowerLoss
<1>3. /\ records \in Seq(Record) /\ Len(records) \in Nat /\ synced \in 0..Len(records)
  BY <1>0, Types DEF TypeOK
<1>4. n \in Nat /\ n <= Len(records) /\ synced <= n BY <1>3
<1>5. records' \in Seq(Record) /\ Len(records') = n /\ \A i \in 1..n : records'[i] = records[i]
  <2>1. \A i \in 1..n : records[i] \in Record
    <3>1. \A i \in 1..Len(records) : records[i] \in Record BY <1>3, ElementOfSeq
    <3> QED BY <1>3, <1>4, <3>1
  <2>2. /\ SubSeq(records, 1, n) \in Seq(Record)
        /\ Len(SubSeq(records, 1, n)) = IF 1 <= n THEN n - 1 + 1 ELSE 0
        /\ \A i \in 1..n - 1 + 1 : SubSeq(records, 1, n)[i] = records[1 + i - 1]
    BY <1>4, <2>1, SubSeqProperties
  <2> QED BY <1>2, <1>4, <2>2
<1>6. /\ status' = "closed" /\ index' \in Seq([seq : 1..MaxSeq, offset : Nat \ {0}])
      /\ nextSeq' \in 0..MaxSeq /\ baseSeq' \in 0..MaxSeq - 1 /\ poisoned' \in BOOLEAN
      /\ OpenInv'
  BY <1>1, ForgottenTypes
<1>7. used' \in [{"opens", "faults", "powerLosses"} -> Nat] /\ used'.powerLosses # 0
  <2>1. used \in [{"opens", "faults", "powerLosses"} -> Nat] BY <1>0 DEF TypeOK
  <2> QED BY <1>1, <2>1
<1>8. TypeOK'
  <2>1. tail' \in Tails BY <1>2 DEF Tails
  <2>2. synced' \in 0..Len(records') BY <1>1, <1>3, <1>4, <1>5
  <2>3. baseline' \in {None} \cup 0..MaxSeq - 1 BY <1>0, <1>1 DEF TypeOK
  <2>4. acked' \in Seq(Record) /\ served' \in Seq(Record) BY <1>0, <1>1 DEF TypeOK
  <2> QED BY <1>5, <1>6, <1>7, <2>1, <2>2, <2>3, <2>4 DEF TypeOK
<1>9. AcksSurvive'
  <2>1. \A i \in 1..synced : records'[i] = records[i] BY <1>3, <1>4, <1>5
  <2>2. synced' \in Nat /\ synced <= synced' BY <1>1, <1>3
  <2> QED BY <1>0, <1>1, <2>1, <2>2, AcksKeep
<1>10. NumberedInv'
  <2>1. \A i \in 1..Len(records') : records[i].seq = BaseOf(baseline) + i /\ records[i].seq < MaxSeq
    BY <1>0, <1>3, <1>4, <1>5 DEF NumberedInv
  <2> QED BY <1>1, <1>5, <2>1 DEF NumberedInv
<1>11. ServedInv' BY <1>7 DEF ServedInv
<1> QED BY <1>6, <1>8, <1>9, <1>10, <1>11 DEF IInv

----------------------------------------------------------------------------
(* Appending                                                               *)

\* Append numbers the record, syncs it and indexes it.
LEMMA AppendRecordStep ==
  ASSUME IInv, NEW op \in Ops, AppendRecord(op)
  PROVE  IInv'
<1>0. TypeOK /\ AcksSurvive /\ NumberedInv /\ OpenInv /\ ServedInv BY DEF IInv
<1>1. PICK r : r = NewRecord(op) OBVIOUS
<1>2. /\ CanAppend /\ records' = Append(records, r) /\ synced' = Len(records')
      /\ index' = Append(index, [seq |-> nextSeq, offset |-> Len(records')])
      /\ nextSeq' = nextSeq + 1 /\ acked' = Append(acked, r) /\ served' = records'
      /\ tail' = tail /\ baseline' = baseline /\ status' = status /\ baseSeq' = baseSeq
      /\ poisoned' = poisoned /\ used' = used
  BY <1>1 DEF AppendRecord, Fsync
<1>3. /\ r \in Record
      /\ nextSeq = BaseOf(baseline) + Len(records) + 1
      /\ nextSeq \in 1..MaxSeq - 1 /\ baseSeq = BaseOf(baseline)
      /\ Len(index) = Len(records) /\ Len(served) = Len(records) /\ tail = "none"
  BY <1>0, <1>1, <1>2, NextRecord
<1>4. /\ Kept /\ NumberedInv' /\ Len(records') = Len(records) + 1
      /\ records'[Len(records')] = r
  BY <1>0, <1>1, <1>2, RecordAppended
<1>5. /\ records' \in Seq(Record) /\ Len(records') \in Nat
      /\ \A i \in 1..Len(records) : records'[i] = records[i]
  BY <1>4 DEF Kept
<1>6. /\ Len(records) \in Nat /\ Len(acked) \in Nat /\ acked \in Seq(Record)
      /\ index \in Seq([seq : 1..MaxSeq, offset : Nat \ {0}]) /\ MaxSeq \in Nat \ {0}
      /\ BaseOf(baseline) \in 0..MaxSeq - 1
  BY <1>0, Types
<1>7. PICK e : e = [seq |-> nextSeq, offset |-> Len(records')] OBVIOUS
<1>8. e \in [seq : 1..MaxSeq, offset : Nat \ {0}] BY <1>3, <1>4, <1>6, <1>7
<1>9. /\ index' \in Seq([seq : 1..MaxSeq, offset : Nat \ {0}])
      /\ Len(index') = Len(index) + 1
      /\ \A i \in 1..Len(index) : index'[i] = index[i]
      /\ index'[Len(index) + 1] = e
  BY <1>2, <1>6, <1>7, <1>8, AppendProperties
<1>10. /\ acked' \in Seq(Record) /\ Len(acked') = Len(acked) + 1
       /\ \A i \in 1..Len(acked) : acked'[i] = acked[i]
       /\ acked'[Len(acked) + 1] = r
  BY <1>2, <1>3, <1>6, AppendProperties
<1>11. TypeOK'
  <2>1. nextSeq' \in 0..MaxSeq BY <1>2, <1>3, <1>6
  <2>2. synced' \in 0..Len(records') BY <1>2, <1>5
  <2> QED BY <1>0, <1>2, <1>5, <1>9, <1>10, <2>1, <2>2 DEF TypeOK
<1>12. AcksSurvive'
  <2> SUFFICES ASSUME NEW i \in 1..Len(acked')
               PROVE  \E j \in 1..synced' : records'[j] = acked'[i]
    BY DEF AcksSurvive
  <2>1. CASE i \in 1..Len(acked)
    <3>1. PICK j \in 1..synced : records[j] = acked[i] BY <1>0, <2>1 DEF AcksSurvive
    <3>2. synced \in 0..Len(records) BY <1>0 DEF TypeOK
    <3>3. j \in 1..synced' /\ records'[j] = records[j]
      BY <1>2, <1>4, <1>5, <1>6, <3>2
    <3> QED BY <1>10, <2>1, <3>1, <3>3
  <2>2. CASE i = Len(acked) + 1
    <3>1. Len(records') \in 1..synced' BY <1>2, <1>4, <1>5, <1>6
    <3> QED BY <1>4, <1>10, <2>2, <3>1
  <2> QED BY <1>6, <1>10, <2>1, <2>2
<1>13. IsPrefix(records', records') BY <1>5, PrefixIff
<1>14. OpenInv'
  <2>1. \A i \in 1..Len(index') : index'[i] = [seq |-> baseSeq' + i, offset |-> i]
    <3> TAKE i \in 1..Len(index')
    <3>1. CASE i \in 1..Len(index)
      <4>1. index[i] = [seq |-> baseSeq + i, offset |-> i]
        BY <1>0, <1>2, <3>1 DEF OpenInv, CanAppend
      <4> QED BY <1>2, <1>9, <3>1, <4>1
    <3>2. CASE i = Len(index) + 1
      <4>1. nextSeq = baseSeq + i /\ Len(records') = i BY <1>3, <1>4, <1>6, <3>2
      <4> QED BY <1>2, <1>7, <1>9, <3>2, <4>1
    <3> QED BY <1>3, <1>6, <1>9, <3>1, <3>2
  <2>2. nextSeq' = baseSeq' + Len(index') + 1 BY <1>2, <1>3, <1>6, <1>9
  <2>3. Len(served') = Len(index') /\ Len(index') = Len(records') BY <1>2, <1>3, <1>4, <1>9
  <2>4. baseSeq' = BaseOf(baseline') BY <1>2, <1>3
  <2>5. tail' = "none" /\ IsPrefix(served', records') BY <1>2, <1>3, <1>13
  <2> QED BY <2>1, <2>2, <2>3, <2>4, <2>5 DEF OpenInv
<1>15. ServedInv' BY <1>2, <1>13 DEF ServedInv
<1> QED BY <1>4, <1>11, <1>12, <1>14, <1>15 DEF IInv

\* A failed append that is rolled back leaves the file as it was.
LEMMA RolledBackStep ==
  ASSUME IInv, AppendRolledBack
  PROVE  IInv'
<1>0. TypeOK /\ AcksSurvive /\ NumberedInv /\ OpenInv /\ ServedInv BY DEF IInv
<1>1. /\ used' = [used EXCEPT !.faults = @ + 1] /\ synced' = Len(records')
      /\ records' = records /\ tail' = tail /\ baseline' = baseline /\ status' = status
      /\ index' = index /\ nextSeq' = nextSeq /\ baseSeq' = baseSeq /\ poisoned' = poisoned
      /\ acked' = acked /\ served' = served
  BY DEF AppendRolledBack, Fault, Fsync, logVars
<1>2. /\ used' \in [{"opens", "faults", "powerLosses"} -> Nat]
      /\ used'.powerLosses = used.powerLosses
  BY <1>0, <1>1, Counted
<1>3. Len(records) \in Nat /\ synced \in 0..Len(records) BY <1>0, Types DEF TypeOK
<1>4. TypeOK'
  <2>1. synced' \in 0..Len(records') BY <1>1, <1>3
  <2> QED BY <1>0, <1>1, <1>2, <2>1 DEF TypeOK
<1>5. AcksSurvive'
  <2>1. synced' \in Nat /\ synced <= synced' BY <1>1, <1>3
  <2> QED BY <1>0, <1>1, <2>1, AcksKeep
<1>6. NumberedInv' /\ ServedInv' BY <1>0, <1>1, <1>2 DEF NumberedInv, ServedInv
<1>7. OpenInv' BY <1>0, <1>1 DEF OpenInv
<1> QED BY <1>4, <1>5, <1>6, <1>7 DEF IInv

\* A failed rollback: what it leaves stays behind what is indexed.
LEMMA PoisonsStep ==
  ASSUME IInv, NEW op \in Ops, NEW left \in Tails \cup {"whole"}, AppendPoisons(op, left)
  PROVE  IInv'
<1>0. TypeOK /\ AcksSurvive /\ NumberedInv /\ OpenInv /\ ServedInv BY DEF IInv
<1>1. /\ CanAppend /\ Leaves(op, left) /\ used' = [used EXCEPT !.faults = @ + 1]
      /\ poisoned' = TRUE /\ synced' = synced /\ baseline' = baseline /\ status' = status
      /\ index' = index /\ nextSeq' = nextSeq /\ baseSeq' = baseSeq
      /\ acked' = acked /\ served' = served
  BY DEF AppendPoisons, Fault
<1>2. Kept /\ NumberedInv' /\ tail' \in Tails BY <1>0, <1>1, LeavesKept
<1>3. /\ records' \in Seq(Record) /\ Len(records') \in Nat /\ Len(records) <= Len(records')
      /\ \A i \in 1..Len(records) : records'[i] = records[i]
  BY <1>2 DEF Kept
<1>4. /\ used' \in [{"opens", "faults", "powerLosses"} -> Nat]
      /\ used'.powerLosses = used.powerLosses
  BY <1>0, <1>1, Counted
<1>5. Len(records) \in Nat /\ synced \in 0..Len(records) /\ served \in Seq(Record)
  BY <1>0, Types DEF TypeOK
<1>6. TypeOK'
  <2>1. synced' \in 0..Len(records') BY <1>1, <1>3, <1>5
  <2> QED BY <1>0, <1>1, <1>2, <1>3, <1>4, <2>1 DEF TypeOK
<1>7. AcksSurvive'
  <2>1. \A i \in 1..synced : records'[i] = records[i] BY <1>3, <1>5
  <2>2. synced' \in Nat /\ synced <= synced' BY <1>1, <1>5
  <2> QED BY <1>0, <1>1, <2>1, <2>2, AcksKeep
<1>8. IsPrefix(served, records) => IsPrefix(served, records') BY <1>0, <1>2, <1>5, ServedKeeps
<1>9. ServedInv' BY <1>0, <1>1, <1>4, <1>8 DEF ServedInv
<1>10. OpenInv' BY <1>0, <1>1, <1>8 DEF OpenInv
<1> QED BY <1>2, <1>6, <1>7, <1>9, <1>10 DEF IInv

\* A crash in Append.
LEMMA CrashStep ==
  ASSUME IInv, NEW op \in Ops, NEW left \in Tails \cup {"whole"}, CrashInAppend(op, left)
  PROVE  IInv'
<1>0. TypeOK /\ AcksSurvive /\ NumberedInv /\ OpenInv /\ ServedInv BY DEF IInv
<1>1. /\ CanAppend /\ Leaves(op, left) /\ LoseMemory /\ synced' = synced
      /\ baseline' = baseline /\ acked' = acked /\ served' = served /\ used' = used
  BY DEF CrashInAppend
<1>2. Kept /\ NumberedInv' /\ tail' \in Tails BY <1>0, <1>1, LeavesKept
<1>3. /\ records' \in Seq(Record) /\ Len(records') \in Nat /\ Len(records) <= Len(records')
      /\ \A i \in 1..Len(records) : records'[i] = records[i]
  BY <1>2 DEF Kept
<1>4. Len(records) \in Nat /\ synced \in 0..Len(records) /\ served \in Seq(Record)
  BY <1>0, Types DEF TypeOK
<1>5. /\ status' = "closed" /\ index' \in Seq([seq : 1..MaxSeq, offset : Nat \ {0}])
      /\ nextSeq' \in 0..MaxSeq /\ baseSeq' \in 0..MaxSeq - 1 /\ poisoned' \in BOOLEAN
      /\ OpenInv'
  BY <1>1, ForgottenTypes
<1>6. TypeOK'
  <2>1. synced' \in 0..Len(records') BY <1>1, <1>3, <1>4
  <2> QED BY <1>0, <1>1, <1>2, <1>3, <1>5, <2>1 DEF TypeOK
<1>7. AcksSurvive'
  <2>1. \A i \in 1..synced : records'[i] = records[i] BY <1>3, <1>4
  <2>2. synced' \in Nat /\ synced <= synced' BY <1>1, <1>4
  <2> QED BY <1>0, <1>1, <2>1, <2>2, AcksKeep
<1>8. IsPrefix(served, records) => IsPrefix(served, records') BY <1>0, <1>2, <1>4, ServedKeeps
<1>9. ServedInv' BY <1>0, <1>1, <1>8 DEF ServedInv
<1> QED BY <1>2, <1>5, <1>6, <1>7, <1>9 DEF IInv

\* A baseline is accepted only where the records go on from it.
LEMMA BaselineStep ==
  ASSUME IInv, NEW b \in 0..MaxSeq, CreateJournalBaseline(b)
  PROVE  IInv'
<1>0. TypeOK /\ AcksSurvive /\ NumberedInv /\ OpenInv /\ ServedInv BY DEF IInv
<1>1. /\ status = "closed" /\ b # MaxSeq /\ baseline \in {None, b}
      /\ records # <<>> => records[1].seq = b + 1
      /\ CutTail /\ baseline' = b /\ records' = records
      /\ status' = status /\ index' = index /\ nextSeq' = nextSeq /\ baseSeq' = baseSeq
      /\ poisoned' = poisoned /\ acked' = acked /\ served' = served /\ used' = used
  BY DEF CreateJournalBaseline, logVars
<1>2. tail' = "none" /\ synced' \in 0..Len(records) /\ synced <= synced' BY <1>0, <1>1, CutKeeps
<1>3. /\ Len(records) \in Nat /\ records \in Seq(Record) /\ MaxSeq \in Nat \ {0}
      /\ BaseOf(baseline) \in 0..MaxSeq - 1
      /\ \A x \in 0..MaxSeq - 1 : BaseOf(x) = x
  BY <1>0, Types
<1>4. b \in 0..MaxSeq - 1 /\ BaseOf(b) = b
  <2>1. b \in 0..MaxSeq - 1 BY <1>1, <1>3
  <2> QED BY <1>3, <2>1
<1>5. TypeOK'
  <2>1. baseline' \in {None} \cup 0..MaxSeq - 1 BY <1>1, <1>4
  <2>2. synced' \in 0..Len(records') /\ tail' \in Tails BY <1>1, <1>2 DEF Tails
  <2> QED BY <1>0, <1>1, <2>1, <2>2 DEF TypeOK
<1>6. AcksSurvive'
  <2>1. synced' \in Nat BY <1>2, <1>3
  <2> QED BY <1>0, <1>1, <1>2, <2>1, AcksKeep
<1>7. NumberedInv'
  <2>1. CASE records = <<>>
    <3>1. Len(records') = 0 BY <1>1, <2>1
    <3> QED BY <3>1 DEF NumberedInv
  <2>2. CASE records # <<>>
    <3>1. 1 \in 1..Len(records)
      <4>1. Len(records) \in Nat \ {0} BY <1>3, <2>2, EmptySeq
      <4> QED BY <4>1
    <3>2. records[1].seq = BaseOf(baseline) + 1 BY <1>0, <3>1 DEF NumberedInv
    <3>3. BaseOf(baseline) = b BY <1>1, <1>3, <1>4, <2>2, <3>2
    <3>4. BaseOf(baseline') = BaseOf(baseline) BY <1>1, <1>4, <3>3
    <3> QED BY <1>0, <1>1, <3>4 DEF NumberedInv
  <2> QED BY <2>1, <2>2
<1>8. OpenInv' BY <1>1 DEF OpenInv
<1>9. ServedInv' BY <1>0, <1>1 DEF ServedInv
<1> QED BY <1>5, <1>6, <1>7, <1>8, <1>9 DEF IInv

----------------------------------------------------------------------------
(* The theorems                                                            *)

\* The invariant holds before the first opening.
LEMMA InitInv == Init => IInv
<1> SUFFICES ASSUME Init PROVE IInv OBVIOUS
<1>1. /\ records = <<>> /\ tail = "none" /\ synced = 0 /\ baseline = None
      /\ status = "closed" /\ index = <<>> /\ nextSeq = 0 /\ baseSeq = 0
      /\ poisoned = FALSE /\ acked = <<>> /\ served = <<>>
      /\ used = [opens |-> 0, faults |-> 0, powerLosses |-> 0]
  BY DEF Init
<1>2. /\ <<>> \in Seq(Record) /\ Len(<<>>) = 0
      /\ <<>> \in Seq([seq : 1..MaxSeq, offset : Nat \ {0}])
  BY EmptySeq
<1>3. 0 \in 0..MaxSeq /\ 0 \in 0..MaxSeq - 1 BY LogAssumption
<1>4. TypeOK
  <2>1. used \in [{"opens", "faults", "powerLosses"} -> Nat] BY <1>1
  <2>2. tail \in Tails /\ synced \in 0..Len(records) BY <1>1, <1>2 DEF Tails
  <2> QED BY <1>1, <1>2, <1>3, <2>1, <2>2 DEF TypeOK
<1>5. AcksSurvive /\ NumberedInv BY <1>1, <1>2 DEF AcksSurvive, NumberedInv
<1>6. OpenInv BY <1>1 DEF OpenInv
<1>7. IsPrefix(records, records)
  <2>1. records \in Seq(Record) /\ Len(records) \in Nat BY <1>1, <1>2
  <2> QED BY <2>1, PrefixIff
<1> QED BY <1>1, <1>4, <1>5, <1>6, <1>7 DEF IInv, ServedInv

\* A step that changes nothing keeps the invariant.
LEMMA StutterInv ==
  ASSUME IInv, UNCHANGED vars
  PROVE  IInv'
BY DEF IInv, vars, fileVars, logVars, TypeOK, AcksSurvive, NumberedInv, OpenInv, ServedInv

\* Every step keeps the invariant.
LEMMA NextInv ==
  ASSUME IInv, [Next]_vars
  PROVE  IInv'
<1>1. CASE OpenDurableLog \/ Close \/ PowerLoss \/ AppendRolledBack
  BY <1>1, OpenStep, CloseStep, PowerLossStep, RolledBackStep
<1>2. CASE \E op \in Ops : AppendRecord(op) BY <1>2, AppendRecordStep
<1>3. CASE \E op \in Ops, left \in Tails \cup {"whole"} :
             AppendPoisons(op, left) \/ CrashInAppend(op, left)
  BY <1>3, PoisonsStep, CrashStep
<1>4. CASE \E b \in 0..MaxSeq : CreateJournalBaseline(b) BY <1>4, BaselineStep
<1>5. CASE UNCHANGED vars BY <1>5, StutterInv
<1> QED BY <1>1, <1>2, <1>3, <1>4, <1>5 DEF Next

\* IInv holds in every state that the journal can reach.
THEOREM InductiveInvariant == Spec => []IInv
<1>1. IInv /\ [Next]_vars => IInv' BY NextInv
<1> QED BY InitInv, <1>1, PTL DEF Spec

\* No crash, failed rollback or power loss takes away a record that Append has
\* acknowledged: it had been fsynced, and nothing truncates the file below that.
THEOREM AcksSurviveAlways == Spec => []AcksSurvive
<1>1. IInv => AcksSurvive BY DEF IInv
<1> QED BY InductiveInvariant, <1>1, PTL

\* Whatever is left in the file, the next OpenDurableLog accepts it, except when
\* the file ends behind the length bytes of a record.
THEOREM OnlyHeaderBlocksAlways == Spec => []OnlyHeaderBlocks
<1>1. IInv => OnlyHeaderBlocks BY DEF IInv, NumberedInv, OnlyHeaderBlocks, ReplayOK
<1> QED BY InductiveInvariant, <1>1, PTL

\* No step takes back a record that a reader was given.
LEMMA ServedGrows ==
  ASSUME IInv, [Next]_vars, used.powerLosses = 0
  PROVE  IsPrefix(served, served')
<1>0. TypeOK /\ NumberedInv /\ OpenInv /\ IsPrefix(served, records)
  BY DEF IInv, ServedInv
<1>1. served \in Seq(Record) /\ Len(served) \in Nat BY <1>0, Types
<1>2. IsPrefix(served, served) BY <1>1, PrefixIff
<1>3. ASSUME served' = served PROVE IsPrefix(served, served') BY <1>2, <1>3
<1>4. CASE OpenDurableLog
  <2>1. served' = records BY <1>4 DEF OpenDurableLog
  <2> QED BY <1>0, <2>1
<1>5. CASE Close BY <1>3, <1>5 DEF Close
<1>6. CASE PowerLoss BY <1>3, <1>6 DEF PowerLoss
<1>7. CASE AppendRolledBack BY <1>3, <1>7 DEF AppendRolledBack
<1>8. CASE \E op \in Ops : AppendRecord(op)
  <2>1. PICK op \in Ops : AppendRecord(op) BY <1>8
  <2>2. /\ CanAppend /\ records' = Append(records, NewRecord(op)) /\ served' = records'
        /\ baseline' = baseline
    BY <2>1 DEF AppendRecord
  <2>3. Kept BY <1>0, <2>2, RecordAppended
  <2>4. IsPrefix(served, records') BY <1>0, <1>1, <2>3, ServedKeeps
  <2> QED BY <2>2, <2>4
<1>9. CASE \E op \in Ops, left \in Tails \cup {"whole"} :
             AppendPoisons(op, left) \/ CrashInAppend(op, left)
  BY <1>3, <1>9 DEF AppendPoisons, CrashInAppend
<1>10. CASE \E b \in 0..MaxSeq : CreateJournalBaseline(b)
  BY <1>3, <1>10 DEF CreateJournalBaseline
<1>11. CASE UNCHANGED vars BY <1>3, <1>11 DEF vars
<1> QED BY <1>4, <1>5, <1>6, <1>7, <1>8, <1>9, <1>10, <1>11 DEF Next

\* Without a power loss what readers are given only grows: no sequence number
\* comes to name another record.
THEOREM AppendOnlyAlways == Spec => AppendOnly
<1>1. IInv /\ [Next]_vars => [used.powerLosses = 0 => IsPrefix(served, served')]_vars
  BY ServedGrows
<1> QED BY InductiveInvariant, <1>1, PTL DEF Spec, AppendOnly

----------------------------------------------------------------------------
(* Reading                                                                 *)

\* EntriesAfter on the index of an open log.
LEMMA ReadsFromInv == IInv => ReadsExact
<1> SUFFICES ASSUME IInv, status = "open" PROVE ReadsExact BY DEF ReadsExact
<1>0. TypeOK /\ NumberedInv /\ OpenInv BY DEF IInv
<1> DEFINE n == Len(index)
<1>1. /\ records \in Seq(Record) /\ served \in Seq(Record) /\ n \in Nat
      /\ Len(records) \in Nat /\ BaseOf(baseline) \in 0..MaxSeq - 1 /\ MaxSeq \in Nat \ {0}
  BY <1>0, Types
<1>2. /\ baseSeq = BaseOf(baseline) /\ nextSeq = baseSeq + n + 1
      /\ \A i \in 1..n : index[i] = [seq |-> baseSeq + i, offset |-> i]
      /\ Len(served) = n /\ IsPrefix(served, records)
  BY <1>0 DEF OpenInv
<1>3. n <= Len(records) /\ \A i \in 1..n : served[i] = records[i]
  BY <1>1, <1>2, PrefixIff
<1>4. baseSeq \in Nat /\ baseSeq \in Int BY <1>1, <1>2
<1>5. \A i \in 1..n : index[i].seq = baseSeq + i /\ index[i].offset = i
  <2> TAKE i \in 1..n
  <2>1. index[i] = [seq |-> baseSeq + i, offset |-> i] BY <1>2
  <2> QED BY <2>1
<1>6. \A i \in 1..n : served[i].seq = baseSeq + i
  <2> TAKE i \in 1..n
  <2>1. served[i] = records[i] /\ i \in 1..Len(records) BY <1>1, <1>3
  <2>2. records[i].seq = BaseOf(baseline) + i BY <1>0, <2>1 DEF NumberedInv
  <2> QED BY <1>2, <2>1, <2>2
<1>7. ASSUME NEW after \in 0..MaxSeq, NEW limit \in 1..MaxSeq
      PROVE  \E lo \in 0..n :
               /\ \A i \in 1..n : served[i].seq > after <=> i > lo
               /\ EntriesAfter(after, limit) =
                    SubSeq(served, lo + 1, IF n < lo + limit THEN n ELSE lo + limit)
  <2> DEFINE lo == SearchAfter(after)
             m  == IF n - lo < limit THEN n - lo ELSE limit
             to == IF n < lo + limit THEN n ELSE lo + limit
  <2>1. after \in Int /\ limit \in Nat \ {0} BY <1>1
  <2>2. lo = Found(after - baseSeq, [lo |-> 0, hi |-> n])
    <3>1. \A i \in 1..Len(index) : index[i].seq = baseSeq + i BY <1>5
    <3>2. Len(index) \in Nat BY <1>1
    <3> QED BY <1>4, <2>1, <3>1, <3>2, SearchAfterIs
  <2>3. lo = IF 0 >= n THEN 0 ELSE IF after - baseSeq < 0 THEN 0
             ELSE IF after - baseSeq > n THEN n ELSE after - baseSeq
    <3> HIDE DEF lo, n
    <3> QED BY <2>2 DEF Found
  <2>4. EntriesAfter(after, limit) = [i \in 1..m |-> records[index[lo + i].offset]]
    BY DEF EntriesAfter
  <2> HIDE DEF lo, n
  <2>5. lo \in 0..n BY <1>1, <1>4, <2>1, <2>3
  <2>6. \A i \in 1..n : served[i].seq > after <=> i > lo
    <3> TAKE i \in 1..n
    <3>1. served[i].seq = baseSeq + i BY <1>6
    <3>2. i \in Int /\ n \in Int /\ 1 <= i /\ i <= n BY <1>1
    <3>3. baseSeq + i > after <=> i > after - baseSeq BY <1>4, <2>1, <3>2
    <3>4. i > after - baseSeq <=> i > lo BY <1>4, <2>1, <2>3, <3>2
    <3> QED BY <3>1, <3>3, <3>4
  <2>7. m \in Nat /\ to \in Nat /\ to <= n /\ lo <= to /\ to - lo = m
    BY <1>1, <2>1, <2>5
  <2> HIDE DEF m, to
  <2>8. \A i \in 1..m : lo + i \in 1..n BY <1>1, <2>5, <2>7
  <2>9. \A i \in 1..m : records[index[lo + i].offset] = served[lo + i]
    BY <1>3, <1>5, <2>8
  <2>10. \A i \in 1..m : served[lo + i] \in Record
    <3>1. \A j \in 1..n : served[j] \in Record BY <1>1, <1>2, ElementOfSeq
    <3> QED BY <2>8, <3>1
  <2>11. /\ EntriesAfter(after, limit) \in Seq(Record) /\ Len(EntriesAfter(after, limit)) = m
         /\ \A i \in 1..m : EntriesAfter(after, limit)[i] = served[lo + i]
    <3>1. EntriesAfter(after, limit) \in [1..m -> Record] BY <2>4, <2>9, <2>10
    <3>2. \A i \in 1..m : EntriesAfter(after, limit)[i] = served[lo + i] BY <2>4, <2>9
    <3> QED BY <2>7, <3>1, <3>2, MadeSeq
  <2>12. /\ SubSeq(served, lo + 1, to) \in Seq(Record) /\ Len(SubSeq(served, lo + 1, to)) = m
         /\ \A i \in 1..m : SubSeq(served, lo + 1, to)[i] = served[lo + i]
    <3>1. \A j \in lo + 1..to : served[j] \in Record
      <4>1. \A j \in 1..n : served[j] \in Record BY <1>1, <1>2, ElementOfSeq
      <4>2. \A j \in lo + 1..to : j \in 1..n BY <1>1, <2>5, <2>7
      <4> QED BY <4>1, <4>2
    <3>2. lo + 1 \in Int /\ to \in Int BY <2>5, <2>7
    <3>3. /\ SubSeq(served, lo + 1, to) \in Seq(Record)
          /\ Len(SubSeq(served, lo + 1, to)) = IF lo + 1 <= to THEN to - (lo + 1) + 1 ELSE 0
          /\ \A i \in 1..to - (lo + 1) + 1 : SubSeq(served, lo + 1, to)[i] = served[lo + 1 + i - 1]
      BY <3>1, <3>2, SubSeqProperties
    <3>4. to - (lo + 1) + 1 = m /\ (lo + 1 <= to <=> m > 0) /\ lo \in Int BY <2>5, <2>7
    <3>5. \A i \in 1..m : lo + 1 + i - 1 = lo + i BY <2>7, <3>4
    <3>6. Len(SubSeq(served, lo + 1, to)) = m BY <2>7, <3>3, <3>4
    <3> QED BY <3>3, <3>4, <3>5, <3>6
  <2>13. EntriesAfter(after, limit) = SubSeq(served, lo + 1, to)
    <3>1. \A i \in 1..Len(EntriesAfter(after, limit)) :
            EntriesAfter(after, limit)[i] = SubSeq(served, lo + 1, to)[i]
      BY <2>11, <2>12
    <3>2. Len(EntriesAfter(after, limit)) = Len(SubSeq(served, lo + 1, to)) BY <2>11, <2>12
    <3> QED BY <2>11, <2>12, <3>1, <3>2, SeqEqual
  <2> QED BY <2>5, <2>6, <2>13 DEF to
<1>8. LatestSeq = baseSeq + n
  <2>1. CASE index = <<>>
    <3>1. n = 0 BY <2>1
    <3> HIDE DEF n
    <3> QED BY <1>4, <2>1, <3>1 DEF LatestSeq
  <2>2. CASE index # <<>>
    <3>1. n \in Nat \ {0} BY <1>0, <2>2, Types, EmptySeq
    <3>2. Last(index).seq = baseSeq + n BY <1>5, <3>1 DEF Last
    <3> QED BY <2>2, <3>2 DEF LatestSeq
  <2> QED BY <2>1, <2>2
<1>9. FirstAvailableSeq \in {0, baseSeq + 1}
  <2>1. CASE index = <<>> BY <2>1 DEF FirstAvailableSeq
  <2>2. CASE index # <<>>
    <3>1. n \in Nat \ {0} BY <1>0, <2>2, Types, EmptySeq
    <3>2. index[1].seq = baseSeq + 1 BY <1>5, <3>1
    <3> QED BY <2>2, <3>2 DEF FirstAvailableSeq
  <2> QED BY <2>1, <2>2
<1> HIDE DEF n
<1>10. LatestSeq = baseSeq + Len(served) /\ nextSeq = LatestSeq + 1 BY <1>1, <1>2, <1>4, <1>8
<1> QED BY <1>2, <1>7, <1>9, <1>10 DEF ReadsExact

\* EntriesAfter answers exactly the first records after the cursor, for every
\* cursor and limit, and the next number follows the last record without a gap.
THEOREM ReadsExactAlways == Spec => []ReadsExact
BY InductiveInvariant, ReadsFromInv, PTL
=============================================================================
