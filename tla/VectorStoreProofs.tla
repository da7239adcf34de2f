------------------------- MODULE VectorStoreProofs -------------------------
(***************************************************************************)
(* Proofs about the vector store (module VectorStore): for any IDs,        *)
(* vectors of any dimensions, metrics, concurrent searches and bounds.     *)
(*                                                                         *)
(* Most of the work is the data.  Search sorts by a comparison of scores,  *)
(* cosines among them, and what it returns is the k best only if that      *)
(* comparison orders the candidates: it is total, since scores that are    *)
(* equal are decided by the ID, and transitive, since no denominator is    *)
(* zero (HigherOrders, BeforeOrders).  Then a sorted order exists, the one *)
(* chosen lists every candidate once, and its first k are the best         *)
(* (SortExists, RankedIsBest).  The state adds that what a search copied   *)
(* under the lock is an index there was while it ran (SearchInv) and that  *)
(* index and engine agree whenever the store is open (IndexInv).           *)
(***************************************************************************)
EXTENDS VectorStore, FiniteSetTheorems, SequenceTheorems, WellFoundedInduction, TLAPS

----------------------------------------------------------------------------
(* Scores                                                                  *)

\* A set of naturals has a least element.
LEMMA LeastNat ==
  ASSUME NEW T, T \subseteq Nat, T # {}
  PROVE  \E x \in T : \A y \in T : x <= y
<1>1. PICK x \in T : \A y \in T : <<y, x>> \notin OpToRel(<, Nat)
  BY NatLessThanWellFounded, WFMin
<1>2. \A y \in T : ~(y < x) BY <1>1 DEF OpToRel
<1> QED BY <1>2

\* The first m sums of products, as the loop makes them.
SumsTo(a, b, m, f) ==
  \A n \in 0..m : f[n] = IF n = 0 THEN 0 ELSE f[n - 1] + a[n] * b[n]

\* Every loop ends: there are sums up to the end of the shorter vector, and they
\* are numbers.
LEMMA SumsExist ==
  ASSUME NEW a \in Seq(Int), NEW b \in Seq(Int), Len(a) = Len(b), NEW m \in 0..Len(a)
  PROVE  \E f \in [0..m -> Int] : SumsTo(a, b, m, f)
<1> DEFINE T == {j \in 0..Len(a) : ~ \E f \in [0..j -> Int] : SumsTo(a, b, j, f)}
<1> SUFFICES ASSUME T # {} PROVE FALSE OBVIOUS
<1>1. PICK j \in T : \A y \in T : j <= y
  <2>1. T \subseteq Nat BY LenProperties
  <2> HIDE DEF T
  <2> QED BY <2>1, LeastNat
<1>2. j \in 0..Len(a) /\ Len(a) \in Nat BY <1>1, LenProperties
<1>3. j # 0
  <2>1. [n \in 0..0 |-> 0] \in [0..0 -> Int] /\ SumsTo(a, b, 0, [n \in 0..0 |-> 0])
    BY DEF SumsTo
  <2> QED BY <1>1, <2>1
<1>4. j - 1 \in 0..Len(a) /\ j - 1 \notin T
  <2>1. j - 1 \in 0..Len(a) BY <1>2, <1>3
  <2>2. \A y \in T : y \in Int BY <1>2
  <2> HIDE DEF T
  <2> QED BY <1>1, <1>2, <2>1, <2>2
<1>5. PICK g \in [0..j - 1 -> Int] : SumsTo(a, b, j - 1, g) BY <1>4
<1> DEFINE h == [n \in 0..j |-> IF n = j THEN g[j - 1] + a[j] * b[j] ELSE g[n]]
<1>6. a[j] \in Int /\ b[j] \in Int /\ g[j - 1] \in Int
  <2>1. j \in 1..Len(a) /\ j \in 1..Len(b) BY <1>2, <1>3
  <2> QED BY <1>2, <1>3, <1>5, <2>1, ElementOfSeq
<1>7. h \in [0..j -> Int] BY <1>2, <1>5, <1>6
<1>8. SumsTo(a, b, j, h)
  <2> SUFFICES ASSUME NEW n \in 0..j
               PROVE  h[n] = IF n = 0 THEN 0 ELSE h[n - 1] + a[n] * b[n]
    BY DEF SumsTo
  <2>1. CASE n = j BY <1>2, <1>3, <2>1
  <2>2. CASE n # j
    <3>1. n \in 0..j - 1 /\ (n # 0 => n - 1 \in 0..j - 1) BY <1>2, <2>2
    <3>2. g[n] = IF n = 0 THEN 0 ELSE g[n - 1] + a[n] * b[n] BY <1>5, <3>1 DEF SumsTo
    <3>3. n # 0 => n - 1 # j /\ n - 1 \in 0..j BY <1>2, <2>2
    <3> QED BY <2>2, <3>2, <3>3
  <2> QED BY <2>1, <2>2
<1> HIDE DEF h
<1> QED BY <1>1, <1>7, <1>8

\* The sums are those of any function that the loop describes.
LEMMA SumsUnique ==
  ASSUME NEW a, NEW b, NEW m \in Nat, NEW f, SumsTo(a, b, m, f), NEW g, SumsTo(a, b, m, g)
  PROVE  f[m] = g[m]
<1> DEFINE T == {n \in 0..m : f[n] # g[n]}
<1> SUFFICES ASSUME T # {} PROVE FALSE OBVIOUS
<1>1. PICK n \in T : \A y \in T : n <= y
  <2>1. T \subseteq Nat OBVIOUS
  <2> HIDE DEF T
  <2> QED BY <2>1, LeastNat
<1>2. n \in 0..m /\ n # 0 BY <1>1 DEF SumsTo
<1>3. n - 1 \in 0..m /\ f[n - 1] = g[n - 1]
  <2>1. n - 1 \in 0..m BY <1>2
  <2>2. n - 1 \notin T
    <3>1. \A y \in T : y \in Int OBVIOUS
    <3> HIDE DEF T
    <3> QED BY <1>1, <1>2, <3>1
  <2> QED BY <2>1, <2>2
<1>4. f[n] = f[n - 1] + a[n] * b[n] /\ g[n] = g[n - 1] + a[n] * b[n] BY <1>2 DEF SumsTo
<1> QED BY <1>1, <1>3, <1>4

\* Dot is the last sum.
LEMMA DotIs ==
  ASSUME NEW a \in Seq(Int), NEW b \in Seq(Int), Len(a) = Len(b)
  PROVE  \E f \in [0..Len(a) -> Int] : SumsTo(a, b, Len(a), f) /\ Dot(a, b) = f[Len(a)]
<1> DEFINE Loop(f) == [n \in 0..Len(a) |-> IF n = 0 THEN 0 ELSE f[n - 1] + a[n] * b[n]]
           sum == CHOOSE f : f = Loop(f)
<1>1. Len(a) \in Nat BY LenProperties
<1>2. PICK f \in [0..Len(a) -> Int] : SumsTo(a, b, Len(a), f)
  <2>1. Len(a) \in 0..Len(a) BY <1>1
  <2> QED BY <2>1, SumsExist
<1>3. f = Loop(f) BY <1>2 DEF SumsTo
<1>4. sum = Loop(sum)
  <2> HIDE DEF Loop
  <2> QED BY <1>3
<1>5. Dot(a, b) = sum[Len(a)] BY DEF Dot
<1> HIDE DEF sum
<1>6. SumsTo(a, b, Len(a), sum) BY <1>4 DEF SumsTo
<1>7. sum[Len(a)] = f[Len(a)] BY <1>1, <1>2, <1>6, SumsUnique
<1> QED BY <1>2, <1>5, <1>7

\* The product of two vectors of one dimension is a number.
LEMMA DotInt ==
  ASSUME NEW a \in Seq(Int), NEW b \in Seq(Int), Len(a) = Len(b)
  PROVE  Dot(a, b) \in Int
<1>1. Len(a) \in 0..Len(a) BY LenProperties
<1>2. PICK f \in [0..Len(a) -> Int] : Dot(a, b) = f[Len(a)] BY DotIs
<1> QED BY <1>1, <1>2

\* The square of an integer.
LEMMA SquarePositive ==
  ASSUME NEW x \in Int
  PROVE  x * x \in Nat /\ (x # 0 => x * x > 0)
OBVIOUS

\* The square of a vector that is not zero is above zero.
LEMMA DotPositive ==
  ASSUME NEW a \in Seq(Int), ~IsZero(a)
  PROVE  Dot(a, a) > 0
<1>1. Len(a) \in Nat /\ DOMAIN a = 1..Len(a) BY LenProperties
<1>2. PICK i \in 1..Len(a) : a[i] # 0 BY <1>1 DEF IsZero
<1>3. PICK f \in [0..Len(a) -> Int] : SumsTo(a, a, Len(a), f) /\ Dot(a, a) = f[Len(a)]
  BY DotIs
<1> DEFINE Good(n) == f[n] >= 0 /\ (i <= n => f[n] > 0)
           T == {n \in 0..Len(a) : ~Good(n)}
<1>4. SUFFICES ASSUME T # {} PROVE FALSE
  <2>1. Len(a) \in 0..Len(a) BY <1>1
  <2>2. T = {} => Good(Len(a)) BY <2>1
  <2> QED BY <1>2, <1>3, <2>2
<1>5. PICK n \in T : \A y \in T : n <= y
  <2>1. T \subseteq Nat OBVIOUS
  <2> HIDE DEF T
  <2> QED BY <1>4, <2>1, LeastNat
<1>6. n \in 0..Len(a) /\ n # 0 BY <1>1, <1>2, <1>3, <1>5 DEF SumsTo
<1>7. n - 1 \in 0..Len(a) /\ Good(n - 1)
  <2>1. n - 1 \in 0..Len(a) BY <1>1, <1>6
  <2>2. n - 1 \notin T
    <3>1. \A y \in T : y \in Int OBVIOUS
    <3> HIDE DEF T
    <3> QED BY <1>5, <1>6, <3>1
  <2> QED BY <2>1, <2>2
<1>8. f[n] = f[n - 1] + a[n] * a[n] /\ f[n - 1] \in Int /\ a[n] \in Int
  <2>1. n \in 1..Len(a) BY <1>1, <1>6
  <2>2. a[n] \in Int BY <2>1, ElementOfSeq
  <2>3. f[n] = f[n - 1] + a[n] * a[n] BY <1>3, <1>6 DEF SumsTo
  <2>4. f[n - 1] \in Int BY <1>3, <1>7
  <2> QED BY <2>2, <2>3, <2>4
<1>9. a[n] * a[n] \in Nat /\ (a[n] # 0 => a[n] * a[n] > 0) BY <1>8, SquarePositive
<1>10. i <= n => i <= n - 1 \/ a[n] # 0 BY <1>1, <1>2, <1>6
<1>11. Good(n)
  <2>1. a[n] * a[n] >= 0 BY <1>9
  <2>2. f[n] >= 0 BY <1>7, <1>8, <1>9
  <2>3. i <= n - 1 => f[n] > 0 BY <1>7, <1>8, <1>9
  <2>4. a[n] # 0 => f[n] > 0 BY <1>7, <1>8, <1>9
  <2> QED BY <1>10, <2>2, <2>3, <2>4
<1> QED BY <1>5, <1>11

\* Multiplication by a positive number keeps an order, and tells it.
LEMMA TimesPositive ==
  ASSUME NEW x \in Int, NEW y \in Int, NEW d \in Int, d > 0
  PROVE  x <= y <=> x * d <= y * d
OBVIOUS

\* Fractions, cross-multiplied: "at most" is transitive.
LEMMA FractionsOrdered ==
  ASSUME NEW na \in Int, NEW nb \in Int, NEW nc \in Int,
         NEW da \in Int, NEW db \in Int, NEW dc \in Int, da > 0, db > 0, dc > 0,
         na * db <= nb * da, nb * dc <= nc * db
  PROVE  na * dc <= nc * da
<1>1. (na * db) * dc <= (nb * da) * dc /\ (nb * dc) * da <= (nc * db) * da
  <2>1. na * db \in Int /\ nb * da \in Int /\ nb * dc \in Int /\ nc * db \in Int OBVIOUS
  <2> HIDE DEF Dot
  <2> QED BY <2>1, TimesPositive
<1>2. /\ (na * db) * dc = (na * dc) * db /\ (nb * da) * dc = (nb * dc) * da
      /\ (nc * db) * da = (nc * da) * db
  OBVIOUS
<1>3. na * dc \in Int /\ nc * da \in Int OBVIOUS
<1>4. (na * dc) * db <= (nc * da) * db
  <2>1. (na * dc) * db \in Int /\ (nc * da) * db \in Int /\ (nb * dc) * da \in Int OBVIOUS
  <2> QED BY <1>1, <1>2, <2>1
<1> QED BY <1>3, <1>4, TimesPositive

\* The difference of two vectors of one dimension is a vector of it.
LEMMA MinusType ==
  ASSUME NEW a \in Seq(Int), NEW b \in Seq(Int), Len(a) = Len(b)
  PROVE  Minus(a, b) \in Seq(Int) /\ Len(Minus(a, b)) = Len(a)
<1>1. Len(a) \in Nat /\ DOMAIN a = 1..Len(a) BY LenProperties
<1>2. \A i \in 1..Len(a) : a[i] \in Int /\ b[i] \in Int BY ElementOfSeq
<1>3. Minus(a, b) \in [1..Len(a) -> Int] BY <1>1, <1>2 DEF Minus
<1>4. Minus(a, b) \in Seq(Int) BY <1>1, <1>3, IsASeq DEF Minus
<1>5. DOMAIN Minus(a, b) = 1..Len(a) BY <1>1 DEF Minus
<1> QED BY <1>1, <1>4, <1>5, LenProperties

\* The cosine as a fraction.
LEMMA CosType ==
  ASSUME NEW q \in Seq(Int), NEW v \in Seq(Int), Len(q) = Len(v)
  PROVE  CosNum(q, v) \in Int /\ CosDen(v) \in Int /\ CosDen(v) > 0
<1>1. Dot(q, q) \in Int /\ Dot(q, v) \in Int /\ Dot(v, v) \in Int BY DotInt
<1>2. ~IsZero(v) => Dot(v, v) > 0 BY DotPositive
<1>3. CosDen(v) \in Int /\ CosDen(v) > 0 BY <1>1, <1>2 DEF CosDen
<1>4. CosNum(q, v) \in Int
  <2>1. CASE IsZero(v) BY <1>1, <2>1 DEF CosNum
  <2>2. CASE ~IsZero(v) BY <1>1, <2>2 DEF CosNum
  <2> QED BY <2>1, <2>2
<1> QED BY <1>3, <1>4

\* Whatever the metric, no two vectors each score higher than the other, and "not
\* higher" is transitive.
LEMMA HigherOrders ==
  ASSUME NEW metric \in {"cosine", "l2", "dot"},
         NEW q \in Seq(Int), NEW a \in Seq(Int), NEW b \in Seq(Int), NEW c \in Seq(Int),
         Len(a) = Len(q), Len(b) = Len(q), Len(c) = Len(q)
  PROVE  /\ ~(Higher(metric, q, a, b) /\ Higher(metric, q, b, a))
         /\ Higher(metric, q, a, c) => Higher(metric, q, a, b) \/ Higher(metric, q, b, c)
<1>1. CASE metric = "l2"
  <2>1. \A v \in {a, b, c} : Dot(Minus(q, v), Minus(q, v)) \in Int BY MinusType, DotInt
  <2> QED BY <1>1, <2>1 DEF Higher
<1>2. CASE metric = "dot"
  <2>1. \A v \in {a, b, c} : Dot(q, v) \in Int BY DotInt
  <2> QED BY <1>2, <2>1 DEF Higher
<1>3. CASE metric = "cosine"
  <2>1. \A v \in {a, b, c} : CosNum(q, v) \in Int /\ CosDen(v) \in Int /\ CosDen(v) > 0
    BY CosType
  <2>2. \A v, w \in {a, b, c} :
          /\ CosNum(q, v) * CosDen(w) \in Int
          /\ Higher(metric, q, v, w)
               <=> CosNum(q, v) * CosDen(w) > CosNum(q, w) * CosDen(v)
    <3> TAKE v, w \in {a, b, c}
    <3>1. CosNum(q, v) \in Int /\ CosDen(w) \in Int BY <2>1
    <3>2. CosNum(q, v) * CosDen(w) \in Int BY <3>1
    <3>3. Higher(metric, q, v, w)
            <=> CosNum(q, v) * CosDen(w) > CosNum(q, w) * CosDen(v)
      BY <1>3 DEF Higher
    <3> QED BY <3>2, <3>3
  <2>3. ~(Higher(metric, q, a, b) /\ Higher(metric, q, b, a)) BY <2>2
  <2>4. ASSUME ~Higher(metric, q, a, b), ~Higher(metric, q, b, c)
        PROVE  ~Higher(metric, q, a, c)
    <3>1. /\ CosNum(q, a) * CosDen(b) <= CosNum(q, b) * CosDen(a)
          /\ CosNum(q, b) * CosDen(c) <= CosNum(q, c) * CosDen(b)
      BY <2>2, <2>4
    <3>2. CosNum(q, a) * CosDen(c) <= CosNum(q, c) * CosDen(a)
      BY <2>1, <3>1, FractionsOrdered
    <3> QED BY <2>2, <3>2
  <2> QED BY <2>3, <2>4
<1> QED BY <1>1, <1>2, <1>3

\* What a search has collected: vectors as long as its query.
Sortable(s) ==
  /\ s.metric \in {"cosine", "l2", "dot"} /\ s.query \in Seq(Int)
  /\ \A id \in Present(s.found) :
       s.found[id] \in Seq(Int) /\ Len(s.found[id]) = Len(s.query)

\* The comparison of the sort is a strict total order of the candidates.
LEMMA BeforeOrders ==
  ASSUME NEW s, Sortable(s),
         NEW x \in Present(s.found), NEW y \in Present(s.found), NEW z \in Present(s.found)
  PROVE  /\ ~Before(s, x, x)
         /\ x # y => Before(s, x, y) \/ Before(s, y, x)
         /\ Before(s, x, y) /\ Before(s, y, z) => Before(s, x, z)
<1> DEFINE H(v, w) == Higher(s.metric, s.query, s.found[v], s.found[w])
<1>1. \A u, v, w \in {x, y, z} : ~(H(u, v) /\ H(v, u)) /\ (H(u, w) => H(u, v) \/ H(v, w))
  <2> TAKE u, v, w \in {x, y, z}
  <2>1. \A i \in {u, v, w} : s.found[i] \in Seq(Int) /\ Len(s.found[i]) = Len(s.query)
    BY DEF Sortable
  <2>2. s.metric \in {"cosine", "l2", "dot"} /\ s.query \in Seq(Int) BY DEF Sortable
  <2> DEFINE a == s.found[u]
             b == s.found[v]
             c == s.found[w]
  <2>3. /\ a \in Seq(Int) /\ b \in Seq(Int) /\ c \in Seq(Int)
        /\ Len(a) = Len(s.query) /\ Len(b) = Len(s.query) /\ Len(c) = Len(s.query)
    BY <2>1
  <2> HIDE DEF a, b, c
  <2>4. /\ ~(Higher(s.metric, s.query, a, b) /\ Higher(s.metric, s.query, b, a))
        /\ Higher(s.metric, s.query, a, c)
             => Higher(s.metric, s.query, a, b) \/ Higher(s.metric, s.query, b, c)
    BY <2>2, <2>3, HigherOrders
  <2> QED BY <2>4 DEF a, b, c
<1>2. \A v, w \in {x, y, z} : Before(s, v, w) <=> H(v, w) \/ (~H(w, v) /\ v < w) BY DEF Before
<1>3. x \in Int /\ y \in Int /\ z \in Int BY VectorAssumption DEF Present, Ids
<1> HIDE DEF H
<1>4. ~Before(s, x, x) BY <1>1, <1>2, <1>3
<1>5. x # y => Before(s, x, y) \/ Before(s, y, x) BY <1>1, <1>2, <1>3
<1>6. ASSUME Before(s, x, y), Before(s, y, z) PROVE Before(s, x, z)
  <2>1. ~H(y, x) /\ ~H(z, y) BY <1>1, <1>2, <1>6
  <2>2. ~H(z, x) BY <1>1, <2>1
  <2>3. CASE H(x, y) \/ H(y, z)
    <3>1. H(x, z) BY <1>1, <2>1, <2>3
    <3> QED BY <1>2, <3>1
  <2>4. CASE ~H(x, y) /\ ~H(y, z)
    <3>1. x < y /\ y < z BY <1>2, <1>6, <2>4
    <3>2. x < z BY <1>3, <3>1
    <3> QED BY <1>2, <2>2, <3>2
  <2> QED BY <2>3, <2>4
<1> QED BY <1>4, <1>5, <1>6

----------------------------------------------------------------------------
(* Sorting                                                                 *)

\* R orders the set S.
Orders(R, S) ==
  /\ \A x \in S : <<x, x>> \notin R
  /\ \A x, y \in S : x # y => <<x, y>> \in R \/ <<y, x>> \in R
  /\ \A x, y, z \in S : <<x, y>> \in R /\ <<y, z>> \in R => <<x, z>> \in R

\* A function between sets of one size that maps no two elements to one reaches
\* every element.
LEMMA Reaches ==
  ASSUME NEW S, NEW T, IsFiniteSet(S), IsFiniteSet(T), Cardinality(S) = Cardinality(T),
         NEW f \in [S -> T], \A x, y \in S : f[x] = f[y] => x = y, NEW t \in T
  PROVE  \E x \in S : f[x] = t
<1>1. f \in Injection(S, T) BY DEF Injection, IsInjective
<1>2. f \in Surjection(S, T) BY <1>1, FS_Injection
<1> QED BY <1>2 DEF Surjection

\* A finite set that is ordered can be sorted: the place of an element is the
\* number of those before it.
LEMMA SortExists ==
  ASSUME NEW S, IsFiniteSet(S), NEW R, Orders(R, S)
  PROVE  \E o \in [1..Cardinality(S) -> S] :
           \A i, j \in 1..Cardinality(S) : i < j => <<o[i], o[j]>> \in R
<1> DEFINE n == Cardinality(S)
           below(x) == {y \in S : <<y, x>> \in R}
           rank == [x \in S |-> Cardinality(below(x)) + 1]
<1>1. n \in Nat BY FS_CardinalityType
<1>2. ASSUME NEW x \in S
      PROVE  /\ IsFiniteSet(below(x)) /\ Cardinality(below(x)) \in Nat
             /\ Cardinality(below(x)) < n
  <2>1. below(x) \in SUBSET S /\ below(x) # S BY DEF Orders
  <2>2. IsFiniteSet(below(x)) /\ Cardinality(below(x)) <= n /\ Cardinality(below(x)) # n
    BY <2>1, FS_Subset
  <2>3. Cardinality(below(x)) \in Nat BY <2>2, FS_CardinalityType
  <2> QED BY <1>1, <2>2, <2>3
<1>3. rank \in [S -> 1..n]
  <2>1. \A x \in S : Cardinality(below(x)) + 1 \in 1..n BY <1>1, <1>2
  <2> HIDE DEF below
  <2> QED BY <2>1
<1>4. ASSUME NEW x \in S, NEW y \in S, <<x, y>> \in R PROVE rank[x] < rank[y]
  <2>1. below(x) \in SUBSET below(y) BY <1>4 DEF Orders
  <2>2. x \in below(y) /\ x \notin below(x) BY <1>4 DEF Orders
  <2>3. Cardinality(below(x)) <= Cardinality(below(y))
        /\ Cardinality(below(x)) # Cardinality(below(y))
    <3>1. below(x) # below(y) BY <2>2
    <3>2. IsFiniteSet(below(y)) BY <1>2
    <3> HIDE DEF below
    <3> QED BY <2>1, <3>1, <3>2, FS_Subset
  <2>4. Cardinality(below(x)) \in Nat /\ Cardinality(below(y)) \in Nat BY <1>2
  <2>5. rank[x] = Cardinality(below(x)) + 1 /\ rank[y] = Cardinality(below(y)) + 1 OBVIOUS
  <2> HIDE DEF below, rank
  <2> QED BY <2>3, <2>4, <2>5
<1> HIDE DEF rank
<1>5. \A x, y \in S : rank[x] = rank[y] => x = y
  <2> SUFFICES ASSUME NEW x \in S, NEW y \in S, rank[x] = rank[y], x # y PROVE FALSE OBVIOUS
  <2>1. <<x, y>> \in R \/ <<y, x>> \in R BY DEF Orders
  <2>2. rank[x] \in 1..n /\ rank[y] \in 1..n BY <1>3
  <2> QED BY <1>1, <1>4, <2>1, <2>2
<1>6. IsFiniteSet(1..n) /\ Cardinality(1..n) = n BY <1>1, FS_Interval
<1>7. \A i \in 1..n : \E x \in S : rank[x] = i
  <2> DEFINE T == 1..n
  <2>1. IsFiniteSet(T) /\ Cardinality(S) = Cardinality(T) /\ rank \in [S -> T] BY <1>3, <1>6
  <2> HIDE DEF T
  <2>2. \A i \in T : \E x \in S : rank[x] = i BY <1>5, <2>1, Reaches
  <2> QED BY <2>2 DEF T
<1> DEFINE o == [i \in 1..n |-> CHOOSE x \in S : rank[x] = i]
<1>8. \A i \in 1..n : o[i] \in S /\ rank[o[i]] = i BY <1>7
<1>9. o \in [1..n -> S] BY <1>8
<1> HIDE DEF o
<1>10. ASSUME NEW i \in 1..n, NEW j \in 1..n, i < j PROVE <<o[i], o[j]>> \in R
  <2>1. o[i] \in S /\ o[j] \in S /\ rank[o[i]] = i /\ rank[o[j]] = j BY <1>8
  <2>2. i \in Int /\ j \in Int /\ ~(j < i) /\ i # j BY <1>10
  <2>3. o[i] # o[j] BY <2>1, <2>2
  <2>4. <<o[j], o[i]>> \notin R BY <1>4, <2>1, <2>2
  <2> QED BY <2>1, <2>3, <2>4 DEF Orders
<1> QED BY <1>9, <1>10

\* The smaller of two numbers.
LEMMA MinOfTwo ==
  ASSUME NEW x \in Nat, NEW y \in Nat
  PROVE  Min({x, y}) = IF x <= y THEN x ELSE y
BY DEF Min

\* The search answers the k best candidates, best first.
LEMMA RankedIsBest ==
  ASSUME NEW s, Sortable(s), s.k \in Nat
  PROVE  /\ Len(Ranked(s)) = Min({s.k, Cardinality(Present(s.found))})
         /\ \A i \in DOMAIN Ranked(s) :
              Ranked(s)[i].vec = s.found[Ranked(s)[i].id] /\ Ranked(s)[i].vec # Nil
         /\ \A i, j \in DOMAIN Ranked(s) :
              i < j => Before(s, Ranked(s)[i].id, Ranked(s)[j].id)
         /\ \A i \in DOMAIN Ranked(s),
               id \in Present(s.found) \ {Ranked(s)[j].id : j \in DOMAIN Ranked(s)} :
              Before(s, Ranked(s)[i].id, id)
<1> DEFINE P == Present(s.found)
           n == Cardinality(P)
           Sorted(o) == \A i, j \in 1..n : i < j => Before(s, o[i], o[j])
           order == CHOOSE o \in [1..n -> P] : Sorted(o)
           m == Min({s.k, n})
<1>1. IsFiniteSet(P) /\ n \in Nat
  <2>1. IsFiniteSet(Ids)
    <3>1. NumIds \in Int /\ 1 \in Int BY VectorAssumption
    <3> QED BY <3>1, FS_Interval DEF Ids
  <2>2. P \in SUBSET Ids BY DEF Present
  <2> QED BY <2>1, <2>2, FS_Subset, FS_CardinalityType
<1> DEFINE R == {p \in P \X P : Before(s, p[1], p[2])}
<1>2. Orders(R, P)
  <2>1. \A x, y \in P : <<x, y>> \in R <=> Before(s, x, y) OBVIOUS
  <2>2. /\ \A x \in P : ~Before(s, x, x)
        /\ \A x, y \in P : x # y => Before(s, x, y) \/ Before(s, y, x)
        /\ \A x, y, z \in P : Before(s, x, y) /\ Before(s, y, z) => Before(s, x, z)
    BY BeforeOrders
  <2> HIDE DEF R, P
  <2> QED BY <2>1, <2>2 DEF Orders
<1>3. order \in [1..n -> P] /\ Sorted(order)
  <2>1. PICK o \in [1..n -> P] : \A i, j \in 1..n : i < j => <<o[i], o[j]>> \in R
    <3> HIDE DEF R, P
    <3> QED BY <1>1, <1>2, SortExists
  <2>2. Sorted(o) BY <2>1
  <2> HIDE DEF Sorted, n, P
  <2> QED BY <2>2
<1>4. m \in 0..n /\ m = Min({s.k, n}) BY <1>1, MinOfTwo
<1>5. Ranked(s) = [i \in 1..m |-> [id |-> order[i], vec |-> s.found[order[i]]]] BY DEF Ranked
<1> HIDE DEF m, order, n
<1>6. m \in Nat /\ \A i \in 1..m : i \in 1..n BY <1>1, <1>4
<1>7. Len(Ranked(s)) = m /\ DOMAIN Ranked(s) = 1..m
  <2>1. Ranked(s) \in Seq({Ranked(s)[i] : i \in 1..m}) /\ DOMAIN Ranked(s) = 1..m
    BY <1>5, <1>6, IsASeq
  <2> QED BY <1>6, <2>1, LenProperties
<1>8. \A i \in 1..m : /\ order[i] \in P /\ Ranked(s)[i].id = order[i]
                      /\ Ranked(s)[i].vec = s.found[order[i]]
  BY <1>3, <1>5, <1>6
<1>9. \A i, j \in 1..n : order[i] = order[j] => i = j
  <2> SUFFICES ASSUME NEW i \in 1..n, NEW j \in 1..n, order[i] = order[j], i # j PROVE FALSE
    OBVIOUS
  <2>1. i < j \/ j < i OBVIOUS
  <2>2. order[i] \in P BY <1>3
  <2>3. Before(s, order[i], order[j]) \/ Before(s, order[j], order[i]) BY <1>3, <2>1
  <2>4. Before(s, order[i], order[i]) BY <2>3
  <2>5. ~Before(s, order[i], order[i]) BY <2>2, BeforeOrders
  <2> QED BY <2>4, <2>5
<1>10. \A x \in P : \E i \in 1..n : order[i] = x
  <2>1. IsFiniteSet(1..n) /\ Cardinality(1..n) = Cardinality(P) BY <1>1, FS_Interval DEF n
  <2> HIDE DEF P
  <2> TAKE x \in P
  <2> QED BY <1>1, <1>3, <1>9, <2>1, Reaches
<1>11. \A i \in 1..m : Ranked(s)[i].vec = s.found[Ranked(s)[i].id] /\ Ranked(s)[i].vec # Nil
  BY <1>8 DEF Present
<1>12. \A i, j \in 1..m : i < j => Before(s, Ranked(s)[i].id, Ranked(s)[j].id)
  <2> HIDE DEF P
  <2> QED BY <1>3, <1>6, <1>8
<1>13. ASSUME NEW i \in 1..m, NEW id \in P \ {Ranked(s)[j].id : j \in 1..m}
       PROVE  Before(s, Ranked(s)[i].id, id)
  <2>1. PICK j \in 1..n : order[j] = id BY <1>10
  <2>2. j \notin 1..m BY <1>8, <1>13, <2>1
  <2>3. i < j /\ i \in 1..n BY <1>6, <2>2
  <2> HIDE DEF P
  <2> QED BY <1>3, <1>8, <2>1, <2>3
<1> HIDE DEF P
<1> QED BY <1>4, <1>7, <1>11, <1>12, <1>13 DEF P, n

----------------------------------------------------------------------------
(* The inductive invariant                                                 *)

Datum == Vectors \cup {Nil}

\* What every state is made of.
LEMMA Types ==
  ASSUME TypeOK
  PROVE  /\ store \in [Ids -> Datum] /\ acked \in [Ids -> Datum] /\ index \in [Ids -> Datum]
         /\ unsure \in [Ids -> SUBSET Datum] /\ up \in BOOLEAN
         /\ opts \in [dim : Nat, metric : Metrics \cup {"none"}]
         /\ DOMAIN search = Clients /\ during \in [Clients -> SUBSET [Ids -> Datum]]
         /\ used \in [{"writes", "faults", "opens", "searches"} -> Nat]
BY DEF TypeOK, Datum

\* What one search is at.
SearchOK(s) ==
  \/ s = Idle \/ s.at = "answered"
  \/ (s.at = "begun" /\ s \in Begun)
  \/ (s.at = "collected" /\ s \in Collected)

\* The types, from those of the parts.
LEMMA TypesNext ==
  ASSUME /\ store' \in [Ids -> Datum] /\ acked' \in [Ids -> Datum] /\ index' \in [Ids -> Datum]
         /\ unsure' \in [Ids -> SUBSET Datum] /\ up' \in BOOLEAN
         /\ opts' \in [dim : Nat, metric : Metrics \cup {"none"}]
         /\ DOMAIN search' = Clients /\ \A c \in Clients : SearchOK(search'[c])
         /\ during' \in [Clients -> SUBSET [Ids -> Datum]]
         /\ used' \in [{"writes", "faults", "opens", "searches"} -> Nat]
  PROVE  TypeOK'
BY DEF TypeOK, Datum, SearchOK

\* A bound is spent.
LEMMA Spent ==
  ASSUME TypeOK, NEW bound \in {"writes", "faults", "opens", "searches"}, NEW max \in Nat,
         Spend(bound, max)
  PROVE  used' \in [{"writes", "faults", "opens", "searches"} -> Nat]
BY DEF TypeOK, Spend

\* Vectors are sequences of numbers, and not empty.
LEMMA VectorTypes ==
  \A v \in Vectors \cup Queries : v \in Seq(Int) /\ Len(v) \in Nat /\ Len(v) > 0
<1> SUFFICES ASSUME NEW v \in Vectors \cup Queries
             PROVE  v \in Seq(Int) /\ Len(v) \in Nat /\ Len(v) > 0
  OBVIOUS
<1>1. v \in Seq(Int) /\ v # <<>> BY VectorAssumption
<1> QED BY <1>1, EmptySeq, LenProperties

\* A search is left alone.
Left(c) == search'[c] = search[c] /\ during'[c] = during[c]

\* The answer of a search that is left alone stays right.
LEMMA AnswerKept ==
  ASSUME SearchIsSnapshot, NEW c \in Clients, Left(c), search[c].at = "answered"
  PROVE  \E from \in during'[c] : Best(search'[c].found, from, search'[c])
BY DEF SearchIsSnapshot, Left

\* Nothing was opened yet.
LEMMA InitIInv == Init => IInv
<1> SUFFICES ASSUME Init PROVE IInv OBVIOUS
<1> USE DEF Init, Engine!KVInit
<1>1. TypeOK BY VectorAssumption DEF TypeOK, Closed, NoVectors
<1>2. \A c \in Clients : search[c].at = "idle" BY DEF Idle
<1>3. closed BY DEF closed, Closed
<1> QED BY <1>1, <1>2, <1>3 DEF IInv, IndexInv, SearchInv, SearchIsSnapshot

\* Open: what does not decode is refused, so that all vectors have one dimension;
\* the searches there are have left the lock.
LEMMA OpenStep ==
  ASSUME IInv, NEW dim \in {Len(v) : v \in Vectors}, NEW metric \in Metrics, Open(dim, metric)
  PROVE  IInv'
<1>1. TypeOK /\ IndexInv /\ SearchInv /\ SearchIsSnapshot /\ closed BY DEF IInv, Open
<1>2. dim \in Nat /\ dim > 0 BY VectorTypes
<1>3. /\ opts' = [dim |-> dim, metric |-> metric] /\ index' = LoadIndex
      /\ UNCHANGED <<engine, search, during>>
      /\ \A id \in Present(LoadIndex) : Decodes(LoadIndex[id], dim)
  BY DEF Open
<1>4. LoadIndex \in [Ids -> Datum] BY <1>1, Types DEF LoadIndex, Datum
<1>5. TypeOK'
  <2>1. used' \in [{"writes", "faults", "opens", "searches"} -> Nat]
    BY <1>1, Spent, VectorAssumption DEF Open
  <2>2. \A c \in Clients : SearchOK(search[c]) BY <1>1 DEF TypeOK, SearchOK
  <2> QED BY <1>1, <1>2, <1>3, <1>4, <2>1, <2>2, Types, TypesNext DEF engine
<1>6. IndexInv'
  <2>1. \A id \in LowIds : LoadIndex[id] = store[id] BY DEF LoadIndex, LowIds
  <2>2. \A id \in Present(LoadIndex) : Len(LoadIndex[id]) = dim BY <1>3 DEF Decodes
  <2> QED BY <1>3, <2>1, <2>2 DEF IndexInv, engine
<1>7. SearchInv' BY <1>1, <1>3 DEF SearchInv, closed
<1>8. SearchIsSnapshot' BY <1>1, <1>3 DEF SearchIsSnapshot
<1> QED BY <1>5, <1>6, <1>7, <1>8 DEF IInv

\* Close and crashes: no search is left in front of the lock.
LEMMA StopStep ==
  ASSUME IInv, opts' = Closed, up' = TRUE,
         store' \in [Ids -> Datum], acked' = acked, unsure' \in [Ids -> SUBSET Datum],
         index' = index \/ index' = NoVectors,
         used' \in [{"writes", "faults", "opens", "searches"} -> Nat],
         DOMAIN search' = Clients, during' \in [Clients -> SUBSET [Ids -> Datum]],
         \A c \in Clients : search'[c] = Idle \/ (Left(c) /\ search[c].at # "begun")
  PROVE  IInv'
<1>1. TypeOK /\ SearchInv /\ SearchIsSnapshot BY DEF IInv
<1>2. TypeOK'
  <2>1. index' \in [Ids -> Datum] BY <1>1, Types DEF NoVectors, Datum
  <2>2. \A c \in Clients : SearchOK(search'[c]) BY <1>1 DEF TypeOK, SearchOK, Left
  <2>3. opts' \in [dim : Nat, metric : Metrics \cup {"none"}] BY DEF Closed
  <2> QED BY <1>1, <2>1, <2>2, <2>3, Types, TypesNext
<1>3. closed' BY DEF closed, Closed
<1>4. SearchInv'
  <2> SUFFICES ASSUME NEW c \in Clients, search'[c].at \in {"begun", "collected"}
               PROVE  /\ Left(c) /\ search[c].at = "collected"
    BY <1>1 DEF SearchInv, Left
  <2> QED BY DEF Idle, Left
<1>5. SearchIsSnapshot'
  <2> SUFFICES ASSUME NEW c \in Clients, search'[c].at = "answered"
               PROVE  \E from \in during'[c] : Best(search'[c].found, from, search'[c])
    BY DEF SearchIsSnapshot
  <2>1. Left(c) /\ search[c].at = "answered" BY DEF Idle, Left
  <2> QED BY <1>1, <2>1, AnswerKept
<1> QED BY <1>2, <1>3, <1>4, <1>5 DEF IInv, IndexInv

\* The engine's part of Close and of a crash.
LEMMA StopTypes ==
  ASSUME TypeOK, Engine!Stop
  PROVE  store' \in [Ids -> Datum] /\ acked' = acked /\ unsure' = unsure
BY DEF Engine!Stop, Engine!Settle, Datum

\* Close.
LEMMA CloseStep ==
  ASSUME IInv, Close
  PROVE  IInv'
<1>1. TypeOK BY DEF IInv
<1>2. /\ Engine!Stop /\ up' = TRUE /\ opts' = Closed /\ UNCHANGED <<index, during, used>>
      /\ search' = [c \in Clients |-> IF search[c].at = "begun" THEN Idle ELSE search[c]]
  BY DEF Close
<1>3. \A c \in Clients : search'[c] = Idle \/ (Left(c) /\ search[c].at # "begun")
  BY <1>2 DEF Left
<1> QED BY <1>1, <1>2, <1>3, StopTypes, StopStep, Types

\* Memory is lost with the process.
LEMMA LoseMemoryStep ==
  ASSUME IInv, LoseMemory, store' \in [Ids -> Datum], acked' = acked,
         unsure' \in [Ids -> SUBSET Datum],
         used' \in [{"writes", "faults", "opens", "searches"} -> Nat]
  PROVE  IInv'
<1>1. /\ up' = TRUE /\ opts' = Closed /\ index' = NoVectors
      /\ search' = [c \in Clients |-> Idle] /\ during' = [c \in Clients |-> {}]
  BY DEF LoseMemory
<1>2. during' \in [Clients -> SUBSET [Ids -> Datum]] BY <1>1
<1> QED BY <1>1, <1>2, StopStep

\* A crash between the writes, and one inside a write.
LEMMA CrashStep ==
  ASSUME IInv,
         Crash \/ \E id \in Ids, v \in Datum : CrashInWrite(id, v)
  PROVE  IInv'
<1>1. TypeOK BY DEF IInv
<1>2. CASE Crash
  <2>1. Engine!Stop /\ LoseMemory /\ used' = used BY <1>2 DEF Crash
  <2> QED BY <1>1, <2>1, StopTypes, LoseMemoryStep, Types
<1>3. ASSUME NEW id \in Ids, NEW v \in Datum, CrashInWrite(id, v) PROVE IInv'
  <2>1. Engine!StopInWrite(id, v) /\ LoseMemory /\ Spend("faults", MaxFaults)
    BY <1>3 DEF CrashInWrite
  <2>2. used' \in [{"writes", "faults", "opens", "searches"} -> Nat]
    BY <1>1, <2>1, Spent, VectorAssumption
  <2>3. unsure' \in [Ids -> SUBSET Datum] BY <1>1, <2>1, Types DEF Engine!StopInWrite
  <2>4. store' \in [Ids -> Datum] /\ acked' = acked
    BY <2>1 DEF Engine!StopInWrite, Engine!Settle, Datum
  <2> QED BY <2>1, <2>2, <2>3, <2>4, LoseMemoryStep
<1> QED BY <1>2, <1>3

\* A write that succeeds reaches engine and index; each search that has not
\* reached the lock may come to read what the index is now.
LEMMA PutStep ==
  ASSUME IInv, NEW id \in Ids, NEW v \in Datum, v = Nil \/ ValidVector(v), Put(id, v)
  PROVE  IInv'
<1>1. TypeOK /\ IndexInv /\ SearchInv /\ SearchIsSnapshot BY DEF IInv
<1>2. /\ ~closed /\ Spend("writes", MaxWrites)
      /\ store' = [store EXCEPT ![id] = v] /\ acked' = [acked EXCEPT ![id] = v]
      /\ unsure' = [unsure EXCEPT ![id] = {}] /\ index' = [index EXCEPT ![id] = v]
      /\ during' = [c \in Clients |-> IF search[c].at = "begun" THEN during[c] \cup {index'}
                                      ELSE during[c]]
      /\ UNCHANGED <<up, opts, search>>
  BY DEF Put, Watch, Engine!Acknowledge
<1>3. index' \in [Ids -> Datum] BY <1>1, <1>2, Types
<1>4. TypeOK'
  <2>1. used' \in [{"writes", "faults", "opens", "searches"} -> Nat]
    BY <1>1, <1>2, Spent, VectorAssumption
  <2>2. \A c \in Clients : SearchOK(search[c]) BY <1>1 DEF TypeOK, SearchOK
  <2>3. during' \in [Clients -> SUBSET [Ids -> Datum]] BY <1>1, <1>2, <1>3, Types
  <2>4. store' \in [Ids -> Datum] /\ acked' \in [Ids -> Datum] /\ unsure' \in [Ids -> SUBSET Datum]
    BY <1>1, <1>2, Types
  <2> QED BY <1>1, <1>2, <1>3, <2>1, <2>2, <2>3, <2>4, Types, TypesNext
<1>5. IndexInv'
  <2>1. opts.metric \in Metrics /\ \A i \in LowIds : index'[i] = store'[i]
    BY <1>1, <1>2, Types DEF IndexInv, LowIds
  <2>2. ASSUME NEW i \in Present(index') PROVE Len(index'[i]) = opts.dim
    <3>1. CASE i = id BY <1>1, <1>2, <2>2, <3>1, Types DEF Present, ValidVector
    <3>2. CASE i # id
      <4>1. i \in Present(index) /\ index'[i] = index[i]
        BY <1>1, <1>2, <2>2, <3>2, Types DEF Present
      <4> QED BY <1>1, <1>2, <4>1 DEF IndexInv
    <3> QED BY <3>1, <3>2
  <2> QED BY <1>2, <2>1, <2>2 DEF IndexInv
<1>6. SearchInv'
  <2> SUFFICES ASSUME NEW c \in Clients
               PROVE  LET s == search[c]
                      IN  /\ s.at = "begun" => /\ ~closed' /\ index' \in during'[c]
                                               /\ Len(s.query) = opts'.dim
                          /\ s.at = "collected" =>
                               /\ s.found \in during'[c]
                               /\ \A i \in Present(s.found) : Len(s.found[i]) = Len(s.query)
    BY <1>2 DEF SearchInv
  <2>1. search[c].at = "begun" => index' \in during'[c] BY <1>2
  <2>2. search[c].at = "collected" => during'[c] = during[c] BY <1>2
  <2> QED BY <1>1, <1>2, <2>1, <2>2 DEF SearchInv, closed
<1>7. SearchIsSnapshot'
  <2> SUFFICES ASSUME NEW c \in Clients, search'[c].at = "answered"
               PROVE  \E from \in during'[c] : Best(search'[c].found, from, search'[c])
    BY DEF SearchIsSnapshot
  <2>1. Left(c) /\ search[c].at = "answered" BY <1>2 DEF Left
  <2> QED BY <1>1, <2>1, AnswerKept
<1> QED BY <1>4, <1>5, <1>6, <1>7 DEF IInv

\* A write or a Flush that fails leaves index and searches as they are.
LEMMA FaultStep ==
  ASSUME IInv, FlushFails \/ \E id \in Ids, v \in Datum : PutFails(id, v)
  PROVE  IInv'
<1>1. TypeOK /\ IndexInv /\ SearchInv /\ SearchIsSnapshot BY DEF IInv
<1>2. /\ Spend("faults", MaxFaults) /\ UNCHANGED <<store, acked, opts, index, search, during>>
      /\ up' \in BOOLEAN /\ unsure' \in [Ids -> SUBSET Datum]
  <2>1. CASE FlushFails BY <1>1, <2>1, Types DEF FlushFails
  <2>2. ASSUME NEW id \in Ids, NEW v \in Datum, PutFails(id, v)
        PROVE  /\ Spend("faults", MaxFaults)
               /\ UNCHANGED <<store, acked, opts, index, search, during>>
               /\ up' \in BOOLEAN /\ unsure' \in [Ids -> SUBSET Datum]
    BY <1>1, <2>2, Types DEF PutFails, Engine!Refuse
  <2> QED BY <2>1, <2>2
<1>3. used' \in [{"writes", "faults", "opens", "searches"} -> Nat]
  BY <1>1, <1>2, Spent, VectorAssumption
<1>4. TypeOK'
  <2>1. \A c \in Clients : SearchOK(search[c]) BY <1>1 DEF TypeOK, SearchOK
  <2> QED BY <1>1, <1>2, <1>3, <2>1, Types, TypesNext
<1>5. IndexInv' BY <1>1, <1>2 DEF IndexInv, closed
<1>6. SearchInv' BY <1>1, <1>2 DEF SearchInv, closed
<1>7. SearchIsSnapshot' BY <1>1, <1>2 DEF SearchIsSnapshot
<1> QED BY <1>4, <1>5, <1>6, <1>7 DEF IInv

\* What a step of one search changes: itself alone.
LEMMA SearchStep ==
  ASSUME IInv, NEW c \in Clients, NEW s, search' = [search EXCEPT ![c] = s], SearchOK(s),
         UNCHANGED <<engine, opts, index>>,
         used' \in [{"writes", "faults", "opens", "searches"} -> Nat],
         during' \in [Clients -> SUBSET [Ids -> Datum]],
         \A d \in Clients \ {c} : during'[d] = during[d],
         s.at = "begun" => ~closed /\ index \in during'[c] /\ Len(s.query) = opts.dim,
         s.at = "collected" =>
           /\ s.found \in during'[c]
           /\ \A id \in Present(s.found) : Len(s.found[id]) = Len(s.query),
         s.at = "answered" => \E from \in during'[c] : Best(s.found, from, s)
  PROVE  IInv'
<1>1. TypeOK /\ IndexInv /\ SearchInv /\ SearchIsSnapshot BY DEF IInv
<1>2. /\ DOMAIN search' = Clients /\ search'[c] = s
      /\ \A d \in Clients \ {c} : search'[d] = search[d]
  BY <1>1, Types
<1>3. TypeOK'
  <2>1. \A d \in Clients : SearchOK(search'[d]) BY <1>1, <1>2 DEF TypeOK, SearchOK
  <2> QED BY <1>1, <1>2, <2>1, Types, TypesNext DEF engine
<1>4. IndexInv' BY <1>1 DEF IndexInv, closed, engine
<1>5. SearchInv'
  <2> SUFFICES ASSUME NEW d \in Clients
               PROVE  /\ search'[d].at = "begun" =>
                           /\ ~closed' /\ index' \in during'[d]
                           /\ Len(search'[d].query) = opts'.dim
                      /\ search'[d].at = "collected" =>
                           /\ search'[d].found \in during'[d]
                           /\ \A i \in Present(search'[d].found) :
                                Len(search'[d].found[i]) = Len(search'[d].query)
    BY DEF SearchInv
  <2>1. CASE d = c BY <1>2, <2>1 DEF closed
  <2>2. CASE d # c
    <3>1. Left(d) BY <1>2, <2>2 DEF Left
    <3> QED BY <1>1, <3>1 DEF SearchInv, closed, Left
  <2> QED BY <2>1, <2>2
<1>6. SearchIsSnapshot'
  <2> SUFFICES ASSUME NEW d \in Clients, search'[d].at = "answered"
               PROVE  \E from \in during'[d] : Best(search'[d].found, from, search'[d])
    BY DEF SearchIsSnapshot
  <2>1. CASE d = c BY <1>2, <2>1
  <2>2. CASE d # c
    <3>1. Left(d) /\ search[d].at = "answered" BY <1>2, <2>2 DEF Left
    <3> QED BY <1>1, <3>1, AnswerKept
  <2> QED BY <2>1, <2>2
<1> QED BY <1>3, <1>4, <1>5, <1>6 DEF IInv

\* The arguments are checked, and from then on the index is watched.
LEMMA SearchBeginsStep ==
  ASSUME IInv, NEW c \in Clients, NEW q \in Queries, NEW k \in Ids, SearchBegins(c, q, k)
  PROVE  IInv'
<1>1. TypeOK BY DEF IInv
<1> DEFINE s == [at |-> "begun", query |-> q, k |-> k]
<1>2. /\ ~closed /\ Len(q) = opts.dim /\ Spend("searches", MaxSearches)
      /\ search' = [search EXCEPT ![c] = s] /\ during' = [during EXCEPT ![c] = {index}]
      /\ UNCHANGED <<engine, opts, index>>
  BY DEF SearchBegins, ValidVector
<1>3. s \in Begun /\ SearchOK(s) BY DEF Begun, SearchOK
<1>4. used' \in [{"writes", "faults", "opens", "searches"} -> Nat]
  BY <1>1, <1>2, Spent, VectorAssumption
<1>5. /\ during' \in [Clients -> SUBSET [Ids -> Datum]] /\ index \in during'[c]
      /\ \A d \in Clients \ {c} : during'[d] = during[d]
  BY <1>1, <1>2, Types
<1>6. s.at = "begun" /\ s.query = q OBVIOUS
<1> HIDE DEF s
<1> QED BY <1>2, <1>3, <1>4, <1>5, <1>6, SearchStep

\* The copy under the lock is the index of this moment.
LEMMA SearchCollectsStep ==
  ASSUME IInv, NEW c \in Clients, SearchCollects(c)
  PROVE  IInv'
<1>1. TypeOK /\ IndexInv /\ SearchInv BY DEF IInv
<1> DEFINE s == [at |-> "collected", query |-> search[c].query, k |-> search[c].k,
                 metric |-> opts.metric, found |-> index]
<1>2. search[c].at = "begun" /\ UNCHANGED <<engine, opts, index, during, used>>
  BY DEF SearchCollects
<1>3. search' = [search EXCEPT ![c] = s] BY <1>1, Types DEF SearchCollects
<1>4. ~closed /\ index \in during[c] /\ Len(search[c].query) = opts.dim
  BY <1>1, <1>2 DEF SearchInv
<1>5. search[c].query \in Queries /\ search[c].k \in Ids
  BY <1>1, <1>2 DEF TypeOK, Begun, Idle
<1>6. s \in Collected /\ SearchOK(s)
  <2>1. opts.metric \in Metrics BY <1>1, <1>4 DEF IndexInv
  <2> QED BY <1>1, <1>5, <2>1, Types DEF Collected, SearchOK, Datum
<1>7. /\ s.at = "collected" /\ s.found \in during'[c]
      /\ \A id \in Present(s.found) : Len(s.found[id]) = Len(s.query)
  BY <1>1, <1>2, <1>4 DEF IndexInv
<1>8. /\ during' \in [Clients -> SUBSET [Ids -> Datum]]
      /\ used' \in [{"writes", "faults", "opens", "searches"} -> Nat]
      /\ \A d \in Clients \ {c} : during'[d] = during[d]
  BY <1>1, <1>2, Types
<1> HIDE DEF s
<1> QED BY <1>2, <1>3, <1>6, <1>7, <1>8, SearchStep

\* Sorting the copy after the lock answers the best of the index copied.
LEMMA SearchReturnsStep ==
  ASSUME IInv, NEW c \in Clients, SearchReturns(c)
  PROVE  IInv'
<1>1. TypeOK /\ SearchInv BY DEF IInv
<1> DEFINE old == search[c]
           s == [old EXCEPT !.at = "answered", !.found = Ranked(old)]
<1>2. old.at = "collected" /\ UNCHANGED <<engine, opts, index, during, used>>
  BY DEF SearchReturns
<1>3. search' = [search EXCEPT ![c] = s] BY <1>1, Types DEF SearchReturns
<1>4. old \in Collected BY <1>1, <1>2 DEF TypeOK, Idle
<1>5. /\ old.found \in during[c]
      /\ \A id \in Present(old.found) : Len(old.found[id]) = Len(old.query)
  BY <1>1, <1>2 DEF SearchInv
<1>6. Sortable(old) /\ old.k \in Nat
  <2>1. old.metric \in {"cosine", "l2", "dot"} /\ old.query \in Seq(Int) /\ old.k \in Nat
    <3>1. old.metric \in Metrics /\ Metrics \subseteq {"cosine", "l2", "dot"}
      BY <1>4, VectorAssumption DEF Collected
    <3>2. old.query \in Queries BY <1>4 DEF Collected
    <3>3. old.query \in Seq(Int) BY <3>2, VectorTypes
    <3>4. old.k \in 1..NumIds BY <1>4 DEF Collected, Ids
    <3>5. NumIds \in Nat BY VectorAssumption
    <3>6. old.k \in Nat BY <3>4, <3>5
    <3>7. old.metric \in {"cosine", "l2", "dot"} BY <3>1
    <3> QED BY <3>3, <3>6, <3>7
  <2>2. \A id \in Present(old.found) : old.found[id] \in Seq(Int)
    BY <1>4, VectorTypes DEF Collected, Present
  <2> QED BY <1>5, <2>1, <2>2 DEF Sortable
<1>7. /\ s.at = "answered" /\ s.found = Ranked(old) /\ s.k = old.k
      /\ s.metric = old.metric /\ s.query = old.query
      /\ LET now == [s EXCEPT !.found = old.found]
         IN  now.metric = old.metric /\ now.query = old.query /\ now.found = old.found
  BY <1>4 DEF Collected
<1>8. Best(Ranked(old), old.found, s)
  <2> DEFINE now == [s EXCEPT !.found = old.found]
  <2>1. \A x, y : Before(now, x, y) <=> Before(old, x, y) BY <1>7 DEF Before
  <2> HIDE DEF now, old, s
  <2>2. Best(Ranked(old), old.found, s) <=>
          LET found  == Ranked(old)
              listed == {found[i].id : i \in DOMAIN found}
          IN  /\ Len(found) = Min({s.k, Cardinality(Present(old.found))})
              /\ \A i \in DOMAIN found :
                   found[i].vec = old.found[found[i].id] /\ found[i].vec # Nil
              /\ \A i, j \in DOMAIN found : i < j => Before(now, found[i].id, found[j].id)
              /\ \A i \in DOMAIN found, id \in Present(old.found) \ listed :
                   Before(now, found[i].id, id)
    BY DEF Best, now
  <2> QED BY <1>6, <1>7, <2>1, <2>2, RankedIsBest
<1>9. SearchOK(s) BY <1>7 DEF SearchOK
<1>10. /\ during' \in [Clients -> SUBSET [Ids -> Datum]] /\ old.found \in during'[c]
       /\ used' \in [{"writes", "faults", "opens", "searches"} -> Nat]
       /\ \A d \in Clients \ {c} : during'[d] = during[d]
  BY <1>1, <1>2, <1>5, Types
<1> HIDE DEF s, old
<1> QED BY <1>2, <1>3, <1>7, <1>8, <1>9, <1>10, SearchStep

\* Every step keeps the invariant.
LEMMA NextIInv == IInv /\ [Next]_vars => IInv'
<1> SUFFICES ASSUME IInv, [Next]_vars PROVE IInv' OBVIOUS
<1>1. ASSUME NEW dim \in {Len(v) : v \in Vectors}, NEW metric \in Metrics, Open(dim, metric)
      PROVE  IInv'
  BY <1>1, OpenStep
<1>2. CASE Close BY <1>2, CloseStep
<1>3. CASE Crash BY <1>3, CrashStep
<1>4. CASE FlushFails BY <1>4, FaultStep
<1>5. ASSUME NEW id \in Ids, NEW v \in Vectors, Upsert(id, v) \/ ExplainUpsert(id, v)
      PROVE  IInv'
  <2>1. v \in Datum /\ ValidVector(v) /\ (Put(id, v) \/ PutFails(id, v))
    BY <1>5 DEF Upsert, ExplainUpsert, Datum
  <2> QED BY <2>1, PutStep, FaultStep
<1>6. ASSUME NEW id \in Ids, Delete(id) \/ ExplainDelete(id) PROVE IInv'
  <2>1. Nil \in Datum /\ (Put(id, Nil) \/ PutFails(id, Nil))
    BY <1>6 DEF Delete, ExplainDelete, Datum
  <2> QED BY <2>1, PutStep, FaultStep
<1>7. ASSUME NEW id \in Ids, NEW v \in Vectors \cup {Nil}, CrashInWrite(id, v) PROVE IInv'
  BY <1>7, CrashStep DEF Datum
<1>8. ASSUME NEW c \in Clients, NEW q \in Queries, NEW k \in Ids, SearchBegins(c, q, k)
      PROVE  IInv'
  BY <1>8, SearchBeginsStep
<1>9. ASSUME NEW c \in Clients, SearchCollects(c) \/ SearchReturns(c) PROVE IInv'
  BY <1>9, SearchCollectsStep, SearchReturnsStep
<1>10. CASE UNCHANGED vars
  BY <1>10 DEF vars, engine, IInv, TypeOK, IndexInv, SearchInv, SearchIsSnapshot, closed
<1> QED
  BY <1>1, <1>2, <1>3, <1>4, <1>5, <1>6, <1>7, <1>8, <1>9, <1>10 DEF Next

\* The inductive invariant, for any IDs, vectors, metrics and searches.
THEOREM InductiveInvariant == Spec => []IInv
BY InitIInv, NextIInv, PTL DEF Spec

\* A search answers the k best vectors of one index there was while it ran,
\* though Search sorts its copy when others may write again.
THEOREM SearchIsSnapshotAlways == Spec => []SearchIsSnapshot
<1>1. IInv => SearchIsSnapshot BY DEF IInv
<1> QED BY <1>1, InductiveInvariant, PTL

----------------------------------------------------------------------------
(* The index over the engine is a dictionary                               *)

\* What a reader is answered for the IDs that every Open loads.
Reads == Low(IF closed THEN store ELSE index)

\* In every state that is what the engine holds.
LEMMA ReadsAreStored ==
  ASSUME IInv, IInv'
  PROVE  Reads = Low(store) /\ Reads' = Low(store)'
<1>1. Reads = Low(store)
  <2>1. CASE closed BY <2>1 DEF Reads, Low
  <2>2. CASE ~closed BY <2>2 DEF Reads, Low, IInv, IndexInv
  <2> QED BY <2>1, <2>2
<1>2. Reads' = Low(store)'
  <2>1. CASE closed' BY <2>1 DEF Reads, Low
  <2>2. CASE ~closed'
    <3>1. \A id \in LowIds : index'[id] = store'[id] BY <2>2 DEF IInv, IndexInv
    <3> QED BY <2>2, <3>1 DEF Reads, Low
  <2> QED BY <2>1, <2>2
<1> QED BY <1>1, <1>2

\* IDs that Open loads are IDs.
LEMMA LowIdsAreIds == LowIds \subseteq Ids
BY DEF LowIds

\* What happens to one ID of a function, seen through Low.
LEMMA LowUpdate ==
  ASSUME NEW S, NEW f \in [Ids -> S], NEW id \in Ids, NEW x
  PROVE  Low([f EXCEPT ![id] = x]) =
           IF id \in LowIds THEN [Low(f) EXCEPT ![id] = x] ELSE Low(f)
BY LowIdsAreIds DEF Low

\* An acknowledged write of the engine is one of the dictionary, or of an ID
\* that is not in it.
LEMMA AcknowledgeMaps ==
  ASSUME IInv, IInv', NEW id \in Ids, NEW v \in Datum, Engine!Acknowledge(id, v)
  PROVE  [Dictionary!KVNext]_(Dictionary!storeVars)
<1>1. Reads = Low(store) /\ Reads' = Low(store)' BY ReadsAreStored
<1>2. /\ store \in [Ids -> Datum] /\ acked \in [Ids -> Datum]
      /\ unsure \in [Ids -> SUBSET Datum]
  BY Types DEF IInv
<1>3. /\ store' = [store EXCEPT ![id] = v] /\ acked' = [acked EXCEPT ![id] = v]
      /\ unsure' = [unsure EXCEPT ![id] = {}]
  BY DEF Engine!Acknowledge
<1>4. /\ Low(store)' = Low(store') /\ Low(acked)' = Low(acked') /\ Low(unsure)' = Low(unsure')
  BY DEF Low
<1>5. CASE id \in LowIds
  <2>1. /\ Low(store') = [Low(store) EXCEPT ![id] = v]
        /\ Low(acked') = [Low(acked) EXCEPT ![id] = v]
        /\ Low(unsure') = [Low(unsure) EXCEPT ![id] = {}]
    <3>1. Low(store') = [Low(store) EXCEPT ![id] = v] BY <1>2, <1>3, <1>5, LowUpdate
    <3>2. Low(acked') = [Low(acked) EXCEPT ![id] = v] BY <1>2, <1>3, <1>5, LowUpdate
    <3>3. Low(unsure') = [Low(unsure) EXCEPT ![id] = {}] BY <1>2, <1>3, <1>5, LowUpdate
    <3> QED BY <3>1, <3>2, <3>3
  <2>2. Dictionary!Acknowledge(id, v)
    BY <1>1, <1>4, <2>1 DEF Dictionary!Acknowledge, Reads
  <2> QED BY <1>5, <2>2 DEF Dictionary!KVNext, Datum
<1>6. CASE id \notin LowIds
  <2>1. Low(store') = Low(store) /\ Low(acked') = Low(acked) /\ Low(unsure') = Low(unsure)
    BY <1>2, <1>3, <1>6, LowUpdate
  <2> QED BY <1>1, <1>4, <2>1 DEF Dictionary!storeVars, Reads
<1> QED BY <1>5, <1>6

\* So is a write that fails.
LEMMA RefuseMaps ==
  ASSUME IInv, IInv', NEW id \in Ids, NEW v \in Datum, Engine!Refuse(id, v)
  PROVE  [Dictionary!KVNext]_(Dictionary!storeVars)
<1>1. Reads = Low(store) /\ Reads' = Low(store)' BY ReadsAreStored
<1>2. unsure \in [Ids -> SUBSET Datum] BY Types DEF IInv
<1>3. /\ store' = store /\ acked' = acked
      /\ unsure' = [unsure EXCEPT ![id] = unsure[id] \cup {v}]
  BY DEF Engine!Refuse
<1>4. /\ Low(store)' = Low(store) /\ Low(acked)' = Low(acked) /\ Low(unsure)' = Low(unsure')
  BY <1>3 DEF Low
<1>5. CASE id \in LowIds
  <2>1. Low(unsure') = [Low(unsure) EXCEPT ![id] = unsure[id] \cup {v}]
    BY <1>2, <1>3, <1>5, LowUpdate
  <2>2. Low(unsure)[id] = unsure[id] BY <1>5 DEF Low
  <2>3. Dictionary!Refuse(id, v)
    BY <1>1, <1>4, <2>1, <2>2 DEF Dictionary!Refuse, Reads
  <2> QED BY <1>5, <2>3 DEF Dictionary!KVNext, Datum
<1>6. CASE id \notin LowIds
  <2>1. Low(unsure') = Low(unsure) BY <1>2, <1>3, <1>6, LowUpdate
  <2> QED BY <1>1, <1>4, <2>1 DEF Dictionary!storeVars, Reads
<1> QED BY <1>5, <1>6

\* What the engine may hold after it stopped, seen through Low.
LEMMA SettleMaps ==
  ASSUME IInv, IInv', NEW maybe, Engine!Settle(maybe) PROVE Dictionary!Settle(Low(maybe))
<1>1. Reads = Low(store) /\ Reads' = Low(store)' BY ReadsAreStored
<1>2. store' \in [Ids -> Datum] /\ \A id \in Ids : store'[id] \in {store[id]} \cup maybe[id]
  BY DEF Engine!Settle, Datum
<1>3. Low(store)' \in [LowIds -> Datum] BY <1>2, LowIdsAreIds DEF Low
<1>4. \A id \in LowIds : Low(store)'[id] \in {Low(store)[id]} \cup Low(maybe)[id]
  BY <1>2, LowIdsAreIds DEF Low
<1> QED BY <1>1, <1>3, <1>4 DEF Dictionary!Settle, Reads, Datum

\* The process stops between two writes.
LEMMA StopMaps ==
  ASSUME IInv, IInv', Engine!Stop PROVE [Dictionary!KVNext]_(Dictionary!storeVars)
<1>1. Engine!Settle(unsure) /\ UNCHANGED <<acked, unsure>> BY DEF Engine!Stop
<1>2. Dictionary!Settle(Low(unsure)) BY <1>1, SettleMaps
<1>3. Dictionary!Stop BY <1>1, <1>2 DEF Dictionary!Stop, Low
<1> QED BY <1>3 DEF Dictionary!KVNext

\* It dies inside a write.
LEMMA StopInWriteMaps ==
  ASSUME IInv, IInv', NEW id \in Ids, NEW v \in Datum, Engine!StopInWrite(id, v)
  PROVE  [Dictionary!KVNext]_(Dictionary!storeVars)
<1>1. Engine!Settle(unsure') /\ acked' = acked
      /\ unsure' = [unsure EXCEPT ![id] = unsure[id] \cup {v}]
  BY DEF Engine!StopInWrite
<1>2. Dictionary!Settle(Low(unsure')) BY <1>1, SettleMaps
<1>3. unsure \in [Ids -> SUBSET Datum] BY Types DEF IInv
<1>4. Low(acked)' = Low(acked) /\ Low(unsure)' = Low(unsure') BY <1>1 DEF Low
<1>5. CASE id \in LowIds
  <2>1. Low(unsure') = [Low(unsure) EXCEPT ![id] = unsure[id] \cup {v}]
    BY <1>1, <1>3, <1>5, LowUpdate
  <2>2. Low(unsure)[id] = unsure[id] BY <1>5 DEF Low
  <2>3. Dictionary!StopInWrite(id, v)
    BY <1>2, <1>4, <2>1, <2>2 DEF Dictionary!StopInWrite
  <2> QED BY <1>5, <2>3 DEF Dictionary!KVNext, Datum
<1>6. CASE id \notin LowIds
  <2>1. Low(unsure') = Low(unsure) BY <1>1, <1>3, <1>6, LowUpdate
  <2>2. Dictionary!Stop BY <1>2, <1>4, <2>1 DEF Dictionary!Stop
  <2> QED BY <2>2 DEF Dictionary!KVNext
<1> QED BY <1>5, <1>6

\* Open, the searches and a Flush that fails change nothing a reader sees.
LEMMA QuietMaps ==
  ASSUME IInv, IInv', UNCHANGED <<store, acked, unsure>>
  PROVE  [Dictionary!KVNext]_(Dictionary!storeVars)
<1>1. Reads = Low(store) /\ Reads' = Low(store)' BY ReadsAreStored
<1>2. Low(store)' = Low(store) /\ Low(acked)' = Low(acked) /\ Low(unsure)' = Low(unsure)
  BY DEF Low
<1> QED BY <1>1, <1>2 DEF Dictionary!storeVars, Reads

\* Every step is one of the dictionary, or changes nothing there.
LEMMA NextMaps ==
  IInv /\ IInv' /\ [Next]_vars => [Dictionary!KVNext]_(Dictionary!storeVars)
<1> SUFFICES ASSUME IInv, IInv', [Next]_vars PROVE [Dictionary!KVNext]_(Dictionary!storeVars)
  OBVIOUS
<1>1. ASSUME NEW dim \in {Len(v) : v \in Vectors}, NEW metric \in Metrics, Open(dim, metric)
      PROVE  UNCHANGED <<store, acked, unsure>>
  BY <1>1 DEF Open, engine
<1>2. CASE Close \/ Crash BY <1>2, StopMaps DEF Close, Crash
<1>3. CASE FlushFails BY <1>3, QuietMaps DEF FlushFails
<1>4. ASSUME NEW id \in Ids, NEW v \in Vectors, Upsert(id, v) \/ ExplainUpsert(id, v)
      PROVE  [Dictionary!KVNext]_(Dictionary!storeVars)
  <2>1. v \in Datum /\ (Engine!Acknowledge(id, v) \/ Engine!Refuse(id, v))
    BY <1>4 DEF Upsert, ExplainUpsert, Put, PutFails, Datum
  <2> QED BY <2>1, AcknowledgeMaps, RefuseMaps
<1>5. ASSUME NEW id \in Ids, Delete(id) \/ ExplainDelete(id)
      PROVE  [Dictionary!KVNext]_(Dictionary!storeVars)
  <2>1. Nil \in Datum /\ (Engine!Acknowledge(id, Nil) \/ Engine!Refuse(id, Nil))
    BY <1>5 DEF Delete, ExplainDelete, Put, PutFails, Datum
  <2> QED BY <2>1, AcknowledgeMaps, RefuseMaps
<1>6. ASSUME NEW id \in Ids, NEW v \in Vectors \cup {Nil}, CrashInWrite(id, v)
      PROVE  [Dictionary!KVNext]_(Dictionary!storeVars)
  BY <1>6, StopInWriteMaps DEF CrashInWrite, Datum
<1>7. ASSUME NEW c \in Clients, NEW q \in Queries, NEW k \in Ids, SearchBegins(c, q, k)
      PROVE  UNCHANGED <<store, acked, unsure>>
  BY <1>7 DEF SearchBegins, engine
<1>8. ASSUME NEW c \in Clients, SearchCollects(c) \/ SearchReturns(c)
      PROVE  UNCHANGED <<store, acked, unsure>>
  BY <1>8 DEF SearchCollects, SearchReturns, engine
<1>9. CASE UNCHANGED vars BY <1>9, QuietMaps DEF vars, engine
<1> QED BY <1>1, <1>2, <1>3, <1>4, <1>5, <1>6, <1>7, <1>8, <1>9, QuietMaps DEF Next

\* The dictionary is empty before anything was opened.
LEMMA InitMaps == Init => Dictionary!KVInit
<1> SUFFICES ASSUME Init PROVE Dictionary!KVInit OBVIOUS
<1>1. closed /\ store = [id \in Ids |-> Nil] /\ acked = [id \in Ids |-> Nil]
      /\ unsure = [id \in Ids |-> {}]
  BY DEF Init, closed, Closed, Engine!KVInit
<1>2. /\ Low(IF closed THEN store ELSE index) = [id \in LowIds |-> Nil]
      /\ Low(acked) = [id \in LowIds |-> Nil] /\ Low(unsure) = [id \in LowIds |-> {}]
  BY <1>1, LowIdsAreIds DEF Low
<1> QED BY <1>2 DEF Dictionary!KVInit

\* Over the engine, the vector store is again a durable dictionary of the IDs
\* that Open loads: upserts, deletes, failed writes and restarts are steps of
\* KVStore; opening, flushing and searching change nothing that is read.
THEOREM ImplementsDictionary == Spec => Implements
BY InitMaps, NextMaps, InductiveInvariant, PTL DEF Spec, Implements, Dictionary!KVSpec
=============================================================================
