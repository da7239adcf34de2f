---------------------------- MODULE VectorStore ----------------------------
(***************************************************************************)
(* The vector store (internal/vector): an in-memory index of vectors over  *)
(* an engine, written together under s.mu, rebuilt from the engine by Open *)
(* and searched from a copy that outlives the lock.                        *)
(*                                                                         *)
(* The engine is the dictionary of KVStore, whose "unsure" writes are those *)
(* that failed.  One namespace: '/' ends a namespace in the engine's keys  *)
(* and no namespace has one, so that two of them share no key.  IDs are    *)
(* numbers in the order of their bytes.  Metadata travels with the vector  *)
(* and is left out; scores are compared exactly (float64 rounding is not   *)
(* modelled).  Flush and Compact write nothing a read can tell, unless     *)
(* Flush fails.                                                            *)
(***************************************************************************)
EXTENDS Integers, Sequences, FiniteSetsExt

CONSTANTS
  NumIds,    \* IDs are 1..NumIds
  HighIds,   \* IDs whose first byte is 0xff
  Vectors,   \* vectors a caller may hand over, of several dimensions
  Metrics,   \* of "cosine", "l2", "dot": those the callers use
  Queries,   \* vectors searched for
  Nil,       \* no vector
  Clients,   \* callers of Search
  MaxWrites, \* bound: writes
  MaxFaults, \* bound: writes the engine fails
  MaxOpens,  \* bound: calls of Open
  MaxSearches \* bound: searches

Ids == 1..NumIds

ASSUME VectorAssumption ==
  /\ HighIds \subseteq Ids
  /\ \A h \in HighIds, l \in Ids \ HighIds : l < h
  /\ \A v \in Vectors \cup Queries : v \in Seq(Int) /\ v # <<>>
  /\ Nil \notin Vectors /\ Metrics \subseteq {"cosine", "l2", "dot"}
  /\ {NumIds, MaxWrites, MaxFaults, MaxOpens, MaxSearches} \subseteq Nat

VARIABLES
  store,    \* engine: what its Get and Scan answer for each ID
  acked,    \* history: the last acknowledged vector of each ID
  unsure,   \* engine: vectors of the writes that failed since
  up,       \* FALSE when the engine closed itself in a failed Flush
  opts,     \* s.opts, the dimension and the metric; dim = 0 when closed
  index,    \* s.index
  search,   \* what each caller of Search is at
  during,   \* history: the indexes there were since each search began
  used      \* how much of each bound is used up

engine == <<store, acked, unsure, up>>
vars == <<engine, opts, index, search, during, used>>

Engine == INSTANCE KVStore WITH Keys <- Ids, Values <- Vectors

closed == opts.dim = 0
Closed == [dim |-> 0, metric |-> "none"]
Idle == [at |-> "idle"]
NoVectors == [id \in Ids |-> Nil]

Spend(bound, max) == used[bound] < max /\ used' = [used EXCEPT ![bound] = @ + 1]

----------------------------------------------------------------------------
(* Scores                                                                  *)

\* The loops that add up the products of the components.
Dot(a, b) ==
  LET sum[n \in 0..Len(a)] == IF n = 0 THEN 0 ELSE sum[n - 1] + a[n] * b[n]
  IN  sum[Len(a)]

IsZero(v) == \A i \in DOMAIN v : v[i] = 0
Minus(a, b) == [i \in DOMAIN a |-> a[i] - b[i]]

\* The cosine of q and v is Num / sqrt(Dot(q, q) * Den); it is compared by its
\* square, signed.  A zero vector counts as the opposite of q.
CosNum(q, v) == IF IsZero(v) THEN -Dot(q, q)
                ELSE (IF Dot(q, v) < 0 THEN -1 ELSE 1) * Dot(q, v) * Dot(q, v)
CosDen(v) == IF IsZero(v) THEN 1 ELSE Dot(v, v)

\* computeDistance: the score of a is greater than that of b.
Higher(metric, q, a, b) ==
  CASE metric = "l2"     -> Dot(Minus(q, a), Minus(q, a)) < Dot(Minus(q, b), Minus(q, b))
    [] metric = "dot"    -> Dot(q, a) > Dot(q, b)
    [] metric = "cosine" -> CosNum(q, a) * CosDen(b) > CosNum(q, b) * CosDen(a)

\* The comparison of sort.Slice in Search: the score, then the ID.
Before(s, x, y) ==
  LET a == s.found[x]
      b == s.found[y]
  IN  \/ Higher(s.metric, s.query, a, b)
      \/ ~Higher(s.metric, s.query, b, a) /\ x < y

Present(found) == {id \in Ids : found[id] # Nil}

\* The k best candidates, best first.
Ranked(s) ==
  LET n     == Cardinality(Present(s.found))
      order == CHOOSE o \in [1..n -> Present(s.found)] :
                 \A i, j \in 1..n : i < j => Before(s, o[i], o[j])
  IN  [i \in 1..Min({s.k, n}) |-> [id |-> order[i], vec |-> s.found[order[i]]]]

----------------------------------------------------------------------------
(* Opening and closing                                                     *)

Init ==
  /\ Engine!KVInit
  /\ up = TRUE /\ opts = Closed /\ index = NoVectors
  /\ search = [c \in Clients |-> Idle] /\ during = [c \in Clients |-> {}]
  /\ used = [writes |-> 0, faults |-> 0, opens |-> 0, searches |-> 0]

\* loadIndex scans from the prefix up to the prefix and one byte 0xff, which
\* leaves out the IDs that begin with that byte.
LoadIndex == [id \in Ids |-> IF id \in HighIds THEN Nil ELSE store[id]]

\* decodeRecord: a vector of another dimension counts as a corrupt record.
Decodes(v, dim) == Len(v) = dim

\* Open, which fails when a record does not decode.
Open(dim, metric) ==
  /\ closed /\ Spend("opens", MaxOpens)
  /\ \A id \in Present(LoadIndex) : Decodes(LoadIndex[id], dim)
  /\ opts' = [dim |-> dim, metric |-> metric]
  /\ index' = LoadIndex
  /\ UNCHANGED <<engine, search, during>>

\* Close: the searches that have left the lock go on, those that have not
\* reached it meet ErrClosed.
Close ==
  /\ ~closed
  /\ Engine!Stop
  /\ up' = TRUE /\ opts' = Closed
  /\ search' = [c \in Clients |-> IF search[c].at = "begun" THEN Idle ELSE search[c]]
  /\ UNCHANGED <<index, during, used>>

\* The process dies.
LoseMemory ==
  /\ up' = TRUE /\ opts' = Closed /\ index' = NoVectors
  /\ search' = [c \in Clients |-> Idle] /\ during' = [c \in Clients |-> {}]

Crash == ~closed /\ Engine!Stop /\ LoseMemory /\ UNCHANGED used

----------------------------------------------------------------------------
(* Writes                                                                  *)

ValidVector(v) == Len(v) = opts.dim /\ ~(opts.metric = "cosine" /\ IsZero(v))

\* Every index a running search could have read.
Watch == during' = [c \in Clients |-> IF search[c].at = "begun" THEN during[c] \cup {index'}
                                      ELSE during[c]]

\* Faulty variant: the index is written before the engine.
PutIndexFirst(id, v) ==
  /\ ~closed /\ up /\ Spend("writes", MaxWrites)
  /\ Engine!Acknowledge(id, v) \/ Engine!Refuse(id, v)
  /\ index' = [index EXCEPT ![id] = v] /\ Watch
  /\ UNCHANGED <<up, opts, search>>

\* The engine's Put or Delete (v = Nil), then the index, under s.mu.
Put(id, v) ==
  /\ ~closed /\ up /\ Spend("writes", MaxWrites)
  /\ Engine!Acknowledge(id, v)
  /\ index' = [index EXCEPT ![id] = v] /\ Watch
  /\ UNCHANGED <<up, opts, search>>

\* The engine's write fails: the index is left as it is.
PutFails(id, v) ==
  /\ ~closed /\ up /\ Spend("faults", MaxFaults)
  /\ Engine!Refuse(id, v)
  /\ UNCHANGED <<up, opts, index, search, during>>

Upsert(id, v) == ValidVector(v) /\ (Put(id, v) \/ PutFails(id, v))

Delete(id) == Put(id, Nil) \/ PutFails(id, Nil)

\* The traced variants write the same (explain.go).
ExplainUpsert(id, v) == Upsert(id, v)
ExplainDelete(id) == Delete(id)

\* Flush: the engine cannot open its new log and closes itself; from then on
\* writes fail, while Get and Search go on answering from the index.
FlushFails ==
  /\ ~closed /\ up /\ Spend("faults", MaxFaults)
  /\ up' = FALSE
  /\ UNCHANGED <<store, acked, unsure, opts, index, search, during>>

\* The process dies inside the engine's write.
CrashInWrite(id, v) ==
  /\ ~closed /\ up /\ (v # Nil => ValidVector(v)) /\ Spend("faults", MaxFaults)
  /\ Engine!StopInWrite(id, v) /\ LoseMemory

----------------------------------------------------------------------------
(* Search and ExplainSearch                                                *)

\* The arguments are checked without the lock.
SearchBegins(c, q, k) ==
  /\ ~closed /\ search[c].at \in {"idle", "answered"} /\ Spend("searches", MaxSearches)
  /\ ValidVector(q)
  /\ search' = [search EXCEPT ![c] = [at |-> "begun", query |-> q, k |-> k]]
  /\ during' = [during EXCEPT ![c] = {index}]
  /\ UNCHANGED <<engine, opts, index>>

\* The candidates are copied under s.mu.
SearchCollects(c) ==
  /\ search[c].at = "begun"
  /\ search' = [search EXCEPT ![c] = [at |-> "collected", query |-> @.query, k |-> @.k,
                                      metric |-> opts.metric, found |-> index]]
  /\ UNCHANGED <<engine, opts, index, during, used>>

\* Faulty variant: the vectors are read from the index once more.
SearchReadsAgain(c) ==
  /\ search[c].at = "collected"
  /\ LET now == [id \in Ids |-> IF search[c].found[id] = Nil THEN Nil ELSE index[id]]
     IN  search' = [search EXCEPT ![c].at = "answered",
                                  ![c].found = Ranked([search[c] EXCEPT !.found = now])]
  /\ UNCHANGED <<engine, opts, index, during, used>>

\* They are sorted and cut to k after the lock is released.
SearchReturns(c) ==
  /\ search[c].at = "collected"
  /\ search' = [search EXCEPT ![c].at = "answered", ![c].found = Ranked(search[c])]
  /\ UNCHANGED <<engine, opts, index, during, used>>

Next ==
  \/ \E dim \in {Len(v) : v \in Vectors}, metric \in Metrics : Open(dim, metric)
  \/ Close \/ Crash \/ FlushFails
  \/ \E id \in Ids : \/ \E v \in Vectors : Upsert(id, v) \/ ExplainUpsert(id, v)
                     \/ Delete(id) \/ ExplainDelete(id)
                     \/ \E v \in Vectors \cup {Nil} : CrashInWrite(id, v)
  \/ \E c \in Clients : \/ \E q \in Queries, k \in Ids : SearchBegins(c, q, k)
                        \/ SearchCollects(c) \/ SearchReturns(c)

Spec == Init /\ [][Next]_vars

----------------------------------------------------------------------------
(* Properties                                                              *)

Begun     == [at : {"begun"}, query : Queries, k : Ids]
Collected == [at : {"collected"}, query : Queries, k : Ids, metric : Metrics,
              found : [Ids -> Vectors \cup {Nil}]]

TypeOK ==
  /\ {store, acked, index} \subseteq [Ids -> Vectors \cup {Nil}]
  /\ unsure \in [Ids -> SUBSET (Vectors \cup {Nil})] /\ up \in BOOLEAN
  /\ opts \in [dim : Nat, metric : Metrics \cup {"none"}]
  /\ DOMAIN search = Clients
  /\ \A c \in Clients : \/ search[c] = Idle \/ search[c].at = "answered"
                       \/ (search[c].at = "begun" /\ search[c] \in Begun)
                       \/ (search[c].at = "collected" /\ search[c] \in Collected)
  /\ during \in [Clients -> SUBSET [Ids -> Vectors \cup {Nil}]]
  /\ used \in [{"writes", "faults", "opens", "searches"} -> Nat]

\* But for the IDs that begin with 0xff, which Open does not load, the index
\* over the engine is again a durable dictionary: what was acknowledged is found
\* after any restart, and reads change by an acknowledged write or by a restart
\* that brings up an unsure one, never by a reload alone.
LowIds == Ids \ HighIds
Low(f) == [id \in LowIds |-> f[id]]
Dictionary == INSTANCE KVStore WITH Keys <- LowIds, Values <- Vectors,
                store <- Low(IF closed THEN store ELSE index),
                acked <- Low(acked), unsure <- Low(unsure)
Implements == Dictionary!KVSpec

\* "found" holds the k best of the vectors in "from", best first.
Best(found, from, s) ==
  LET listed == {found[i].id : i \in DOMAIN found}
      now    == [s EXCEPT !.found = from]
  IN  /\ Len(found) = Min({s.k, Cardinality(Present(from))})
      /\ \A i \in DOMAIN found : found[i].vec = from[found[i].id] /\ found[i].vec # Nil
      /\ \A i, j \in DOMAIN found : i < j => Before(now, found[i].id, found[j].id)
      /\ \A i \in DOMAIN found, id \in Present(from) \ listed : Before(now, found[i].id, id)

\* A search answers the k best vectors of one index there was while it ran,
\* though it sorts them after the lock, among upserts and deletes.
SearchIsSnapshot ==
  \A c \in Clients : search[c].at = "answered" =>
    \E from \in during[c] : Best(search[c].found, from, search[c])

----------------------------------------------------------------------------
(* The inductive invariant behind these properties                         *)

\* The index of an open store is what the engine holds, but for the IDs that
\* Open does not load, and has vectors of one dimension only.
IndexInv == ~closed =>
  /\ opts.metric \in Metrics
  /\ \A id \in LowIds : index[id] = store[id]
  /\ \A id \in Present(index) : Len(index[id]) = opts.dim

\* A search that has not reached the lock asks the store that is open; one that
\* has left it works on an index there was, of vectors as long as its query.
SearchInv ==
  \A c \in Clients :
    LET s == search[c]
    IN  /\ s.at = "begun" => ~closed /\ index \in during[c] /\ Len(s.query) = opts.dim
        /\ s.at = "collected" =>
             /\ s.found \in during[c]
             /\ \A id \in Present(s.found) : Len(s.found[id]) = Len(s.query)

IInv == TypeOK /\ IndexInv /\ SearchInv /\ SearchIsSnapshot
=============================================================================
