------------------------------ MODULE KVStore ------------------------------
(***************************************************************************)
(* What internal/engine promises its callers, with no trace of the log,    *)
(* the MemTable, the SSTables or the manifest: a dictionary whose writes   *)
(* are durable once acknowledged.  A write that returns an error, or that  *)
(* was running when the process died, is "unsure": it may surface when the *)
(* engine is opened again, or never, and until then reads do not see it.   *)
(*                                                                         *)
(* StorageEngine implements this specification (StorageEngine!Store).      *)
(***************************************************************************)
CONSTANTS Keys,     \* keys of the store
          Values,   \* values a Put may write
          Nil       \* "no value": what Get answers for an absent key

VARIABLES store,    \* what Get answers for each key
          acked,    \* the value of the last acknowledged write of each key
          unsure    \* values of the unacknowledged writes since then

storeVars == <<store, acked, unsure>>

KVInit ==
  /\ store  = [k \in Keys |-> Nil]
  /\ acked  = [k \in Keys |-> Nil]
  /\ unsure = [k \in Keys |-> {}]

\* Put (v \in Values) or Delete (v = Nil) returned nil to its caller.
Acknowledge(k, v) ==
  /\ store'  = [store EXCEPT ![k] = v]
  /\ acked'  = [acked EXCEPT ![k] = v]
  /\ unsure' = [unsure EXCEPT ![k] = {}]

\* Put or Delete returned an error; its record may be in the log all the same.
Refuse(k, v) ==
  /\ unsure' = [unsure EXCEPT ![k] = @ \cup {v}]
  /\ UNCHANGED <<store, acked>>

\* Each key keeps its value or takes the value of an unsure write.
Settle(maybe) == store' \in {s \in [Keys -> Values \cup {Nil}] :
                               \A k \in Keys : s[k] \in {store[k]} \cup maybe[k]}

\* The process stops between two writes.
Stop == Settle(unsure) /\ UNCHANGED <<acked, unsure>>

\* The process dies inside a write.
StopInWrite(k, v) ==
  /\ unsure' = [unsure EXCEPT ![k] = @ \cup {v}]
  /\ Settle(unsure')
  /\ UNCHANGED acked

KVNext ==
  \/ \E k \in Keys, v \in Values \cup {Nil} :
       Acknowledge(k, v) \/ Refuse(k, v) \/ StopInWrite(k, v)
  \/ Stop

KVSpec == KVInit /\ [][KVNext]_storeVars
=============================================================================
