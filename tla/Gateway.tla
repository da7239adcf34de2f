------------------------------ MODULE Gateway ------------------------------
(***************************************************************************)
(* The routing proxy (internal/proxy), the gateway it serves               *)
(* (internal/gateway), the HTTP client of a node (internal/node client.go) *)
(* and the static cluster configuration an operator edits between two runs *)
(* of the proxy, with the tools that predict what an edit moves            *)
(* (internal/ops).                                                         *)
(*                                                                         *)
(* A node is what its own specifications make of it: a dictionary that     *)
(* keeps what it acknowledged (KVStore).  A node that is down, or crashes  *)
(* in a request, is a request whose outcome its client does not learn:     *)
(* CallFails, and ServeLate for those the node gets to all the same.       *)
(*                                                                         *)
(* A write is known by its number, a Delete being a write like another;    *)
(* number 0 stands for "never written".                                    *)
(***************************************************************************)
EXTENDS HashRing, Functions

CONSTANTS
  Nodes, Keys, Clients,
  Hashes,       \* possible hash functions: where labels and keys may fall
  VirtualNodes, \* points of a node of weight 1
  Configs,      \* configurations in use: the weight of each configured node
  MaxWrites,    \* bound: writes accepted
  MaxRestarts   \* bound: restarts of the proxy

ASSUME GatewayAssumption ==
  /\ VirtualNodes \in Nat \ {0} /\ {MaxWrites, MaxRestarts} \subseteq Nat
  /\ \A c \in Configs : DOMAIN c \in (SUBSET Nodes) \ {{}} /\ c \in [DOMAIN c -> Nat \ {0}]
  /\ \A h \in Hashes :
       /\ h.key \in [Keys -> Nat]
       /\ \A c \in Configs : \A n \in DOMAIN c :
            \A i \in 1..VirtualNodes * c[n] : h.label[n][i] \in Nat

VARIABLES
  hash,      \* the hash function, fixed
  config,    \* cluster.Config: the weight of each configured node
  ring,      \* g.ring
  server,    \* proxy: "opened", "serving", "shutdown" (inside Close) or "closed"
  gwClosed,  \* g.closed
  req,       \* the request each client has at the proxy
  late,      \* writes given up by their client that a node may still serve
  data,      \* the last write each node served of each key
  writes,    \* how many writes were accepted
  restarts,  \* how many times the proxy was started again
  acked,     \* history: writes of each key that were acknowledged
  dead,      \* history: writes acknowledged before an acknowledged one began
  home,      \* history: the node that took the last acknowledged write
  served,    \* history: every write a node served
  refused    \* history: a request that was accepted met ErrClosed

history == <<acked, dead, home, served, refused>>
vars == <<hash, config, ring, server, gwClosed, req, late, data, writes, restarts, history>>

Idle == [at |-> "idle"]

\* The handler has returned; its client takes the answer.
Answered == [at |-> "answering", op |-> "none"]

----------------------------------------------------------------------------
(* Routing                                                                 *)

\* Faulty variant: a fixed number of points is shared out among the nodes.
PointsShared(c) ==
  [n \in DOMAIN c |->
     PointsOf(hash.label[n], (2 * VirtualNodes * c[n]) \div Cardinality(DOMAIN c))]

\* newHashRing: VirtualNodes * Weight points for each node.
Points(c) == [n \in DOMAIN c |-> PointsOf(hash.label[n], VirtualNodes * c[n])]

NodeForKey(r, k) == Owner(r, hash.key[k])

\* plannedNodes: those left after the removal, then those added.
Planned(c, removed, added) ==
  [n \in (DOMAIN c \ removed) \cup DOMAIN added |-> IF n \in DOMAIN added THEN added[n] ELSE c[n]]

\* PlanManualRebalance: each key's node before and after.
PlanManualRebalance(before, after) ==
  [k \in Keys |-> LET from == NodeForKey(before, k)
                      to   == NodeForKey(after, k)
                  IN  [from |-> from, to |-> to, moved |-> from # to]]

\* SimulateFailure: as a plan that removes the nodes that are down, but a key
\* of one of those is "affected" and not "moved".
SimulateFailure(before, after, down) ==
  [k \in Keys |-> LET from == NodeForKey(before, k)
                      to   == NodeForKey(after, k)
                  IN  [affected |-> from \in down \/ to # from,
                       moved    |-> from \notin down /\ to # from]]

----------------------------------------------------------------------------
(* The proxy's life                                                        *)

Init ==
  /\ hash \in Hashes
  /\ config \in Configs
  /\ ring \in Rings(Points(config))
  /\ server = "opened" /\ gwClosed = FALSE
  /\ req = [c \in Clients |-> Idle]
  /\ late = {}
  /\ data = [n \in Nodes |-> [k \in Keys |-> 0]]
  /\ writes = 0 /\ restarts = 0
  /\ acked = [k \in Keys |-> {0}]
  /\ dead = [k \in Keys |-> {}]
  /\ home = [k \in Keys |-> NodeForKey(ring, k)]
  /\ served = {}
  /\ refused = FALSE

\* Start, StartBackground, called once: a second call, which replaces the server
\* of the first if it can bind, is left out.
Start ==
  /\ server = "opened"
  /\ server' = "serving"
  /\ UNCHANGED <<hash, config, ring, gwClosed, req, late, data, writes, restarts, history>>

\* Faulty variant: the gateway is closed before the requests are done.
CloseEarly ==
  /\ server = "serving"
  /\ server' = "shutdown" /\ gwClosed' = TRUE
  /\ UNCHANGED <<hash, config, ring, req, late, data, writes, restarts, history>>

\* Close takes s.mu and calls Shutdown, which accepts no more requests.
CloseBegins ==
  /\ server = "serving"
  /\ server' = "shutdown"
  /\ UNCHANGED <<hash, config, ring, gwClosed, req, late, data, writes, restarts, history>>

\* Shutdown returns when no request is left; then the gateway is closed.  A
\* server that was never started has nothing to shut down.
CloseEnds ==
  /\ server \in {"opened", "shutdown"}
  /\ \A c \in Clients : req[c] = Idle
  /\ server' = "closed" /\ gwClosed' = TRUE
  /\ UNCHANGED <<hash, config, ring, req, late, data, writes, restarts, history>>

Holds(c) == server = "shutdown" /\ req[c].at = "accepted" /\ req[c].op = "status"
WaitsForClient(c) == req[c].at \in {"reading", "answering"}

----------------------------------------------------------------------------
(* A request                                                               *)

\* The write of a PUT or DELETE that its node has, or had, to serve.
WriteOf(c) == [node |-> NodeForKey(ring, req[c].key), key |-> req[c].key, write |-> req[c].write]
AtNode(c) == req[c].at = "called" /\ req[c].op = "write"

\* net/http gives the request to a handler: "write" is PUT /kv/, whose body is
\* read first, or DELETE /kv/,
\* "read" is GET /kv/, "all" a request sent to every node (/flush-all,
\* /compact-all, /nodes/health, /replication/status), "status" GET /status.
Accept(c) ==
  /\ server = "serving" /\ req[c] = Idle
  /\ \/ /\ writes < MaxWrites /\ writes' = writes + 1
        /\ \E k \in Keys, at \in {"reading", "accepted"} :
             req' = [req EXCEPT ![c] = [at |-> at, op |-> "write", left |-> {}, key |-> k,
                                        write |-> writes + 1, before |-> acked[k]]]
     \/ /\ \/ \E k \in Keys : req' = [req EXCEPT ![c] = [at |-> "accepted", op |-> "read", left |-> {},
                                                          key |-> k]]
           \/ \E op \in {"all", "status"} : req' = [req EXCEPT ![c] = [at |-> "accepted", op |-> op,
                                                                        left |-> {}]]
        /\ UNCHANGED writes
  /\ UNCHANGED <<hash, config, ring, server, gwClosed, late, data, restarts, history>>

\* handlePut: the body has come, or is no JSON, or the connection is broken.
BodyRead(c) ==
  /\ req[c].at = "reading"
  /\ \/ req' = [req EXCEPT ![c].at = "accepted"]
     \/ req' = [req EXCEPT ![c] = Answered]
  /\ UNCHANGED <<hash, config, ring, server, gwClosed, late, data, writes, restarts, history>>

\* The client takes the answer and what it still has to send is sent, or the
\* connection is broken.
AnswerTaken(c) ==
  /\ req[c] = Answered
  /\ req' = [req EXCEPT ![c] = Idle]
  /\ UNCHANGED <<hash, config, ring, server, gwClosed, late, data, writes, restarts, history>>

Targets(c) == IF req[c].op = "all" THEN DOMAIN config ELSE {NodeForKey(ring, req[c].key)}

\* clientForKey, allClients: the gateway may be closed (503); otherwise one
\* node is called for a key, and every node for the others.
Route(c) ==
  /\ req[c].at = "accepted" /\ req[c].op # "status"
  /\ IF gwClosed
     THEN refused' = TRUE /\ req' = [req EXCEPT ![c] = Answered]
     ELSE /\ req' = [req EXCEPT ![c].at = "called", ![c].left = Targets(c)]
          /\ UNCHANGED refused
  /\ UNCHANGED <<hash, config, ring, server, gwClosed, late, data, writes, restarts,
                 acked, dead, home, served>>

\* handleStatus: Addr takes s.mu.
Status(c) ==
  /\ req[c].at = "accepted" /\ req[c].op = "status" /\ server # "shutdown"
  /\ req' = [req EXCEPT ![c] = Answered]
  /\ UNCHANGED <<hash, config, ring, server, gwClosed, late, data, writes, restarts, history>>

\* A node answers a request that writes nothing, or its client gives it up;
\* the request to the other nodes goes on.
CallEnds(c) ==
  /\ req[c].at = "called" /\ req[c].op # "write"
  /\ \E n \in req[c].left :
       req' = [req EXCEPT ![c] = IF req[c].left = {n} THEN Answered
                                 ELSE [req[c] EXCEPT !.left = @ \ {n}]]
  /\ UNCHANGED <<hash, config, ring, server, gwClosed, late, data, writes, restarts, history>>

\* The node serves a write (Server.handlePut, handleDelete of the node).
Serve(w) ==
  /\ data' = [data EXCEPT ![w.node][w.key] = w.write]
  /\ served' = served \cup {w.write}

NodeServes(c) ==
  /\ AtNode(c)
  /\ Serve(WriteOf(c))
  /\ req' = [req EXCEPT ![c].at = "served"]
  /\ UNCHANGED <<hash, config, ring, server, gwClosed, late, writes, restarts,
                 acked, dead, home, refused>>

\* Faulty variant: the proxy answers before the node does.
AcknowledgeEarly(c) ==
  /\ AtNode(c)
  /\ LET k == req[c].key IN
       /\ acked' = [acked EXCEPT ![k] = @ \cup {req[c].write}]
       /\ dead' = [dead EXCEPT ![k] = @ \cup req[c].before]
       /\ home' = [home EXCEPT ![k] = NodeForKey(ring, k)]
  /\ late' = late \cup {WriteOf(c)}
  /\ req' = [req EXCEPT ![c] = Answered]
  /\ UNCHANGED <<hash, config, ring, server, gwClosed, data, writes, restarts,
                 served, refused>>

\* The answer reaches the client: the write is acknowledged.
Acknowledge(c) ==
  /\ req[c].at = "served"
  /\ LET k == req[c].key IN
       /\ acked' = [acked EXCEPT ![k] = @ \cup {req[c].write}]
       /\ dead' = [dead EXCEPT ![k] = @ \cup req[c].before]
       /\ home' = [home EXCEPT ![k] = NodeForKey(ring, k)]
  /\ req' = [req EXCEPT ![c] = Answered]
  /\ UNCHANGED <<hash, config, ring, server, gwClosed, late, data, writes, restarts,
                 served, refused>>

\* Faulty variant: a write that failed is sent again.
CallRetries(c) ==
  /\ AtNode(c) \/ req[c].at = "served"
  /\ late' = late \cup {WriteOf(c)}
  /\ req' = [req EXCEPT ![c].at = "called"]
  /\ UNCHANGED <<hash, config, ring, server, gwClosed, data, writes, restarts, history>>

\* Faulty variant: the client has no timeout.
CallFailsServed(c) ==
  /\ req[c].at = "served"
  /\ req' = [req EXCEPT ![c] = Answered]
  /\ UNCHANGED <<hash, config, ring, server, gwClosed, late, data, writes, restarts, history>>

\* doJSON: the timeout of the HTTP client, a refused connection, a cancelled
\* request.  Nothing is sent again; a node may still come to serve the write.
CallFails(c) ==
  /\ AtNode(c) \/ req[c].at = "served"
  /\ late' = late \cup (IF AtNode(c) THEN {WriteOf(c)} ELSE {})
  /\ req' = [req EXCEPT ![c] = Answered]
  /\ UNCHANGED <<hash, config, ring, server, gwClosed, data, writes, restarts, history>>

ServeLate ==
  /\ \E w \in late : Serve(w) /\ late' = late \ {w}
  /\ UNCHANGED <<hash, config, ring, server, gwClosed, req, writes, restarts,
                 acked, dead, home, refused>>

\* The operator edits the configuration, or does not, and starts the proxy
\* again; it was closed before, or killed with the requests it had.
Restart ==
  /\ restarts < MaxRestarts /\ restarts' = restarts + 1
  /\ config' \in Configs
  /\ ring' \in Rings(Points(config'))
  /\ server' = "opened" /\ gwClosed' = FALSE
  /\ req' = [c \in Clients |-> Idle]
  /\ late' = late \cup {WriteOf(c) : c \in {d \in Clients : req[d] # Idle /\ AtNode(d)}}
  /\ UNCHANGED <<hash, data, writes, history>>

Next ==
  \/ Start \/ CloseBegins \/ CloseEnds \/ ServeLate \/ Restart
  \/ \E c \in Clients :
       \/ Accept(c) \/ BodyRead(c) \/ Route(c) \/ Status(c) \/ CallEnds(c)
       \/ NodeServes(c) \/ Acknowledge(c) \/ CallFails(c) \/ AnswerTaken(c)

\* Shutdown watches the connections until they are idle, a handler that has what
\* it reads goes on, and the client of a node has a timeout.  Not so the clients of
\* the proxy: its http.Server has no timeouts, so nothing makes a body come
\* (BodyRead) or an answer be taken (AnswerTaken).
Fairness ==
  /\ WF_vars(CloseEnds /\ server = "shutdown")
  /\ \A c \in Clients :
       WF_vars(Route(c) \/ Status(c) \/ CallEnds(c) \/ CallFails(c))

Spec == Init /\ [][Next]_vars /\ Fairness

----------------------------------------------------------------------------
(* Properties                                                              *)

Numbers == 1..MaxWrites

WriteRequest == [at : {"reading", "accepted", "called", "served"}, op : {"write"},
                 left : SUBSET Nodes, key : Keys, write : Numbers, before : SUBSET (0..MaxWrites)]
ReadRequest  == [at : {"accepted", "called"}, op : {"read"}, left : SUBSET Nodes, key : Keys]
OtherRequest == [at : {"accepted", "called"}, op : {"all", "status"}, left : SUBSET Nodes]

RequestState == {Idle, Answered} \cup WriteRequest \cup ReadRequest \cup OtherRequest

LateWrite == [node : Nodes, key : Keys, write : Numbers]

TypeOK ==
  /\ hash \in Hashes /\ config \in Configs /\ ring \in Rings(Points(config))
  /\ server \in {"opened", "serving", "shutdown", "closed"}
  /\ gwClosed \in BOOLEAN /\ refused \in BOOLEAN
  /\ req \in [Clients -> RequestState]
  /\ late \subseteq LateWrite
  /\ data \in [Nodes -> [Keys -> 0..MaxWrites]]
  /\ writes \in 0..MaxWrites /\ restarts \in 0..MaxRestarts
  /\ acked \in [Keys -> SUBSET (0..MaxWrites)] /\ dead \in [Keys -> SUBSET (0..MaxWrites)]
  /\ home \in [Keys -> Nodes] /\ served \subseteq Numbers

\* What a read finds is never a write that a later write, begun after it was
\* acknowledged and acknowledged in turn, replaced: concurrent clients, given
\* up writes served late and restarts of the proxy included.  It holds for a
\* key routed to the node that took its last acknowledged write: a new ring
\* moves keys and no data (docs/DEMO.md, "No shard migration").
AckedVisible ==
  \A k \in Keys : NodeForKey(ring, k) = home[k] => data[home[k]][k] \notin dead[k]

\* A write is served once, by one node: the client never sends it again, so a
\* given-up write cannot come back over a later one it has yielded to.
ServedOnce ==
  [][\A n \in Nodes, k \in Keys :
       data'[n][k] # data[n][k] => data'[n][k] \notin served]_vars

Changed == {n \in DOMAIN config \cup DOMAIN config' :
              ~(n \in DOMAIN config \cap DOMAIN config' /\ config[n] = config'[n])}

\* When the configuration changes, a key leaves its node only if that node, or
\* the one it goes to, is one that was removed, added or given another weight,
\* as PlanManualRebalance predicts; when nodes are only removed, the keys that
\* SimulateFailure calls affected are those that go to another node, and none
\* is moved besides.  (Unless two nodes have points of the same hash.)
MovesAsPlanned ==
  [][config' # config /\ Untied(Points(config)) =>
       LET plan    == PlanManualRebalance(ring, ring')
           removed == Changed \cap DOMAIN config
           added   == Restrict(config', Changed \cap DOMAIN config')
           impact  == SimulateFailure(ring, ring', removed)
       IN  /\ Planned(config, removed, added) = config'
           /\ \A k \in Keys : plan[k].moved =>
                plan[k].from \in removed \/ plan[k].to \in DOMAIN added
           /\ added = <<>> =>
                \A k \in Keys : impact[k].affected = plan[k].moved /\ ~impact[k].moved]_vars

\* A request the proxy accepted is never answered ErrClosed: Close lets every
\* handler end before it closes the gateway.
NoneRefused == ~refused

\* If Close does not return, then for good some request waits either for the s.mu
\* that Close holds while Shutdown waits for the request (GET /status), or for its
\* client: the rest of a body, or an answer nobody takes.
CloseReturns ==
  <>[](server = "shutdown") => <>[](\E c \in Clients : Holds(c) \/ WaitsForClient(c))

----------------------------------------------------------------------------
(* The invariant that makes these inductive                                *)

\* The gateway is closed when, and only when, no request is left and none can
\* come.
ClosedInv ==
  /\ gwClosed <=> server = "closed"
  /\ gwClosed => \A c \in Clients : req[c] = Idle

Writing == {c \in Clients : req[c] # Idle /\ req[c].op = "write"}

\* A number names one write: no two requests have it, nor a request and a late
\* write, nor two late writes, and none of those a node has yet to serve is among
\* the served ones.
NumbersInv ==
  /\ served \subseteq 1..writes
  /\ \A c \in Writing : /\ req[c].write <= writes
                        /\ req[c].write \in served <=> req[c].at = "served"
  /\ \A c, d \in Writing : req[c].write = req[d].write => c = d
  /\ \A w \in late : w.write <= writes /\ w.write \notin served
  /\ \A c \in Writing, w \in late : req[c].write # w.write
  /\ \A v, w \in late : v.write = w.write => v = w

\* Acknowledged writes were served, and a write that an acknowledged one may
\* replace was acknowledged when that one began.
AckedInv ==
  /\ \A k \in Keys : acked[k] \subseteq served \cup {0} /\ dead[k] \subseteq acked[k]
  /\ \A c \in Writing : req[c].before \subseteq acked[req[c].key]

\* The node that took the last acknowledged write of a key holds none that was
\* replaced; nor does the node that has served the write a client still waits
\* for, and that write's own acknowledgement will not make it one.
HeldInv ==
  /\ \A k \in Keys : data[home[k]][k] \notin dead[k]
  /\ \A c \in Writing : req[c].at = "served" =>
       LET k == req[c].key
           n == NodeForKey(ring, k)
       IN  data[n][k] \notin dead[k] \cup req[c].before

IInv == TypeOK /\ NoneRefused /\ ClosedInv /\ NumbersInv /\ AckedInv /\ HeldInv
=============================================================================
