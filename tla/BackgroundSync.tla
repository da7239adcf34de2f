--------------------------- MODULE BackgroundSync ---------------------------
(***************************************************************************)
(* The background sync worker of a follower (internal/node                 *)
(* background_sync.go) and those who start, stop and replace it: Start,    *)
(* Close and the promotion handler of server.go and handlers.go.           *)
(*                                                                         *)
(* What a sync does to the data is ReplicaSync's and Cutover's subject;    *)
(* here it is a call that takes the syncInProgress flag and ends well, or  *)
(* fails, or meets a replication gap.  Close is the only one that holds    *)
(* s.mu while it waits for something ("muHeld"); every other use of s.mu   *)
(* is a step that can only be taken while Close does not hold it.          *)
(* Durations count only where they are compared: the backoffs.             *)
(* The names of its specification (WorkerInit, ...) are its own, as it is  *)
(* extended together with ReplicaSync.                                     *)
(***************************************************************************)
EXTENDS Integers

CONSTANTS
  Handlers,        \* concurrent requests of POST /replication/sync
  Worker, Nobody,  \* the other values syncInProgress may name
  InitialBackoff, MaxBackoff,
  MaxFailures,     \* bound: syncs that fail
  MaxGaps,         \* bound: syncs that meet a replication gap
  MaxPromotions    \* bound: requests of POST /replication/promote

ASSUME BackgroundAssumption ==
  /\ {Worker, Nobody} \cap Handlers = {} /\ Worker # Nobody
  /\ InitialBackoff \in Nat \ {0} /\ MaxBackoff \in Nat
  /\ InitialBackoff <= MaxBackoff
  /\ {MaxFailures, MaxGaps, MaxPromotions} \subseteq Nat

VARIABLES
  started,   \* s.started
  closing,   \* Close: "no", "marked", "stopping", "shutdown" or "done"
  muHeld,    \* Close holds s.mu
  role,      \* s.runtimeRole: "follower", then "primary" when promoted
  barrier,   \* s.promotionBarrier
  promote,   \* how far handlePromote is: see Stages
  record,    \* the promotion record is on disk
  worker,    \* *s.bgWorker
  handler,   \* step of each sync request
  busy,      \* who set s.syncInProgress
  spent      \* how much of each bound is used up

workerVars == <<started, closing, muHeld, role, barrier, promote, record, worker, handler, busy,
                spent>>

closed == closing # "no"

\* A request of POST /replication/promote: its body is read, it is checked, the
\* barrier is up, the worker was told to stop, replicationMutationMu is held,
\* the second checks are done, the record is written; the handler has returned.
Stages == {"idle", "reading", "entered", "barred", "stopping", "locked", "committing",
           "committed", "answering"}
Promoting  == promote \notin {"idle", "reading", "entered", "answering"}
HasJournal == promote \in {"locked", "committing", "committed"}

\* "gen" numbers the workers; "failures" is ConsecutiveFailures.
NewWorker(gen) == [gen |-> gen, pc |-> "new", status |-> "disabled",
                   cancelled |-> FALSE, backoff |-> 0, failures |-> 0]

Gone(w) == w.pc \in {"new", "gone"}

UseUp(bound, max) == spent[bound] < max /\ spent' = [spent EXCEPT ![bound] = @ + 1]

----------------------------------------------------------------------------
(* The life of a worker                                                    *)

Launched(w) == [w EXCEPT !.pc = "launched", !.status = "starting"]

\* Faulty variant: the context is not cancelled.
StoppedUncancelled(w) ==
  IF w.pc = "new" THEN w
  ELSE [w EXCEPT !.status = IF @ \in {"blocked", "stopped"} THEN @ ELSE "stopping"]

\* stop up to its wait: a worker that was never started is left alone.
Stopped(w) ==
  IF w.pc = "new" THEN w
  ELSE [w EXCEPT !.cancelled = TRUE,
          !.status = IF @ \in {"blocked", "stopped"} THEN @ ELSE "stopping"]

\* Faulty variant: the timer is never set again.
WorkerCallsOnce ==
  /\ worker.pc = "launched"
  /\ worker' = [worker EXCEPT !.pc = "calling", !.status = "running"]
  /\ UNCHANGED <<started, closing, muHeld, role, barrier, promote, record, handler, busy, spent>>

\* run: the first sync needs no wait, the next ones wait for the timer.
WorkerCalls ==
  /\ worker.pc = "launched" \/ (worker.pc = "waiting" /\ ~worker.cancelled)
  /\ worker' = [worker EXCEPT !.pc = "calling", !.status = "running"]
  /\ UNCHANGED <<started, closing, muHeld, role, barrier, promote, record, handler, busy, spent>>

NextBackoff(b) ==
  LET next == IF b = 0 THEN InitialBackoff ELSE 2 * b
  IN  IF next > MaxBackoff THEN MaxBackoff ELSE next

\* doSync settles the result of a call, and run chooses what to wait for.
Wait(w, backoff) ==
  [w EXCEPT !.pc = "waiting", !.backoff = backoff,
            !.status = IF backoff > 0 THEN "backing_off" ELSE "running"]

Settle(w, result) ==
  CASE result = "busy" -> Wait(w, 0)
    [] result # "busy" /\ w.cancelled -> Wait(w, w.backoff)
    [] result = "gap" /\ ~w.cancelled ->
         [w EXCEPT !.pc = "blocked", !.status = "blocked", !.failures = @ + 1,
                   !.backoff = 0]
    [] result = "failed" /\ ~w.cancelled ->
         Wait([w EXCEPT !.failures = @ + 1], NextBackoff(w.backoff))
    [] result = "ok" /\ ~w.cancelled -> Wait([w EXCEPT !.failures = 0], 0)

\* Faulty variant: the status is left as it was.
WorkerExitsSilently ==
  /\ worker.pc \in {"waiting", "blocked"} /\ worker.cancelled
  /\ worker' = [worker EXCEPT !.pc = "gone"]
  /\ UNCHANGED <<started, closing, muHeld, role, barrier, promote, record, handler, busy, spent>>

\* The context is done: the goroutine ends.
WorkerExits ==
  /\ worker.pc \in {"waiting", "blocked"} /\ worker.cancelled
  /\ worker' = [worker EXCEPT !.pc = "gone", !.status = "stopped"]
  /\ UNCHANGED <<started, closing, muHeld, role, barrier, promote, record, handler, busy, spent>>

----------------------------------------------------------------------------
(* SyncFromPrimary, called by the worker and by requests                   *)

Refused == barrier \/ closed \/ role # "follower"

\* What the pull and the apply come to.  A cancelled context fails the pull.
Outcome(result, cancelled) ==
  \/ result = "ok" /\ UNCHANGED spent
  \/ result = "failed" /\ (IF cancelled THEN UNCHANGED spent ELSE UseUp("failures", MaxFailures))
  \/ result = "gap" /\ UseUp("gaps", MaxGaps)

\* Barrier, role and closed, then the flag.
WorkerEnters ==
  /\ worker.pc = "calling" /\ ~muHeld
  /\ IF Refused THEN /\ Outcome("failed", worker.cancelled)
                     /\ worker' = Settle(worker, "failed") /\ UNCHANGED busy
     ELSE IF busy # Nobody THEN worker' = Settle(worker, "busy") /\ UNCHANGED <<busy, spent>>
     ELSE worker' = [worker EXCEPT !.pc = "pulling"] /\ busy' = Worker /\ UNCHANGED spent
  /\ UNCHANGED <<started, closing, muHeld, role, barrier, promote, record, handler>>

\* The result is put together with a look at s.mu, and the flag is cleared.
WorkerSyncEnds ==
  /\ worker.pc = "pulling" /\ ~muHeld
  /\ \E result \in {"ok", "failed", "gap"} :
       Outcome(result, worker.cancelled) /\ worker' = Settle(worker, result)
  /\ busy' = Nobody
  /\ UNCHANGED <<started, closing, muHeld, role, barrier, promote, record, handler>>

HandlerGoto(h, pc) ==
  /\ handler' = [handler EXCEPT ![h] = pc]
  /\ UNCHANGED <<started, closing, muHeld, role, barrier, promote, record, worker>>

\* The HTTP server takes requests until Shutdown closes its listener.
Serving == started /\ closing \notin {"shutdown", "done"}

HandlerArrives(h) ==
  /\ Serving /\ handler[h] = "idle"
  /\ HandlerGoto(h, "calling") /\ UNCHANGED <<busy, spent>>

HandlerEnters(h) ==
  /\ handler[h] = "calling" /\ ~muHeld
  /\ IF Refused \/ busy # Nobody THEN HandlerGoto(h, "answering") /\ UNCHANGED busy
     ELSE HandlerGoto(h, "pulling") /\ busy' = h
  /\ UNCHANGED spent

HandlerSyncEnds(h) ==
  /\ handler[h] = "pulling" /\ ~muHeld
  /\ busy' = Nobody
  /\ HandlerGoto(h, "answering") /\ UNCHANGED spent

\* The client has taken the answer, and the connection is idle again.
HandlerAnswered(h) ==
  /\ handler[h] = "answering"
  /\ HandlerGoto(h, "idle") /\ UNCHANGED <<busy, spent>>

----------------------------------------------------------------------------
(* Start, Close and promotion                                              *)

Start ==
  /\ ~started /\ ~closed
  /\ started' = TRUE
  /\ worker' = IF worker.pc = "new" THEN Launched(worker) ELSE worker
  /\ UNCHANGED <<closing, muHeld, role, barrier, promote, record, handler, busy, spent>>

CloseBegins ==
  /\ ~closed
  /\ closing' = "marked"
  /\ UNCHANGED <<started, muHeld, role, barrier, promote, record, worker, handler, busy, spent>>

CloseStops ==
  /\ closing = "marked"
  /\ closing' = "stopping"
  /\ worker' = Stopped(worker)
  /\ UNCHANGED <<started, muHeld, role, barrier, promote, record, handler, busy, spent>>

\* Faulty variant: nobody waits for the worker.
CloseLocksAtOnce ==
  /\ closing = "stopping"
  /\ closing' = "shutdown" /\ muHeld' = TRUE
  /\ UNCHANGED <<started, role, barrier, promote, record, worker, handler, busy, spent>>

\* The worker has gone; s.mu is taken again, and kept.
CloseLocks ==
  /\ closing = "stopping" /\ Gone(worker)
  /\ closing' = "shutdown" /\ muHeld' = TRUE
  /\ UNCHANGED <<started, role, barrier, promote, record, worker, handler, busy, spent>>

InFlight == promote # "idle" \/ \E h \in Handlers : handler[h] # "idle"

\* Shutdown waits for the requests in flight; then journal and engine close.
CloseEnds ==
  /\ closing = "shutdown" /\ ~InFlight
  /\ closing' = "done" /\ muHeld' = FALSE
  /\ UNCHANGED <<started, role, barrier, promote, record, worker, handler, busy, spent>>

PromoteGoto(pc) == promote' = pc /\ UNCHANGED <<started, closing, muHeld, handler, busy>>

PromoteArrives ==
  /\ Serving /\ promote = "idle" /\ UseUp("promotions", MaxPromotions)
  /\ PromoteGoto("reading") /\ UNCHANGED <<role, barrier, record, worker>>

\* The client's JSON has come, or there is none to decode.
PromoteReads ==
  /\ promote = "reading"
  /\ \E pc \in {"entered", "answering"} : PromoteGoto(pc)
  /\ UNCHANGED <<role, barrier, record, worker, spent>>

\* The client has taken the answer.
PromoteAnswered ==
  /\ promote = "answering"
  /\ PromoteGoto("idle") /\ UNCHANGED <<role, barrier, record, worker, spent>>

\* The first checks, which may refuse the quiesce record; a node that has a
\* promotion record and is a follower is "promoting", and refuses as well.
\* The barrier goes up, and then the worker is told to stop.
PromoteBegins ==
  /\ promote = "entered" /\ ~muHeld
  /\ \/ PromoteGoto("answering") /\ UNCHANGED barrier
     \/ /\ ~closed /\ role = "follower" /\ ~record
        /\ PromoteGoto("barred") /\ barrier' = TRUE
  /\ UNCHANGED <<role, record, worker, spent>>

PromoteStops ==
  /\ promote = "barred" /\ ~muHeld
  /\ PromoteGoto("stopping") /\ worker' = Stopped(worker)
  /\ UNCHANGED <<role, barrier, record, spent>>

\* stop returns, and no sync holds replicationMutationMu.
PromoteLocks ==
  /\ promote = "stopping" /\ Gone(worker) /\ busy = Nobody
  /\ PromoteGoto("locked") /\ UNCHANGED <<role, barrier, record, worker, spent>>

\* validatePromotionPreconditionsLocked: the last look at s.closed.
PromoteValidates ==
  /\ promote = "locked" /\ ~muHeld /\ ~closed
  /\ PromoteGoto("committing") /\ UNCHANGED <<role, barrier, record, worker, spent>>

\* executePromotion: the baseline and the record, which is the commit point.
PromoteCommits ==
  /\ promote = "committing"
  /\ PromoteGoto("committed") /\ record' = TRUE
  /\ UNCHANGED <<role, barrier, worker, spent>>

\* The journal is open; the role changes under s.mu.
PromoteSucceeds ==
  /\ promote = "committed" /\ ~muHeld
  /\ PromoteGoto("answering") /\ role' = "primary"
  /\ UNCHANGED <<barrier, record, worker, spent>>

\* The journal does not open.  Nothing is undone: the node stays a follower
\* with its barrier up and no worker, until it is started again as a primary.
PromoteFailsLate ==
  /\ promote = "committed"
  /\ PromoteGoto("answering") /\ UNCHANGED <<role, barrier, record, worker, spent>>

\* Before the commit point everything is undone.  The restart of the worker
\* (restartBackgroundWorkerAfterPromotionFailure) looks at its status only.
PromoteFails ==
  /\ promote \in {"locked", "committing"} /\ ~muHeld
  /\ PromoteGoto("answering") /\ barrier' = FALSE
  /\ worker' = IF ~closed /\ worker.status \in {"stopped", "disabled"}
               THEN Launched(NewWorker(worker.gen + 1)) ELSE worker
  /\ UNCHANGED <<role, record, spent>>

----------------------------------------------------------------------------
WorkerInit ==
  /\ started = FALSE /\ closing = "no" /\ muHeld = FALSE
  /\ role = "follower" /\ barrier = FALSE /\ promote = "idle" /\ record = FALSE
  /\ worker = NewWorker(0) /\ handler = [h \in Handlers |-> "idle"] /\ busy = Nobody
  /\ spent = [failures |-> 0, gaps |-> 0, promotions |-> 0]

WorkerStep  == WorkerCalls \/ WorkerEnters \/ WorkerSyncEnds \/ WorkerExits
HandlerStep(h) == HandlerEnters(h) \/ HandlerSyncEnds(h)
PromoteStep == PromoteBegins \/ PromoteStops \/ PromoteLocks \/ PromoteValidates
               \/ PromoteCommits \/ PromoteSucceeds \/ PromoteFails
CloseStep   == CloseStops \/ CloseLocks \/ CloseEnds

WorkerNext ==
  \/ Start \/ CloseBegins \/ CloseStep \/ WorkerStep
  \/ PromoteArrives \/ PromoteReads \/ PromoteStep \/ PromoteFailsLate \/ PromoteAnswered
  \/ \E h \in Handlers : HandlerArrives(h) \/ HandlerStep(h) \/ HandlerAnswered(h)

WorkerSpec == WorkerInit /\ [][WorkerNext]_workerVars

\* The goroutines that exist go on.  Nobody has to call Start, Close or the API,
\* send the body of a request or take its answer (the http.Server has no timeouts),
\* and opening the journal need not fail.
WorkerLiveSpec ==
  /\ WorkerSpec
  /\ WF_workerVars(WorkerStep) /\ WF_workerVars(PromoteStep) /\ WF_workerVars(CloseStep)
  /\ \A h \in Handlers : WF_workerVars(HandlerStep(h))

----------------------------------------------------------------------------
(* Properties                                                              *)

\* The types of the variables.
WorkerTypeOK ==
  /\ {started, muHeld, barrier, record} \subseteq BOOLEAN
  /\ closing \in {"no", "marked", "stopping", "shutdown", "done"}
  /\ role \in {"follower", "primary"}
  /\ promote \in Stages
  /\ worker \in [gen : 0..MaxPromotions, cancelled : BOOLEAN,
                 pc : {"new", "launched", "calling", "pulling", "waiting", "blocked", "gone"},
                 status : {"disabled", "starting", "running", "backing_off", "blocked",
                           "stopping", "stopped"},
                 backoff : 0..MaxBackoff, failures : 0..MaxFailures + MaxGaps]
  /\ handler \in [Handlers -> {"idle", "calling", "pulling", "answering"}]
  /\ busy \in Handlers \cup {Worker, Nobody}

\* An open follower that is not being promoted has its worker and takes syncs: a
\* promotion that failed gave them back, whatever state the worker was stopped
\* in.  Only one that failed after its record was written did not: then the
\* worker is gone, the barrier up, and no sync runs.
WorkerRestored ==
  started /\ ~closed /\ role = "follower" /\ ~Promoting
    => IF record THEN barrier /\ Gone(worker) /\ busy = Nobody
       ELSE ~barrier /\ ~Gone(worker) /\ ~worker.cancelled

\* When Close has closed journal and engine nobody uses them, and no worker is
\* started afterwards (BACKGROUND_REPLICATION_DESIGN.md section 5).
NothingAfterClose ==
  closing = "done" => Gone(worker) /\ busy = Nobody /\ promote = "idle"

\* If Close does not return, it is waiting for requests: it holds s.mu, every
\* worker has gone, and requests that arrived before stay in flight for good
\* (one waits for the s.mu that Close holds, or for its client).
CloseReturnsAlone ==
  <>[](closed /\ closing # "done") => <>[](muHeld /\ Gone(worker) /\ InFlight)

\* Close returns.
CloseReturns == closed ~> closing = "done"

\* A worker calls SyncFromPrimary again and again, as long as its node is an
\* open follower, no replication gap has ended its work, and no promotion failed
\* after its record was written.
KeepsSyncing ==
  []<>(worker.pc = "calling" \/ ~started \/ closed \/ role = "primary" \/ record
         \/ worker.status = "blocked")

----------------------------------------------------------------------------
(* What the invariants above rest on, step by step (ReplicaSyncProofs). *)

\* What a worker has counted was counted once for all.
CountsOK ==
  /\ spent \in [failures : 0..MaxFailures, gaps : 0..MaxGaps, promotions : 0..MaxPromotions]
  /\ worker.failures <= spent.failures + spent.gaps
  /\ worker.gen + (IF promote \in {"idle", "answering"} THEN 0 ELSE 1) <= spent.promotions

\* A worker ends only when it was told to, and is told to only by a promotion
\* that is under way or has written its record, or by Close.
WorkerOK ==
  /\ worker.pc = "new" => ~started /\ ~worker.cancelled
  /\ worker.pc = "gone" => worker.cancelled /\ worker.status = "stopped"
  /\ worker.cancelled => promote \in {"stopping", "locked", "committing"} \/ closed \/ record

\* Who has the flag is pulling.
BusyOK ==
  /\ busy = Worker => worker.pc = "pulling"
  /\ busy \in Handlers => handler[busy] = "pulling"

\* Close holds s.mu from the worker's end to its own; a promotion that has the
\* journal's lock has seen the worker go.
CloseOK ==
  /\ promote # "idle" => started
  /\ HasJournal => Gone(worker)
  /\ muHeld <=> closing = "shutdown"
  /\ closing \in {"shutdown", "done"} => Gone(worker)
  /\ closing = "done" => ~InFlight

\* The barrier is up from a promotion's first checks until it fails early; behind
\* it no sync runs once the journal's lock is taken, nor after the record.
BarrierOK ==
  /\ Promoting => barrier /\ role = "follower"
  /\ barrier => Promoting \/ record
  /\ HasJournal \/ record => busy = Nobody
  /\ role = "primary" \/ promote = "committed" => record
  /\ record => barrier /\ started /\ Gone(worker)
  /\ Promoting /\ record => promote = "committed"

\* The inductive invariant.
WorkerInv == WorkerTypeOK /\ CountsOK /\ WorkerOK /\ BusyOK /\ CloseOK /\ BarrierOK
=============================================================================
