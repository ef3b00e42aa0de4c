----------------------------- MODULE WorkerPool -----------------------------
(***************************************************************************)
(* The API pods around the generation queue: the POST /generate handlers   *)
(* that enqueue, the worker goroutines that claim, run, renew and end jobs *)
(* (internal/workers/pool.go), the lease sweeper, and the start, drain and *)
(* crash of the process that holds them (cmd/api/main.go).                 *)
(*                                                                         *)
(* A statement against the database is an action of GenerationQueue        *)
(* conjoined with what the goroutine that issued it does with the answer.  *)
(* A fault is a statement whose answer is an error; it may have taken      *)
(* effect all the same (a commit whose acknowledgement is lost).           *)
(***************************************************************************)
EXTENDS GenerationQueue

CONSTANTS
    Pod,         \* API processes
    Worker,      \* worker goroutines of all pods
    PodOf,       \* the pod of each worker and of each handler
    NoGen,       \* the job of an idle worker
    Stopping,    \* pods that may be asked to stop
    Crashing,    \* pods that may crash
    MaxLife,     \* bound on restarts of a pod
    MaxFaults,   \* bound on database faults
    MaxStalls,   \* bound on embedding calls that outlast the save deadline
    Poll,        \* FALSE when the fallback poll never comes
    Timely       \* TRUE when no heartbeat is late

OwnerOf(w, life) == <<w, life>>

(* provider_error stands for every reason a failed or panicking Run is     *)
(* reported with, but for an interrupted one.                              *)
ProviderError  == "provider_error"
ValidationLate == "validation_error_late"
ShutdownInterrupt == "shutdown_interrupted"

ASSUME PoolAssumption ==
    /\ Sweeper = Pod
    /\ PodOf \in [Worker \cup Caller -> Pod]
    /\ NoGen \notin Gen
    /\ Stopping \subseteq Pod /\ Crashing \subseteq Pod
    /\ MaxLife \in Nat /\ MaxFaults \in Nat /\ MaxStalls \in Nat
    /\ Poll \in BOOLEAN /\ Timely \in BOOLEAN
    /\ \A w \in Worker, life \in 0..MaxLife : OwnerOf(w, life) \in Owner
    /\ Reason = {ProviderError, ValidationLate, ShutdownInterrupt}

VARIABLES
    pods,    \* the processes
    work,    \* the worker goroutines
    post,    \* the POST /generate handlers
    faults,  \* database faults so far
    stalls   \* stalled embedding calls so far

pvars == <<pods, work, post, faults, stalls>>
vars  == <<qvars, pvars>>

-----------------------------------------------------------------------------
Phase == {"down", "starting", "up", "draining"}

PodState == [phase : Phase,
             life  : 0..MaxLife,
             bell  : BOOLEAN,          \* a token in doorbell
             sweeping : BOOLEAN,       \* the sweeper goroutine is alive
             swept : BOOLEAN,          \* and has swept since the last tick
             jobsCancelled : BOOLEAN]

(* Mutant: a heartbeat as long as the lease. *)
HeartbeatPerLease == LeaseTTL

HeartbeatInterval == LeaseTTL \div 3

PC == {"exited", "select", "claim", "run", "embed", "save", "complete", "mark"}

WorkState == [pc      : PC,
              gen     : Gen \cup {NoGen},
              attempt : 0..Budget,     \* attempts of the row when it was claimed
              beating : BOOLEAN,       \* the heartbeat goroutine is alive
              due     : 0..HeartbeatInterval, \* ticks until the next heartbeat
              lost    : BOOLEAN,       \* the heartbeat has cancelled the job
              clean   : BOOLEAN,       \* Run returned a result fit to save
              reason  : Reason]

At(pc) == [pc |-> pc, gen |-> NoGen, attempt |-> 0, beating |-> FALSE,
           due |-> 0, lost |-> FALSE, clean |-> FALSE,
           reason |-> ProviderError]

PoolTypeOK ==
    /\ TypeOK
    /\ pods \in [Pod -> PodState]
    /\ work \in [Worker -> WorkState]
    /\ post \in [Caller -> {"idle", "checked", "inserted"}]
    /\ faults \in 0..MaxFaults
    /\ stalls \in 0..MaxStalls

PoolInit ==
    /\ Init
    /\ pods = [p \in Pod |-> [phase |-> "starting", life |-> 0,
                              bell |-> FALSE, sweeping |-> FALSE, swept |-> FALSE,
                              jobsCancelled |-> FALSE]]
    /\ work = [w \in Worker |-> At("exited")]
    /\ post = [c \in Caller |-> "idle"]
    /\ faults = 0
    /\ stalls = 0

Pd(w) == pods[PodOf[w]]
Me(w) == OwnerOf(w, Pd(w).life)
Job(w) == work[w].gen
Cancelled(w) == work[w].lost \/ Pd(w).jobsCancelled

Goto(w, state) == work' = [work EXCEPT ![w] = state]
Ring(p) == pods' = [pods EXCEPT ![p].bell = TRUE]
Fault == faults < MaxFaults /\ faults' = faults + 1
NoFault == UNCHANGED faults

-----------------------------------------------------------------------------
(* POST /generate: the shutdown check, the capped enqueue, the doorbell.   *)

PostCheck(c) ==
    /\ post[c] = "idle"
    /\ pods[PodOf[c]].phase = "up"
    /\ post' = [post EXCEPT ![c] = "checked"]
    /\ UNCHANGED <<qvars, pods, work, faults, stalls>>

PostEnqueue(c) ==
    /\ post[c] = "checked"
    /\ \/ /\ EnqueueLock(c)
          /\ UNCHANGED <<post, faults>>
       \/ /\ EnqueueCount(c)
          /\ post' = [post EXCEPT ![c] = IF enq'[c] = "idle" THEN "idle" ELSE @]
          /\ NoFault
       \/ /\ \E g \in Gen : EnqueueInsert(c, g)
          /\ post' = [post EXCEPT ![c] = "inserted"]
          /\ NoFault
    /\ UNCHANGED <<pods, work, stalls>>

(* The enqueue returns an error: nothing was inserted, or the commit was   *)
(* and nobody rings.                                                       *)
PostError(c) ==
    /\ post[c] = "checked"
    /\ Fault
    /\ Disconnect({c}, {}) \/ \E g \in Gen : EnqueueInsert(c, g)
    /\ post' = [post EXCEPT ![c] = "idle"]
    /\ UNCHANGED <<pods, work, stalls>>

PostNotify(c) ==
    /\ post[c] = "inserted"
    /\ Ring(PodOf[c])
    /\ post' = [post EXCEPT ![c] = "idle"]
    /\ UNCHANGED <<qvars, work, faults, stalls>>

-----------------------------------------------------------------------------
(* runWorker.  The select takes any of its ready cases, the end of the     *)
(* poll context being only one of them.                                    *)

WakeDone(w) ==
    /\ work[w].pc = "select"
    /\ Pd(w).phase = "draining"
    /\ Goto(w, At("exited"))
    /\ UNCHANGED <<qvars, pods, post, faults, stalls>>

Wake(w) ==
    /\ work[w].pc = "select"
    /\ \/ /\ Pd(w).bell
          /\ pods' = [pods EXCEPT ![PodOf[w]].bell = FALSE]
          /\ Goto(w, At("claim"))
       \/ /\ Poll
          /\ Goto(w, At("claim"))
          /\ UNCHANGED pods
    /\ UNCHANGED <<qvars, post, faults, stalls>>

Claimed(w, g) ==
    [At("run") EXCEPT !.gen = g, !.attempt = gens[g].attempts + 1,
                      !.beating = TRUE,
                      !.due = IF Timely THEN HeartbeatInterval ELSE 0]

(* Mutant: a worker that found a job does not pass the bell on. *)
ClaimSilently(w) ==
    /\ work[w].pc = "claim"
    /\ ~Pd(w).jobsCancelled
    /\ \/ \E g \in Gen : ClaimNext(Me(w), g) /\ Goto(w, Claimed(w, g))
       \/ With("queued") = {} /\ Goto(w, At("select")) /\ UNCHANGED qvars
    /\ UNCHANGED <<pods, post, faults, stalls>>

Claim(w) ==
    /\ work[w].pc = "claim"
    /\ ~Pd(w).jobsCancelled
    /\ \/ \E g \in Gen : /\ ClaimNext(Me(w), g)
                         /\ Goto(w, Claimed(w, g))
                         /\ Ring(PodOf[w])
       \/ /\ With("queued") = {}
          /\ Goto(w, At("select"))
          /\ UNCHANGED <<qvars, pods>>
    /\ UNCHANGED <<post, faults, stalls>>

(* jobCtx is cancelled: ClaimNext returns context.Canceled.                *)
ClaimCancelled(w) ==
    /\ work[w].pc = "claim"
    /\ Pd(w).jobsCancelled
    /\ Goto(w, At("exited"))
    /\ UNCHANGED <<qvars, pods, post, faults, stalls>>

(* Any other error, or a cancellation while the statement is under way.  A *)
(* claim that took effect all the same leaves a running row nobody works   *)
(* on.                                                                     *)
ClaimError(w) ==
    /\ work[w].pc = "claim"
    /\ Fault
    /\ UNCHANGED qvars \/ \E g \in Gen : ClaimNext(Me(w), g)
    /\ Goto(w, At(IF Pd(w).jobsCancelled THEN "exited" ELSE "select"))
    /\ UNCHANGED <<pods, post, stalls>>

-----------------------------------------------------------------------------
(* heartbeat: a renewal, the loss of the lease, or an error it ignores.    *)
Heartbeat(w) ==
    /\ work[w].beating
    /\ Timely => work[w].due = 0
    /\ \/ /\ RenewLease(Me(w), Job(w))
          /\ Goto(w, [work[w] EXCEPT !.due = IF Timely THEN HeartbeatInterval ELSE 0])
          /\ NoFault
       \/ /\ ~Holds(Job(w), Me(w))
          /\ Goto(w, [work[w] EXCEPT !.lost = TRUE, !.beating = FALSE, !.due = 0])
          /\ UNCHANGED <<qvars, faults>>
       \/ /\ Fault
          /\ UNCHANGED qvars
          /\ Goto(w, [work[w] EXCEPT !.due = IF Timely THEN HeartbeatInterval ELSE 0])
    /\ UNCHANGED <<pods, post, stalls>>

HeartbeatStops(w) ==
    /\ work[w].beating
    /\ Pd(w).jobsCancelled
    /\ Goto(w, [work[w] EXCEPT !.beating = FALSE, !.due = 0])
    /\ UNCHANGED <<qvars, pods, post, faults, stalls>>

-----------------------------------------------------------------------------
(* runJob.                                                                 *)

(* request_json does not decode: the row is failed while the heartbeat     *)
(* still runs.                                                             *)
Malformed(w) ==
    /\ work[w].pc = "run"
    /\ Goto(w, [work[w] EXCEPT !.pc = "mark", !.reason = ValidationLate])
    /\ UNCHANGED <<qvars, pods, post, faults, stalls>>

(* Run has returned, or panicked; the heartbeat is stopped and awaited.    *)
Returned(w, pc) ==
    [work[w] EXCEPT !.pc = pc, !.beating = FALSE, !.due = 0]

RunFails(w) ==
    /\ work[w].pc = "run"
    /\ \E reason \in {ProviderError}
                 \cup IF Cancelled(w) /\ Pd(w).phase = "draining"
                      THEN {ShutdownInterrupt} ELSE {} :
         Goto(w, [Returned(w, "mark") EXCEPT !.reason = reason])
    /\ UNCHANGED <<qvars, pods, post, faults, stalls>>

(* A result; it is clean when SaveAndComplete will not refuse its gates.   *)
RunSucceeds(w) ==
    /\ work[w].pc = "run"
    /\ \E clean \in BOOLEAN :
         Goto(w, [Returned(w, IF Persist THEN "embed" ELSE "complete")
                  EXCEPT !.clean = clean, !.reason = ValidationLate])
    /\ UNCHANGED <<qvars, pods, post, faults, stalls>>

(* The document is embedded, or that fails and the save goes on without.   *)
Embed(w) ==
    /\ work[w].pc = "embed"
    /\ Goto(w, [work[w] EXCEPT !.pc = "save"])
    /\ UNCHANGED <<qvars, pods, post, faults, stalls>>

(* The embedding call shares the deadline of the save and may wait longer: *)
(* SaveAndComplete then starts with a context that is already done.        *)
EmbedStalls(w) ==
    /\ work[w].pc = "embed"
    /\ stalls < MaxStalls
    /\ stalls' = stalls + 1
    /\ Goto(w, [work[w] EXCEPT !.pc = "mark"])
    /\ UNCHANGED <<qvars, pods, post, faults>>

Save(w) ==
    /\ work[w].pc = "save"
    /\ \/ /\ work[w].clean
          /\ SaveAndComplete(Me(w), Job(w))
          /\ Goto(w, At("select"))
          /\ NoFault
       \/ /\ ~work[w].clean \/ ~Holds(Job(w), Me(w))
          /\ Goto(w, [work[w] EXCEPT !.pc = "mark"])
          /\ UNCHANGED <<qvars, faults>>
       \/ /\ Fault
          /\ \/ UNCHANGED qvars
             \/ work[w].clean /\ SaveAndComplete(Me(w), Job(w))
          /\ Goto(w, [work[w] EXCEPT !.pc = "mark"])
    /\ UNCHANGED <<pods, post, stalls>>

(* The MarkFailed or MarkCompleted that ends the job; the write uses a     *)
(* context of its own, so a cancelled job still reports.  An error, or a   *)
(* row that is no longer held, ends the job all the same.                  *)
EndJob(w, pc, statement) ==
    /\ work[w].pc = pc
    /\ \/ statement /\ NoFault
       \/ ~Holds(Job(w), Me(w)) /\ UNCHANGED <<qvars, faults>>
       \/ Fault /\ (statement \/ UNCHANGED qvars)
    /\ Goto(w, At("select"))
    /\ UNCHANGED <<pods, post, stalls>>

(* Mutant: the write that reports the failure runs on the job's context. *)
MarkOnJobContext(w) ==
    IF Cancelled(w)
    THEN /\ work[w].pc = "mark"
         /\ Goto(w, At("select"))
         /\ UNCHANGED <<qvars, pods, post, faults, stalls>>
    ELSE EndJob(w, "mark", MarkFailed(Me(w), Job(w), work[w].reason))

(* Mutant: that write is not fenced. *)
MarkUnfenced(w) ==
    /\ work[w].pc = "mark"
    /\ gens' = [gens EXCEPT ![Job(w)] = Ended(@, "failed", work[w].reason)]
    /\ Goto(w, At("select"))
    /\ UNCHANGED <<saved, accepted, enq, sweep, pods, post, faults, stalls>>

Mark(w) == EndJob(w, "mark", MarkFailed(Me(w), Job(w), work[w].reason))

Complete(w) == EndJob(w, "complete", MarkCompleted(Me(w), Job(w)))

-----------------------------------------------------------------------------
(* The process: startup recovery, sweeps, drain, exit, crash.              *)

StartPool(p) ==
    /\ pods' = [pods EXCEPT ![p].phase = "up", ![p].bell = TRUE,
                            ![p].sweeping = TRUE]
    /\ work' = [w \in Worker |-> IF PodOf[w] = p THEN At("select") ELSE work[w]]

(* Mutant: leases are recovered at startup only. *)
SweepAtStart(p) ==
    /\ pods[p].phase = "starting"
    /\ RecoverRequeue(p)
    /\ UNCHANGED <<pods, work, post, faults, stalls>>

(* The first recovery of a life is the one run() makes before it starts    *)
(* the pool, and run() gives up when that fails; the later ones are the    *)
(* sweeper's.  A tick is no longer than the sweep interval.                *)
SweepBegin(p) ==
    /\ \/ /\ pods[p].phase = "starting"
          /\ UNCHANGED pods
       \/ /\ pods[p].sweeping
          /\ ~pods[p].swept
          /\ pods' = [pods EXCEPT ![p].swept = TRUE]
    /\ RecoverRequeue(p)
    /\ UNCHANGED <<work, post, faults, stalls>>

SweepCommit(p) ==
    /\ RecoverFail(p)
    /\ IF pods[p].phase = "starting" THEN StartPool(p) ELSE UNCHANGED <<pods, work>>
    /\ UNCHANGED <<post, faults, stalls>>

SweepError(p) ==
    /\ sweep[p].open
    /\ Fault
    /\ Disconnect({}, {p})
    /\ pods' = [pods EXCEPT ![p].phase = IF @ = "starting" THEN "down" ELSE @]
    /\ UNCHANGED <<work, post, stalls>>

(* Mutant: the sweeper's context is not the one a shutdown cancels. *)
SweeperOutlives(p) ==
    /\ pods[p].sweeping
    /\ pods[p].phase = "down"
    /\ pods' = [pods EXCEPT ![p].sweeping = FALSE]
    /\ UNCHANGED <<qvars, work, post, faults, stalls>>

SweeperStops(p) ==
    /\ pods[p].sweeping
    /\ pods[p].phase = "draining"
    /\ ~sweep[p].open
    /\ pods' = [pods EXCEPT ![p].sweeping = FALSE]
    /\ UNCHANGED <<qvars, work, post, faults, stalls>>

(* SIGTERM.  The last life of a pod is not asked to stop.                  *)
Shutdown(p) ==
    /\ p \in Stopping
    /\ pods[p].phase = "up"
    /\ pods[p].life < MaxLife
    /\ pods' = [pods EXCEPT ![p].phase = "draining"]
    /\ UNCHANGED <<qvars, work, post, faults, stalls>>

Drained(p) == /\ \A w \in Worker : PodOf[w] = p => work[w].pc = "exited"
              /\ ~pods[p].sweeping

ShutdownTimeout(p) ==
    /\ pods[p].phase = "draining"
    /\ ~pods[p].jobsCancelled
    /\ ~Drained(p)
    /\ pods' = [pods EXCEPT ![p].jobsCancelled = TRUE]
    /\ UNCHANGED <<qvars, work, post, faults, stalls>>

Halt(p) ==
    /\ pods' = [pods EXCEPT ![p].phase = "down", ![p].bell = FALSE,
                            ![p].sweeping = FALSE,
                            ![p].swept = FALSE, ![p].jobsCancelled = FALSE]
    /\ work' = [w \in Worker |-> IF PodOf[w] = p THEN At("exited") ELSE work[w]]
    /\ post' = [c \in Caller |-> IF PodOf[c] = p THEN "idle" ELSE post[c]]
    /\ Disconnect({c \in Caller : PodOf[c] = p}, {p})
    /\ UNCHANGED <<faults, stalls>>

(* All goroutines of the pool have returned; handlers still at work are    *)
(* given their grace period or cut off.                                    *)
Exit(p) ==
    /\ pods[p].phase = "draining"
    /\ Drained(p)
    /\ Halt(p)

Crash(p) ==
    /\ p \in Crashing
    /\ pods[p].phase # "down"
    /\ pods[p].life < MaxLife
    /\ Halt(p)

(* A start that failed may be retried within the same life: it owns no row *)
(* yet.                                                                    *)
Boot(p) ==
    /\ pods[p].phase = "down"
    /\ pods' = [pods EXCEPT ![p].phase = "starting",
                            ![p].life = IF @ < MaxLife THEN @ + 1 ELSE @]
    /\ UNCHANGED <<qvars, work, post, faults, stalls>>

PoolTick ==
    /\ Tick
    /\ \A w \in Worker : Timely /\ work[w].beating => work[w].due > 0
    /\ work' = [w \in Worker |->
                  IF work[w].due > 0 THEN [work[w] EXCEPT !.due = @ - 1] ELSE work[w]]
    /\ pods' = [p \in Pod |-> [pods[p] EXCEPT !.swept = FALSE]]
    /\ UNCHANGED <<post, faults, stalls>>

-----------------------------------------------------------------------------
HandlerStep(c) == PostEnqueue(c) \/ PostNotify(c)
RunStep(w)  == RunFails(w) \/ RunSucceeds(w)
LoopStep(w) == \/ WakeDone(w) \/ Wake(w) \/ Claim(w) \/ ClaimCancelled(w)
               \/ Embed(w) \/ Save(w) \/ Mark(w) \/ Complete(w)
SweepStep(p) == SweepBegin(p) \/ SweepCommit(p)
FaultStep == \/ \E c \in Caller : PostError(c)
             \/ \E w \in Worker : ClaimError(w) \/ EmbedStalls(w) \/ Malformed(w)
             \/ \E p \in Pod : SweepError(p) \/ Crash(p)

PoolNext ==
    \/ \E c \in Caller : PostCheck(c) \/ HandlerStep(c)
    \/ \E w \in Worker : LoopStep(w) \/ RunStep(w)
                       \/ Heartbeat(w) \/ HeartbeatStops(w)
    \/ \E p \in Pod : \/ SweepStep(p) \/ SweeperStops(p) \/ Boot(p) \/ Exit(p)
                      \/ Shutdown(p) \/ ShutdownTimeout(p)
    \/ FaultStep
    \/ PoolTick

PoolSpec == PoolInit /\ [][PoolNext]_vars

(* Go schedules every goroutine and picks among the ready cases of a       *)
(* select at random; Run returns, since iterations and calls are bounded;  *)
(* a stopped pod is started again; the clock advances.                     *)
Fairness ==
    /\ \A c \in Caller : WF_vars(HandlerStep(c))
    /\ \A w \in Worker : /\ WF_vars(LoopStep(w))
                         /\ WF_vars(RunStep(w))
                         /\ SF_vars(WakeDone(w))
    /\ \A p \in Pod : /\ WF_vars(SweepStep(p))
                      /\ SF_vars(SweeperStops(p))
                      /\ WF_vars(ShutdownTimeout(p))
                      /\ WF_vars(Exit(p))
                      /\ WF_vars(Boot(p))
    /\ WF_vars(PoolTick)

FairPoolSpec == PoolSpec /\ Fairness

-----------------------------------------------------------------------------
(* Properties.                                                             *)

(* What the goroutines and the process agree on: a worker has a job        *)
(* exactly between its claim and its last write, no worker is alive in a   *)
(* process that is not, and only a drain cancels the jobs.                 *)
Idle == {"exited", "select", "claim"}

ControlInv ==
    /\ \A w \in Worker :
          /\ IF work[w].pc \in Idle THEN work[w] = At(work[w].pc) ELSE Job(w) \in Gen
          /\ Pd(w).phase \in {"down", "starting"} => work[w].pc = "exited"
    /\ \A p \in Pod : pods[p].jobsCancelled => pods[p].phase = "draining"

(* The owner column does not name the attempt: the fencing clause is       *)
(* enough because a worker has given up a job before it may claim again.   *)
FenceInv ==
    \A w \in Worker :
      work[w].pc \notin Idle /\ Holds(Job(w), Me(w))
        => gens[Job(w)].attempts = work[w].attempt

(* While the heartbeat is on time a lease has lost no more of its length   *)
(* than the time since the last beat and one error of the clock.           *)
LeaseInv ==
    Timely /\ faults = 0 =>
      \A w \in Worker :
        work[w].beating /\ Holds(Job(w), Me(w))
          => gens[Job(w)].lease >= LeaseTTL - Lag - (HeartbeatInterval - work[w].due)

(* A running row no worker is at work on was left so by a fault, when no   *)
(* process crashes.                                                        *)
Strays == {g \in With("running") :
             \A w \in Worker : Job(w) = g => ~Holds(g, Me(w))}

StrayInv == Crashing = {} => Cardinality(Strays) <= faults

PoolInv == PoolTypeOK /\ QueueInv /\ ControlInv /\ FenceInv /\ LeaseInv /\ StrayInv

(* The pool uses the tables only through the statements of the queue, so   *)
(* what holds of the queue under any clients holds under these.            *)
ImplementsQueue == Spec

(* A generation that got into the queue ends, completed or failed, through *)
(* any crash, restart, database error and lost wake-up: no row is left in  *)
(* queued or running forever.                                              *)
EveryGenerationEnds ==
    \A g \in Gen : gens[g].status = "queued" ~> gens[g].status \in {"completed", "failed"}

(* Fencing: the worker whose answer ends a generation is the one that made *)
(* its last claim.  A worker that was presumed dead, whose job was handed  *)
(* to another, never overwrites or stores anything.                        *)
OnlyLastClaimEnds ==
    [][\A w \in Worker :
          (/\ work[w].pc \in {"save", "complete", "mark"}
           /\ work'[w] # work[w]
           /\ gens'[Job(w)].status # gens[Job(w)].status \/ saved' # saved)
          => gens[Job(w)].attempts = work[w].attempt]_vars

(* The doorbell loses no wake-up.  With no faults and no requeues, a       *)
(* queued row in a pool that is up means that the bell is rung, that       *)
(* somebody is about to ring it, or that a worker is on its way to the     *)
(* queue: the fallback poll is never what starts a job.                    *)
NoLostWakeup ==
    faults = 0 /\ MaxAttempts = 0 /\ With("queued") # {} =>
      \A p \in Pod :
        pods[p].phase = "up" =>
           \/ pods[p].bell
           \/ \E c \in Caller : post[c] = "inserted"
           \/ \E w \in Worker : work[w].pc = "claim"

(* The bell is kept, and what the proofs rest on with it. *)
DoorbellInv == PoolInv /\ NoLostWakeup

(* Drains orphan no job.  A running row whose owner is gone, in a system   *)
(* without crashes, is the trace of a database fault (the answer to a      *)
(* claim cut off by the end of the drain is one): each leaves at most one  *)
(* row for its lease to expire, and the drain itself leaves none, since a  *)
(* job reports even when its own context is cancelled.                     *)
Orphans == {g \in With("running") :
              \A w \in Worker : Pd(w).phase = "down" \/ ~Holds(g, Me(w))}

DrainOrphansNothing == Crashing = {} => Cardinality(Orphans) <= faults

(* A drain ends. *)
DrainEnds == \A p \in Pod : pods[p].phase = "draining" ~> pods[p].phase = "down"

(* While its heartbeat is alive and on time, no clock error within bounds  *)
(* lets a recovery take a job away from a worker.                          *)
HeartbeatKeepsLease ==
    [][\A w \in Worker :
          (/\ Timely /\ faults' = 0
           /\ work[w].beating
           /\ Holds(Job(w), Me(w)))
          => gens'[Job(w)].owner = Me(w) \/ work'[w] # work[w]]_vars
=============================================================================
