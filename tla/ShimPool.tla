------------------------------ MODULE ShimPool ------------------------------
(***************************************************************************)
(* The pool of worker threads of the calc sidecar                          *)
(* (calc-sidecar/src/pool.ts).  Each thread owns a score calculator that   *)
(* keeps its state in globals; the pool hands every thread one request at  *)
(* a time, replaces threads that crash, gives up on one that keeps         *)
(* crashing, and reports whether the pod may take traffic.                 *)
(*                                                                         *)
(* The pool runs on one event loop.  An action is what happens up to the   *)
(* next await: an event (an answer, the error or exit of a thread), a      *)
(* call, or the continuation of a call that was given a slot.  Events wait *)
(* for the continuations (Quiet); calls of run() and terminate() need not. *)
(***************************************************************************)
EXTENDS Integers, Sequences, FiniteSets

CONSTANTS
    MaxSlots,     \* bound on pool workers at a time, dead ones included
    Boot,         \* the warm-up calls of the constructor, one per worker
    Request,      \* the callers of POST /score
    NoJob,        \* currentJob undefined
    NoSlot,       \* the slot of a call that has none
    MaxRecovery,  \* MAX_RECOVERY_ATTEMPTS
    MaxCrashes    \* bound on crashes of threads

Slot == 1..MaxSlots
Call == Boot \cup Request
Job  == Call \cup Slot     \* a slot as a job is the warm-up of that slot

ASSUME ShimPoolAssumption ==
    /\ MaxSlots \in Nat
    /\ IsFiniteSet(Boot) /\ Cardinality(Boot) \in 1..MaxSlots
    /\ Boot \cap Request = {} /\ Call \cap Slot = {}
    /\ NoJob \notin Job /\ NoSlot \notin Slot
    /\ MaxRecovery \in Nat /\ MaxCrashes \in Nat

VARIABLES
    slots,         \* the pool workers and their threads
    workers,       \* the slots in this.workers
    calls,         \* the calls of run()
    waiting,       \* the calls queued in acquire()
    pending,       \* the jobs in the map of that name
    recovery,      \* _recoveryInProgress
    booted,        \* the constructor's allSettled has been handled
    warmedUp,      \* _initialWarmupCompleted
    shuttingDown,
    snapshot,      \* the workers terminate() waits for
    crashes        \* crashes so far

flags == <<booted, warmedUp, shuttingDown, snapshot>>
vars  == <<slots, workers, calls, waiting, pending, recovery, flags, crashes>>

-----------------------------------------------------------------------------
(* A thread whose error event has fired still owes its exit event.         *)
SlotState == [thread   : {"none", "alive", "exiting", "stopped"},
              busy     : BOOLEAN,
              job      : Job \cup {NoJob},   \* currentJob
              attempts : 0..MaxRecovery,     \* recoveryAttempts
              inbox    : SUBSET Job,         \* posted to the thread, unanswered
              warm     : BOOLEAN]            \* the thread has answered a job

CallState == [pc   : {"idle", "waiting", "acquired", "pending", "resolved", "rejected"},
              slot : Slot \cup {NoSlot}]

TypeOK ==
    /\ slots \in [Slot -> SlotState]
    /\ workers \in SUBSET Slot
    /\ calls \in [Call -> CallState]
    /\ waiting \in Seq(Call)
    /\ pending \in SUBSET Job
    /\ recovery \in Int
    /\ booted \in BOOLEAN /\ warmedUp \in BOOLEAN /\ shuttingDown \in BOOLEAN
    /\ snapshot \in SUBSET Slot
    /\ crashes \in 0..MaxCrashes

Unused  == [thread |-> "none", busy |-> FALSE, job |-> NoJob, attempts |-> 0,
            inbox |-> {}, warm |-> FALSE]
Spawned == [Unused EXCEPT !.thread = "alive"]

(* Slots have no identity in the code; the lowest unused one is taken. *)
NextUnused(n) == /\ slots[n].thread = "none"
                 /\ \A m \in Slot : m < n => slots[m].thread # "none"

Is(pc) == [pc |-> pc, slot |-> NoSlot]
Acquired(s) == [pc |-> "acquired", slot |-> s]

BootOver == \A b \in Boot : calls[b].pc \in {"resolved", "rejected"}

(* No continuation is due. *)
Quiet == /\ \A c \in Call : calls[c].pc # "acquired"
         /\ BootOver => booted

(* Mutant: recoveries in flight do not count. *)
readyOnceWarm == ~shuttingDown /\ warmedUp

ready == ~shuttingDown /\ warmedUp /\ recovery = 0

(* The constructor: as many workers as warm-up calls, one acquired by each. *)
Init ==
    /\ LET first == CHOOSE f \in [Boot -> 1..Cardinality(Boot)] :
                      \A b, c \in Boot : f[b] = f[c] => b = c
       IN
         /\ workers = {first[b] : b \in Boot}
         /\ slots = [s \in Slot |-> IF s \in workers
                                    THEN [Spawned EXCEPT !.busy = TRUE] ELSE Unused]
         /\ calls = [c \in Call |-> IF c \in Boot THEN Acquired(first[c]) ELSE Is("idle")]
    /\ waiting = <<>>
    /\ pending = {}
    /\ recovery = 0
    /\ booted = FALSE /\ warmedUp = FALSE /\ shuttingDown = FALSE
    /\ snapshot = {}
    /\ crashes = 0

-----------------------------------------------------------------------------
(* Mutant: a released slot waits for the next call of run(). *)
ReleaseOnly(s, newSlots, newCalls) ==
    /\ slots' = [newSlots EXCEPT ![s].busy = FALSE]
    /\ calls' = newCalls
    /\ UNCHANGED waiting

(* release(): the slot goes to the first call in the queue, if any.  The   *)
(* parameters are the slots and calls as the caller has changed them.      *)
Release(s, newSlots, newCalls) ==
    IF waiting = <<>>
    THEN /\ slots' = [newSlots EXCEPT ![s].busy = FALSE]
         /\ calls' = newCalls
         /\ UNCHANGED waiting
    ELSE /\ slots' = [newSlots EXCEPT ![s].busy = TRUE]
         /\ calls' = [newCalls EXCEPT ![Head(waiting)] = Acquired(s)]
         /\ waiting' = Tail(waiting)

(* run(), up to the await of acquire(). *)
Run(c) ==
    /\ calls[c].pc \in {"idle", "resolved", "rejected"}
    /\ \/ /\ shuttingDown
          /\ calls' = [calls EXCEPT ![c] = Is("rejected")]
          /\ UNCHANGED <<slots, waiting>>
       \/ /\ ~shuttingDown
          /\ \E s \in workers :
               /\ ~slots[s].busy
               /\ slots' = [slots EXCEPT ![s].busy = TRUE]
               /\ calls' = [calls EXCEPT ![c] = Acquired(s)]
          /\ UNCHANGED waiting
       \/ /\ ~shuttingDown
          /\ \A s \in workers : slots[s].busy
          /\ calls' = [calls EXCEPT ![c] = Is("waiting")]
          /\ waiting' = Append(waiting, c)
          /\ UNCHANGED slots
    /\ UNCHANGED <<workers, pending, recovery, flags, crashes>>

(* Mutant: run() does not look at shuttingDown again after the await. *)
DispatchUnchecked(c) ==
    LET s == calls[c].slot
    IN  /\ calls[c].pc = "acquired"
        /\ slots' = [slots EXCEPT ![s].job = c, ![s].inbox = @ \cup {c}]
        /\ calls' = [calls EXCEPT ![c].pc = "pending"]
        /\ pending' = pending \cup {c}
        /\ UNCHANGED <<workers, waiting, recovery, flags, crashes>>

(* run(), from the await of acquire(). *)
Dispatch(c) ==
    LET s == calls[c].slot
    IN  /\ calls[c].pc = "acquired"
        /\ IF shuttingDown
           THEN /\ Release(s, slots, [calls EXCEPT ![c] = Is("rejected")])
                /\ UNCHANGED pending
           ELSE /\ slots' = [slots EXCEPT ![s].job = c, ![s].inbox = @ \cup {c}]
                /\ calls' = [calls EXCEPT ![c].pc = "pending"]
                /\ pending' = pending \cup {c}
                /\ UNCHANGED waiting
        /\ UNCHANGED <<workers, recovery, flags, crashes>>

(* handleMessage: the thread of s has answered a job, well or not.         *)
Answer(s) ==
    /\ Quiet
    /\ slots[s].thread = "alive"
    /\ \E j \in slots[s].inbox, ok \in BOOLEAN :
         LET known == j \in pending
         IN  /\ Release(s,
                  [slots EXCEPT ![s].job = NoJob,
                                ![s].inbox = @ \ {j},
                                ![s].warm = @ \/ ok,
                                ![s].attempts = IF known /\ j = s /\ ok THEN 0 ELSE @],
                  [c \in Call |-> IF known /\ c = j
                                  THEN Is(IF ok THEN "resolved" ELSE "rejected")
                                  ELSE calls[c]])
             /\ pending' = pending \ {j}
             /\ recovery' = IF known /\ j \in Slot THEN recovery - 1 ELSE recovery
    /\ UNCHANGED <<workers, flags, crashes>>

-----------------------------------------------------------------------------
(* The circuit breaker. *)
GivesUp(attempts) == attempts > MaxRecovery

(* spawnWorker and warmupSlot.  Mutant: the slot is not busy while it      *)
(* warms up.                                                               *)
ReplacementIdle(n, attempts) ==
    [Spawned EXCEPT !.job = n, !.inbox = {n}, !.attempts = attempts]

Replacement(n, attempts) ==
    [Spawned EXCEPT !.busy = TRUE, !.job = n, !.inbox = {n}, !.attempts = attempts]

(* handleWorkerCrash: the job is rejected, the slot dropped, and a         *)
(* replacement spawned and warmed up unless the pool is shutting down or   *)
(* the slot has used up its recoveries.                                    *)
HandleCrash(s, thread) ==
    LET lost     == {slots[s].job} \cap pending
        attempts == slots[s].attempts + 1
        dead     == [Unused EXCEPT !.thread = thread]
        settled  == recovery - Cardinality(lost \cap Slot)
    IN  /\ crashes < MaxCrashes
        /\ crashes' = crashes + 1
        /\ calls' = [c \in Call |-> IF c \in lost THEN Is("rejected") ELSE calls[c]]
        /\ \/ /\ shuttingDown \/ GivesUp(attempts)
              /\ slots' = [slots EXCEPT ![s] = dead]
              /\ workers' = workers \ {s}
              /\ pending' = pending \ lost
              /\ recovery' = settled
           \/ /\ ~shuttingDown /\ ~GivesUp(attempts)
              /\ \E n \in Slot :
                   /\ NextUnused(n)
                   /\ slots' = [slots EXCEPT ![s] = dead, ![n] = Replacement(n, attempts)]
                   /\ workers' = (workers \ {s}) \cup {n}
                   /\ pending' = (pending \ lost) \cup {n}
                   /\ recovery' = settled + 1
        /\ UNCHANGED <<waiting, flags>>

(* An uncaught exception: the error event, and later the exit event.       *)
ErrorEvent(s) ==
    /\ Quiet
    /\ slots[s].thread = "alive"
    /\ HandleCrash(s, "exiting")

(* Mutant: the exit event does not look whether the slot is still there.   *)
ExitEventAgain(s) ==
    /\ Quiet
    /\ ~shuttingDown
    /\ slots[s].thread \in {"alive", "exiting"}
    /\ HandleCrash(s, "none")

(* A thread that exits: after its error event, when the slot is already    *)
(* out of the pool, or by itself.                                          *)
ExitEvent(s) ==
    /\ Quiet
    /\ \/ /\ slots[s].thread = "exiting"
          /\ shuttingDown \/ s \notin workers
          /\ slots' = [slots EXCEPT ![s] = Unused]
          /\ UNCHANGED <<workers, calls, waiting, pending, recovery, flags, crashes>>
       \/ /\ slots[s].thread = "alive"
          /\ ~shuttingDown /\ s \in workers
          /\ HandleCrash(s, "none")

(* The constructor's allSettled. *)
BootSettled ==
    /\ ~booted
    /\ BootOver
    /\ booted' = TRUE
    /\ warmedUp' = (~shuttingDown /\ \E b \in Boot : calls[b].pc = "resolved")
    /\ UNCHANGED <<slots, workers, calls, waiting, pending, recovery,
                   shuttingDown, snapshot, crashes>>

-----------------------------------------------------------------------------
(* Mutant: the queue is left alone. *)
TerminateInFlight ==
    /\ ~shuttingDown
    /\ shuttingDown' = TRUE
    /\ snapshot' = workers
    /\ pending' = {}
    /\ calls' = [c \in Call |-> IF calls[c].pc = "pending" THEN Is("rejected") ELSE calls[c]]
    /\ recovery' = recovery - Cardinality(pending \cap Slot)
    /\ UNCHANGED <<slots, workers, waiting, booted, warmedUp, crashes>>

(* terminate(), up to the await of the threads. *)
Terminate ==
    /\ ~shuttingDown
    /\ shuttingDown' = TRUE
    /\ snapshot' = workers
    /\ waiting' = <<>>
    /\ pending' = {}
    /\ calls' = [c \in Call |-> IF calls[c].pc \in {"waiting", "pending"}
                                THEN Is("rejected") ELSE calls[c]]
    /\ recovery' = recovery - Cardinality(pending \cap Slot)
    /\ UNCHANGED <<slots, workers, booted, warmedUp, crashes>>

ThreadStops(s) ==
    /\ Quiet
    /\ s \in snapshot
    /\ slots[s].thread = "alive"
    /\ slots' = [slots EXCEPT ![s].thread = "stopped", ![s].inbox = {}]
    /\ UNCHANGED <<workers, calls, waiting, pending, recovery, flags, crashes>>

(* Every thread has stopped: workers.splice(0). *)
Terminated ==
    /\ Quiet
    /\ shuttingDown
    /\ workers # {}
    /\ \A s \in snapshot : slots[s].thread # "alive"
    /\ workers' = {}
    /\ UNCHANGED <<slots, calls, waiting, pending, recovery, flags, crashes>>

-----------------------------------------------------------------------------
Next ==
    \/ \E c \in Request : Run(c)
    \/ \E c \in Call : Dispatch(c)
    \/ \E s \in Slot : Answer(s) \/ ErrorEvent(s) \/ ExitEvent(s) \/ ThreadStops(s)
    \/ BootSettled
    \/ Terminate
    \/ Terminated

Spec == Init /\ [][Next]_vars

(* Continuations run before the next event, and no event is starved: the   *)
(* loop takes them in order, however many calls arrive in between.  A      *)
(* thread answers, since a score is a bounded computation.                 *)
Continue == BootSettled \/ \E c \in Call : Dispatch(c)

Fairness ==
    /\ WF_vars(Continue)
    /\ \A s \in Slot : SF_vars(Answer(s))
    /\ SF_vars(\E s \in Slot : ThreadStops(s))

FairSpec == Spec /\ Fairness

-----------------------------------------------------------------------------
(* Properties.                                                             *)

(* The reason for the pool: a thread is never given a request while it has *)
(* one, whether through a free slot, the queue or the warm-up that         *)
(* bypasses both, and only threads still in the pool are given any.        *)
OneJobPerThread ==
    \A s \in Slot : /\ Cardinality(slots[s].inbox) <= 1
                    /\ slots[s].inbox # {} => s \in workers

(* The threads of the pool and its list of workers: a live thread is in    *)
(* the list, and only terminate() leaves a dead one there.                 *)
WorkersInv ==
    /\ Cardinality(workers) <= Cardinality(Boot)
    /\ \A s \in Slot : /\ slots[s].thread = "alive" => s \in workers
                       /\ s \in workers => slots[s].thread = "alive" \/ shuttingDown
    /\ shuttingDown => workers \subseteq snapshot
    /\ ~shuttingDown => snapshot = {}

(* What a thread has been posted is the one job of its slot, the slot is   *)
(* busy with it, no other thread has it, and only a slot's own warm-up     *)
(* goes to it without a call.                                              *)
PostedInv ==
    \A s \in Slot :
      /\ slots[s].inbox \in {{}, {slots[s].job}}
      /\ slots[s].inbox # {} => slots[s].thread = "alive" /\ slots[s].busy
      /\ slots[s].inbox \cap Slot \subseteq {s}
      /\ \A t \in Slot : s # t => slots[s].inbox \cap slots[t].inbox = {}

(* The pending map and what refers to it: the calls, the counter of        *)
(* recoveries, and the threads until terminate() clears it.                *)
PendingInv ==
    /\ \A c \in Call : calls[c].pc = "pending" <=> c \in pending
    /\ recovery = Cardinality(pending \cap Slot)
    /\ \A j \in pending : \E s \in Slot : j \in slots[s].inbox
    /\ shuttingDown => pending = {}
    /\ ~shuttingDown =>
         \A s \in Slot : /\ slots[s].inbox \subseteq pending
                         /\ slots[s].job # NoJob => slots[s].job \in slots[s].inbox

(* A call that has been given a slot has it to itself until it goes on.    *)
AcquiredInv ==
    \A c \in Call :
      calls[c].pc = "acquired" =>
        /\ calls[c].slot \in workers
        /\ slots[calls[c].slot].busy
        /\ slots[calls[c].slot].inbox = {}
        /\ \A d \in Call : calls[d] = calls[c] => d = c

(* The queue holds each waiting call once, and nothing after terminate().  *)
WaitingInv ==
    /\ \A i \in 1..Len(waiting) : calls[waiting[i]].pc = "waiting"
    /\ \A i, k \in 1..Len(waiting) : waiting[i] = waiting[k] => i = k
    /\ \A c \in Call : calls[c].pc = "waiting" => \E i \in 1..Len(waiting) : waiting[i] = c
    /\ waiting # <<>> => ~shuttingDown /\ \A s \in workers : slots[s].busy

(* The inductive invariant of the pool: its types, and that the slots, the *)
(* calls, the queue, the pending map and the counter of recoveries, which  *)
(* different events change, agree with each other at every await.          *)
Bookkeeping == TypeOK /\ WorkersInv /\ PostedInv /\ PendingInv /\ AcquiredInv /\ WaitingInv

(* No thread has two requests, and the bookkeeping that keeps it so.       *)
ShimInv == Bookkeeping /\ OneJobPerThread

(* Every call in the pending map is with a live worker that knows it, so   *)
(* an answer or a crash will settle it: none is orphaned by a crash or by  *)
(* terminate().                                                            *)
NoOrphanedCall ==
    \A j \in pending :
      \E s \in workers : slots[s].thread = "alive" /\ slots[s].job = j /\ j \in slots[s].inbox

(* No call waits in the queue while a worker is free. *)
NoIdleWhileWaiting == waiting # <<>> => \A s \in workers : slots[s].busy

(* /healthz never says ready while a replacement has yet to answer its     *)
(* warm-up, through any series of crashes, also of replacements.           *)
NoColdReplacementWhenReady ==
    ready => \A s \in workers : s \notin slots[s].inbox

(* The pool neither grows, whichever events a crash fires, nor leaves a    *)
(* thread behind that terminate() does not reach.                          *)
NoExtraThread ==
    /\ Cardinality(workers) <= Cardinality(Boot)
    /\ \A s \in Slot : slots[s].thread = "alive" => s \in workers

(* Every call of run() settles, whatever crashes and terminates, as long   *)
(* as the crashes do not use up the recoveries of every worker.            *)
EveryCallSettles ==
    MaxCrashes < Cardinality(Boot) * (MaxRecovery + 1) =>
      \A c \in Call : calls[c].pc \in {"waiting", "acquired", "pending"}
                         ~> calls[c].pc \in {"resolved", "rejected"}

(* pool.ts:107-109: a pod that cannot serve does not advertise ready.      *)
ReadyPodHasWorker == ready => workers # {}

(* pool.ts:105-107: if a worker has warmed up the pod can serve, and only  *)
(* a total failure of the warm-ups keeps /healthz at 503.                  *)
WarmPodIsReady ==
    (/\ booted /\ recovery = 0 /\ ~shuttingDown
     /\ \E s \in workers : slots[s].warm)
    => ready
=============================================================================
