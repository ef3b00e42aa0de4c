-------------------------- MODULE WorkerPool_proofs --------------------------
(***************************************************************************)
(* Proofs about the worker pool, for any number of pods, workers, handlers *)
(* and generations, any number of restarts, faults and stalls, and any     *)
(* settings of the queue.                                                  *)
(*                                                                         *)
(* The five actors change the same tables, so every invariant is proved by *)
(* the few ways a step can move (PoolMoves) and not by action: a handler   *)
(* posts, a worker idles, takes a job, works on it or reports its end, the *)
(* process serves or stops, the clock ticks.                               *)
(***************************************************************************)
EXTENDS WorkerPool, GenerationQueue_proofs

Controlled == PoolTypeOK /\ ControlInv

FaultsGrow == faults' \in faults..MaxFaults

PodsKept ==
    /\ pods' \in [Pod -> PodState]
    /\ \A p \in Pod : /\ pods'[p].phase = pods[p].phase
                      /\ pods'[p].life = pods[p].life
                      /\ pods'[p].jobsCancelled = pods[p].jobsCancelled

Posts(c) ==
    /\ post' \in [Caller -> {"idle", "checked", "inserted"}]
    /\ PodsKept /\ FaultsGrow /\ UNCHANGED <<work, stalls>>
    /\ \/ UNCHANGED qvars
       \/ EnqueueLock(c) \/ EnqueueCount(c) \/ Disconnect({c}, {})
       \/ \E g \in Gen : EnqueueInsert(c, g)

Idles(w) ==
    /\ work[w].pc \in {"select", "claim"}
    /\ \E pc \in Idle : Goto(w, At(pc))
    /\ PodsKept /\ FaultsGrow /\ UNCHANGED <<qvars, post, stalls>>

Takes(w, g) ==
    /\ work[w].pc = "claim"
    /\ ClaimNext(Me(w), g)
    /\ \/ Goto(w, Claimed(w, g)) /\ NoFault
       \/ (\E pc \in Idle : Goto(w, At(pc))) /\ Fault
    /\ PodsKept /\ UNCHANGED <<post, stalls>>

Works(w) ==
    /\ work[w].pc \notin Idle
    /\ \E s \in WorkState : /\ Goto(w, s)
                            /\ s.pc \notin Idle
                            /\ s.gen = Job(w)
                            /\ s.attempt = work[w].attempt
                            /\ s.beating => /\ work[w].beating
                                            /\ \/ s.due = work[w].due
                                               \/ RenewLease(Me(w), Job(w))
                                               \/ Fault
    /\ \/ UNCHANGED qvars
       \/ RenewLease(Me(w), Job(w))
       \/ SaveAndComplete(Me(w), Job(w)) /\ Fault
    /\ FaultsGrow /\ stalls' \in 0..MaxStalls /\ UNCHANGED <<pods, post>>

Ends(w) ==
    \/ MarkFailed(Me(w), Job(w), work[w].reason)
    \/ MarkCompleted(Me(w), Job(w))
    \/ SaveAndComplete(Me(w), Job(w))

Reports(w) ==
    /\ work[w].pc \notin Idle
    /\ Goto(w, At("select"))
    /\ \/ Ends(w) /\ FaultsGrow
       \/ UNCHANGED qvars /\ ~Holds(Job(w), Me(w)) /\ NoFault
       \/ UNCHANGED qvars /\ Fault
    /\ UNCHANGED <<pods, post, stalls>>

Serves(p) ==
    /\ pods' \in [Pod -> PodState]
    /\ \A q \in Pod \ {p} : pods'[q] = pods[q]
    /\ pods'[p].jobsCancelled => pods'[p].phase = "draining"
    /\ pods'[p].life = pods[p].life \/ pods[p].phase = "down"
    /\ \/ /\ UNCHANGED work
          /\ pods'[p].phase \in {"down", "starting"} => pods[p].phase \in {"down", "starting"}
       \/ /\ pods[p].phase = "starting"
          /\ pods'[p].phase = "up"
          /\ work' = [w \in Worker |-> IF PodOf[w] = p THEN At("select") ELSE work[w]]
    /\ \/ UNCHANGED qvars
       \/ RecoverRequeue(p) \/ RecoverFail(p) \/ Disconnect({}, {p})
    /\ FaultsGrow /\ UNCHANGED <<post, stalls>>

Stops(p) ==
    /\ Halt(p)
    /\ Crashing # {} \/ \A w \in Worker : PodOf[w] = p => work[w].pc = "exited"

Stays == UNCHANGED vars

-----------------------------------------------------------------------------
(* The constants and the records built from them. *)
LEMMA PoolFacts ==
    /\ Budget \in Nat \ {0}
    /\ LeaseTTL \in Nat /\ HeartbeatInterval \in 0..LeaseTTL /\ 0 \in 0..HeartbeatInterval
    /\ ProviderError \in Reason /\ ValidationLate \in Reason /\ ShutdownInterrupt \in Reason
    /\ \A w \in Worker : PodOf[w] \in Pod
    /\ \A c \in Caller : PodOf[c] \in Pod
    /\ \A pc \in PC : At(pc) \in WorkState
    /\ Idle \subseteq PC
    /\ NoGen \notin Gen
    /\ Sweeper = Pod
    /\ MaxLife \in Nat /\ MaxFaults \in Nat /\ MaxStalls \in Nat
<1>1. HeartbeatInterval \in 0..LeaseTTL /\ 0 \in 0..HeartbeatInterval
  BY QueueAssumption DEF HeartbeatInterval
<1>2. ASSUME NEW pc \in PC PROVE At(pc) \in WorkState
  BY <1>1, ConstantFacts, PoolAssumption DEF At, WorkState
<1>3. LeaseTTL \in Nat
  BY QueueAssumption
<1> QED BY <1>1, <1>2, <1>3, ConstantFacts, PoolAssumption DEF Idle, PC

LEMMA OwnerFacts ==
    ASSUME PoolTypeOK
    PROVE  /\ \A w \in Worker : Me(w) \in Owner
           /\ \A v, w \in Worker : Me(v) = Me(w) => v = w
  BY PoolFacts, PoolAssumption DEF PoolTypeOK, PodState, Me, Pd, OwnerOf

LEMMA IdleHasNoJob ==
    ASSUME ControlInv, NEW w \in Worker, work[w].pc \in Idle
    PROVE  Job(w) = NoGen /\ ~work[w].beating /\ work[w].due = 0
<1>1. work[w] = At(work[w].pc)
  BY DEF ControlInv
<1>2. /\ At(work[w].pc).gen = NoGen
      /\ At(work[w].pc).beating = FALSE
      /\ At(work[w].pc).due = 0
  BY DEF At
<1> QED BY <1>1, <1>2 DEF Job

LEMMA BusyHasJob ==
    ASSUME ControlInv, NEW w \in Worker, work[w].pc \notin Idle
    PROVE  Job(w) \in Gen
  BY DEF ControlInv

(* The fields a step inside a job assigns. *)
LEMMA JobUpdates ==
    ASSUME NEW s \in WorkState
    PROVE  /\ \A pc \in PC, reason \in Reason :
                [s EXCEPT !.pc = pc, !.reason = reason] \in WorkState
           /\ \A due \in 0..HeartbeatInterval : [s EXCEPT !.due = due] \in WorkState
           /\ \A pc \in PC, clean \in BOOLEAN, reason \in Reason :
                [s EXCEPT !.pc = pc, !.beating = FALSE, !.due = 0,
                          !.clean = clean, !.reason = reason] \in WorkState
           /\ \A lost \in BOOLEAN :
                [s EXCEPT !.lost = lost, !.beating = FALSE, !.due = 0] \in WorkState
<1>1. 0 \in 0..HeartbeatInterval
  BY PoolFacts
<1> QED BY <1>1 DEF WorkState

LEMMA RingKeepsPods ==
    ASSUME PoolTypeOK, NEW p \in Pod, NEW b \in BOOLEAN,
           pods' = [pods EXCEPT ![p].bell = b]
    PROVE  PodsKept
  BY DEF PoolTypeOK, PodState, PodsKept

LEMMA SamePodsKept ==
    ASSUME PoolTypeOK, UNCHANGED pods PROVE PodsKept
  BY DEF PoolTypeOK, PodsKept

LEMMA FaultMoves ==
    ASSUME PoolTypeOK, Fault \/ NoFault \/ UNCHANGED faults PROVE FaultsGrow
  BY PoolFacts DEF PoolTypeOK, Fault, NoFault, FaultsGrow

-----------------------------------------------------------------------------
(* Each action is one of the moves. *)
LEMMA HandlerMoves ==
    ASSUME Controlled, NEW c \in Caller, PostCheck(c) \/ HandlerStep(c) \/ PostError(c)
    PROVE  Posts(c)
<1> USE DEF Controlled
<1>0. post \in [Caller -> {"idle", "checked", "inserted"}]
  BY DEF PoolTypeOK
<1>1. ASSUME PostCheck(c) PROVE Posts(c)
  BY <1>0, <1>1, FaultMoves, SamePodsKept DEF PostCheck, Posts
<1>2. ASSUME PostEnqueue(c) PROVE Posts(c)
  <2>1. FaultsGrow /\ PodsKept
    BY <1>2, FaultMoves, SamePodsKept DEF PostEnqueue, NoFault
  <2> QED BY <1>0, <1>2, <2>1 DEF PostEnqueue, Posts
<1>3. ASSUME PostNotify(c) PROVE Posts(c)
  <2>1. PodsKept
    BY <1>3, RingKeepsPods, PoolFacts DEF PostNotify, Ring
  <2> QED BY <1>0, <1>3, <2>1, FaultMoves DEF PostNotify, Posts
<1>4. ASSUME PostError(c) PROVE Posts(c)
  BY <1>0, <1>4, FaultMoves, SamePodsKept DEF PostError, Posts
<1> QED BY <1>1, <1>2, <1>3, <1>4 DEF HandlerStep

LEMMA LoopMoves ==
    ASSUME Controlled, NEW w \in Worker,
           WakeDone(w) \/ Wake(w) \/ Claim(w) \/ ClaimCancelled(w) \/ ClaimError(w)
    PROVE  Idles(w) \/ \E g \in Gen : Takes(w, g)
<1> USE DEF Controlled, Idle
<1>1. ASSUME WakeDone(w) PROVE Idles(w)
  BY <1>1, FaultMoves, SamePodsKept DEF WakeDone, Idles
<1>2. ASSUME Wake(w) PROVE Idles(w)
  <2>1. PodsKept
    BY <1>2, PoolFacts, RingKeepsPods, SamePodsKept DEF Wake
  <2> QED BY <1>2, <2>1, FaultMoves DEF Wake, Idles
<1>3. ASSUME Claim(w) PROVE Idles(w) \/ \E g \in Gen : Takes(w, g)
  <2>1. PodsKept
    BY <1>3, PoolFacts, RingKeepsPods, SamePodsKept DEF Claim, Ring
  <2> QED BY <1>3, <2>1, FaultMoves DEF Claim, Idles, Takes, NoFault
<1>4. ASSUME ClaimCancelled(w) PROVE Idles(w)
  BY <1>4, FaultMoves, SamePodsKept DEF ClaimCancelled, Idles
<1>5. ASSUME ClaimError(w) PROVE Idles(w) \/ \E g \in Gen : Takes(w, g)
  BY <1>5, FaultMoves, SamePodsKept DEF ClaimError, Idles, Takes
<1> QED BY <1>1, <1>2, <1>3, <1>4, <1>5

(* A step inside a job keeps its generation and the attempt it was claimed *)
(* with.                                                                   *)
LEMMA JobMoves ==
    ASSUME Controlled, NEW w \in Worker,
           \/ Embed(w) \/ EmbedStalls(w) \/ Malformed(w) \/ RunStep(w)
           \/ Heartbeat(w) \/ HeartbeatStops(w)
    PROVE  Works(w)
<1> USE DEF Controlled, Idle
<1>0. work[w] \in WorkState /\ work \in [Worker -> WorkState] /\ stalls \in 0..MaxStalls
  BY DEF PoolTypeOK
<1>a. /\ 0 \in 0..HeartbeatInterval /\ HeartbeatInterval \in 0..HeartbeatInterval
      /\ ValidationLate \in Reason
      /\ MaxStalls \in Nat
  BY PoolFacts
<1>1. ASSUME Embed(w) PROVE Works(w)
  <2>1. [work[w] EXCEPT !.pc = "save"] \in WorkState
    BY <1>0, <1>a DEF WorkState, PC
  <2> QED BY <1>0, <1>1, <2>1, FaultMoves DEF Embed, Works, Job, WorkState
<1>2. ASSUME EmbedStalls(w) PROVE Works(w)
  <2>1. [work[w] EXCEPT !.pc = "mark"] \in WorkState
    BY <1>0, <1>a DEF WorkState, PC
  <2> QED BY <1>0, <1>a, <1>2, <2>1, FaultMoves DEF EmbedStalls, Works, Job, WorkState
<1>3. ASSUME Malformed(w) PROVE Works(w)
  <2>1. [work[w] EXCEPT !.pc = "mark", !.reason = ValidationLate] \in WorkState
    BY <1>0, <1>a DEF WorkState, PC
  <2> QED BY <1>0, <1>3, <2>1, FaultMoves DEF Malformed, Works, Job, WorkState
<1>4. ASSUME RunFails(w) PROVE Works(w)
  <2>1. PICK reason \in Reason :
          Goto(w, [Returned(w, "mark") EXCEPT !.reason = reason])
    BY <1>4, PoolAssumption DEF RunFails
  <2>2. [Returned(w, "mark") EXCEPT !.reason = reason] \in WorkState
    BY <1>0, <1>a DEF WorkState, PC, Returned
  <2>3. /\ [Returned(w, "mark") EXCEPT !.reason = reason].pc = "mark"
        /\ [Returned(w, "mark") EXCEPT !.reason = reason].gen = Job(w)
        /\ [Returned(w, "mark") EXCEPT !.reason = reason].attempt = work[w].attempt
        /\ ~[Returned(w, "mark") EXCEPT !.reason = reason].beating
    BY <1>0 DEF WorkState, Returned, Job
  <2>4. FaultsGrow /\ work[w].pc = "run"
        /\ UNCHANGED <<qvars, pods, post, stalls>>
    BY <1>4, FaultMoves DEF RunFails
  <2> QED BY <1>0, <2>1, <2>2, <2>3, <2>4 DEF Works
<1>5. ASSUME RunSucceeds(w) PROVE Works(w)
  <2>1. PICK clean \in BOOLEAN :
          Goto(w, [Returned(w, IF Persist THEN "embed" ELSE "complete")
                   EXCEPT !.clean = clean, !.reason = ValidationLate])
    BY <1>5 DEF RunSucceeds
  <2>2. [Returned(w, IF Persist THEN "embed" ELSE "complete")
         EXCEPT !.clean = clean, !.reason = ValidationLate] \in WorkState
    BY <1>0, <1>a DEF WorkState, PC, Returned
  <2> QED BY <1>0, <1>5, <2>1, <2>2, FaultMoves DEF RunSucceeds, Works, Job, WorkState, Returned
<1>6. ASSUME Heartbeat(w) PROVE Works(w)
  <2>1. [work[w] EXCEPT !.due = IF Timely THEN HeartbeatInterval ELSE 0] \in WorkState
    BY <1>0, <1>a DEF WorkState
  <2>2. [work[w] EXCEPT !.lost = TRUE, !.beating = FALSE, !.due = 0] \in WorkState
    BY <1>0, <1>a DEF WorkState
  <2>3. work[w].pc \notin Idle
    BY <1>6, IdleHasNoJob DEF Heartbeat
  <2>4. FaultsGrow
    BY <1>6, FaultMoves DEF Heartbeat
  <2>5. stalls' \in 0..MaxStalls /\ UNCHANGED <<pods, post>>
    BY <1>0, <1>6 DEF Heartbeat
  <2>6. CASE /\ Goto(w, [work[w] EXCEPT !.due = IF Timely THEN HeartbeatInterval ELSE 0])
             /\ RenewLease(Me(w), Job(w)) \/ (UNCHANGED qvars /\ Fault)
    <3> DEFINE s == [work[w] EXCEPT !.due = IF Timely THEN HeartbeatInterval ELSE 0]
    <3>1. s \in WorkState /\ s.pc = work[w].pc /\ s.gen = Job(w) /\ s.attempt = work[w].attempt
      BY <1>0, <2>1 DEF Job, WorkState
    <3>2. work[w].beating
      BY <1>6 DEF Heartbeat
    <3>3. Goto(w, s)
      BY <2>6
    <3> HIDE DEF s
    <3> QED BY <2>3, <2>4, <2>5, <2>6, <3>1, <3>2, <3>3 DEF Works
  <2>7. CASE /\ Goto(w, [work[w] EXCEPT !.lost = TRUE, !.beating = FALSE, !.due = 0])
             /\ UNCHANGED qvars
    <3>1. /\ [work[w] EXCEPT !.lost = TRUE, !.beating = FALSE, !.due = 0].pc = work[w].pc
          /\ [work[w] EXCEPT !.lost = TRUE, !.beating = FALSE, !.due = 0].gen = Job(w)
          /\ [work[w] EXCEPT !.lost = TRUE, !.beating = FALSE, !.due = 0].attempt
                = work[w].attempt
          /\ ~[work[w] EXCEPT !.lost = TRUE, !.beating = FALSE, !.due = 0].beating
      BY <1>0 DEF Job, WorkState
    <3> QED BY <2>2, <2>3, <2>4, <2>5, <2>7, <3>1 DEF Works
  <2>8. UNCHANGED <<qvars, faults>> => UNCHANGED qvars
    OBVIOUS
  <2> QED BY <1>6, <2>6, <2>7, <2>8 DEF Heartbeat
<1>7. ASSUME HeartbeatStops(w) PROVE Works(w)
  <2>1. [work[w] EXCEPT !.beating = FALSE, !.due = 0] \in WorkState
    BY <1>0, <1>a DEF WorkState
  <2>2. work[w].pc \notin Idle
    BY <1>7, IdleHasNoJob DEF HeartbeatStops
  <2> QED BY <1>0, <1>7, <2>1, <2>2, FaultMoves DEF HeartbeatStops, Works, Job, WorkState
<1> QED BY <1>1, <1>2, <1>3, <1>4, <1>5, <1>6, <1>7 DEF RunStep

LEMMA EndMoves ==
    ASSUME Controlled, NEW w \in Worker, Save(w) \/ Mark(w) \/ Complete(w)
    PROVE  Works(w) \/ Reports(w)
<1> USE DEF Controlled, Idle
<1>0. work[w] \in WorkState /\ work \in [Worker -> WorkState] /\ stalls \in 0..MaxStalls
  BY DEF PoolTypeOK
<1>2. ASSUME Mark(w) PROVE Reports(w)
  <2>1. FaultsGrow
    BY <1>2, FaultMoves DEF Mark, EndJob
  <2>2. /\ work[w].pc = "mark" /\ Goto(w, At("select"))
        /\ UNCHANGED <<pods, post, stalls>>
    BY <1>2 DEF Mark, EndJob
  <2>3. \/ Ends(w)
        \/ UNCHANGED qvars /\ ~Holds(Job(w), Me(w)) /\ NoFault
        \/ UNCHANGED qvars /\ Fault
    BY <1>2 DEF Mark, EndJob, Ends, NoFault
  <2> QED BY <2>1, <2>2, <2>3 DEF Reports
<1>3. ASSUME Complete(w) PROVE Reports(w)
  <2>1. FaultsGrow
    BY <1>3, FaultMoves DEF Complete, EndJob
  <2>2. /\ work[w].pc = "complete" /\ Goto(w, At("select"))
        /\ UNCHANGED <<pods, post, stalls>>
    BY <1>3 DEF Complete, EndJob
  <2>3. \/ Ends(w)
        \/ UNCHANGED qvars /\ ~Holds(Job(w), Me(w)) /\ NoFault
        \/ UNCHANGED qvars /\ Fault
    BY <1>3 DEF Complete, EndJob, Ends, NoFault
  <2> QED BY <2>1, <2>2, <2>3 DEF Reports
<1>4. ASSUME Save(w) PROVE Works(w) \/ Reports(w)
  <2>1. [work[w] EXCEPT !.pc = "mark"] \in WorkState
    BY <1>0 DEF WorkState, PC
  <2>2. FaultsGrow
    BY <1>4, FaultMoves DEF Save
  <2>3. CASE /\ Goto(w, [work[w] EXCEPT !.pc = "mark"])
             /\ \/ UNCHANGED qvars
                \/ SaveAndComplete(Me(w), Job(w)) /\ Fault
    <3>1. /\ [work[w] EXCEPT !.pc = "mark"].pc = "mark"
          /\ [work[w] EXCEPT !.pc = "mark"].gen = Job(w)
          /\ [work[w] EXCEPT !.pc = "mark"].attempt = work[w].attempt
          /\ [work[w] EXCEPT !.pc = "mark"].beating = work[w].beating
          /\ [work[w] EXCEPT !.pc = "mark"].due = work[w].due
      BY <1>0 DEF Job, WorkState
    <3>2. work[w].pc \notin Idle /\ stalls' \in 0..MaxStalls /\ UNCHANGED <<pods, post>>
      BY <1>0, <1>4 DEF Save
    <3> QED BY <2>1, <2>2, <2>3, <3>1, <3>2 DEF Works
  <2>4. CASE SaveAndComplete(Me(w), Job(w)) /\ Goto(w, At("select"))
    BY <1>0, <1>4, <2>2, <2>4 DEF Save, Reports, Ends
  <2> QED BY <1>4, <2>3, <2>4 DEF Save
<1> QED BY <1>2, <1>3, <1>4

LEMMA ProcessMoves ==
    ASSUME Controlled, NEW p \in Pod,
           \/ SweepStep(p) \/ SweepError(p) \/ SweeperStops(p) \/ Boot(p)
           \/ Shutdown(p) \/ ShutdownTimeout(p)
    PROVE  Serves(p)
<1> USE PoolFacts DEF Controlled
<1>0. pods \in [Pod -> PodState] /\ pods[p] \in PodState
  BY DEF PoolTypeOK
<1>1. pods[p].jobsCancelled => pods[p].phase = "draining"
  BY DEF ControlInv
<1>2. ASSUME NEW s \in PodState, pods' = [pods EXCEPT ![p] = s]
      PROVE  /\ pods' \in [Pod -> PodState]
             /\ pods'[p] = s
             /\ \A q \in Pod \ {p} : pods'[q] = pods[q]
  BY <1>0, <1>2
<1>3. ASSUME SweepBegin(p) PROVE Serves(p)
  <2>1. [pods[p] EXCEPT !.swept = TRUE] \in PodState
    BY <1>0 DEF PodState
  <2> QED BY <1>0, <1>1, <1>2, <1>3, <2>1, FaultMoves DEF SweepBegin, Serves, PodState
<1>4. ASSUME SweepCommit(p) PROVE Serves(p)
  <2>1. CASE pods[p].phase = "starting"
    <3>1. [pods[p] EXCEPT !.phase = "up", !.bell = TRUE, !.sweeping = TRUE] \in PodState
      BY <1>0 DEF PodState, Phase
    <3>2. pods' = [pods EXCEPT ![p] = [@ EXCEPT !.phase = "up", !.bell = TRUE, !.sweeping = TRUE]]
      BY <1>0, <1>4, <2>1 DEF SweepCommit, StartPool
    <3> QED BY <1>0, <1>1, <1>2, <1>4, <2>1, <3>1, <3>2, FaultMoves
            DEF SweepCommit, StartPool, Serves, PodState
  <2>2. CASE pods[p].phase # "starting"
    BY <1>0, <1>1, <1>4, <2>2, FaultMoves DEF SweepCommit, Serves
  <2> QED BY <2>1, <2>2
<1>5. ASSUME SweepError(p) PROVE Serves(p)
  <2>1. [pods[p] EXCEPT !.phase = IF @ = "starting" THEN "down" ELSE @] \in PodState
    BY <1>0 DEF PodState, Phase
  <2> QED BY <1>0, <1>1, <1>2, <1>5, <2>1, FaultMoves DEF SweepError, Serves, PodState
<1>6. ASSUME SweeperStops(p) PROVE Serves(p)
  <2>1. [pods[p] EXCEPT !.sweeping = FALSE] \in PodState
    BY <1>0 DEF PodState
  <2> QED BY <1>0, <1>1, <1>2, <1>6, <2>1, FaultMoves DEF SweeperStops, Serves, PodState
<1>7. ASSUME Boot(p) PROVE Serves(p)
  <2>1. [pods[p] EXCEPT !.phase = "starting", !.life = IF pods[p].life < MaxLife
                                                      THEN pods[p].life + 1
                                                      ELSE pods[p].life]
          \in PodState
    <3>1. MaxLife \in Nat /\ pods[p].life \in 0..MaxLife
      BY <1>0 DEF PodState
    <3>2. (IF pods[p].life < MaxLife THEN pods[p].life + 1 ELSE pods[p].life) \in 0..MaxLife
      BY <3>1
    <3> HIDE PoolFacts
    <3> QED BY <1>0, <3>2 DEF PodState, Phase
  <2>2. pods' = [pods EXCEPT ![p] = [pods[p] EXCEPT
                     !.phase = "starting",
                     !.life = IF pods[p].life < MaxLife THEN pods[p].life + 1
                                                        ELSE pods[p].life]]
    BY <1>0, <1>7 DEF Boot
  <2> QED BY <1>0, <1>1, <1>2, <1>7, <2>1, <2>2, FaultMoves DEF Boot, Serves, PodState
<1>8. ASSUME Shutdown(p) PROVE Serves(p)
  <2>1. [pods[p] EXCEPT !.phase = "draining"] \in PodState
    BY <1>0 DEF PodState, Phase
  <2> QED BY <1>0, <1>1, <1>2, <1>8, <2>1, FaultMoves DEF Shutdown, Serves, PodState
<1>9. ASSUME ShutdownTimeout(p) PROVE Serves(p)
  <2>1. [pods[p] EXCEPT !.jobsCancelled = TRUE] \in PodState
    BY <1>0 DEF PodState
  <2> QED BY <1>0, <1>1, <1>2, <1>9, <2>1, FaultMoves DEF ShutdownTimeout, Serves, PodState
<1> QED BY <1>3, <1>4, <1>5, <1>6, <1>7, <1>8, <1>9 DEF SweepStep

(* Every step of the pool is one of these moves. *)
LEMMA PoolMoves ==
    ASSUME Controlled, [PoolNext]_vars
    PROVE  \/ \E c \in Caller : Posts(c)
           \/ \E w \in Worker : Idles(w) \/ Works(w) \/ Reports(w)
           \/ \E w \in Worker, g \in Gen : Takes(w, g)
           \/ \E p \in Pod : Serves(p) \/ Stops(p)
           \/ PoolTick
           \/ Stays
<1>1. \A p \in Pod : Exit(p) \/ Crash(p) => Stops(p)
  BY DEF Exit, Crash, Stops, Drained
<1>2. CASE PoolNext
  <2>1. ASSUME NEW c \in Caller, PostCheck(c) \/ HandlerStep(c) \/ PostError(c)
        PROVE  Posts(c)
    BY <2>1, HandlerMoves
  <2>2. ASSUME NEW w \in Worker, LoopStep(w) \/ ClaimError(w)
        PROVE  \/ Idles(w) \/ Works(w) \/ Reports(w)
               \/ \E g \in Gen : Takes(w, g)
    BY <2>2, LoopMoves, JobMoves, EndMoves DEF LoopStep
  <2>3. ASSUME NEW w \in Worker, \/ EmbedStalls(w) \/ Malformed(w) \/ RunStep(w)
                                 \/ Heartbeat(w) \/ HeartbeatStops(w)
        PROVE  Works(w)
    BY <2>3, JobMoves
  <2>4. ASSUME NEW p \in Pod, \/ SweepStep(p) \/ SweepError(p) \/ SweeperStops(p) \/ Boot(p)
                              \/ Shutdown(p) \/ ShutdownTimeout(p)
        PROVE  Serves(p)
    BY <2>4, ProcessMoves
  <2> QED BY <1>1, <1>2, <2>1, <2>2, <2>3, <2>4 DEF PoolNext, FaultStep
<1>3. CASE UNCHANGED vars
  BY <1>3 DEF Stays
<1> QED BY <1>2, <1>3

-----------------------------------------------------------------------------
(* The pool uses the tables by the statements of the queue only. *)
LEMMA PoolStepIsQueueStep ==
    ASSUME Controlled, [PoolNext]_vars
    PROVE  [Next]_qvars
<1> USE PoolFacts DEF Controlled
<1>1. ASSUME NEW c \in Caller, Posts(c) PROVE [Next]_qvars
  <2>1. {c} \in SUBSET Caller /\ {} \in SUBSET Sweeper
    OBVIOUS
  <2> QED BY <1>1, <2>1 DEF Posts, Next, EnqueueStep
<1>2. ASSUME NEW w \in Worker, NEW g \in Gen, Takes(w, g) PROVE [Next]_qvars
  BY <1>2, OwnerFacts DEF Takes, Next, WorkerStep
<1>3. ASSUME NEW w \in Worker, Works(w) \/ Reports(w) PROVE [Next]_qvars
  <2>1. Me(w) \in Owner /\ Job(w) \in Gen /\ work[w].reason \in Reason
    BY <1>3, OwnerFacts, BusyHasJob DEF Works, Reports, PoolTypeOK, WorkState
  <2> QED BY <1>3, <2>1
          DEF Works, Reports, Ends, Next, WorkerStep, SaveAndComplete, MarkCompleted
<1>4. ASSUME NEW p \in Pod, Serves(p) PROVE [Next]_qvars
  <2>1. {} \in SUBSET Caller /\ {p} \in SUBSET Sweeper
    OBVIOUS
  <2> QED BY <1>4, <2>1 DEF Serves, Next, RecoverStep
<1>5. ASSUME NEW p \in Pod, Stops(p) PROVE [Next]_qvars
  <2>1. {c \in Caller : PodOf[c] = p} \in SUBSET Caller /\ {p} \in SUBSET Sweeper
    OBVIOUS
  <2> QED BY <1>5, <2>1 DEF Stops, Halt, Next
<1> QED BY PoolMoves, <1>1, <1>2, <1>3, <1>4, <1>5
        DEF Idles, PoolTick, Stays, vars, Next

(* A claimed job, in a record of its type: the claim stays in the budget.  *)
LEMMA ClaimedType ==
    ASSUME PoolTypeOK, QueueInv, NEW w \in Worker, NEW g \in Gen, NEW o \in Owner,
           ClaimNext(o, g)
    PROVE  /\ Claimed(w, g) \in WorkState
           /\ Claimed(w, g).pc = "run"
           /\ Claimed(w, g).gen = g
           /\ Claimed(w, g).attempt = gens[g].attempts + 1
           /\ Claimed(w, g).beating
           /\ Claimed(w, g).due = IF Timely THEN HeartbeatInterval ELSE 0
<1>1. gens[g].attempts + 1 \in 0..Budget
  <2>1. gens[g].status = "queued"
    BY ClaimEffect DEF QueueInv
  <2>2. gens[g].attempts < Budget /\ gens[g].attempts \in Nat
    BY <2>1 DEF QueueInv, RowInv, RowOK, TypeOK, Row
  <2> QED BY <2>2, PoolFacts
<1>2. At("run") \in WorkState
  BY PoolFacts DEF PC
<1>3. (IF Timely THEN HeartbeatInterval ELSE 0) \in 0..HeartbeatInterval
  BY PoolFacts
<1> QED BY <1>1, <1>2, <1>3 DEF Claimed, WorkState, At

LEMMA PoolTypeStep ==
    ASSUME Controlled, QueueInv, [PoolNext]_vars
    PROVE  PoolTypeOK'
<1> USE DEF Controlled
<1>0. TypeOK'
  BY PoolStepIsQueueStep, TypeStep DEF QueueInv
<1>2. PodsKept => pods' \in [Pod -> PodState]
  BY DEF PodsKept
<1>3. FaultsGrow => faults' \in 0..MaxFaults
  BY PoolFacts DEF FaultsGrow, PoolTypeOK
<1>4. ASSUME NEW c \in Caller, Posts(c) PROVE PoolTypeOK'
  BY <1>0, <1>2, <1>3, <1>4 DEF Posts, PoolTypeOK
<1>5. ASSUME NEW w \in Worker, Idles(w) PROVE PoolTypeOK'
  <2>1. work' \in [Worker -> WorkState]
    BY <1>5, PoolFacts DEF Idles, Goto, PoolTypeOK
  <2> QED BY <1>0, <1>2, <1>3, <1>5, <2>1 DEF Idles, PoolTypeOK
<1>6. ASSUME NEW w \in Worker, NEW g \in Gen, Takes(w, g) PROVE PoolTypeOK'
  <2>1. Claimed(w, g) \in WorkState
    BY <1>6, OwnerFacts, ClaimedType DEF Takes
  <2>2. work' \in [Worker -> WorkState]
    BY <1>6, <2>1, PoolFacts DEF Takes, Goto, PoolTypeOK
  <2>3. FaultsGrow
    BY <1>6, FaultMoves DEF Takes
  <2> QED BY <1>0, <1>2, <1>3, <1>6, <2>2, <2>3 DEF Takes, PoolTypeOK
<1>7. ASSUME NEW w \in Worker, Works(w) PROVE PoolTypeOK'
  <2>1. work' \in [Worker -> WorkState]
    BY <1>7 DEF Works, Goto, PoolTypeOK
  <2> QED BY <1>0, <1>3, <1>7, <2>1 DEF Works, PoolTypeOK
<1>8. ASSUME NEW w \in Worker, Reports(w) PROVE PoolTypeOK'
  <2>1. At("select") \in WorkState
    BY PoolFacts DEF PC
  <2>2. work' \in [Worker -> WorkState]
    BY <1>8, <2>1 DEF Reports, Goto, PoolTypeOK
  <2>3. FaultsGrow
    BY <1>8, FaultMoves DEF Reports
  <2> QED BY <1>0, <1>3, <1>8, <2>2, <2>3 DEF Reports, PoolTypeOK
<1>9. ASSUME NEW p \in Pod, Serves(p) PROVE PoolTypeOK'
  <2>1. At("select") \in WorkState
    BY PoolFacts DEF PC
  <2>2. work' \in [Worker -> WorkState]
    BY <1>9, <2>1 DEF Serves, PoolTypeOK
  <2> QED BY <1>0, <1>3, <1>9, <2>2 DEF Serves, PoolTypeOK
<1>10. ASSUME NEW p \in Pod, Stops(p) PROVE PoolTypeOK'
  <2>1. At("exited") \in WorkState
    BY PoolFacts DEF PC
  <2>2. work' \in [Worker -> WorkState]
    BY <1>10, <2>1 DEF Stops, Halt, PoolTypeOK
  <2>3. pods' \in [Pod -> PodState]
    <3>1. pods \in [Pod -> PodState] /\ pods[p] \in PodState
      BY DEF PoolTypeOK
    <3>2. [pods[p] EXCEPT !.phase = "down", !.bell = FALSE, !.sweeping = FALSE,
                          !.swept = FALSE, !.jobsCancelled = FALSE] \in PodState
      BY <3>1 DEF PodState, Phase
    <3>3. pods' = [pods EXCEPT ![p] = [pods[p] EXCEPT
                     !.phase = "down", !.bell = FALSE, !.sweeping = FALSE,
                     !.swept = FALSE, !.jobsCancelled = FALSE]]
      BY <1>10, <3>1 DEF Stops, Halt
    <3> QED BY <3>1, <3>2, <3>3
  <2>4. post' \in [Caller -> {"idle", "checked", "inserted"}]
    BY <1>10 DEF Stops, Halt, PoolTypeOK
  <2> QED BY <1>0, <1>10, <2>2, <2>3, <2>4 DEF Stops, Halt, PoolTypeOK
<1>11. ASSUME PoolTick PROVE PoolTypeOK'
  <2>1. ASSUME NEW w \in Worker PROVE work'[w] \in WorkState
    <3>1. work[w] \in WorkState /\ work[w].due \in 0..HeartbeatInterval
      BY DEF PoolTypeOK, WorkState
    <3>2. work[w].due > 0 => work[w].due - 1 \in 0..HeartbeatInterval
      BY <3>1, PoolFacts
    <3>3. work[w].due > 0 => [work[w] EXCEPT !.due = work[w].due - 1] \in WorkState
      BY <3>1, <3>2, JobUpdates
    <3> QED BY <1>11, <3>1, <3>3 DEF PoolTick
  <2>2. work' \in [Worker -> WorkState]
    BY <1>11, <2>1 DEF PoolTick
  <2>3. pods' \in [Pod -> PodState]
    BY <1>11 DEF PoolTick, PoolTypeOK, PodState
  <2> QED BY <1>0, <1>11, <2>2, <2>3 DEF PoolTick, PoolTypeOK
<1>12. CASE Stays
  BY <1>0, <1>12 DEF Stays, vars, pvars, PoolTypeOK
<1> QED BY PoolMoves, <1>4, <1>5, <1>6, <1>7, <1>8, <1>9, <1>10, <1>11, <1>12

(* A job and its record come and go together, in a live process only. *)
LEMMA ControlStep ==
    ASSUME Controlled, QueueInv, [PoolNext]_vars
    PROVE  ControlInv'
<1> USE DEF Controlled
<1> DEFINE WorkerOK(w) ==
             /\ IF work[w].pc \in Idle THEN work[w] = At(work[w].pc) ELSE Job(w) \in Gen
             /\ Pd(w).phase \in {"down", "starting"} => work[w].pc = "exited"
           PodOK(p) == pods[p].jobsCancelled => pods[p].phase = "draining"
<1>0. /\ \A v \in Worker : WorkerOK(v) /\ PodOf[v] \in Pod
      /\ \A p \in Pod : PodOK(p)
      /\ work \in [Worker -> WorkState] /\ pods \in [Pod -> PodState]
  BY PoolFacts DEF ControlInv, PoolTypeOK
<1>1. \A pc \in PC : At(pc).pc = pc
  BY DEF At
<1>2. Idle \subseteq PC
  BY PoolFacts
<1>3. ASSUME PodsKept, NEW v \in Worker, UNCHANGED work[v] PROVE WorkerOK(v)'
  BY <1>0, <1>3 DEF PodsKept, Pd, Job
<1>4. PodsKept => \A p \in Pod : PodOK(p)'
  BY <1>0 DEF PodsKept
<1>5. UNCHANGED pods => PodsKept
  BY SamePodsKept
<1>6. ASSUME NEW c \in Caller, Posts(c) PROVE ControlInv'
  BY <1>3, <1>4, <1>6 DEF Posts, ControlInv
<1>7. ASSUME NEW w \in Worker, Idles(w) PROVE ControlInv'
  <2>1. PICK pc \in Idle : work' = [work EXCEPT ![w] = At(pc)]
    BY <1>7 DEF Idles, Goto
  <2>2. PodsKept
    BY <1>7 DEF Idles
  <2>3. WorkerOK(w)'
    <3>1. work'[w] = At(pc) /\ At(pc).pc = pc
      BY <1>0, <1>1, <1>2, <2>1
    <3>2. Pd(w)'.phase \notin {"down", "starting"}
      BY <1>0, <1>7, <2>2 DEF Idles, PodsKept, Pd
    <3> QED BY <3>1, <3>2
  <2>4. \A v \in Worker \ {w} : WorkerOK(v)'
    BY <1>0, <1>3, <2>1, <2>2
  <2> QED BY <1>4, <2>2, <2>3, <2>4 DEF ControlInv
<1>8. ASSUME NEW w \in Worker, NEW g \in Gen, Takes(w, g) PROVE ControlInv'
  <2>1. PodsKept
    BY <1>8 DEF Takes
  <2>2. work'[w] = Claimed(w, g) \/ \E pc \in Idle : work'[w] = At(pc)
    BY <1>0, <1>8 DEF Takes, Goto
  <2>3. WorkerOK(w)'
    <3>1. Claimed(w, g).pc = "run" /\ Claimed(w, g).gen = g
      BY <1>8, OwnerFacts, ClaimedType DEF Takes
    <3>2. Pd(w)'.phase \notin {"down", "starting"}
      BY <1>0, <1>8, <2>1 DEF Takes, PodsKept, Pd
    <3> QED BY <1>1, <1>2, <2>2, <3>1, <3>2 DEF Job, Idle
  <2>4. \A v \in Worker \ {w} : WorkerOK(v)'
    BY <1>0, <1>3, <1>8, <2>1 DEF Takes, Goto
  <2> QED BY <1>4, <2>1, <2>3, <2>4 DEF ControlInv
<1>9. ASSUME NEW w \in Worker, Works(w) PROVE ControlInv'
  <2>1. PodsKept
    BY <1>5, <1>9 DEF Works
  <2>2. WorkerOK(w)'
    BY <1>0, <1>9 DEF Works, Goto, Job, Pd, Idle
  <2>3. \A v \in Worker \ {w} : WorkerOK(v)'
    BY <1>0, <1>3, <1>9, <2>1 DEF Works, Goto
  <2> QED BY <1>4, <2>1, <2>2, <2>3 DEF ControlInv
<1>10. ASSUME NEW w \in Worker, Reports(w) PROVE ControlInv'
  <2>1. PodsKept
    BY <1>5, <1>10 DEF Reports
  <2>2. WorkerOK(w)'
    BY <1>0, <1>1, <1>10 DEF Reports, Goto, Job, Pd, Idle, PC
  <2>3. \A v \in Worker \ {w} : WorkerOK(v)'
    BY <1>0, <1>3, <1>10, <2>1 DEF Reports, Goto
  <2> QED BY <1>4, <2>1, <2>2, <2>3 DEF ControlInv
<1>11. ASSUME NEW p \in Pod, Serves(p) PROVE ControlInv'
  <2>1. \A q \in Pod : PodOK(q)'
    BY <1>0, <1>11 DEF Serves
  <2>2. ASSUME NEW v \in Worker PROVE WorkerOK(v)'
    <3>1. CASE PodOf[v] # p
      BY <1>0, <1>11, <3>1 DEF Serves, Pd, Job
    <3>2. CASE PodOf[v] = p /\ UNCHANGED work
      BY <1>0, <1>11, <3>2 DEF Serves, Pd, Job
    <3>3. CASE PodOf[v] = p /\ ~UNCHANGED work
      BY <1>0, <1>1, <1>11, <3>3 DEF Serves, Pd, Idle, PC
    <3> QED BY <3>1, <3>2, <3>3
  <2> QED BY <2>1, <2>2 DEF ControlInv
<1>12. ASSUME NEW p \in Pod, Stops(p) PROVE ControlInv'
  <2>1. \A q \in Pod : PodOK(q)'
    BY <1>0, <1>12 DEF Stops, Halt, PodState
  <2>2. ASSUME NEW v \in Worker PROVE WorkerOK(v)'
    <3>1. CASE PodOf[v] # p
      BY <1>0, <1>12, <3>1 DEF Stops, Halt, Pd, Job
    <3>2. CASE PodOf[v] = p
      BY <1>0, <1>1, <1>12, <3>2 DEF Stops, Halt, Idle, PC
    <3> QED BY <3>1, <3>2
  <2> QED BY <2>1, <2>2 DEF ControlInv
<1>13. ASSUME PoolTick PROVE ControlInv'
  <2>1. PodsKept
    BY <1>0, <1>13 DEF PoolTick, PodsKept, PodState
  <2>2. ASSUME NEW v \in Worker PROVE WorkerOK(v)'
    <3>1. CASE work[v].due > 0
      <4>1. work[v].pc \notin Idle
        BY <3>1, IdleHasNoJob
      <4>2. work'[v] = [work[v] EXCEPT !.due = @ - 1]
        BY <1>13, <3>1 DEF PoolTick
      <4>3. work'[v].pc = work[v].pc /\ work'[v].gen = work[v].gen
        BY <1>0, <4>2 DEF WorkState
      <4> QED BY <1>0, <2>1, <4>1, <4>3 DEF PodsKept, Pd, Job
    <3>2. CASE ~(work[v].due > 0)
      BY <1>3, <1>13, <2>1, <3>2 DEF PoolTick
    <3> QED BY <3>1, <3>2
  <2> QED BY <1>4, <2>1, <2>2 DEF ControlInv
<1>14. CASE Stays
  BY <1>3, <1>4, <1>5, <1>14 DEF Stays, vars, pvars, ControlInv
<1> QED BY PoolMoves, <1>6, <1>7, <1>8, <1>9, <1>10, <1>11, <1>12, <1>13, <1>14

PoolBase == PoolTypeOK /\ QueueInv /\ ControlInv

LEMMA PoolBaseInit == PoolInit => PoolBase
<1> SUFFICES ASSUME PoolInit PROVE PoolBase
  OBVIOUS
<1>1. Init /\ QueueInv
  BY QueueInvInit DEF PoolInit
<1>2. pods \in [Pod -> PodState]
  BY PoolFacts DEF PoolInit, PodState, Phase
<1>3. work \in [Worker -> WorkState] /\ \A w \in Worker : work[w] = At("exited")
  BY PoolFacts DEF PoolInit, PC
<1>4. post \in [Caller -> {"idle", "checked", "inserted"}] /\ faults \in 0..MaxFaults
      /\ stalls \in 0..MaxStalls
  BY PoolFacts DEF PoolInit
<1>5. PoolTypeOK
  BY <1>1, <1>2, <1>3, <1>4 DEF PoolTypeOK, QueueInv
<1>6. ControlInv
  BY <1>3, PoolFacts DEF ControlInv, PoolInit, At, Idle, Pd
<1> QED BY <1>1, <1>5, <1>6 DEF PoolBase

LEMMA PoolBaseStep ==
    ASSUME PoolBase, [PoolNext]_vars
    PROVE  PoolBase' /\ [Next]_qvars
<1>1. Controlled /\ QueueInv
  BY DEF PoolBase, Controlled
<1>2. [Next]_qvars
  BY <1>1, PoolStepIsQueueStep
<1>3. QueueInv'
  BY <1>1, <1>2, QueueInvStep
<1> QED BY <1>1, <1>2, <1>3, PoolTypeStep, ControlStep DEF PoolBase

LEMMA PoolBaseHolds == PoolSpec => []PoolBase
  BY PoolBaseInit, PoolBaseStep, PTL DEF PoolSpec

(* The pool implements the queue.  Whatever is proved of the queue under   *)
(* clients that may try any operation at any time is therefore true of the *)
(* queue under the handlers, workers and sweepers of any number of pods,   *)
(* their crashes and their errors included.                                *)
THEOREM PoolRefinesQueue == PoolSpec => ImplementsQueue
<1>1. PoolInit => Init
  BY DEF PoolInit
<1>2. PoolBase /\ [PoolNext]_vars => [Next]_qvars
  BY PoolBaseStep
<1> QED BY <1>1, <1>2, PoolBaseHolds, PTL DEF PoolSpec, Spec, ImplementsQueue

(* The pods, workers and handlers keep states of their types: in           *)
(* particular a worker never works on more attempts than a generation has. *)
THEOREM PoolTypeCorrect == PoolSpec => []PoolTypeOK
<1>1. PoolBase => PoolTypeOK
  BY DEF PoolBase
<1> QED BY <1>1, PoolBaseHolds, PTL

-----------------------------------------------------------------------------
(* What a step that claims nothing does to the running rows.               *)
RowsKept ==
    \A g \in Gen :
      gens'[g].status = "running" =>
        /\ gens[g].status = "running"
        /\ gens'[g].owner = gens[g].owner
        /\ gens'[g].attempts = gens[g].attempts

LEMMA RenewKeepsOwner ==
    ASSUME TypeOK, NEW o \in Owner, NEW g \in Gen, RenewLease(o, g)
    PROVE  RowsKept
  BY RenewEffect DEF RowsKept

LEMMA EndKeepsRows ==
    ASSUME TypeOK, NEW w \in Worker, Me(w) \in Owner, Job(w) \in Gen,
           work[w].reason \in Reason, Ends(w)
    PROVE  RowsKept /\ gens'[Job(w)].status # "running"
  BY EndEffect DEF Ends, EndsRow, RowsKept

LEMMA RecoverKeepsRows ==
    ASSUME TypeOK, NEW s \in Sweeper, RecoverFail(s)
    PROVE  RowsKept
<1>1. ASSUME NEW g \in Gen, gens'[g].status = "running" PROVE gens'[g] = gens[g]
  BY <1>1, RecoverEffect
<1> QED BY <1>1 DEF RowsKept

LEMMA TickKeepsRows == ASSUME TypeOK, Tick PROVE RowsKept
  BY TickEffect DEF RowsKept

LEMMA SameRowsKept == UNCHANGED gens => RowsKept
  BY DEF RowsKept

(* What a step does to a worker: it goes on with its job or without one,   *)
(* or takes one up, or gives its own up.                                   *)
GoesOn(w) ==
    \/ work[w].pc \in Idle /\ work'[w].pc \in Idle
    \/ /\ work[w].pc \notin Idle /\ work'[w].pc \notin Idle
       /\ work'[w].gen = Job(w)
       /\ work'[w].attempt = work[w].attempt
       /\ Me(w)' = Me(w)

GivesUp(w) ==
    /\ work[w].pc \notin Idle /\ work'[w].pc \in Idle
    /\ \/ gens'[Job(w)].status # "running"
       \/ ~Holds(Job(w), Me(w))
       \/ faults' = faults + 1
       \/ Crashing # {}

(* But for claims, no step turns a row over, and at most one job ends at a *)
(* fault; without crashes, at most one worker gives up its job.            *)
AllGoOn == RowsKept /\ faults' >= faults /\ \A w \in Worker : GoesOn(w)

OneGivesUp(w) ==
    /\ RowsKept /\ faults' >= faults
    /\ GivesUp(w)
    /\ \A v \in Worker \ {w} : GoesOn(v)

Dies ==
    /\ UNCHANGED gens /\ Crashing # {}
    /\ \A w \in Worker : GoesOn(w) \/ work'[w].pc \in Idle

OneTakes(w, g) ==
    /\ work[w].pc = "claim"
    /\ ClaimNext(Me(w), g)
    /\ \A v \in Worker : Me(v)' = Me(v)
    /\ \A v \in Worker \ {w} : work'[v] = work[v]
    /\ \/ work'[w] = Claimed(w, g) /\ faults' = faults
       \/ work'[w].pc \in Idle /\ faults' = faults + 1

LEMMA WorkersMove ==
    ASSUME PoolBase, [PoolNext]_vars
    PROVE  \/ AllGoOn
           \/ \E w \in Worker : OneGivesUp(w)
           \/ \E w \in Worker, g \in Gen : OneTakes(w, g)
           \/ Dies
<1> USE DEF PoolBase, Controlled
<1>0. /\ work \in [Worker -> WorkState] /\ pods \in [Pod -> PodState]
      /\ faults \in Nat /\ \A w \in Worker : PodOf[w] \in Pod
  BY PoolFacts DEF PoolTypeOK
<1>1. Idle \subseteq PC /\ (\A pc \in PC : At(pc).pc = pc) /\ "select" \in Idle /\ "exited" \in Idle
  BY PoolFacts DEF At, Idle
<1>2. FaultsGrow => faults' >= faults
  BY <1>0 DEF FaultsGrow
<1>3. (Fault => faults' = faults + 1) /\ (NoFault => faults' = faults)
  BY DEF Fault, NoFault
<1>4. ASSUME PodsKept, NEW v \in Worker PROVE Me(v)' = Me(v)
  BY <1>0, <1>4 DEF PodsKept, Me, Pd, OwnerOf
<1>5. ASSUME NEW v \in Worker, Me(v)' = Me(v), UNCHANGED work[v] PROVE GoesOn(v)
  BY <1>5 DEF GoesOn, Job
<1>6. TypeOK
  BY DEF QueueInv
<1>7. UNCHANGED qvars => UNCHANGED gens
  BY DEF qvars
<1>8. ASSUME NEW c \in Caller, Posts(c) PROVE AllGoOn
  <2>1. RowsKept
    <3>1. ASSUME NEW g \in Gen, EnqueueInsert(c, g) PROVE RowsKept
      BY <1>6, <3>1, InsertEffect DEF RowsKept
    <3> QED BY <1>7, <1>8, <3>1, SameRowsKept
            DEF Posts, EnqueueLock, EnqueueCount, Disconnect
  <2> QED BY <1>2, <1>4, <1>5, <1>8, <2>1 DEF Posts, AllGoOn
<1>9. ASSUME NEW w \in Worker, Idles(w) PROVE AllGoOn
  <2>1. RowsKept
    BY <1>7, <1>9, SameRowsKept DEF Idles
  <2>2. PICK pc \in Idle : work' = [work EXCEPT ![w] = At(pc)]
    BY <1>9 DEF Idles, Goto
  <2>3. GoesOn(w)
    BY <1>0, <1>1, <1>9, <2>2 DEF Idles, GoesOn, Idle
  <2>4. \A v \in Worker \ {w} : GoesOn(v)
    BY <1>0, <1>4, <1>5, <1>9, <2>2 DEF Idles
  <2> QED BY <1>2, <1>9, <2>1, <2>3, <2>4 DEF Idles, AllGoOn
<1>10. ASSUME NEW w \in Worker, NEW g \in Gen, Takes(w, g) PROVE OneTakes(w, g)
  BY <1>0, <1>1, <1>3, <1>4, <1>10 DEF Takes, Goto, OneTakes
<1>11. ASSUME NEW w \in Worker, Works(w) PROVE AllGoOn
  <2>1. Me(w) \in Owner /\ Job(w) \in Gen /\ work[w].reason \in Reason
    BY <1>0, <1>11, OwnerFacts, BusyHasJob DEF Works, WorkState
  <2>2. RowsKept
    BY <1>6, <1>7, <1>11, <2>1, SameRowsKept, RenewKeepsOwner, EndKeepsRows DEF Works, Ends
  <2>3. \A v \in Worker : Me(v)' = Me(v)
    BY <1>4, <1>11, SamePodsKept DEF Works
  <2>4. GoesOn(w)
    BY <1>0, <1>11, <2>3 DEF Works, Goto, GoesOn
  <2>5. \A v \in Worker \ {w} : GoesOn(v)
    BY <1>0, <1>5, <1>11, <2>3 DEF Works, Goto
  <2> QED BY <1>2, <1>11, <2>2, <2>4, <2>5 DEF Works, AllGoOn
<1>12. ASSUME NEW w \in Worker, Reports(w) PROVE OneGivesUp(w)
  <2>1. Me(w) \in Owner /\ Job(w) \in Gen /\ work[w].reason \in Reason
    BY <1>0, <1>12, OwnerFacts, BusyHasJob DEF Reports, WorkState
  <2>2. RowsKept
    BY <1>6, <1>7, <1>12, <2>1, SameRowsKept, EndKeepsRows DEF Reports
  <2>3. \A v \in Worker : Me(v)' = Me(v)
    BY <1>4, <1>12, SamePodsKept DEF Reports
  <2>4. work[w].pc \notin Idle /\ work'[w].pc \in Idle
    BY <1>0, <1>1, <1>12 DEF Reports, Goto, PC
  <2>5. \/ gens'[Job(w)].status # "running"
        \/ ~Holds(Job(w), Me(w))
        \/ faults' = faults + 1
    BY <1>3, <1>6, <1>12, <2>1, EndKeepsRows DEF Reports
  <2>6. \A v \in Worker \ {w} : GoesOn(v)
    BY <1>0, <1>5, <1>12, <2>3 DEF Reports, Goto
  <2>7. faults' >= faults
    BY <1>0, <1>2, <1>3, <1>12 DEF Reports
  <2> QED BY <2>2, <2>4, <2>5, <2>6, <2>7 DEF OneGivesUp, GivesUp
<1>13. ASSUME NEW p \in Pod, Serves(p) PROVE AllGoOn
  <2>1. RowsKept
    BY <1>6, <1>7, <1>13, SameRowsKept, RecoverKeepsRows, PoolFacts
       DEF Serves, RecoverRequeue, Disconnect
  <2>2. ASSUME NEW v \in Worker PROVE GoesOn(v)
    <3>1. CASE PodOf[v] # p
      BY <1>0, <1>5, <1>13, <3>1 DEF Serves, Pd, Me
    <3>2. CASE PodOf[v] = p /\ pods[p].phase \in {"down", "starting"}
      <4>1. work[v].pc = "exited"
        BY <3>2 DEF ControlInv, Pd
      <4> QED BY <1>0, <1>1, <1>13, <3>2, <4>1 DEF Serves, GoesOn, PC
    <3>3. CASE PodOf[v] = p /\ pods[p].phase \notin {"down", "starting"}
      BY <1>0, <1>5, <1>13, <3>3 DEF Serves, Pd, Me
    <3> QED BY <3>1, <3>2, <3>3
  <2> QED BY <1>2, <1>13, <2>1, <2>2 DEF Serves, AllGoOn
<1>14. ASSUME NEW p \in Pod, Stops(p) PROVE AllGoOn \/ Dies
  <2>1. UNCHANGED gens /\ UNCHANGED faults
    BY <1>14 DEF Stops, Halt, Disconnect
  <2>2. ASSUME NEW v \in Worker, PodOf[v] # p PROVE GoesOn(v)
    BY <1>0, <1>5, <1>14, <2>2 DEF Stops, Halt, Pd, Me
  <2>3. ASSUME NEW v \in Worker, PodOf[v] = p PROVE work'[v].pc = "exited"
    BY <1>1, <1>14, <2>3 DEF Stops, Halt, PC
  <2>4. CASE \A w \in Worker : PodOf[w] = p => work[w].pc = "exited"
    BY <1>0, <1>1, <2>1, <2>2, <2>3, <2>4, SameRowsKept DEF AllGoOn, GoesOn
  <2>5. CASE Crashing # {}
    BY <1>1, <2>1, <2>2, <2>3, <2>5 DEF Dies
  <2> QED BY <1>14, <2>4, <2>5 DEF Stops
<1>15. ASSUME PoolTick PROVE AllGoOn
  <2>1. RowsKept
    BY <1>6, <1>15, TickKeepsRows DEF PoolTick
  <2>2. PodsKept
    BY <1>0, <1>15 DEF PoolTick, PodsKept, PodState
  <2>3. ASSUME NEW v \in Worker PROVE GoesOn(v)
    <3>1. /\ work'[v].pc = work[v].pc /\ work'[v].gen = work[v].gen
          /\ work'[v].attempt = work[v].attempt
      BY <1>0, <1>15 DEF PoolTick, WorkState
    <3> QED BY <1>4, <2>2, <3>1 DEF GoesOn, Job
  <2> QED BY <1>0, <1>15, <2>1, <2>3 DEF PoolTick, AllGoOn
<1>16. CASE Stays
  <2>1. \A v \in Worker : GoesOn(v)
    BY <1>5, <1>16 DEF Stays, vars, pvars, Me, Pd
  <2> QED BY <1>0, <1>7, <1>16, <2>1, SameRowsKept DEF Stays, vars, pvars, AllGoOn
<1> QED BY PoolMoves, <1>8, <1>9, <1>10, <1>11, <1>12, <1>13, <1>14, <1>15, <1>16

-----------------------------------------------------------------------------
(* Fencing.                                                                *)
LEMMA FenceStep ==
    ASSUME PoolBase, FenceInv, [PoolNext]_vars
    PROVE  FenceInv'
<1> SUFFICES ASSUME NEW w \in Worker, work'[w].pc \notin Idle, Holds(Job(w), Me(w))'
             PROVE  gens'[work'[w].gen].attempts = work'[w].attempt
  BY DEF FenceInv, Job
<1>0. TypeOK /\ (\A v \in Worker : Me(v) \in Owner) /\ \A u, v \in Worker : Me(u) = Me(v) => u = v
  BY OwnerFacts DEF PoolBase, PoolTypeOK
<1>1. ASSUME RowsKept, GoesOn(w) PROVE gens'[work'[w].gen].attempts = work'[w].attempt
  <2>1. /\ work[w].pc \notin Idle /\ work'[w].gen = Job(w)
        /\ work'[w].attempt = work[w].attempt /\ Me(w)' = Me(w)
    BY <1>1 DEF GoesOn
  <2>2. Job(w) \in Gen
    BY <2>1, BusyHasJob DEF PoolBase
  <2>3. Holds(Job(w), Me(w)) /\ gens'[Job(w)].attempts = gens[Job(w)].attempts
    BY <1>1, <2>1, <2>2 DEF RowsKept, Holds, Job
  <2> QED BY <2>1, <2>3 DEF FenceInv
<1>2. CASE AllGoOn
  BY <1>1, <1>2 DEF AllGoOn
<1>3. ASSUME NEW v \in Worker, OneGivesUp(v) PROVE gens'[work'[w].gen].attempts = work'[w].attempt
  BY <1>1, <1>3 DEF OneGivesUp, GivesUp
<1>4. ASSUME NEW v \in Worker, NEW g \in Gen, OneTakes(v, g)
      PROVE  gens'[work'[w].gen].attempts = work'[w].attempt
  <2>1. gens'[g].attempts = gens[g].attempts + 1 /\ gens'[g].owner = Me(v)
        /\ \A h \in Gen \ {g} : gens'[h] = gens[h]
    BY <1>0, <1>4, ClaimEffect DEF OneTakes
  <2>2. CASE w = v
    <3>1. work'[w] = Claimed(v, g)
      BY <1>4, <2>2 DEF OneTakes
    <3>2. Claimed(v, g).gen = g /\ Claimed(v, g).attempt = gens[g].attempts + 1
      BY <1>0, <1>4, ClaimedType DEF OneTakes, PoolBase
    <3> QED BY <2>1, <3>1, <3>2
  <2>3. CASE w # v
    <3>1. work'[w] = work[w] /\ Me(w)' = Me(w) /\ Me(w) # Me(v)
      BY <1>0, <1>4, <2>3 DEF OneTakes
    <3>2. work[w].pc \notin Idle /\ Job(w) \in Gen
      BY <3>1, BusyHasJob DEF PoolBase
    <3>3. Job(w) # g
      BY <2>1, <3>1 DEF Holds, Job
    <3>4. Holds(Job(w), Me(w)) /\ gens'[Job(w)] = gens[Job(w)]
      BY <2>1, <3>1, <3>2, <3>3 DEF Holds, Job
    <3> QED BY <3>1, <3>2, <3>4 DEF FenceInv, Job
  <2> QED BY <2>2, <2>3
<1>5. CASE Dies
  BY <1>1, <1>5, SameRowsKept DEF Dies
<1> QED BY WorkersMove, <1>2, <1>3, <1>4, <1>5

LEMMA PoolFenceHolds == PoolSpec => [](PoolBase /\ FenceInv)
<1>1. PoolInit => FenceInv
  BY PoolFacts DEF PoolInit, FenceInv, At, Idle
<1>2. PoolBase /\ FenceInv /\ [PoolNext]_vars => FenceInv'
  BY FenceStep
<1> QED BY <1>1, <1>2, PoolBaseHolds, PTL DEF PoolSpec

(* A step that ends a row or stores a build, in which a worker that has    *)
(* its answer moves, is that worker's own report on a row it holds.        *)
LEMMA EndsByHolder ==
    ASSUME PoolBase, [PoolNext]_vars, NEW w \in Worker,
           work[w].pc \in {"save", "complete", "mark"},
           work'[w] # work[w],
           gens'[Job(w)].status # gens[Job(w)].status \/ saved' # saved
    PROVE  Holds(Job(w), Me(w))
<1> USE DEF PoolBase, Controlled
<1>0. /\ TypeOK /\ work \in [Worker -> WorkState] /\ work[w].pc \notin Idle /\ Job(w) \in Gen
      /\ Me(w) \in Owner
  BY BusyHasJob, OwnerFacts DEF PoolTypeOK, Idle
<1>1. ASSUME UNCHANGED qvars PROVE FALSE
  BY <1>1 DEF qvars
<1>2. ASSUME NEW c \in Caller, Posts(c) PROVE FALSE
  BY <1>2 DEF Posts
<1>3. ASSUME NEW v \in Worker, Idles(v) PROVE FALSE
  BY <1>1, <1>3 DEF Idles
<1>4. ASSUME NEW v \in Worker, NEW g \in Gen, Takes(v, g) PROVE FALSE
  <2>1. v # w
    BY <1>0, <1>4 DEF Takes, Idle
  <2> QED BY <1>0, <1>4, <2>1 DEF Takes, Goto
<1>5. ASSUME NEW v \in Worker, Works(v) \/ Reports(v) PROVE Holds(Job(w), Me(w))
  <2>1. v = w
    BY <1>0, <1>5 DEF Works, Reports, Goto
  <2>2. ~UNCHANGED qvars
    BY <1>1
  <2>3. RenewLease(Me(w), Job(w)) \/ Ends(w)
    BY <1>5, <2>1, <2>2 DEF Works, Reports, Ends
  <2> QED BY <2>3 DEF Ends, RenewLease, MarkFailed, MarkCompleted, SaveAndComplete
<1>6. ASSUME NEW p \in Pod, Serves(p) PROVE FALSE
  <2>1. PodOf[w] = p /\ pods[p].phase = "starting"
    BY <1>0, <1>6 DEF Serves
  <2>2. work[w].pc = "exited"
    BY <2>1 DEF ControlInv, Pd
  <2> QED BY <1>0, <2>2 DEF Idle
<1>7. ASSUME NEW p \in Pod, Stops(p) PROVE FALSE
  BY <1>7 DEF Stops, Halt, Disconnect
<1>8. ASSUME PoolTick PROVE FALSE
  BY <1>0, <1>8, TickEffect DEF PoolTick, Tick
<1>9. CASE Stays
  BY <1>1, <1>9 DEF Stays, vars
<1> QED BY PoolMoves, <1>2, <1>3, <1>4, <1>5, <1>6, <1>7, <1>8, <1>9

(* Fencing: however many pods claim, crash, restart and recover leases,    *)
(* only the worker that made the last claim of a generation ends it.       *)
THEOREM FencingHolds == PoolSpec => OnlyLastClaimEnds
<1>1. ASSUME PoolBase, FenceInv, [PoolNext]_vars, NEW w \in Worker,
             work[w].pc \in {"save", "complete", "mark"},
             work'[w] # work[w],
             gens'[Job(w)].status # gens[Job(w)].status \/ saved' # saved
      PROVE  gens[Job(w)].attempts = work[w].attempt
  <2>1. Holds(Job(w), Me(w))
    BY <1>1, EndsByHolder
  <2> QED BY <1>1, <2>1 DEF FenceInv, Idle
<1>2. PoolBase /\ FenceInv /\ [PoolNext]_vars
        => [\A w \in Worker :
              (/\ work[w].pc \in {"save", "complete", "mark"}
               /\ work'[w] # work[w]
               /\ gens'[Job(w)].status # gens[Job(w)].status \/ saved' # saved)
              => gens[Job(w)].attempts = work[w].attempt]_vars
  BY <1>1
<1> QED BY <1>2, PoolFenceHolds, PTL DEF PoolSpec, OnlyLastClaimEnds

-----------------------------------------------------------------------------
(* Rows left without a worker.                                             *)
LEMMA StraysAreFinite == IsFiniteSet(Strays) /\ Cardinality(Strays) \in Nat
<1>1. Strays \subseteq Gen
  BY DEF Strays, With
<1> QED BY <1>1, QueueAssumption, FS_Subset, FS_CardinalityType

LEMMA FewerStrays ==
    ASSUME Strays' \subseteq Strays PROVE Cardinality(Strays') <= Cardinality(Strays)
  BY StraysAreFinite, FS_Subset

LEMMA OneMoreStray ==
    ASSUME NEW x, Strays' \subseteq Strays \cup {x}
    PROVE  Cardinality(Strays') <= Cardinality(Strays) + 1
<1>1. IsFiniteSet(Strays \cup {x}) /\ Cardinality(Strays \cup {x}) <= Cardinality(Strays) + 1
  BY StraysAreFinite, FS_AddElement
<1> QED BY <1>1, StraysAreFinite, FS_Subset, FS_CardinalityType

(* A row somebody works on is no stray. *)
LEMMA StillWorked ==
    ASSUME PoolBase, RowsKept, NEW g \in Strays', NEW w \in Worker,
           GoesOn(w), Job(w) = g
    PROVE  ~Holds(g, Me(w))
<1>1. g \in Gen /\ gens'[g].status = "running" /\ gens[g].owner = gens'[g].owner
  BY DEF Strays, With, RowsKept
<1>2. work[w].pc \notin Idle
  BY <1>1, IdleHasNoJob, PoolFacts DEF PoolBase
<1>3. Job(w)' = g /\ Me(w)' = Me(w)
  BY <1>2 DEF GoesOn, Job
<1>4. ~Holds(g, Me(w))'
  BY <1>3 DEF Strays
<1> QED BY <1>1, <1>3, <1>4 DEF Holds

LEMMA StrayStep ==
    ASSUME PoolBase, StrayInv, [PoolNext]_vars
    PROVE  StrayInv'
<1> SUFFICES ASSUME Crashing = {} PROVE Cardinality(Strays') <= faults'
  BY DEF StrayInv
<1>0. /\ faults \in Nat /\ faults' \in Nat /\ Cardinality(Strays) <= faults
      /\ Cardinality(Strays) \in Nat /\ Cardinality(Strays') \in Nat
  <2>1. Cardinality(Strays) \in Nat
    BY StraysAreFinite
  <2>2. Strays' \subseteq Gen
    BY DEF Strays, With
  <2>3. Cardinality(Strays') \in Nat
    BY <2>2, QueueAssumption, FS_Subset, FS_CardinalityType
  <2>4. faults \in Nat /\ faults' \in Nat
    BY PoolFacts, PoolBaseStep DEF PoolBase, PoolTypeOK
  <2> QED BY <2>1, <2>3, <2>4 DEF StrayInv
<1>1. CASE AllGoOn
  <2>1. Strays' \subseteq Strays
    <3> SUFFICES ASSUME NEW g \in Strays' PROVE g \in Strays
      OBVIOUS
    <3>1. g \in With("running")
      BY <1>1 DEF AllGoOn, RowsKept, Strays, With
    <3>2. \A w \in Worker : Job(w) = g => ~Holds(g, Me(w))
      BY <1>1, StillWorked DEF AllGoOn
    <3> QED BY <3>1, <3>2 DEF Strays
  <2> QED BY <1>0, <1>1, <2>1, FewerStrays DEF AllGoOn
<1>2. ASSUME NEW w \in Worker, OneGivesUp(w) PROVE Cardinality(Strays') <= faults'
  <2>1. Strays' \subseteq Strays \cup {Job(w)}
    <3> SUFFICES ASSUME NEW g \in Strays', g # Job(w) PROVE g \in Strays
      OBVIOUS
    <3>1. g \in With("running")
      BY <1>2 DEF OneGivesUp, RowsKept, Strays, With
    <3>2. \A v \in Worker : Job(v) = g => ~Holds(g, Me(v))
      BY <1>2, StillWorked DEF OneGivesUp
    <3> QED BY <3>1, <3>2 DEF Strays
  <2>2. CASE faults' = faults + 1
    <3>1. Cardinality(Strays') <= Cardinality(Strays) + 1
      BY <2>1, OneMoreStray, Zenon
    <3> QED BY <1>0, <2>2, <3>1
  <2>3. CASE faults' # faults + 1
    <3>1. gens'[Job(w)].status # "running" \/ ~Holds(Job(w), Me(w))
      BY <1>2, <2>3 DEF OneGivesUp, GivesUp
    <3>2. Job(w) \in Strays' => Job(w) \in Strays
      <4> SUFFICES ASSUME Job(w) \in Strays' PROVE Job(w) \in Strays
        OBVIOUS
      <4>1. Job(w) \in With("running") /\ ~Holds(Job(w), Me(w))
        BY <1>2, <3>1 DEF OneGivesUp, RowsKept, Strays, With
      <4>2. \A v \in Worker \ {w} : Job(v) = Job(w) => ~Holds(Job(w), Me(v))
        BY <1>2, StillWorked DEF OneGivesUp
      <4> QED BY <4>1, <4>2 DEF Strays
    <3>3. Strays' \subseteq Strays
      BY <2>1, <3>2
    <3> QED BY <1>0, <1>2, <3>3, FewerStrays DEF OneGivesUp
  <2> QED BY <2>2, <2>3
<1>3. ASSUME NEW w \in Worker, NEW g \in Gen, OneTakes(w, g)
      PROVE  Cardinality(Strays') <= faults'
  <2>0. TypeOK /\ Me(w) \in Owner /\ \A v \in Worker : Me(v) = Me(w) => v = w
    BY OwnerFacts DEF PoolBase, PoolTypeOK
  <2>1. /\ gens[g].status = "queued" /\ gens'[g].owner = Me(w) /\ gens'[g].status = "running"
        /\ \A h \in Gen \ {g} : gens'[h] = gens[h]
    BY <1>3, <2>0, ClaimEffect DEF OneTakes
  <2>2. Strays' \subseteq Strays \cup {g}
    <3> SUFFICES ASSUME NEW h \in Strays', h # g PROVE h \in Strays
      OBVIOUS
    <3>1. h \in With("running") /\ gens'[h] = gens[h]
      BY <2>1 DEF Strays, With
    <3>2. ASSUME NEW v \in Worker, Job(v) = h PROVE ~Holds(h, Me(v))
      <4>1. v # w
        BY <1>3, <3>1, <3>2, IdleHasNoJob, PoolFacts DEF OneTakes, PoolBase, Idle, With
      <4>2. work'[v] = work[v] /\ Me(v)' = Me(v)
        BY <1>3, <4>1 DEF OneTakes
      <4>3. ~Holds(h, Me(v))'
        BY <3>2, <4>2 DEF Strays, Job
      <4> QED BY <3>1, <4>2, <4>3 DEF Holds
    <3> QED BY <3>1, <3>2 DEF Strays
  <2>3. CASE work'[w] = Claimed(w, g) /\ faults' = faults
    <3>1. Claimed(w, g).gen = g
      BY <1>3, <2>0, ClaimedType DEF OneTakes, PoolBase
    <3>2. Job(w)' = g /\ Holds(g, Me(w))'
      BY <1>3, <2>1, <2>3, <3>1 DEF OneTakes, Job, Holds
    <3>3. g \notin Strays'
      BY <3>2 DEF Strays
    <3> QED BY <1>0, <2>2, <2>3, <3>3, FewerStrays
  <2>4. CASE faults' = faults + 1
    <3>1. Cardinality(Strays') <= Cardinality(Strays) + 1
      BY <2>2, OneMoreStray, Zenon
    <3> QED BY <1>0, <2>4, <3>1
  <2> QED BY <1>3, <2>3, <2>4 DEF OneTakes
<1>4. CASE Dies
  BY <1>4 DEF Dies
<1> QED BY WorkersMove, <1>1, <1>2, <1>3, <1>4

LEMMA PoolStraysHold == PoolSpec => [](PoolBase /\ StrayInv)
<1>1. PoolInit => StrayInv
  <2> SUFFICES ASSUME PoolInit PROVE Cardinality(Strays) <= faults
    BY DEF StrayInv
  <2>1. Strays = {}
    BY DEF PoolInit, Init, Strays, With, NoRow
  <2> QED BY <2>1, FS_EmptySet DEF PoolInit
<1>2. PoolBase /\ StrayInv /\ [PoolNext]_vars => StrayInv'
  BY StrayStep
<1> QED BY <1>1, <1>2, PoolBaseHolds, PTL DEF PoolSpec

(* Drains orphan no job: without crashes, the running rows whose owner is  *)
(* gone are no more than the database faults there have been, after any    *)
(* number of drains, however many jobs each of them cut short.             *)
THEOREM DrainsOrphanNothing == PoolSpec => []DrainOrphansNothing
<1>1. PoolBase /\ StrayInv => DrainOrphansNothing
  <2> SUFFICES ASSUME PoolBase, StrayInv, Crashing = {} PROVE Cardinality(Orphans) <= faults
    BY DEF DrainOrphansNothing
  <2>1. Orphans \subseteq Strays
    <3> SUFFICES ASSUME NEW g \in Orphans, NEW w \in Worker, Job(w) = g PROVE ~Holds(g, Me(w))
      BY DEF Orphans, Strays
    <3>1. work[w].pc \notin Idle
      BY IdleHasNoJob, PoolFacts DEF Orphans, With, PoolBase
    <3>2. Pd(w).phase # "down"
      BY <3>1 DEF PoolBase, ControlInv, Idle
    <3> QED BY <3>2 DEF Orphans
  <2>2. Cardinality(Orphans) <= Cardinality(Strays) /\ Cardinality(Orphans) \in Nat
    BY <2>1, StraysAreFinite, FS_Subset, FS_CardinalityType
  <2> QED BY <2>2, StraysAreFinite, PoolFacts DEF StrayInv, PoolBase, PoolTypeOK
<1> QED BY <1>1, PoolStraysHold, PTL

-----------------------------------------------------------------------------
(* The heartbeat.                                                          *)
Fresh(w) == gens[Job(w)].lease >= LeaseTTL - Lag - (HeartbeatInterval - work[w].due)

LEMMA FaultsNeverShrink ==
    ASSUME PoolBase, [PoolNext]_vars PROVE faults' >= faults /\ faults' \in Nat /\ faults \in Nat
<1>1. faults \in Nat /\ faults' \in Nat
  BY PoolFacts, PoolBaseStep DEF PoolBase, PoolTypeOK
<1>2. Controlled
  BY DEF PoolBase, Controlled
<1>3. FaultsGrow => faults' >= faults
  BY <1>1 DEF FaultsGrow
<1>4. Fault \/ NoFault => faults' >= faults
  BY <1>1 DEF Fault, NoFault
<1>5. \A w \in Worker : Idles(w) \/ Works(w) \/ Reports(w) => faults' >= faults
  BY <1>3, <1>4 DEF Idles, Works, Reports
<1>6. \A w \in Worker, g \in Gen : Takes(w, g) => faults' >= faults
  BY <1>4 DEF Takes
<1>7. \A c \in Caller : Posts(c) => faults' >= faults
  BY <1>3 DEF Posts
<1>8. \A p \in Pod : Serves(p) \/ Stops(p) => faults' >= faults
  BY <1>1, <1>3 DEF Serves, Stops, Halt
<1>9. PoolTick \/ Stays => faults' >= faults
  BY <1>1 DEF PoolTick, Stays, vars, pvars
<1> QED BY <1>1, <1>2, <1>5, <1>6, <1>7, <1>8, <1>9, PoolMoves

LEMMA LeaseStep ==
    ASSUME PoolBase, LeaseInv, [PoolNext]_vars
    PROVE  LeaseInv'
<1> SUFFICES ASSUME Timely, faults' = 0, NEW w \in Worker,
                    work'[w].beating, Holds(Job(w), Me(w))'
             PROVE  Fresh(w)'
  BY DEF LeaseInv, Fresh
<1> USE DEF PoolBase, Controlled
<1>0. /\ work \in [Worker -> WorkState] /\ pods \in [Pod -> PodState]
      /\ PodOf[w] \in Pod /\ \A g \in Gen : gens[g].lease \in Int /\ gens'[g].lease \in Int
      /\ work[w].due \in 0..HeartbeatInterval /\ work'[w].due \in 0..HeartbeatInterval
      /\ TypeOK
  <2>1. PoolTypeOK /\ PoolTypeOK'
    BY PoolBaseStep
  <2>2. /\ work \in [Worker -> WorkState] /\ pods \in [Pod -> PodState] /\ TypeOK
        /\ work' \in [Worker -> WorkState] /\ TypeOK'
    BY <2>1 DEF PoolTypeOK
  <2>3. /\ work[w].due \in 0..HeartbeatInterval
        /\ work'[w].due \in 0..HeartbeatInterval
    BY <2>2 DEF WorkState
  <2>4. ASSUME NEW g \in Gen PROVE gens[g].lease \in Int /\ gens'[g].lease \in Int
    BY <2>2, ConstantFacts, QueueAssumption DEF TypeOK, Row
  <2> QED BY <2>2, <2>3, <2>4, PoolFacts
<1>1. faults = 0
  BY FaultsNeverShrink
<1>2. LeaseTTL \in Nat /\ Lag \in Nat /\ HeartbeatInterval \in 0..LeaseTTL
  BY PoolFacts, QueueAssumption
<1>3. \A pc \in PC : ~At(pc).beating
  BY DEF At
<1>4. Idle \subseteq PC /\ "select" \in PC /\ "exited" \in PC
  BY PoolFacts DEF PC
<1>5. ASSUME work[w].beating PROVE work[w].pc \notin Idle /\ Job(w) \in Gen
  BY <1>5, IdleHasNoJob, BusyHasJob
<1>6. ASSUME UNCHANGED work[w], Me(w)' = Me(w), gens'[Job(w)] = gens[Job(w)]
      PROVE  Fresh(w)'
  <2>1. work[w].beating /\ Job(w)' = Job(w) /\ Holds(Job(w), Me(w))
    BY <1>6 DEF Job, Holds
  <2> QED BY <1>1, <1>6, <2>1 DEF LeaseInv, Fresh
<1>7. ASSUME NEW g \in Gen, Job(w)' = g, gens'[g].lease >= LeaseTTL - Lag PROVE Fresh(w)'
  BY <1>0, <1>2, <1>7 DEF Fresh
<1>8. ASSUME PodsKept, NEW v \in Worker PROVE Me(v)' = Me(v)
  BY <1>8, PoolFacts DEF PodsKept, Me, Pd, OwnerOf
<1>9. UNCHANGED qvars => UNCHANGED gens
  BY DEF qvars
<1>10. UNCHANGED pods => PodsKept
  BY SamePodsKept
<1>11. ASSUME NEW v \in Worker, v # w PROVE Me(v) # Me(w)
  BY <1>11, OwnerFacts
<1>12. ASSUME NEW c \in Caller, Posts(c) PROVE Fresh(w)'
  <2>1. work[w].beating /\ Job(w) \in Gen /\ UNCHANGED work[w] /\ Job(w)' = Job(w)
    BY <1>5, <1>12 DEF Posts, Job
  <2>2. gens'[Job(w)] = gens[Job(w)]
    <3>1. ASSUME NEW g \in Gen, EnqueueInsert(c, g) PROVE gens'[Job(w)] = gens[Job(w)]
      BY <1>0, <2>1, <3>1, InsertEffect DEF Holds
    <3> QED BY <1>9, <1>12, <3>1 DEF Posts, EnqueueLock, EnqueueCount, Disconnect
  <2> QED BY <1>6, <1>8, <1>12, <2>1, <2>2 DEF Posts
<1>13. ASSUME NEW v \in Worker, Idles(v) PROVE Fresh(w)'
  <2>1. v # w
    BY <1>0, <1>3, <1>4, <1>13 DEF Idles, Goto
  <2>2. UNCHANGED work[w]
    BY <1>0, <1>13, <2>1 DEF Idles, Goto
  <2> QED BY <1>6, <1>8, <1>9, <1>13, <2>2 DEF Idles
<1>14. ASSUME NEW v \in Worker, NEW g \in Gen, Takes(v, g) PROVE Fresh(w)'
  <2>1. /\ gens'[g].owner = Me(v) /\ gens'[g].lease >= LeaseTTL - Lag
        /\ \A h \in Gen \ {g} : gens'[h] = gens[h]
    BY <1>0, <1>14, OwnerFacts, ClaimEffect DEF Takes
  <2>2. CASE v = w
    <3>1. work'[w] = Claimed(w, g)
      BY <1>0, <1>3, <1>4, <1>14, <2>2 DEF Takes, Goto
    <3>2. Claimed(w, g).gen = g
      BY <1>14, <2>2, OwnerFacts, ClaimedType DEF Takes
    <3> QED BY <1>7, <2>1, <3>1, <3>2 DEF Job
  <2>3. CASE v # w
    <3>1. UNCHANGED work[w] /\ Me(w)' = Me(w)
      BY <1>0, <1>8, <1>14, <2>3 DEF Takes, Goto
    <3>2. Job(w) # g
      BY <1>11, <2>1, <2>3, <3>1 DEF Holds, Job
    <3>3. Job(w) \in Gen
      BY <1>5, <3>1
    <3> QED BY <1>6, <2>1, <3>1, <3>2, <3>3
  <2> QED BY <2>2, <2>3
<1>15. ASSUME NEW v \in Worker, Works(v) PROVE Fresh(w)'
  <2>0. Me(v) \in Owner /\ Job(v) \in Gen /\ Me(w)' = Me(w)
    BY <1>8, <1>10, <1>15, OwnerFacts, BusyHasJob DEF Works
  <2>1. ~Fault
    BY <1>1 DEF Fault
  <2>2. UNCHANGED gens \/ RenewLease(Me(v), Job(v))
    BY <1>9, <1>15, <2>1 DEF Works
  <2>3. CASE v = w
    <3>1. PICK s \in WorkState :
            /\ Goto(w, s)
            /\ s.gen = Job(w)
            /\ s.beating => /\ work[w].beating
                            /\ \/ s.due = work[w].due
                               \/ RenewLease(Me(w), Job(w))
                               \/ Fault
      BY <1>15, <2>3 DEF Works
    <3>2. work'[w] = s /\ Job(w)' = Job(w)
      BY <1>0, <3>1 DEF Goto, Job
    <3>3. CASE RenewLease(Me(w), Job(w))
      BY <1>0, <1>7, <2>0, <2>3, <3>2, <3>3, RenewEffect
    <3>4. CASE ~RenewLease(Me(w), Job(w))
      <4>1. UNCHANGED gens
        BY <2>2, <2>3, <3>4
      <4>2. work[w].beating /\ work'[w].due = work[w].due
        BY <2>1, <3>1, <3>2, <3>4
      <4>3. Holds(Job(w), Me(w))
        BY <2>0, <3>2, <4>1 DEF Holds
      <4> QED BY <1>1, <3>2, <4>1, <4>2, <4>3 DEF LeaseInv, Fresh
    <3> QED BY <3>3, <3>4
  <2>4. CASE v # w
    <3>1. UNCHANGED work[w] /\ Job(w)' = Job(w)
      BY <1>0, <1>15, <2>4 DEF Works, Goto, Job
    <3>2. ASSUME RenewLease(Me(v), Job(v)) PROVE gens'[Job(w)] = gens[Job(w)]
      <4>1. /\ gens'[Job(v)].owner = gens[Job(v)].owner
            /\ \A h \in Gen \ {Job(v)} : gens'[h] = gens[h]
        BY <1>0, <2>0, <3>2, RenewEffect
      <4>2. gens[Job(v)].owner = Me(v)
        BY <3>2 DEF RenewLease, Holds
      <4>3. Job(w) # Job(v)
        BY <1>11, <2>0, <2>4, <3>1, <4>1, <4>2 DEF Holds
      <4> QED BY <1>5, <3>1, <4>1, <4>3
    <3> QED BY <1>6, <2>0, <2>2, <3>1, <3>2
  <2> QED BY <2>3, <2>4
<1>16. ASSUME NEW v \in Worker, Reports(v) PROVE Fresh(w)'
  <2>0. /\ Me(v) \in Owner /\ Job(v) \in Gen /\ work[v].reason \in Reason
        /\ Me(w)' = Me(w)
    BY <1>0, <1>8, <1>10, <1>16, OwnerFacts, BusyHasJob DEF Reports, WorkState
  <2>1. v # w
    BY <1>0, <1>3, <1>4, <1>16 DEF Reports, Goto
  <2>2. UNCHANGED work[w] /\ Job(w)' = Job(w)
    BY <1>0, <1>16, <2>1 DEF Reports, Goto, Job
  <2>3. ASSUME Ends(v) PROVE gens'[Job(w)] = gens[Job(w)]
    <3>1. /\ gens'[Job(v)].status # "running"
          /\ \A h \in Gen \ {Job(v)} : gens'[h] = gens[h]
      BY <1>0, <2>0, <2>3, EndEffect DEF Ends, EndsRow
    <3> QED BY <1>5, <2>2, <3>1 DEF Holds
  <2> QED BY <1>6, <1>9, <1>16, <2>0, <2>2, <2>3 DEF Reports
<1>17. ASSUME NEW p \in Pod, Serves(p) PROVE Fresh(w)'
  <2>1. UNCHANGED work[w] /\ Job(w)' = Job(w)
    BY <1>3, <1>4, <1>17 DEF Serves, Job
  <2>2. Me(w)' = Me(w)
    <3>1. pods[PodOf[w]].phase # "down"
      BY <1>5, <2>1 DEF ControlInv, Pd, Idle
    <3> QED BY <1>0, <1>17, <3>1 DEF Serves, Me, Pd
  <2>3. gens'[Job(w)] = gens[Job(w)]
    BY <1>0, <1>5, <1>9, <1>17, <2>1, RecoverEffect, PoolFacts
       DEF Serves, RecoverRequeue, Disconnect, Holds
  <2> QED BY <1>6, <2>1, <2>2, <2>3
<1>18. ASSUME NEW p \in Pod, Stops(p) PROVE Fresh(w)'
  <2>1. PodOf[w] # p
    BY <1>3, <1>4, <1>18 DEF Stops, Halt
  <2> QED BY <1>0, <1>6, <1>18, <2>1 DEF Stops, Halt, Disconnect, Me, Pd
<1>19. ASSUME PoolTick PROVE Fresh(w)'
  <2>1. /\ work[w].beating = work'[w].beating /\ Job(w)' = Job(w)
        /\ work'[w].due = IF work[w].due > 0 THEN work[w].due - 1 ELSE work[w].due
    BY <1>0, <1>19 DEF PoolTick, WorkState, Job
  <2>2. Job(w) \in Gen /\ work[w].due > 0
    BY <1>5, <1>19, <2>1 DEF PoolTick
  <2>3. Me(w)' = Me(w)
    BY <1>0, <1>19 DEF PoolTick, Me, Pd, PodState
  <2>4. /\ gens'[Job(w)].lease >= gens[Job(w)].lease - 1
        /\ Holds(Job(w), Me(w))
    BY <1>0, <1>19, <2>1, <2>2, <2>3, TickEffect DEF PoolTick, Holds
  <2>5. Fresh(w)
    BY <1>1, <2>1, <2>4 DEF LeaseInv, Fresh
  <2> QED BY <1>0, <1>2, <2>1, <2>2, <2>4, <2>5 DEF Fresh
<1>20. CASE Stays
  BY <1>6, <1>9, <1>20 DEF Stays, vars, pvars, Me, Pd
<1> QED BY PoolMoves, <1>12, <1>13, <1>14, <1>15, <1>16, <1>17, <1>18, <1>19, <1>20

LEMMA PoolLeasesHold == PoolSpec => [](PoolBase /\ LeaseInv)
<1>1. PoolInit => LeaseInv
  <2> SUFFICES ASSUME PoolInit, NEW w \in Worker PROVE ~work[w].beating
    BY DEF LeaseInv
  <2> QED BY DEF PoolInit, At
<1>2. PoolBase /\ LeaseInv /\ [PoolNext]_vars => LeaseInv'
  BY LeaseStep
<1> QED BY <1>1, <1>2, PoolBaseHolds, PTL DEF PoolSpec

(* Two errors of the clock, that of the renewal and that of the recovery,  *)
(* fit in what a beat leaves of the lease.                                 *)
ClocksAgree == 2 * Lag <= LeaseTTL - HeartbeatInterval

(* A recovery finds no lease expired that a heartbeat keeps fresh. *)
LEMMA RecoverySparesFresh ==
    ASSUME PoolBase, ClocksAgree, NEW w \in Worker, NEW p \in Pod,
           Job(w) \in Gen, gens[Job(w)].status = "running", Fresh(w), RecoverFail(p)
    PROVE  gens'[Job(w)] = gens[Job(w)]
<1>1. TypeOK /\ SweepInv /\ p \in Sweeper
  BY PoolFacts DEF PoolBase, QueueInv
<1>2. gens[Job(w)].lease >= Lag
  <2>1. /\ gens[Job(w)].lease \in Int /\ work[w].due \in 0..HeartbeatInterval
        /\ LeaseTTL \in Nat /\ Lag \in Nat /\ HeartbeatInterval \in 0..LeaseTTL
    BY <1>1, ConstantFacts, PoolFacts, QueueAssumption
       DEF TypeOK, Row, PoolBase, PoolTypeOK, WorkState
  <2> QED BY <2>1 DEF Fresh, ClocksAgree
<1>3. sweep[p].cutoff <= Lag /\ sweep[p].cutoff \in Int /\ Lag \in Int /\ gens[Job(w)].lease \in Int
  BY <1>1, ConstantFacts, QueueAssumption DEF TypeOK, Sweep, Reading, Row
<1>4. Job(w) \notin Expired(sweep[p].cutoff) /\ Job(w) \notin sweep[p].locked
  BY <1>1, <1>2, <1>3 DEF Expired, SweepInv
<1> QED BY <1>1, <1>4, RecoverEffect

LEMMA HeldRowStays ==
    ASSUME PoolBase, LeaseInv, ClocksAgree, [PoolNext]_vars, NEW w \in Worker,
           Timely, faults' = 0, work[w].beating, Holds(Job(w), Me(w)), UNCHANGED work[w]
    PROVE  gens'[Job(w)].owner = Me(w)
<1> USE DEF PoolBase, Controlled
<1>0. /\ work \in [Worker -> WorkState] /\ TypeOK /\ Me(w) \in Owner
      /\ work[w].pc \notin Idle /\ Job(w) \in Gen
      /\ gens[Job(w)].owner = Me(w) /\ gens[Job(w)].status = "running"
  BY IdleHasNoJob, BusyHasJob, OwnerFacts DEF PoolTypeOK, Holds
<1>1. faults = 0
  BY FaultsNeverShrink
<1>2. UNCHANGED qvars => UNCHANGED gens
  BY DEF qvars
<1>3. \A pc \in Idle : At(pc) # work[w]
  BY <1>0 DEF At
<1>4. ASSUME NEW c \in Caller, Posts(c) PROVE gens'[Job(w)] = gens[Job(w)]
  <2>1. ASSUME NEW g \in Gen, EnqueueInsert(c, g) PROVE gens'[Job(w)] = gens[Job(w)]
    BY <1>0, <2>1, InsertEffect
  <2> QED BY <1>2, <1>4, <2>1 DEF Posts, EnqueueLock, EnqueueCount, Disconnect
<1>5. ASSUME NEW v \in Worker, Idles(v) PROVE UNCHANGED gens
  BY <1>2, <1>5 DEF Idles
<1>6. ASSUME NEW v \in Worker, NEW g \in Gen, Takes(v, g) PROVE gens'[Job(w)] = gens[Job(w)]
  BY <1>0, <1>6, OwnerFacts, ClaimEffect DEF Takes
<1>7. ASSUME NEW v \in Worker, Works(v) PROVE gens'[Job(w)].owner = Me(w)
  <2>1. Me(v) \in Owner /\ Job(v) \in Gen
    BY <1>7, OwnerFacts, BusyHasJob DEF Works
  <2>2. UNCHANGED gens \/ RenewLease(Me(v), Job(v))
    BY <1>1, <1>2, <1>7 DEF Works, Fault
  <2> QED BY <1>0, <2>1, <2>2, RenewEffect
<1>8. ASSUME NEW v \in Worker, Reports(v) PROVE gens'[Job(w)] = gens[Job(w)]
  <2>1. /\ Me(v) \in Owner /\ Job(v) \in Gen /\ work[v].reason \in Reason
        /\ work[v].pc \notin Idle
    BY <1>0, <1>8, OwnerFacts, BusyHasJob DEF Reports, WorkState
  <2>2. v # w
    BY <1>0, <1>3, <1>8 DEF Reports, Goto, Idle
  <2>3. ASSUME Ends(v) PROVE gens'[Job(w)] = gens[Job(w)]
    <3>1. gens[Job(v)].owner = Me(v)
      BY <2>3 DEF Ends, MarkFailed, MarkCompleted, SaveAndComplete, Holds
    <3>2. Job(v) # Job(w)
      BY <1>0, <2>2, <3>1, OwnerFacts
    <3> QED BY <1>0, <2>1, <2>3, <3>2, EndEffect DEF Ends, EndsRow
  <2> QED BY <1>2, <1>8, <2>3 DEF Reports
<1>9. ASSUME NEW p \in Pod, Serves(p) PROVE gens'[Job(w)] = gens[Job(w)]
  <2>1. Fresh(w)
    BY <1>1 DEF LeaseInv, Fresh
  <2> QED BY <1>0, <1>2, <1>9, <2>1, RecoverySparesFresh DEF Serves, RecoverRequeue, Disconnect
<1>10. ASSUME NEW p \in Pod, Stops(p) PROVE UNCHANGED gens
  BY <1>10 DEF Stops, Halt, Disconnect
<1>11. ASSUME PoolTick PROVE gens'[Job(w)].owner = gens[Job(w)].owner
  BY <1>0, <1>11, TickEffect DEF PoolTick
<1>12. CASE Stays
  BY <1>0, <1>2, <1>12 DEF Stays, vars
<1> QED BY PoolMoves, <1>0, <1>4, <1>5, <1>6, <1>7, <1>8, <1>9, <1>10, <1>11, <1>12

(* Heartbeats keep the lease: while the beats are on time and the database *)
(* answers, no recovery of any pod takes a job from a worker, provided two *)
(* clock errors fit in the two thirds of a lease that a beat leaves.       *)
(* Beyond that bound, say with a lease of 4 and an error of 2, a worker    *)
(* that beats on time may still lose its job.                              *)
THEOREM HeartbeatsHold ==
    ASSUME ClocksAgree PROVE PoolSpec => HeartbeatKeepsLease
<1>1. PoolBase /\ LeaseInv /\ [PoolNext]_vars
        => [\A w \in Worker :
              (/\ Timely /\ faults' = 0
               /\ work[w].beating
               /\ Holds(Job(w), Me(w)))
              => gens'[Job(w)].owner = Me(w) \/ work'[w] # work[w]]_vars
  BY HeldRowStays
<1> QED BY <1>1, PoolLeasesHold, PTL DEF PoolSpec, HeartbeatKeepsLease

-----------------------------------------------------------------------------
(* The doorbell.                                                           *)
Awake(p) ==
    \/ pods[p].bell
    \/ \E c \in Caller : post[c] = "inserted"
    \/ \E w \in Worker : work[w].pc = "claim"

(* The bell is of one process: a pod does not hear what another enqueues.  *)
OnlyPod == \A p, q \in Pod : p = q

(* With retry disabled nothing but an insert puts a row in the queue. *)
QueueGrows == \E g \in Gen : gens[g].status # "queued" /\ gens'[g].status = "queued"

LEMMA NothingRequeued ==
    ASSUME PoolBase, MaxAttempts = 0, NEW p \in Pod, RecoverFail(p)
    PROVE  ~QueueGrows
<1> SUFFICES ASSUME NEW g \in Gen, gens[g].status # "queued" PROVE gens'[g].status # "queued"
  BY DEF QueueGrows
<1>1. TypeOK /\ SweepInv /\ p \in Sweeper
  BY PoolFacts DEF PoolBase, QueueInv
<1>2. g \notin sweep[p].locked
  BY <1>1 DEF SweepInv, TypeOK, Row
<1> QED BY <1>1, <1>2, RecoverEffect

LEMMA WorkQueuesNothing ==
    ASSUME PoolBase, NEW w \in Worker, Works(w) \/ Reports(w)
    PROVE  ~QueueGrows
<1>1. /\ TypeOK /\ Me(w) \in Owner /\ Job(w) \in Gen /\ work[w].reason \in Reason
  BY OwnerFacts, BusyHasJob DEF PoolBase, PoolTypeOK, WorkState, Works, Reports
<1>2. UNCHANGED qvars \/ RenewLease(Me(w), Job(w)) \/ Ends(w)
  BY DEF Works, Reports, Ends
<1>3. CASE UNCHANGED qvars
  BY <1>3 DEF qvars, QueueGrows
<1>4. CASE RenewLease(Me(w), Job(w))
  BY <1>1, <1>4, RenewEffect DEF QueueGrows
<1>5. CASE Ends(w)
  BY <1>1, <1>5, EndEffect DEF Ends, EndsRow, QueueGrows
<1> QED BY <1>2, <1>3, <1>4, <1>5

LEMMA DoorbellStep ==
    ASSUME PoolBase, NoLostWakeup, [PoolNext]_vars, OnlyPod
    PROVE  NoLostWakeup'
<1> SUFFICES ASSUME faults' = 0, MaxAttempts = 0, With("queued")' # {}, NEW p \in Pod,
                    pods'[p].phase = "up"
             PROVE  Awake(p)'
  BY DEF NoLostWakeup, Awake
<1> USE DEF PoolBase, Controlled
<1>0. /\ TypeOK /\ work \in [Worker -> WorkState] /\ pods \in [Pod -> PodState]
      /\ post \in [Caller -> {"idle", "checked", "inserted"}]
      /\ (\A w \in Worker : PodOf[w] = p) /\ (\A c \in Caller : PodOf[c] = p)
      /\ \A q \in Pod : q = p
  BY PoolFacts DEF PoolTypeOK, OnlyPod
<1>1. faults = 0
  BY FaultsNeverShrink
<1>2. ~Fault
  BY <1>1 DEF Fault
<1>3. ASSUME ~QueueGrows, pods[p].phase = "up" PROVE Awake(p)
  <2>1. With("queued") # {}
    BY <1>3 DEF QueueGrows, With
  <2> QED BY <1>1, <1>3, <2>1 DEF NoLostWakeup, Awake
<1>4. UNCHANGED qvars \/ UNCHANGED gens => ~QueueGrows
  BY DEF qvars, QueueGrows
<1>5. pods[p].jobsCancelled => pods[p].phase = "draining"
  BY DEF ControlInv
<1>6. ASSUME NEW c \in Caller, PostCheck(c) PROVE Awake(p)'
  <2>1. Awake(p) /\ post[c] # "inserted"
    BY <1>3, <1>4, <1>6 DEF PostCheck
  <2> QED BY <1>0, <1>6, <2>1 DEF PostCheck, Awake
<1>7. ASSUME NEW c \in Caller, PostEnqueue(c) PROVE Awake(p)'
  <2>1. CASE UNCHANGED gens
    <3>1. Awake(p)
      BY <1>3, <1>4, <1>7, <2>1 DEF PostEnqueue
    <3>2. \A d \in Caller : post[d] = "inserted" => post'[d] = "inserted"
      BY <1>0, <1>7 DEF PostEnqueue
    <3> QED BY <1>7, <3>1, <3>2 DEF PostEnqueue, Awake
  <2>2. CASE \E g \in Gen : EnqueueInsert(c, g) /\ post' = [post EXCEPT ![c] = "inserted"]
    BY <1>0, <2>2 DEF Awake
  <2> QED BY <1>7, <2>1, <2>2 DEF PostEnqueue, EnqueueLock, EnqueueCount
<1>8. ASSUME NEW c \in Caller, PostNotify(c) PROVE Awake(p)'
  BY <1>0, <1>8 DEF PostNotify, Ring, PodState, Awake
<1>9. ASSUME NEW c \in Caller, PostError(c) PROVE FALSE
  BY <1>2, <1>9 DEF PostError
<1>10. ASSUME NEW w \in Worker, WakeDone(w) \/ ClaimCancelled(w) \/ ClaimError(w) PROVE FALSE
  BY <1>0, <1>2, <1>5, <1>10 DEF WakeDone, ClaimCancelled, ClaimError, Pd
<1>11. ASSUME NEW w \in Worker, Wake(w) PROVE Awake(p)'
  <2>1. work'[w].pc = "claim"
    BY <1>0, <1>11 DEF Wake, Goto, At
  <2> QED BY <2>1 DEF Awake
<1>12. ASSUME NEW w \in Worker, Claim(w) PROVE Awake(p)'
  <2>1. CASE Ring(PodOf[w])
    BY <1>0, <2>1 DEF Ring, PodState, Awake
  <2>2. CASE With("queued") = {} /\ UNCHANGED qvars
    BY <2>2 DEF qvars, With
  <2>3. UNCHANGED <<qvars, pods>> => UNCHANGED qvars
    OBVIOUS
  <2> QED BY <1>12, <2>1, <2>2, <2>3 DEF Claim
<1>13. ASSUME NEW w \in Worker, Works(w) \/ Reports(w) PROVE Awake(p)'
  <2>1. Awake(p)
    BY <1>3, <1>13, WorkQueuesNothing DEF Works, Reports
  <2>2. \A v \in Worker : work[v].pc = "claim" => work'[v].pc = "claim"
    BY <1>0, <1>13 DEF Works, Reports, Goto, Idle
  <2> QED BY <1>13, <2>1, <2>2 DEF Works, Reports, Awake
<1>14. ASSUME NEW q \in Pod, SweepBegin(q) PROVE Awake(p)'
  <2>1. Awake(p) /\ pods'[p].bell = pods[p].bell
    BY <1>0, <1>3, <1>4, <1>14 DEF SweepBegin, RecoverRequeue, PodState
  <2> QED BY <1>14, <2>1 DEF SweepBegin, Awake
<1>15. ASSUME NEW q \in Pod, SweepCommit(q) PROVE Awake(p)'
  <2>1. CASE pods[p].phase = "starting"
    BY <1>0, <1>15, <2>1 DEF SweepCommit, StartPool, PodState, Awake
  <2>2. CASE pods[p].phase # "starting"
    <3>1. UNCHANGED <<pods, work>> /\ q = p
      BY <1>0, <1>15, <2>2 DEF SweepCommit
    <3>2. Awake(p)
      BY <1>3, <1>15, <3>1, NothingRequeued DEF SweepCommit
    <3> QED BY <1>15, <3>1, <3>2 DEF SweepCommit, Awake
  <2> QED BY <2>1, <2>2
<1>16. ASSUME NEW q \in Pod, \/ SweepError(q) \/ Shutdown(q) \/ Boot(q)
                             \/ Exit(q) \/ Crash(q)
       PROVE  FALSE
  BY <1>0, <1>2, <1>16 DEF SweepError, Shutdown, Boot, Exit, Crash, Halt, PodState
<1>17. ASSUME NEW q \in Pod, SweeperStops(q) \/ ShutdownTimeout(q) PROVE Awake(p)'
  <2>1. pods[p].phase = "up" /\ pods'[p].bell = pods[p].bell
    BY <1>0, <1>17 DEF SweeperStops, ShutdownTimeout, PodState
  <2>2. Awake(p)
    BY <1>3, <1>4, <1>17, <2>1 DEF SweeperStops, ShutdownTimeout
  <2> QED BY <1>17, <2>1, <2>2 DEF SweeperStops, ShutdownTimeout, Awake
<1>18. ASSUME PoolTick PROVE Awake(p)'
  <2>1. ~QueueGrows
    BY <1>0, <1>18, TickEffect DEF PoolTick, QueueGrows
  <2>2. /\ pods'[p].bell = pods[p].bell /\ pods'[p].phase = pods[p].phase
        /\ \A w \in Worker : work'[w].pc = work[w].pc
    BY <1>0, <1>18 DEF PoolTick, PodState, WorkState
  <2> QED BY <1>3, <1>18, <2>1, <2>2 DEF PoolTick, Awake
<1>19. CASE UNCHANGED vars
  BY <1>3, <1>4, <1>19 DEF vars, pvars, Awake
<1>20. ASSUME NEW w \in Worker, \/ Save(w) \/ Mark(w) \/ Complete(w) \/ Embed(w) \/ EmbedStalls(w)
                                \/ Malformed(w) \/ RunStep(w) \/ Heartbeat(w)
                                \/ HeartbeatStops(w)
       PROVE  Awake(p)'
  BY <1>13, <1>20, JobMoves, EndMoves
<1> QED BY <1>6, <1>7, <1>8, <1>9, <1>10, <1>11, <1>12, <1>14, <1>15, <1>16, <1>17,
           <1>18, <1>19, <1>20
        DEF PoolNext, HandlerStep, LoopStep, SweepStep, FaultStep

LEMMA DoorbellHolds == ASSUME OnlyPod PROVE PoolSpec => [](PoolBase /\ NoLostWakeup)
<1>1. PoolInit => NoLostWakeup
  BY DEF PoolInit, NoLostWakeup
<1>2. PoolBase /\ NoLostWakeup /\ [PoolNext]_vars => NoLostWakeup'
  BY DoorbellStep
<1> QED BY <1>1, <1>2, PoolBaseHolds, PTL DEF PoolSpec

(* The bell is kept: in a deployment of one pod, however many handlers     *)
(* enqueue and workers wait, a queued row never depends on the fallback    *)
(* poll; and the parts of the inductive invariant hold together.           *)
THEOREM BellIsKept == ASSUME OnlyPod PROVE PoolSpec => []DoorbellInv
<1>1. PoolBase /\ FenceInv /\ LeaseInv /\ StrayInv /\ NoLostWakeup => DoorbellInv
  BY DEF PoolBase, DoorbellInv, PoolInv
<1> QED BY <1>1, PoolFenceHolds, PoolLeasesHold, PoolStraysHold, DoorbellHolds, PTL

=============================================================================
