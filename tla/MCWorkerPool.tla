---------------------------- MODULE MCWorkerPool ----------------------------
(* The worker pool on small instances. *)
EXTENDS WorkerPool, TLC

MCReason == {ProviderError, ValidationLate, ShutdownInterrupt}

MCOwner == Worker \X (0..MaxLife)

(* All workers and handlers in one pod. *)
OnePod == [x \in Worker \cup Caller |-> CHOOSE p \in Pod : TRUE]

(* As many pods as workers, one worker each; the handlers in the first. *)
EachItsOwnPod ==
    LET podOf == CHOOSE f \in [Worker -> Pod] : \A p \in Pod : \E w \in Worker : f[w] = p
    IN  [x \in Worker \cup Caller |->
           IF x \in Worker THEN podOf[x] ELSE CHOOSE p \in Pod : TRUE]

PoolSymmetry == Permutations(Gen) \cup Permutations(Worker)
=============================================================================
