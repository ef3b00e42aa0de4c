------------------------- MODULE GenerationLifecycle -------------------------
(***************************************************************************)
(* What the build library promises about a generation, without leases,     *)
(* owners, transactions or clocks: it is submitted while there is room,    *)
(* started a bounded number of times, and ends once, completed with a      *)
(* stored trajectory or failed without one.                                *)
(***************************************************************************)
EXTENDS Integers, FiniteSets

CONSTANTS Gen, Cap, MaxAttempts, Persist

VARIABLES
    state,   \* generations.status
    tries,   \* generations.attempts
    stored   \* the ids in saved_trajectories

lvars == <<state, tries, stored>>

Limit == IF MaxAttempts = 0 THEN 1 ELSE MaxAttempts

InState(s) == {g \in Gen : state[g] = s}
Pending == InState("queued") \cup InState("running")

Init ==
    /\ state = [g \in Gen |-> "absent"]
    /\ tries = [g \in Gen |-> 0]
    /\ stored = {}

Submit(g) ==
    /\ state[g] = "absent"
    /\ Cardinality(Pending) < Cap
    /\ state' = [state EXCEPT ![g] = "queued"]
    /\ UNCHANGED <<tries, stored>>

Start(g) ==
    /\ state[g] = "queued"
    /\ tries[g] < Limit
    /\ state' = [state EXCEPT ![g] = "running"]
    /\ tries' = [tries EXCEPT ![g] = @ + 1]
    /\ UNCHANGED stored

Complete(g) ==
    /\ state[g] = "running"
    /\ g \notin stored
    /\ state' = [state EXCEPT ![g] = "completed"]
    /\ stored' = IF Persist THEN stored \cup {g} ELSE stored
    /\ UNCHANGED tries

Fail(g) ==
    /\ state[g] = "running"
    /\ state' = [state EXCEPT ![g] = "failed"]
    /\ UNCHANGED <<tries, stored>>

(* The generations lost by their workers: those with attempts left go back *)
(* to the queue, the others fail.                                          *)
Recover(lost) ==
    /\ lost \subseteq InState("running")
    /\ state' = [g \in Gen |->
                   IF g \in lost
                   THEN IF tries[g] < MaxAttempts THEN "queued" ELSE "failed"
                   ELSE state[g]]
    /\ UNCHANGED <<tries, stored>>

Next ==
    \/ \E g \in Gen : Submit(g) \/ Start(g) \/ Complete(g) \/ Fail(g)
    \/ \E lost \in SUBSET Gen : Recover(lost)

Spec == Init /\ [][Next]_lvars

(* Every submitted generation ends. *)
Ends == \A g \in Gen : (state[g] = "queued") ~> (state[g] \in {"completed", "failed"})
=============================================================================
