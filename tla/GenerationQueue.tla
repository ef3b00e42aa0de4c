--------------------------- MODULE GenerationQueue ---------------------------
(***************************************************************************)
(* The generation queue of the build library: the PostgreSQL tables        *)
(* `generations' and `saved_trajectories' and the statements and           *)
(* transactions internal/buildlibrary runs against them.                   *)
(*                                                                         *)
(* The module is about the database, so its clients are as general as they *)
(* can be: any owner may try any operation on any row at any time.  What   *)
(* the worker pool does with these operations is module WorkerPool.        *)
(*                                                                         *)
(* Time.  A lease is the number of ticks until lease_expires_at, negative  *)
(* once it has passed.  The code reads the clock in Go and sends the value *)
(* with the statement, so a reading may be late (it waited for a           *)
(* connection) or come from a pod whose clock is ahead or behind: it is    *)
(* off by an element of Reading.                                           *)
(*                                                                         *)
(* Transactions run READ COMMITTED.  A transaction whose intermediate      *)
(* states other statements can interleave with is split (the capped        *)
(* enqueue, the lease recovery); one whose locks hide them is one action.  *)
(***************************************************************************)
EXTENDS Integers, FiniteSets

CONSTANTS
    Gen,          \* ids of the rows of generations that will ever exist
    Owner,        \* lease owners, `ownerBase-workerId'
    NoOwner,      \* lease_owner NULL
    Reason,       \* failure reasons a worker reports
    NoReason,     \* failure_reason NULL
    LeaseExpired, \* the reason lease_expired
    Caller,       \* connections that run EnqueueIfUnderCap
    Sweeper,      \* connections that run RecoverExpiredLeases
    Cap,          \* GENERATION_QUEUE_CAP
    MaxAttempts,  \* GENERATION_MAX_ATTEMPTS, 0 when retry is disabled
    LeaseTTL,     \* GENERATION_LEASE_TTL, in ticks
    Lag,          \* bound on the error of a clock reading, in ticks
    Persist       \* TRUE when the pool has a save callback

ASSUME QueueAssumption ==
    /\ IsFiniteSet(Gen)
    /\ NoOwner \notin Owner
    /\ NoReason \notin Reason
    /\ LeaseExpired \notin Reason \cup {NoReason}
    /\ Cap \in Nat \ {0}
    /\ MaxAttempts \in Nat
    /\ LeaseTTL \in Nat
    /\ Lag \in Nat
    /\ 2 * Lag <= LeaseTTL
    /\ Persist \in BOOLEAN

VARIABLES
    gens,      \* the table generations
    saved,     \* the ids in saved_trajectories
    accepted,  \* those of them with accepted_at set
    enq,       \* where each capped enqueue stands
    sweep      \* where each lease recovery stands

qvars == <<gens, saved, accepted, enq, sweep>>

-----------------------------------------------------------------------------
Reading == (-Lag)..Lag

(* A lease stops counting down once every clock reading finds it expired.  *)
Floor == -(Lag + 1)

(* How often a generation may be claimed. *)
Budget == IF MaxAttempts = 0 THEN 1 ELSE MaxAttempts

Status == {"absent", "queued", "running", "completed", "failed"}

Row == [status   : Status,
        created  : Nat,
        attempts : Nat,
        owner    : Owner \cup {NoOwner},
        lease    : Floor..(LeaseTTL + Lag),
        reason   : Reason \cup {NoReason, LeaseExpired}]

NoRow == [status |-> "absent", created |-> 0, attempts |-> 0,
          owner |-> NoOwner, lease |-> 0, reason |-> NoReason]

Sweep == [open : BOOLEAN, cutoff : Reading, locked : SUBSET Gen]

NoSweep == [open |-> FALSE, cutoff |-> 0, locked |-> {}]

TypeOK ==
    /\ gens \in [Gen -> Row]
    /\ saved \in SUBSET Gen
    /\ accepted \in SUBSET Gen
    /\ enq \in [Caller -> {"idle", "locked", "counted"}]
    /\ sweep \in [Sweeper -> Sweep]

With(status) == {g \in Gen : gens[g].status = status}
InFlight == With("queued") \cup With("running")
Terminal == With("completed") \cup With("failed")
Present  == Gen \ With("absent")

(* Rows an open recovery has updated and not yet committed: a statement    *)
(* that wants to update one waits for the commit.                          *)
Locked == UNION {sweep[s].locked : s \in Sweeper}

(* Mutant: the fencing clause without lease_owner. *)
HoldsAny(g, o) == gens[g].status = "running"

Holds(g, o) == gens[g].status = "running" /\ gens[g].owner = o

Init ==
    /\ gens = [g \in Gen |-> NoRow]
    /\ saved = {}
    /\ accepted = {}
    /\ enq = [c \in Caller |-> "idle"]
    /\ sweep = [s \in Sweeper |-> NoSweep]

-----------------------------------------------------------------------------
(* EnqueueIfUnderCap: the advisory lock, the count, the insert.            *)

(* Mutant: no advisory lock. *)
EnqueueUnlocked(c) ==
    /\ enq[c] = "idle"
    /\ enq' = [enq EXCEPT ![c] = "locked"]
    /\ UNCHANGED <<gens, saved, accepted, sweep>>

EnqueueLock(c) ==
    /\ enq[c] = "idle"
    /\ \A d \in Caller : enq[d] = "idle"
    /\ enq' = [enq EXCEPT ![c] = "locked"]
    /\ UNCHANGED <<gens, saved, accepted, sweep>>

EnqueueCount(c) ==
    /\ enq[c] = "locked"
    /\ enq' = [enq EXCEPT ![c] = IF Cardinality(InFlight) >= Cap
                                 THEN "idle" ELSE "counted"]
    /\ UNCHANGED <<gens, saved, accepted, sweep>>

EnqueueInsert(c, g) ==
    /\ enq[c] = "counted"
    /\ gens[g].status = "absent"
    /\ gens' = [gens EXCEPT ![g] = [NoRow EXCEPT !.status = "queued",
                                                 !.created = Cardinality(Present)]]
    /\ enq' = [enq EXCEPT ![c] = "idle"]
    /\ UNCHANGED <<saved, accepted, sweep>>

-----------------------------------------------------------------------------
(* The statements of the workers.                                          *)

(* Mutant: a claim also takes over a job whose lease has passed. *)
OldestOrExpired ==
    With("queued") \cup {g \in With("running") : gens[g].lease < 0}

Oldest == {g \in With("queued") :
              \A h \in With("queued") : gens[g].created <= gens[h].created}

ClaimNext(o, g) ==
    /\ g \in Oldest
    /\ \E r \in Reading :
         gens' = [gens EXCEPT ![g].status = "running",
                              ![g].attempts = @ + 1,
                              ![g].owner = o,
                              ![g].lease = LeaseTTL + r]
    /\ UNCHANGED <<saved, accepted, enq, sweep>>

RenewLease(o, g) ==
    /\ Holds(g, o)
    /\ g \notin Locked
    /\ \E r \in Reading : gens' = [gens EXCEPT ![g].lease = LeaseTTL + r]
    /\ UNCHANGED <<saved, accepted, enq, sweep>>

Ended(row, status, reason) ==
    [row EXCEPT !.status = status, !.reason = reason,
                !.owner = NoOwner, !.lease = 0]

(* Mutant: the UPDATE has no fencing clause. *)
MarkFailedAnyway(o, g, reason) ==
    /\ g \in Present \ Locked
    /\ gens' = [gens EXCEPT ![g] = Ended(@, "failed", reason)]
    /\ UNCHANGED <<saved, accepted, enq, sweep>>

MarkFailed(o, g, reason) ==
    /\ Holds(g, o)
    /\ g \notin Locked
    /\ gens' = [gens EXCEPT ![g] = Ended(@, "failed", reason)]
    /\ UNCHANGED <<saved, accepted, enq, sweep>>

MarkCompleted(o, g) ==
    /\ ~Persist
    /\ Holds(g, o)
    /\ g \notin Locked
    /\ gens' = [gens EXCEPT ![g] = Ended(@, "completed", NoReason)]
    /\ UNCHANGED <<saved, accepted, enq, sweep>>

(* Mutant: the INSERT stays when the UPDATE finds no row. *)
SaveThenComplete(o, g) ==
    /\ Persist
    /\ g \in Present \ saved
    /\ g \notin Locked
    /\ saved' = saved \cup {g}
    /\ gens' = IF Holds(g, o)
               THEN [gens EXCEPT ![g] = Ended(@, "completed", @.reason)]
               ELSE gens
    /\ UNCHANGED <<accepted, enq, sweep>>

(* INSERT and UPDATE commit together; the primary key refuses a second     *)
(* trajectory of the same id, and an UPDATE that finds no row rolls the    *)
(* INSERT back.                                                            *)
SaveAndComplete(o, g) ==
    /\ Persist
    /\ g \notin saved
    /\ Holds(g, o)
    /\ g \notin Locked
    /\ saved' = saved \cup {g}
    /\ gens' = [gens EXCEPT ![g] = Ended(@, "completed", @.reason)]
    /\ UNCHANGED <<accepted, enq, sweep>>

Accept(g) ==
    /\ g \in saved
    /\ accepted' = accepted \cup {g}
    /\ UNCHANGED <<gens, saved, enq, sweep>>

-----------------------------------------------------------------------------
(* RecoverExpiredLeases: one transaction, one clock reading, two UPDATEs.  *)

(* Mutant: whatever is running counts as abandoned. *)
ExpiredAnyRunning(cutoff) == With("running")

Expired(cutoff) == {g \in With("running") : gens[g].lease < cutoff}

(* Mutant: attempts <= max_attempts. *)
RetryableOnceMore == {g \in Gen : gens[g].attempts <= MaxAttempts}

Retryable == {g \in Gen : gens[g].attempts < MaxAttempts}

(* The first UPDATE.  It waits for rows another recovery has locked; its   *)
(* own effect stays invisible until the commit.                            *)
RecoverRequeue(s) ==
    /\ ~sweep[s].open
    /\ \E r \in Reading :
         /\ Expired(r) \cap Retryable \cap Locked = {}
         /\ sweep' = [sweep EXCEPT ![s] = [open |-> TRUE, cutoff |-> r,
                                           locked |-> Expired(r) \cap Retryable]]
    /\ UNCHANGED <<gens, saved, accepted, enq>>

(* Mutant: the second UPDATE reads the clock again. *)
RecoverFailLater(s) ==
    /\ sweep[s].open
    /\ \E r \in Reading :
         LET failed == Expired(r) \ sweep[s].locked
         IN  /\ failed \cap Locked = {}
             /\ gens' = [g \in Gen |->
                           IF g \in sweep[s].locked
                           THEN [gens[g] EXCEPT !.status = "queued",
                                                !.owner = NoOwner, !.lease = 0]
                           ELSE IF g \in failed
                                THEN Ended(gens[g], "failed", LeaseExpired)
                                ELSE gens[g]]
    /\ sweep' = [sweep EXCEPT ![s] = NoSweep]
    /\ UNCHANGED <<saved, accepted, enq>>

(* The second UPDATE, on what is still running and expired in the view of  *)
(* this transaction, and the commit of both.                               *)
RecoverFail(s) ==
    LET requeued == sweep[s].locked
        failed   == Expired(sweep[s].cutoff) \ requeued
    IN  /\ sweep[s].open
        /\ failed \cap Locked = {}
        /\ gens' = [g \in Gen |->
                      IF g \in requeued
                      THEN [gens[g] EXCEPT !.status = "queued",
                                           !.owner = NoOwner, !.lease = 0]
                      ELSE IF g \in failed
                           THEN Ended(gens[g], "failed", LeaseExpired)
                           ELSE gens[g]]
        /\ sweep' = [sweep EXCEPT ![s] = NoSweep]
        /\ UNCHANGED <<saved, accepted, enq>>

-----------------------------------------------------------------------------
(* A statement fails, or the process dies: the transactions open on these  *)
(* connections roll back.                                                  *)
Disconnect(callers, sweepers) ==
    /\ enq' = [c \in Caller |-> IF c \in callers THEN "idle" ELSE enq[c]]
    /\ sweep' = [s \in Sweeper |-> IF s \in sweepers THEN NoSweep ELSE sweep[s]]
    /\ UNCHANGED <<gens, saved, accepted>>

-----------------------------------------------------------------------------
(* A tick of the clock.  A recovery keeps the reading it started with, so  *)
(* the reading falls behind; a transaction lasts no longer than Lag lets.  *)
Tick ==
    /\ \A s \in Sweeper : sweep[s].open => sweep[s].cutoff > -Lag
    /\ gens' = [g \in Gen |->
                  IF gens[g].status = "running" /\ gens[g].lease > Floor
                  THEN [gens[g] EXCEPT !.lease = @ - 1]
                  ELSE gens[g]]
    /\ sweep' = [s \in Sweeper |->
                   IF sweep[s].open THEN [sweep[s] EXCEPT !.cutoff = @ - 1]
                                    ELSE sweep[s]]
    /\ UNCHANGED <<saved, accepted, enq>>

EnqueueStep == \E c \in Caller : \/ EnqueueLock(c)
                                 \/ EnqueueCount(c)
                                 \/ \E g \in Gen : EnqueueInsert(c, g)

WorkerStep == \E o \in Owner, g \in Gen :
                 \/ ClaimNext(o, g)
                 \/ RenewLease(o, g)
                 \/ \E reason \in Reason : MarkFailed(o, g, reason)
                 \/ IF Persist THEN SaveAndComplete(o, g) ELSE MarkCompleted(o, g)

RecoverStep == \E s \in Sweeper : RecoverRequeue(s) \/ RecoverFail(s)

Next ==
    \/ EnqueueStep
    \/ WorkerStep
    \/ RecoverStep
    \/ \E callers \in SUBSET Caller, sweepers \in SUBSET Sweeper :
          Disconnect(callers, sweepers)
    \/ \E g \in Gen : Accept(g)
    \/ Tick

Spec == Init /\ [][Next]_qvars

-----------------------------------------------------------------------------
(* Properties.                                                             *)

(* However many callers race on POST /generate, the cap on queued and      *)
(* running generations is never exceeded: nothing may be inserted between  *)
(* the count of EnqueueIfUnderCap and its insert.                          *)
InFlightUnderCap == Cardinality(InFlight) <= Cap

(* In the pool that persists, a generation is completed exactly when its   *)
(* trajectory is in saved_trajectories: SaveAndComplete leaves neither an  *)
(* orphaned trajectory nor a completed generation without a build.         *)
CompletedIffSaved == Persist => With("completed") = saved

(* lease_expired is reported only for a generation that has used up its    *)
(* attempts, and no generation is claimed more often than they allow: the  *)
(* second UPDATE of RecoverExpiredLeases never fails a row its first       *)
(* should have requeued, whatever happened between the two.                *)
RetryBudgetHonoured ==
    \A g \in Present :
      /\ gens[g].attempts <= Budget
      /\ gens[g].reason = LeaseExpired => gens[g].attempts = Budget

(* completed and failed are final: no late renewal, claim, recovery or     *)
(* second answer changes the row or takes its trajectory away.             *)
TerminalIsFinal ==
    [][/\ \A g \in Terminal : gens'[g] = gens[g]
       /\ saved \subseteq saved'
       /\ accepted \subseteq accepted']_qvars

(* A lease that no clock in the system has seen expire protects its owner: *)
(* the row stays with it, or ends by a statement of that owner.            *)
LeaseProtects ==
    [][\A g \in With("running") :
          gens[g].lease >= Lag =>
             \/ /\ gens'[g].status = "running"
                /\ gens'[g].owner = gens[g].owner
             \/ gens'[g].status = "completed"
             \/ gens'[g].status = "failed" /\ gens'[g].reason \in Reason]_qvars

(* The queue implements the life cycle it promises: seen without leases,   *)
(* owners and transactions, every statement is one of its steps or none.   *)
Lifecycle == INSTANCE GenerationLifecycle
                WITH state  <- [g \in Gen |-> gens[g].status],
                     tries  <- [g \in Gen |-> gens[g].attempts],
                     stored <- saved

ImplementsLifecycle == Lifecycle!Spec

-----------------------------------------------------------------------------
(* The inductive invariant behind the safety properties.                   *)

(* What the columns of a row say at each status. *)
RowOK(row) ==
    /\ row.status = "absent"  => row.attempts = 0 /\ row.reason = NoReason
    /\ row.status = "queued"  => row.attempts < Budget /\ row.reason = NoReason
    /\ row.status = "running" => row.attempts \in 1..Budget /\ row.reason = NoReason
    /\ row.status = "completed" => row.attempts <= Budget /\ row.reason = NoReason
    /\ row.status = "failed" =>
          /\ row.attempts <= Budget
          /\ row.reason = LeaseExpired => row.attempts = Budget

RowInv == \A g \in Gen : RowOK(gens[g])

SavedInv ==
    /\ saved \subseteq With("completed")
    /\ Persist => With("completed") \subseteq saved
    /\ accepted \subseteq saved

(* A row an open recovery has requeued is still running, expired and its   *)
(* own; every other row it will find expired has used up its attempts.     *)
SweepInv ==
    \A s \in Sweeper :
      /\ ~sweep[s].open => sweep[s].locked = {}
      /\ \A g \in sweep[s].locked :
            /\ gens[g].status = "running"
            /\ gens[g].attempts < MaxAttempts
            /\ gens[g].lease < sweep[s].cutoff
            /\ \A t \in Sweeper : g \in sweep[t].locked => t = s
      /\ sweep[s].open =>
            Expired(sweep[s].cutoff) \cap Retryable \subseteq sweep[s].locked

(* One caller at a time is past the advisory lock, and what it has counted *)
(* still holds when it inserts.                                            *)
EnqueueInv ==
    /\ \A c, d \in Caller : enq[c] # "idle" /\ enq[d] # "idle" => c = d
    /\ \A c \in Caller : enq[c] = "counted" => Cardinality(InFlight) < Cap
    /\ Cardinality(InFlight) <= Cap

QueueInv == TypeOK /\ RowInv /\ SavedInv /\ SweepInv /\ EnqueueInv
=============================================================================
