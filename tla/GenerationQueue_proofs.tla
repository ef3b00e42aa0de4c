----------------------- MODULE GenerationQueue_proofs -----------------------
(***************************************************************************)
(* Proofs about the generation queue, for any number of generations,       *)
(* owners, callers and recoveries, any cap, any number of attempts and any *)
(* lease longer than twice the clock error.                                *)
(***************************************************************************)
EXTENDS GenerationQueue, FiniteSetTheorems, TLAPS

(* The columns a row may have after an update that leaves `created' alone. *)
LEMMA ConstantFacts ==
    /\ Budget \in Nat \ {0}
    /\ Floor \in Int
    /\ 0 \in Floor..(LeaseTTL + Lag)
    /\ 0 \in Reading
    /\ NoRow \in Row
    /\ NoSweep \in Sweep
    /\ \A r \in Reading : LeaseTTL + r \in Floor..(LeaseTTL + Lag)
  BY QueueAssumption DEF Budget, Floor, Reading, NoRow, Row, Status, NoSweep, Sweep

LEMMA EndedType ==
    ASSUME NEW row \in Row, NEW status \in Status,
           NEW reason \in Reason \cup {NoReason, LeaseExpired}
    PROVE  /\ Ended(row, status, reason) \in Row
           /\ Ended(row, status, reason).status = status
           /\ Ended(row, status, reason).reason = reason
           /\ Ended(row, status, reason).attempts = row.attempts
  BY ConstantFacts DEF Ended, Row

LEMMA TypeStep == TypeOK /\ [Next]_qvars => TypeOK'
<1> SUFFICES ASSUME TypeOK, [Next]_qvars PROVE TypeOK'
  OBVIOUS
<1> USE ConstantFacts DEF TypeOK
<1>1. ASSUME NEW c \in Caller, EnqueueLock(c) PROVE TypeOK'
  BY <1>1 DEF EnqueueLock
<1>2. ASSUME NEW c \in Caller, EnqueueCount(c) PROVE TypeOK'
  BY <1>2 DEF EnqueueCount
<1>3. ASSUME NEW c \in Caller, NEW g \in Gen, EnqueueInsert(c, g) PROVE TypeOK'
  <2>1. Cardinality(Present) \in Nat
    BY QueueAssumption, FS_Subset, FS_CardinalityType DEF Present
  <2>2. [NoRow EXCEPT !.status = "queued", !.created = Cardinality(Present)] \in Row
    BY <2>1 DEF Row, NoRow, Status
  <2> QED BY <1>3, <2>2 DEF EnqueueInsert
<1>4. ASSUME NEW o \in Owner, NEW g \in Gen, ClaimNext(o, g) PROVE TypeOK'
  <2>1. gens[g] \in Row
    OBVIOUS
  <2>2. PICK r \in Reading :
          gens' = [gens EXCEPT ![g].status = "running", ![g].attempts = @ + 1,
                               ![g].owner = o, ![g].lease = LeaseTTL + r]
    BY <1>4 DEF ClaimNext
  <2>3. gens' \in [Gen -> Row]
    BY <2>1, <2>2 DEF Row, Status
  <2> QED BY <1>4, <2>3 DEF ClaimNext
<1>5. ASSUME NEW o \in Owner, NEW g \in Gen, RenewLease(o, g) PROVE TypeOK'
  <2>1. gens[g] \in Row
    OBVIOUS
  <2>2. PICK r \in Reading : gens' = [gens EXCEPT ![g].lease = LeaseTTL + r]
    BY <1>5 DEF RenewLease
  <2>3. gens' \in [Gen -> Row]
    BY <2>1, <2>2 DEF Row
  <2> QED BY <1>5, <2>3 DEF RenewLease
<1>6. ASSUME NEW o \in Owner, NEW g \in Gen, NEW reason \in Reason, MarkFailed(o, g, reason)
      PROVE  TypeOK'
  <2>1. Ended(gens[g], "failed", reason) \in Row
    BY EndedType DEF Status
  <2> QED BY <1>6, <2>1 DEF MarkFailed
<1>7. ASSUME NEW o \in Owner, NEW g \in Gen, MarkCompleted(o, g) PROVE TypeOK'
  <2>1. Ended(gens[g], "completed", NoReason) \in Row
    BY EndedType DEF Status
  <2> QED BY <1>7, <2>1 DEF MarkCompleted
<1>8. ASSUME NEW o \in Owner, NEW g \in Gen, SaveAndComplete(o, g) PROVE TypeOK'
  <2>1. gens[g].reason \in Reason \cup {NoReason, LeaseExpired}
    BY DEF Row
  <2>2. Ended(gens[g], "completed", gens[g].reason) \in Row
    BY <2>1, EndedType DEF Status
  <2> QED BY <1>8, <2>2 DEF SaveAndComplete
<1>9. ASSUME NEW g \in Gen, Accept(g) PROVE TypeOK'
  BY <1>9 DEF Accept
<1>10. ASSUME NEW s \in Sweeper, RecoverRequeue(s) PROVE TypeOK'
  <2>1. PICK r \in Reading :
          sweep' = [sweep EXCEPT ![s] = [open |-> TRUE, cutoff |-> r,
                                         locked |-> Expired(r) \cap Retryable]]
    BY <1>10 DEF RecoverRequeue
  <2>2. [open |-> TRUE, cutoff |-> r, locked |-> Expired(r) \cap Retryable] \in Sweep
    BY DEF Sweep, Expired, Retryable, With
  <2> QED BY <1>10, <2>1, <2>2 DEF RecoverRequeue
<1>11. ASSUME NEW s \in Sweeper, RecoverFail(s) PROVE TypeOK'
  <2>1. ASSUME NEW g \in Gen PROVE gens'[g] \in Row
    <3>1. gens[g] \in Row
      OBVIOUS
    <3>2. [gens[g] EXCEPT !.status = "queued", !.owner = NoOwner, !.lease = 0] \in Row
      BY <3>1 DEF Row, Status
    <3>3. Ended(gens[g], "failed", LeaseExpired) \in Row
      BY <3>1, EndedType DEF Status
    <3> QED BY <1>11, <3>1, <3>2, <3>3 DEF RecoverFail
  <2>2. gens' \in [Gen -> Row]
    BY <1>11, <2>1 DEF RecoverFail
  <2> QED BY <1>11, <2>2 DEF RecoverFail
<1>12. ASSUME NEW callers \in SUBSET Caller, NEW sweepers \in SUBSET Sweeper,
              Disconnect(callers, sweepers)
       PROVE  TypeOK'
  BY <1>12 DEF Disconnect
<1>13. ASSUME Tick PROVE TypeOK'
  <2>1. ASSUME NEW g \in Gen PROVE gens'[g] \in Row
    <3>1. gens[g] \in Row
      OBVIOUS
    <3>2. gens[g].lease > Floor => [gens[g] EXCEPT !.lease = @ - 1] \in Row
      BY <3>1, QueueAssumption DEF Row
    <3> QED BY <1>13, <3>1, <3>2 DEF Tick
  <2>2. ASSUME NEW s \in Sweeper PROVE sweep'[s] \in Sweep
    BY <1>13, QueueAssumption DEF Tick, Sweep, Reading
  <2> QED BY <1>13, <2>1, <2>2 DEF Tick
<1>14. CASE UNCHANGED qvars
  BY <1>14 DEF qvars
<1> QED
  BY <1>1, <1>2, <1>3, <1>4, <1>5, <1>6, <1>7, <1>8, <1>9, <1>10, <1>11, <1>12,
     <1>13, <1>14 DEF Next, EnqueueStep, WorkerStep, RecoverStep

LEMMA TypeInit == Init => TypeOK
  BY ConstantFacts DEF Init, TypeOK

(* The tables keep their shape: every status is one the CHECK constraint   *)
(* allows and every column has a value its type allows.                    *)
THEOREM TypeCorrect == Spec => []TypeOK
<1>1. Init => TypeOK
  BY TypeInit
<1>2. TypeOK /\ [Next]_qvars => TypeOK'
  BY TypeStep
<1> QED BY <1>1, <1>2, PTL DEF Spec

-----------------------------------------------------------------------------
(* What each statement that updates a row does to its columns.             *)
LEMMA ClaimEffect ==
    ASSUME TypeOK, NEW o \in Owner, NEW g \in Gen, ClaimNext(o, g)
    PROVE  /\ gens[g].status = "queued"
           /\ \A h \in Gen \ {g} : gens'[h] = gens[h]
           /\ gens'[g].status = "running"
           /\ gens'[g].attempts = gens[g].attempts + 1
           /\ gens'[g].owner = o
           /\ gens'[g].reason = gens[g].reason
           /\ gens'[g].lease >= LeaseTTL - Lag
           /\ UNCHANGED <<saved, accepted, enq, sweep>>
<1>1. PICK r \in Reading :
        gens' = [gens EXCEPT ![g].status = "running", ![g].attempts = @ + 1,
                             ![g].owner = o, ![g].lease = LeaseTTL + r]
  BY DEF ClaimNext
<1>2. gens[g] \in Row /\ gens \in [Gen -> Row]
  BY DEF TypeOK
<1>3. LeaseTTL + r >= LeaseTTL - Lag
  BY QueueAssumption DEF Reading
<1>4. gens[g].status = "queued" /\ UNCHANGED <<saved, accepted, enq, sweep>>
  BY DEF ClaimNext, Oldest, With
<1> QED BY <1>1, <1>2, <1>3, <1>4 DEF Row

LEMMA RenewEffect ==
    ASSUME TypeOK, NEW o \in Owner, NEW g \in Gen, RenewLease(o, g)
    PROVE  /\ gens[g].status = "running"
           /\ \A h \in Gen \ {g} : gens'[h] = gens[h]
           /\ gens'[g].status = "running"
           /\ gens'[g].attempts = gens[g].attempts
           /\ gens'[g].owner = gens[g].owner
           /\ gens'[g].reason = gens[g].reason
           /\ gens'[g].lease >= LeaseTTL - Lag
           /\ UNCHANGED <<saved, accepted, enq, sweep>>
<1>1. PICK r \in Reading : gens' = [gens EXCEPT ![g].lease = LeaseTTL + r]
  BY DEF RenewLease
<1>2. gens[g] \in Row /\ gens \in [Gen -> Row]
  BY DEF TypeOK
<1>3. LeaseTTL + r >= LeaseTTL - Lag
  BY QueueAssumption DEF Reading
<1>4. gens[g].status = "running" /\ UNCHANGED <<saved, accepted, enq, sweep>>
  BY DEF RenewLease, Holds
<1> QED BY <1>1, <1>2, <1>3, <1>4 DEF Row

(* An end of a job by its owner: MarkFailed, MarkCompleted, SaveAndComplete. *)
EndsRow(g, status, reason) ==
    /\ gens[g].status = "running"
    /\ g \notin Locked
    /\ \A h \in Gen \ {g} : gens'[h] = gens[h]
    /\ gens'[g].status = status
    /\ gens'[g].attempts = gens[g].attempts
    /\ gens'[g].reason = reason
    /\ UNCHANGED <<accepted, enq, sweep>>

LEMMA EndEffect ==
    ASSUME TypeOK, NEW g \in Gen, NEW o \in Owner
    PROVE  /\ \A reason \in Reason :
                MarkFailed(o, g, reason) =>
                  EndsRow(g, "failed", reason) /\ UNCHANGED saved
           /\ MarkCompleted(o, g) =>
                /\ EndsRow(g, "completed", NoReason)
                /\ ~Persist
                /\ UNCHANGED saved
           /\ SaveAndComplete(o, g) =>
                /\ EndsRow(g, "completed", gens[g].reason)
                /\ saved' = saved \cup {g}
<1>1. gens[g] \in Row /\ gens \in [Gen -> Row]
  BY DEF TypeOK
<1>2. ASSUME NEW status \in Status, NEW reason \in Reason \cup {NoReason, LeaseExpired},
             gens' = [gens EXCEPT ![g] = Ended(@, status, reason)]
      PROVE  /\ \A h \in Gen \ {g} : gens'[h] = gens[h]
             /\ gens'[g].status = status
             /\ gens'[g].attempts = gens[g].attempts
             /\ gens'[g].reason = reason
  <2>1. gens'[g] = Ended(gens[g], status, reason)
    BY <1>1, <1>2
  <2>2. \A h \in Gen \ {g} : gens'[h] = gens[h]
    BY <1>1, <1>2
  <2> QED BY <1>1, <2>1, <2>2, EndedType
<1>3. ASSUME NEW reason \in Reason, MarkFailed(o, g, reason)
      PROVE  EndsRow(g, "failed", reason) /\ UNCHANGED saved
  BY <1>2, <1>3 DEF MarkFailed, EndsRow, Holds, Status
<1>4. ASSUME MarkCompleted(o, g)
      PROVE  EndsRow(g, "completed", NoReason) /\ ~Persist /\ UNCHANGED saved
  BY <1>2, <1>4 DEF MarkCompleted, EndsRow, Holds, Status
<1>5. ASSUME SaveAndComplete(o, g)
      PROVE  EndsRow(g, "completed", gens[g].reason) /\ saved' = saved \cup {g}
  <2>1. gens[g].reason \in Reason \cup {NoReason, LeaseExpired}
    BY <1>1 DEF Row
  <2> QED BY <1>2, <1>5, <2>1 DEF SaveAndComplete, EndsRow, Holds, Status
<1> QED BY <1>3, <1>4, <1>5

(* The commit of a recovery. *)
LEMMA RecoverEffect ==
    ASSUME TypeOK, NEW s \in Sweeper, RecoverFail(s), NEW g \in Gen
    PROVE  LET requeued == sweep[s].locked
               failed   == Expired(sweep[s].cutoff) \ requeued
           IN  /\ g \in requeued => /\ gens'[g].status = "queued"
                                    /\ gens'[g].attempts = gens[g].attempts
                                    /\ gens'[g].reason = gens[g].reason
               /\ g \in failed => /\ gens'[g].status = "failed"
                                  /\ gens'[g].attempts = gens[g].attempts
                                  /\ gens'[g].reason = LeaseExpired
               /\ g \notin requeued \cup failed => gens'[g] = gens[g]
<1> DEFINE requeued == sweep[s].locked
           failed   == Expired(sweep[s].cutoff) \ requeued
<1>1. gens[g] \in Row
  BY DEF TypeOK
<1>2. gens'[g] = IF g \in requeued
                 THEN [gens[g] EXCEPT !.status = "queued", !.owner = NoOwner, !.lease = 0]
                 ELSE IF g \in failed
                      THEN Ended(gens[g], "failed", LeaseExpired)
                      ELSE gens[g]
  BY DEF RecoverFail
<1>3. CASE g \in requeued
  BY <1>1, <1>2, <1>3 DEF Row
<1>4. CASE g \in failed
  <2>1. gens'[g] = Ended(gens[g], "failed", LeaseExpired)
    BY <1>2, <1>4
  <2> QED BY <1>1, <1>4, <2>1, EndedType DEF Status
<1>5. CASE g \notin requeued \cup failed
  BY <1>2, <1>5
<1> QED BY <1>3, <1>4, <1>5

(* A tick changes no column but the lease. *)
LEMMA TickEffect ==
    ASSUME TypeOK, Tick, NEW g \in Gen
    PROVE  /\ gens'[g].status = gens[g].status
           /\ gens'[g].attempts = gens[g].attempts
           /\ gens'[g].reason = gens[g].reason
           /\ gens'[g].owner = gens[g].owner
           /\ gens'[g].lease = IF gens[g].status = "running" /\ gens[g].lease > Floor
                               THEN gens[g].lease - 1 ELSE gens[g].lease
<1>1. gens[g] \in Row
  BY DEF TypeOK
<1>2. gens'[g] = IF gens[g].status = "running" /\ gens[g].lease > Floor
                 THEN [gens[g] EXCEPT !.lease = @ - 1] ELSE gens[g]
  BY DEF Tick
<1> QED BY <1>1, <1>2 DEF Row

-----------------------------------------------------------------------------
(* Every step, by what it changes: the cases the invariants are proved by. *)
LEMMA StepCases ==
    ASSUME [Next]_qvars, NEW P,
           UNCHANGED gens => P,
           \A c \in Caller, g \in Gen : EnqueueInsert(c, g) => P,
           \A o \in Owner, g \in Gen : ClaimNext(o, g) => P,
           \A o \in Owner, g \in Gen : RenewLease(o, g) => P,
           \A o \in Owner, g \in Gen, reason \in Reason : MarkFailed(o, g, reason) => P,
           \A o \in Owner, g \in Gen : MarkCompleted(o, g) => P,
           \A o \in Owner, g \in Gen : SaveAndComplete(o, g) => P,
           \A s \in Sweeper : RecoverFail(s) => P,
           Tick => P
    PROVE  P
  BY DEF Next, EnqueueStep, WorkerStep, RecoverStep, qvars,
         EnqueueLock, EnqueueCount, Accept, RecoverRequeue, Disconnect

LEMMA InsertEffect ==
    ASSUME TypeOK, NEW c \in Caller, NEW g \in Gen, EnqueueInsert(c, g)
    PROVE  /\ gens[g].status = "absent"
           /\ \A h \in Gen \ {g} : gens'[h] = gens[h]
           /\ gens'[g].status = "queued"
           /\ gens'[g].attempts = 0
           /\ gens'[g].reason = NoReason
           /\ UNCHANGED <<saved, accepted, sweep>>
<1>1. gens' = [gens EXCEPT ![g] = [NoRow EXCEPT !.status = "queued",
                                                !.created = Cardinality(Present)]]
  BY DEF EnqueueInsert
<1> QED BY <1>1 DEF TypeOK, NoRow, EnqueueInsert

LEMMA RowStep ==
    ASSUME TypeOK, RowInv, SweepInv, [Next]_qvars
    PROVE  RowInv'
<1> USE ConstantFacts
<1>0. \A h \in Gen : gens[h].attempts \in Nat /\ gens[h].status \in Status
  BY DEF TypeOK, Row
<1>1. ASSUME UNCHANGED gens PROVE RowInv'
  BY <1>1 DEF RowInv, RowOK
<1>2. ASSUME NEW c \in Caller, NEW g \in Gen, EnqueueInsert(c, g) PROVE RowInv'
  BY <1>2, InsertEffect DEF RowInv, RowOK
<1>3. ASSUME NEW o \in Owner, NEW g \in Gen, ClaimNext(o, g) PROVE RowInv'
  BY <1>0, <1>3, ClaimEffect DEF RowInv, RowOK
<1>4. ASSUME NEW o \in Owner, NEW g \in Gen, RenewLease(o, g) PROVE RowInv'
  BY <1>4, RenewEffect DEF RowInv, RowOK
<1>5. ASSUME NEW o \in Owner, NEW g \in Gen, NEW reason \in Reason, MarkFailed(o, g, reason)
      PROVE  RowInv'
  BY <1>5, EndEffect, QueueAssumption DEF RowInv, RowOK, EndsRow
<1>6. ASSUME NEW o \in Owner, NEW g \in Gen, MarkCompleted(o, g) PROVE RowInv'
  BY <1>6, EndEffect DEF RowInv, RowOK, EndsRow
<1>7. ASSUME NEW o \in Owner, NEW g \in Gen, SaveAndComplete(o, g) PROVE RowInv'
  BY <1>7, EndEffect DEF RowInv, RowOK, EndsRow
<1>8. ASSUME NEW s \in Sweeper, RecoverFail(s) PROVE RowInv'
  <2> DEFINE requeued == sweep[s].locked
             failed   == Expired(sweep[s].cutoff) \ requeued
  <2>1. ASSUME NEW g \in requeued PROVE gens[g].status = "running"
                                       /\ gens[g].attempts < Budget
    <3>1. g \in Gen
      BY <2>1 DEF TypeOK, Sweep
    <3>2. gens[g].status = "running" /\ gens[g].attempts < MaxAttempts
      BY <2>1 DEF SweepInv
    <3> QED BY <1>0, <3>1, <3>2, QueueAssumption DEF Budget
  <2>2. ASSUME NEW g \in failed PROVE gens[g].status = "running"
                                     /\ gens[g].attempts = Budget
    <3>1. g \in Gen /\ gens[g].status = "running"
      BY <2>2 DEF Expired, With
    <3>2. ~(gens[g].attempts < MaxAttempts)
      BY <1>8, <2>2, <3>1 DEF SweepInv, Retryable, RecoverFail
    <3>3. gens[g].attempts \in 1..Budget
      BY <3>1 DEF RowInv, RowOK
    <3> QED BY <1>0, <3>1, <3>2, <3>3, QueueAssumption DEF Budget
  <2>3. ASSUME NEW g \in Gen PROVE RowOK(gens'[g])
    <3>1. CASE g \in requeued
      BY <1>8, <2>1, <3>1, RecoverEffect DEF RowInv, RowOK
    <3>2. CASE g \in failed
      BY <1>8, <2>2, <3>2, RecoverEffect DEF RowInv, RowOK
    <3>3. CASE g \notin requeued \cup failed
      <4>1. gens'[g] = gens[g]
        BY <1>8, <3>3, RecoverEffect
      <4> QED BY <4>1 DEF RowInv, RowOK
    <3> QED BY <3>1, <3>2, <3>3
  <2> QED BY <2>3 DEF RowInv, RowOK
<1>9. ASSUME Tick PROVE RowInv'
  BY <1>9, TickEffect DEF RowInv, RowOK
<1> QED BY <1>1, <1>2, <1>3, <1>4, <1>5, <1>6, <1>7, <1>8, <1>9, StepCases

LEMMA SavedStep ==
    ASSUME TypeOK, SavedInv, SweepInv, [Next]_qvars
    PROVE  SavedInv'
<1>1. ASSUME UNCHANGED <<gens, saved>>, accepted' \subseteq saved PROVE SavedInv'
  BY <1>1 DEF SavedInv, With
<1>2. ASSUME NEW c \in Caller, NEW g \in Gen, EnqueueInsert(c, g) PROVE SavedInv'
  BY <1>2, InsertEffect DEF SavedInv, With
<1>3. ASSUME NEW o \in Owner, NEW g \in Gen, ClaimNext(o, g) PROVE SavedInv'
  BY <1>3, ClaimEffect DEF SavedInv, With
<1>4. ASSUME NEW o \in Owner, NEW g \in Gen, RenewLease(o, g) PROVE SavedInv'
  BY <1>4, RenewEffect DEF SavedInv, With
<1>5. ASSUME NEW o \in Owner, NEW g \in Gen, NEW reason \in Reason, MarkFailed(o, g, reason)
      PROVE  SavedInv'
  BY <1>5, EndEffect DEF SavedInv, With, EndsRow
<1>6. ASSUME NEW o \in Owner, NEW g \in Gen, MarkCompleted(o, g) PROVE SavedInv'
  BY <1>6, EndEffect DEF SavedInv, With, EndsRow
<1>7. ASSUME NEW o \in Owner, NEW g \in Gen, SaveAndComplete(o, g) PROVE SavedInv'
  BY <1>7, EndEffect DEF SavedInv, With, EndsRow
<1>8. ASSUME NEW s \in Sweeper, RecoverFail(s) PROVE SavedInv'
  <2> DEFINE requeued == sweep[s].locked
             failed   == Expired(sweep[s].cutoff) \ requeued
  <2>1. UNCHANGED <<saved, accepted>>
    BY <1>8 DEF RecoverFail
  <2>2. \A g \in requeued \cup failed : gens[g].status = "running"
    BY <1>8 DEF SweepInv, Expired, With, RecoverFail
  <2>3. With("completed")' = With("completed")
    BY <1>8, <2>2, RecoverEffect DEF With
  <2> QED BY <2>1, <2>3 DEF SavedInv
<1>9. ASSUME Tick PROVE SavedInv'
  <2>1. With("completed")' = With("completed")
    BY <1>9, TickEffect DEF With
  <2> QED BY <1>9, <2>1 DEF SavedInv, Tick
<1>10. UNCHANGED gens => SavedInv'
  BY <1>1, <1>2, <1>3, <1>4, <1>5, <1>6, <1>7, <1>8, <1>9
     DEF Next, EnqueueStep, WorkerStep, RecoverStep, qvars, EnqueueLock, EnqueueCount,
         Accept, RecoverRequeue, Disconnect, SavedInv
<1> QED BY <1>1, <1>2, <1>3, <1>4, <1>5, <1>6, <1>7, <1>8, <1>9, <1>10, StepCases

-----------------------------------------------------------------------------
(* A statement on a row no recovery has locked keeps the recoveries'       *)
(* invariant when it leaves the row ended or with a lease just set, which  *)
(* is expired for no clock reading.                                        *)
LEMMA SweepKept ==
    ASSUME TypeOK, SweepInv, NEW g \in Gen,
           g \notin Locked,
           \A h \in Gen \ {g} : gens'[h] = gens[h],
           gens'[g].status = "running" => gens'[g].lease >= LeaseTTL - Lag,
           gens'[g].lease \in Int,
           UNCHANGED sweep
    PROVE  SweepInv'
<1>1. \A s \in Sweeper : g \notin sweep[s].locked
  BY DEF Locked
<1>2. \A s \in Sweeper : sweep[s].cutoff \in Reading /\ sweep[s].locked \subseteq Gen
  BY DEF TypeOK, Sweep
<1>3. \A s \in Sweeper : \A h \in sweep[s].locked : gens'[h] = gens[h]
  BY <1>1, <1>2
<1>4. \A s \in Sweeper : g \notin Expired(sweep[s].cutoff)'
  BY <1>2, QueueAssumption DEF Expired, With, Reading
<1>5. \A s \in Sweeper :
        Expired(sweep[s].cutoff)' \cap Retryable' \subseteq Expired(sweep[s].cutoff) \cap Retryable
  BY <1>4 DEF Expired, With, Retryable
<1> QED BY <1>2, <1>3, <1>5 DEF SweepInv

LEMMA SweepInvStep ==
    ASSUME TypeOK, RowInv, SweepInv, [Next]_qvars
    PROVE  SweepInv'
<1>0. TypeOK'
  BY TypeStep
<1>a. /\ \A s \in Sweeper : sweep[s].cutoff \in Reading /\ sweep[s].locked \subseteq Gen
      /\ \A g \in Gen : gens'[g].lease \in Int /\ gens[g].lease \in Int
  BY <1>0, ConstantFacts DEF TypeOK, Sweep, Row
<1>b. \A g \in Locked : gens[g].status = "running"
  BY DEF Locked, SweepInv
<1>1. ASSUME UNCHANGED <<gens, sweep>> PROVE SweepInv'
  BY <1>1 DEF SweepInv, Expired, With, Retryable
<1>2. ASSUME NEW c \in Caller, NEW g \in Gen, EnqueueInsert(c, g) PROVE SweepInv'
  BY <1>2, <1>a, <1>b, InsertEffect, SweepKept
<1>3. ASSUME NEW o \in Owner, NEW g \in Gen, ClaimNext(o, g) PROVE SweepInv'
  BY <1>3, <1>a, <1>b, ClaimEffect, SweepKept
<1>4. ASSUME NEW o \in Owner, NEW g \in Gen, RenewLease(o, g) PROVE SweepInv'
  BY <1>4, <1>a, RenewEffect, SweepKept DEF RenewLease
<1>5. ASSUME NEW o \in Owner, NEW g \in Gen, NEW reason \in Reason, MarkFailed(o, g, reason)
      PROVE  SweepInv'
  BY <1>5, <1>a, EndEffect, SweepKept DEF EndsRow
<1>6. ASSUME NEW o \in Owner, NEW g \in Gen, MarkCompleted(o, g) PROVE SweepInv'
  BY <1>6, <1>a, EndEffect, SweepKept DEF EndsRow
<1>7. ASSUME NEW o \in Owner, NEW g \in Gen, SaveAndComplete(o, g) PROVE SweepInv'
  BY <1>7, <1>a, EndEffect, SweepKept DEF EndsRow
<1>8. ASSUME NEW s \in Sweeper, RecoverRequeue(s) PROVE SweepInv'
  <2>1. PICK r \in Reading :
          /\ Expired(r) \cap Retryable \cap Locked = {}
          /\ sweep' = [sweep EXCEPT ![s] = [open |-> TRUE, cutoff |-> r,
                                            locked |-> Expired(r) \cap Retryable]]
    BY <1>8 DEF RecoverRequeue
  <2>2. UNCHANGED gens
    BY <1>8 DEF RecoverRequeue
  <2>3. sweep \in [Sweeper -> Sweep]
    BY DEF TypeOK
  <2>4. /\ sweep'[s].open /\ sweep'[s].cutoff = r
        /\ sweep'[s].locked = Expired(r) \cap Retryable
        /\ \A t \in Sweeper \ {s} : sweep'[t] = sweep[t]
    BY <2>1, <2>3
  <2>5. \A t \in Sweeper : \A g \in sweep[t].locked : g \notin Expired(r) \cap Retryable
    BY <2>1 DEF Locked
  <2>6. \A g \in Expired(r) \cap Retryable :
          gens[g].status = "running" /\ gens[g].attempts < MaxAttempts /\ gens[g].lease < r
    BY DEF Expired, With, Retryable
  <2>7. \A x : Expired(x)' = Expired(x)
    BY <2>2 DEF Expired, With
  <2>8. Retryable' = Retryable
    BY <2>2 DEF Retryable
  <2> QED BY <2>2, <2>4, <2>5, <2>6, <2>7, <2>8 DEF SweepInv
<1>9. ASSUME NEW s \in Sweeper, RecoverFail(s) PROVE SweepInv'
  <2> DEFINE requeued == sweep[s].locked
             failed   == Expired(sweep[s].cutoff) \ requeued
  <2>1. sweep' = [sweep EXCEPT ![s] = NoSweep] /\ failed \cap Locked = {}
    BY <1>9 DEF RecoverFail
  <2>2. /\ sweep'[s] = NoSweep
        /\ \A t \in Sweeper \ {s} : sweep'[t] = sweep[t]
    BY <2>1 DEF TypeOK
  <2>3. \A t \in Sweeper \ {s} : \A g \in sweep[t].locked : g \notin requeued \cup failed
    BY <2>1 DEF SweepInv, Locked
  <2>4. \A t \in Sweeper \ {s} : \A g \in sweep[t].locked : gens'[g] = gens[g]
    BY <1>9, <1>a, <2>3, RecoverEffect
  <2>5. \A g \in Gen : gens'[g].status = "running" => gens'[g] = gens[g]
    BY <1>9, RecoverEffect
  <2>6. \A x : Expired(x)' \cap Retryable' \subseteq Expired(x) \cap Retryable
    BY <2>5 DEF Expired, With, Retryable
  <2>7. ~NoSweep.open /\ NoSweep.locked = {}
    BY DEF NoSweep
  <2> QED BY <2>2, <2>4, <2>6, <2>7 DEF SweepInv
<1>10. ASSUME NEW callers \in SUBSET Caller, NEW sweepers \in SUBSET Sweeper,
              Disconnect(callers, sweepers)
       PROVE  SweepInv'
  <2>1. \A t \in Sweeper : sweep'[t] = sweep[t] \/ sweep'[t] = NoSweep
    BY <1>10 DEF Disconnect
  <2>2. ~NoSweep.open /\ NoSweep.locked = {}
    BY DEF NoSweep
  <2>3. UNCHANGED gens
    BY <1>10 DEF Disconnect
  <2>4. \A x : Expired(x)' = Expired(x)
    BY <2>3 DEF Expired, With
  <2>5. Retryable' = Retryable
    BY <2>3 DEF Retryable
  <2> QED BY <2>1, <2>2, <2>3, <2>4, <2>5 DEF SweepInv
<1>11. ASSUME Tick PROVE SweepInv'
  <2>1. \A t \in Sweeper :
          /\ sweep'[t].open = sweep[t].open
          /\ sweep'[t].locked = sweep[t].locked
          /\ sweep[t].open => sweep'[t].cutoff = sweep[t].cutoff - 1
                             /\ sweep[t].cutoff > -Lag
    BY <1>11 DEF Tick, TypeOK, Sweep
  <2>2. \A g \in Gen : gens'[g].status = gens[g].status /\ gens'[g].attempts = gens[g].attempts
    BY <1>11, TickEffect
  <2>3. ASSUME NEW t \in Sweeper, sweep[t].open, NEW g \in Gen,
               g \in Expired(sweep[t].cutoff)'
        PROVE  g \in Expired(sweep[t].cutoff)
    <3>1. gens[g].status = "running" /\ gens'[g].lease < sweep[t].cutoff - 1
      BY <2>1, <2>2, <2>3 DEF Expired, With
    <3>2. gens'[g].lease = IF gens[g].lease > Floor THEN gens[g].lease - 1 ELSE gens[g].lease
      BY <1>11, <3>1, TickEffect
    <3>3. gens[g].lease < sweep[t].cutoff
      BY <1>a, <3>1, <3>2 DEF Reading
    <3> QED BY <3>1, <3>3 DEF Expired, With
  <2>4. Retryable' = Retryable
    BY <2>2 DEF Retryable
  <2>5. \A t \in Sweeper : sweep[t].open =>
          Expired(sweep[t].cutoff)' \subseteq Expired(sweep[t].cutoff)
    BY <2>3 DEF Expired, With
  <2>6. ASSUME NEW t \in Sweeper, NEW g \in sweep[t].locked
        PROVE  gens'[g].lease < sweep'[t].cutoff
    <3>1. sweep[t].open /\ g \in Gen /\ gens[g].status = "running"
          /\ gens[g].lease < sweep[t].cutoff
      BY <1>a DEF SweepInv
    <3>2. gens'[g].lease = IF gens[g].lease > Floor THEN gens[g].lease - 1 ELSE gens[g].lease
      BY <1>11, <3>1, TickEffect
    <3>3. sweep'[t].cutoff = sweep[t].cutoff - 1 /\ sweep[t].cutoff > -Lag
      BY <2>1, <3>1
    <3>4. Floor = -Lag - 1
      BY QueueAssumption DEF Floor
    <3>5. /\ sweep[t].cutoff \in Int /\ gens[g].lease \in Int /\ Floor \in Int
          /\ gens[g].lease >= Floor /\ Lag \in Int
      BY <1>a, <3>1, ConstantFacts, QueueAssumption DEF Reading, TypeOK, Row
    <3> QED BY <3>1, <3>2, <3>3, <3>4, <3>5
  <2> QED BY <1>a, <2>1, <2>2, <2>4, <2>5, <2>6 DEF SweepInv
<1> QED
  BY <1>1, <1>2, <1>3, <1>4, <1>5, <1>6, <1>7, <1>8, <1>9, <1>10, <1>11
     DEF Next, EnqueueStep, WorkerStep, RecoverStep, qvars, EnqueueLock, EnqueueCount, Accept

-----------------------------------------------------------------------------
(* Only an insert puts a generation in flight, and it adds one.            *)
LEMMA InFlightFinite ==
    /\ IsFiniteSet(InFlight)
    /\ Cardinality(InFlight) \in Nat
    /\ \A S \in SUBSET InFlight : Cardinality(S) <= Cardinality(InFlight)
  BY QueueAssumption, FS_Subset, FS_CardinalityType DEF InFlight, With

LEMMA InFlightShrinks ==
    ASSUME TypeOK, SweepInv, [Next]_qvars,
           \A c \in Caller, g \in Gen : ~EnqueueInsert(c, g)
    PROVE  InFlight' \subseteq InFlight
<1> DEFINE P == InFlight' \subseteq InFlight
<1>1. UNCHANGED gens => P
  BY DEF InFlight, With
<1>2. \A o \in Owner, g \in Gen : ClaimNext(o, g) => P
  BY ClaimEffect DEF InFlight, With
<1>3. \A o \in Owner, g \in Gen : RenewLease(o, g) => P
  BY RenewEffect DEF InFlight, With
<1>4. \A o \in Owner, g \in Gen :
        /\ \A reason \in Reason : MarkFailed(o, g, reason) => P
        /\ MarkCompleted(o, g) => P
        /\ SaveAndComplete(o, g) => P
  BY EndEffect DEF EndsRow, InFlight, With
<1>5. ASSUME NEW s \in Sweeper, RecoverFail(s) PROVE P
  <2>1. \A g \in sweep[s].locked \cup Expired(sweep[s].cutoff) :
          g \in Gen /\ gens[g].status = "running"
    BY DEF SweepInv, TypeOK, Sweep, Expired, With
  <2> QED BY <1>5, <2>1, RecoverEffect DEF InFlight, With
<1>6. Tick => P
  BY TickEffect DEF InFlight, With
<1> HIDE DEF P
<1>7. P
  BY <1>1, <1>2, <1>3, <1>4, <1>5, <1>6, StepCases
<1> QED BY <1>7 DEF P

LEMMA EnqueueStepInv ==
    ASSUME TypeOK, SweepInv, EnqueueInv, [Next]_qvars
    PROVE  EnqueueInv'
<1>1. Cardinality(InFlight) \in Nat
  BY InFlightFinite
<1>2. ASSUME NEW c \in Caller, NEW g \in Gen, EnqueueInsert(c, g) PROVE EnqueueInv'
  <2>1. InFlight' = InFlight \cup {g}
    BY <1>2, InsertEffect DEF InFlight, With
  <2>2. Cardinality(InFlight') <= Cardinality(InFlight) + 1
    <3>1. Cardinality(InFlight \cup {g}) =
            IF g \in InFlight THEN Cardinality(InFlight) ELSE Cardinality(InFlight) + 1
      BY InFlightFinite, FS_AddElement
    <3> QED BY <1>1, <2>1, <3>1
  <2>3. Cardinality(InFlight) < Cap /\ \A d \in Caller : enq'[d] = "idle"
    BY <1>2 DEF EnqueueInsert, EnqueueInv, TypeOK
  <2>4. Cardinality(InFlight') \in Nat
    BY <2>1, InFlightFinite, FS_AddElement, FS_CardinalityType
  <2> QED BY <1>1, <2>2, <2>3, <2>4, QueueAssumption DEF EnqueueInv
<1>3. ASSUME \A c \in Caller, g \in Gen : ~EnqueueInsert(c, g) PROVE EnqueueInv'
  <2>1. InFlight' \subseteq InFlight
    BY <1>3, InFlightShrinks
  <2>2. Cardinality(InFlight') <= Cardinality(InFlight) /\ Cardinality(InFlight') \in Nat
    BY <2>1, InFlightFinite, FS_Subset, FS_CardinalityType
  <2>3. ASSUME NEW c \in Caller, EnqueueLock(c) PROVE EnqueueInv'
    BY <1>1, <2>2, <2>3, QueueAssumption DEF EnqueueLock, EnqueueInv, TypeOK
  <2>4. ASSUME NEW c \in Caller, EnqueueCount(c) PROVE EnqueueInv'
    <3>1. \A d \in Caller : enq'[d] = "counted" =>
            enq[d] = "counted" \/ Cardinality(InFlight) < Cap
      BY <1>1, <2>4, QueueAssumption DEF EnqueueCount, TypeOK
    <3>2. \A d \in Caller : enq'[d] # "idle" => enq[d] # "idle"
      BY <2>4 DEF EnqueueCount, TypeOK
    <3> QED BY <1>1, <2>2, <3>1, <3>2, QueueAssumption DEF EnqueueInv
  <2>5. ASSUME NEW callers \in SUBSET Caller, NEW sweepers \in SUBSET Sweeper,
               Disconnect(callers, sweepers)
        PROVE  EnqueueInv'
    <3>1. \A d \in Caller : enq'[d] = "idle" \/ enq'[d] = enq[d]
      BY <2>5 DEF Disconnect
    <3> QED BY <1>1, <2>2, <3>1, QueueAssumption DEF EnqueueInv
  <2>6. ASSUME UNCHANGED enq PROVE EnqueueInv'
    BY <1>1, <2>2, <2>6, QueueAssumption DEF EnqueueInv
  <2> QED BY <1>3, <2>3, <2>4, <2>5, <2>6
      DEF Next, EnqueueStep, WorkerStep, RecoverStep, qvars, ClaimNext, RenewLease,
          MarkFailed, MarkCompleted, SaveAndComplete, Accept, RecoverRequeue,
          RecoverFail, Tick
<1> QED BY <1>2, <1>3

-----------------------------------------------------------------------------
LEMMA QueueInvInit == Init => QueueInv
<1> SUFFICES ASSUME Init PROVE QueueInv
  OBVIOUS
<1>1. TypeOK
  BY TypeInit
<1>2. \A g \in Gen : gens[g].status = "absent" /\ gens[g].attempts = 0
                   /\ gens[g].reason = NoReason
  BY DEF Init, NoRow
<1>3. RowInv
  BY <1>2 DEF RowInv, RowOK
<1>4. SavedInv
  BY <1>2 DEF SavedInv, With, Init
<1>5. SweepInv
  BY DEF SweepInv, Init, NoSweep
<1>6. InFlight = {}
  BY <1>2 DEF InFlight, With
<1>7. EnqueueInv
  BY <1>6, FS_EmptySet, QueueAssumption DEF EnqueueInv, Init
<1> QED BY <1>1, <1>3, <1>4, <1>5, <1>7 DEF QueueInv

LEMMA QueueInvStep == QueueInv /\ [Next]_qvars => QueueInv'
  BY TypeStep, RowStep, SavedStep, SweepInvStep, EnqueueStepInv DEF QueueInv

(* The inductive invariant holds under any clients of the tables. *)
THEOREM QueueInvariant == Spec => []QueueInv
  BY QueueInvInit, QueueInvStep, PTL DEF Spec

(* POST /generate never lets more than Cap generations in flight. *)
THEOREM CapHolds == Spec => []InFlightUnderCap
<1>1. QueueInv => InFlightUnderCap
  BY DEF QueueInv, EnqueueInv, InFlightUnderCap
<1> QED BY <1>1, QueueInvariant, PTL

(* A generation is completed exactly when its trajectory is stored. *)
THEOREM CompletionIsAtomic == Spec => []CompletedIffSaved
<1>1. QueueInv => CompletedIffSaved
  BY DEF QueueInv, SavedInv, CompletedIffSaved
<1> QED BY <1>1, QueueInvariant, PTL

(* The two UPDATEs of a recovery honour the attempts of every row. *)
THEOREM RetryBudgetHolds == Spec => []RetryBudgetHonoured
<1>1. QueueInv => RetryBudgetHonoured
  <2> SUFFICES ASSUME QueueInv, NEW g \in Present
               PROVE  /\ gens[g].attempts <= Budget
                      /\ gens[g].reason = LeaseExpired => gens[g].attempts = Budget
    BY DEF RetryBudgetHonoured
  <2>1. g \in Gen /\ gens[g] \in Row /\ RowOK(gens[g])
    BY DEF QueueInv, TypeOK, RowInv, Present
  <2>2. gens[g].status \in {"queued", "running", "completed", "failed"}
    BY <2>1 DEF Present, With, Row, Status
  <2>3. gens[g].attempts \in Nat /\ Budget \in Nat /\ NoReason # LeaseExpired
    BY <2>1, ConstantFacts, QueueAssumption DEF Row
  <2>4. CASE gens[g].status = "failed"
    BY <2>1, <2>4 DEF RowOK
  <2>5. CASE gens[g].status # "failed"
    <3>1. gens[g].reason = NoReason
      BY <2>1, <2>2, <2>5 DEF RowOK
    <3>2. gens[g].attempts <= Budget
      <4>1. CASE gens[g].status = "queued"
        BY <2>1, <2>3, <4>1 DEF RowOK
      <4>2. CASE gens[g].status = "running"
        BY <2>1, <2>3, <4>2 DEF RowOK
      <4>3. CASE gens[g].status = "completed"
        BY <2>1, <4>3 DEF RowOK
      <4> QED BY <2>2, <2>5, <4>1, <4>2, <4>3
    <3> QED BY <2>3, <3>1, <3>2
  <2> QED BY <2>4, <2>5
<1> QED BY <1>1, QueueInvariant, PTL

-----------------------------------------------------------------------------
LEMMA TerminalStep ==
    ASSUME QueueInv, [Next]_qvars, NEW g \in Terminal
    PROVE  gens'[g] = gens[g]
<1> DEFINE P == gens'[g] = gens[g]
<1>1. TypeOK /\ SweepInv /\ g \in Gen
  BY DEF QueueInv, Terminal, With
<1>2. gens[g].status \notin {"absent", "queued", "running"}
  BY DEF Terminal, With
<1>3. \A c \in Caller, h \in Gen : EnqueueInsert(c, h) => P
  BY <1>1, <1>2, InsertEffect
<1>4. \A o \in Owner, h \in Gen : ClaimNext(o, h) => P
  BY <1>1, <1>2, ClaimEffect
<1>5. \A o \in Owner, h \in Gen : RenewLease(o, h) => P
  BY <1>1, <1>2, RenewEffect
<1>6. \A o \in Owner, h \in Gen :
        /\ \A reason \in Reason : MarkFailed(o, h, reason) => P
        /\ MarkCompleted(o, h) => P
        /\ SaveAndComplete(o, h) => P
  BY <1>1, <1>2, EndEffect DEF EndsRow
<1>7. ASSUME NEW s \in Sweeper, RecoverFail(s) PROVE P
  <2>1. g \notin sweep[s].locked \cup Expired(sweep[s].cutoff)
    BY <1>1, <1>2 DEF SweepInv, Expired, With
  <2> QED BY <1>1, <1>7, <2>1, RecoverEffect
<1>8. Tick => P
  BY <1>1, <1>2 DEF Tick
<1>9. UNCHANGED gens => P
  OBVIOUS
<1> HIDE DEF P
<1>10. P
  BY <1>3, <1>4, <1>5, <1>6, <1>7, <1>8, <1>9, StepCases
<1> QED BY <1>10 DEF P

(* A generation that has ended stays as it is, under any clients. *)
THEOREM TerminalHolds == Spec => TerminalIsFinal
<1>1. [Next]_qvars => saved \subseteq saved' /\ accepted \subseteq accepted'
  BY DEF Next, EnqueueStep, WorkerStep, RecoverStep, qvars, EnqueueLock, EnqueueCount,
         EnqueueInsert, ClaimNext, RenewLease, MarkFailed, MarkCompleted,
         SaveAndComplete, Accept, RecoverRequeue, RecoverFail, Disconnect, Tick
<1>2. QueueInv /\ [Next]_qvars
        => [/\ \A g \in Terminal : gens'[g] = gens[g]
            /\ saved \subseteq saved'
            /\ accepted \subseteq accepted']_qvars
  BY <1>1, TerminalStep
<1> QED BY <1>2, QueueInvariant, PTL DEF Spec, TerminalIsFinal

LEMMA ProtectedStep ==
    ASSUME QueueInv, [Next]_qvars, NEW g \in With("running"), gens[g].lease >= Lag
    PROVE  \/ gens'[g].status = "running" /\ gens'[g].owner = gens[g].owner
           \/ gens'[g].status = "completed"
           \/ gens'[g].status = "failed" /\ gens'[g].reason \in Reason
<1> DEFINE P == \/ gens'[g].status = "running" /\ gens'[g].owner = gens[g].owner
                \/ gens'[g].status = "completed"
                \/ gens'[g].status = "failed" /\ gens'[g].reason \in Reason
<1>1. TypeOK /\ SweepInv /\ g \in Gen /\ gens[g].status = "running"
  BY DEF QueueInv, With
<1>2. \A c \in Caller, h \in Gen : EnqueueInsert(c, h) => P
  BY <1>1, InsertEffect
<1>3. \A o \in Owner, h \in Gen : ClaimNext(o, h) => P
  BY <1>1, ClaimEffect
<1>4. \A o \in Owner, h \in Gen : RenewLease(o, h) => P
  BY <1>1, RenewEffect
<1>5. \A o \in Owner, h \in Gen :
        /\ \A reason \in Reason : MarkFailed(o, h, reason) => P
        /\ MarkCompleted(o, h) => P
        /\ SaveAndComplete(o, h) => P
  BY <1>1, EndEffect DEF EndsRow
<1>6. ASSUME NEW s \in Sweeper, RecoverFail(s) PROVE P
  <2>1. gens[g].lease \in Int /\ sweep[s].cutoff \in Reading
    BY <1>1, ConstantFacts DEF TypeOK, Row, Sweep
  <2>2. g \notin sweep[s].locked \cup Expired(sweep[s].cutoff)
    BY <1>1, <2>1, QueueAssumption DEF SweepInv, Expired, Reading
  <2> QED BY <1>1, <1>6, <2>2, RecoverEffect
<1>7. Tick => P
  BY <1>1, TickEffect
<1>8. UNCHANGED gens => P
  BY <1>1
<1> HIDE DEF P
<1>9. P
  BY <1>2, <1>3, <1>4, <1>5, <1>6, <1>7, <1>8, StepCases
<1> QED BY <1>9 DEF P

(* No recovery takes a generation from an owner whose lease has not run    *)
(* out for the slowest clock.                                              *)
THEOREM LeaseHolds == Spec => LeaseProtects
<1>1. QueueInv /\ [Next]_qvars
        => [\A g \in With("running") :
              gens[g].lease >= Lag =>
                 \/ /\ gens'[g].status = "running"
                    /\ gens'[g].owner = gens[g].owner
                 \/ gens'[g].status = "completed"
                 \/ gens'[g].status = "failed" /\ gens'[g].reason \in Reason]_qvars
  BY ProtectedStep
<1> QED BY <1>1, QueueInvariant, PTL DEF Spec, LeaseProtects

-----------------------------------------------------------------------------
(* The refinement: the tables seen as a life cycle.                        *)
state  == [g \in Gen |-> gens[g].status]
tries  == [g \in Gen |-> gens[g].attempts]

LEMMA ViewsAgree ==
    /\ InFlight = Lifecycle!Pending
    /\ Budget = Lifecycle!Limit
    /\ \A S : Lifecycle!Cardinality(S) = Cardinality(S)
<1>1. InFlight = Lifecycle!Pending /\ Budget = Lifecycle!Limit
  BY DEF InFlight, With, Lifecycle!Pending, Lifecycle!InState, Budget, Lifecycle!Limit
<1>2. \A S : Lifecycle!Cardinality(S) = Cardinality(S)
  BY DEF Cardinality, Lifecycle!Cardinality
<1> QED BY <1>1, <1>2

LEMMA LifecycleInit == Init => Lifecycle!Init
  BY DEF Init, NoRow, Lifecycle!Init

LEMMA LifecycleStep ==
    ASSUME QueueInv, [Next]_qvars
    PROVE  [Lifecycle!Next]_(Lifecycle!lvars)
<1> DEFINE P == [Lifecycle!Next]_(Lifecycle!lvars)
<1>1. TypeOK /\ RowInv /\ SavedInv /\ SweepInv /\ EnqueueInv
  BY DEF QueueInv
<1>2. ASSUME UNCHANGED state, UNCHANGED tries, UNCHANGED saved PROVE P
  BY <1>2 DEF Lifecycle!lvars, state, tries
<1>3. ASSUME NEW c \in Caller, NEW g \in Gen, EnqueueInsert(c, g) PROVE P
  <2>1. gens[g].attempts = 0 /\ gens[g].status = "absent"
    BY <1>1, <1>3, InsertEffect DEF RowInv, RowOK
  <2>2. Lifecycle!Cardinality(Lifecycle!Pending) < Cap
    BY <1>1, <1>3, ViewsAgree DEF EnqueueInsert, EnqueueInv
  <2>3. state' = [state EXCEPT ![g] = "queued"] /\ tries' = tries /\ saved' = saved
    BY <1>1, <1>3, <2>1, InsertEffect DEF state, tries
  <2>4. Lifecycle!Submit(g)
    <3>1. state[g] = "absent"
      BY <2>1 DEF state
    <3> QED BY <2>2, <2>3, <3>1, Zenon DEF Lifecycle!Submit, state, tries
  <2> QED BY <2>4 DEF Lifecycle!Next
<1>4. ASSUME NEW o \in Owner, NEW g \in Gen, ClaimNext(o, g) PROVE P
  <2>1. /\ gens[g].status = "queued"
        /\ \A h \in Gen \ {g} : gens'[h] = gens[h]
        /\ gens'[g].status = "running"
        /\ gens'[g].attempts = gens[g].attempts + 1
        /\ saved' = saved
    BY <1>1, <1>4, ClaimEffect
  <2>2. gens[g].attempts < Lifecycle!Limit
    BY <1>1, <2>1, ViewsAgree DEF RowInv, RowOK
  <2>3. state' = [state EXCEPT ![g] = "running"]
    BY <2>1 DEF state
  <2>4. tries' = [tries EXCEPT ![g] = tries[g] + 1]
    BY <2>1 DEF tries
  <2>5. Lifecycle!Start(g)
    BY <2>1, <2>2, <2>3, <2>4 DEF Lifecycle!Start, state, tries
  <2> QED BY <2>5 DEF Lifecycle!Next
<1>5. ASSUME NEW o \in Owner, NEW g \in Gen, RenewLease(o, g) PROVE P
  <2>1. state' = state /\ tries' = tries /\ saved' = saved
    BY <1>1, <1>5, RenewEffect DEF state, tries
  <2> QED BY <1>2, <2>1
<1>6. ASSUME NEW o \in Owner, NEW g \in Gen, NEW reason \in Reason, MarkFailed(o, g, reason)
      PROVE  P
  <2>1. EndsRow(g, "failed", reason) /\ saved' = saved
    BY <1>1, <1>6, EndEffect
  <2>2. state' = [state EXCEPT ![g] = "failed"] /\ tries' = tries
    BY <2>1 DEF EndsRow, state, tries
  <2>3. Lifecycle!Fail(g)
    BY <2>1, <2>2 DEF EndsRow, Lifecycle!Fail, state, tries
  <2> QED BY <2>3 DEF Lifecycle!Next
<1>7. ASSUME NEW g \in Gen, NEW reason, EndsRow(g, "completed", reason),
             saved' = IF Persist THEN saved \cup {g} ELSE saved
      PROVE  P
  <2>1. state' = [state EXCEPT ![g] = "completed"] /\ tries' = tries
    BY <1>7 DEF EndsRow, state, tries
  <2>2. g \notin saved
    BY <1>1, <1>7 DEF EndsRow, SavedInv, With
  <2>3. Lifecycle!Complete(g)
    BY <1>7, <2>1, <2>2 DEF EndsRow, Lifecycle!Complete, state, tries
  <2> QED BY <2>3 DEF Lifecycle!Next
<1>8. ASSUME NEW o \in Owner, NEW g \in Gen, MarkCompleted(o, g) PROVE P
  BY <1>1, <1>7, <1>8, EndEffect
<1>9. ASSUME NEW o \in Owner, NEW g \in Gen, SaveAndComplete(o, g) PROVE P
  BY <1>1, <1>7, <1>9, EndEffect DEF SaveAndComplete
<1>10. ASSUME NEW s \in Sweeper, RecoverFail(s) PROVE P
  <2> DEFINE requeued == sweep[s].locked
             failed   == Expired(sweep[s].cutoff) \ requeued
             lost     == requeued \cup failed
  <2>1. lost \subseteq Lifecycle!InState("running")
    BY <1>1 DEF SweepInv, TypeOK, Sweep, Expired, With, Lifecycle!InState
  <2>2. lost \in SUBSET Gen
    BY <1>1 DEF TypeOK, Sweep, Expired, With
  <2>3. ASSUME NEW g \in requeued PROVE gens'[g].status = "queued" /\ gens[g].attempts < MaxAttempts
    BY <1>1, <1>10, <2>2, RecoverEffect DEF SweepInv
  <2>4. ASSUME NEW g \in failed PROVE gens'[g].status = "failed" /\ ~(gens[g].attempts < MaxAttempts)
    BY <1>1, <1>10, <2>2, RecoverEffect DEF SweepInv, Retryable, RecoverFail
  <2>5. ASSUME NEW g \in Gen
        PROVE  /\ gens'[g].attempts = gens[g].attempts
               /\ g \notin lost => gens'[g].status = gens[g].status
    BY <1>1, <1>10, RecoverEffect
  <2>6. tries' = tries /\ saved' = saved
    BY <1>10, <2>5 DEF tries, RecoverFail
  <2>7. state' = [g \in Gen |->
                    IF g \in lost
                    THEN IF tries[g] < MaxAttempts THEN "queued" ELSE "failed"
                    ELSE state[g]]
    BY <2>2, <2>3, <2>4, <2>5 DEF state, tries
  <2> HIDE DEF lost
  <2>8. PICK ids \in SUBSET Gen : ids = lost
    BY <2>2
  <2>9. Lifecycle!Recover(ids)
    BY <2>1, <2>6, <2>7, <2>8 DEF Lifecycle!Recover, state, tries
  <2>10. \E l \in SUBSET Gen : Lifecycle!Recover(l)
    BY <2>9
  <2> QED BY <2>10 DEF Lifecycle!Next
<1>11. ASSUME Tick PROVE P
  <2>1. state' = state /\ tries' = tries /\ saved' = saved
    BY <1>1, <1>11, TickEffect DEF state, tries, Tick
  <2> QED BY <1>2, <2>1
<1>12. UNCHANGED gens => UNCHANGED saved \/ P
  BY <1>3, <1>4, <1>5, <1>6, <1>8, <1>9, <1>10, <1>11
     DEF Next, EnqueueStep, WorkerStep, RecoverStep, qvars, EnqueueLock, EnqueueCount,
         Accept, RecoverRequeue, Disconnect
<1>13. UNCHANGED gens => P
  BY <1>2, <1>12 DEF state, tries
<1> HIDE DEF P
<1>14. P
  BY <1>3, <1>4, <1>5, <1>6, <1>8, <1>9, <1>10, <1>11, <1>13, StepCases
<1> QED BY <1>14 DEF P

(* The queue implements the life cycle. *)
THEOREM Refinement == Spec => ImplementsLifecycle
<1>1. QueueInv /\ [Next]_qvars => [Lifecycle!Next]_(Lifecycle!lvars)
  BY LifecycleStep
<1> QED BY <1>1, LifecycleInit, QueueInvariant, PTL
       DEF Spec, ImplementsLifecycle, Lifecycle!Spec
=============================================================================
