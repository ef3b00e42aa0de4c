-------------------------- MODULE ShimPool_proofs --------------------------
(***************************************************************************)
(* Proofs about the pool of the calc sidecar, for any number of threads    *)
(* and of callers, any number of crashes and any bound on the recoveries   *)
(* of a slot.                                                              *)
(***************************************************************************)
EXTENDS ShimPool, FiniteSetTheorems, FunctionTheorems, SequenceTheorems, TLAPS

(* A list that is not empty, in terms of its elements. *)
LEMMA QueueFacts ==
    ASSUME TypeOK
    PROVE  /\ Len(waiting) \in Nat
           /\ \A i \in 1..Len(waiting) : waiting[i] \in Call
           /\ waiting = <<>> <=> Len(waiting) = 0
           /\ waiting # <<>> =>
                /\ Head(waiting) = waiting[1] /\ Head(waiting) \in Call
                /\ 1 \in 1..Len(waiting)
                /\ Tail(waiting) \in Seq(Call)
                /\ Len(Tail(waiting)) = Len(waiting) - 1
                /\ \A i \in 1..Len(Tail(waiting)) : Tail(waiting)[i] = waiting[i + 1]
<1>1. waiting \in Seq(Call)
  BY DEF TypeOK
<1>2. Len(waiting) \in Nat /\ \A i \in 1..Len(waiting) : waiting[i] \in Call
  BY <1>1, LenProperties, ElementOfSeq
<1>3. waiting = <<>> <=> Len(waiting) = 0
  BY <1>1, EmptySeq
<1>4. ASSUME waiting # <<>>
      PROVE  /\ Head(waiting) \in Call
             /\ Tail(waiting) \in Seq(Call)
             /\ Len(Tail(waiting)) = Len(waiting) - 1
             /\ \A i \in 1..Len(Tail(waiting)) : Tail(waiting)[i] = waiting[i + 1]
  BY <1>1, <1>4, HeadTailProperties
<1>5. waiting # <<>> => 1 \in 1..Len(waiting) /\ Head(waiting) = waiting[1]
  BY <1>1, <1>2, <1>3
<1> QED BY <1>2, <1>3, <1>4, <1>5

(* What the fields of a slot and of a call may hold. *)
LEMMA FieldFacts ==
    ASSUME TypeOK
    PROVE  /\ \A s \in Slot :
                /\ slots[s] \in SlotState
                /\ slots[s].busy \in BOOLEAN
                /\ slots[s].job \in Job \cup {NoJob}
                /\ slots[s].attempts \in 0..MaxRecovery
                /\ slots[s].inbox \in SUBSET Job
                /\ slots[s].warm \in BOOLEAN
           /\ \A c \in Call : calls[c] \in CallState
           /\ NoJob \notin Job
           /\ Slot \subseteq Job /\ Call \subseteq Job /\ Call \cap Slot = {}
           /\ NoSlot \notin Slot
  BY ShimPoolAssumption DEF TypeOK, SlotState, Job

(* The pending warm-ups are finitely many. *)
LEMMA WarmUpsFinite ==
    /\ IsFiniteSet(Slot)
    /\ \A P : IsFiniteSet(P \cap Slot) /\ Cardinality(P \cap Slot) \in Nat
<1>1. IsFiniteSet(Slot)
  BY ShimPoolAssumption, FS_Interval DEF Slot
<1>2. ASSUME NEW P PROVE IsFiniteSet(P \cap Slot) /\ Cardinality(P \cap Slot) \in Nat
  <2>1. P \cap Slot \in SUBSET Slot
    OBVIOUS
  <2> QED BY <1>1, <2>1, FS_Subset, FS_CardinalityType
<1> QED BY <1>1, <1>2

(* Adding and removing one job counts if it is a warm-up. *)
LEMMA WarmUpCount ==
    ASSUME NEW P, NEW j
    PROVE  /\ Cardinality((P \ {j}) \cap Slot) =
                IF j \in P \cap Slot THEN Cardinality(P \cap Slot) - 1
                ELSE Cardinality(P \cap Slot)
           /\ Cardinality((P \cup {j}) \cap Slot) =
                IF j \in Slot \ P THEN Cardinality(P \cap Slot) + 1
                ELSE Cardinality(P \cap Slot)
<1>1. IsFiniteSet(P \cap Slot)
  BY WarmUpsFinite
<1>2. (P \ {j}) \cap Slot = (P \cap Slot) \ {j}
  OBVIOUS
<1>3. CASE j \in Slot
  <2>1. (P \cup {j}) \cap Slot = (P \cap Slot) \cup {j}
    BY <1>3
  <2> QED BY <1>1, <1>2, <1>3, <2>1, FS_RemoveElement, FS_AddElement
<1>4. CASE j \notin Slot
  <2>1. (P \cup {j}) \cap Slot = P \cap Slot /\ (P \ {j}) \cap Slot = P \cap Slot
    BY <1>4
  <2> QED BY <1>4, <2>1
<1> QED BY <1>3, <1>4

-----------------------------------------------------------------------------
(* The constructor. *)
LEMMA InitInv == Init => Bookkeeping
<1> SUFFICES ASSUME Init PROVE Bookkeeping
  OBVIOUS
<1> DEFINE N == Cardinality(Boot)
           Fits(f) == \A b, c \in Boot : f[b] = f[c] => b = c
           first == CHOOSE f \in [Boot -> 1..N] : Fits(f)
<1>1. N \in Nat /\ N >= 1 /\ N <= MaxSlots /\ IsFiniteSet(Boot)
  BY ShimPoolAssumption, FS_CardinalityType
<1>2. \E f \in [Boot -> 1..N] : Fits(f)
  <2>1. ExistsBijection(1..N, Boot)
    BY <1>1, FS_CardinalityType
  <2>2. ExistsBijection(Boot, 1..N)
    BY <2>1, Fun_ExistsBijSymmetric
  <2>3. PICK f \in [Boot -> 1..N] : IsInjective(f)
    BY <2>2 DEF ExistsBijection, Bijection, Injection
  <2> QED BY <2>3 DEF IsInjective
<1>3. first \in [Boot -> 1..N] /\ Fits(first)
  BY <1>2
<1> HIDE DEF first
<1>4. /\ workers = {first[b] : b \in Boot}
      /\ slots = [s \in Slot |-> IF s \in workers
                                 THEN [Spawned EXCEPT !.busy = TRUE] ELSE Unused]
      /\ calls = [c \in Call |-> IF c \in Boot THEN Acquired(first[c]) ELSE Is("idle")]
      /\ waiting = <<>> /\ pending = {} /\ recovery = 0
      /\ booted = FALSE /\ warmedUp = FALSE /\ shuttingDown = FALSE
      /\ snapshot = {} /\ crashes = 0
  BY DEF Init, first, Fits, N
<1>5. 1..N \subseteq Slot /\ workers \subseteq 1..N
  BY <1>1, <1>3, <1>4, ShimPoolAssumption DEF Slot
<1>6. \A s \in Slot : /\ slots[s] \in SlotState
                      /\ slots[s].thread = IF s \in workers THEN "alive" ELSE "none"
                      /\ s \in workers => slots[s].busy
                      /\ slots[s].job = NoJob
                      /\ slots[s].inbox = {}
  <2> SUFFICES ASSUME NEW s \in Slot
               PROVE  /\ slots[s] \in SlotState
                      /\ slots[s].thread = IF s \in workers THEN "alive" ELSE "none"
                      /\ s \in workers => slots[s].busy
                      /\ slots[s].job = NoJob
                      /\ slots[s].inbox = {}
    OBVIOUS
  <2>1. 0 \in 0..MaxRecovery
    BY ShimPoolAssumption
  <2>2. CASE s \in workers
    <3>1. slots[s] = [thread |-> "alive", busy |-> TRUE, job |-> NoJob, attempts |-> 0,
                      inbox |-> {}, warm |-> FALSE]
      BY <1>4, <2>2 DEF Spawned, Unused
    <3> QED BY <2>1, <2>2, <3>1 DEF SlotState
  <2>3. CASE s \notin workers
    <3>1. slots[s] = [thread |-> "none", busy |-> FALSE, job |-> NoJob, attempts |-> 0,
                      inbox |-> {}, warm |-> FALSE]
      BY <1>4, <2>3 DEF Unused
    <3> QED BY <2>1, <2>3, <3>1 DEF SlotState
  <2> QED BY <2>2, <2>3
<1>7. \A c \in Call : /\ calls[c] \in CallState
                      /\ calls[c].pc \in {"idle", "acquired"}
                      /\ calls[c].pc = "acquired" => c \in Boot /\ calls[c].slot = first[c]
  BY <1>3, <1>4, <1>5 DEF Acquired, Is, CallState
<1>8. TypeOK
  <2>1. slots \in [Slot -> SlotState]
    BY <1>4, <1>6
  <2>2. calls \in [Call -> CallState]
    BY <1>4, <1>7
  <2>3. waiting \in Seq(Call)
    BY <1>4, EmptySeq
  <2>4. crashes \in 0..MaxCrashes /\ workers \subseteq Slot
    BY <1>4, <1>5, ShimPoolAssumption
  <2>5. pending \in SUBSET Job /\ recovery \in Int /\ snapshot \in SUBSET Slot
    BY <1>4
  <2>6. booted \in BOOLEAN /\ warmedUp \in BOOLEAN /\ shuttingDown \in BOOLEAN
    BY <1>4, Zenon
  <2> QED BY <2>1, <2>2, <2>3, <2>4, <2>5, <2>6 DEF TypeOK
<1>9. WorkersInv
  <2>1. Cardinality(1..N) = N /\ IsFiniteSet(1..N)
    BY <1>1, FS_Interval
  <2>2. Cardinality(workers) <= Cardinality(Boot)
    BY <1>5, <2>1, FS_Subset
  <2> QED BY <1>4, <1>6, <2>2 DEF WorkersInv
<1>10. PostedInv
  BY <1>6 DEF PostedInv
<1>11. PendingInv
  <2>1. pending = {} /\ pending \cap Slot = {} /\ Cardinality({}) = 0
    BY <1>4, FS_EmptySet
  <2> QED BY <1>4, <1>6, <1>7, <2>1 DEF PendingInv
<1>12. AcquiredInv
  <2> SUFFICES ASSUME NEW c \in Call, calls[c].pc = "acquired"
               PROVE  /\ calls[c].slot \in workers
                      /\ slots[calls[c].slot].busy
                      /\ slots[calls[c].slot].inbox = {}
                      /\ \A d \in Call : calls[d] = calls[c] => d = c
    BY DEF AcquiredInv
  <2>1. calls[c].slot = first[c] /\ first[c] \in workers /\ first[c] \in Slot
    BY <1>3, <1>4, <1>5, <1>7
  <2>2. ASSUME NEW d \in Call, calls[d] = calls[c] PROVE d = c
    BY <1>3, <1>7, <2>2
  <2> QED BY <1>6, <2>1, <2>2
<1>13. WaitingInv
  BY <1>4, <1>7, EmptySeq DEF WaitingInv
<1> QED BY <1>8, <1>9, <1>10, <1>11, <1>12, <1>13 DEF Bookkeeping

-----------------------------------------------------------------------------
(* A call of run() that leaves the pool alone, takes a free slot or joins  *)
(* the queue.                                                              *)
LEMMA RunStep ==
    ASSUME Bookkeeping, NEW c \in Request, Run(c)
    PROVE  Bookkeeping'
<1> USE DEF Bookkeeping
<1>1. /\ calls[c].pc \notin {"waiting", "acquired", "pending"} /\ c \in Call
      /\ workers' = workers /\ pending' = pending /\ recovery' = recovery
      /\ booted' = booted /\ warmedUp' = warmedUp /\ shuttingDown' = shuttingDown
      /\ snapshot' = snapshot /\ crashes' = crashes
  BY DEF Run, flags, Call
<1>2. CASE /\ shuttingDown
           /\ calls' = [calls EXCEPT ![c] = Is("rejected")]
           /\ slots' = slots /\ waiting' = waiting
  <2>1. /\ \A d \in Call : d # c => calls'[d] = calls[d]
        /\ calls'[c] = Is("rejected") /\ calls' \in [Call -> CallState]
    BY <1>1, <1>2 DEF TypeOK, Is, CallState
  <2>2. Is("rejected").pc = "rejected"
    BY DEF Is
  <2>3. TypeOK' /\ WorkersInv' /\ PostedInv'
    BY <1>1, <1>2, <2>1 DEF TypeOK, WorkersInv, PostedInv
  <2>4. PendingInv'
    BY <1>1, <1>2, <2>1, <2>2 DEF PendingInv
  <2>5. AcquiredInv'
    BY <1>1, <1>2, <2>1, <2>2 DEF AcquiredInv
  <2>6. WaitingInv'
    BY <1>1, <1>2, <2>1, <2>2, QueueFacts DEF WaitingInv
  <2> QED BY <2>3, <2>4, <2>5, <2>6
<1>3. ASSUME NEW s \in workers, ~shuttingDown, ~slots[s].busy,
             slots' = [slots EXCEPT ![s].busy = TRUE],
             calls' = [calls EXCEPT ![c] = Acquired(s)],
             waiting' = waiting
      PROVE  Bookkeeping'
  <2>1. s \in Slot /\ slots[s].inbox = {}
    BY <1>3 DEF TypeOK, PostedInv
  <2>2. /\ \A d \in Call : d # c => calls'[d] = calls[d]
        /\ calls'[c] = Acquired(s) /\ calls' \in [Call -> CallState]
    BY <1>1, <1>3, <2>1 DEF TypeOK, Acquired, CallState
  <2>3. Acquired(s).pc = "acquired" /\ Acquired(s).slot = s
    BY DEF Acquired
  <2>4. /\ \A t \in Slot : /\ slots'[t].thread = slots[t].thread
                           /\ slots'[t].job = slots[t].job
                           /\ slots'[t].inbox = slots[t].inbox
                           /\ slots[t].busy => slots'[t].busy
        /\ slots'[s].busy
        /\ slots' \in [Slot -> SlotState]
    BY <1>3, <2>1 DEF TypeOK, SlotState
  <2>5. TypeOK' /\ WorkersInv' /\ PostedInv'
    BY <1>1, <1>3, <2>2, <2>4 DEF TypeOK, WorkersInv, PostedInv
  <2>6. PendingInv'
    BY <1>1, <1>3, <2>2, <2>3, <2>4 DEF PendingInv
  <2>7. AcquiredInv'
    <3>1. \A d \in Call : calls[d].pc = "acquired" => slots[calls[d].slot].busy
      BY DEF AcquiredInv
    <3>2. \A d \in Call : d # c => calls'[d] # calls'[c]
      BY <1>3, <2>2, <2>3, <3>1
    <3>3. ASSUME NEW d \in Call, calls'[d].pc = "acquired", d # c
          PROVE  /\ calls'[d].slot \in workers /\ calls'[d].slot \in Slot
                 /\ slots'[calls'[d].slot].busy
                 /\ slots'[calls'[d].slot].inbox = {}
                 /\ \A e \in Call : calls'[e] = calls'[d] => e = d
      BY <2>2, <2>4, <3>2, <3>3 DEF AcquiredInv, TypeOK
    <3> QED BY <1>1, <1>3, <2>1, <2>2, <2>3, <2>4, <3>2, <3>3 DEF AcquiredInv
  <2>8. WaitingInv'
    BY <1>1, <1>3, <2>2, <2>3, <2>4, QueueFacts DEF WaitingInv
  <2> QED BY <2>5, <2>6, <2>7, <2>8
<1>4. CASE /\ ~shuttingDown
           /\ \A s \in workers : slots[s].busy
           /\ calls' = [calls EXCEPT ![c] = Is("waiting")]
           /\ waiting' = Append(waiting, c)
           /\ slots' = slots
  <2>1. /\ \A d \in Call : d # c => calls'[d] = calls[d]
        /\ calls'[c] = Is("waiting") /\ calls' \in [Call -> CallState]
    BY <1>1, <1>4 DEF TypeOK, Is, CallState
  <2>2. Is("waiting").pc = "waiting"
    BY DEF Is
  <2>3. /\ waiting' \in Seq(Call) /\ waiting' # <<>>
        /\ Len(waiting') = Len(waiting) + 1
        /\ \A i \in 1..Len(waiting) : waiting'[i] = waiting[i]
        /\ waiting'[Len(waiting) + 1] = c
    BY <1>1, <1>4, AppendProperties DEF TypeOK
  <2>4. TypeOK' /\ WorkersInv' /\ PostedInv'
    BY <1>1, <1>4, <2>1, <2>3 DEF TypeOK, WorkersInv, PostedInv
  <2>5. PendingInv'
    BY <1>1, <1>4, <2>1, <2>2 DEF PendingInv
  <2>6. AcquiredInv'
    BY <1>1, <1>4, <2>1, <2>2 DEF AcquiredInv
  <2>7. WaitingInv'
    <3>1. Len(waiting) \in Nat /\ \A i \in 1..Len(waiting) : waiting[i] \in Call \ {c}
      BY <1>1, QueueFacts DEF WaitingInv
    <3>2. \A i \in 1..Len(waiting') : i \in 1..Len(waiting) \/ i = Len(waiting) + 1
      BY <2>3, <3>1
    <3>3. Len(waiting) + 1 \in 1..Len(waiting') /\ 1..Len(waiting) \subseteq 1..Len(waiting')
      BY <2>3, <3>1
    <3>4. \A i \in 1..Len(waiting') : calls'[waiting'[i]].pc = "waiting"
      BY <2>1, <2>2, <2>3, <3>1, <3>2 DEF WaitingInv
    <3>5. \A i, k \in 1..Len(waiting') : waiting'[i] = waiting'[k] => i = k
      BY <2>3, <3>1, <3>2 DEF WaitingInv
    <3>6. ASSUME NEW d \in Call, calls'[d].pc = "waiting"
          PROVE  \E i \in 1..Len(waiting') : waiting'[i] = d
      BY <2>1, <2>3, <3>3, <3>6 DEF WaitingInv
    <3> QED BY <1>1, <1>4, <3>4, <3>5, <3>6 DEF WaitingInv
  <2> QED BY <2>4, <2>5, <2>6, <2>7
<1> QED BY <1>2, <1>3, <1>4 DEF Run

-----------------------------------------------------------------------------
(* What release() leaves of the slots, the calls and the queue that its    *)
(* caller hands over: the slot is free, or the next call of the queue's.   *)
LEMMA ReleaseGives ==
    ASSUME Bookkeeping, NEW s \in Slot,
           NEW newSlots \in [Slot -> SlotState], NEW newCalls \in [Call -> CallState],
           Release(s, newSlots, newCalls)
    PROVE  /\ slots' \in [Slot -> SlotState] /\ calls' \in [Call -> CallState]
           /\ waiting' \in Seq(Call)
           /\ \A t \in Slot : /\ slots'[t].thread = newSlots[t].thread
                              /\ slots'[t].job = newSlots[t].job
                              /\ slots'[t].inbox = newSlots[t].inbox
                              /\ t # s => slots'[t].busy = newSlots[t].busy
           /\ waiting # <<>> => /\ slots'[s].busy
                                /\ Head(waiting) \in Call
                                /\ waiting' = Tail(waiting)
                                /\ calls'[Head(waiting)] = Acquired(s)
                                /\ \A c \in Call \ {Head(waiting)} : calls'[c] = newCalls[c]
           /\ waiting = <<>> => calls' = newCalls /\ waiting' = <<>>
<1> USE DEF Bookkeeping
<1>1. CASE waiting = <<>>
  <2>1. /\ slots' = [newSlots EXCEPT ![s].busy = FALSE]
        /\ calls' = newCalls /\ waiting' = waiting
    BY <1>1 DEF Release
  <2>2. /\ slots' \in [Slot -> SlotState]
        /\ \A t \in Slot : /\ slots'[t].thread = newSlots[t].thread
                           /\ slots'[t].job = newSlots[t].job
                           /\ slots'[t].inbox = newSlots[t].inbox
                           /\ t # s => slots'[t].busy = newSlots[t].busy
    BY <2>1 DEF SlotState
  <2> QED BY <1>1, <2>1, <2>2 DEF TypeOK
<1>2. CASE waiting # <<>>
  <2>1. /\ slots' = [newSlots EXCEPT ![s].busy = TRUE]
        /\ calls' = [newCalls EXCEPT ![Head(waiting)] = Acquired(s)]
        /\ waiting' = Tail(waiting)
    BY <1>2 DEF Release
  <2>2. /\ slots' \in [Slot -> SlotState]
        /\ slots'[s].busy
        /\ \A t \in Slot : /\ slots'[t].thread = newSlots[t].thread
                           /\ slots'[t].job = newSlots[t].job
                           /\ slots'[t].inbox = newSlots[t].inbox
                           /\ t # s => slots'[t].busy = newSlots[t].busy
    BY <2>1 DEF SlotState
  <2>3. Head(waiting) \in Call /\ Tail(waiting) \in Seq(Call)
    BY <1>2, QueueFacts
  <2>4. Acquired(s) \in CallState
    BY DEF Acquired, CallState
  <2> QED BY <1>2, <2>1, <2>2, <2>3, <2>4
<1> QED BY <1>1, <1>2

(* The queue after its head has been taken. *)
LEMMA NextServed ==
    ASSUME Bookkeeping, waiting # <<>>, waiting' = Tail(waiting),
           \A c \in Call \ {Head(waiting)} : calls'[c].pc = "waiting" <=> calls[c].pc = "waiting",
           calls'[Head(waiting)].pc # "waiting"
    PROVE  /\ \A i \in 1..Len(waiting') : calls'[waiting'[i]].pc = "waiting"
           /\ \A i, k \in 1..Len(waiting') : waiting'[i] = waiting'[k] => i = k
           /\ \A c \in Call : calls'[c].pc = "waiting" =>
                                \E i \in 1..Len(waiting') : waiting'[i] = c
<1> USE DEF Bookkeeping
<1>1. /\ Len(waiting) \in Nat /\ Len(waiting') = Len(waiting) - 1
      /\ Head(waiting) = waiting[1] /\ Head(waiting) \in Call /\ 1 \in 1..Len(waiting)
      /\ \A i \in 1..Len(waiting) : waiting[i] \in Call
      /\ \A i \in 1..Len(waiting') : waiting'[i] = waiting[i + 1]
  BY QueueFacts
<1>2. \A i \in 1..Len(waiting') : i + 1 \in 1..Len(waiting) /\ i + 1 # 1
  BY <1>1
<1>3. \A i \in 1..Len(waiting') : waiting'[i] \in Call \ {Head(waiting)}
  BY <1>1, <1>2 DEF WaitingInv
<1>4. \A i \in 1..Len(waiting') : calls'[waiting'[i]].pc = "waiting"
  BY <1>1, <1>2, <1>3 DEF WaitingInv
<1>5. ASSUME NEW i \in 1..Len(waiting'), NEW k \in 1..Len(waiting'), waiting'[i] = waiting'[k]
      PROVE  i = k
  <2>1. i + 1 = k + 1
    BY <1>1, <1>2, <1>5 DEF WaitingInv
  <2> QED BY <2>1
<1>6. ASSUME NEW c \in Call, calls'[c].pc = "waiting"
      PROVE  \E i \in 1..Len(waiting') : waiting'[i] = c
  <2>1. c # Head(waiting) /\ calls[c].pc = "waiting"
    BY <1>6
  <2>2. PICK k \in 1..Len(waiting) : waiting[k] = c
    BY <2>1 DEF WaitingInv
  <2>3. k # 1
    BY <1>1, <2>1, <2>2
  <2>4. k - 1 \in 1..Len(waiting') /\ (k - 1) + 1 = k
    BY <1>1, <2>3
  <2> QED BY <1>1, <2>2, <2>4
<1> QED BY <1>4, <1>5, <1>6

-----------------------------------------------------------------------------
(* An answer: the thread has no job any more, the call or the recovery is  *)
(* settled, and the slot goes on to the queue.                             *)
LEMMA AnswerStep ==
    ASSUME Bookkeeping, NEW s \in Slot, Answer(s)
    PROVE  Bookkeeping'
<1> USE DEF Bookkeeping
<1>1. PICK j \in slots[s].inbox, ok \in BOOLEAN :
        LET known == j \in pending
        IN  /\ Release(s,
                 [slots EXCEPT ![s].job = NoJob,
                               ![s].inbox = @ \ {j},
                               ![s].warm = @ \/ ok,
                               ![s].attempts = IF known /\ j = s /\ ok THEN 0 ELSE @],
                 [c \in Call |-> IF known /\ c = j
                                 THEN Is(IF ok THEN "resolved" ELSE "rejected")
                                 ELSE calls[c]])
            /\ pending' = pending \ {j}
            /\ recovery' = IF known /\ j \in Slot THEN recovery - 1 ELSE recovery
  BY DEF Answer
<1>2. /\ \A c \in Call : calls[c].pc # "acquired"
      /\ workers' = workers /\ crashes' = crashes /\ booted' = booted
      /\ warmedUp' = warmedUp /\ shuttingDown' = shuttingDown /\ snapshot' = snapshot
  BY DEF Answer, Quiet, flags
<1> DEFINE newSlots == [slots EXCEPT ![s].job = NoJob,
                                     ![s].inbox = @ \ {j},
                                     ![s].warm = @ \/ ok,
                                     ![s].attempts = IF j \in pending /\ j = s /\ ok
                                                     THEN 0 ELSE @]
           newCalls == [c \in Call |-> IF j \in pending /\ c = j
                                       THEN Is(IF ok THEN "resolved" ELSE "rejected")
                                       ELSE calls[c]]
<1>3. /\ slots[s].inbox = {j} /\ slots[s].thread = "alive" /\ s \in workers
      /\ \A t \in Slot : t # s => j \notin slots[t].inbox
  BY DEF PostedInv, WorkersInv
<1>4. /\ newSlots \in [Slot -> SlotState]
      /\ newSlots[s].inbox = {} /\ newSlots[s].thread = slots[s].thread
      /\ newSlots[s].job = NoJob
      /\ \A t \in Slot : t # s => newSlots[t] = slots[t]
  <2> DEFINE warm == slots[s].warm \/ ok
             attempts == IF j \in pending /\ j = s /\ ok THEN 0 ELSE slots[s].attempts
  <2>1. warm \in BOOLEAN
    OBVIOUS
  <2>2. attempts \in 0..MaxRecovery
    BY ShimPoolAssumption, FieldFacts
  <2>3. newSlots = [slots EXCEPT ![s] = [slots[s] EXCEPT !.job = NoJob,
                                                         !.inbox = slots[s].inbox \ {j},
                                                         !.warm = warm,
                                                         !.attempts = attempts]]
    BY DEF TypeOK
  <2> HIDE DEF newSlots, warm, attempts
  <2>4. slots[s].inbox \ {j} = {}
    BY <1>3
  <2> QED BY <2>1, <2>2, <2>3, <2>4 DEF TypeOK, SlotState
<1>5. /\ newCalls \in [Call -> CallState]
      /\ \A c \in Call : /\ newCalls[c].pc # "acquired"
                         /\ newCalls[c].pc = "waiting" <=> calls[c].pc = "waiting"
                         /\ newCalls[c].pc = "pending" <=> c \in pending \ {j}
  <2>1. ASSUME NEW c \in Call
        PROVE  /\ newCalls[c] \in CallState
               /\ newCalls[c].pc # "acquired"
               /\ newCalls[c].pc = "waiting" <=> calls[c].pc = "waiting"
               /\ newCalls[c].pc = "pending" <=> c \in pending \ {j}
    <3>1. CASE j \in pending /\ c = j
      <4>1. newCalls[c].pc \in {"resolved", "rejected"} /\ newCalls[c] \in CallState
        BY <3>1 DEF Is, CallState
      <4> QED BY <3>1, <4>1 DEF PendingInv
    <3>2. CASE ~(j \in pending /\ c = j)
      BY <1>2, <3>2, FieldFacts DEF PendingInv
    <3> QED BY <3>1, <3>2
  <2>2. newCalls \in [Call -> CallState]
    BY <2>1
  <2> QED BY <2>1, <2>2
<1>6. /\ Release(s, newSlots, newCalls) /\ pending' = pending \ {j}
      /\ recovery' = IF j \in pending /\ j \in Slot THEN recovery - 1 ELSE recovery
  BY <1>1
<1> HIDE DEF newSlots, newCalls
<1>7. /\ slots' \in [Slot -> SlotState] /\ calls' \in [Call -> CallState]
      /\ waiting' \in Seq(Call)
      /\ slots'[s].inbox = {} /\ slots'[s].job = NoJob
      /\ \A t \in Slot : /\ slots'[t].thread = slots[t].thread
                         /\ t # s => /\ slots'[t].job = slots[t].job
                                     /\ slots'[t].inbox = slots[t].inbox
                                     /\ slots'[t].busy = slots[t].busy
      /\ waiting # <<>> => /\ slots'[s].busy /\ waiting' = Tail(waiting)
                           /\ Head(waiting) \in Call
                           /\ calls'[Head(waiting)] = Acquired(s)
                           /\ \A c \in Call \ {Head(waiting)} : calls'[c] = newCalls[c]
      /\ waiting = <<>> => calls' = newCalls /\ waiting' = <<>>
  BY <1>4, <1>5, <1>6, ReleaseGives
<1>8. Acquired(s).pc = "acquired" /\ Acquired(s).slot = s
  BY DEF Acquired
<1>9. waiting # <<>> => calls[Head(waiting)].pc = "waiting"
  BY QueueFacts DEF WaitingInv
<1>10. TypeOK'
  BY <1>2, <1>6, <1>7 DEF TypeOK
<1>11. WorkersInv'
  BY <1>2, <1>7 DEF WorkersInv
<1>12. PostedInv'
  <2>1. ASSUME NEW t \in Slot
        PROVE  /\ slots'[t].inbox \in {{}, {slots'[t].job}}
               /\ slots'[t].inbox # {} => slots'[t].thread = "alive" /\ slots'[t].busy
               /\ slots'[t].inbox \subseteq slots[t].inbox
    BY <1>7 DEF PostedInv
  <2> QED BY <1>7, <2>1 DEF PostedInv
<1>13. PendingInv'
  <2>1. \A c \in Call : calls'[c].pc = "pending" <=> c \in pending'
    BY <1>5, <1>6, <1>7, <1>8, <1>9 DEF PendingInv
  <2>2. recovery' = Cardinality(pending' \cap Slot)
    BY <1>6, WarmUpCount DEF PendingInv
  <2>3. \A i \in pending' : \E t \in Slot : i \in slots'[t].inbox
    BY <1>3, <1>6, <1>7 DEF PendingInv
  <2>4. ASSUME ~shuttingDown, NEW t \in Slot
        PROVE  /\ slots'[t].inbox \subseteq pending'
               /\ slots'[t].job # NoJob => slots'[t].job \in slots'[t].inbox
    <3>1. /\ slots[t].inbox \subseteq pending
          /\ slots[t].job # NoJob => slots[t].job \in slots[t].inbox
      BY <2>4 DEF PendingInv
    <3>2. CASE t = s
      BY <1>7, <3>2
    <3>3. CASE t # s
      BY <1>3, <1>6, <1>7, <3>1, <3>3
    <3> QED BY <3>2, <3>3
  <2>5. shuttingDown => pending' = {}
    BY <1>6 DEF PendingInv
  <2> QED BY <1>2, <2>1, <2>2, <2>3, <2>4, <2>5 DEF PendingInv
<1>14. AcquiredInv'
  BY <1>2, <1>3, <1>5, <1>7, <1>8 DEF AcquiredInv
<1>15. WaitingInv'
  <2>1. CASE waiting = <<>>
    BY <1>2, <1>5, <1>7, <2>1, QueueFacts, EmptySeq DEF WaitingInv
  <2>2. CASE waiting # <<>>
    <3>1. /\ \A c \in Call \ {Head(waiting)} :
               calls'[c].pc = "waiting" <=> calls[c].pc = "waiting"
          /\ calls'[Head(waiting)].pc # "waiting"
      BY <1>5, <1>7, <1>8, <2>2
    <3>2. /\ \A i \in 1..Len(waiting') : calls'[waiting'[i]].pc = "waiting"
          /\ \A i, k \in 1..Len(waiting') : waiting'[i] = waiting'[k] => i = k
          /\ \A c \in Call : calls'[c].pc = "waiting" =>
                               \E i \in 1..Len(waiting') : waiting'[i] = c
      BY <1>7, <2>2, <3>1, NextServed
    <3>3. ~shuttingDown' /\ \A t \in workers' : slots'[t].busy
      BY <1>2, <1>7, <2>2 DEF WaitingInv, TypeOK
    <3> QED BY <3>2, <3>3 DEF WaitingInv
  <2> QED BY <2>1, <2>2
<1> QED BY <1>10, <1>11, <1>12, <1>13, <1>14, <1>15

-----------------------------------------------------------------------------
(* A call that was given a slot posts its request, or gives the slot back  *)
(* when the pool has been terminated.                                      *)
LEMMA DispatchStep ==
    ASSUME Bookkeeping, NEW c \in Call, Dispatch(c)
    PROVE  Bookkeeping'
<1> USE DEF Bookkeeping
<1> DEFINE s == calls[c].slot
<1>1. /\ calls[c].pc = "acquired"
      /\ workers' = workers /\ recovery' = recovery /\ crashes' = crashes
      /\ booted' = booted /\ warmedUp' = warmedUp /\ shuttingDown' = shuttingDown
      /\ snapshot' = snapshot
  BY DEF Dispatch, flags
<1>2. /\ s \in workers /\ s \in Slot /\ slots[s].inbox = {} /\ slots[s].busy
      /\ c \notin pending /\ \A t \in Slot : c \notin slots[t].inbox \/ shuttingDown
  <2>1. s \in workers /\ s \in Slot /\ slots[s].inbox = {} /\ slots[s].busy
    BY <1>1 DEF AcquiredInv, TypeOK
  <2>2. c \notin pending
    BY <1>1 DEF PendingInv
  <2>3. ~shuttingDown => \A t \in Slot : slots[t].inbox \subseteq pending
    BY DEF PendingInv
  <2> QED BY <2>1, <2>2, <2>3
<1>3. \A d \in Call : d # c /\ calls[d].pc = "acquired" => calls[d].slot # s
  <2> SUFFICES ASSUME NEW d \in Call, calls[d].pc = "acquired", calls[d].slot = s
               PROVE  d = c
    OBVIOUS
  <2>1. calls[d] = calls[c]
    BY <1>1, FieldFacts DEF CallState
  <2> QED BY <1>1, <2>1 DEF AcquiredInv
<1> HIDE DEF s
<1>4. CASE shuttingDown
  <2>1. waiting = <<>> /\ pending = {}
    BY <1>4 DEF WaitingInv, PendingInv
  <2>2. /\ slots' = [slots EXCEPT ![s].busy = FALSE]
        /\ calls' = [calls EXCEPT ![c] = Is("rejected")]
        /\ waiting' = waiting /\ pending' = pending
    BY <1>4, <2>1 DEF Dispatch, Release, s
  <2>3. /\ slots' \in [Slot -> SlotState]
        /\ \A t \in Slot : /\ slots'[t].thread = slots[t].thread
                           /\ slots'[t].job = slots[t].job
                           /\ slots'[t].inbox = slots[t].inbox
                           /\ t # s => slots'[t].busy = slots[t].busy
    BY <2>2 DEF TypeOK, SlotState
  <2>4. /\ calls' \in [Call -> CallState]
        /\ calls'[c].pc = "rejected"
        /\ \A d \in Call : d # c => calls'[d] = calls[d]
    BY <2>2 DEF TypeOK, Is, CallState
  <2>5. TypeOK' /\ WorkersInv'
    BY <1>1, <2>2, <2>3, <2>4 DEF TypeOK, WorkersInv
  <2>6. PostedInv'
    BY <1>2, <2>3 DEF PostedInv
  <2>7. PendingInv'
    BY <1>1, <2>1, <2>2, <2>3, <2>4 DEF PendingInv
  <2>8. AcquiredInv'
    <3> SUFFICES ASSUME NEW d \in Call, calls'[d].pc = "acquired"
                 PROVE  /\ calls'[d].slot \in workers
                        /\ slots'[calls'[d].slot].busy
                        /\ slots'[calls'[d].slot].inbox = {}
                        /\ \A e \in Call : calls'[e] = calls'[d] => e = d
      BY <1>1 DEF AcquiredInv
    <3>1. d # c /\ calls'[d] = calls[d] /\ calls[d].slot \in Slot \ {s}
      BY <1>3, <2>4 DEF AcquiredInv, TypeOK
    <3>2. \A e \in Call : calls'[e] = calls'[d] => e # c /\ calls'[e] = calls[e]
      BY <2>4, <3>1
    <3>3. /\ calls[d].slot \in workers /\ slots[calls[d].slot].busy
          /\ slots[calls[d].slot].inbox = {}
          /\ \A e \in Call : calls[e] = calls[d] => e = d
      BY <3>1 DEF AcquiredInv
    <3> QED BY <2>3, <3>1, <3>2, <3>3
  <2>9. WaitingInv'
    BY <1>1, <2>1, <2>2, <2>4, EmptySeq DEF WaitingInv
  <2> QED BY <2>5, <2>6, <2>7, <2>8, <2>9
<1>5. CASE ~shuttingDown
  <2>1. /\ slots' = [slots EXCEPT ![s].job = c, ![s].inbox = @ \cup {c}]
        /\ calls' = [calls EXCEPT ![c].pc = "pending"]
        /\ waiting' = waiting /\ pending' = pending \cup {c}
    BY <1>5 DEF Dispatch, s
  <2>2. /\ slots' \in [Slot -> SlotState]
        /\ slots'[s].thread = slots[s].thread /\ slots'[s].busy = slots[s].busy
        /\ slots'[s].job = c /\ slots'[s].inbox = {c}
        /\ \A t \in Slot : t # s => slots'[t] = slots[t]
    <3>1. slots' = [slots EXCEPT ![s] = [slots[s] EXCEPT !.job = c, !.inbox = {c}]]
      BY <1>2, <2>1 DEF TypeOK
    <3> QED BY <1>2, <3>1 DEF TypeOK, SlotState, Job
  <2>3. /\ calls' \in [Call -> CallState]
        /\ calls'[c].pc = "pending"
        /\ \A d \in Call : d # c => calls'[d] = calls[d]
    BY <2>1 DEF TypeOK, CallState
  <2>4. c \in Job \ Slot
    BY FieldFacts
  <2>5. TypeOK' /\ WorkersInv'
    BY <1>1, <1>2, <2>1, <2>2, <2>3, <2>4 DEF TypeOK, WorkersInv
  <2>6. PostedInv'
    <3>1. slots[s].thread = "alive"
      BY <1>2, <1>5 DEF WorkersInv
    <3>2. ASSUME NEW t \in Slot
          PROVE  /\ slots'[t].inbox \in {{}, {slots'[t].job}}
                 /\ slots'[t].inbox # {} => slots'[t].thread = "alive" /\ slots'[t].busy
                 /\ slots'[t].inbox \cap Slot \subseteq {t}
      <4>1. CASE t = s
        BY <1>2, <2>2, <2>4, <3>1, <4>1
      <4>2. CASE t # s
        BY <2>2, <4>2 DEF PostedInv
      <4> QED BY <4>1, <4>2
    <3>3. \A t, u \in Slot : t # u => slots'[t].inbox \cap slots'[u].inbox = {}
      BY <1>2, <1>5, <2>2 DEF PostedInv
    <3> QED BY <3>2, <3>3 DEF PostedInv
  <2>7. PendingInv'
    <3>1. \A d \in Call : calls'[d].pc = "pending" <=> d \in pending'
      BY <2>1, <2>3 DEF PendingInv
    <3>2. recovery' = Cardinality(pending' \cap Slot)
      BY <1>1, <2>1, <2>4, WarmUpCount DEF PendingInv
    <3>3. \A j \in pending' : \E t \in Slot : j \in slots'[t].inbox
      BY <1>2, <2>1, <2>2 DEF PendingInv
    <3>4. \A t \in Slot : /\ slots'[t].inbox \subseteq pending'
                          /\ slots'[t].job # NoJob => slots'[t].job \in slots'[t].inbox
      BY <1>2, <1>5, <2>1, <2>2 DEF PendingInv
    <3> QED BY <1>1, <1>5, <3>1, <3>2, <3>3, <3>4 DEF PendingInv
  <2>8. AcquiredInv'
    <3> SUFFICES ASSUME NEW d \in Call, calls'[d].pc = "acquired"
                 PROVE  /\ calls'[d].slot \in workers
                        /\ slots'[calls'[d].slot].busy
                        /\ slots'[calls'[d].slot].inbox = {}
                        /\ \A e \in Call : calls'[e] = calls'[d] => e = d
      BY <1>1 DEF AcquiredInv
    <3>1. d # c /\ calls'[d] = calls[d] /\ calls[d].slot \in Slot \ {s}
      BY <1>3, <2>3 DEF AcquiredInv, TypeOK
    <3> QED BY <1>1, <2>2, <2>3, <3>1 DEF AcquiredInv
  <2>9. WaitingInv'
    <3>1. \A i \in 1..Len(waiting) : waiting[i] \in Call \ {c}
      BY <1>1, QueueFacts DEF WaitingInv
    <3>2. \A t \in Slot : slots[t].busy => slots'[t].busy
      BY <2>2
    <3> QED BY <1>1, <2>1, <2>3, <3>1, <3>2 DEF WaitingInv, TypeOK
  <2> QED BY <2>5, <2>6, <2>7, <2>8, <2>9
<1> QED BY <1>4, <1>5

-----------------------------------------------------------------------------
(* A slot that is not taken: it is out of the pool and nothing is with it. *)
LEMMA UnusedFacts ==
    ASSUME Bookkeeping, ~shuttingDown, NEW n \in Slot, NextUnused(n)
    PROVE  /\ n \notin workers /\ n \notin pending /\ slots[n].inbox = {}
           /\ slots[n].thread = "none"
           /\ \A t \in Slot : n \notin slots[t].inbox
<1> USE DEF Bookkeeping
<1>1. slots[n].thread = "none" /\ slots[n].inbox = {}
  BY DEF NextUnused, PostedInv
<1>2. n \notin workers
  BY <1>1 DEF WorkersInv
<1>3. \A t \in Slot : n \notin slots[t].inbox
  BY <1>1 DEF PostedInv
<1> QED BY <1>1, <1>2, <1>3 DEF PendingInv

(* A replacement is alive, busy and has been posted its own warm-up. *)
LEMMA ReplacementFields ==
    ASSUME NEW n \in Job, NEW attempts \in 0..MaxRecovery
    PROVE  /\ Replacement(n, attempts) \in SlotState
           /\ Replacement(n, attempts).thread = "alive"
           /\ Replacement(n, attempts).busy = TRUE
           /\ Replacement(n, attempts).job = n
           /\ Replacement(n, attempts).inbox = {n}
<1>1. Spawned \in SlotState /\ Spawned.thread = "alive"
  <2>1. 0 \in 0..MaxRecovery
    BY ShimPoolAssumption
  <2> QED BY <2>1 DEF Spawned, Unused, SlotState
<1> QED BY <1>1 DEF Replacement, SlotState

(* A crash settles the job of its thread and leaves nothing of the slot; a *)
(* replacement, if any, is busy with its warm-up, and counts as recovery.  *)
LEMMA CrashStep ==
    ASSUME Bookkeeping, Quiet, NEW s \in Slot, slots[s].thread = "alive",
           NEW thread \in {"exiting", "none"}, HandleCrash(s, thread)
    PROVE  Bookkeeping'
<1> USE DEF Bookkeeping
<1> DEFINE job  == slots[s].job
           dead == [Unused EXCEPT !.thread = thread]
           lost == {job} \cap pending
           attempts == slots[s].attempts + 1
<1>1. /\ \A c \in Call : calls[c].pc # "acquired"
      /\ crashes' = crashes + 1 /\ crashes' \in 0..MaxCrashes
      /\ booted' = booted /\ warmedUp' = warmedUp /\ shuttingDown' = shuttingDown
      /\ snapshot' = snapshot /\ waiting' = waiting
      /\ calls' = [c \in Call |-> IF c \in lost THEN Is("rejected") ELSE calls[c]]
  <2>1. crashes < MaxCrashes /\ crashes' = crashes + 1
    BY DEF HandleCrash
  <2>2. crashes' \in 0..MaxCrashes
    BY <2>1, ShimPoolAssumption DEF TypeOK
  <2>3. \A c \in Call : calls[c].pc # "acquired"
    BY DEF Quiet
  <2>4. /\ booted' = booted /\ warmedUp' = warmedUp /\ shuttingDown' = shuttingDown
        /\ snapshot' = snapshot /\ waiting' = waiting
    BY DEF HandleCrash, flags
  <2>5. calls' = [c \in Call |-> IF c \in lost THEN Is("rejected") ELSE calls[c]]
    BY DEF HandleCrash
  <2> QED BY <2>1, <2>2, <2>3, <2>4, <2>5
<1>2. /\ s \in workers /\ slots[s].inbox \subseteq {job}
      /\ pending \ lost = pending \ {job}
      /\ \A t \in Slot : t # s => slots[t].inbox \cap lost = {}
  <2>1. job \in pending => job \in slots[s].inbox
    <3>1. NoJob \notin pending /\ (pending # {} => ~shuttingDown)
      BY FieldFacts DEF TypeOK, PendingInv
    <3> QED BY <3>1 DEF PendingInv
  <2> QED BY <2>1 DEF WorkersInv, PostedInv
<1>3. /\ dead \in SlotState /\ dead.thread = thread /\ dead.job = NoJob
      /\ dead.inbox = {} /\ dead.busy = FALSE
  <2>1. 0 \in 0..MaxRecovery
    BY ShimPoolAssumption
  <2> QED BY <2>1 DEF Unused, SlotState
<1>4. recovery - Cardinality(lost \cap Slot) = Cardinality((pending \ {job}) \cap Slot)
  <2>1. /\ recovery = Cardinality(pending \cap Slot) /\ recovery \in Nat
        /\ Cardinality((pending \ {job}) \cap Slot) =
             IF job \in pending \cap Slot THEN recovery - 1 ELSE recovery
    BY WarmUpCount, WarmUpsFinite DEF PendingInv
  <2>2. Cardinality(lost \cap Slot) = IF job \in pending \cap Slot THEN 1 ELSE 0
    <3>1. lost \cap Slot = IF job \in pending \cap Slot THEN {job} ELSE {}
      OBVIOUS
    <3> QED BY <3>1, FS_EmptySet, FS_Singleton
  <2> QED BY <2>1, <2>2
<1>5. /\ calls' \in [Call -> CallState]
      /\ \A c \in Call : /\ calls'[c].pc = "pending" <=> c \in pending \ {job}
                         /\ calls'[c].pc # "acquired"
                         /\ calls'[c].pc = "waiting" <=> calls[c].pc = "waiting"
  <2>1. Is("rejected").pc = "rejected" /\ Is("rejected") \in CallState
    BY DEF Is, CallState
  <2>2. \A c \in Call : calls[c].pc = "pending" <=> c \in pending
    BY DEF PendingInv
  <2> QED BY <1>1, <1>2, <2>1, <2>2, FieldFacts
<1> HIDE DEF dead, lost, job
<1>6. AcquiredInv'
  BY <1>5 DEF AcquiredInv
<1>7. ASSUME workers' \subseteq Slot, \A t \in workers' : t # s,
             \A t \in workers' : t \in workers => slots'[t] = slots[t],
             \A t \in workers' : t \notin workers => slots'[t].busy
      PROVE  WaitingInv'
  <2>1. \A i \in 1..Len(waiting) : waiting[i] \in Call
    BY QueueFacts
  <2>2. waiting # <<>> => ~shuttingDown' /\ \A t \in workers' : slots'[t].busy
    BY <1>1, <1>7 DEF WaitingInv
  <2> QED BY <1>1, <1>5, <2>1, <2>2 DEF WaitingInv
<1>8. IsFiniteSet(workers) /\ Cardinality(workers) \in Nat /\ Cardinality(Boot) \in Nat
  BY WarmUpsFinite, FS_Subset, FS_CardinalityType, ShimPoolAssumption DEF TypeOK
<1>9. /\ IsFiniteSet(workers \ {s})
      /\ Cardinality(workers \ {s}) = Cardinality(workers) - 1
      /\ \A n : n \notin workers => Cardinality((workers \ {s}) \cup {n}) = Cardinality(workers)
  BY <1>2, <1>8, FS_RemoveElement, FS_AddElement
<1>10. CASE /\ slots' = [slots EXCEPT ![s] = dead]
            /\ workers' = workers \ {s} /\ pending' = pending \ lost
            /\ recovery' = recovery - Cardinality(lost \cap Slot)
  <2>1. /\ slots' \in [Slot -> SlotState] /\ slots'[s] = dead
        /\ \A t \in Slot : t # s => slots'[t] = slots[t]
    BY <1>3, <1>10 DEF TypeOK
  <2>2. recovery' \in Int /\ recovery' = Cardinality(pending' \cap Slot)
    <3>1. pending' = pending \ {job}
      BY <1>2, <1>10
    <3>2. recovery' = Cardinality((pending \ {job}) \cap Slot)
      BY <1>4, <1>10
    <3> QED BY <3>1, <3>2, WarmUpsFinite
  <2>3. TypeOK'
    BY <1>1, <1>5, <1>10, <2>1, <2>2 DEF TypeOK
  <2>4. WorkersInv'
    <3>1. Cardinality(workers') <= Cardinality(Boot)
      BY <1>8, <1>9, <1>10 DEF WorkersInv
    <3> QED BY <1>1, <1>3, <1>10, <2>1, <3>1 DEF WorkersInv
  <2>5. PostedInv'
    <3>1. \A t \in Slot : slots'[t].inbox # {} => slots'[t] = slots[t]
      BY <1>3, <2>1
    <3> QED BY <2>1, <1>3, <3>1 DEF PostedInv
  <2>6. PendingInv'
    <3>1. \A j \in pending' : \E t \in Slot : j \in slots'[t].inbox
      BY <1>2, <1>10, <2>1 DEF PendingInv
    <3>2. ASSUME ~shuttingDown, NEW t \in Slot
          PROVE  /\ slots'[t].inbox \subseteq pending'
                 /\ slots'[t].job # NoJob => slots'[t].job \in slots'[t].inbox
      <4>1. CASE t = s
        BY <1>3, <2>1, <4>1
      <4>2. CASE t # s
        BY <1>2, <1>10, <2>1, <3>2, <4>2 DEF PendingInv
      <4> QED BY <4>1, <4>2
    <3>3. shuttingDown => pending' = {}
      BY <1>10 DEF PendingInv
    <3>4. \A c \in Call : calls'[c].pc = "pending" <=> c \in pending'
      BY <1>2, <1>5, <1>10
    <3> QED BY <1>1, <2>2, <3>1, <3>2, <3>3, <3>4 DEF PendingInv
  <2>7. WaitingInv'
    BY <1>7, <1>10, <2>1 DEF TypeOK
  <2> QED BY <1>6, <2>3, <2>4, <2>5, <2>6, <2>7
<1>11. ASSUME ~shuttingDown, ~GivesUp(attempts), NEW n \in Slot, NextUnused(n),
              slots' = [slots EXCEPT ![s] = dead, ![n] = Replacement(n, attempts)],
              workers' = (workers \ {s}) \cup {n},
              pending' = (pending \ lost) \cup {n},
              recovery' = recovery - Cardinality(lost \cap Slot) + 1
       PROVE  Bookkeeping'
  <2>1. /\ n \notin workers /\ n \notin pending /\ slots[n].inbox = {} /\ n # s
        /\ \A t \in Slot : n \notin slots[t].inbox
    BY <1>11, UnusedFacts
  <2> DEFINE new == Replacement(n, attempts)
  <2>2. /\ new \in SlotState /\ new.thread = "alive" /\ new.busy = TRUE
        /\ new.job = n /\ new.inbox = {n}
    <3>1. attempts \in 0..MaxRecovery /\ n \in Job
      BY <1>11, FieldFacts, ShimPoolAssumption DEF GivesUp
    <3> HIDE DEF attempts
    <3> QED BY <3>1, ReplacementFields
  <2>3. /\ slots' \in [Slot -> SlotState] /\ slots'[s] = dead /\ slots'[n] = new
        /\ \A t \in Slot : t # s /\ t # n => slots'[t] = slots[t]
    BY <1>3, <1>11, <2>1, <2>2 DEF TypeOK
  <2> HIDE DEF new, attempts
  <2>4. recovery' \in Int /\ recovery' = Cardinality(pending' \cap Slot)
    <3>1. n \notin pending \ {job}
      BY <2>1
    <3>2. pending' = (pending \ {job}) \cup {n}
      BY <1>2, <1>11
    <3>3. recovery' = Cardinality((pending \ {job}) \cap Slot) + 1
      BY <1>4, <1>11
    <3>4. Cardinality(((pending \ {job}) \cup {n}) \cap Slot) =
            Cardinality((pending \ {job}) \cap Slot) + 1
      BY <3>1, WarmUpCount
    <3>5. Cardinality((pending \ {job}) \cap Slot) \in Nat
      BY WarmUpsFinite
    <3> QED BY <3>2, <3>3, <3>4, <3>5
  <2>5. TypeOK'
    BY <1>1, <1>5, <1>11, <2>3, <2>4, FieldFacts DEF TypeOK
  <2>6. WorkersInv'
    <3>1. Cardinality(workers') <= Cardinality(Boot)
      BY <1>8, <1>9, <1>11, <2>1 DEF WorkersInv
    <3>2. \A t \in Slot : /\ slots'[t].thread = "alive" => t \in workers'
                          /\ t \in workers' => slots'[t].thread = "alive"
      BY <1>3, <1>11, <2>1, <2>2, <2>3 DEF WorkersInv
    <3>3. snapshot' = {} /\ ~shuttingDown'
      BY <1>1, <1>11 DEF WorkersInv
    <3> QED BY <1>11, <3>1, <3>2, <3>3 DEF WorkersInv
  <2>7. PostedInv'
    <3>1. ASSUME NEW t \in Slot
          PROVE  /\ slots'[t].inbox \in {{}, {slots'[t].job}}
                 /\ slots'[t].inbox # {} => slots'[t].thread = "alive" /\ slots'[t].busy
                 /\ slots'[t].inbox \cap Slot \subseteq {t}
      <4>1. CASE t = s
        BY <1>3, <2>3, <4>1
      <4>2. CASE t = n
        BY <2>2, <2>3, <4>2
      <4>3. CASE t # s /\ t # n
        BY <2>3, <4>3 DEF PostedInv
      <4> QED BY <4>1, <4>2, <4>3
    <3>2. ASSUME NEW t \in Slot, NEW u \in Slot, t # u
          PROVE  slots'[t].inbox \cap slots'[u].inbox = {}
      BY <1>3, <2>1, <2>2, <2>3, <3>2 DEF PostedInv
    <3> QED BY <3>1, <3>2 DEF PostedInv
  <2>8. PendingInv'
    <3>1. \A j \in pending' : \E t \in Slot : j \in slots'[t].inbox
      BY <1>2, <1>11, <2>1, <2>2, <2>3 DEF PendingInv
    <3>2. ASSUME NEW t \in Slot
          PROVE  /\ slots'[t].inbox \subseteq pending'
                 /\ slots'[t].job # NoJob => slots'[t].job \in slots'[t].inbox
      <4>1. CASE t = s
        BY <1>3, <2>3, <4>1
      <4>2. CASE t = n
        BY <1>11, <2>2, <2>3, <4>2
      <4>3. CASE t # s /\ t # n
        BY <1>2, <1>11, <2>3, <4>3 DEF PendingInv
      <4> QED BY <4>1, <4>2, <4>3
    <3>3. \A c \in Call : calls'[c].pc = "pending" <=> c \in pending'
      BY <1>2, <1>5, <1>11, FieldFacts
    <3> QED BY <1>1, <1>11, <2>4, <3>1, <3>2, <3>3 DEF PendingInv
  <2>9. WaitingInv'
    BY <1>7, <1>11, <2>1, <2>2, <2>3 DEF TypeOK
  <2> QED BY <1>6, <2>5, <2>6, <2>7, <2>8, <2>9
<1> QED BY <1>10, <1>11 DEF HandleCrash, job, dead, lost

-----------------------------------------------------------------------------
(* The second event of a thread that is already out of the pool. *)
LEMMA ExitStep ==
    ASSUME Bookkeeping, NEW s \in Slot, ExitEvent(s)
    PROVE  Bookkeeping'
<1> USE DEF Bookkeeping
<1>1. CASE /\ slots[s].thread = "exiting"
           /\ shuttingDown \/ s \notin workers
           /\ slots' = [slots EXCEPT ![s] = Unused]
           /\ UNCHANGED <<workers, calls, waiting, pending, recovery, flags, crashes>>
           /\ Quiet
  <2>1. /\ workers' = workers /\ calls' = calls /\ waiting' = waiting /\ pending' = pending
        /\ recovery' = recovery /\ crashes' = crashes /\ booted' = booted
        /\ warmedUp' = warmedUp /\ shuttingDown' = shuttingDown /\ snapshot' = snapshot
    BY <1>1 DEF flags
  <2>2. Unused \in SlotState /\ Unused.inbox = {} /\ Unused.job = NoJob /\ Unused.thread = "none"
    BY ShimPoolAssumption DEF Unused, SlotState
  <2>3. /\ slots' \in [Slot -> SlotState] /\ slots'[s] = Unused
        /\ \A t \in Slot : t # s => slots'[t] = slots[t]
    BY <1>1, <2>2 DEF TypeOK
  <2>4. slots[s].inbox = {} /\ (s \in workers => shuttingDown)
    BY <1>1 DEF PostedInv
  <2>5. TypeOK' /\ WorkersInv'
    BY <2>1, <2>2, <2>3, <2>4 DEF TypeOK, WorkersInv
  <2>6. PostedInv'
    <3>1. \A t \in Slot : slots'[t].inbox # {} => slots'[t] = slots[t]
      BY <2>2, <2>3
    <3> QED BY <2>2, <2>3, <3>1 DEF PostedInv
  <2>7. PendingInv'
    <3>1. \A j \in pending' : \E t \in Slot : j \in slots'[t].inbox
      BY <2>1, <2>3, <2>4 DEF PendingInv
    <3>2. ASSUME ~shuttingDown, NEW t \in Slot
          PROVE  /\ slots'[t].inbox \subseteq pending'
                 /\ slots'[t].job # NoJob => slots'[t].job \in slots'[t].inbox
      BY <2>1, <2>2, <2>3, <3>2 DEF PendingInv
    <3> QED BY <2>1, <3>1, <3>2 DEF PendingInv
  <2>8. AcquiredInv'
    BY <1>1, <2>1 DEF Quiet, AcquiredInv
  <2>9. WaitingInv'
    BY <1>1, <2>1, <2>3 DEF WaitingInv, TypeOK
  <2> QED BY <2>5, <2>6, <2>7, <2>8, <2>9
<1>2. CASE Quiet /\ slots[s].thread = "alive" /\ HandleCrash(s, "none")
  BY <1>2, CrashStep
<1> QED BY <1>1, <1>2 DEF ExitEvent

(* The end of the constructor's warm-ups changes two flags. *)
LEMMA BootStep ==
    ASSUME Bookkeeping, BootSettled
    PROVE  Bookkeeping'
<1>1. warmedUp' \in BOOLEAN /\ booted' \in BOOLEAN
  BY DEF BootSettled
<1> QED BY <1>1 DEF BootSettled, Bookkeeping, TypeOK, WorkersInv, PostedInv, PendingInv,
              AcquiredInv, WaitingInv

(* terminate() rejects what waits and what is in flight. *)
LEMMA TerminateStep ==
    ASSUME Bookkeeping, Terminate
    PROVE  Bookkeeping'
<1> USE DEF Bookkeeping
<1>1. /\ shuttingDown' = TRUE /\ snapshot' = workers /\ waiting' = <<>> /\ pending' = {}
      /\ slots' = slots /\ workers' = workers /\ booted' = booted /\ warmedUp' = warmedUp
      /\ crashes' = crashes
      /\ calls' = [c \in Call |-> IF calls[c].pc \in {"waiting", "pending"}
                                  THEN Is("rejected") ELSE calls[c]]
      /\ recovery' = recovery - Cardinality(pending \cap Slot)
  BY DEF Terminate
<1>2. /\ calls' \in [Call -> CallState]
      /\ \A c \in Call : /\ calls'[c].pc \notin {"waiting", "pending"}
                         /\ calls'[c].pc = "acquired" => calls'[c] = calls[c]
  <2>1. Is("rejected").pc = "rejected" /\ Is("rejected") \in CallState
    BY DEF Is, CallState
  <2> QED BY <1>1, <2>1, FieldFacts
<1>3. recovery' = 0 /\ pending' \cap Slot = {} /\ Cardinality({}) = 0
  <2>1. recovery = Cardinality(pending \cap Slot) /\ recovery \in Int
    BY DEF PendingInv, TypeOK
  <2> QED BY <1>1, <2>1, FS_EmptySet
<1>4. TypeOK' /\ WorkersInv'
  BY <1>1, <1>2, <1>3, EmptySeq DEF TypeOK, WorkersInv
<1>5. PostedInv'
  BY <1>1 DEF PostedInv
<1>6. PendingInv'
  BY <1>1, <1>2, <1>3 DEF PendingInv
<1>7. AcquiredInv'
  BY <1>1, <1>2 DEF AcquiredInv
<1>8. WaitingInv'
  BY <1>1, <1>2, EmptySeq DEF WaitingInv
<1> QED BY <1>4, <1>5, <1>6, <1>7, <1>8

(* A thread that terminate() waits for stops. *)
LEMMA ThreadStopsStep ==
    ASSUME Bookkeeping, NEW s \in Slot, ThreadStops(s)
    PROVE  Bookkeeping'
<1> USE DEF Bookkeeping
<1>1. /\ s \in snapshot /\ shuttingDown /\ pending = {} /\ waiting = <<>>
      /\ \A c \in Call : calls[c].pc # "acquired"
      /\ slots' = [slots EXCEPT ![s].thread = "stopped", ![s].inbox = {}]
      /\ workers' = workers /\ calls' = calls /\ waiting' = waiting /\ pending' = pending
      /\ recovery' = recovery /\ crashes' = crashes /\ booted' = booted
      /\ warmedUp' = warmedUp /\ shuttingDown' = shuttingDown /\ snapshot' = snapshot
  <2>1. s \in snapshot /\ shuttingDown
    BY DEF ThreadStops, WorkersInv
  <2> QED BY <2>1 DEF ThreadStops, Quiet, flags, PendingInv, WaitingInv
<1>2. /\ slots' \in [Slot -> SlotState]
      /\ slots'[s].thread = "stopped" /\ slots'[s].inbox = {}
      /\ \A t \in Slot : t # s => slots'[t] = slots[t]
  <2>1. slots' = [slots EXCEPT ![s] = [slots[s] EXCEPT !.thread = "stopped", !.inbox = {}]]
    BY <1>1 DEF TypeOK
  <2> QED BY <2>1 DEF TypeOK, SlotState
<1>3. TypeOK' /\ WorkersInv'
  BY <1>1, <1>2 DEF TypeOK, WorkersInv
<1>4. PostedInv'
  <2>1. \A t \in Slot : slots'[t].inbox # {} => slots'[t] = slots[t]
    BY <1>2
  <2> QED BY <1>2, <2>1 DEF PostedInv
<1>5. PendingInv'
  BY <1>1 DEF PendingInv
<1>6. AcquiredInv' /\ WaitingInv'
  BY <1>1, EmptySeq DEF AcquiredInv, WaitingInv
<1> QED BY <1>3, <1>4, <1>5, <1>6

(* The pool is empty once they all have. *)
LEMMA TerminatedStep ==
    ASSUME Bookkeeping, Terminated
    PROVE  Bookkeeping'
<1> USE DEF Bookkeeping
<1>1. /\ shuttingDown /\ pending = {} /\ waiting = <<>> /\ workers' = {}
      /\ \A c \in Call : calls[c].pc # "acquired"
      /\ slots' = slots /\ calls' = calls /\ waiting' = waiting /\ pending' = pending
      /\ recovery' = recovery /\ crashes' = crashes /\ booted' = booted
      /\ warmedUp' = warmedUp /\ shuttingDown' = shuttingDown /\ snapshot' = snapshot
  BY DEF Terminated, Quiet, flags, PendingInv, WaitingInv
<1>2. \A s \in Slot : slots[s].thread # "alive"
  BY <1>1 DEF Terminated, WorkersInv
<1>3. Cardinality({}) = 0 /\ Cardinality(Boot) \in Nat
  BY FS_EmptySet, FS_CardinalityType, ShimPoolAssumption
<1>4. TypeOK' /\ WorkersInv'
  BY <1>1, <1>2, <1>3 DEF TypeOK, WorkersInv
<1>5. PostedInv'
  BY <1>1 DEF PostedInv
<1>6. PendingInv'
  BY <1>1 DEF PendingInv
<1>7. AcquiredInv'
  BY <1>1 DEF AcquiredInv
<1>8. WaitingInv'
  BY <1>1 DEF WaitingInv
<1> QED BY <1>4, <1>5, <1>6, <1>7, <1>8

-----------------------------------------------------------------------------
(* Every event and every call keeps the books. *)
LEMMA BookkeepingStep == Bookkeeping /\ [Next]_vars => Bookkeeping'
<1> SUFFICES ASSUME Bookkeeping, [Next]_vars PROVE Bookkeeping'
  OBVIOUS
<1>1. ASSUME NEW c \in Request, Run(c) PROVE Bookkeeping'
  BY <1>1, RunStep
<1>2. ASSUME NEW c \in Call, Dispatch(c) PROVE Bookkeeping'
  BY <1>2, DispatchStep
<1>3. ASSUME NEW s \in Slot, Answer(s) PROVE Bookkeeping'
  BY <1>3, AnswerStep
<1>4. ASSUME NEW s \in Slot, ErrorEvent(s) PROVE Bookkeeping'
  BY <1>4, CrashStep DEF ErrorEvent
<1>5. ASSUME NEW s \in Slot, ExitEvent(s) PROVE Bookkeeping'
  BY <1>5, ExitStep
<1>6. ASSUME NEW s \in Slot, ThreadStops(s) PROVE Bookkeeping'
  BY <1>6, ThreadStopsStep
<1>7. CASE BootSettled
  BY <1>7, BootStep
<1>8. CASE Terminate
  BY <1>8, TerminateStep
<1>9. CASE Terminated
  BY <1>9, TerminatedStep
<1>10. CASE UNCHANGED vars
  BY <1>10 DEF vars, flags, Bookkeeping, TypeOK, WorkersInv, PostedInv, PendingInv,
               AcquiredInv, WaitingInv
<1> QED BY <1>1, <1>2, <1>3, <1>4, <1>5, <1>6, <1>7, <1>8, <1>9, <1>10 DEF Next

LEMMA BooksAreKept == Spec => []Bookkeeping
  BY InitInv, BookkeepingStep, PTL DEF Spec

(* No thread is ever given a request while it has one, and none but those  *)
(* of the pool is given any, for any number of threads, callers, crashes   *)
(* and recoveries.                                                         *)
THEOREM OneJobAtATime == Spec => []ShimInv
<1>1. Bookkeeping => ShimInv
  <2> SUFFICES ASSUME Bookkeeping, NEW s \in Slot
               PROVE  Cardinality(slots[s].inbox) <= 1 /\ (slots[s].inbox # {} => s \in workers)
    BY DEF ShimInv, OneJobPerThread
  <2>1. slots[s].inbox = {} \/ slots[s].inbox = {slots[s].job}
    BY DEF Bookkeeping, PostedInv
  <2>2. Cardinality({}) = 0 /\ Cardinality({slots[s].job}) = 1
    BY FS_EmptySet, FS_Singleton, Zenon
  <2>3. Cardinality(slots[s].inbox) <= 1
    BY <2>1, <2>2
  <2> QED BY <2>3 DEF Bookkeeping, PostedInv, WorkersInv
<1> QED BY <1>1, BooksAreKept, PTL

(* An entry of the pending map is with a live worker that knows it, so the *)
(* answer or the crash of that worker settles it, in any history of        *)
(* crashes, replacements and terminate().                                  *)
THEOREM PendingIsHeld == Spec => []NoOrphanedCall
<1>1. Bookkeeping => NoOrphanedCall
  <2> SUFFICES ASSUME Bookkeeping, NEW j \in pending
               PROVE  \E s \in workers : /\ slots[s].thread = "alive" /\ slots[s].job = j
                                         /\ j \in slots[s].inbox
    BY DEF NoOrphanedCall
  <2>1. PICK s \in Slot : j \in slots[s].inbox
    BY DEF Bookkeeping, PendingInv
  <2> QED BY <2>1 DEF Bookkeeping, PostedInv, WorkersInv
<1> QED BY <1>1, BooksAreKept, PTL

(* No free worker while a call waits in the queue. *)
THEOREM QueueIsServed == Spec => []NoIdleWhileWaiting
<1>1. Bookkeeping => NoIdleWhileWaiting
  BY DEF Bookkeeping, WaitingInv, NoIdleWhileWaiting
<1> QED BY <1>1, BooksAreKept, PTL

(* The pod is not ready while a replacement has yet to answer its warm-up, *)
(* through any series of crashes.                                          *)
THEOREM ReadyMeansWarm == Spec => []NoColdReplacementWhenReady
<1>1. Bookkeeping => NoColdReplacementWhenReady
  <2> SUFFICES ASSUME Bookkeeping, ready, NEW s \in workers PROVE s \notin slots[s].inbox
    BY DEF NoColdReplacementWhenReady
  <2>1. ~shuttingDown /\ Cardinality(pending \cap Slot) = 0 /\ s \in Slot
    BY DEF ready, Bookkeeping, PendingInv, TypeOK
  <2>2. s \notin pending
    BY <2>1, WarmUpsFinite, FS_EmptySet
  <2> QED BY <2>1, <2>2 DEF Bookkeeping, PendingInv
<1> QED BY <1>1, BooksAreKept, PTL

(* Whichever events its crashes fire the pool never has more workers than  *)
(* it was built with, and no thread is alive that terminate() would miss.  *)
THEOREM PoolDoesNotGrow == Spec => []NoExtraThread
<1>1. Bookkeeping => NoExtraThread
  BY DEF Bookkeeping, WorkersInv, NoExtraThread
<1> QED BY <1>1, BooksAreKept, PTL
=============================================================================
