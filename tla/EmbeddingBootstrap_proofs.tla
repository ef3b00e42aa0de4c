----------------------- MODULE EmbeddingBootstrap_proofs -----------------------
(***************************************************************************)
(* Proofs about the embedding corpus, for any number of processes, rows    *)
(* and models: pods of several models run side by side, any statement of a *)
(* bootstrap may fail, and any process may stop at any point.              *)
(***************************************************************************)
EXTENDS EmbeddingBootstrap, TLAPS

Pc == {"down", "lock", "up", "fill"} \union Inside

Proc == [pc : Pc, model : Model \union {NoModel}, semantic : BOOLEAN,
         seen : Model \union {NoModel}, exists : BOOLEAN, todo : SUBSET Row]

USE DEF Inside, Read, Probed

\* The life of the other processes is untouched by a step of p.
LEMMA OneMoves ==
  ASSUME BootInv, NEW p \in Process, NEW q \in Proc,
         proc' = [proc EXCEPT ![p] = q]
  PROVE  /\ proc' \in [Process -> Proc]
         /\ proc'[p] = q
         /\ \A o \in Process \ {p} : proc'[o] = proc[o]
  BY DEF BootInv, EmbeddingTypeOK, Proc, Pc

\* What BootInv says of one process, in the state q, when the rows in blind are
\* those the holder of the lock knows nothing of.
Fits(q, holds, blind) ==
  /\ q.pc \in Inside <=> holds
  /\ q.pc \in {"lock"} \union Inside => q.model \in Model
  /\ q.pc \in Read => q.seen = stamp
  /\ q.pc = "probe" => (q.exists <=> column # 0) \/ (~q.exists /\ blind = Row)
  /\ q.pc = "drop" => q.seen \notin {NoModel, q.model} /\ q.exists
  /\ q.pc \in Probed /\ q.seen \notin {NoModel, q.model}
       => \A r \in Row \ blind : vec[r] = NoModel
  /\ q.semantic => q.pc \in {"up", "fill"} /\ q.model \in Model
  /\ q.pc = "fill" => q.semantic
  /\ q.todo \subseteq saved
  /\ q.semantic => stamp # NoModel

Corpus ==
  /\ \A r \in Row : vec[r] # NoModel => r \in saved /\ Dim[vec[r]] = column
  /\ stamp = NoModel => \A r \in Row : vec[r] = NoModel

LEMMA InvParts ==
  ASSUME BootInv
  PROVE  /\ EmbeddingTypeOK /\ Corpus
         /\ \A p \in Process : proc[p] \in Proc /\ Fits(proc[p], lock = p, unseen)
  BY DEF BootInv, BootIsAlone, Fits, Semantic, Mismatch, Corpus,
         EmbeddingTypeOK, Proc, Pc

LEMMA InvFromParts ==
  ASSUME EmbeddingTypeOK', Corpus', \A p \in Process : Fits(proc[p], lock = p, unseen)'
  PROVE  BootInv'
  BY DEF BootInv, BootIsAlone, Fits, Semantic, Mismatch, Corpus

\* What is unseen changes with the bootstrap of p, or when p gives up the lock.
UnseenMoves(p) ==
  /\ unseen' \subseteq Row
  /\ lock' = NoProc => unseen' = {}
  /\ unseen' = unseen \/ lock = p

\* A step of p that leaves the corpus alone and at most takes or releases the lock.
LEMMA MoveStep ==
  ASSUME BootInv, NEW p \in Process, NEW q \in Proc,
         proc' = [proc EXCEPT ![p] = q], UNCHANGED corpus, UnseenMoves(p),
         lock' = lock \/ (lock \in {p, NoProc} /\ lock' \in {p, NoProc}),
         Fits(q, lock' = p, unseen')
  PROVE  BootInv'
<1>1. /\ proc' \in [Process -> Proc] /\ proc'[p] = q
      /\ \A o \in Process \ {p} : proc'[o] = proc[o]
  BY OneMoves
<1>2. UNCHANGED <<stamp, column, saved, vec>>
  BY DEF corpus
<1>3. EmbeddingTypeOK'
  BY <1>1, <1>2, InvParts DEF EmbeddingTypeOK, Proc, Pc, UnseenMoves
<1>4. Fits(proc[p], lock = p, unseen)'
  BY <1>1, <1>2 DEF Fits
<1>5. ASSUME NEW o \in Process \ {p} PROVE Fits(proc[o], lock = o, unseen)'
  <2>1. Fits(proc[o], lock = o, unseen)
    BY InvParts
  <2>2. lock' = o <=> lock = o
    BY EmbeddingAssumption
  <2>3. CASE lock = o
    BY <1>1, <1>2, <2>1, <2>2, <2>3 DEF Fits, UnseenMoves
  <2>4. CASE lock # o
    BY <1>1, <1>2, <2>1, <2>2, <2>4 DEF Fits
  <2> QED BY <2>3, <2>4
<1>6. Corpus'
  BY <1>2, InvParts DEF Corpus
<1> QED BY <1>3, <1>4, <1>5, <1>6, InvFromParts

\* A step of p to another program counter.
LEMMA GoToStep ==
  ASSUME BootInv, NEW p \in Process, NEW pc \in Pc, GoTo(p, pc),
         UNCHANGED corpus, UnseenMoves(p),
         lock' = lock \/ (lock \in {p, NoProc} /\ lock' \in {p, NoProc}),
         Fits([proc[p] EXCEPT !.pc = pc], lock' = p, unseen')
  PROVE  BootInv'
<1>1. proc[p] \in Proc
  BY InvParts
<1>2. [proc[p] EXCEPT !.pc = pc] \in Proc
  BY <1>1 DEF Proc
<1>3. proc' = [proc EXCEPT ![p] = [proc[p] EXCEPT !.pc = pc]]
  BY DEF GoTo
<1> QED BY <1>2, <1>3, MoveStep

\* A bootstrap that ends in recency mode releases the lock and changes nothing.
LEMMA DegradeStep ==
  ASSUME BootInv, NEW p \in Process, proc[p].pc \in Inside, Degrade(p)
  PROVE  BootInv'
<1> DEFINE q == [Down EXCEPT !.pc = "up", !.semantic = FALSE, !.model = NoModel]
<1>1. Fits(proc[p], lock = p, unseen)
  BY InvParts
<1>2. q \in Proc
  BY DEF Down, Proc, Pc
<1>3. /\ proc' = [proc EXCEPT ![p] = q]
      /\ lock' = NoProc /\ lock = p /\ unseen' = {}
      /\ UNCHANGED corpus
  BY <1>1 DEF Degrade, Finish, Fits
<1>4. Fits(q, lock' = p, unseen')
  BY <1>3, EmbeddingAssumption DEF Fits, Down
<1> HIDE DEF q
<1> QED BY <1>2, <1>3, <1>4, MoveStep DEF UnseenMoves

\* Open takes the model configured at the time; nobody is inside because of it.
LEMMA OpenStep ==
  ASSUME BootInv, NEW p \in Process, NEW m \in Model \union {NoModel}, Open(p, m)
  PROVE  BootInv'
<1> DEFINE q == [Down EXCEPT !.model = m,
                             !.pc = IF m = NoModel THEN "up" ELSE "lock"]
<1>1. /\ q \in Proc /\ q.pc \in {"up", "lock"} /\ q.model = m /\ ~q.semantic
      /\ q.pc = "lock" => m \in Model
      /\ q.todo = {}
  BY DEF Down, Proc, Pc
<1>2. /\ proc' = [proc EXCEPT ![p] = q]
      /\ UNCHANGED corpus /\ lock' = lock /\ unseen' = unseen
      /\ proc[p].pc = "down"
  BY DEF Open, At
<1> HIDE DEF q
<1>3. lock # p /\ UnseenMoves(p)
  BY <1>2, InvParts DEF Fits, UnseenMoves, EmbeddingTypeOK
<1>4. Fits(q, lock' = p, unseen')
  BY <1>1, <1>2, <1>3 DEF Fits
<1> QED BY <1>1, <1>2, <1>3, <1>4, MoveStep

\* Only a free lock is acquired, so nobody else is inside.
LEMMA AcquireStep ==
  ASSUME BootInv, NEW p \in Process, Acquire(p) PROVE BootInv'
<1>1. /\ proc[p].pc = "lock" /\ lock = NoProc /\ lock' = p /\ unseen' = unseen
      /\ GoTo(p, "extension") /\ UNCHANGED corpus
  BY DEF Acquire, At
<1>2. proc[p] \in Proc /\ Fits(proc[p], lock = p, unseen)
  BY InvParts
<1>3. proc[p].model \in Model /\ ~proc[p].semantic
  BY <1>1, <1>2 DEF Fits
<1>4. Fits([proc[p] EXCEPT !.pc = "extension"], lock' = p, unseen')
  BY <1>1, <1>2, <1>3 DEF Fits, Proc
<1>5. UnseenMoves(p)
  BY <1>1, InvParts DEF UnseenMoves, EmbeddingTypeOK
<1> QED BY <1>1, <1>4, <1>5, GoToStep DEF Pc

\* CREATE EXTENSION.
LEMMA ExtensionStep ==
  ASSUME BootInv, NEW p \in Process, CreateExtension(p) PROVE BootInv'
<1>1. /\ proc[p].pc = "extension" /\ proc[p] \in Proc
      /\ Fits(proc[p], lock = p, unseen)
  BY InvParts DEF CreateExtension, At
<1>2. CASE GoTo(p, "read") /\ UNCHANGED <<corpus, lock, unseen>>
  <2>1. Fits([proc[p] EXCEPT !.pc = "read"], lock' = p, unseen')
    BY <1>1, <1>2 DEF Fits, Proc
  <2>2. UnseenMoves(p)
    BY <1>2, InvParts DEF UnseenMoves, EmbeddingTypeOK
  <2> QED BY <1>2, <2>1, <2>2, GoToStep DEF Pc
<1>3. CASE Degrade(p)
  BY <1>1, <1>3, DegradeStep
<1> QED BY <1>2, <1>3 DEF CreateExtension

\* The stamp that is read is the present one: it only changes under the lock.
LEMMA ReadStep ==
  ASSUME BootInv, NEW p \in Process, ReadSchema(p) PROVE BootInv'
<1>0. PICK exists \in {column # 0, FALSE} :
        /\ proc' = [proc EXCEPT ![p].pc = "probe", ![p].seen = stamp, ![p].exists = exists]
        /\ unseen' = IF exists = (column # 0) THEN {} ELSE Row
  BY DEF ReadSchema
<1> DEFINE q == [proc[p] EXCEPT !.pc = "probe", !.seen = stamp, !.exists = exists]
<1>1. proc[p].pc = "read" /\ proc[p] \in Proc /\ Fits(proc[p], lock = p, unseen)
  BY InvParts DEF ReadSchema, At
<1>2. /\ proc' = [proc EXCEPT ![p] = q]
      /\ UNCHANGED corpus /\ lock' = lock /\ lock = p
  BY <1>0, <1>1 DEF ReadSchema, Fits
<1>3. q \in Proc
  BY <1>1, InvParts DEF Proc, Pc, EmbeddingTypeOK
<1>4. Fits(q, lock' = p, unseen')
  <2>1. (exists <=> column # 0) \/ (~exists /\ unseen' = Row)
    BY <1>0
  <2> QED BY <1>1, <1>2, <2>1 DEF Fits, Proc
<1>5. UnseenMoves(p)
  BY <1>0, <1>2, EmbeddingAssumption DEF UnseenMoves
<1> HIDE DEF q
<1> QED BY <1>2, <1>3, <1>4, <1>5, MoveStep

\* A mismatch goes past the probe only when it saw no vector.
LEMMA ProbeStep ==
  ASSUME BootInv, NEW p \in Process, ProbeCorpus(p) PROVE BootInv'
<1>1. /\ proc[p].pc = "probe" /\ proc[p] \in Proc /\ Fits(proc[p], lock = p, unseen)
      /\ Corpus /\ EmbeddingTypeOK
  BY InvParts DEF ProbeCorpus, At
<1>2. PICK has \in HasVectors(p) :
        IF Degrades(p, has) THEN Degrade(p)
        ELSE /\ GoTo(p, FirstDDL(p))
             /\ unseen' = IF proc[p].exists THEN {} ELSE unseen
             /\ UNCHANGED <<corpus, lock>>
  BY DEF ProbeCorpus
<1>3. CASE Degrades(p, has)
  BY <1>1, <1>2, <1>3, DegradeStep
<1>4. CASE ~Degrades(p, has)
  <2>1. /\ GoTo(p, FirstDDL(p)) /\ UNCHANGED corpus /\ lock' = lock /\ lock = p
        /\ unseen' = IF proc[p].exists THEN {} ELSE unseen
    BY <1>1, <1>2, <1>4 DEF Fits
  <2>2. ASSUME Mismatch(p), NEW r \in Row \ unseen' PROVE vec[r] = NoModel
    <3>1. CASE proc[p].exists
      <4>1. vec[r] # NoModel => has = TRUE
        BY <1>1, <1>2, <3>1 DEF HasVectors, Corpus
      <4> QED BY <1>4, <2>2, <4>1 DEF Degrades
    <3>2. CASE ~proc[p].exists
      <4>1. column = 0
        BY <1>1, <2>1, <3>2 DEF Fits
      <4>2. vec[r] \in Model => Dim[vec[r]] # 0
        BY EmbeddingAssumption
      <4> QED BY <1>1, <4>1, <4>2 DEF Corpus, EmbeddingTypeOK
    <3> QED BY <3>1, <3>2
  <2>3. FirstDDL(p) \in Probed /\ FirstDDL(p) \in Pc
    BY DEF FirstDDL, Pc
  <2>4. FirstDDL(p) = "drop" => Mismatch(p) /\ proc[p].exists
    BY DEF FirstDDL
  <2>5. Fits([proc[p] EXCEPT !.pc = FirstDDL(p)], lock' = p, unseen')
    BY <1>1, <2>1, <2>2, <2>3, <2>4 DEF Fits, Mismatch, Proc
  <2>6. UnseenMoves(p)
    BY <1>1, <2>1, EmbeddingAssumption DEF UnseenMoves, EmbeddingTypeOK
  <2> QED BY <2>1, <2>3, <2>5, <2>6, GoToStep
<1> QED BY <1>3, <1>4

\* A step of the holder of the lock: the others are not inside.
LEMMA HolderStep ==
  ASSUME BootInv, NEW p \in Process, lock = p, NEW q \in Proc,
         proc' = [proc EXCEPT ![p] = q], lock' \in {p, NoProc}, UnseenMoves(p),
         saved' = saved, stamp' \in Model \/ stamp' = stamp,
         column' \in {0} \union {Dim[m] : m \in Model},
         vec' \in [Row -> Model \union {NoModel}],
         Corpus', Fits(q, lock = p, unseen)'
  PROVE  BootInv'
<1>1. /\ proc' \in [Process -> Proc] /\ proc'[p] = q
      /\ \A o \in Process \ {p} : proc'[o] = proc[o]
  BY OneMoves
<1>2. EmbeddingTypeOK'
  BY <1>1, InvParts DEF EmbeddingTypeOK, Proc, Pc, UnseenMoves
<1>3. ASSUME NEW o \in Process \ {p} PROVE Fits(proc[o], lock = o, unseen)'
  <2>1. lock # o /\ lock' # o
    BY EmbeddingAssumption
  <2>2. Fits(proc[o], lock = o, unseen)
    BY InvParts
  <2>3. proc[o].pc \notin Inside
    BY <2>1, <2>2 DEF Fits
  <2>4. proc[o].semantic => stamp' # NoModel
    BY <2>2, EmbeddingAssumption DEF Fits
  <2> QED BY <1>1, <2>1, <2>2, <2>3, <2>4 DEF Fits
<1>4. Fits(proc[p], lock = p, unseen)'
  BY <1>1 DEF Fits
<1> QED BY <1>2, <1>3, <1>4, InvFromParts

\* The column goes with the vectors it holds, and none is left without a column.
LEMMA DropStep ==
  ASSUME BootInv, NEW p \in Process, DropColumn(p) PROVE BootInv'
<1>1. /\ proc[p].pc = "drop" /\ proc[p] \in Proc /\ Fits(proc[p], lock = p, unseen)
      /\ Corpus /\ EmbeddingTypeOK
  BY InvParts DEF DropColumn, At
<1>2. CASE Degrade(p)
  BY <1>1, <1>2, DegradeStep
<1>3. CASE /\ column' = 0 /\ vec' = [r \in Row |-> NoModel] /\ GoTo(p, "add")
           /\ UNCHANGED <<stamp, saved, lock, unseen>>
  <2>0. PICK q : q = [proc[p] EXCEPT !.pc = "add"]
    OBVIOUS
  <2>1. q \in Proc /\ proc' = [proc EXCEPT ![p] = q]
    BY <1>1, <1>3, <2>0 DEF GoTo, Proc, Pc
  <2>2. lock = p /\ UnseenMoves(p)
    BY <1>1, <1>3 DEF Fits, UnseenMoves, EmbeddingTypeOK
  <2>3. vec' \in [Row -> Model \union {NoModel}] /\ Corpus'
    BY <1>3 DEF Corpus
  <2>4. Fits(q, lock = p, unseen)'
    BY <1>1, <1>3, <2>0, <2>2 DEF Fits, Proc
  <2> QED BY <1>3, <2>1, <2>2, <2>3, <2>4, HolderStep
<1> QED BY <1>2, <1>3 DEF DropColumn

\* A column is added where there is none, so the vectors stay what they are.
LEMMA AddStep ==
  ASSUME BootInv, NEW p \in Process, AddColumn(p) PROVE BootInv'
<1>1. /\ proc[p].pc = "add" /\ proc[p] \in Proc /\ Fits(proc[p], lock = p, unseen)
      /\ Corpus /\ EmbeddingTypeOK
  BY InvParts DEF AddColumn, At
<1>2. CASE Degrade(p)
  BY <1>1, <1>2, DegradeStep
<1>3. CASE /\ column' = IF column = 0 THEN Dim[proc[p].model] ELSE column
           /\ GoTo(p, "index")
           /\ UNCHANGED <<stamp, saved, vec, lock, unseen>>
  <2>0. PICK q : q = [proc[p] EXCEPT !.pc = "index"]
    OBVIOUS
  <2>1. q \in Proc /\ proc' = [proc EXCEPT ![p] = q]
    BY <1>1, <1>3, <2>0 DEF GoTo, Proc, Pc
  <2>2. lock = p /\ proc[p].model \in Model /\ UnseenMoves(p)
    BY <1>1, <1>3 DEF Fits, UnseenMoves, EmbeddingTypeOK
  <2>3. /\ vec' \in [Row -> Model \union {NoModel}]
        /\ column' \in {0} \union {Dim[m] : m \in Model}
    BY <1>1, <1>3, <2>2 DEF EmbeddingTypeOK
  <2>4. Corpus'
    <3>1. \A r \in Row : vec[r] # NoModel => column # 0
      BY <1>1, EmbeddingAssumption DEF Corpus, EmbeddingTypeOK
    <3> QED BY <1>1, <1>3, <3>1 DEF Corpus
  <2>5. Fits(q, lock = p, unseen)'
    BY <1>1, <1>3, <2>0, <2>2 DEF Fits, Proc
  <2> QED BY <1>3, <2>1, <2>2, <2>3, <2>4, <2>5, HolderStep
<1> QED BY <1>2, <1>3 DEF AddColumn

\* CREATE INDEX.
LEMMA IndexStep ==
  ASSUME BootInv, NEW p \in Process, CreateIndex(p) PROVE BootInv'
<1>1. /\ proc[p].pc = "index" /\ proc[p] \in Proc
      /\ Fits(proc[p], lock = p, unseen)
  BY InvParts DEF CreateIndex, At
<1>2. CASE GoTo(p, "stamp") /\ UNCHANGED <<corpus, lock, unseen>>
  <2>1. Fits([proc[p] EXCEPT !.pc = "stamp"], lock' = p, unseen')
    BY <1>1, <1>2 DEF Fits, Proc
  <2>2. UnseenMoves(p)
    BY <1>2, InvParts DEF UnseenMoves, EmbeddingTypeOK
  <2> QED BY <1>2, <2>1, <2>2, GoToStep DEF Pc
<1>3. CASE Degrade(p)
  BY <1>1, <1>3, DegradeStep
<1> QED BY <1>2, <1>3 DEF CreateIndex

\* The stamp leaves the vectors alone, and from then on there is one.
LEMMA StampStep ==
  ASSUME BootInv, NEW p \in Process, Stamp(p) PROVE BootInv'
<1>0. PICK q : q = [Down EXCEPT !.pc = "up", !.semantic = TRUE, !.model = proc[p].model]
  OBVIOUS
<1>1. /\ proc[p].pc = "stamp" /\ proc[p] \in Proc /\ Fits(proc[p], lock = p, unseen)
      /\ Corpus /\ EmbeddingTypeOK
  BY InvParts DEF Stamp, At
<1>2. /\ lock = p /\ lock' = NoProc /\ unseen' = {} /\ stamp' = proc[p].model
      /\ proc[p].model \in Model
      /\ proc' = [proc EXCEPT ![p] = q]
      /\ UNCHANGED <<column, saved, vec>>
  BY <1>0, <1>1 DEF Stamp, Finish, Fits
<1>3. q \in Proc
  BY <1>0, <1>2 DEF Down, Proc, Pc
<1>4. Corpus' /\ UnseenMoves(p)
  BY <1>1, <1>2, EmbeddingAssumption DEF Corpus, UnseenMoves
<1>5. Fits(q, lock = p, unseen)'
  BY <1>0, <1>2, EmbeddingAssumption DEF Fits, Down
<1>6. /\ vec' \in [Row -> Model \union {NoModel}]
      /\ column' \in {0} \union {Dim[m] : m \in Model}
  BY <1>1, <1>2 DEF EmbeddingTypeOK
<1> QED BY <1>2, <1>3, <1>4, <1>5, <1>6, HolderStep

\* A process that stops gives the lock back.
LEMMA StopStep ==
  ASSUME BootInv, NEW p \in Process, Stop(p) PROVE BootInv'
<1>1. /\ proc' = [proc EXCEPT ![p] = Down] /\ UNCHANGED corpus
      /\ lock' = lock \/ (lock \in {p, NoProc} /\ lock' \in {p, NoProc})
      /\ lock' # p
  BY EmbeddingAssumption DEF Stop
<1>2. UnseenMoves(p)
  BY InvParts DEF Stop, UnseenMoves, EmbeddingTypeOK
<1>3. Down \in Proc /\ Fits(Down, lock' = p, unseen')
  BY <1>1 DEF Down, Proc, Pc, Fits
<1> QED BY <1>1, <1>2, <1>3, MoveStep

\* The rows a backfill lists.
LEMMA ListStep ==
  ASSUME BootInv, NEW p \in Process, ListRows(p) PROVE BootInv'
<1> DEFINE q == [proc[p] EXCEPT !.pc = "fill", !.todo = saved]
<1>1. /\ proc[p].pc = "up" /\ proc[p].semantic
      /\ proc' = [proc EXCEPT ![p] = q]
      /\ UNCHANGED corpus /\ lock' = lock /\ unseen' = unseen
      /\ proc[p] \in Proc /\ Fits(proc[p], lock = p, unseen)
  BY InvParts DEF ListRows, At
<1>2. q \in Proc
  BY <1>1, InvParts DEF Proc, Pc, EmbeddingTypeOK
<1>3. Fits(q, lock' = p, unseen')
  BY <1>1 DEF Fits, Proc
<1>4. UnseenMoves(p)
  BY <1>1, InvParts DEF UnseenMoves, EmbeddingTypeOK
<1> HIDE DEF q
<1> QED BY <1>1, <1>2, <1>3, <1>4, MoveStep

\* The vectors that are written while somebody bootstraps become unseen.
LEMMA WriteStep ==
  ASSUME BootInv, UNCHANGED <<stamp, column, lock>>,
         saved \subseteq saved', saved' \subseteq Row,
         vec' \in [Row -> Model \union {NoModel}], Corpus',
         unseen \subseteq unseen', unseen' \subseteq Row,
         lock = NoProc => unseen' = {},
         \A r \in Row : vec'[r] \in {vec[r], NoModel} \/ r \in unseen' \/ lock = NoProc,
         proc' \in [Process -> Proc],
         \A o \in Process :
           \E t \in SUBSET proc[o].todo : proc'[o] = [proc[o] EXCEPT !.todo = t]
  PROVE  BootInv'
<1>1. EmbeddingTypeOK'
  BY InvParts DEF EmbeddingTypeOK, Proc, Pc
<1>2. ASSUME NEW o \in Process PROVE Fits(proc[o], lock = o, unseen)'
  <2>1. proc[o] \in Proc /\ Fits(proc[o], lock = o, unseen)
    BY InvParts
  <2>2. PICK t \in SUBSET proc[o].todo : proc'[o] = [proc[o] EXCEPT !.todo = t]
    OBVIOUS
  <2>3. /\ \A f \in {"pc", "model", "semantic", "seen", "exists"} :
             proc'[o][f] = proc[o][f]
        /\ proc'[o].todo \subseteq saved'
    BY <2>1, <2>2 DEF Fits, Proc
  <2>4. /\ proc[o].pc \in Probed
        /\ proc[o].seen \notin {NoModel, proc[o].model}
        => \A r \in Row \ unseen' : vec'[r] = NoModel
    BY <2>1, EmbeddingAssumption DEF Fits
  <2>5. unseen = Row => unseen' = Row
    OBVIOUS
  <2> QED BY <2>1, <2>3, <2>4, <2>5 DEF Fits
<1> QED BY <1>1, <1>2, InvFromParts

\* A write of a vector is remembered while somebody bootstraps.
LEMMA WroteRow ==
  ASSUME EmbeddingTypeOK, NEW r \in Row, Wrote(r)
  PROVE  /\ unseen \subseteq unseen' /\ unseen' \subseteq Row
         /\ lock = NoProc => unseen' = {}
         /\ r \in unseen' \/ lock = NoProc
  BY DEF Wrote, EmbeddingTypeOK

LEMMA SaveStep ==
  ASSUME BootInv, NEW p \in Process, NEW r \in Row, SaveBuild(p, r) PROVE BootInv'
<1>1. /\ UNCHANGED <<stamp, column, lock, proc>>
      /\ saved' = saved \union {r}
      /\ proc \in [Process -> Proc] /\ EmbeddingTypeOK /\ Corpus
      /\ Fits(proc[p], lock = p, unseen)
  BY InvParts DEF SaveBuild, EmbeddingTypeOK, Proc, Pc
<1>2. \A o \in Process :
        \E t \in SUBSET proc[o].todo : proc'[o] = [proc[o] EXCEPT !.todo = t]
  <2> TAKE o \in Process
  <2>1. proc'[o] = [proc[o] EXCEPT !.todo = proc[o].todo]
    BY <1>1 DEF Proc
  <2> QED BY <2>1
<1>3. saved \subseteq saved' /\ saved' \subseteq Row
  BY <1>1 DEF EmbeddingTypeOK
<1>4. /\ vec' \in [Row -> Model \union {NoModel}] /\ Corpus'
      /\ \/ vec' = vec /\ unseen' = unseen
         \/ vec' = [vec EXCEPT ![r] = NoModel] /\ unseen' = unseen
         \/ Wrote(r) /\ \A o \in Row \ {r} : vec'[o] = vec[o]
  <2>1. CASE ~proc[p].semantic
    BY <1>1, <2>1 DEF SaveBuild, Corpus, EmbeddingTypeOK
  <2>2. CASE proc[p].semantic
    <3>1. PICK m \in {proc[p].model, NoModel} :
            /\ Takes(m) /\ vec' = [vec EXCEPT ![r] = m]
            /\ IF m = NoModel THEN UNCHANGED unseen ELSE Wrote(r)
      BY <2>2 DEF SaveBuild
    <3>2. stamp # NoModel /\ m \in Model \union {NoModel}
      BY <1>1, <2>2, <3>1 DEF Fits
    <3>3. m # NoModel => Dim[m] = column
      BY <3>1 DEF Takes
    <3> QED BY <1>1, <3>1, <3>2, <3>3 DEF Corpus, EmbeddingTypeOK
  <2> QED BY <2>1, <2>2
<1>5. CASE unseen' = unseen /\ (vec' = vec \/ vec' = [vec EXCEPT ![r] = NoModel])
  <2>1. \A o \in Row : vec'[o] \in {vec[o], NoModel}
    BY <1>1, <1>5 DEF EmbeddingTypeOK
  <2>2. unseen' \subseteq Row /\ (lock = NoProc => unseen' = {})
    BY <1>1, <1>5 DEF EmbeddingTypeOK
  <2> QED BY <1>1, <1>2, <1>3, <1>4, <1>5, <2>1, <2>2, WriteStep
<1>6. CASE Wrote(r) /\ \A o \in Row \ {r} : vec'[o] = vec[o]
  <2>1. \A o \in Row : vec'[o] \in {vec[o], NoModel} \/ o \in unseen' \/ lock = NoProc
    BY <1>1, <1>6, WroteRow
  <2> QED BY <1>1, <1>2, <1>3, <1>4, <1>6, <2>1, WroteRow, WriteStep
<1> QED BY <1>4, <1>5, <1>6

LEMMA RefillStep ==
  ASSUME BootInv, NEW p \in Process, NEW r \in Row, Refill(p, r) PROVE BootInv'
<1>0. PICK q : q = [proc[p] EXCEPT !.todo = @ \ {r}]
  OBVIOUS
<1>1. /\ proc[p].pc = "fill" /\ r \in proc[p].todo /\ Takes(proc[p].model)
      /\ vec' = [vec EXCEPT ![r] = proc[p].model] /\ Wrote(r)
      /\ proc' = [proc EXCEPT ![p] = q]
      /\ UNCHANGED <<stamp, column, saved, lock>>
      /\ EmbeddingTypeOK /\ Corpus /\ proc[p] \in Proc
      /\ Fits(proc[p], lock = p, unseen)
  BY <1>0, InvParts DEF Refill, At
<1>2. q \in Proc
  BY <1>0, <1>1 DEF Proc
<1>3. /\ proc' \in [Process -> Proc] /\ proc'[p] = q
      /\ \A o \in Process \ {p} : proc'[o] = proc[o]
  BY <1>1, <1>2, OneMoves
<1>4. \A o \in Process :
        \E t \in SUBSET proc[o].todo : proc'[o] = [proc[o] EXCEPT !.todo = t]
  <2> TAKE o \in Process
  <2>1. CASE o = p
    BY <1>0, <1>3, <2>1
  <2>2. CASE o # p
    <3>1. proc'[o] = [proc[o] EXCEPT !.todo = proc[o].todo]
      BY <1>3, <2>2, InvParts DEF Proc
    <3> QED BY <3>1
  <2> QED BY <2>1, <2>2
<1>5. /\ proc[p].semantic /\ stamp # NoModel /\ proc[p].model \in Model
      /\ r \in saved /\ (proc[p].model # NoModel => Dim[proc[p].model] = column)
  BY <1>1 DEF Fits, Takes
<1>6. vec' \in [Row -> Model \union {NoModel}] /\ Corpus'
  BY <1>1, <1>5 DEF Corpus, EmbeddingTypeOK
<1>7. saved \subseteq saved' /\ saved' \subseteq Row
  BY <1>1 DEF EmbeddingTypeOK
<1>8. \A o \in Row : vec'[o] \in {vec[o], NoModel} \/ o \in unseen' \/ lock = NoProc
  BY <1>1, WroteRow DEF EmbeddingTypeOK
<1> QED BY <1>1, <1>3, <1>4, <1>6, <1>7, <1>8, WroteRow, WriteStep

LEMMA ClearStep ==
  ASSUME BootInv, Clear PROVE BootInv'
<1>1. /\ vec' = [r \in Row |-> NoModel]
      /\ UNCHANGED <<stamp, column, saved, lock, proc, unseen>>
      /\ proc \in [Process -> Proc] /\ EmbeddingTypeOK
  BY InvParts DEF Clear, EmbeddingTypeOK, Proc, Pc
<1>2. \A o \in Process :
        \E t \in SUBSET proc[o].todo : proc'[o] = [proc[o] EXCEPT !.todo = t]
  <2> TAKE o \in Process
  <2>1. proc'[o] = [proc[o] EXCEPT !.todo = proc[o].todo]
    BY <1>1 DEF Proc
  <2> QED BY <2>1
<1>3. /\ vec' \in [Row -> Model \union {NoModel}] /\ Corpus'
      /\ \A r \in Row : vec'[r] \in {vec[r], NoModel}
  BY <1>1 DEF Corpus
<1>4. /\ saved \subseteq saved' /\ saved' \subseteq Row
      /\ unseen' \subseteq Row /\ (lock = NoProc => unseen' = {})
  BY <1>1 DEF EmbeddingTypeOK
<1> QED BY <1>1, <1>2, <1>3, <1>4, WriteStep

-----------------------------------------------------------------------------

LEMMA InitBoot == ASSUME Init PROVE BootInv
<1>1. EmbeddingTypeOK
  BY DEF Init, Down, EmbeddingTypeOK
<1>2. BootIsAlone
  BY EmbeddingAssumption DEF Init, Down, BootIsAlone, Mismatch
<1> QED BY <1>1, <1>2 DEF Init, Down, BootInv, Semantic

LEMMA NextBoot == ASSUME BootInv, [Next]_bvars PROVE BootInv'
<1>1. ASSUME NEW p \in Process, Acquire(p) \/ Stop(p) \/ ListRows(p)
      PROVE  BootInv'
  BY <1>1, AcquireStep, StopStep, ListStep
<1>2. ASSUME NEW p \in Process, Bootstrap(p) PROVE BootInv'
  BY <1>2, ExtensionStep, ReadStep, ProbeStep, DropStep, AddStep, IndexStep, StampStep
  DEF Bootstrap
<1>3. ASSUME NEW p \in Process, NEW r \in Row, SaveBuild(p, r) \/ Refill(p, r)
      PROVE  BootInv'
  BY <1>3, SaveStep, RefillStep
<1>4. ASSUME NEW p \in Process, NEW m \in Model \union {NoModel}, Open(p, m)
      PROVE  BootInv'
  BY <1>4, OpenStep
<1>5. CASE UNCHANGED bvars
  BY <1>5 DEF bvars, BootInv, EmbeddingTypeOK, Semantic, BootIsAlone, Mismatch
<1> QED BY <1>1, <1>2, <1>3, <1>4, <1>5, ClearStep DEF Next

\* The inductive invariant: one process bootstraps at a time, on the stamp it has
\* read, and the vectors a mismatch knows nothing of are those it could not see.
THEOREM BootInvariant == Spec => []BootInv
BY InitBoot, NextBoot, PTL DEF Spec

\* Only the last statement of a bootstrap changes the stamp.
LEMMA StampChanges ==
  ASSUME [Next]_bvars, stamp' # stamp PROVE \E p \in Process : Stamp(p)
<1>1. ASSUME NEW p \in Process, Bootstrap(p), ~Stamp(p) PROVE stamp' = stamp
  BY <1>1 DEF Bootstrap, CreateExtension, ReadSchema, ProbeCorpus, DropColumn,
              AddColumn, CreateIndex, Degrade, corpus
<1>2. ASSUME NEW p \in Process, Acquire(p) \/ Stop(p) \/ ListRows(p)
      PROVE  stamp' = stamp
  BY <1>2 DEF Acquire, Stop, ListRows, corpus
<1>3. ASSUME \/ \E p \in Process, m \in Model \union {NoModel} : Open(p, m)
             \/ \E p \in Process, r \in Row : SaveBuild(p, r) \/ Refill(p, r)
             \/ Clear \/ UNCHANGED bvars
      PROVE  stamp' = stamp
  BY <1>3 DEF Open, SaveBuild, Refill, Clear, bvars, corpus
<1> QED BY <1>1, <1>2, <1>3 DEF Next

\* No bootstrap gives another stamp to a corpus in which it could see a vector of
\* another model, with pods of any models beside it.
THEOREM StampsCoverSeen == Spec => StampCoversSeen
<1> DEFINE Covers == stamp' # stamp => \A r \in Row \ unseen : vec[r] \in {NoModel, stamp'}
<1>1. ASSUME BootInv, [Next]_bvars PROVE Covers
  <2> SUFFICES ASSUME stamp' # stamp PROVE \A r \in Row \ unseen : vec[r] = NoModel
    OBVIOUS
  <2>1. PICK p \in Process : Stamp(p)
    BY <1>1, StampChanges
  <2>2. /\ proc[p].pc = "stamp" /\ stamp' = proc[p].model
        /\ Fits(proc[p], lock = p, unseen) /\ Corpus
    BY <1>1, <2>1, InvParts DEF Stamp, At
  <2>3. proc[p].seen = stamp
    BY <2>2 DEF Fits
  <2>4. CASE stamp = NoModel
    BY <2>2, <2>4 DEF Corpus
  <2>5. CASE stamp # NoModel
    BY <2>2, <2>3, <2>5 DEF Fits
  <2> QED BY <2>4, <2>5
<1> QED BY <1>1, BootInvariant, PTL DEF Spec, StampCoversSeen

\* The only step of a process that loses a vector is the drop of a column by a
\* bootstrap that knew of it, and it loses only what was written after its probe.
THEOREM BootstrapKeepsSeen == Spec => BootKeepsSeen
<1> DEFINE Kept == proc' # proc =>
             \A r \in Row : vec[r] # NoModel /\ vec'[r] = NoModel =>
               r \in unseen /\ \E p \in Process : At(p, "drop") /\ proc[p].exists
<1>1. ASSUME BootInv, [Next]_bvars PROVE Kept
  <2>1. ASSUME NEW p \in Process, DropColumn(p) PROVE Kept
    <3>1. proc[p].pc = "drop" /\ Fits(proc[p], lock = p, unseen)
      BY <1>1, <2>1, InvParts DEF DropColumn, At
    <3>2. proc[p].exists /\ \A r \in Row \ unseen : vec[r] = NoModel
      BY <3>1 DEF Fits
    <3> QED BY <3>1, <3>2 DEF At
  <2>2. ASSUME NEW p \in Process, NEW r \in Row, Refill(p, r) PROVE Kept
    <3>1. /\ proc[p].model # NoModel
          /\ vec' = [vec EXCEPT ![r] = proc[p].model]
          /\ vec \in [Row -> Model \union {NoModel}]
      BY <1>1, <2>2, InvParts, EmbeddingAssumption
      DEF Refill, At, Fits, EmbeddingTypeOK
    <3> QED BY <3>1
  <2>3. ASSUME NEW p \in Process,
               \/ \E m \in Model \union {NoModel} : Open(p, m)
               \/ Acquire(p) \/ Stop(p) \/ ListRows(p)
               \/ CreateExtension(p) \/ ReadSchema(p) \/ ProbeCorpus(p)
               \/ AddColumn(p) \/ CreateIndex(p) \/ Stamp(p)
        PROVE  vec' = vec
    BY <2>3 DEF Open, Acquire, Stop, ListRows, CreateExtension, ReadSchema,
                ProbeCorpus, AddColumn, CreateIndex, Stamp, Degrade, corpus
  <2>4. ASSUME \/ \E p \in Process, r \in Row : SaveBuild(p, r)
               \/ Clear \/ UNCHANGED bvars
        PROVE  proc' = proc
    BY <2>4 DEF SaveBuild, Clear, bvars
  <2> QED BY <1>1, <2>1, <2>2, <2>3, <2>4 DEF Next, Bootstrap
<1> QED BY <1>1, BootInvariant, PTL DEF Spec, BootKeepsSeen
===============================================================================
