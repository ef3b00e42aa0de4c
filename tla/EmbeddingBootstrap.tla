--------------------------- MODULE EmbeddingBootstrap ---------------------------
(***************************************************************************)
(* The embedding corpus: one vector column and one stamp, shared by every  *)
(* process that opens the library (internal/buildlibrary/library.go).      *)
(* Open runs bootstrapEmbedding, statement by statement, under an advisory *)
(* lock; API processes then save builds with vectors of their model, the   *)
(* command backfill-embeddings re-embeds the rows it lists, and an operator*)
(* clears vectors and changes the configured model, with or without pods   *)
(* that still run the old one (the deployment is a rolling update).        *)
(*                                                                         *)
(* A model stands for the pair (model@tier, dimension) it determines.  The *)
(* index, its parameters and what is embedded are left out; a statement    *)
(* that creates the index can still fail.                                  *)
(***************************************************************************)
EXTENDS Integers

CONSTANTS
  Api,       \* API processes
  Backfill,  \* runs of cmd/backfill-embeddings
  Row,       \* builds that may be saved
  Model,     \* embedding models
  Dim,       \* the dimension of each
  NoModel,   \* embeddings off; no stamp; NULL
  NoProc

Process == Api \union Backfill

ASSUME EmbeddingAssumption ==
  /\ Dim \in [Model -> Nat \ {0}]
  /\ NoModel \notin Model /\ NoProc \notin Process
  /\ Api \intersect Backfill = {}

VARIABLES
  stamp,     \* embedding_config, row 1
  column,    \* dimension of the column embedding, 0 when there is none
  saved,     \* rows of saved_trajectories
  vec,       \* the model of each row's vector
  lock,      \* holder of the advisory lock
  proc,      \* [pc, model, semantic, seen, exists, todo] of each process
  unseen     \* history: rows whose vectors the holder of the lock knows nothing of

bvars == <<stamp, column, saved, vec, lock, proc, unseen>>

corpus == <<stamp, column, saved, vec>>

Down == [pc |-> "down", model |-> NoModel, semantic |-> FALSE,
         seen |-> NoModel, exists |-> FALSE, todo |-> {}]

Init ==
  /\ stamp = NoModel /\ column = 0
  /\ saved = {} /\ vec = [r \in Row |-> NoModel]
  /\ lock = NoProc
  /\ proc = [p \in Process |-> Down]
  /\ unseen = {}

At(p, pc) == proc[p].pc = pc

GoTo(p, pc) == proc' = [proc EXCEPT ![p].pc = pc]

\* A vector written during a bootstrap: the probe of the corpus may have missed it.
Wrote(r) == unseen' = IF lock = NoProc THEN {} ELSE unseen \union {r}

-----------------------------------------------------------------------------
(* bootstrapEmbedding.  Every statement of it may fail.                    *)

\* Open with the model configured at the time, whatever the model of the processes
\* that run already.  Without one there is nothing to bootstrap; the backfill gives up.
Open(p, m) ==
  /\ At(p, "down")
  /\ m # NoModel \/ p \in Api
  /\ proc' = [proc EXCEPT ![p] = [Down EXCEPT !.model = m,
                !.pc = IF m = NoModel THEN "up" ELSE "lock"]]
  /\ UNCHANGED <<corpus, lock, unseen>>

\* Mutant: the bootstrap runs without waiting for others.
AcquireFreely(p) ==
  /\ At(p, "lock")
  /\ lock' = p
  /\ GoTo(p, "extension")
  /\ UNCHANGED <<corpus, unseen>>

Acquire(p) ==
  /\ At(p, "lock") /\ lock = NoProc
  /\ lock' = p
  /\ GoTo(p, "extension")
  /\ UNCHANGED <<corpus, unseen>>

\* The bootstrap returns nil: the process is up, and the lock is released.  In
\* recency mode its model is of no use.
Finish(p, semantic) ==
  /\ lock' = NoProc /\ unseen' = {}
  /\ proc' = [proc EXCEPT ![p] = [Down EXCEPT !.pc = "up", !.semantic = semantic,
                !.model = IF semantic THEN proc[p].model ELSE NoModel]]

\* A recoverable failure: recency mode, nothing changes.
Degrade(p) == Finish(p, FALSE) /\ UNCHANGED corpus

CreateExtension(p) ==
  /\ At(p, "extension")
  /\ \/ GoTo(p, "read") /\ UNCHANGED <<corpus, lock, unseen>>
     \/ Degrade(p)

\* The stamp and the columns, which only change under the lock.  An error of the
\* second query is dropped, and the column then counts as absent.
ReadSchema(p) ==
  /\ At(p, "read")
  /\ \E exists \in {column # 0, FALSE} :
       /\ proc' = [proc EXCEPT ![p].pc = "probe", ![p].seen = stamp, ![p].exists = exists]
       /\ unseen' = IF exists = (column # 0) THEN {} ELSE Row
  /\ UNCHANGED <<corpus, lock>>

Mismatch(p) == proc[p].seen \notin {NoModel, proc[p].model}

\* Mutant: an unreadable corpus counts as empty.
HasVectorsIfReadable(p) ==
  {proc[p].exists /\ \E r \in saved : vec[r] # NoModel, FALSE}

\* What the probe of the corpus may find; an unreadable one counts as non-empty.
HasVectors(p) ==
  {proc[p].exists /\ \E r \in saved : vec[r] # NoModel, proc[p].exists}

\* Mutant: only another dimension is a mismatch.
DegradesOnDim(p, has) ==
  Mismatch(p) /\ Dim[proc[p].seen] # Dim[proc[p].model] /\ has

Degrades(p, has) == Mismatch(p) /\ has

\* The first statement that materializes the schema.
FirstDDL(p) ==
  IF ~proc[p].exists THEN "add"
  ELSE IF Mismatch(p) /\ Dim[proc[p].seen] # Dim[proc[p].model] THEN "drop"
  ELSE "index"

ProbeCorpus(p) ==
  /\ At(p, "probe")
  /\ \E has \in HasVectors(p) :
       IF Degrades(p, has) THEN Degrade(p)
       ELSE /\ GoTo(p, FirstDDL(p))
            /\ unseen' = IF proc[p].exists THEN {} ELSE unseen
            /\ UNCHANGED <<corpus, lock>>

DropColumn(p) ==
  /\ At(p, "drop")
  /\ \/ /\ column' = 0 /\ vec' = [r \in Row |-> NoModel]
        /\ GoTo(p, "add")
        /\ UNCHANGED <<stamp, saved, lock, unseen>>
     \/ Degrade(p)

AddColumn(p) ==
  /\ At(p, "add")
  /\ \/ /\ column' = IF column = 0 THEN Dim[proc[p].model] ELSE column
        /\ GoTo(p, "index")
        /\ UNCHANGED <<stamp, saved, vec, lock, unseen>>
     \/ Degrade(p)

CreateIndex(p) ==
  /\ At(p, "index")
  /\ \/ GoTo(p, "stamp") /\ UNCHANGED <<corpus, lock, unseen>>
     \/ Degrade(p)

\* The last statement; Open fails when it does.
Stamp(p) ==
  /\ At(p, "stamp")
  /\ stamp' = proc[p].model
  /\ Finish(p, TRUE)
  /\ UNCHANGED <<column, saved, vec>>

\* Mutant: the lock survives its holder.
StopHolding(p) ==
  /\ ~At(p, "down")
  /\ proc' = [proc EXCEPT ![p] = Down]
  /\ UNCHANGED <<corpus, lock, unseen>>

\* A crash, an error Open returns, the end of a command: the session is closed
\* and with it goes the lock.
Stop(p) ==
  /\ ~At(p, "down")
  /\ proc' = [proc EXCEPT ![p] = Down]
  /\ IF lock = p THEN lock' = NoProc /\ unseen' = {} ELSE UNCHANGED <<lock, unseen>>
  /\ UNCHANGED corpus

-----------------------------------------------------------------------------
(* The corpus in use.                                                      *)

\* The column takes a vector of this model, or NULL.
Takes(m) == column # 0 /\ m \in {NoModel} \union {n \in Model : Dim[n] = column}

\* The save of a build: a recency-only process does not name the column; the
\* others store a vector of their model, or NULL when the embedding failed.
SaveBuild(p, r) ==
  /\ p \in Api /\ At(p, "up") /\ r \notin saved
  /\ saved' = saved \union {r}
  /\ IF proc[p].semantic
       THEN \E m \in {proc[p].model, NoModel} :
              /\ Takes(m) /\ vec' = [vec EXCEPT ![r] = m]
              /\ IF m = NoModel THEN UNCHANGED unseen ELSE Wrote(r)
       ELSE UNCHANGED <<vec, unseen>>
  /\ UNCHANGED <<stamp, column, lock, proc>>

\* AllIDs; a recency-only library ends the command.
ListRows(p) ==
  /\ p \in Backfill /\ At(p, "up") /\ proc[p].semantic
  /\ proc' = [proc EXCEPT ![p].pc = "fill", ![p].todo = saved]
  /\ UNCHANGED <<corpus, lock, unseen>>

\* SetEmbedding of the next row.
Refill(p, r) ==
  /\ At(p, "fill") /\ r \in proc[p].todo
  /\ Takes(proc[p].model)
  /\ vec' = [vec EXCEPT ![r] = proc[p].model] /\ Wrote(r)
  /\ proc' = [proc EXCEPT ![p].todo = @ \ {r}]
  /\ UNCHANGED <<stamp, column, saved, lock>>

\* The operator: UPDATE saved_trajectories SET embedding = NULL.
Clear ==
  /\ column # 0
  /\ vec' = [r \in Row |-> NoModel]
  /\ UNCHANGED <<stamp, column, saved, lock, proc, unseen>>

Bootstrap(p) ==
  \/ CreateExtension(p) \/ ReadSchema(p) \/ ProbeCorpus(p) \/ DropColumn(p)
  \/ AddColumn(p) \/ CreateIndex(p) \/ Stamp(p)

Next ==
  \/ \E p \in Process, m \in Model \union {NoModel} : Open(p, m)
  \/ \E p \in Process : Acquire(p) \/ Bootstrap(p) \/ Stop(p) \/ ListRows(p)
  \/ \E p \in Process, r \in Row : SaveBuild(p, r) \/ Refill(p, r)
  \/ Clear

Spec == Init /\ [][Next]_bvars

\* Statements return, and PostgreSQL grants an advisory lock to those that wait
\* in turn.
FairSpec ==
  Spec /\ \A p \in Process : SF_bvars(Acquire(p)) /\ WF_bvars(Bootstrap(p))

-----------------------------------------------------------------------------
(* Properties.                                                             *)

Semantic(p) == proc[p].semantic

\* Inside the bootstrap; past the reading of the schema; past the probe.
Probed == {"drop", "add", "index", "stamp"}
Read   == {"probe"} \union Probed
Inside == {"extension", "read"} \union Read

EmbeddingTypeOK ==
  /\ stamp \in Model \union {NoModel}
  /\ column \in {0} \union {Dim[m] : m \in Model}
  /\ saved \subseteq Row
  /\ vec \in [Row -> Model \union {NoModel}]
  /\ lock \in Process \union {NoProc}
  /\ unseen \subseteq Row /\ (lock = NoProc => unseen = {})
  /\ proc \in [Process ->
       [pc : {"down", "lock", "up", "fill"} \union Inside,
        model : Model \union {NoModel}, semantic : BOOLEAN,
        seen : Model \union {NoModel}, exists : BOOLEAN, todo : SUBSET Row]]

\* One process bootstraps at a time on the stamp it has read.  Past the probe a
\* mismatch has found no vector, so the rows that may hold one are those it could
\* not see: all of them when the query of the columns failed, else the ones that
\* pods of the old model or a backfill wrote since.
BootIsAlone ==
  \A p \in Process :
    LET q == proc[p] IN
    /\ q.pc \in Inside <=> lock = p
    /\ q.pc \in {"lock"} \union Inside => q.model \in Model
    /\ q.pc \in Read => q.seen = stamp
    /\ q.pc = "probe" => (q.exists <=> column # 0) \/ (~q.exists /\ unseen = Row)
    /\ q.pc = "drop" => Mismatch(p) /\ q.exists
    /\ q.pc \in Probed /\ Mismatch(p) => \A r \in Row \ unseen : vec[r] = NoModel
    /\ q.semantic => q.pc \in {"up", "fill"} /\ q.model \in Model
    /\ q.pc = "fill" => q.semantic
    /\ q.todo \subseteq saved

\* The inductive invariant.  The vectors in the column have its dimension, whatever
\* the models that wrote them; before the first stamp there is no vector, and
\* nobody that could write one.
BootInv ==
  /\ EmbeddingTypeOK /\ BootIsAlone
  /\ \A r \in Row : vec[r] # NoModel => r \in saved /\ Dim[vec[r]] = column
  /\ stamp = NoModel =>
       /\ \A r \in Row : vec[r] = NoModel
       /\ \A p \in Process : ~Semantic(p)

\* The stamp names the model that produced the corpus (migration 000002): a
\* bootstrap never gives another stamp to a corpus in which it could see a vector of
\* another model, whatever pods run beside it, stop or fail.
StampCoversSeen ==
  [][stamp' # stamp => \A r \in Row \ unseen : vec[r] \in {NoModel, stamp'}]_bvars

\* "Drop and recreate (only reachable with no embeddings present)": the only step of
\* a process that loses a vector is the DROP COLUMN of a bootstrap that knew of the
\* column, and the vectors it loses were written after it probed the corpus.
BootKeepsSeen ==
  [][proc' # proc =>
       \A r \in Row : vec[r] # NoModel /\ vec'[r] = NoModel =>
         r \in unseen /\ \E p \in Process : At(p, "drop") /\ proc[p].exists]_bvars

\* A process that waits for its turn comes up or stops, whatever happened to the
\* holders of the lock before it.
BootEnds == \A p \in Process : At(p, "lock") ~> proc[p].pc \in {"up", "fill", "down"}

\* library.go:37-39: semanticEnabled gates all vector reads and writes, and
\* embeddingDim is the dimension of the column: for the processes of the stamped
\* model, while nobody bootstraps.
EmbeddingDimIsColumn ==
  lock = NoProc =>
    \A p \in Process : Semantic(p) /\ proc[p].model = stamp => column = Dim[stamp]
=============================================================================
