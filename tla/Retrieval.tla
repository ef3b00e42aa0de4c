------------------------------ MODULE Retrieval ------------------------------
(***************************************************************************)
(* What a run is shown of the builds saved before it                       *)
(* (internal/buildlibrary/find.go, internal/orchestrator/seed.go and the   *)
(* tools get_similar_past_builds and get_saved_build), while workers save  *)
(* builds, users accept them and the backfill adds vectors.                *)
(*                                                                         *)
(* library is the table in the order of created_at; a row is               *)
(*   [class, server, distance, accepted]                                   *)
(* with the distance of its vector to the query of this run, Null without  *)
(* a vector.  An id is a position.  The index of vectors is approximate: a *)
(* search may miss rows.                                                   *)
(***************************************************************************)
EXTENDS ToolCalls

CONSTANTS
  Row,              \* rows that may be saved
  MaxRows,          \* how many
  Query,            \* what the model may ask the list for: [class, server, limit]
  SeedMaxDistance,  \* beyond it the nearest build is no seed
  MaxDistance       \* the floor of the list, 0 for none

\* A row of the table: one that was saved, perhaps with the vector of another.
SavedRow ==
  [class : {row.class : row \in Row}, server : {row.server : row \in Row},
   distance : {row.distance : row \in Row}, accepted : BOOLEAN]

ASSUME RetrievalAssumption ==
  /\ MaxRows \in Nat /\ SeedMaxDistance \in Nat /\ MaxDistance \in Nat
  /\ \A row \in Row : row.distance = Null \/ row.distance \in Nat
  /\ Null \notin SavedRow \union BOOLEAN

VARIABLES
  library,   \* the saved trajectories
  semantic,  \* the library was opened with vectors: FindSimilar works
  embedder,  \* an embedding service is configured
  stage,     \* of maybeSeed: embed, search, load, done
  embedded,  \* the query's vector is on the run's context
  near,      \* the nearest build, found but not yet loaded
  told       \* what the model was told of: [id, by, distance], a history variable

rvars == <<library, semantic, embedder, stage, embedded, near, told>>

-----------------------------------------------------------------------------
(* The statements of find.go.                                              *)

defaultFindLimit == 5
maxFindLimit == 50

FindLimit(limit) ==
  IF limit <= 0 THEN defaultFindLimit
  ELSE IF limit > maxFindLimit THEN maxFindLimit ELSE limit

\* The ids of the rows that match, accepted Null for all; names are compared as spelled.
Matching(p) ==
  {id \in DOMAIN library :
     /\ p.class.key # "" => library[id].class = p.class
     /\ p.server # "" => library[id].server = p.server
     /\ p.accepted # Null => library[id].accepted = p.accepted}

\* The newest n: ORDER BY created_at DESC LIMIT n.  A list is the set of what it
\* names; the order it is shown in is left out.
Newest(ids, n) == {id \in ids : Cardinality({a \in ids : a > id}) < n}

Find(p) == Newest(Matching(p), FindLimit(p.limit))

\* Those with a vector, within the floor where there is one.
Comparable(p) ==
  {id \in Matching(p) :
     /\ library[id].distance # Null
     /\ p.floor > 0 => library[id].distance <= p.floor}

Nearer(a, b) ==
  \/ library[a].distance < library[b].distance
  \/ library[a].distance = library[b].distance /\ a < b

\* The nearest n: ORDER BY distance LIMIT n.
Nearest(ids, n) == {id \in ids : Cardinality({a \in ids : Nearer(a, id)}) < n}

\* FindSimilar: the nearest of the rows that the index finds.
FindSimilar(p) ==
  IF ~semantic \/ ~embedded THEN {{}}
  ELSE {Nearest(found, FindLimit(p.limit)) : found \in SUBSET Comparable(p)}

Accepted(class, server, limit, floor) ==
  [class |-> class, server |-> server, limit |-> limit, floor |-> floor, accepted |-> TRUE]

-----------------------------------------------------------------------------
(* Others.                                                                 *)

RetrievalInit ==
  /\ library = <<>>
  /\ semantic \in BOOLEAN /\ embedder \in BOOLEAN
  /\ stage = "embed" /\ embedded = FALSE /\ near = Null /\ told = {}

\* A worker saves a build, without a vector when the library or its embedding has none.
Save ==
  /\ Len(library) < MaxRows
  /\ \E row \in Row :
       /\ row.distance = Null \/ (semantic /\ embedder)
       /\ library' = Append(library, [class |-> row.class, server |-> row.server,
                                      distance |-> row.distance, accepted |-> FALSE])
  /\ UNCHANGED <<semantic, embedder, stage, embedded, near, told>>

\* A second acceptance changes nothing.
Accept(id) ==
  /\ library' = [library EXCEPT ![id].accepted = TRUE]
  /\ UNCHANGED <<semantic, embedder, stage, embedded, near, told>>

\* The backfill writes the vector of every row.  Where there is one already it is the
\* same, of the same document and model; models that mix are left to EmbeddingBootstrap.
Backfill(id) ==
  /\ library[id].distance = Null
  /\ \E row \in Row : library' = [library EXCEPT ![id].distance = row.distance]
  /\ UNCHANGED <<semantic, embedder, stage, embedded, near, told>>

-----------------------------------------------------------------------------
(* maybeSeed.  Whatever fails, the run goes on without a seed.             *)

NoSeed == stage' = "done" /\ near' = Null /\ UNCHANGED told

EmbedQuery ==
  /\ stage = "embed"
  /\ \/ NoSeed /\ UNCHANGED embedded
     \/ /\ embedder /\ semantic
        /\ embedded' = TRUE /\ stage' = "search"
        /\ UNCHANGED <<near, told>>
  /\ UNCHANGED <<library, semantic, embedder>>

\* Mutant: builds that nobody accepted are searched, too.
SearchNearestOfAll ==
  /\ stage = "search"
  /\ \/ NoSeed
     \/ \E sims \in FindSimilar([Accepted(request.class, request.server, 1, 0) EXCEPT !.accepted = Null]) :
          IF sims = {} THEN NoSeed
          ELSE /\ \E id \in sims : near' = [id |-> id, distance |-> library[id].distance]
               /\ stage' = "load"
               /\ UNCHANGED told
  /\ UNCHANGED <<library, semantic, embedder, embedded>>

\* SimilarTop, its first statement: one row.
SearchNearest ==
  /\ stage = "search"
  /\ \/ NoSeed
     \/ \E sims \in FindSimilar(Accepted(request.class, request.server, 1, 0)) :
          IF sims = {} THEN NoSeed
          ELSE /\ \E id \in sims : near' = [id |-> id, distance |-> library[id].distance]
               /\ stage' = "load"
               /\ UNCHANGED told
  /\ UNCHANGED <<library, semantic, embedder, embedded>>

\* Its second loads that row; the distance is compared last.
LoadNearest ==
  /\ stage = "load"
  /\ \/ NoSeed
     \/ /\ near.distance <= SeedMaxDistance
        /\ told' = {[id |-> near.id, by |-> "seed", distance |-> near.distance]}
        /\ stage' = "done" /\ near' = Null
  /\ UNCHANGED <<library, semantic, embedder, embedded>>

-----------------------------------------------------------------------------
(* The tools.                                                              *)

\* The server is the run's where the model names none; the class is not.
OfServer(server) == IF server = "" /\ Active # Null THEN Active.key ELSE server

\* get_similar_past_builds: by similarity where there is a vector to compare with.
SimilarPastBuilds(class, server, limit) ==
  LET p == Accepted(class, OfServer(server), limit, MaxDistance)
      semantically == embedded /\ semantic
  IN /\ stage = "done"
     /\ \E ids \in IF semantically THEN FindSimilar(p) ELSE {Find(p)} :
          told' = told \union
            {[id |-> id, by |-> IF semantically THEN "similar" ELSE "recent",
              distance |-> library[id].distance] : id \in ids}
     /\ UNCHANGED <<library, semantic, embedder, stage, embedded, near>>

\* get_saved_build: Null for one nobody accepted, as for one there is not.
SavedBuild(id) ==
  IF id \in DOMAIN library /\ library[id].accepted THEN library[id] ELSE Null

GetSavedBuild(id) ==
  /\ stage = "done"
  /\ SavedBuild(id) # Null
  /\ told' = told \union {[id |-> id, by |-> "id", distance |-> Null]}
  /\ UNCHANGED <<library, semantic, embedder, stage, embedded, near>>

RetrievalNext ==
  \/ Save \/ \E id \in DOMAIN library : Accept(id) \/ Backfill(id)
  \/ EmbedQuery \/ SearchNearest \/ LoadNearest
  \/ \E q \in Query : SimilarPastBuilds(q.class, q.server, q.limit)
  \/ \E id \in 1..MaxRows : GetSavedBuild(id)

\* A run: the model's calls, the seed, and what others do to the library meanwhile.
RunSpec ==
  /\ ToolsInit /\ RetrievalInit
  /\ [][\/ ToolsNext /\ UNCHANGED rvars
        \/ RetrievalNext /\ UNCHANGED tvars]_<<tvars, rvars>>

-----------------------------------------------------------------------------
(* Invariants.                                                             *)

\* A user has accepted the build of this id, and it can be loaded.
Vetted(id) == id \in DOMAIN library /\ library[id].accepted

OfRequest(id) ==
  /\ request.class.key # "" => library[id].class = request.class
  /\ request.server # "" => library[id].server = request.server

\* Inductive: the row that the seed has found and not yet loaded was accepted, and
\* neither it nor what was told before can be taken back or become another's.
RetrievalInv ==
  /\ library \in Seq(SavedRow)
  /\ stage = "load" => Vetted(near.id) /\ OfRequest(near.id)
  /\ \A t \in told :
       /\ Vetted(t.id)
       /\ t.by = "seed" => t.distance <= SeedMaxDistance /\ OfRequest(t.id)
       /\ t.by = "similar" =>
            /\ embedded /\ t.distance # Null
            /\ MaxDistance > 0 => t.distance <= MaxDistance

-----------------------------------------------------------------------------
(* Properties.                                                             *)

\* Whatever way a run learned of a build, by the seed, a list or an id, a user had
\* accepted that build ("Until accepted, a saved build ... never seeds a future
\* generation", api/server.go:405-408), and the run can load it: no tool tells of a
\* build that another then denies.  A seed is of the request's class and server and
\* within its threshold, a list by similarity within its floor.
ToldIsVetted ==
  \A t \in told :
    /\ SavedBuild(t.id) # Null
    /\ t.by = "seed" => t.distance <= SeedMaxDistance /\ OfRequest(t.id)
    /\ t.by = "similar" =>
         /\ embedded /\ t.distance # Null
         /\ MaxDistance > 0 => t.distance <= MaxDistance
=============================================================================
