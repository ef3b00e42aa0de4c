--------------------------- MODULE Retrieval_proofs ---------------------------
(***************************************************************************)
(* Proofs about the tools of a run: the calls of the model, the seed, and  *)
(* the library that others change meanwhile, in any interleaving, for any  *)
(* catalog and profiles, batches of any size, any replies of the           *)
(* calculator and a library of any size; about what the prompt promises;   *)
(* and about the tool that builds the catalog, for any files.              *)
(***************************************************************************)
EXTENDS Retrieval, BuildCatalog, SequenceTheorems, FiniteSetTheorems, WellFoundedInduction, TLAPS

\* What a candidate gets is known by whether its request was sent.
LEMMA OutcomeFacts ==
    ASSUME NEW k, NEW result \in Outcomes(k)
    PROVE  LET asked == Preview(Setups(call)[k], Active) IN
           /\ result \in {"invalid", "scored", "client", "outage"}
           /\ asked = Null => result = "invalid"
           /\ asked # Null => result # "invalid"
  BY DEF Outcomes, ScoreResult

\* The setups of a call that is made are setups.
LEMMA SetupsOfCall ==
    ASSUME NEW c \in Call, Scores(c), NEW k \in DOMAIN Setups(c)
    PROVE  Setup(Setups(c)[k])
  BY ToolCallsAssumption DEF Range

\* A slot says whose it is, and what its candidate got.
LEMMA SlotFields ==
    ASSUME NEW k, NEW asked, NEW result
    PROVE  /\ Slot(k, asked, result).index = k
           /\ Slot(k, asked, result).score = IF result = "scored" THEN asked ELSE Null
           /\ Slot(k, asked, result).error <=> result # "scored"
<1>1. /\ Slot(k, asked, result).index = k
      /\ Slot(k, asked, result).score = IF result = "scored" THEN asked ELSE Null
      /\ Slot(k, asked, result).error = (result # "scored")
  BY Zenon DEF Slot
<1> QED BY <1>1, Zenon

-----------------------------------------------------------------------------
(* The calls.                                                              *)

\* The steps of a call keep the invariant, one by one.
LEMMA DispatchKeeps ==
    ASSUME NEW c \in Call, Dispatch(c)
    PROVE  CallInv'
  BY DEF Dispatch, CallInv, GoroutinesInv, AnswerInv, Underway

LEMMA ScoreKeeps ==
    ASSUME NEW c \in Call, Score(c)
    PROVE  CallInv'
<1>1. /\ call' = c /\ globalErr' = FALSE
      /\ replies' = [k \in DOMAIN Setups(c) |-> "none"]
      /\ results' = [k \in DOMAIN Setups(c) |-> Null]
      /\ running' = IF Refused(c) THEN {} ELSE DOMAIN Setups(c)
      /\ answer' = IF Refused(c) THEN [error |-> TRUE, results |-> <<>>] ELSE Null
  BY DEF Score
<1>2. GoroutinesInv'
  BY <1>1 DEF GoroutinesInv, Underway, Outage
<1>3. AnswerInv'
  BY <1>1, ToolCallsAssumption DEF AnswerInv
<1> QED BY <1>2, <1>3 DEF CallInv

\* A goroutine writes its own slot, whichever others have ended.
LEMMA EndKeeps ==
    ASSUME CallInv, NEW k \in running, End(k)
    PROVE  CallInv'
<1> DEFINE asked(i) == Preview(Setups(call)[i], Active)
<1>1. PICK result \in Outcomes(k) :
        /\ replies' = [replies EXCEPT ![k] = result]
        /\ results' = [results EXCEPT ![k] = Slot(k, asked(k), result)]
        /\ globalErr' = (globalErr \/ (result # "scored" /\ ~CandidateError(result)))
  BY DEF End
<1>2. /\ running' = running \ {k} /\ request' = request /\ call' = call /\ answer' = answer
      /\ Active' = Active
  BY DEF End, Active
<1>3. ASSUME Underway(call)
      PROVE  /\ DOMAIN replies' = DOMAIN Setups(call) /\ DOMAIN results' = DOMAIN Setups(call)
             /\ running' \subseteq DOMAIN Setups(call)
             /\ \A i \in DOMAIN Setups(call) :
                  IF i \in running' THEN replies'[i] = "none"
                  ELSE /\ replies'[i] \in Outcomes(i)
                       /\ results'[i] = Slot(i, asked(i), replies'[i])
             /\ globalErr' <=> Outage'
  <2>1. /\ DOMAIN replies = DOMAIN Setups(call) /\ DOMAIN results = DOMAIN Setups(call)
        /\ running \subseteq DOMAIN Setups(call)
        /\ \A i \in DOMAIN Setups(call) :
             IF i \in running THEN replies[i] = "none"
             ELSE /\ replies[i] \in Outcomes(i)
                  /\ results[i] = Slot(i, asked(i), replies[i])
        /\ globalErr <=> Outage
    BY <1>3 DEF CallInv, GoroutinesInv
  <2> HIDE DEF asked
  <2>2. result \in {"invalid", "scored", "client", "outage"}
    BY OutcomeFacts
  <2>3. globalErr' <=> globalErr \/ result = "outage"
    BY <1>1, <2>2 DEF CandidateError
  <2>4. /\ DOMAIN replies' = DOMAIN replies /\ DOMAIN results' = DOMAIN results
        /\ \A i \in DOMAIN replies : replies'[i] = IF i = k THEN result ELSE replies[i]
        /\ \A i \in DOMAIN results :
             results'[i] = IF i = k THEN Slot(k, asked(k), result) ELSE results[i]
    BY <1>1
  <2>5. ASSUME NEW i \in DOMAIN Setups(call)
        PROVE  IF i \in running' THEN replies'[i] = "none"
               ELSE /\ replies'[i] \in Outcomes(i)
                    /\ results'[i] = Slot(i, asked(i), replies'[i])
    <3>1. CASE i = k
      BY <1>2, <2>1, <2>4, <3>1
    <3>2. CASE i # k
      BY <1>2, <2>1, <2>4, <3>2
    <3> QED BY <3>1, <3>2
  <2>6. globalErr' <=> Outage'
    <3>1. k \in DOMAIN replies /\ replies[k] # "outage"
      BY <2>1
    <3>2. Outage' <=> \E i \in DOMAIN replies : replies'[i] = "outage"
      BY <2>4 DEF Outage
    <3>3. (\E i \in DOMAIN replies : replies'[i] = "outage") <=> Outage \/ result = "outage"
      BY <2>4, <3>1 DEF Outage
    <3> QED BY <2>1, <2>3, <3>2, <3>3
  <2> QED BY <1>2, <2>1, <2>4, <2>5, <2>6
<1>4. GoroutinesInv'
  BY <1>2, <1>3 DEF GoroutinesInv, Outcomes
<1>5. AnswerInv'
  BY <1>2 DEF CallInv, AnswerInv
<1> QED BY <1>4, <1>5 DEF CallInv

\* The answer, once all have ended.
LEMMA CollectKeeps ==
    ASSUME CallInv, Collect
    PROVE  CallInv'
<1>1. /\ call # Null /\ answer = Null /\ running = {}
      /\ call' = call /\ running' = running /\ replies' = replies /\ results' = results
      /\ globalErr' = globalErr /\ request' = request
  BY DEF Collect
<1>2. GoroutinesInv'
  BY <1>1 DEF CallInv, GoroutinesInv, Outage, Outcomes, Active
<1>3. AnswerInv'
  <2> SUFFICES ASSUME Scores(call)
               PROVE  IF Refused(call) THEN answer' # Null /\ running' = {} /\ answer'.error
                      ELSE answer' # Null =>
                             /\ running' = {}
                             /\ answer'.error <=> IF call.tool = "score_build" THEN results[1].error
                                                  ELSE globalErr
                             /\ ~answer'.error => answer'.results = results
    BY <1>1 DEF AnswerInv
  <2>1. ~Refused(call)
    BY <1>1 DEF CallInv, AnswerInv
  <2> DEFINE failed == IF call.tool = "score_build" THEN results[1].error ELSE globalErr
  <2>2. answer' = [error |-> failed, results |-> IF failed THEN <<>> ELSE results]
    BY DEF Collect
  <2>3. answer'.error = failed /\ answer'.results = IF failed THEN <<>> ELSE results
    BY <2>2
  <2> QED BY <1>1, <2>1, <2>3
<1> QED BY <1>2, <1>3 DEF CallInv

\* Together, for every step of the tools.
LEMMA CallInvStep == CallInv /\ [ToolsNext]_tvars => CallInv'
<1> SUFFICES ASSUME CallInv, [ToolsNext]_tvars PROVE CallInv'
  OBVIOUS
<1>1. ASSUME NEW c \in Call, Dispatch(c) PROVE CallInv'
  BY <1>1, DispatchKeeps
<1>2. ASSUME NEW c \in Call, Score(c) PROVE CallInv'
  BY <1>2, ScoreKeeps
<1>3. ASSUME NEW k \in running, End(k) PROVE CallInv'
  BY <1>3, EndKeeps
<1>4. CASE Collect
  BY <1>4, CollectKeeps
<1>5. CASE UNCHANGED tvars
  BY <1>5 DEF tvars, CallInv, GoroutinesInv, AnswerInv, Outage, Outcomes, Active
<1> QED BY <1>1, <1>2, <1>3, <1>4, <1>5 DEF ToolsNext

\* Calls are of Call, and the request does not change.
CallIsMade == call = Null \/ call \in Call

LEMMA CallIsMadeStep == CallIsMade /\ [ToolsNext]_tvars => CallIsMade'
  BY DEF CallIsMade, ToolsNext, tvars, Dispatch, Score, End, Collect

\* Every call of a run is one of those that the model may make.
LEMMA CallsAreKept == RunSpec => [](CallInv /\ CallIsMade)
<1>1. ToolsInit => CallInv /\ CallIsMade
  BY DEF ToolsInit, CallInv, GoroutinesInv, AnswerInv, Underway, CallIsMade
<1>2. /\ CallInv /\ CallIsMade
      /\ [\/ ToolsNext /\ UNCHANGED rvars
          \/ RetrievalNext /\ UNCHANGED tvars]_<<tvars, rvars>>
      => CallInv' /\ CallIsMade'
  BY CallInvStep, CallIsMadeStep
<1> QED BY <1>1, <1>2, PTL DEF RunSpec

\* A batch is answered with the result of every candidate in its own place, its own
\* score or its own error, or fails as a whole when the calculator was out of reach for
\* one of them: for batches of any size and goroutines that end in any order.
THEOREM BatchesTellOutages == RunSpec => []BatchTellsOutage
<1>1. CallInv => BatchTellsOutage
  <2> SUFFICES ASSUME CallInv, call # Null, answer # Null, call.tool = "score_builds",
                      ~Refused(call)
               PROVE  IF \E k \in DOMAIN replies : replies[k] = "outage" THEN answer.error
                      ELSE /\ ~answer.error
                           /\ \A k \in DOMAIN call.arg :
                                OwnSlot(k, answer.results[k], Preview(call.arg[k], Active))
    BY DEF BatchTellsOutage
  <2>1. Scores(call) /\ Underway(call) /\ Setups(call) = call.arg
    BY DEF Scores, Underway, Setups
  <2>2. /\ running = {}
        /\ answer.error <=> globalErr
        /\ ~answer.error => answer.results = results
    BY <2>1 DEF CallInv, AnswerInv
  <2>3. /\ globalErr <=> \E k \in DOMAIN replies : replies[k] = "outage"
        /\ DOMAIN replies = DOMAIN call.arg
    BY <2>1 DEF CallInv, GoroutinesInv, Outage
  <2>4. ASSUME NEW k \in DOMAIN call.arg
        PROVE  /\ replies[k] \in Outcomes(k)
               /\ results[k] = Slot(k, Preview(Setups(call)[k], Active), replies[k])
    BY <2>1, <2>2 DEF CallInv, GoroutinesInv
  <2>5. ASSUME NEW k \in DOMAIN call.arg, replies[k] # "outage"
        PROVE  OwnSlot(k, results[k], Preview(call.arg[k], Active))
    <3> DEFINE asked == Preview(Setups(call)[k], Active)
    <3>1. /\ replies[k] \in {"invalid", "scored", "client"}
          /\ asked = Null <=> replies[k] = "invalid"
      BY <2>4, <2>5, OutcomeFacts
    <3>2. results[k] = Slot(k, asked, replies[k])
      BY <2>4
    <3>3. asked = Preview(call.arg[k], Active)
      BY <2>1
    <3> HIDE DEF asked
    <3>4. /\ results[k].index = k
          /\ results[k].score = IF replies[k] = "scored" THEN asked ELSE Null
          /\ results[k].error <=> replies[k] # "scored"
      BY <3>2, SlotFields
    <3>5. results[k].error <=> asked = Null \/ replies[k] = "client"
      BY <3>1, <3>4
    <3>6. results[k].score = IF results[k].error THEN Null ELSE asked
      BY <3>4
    <3> QED BY <3>3, <3>4, <3>5, <3>6 DEF OwnSlot
  <2>6. CASE \E k \in DOMAIN replies : replies[k] = "outage"
    BY <2>2, <2>3, <2>6
  <2>7. CASE ~\E k \in DOMAIN replies : replies[k] = "outage"
    <3>1. ~answer.error /\ answer.results = results
      BY <2>2, <2>3, <2>7
    <3>2. ASSUME NEW k \in DOMAIN call.arg
          PROVE  OwnSlot(k, answer.results[k], Preview(call.arg[k], Active))
      BY <2>3, <2>5, <2>7, <3>1
    <3> QED BY <2>7, <3>1, <3>2
  <2> QED BY <2>6, <2>7
<1> QED BY <1>1, CallsAreKept, PTL

-----------------------------------------------------------------------------
(* The preview.                                                            *)

\* Of a valid snapshot the preview is what a submission will ask.
LEMMA PreviewsAlike ==
    ASSUME NEW s, Setup(s), ValidAsSnapshot(s), NEW p
    PROVE  Preview(s, p) = Canonical(s, p)
<1> DEFINE copy == [s EXCEPT !.mode = "pre-renewal"]
<1>1. /\ copy.mode = "pre-renewal" /\ copy.base = s.base /\ copy.job = s.job
      /\ copy.equipment = s.equipment
  BY DEF Setup
<1>2. /\ s.base \in Int /\ s.job \in Int /\ s.base >= 1 /\ s.job >= 1
      /\ \A slot \in DOMAIN s.equipment : s.equipment[slot].refine \in 0..10
  BY DEF Setup, ValidAsSnapshot, Snapshots!ValidSnapshot
<1> HIDE DEF copy
<1>3. BuildValid(copy)
  BY <1>1, <1>2 DEF BuildValid
<1> QED BY <1>3 DEF Preview, Canonical, SnapshotRequest, copy

\* A preview of what would be a valid snapshot is scored as submit_trajectory will score
\* it, for every class, server and catalog.
THEOREM PreviewsAreCanonical == RunSpec => []PreviewIsCanonical
<1>1. CallInv /\ CallIsMade => PreviewIsCanonical
  <2> SUFFICES ASSUME CallInv, CallIsMade, call # Null, answer # Null, Scores(call),
                      ~answer.error, NEW k \in DOMAIN answer.results,
                      ValidAsSnapshot(Setups(call)[k])
               PROVE  ScoredAs(k, answer.results[k], Canonical(Setups(call)[k], Active))
    BY DEF PreviewIsCanonical
  <2>1. ~Refused(call) /\ Underway(call)
    BY DEF CallInv, AnswerInv, Underway
  <2>2. running = {} /\ answer.results = results
    BY <2>1 DEF CallInv, AnswerInv
  <2>3. /\ DOMAIN results = DOMAIN Setups(call) /\ DOMAIN replies = DOMAIN Setups(call)
        /\ replies[k] \in Outcomes(k)
        /\ results[k] = Slot(k, Preview(Setups(call)[k], Active), replies[k])
    BY <2>1, <2>2 DEF CallInv, GoroutinesInv
  <2>4. Preview(Setups(call)[k], Active) = Canonical(Setups(call)[k], Active)
    BY <2>2, <2>3, SetupsOfCall, PreviewsAlike DEF CallIsMade
  <2> DEFINE asked == Canonical(Setups(call)[k], Active)
  <2>5. results[k] = Slot(k, asked, replies[k])
    BY <2>3, <2>4
  <2>6. replies[k] # "outage"
    <3>1. CASE call.tool = "score_build"
      <4>1. k = 1
        BY <2>2, <2>3, <3>1 DEF Setups
      <4>2. ~results[k].error
        BY <2>1, <3>1, <4>1 DEF CallInv, AnswerInv
      <4> QED BY <2>5, <4>2, SlotFields
    <3>2. CASE call.tool = "score_builds"
      <4>1. ~globalErr
        BY <2>1, <3>2 DEF CallInv, AnswerInv
      <4>2. ~Outage
        BY <2>1, <4>1 DEF CallInv, GoroutinesInv
      <4> QED BY <2>2, <2>3, <4>2 DEF Outage
    <3> QED BY <3>1, <3>2 DEF Scores
  <2>7. /\ replies[k] \in {"invalid", "scored", "client"}
        /\ asked = Null <=> replies[k] = "invalid"
    BY <2>2, <2>3, <2>4, <2>6, OutcomeFacts
  <2> HIDE DEF asked
  <2>8. /\ results[k].error <=> replies[k] # "scored"
        /\ results[k].score = IF replies[k] = "scored" THEN asked ELSE Null
    BY <2>5, SlotFields
  <2>9. results[k].error <=> asked = Null \/ replies[k] = "client"
    BY <2>7, <2>8
  <2>10. ~results[k].error => results[k].score = asked
    BY <2>8
  <2> QED BY <2>2, <2>9, <2>10 DEF ScoredAs, asked
<1> QED BY <1>1, CallsAreKept, PTL

-----------------------------------------------------------------------------
(* What a run is told of.                                                  *)

\* A search returns rows that can be compared, and only where there is a vector.
LEMMA FoundIsComparable ==
    ASSUME NEW p, NEW ids \in FindSimilar(p), NEW id \in ids
    PROVE  embedded /\ id \in Comparable(p)
  BY DEF FindSimilar, Nearest

\* What a statement finds matches it.
LEMMA FoundMatches ==
    ASSUME NEW p, NEW id \in Find(p)
    PROVE  id \in Matching(p)
  BY DEF Find, Newest

\* Every statement of a run asks for accepted builds.
LEMMA MatchingIsVetted ==
    ASSUME NEW class, NEW server, NEW limit, NEW floor,
           NEW id \in Matching(Accepted(class, server, limit, floor))
    PROVE  Vetted(id)
<1> DEFINE p == Accepted(class, server, limit, floor)
<1>1. p.accepted = TRUE
  BY DEF Accepted
<1>2. p.accepted # Null
  BY <1>1, RetrievalAssumption
<1>3. /\ id \in DOMAIN library
      /\ library[id].accepted = p.accepted
  BY <1>2 DEF Matching
<1> HIDE DEF p
<1> QED BY <1>1, <1>3 DEF Vetted

LEMMA ComparableIsNear ==
    ASSUME NEW class, NEW server, NEW limit, NEW floor,
           NEW id \in Comparable(Accepted(class, server, limit, floor))
    PROVE  /\ id \in Matching(Accepted(class, server, limit, floor))
           /\ library[id].distance # Null
           /\ floor > 0 => library[id].distance <= floor
<1> DEFINE p == Accepted(class, server, limit, floor)
<1>1. p.floor = floor
  BY DEF Accepted
<1>2. /\ id \in Matching(p)
      /\ library[id].distance # Null
      /\ p.floor > 0 => library[id].distance <= p.floor
  BY DEF Comparable
<1> QED BY <1>1, <1>2

\* What others do to the library takes back no acceptance, and changes no row into
\* that of another class or server.
LibraryGrows ==
  /\ library' \in Seq(SavedRow)
  /\ \A id \in DOMAIN library :
       /\ id \in DOMAIN library'
       /\ library'[id].class = library[id].class /\ library'[id].server = library[id].server
       /\ library[id].accepted => library'[id].accepted

\* What others do to the library takes no accepted build from it.
LEMMA SaveGrows ==
    ASSUME library \in Seq(SavedRow), Save
    PROVE  LibraryGrows
<1>1. PICK row \in Row :
        library' = Append(library, [class |-> row.class, server |-> row.server,
                                    distance |-> row.distance, accepted |-> FALSE])
  BY DEF Save
<1>2. [class |-> row.class, server |-> row.server,
       distance |-> row.distance, accepted |-> FALSE] \in SavedRow
  BY DEF SavedRow
<1>3. /\ library' \in Seq(SavedRow)
      /\ Len(library') = Len(library) + 1
      /\ \A id \in 1..Len(library) : library'[id] = library[id]
  BY <1>1, <1>2
<1>4. DOMAIN library = 1..Len(library) /\ DOMAIN library' = 1..Len(library') /\ Len(library) \in Nat
  BY <1>3
<1> QED BY <1>3, <1>4 DEF LibraryGrows

LEMMA AcceptGrows ==
    ASSUME library \in Seq(SavedRow), NEW id \in DOMAIN library, Accept(id)
    PROVE  LibraryGrows
<1> DEFINE row == [library[id] EXCEPT !.accepted = TRUE]
<1>1. library' = [library EXCEPT ![id] = row]
  BY DEF Accept
<1>2. id \in 1..Len(library) /\ library[id] \in SavedRow
  OBVIOUS
<1>3. /\ row \in SavedRow
      /\ row.class = library[id].class /\ row.server = library[id].server
      /\ row.accepted
  BY <1>2 DEF SavedRow
<1> HIDE DEF row
<1>4. /\ library' \in Seq(SavedRow)
      /\ DOMAIN library' = DOMAIN library
      /\ \A j \in DOMAIN library : library'[j] = IF j = id THEN row ELSE library[j]
  BY <1>1, <1>2, <1>3, ExceptSeq
<1> QED BY <1>3, <1>4 DEF LibraryGrows

LEMMA BackfillGrows ==
    ASSUME library \in Seq(SavedRow), NEW id \in DOMAIN library, Backfill(id)
    PROVE  LibraryGrows
<1>1. PICK r \in Row : library' = [library EXCEPT ![id].distance = r.distance]
  BY DEF Backfill
<1> DEFINE row == [library[id] EXCEPT !.distance = r.distance]
<1>2. library' = [library EXCEPT ![id] = row]
  BY <1>1
<1>3. id \in 1..Len(library) /\ library[id] \in SavedRow
  OBVIOUS
<1>4. /\ row \in SavedRow
      /\ row.class = library[id].class /\ row.server = library[id].server
  BY <1>3 DEF SavedRow
<1>5. row.accepted <=> library[id].accepted
  BY <1>3 DEF SavedRow
<1> HIDE DEF row
<1>6. /\ library' \in Seq(SavedRow)
      /\ DOMAIN library' = DOMAIN library
      /\ \A j \in DOMAIN library : library'[j] = IF j = id THEN row ELSE library[j]
  BY <1>2, <1>3, <1>4, ExceptSeq
<1> QED BY <1>4, <1>5, <1>6 DEF LibraryGrows

\* So what was found or told stays true of it.
LEMMA GrowthKeeps ==
    ASSUME RetrievalInv, LibraryGrows,
           UNCHANGED <<request, semantic, embedder, stage, embedded, near, told>>
    PROVE  RetrievalInv'
<1>1. ASSUME NEW id, Vetted(id)
      PROVE  Vetted(id)' /\ (OfRequest(id) => OfRequest(id)')
  BY <1>1 DEF Vetted, OfRequest, LibraryGrows
<1>2. ASSUME NEW t \in told
      PROVE  /\ Vetted(t.id)'
             /\ t.by = "seed" => t.distance <= SeedMaxDistance /\ OfRequest(t.id)'
             /\ t.by = "similar" =>
                  /\ embedded'
                  /\ t.distance # Null
                  /\ MaxDistance > 0 => t.distance <= MaxDistance
  BY <1>1 DEF RetrievalInv
<1>3. stage' = "load" => Vetted(near.id)' /\ OfRequest(near.id)'
  BY <1>1 DEF RetrievalInv
<1> QED BY <1>2, <1>3 DEF RetrievalInv, LibraryGrows

\* What is told of one build more.
ToldWell(t) ==
  /\ Vetted(t.id)
  /\ t.by = "seed" => t.distance <= SeedMaxDistance /\ OfRequest(t.id)
  /\ t.by = "similar" =>
       /\ embedded /\ t.distance # Null
       /\ MaxDistance > 0 => t.distance <= MaxDistance

\* The steps of the seed keep the invariant.
LEMMA EmbedQueryKeeps ==
    ASSUME RetrievalInv, EmbedQuery, UNCHANGED request
    PROVE  RetrievalInv'
<1>1. library' = library /\ told' = told /\ stage' # "load" /\ (embedded => embedded')
  BY DEF EmbedQuery, NoSeed
<1> QED BY <1>1 DEF RetrievalInv, Vetted, OfRequest

\* What the search finds was accepted, and is of the request.
LEMMA SearchNearestKeeps ==
    ASSUME RetrievalInv, SearchNearest, UNCHANGED request
    PROVE  RetrievalInv'
<1>1. library' = library /\ told' = told /\ embedded' = embedded
  BY DEF SearchNearest, NoSeed
<1>2. stage' = "load" => Vetted(near'.id) /\ OfRequest(near'.id)
  <2>1. CASE NoSeed
    BY <2>1 DEF NoSeed
  <2>2. ASSUME NEW sims \in FindSimilar(Accepted(request.class, request.server, 1, 0)),
               NEW id \in sims, near' = [id |-> id, distance |-> library[id].distance]
        PROVE  Vetted(near'.id) /\ OfRequest(near'.id)
    <3>1. id \in Matching(Accepted(request.class, request.server, 1, 0))
      BY FoundIsComparable, ComparableIsNear
    <3>2. Vetted(id)
      BY <3>1, MatchingIsVetted
    <3>3. Vetted(id) /\ OfRequest(id)
      BY <3>1, <3>2 DEF Matching, Accepted, OfRequest
    <3> QED BY <2>2, <3>3
  <2> QED BY <2>1, <2>2 DEF SearchNearest
<1> QED BY <1>1, <1>2 DEF RetrievalInv, Vetted, OfRequest

\* The row can be loaded still, whatever happened since the search.
LEMMA LoadNearestKeeps ==
    ASSUME RetrievalInv, LoadNearest, UNCHANGED request
    PROVE  RetrievalInv'
<1>1. /\ stage = "load" /\ stage' = "done"
      /\ library' = library /\ embedded' = embedded
  BY DEF LoadNearest, NoSeed
<1>2. CASE NoSeed
  BY <1>1, <1>2 DEF NoSeed, RetrievalInv, Vetted, OfRequest
<1>3. CASE /\ near.distance <= SeedMaxDistance
           /\ told' = {[id |-> near.id, by |-> "seed", distance |-> near.distance]}
  <2>1. ASSUME NEW t \in told'
        PROVE  ToldWell(t)
    <3>1. t.id = near.id /\ t.by = "seed" /\ t.distance = near.distance
      BY <1>3, <2>1
    <3>2. Vetted(near.id) /\ OfRequest(near.id)
      BY <1>1 DEF RetrievalInv
    <3> QED BY <1>3, <3>1, <3>2 DEF ToldWell
  <2> QED BY <1>1, <2>1 DEF RetrievalInv, ToldWell, Vetted, OfRequest
<1> QED BY <1>2, <1>3 DEF LoadNearest

\* The lists: by similarity or by age, of accepted builds alone.
LEMMA SimilarPastBuildsKeeps ==
    ASSUME RetrievalInv, NEW class, NEW server, NEW limit,
           SimilarPastBuilds(class, server, limit), UNCHANGED request
    PROVE  RetrievalInv'
<1> DEFINE semantically == embedded /\ semantic
           p == Accepted(class, OfServer(server), limit, MaxDistance)
           Told(id) == [id |-> id, by |-> IF semantically THEN "similar" ELSE "recent",
                        distance |-> library[id].distance]
<1>1. PICK ids \in IF semantically THEN FindSimilar(p) ELSE {Find(p)} :
        told' = told \union {Told(id) : id \in ids}
  BY DEF SimilarPastBuilds
<1>2. /\ stage = "done"
      /\ library' = library /\ embedded' = embedded /\ stage' = stage
  BY DEF SimilarPastBuilds
<1>3. ASSUME NEW id \in ids
      PROVE  ToldWell(Told(id))
  <2>1. CASE semantically
    <3>1. id \in Comparable(p) /\ embedded
      BY <1>1, <1>3, <2>1, FoundIsComparable
    <3>2. /\ id \in Matching(p)
          /\ library[id].distance # Null
          /\ MaxDistance > 0 => library[id].distance <= MaxDistance
      BY <3>1, ComparableIsNear, Zenon
    <3>3. Vetted(id)
      BY <3>2, MatchingIsVetted, Zenon
    <3> QED BY <2>1, <3>1, <3>2, <3>3 DEF ToldWell
  <2>2. CASE ~semantically
    <3>1. id \in Matching(p)
      BY <1>1, <1>3, <2>2, FoundMatches
    <3>2. Vetted(id)
      BY <3>1, MatchingIsVetted
    <3> QED BY <2>2, <3>2 DEF ToldWell
  <2> QED BY <2>1, <2>2
<1>4. \A t \in told : ToldWell(t)
  BY DEF RetrievalInv, ToldWell
<1> HIDE DEF Told, semantically, p
<1>5. \A t \in told' : ToldWell(t)
  BY <1>1, <1>3, <1>4
<1> QED BY <1>2, <1>5 DEF RetrievalInv, ToldWell, Vetted, OfRequest

LEMMA GetSavedBuildKeeps ==
    ASSUME RetrievalInv, NEW id, GetSavedBuild(id), UNCHANGED request
    PROVE  RetrievalInv'
<1>1. /\ stage = "done"
      /\ library' = library /\ embedded' = embedded /\ stage' = stage
      /\ told' = told \union {[id |-> id, by |-> "id", distance |-> Null]}
  BY DEF GetSavedBuild
<1>2. Vetted(id)
  BY DEF GetSavedBuild, SavedBuild, Vetted
<1>3. ASSUME NEW t \in told'
      PROVE  ToldWell(t)
  <2>1. CASE t \in told
    BY <2>1 DEF RetrievalInv, ToldWell
  <2>2. CASE t = [id |-> id, by |-> "id", distance |-> Null]
    BY <1>2, <2>2 DEF ToldWell
  <2> QED BY <1>1, <1>3, <2>1, <2>2
<1> QED BY <1>1, <1>3 DEF RetrievalInv, ToldWell, Vetted, OfRequest

\* And so does every step of a run.
LEMMA RetrievalInvStep ==
    ASSUME RetrievalInv,
           [\/ ToolsNext /\ UNCHANGED rvars
            \/ RetrievalNext /\ UNCHANGED tvars]_<<tvars, rvars>>
    PROVE  RetrievalInv'
<1>1. request' = request
  BY DEF ToolsNext, Dispatch, Score, End, Collect, tvars
<1>2. CASE UNCHANGED rvars
  BY <1>1, <1>2 DEF rvars, RetrievalInv, Vetted, OfRequest
<1>3. CASE Save
  BY <1>1, <1>3, SaveGrows, GrowthKeeps DEF Save, RetrievalInv
<1>4. ASSUME NEW id \in DOMAIN library, Accept(id)
      PROVE  RetrievalInv'
  BY <1>1, <1>4, AcceptGrows, GrowthKeeps DEF Accept, RetrievalInv
<1>5. ASSUME NEW id \in DOMAIN library, Backfill(id)
      PROVE  RetrievalInv'
  BY <1>1, <1>5, BackfillGrows, GrowthKeeps DEF Backfill, RetrievalInv
<1>6. CASE EmbedQuery
  BY <1>1, <1>6, EmbedQueryKeeps
<1>7. CASE SearchNearest
  BY <1>1, <1>7, SearchNearestKeeps
<1>8. CASE LoadNearest
  BY <1>1, <1>8, LoadNearestKeeps
<1>9. ASSUME NEW class, NEW server, NEW limit, SimilarPastBuilds(class, server, limit)
      PROVE  RetrievalInv'
  BY <1>1, <1>9, SimilarPastBuildsKeeps
<1>10. ASSUME NEW id, GetSavedBuild(id)
       PROVE  RetrievalInv'
  BY <1>1, <1>10, GetSavedBuildKeeps
<1> QED BY <1>2, <1>3, <1>4, <1>5, <1>6, <1>7, <1>8, <1>9, <1>10 DEF RetrievalNext, rvars

\* Whatever way a run learned of a build, by the seed, a list or an id, a user had
\* accepted it and the run can load it, while workers save, users accept and the
\* backfill runs between any two of its steps; a seed is of the request's class and
\* server and within its threshold, a list by similarity within its floor.
THEOREM ToldBuildsAreVetted == RunSpec => []ToldIsVetted
<1>1. ToolsInit /\ RetrievalInit => RetrievalInv
  BY EmptySeq DEF RetrievalInit, RetrievalInv
<1>2. RetrievalInv => ToldIsVetted
  <2> SUFFICES ASSUME RetrievalInv, NEW t \in told
               PROVE  SavedBuild(t.id) # Null
    BY DEF RetrievalInv, ToldIsVetted
  <2>1. t.id \in DOMAIN library /\ library[t.id].accepted
    BY DEF RetrievalInv, Vetted
  <2>2. library[t.id] \in SavedRow
    BY <2>1 DEF RetrievalInv
  <2> QED BY <2>1, <2>2, RetrievalAssumption DEF SavedBuild
<1>3. RunSpec => []RetrievalInv
  BY <1>1, RetrievalInvStep, PTL DEF RunSpec
<1> QED BY <1>2, <1>3, PTL

-----------------------------------------------------------------------------
(* The catalog by name.                                                    *)

\* The least of a set of positions is one of them.
LEMMA MinIs ==
    ASSUME NEW S \in SUBSET Nat, S # {}
    PROVE  Min(S) \in S /\ \A y \in S : Min(S) <= y
<1> DEFINE R == OpToRel(<, Nat)
<1>1. IsWellFoundedOn(R, Nat)
  BY NatLessThanWellFounded
<1>2. \A m, n \in Nat : <<m, n>> \in R <=> m < n
  BY DEF OpToRel
<1> HIDE DEF R
<1>3. PICK x \in S : \A y \in S : <<y, x>> \notin R
  BY <1>1, WFMin
<1>4. \A y \in S : x <= y
  <2> TAKE y \in S
  <2>1. x \in Nat /\ y \in Nat /\ ~(y < x)
    BY <1>2, <1>3
  <2> QED BY <2>1
<1> QED BY <1>3, <1>4 DEF Min

\* And so is the greatest, where they are bounded.
LEMMA MaxIs ==
    ASSUME NEW n \in Nat, NEW S \in SUBSET (1..n), S # {}
    PROVE  Max(S) \in S /\ \A y \in S : Max(S) >= y
<1> DEFINE T == {n - x : x \in S}
<1>1. T \in SUBSET Nat /\ T # {}
  <2>1. \A x \in S : n - x \in Nat
    OBVIOUS
  <2> QED BY <2>1
<1>2. PICK m \in T : \A y \in T : m <= y
  BY <1>1, MinIs
<1>3. PICK x \in S : m = n - x
  BY <1>2
<1>4. \A y \in S : x >= y
  <2> TAKE y \in S
  <2>1. n - y \in T
    OBVIOUS
  <2>2. n - x <= n - y
    BY <1>2, <1>3, <2>1
  <2> QED BY <2>2
<1> QED BY <1>3, <1>4 DEF Max

\* What is assumed of the catalog, of its indices.
LEMMA CatalogFacts ==
  /\ "" \notin DOMAIN classes
  /\ \A key \in DOMAIN classes :
       /\ Sequence(classes[key].skills)
       /\ \A s \in Range(classes[key].skills) : s.aegis # "(innate)"
  /\ \A a, b \in DOMAIN skillsByName :
       LET x == skillsByName[a]  y == skillsByName[b] IN
       /\ x.buff # Null /\ y.buff # Null /\ x.buff.name = y.buff.name => a = b
       /\ x.attack # Null => x.attack # ""
       /\ x.attack # Null /\ x.attack = y.attack => a = b
BY CatalogAssumption DEF Readable, classes, skillsByName

\* What the map of a loop of assignments holds under a name is a row of this name.
LEMMA OfferedBuffsAre ==
    ASSUME NEW class, ClassWithAliases(class) \in DOMAIN classes
    PROVE  LET rows == Range(ClassBuffs(class))  offered == OfferedBuffs(class) IN
           /\ DOMAIN offered = {r.buff.name : r \in rows}
           /\ \A name \in DOMAIN offered : offered[name] \in rows /\ offered[name].buff.name = name
<1> DEFINE rows == ClassBuffs(class)
           offered == OfferedBuffs(class)
           at(name) == {k \in DOMAIN rows : rows[k].buff.name = name}
           tree == classes[ClassWithAliases(class)].skills
<1>1. tree \in Seq(Range(tree))
  BY CatalogFacts DEF Sequence
<1>2. Len(tree) \in Nat /\ DOMAIN tree = 1..Len(tree)
  BY <1>1
<1>3. DOMAIN ClassSkills(class) = 1..Len(tree)
  BY <1>2 DEF ClassSkills
<1>4. DOMAIN rows \subseteq 1..Len(tree)
  BY <1>3 DEF ClassBuffs, RestrictValues, Restrict
<1> HIDE DEF rows, tree
<1>5. offered = [name \in {rows[k].buff.name : k \in DOMAIN rows} |-> rows[Max(at(name))]]
  BY DEF OfferedBuffs, LastBy, rows
<1>6. ASSUME NEW name \in {rows[k].buff.name : k \in DOMAIN rows}
      PROVE  Max(at(name)) \in at(name)
  <2>1. at(name) \in SUBSET (1..Len(tree)) /\ at(name) # {}
    BY <1>4
  <2> QED BY <1>2, <2>1, MaxIs
<1> HIDE DEF offered
<1>7. DOMAIN offered = {rows[k].buff.name : k \in DOMAIN rows}
  BY <1>5
<1>8. \A name \in DOMAIN offered : offered[name] \in Range(rows) /\ offered[name].buff.name = name
  BY <1>5, <1>6, <1>7 DEF Range
<1>9. DOMAIN offered = {r.buff.name : r \in Range(rows)}
  BY <1>7 DEF Range
<1> QED BY <1>8, <1>9 DEF rows, offered

\* The same for the attacks.
LEMMA OfferedAttacksAre ==
    ASSUME NEW class, ClassWithAliases(class) \in DOMAIN classes
    PROVE  LET rows == Range(ClassAttackSkills(class))  offered == OfferedAttacks(class) IN
           /\ DOMAIN offered = {r.attack : r \in rows}
           /\ \A name \in DOMAIN offered : offered[name] \in rows /\ offered[name].attack = name
<1> DEFINE rows == ClassAttackSkills(class)
           offered == OfferedAttacks(class)
           at(name) == {k \in DOMAIN rows : rows[k].attack = name}
           tree == classes[ClassWithAliases(class)].skills
<1>1. tree \in Seq(Range(tree))
  BY CatalogFacts DEF Sequence
<1>2. Len(tree) \in Nat /\ DOMAIN tree = 1..Len(tree)
  BY <1>1
<1>3. DOMAIN ClassSkills(class) = 1..Len(tree)
  BY <1>2 DEF ClassSkills
<1>4. DOMAIN rows \subseteq 1..Len(tree)
  BY <1>3 DEF ClassAttackSkills, RestrictValues, Restrict
<1> HIDE DEF rows, tree
<1>5. offered = [name \in {rows[k].attack : k \in DOMAIN rows} |-> rows[Max(at(name))]]
  BY DEF OfferedAttacks, LastBy, rows
<1>6. ASSUME NEW name \in {rows[k].attack : k \in DOMAIN rows}
      PROVE  Max(at(name)) \in at(name)
  <2>1. at(name) \in SUBSET (1..Len(tree)) /\ at(name) # {}
    BY <1>4
  <2> QED BY <1>2, <2>1, MaxIs
<1> HIDE DEF offered
<1>7. DOMAIN offered = {rows[k].attack : k \in DOMAIN rows}
  BY <1>5
<1>8. \A name \in DOMAIN offered : offered[name] \in Range(rows) /\ offered[name].attack = name
  BY <1>5, <1>6, <1>7 DEF Range
<1>9. DOMAIN offered = {r.attack : r \in Range(rows)}
  BY <1>7 DEF Range
<1> QED BY <1>8, <1>9 DEF rows, offered

\* The rows of a class that can be declared are those of its tree that are usable.
LEMMA DeclarableRows ==
    ASSUME NEW class
    PROVE  LET rows == Range(ClassSkills(class)) IN
           /\ Range(ClassBuffs(class)) = {r \in rows : r.buff # Null /\ ~r.unusable}
           /\ Range(ClassAttackSkills(class)) = {r \in rows : r.attack # Null /\ ~r.unusable}
<1> DEFINE tree == ClassSkills(class)
<1> HIDE DEF tree
<1>1. Range(RestrictValues(tree, LAMBDA s : s.buff # Null /\ ~s.unusable))
        = {r \in Range(tree) : r.buff # Null /\ ~r.unusable}
  BY DEF RestrictValues, Restrict, Range
<1>2. Range(RestrictValues(tree, LAMBDA s : s.attack # Null /\ ~s.unusable))
        = {r \in Range(tree) : r.attack # Null /\ ~r.unusable}
  BY DEF RestrictValues, Restrict, Range
<1> QED BY <1>1, <1>2 DEF ClassBuffs, ClassAttackSkills, tree

\* Rows of a class that share a skill, a buff or an attack are the same skill.
LEMMA RowsApart ==
    ASSUME NEW class, ClassWithAliases(class) \in DOMAIN classes,
           NEW a \in Range(ClassSkills(class)), NEW b \in Range(ClassSkills(class))
    PROVE  /\ a.aegis = b.aegis => a.id = b.id /\ a.buff = b.buff /\ a.attack = b.attack
           /\ a.buff # Null /\ b.buff # Null /\ a.buff.name = b.buff.name => a.aegis = b.aegis
           /\ a.attack # Null /\ a.attack = b.attack => a.aegis = b.aegis
           /\ a.attack # Null => a.attack # ""
           /\ a.aegis # "(innate)"
<1> DEFINE tree == classes[ClassWithAliases(class)].skills
           named == skillsByName
<1>1. \A k \in DOMAIN tree : tree[k].aegis # "(innate)"
  BY CatalogFacts DEF Range
<1>2. ASSUME NEW r \in Range(ClassSkills(class))
      PROVE  /\ r.aegis # "(innate)"
             /\ r.aegis \in DOMAIN named =>
                  /\ r.id = named[r.aegis].id /\ r.buff = named[r.aegis].buff
                  /\ r.attack = named[r.aegis].attack
             /\ r.aegis \notin DOMAIN named => r.id = 0 /\ r.buff = Null /\ r.attack = Null
  <2>1. PICK k \in DOMAIN tree : r = ClassSkill(tree[k], named)
    BY DEF ClassSkills, Range
  <2> HIDE DEF named, tree
  <2>2. CASE tree[k].aegis \in DOMAIN named
    BY <1>1, <2>1, <2>2 DEF ClassSkill
  <2>3. CASE tree[k].aegis \notin DOMAIN named
    BY <1>1, <2>1, <2>3 DEF ClassSkill
  <2> QED BY <2>2, <2>3
<1>3. \A x, y \in DOMAIN named :
        /\ named[x].buff # Null /\ named[y].buff # Null /\ named[x].buff.name = named[y].buff.name => x = y
        /\ named[x].attack # Null => named[x].attack # ""
        /\ named[x].attack # Null /\ named[x].attack = named[y].attack => x = y
  BY CatalogFacts
<1> HIDE DEF named, tree
<1> QED BY <1>2, <1>3

\* A class that is known has a key in the catalog.
LEMMA KnownClasses ==
    ASSUME NEW class
    PROVE  /\ Known(class) => ClassWithAliases(class) \in DOMAIN classes
           /\ ClassWithAliases(class) # Null => Known(class)
<1>1. ClassWithAliases(class) # Null => ClassWithAliases(class) \in DOMAIN classes
  BY DEF ClassWithAliases
<1>2. class.key = "" => ClassWithAliases(class) = Null
  <2> SUFFICES ASSUME class.key = "" PROVE ClassWithAliases(class) = Null
    OBVIOUS
  <2>1. NormalizeClassKey(class) = "" /\ "" \notin DOMAIN classes
    BY CatalogFacts DEF NormalizeClassKey
  <2>2. Unaliased("") = ""
    BY DEF Unaliased, classAliases
  <2> QED BY <2>1, <2>2 DEF ClassWithAliases
<1> QED BY <1>1, <1>2 DEF Known

-----------------------------------------------------------------------------
(* The profile of a request.                                               *)

\* A profile that was loaded has been validated.
Loaded(p) == Profile(p) /\ ValidProfile(p)

LEMMA ResolvedIsLoaded ==
    ASSUME NEW server, ResolveProfile(server) # Null
    PROVE  server \in DOMAIN profiles /\ Loaded(profiles[server]) /\ ResolveProfile(server) = profiles[server]
<1>1. server \in DOMAIN profiles /\ ResolveProfile(server) = profiles[server]
  BY DEF ResolveProfile
<1> DEFINE loaded == {LoadServerProfile(base) : base \in DOMAIN ServerFile}
<1>2. Null \notin loaded /\ profiles = [key \in {p.key : p \in loaded} |-> CHOOSE p \in loaded : p.key = key]
  BY ToolCallsAssumption DEF profiles, AllServerProfiles
<1> HIDE DEF loaded
<1>3. profiles[server] \in loaded
  BY <1>1, <1>2
<1>4. PICK base \in DOMAIN ServerFile : profiles[server] = LoadServerProfile(base)
  BY <1>3 DEF loaded
<1> DEFINE p == ServerFile[base]
           keyed == IF p = Null \/ p.key # "" THEN p ELSE [p EXCEPT !.key = base]
<1>5. profiles[server] = keyed /\ keyed # Null /\ ValidProfile(keyed)
  BY <1>2, <1>3, <1>4 DEF LoadServerProfile
<1>6. p # Null /\ Profile(p)
  BY <1>5, ServerFileAssumption
<1>7. Profile(keyed)
  <2>1. CASE p.key # ""
    BY <1>6, <2>1
  <2>2. CASE p.key = ""
    <3>1. keyed = [p EXCEPT !.key = base]
      BY <1>6, <2>2
    <3> HIDE DEF keyed, p
    <3>2. /\ DOMAIN keyed = DOMAIN p
          /\ keyed.caps = p.caps /\ keyed.rates = p.rates /\ keyed.classChanges = p.classChanges
          /\ keyed.itemChanges = p.itemChanges /\ keyed.gearGrants = p.gearGrants
          /\ keyed.rulesets = p.rulesets /\ keyed.leveling = p.leveling /\ keyed.mobs = p.mobs
      BY <1>6, <3>1 DEF Profile
    <3> QED BY <1>6, <3>2 DEF Profile
  <2> QED BY <2>1, <2>2
<1> QED BY <1>1, <1>5, <1>7 DEF Loaded


\* The first word of a fact, but for those of RenderForPrompt about classes and mobs.
OtherTag ==
  {"name", "episode", "mode", "cap", "rate", "item", "grant", "pvpArena", "woe", "preTransWoe",
   "leveling", "quest", "note"}

\* What a fact is about is its first word.
LEMMA Tags ==
    ASSUME NEW a, NEW b, NEW c, NEW d
    PROVE  /\ <<a>>[1] = a
           /\ <<a, b>>[1] = a /\ <<a, b>>[2] = b
           /\ <<a, b, c>>[1] = a /\ <<a, b, c>>[2] = b /\ <<a, b, c>>[3] = c
           /\ <<a, b, c, d>>[1] = a
  OBVIOUS

\* The first words of the facts of a profile.
LEMMA SaidTags ==
    ASSUME NEW of, NEW numbers, NEW f \in Said(of, numbers)
    PROVE  f[1] = of
  BY DEF Said

LEMMA RateTags == ASSUME NEW rates, NEW f \in RateFacts(rates) PROVE f[1] = "rate"
  BY SaidTags DEF RateFacts

LEMMA RulesetTags ==
    ASSUME NEW label, NEW r, NEW f \in RulesetFacts(label, r)
    PROVE  f[1] = label
  BY SaidTags DEF RulesetFacts

LEMMA ItemTags ==
    ASSUME NEW p, NEW f \in ItemChangeFacts(p)
    PROVE  f[1] = "item"
<1>1. PICK c \in ToSet(p.itemChanges) :
        f \in {<<"item", c.id, c.name>>} \union {<<"item", c.id, c.name, n>> : n \in c.notes}
  BY DEF ItemChangeFacts
<1> QED BY <1>1

LEMMA GrantTags ==
    ASSUME NEW p, NEW class, NEW f \in GearGrantFacts(p, class)
    PROVE  f[1] = "grant"
<1>1. PICK g \in ToSet(p.gearGrants) : f \in {<<"grant", g.classes, item>> : item \in g.items}
  BY DEF GearGrantFacts
<1> QED BY <1>1

LEMMA ChangeTags ==
    ASSUME NEW p, NEW class, NEW f \in ClassChangeFacts(p, class)
    PROVE  f[1] \in {"class", "max level"}
<1>1. PICK c \in ToSet(p.classChanges) :
        f \in {<<"class", c.class, "rule", r>> : r \in c.rules}
                \union Said("max level", [base |-> c.base, job |-> c.job])
  BY DEF ClassChangeFacts
<1>2. CASE \E r \in c.rules : f = <<"class", c.class, "rule", r>>
  BY <1>2, Tags
<1>3. CASE f \in Said("max level", [base |-> c.base, job |-> c.job])
  BY <1>3, SaidTags
<1> QED BY <1>1, <1>2, <1>3

LEMMA RenderTags ==
    ASSUME NEW p, Loaded(p), NEW class, NEW f \in RenderForPrompt(p, class)
    PROVE  f \in CustomMobFacts(p) \/ f \in ClassChangeFacts(p, class) \/ f[1] \in OtherTag
<1> DEFINE name == IF p.name = "" THEN p.key ELSE p.name
           episode == p.episode
           mode == p.mode
<1>1. f = <<"name", name>> => f[1] = "name"
  <2> HIDE DEF name
  <2> QED BY Tags
<1>2. f = <<"episode", episode>> \/ f = <<"mode", mode>> => f[1] \in {"episode", "mode"}
  <2> HIDE DEF episode, mode
  <2>1. f = <<"episode", episode>> => f[1] = "episode"
    BY Tags
  <2>2. f = <<"mode", mode>> => f[1] = "mode"
    BY Tags
  <2> QED BY <2>1, <2>2
<1>3. f \in Said("cap", p.caps) => f[1] = "cap"
  BY SaidTags
<1>4. f \in UNION {RulesetFacts(label, p.rulesets[label]) : label \in DOMAIN p.rulesets}
        => f[1] \in {"pvpArena", "woe", "preTransWoe"}
  BY RulesetTags DEF Loaded, Profile
<1>5. f \in LevelingFacts(p.leveling) => f[1] \in {"leveling", "quest"}
  BY DEF LevelingFacts
<1>6. f \in {<<"note", n>> : n \in p.notes} => f[1] = "note"
  OBVIOUS
<1>7. f \in RateFacts(p.rates) \/ f \in ItemChangeFacts(p) \/ f \in GearGrantFacts(p, class)
        => f[1] \in {"rate", "item", "grant"}
  BY RateTags, ItemTags, GrantTags
<1>8. \/ f = <<"name", name>> \/ f = <<"episode", episode>> \/ f = <<"mode", mode>>
      \/ f \in Said("cap", p.caps) \/ f \in RateFacts(p.rates)
      \/ f \in ClassChangeFacts(p, class) \/ f \in ItemChangeFacts(p) \/ f \in GearGrantFacts(p, class)
      \/ f \in UNION {RulesetFacts(label, p.rulesets[label]) : label \in DOMAIN p.rulesets}
      \/ f \in LevelingFacts(p.leveling) \/ f \in CustomMobFacts(p)
      \/ f \in {<<"note", n>> : n \in p.notes}
  <2> DEFINE caps == Said("cap", p.caps)
             rates == RateFacts(p.rates)
             changes == ClassChangeFacts(p, class)
             items_ == ItemChangeFacts(p)
             grants == GearGrantFacts(p, class)
             sets == UNION {RulesetFacts(label, p.rulesets[label]) : label \in DOMAIN p.rulesets}
             leveling == LevelingFacts(p.leveling)
             custom == CustomMobFacts(p)
             notes == {<<"note", n>> : n \in p.notes}
             titles == {g \in {<<"episode", episode>>, <<"mode", mode>>} : g[2] # ""}
  <2>1. RenderForPrompt(p, class) =
          {<<"name", name>>} \union titles \union caps \union rates \union changes \union items_
            \union grants \union sets \union leveling \union custom \union notes
    BY Zenon DEF RenderForPrompt
  <2> HIDE DEF name, episode, mode
  <2>2. f \in titles => f = <<"episode", episode>> \/ f = <<"mode", mode>>
    OBVIOUS
  <2> HIDE DEF caps, rates, changes, items_, grants, sets, leveling, custom, notes, titles
  <2>3. \/ f = <<"name", name>> \/ f \in titles \/ f \in caps \/ f \in rates \/ f \in changes
        \/ f \in items_ \/ f \in grants \/ f \in sets \/ f \in leveling \/ f \in custom
        \/ f \in notes
    BY <2>1
  <2> QED BY <2>2, <2>3 DEF caps, rates, changes, items_, grants, sets, leveling, custom, notes
<1> HIDE DEF name, episode, mode
<1>9. f[1] \in {"name", "episode", "mode", "cap", "rate", "item", "grant", "pvpArena", "woe", "preTransWoe",
               "leveling", "quest", "note"}
        \/ f \in CustomMobFacts(p) \/ f \in ClassChangeFacts(p, class)
  BY <1>1, <1>2, <1>3, <1>4, <1>5, <1>6, <1>7, <1>8
<1> QED BY <1>9 DEF OtherTag

\* The prompt by the first words of its facts.
LEMMA PromptTags ==
    ASSUME NEW r, NEW f \in UserPrompt(r)
    PROVE  LET p == ResolveProfile(r.server) IN
           \/ f \in SkillFacts(r.class) /\ f[1] = "skill"
           \/ f \in BuffFacts(r.class) /\ f[1] = "buff"
           \/ p # Null /\ f \in CustomMobFacts(p) /\ f[1] = "mob"
           \/ p # Null /\ f \in ClassChangeFacts(p, r.class) /\ f[1] \in {"class", "max level"}
           \/ f \in LevelFacts(MaxLevelsForPrompt(p, r.class), SkillPointBudget(r.class))
                /\ f[1] \in {"max levels", "budget"}
           \/ f[1] \in OtherTag
           \/ f[1] \in {"class", "server", "playstyle", "description", "ranker option", "kick stances"}
<1> DEFINE p == ResolveProfile(r.server)
           max == MaxLevelsForPrompt(p, r.class)
           budget == SkillPointBudget(r.class)
<1>1. f \in RequestFacts(r) => f[1] \in {"class", "mode", "server", "playstyle", "description"}
  <2> DEFINE class == IF r.class.key = "" THEN Key("novice") ELSE r.class
             mode == IF r.mode = "" THEN "pre-renewal" ELSE r.mode
             server == r.server
             playstyle == r.playstyle
             description == r.description
  <2>1. f \in RequestFacts(r) =>
          \/ f = <<"class", class>> \/ f = <<"mode", mode>> \/ f = <<"server", server>>
          \/ f = <<"playstyle", playstyle>> \/ f = <<"description", description>>
    BY DEF RequestFacts
  <2> HIDE DEF class, mode, server, playstyle, description
  <2>2. /\ f = <<"class", class>> => f[1] = "class"
        /\ f = <<"mode", mode>> => f[1] = "mode"
        /\ f = <<"server", server>> => f[1] = "server"
        /\ f = <<"playstyle", playstyle>> => f[1] = "playstyle"
        /\ f = <<"description", description>> => f[1] = "description"
    BY Tags
  <2> QED BY <2>1, <2>2
<1>2. f \in TaekwonFacts(r.class) => f[1] \in {"ranker option", "kick stances"}
  <2>1. f \in TaekwonFacts(r.class) => f = <<"ranker option">> \/ f = <<"kick stances">>
    BY DEF TaekwonFacts
  <2> QED BY <2>1, Tags
<1>3. f \in LevelFacts(max, budget) => f[1] \in {"max levels", "budget"}
  <2> HIDE DEF max, budget
  <2> DEFINE base == max.base
             job == max.job
  <2>1. f \in LevelFacts(max, budget) => f = <<"max levels", base, job>> \/ f = <<"budget", budget>>
    BY DEF LevelFacts
  <2> HIDE DEF base, job
  <2>2. f = <<"max levels", base, job>> => f[1] = "max levels"
    <3>1. <<"max levels", base, job>>[1] = "max levels"
      BY ONLY Tags
    <3> QED BY ONLY <3>1
  <2>3. f = <<"budget", budget>> => f[1] = "budget"
    BY Tags
  <2> QED BY <2>1, <2>2, <2>3
<1>4. f \in SkillFacts(r.class) => f[1] = "skill"
  BY DEF SkillFacts
<1>5. f \in BuffFacts(r.class) => f[1] = "buff"
  BY DEF BuffFacts
<1>6. ASSUME p # Null, f \in RenderForPrompt(p, r.class)
      PROVE  f \in CustomMobFacts(p) \/ f \in ClassChangeFacts(p, r.class) \/ f[1] \in OtherTag
  BY <1>6, ResolvedIsLoaded, RenderTags
<1>7. f \in CustomMobFacts(p) => f[1] = "mob"
  BY DEF CustomMobFacts
<1>8. f \in ClassChangeFacts(p, r.class) => f[1] \in {"class", "max level"}
  BY ChangeTags
<1>9. \/ f \in RequestFacts(r) \/ f \in TaekwonFacts(r.class) \/ f \in LevelFacts(max, budget)
      \/ f \in SkillFacts(r.class) \/ f \in BuffFacts(r.class)
      \/ p # Null /\ f \in RenderForPrompt(p, r.class)
  BY DEF UserPrompt
<1> HIDE DEF p, max, budget
<1>10. f \in RequestFacts(r) => f[1] \in OtherTag \/ f[1] \in {"class", "server", "playstyle", "description", "ranker option", "kick stances"}
  BY <1>1 DEF OtherTag
<1> QED BY <1>2, <1>3, <1>4, <1>5, <1>6, <1>7, <1>8, <1>9, <1>10 DEF p, max, budget

-----------------------------------------------------------------------------
(* What the prompt says of skills, buffs and mobs.                         *)

\* A fact tells of this skill, of this buff, of this mob.
SkillSays(f, x) == f[1] = "skill" /\ f[2] = x.id /\ f[3] = x.aegis /\ f[6] = Scoreable(x)

BuffSays(f, y) ==
  /\ f[1] = "buff" /\ f[2] = y.buff.name /\ f[3] = y.aegis
  /\ f[4] = y.buff.kind /\ f[5] = y.buff.elements

MobSays(f, mob) ==
  f[1] = "mob" /\ f[2] = mob.id /\ f[3] = mob.lv /\ f[4] = mob.hp /\ f[5] = mob.traits

\* The words of the longer facts.
LEMMA LongTags ==
    ASSUME NEW a, NEW b, NEW c, NEW d, NEW e, NEW g
    PROVE  /\ <<a, b, c, d, e>>[1] = a /\ <<a, b, c, d, e>>[2] = b /\ <<a, b, c, d, e>>[3] = c
           /\ <<a, b, c, d, e>>[4] = d /\ <<a, b, c, d, e>>[5] = e
           /\ <<a, b, c, d, e, g>>[1] = a /\ <<a, b, c, d, e, g>>[2] = b
           /\ <<a, b, c, d, e, g>>[3] = c /\ <<a, b, c, d, e, g>>[6] = g
  OBVIOUS

\* Each fact tells what its row has.
LEMMA SkillFactSays ==
    ASSUME NEW x
    PROVE  SkillSays(<<"skill", x.id, x.aegis, x.max, x.unusable, Scoreable(x)>>, x)
<1> DEFINE id == x.id
           aegis == x.aegis
           max == x.max
           unusable == x.unusable
           name == Scoreable(x)
           f == <<"skill", id, aegis, max, unusable, name>>
<1> HIDE DEF id, aegis, max, unusable, name
<1>1. f[1] = "skill" /\ f[2] = id /\ f[3] = aegis /\ f[6] = name
  BY LongTags
<1> HIDE DEF f
<1>2. f[2] = x.id /\ f[3] = x.aegis /\ f[6] = Scoreable(x)
  BY <1>1 DEF id, aegis, name
<1>3. SkillSays(f, x)
  BY <1>1, <1>2 DEF SkillSays
<1>4. f = <<"skill", x.id, x.aegis, x.max, x.unusable, Scoreable(x)>>
  BY Zenon DEF f, id, aegis, max, unusable, name
<1> QED BY <1>3, <1>4

LEMMA BuffFactSays ==
    ASSUME NEW y
    PROVE  BuffSays(<<"buff", y.buff.name, y.aegis, y.buff.kind, y.buff.elements>>, y)
<1> DEFINE name == y.buff.name
           aegis == y.aegis
           kind == y.buff.kind
           elements == y.buff.elements
           f == <<"buff", name, aegis, kind, elements>>
<1> HIDE DEF name, aegis, kind, elements
<1>1. f[1] = "buff" /\ f[2] = name /\ f[3] = aegis /\ f[4] = kind /\ f[5] = elements
  BY LongTags
<1> HIDE DEF f
<1>2. f[2] = y.buff.name /\ f[3] = y.aegis /\ f[4] = y.buff.kind /\ f[5] = y.buff.elements
  BY <1>1 DEF name, aegis, kind, elements
<1>3. BuffSays(f, y)
  BY <1>1, <1>2 DEF BuffSays
<1>4. f = <<"buff", y.buff.name, y.aegis, y.buff.kind, y.buff.elements>>
  BY Zenon DEF f, name, aegis, kind, elements
<1> QED BY <1>3, <1>4

LEMMA MobFactSays ==
    ASSUME NEW mob
    PROVE  MobSays(<<"mob", mob.id, mob.lv, mob.hp, mob.traits>>, mob)
<1> DEFINE id == mob.id
           lv == mob.lv
           hp == mob.hp
           traits == mob.traits
           f == <<"mob", id, lv, hp, traits>>
<1> HIDE DEF id, lv, hp, traits
<1>1. f[1] = "mob" /\ f[2] = id /\ f[3] = lv /\ f[4] = hp /\ f[5] = traits
  BY LongTags
<1> HIDE DEF f
<1>2. f[2] = mob.id /\ f[3] = mob.lv /\ f[4] = mob.hp /\ f[5] = mob.traits
  BY <1>1 DEF id, lv, hp, traits
<1>3. MobSays(f, mob)
  BY <1>1, <1>2 DEF MobSays
<1>4. f = <<"mob", mob.id, mob.lv, mob.hp, mob.traits>>
  BY Zenon DEF f, id, lv, hp, traits
<1> QED BY <1>3, <1>4

\* The tools' tables and the prompt's: what is told is what there is.
LEMMA SkillsTold ==
    ASSUME NEW r
    PROVE  LET rows == Range(SkillsForPrompt(r.class)) IN
           /\ \A f \in UserPrompt(r) : f[1] = "skill" => \E x \in rows : SkillSays(f, x)
           /\ \A x \in rows : \E f \in UserPrompt(r) : SkillSays(f, x)
<1> DEFINE rows == Range(SkillsForPrompt(r.class))
<1>1. ASSUME NEW f \in UserPrompt(r), f[1] = "skill" PROVE f \in SkillFacts(r.class)
  <2>1. f[1] \notin OtherTag
    BY ONLY <1>1 DEF OtherTag
  <2> QED BY <1>1, <2>1, PromptTags
<1>2. SkillFacts(r.class) \subseteq UserPrompt(r)
  <2> DEFINE skills_ == SkillFacts(r.class)
  <2> HIDE DEF skills_
  <2> QED BY Zenon DEF UserPrompt, skills_
<1>3. ASSUME NEW f \in SkillFacts(r.class) PROVE \E x \in rows : SkillSays(f, x)
  <2>1. PICK x \in rows : f = <<"skill", x.id, x.aegis, x.max, x.unusable, Scoreable(x)>>
    BY Zenon DEF SkillFacts
  <2> QED BY <2>1, SkillFactSays
<1>4. ASSUME NEW x \in rows PROVE \E f \in SkillFacts(r.class) : SkillSays(f, x)
  <2>1. <<"skill", x.id, x.aegis, x.max, x.unusable, Scoreable(x)>> \in SkillFacts(r.class)
    BY Zenon DEF SkillFacts
  <2> QED BY <2>1, SkillFactSays
<1> HIDE DEF rows
<1>5. (\A f \in UserPrompt(r) : f[1] = "skill" => \E x \in rows : SkillSays(f, x))
  BY <1>1, <1>3
<1>6. \A x \in rows : \E f \in UserPrompt(r) : SkillSays(f, x)
  BY <1>2, <1>4
<1> QED BY <1>5, <1>6 DEF rows

\* The same for buffs.
LEMMA BuffsTold ==
    ASSUME NEW r
    PROVE  LET rows == BuffsForPrompt(r.class) IN
           /\ \A f \in UserPrompt(r) : f[1] = "buff" => \E y \in rows : BuffSays(f, y)
           /\ \A y \in rows : \E f \in UserPrompt(r) : BuffSays(f, y)
<1> DEFINE rows == BuffsForPrompt(r.class)
<1>1. ASSUME NEW f \in UserPrompt(r), f[1] = "buff" PROVE f \in BuffFacts(r.class)
  <2>1. f[1] \notin OtherTag
    BY ONLY <1>1 DEF OtherTag
  <2> QED BY <1>1, <2>1, PromptTags
<1>2. BuffFacts(r.class) \subseteq UserPrompt(r)
  <2> DEFINE buffs == BuffFacts(r.class)
  <2> HIDE DEF buffs
  <2> QED BY Zenon DEF UserPrompt, buffs
<1>3. ASSUME NEW f \in BuffFacts(r.class) PROVE \E y \in rows : BuffSays(f, y)
  <2>1. PICK y \in rows : f = <<"buff", y.buff.name, y.aegis, y.buff.kind, y.buff.elements>>
    BY Zenon DEF BuffFacts
  <2> QED BY <2>1, BuffFactSays
<1>4. ASSUME NEW y \in rows PROVE \E f \in BuffFacts(r.class) : BuffSays(f, y)
  <2>1. <<"buff", y.buff.name, y.aegis, y.buff.kind, y.buff.elements>> \in BuffFacts(r.class)
    BY Zenon DEF BuffFacts
  <2> QED BY <2>1, BuffFactSays
<1> HIDE DEF rows
<1>5. (\A f \in UserPrompt(r) : f[1] = "buff" => \E y \in rows : BuffSays(f, y))
  BY <1>1, <1>3
<1>6. \A y \in rows : \E f \in UserPrompt(r) : BuffSays(f, y)
  BY <1>2, <1>4
<1> QED BY <1>5, <1>6 DEF rows

\* The same for mobs.
LEMMA MobsTold ==
    ASSUME NEW r, NEW f \in UserPrompt(r), f[1] = "mob"
    PROVE  LET p == ResolveProfile(r.server) IN
           p # Null /\ \E mob \in ToSet(p.mobs) : MobSays(f, mob)
<1> DEFINE p == ResolveProfile(r.server)
<1>1. f[1] \notin OtherTag
  BY DEF OtherTag
<1>2. p # Null /\ f \in CustomMobFacts(p)
  BY <1>1, PromptTags
<1> HIDE DEF p
<1>3. PICK mob \in ToSet(p.mobs) : f = <<"mob", mob.id, mob.lv, mob.hp, mob.traits>>
  BY <1>2, Zenon DEF CustomMobFacts
<1>4. MobSays(f, mob)
  BY <1>3, MobFactSays
<1> QED BY <1>2, <1>4 DEF p

-----------------------------------------------------------------------------
(* What a setup may declare after a prompt.                                *)

\* The skills a setup allocates, among those that were told.
Anchors(s, facts) == {f \in facts : f[1] = "skill" /\ AllocatedLevel(s.skills, f[2]) >= 1}

\* A fact offers the buff to the setup: it is innate, or its anchor is allocated high enough.
OffersTo(s, facts, f, b) ==
  \/ f[3] = "(innate)" /\ b.element = ""
  \/ \E a \in Anchors(s, facts) :
       a[3] = f[3] /\ ElementTold(f, b.element, AllocatedLevel(s.skills, a[2]))

\* A declared buff, a declared attack, was offered.
BuffAsTold(s, facts, b) == \E f \in facts : f[1] = "buff" /\ f[2] = b.name /\ OffersTo(s, facts, f, b)

AttackAsTold(s, facts, d) == d.name # "" /\ \E a \in Anchors(s, facts) : a[6] = d.name

\* Each attack once, and one of them primary.
OneEach(s) ==
  s.scored # <<>> => /\ Cardinality({d.name : d \in ToSet(s.scored)}) = Len(s.scored)
                     /\ Cardinality({d \in ToSet(s.scored) : d.primary}) = 1

\* AsTold, by these parts.
LEMMA AsToldIs ==
    ASSUME NEW s, NEW facts
    PROVE  AsTold(s, facts) <=>
             /\ \A b \in ToSet(s.buffs) : BuffAsTold(s, facts, b)
             /\ \A d \in ToSet(s.scored) : AttackAsTold(s, facts, d)
             /\ OneEach(s)
BY Zenon DEF AsTold, BuffAsTold, AttackAsTold, OneEach, OffersTo, Anchors

\* The buffs that are offered are those of the class itself, however it is spelled.
LEMMA OfferedByKey ==
    ASSUME NEW class, ClassWithAliases(class) \in DOMAIN classes
    PROVE  OfferedBuffs(Key(ClassWithAliases(class))) = OfferedBuffs(class)
<1> DEFINE key == ClassWithAliases(class)
<1>1. NormalizeClassKey(Key(key)) = key
  BY DEF NormalizeClassKey, Key
<1>2. ClassWithAliases(Key(key)) = key
  <2> HIDE DEF key
  <2>1. key \in DOMAIN classes
    BY DEF key
  <2> QED BY <1>1, <2>1 DEF ClassWithAliases
<1>3. ClassSkills(Key(key)) = ClassSkills(class)
  BY <1>2, Zenon DEF ClassSkills
<1>4. ClassBuffs(Key(key)) = ClassBuffs(class)
  BY <1>3, Zenon DEF ClassBuffs
<1> QED BY <1>4, Zenon DEF OfferedBuffs, LastBy

\* The rows behind the facts of a prompt.
LEMMA BuffRows ==
    ASSUME NEW class, Known(class), NEW y
    PROVE  y \in BuffsForPrompt(class) <=>
             \/ y \in Range(ClassBuffs(class))
             \/ \E b \in ToSet(ClassInnateBuffs(class)) : y = [aegis |-> "(innate)", id |-> 0, buff |-> b]
BY DEF BuffsForPrompt

\* No innate buff has the name of a buff of a skill.
LEMMA InnateNames ==
    ASSUME InnateApart, NEW class, Known(class), NEW b \in ToSet(ClassInnateBuffs(class))
    PROVE  b.name \notin DOMAIN OfferedBuffs(class)
<1> DEFINE key == ClassWithAliases(class)
<1>1. key \in DOMAIN classes
  BY KnownClasses
<1>2. key \in DOMAIN Data.innate /\ ToSet(ClassInnateBuffs(class)) = ToSet(Data.innate[key])
  <2>1. CASE key \notin DOMAIN Data.innate
    <3>1. ClassInnateBuffs(class) = <<>>
      BY <2>1 DEF ClassInnateBuffs
    <3> QED BY <3>1 DEF ToSet
  <2>2. CASE key \in DOMAIN Data.innate
    BY <2>2 DEF ClassInnateBuffs
  <2> QED BY <2>1, <2>2
<1>3. OfferedBuffs(Key(key)) = OfferedBuffs(class)
  BY <1>1, OfferedByKey
<1>4. {i.name : i \in ToSet(Data.innate[key])} \intersect DOMAIN OfferedBuffs(Key(key)) = {}
  BY <1>1, <1>2 DEF InnateApart
<1> HIDE DEF key
<1> QED BY <1>2, <1>3, <1>4

\* The prompt lists the rows of the class.
LEMMA SkillRows ==
    ASSUME NEW class, Known(class)
    PROVE  Range(SkillsForPrompt(class)) = Range(ClassSkills(class))
BY DEF SkillsForPrompt

\* A skill's row that is allocated is an anchor of the prompt.
LEMMA AnchorRows ==
    ASSUME NEW r, NEW s, Known(r.class), NEW x \in Range(ClassSkills(r.class)),
           AllocatedLevel(s.skills, x.id) >= 1
    PROVE  \E a \in Anchors(s, UserPrompt(r)) : SkillSays(a, x)
<1>1. PICK a \in UserPrompt(r) : SkillSays(a, x)
  BY SkillRows, SkillsTold
<1>2. a[1] = "skill" /\ a[2] = x.id
  BY <1>1 DEF SkillSays
<1>3. a \in Anchors(s, UserPrompt(r))
  BY <1>2 DEF Anchors
<1> QED BY <1>1, <1>3

\* An anchor that was told is a row of the class, allocated.
LEMMA RowsOfAnchors ==
    ASSUME NEW r, NEW s, Known(r.class), NEW a \in Anchors(s, UserPrompt(r))
    PROVE  \E x \in Range(ClassSkills(r.class)) :
             SkillSays(a, x) /\ AllocatedLevel(s.skills, x.id) >= 1 /\ a[2] = x.id
<1>1. a \in UserPrompt(r) /\ a[1] = "skill" /\ AllocatedLevel(s.skills, a[2]) >= 1
  BY DEF Anchors
<1>2. PICK x \in Range(ClassSkills(r.class)) : SkillSays(a, x)
  BY <1>1, SkillRows, SkillsTold
<1> QED BY <1>1, <1>2 DEF SkillSays

\* A buff that resolves is one that the prompt offers at this allocation.
LEMMA ResolvingBuffTold ==
    ASSUME InnateApart, NEW r, NEW s, s.class = r.class, Known(r.class), NEW b, BuffResolves(s, b)
    PROVE  BuffAsTold(s, UserPrompt(r), b)
<1> DEFINE facts == UserPrompt(r)
           offered == OfferedBuffs(r.class)
<1>1. ClassWithAliases(r.class) \in DOMAIN classes
  BY KnownClasses
<1>2. CASE b.name \in DOMAIN offered
  <2> DEFINE x == offered[b.name]
             level == AllocatedLevel(s.skills, x.id)
  <2>1. x \in Range(ClassBuffs(r.class)) /\ x.buff.name = b.name
    BY <1>1, <1>2, OfferedBuffsAre
  <2>2. level >= 1 /\ ElementFits(x.buff, b.element, level)
    BY <1>2 DEF BuffResolves
  <2> HIDE DEF offered, x
  <2>3. x \in Range(ClassSkills(r.class))
    BY <2>1, DeclarableRows
  <2>4. PICK a \in Anchors(s, facts) : SkillSays(a, x)
    BY <2>2, <2>3, AnchorRows
  <2>5. x \in BuffsForPrompt(r.class)
    BY <2>1, BuffRows
  <2>6. PICK f \in facts : BuffSays(f, x)
    BY <2>5, BuffsTold
  <2>7. ElementTold(f, b.element, AllocatedLevel(s.skills, a[2]))
    <3>1. a[2] = x.id /\ f[4] = x.buff.kind /\ f[5] = x.buff.elements
      BY <2>4, <2>6 DEF SkillSays, BuffSays
    <3> DEFINE element == b.element
               kind == x.buff.kind
               elements == x.buff.elements
    <3>2. /\ kind = "weapon_endow" => \E i \in DOMAIN elements : elements[i] = element /\ i <= level
          /\ kind # "weapon_endow" => element = ""
      BY <2>2 DEF ElementFits
    <3>3. AllocatedLevel(s.skills, a[2]) = level
      BY <3>1
    <3>4. f[4] = kind /\ f[5] = elements
      BY <3>1
    <3> HIDE DEF level, kind, elements, element
    <3>5. ElementTold(f, element, level)
      BY <3>2, <3>4 DEF ElementTold
    <3> QED BY <3>3, <3>5 DEF element
  <2>8. a[3] = f[3] /\ f[1] = "buff" /\ f[2] = b.name
    BY <2>1, <2>4, <2>6 DEF SkillSays, BuffSays
  <2>9. OffersTo(s, facts, f, b)
    BY <2>7, <2>8 DEF OffersTo
  <2> QED BY <2>6, <2>8, <2>9 DEF BuffAsTold
<1>3. CASE b.name \notin DOMAIN offered
  <2>1. b.name \in {i.name : i \in ToSet(ClassInnateBuffs(r.class))} /\ b.element = ""
    BY <1>3 DEF BuffResolves
  <2>2. PICK i \in ToSet(ClassInnateBuffs(r.class)) : b.name = i.name
    BY <2>1
  <2> DEFINE y == [aegis |-> "(innate)", id |-> 0, buff |-> i]
  <2>3. y \in BuffsForPrompt(r.class)
    BY BuffRows
  <2>4. PICK f \in facts : BuffSays(f, y)
    BY <2>3, BuffsTold
  <2>5. f[1] = "buff" /\ f[2] = i.name /\ f[3] = "(innate)"
    BY <2>4 DEF BuffSays
  <2>6. OffersTo(s, facts, f, b)
    BY <2>1, <2>5 DEF OffersTo
  <2> QED BY <2>2, <2>5, <2>6 DEF BuffAsTold
<1> QED BY <1>2, <1>3

\* And one that the prompt offers resolves.
LEMMA ToldBuffResolves ==
    ASSUME InnateApart, NEW r, NEW s, s.class = r.class, Known(r.class), NEW b,
           BuffAsTold(s, UserPrompt(r), b)
    PROVE  BuffResolves(s, b)
<1> DEFINE facts == UserPrompt(r)
           offered == OfferedBuffs(r.class)
<1>1. ClassWithAliases(r.class) \in DOMAIN classes
  BY KnownClasses
<1>2. PICK f \in facts : f[1] = "buff" /\ f[2] = b.name /\ OffersTo(s, facts, f, b)
  BY DEF BuffAsTold
<1>3. PICK y \in BuffsForPrompt(r.class) : BuffSays(f, y)
  BY <1>2, BuffsTold
<1>4. f[2] = y.buff.name /\ f[3] = y.aegis /\ f[4] = y.buff.kind /\ f[5] = y.buff.elements
  BY <1>3 DEF BuffSays
<1>5. CASE y \in Range(ClassBuffs(r.class))
  <2>1. y \in Range(ClassSkills(r.class)) /\ y.buff # Null
    BY <1>5, DeclarableRows
  <2>2. b.name \in DOMAIN offered
    <3>1. b.name = y.buff.name
      BY <1>2, <1>4
    <3>2. DOMAIN offered = {row.buff.name : row \in Range(ClassBuffs(r.class))}
      BY <1>1, OfferedBuffsAre
    <3> QED BY <1>5, <3>1, <3>2
  <2> DEFINE x == offered[b.name]
             level == AllocatedLevel(s.skills, x.id)
  <2>3. x \in Range(ClassBuffs(r.class)) /\ x.buff.name = b.name
    BY <1>1, <2>2, OfferedBuffsAre
  <2>4. x.id = y.id /\ x.buff = y.buff
    <3> HIDE DEF x
    <3>1. x \in Range(ClassSkills(r.class)) /\ x.buff # Null
      BY <2>3, DeclarableRows
    <3>2. x.aegis = y.aegis
      BY <1>1, <1>2, <1>4, <2>1, <2>3, <3>1, RowsApart
    <3> QED BY <1>1, <2>1, <3>1, <3>2, RowsApart
  <2>5. f[3] # "(innate)"
    BY <1>1, <1>4, <2>1, RowsApart
  <2>6. PICK a \in Anchors(s, facts) :
          a[3] = f[3] /\ ElementTold(f, b.element, AllocatedLevel(s.skills, a[2]))
    BY <1>2, <2>5 DEF OffersTo
  <2>7. PICK z \in Range(ClassSkills(r.class)) :
          SkillSays(a, z) /\ AllocatedLevel(s.skills, z.id) >= 1 /\ a[2] = z.id
    BY <2>6, RowsOfAnchors
  <2>8. z.id = y.id
    <3>1. z.aegis = y.aegis
      BY <1>4, <2>6, <2>7 DEF SkillSays
    <3> QED BY <1>1, <2>1, <2>7, <3>1, RowsApart
  <2>9. AllocatedLevel(s.skills, a[2]) = level /\ level >= 1
    BY <2>4, <2>7, <2>8
  <2>10. ElementFits(x.buff, b.element, level)
    <3> DEFINE element == b.element
               kind == x.buff.kind
               elements == x.buff.elements
    <3>1. f[4] = kind /\ f[5] = elements /\ ElementTold(f, element, level)
      BY <1>4, <2>4, <2>6, <2>9
    <3> HIDE DEF level, element
    <3> QED BY <3>1 DEF ElementTold, ElementFits, element
  <2> HIDE DEF level
  <2>11. b.name \in DOMAIN offered /\ level >= 1 /\ ElementFits(x.buff, b.element, level)
    BY <2>2, <2>9, <2>10
  <2> QED BY <2>11 DEF BuffResolves, level
<1>6. CASE \E i \in ToSet(ClassInnateBuffs(r.class)) : y = [aegis |-> "(innate)", id |-> 0, buff |-> i]
  <2>1. PICK i \in ToSet(ClassInnateBuffs(r.class)) : y = [aegis |-> "(innate)", id |-> 0, buff |-> i]
    BY <1>6
  <2>2. y.buff = i /\ y.aegis = "(innate)"
    BY <2>1
  <2>3. i.name = b.name /\ f[3] = "(innate)"
    BY <1>2, <1>4, <2>2
  <2>4. b.name \notin DOMAIN offered
    BY <2>3, InnateNames
  <2>5. b.element = ""
    <3>1. SUFFICES ASSUME NEW a \in Anchors(s, facts), a[3] = "(innate)" PROVE FALSE
      BY <1>2, <2>3 DEF OffersTo
    <3>2. PICK z \in Range(ClassSkills(r.class)) : SkillSays(a, z)
      BY RowsOfAnchors
    <3>3. z.aegis = "(innate)"
      BY <3>1, <3>2 DEF SkillSays
    <3> QED BY <1>1, <3>3, RowsApart
  <2>6. b.name \in {j.name : j \in ToSet(ClassInnateBuffs(r.class))}
    BY <2>3
  <2> QED BY <2>4, <2>5, <2>6 DEF BuffResolves
<1> QED BY <1>3, <1>5, <1>6, BuffRows

\* An attack skill can be scored when it is one of those of the prompt and allocated.
AttackResolves(s, d) ==
  LET offered == OfferedAttacks(s.class) IN
  d.name \in DOMAIN offered /\ AllocatedLevel(s.skills, offered[d.name].id) >= 1

\* What can be scored was offered.
LEMMA ResolvingAttackTold ==
    ASSUME NEW r, NEW s, s.class = r.class, Known(r.class), NEW d, AttackResolves(s, d)
    PROVE  AttackAsTold(s, UserPrompt(r), d)
<1> DEFINE facts == UserPrompt(r)
           offered == OfferedAttacks(r.class)
           x == offered[d.name]
<1>1. ClassWithAliases(r.class) \in DOMAIN classes
  BY KnownClasses
<1>2. d.name \in DOMAIN offered /\ AllocatedLevel(s.skills, x.id) >= 1
  BY DEF AttackResolves
<1>3. x \in Range(ClassAttackSkills(r.class)) /\ x.attack = d.name
  BY <1>1, <1>2, OfferedAttacksAre
<1> HIDE DEF x
<1>4. x \in Range(ClassSkills(r.class)) /\ x.attack # Null /\ ~x.unusable
  BY <1>3, DeclarableRows
<1>5. d.name # ""
  BY <1>1, <1>3, <1>4, RowsApart
<1>6. PICK a \in Anchors(s, facts) : SkillSays(a, x)
  BY <1>2, <1>4, AnchorRows
<1>7. a[6] = d.name
  BY <1>3, <1>4, <1>6 DEF SkillSays, Scoreable
<1> QED BY <1>5, <1>6, <1>7 DEF AttackAsTold

\* What was offered can be scored.
LEMMA ToldAttackResolves ==
    ASSUME NEW r, NEW s, s.class = r.class, Known(r.class), NEW d, AttackAsTold(s, UserPrompt(r), d)
    PROVE  AttackResolves(s, d)
<1> DEFINE facts == UserPrompt(r)
           offered == OfferedAttacks(r.class)
           x == offered[d.name]
<1>1. ClassWithAliases(r.class) \in DOMAIN classes
  BY KnownClasses
<1>2. PICK a \in Anchors(s, facts) : a[6] = d.name /\ d.name # ""
  BY DEF AttackAsTold
<1>3. PICK z \in Range(ClassSkills(r.class)) :
        SkillSays(a, z) /\ AllocatedLevel(s.skills, z.id) >= 1 /\ a[2] = z.id
  BY RowsOfAnchors
<1>4. z.attack = d.name /\ z.attack # Null /\ ~z.unusable
  BY <1>2, <1>3 DEF SkillSays, Scoreable
<1>5. z \in Range(ClassAttackSkills(r.class))
  BY <1>4, DeclarableRows
<1>6. d.name \in DOMAIN offered
  <2>1. DOMAIN offered = {row.attack : row \in Range(ClassAttackSkills(r.class))}
    BY <1>1, OfferedAttacksAre
  <2> QED BY <1>4, <1>5, <2>1
<1>7. x \in Range(ClassAttackSkills(r.class)) /\ x.attack = d.name
  BY <1>1, <1>6, OfferedAttacksAre
<1> HIDE DEF x
<1>8. x.id = z.id
  <2>1. x \in Range(ClassSkills(r.class)) /\ x.attack # Null
    BY <1>7, DeclarableRows
  <2>2. x.aegis = z.aegis
    BY <1>1, <1>4, <1>7, <2>1, RowsApart
  <2> QED BY <1>1, <2>1, <2>2, RowsApart
<1>9. AllocatedLevel(s.skills, x.id) >= 1
  BY <1>3, <1>8
<1> QED BY <1>6, <1>9 DEF AttackResolves, x

-----------------------------------------------------------------------------
(* Counting the attacks.                                                   *)

\* As many names as positions: each name once.
LEMMA NamesApart ==
    ASSUME NEW f, Sequence(f)
    PROVE  Cardinality({d.name : d \in ToSet(f)}) = Len(f)
             <=> IsInjective([k \in DOMAIN f |-> f[k].name])
<1> DEFINE n == Len(f)
           names == {d.name : d \in ToSet(f)}
           name == [k \in 1..n |-> f[k].name]
<1>1. n \in Nat /\ DOMAIN f = 1..n
  BY DEF Sequence
<1>2. IsFiniteSet(1..n) /\ Cardinality(1..n) = n
  <2> HIDE DEF n
  <2>1. 1 \in Int /\ n \in Int
    BY <1>1
  <2>2. IsFiniteSet(1..n) /\ Cardinality(1..n) = IF 1 > n THEN 0 ELSE n - 1 + 1
    BY ONLY <2>1, FS_Interval
  <2>3. (IF 1 > n THEN 0 ELSE n - 1 + 1) = n
    BY <1>1
  <2> QED BY <2>2, <2>3
<1>3. names = {name[k] : k \in 1..n}
  BY <1>1 DEF ToSet
<1>4. name \in Surjection(1..n, names)
  <2>1. name \in [1..n -> names]
    BY <1>3
  <2> QED BY <1>3, <2>1 DEF Surjection
<1>5. Cardinality(names) = n <=> name \in Injection(1..n, names)
  <2> HIDE DEF names, name
  <2> QED BY <1>2, <1>4, FS_Surjection
<1>6. name \in Injection(1..n, names) <=> \A j, k \in 1..n : name[j] = name[k] => j = k
  BY <1>3, <1>4 DEF Injection, Surjection, IsInjective
<1>7. IsInjective(name) <=> \A j, k \in 1..n : name[j] = name[k] => j = k
  BY DEF IsInjective
<1>8. name = [k \in DOMAIN f |-> f[k].name]
  BY <1>1
<1> QED BY <1>5, <1>6, <1>7, <1>8

\* One of a list is primary, by elements and by positions.
LEMMA PrimaryOnce ==
    ASSUME NEW f, Sequence(f), IsInjective([k \in DOMAIN f |-> f[k].name])
    PROVE  Cardinality({d \in ToSet(f) : d.primary}) = 1 <=> Cardinality({k \in DOMAIN f : f[k].primary}) = 1
<1> DEFINE n == Len(f)
           ones == {d \in ToSet(f) : d.primary}
           at == {k \in DOMAIN f : f[k].primary}
<1>1. n \in Nat /\ DOMAIN f = 1..n
  BY DEF Sequence
<1>2. IsFiniteSet(1..n)
  BY <1>1, FS_Interval
<1>3. IsFiniteSet(at)
  BY <1>1, <1>2, FS_Subset
<1>4. \A j, k \in DOMAIN f : f[j] = f[k] => j = k
  <2> DEFINE name == [k \in DOMAIN f |-> f[k].name]
  <2>1. \A j, k \in DOMAIN f : name[j] = name[k] => j = k
    BY DEF IsInjective
  <2> QED BY <2>1
<1>5. ones = {f[k] : k \in at}
  BY DEF ToSet
<1> DEFINE pick == [k \in at |-> f[k]]
<1>6. pick \in Bijection(at, ones)
  <2>1. pick \in [at -> ones]
    BY <1>5
  <2>2. \A j, k \in at : pick[j] = pick[k] => j = k
    BY <1>4
  <2>3. \A d \in ones : \E k \in at : pick[k] = d
    BY <1>5
  <2> HIDE DEF pick, at, ones
  <2> QED BY <2>1, <2>2, <2>3 DEF Bijection, Injection, Surjection, IsInjective
<1>7. Cardinality(ones) = Cardinality(at)
  <2> HIDE DEF pick, at, ones
  <2> QED BY <1>3, <1>6, FS_Bijection DEF ExistsBijection
<1> QED BY <1>7

\* Each attack once and one of them primary, told by elements or by positions.
LEMMA OneEachIs ==
    ASSUME NEW s, Setup(s)
    PROVE  OneEach(s) <=>
             s.scored = <<>> \/ (/\ IsInjective([k \in DOMAIN s.scored |-> s.scored[k].name])
                                 /\ Cardinality({k \in DOMAIN s.scored : s.scored[k].primary}) = 1)
<1> DEFINE f == s.scored
<1>1. Sequence(f)
  BY DEF Setup
<1> HIDE DEF f
<1>2. Cardinality({d.name : d \in ToSet(f)}) = Len(f) <=> IsInjective([k \in DOMAIN f |-> f[k].name])
  BY ONLY <1>1, NamesApart
<1>3. ASSUME IsInjective([k \in DOMAIN f |-> f[k].name])
      PROVE  Cardinality({d \in ToSet(f) : d.primary}) = 1
               <=> Cardinality({k \in DOMAIN f : f[k].primary}) = 1
  BY ONLY <1>1, <1>3, PrimaryOnce
<1>4. OneEach(s) <=> (f # <<>> => /\ Cardinality({d.name : d \in ToSet(f)}) = Len(f)
                                  /\ Cardinality({d \in ToSet(f) : d.primary}) = 1)
  BY Zenon DEF OneEach, f
<1>5. OneEach(s) <=> f = <<>> \/ (/\ IsInjective([k \in DOMAIN f |-> f[k].name])
                                  /\ Cardinality({k \in DOMAIN f : f[k].primary}) = 1)
  BY ONLY <1>2, <1>3, <1>4, Zenon
<1> QED BY <1>5, Zenon DEF f

\* resolveAttackSkills, by these parts.
LEMMA AttacksResolveIs ==
    ASSUME NEW s, Setup(s), ClassWithAliases(s.class) # Null
    PROVE  AttacksResolve(s) <=> OneEach(s) /\ \A d \in ToSet(s.scored) : AttackResolves(s, d)
<1>1. s.scored = <<>> => ToSet(s.scored) = {}
  BY DEF ToSet
<1>2. AttacksResolve(s) <=>
        \/ s.scored = <<>>
        \/ /\ IsInjective([k \in DOMAIN s.scored |-> s.scored[k].name])
           /\ \A d \in ToSet(s.scored) : AttackResolves(s, d)
           /\ Cardinality({k \in DOMAIN s.scored : s.scored[k].primary}) = 1
  BY Zenon DEF AttacksResolve, AttackResolves
<1>3. OneEach(s) <=>
             s.scored = <<>> \/ (/\ IsInjective([k \in DOMAIN s.scored |-> s.scored[k].name])
                                 /\ Cardinality({k \in DOMAIN s.scored : s.scored[k].primary}) = 1)
  BY OneEachIs
<1> QED BY <1>1, <1>2, <1>3, Zenon

\* A list is empty when it has nothing.
LEMMA EmptyLists ==
    ASSUME NEW f, Sequence(f)
    PROVE  ToSet(f) = {} <=> f = <<>>
<1>1. f = <<>> => ToSet(f) = {}
  BY DEF ToSet
<1>2. f # <<>> => f[1] \in ToSet(f)
  <2> SUFFICES ASSUME f # <<>> PROVE 1 \in DOMAIN f
    BY DEF ToSet
  <2>1. Len(f) \in Nat /\ DOMAIN f = 1..Len(f) /\ Len(f) # 0
    BY EmptySeq DEF Sequence
  <2> QED BY <2>1
<1> QED BY <1>1, <1>2

\* A setup of the class of the request resolves when it declares what was told.
LEMMA ToldIsResolved ==
    ASSUME InnateApart, NEW r, NEW s, Setup(s), s.class = r.class
    PROVE  AsTold(s, UserPrompt(r)) <=> Resolves(s)
<1> DEFINE facts == UserPrompt(r)
<1>1. CASE Known(r.class)
  <2>1. ClassWithAliases(s.class) # Null
    BY <1>1 DEF Known
  <2>2. \A b : BuffAsTold(s, facts, b) <=> BuffResolves(s, b)
    BY <1>1, ResolvingBuffTold, ToldBuffResolves
  <2>3. \A d : AttackAsTold(s, facts, d) <=> AttackResolves(s, d)
    BY <1>1, ResolvingAttackTold, ToldAttackResolves
  <2>4. BuffsResolve(s) <=> \A b \in ToSet(s.buffs) : BuffResolves(s, b)
    <3>1. s.buffs = <<>> => ToSet(s.buffs) = {}
      BY DEF ToSet
    <3> QED BY <2>1, <3>1, Zenon DEF BuffsResolve
  <2>5. AttacksResolve(s) <=> OneEach(s) /\ \A d \in ToSet(s.scored) : AttackResolves(s, d)
    BY <2>1, AttacksResolveIs
  <2> HIDE DEF facts
  <2>6. AsTold(s, facts) <=> Resolves(s)
    BY <2>2, <2>3, <2>4, <2>5, AsToldIs, Zenon DEF Resolves
  <2> QED BY <2>6 DEF facts
<1>2. CASE ~Known(r.class)
  <2>1. ClassWithAliases(s.class) = Null
    BY <1>2, KnownClasses
  <2>2. Sequence(s.buffs) /\ Sequence(s.scored)
    BY DEF Setup
  <2>3. Resolves(s) <=> s.buffs = <<>> /\ s.scored = <<>>
    BY <2>1, Zenon DEF Resolves, BuffsResolve, AttacksResolve
  <2>4. \A b : ~BuffAsTold(s, facts, b)
    <3>1. BuffsForPrompt(r.class) = {}
      BY <1>2 DEF BuffsForPrompt
    <3>2. \A f \in facts : f[1] # "buff"
      BY <3>1, BuffsTold
    <3> QED BY <3>2 DEF BuffAsTold
  <2>5. \A d : ~AttackAsTold(s, facts, d)
    <3>1. Range(SkillsForPrompt(r.class)) = {}
      BY <1>2 DEF SkillsForPrompt, Range
    <3>2. \A f \in facts : f[1] # "skill"
      BY <3>1, SkillsTold
    <3> QED BY <3>2 DEF AttackAsTold, Anchors
  <2> HIDE DEF facts
  <2>6. ToSet(s.buffs) = {} <=> s.buffs = <<>>
    BY <2>2, EmptyLists
  <2>7. ToSet(s.scored) = {} <=> s.scored = <<>>
    BY <2>2, EmptyLists
  <2>8. s.scored = <<>> => OneEach(s)
    BY DEF OneEach
  <2>9. AsTold(s, facts) <=> Resolves(s)
    BY <2>3, <2>4, <2>5, <2>6, <2>7, <2>8, AsToldIs
  <2> QED BY <2>9 DEF facts
<1> QED BY <1>1, <1>2

\* A mob of the server is fought as the prompt describes it.
LEMMA ToldMobIsFought ==
    ASSUME MobsApart, NEW r, NEW f \in UserPrompt(r), f[1] = "mob"
    PROVE  ResolveEnemy(ResolveProfile(r.server), f[2]).inline
             = [level |-> f[3], hp |-> f[4], traits |-> f[5]]
<1> DEFINE p == ResolveProfile(r.server)
           found == {k \in DOMAIN p.mobs : p.mobs[k].id = f[2]}
<1>1. PICK mob \in ToSet(p.mobs) : MobSays(f, mob)
  BY MobsTold
<1>2. p # Null /\ r.server \in DOMAIN profiles /\ p = profiles[r.server] /\ Loaded(p)
  BY MobsTold, ResolvedIsLoaded
<1> HIDE DEF p
<1>3. Sequence(p.mobs) /\ Null \notin ToSet(p.mobs) /\ \A k \in DOMAIN p.mobs : p.mobs[k].id > 0
  BY <1>2 DEF Loaded, Profile, ValidProfile
<1>4. DOMAIN p.mobs \subseteq Nat
  <2>1. Len(p.mobs) \in Nat /\ DOMAIN p.mobs = 1..Len(p.mobs)
    BY <1>3 DEF Sequence
  <2> QED BY <2>1
<1>5. PICK k \in DOMAIN p.mobs : mob = p.mobs[k]
  BY <1>1 DEF ToSet
<1>6. f[2] = mob.id /\ f[3] = mob.lv /\ f[4] = mob.hp /\ f[5] = mob.traits /\ f[2] # 0
  <2>1. mob.id # 0
    BY <1>3, <1>5
  <2> QED BY <1>1, <2>1 DEF MobSays
<1>7. found # {} /\ found \in SUBSET Nat
  BY <1>4, <1>5, <1>6
<1>8. Min(found) \in found
  BY <1>7, MinIs
<1>9. Min(found) = k
  <2>1. Min(found) \in DOMAIN p.mobs /\ p.mobs[Min(found)].id = p.mobs[k].id
    BY <1>5, <1>6, <1>8
  <2> HIDE DEF found
  <2> QED BY <1>2, <1>5, <2>1 DEF MobsApart
<1>10. CustomMob(p, f[2]) = mob /\ mob # Null
  BY <1>1, <1>3, <1>5, <1>7, <1>9 DEF CustomMob
<1>11. ResolveEnemy(p, f[2]) = [id |-> 0, inline |-> EnemyStats(mob)]
  BY <1>2, <1>6, <1>10 DEF ResolveEnemy
<1>12. EnemyStats(mob) = [level |-> f[3], hp |-> f[4], traits |-> f[5]]
  BY <1>6 DEF EnemyStats
<1> QED BY <1>11, <1>12 DEF p

\* The request that a preview sends.
LEMMA PreviewIs ==
    ASSUME NEW s, NEW p, Setup(s), BuildValid([s EXCEPT !.mode = ""])
    PROVE  /\ Preview(s, p) = Resolved(SnapshotRequest(s, p), s)
           /\ Joined(SnapshotRequest(s, p), s).enemy = ResolveEnemy(p, s.target)
<1>1. BuildValid([s EXCEPT !.mode = "pre-renewal"])
  BY DEF BuildValid, Setup
<1>2. Preview(s, p) = Resolved(SnapshotRequest(s, p), s)
  BY <1>1, Zenon DEF Preview, SnapshotRequest
<1>3. BuildRequest(s, p).enemy = ResolveEnemy(p, s.target)
      /\ DOMAIN BuildRequest(s, p) =
           {"class", "level", "stats", "equipment", "enemy", "skills", "buffs", "attackSkills"}
  BY DEF BuildRequest
<1>4. SnapshotRequest(s, p).enemy = ResolveEnemy(p, s.target)
  BY <1>3 DEF SnapshotRequest
<1>5. "enemy" \in DOMAIN SnapshotRequest(s, p)
  BY <1>3 DEF SnapshotRequest
<1>6. Joined(SnapshotRequest(s, p), s).enemy = ResolveEnemy(p, s.target)
  BY <1>4, <1>5 DEF Joined
<1> QED BY <1>2, <1>6

\* A build of the requested class is sent to the calculator exactly when it declares what
\* the prompt offers, and a mob of the server is fought as the prompt describes it.
THEOREM PromptsAreTrue ==
    ASSUME MobsApart, InnateApart
    PROVE  RunSpec => []PromptIsTrue
<1>1. CallIsMade => PromptIsTrue
  <2> SUFFICES ASSUME CallIsMade, call # Null, Scores(call), NEW s \in Range(Setups(call)),
                      s.class = request.class, BuildValid([s EXCEPT !.mode = ""])
               PROVE  Truthful(UserPrompt(request), s, Preview(s, Active))
    BY DEF PromptIsTrue
  <2> DEFINE asked == Preview(s, Active)
             facts == UserPrompt(request)
             joined == Joined(SnapshotRequest(s, Active), s)
  <2>1. call \in Call
    BY DEF CallIsMade
  <2>2. Setup(s)
    BY <2>1, ToolCallsAssumption
  <2>3. Active \in {Null} \union Range(profiles)
    BY DEF Active, ResolveProfile, Range
  <2>4. Resolves(s) => joined # Null
    BY <2>1, <2>3, ToolCallsAssumption
  <2>5. asked = IF Resolves(s) THEN joined ELSE Null
    BY <2>2, PreviewIs DEF Resolved
  <2>6. joined.enemy = ResolveEnemy(ResolveProfile(request.server), s.target)
    BY <2>2, PreviewIs DEF Active
  <2>7. AsTold(s, facts) <=> Resolves(s)
    BY <2>2, ToldIsResolved
  <2>8. ASSUME NEW f \in facts, f[1] = "mob", f[2] = s.target, asked # Null
        PROVE  asked.enemy.inline = [level |-> f[3], hp |-> f[4], traits |-> f[5]]
    BY <2>5, <2>6, <2>8, ToldMobIsFought
  <2> HIDE DEF asked, facts, joined
  <2>9. asked # Null <=> AsTold(s, facts)
    BY <2>4, <2>5, <2>7
  <2> QED BY <2>8, <2>9 DEF Truthful, asked, facts
<1> QED BY <1>1, CallsAreKept, PTL

-----------------------------------------------------------------------------
(* The caps of levels.                                                     *)

\* The cap that is told is the one of the catalog and the server together.
LEMMA CapTold ==
    ASSUME NEW r, NEW cap \in UserPrompt(r), cap[1] = "max levels"
    PROVE  LET max == MaxLevelsForPrompt(ResolveProfile(r.server), r.class) IN
           max # Null /\ cap[2] = max.base /\ cap[3] = max.job
<1> DEFINE max == MaxLevelsForPrompt(ResolveProfile(r.server), r.class)
           budget == SkillPointBudget(r.class)
<1>1. cap[1] \notin OtherTag
  BY DEF OtherTag
<1>2. cap \in LevelFacts(max, budget)
  BY <1>1, PromptTags
<1> HIDE DEF max, budget
<1> DEFINE base == max.base
           job == max.job
<1>3. cap = <<"budget", budget>> \/ (max # Null /\ cap = <<"max levels", base, job>>)
  BY <1>2 DEF LevelFacts
<1> HIDE DEF base, job
<1>4. cap # <<"budget", budget>>
  <2>1. <<"budget", budget>>[1] = "budget"
    BY ONLY Tags
  <2> QED BY <2>1
<1>5. cap[2] = base /\ cap[3] = job
  <2>1. <<"max levels", base, job>>[2] = base /\ <<"max levels", base, job>>[3] = job
    BY ONLY Tags
  <2>2. cap = <<"max levels", base, job>>
    BY <1>3, <1>4
  <2> QED BY ONLY <2>1, <2>2
<1> QED BY <1>3, <1>4, <1>5 DEF base, job, max

\* A level that the rules of the server are said to give the class is one of its changes.
LEMMA RuleTold ==
    ASSUME NEW r, r.class.key # "", NEW f \in UserPrompt(r), f[1] = "max level"
    PROVE  LET p == ResolveProfile(r.server) IN
           /\ p # Null
           /\ \E c \in ToSet(p.classChanges) :
                /\ SameName(c.class, r.class)
                /\ \/ f[2] = "base" /\ f[3] = c.base /\ c.base > 0
                   \/ f[2] = "job" /\ f[3] = c.job /\ c.job > 0
<1> DEFINE p == ResolveProfile(r.server)
<1>1. f[1] \notin OtherTag
  BY DEF OtherTag
<1>2. p # Null /\ f \in ClassChangeFacts(p, r.class)
  BY <1>1, PromptTags
<1> HIDE DEF p
<1>3. PICK c \in ToSet(p.classChanges) :
        /\ SameName(c.class, r.class)
        /\ f \in {<<"class", c.class, "rule", x>> : x \in c.rules}
                   \union Said("max level", [base |-> c.base, job |-> c.job])
  BY <1>2 DEF ClassChangeFacts
<1> DEFINE numbers == [base |-> c.base, job |-> c.job]
<1>4. f \in Said("max level", numbers)
  <2>1. ASSUME NEW x, f = <<"class", c.class, "rule", x>> PROVE FALSE
    <3> DEFINE class == c.class
    <3> HIDE DEF class
    <3>1. <<"class", class, "rule", x>>[1] = "class"
      BY ONLY Tags
    <3> QED BY <2>1, <3>1 DEF class
  <2> HIDE DEF numbers
  <2>2. f \in {<<"class", c.class, "rule", x>> : x \in c.rules} \/ f \in Said("max level", numbers)
    BY <1>3 DEF numbers
  <2>3. f \notin {<<"class", c.class, "rule", x>> : x \in c.rules}
    BY <2>1
  <2> QED BY <2>2, <2>3
<1>5. PICK g \in DOMAIN numbers : numbers[g] > 0 /\ f = <<"max level", g, numbers[g]>>
  <2> HIDE DEF numbers
  <2> QED BY <1>4 DEF Said
<1>6. f[2] = g /\ f[3] = numbers[g]
  <2> DEFINE number == numbers[g]
  <2>1. f = <<"max level", g, number>>
    BY <1>5
  <2> HIDE DEF number
  <2>2. f[2] = g /\ f[3] = number
    BY <2>1, Tags
  <2> QED BY <2>2 DEF number
<1>7. \/ g = "base" /\ numbers[g] = c.base
      \/ g = "job" /\ numbers[g] = c.job
  <2>1. numbers["base"] = c.base /\ numbers["job"] = c.job /\ DOMAIN numbers = {"base", "job"}
    OBVIOUS
  <2> HIDE DEF numbers
  <2>2. g = "base" \/ g = "job"
    BY <1>5, <2>1
  <2> QED BY <2>1, <2>2
<1> HIDE DEF numbers
<1> QED BY <1>2, <1>3, <1>5, <1>6, <1>7 DEF p

\* The change of a class is found under the exact spelling of it.
LEMMA OverrideFound ==
    ASSUME ChangesApart, NEW r, Spelling(r.class), r.class.form = "exact",
           NEW p, p = ResolveProfile(r.server), p # Null, NEW c \in ToSet(p.classChanges),
           SameName(c.class, r.class), c.base > 0 \/ c.job > 0
    PROVE  /\ ClassMaxLevelOverride(p, r.class) = [base |-> c.base, job |-> c.job]
           /\ ClassMaxLevelOverride(p, r.class) # Null
<1> DEFINE changes == p.classChanges
           found == {k \in DOMAIN changes : changes[k].class = r.class}
<1>1. r.server \in DOMAIN profiles /\ p = profiles[r.server] /\ Loaded(p)
  BY ResolvedIsLoaded
<1>2. Sequence(changes) /\ ClassChange(c)
  BY <1>1 DEF Loaded, Profile
<1>3. DOMAIN changes \subseteq Nat
  <2>1. Len(changes) \in Nat /\ DOMAIN changes = 1..Len(changes)
    BY <1>2 DEF Sequence
  <2> QED BY <2>1
<1>4. PICK k \in DOMAIN changes : c = changes[k]
  BY DEF ToSet
<1>5. c.class.form # "case"
  <2>1. c.base \in Int /\ c.job \in Int
    BY <1>2 DEF ClassChange
  <2>2. c.class.form = "case" => c.base <= 0 /\ c.job <= 0
    BY <1>1 DEF ChangesApart
  <2> QED BY <2>1, <2>2
<1>6. c.class = r.class
  <2>1. Spelling(c.class)
    BY <1>2 DEF ClassChange
  <2>2. c.class.key = r.class.key /\ (c.class.form = "space" <=> r.class.form = "space")
    <3> DEFINE ca == c.class.form = "space"
               ra == r.class.form = "space"
               ck == c.class.key
               rk == r.class.key
    <3>1. <<ck, ca>> = <<rk, ra>>
      BY DEF SameName, Folded
    <3> HIDE DEF ca, ra, ck, rk
    <3>2. ck = rk /\ ca = ra
      BY <3>1
    <3> QED BY <3>2, Zenon DEF ca, ra, ck, rk
  <2>3. c.class.form = r.class.form
    BY <1>5, <2>1, <2>2 DEF Spelling, Form
  <2> QED BY <2>1, <2>2, <2>3 DEF Spelling
<1>7. k \in found /\ found \in SUBSET Nat
  BY <1>3, <1>4, <1>6
<1>8. Min(found) \in found
  BY <1>7, MinIs
<1>9. Min(found) = k
  <2>1. Min(found) \in DOMAIN changes /\ SameName(changes[Min(found)].class, changes[k].class)
    BY <1>4, <1>6, <1>8 DEF SameName
  <2> HIDE DEF found
  <2> QED BY <1>1, <1>4, <2>1 DEF ChangesApart
<1>10. ~(c.base = 0 /\ c.job = 0)
  OBVIOUS
<1>11. ClassMaxLevelOverride(p, r.class) = [base |-> c.base, job |-> c.job]
  BY <1>4, <1>7, <1>9, <1>10 DEF ClassMaxLevelOverride
<1> QED BY <1>2, <1>11 DEF ClassChange

\* A run keeps to one request.
RequestIsMade == request \in Request

\* No step of a run changes its request.
LEMMA RequestIsKept == RunSpec => []RequestIsMade
<1>1. ToolsInit => RequestIsMade
  BY DEF ToolsInit, RequestIsMade
<1>2. RequestIsMade /\ [\/ ToolsNext /\ UNCHANGED rvars
                        \/ RetrievalNext /\ UNCHANGED tvars]_<<tvars, rvars>> => RequestIsMade'
  BY DEF RequestIsMade, ToolsNext, tvars, Dispatch, Score, End, Collect
<1> QED BY <1>1, <1>2, PTL DEF RunSpec

\* The cap told as hard is the one that the rules of the server, told next to it, give the
\* class, for every catalog and every profile whose changes are of one class each.
THEOREM CapsToldAgreed ==
    ASSUME ChangesApart
    PROVE  RunSpec => []CapsToldAgree
<1>1. RequestIsMade => CapsToldAgree
  <2> SUFFICES ASSUME request \in Request, request.class.form = "exact",
                      NEW cap \in UserPrompt(request), cap[1] = "max levels",
                      NEW f \in UserPrompt(request), f[1] = "max level"
               PROVE  f[3] = IF f[2] = "base" THEN cap[2] ELSE cap[3]
    BY DEF CapsToldAgree, CapsAgree, RequestIsMade
  <2> DEFINE p == ResolveProfile(request.server)
             max == MaxLevelsForPrompt(p, request.class)
             own == ClassMaxLevelOverride(p, request.class)
             levels == ClassMaxLevels(request.class)
  <2>1. Spelling(request.class)
    BY ToolCallsAssumption
  <2>2. max # Null /\ cap[2] = max.base /\ cap[3] = max.job
    BY CapTold
  <2>3. request.class.key # "" /\ max = OverriddenIfAny(levels, own)
    BY <2>2 DEF MaxLevelsForPrompt
  <2>4. PICK c \in ToSet(p.classChanges) :
          /\ SameName(c.class, request.class)
          /\ \/ f[2] = "base" /\ f[3] = c.base /\ c.base > 0
             \/ f[2] = "job" /\ f[3] = c.job /\ c.job > 0
    BY <2>3, RuleTold
  <2>5. p # Null
    BY <2>3, RuleTold
  <2>6. own = [base |-> c.base, job |-> c.job] /\ own # Null
    BY <2>1, <2>4, <2>5, OverrideFound
  <2> HIDE DEF own, levels, max, p
  <2>7. max = Overridden(levels, own)
    BY <2>2, <2>3, <2>6 DEF OverriddenIfAny
  <2>8. /\ max.base = IF own.base > 0 THEN own.base ELSE levels.base
        /\ max.job = IF own.job > 0 THEN own.job ELSE levels.job
    BY <2>7 DEF Overridden
  <2>9. own.base = c.base /\ own.job = c.job
    BY <2>6
  <2> QED BY <2>2, <2>4, <2>8, <2>9
<1> QED BY <1>1, RequestIsKept, PTL

-----------------------------------------------------------------------------
(* The builder of the catalog: loops over a file.                          *)

\* Induction over 0..n: a set that has 0 and every successor.
LEMMA UpTo ==
    ASSUME NEW n \in Nat, NEW P, 0 \in P, \A i \in 0..n : i \in P /\ i < n => i + 1 \in P
    PROVE  \A i \in 0..n : i \in P
<1> SUFFICES ASSUME NEW i \in 0..n, i \notin P PROVE FALSE
  OBVIOUS
<1> DEFINE R == OpToRel(<, Nat)
           B == {j \in 0..n : j \notin P}
<1>1. IsWellFoundedOn(R, Nat)
  BY NatLessThanWellFounded
<1>2. B \in SUBSET Nat /\ B # {}
  OBVIOUS
<1> HIDE DEF R
<1>3. PICK j \in B : \A k \in B : <<k, j>> \notin R
  BY <1>1, <1>2, WFMin
<1>4. j # 0 /\ j \in 0..n
  OBVIOUS
<1>5. j - 1 \in 0..n /\ j - 1 < j /\ j - 1 < n /\ (j - 1) + 1 = j
  BY <1>4
<1>6. <<j - 1, j>> \in R
  BY <1>5 DEF R, OpToRel
<1>7. j - 1 \in P
  BY <1>3, <1>5, <1>6
<1> QED BY <1>3, <1>5, <1>7

\* A loop that takes a value of S to another at every step runs.
LEMMA LoopRuns ==
    ASSUME NEW N \in Nat, NEW S, NEW z \in S, NEW F \in [1..N -> [S -> S]]
    PROVE  \E g \in [0..N -> S] : g[0] = z /\ \A n \in 1..N : g[n] = F[n][g[n - 1]]
<1> DEFINE Runs(g, m) == g[0] = z /\ \A n \in 1..m : g[n] = F[n][g[n - 1]]
           P == {m \in 0..N : \E g \in [0..N -> S] : Runs(g, m)}
<1>1. 0 \in P
  <2> DEFINE c == [n \in 0..N |-> z]
  <2>1. c \in [0..N -> S] /\ c[0] = z /\ 1..0 = {}
    OBVIOUS
  <2> HIDE DEF c
  <2>2. \E g \in [0..N -> S] : Runs(g, 0)
    BY <2>1
  <2> QED BY <2>2
<1>2. ASSUME NEW m \in 0..N, m \in P /\ m < N PROVE m + 1 \in P
  <2>1. PICK g \in [0..N -> S] : Runs(g, m)
    BY <1>2
  <2> DEFINE f == [g EXCEPT ![m + 1] = F[m + 1][g[m]]]
  <2>2. m + 1 \in 0..N /\ m + 1 \in 1..N /\ m \in Nat
    BY <1>2
  <2>3. f \in [0..N -> S] /\ f[m + 1] = F[m + 1][g[m]] /\ \A n \in 0..m : f[n] = g[n]
    BY <2>2
  <2> HIDE DEF f
  <2>4. ASSUME NEW n \in 1..(m + 1) PROVE f[n] = F[n][f[n - 1]]
    <3>1. n - 1 \in 0..m
      BY <2>2
    <3>2. CASE n = m + 1
      <4>1. n - 1 = m
        BY <2>2, <3>2
      <4> QED BY <2>3, <3>1, <3>2, <4>1
    <3>3. CASE n # m + 1
      <4>1. n \in 1..m /\ n \in 0..m
        BY <2>2, <3>3
      <4> QED BY <2>1, <2>3, <3>1, <4>1
    <3> QED BY <3>2, <3>3
  <2>5. f[0] = z
    BY <2>1, <2>2, <2>3
  <2>6. Runs(f, m + 1)
    BY <2>4, <2>5
  <2> QED BY <2>2, <2>3, <2>6
<1> HIDE DEF P
<1>3. \A m \in 0..N : m \in P
  BY <1>1, <1>2, UpTo
<1>4. N \in P
  BY <1>3
<1> QED BY <1>4 DEF P

-----------------------------------------------------------------------------
(* Rows at some positions.                                                 *)

\* The loop behind Sifted, step by step.
LEMMA SiftedRuns ==
    ASSUME NEW f, Sequence(f), NEW K
    PROVE  \E g \in [0..Len(f) -> Seq(Range(f))] :
             /\ g[0] = <<>>
             /\ \A n \in 1..Len(f) : g[n] = IF n \in K THEN Append(g[n - 1], f[n]) ELSE g[n - 1]
             /\ Sifted(f, K) = g[Len(f)]
<1> DEFINE R == Range(f)
           N == Len(f)
           F == [n \in 1..N |-> [x \in Seq(R) |-> IF n \in K THEN Append(x, f[n]) ELSE x]]
           Loop(h) == [n \in 0..N |-> IF n = 0 THEN <<>>
                                      ELSE IF n \in K THEN Append(h[n - 1], f[n]) ELSE h[n - 1]]
           h == CHOOSE e : e = Loop(e)
<1>1. N \in Nat /\ DOMAIN f = 1..N /\ \A n \in 1..N : f[n] \in R
  <2>1. f \in Seq(R)
    BY DEF Sequence
  <2> QED BY <2>1, LenProperties, ElementOfSeq
<1>2. F \in [1..N -> [Seq(R) -> Seq(R)]] /\ <<>> \in Seq(R)
  <2>1. ASSUME NEW n \in 1..N, NEW x \in Seq(R) PROVE Append(x, f[n]) \in Seq(R)
    BY <1>1, AppendProperties
  <2> HIDE DEF N, R
  <2> QED BY <2>1, EmptySeq
<1>3. PICK g \in [0..N -> Seq(R)] : g[0] = <<>> /\ \A n \in 1..N : g[n] = F[n][g[n - 1]]
  <2> DEFINE S == Seq(R)
  <2>1. N \in Nat /\ <<>> \in S /\ F \in [1..N -> [S -> S]]
    BY <1>1, <1>2
  <2> HIDE DEF F, N, S
  <2>2. \E g \in [0..N -> S] : g[0] = <<>> /\ \A n \in 1..N : g[n] = F[n][g[n - 1]]
    BY ONLY <2>1, LoopRuns
  <2> QED BY <2>2 DEF S
<1>4. ASSUME NEW n \in 1..N PROVE g[n] = IF n \in K THEN Append(g[n - 1], f[n]) ELSE g[n - 1]
  <2>1. n - 1 \in 0..N
    BY <1>1
  <2>2. g[n - 1] \in Seq(R) /\ g[n] = F[n][g[n - 1]]
    BY <1>3, <2>1
  <2> HIDE DEF N, R
  <2> QED BY <2>2
<1>5. g = Loop(g)
  <2> HIDE DEF N, R, F
  <2>1. ASSUME NEW n \in 0..N PROVE g[n] = Loop(g)[n]
    <3>1. n # 0 => n \in 1..N
      BY <1>1
    <3> QED BY <1>3, <1>4, <3>1
  <2> QED BY <1>3, <2>1
<1>6. h = Loop(h)
  BY <1>5
<1>7. Sifted(f, K) = h[N]
  BY DEF Sifted
<1> HIDE DEF h
<1>8. \A n \in 0..N : h[n] = g[n]
  <2> DEFINE P == {n \in 0..N : h[n] = g[n]}
  <2>1. 0 \in P
    BY <1>1, <1>3, <1>6
  <2>2. ASSUME NEW n \in 0..N, n \in P /\ n < N PROVE n + 1 \in P
    <3>1. n + 1 \in 1..N /\ n + 1 \in 0..N /\ n + 1 # 0 /\ (n + 1) - 1 = n
      BY <1>1, <2>2
    <3>2. h[n + 1] = IF n + 1 \in K THEN Append(h[n], f[n + 1]) ELSE h[n]
      BY <1>6, <3>1
    <3>3. g[n + 1] = IF n + 1 \in K THEN Append(g[n], f[n + 1]) ELSE g[n]
      BY <1>4, <3>1
    <3> QED BY <2>2, <3>1, <3>2, <3>3
  <2> HIDE DEF P
  <2>3. \A n \in 0..N : n \in P
    BY <1>1, <2>1, <2>2, UpTo
  <2> QED BY <2>3 DEF P
<1> QED BY <1>1, <1>3, <1>4, <1>7, <1>8

\* It has the rows at these positions, in their order.
LEMMA SiftedIs ==
    ASSUME NEW f, Sequence(f), NEW K
    PROVE  LET g == Sifted(f, K) IN
           /\ g \in Seq(Range(f))
           /\ \E e \in [1..Len(g) -> K \intersect (1..Len(f))] :
                /\ \A i \in 1..Len(g) : g[i] = f[e[i]]
                /\ \A i, j \in 1..Len(g) : i < j => e[i] < e[j]
                /\ \A k \in K \intersect (1..Len(f)) : \E i \in 1..Len(g) : e[i] = k
<1> DEFINE R == Range(f)
           N == Len(f)
           Picks(x, n, e) ==
             /\ \A i \in 1..Len(x) : x[i] = f[e[i]]
             /\ \A i, j \in 1..Len(x) : i < j => e[i] < e[j]
             /\ \A k \in K \intersect (1..n) : \E i \in 1..Len(x) : e[i] = k
           Good(x, n) == \E e \in [1..Len(x) -> K \intersect (1..n)] : Picks(x, n, e)
<1>1. PICK g \in [0..N -> Seq(R)] :
        /\ g[0] = <<>>
        /\ \A n \in 1..N : g[n] = IF n \in K THEN Append(g[n - 1], f[n]) ELSE g[n - 1]
        /\ Sifted(f, K) = g[N]
  BY SiftedRuns
<1>2. N \in Nat /\ \A n \in 1..N : f[n] \in R
  <2>1. f \in Seq(R)
    BY DEF Sequence
  <2> QED BY <2>1, LenProperties, ElementOfSeq
<1> HIDE DEF N, R
<1> DEFINE P == {n \in 0..N : Good(g[n], n)}
<1>3. 0 \in P
  <2>1. Len(g[0]) = 0 /\ 1..0 = {}
    BY <1>1
  <2>2. \E e : e \in [1..0 -> K \intersect (1..0)]
    <3>1. [i \in {} |-> i] \in [{} -> K \intersect {}]
      OBVIOUS
    <3> QED BY <2>1, <3>1
  <2>3. \A e : Picks(g[0], 0, e)
    BY <2>1
  <2>4. \E e \in [1..Len(g[0]) -> K \intersect (1..0)] : Picks(g[0], 0, e)
    <3> HIDE DEF Picks
    <3> QED BY <2>1, <2>2, <2>3
  <2>5. Good(g[0], 0)
    BY <2>4
  <2> HIDE DEF Good
  <2> QED BY <1>2, <2>5
<1>4. ASSUME NEW n \in 0..N, n \in P /\ n < N PROVE n + 1 \in P
  <2>1. n + 1 \in 1..N /\ n + 1 \in 0..N /\ (n + 1) - 1 = n /\ n \in Nat
    BY <1>2, <1>4
  <2> DEFINE x == g[n]
  <2>2. PICK e \in [1..Len(x) -> K \intersect (1..n)] : Picks(x, n, e)
    BY <1>4
  <2>3. x \in Seq(R) /\ Len(x) \in Nat
    <3>1. x \in Seq(R)
      BY <1>1
    <3> QED BY <3>1, LenProperties
  <2> DEFINE l == Len(x)
  <2>4. CASE n + 1 \in K
    <3> DEFINE y == Append(x, f[n + 1])
               d == [i \in 1..(l + 1) |-> IF i <= l THEN e[i] ELSE n + 1]
    <3>1. g[n + 1] = y
      BY <1>1, <2>1, <2>4
    <3>2. Len(y) = l + 1 /\ y[l + 1] = f[n + 1] /\ \A i \in 1..l : y[i] = x[i]
      <4>1. f[n + 1] \in R
        BY <1>2, <2>1
      <4> QED BY ONLY <2>3, <4>1, AppendProperties
    <3> HIDE DEF y, x
    <3>3. d[l + 1] = n + 1 /\ \A i \in 1..l : d[i] = e[i]
      <4>1. l + 1 \in 1..(l + 1) /\ ~(l + 1 <= l) /\ \A i \in 1..l : i \in 1..(l + 1) /\ i <= l
        BY <2>3
      <4> QED BY <4>1
    <3>4. \A i \in 1..(l + 1) : i \in 1..l \/ i = l + 1
      BY <2>3
    <3>5. \A i \in 1..l : e[i] \in K /\ e[i] \in 1..n
      BY <2>2
    <3>6. d \in [1..(l + 1) -> K \intersect (1..(n + 1))]
      <4>1. \A i \in 1..(l + 1) : d[i] \in K \intersect (1..(n + 1))
        <5> TAKE i \in 1..(l + 1)
        <5>1. CASE i \in 1..l
          BY <2>1, <3>3, <3>5, <5>1
        <5>2. CASE i = l + 1
          BY <2>1, <2>4, <3>3, <5>2
        <5> QED BY <3>4, <5>1, <5>2
      <4> QED BY <4>1
    <3> HIDE DEF d
    <3>7. ASSUME NEW i \in 1..(l + 1) PROVE y[i] = f[d[i]]
      <4>1. CASE i \in 1..l
        BY <2>2, <3>2, <3>3, <4>1
      <4>2. CASE i = l + 1
        BY <3>2, <3>3, <4>2
      <4> QED BY <3>4, <4>1, <4>2
    <3>8. ASSUME NEW i \in 1..(l + 1), NEW j \in 1..(l + 1), i < j PROVE d[i] < d[j]
      <4>1. i \in 1..l
        BY <2>3, <3>8
      <4>2. CASE j \in 1..l
        BY <2>2, <3>3, <3>8, <4>1, <4>2
      <4>3. CASE j = l + 1
        <5>1. d[i] \in 1..n /\ d[j] = n + 1
          BY <3>3, <3>5, <4>1, <4>3
        <5> QED BY <2>1, <5>1
      <4> QED BY <3>4, <4>2, <4>3
    <3>9. ASSUME NEW k \in K \intersect (1..(n + 1)) PROVE \E i \in 1..(l + 1) : d[i] = k
      <4>1. CASE k = n + 1
        <5>1. l + 1 \in 1..(l + 1)
          BY <2>3
        <5> QED BY <3>3, <4>1, <5>1
      <4>2. CASE k # n + 1
        <5>1. k \in K \intersect (1..n)
          BY <2>1, <4>2
        <5>2. PICK i \in 1..l : e[i] = k
          BY <2>2, <5>1
        <5>3. i \in 1..(l + 1)
          BY <2>3
        <5> QED BY <3>3, <5>2, <5>3
      <4> QED BY <4>1, <4>2
    <3> HIDE DEF l
    <3>10. Picks(y, n + 1, d)
      BY <3>2, <3>7, <3>8, <3>9
    <3> HIDE DEF Picks
    <3>11. Good(y, n + 1)
      BY <3>2, <3>6, <3>10
    <3> QED BY <2>1, <3>1, <3>11
  <2>5. CASE n + 1 \notin K
    <3>1. g[n + 1] = x
      BY <1>1, <2>1, <2>5
    <3>2. K \intersect (1..(n + 1)) = K \intersect (1..n)
      BY <2>1, <2>5
    <3>3. Good(x, n + 1)
      BY <2>2, <3>2
    <3> HIDE DEF Good
    <3> QED BY <2>1, <3>1, <3>3
  <2> QED BY <2>4, <2>5
<1> HIDE DEF P
<1>5. \A n \in 0..N : n \in P
  BY <1>2, <1>3, <1>4, UpTo
<1>6. N \in 0..N /\ N \in P
  BY <1>2, <1>5
<1>7. Good(g[N], N) /\ g[N] \in Seq(R)
  BY <1>1, <1>6 DEF P
<1> QED BY <1>1, <1>7 DEF N, R

\* A sequence is one over the elements it has.
LEMMA IsSequence ==
    ASSUME NEW R, NEW g \in Seq(R)
    PROVE  Sequence(g)
<1>1. Len(g) \in Nat /\ g \in [1..Len(g) -> R] /\ DOMAIN g = 1..Len(g)
  BY LenProperties
<1>2. g \in [1..Len(g) -> Range(g)]
  BY <1>1 DEF Range
<1> QED BY <1>1, <1>2, SeqDef DEF Sequence

\* Hence its elements are the rows at these positions.
LEMMA SiftedRange ==
    ASSUME NEW f, Sequence(f), NEW K
    PROVE  /\ Range(Sifted(f, K)) = {f[k] : k \in K \intersect DOMAIN f}
           /\ Sequence(Sifted(f, K))
<1> DEFINE g == Sifted(f, K)
<1>1. g \in Seq(Range(f)) /\ DOMAIN f = 1..Len(f)
  <2>1. f \in Seq(Range(f))
    BY DEF Sequence
  <2> QED BY <2>1, SiftedIs, LenProperties
<1>2. PICK e \in [1..Len(g) -> K \intersect (1..Len(f))] :
        /\ \A i \in 1..Len(g) : g[i] = f[e[i]]
        /\ \A k \in K \intersect (1..Len(f)) : \E i \in 1..Len(g) : e[i] = k
  BY SiftedIs
<1>3. DOMAIN g = 1..Len(g)
  BY <1>1, LenProperties
<1> HIDE DEF g
<1>4. \A i \in 1..Len(g) : e[i] \in K \intersect (1..Len(f))
  BY <1>2
<1>5. \A i \in 1..Len(g) : g[i] \in {f[k] : k \in K \intersect (1..Len(f))}
  BY <1>2, <1>4
<1>6. \A k \in K \intersect (1..Len(f)) : \E i \in 1..Len(g) : g[i] = f[k]
  BY <1>2
<1>7. Range(g) = {f[k] : k \in K \intersect (1..Len(f))}
  BY <1>3, <1>5, <1>6 DEF Range
<1>8. Sequence(g)
  BY <1>1, IsSequence DEF g
<1> QED BY <1>1, <1>7, <1>8 DEF g

\* The positions of a sequence.
LEMMA Positions ==
    ASSUME NEW f, Sequence(f)
    PROVE  Len(f) \in Nat /\ DOMAIN f = 1..Len(f)
BY LenProperties DEF Sequence

\* No two positions of a name.
NamesOnce(f) == \A i, j \in DOMAIN f : f[i].aegis = f[j].aegis => i = j

\* Where each name is at one of the positions only, it is there once.
LEMMA SiftedOnce ==
    ASSUME NEW f, Sequence(f), NEW K,
           \A i, j \in K \intersect DOMAIN f : f[i].aegis = f[j].aegis => i = j
    PROVE  NamesOnce(Sifted(f, K))
<1> DEFINE g == Sifted(f, K)
<1>1. Sequence(g) /\ Len(g) \in Nat /\ DOMAIN g = 1..Len(g) /\ DOMAIN f = 1..Len(f)
  BY SiftedRange, Positions
<1>2. PICK e \in [1..Len(g) -> K \intersect (1..Len(f))] :
        /\ \A i \in 1..Len(g) : g[i] = f[e[i]]
        /\ \A i, j \in 1..Len(g) : i < j => e[i] < e[j]
  BY SiftedIs
<1> HIDE DEF g
<1>3. ASSUME NEW i \in 1..Len(g), NEW j \in 1..Len(g), g[i].aegis = g[j].aegis PROVE i = j
  <2>1. e[i] \in K \intersect DOMAIN f /\ e[j] \in K \intersect DOMAIN f
    BY <1>1, <1>2
  <2>2. e[i] = e[j]
    BY <1>2, <1>3, <2>1
  <2>3. ~(i < j) /\ ~(j < i)
    <3>1. e[i] \in Nat /\ e[j] \in Nat
      BY <1>1, <2>1
    <3> QED BY <1>2, <2>2, <3>1
  <2> QED BY <2>3
<1> QED BY <1>1, <1>3 DEF g, NamesOnce

\* Of a name only the first stays, and every name does.
LEMMA FirstNamedIs ==
    ASSUME NEW f, Sequence(f)
    PROVE  LET g == FirstNamed(f) IN
           /\ Sequence(g) /\ NamesOnce(g)
           /\ Range(g) \subseteq Range(f)
           /\ {x.aegis : x \in Range(g)} = {x.aegis : x \in Range(f)}
<1> DEFINE K == {k \in DOMAIN f : \A j \in 1..(k - 1) : f[j].aegis # f[k].aegis}
           g == Sifted(f, K)
<1>1. g = FirstNamed(f)
  BY DEF FirstNamed
<1>2. DOMAIN f = 1..Len(f) /\ Len(f) \in Nat
  BY Positions
<1>3. \A i, j \in K \intersect DOMAIN f : f[i].aegis = f[j].aegis => i = j
  <2> TAKE i, j \in K \intersect DOMAIN f
  <2> HAVE f[i].aegis = f[j].aegis
  <2>1. i \in Nat /\ j \in Nat /\ i >= 1 /\ j >= 1
    BY <1>2
  <2>2. ~(i < j)
    <3>1. i < j => i \in 1..(j - 1)
      BY <2>1
    <3> QED BY <3>1
  <2>3. ~(j < i)
    <3>1. j < i => j \in 1..(i - 1)
      BY <2>1
    <3> QED BY <3>1
  <2> QED BY <2>1, <2>2, <2>3
<1>4. ASSUME NEW k \in DOMAIN f PROVE \E m \in K : f[m].aegis = f[k].aegis
  <2> DEFINE S == {j \in DOMAIN f : f[j].aegis = f[k].aegis}
             m == Min(S)
  <2>1. S \in SUBSET Nat /\ S # {}
    BY <1>2
  <2>2. m \in S /\ \A y \in S : m <= y
    BY <2>1, MinIs
  <2> HIDE DEF m
  <2>3. m \in DOMAIN f /\ f[m].aegis = f[k].aegis
    BY <2>2
  <2>4. ASSUME NEW j \in 1..(m - 1) PROVE f[j].aegis # f[m].aegis
    <3>1. j \in DOMAIN f /\ ~(m <= j)
      BY <1>2, <2>3
    <3> QED BY <2>2, <2>3, <3>1
  <2>5. m \in K
    BY <2>3, <2>4
  <2> QED BY <2>3, <2>5
<1>5. K \subseteq DOMAIN f
  OBVIOUS
<1> HIDE DEF K
<1>6. Sequence(g) /\ NamesOnce(g) /\ Range(g) = {f[k] : k \in K \intersect DOMAIN f}
  BY <1>3, SiftedOnce, SiftedRange
<1> HIDE DEF g
<1>7. Range(g) \subseteq Range(f)
  BY <1>6 DEF Range
<1>8. \A x \in Range(f) : \E y \in Range(g) : y.aegis = x.aegis
  <2> TAKE x \in Range(f)
  <2>1. PICK k \in DOMAIN f : x = f[k]
    BY DEF Range
  <2>2. PICK m \in K : f[m].aegis = f[k].aegis
    BY <1>4
  <2>3. f[m] \in Range(g)
    BY <1>5, <1>6
  <2> QED BY <2>1, <2>2, <2>3
<1>9. {x.aegis : x \in Range(g)} = {x.aegis : x \in Range(f)}
  BY <1>7, <1>8
<1> QED BY <1>1, <1>6, <1>7, <1>9

\* The first row of an id.
LEMMA IndexIs ==
    ASSUME NEW rows, Sequence(rows), NEW id \in {rows[k].id : k \in DOMAIN rows}
    PROVE  /\ id \in DOMAIN Index(rows)
           /\ \E k \in DOMAIN rows : Index(rows)[id] = rows[k] /\ rows[k].id = id
<1> DEFINE S == {k \in DOMAIN rows : rows[k].id = id}
<1>1. S \in SUBSET Nat /\ S # {}
  BY Positions
<1>2. Min(S) \in S
  BY <1>1, MinIs
<1>3. id \in DOMAIN Index(rows) /\ Index(rows)[id] = rows[Min(S)]
  BY DEF Index
<1> QED BY <1>2, <1>3

\* LastBy, of the names of skills.
LastNamed(rows) ==
  [key \in {rows[k].aegis : k \in DOMAIN rows} |->
     rows[Max({k \in DOMAIN rows : rows[k].aegis = key})]]

\* It holds, under every name, a row of that name.
LEMMA LastNamedIs ==
    ASSUME NEW rows, Sequence(rows), NEW name \in {rows[k].aegis : k \in DOMAIN rows}
    PROVE  /\ name \in DOMAIN LastNamed(rows)
           /\ \E k \in DOMAIN rows : LastNamed(rows)[name] = rows[k] /\ rows[k].aegis = name
<1> DEFINE S == {k \in DOMAIN rows : rows[k].aegis = name}
<1>1. S \in SUBSET (1..Len(rows)) /\ S # {} /\ Len(rows) \in Nat
  BY Positions
<1>2. Max(S) \in S
  BY <1>1, MaxIs
<1>3. name \in DOMAIN LastNamed(rows) /\ LastNamed(rows)[name] = rows[Max(S)]
  BY DEF LastNamed
<1> QED BY <1>2, <1>3

\* Load serves a row whose id and name are its own as it is.
LEMMA FirstSeenIs ==
    ASSUME NEW rows, Sequence(rows), \A i, j \in DOMAIN rows : rows[i].id = rows[j].id => i = j
    PROVE  Sequence(FirstSeen(rows)) /\ Range(FirstSeen(rows)) = Range(rows)
<1> DEFINE K == {k \in DOMAIN rows : \A j \in 1..(k - 1) : rows[j].id # rows[k].id}
<1>1. DOMAIN rows = 1..Len(rows) /\ Len(rows) \in Nat
  BY Positions
<1>2. ASSUME NEW k \in DOMAIN rows PROVE k \in K
  <2>1. \A j \in 1..(k - 1) : j \in DOMAIN rows /\ j # k
    BY <1>1
  <2> QED BY <2>1
<1>3. K = DOMAIN rows
  BY <1>2
<1> HIDE DEF K
<1>4. Sequence(Sifted(rows, K)) /\ Range(Sifted(rows, K)) = {rows[k] : k \in K \intersect DOMAIN rows}
  BY SiftedRange
<1>5. FirstSeen(rows) = Sifted(rows, K)
  BY DEF FirstSeen, K
<1> QED BY <1>3, <1>4, <1>5 DEF Range

\* By its id,
LEMMA IndexServes ==
    ASSUME NEW rows, Sequence(rows), \A i, j \in DOMAIN rows : rows[i].id = rows[j].id => i = j,
           NEW k \in DOMAIN rows
    PROVE  Lookup(Index(FirstSeen(rows)), rows[k].id) = rows[k]
<1> DEFINE seen == FirstSeen(rows)
<1>1. Sequence(seen) /\ Range(seen) = Range(rows)
  BY FirstSeenIs
<1> HIDE DEF seen
<1>2. rows[k] \in Range(seen)
  BY <1>1 DEF Range
<1>3. rows[k].id \in {seen[i].id : i \in DOMAIN seen}
  BY <1>2 DEF Range
<1>4. PICK i \in DOMAIN seen : Index(seen)[rows[k].id] = seen[i] /\ seen[i].id = rows[k].id
  BY <1>1, <1>3, IndexIs
<1>5. rows[k].id \in DOMAIN Index(seen)
  BY <1>1, <1>3, IndexIs
<1>6. PICK j \in DOMAIN rows : seen[i] = rows[j]
  BY <1>1 DEF Range
<1>7. j = k
  BY <1>4, <1>6
<1> QED BY <1>4, <1>5, <1>6, <1>7 DEF Lookup, seen

\* and by its name.
LEMMA NameServes ==
    ASSUME NEW rows, Sequence(rows), \A i, j \in DOMAIN rows : rows[i].id = rows[j].id => i = j,
           NamesOnce(rows), NEW k \in DOMAIN rows
    PROVE  ByName(rows)[rows[k].aegis] = rows[k]
<1> DEFINE seen == FirstSeen(rows)
<1>1. Sequence(seen) /\ Range(seen) = Range(rows)
  BY FirstSeenIs
<1>2. ByName(rows) = LastNamed(seen)
  BY DEF ByName, LastBy, LastNamed
<1> HIDE DEF seen
<1>3. rows[k] \in Range(seen)
  BY <1>1 DEF Range
<1>4. rows[k].aegis \in {seen[i].aegis : i \in DOMAIN seen}
  BY <1>3 DEF Range
<1>5. PICK i \in DOMAIN seen : LastNamed(seen)[rows[k].aegis] = seen[i] /\ seen[i].aegis = rows[k].aegis
  BY <1>1, <1>4, LastNamedIs
<1>6. PICK j \in DOMAIN rows : seen[i] = rows[j]
  BY <1>1 DEF Range
<1>7. j = k
  BY <1>5, <1>6 DEF NamesOnce
<1> QED BY <1>2, <1>5, <1>6, <1>7

\* One sequence after another has what both have.
LEMMA RangeOfConcat ==
    ASSUME NEW f, NEW g, Sequence(f), Sequence(g)
    PROVE  Sequence(f \o g) /\ Range(f \o g) = Range(f) \union Range(g)
<1> DEFINE D == Range(f) \union Range(g)
           h == f \o g
<1>1. f \in Seq(D) /\ g \in Seq(D)
  <2>1. f \in Seq(Range(f)) /\ g \in Seq(Range(g)) /\ Range(f) \subseteq D /\ Range(g) \subseteq D
    BY DEF Sequence
  <2> HIDE DEF D
  <2> QED BY <2>1, SeqMonotonic
<1>2. /\ Len(f) \in Nat /\ DOMAIN f = 1..Len(f)
      /\ Len(g) \in Nat /\ DOMAIN g = 1..Len(g)
  BY Positions
<1> DEFINE m == Len(f)
           n == Len(g)
<1>3. /\ h \in Seq(D) /\ Len(h) = m + n /\ DOMAIN h = 1..(m + n)
      /\ \A i \in 1..(m + n) : h[i] = IF i <= m THEN f[i] ELSE g[i - m]
  <2> HIDE DEF D
  <2>1. h \in Seq(D) /\ Len(h) = m + n
    BY <1>1, ConcatProperties
  <2>2. DOMAIN h = 1..(m + n)
    BY <2>1, LenProperties
  <2> QED BY <1>1, <2>1, <2>2, ConcatProperties
<1>4. Sequence(h)
  BY <1>3, IsSequence
<1> HIDE DEF h
<1>5. \A i \in 1..(m + n) : h[i] \in D
  <2> TAKE i \in 1..(m + n)
  <2>1. CASE i <= m
    BY <1>2, <1>3, <2>1 DEF Range
  <2>2. CASE ~(i <= m)
    <3>1. i - m \in 1..n
      BY <1>2, <2>2
    <3> QED BY <1>2, <1>3, <2>2, <3>1 DEF Range
  <2> QED BY <2>1, <2>2
<1>6. \A i \in 1..m : f[i] \in Range(h)
  <2> TAKE i \in 1..m
  <2>1. i \in 1..(m + n) /\ i <= m
    BY <1>2
  <2>2. h[i] = f[i] /\ i \in DOMAIN h
    BY <1>3, <2>1
  <2> QED BY <2>2 DEF Range
<1>7. \A i \in 1..n : g[i] \in Range(h)
  <2> TAKE i \in 1..n
  <2>1. i + m \in 1..(m + n) /\ ~(i + m <= m) /\ (i + m) - m = i
    BY <1>2
  <2>2. h[i + m] = g[i] /\ i + m \in DOMAIN h
    BY <1>3, <2>1
  <2> QED BY <2>2 DEF Range
<1>8. Range(h) \subseteq D
  BY <1>3, <1>5 DEF Range
<1>9. D \subseteq Range(h)
  BY <1>2, <1>6, <1>7 DEF Range
<1> HIDE DEF D
<1>10. Range(h) = D
  BY <1>8, <1>9
<1> QED BY <1>4, <1>10 DEF h, D

\* FlattenSeq, by any function that goes on as its loop does.
LEMMA FlattenIs ==
    ASSUME NEW s, Len(s) \in Nat \ {0}, NEW g, g[1] = s[1],
           \A i \in 2..Len(s) : g[i] = g[i - 1] \o s[i]
    PROVE  FlattenSeq(s) = g[Len(s)]
<1> DEFINE N == Len(s)
           Loop(f) == [i \in 1..Len(s) |-> IF i = 1 THEN s[i] ELSE f[i - 1] \o s[i]]
           e == [i \in 1..Len(s) |-> g[i]]
           h == CHOOSE f : f = Loop(f)
<1>1. e = Loop(e)
  <2>1. ASSUME NEW i \in 1..Len(s) PROVE e[i] = Loop(e)[i]
    <3>1. i # 1 => i \in 2..Len(s) /\ i - 1 \in 1..Len(s)
      OBVIOUS
    <3> QED BY <3>1
  <2> QED BY <2>1
<1>2. h = Loop(h)
  BY <1>1
<1>3. FlattenSeq(s) = h[Len(s)]
  BY DEF FlattenSeq
<1> HIDE DEF h
<1>4. h[1] = g[1]
  BY <1>2
<1>5. ASSUME NEW i \in 2..Len(s), h[i - 1] = g[i - 1] PROVE h[i] = g[i]
  <2>1. i \in 1..Len(s) /\ i # 1
    BY <1>5
  <2>2. h[i] = h[i - 1] \o s[i]
    BY <1>2, <2>1
  <2> QED BY <1>5, <2>2
<1> HIDE DEF Loop, e
<1> DEFINE P == {i \in 0..Len(s) : i = 0 \/ h[i] = g[i]}
<1>6. 0 \in P
  OBVIOUS
<1>7. ASSUME NEW i \in 0..Len(s), i \in P /\ i < Len(s) PROVE i + 1 \in P
  <2>1. CASE i = 0
    BY <1>4, <2>1
  <2>2. CASE i # 0
    <3>1. i + 1 \in 2..Len(s) /\ i + 1 \in 0..Len(s) /\ (i + 1) - 1 = i
      BY <1>7, <2>2
    <3> QED BY <1>5, <1>7, <2>2, <3>1
  <2> QED BY <2>1, <2>2
<1> HIDE DEF P
<1>8. \A i \in 0..Len(s) : i \in P
  BY <1>6, <1>7, UpTo
<1>9. h[Len(s)] = g[Len(s)]
  BY <1>8 DEF P
<1> QED BY <1>3, <1>9

\* What is flattened is a sequence of what its parts have.
LEMMA FlattenRange ==
    ASSUME NEW s, Sequence(s), \A i \in DOMAIN s : Sequence(s[i])
    PROVE  /\ Sequence(FlattenSeq(s))
           /\ Range(FlattenSeq(s)) = UNION {Range(s[i]) : i \in DOMAIN s}
<1> DEFINE D == UNION {Range(s[i]) : i \in DOMAIN s}
           S == Seq(D)
           N == Len(s)
           F == [n \in 1..N |-> [x \in S |-> x \o s[n]]]
<1>1. N \in Nat /\ DOMAIN s = 1..N
  BY Positions
<1>2. \A n \in 1..N : s[n] \in S
  <2> TAKE n \in 1..N
  <2>1. s[n] \in Seq(Range(s[n])) /\ Range(s[n]) \subseteq D
    BY <1>1 DEF Sequence
  <2> HIDE DEF D
  <2> QED BY <2>1, SeqMonotonic
<1> HIDE DEF D
<1>3. N \in Nat /\ <<>> \in S /\ F \in [1..N -> [S -> S]]
  <2>1. ASSUME NEW n \in 1..N, NEW x \in S PROVE x \o s[n] \in S
    BY <1>2, ConcatProperties
  <2>2. <<>> \in S
    OBVIOUS
  <2> HIDE DEF S, N
  <2> QED BY <1>1, <2>1, <2>2
<1> HIDE DEF N, F, S
<1>4. PICK g \in [0..N -> S] : g[0] = <<>> /\ \A n \in 1..N : g[n] = F[n][g[n - 1]]
  <2>1. \E g \in [0..N -> S] : g[0] = <<>> /\ \A n \in 1..N : g[n] = F[n][g[n - 1]]
    BY ONLY <1>3, LoopRuns
  <2> QED BY <2>1
<1>5. \A n \in 1..N : g[n - 1] \in S /\ g[n] = g[n - 1] \o s[n]
  <2> TAKE n \in 1..N
  <2>1. n - 1 \in 0..N
    BY <1>1
  <2>2. g[n - 1] \in S /\ g[n] = F[n][g[n - 1]]
    BY <1>4, <2>1
  <2> QED BY <2>2 DEF F
<1> DEFINE P == {n \in 0..N : Sequence(g[n]) /\ Range(g[n]) = UNION {Range(s[i]) : i \in 1..n}}
<1>6. 0 \in P
  <2>1. Sequence(<<>>)
    <3>1. <<>> \in Seq({})
      OBVIOUS
    <3> QED BY <3>1, IsSequence
  <2>2. Range(<<>>) = {} /\ 1..0 = {}
    BY DEF Range
  <2>3. UNION {Range(s[i]) : i \in 1..0} = {}
    BY <2>2
  <2> QED BY <1>1, <1>4, <2>1, <2>2, <2>3
<1>7. ASSUME NEW n \in 0..N, n \in P /\ n < N PROVE n + 1 \in P
  <2>1. n + 1 \in 1..N /\ n + 1 \in 0..N /\ (n + 1) - 1 = n
    BY <1>1, <1>7
  <2>2. g[n + 1] = g[n] \o s[n + 1]
    BY <1>5, <2>1
  <2>3. Sequence(g[n]) /\ Sequence(s[n + 1])
    BY <1>1, <1>7, <2>1
  <2>4. Sequence(g[n + 1]) /\ Range(g[n + 1]) = Range(g[n]) \union Range(s[n + 1])
    BY <2>2, <2>3, RangeOfConcat
  <2>5. UNION {Range(s[i]) : i \in 1..(n + 1)} = (UNION {Range(s[i]) : i \in 1..n}) \union Range(s[n + 1])
    <3>1. 1..(n + 1) = (1..n) \union {n + 1}
      BY <1>1, <1>7
    <3> QED BY <3>1
  <2> QED BY <1>7, <2>1, <2>4, <2>5
<1> HIDE DEF P
<1>8. \A n \in 0..N : n \in P
  BY <1>1, <1>6, <1>7, UpTo
<1>9. Sequence(g[N]) /\ Range(g[N]) = UNION {Range(s[i]) : i \in 1..N}
  <2>1. N \in P
    BY <1>1, <1>8
  <2> QED BY <2>1 DEF P
<1>10. CASE N = 0
  <2>1. FlattenSeq(s) = s
    BY <1>10 DEF FlattenSeq, N
  <2>2. Range(s) = {} /\ DOMAIN s = {}
    BY <1>1, <1>10 DEF Range
  <2> QED BY <2>1, <2>2
<1>11. CASE N # 0
  <2>1. g[1] = s[1]
    <3>1. 1 \in 1..N /\ 1 - 1 = 0
      BY <1>1, <1>11
    <3>2. g[1] = <<>> \o s[1] /\ s[1] \in S
      BY <1>2, <1>4, <1>5, <3>1
    <3> QED BY <3>2, ConcatEmptySeq DEF S
  <2>2. \A i \in 2..N : g[i] = g[i - 1] \o s[i]
    <3>1. \A i \in 2..N : i \in 1..N
      BY <1>1
    <3> QED BY <1>5, <3>1
  <2>3. FlattenSeq(s) = g[N]
    BY <1>1, <1>11, <2>1, <2>2, FlattenIs DEF N
  <2> QED BY <1>1, <1>9, <2>3
<1> QED BY <1>10, <1>11

\* What the loop over the file makes of the classes before.
AfterClass(trees, n, above) == With(above, trees[n].name.key, ClassTree(trees[n], above))

\* There are values that the loop goes through.
LEMMA LoopGoes ==
    ASSUME NEW trees, NEW N \in Nat
    PROVE  \E g : g[0] = <<>> /\ \A n \in 1..N : g[n] = AfterClass(trees, n, g[n - 1])
<1> DEFINE Runs(g, m) == g[0] = <<>> /\ \A n \in 1..m : g[n] = AfterClass(trees, n, g[n - 1])
           P == {m \in 0..N : \E g : Runs(g, m)}
<1>1. 0 \in P
  <2> DEFINE c == [n \in {0} |-> <<>>]
  <2>1. c[0] = <<>> /\ 1..0 = {}
    OBVIOUS
  <2> HIDE DEF c
  <2>2. \E g : Runs(g, 0)
    BY <2>1
  <2> QED BY <2>2
<1>2. ASSUME NEW m \in 0..N, m \in P /\ m < N PROVE m + 1 \in P
  <2>1. PICK g : Runs(g, m)
    BY <1>2
  <2>2. m + 1 \in 0..N /\ m \in Nat
    BY <1>2
  <2> DEFINE v == AfterClass(trees, m + 1, g[m])
             f == [n \in 0..(m + 1) |-> IF n <= m THEN g[n] ELSE v]
  <2>3. f[m + 1] = v /\ \A n \in 0..m : f[n] = g[n]
    <3> HIDE DEF v
    <3>1. m + 1 \in 0..(m + 1) /\ ~(m + 1 <= m) /\ \A n \in 0..m : n \in 0..(m + 1) /\ n <= m
      BY <2>2
    <3> QED BY <3>1
  <2> HIDE DEF f
  <2>4. ASSUME NEW n \in 1..(m + 1) PROVE f[n] = AfterClass(trees, n, f[n - 1])
    <3>1. n - 1 \in 0..m
      BY <2>2
    <3>2. CASE n = m + 1
      <4>1. n - 1 = m
        BY <2>2, <3>2
      <4>2. f[n - 1] = g[m] /\ f[n] = v
        BY <2>3, <3>1, <3>2, <4>1
      <4> QED BY <3>2, <4>2
    <3>3. CASE n # m + 1
      <4>1. n \in 1..m /\ n \in 0..m
        BY <2>2, <3>3
      <4>2. f[n - 1] = g[n - 1] /\ f[n] = g[n]
        BY <2>3, <3>1, <4>1
      <4> QED BY <2>1, <4>1, <4>2
    <3> QED BY <3>2, <3>3
  <2>5. f[0] = <<>>
    BY <2>1, <2>2, <2>3
  <2>6. Runs(f, m + 1)
    BY <2>4, <2>5
  <2> QED BY <2>2, <2>6
<1> HIDE DEF P
<1>3. \A m \in 0..N : m \in P
  BY <1>1, <1>2, UpTo
<1>4. N \in P
  BY <1>3
<1> QED BY <1>4 DEF P

\* The map of the classes is the last of them.
LEMMA ClassMapIs ==
    ASSUME NEW trees, Sequence(trees), trees # Null, NEW g, g[0] = <<>>,
           \A n \in 1..Len(trees) : g[n] = AfterClass(trees, n, g[n - 1])
    PROVE  BuildClassMap(trees) = g[Len(trees)]
<1> DEFINE N == Len(trees)
           Loop(f) == [n \in 0..N |->
                         IF n = 0 THEN <<>>
                         ELSE With(f[n - 1], trees[n].name.key, ClassTree(trees[n], f[n - 1]))]
           e == [n \in 0..N |-> g[n]]
           h == CHOOSE f : f = Loop(f)
<1>1. N \in Nat
  BY Positions
<1>2. BuildClassMap(trees) = h[N]
  BY DEF BuildClassMap
<1>3. Loop(e) = [n \in 0..N |-> IF n = 0 THEN <<>> ELSE AfterClass(trees, n, e[n - 1])]
  BY DEF AfterClass
<1>4. e = Loop(e)
  <2> HIDE DEF Loop
  <2>1. ASSUME NEW n \in 0..N PROVE e[n] = IF n = 0 THEN <<>> ELSE AfterClass(trees, n, e[n - 1])
    <3>1. n # 0 => n \in 1..N /\ n - 1 \in 0..N /\ e[n - 1] = g[n - 1]
      BY <1>1
    <3> QED BY <3>1
  <2> HIDE DEF e
  <2>2. e = [n \in 0..N |-> e[n]]
    BY DEF e
  <2> QED BY <1>3, <2>1, <2>2
<1>5. h = Loop(h)
  <2> HIDE DEF Loop, e
  <2> QED BY <1>4
<1> HIDE DEF h
<1>6. h[0] = <<>> /\ \A n \in 1..N : h[n] = AfterClass(trees, n, h[n - 1])
  <2>1. h = [n \in 0..N |-> IF n = 0 THEN <<>> ELSE AfterClass(trees, n, h[n - 1])]
    BY <1>5 DEF AfterClass
  <2>2. 0 \in 0..N /\ \A n \in 1..N : n \in 0..N /\ n # 0
    BY <1>1
  <2> QED BY <2>1, <2>2
<1> HIDE DEF Loop, N
<1> DEFINE P == {n \in 0..N : h[n] = g[n]}
<1>7. 0 \in P
  BY <1>1, <1>6
<1>8. ASSUME NEW n \in 0..N, n \in P /\ n < N PROVE n + 1 \in P
  <2>1. n + 1 \in 1..N /\ n + 1 \in 0..N /\ (n + 1) - 1 = n
    BY <1>1, <1>8
  <2>2. h[n + 1] = AfterClass(trees, n + 1, h[n]) /\ g[n + 1] = AfterClass(trees, n + 1, g[n])
    BY <1>6, <2>1 DEF N
  <2> QED BY <1>8, <2>1, <2>2
<1> HIDE DEF P
<1>9. \A n \in 0..N : n \in P
  BY <1>1, <1>7, <1>8, UpTo
<1>10. h[N] = g[N]
  <2>1. N \in P
    BY <1>1, <1>9
  <2> QED BY <2>1 DEF P
<1> QED BY <1>2, <1>10 DEF N

\* A class is joined with those before it in the file.
LEMMA ClassMap ==
    ASSUME NEW trees, Sequence(trees), trees # Null,
           \A i, j \in DOMAIN trees : trees[i].name.key = trees[j].name.key => i = j
    PROVE  \E g : \A n \in 0..Len(trees) :
             /\ DOMAIN g[n] = {trees[k].name.key : k \in 1..n}
             /\ \A k \in 1..n : g[n][trees[k].name.key] = ClassTree(trees[k], g[k - 1])
             /\ BuildClassMap(trees) = g[Len(trees)]
<1> DEFINE N == Len(trees)
           key(k) == trees[k].name.key
<1>1. N \in Nat /\ DOMAIN trees = 1..N
  BY Positions
<1>2. PICK g : g[0] = <<>> /\ \A n \in 1..N : g[n] = AfterClass(trees, n, g[n - 1])
  <2> HIDE DEF N
  <2>1. \E g : g[0] = <<>> /\ \A n \in 1..N : g[n] = AfterClass(trees, n, g[n - 1])
    BY ONLY <1>1, LoopGoes
  <2> QED BY <2>1
<1>3. BuildClassMap(trees) = g[N]
  BY <1>2, ClassMapIs DEF N
<1> DEFINE tree(k) == ClassTree(trees[k], g[k - 1])
           Holds(n) == /\ DOMAIN g[n] = {key(k) : k \in 1..n}
                       /\ \A k \in 1..n : g[n][key(k)] = tree(k)
           P == {n \in 0..N : Holds(n)}
<1>4. 0 \in P
  <2>1. 1..0 = {} /\ DOMAIN <<>> = {}
    OBVIOUS
  <2> HIDE DEF key, tree, N
  <2> QED BY <1>1, <1>2, <2>1
<1>5. ASSUME NEW n \in 0..N, n \in P /\ n < N PROVE n + 1 \in P
  <2>1. n + 1 \in 1..N /\ n + 1 \in 0..N /\ (n + 1) - 1 = n /\ n \in Nat
    BY <1>1, <1>5
  <2>2. g[n + 1] = With(g[n], key(n + 1), tree(n + 1))
    <3>1. g[n + 1] = AfterClass(trees, n + 1, g[n])
      BY <1>2, <2>1
    <3> QED BY <2>1, <3>1 DEF AfterClass
  <2>3. \A i \in 1..n : i \in 1..N /\ key(i) # key(n + 1)
    <3> TAKE i \in 1..n
    <3>1. i \in 1..N /\ i # n + 1
      BY <1>1, <2>1
    <3> QED BY <1>1, <2>1, <3>1
  <2> HIDE DEF tree, key
  <2>4. g[n + 1] = [k \in {key(n + 1)} \union DOMAIN g[n] |-> IF k = key(n + 1) THEN tree(n + 1) ELSE g[n][k]]
    BY <2>2 DEF With
  <2>5. DOMAIN g[n + 1] = {key(k) : k \in 1..(n + 1)}
    <3>1. 1..(n + 1) = (1..n) \union {n + 1}
      BY <2>1
    <3>2. DOMAIN g[n] = {key(k) : k \in 1..n}
      BY <1>5
    <3> QED BY <2>4, <3>1, <3>2
  <2>6. ASSUME NEW k \in 1..(n + 1) PROVE g[n + 1][key(k)] = tree(k)
    <3>1. CASE k = n + 1
      BY <2>4, <3>1
    <3>2. CASE k # n + 1
      <4>1. k \in 1..n
        BY <2>1, <3>2
      <4>2. key(k) \in DOMAIN g[n] /\ key(k) # key(n + 1) /\ g[n][key(k)] = tree(k)
        BY <1>5, <2>3, <4>1
      <4> QED BY <2>4, <4>2
    <3> QED BY <3>1, <3>2
  <2>7. Holds(n + 1)
    BY <2>5, <2>6
  <2> HIDE DEF Holds
  <2> QED BY <2>1, <2>7
<1> HIDE DEF P, tree, key
<1>6. \A n \in 0..N : n \in P
  BY <1>1, <1>4, <1>5, UpTo
<1> QED BY <1>3, <1>6 DEF P, tree, key

\* A function on 1..N is a sequence.
LEMMA MapSequence ==
    ASSUME NEW N \in Nat, NEW f, f = [k \in 1..N |-> f[k]]
    PROVE  Sequence(f) /\ Len(f) = N
<1>1. f \in [1..N -> Range(f)]
  BY DEF Range
<1>2. f \in Seq(Range(f))
  BY <1>1, SeqDef
<1>3. DOMAIN f = 1..N
  BY <1>1
<1>4. Len(f) \in Nat /\ DOMAIN f = 1..Len(f)
  BY <1>2, LenProperties
<1>5. Len(f) = N
  BY <1>3, <1>4
<1> QED BY <1>2, <1>5 DEF Sequence

-----------------------------------------------------------------------------
(* One class of the map.                                                   *)

\* What a class offers is told by name, each once.
Offers(tree) == Sequence(tree) /\ NamesOnce(tree) /\ \A x \in Range(tree) : "unusable" \in DOMAIN x

\* A class's own skills are all usable.
LEMMA OwnIs ==
    ASSUME NEW class, Sequence(class.skills)
    PROVE  /\ Sequence(Own(class))
           /\ {x.aegis : x \in Range(Own(class))} = {sk.aegis : sk \in ToSet(class.skills)}
           /\ \A x \in Range(Own(class)) : "unusable" \in DOMAIN x /\ ~x.unusable
<1> DEFINE own == Own(class)
           row(k) == [aegis |-> class.skills[k].aegis, max |-> class.skills[k].max, unusable |-> FALSE]
<1>1. Len(class.skills) \in Nat /\ DOMAIN class.skills = 1..Len(class.skills)
  BY Positions
<1>2. own = [k \in 1..Len(class.skills) |-> row(k)]
  BY <1>1 DEF Own
<1>3. \A k : row(k).aegis = class.skills[k].aegis /\ "unusable" \in DOMAIN row(k) /\ ~row(k).unusable
  OBVIOUS
<1> HIDE DEF own, row
<1>4. Sequence(own)
  BY <1>1, <1>2, MapSequence
<1>5. Range(own) = {row(k) : k \in 1..Len(class.skills)}
  BY <1>2 DEF Range
<1>6. {x.aegis : x \in Range(own)} = {sk.aegis : sk \in ToSet(class.skills)}
  BY <1>1, <1>3, <1>5 DEF ToSet
<1>7. \A x \in Range(own) : "unusable" \in DOMAIN x /\ ~x.unusable
  BY <1>3, <1>5
<1> QED BY <1>4, <1>6, <1>7 DEF own

\* flattenSkills: what the parents that are there offer, and the class's own.
LEMMA FlattenedIs ==
    ASSUME NEW class, NEW above, Sequence(class.inherit), Sequence(class.skills),
           \A n \in ToSet(class.inherit) : n.key \in DOMAIN above => Offers(above[n.key].skills)
    PROVE  LET flat  == Flattened(class, above)
               found == {n \in ToSet(class.inherit) : n.key \in DOMAIN above}
               all   == (UNION {Range(above[n.key].skills) : n \in found}) \union Range(Own(class))
           IN /\ Offers(flat)
              /\ Range(flat) \subseteq all
              /\ {x.aegis : x \in Range(flat)} = {x.aegis : x \in all}
<1> DEFINE from(n) == IF n.key \in DOMAIN above THEN above[n.key].skills ELSE <<>>
           parts == [k \in DOMAIN class.inherit |-> from(class.inherit[k])]
           ups == FlattenSeq(parts)
           found == {n \in ToSet(class.inherit) : n.key \in DOMAIN above}
           up == UNION {Range(above[n.key].skills) : n \in found}
           all == up \union Range(Own(class))
           flat == FirstNamed(ups \o Own(class))
<1>1. flat = Flattened(class, above)
  BY DEF Flattened
<1>2. Len(class.inherit) \in Nat /\ DOMAIN class.inherit = 1..Len(class.inherit)
  BY Positions
<1>3. Sequence(<<>>) /\ Range(<<>>) = {}
  <2>1. Sequence(<<>>)
    <3>1. <<>> \in Seq({})
      OBVIOUS
    <3> QED BY <3>1, IsSequence
  <2>2. Range(<<>>) = {}
    BY DEF Range
  <2> QED BY <2>1, <2>2
<1>4. ASSUME NEW k \in DOMAIN class.inherit
      PROVE  /\ Sequence(parts[k])
             /\ class.inherit[k] \in found => Range(parts[k]) = Range(above[class.inherit[k].key].skills)
             /\ class.inherit[k] \notin found => Range(parts[k]) = {}
  <2>1. class.inherit[k] \in ToSet(class.inherit)
    BY DEF ToSet
  <2>2. CASE class.inherit[k].key \in DOMAIN above
    BY <2>1, <2>2 DEF Offers
  <2>3. CASE class.inherit[k].key \notin DOMAIN above
    BY <1>3, <2>1, <2>3
  <2> QED BY <2>2, <2>3
<1>5. Sequence(parts) /\ DOMAIN parts = DOMAIN class.inherit
  BY <1>2, MapSequence
<1> HIDE DEF parts
<1>6. Sequence(ups) /\ Range(ups) = UNION {Range(parts[k]) : k \in DOMAIN parts}
  BY <1>4, <1>5, FlattenRange
<1>7. UNION {Range(parts[k]) : k \in DOMAIN parts} = up
  <2>1. \A n \in found : \E k \in DOMAIN class.inherit : n = class.inherit[k]
    BY DEF ToSet
  <2> HIDE DEF found
  <2> QED BY <1>4, <1>5, <2>1
<1>8. \A x \in up : "unusable" \in DOMAIN x
  BY DEF Offers
<1> HIDE DEF ups, up
<1>9. Sequence(ups \o Own(class)) /\ Range(ups \o Own(class)) = all
  BY <1>6, <1>7, OwnIs, RangeOfConcat
<1>10. \A x \in all : "unusable" \in DOMAIN x
  BY <1>8, OwnIs
<1> HIDE DEF all
<1>11. /\ Sequence(flat) /\ NamesOnce(flat) /\ Range(flat) \subseteq all
       /\ {x.aegis : x \in Range(flat)} = {x.aegis : x \in all}
  BY <1>9, FirstNamedIs
<1> HIDE DEF flat
<1>12. Offers(flat)
  BY <1>10, <1>11 DEF Offers
<1> QED BY <1>1, <1>11, <1>12 DEF all, up, found

\* Flagging a skill changes its flag only.
LEMMA FlaggedIs ==
    ASSUME NEW y, "unusable" \in DOMAIN y, NEW v
    PROVE  LET r == [y EXCEPT !.unusable = v] IN
           r.aegis = y.aegis /\ DOMAIN r = DOMAIN y /\ r.unusable = v
OBVIOUS

\* filterSkills and markUnusable.
LEMMA ClassTreeIs ==
    ASSUME NEW class, NEW above, Offers(Flattened(class, above))
    PROVE  LET key  == class.name.key
               flat == Flattened(class, above)
               tree == ClassTree(class, above).skills
           IN /\ Offers(tree)
              /\ \A x \in Range(tree) : \E y \in Range(flat) :
                   /\ y.aegis = x.aegis /\ key \notin Drops(x.aegis)
                   /\ x.unusable <=> y.unusable \/ key \in Flags(x.aegis)
              /\ \A y \in Range(flat) : key \notin Drops(y.aegis) =>
                   \E x \in Range(tree) : x.aegis = y.aegis
<1> DEFINE key  == class.name.key
           flat == Flattened(class, above)
           K    == {k \in DOMAIN flat : flat[k].aegis \notin Listed(usabilityExclusions, key)}
           kept == Sifted(flat, K)
           row(k) == [kept[k] EXCEPT !.unusable = @ \/ kept[k].aegis \in Listed(unusableSkills, key)]
           tree == ClassTree(class, above).skills
<1>1. tree = [k \in DOMAIN kept |-> row(k)]
  BY DEF ClassTree
<1>2. \A a : a \in Listed(usabilityExclusions, key) <=> key \in Drops(a)
  BY DEF Listed, Drops
<1>3. \A a : a \in Listed(unusableSkills, key) <=> key \in Flags(a)
  BY DEF Listed, Flags
<1>4. Offers(flat)
  OBVIOUS
<1> HIDE DEF flat, key, tree
<1>5. /\ Sequence(kept) /\ NamesOnce(kept)
      /\ Range(kept) = {flat[k] : k \in K \intersect DOMAIN flat}
  BY <1>4, SiftedRange, SiftedOnce DEF Offers, NamesOnce
<1>6. Len(kept) \in Nat /\ DOMAIN kept = 1..Len(kept)
  BY <1>5, Positions
<1>7. /\ \A y \in Range(kept) : y \in Range(flat) /\ key \notin Drops(y.aegis) /\ "unusable" \in DOMAIN y
      /\ \A y \in Range(flat) : key \notin Drops(y.aegis) => y \in Range(kept)
  BY <1>2, <1>4, <1>5 DEF Offers, Range
<1> HIDE DEF kept
<1>8. ASSUME NEW k \in DOMAIN kept
      PROVE  /\ row(k).aegis = kept[k].aegis /\ "unusable" \in DOMAIN row(k)
             /\ row(k).unusable <=> kept[k].unusable \/ key \in Flags(kept[k].aegis)
  <2>1. "unusable" \in DOMAIN kept[k]
    BY <1>7 DEF Range
  <2> DEFINE v == kept[k].unusable \/ kept[k].aegis \in Listed(unusableSkills, key)
  <2>2. row(k) = [kept[k] EXCEPT !.unusable = v]
    OBVIOUS
  <2>3. v <=> kept[k].unusable \/ key \in Flags(kept[k].aegis)
    BY <1>3
  <2> HIDE DEF v, row
  <2>4. row(k).aegis = kept[k].aegis /\ DOMAIN row(k) = DOMAIN kept[k] /\ row(k).unusable = v
    BY <2>1, <2>2, FlaggedIs
  <2>5. row(k).unusable <=> kept[k].unusable \/ key \in Flags(kept[k].aegis)
    BY ONLY <2>3, <2>4, Zenon
  <2> QED BY <2>1, <2>4, <2>5
<1> HIDE DEF row
<1>9. Sequence(tree)
  BY <1>1, <1>6, MapSequence
<1>10. NamesOnce(tree)
  BY <1>1, <1>5, <1>8 DEF NamesOnce
<1>11. \A x \in Range(tree) : \E k \in DOMAIN kept : x = row(k)
  BY <1>1 DEF Range
<1>12. Offers(tree)
  BY <1>8, <1>9, <1>10, <1>11 DEF Offers
<1>13. ASSUME NEW x \in Range(tree)
       PROVE  \E y \in Range(flat) : /\ y.aegis = x.aegis /\ key \notin Drops(x.aegis)
                                     /\ x.unusable <=> y.unusable \/ key \in Flags(x.aegis)
  <2>1. PICK k \in DOMAIN kept : x = row(k)
    BY <1>11
  <2>2. kept[k] \in Range(kept)
    BY DEF Range
  <2> QED BY <1>7, <1>8, <2>1, <2>2
<1>14. ASSUME NEW y \in Range(flat), key \notin Drops(y.aegis)
       PROVE  \E x \in Range(tree) : x.aegis = y.aegis
  <2>1. PICK k \in DOMAIN kept : y = kept[k]
    BY <1>7, <1>14 DEF Range
  <2>2. row(k) \in Range(tree)
    BY <1>1 DEF Range
  <2> QED BY <1>8, <2>1, <2>2
<1> QED BY <1>12, <1>13, <1>14 DEF flat, key, tree

-----------------------------------------------------------------------------
(* What a class grew out of.                                               *)

\* The way from a class has the class itself,
LEMMA WayStarts ==
    ASSUME NEW trees, NEW key \in Names(trees), NEW barred, key \notin barred
    PROVE  key \in Way(trees, key, barred)
BY DEF Way

\* and the ways from those it grew out of,
LEMMA WayGoesOn ==
    ASSUME NEW trees, NEW barred, NEW c \in ToSet(trees), NEW n \in ToSet(c.inherit),
           c.name.key \notin barred
    PROVE  Way(trees, n.key, barred) \subseteq Way(trees, c.name.key, barred)
<1> SUFFICES ASSUME NEW w \in Way(trees, n.key, barred), NEW T \in SUBSET Names(trees),
                    c.name.key \in T, GrownFrom(trees, T, barred)
             PROVE  w \in T
  BY DEF Way
<1>1. {n.key} \ barred \subseteq T
  BY DEF GrownFrom
<1> QED BY <1>1 DEF Way

\* and nothing else.
LEMMA WayComesFrom ==
    ASSUME NEW trees, NEW barred, NEW c \in ToSet(trees),
           \A d \in ToSet(trees) : d.name.key = c.name.key => d = c,
           \A d \in ToSet(trees) : \A n \in ToSet(d.inherit) : n.key \in Names(trees),
           NEW w \in Way(trees, c.name.key, barred)
    PROVE  /\ c.name.key \notin barred
           /\ w = c.name.key \/ \E n \in ToSet(c.inherit) : w \in Way(trees, n.key, barred)
<1> DEFINE key == c.name.key
           T == {key} \union UNION {Way(trees, n.key, barred) : n \in ToSet(c.inherit)}
<1>1. c.name.key \notin barred
  <2> SUFFICES ASSUME c.name.key \in barred PROVE FALSE
    OBVIOUS
  <2>1. {} \in SUBSET Names(trees) /\ {c.name.key} \ barred \subseteq {} /\ GrownFrom(trees, {}, barred)
    BY DEF GrownFrom
  <2>2. w \in {}
    BY <2>1 DEF Way
  <2> QED BY <2>2
<1>2. T \in SUBSET Names(trees)
  <2>1. key \in Names(trees)
    BY DEF Names
  <2>2. \A n \in ToSet(c.inherit) : Way(trees, n.key, barred) \subseteq Names(trees)
    BY DEF Way
  <2> QED BY <2>1, <2>2
<1>3. ASSUME NEW d \in ToSet(trees), d.name.key \in T, NEW m \in ToSet(d.inherit), m.key \notin barred
      PROVE  m.key \in T
  <2>1. m.key \in Names(trees)
    OBVIOUS
  <2>2. m.key \in Way(trees, m.key, barred)
    BY <1>3, <2>1, WayStarts
  <2>3. CASE d.name.key = key
    BY <2>2, <2>3
  <2>4. CASE d.name.key # key
    <3>1. PICK n \in ToSet(c.inherit) : d.name.key \in Way(trees, n.key, barred)
      BY <1>3, <2>4
    <3>2. m.key \in Way(trees, n.key, barred)
      <4> SUFFICES ASSUME NEW S \in SUBSET Names(trees), {n.key} \ barred \subseteq S,
                          GrownFrom(trees, S, barred)
                   PROVE  m.key \in S
        BY <1>3, <2>1 DEF Way
      <4>1. d.name.key \in S
        BY <3>1 DEF Way
      <4> QED BY <1>3, <4>1 DEF GrownFrom
    <3> QED BY <3>2
  <2> QED BY <2>3, <2>4
<1>4. GrownFrom(trees, T, barred)
  <2> HIDE DEF T
  <2> QED BY <1>3 DEF GrownFrom
<1>5. {key} \ barred \subseteq T
  OBVIOUS
<1>6. w \in T
  <2> HIDE DEF T
  <2> QED BY <1>2, <1>4, <1>5 DEF Way
<1> QED BY <1>1, <1>6

\* A class offers what it should: ServesTrees, of one class.
ServesClass(trees, key, tree) ==
  /\ Offers(tree)
  /\ \A a : a \in {x.aegis : x \in Range(tree)} <=>
              Way(trees, key, Drops(a)) \intersect Lists(trees, a) # {}
  /\ \A x \in Range(tree) :
       /\ x.unusable => Way(trees, key, Drops(x.aegis)) \intersect Flags(x.aegis) # {}
       /\ ~x.unusable =>
            Way(trees, key, Drops(x.aegis) \union Flags(x.aegis)) \intersect Lists(trees, x.aegis) # {}

\* What every class of a file in order knows of those it names.
LEMMA OneClass ==
    ASSUME NEW trees, NEW c \in ToSet(trees), NEW above,
           \A d \in ToSet(trees) : d.name.key = c.name.key => d = c,
           \A d \in ToSet(trees) : \A n \in ToSet(d.inherit) : n.key \in Names(trees),
           Sequence(c.inherit), Sequence(c.skills),
           \A n \in ToSet(c.inherit) :
             n.key \in DOMAIN above /\ ServesClass(trees, n.key, above[n.key].skills)
    PROVE  ServesClass(trees, c.name.key, ClassTree(c, above).skills)
<1> DEFINE key  == c.name.key
           flat == Flattened(c, above)
           tree == ClassTree(c, above).skills
           own  == Range(Own(c))
           up   == UNION {Range(above[n.key].skills) : n \in ToSet(c.inherit)}
<1>1. key \in Names(trees)
  BY DEF Names
<1>2. /\ Offers(flat) /\ Range(flat) \subseteq up \union own
      /\ {x.aegis : x \in Range(flat)} = {x.aegis : x \in up \union own}
  <2>1. {n \in ToSet(c.inherit) : n.key \in DOMAIN above} = ToSet(c.inherit)
    OBVIOUS
  <2>2. \A n \in ToSet(c.inherit) : Offers(above[n.key].skills)
    BY DEF ServesClass
  <2> HIDE DEF flat, own
  <2> QED BY <2>1, <2>2, FlattenedIs DEF flat, own
<1>3. /\ Offers(tree)
      /\ \A x \in Range(tree) : \E y \in Range(flat) :
           /\ y.aegis = x.aegis /\ key \notin Drops(x.aegis)
           /\ x.unusable <=> y.unusable \/ key \in Flags(x.aegis)
      /\ \A y \in Range(flat) : key \notin Drops(y.aegis) => \E x \in Range(tree) : x.aegis = y.aegis
  BY <1>2, ClassTreeIs
<1>4. /\ {x.aegis : x \in own} = {sk.aegis : sk \in ToSet(c.skills)}
      /\ \A x \in own : ~x.unusable
  BY OwnIs
<1> HIDE DEF flat, tree, own
<1>5. \A a : key \in Lists(trees, a) <=> a \in {x.aegis : x \in own}
  BY <1>4 DEF Lists
<1>6. ASSUME NEW barred, key \notin barred, NEW n \in ToSet(c.inherit), NEW S,
             Way(trees, n.key, barred) \intersect S # {}
      PROVE  Way(trees, key, barred) \intersect S # {}
  BY <1>6, WayGoesOn
<1>7. ASSUME NEW barred, key \notin barred, NEW S, key \in S
      PROVE  Way(trees, key, barred) \intersect S # {}
  BY <1>1, <1>7, WayStarts
<1>8. ASSUME NEW y \in up
      PROVE  \E n \in ToSet(c.inherit) :
               /\ Way(trees, n.key, Drops(y.aegis)) \intersect Lists(trees, y.aegis) # {}
               /\ y.unusable => Way(trees, n.key, Drops(y.aegis)) \intersect Flags(y.aegis) # {}
               /\ ~y.unusable =>
                    Way(trees, n.key, Drops(y.aegis) \union Flags(y.aegis)) \intersect Lists(trees, y.aegis) # {}
  <2>1. PICK n \in ToSet(c.inherit) : y \in Range(above[n.key].skills)
    OBVIOUS
  <2> QED BY <2>1 DEF ServesClass
<1>9. ASSUME NEW a, a \in {x.aegis : x \in Range(tree)}
      PROVE  Way(trees, key, Drops(a)) \intersect Lists(trees, a) # {}
  <2>1. PICK y \in Range(flat) : y.aegis = a /\ key \notin Drops(a)
    BY <1>3, <1>9
  <2>2. CASE y \in own
    BY <1>5, <1>7, <2>1, <2>2
  <2>3. CASE y \in up
    BY <1>6, <1>8, <2>1, <2>3
  <2> QED BY <1>2, <2>2, <2>3
<1>10. ASSUME NEW a, Way(trees, key, Drops(a)) \intersect Lists(trees, a) # {}
       PROVE  a \in {x.aegis : x \in Range(tree)}
  <2>1. PICK w \in Way(trees, key, Drops(a)) : w \in Lists(trees, a)
    BY <1>10
  <2>2. /\ key \notin Drops(a)
        /\ w = key \/ \E n \in ToSet(c.inherit) : w \in Way(trees, n.key, Drops(a))
    BY WayComesFrom
  <2>3. a \in {x.aegis : x \in up \union own}
    <3>1. CASE w = key
      BY <1>5, <2>1, <3>1
    <3>2. ASSUME NEW n \in ToSet(c.inherit), w \in Way(trees, n.key, Drops(a))
          PROVE  a \in {x.aegis : x \in up}
      <4>1. a \in {x.aegis : x \in Range(above[n.key].skills)}
        BY <2>1, <3>2 DEF ServesClass
      <4> QED BY <4>1
    <3> QED BY <2>2, <3>1, <3>2
  <2>4. PICK y \in Range(flat) : y.aegis = a
    BY <1>2, <2>3
  <2> QED BY <1>3, <2>2, <2>4
<1>11. ASSUME NEW x \in Range(tree), x.unusable
       PROVE  Way(trees, key, Drops(x.aegis)) \intersect Flags(x.aegis) # {}
  <2>1. PICK y \in Range(flat) : /\ y.aegis = x.aegis /\ key \notin Drops(x.aegis)
                                 /\ x.unusable <=> y.unusable \/ key \in Flags(x.aegis)
    BY <1>3
  <2>2. CASE key \in Flags(x.aegis)
    BY <1>7, <2>1, <2>2
  <2>3. CASE key \notin Flags(x.aegis)
    <3>1. y.unusable
      BY <1>11, <2>1, <2>3
    <3>2. y \in up
      BY <1>2, <1>4, <3>1
    <3>3. PICK n \in ToSet(c.inherit) : Way(trees, n.key, Drops(y.aegis)) \intersect Flags(y.aegis) # {}
      BY <1>8, <3>1, <3>2
    <3> QED BY <1>6, <2>1, <3>3
  <2> QED BY <2>2, <2>3
<1>12. ASSUME NEW x \in Range(tree), ~x.unusable
       PROVE  Way(trees, key, Drops(x.aegis) \union Flags(x.aegis)) \intersect Lists(trees, x.aegis) # {}
  <2>1. PICK y \in Range(flat) : /\ y.aegis = x.aegis /\ key \notin Drops(x.aegis)
                                 /\ x.unusable <=> y.unusable \/ key \in Flags(x.aegis)
    BY <1>3
  <2>2. ~y.unusable /\ key \notin Drops(x.aegis) \union Flags(x.aegis)
    BY <1>12, <2>1
  <2>3. CASE y \in own
    <3>1. key \in Lists(trees, x.aegis)
      BY <1>5, <2>1, <2>3
    <3> QED BY <1>7, <2>2, <3>1
  <2>4. CASE y \in up
    <3>1. PICK n \in ToSet(c.inherit) :
            Way(trees, n.key, Drops(y.aegis) \union Flags(y.aegis)) \intersect Lists(trees, y.aegis) # {}
      BY <1>8, <2>2, <2>4
    <3> QED BY <1>6, <2>1, <2>2, <3>1
  <2> QED BY <1>2, <2>3, <2>4
<1> QED BY <1>3, <1>9, <1>10, <1>11, <1>12 DEF ServesClass, tree

\* By induction over the file, every class offers what ServesTrees says.
LEMMA TreesServed ==
    ASSUME NEW s, Files(s), NEW data, data.classes = BuildClassMap(s.trees)
    PROVE  ServesTrees(s, data)
<1> SUFFICES ASSUME s.trees # Null, InOrder(s.trees) PROVE ServesTrees(s, data)
  BY DEF ServesTrees
<1> DEFINE trees == s.trees
           N == Len(trees)
           key(k) == trees[k].name.key
<1>1. Sequence(trees) /\ N \in Nat /\ DOMAIN trees = 1..N
  BY Positions DEF Files
<1>2. \A c \in ToSet(trees) : Sequence(c.inherit) /\ Sequence(c.skills)
  BY DEF Files
<1>3. \A i, j \in DOMAIN trees : key(i) = key(j) => i = j
  BY DEF InOrder, Unrepeated, IsInjective
<1>4. \A k \in DOMAIN trees : \A n \in ToSet(trees[k].inherit) : \E j \in 1..(k - 1) : key(j) = n.key
  BY DEF InOrder
<1> HIDE DEF trees
<1>5. \A k \in 1..N : trees[k] \in ToSet(trees)
  BY <1>1 DEF ToSet
<1>6. \A c \in ToSet(trees) : \E k \in 1..N : c = trees[k]
  BY <1>1 DEF ToSet
<1>7. ASSUME NEW d \in ToSet(trees), NEW n \in ToSet(d.inherit) PROVE n.key \in Names(trees)
  <2>1. PICK k \in 1..N : d = trees[k]
    BY <1>6
  <2>2. PICK j \in 1..(k - 1) : key(j) = n.key
    BY <1>1, <1>4, <2>1
  <2>3. j \in 1..N
    BY <1>1, <2>1
  <2> QED BY <1>5, <2>2, <2>3 DEF Names
<1>8. PICK g : \A n \in 0..N :
        /\ DOMAIN g[n] = {key(k) : k \in 1..n}
        /\ \A k \in 1..n : g[n][key(k)] = ClassTree(trees[k], g[k - 1])
        /\ BuildClassMap(trees) = g[N]
  BY <1>1, <1>3, ClassMap DEF trees
<1> DEFINE tree(k) == ClassTree(trees[k], g[k - 1])
           P == {m \in 0..N : \A k \in 1..m : ServesClass(trees, key(k), tree(k).skills)}
<1>9. 0 \in P
  BY <1>1
<1>10. ASSUME NEW m \in 0..N, m \in P /\ m < N PROVE m + 1 \in P
  <2>1. m + 1 \in 1..N /\ m + 1 \in 0..N /\ (m + 1) - 1 = m /\ m \in Nat
    BY <1>1, <1>10
  <2> DEFINE c == trees[m + 1]
  <2>2. c \in ToSet(trees) /\ Sequence(c.inherit) /\ Sequence(c.skills)
    BY <1>2, <1>5, <2>1 DEF trees
  <2>3. \A d \in ToSet(trees) : d.name.key = c.name.key => d = c
    BY <1>1, <1>3, <1>6, <2>1
  <2>4. ASSUME NEW n \in ToSet(c.inherit)
        PROVE  n.key \in DOMAIN g[m] /\ ServesClass(trees, n.key, g[m][n.key].skills)
    <3>1. PICK j \in 1..m : key(j) = n.key
      BY <1>1, <1>4, <2>1
    <3>2. j \in 1..m /\ n.key \in DOMAIN g[m] /\ g[m][n.key] = tree(j)
      BY <1>8, <3>1
    <3> QED BY <1>10, <3>1, <3>2
  <2>5. ServesClass(trees, c.name.key, ClassTree(c, g[m]).skills)
    <3> HIDE DEF c
    <3> QED BY <1>7, <2>2, <2>3, <2>4, OneClass
  <2>6. ServesClass(trees, key(m + 1), tree(m + 1).skills)
    BY <2>1, <2>5
  <2>7. \A k \in 1..(m + 1) : k \in 1..m \/ k = m + 1
    BY <2>1
  <2> HIDE DEF tree, key
  <2> QED BY <1>10, <2>1, <2>6, <2>7
<1> HIDE DEF P
<1>11. \A m \in 0..N : m \in P
  BY <1>1, <1>9, <1>10, UpTo
<1>12. \A k \in 1..N : ServesClass(trees, key(k), tree(k).skills)
  <2>1. N \in P
    BY <1>1, <1>11
  <2> QED BY <2>1 DEF P
<1>13. ASSUME NEW c \in ToSet(trees)
       PROVE  ServesClass(trees, c.name.key, data.classes[c.name.key].skills)
  <2>1. PICK k \in 1..N : c = trees[k]
    BY <1>6
  <2>2. data.classes = g[N] /\ g[N][key(k)] = tree(k)
    <3>1. N \in 0..N
      BY <1>1
    <3> QED BY <1>8, <3>1 DEF trees
  <2> HIDE DEF tree
  <2> QED BY <1>12, <2>1, <2>2
<1>14. ASSUME NEW c \in ToSet(trees)
       PROVE  LET way(barred) == Way(trees, c.name.key, barred)
                  has(aegis)  == Lists(trees, aegis)
                  offers      == data.classes[c.name.key].skills
                  offered     == {sk.aegis : sk \in ToSet(offers)}
              IN /\ Unrepeated(offers, LAMBDA sk : sk.aegis)
                 /\ \A aegis \in offered \union UNION {{sk.aegis : sk \in ToSet(d.skills)} : d \in ToSet(trees)} :
                      aegis \in offered <=> way(Drops(aegis)) \intersect has(aegis) # {}
                 /\ \A sk \in ToSet(offers) :
                      IF sk.unusable
                        THEN way(Drops(sk.aegis)) \intersect Flags(sk.aegis) # {}
                        ELSE way(Drops(sk.aegis) \union Flags(sk.aegis)) \intersect has(sk.aegis) # {}
  <2> DEFINE offers == data.classes[c.name.key].skills
  <2>1. ServesClass(trees, c.name.key, offers)
    BY <1>13
  <2>2. ToSet(offers) = Range(offers)
    BY DEF ToSet, Range
  <2> HIDE DEF offers
  <2>3. Unrepeated(offers, LAMBDA sk : sk.aegis)
    BY <2>1 DEF ServesClass, Offers, NamesOnce, Unrepeated, IsInjective
  <2> QED BY <2>1, <2>2, <2>3 DEF ServesClass, offers
<1> QED BY <1>14 DEF ServesTrees, trees

\* A finite set of numbers has a bound.
LEMMA Bounded ==
    ASSUME NEW S \in SUBSET (Nat \ {0}), IsFiniteSet(S)
    PROVE  \E b \in Nat : S \subseteq 1..b
<1>1. PICK n \in Nat : ExistsBijection(1..n, S)
  BY FS_NatBijection
<1>2. PICK f \in [1..n -> S] : \A y \in S : \E k \in 1..n : f[k] = y
  BY <1>1 DEF ExistsBijection, Bijection, Surjection
<1> DEFINE P == {m \in 0..n : \E b \in Nat : \A k \in 1..m : f[k] <= b}
<1>3. 0 \in P
  OBVIOUS
<1>4. ASSUME NEW m \in 0..n, m \in P /\ m < n PROVE m + 1 \in P
  <2>1. m + 1 \in 1..n /\ m + 1 \in 0..n /\ \A k \in 1..(m + 1) : k \in 1..m \/ k = m + 1
    BY <1>4
  <2>2. PICK b \in Nat : \A k \in 1..m : f[k] <= b
    BY <1>4
  <2>3. f[m + 1] \in Nat
    BY <2>1
  <2> DEFINE d == b + f[m + 1]
  <2>4. d \in Nat /\ f[m + 1] <= d /\ b <= d
    BY <2>3
  <2>5. \A k \in 1..m : f[k] \in Nat
    <3>1. \A k \in 1..m : k \in 1..n
      BY <1>4
    <3>2. \A k \in 1..n : f[k] \in Nat
      BY <1>2
    <3> QED BY <3>1, <3>2
  <2> HIDE DEF d
  <2>6. \A k \in 1..(m + 1) : f[k] <= d
    BY <2>1, <2>2, <2>4, <2>5
  <2> QED BY <2>1, <2>4, <2>6
<1> HIDE DEF P
<1>5. n \in P
  <2>1. \A m \in 0..n : m \in P
    BY <1>3, <1>4, UpTo
  <2> QED BY <2>1
<1>6. PICK b \in Nat : \A k \in 1..n : f[k] <= b
  BY <1>5 DEF P
<1>7. \A y \in S : y \in 1..b
  BY <1>2, <1>6
<1> QED BY <1>7

\* Every level that is listed keeps its value.
LEMMA ByLevelIs ==
    ASSUME NEW v, NEW max \in Int, IsFiniteSet(DOMAIN v.levels), DOMAIN v.levels \subseteq Nat \ {0},
           NEW level \in DOMAIN v.levels
    PROVE  ByLevel(v, max)[level] = v.levels[level]
<1> DEFINE D == DOMAIN v.levels
           top == Max(D)
           n == IF top > max THEN top ELSE max
           below(i) == {k \in D : k <= i}
<1>1. D # {} /\ level \in D
  OBVIOUS
<1>2. ByLevel(v, max) = [i \in 1..n |-> IF below(i) = {} THEN 0 ELSE v.levels[Max(below(i))]]
  BY <1>1 DEF ByLevel
<1>3. PICK b \in Nat : D \subseteq 1..b
  BY Bounded
<1> HIDE DEF D
<1>4. top \in D /\ level <= top
  BY <1>1, <1>3, MaxIs
<1> HIDE DEF top
<1>5. level \in 1..n
  <2>1. top \in Nat /\ level \in Nat /\ level >= 1 /\ level <= top
    BY <1>1, <1>3, <1>4
  <2> QED BY <2>1
<1>6. below(level) \in SUBSET (1..level) /\ below(level) # {} /\ level \in below(level) /\ level \in Nat
  BY <1>1, <1>3
<1> HIDE DEF below, n
<1>7. Max(below(level)) = level
  <2>1. Max(below(level)) \in below(level) /\ Max(below(level)) >= level
    BY <1>6, MaxIs
  <2> QED BY <1>6, <2>1
<1> QED BY <1>2, <1>5, <1>6, <1>7

-----------------------------------------------------------------------------
(* Rows with their overlays.                                               *)

\* Rows of a table that are not repeated each have their own entry.
LEMMA MarkedAlone ==
    ASSUME NEW keys, NEW overlay, NEW k \in DOMAIN keys, DOMAIN keys \subseteq Nat,
           \A i, j \in DOMAIN keys : keys[i] = keys[j] => i = j
    PROVE  Marked(keys, k, overlay) <=> keys[k] \in DOMAIN overlay
BY DEF Marked

\* Every item has what the overlay says of it, if it does.
LEMMA ItemsAre ==
    ASSUME NEW s, Files(s), s.items # Null, RowsUnrepeated(s)
    PROVE  LET rows == Items(s) IN
           /\ Sequence(rows) /\ DOMAIN rows = DOMAIN s.items
           /\ \A i, j \in DOMAIN rows : rows[i].id = rows[j].id => i = j
           /\ \A k \in DOMAIN rows :
                /\ rows[k].id = s.items[k].id
                /\ s.items[k].id \in DOMAIN Index(s.immunities) =>
                     rows[k].immunity = Index(s.immunities)[s.items[k].id].statuses
<1> DEFINE N == Len(s.items)
           ids == [k \in DOMAIN s.items |-> s.items[k].id]
           overlay == Index(s.immunities)
           row(k) == IF Marked(ids, k, overlay)
                       THEN [s.items[k] EXCEPT !.immunity = overlay[ids[k]].statuses,
                                               !.uninterruptible = overlay[ids[k]].uninterruptible]
                       ELSE s.items[k]
           rows == Items(s)
<1>1. N \in Nat /\ DOMAIN s.items = 1..N
  BY Positions DEF Files
<1>2. rows = [k \in 1..N |-> row(k)]
  BY <1>1 DEF Items
<1>3. \A k \in 1..N : ids[k] = s.items[k].id
  BY <1>1
<1>4. DOMAIN ids = 1..N
  BY <1>1
<1>5. \A i, j \in 1..N : s.items[i].id = s.items[j].id => i = j
  BY <1>1 DEF RowsUnrepeated, Unrepeated, IsInjective
<1>6. \A k \in 1..N : Marked(ids, k, overlay) <=> ids[k] \in DOMAIN overlay
  BY <1>1, <1>3, <1>4, <1>5, MarkedAlone
<1>7. \A k \in 1..N : {"id", "immunity", "uninterruptible"} \subseteq DOMAIN s.items[k]
  BY <1>1 DEF Files, ToSet
<1> HIDE DEF ids, overlay, rows, N
<1>8. ASSUME NEW k \in 1..N
      PROVE  /\ row(k).id = s.items[k].id
             /\ s.items[k].id \in DOMAIN overlay => row(k).immunity = overlay[s.items[k].id].statuses
  <2>1. "id" \in DOMAIN s.items[k] /\ "immunity" \in DOMAIN s.items[k]
    BY <1>7
  <2>2. CASE Marked(ids, k, overlay)
    <3> DEFINE r == [s.items[k] EXCEPT !.immunity = overlay[ids[k]].statuses,
                                       !.uninterruptible = overlay[ids[k]].uninterruptible]
    <3>1. row(k) = r
      BY <2>2
    <3>2. r.id = s.items[k].id /\ r.immunity = overlay[ids[k]].statuses
      BY <2>1
    <3> HIDE DEF r, row
    <3> QED BY <1>3, <3>1, <3>2
  <2>3. CASE ~Marked(ids, k, overlay)
    <3>1. row(k) = s.items[k]
      BY <2>3
    <3> HIDE DEF row
    <3> QED BY <1>3, <1>6, <2>3, <3>1
  <2> QED BY <2>2, <2>3
<1> HIDE DEF row
<1>9. Sequence(rows) /\ DOMAIN rows = 1..N
  <2>1. rows = [k \in 1..N |-> rows[k]]
    BY <1>2
  <2> QED BY <1>1, <2>1, MapSequence
<1>10. \A k \in 1..N : rows[k] = row(k)
  BY <1>2
<1>11. \A i, j \in DOMAIN rows : rows[i].id = rows[j].id => i = j
  BY <1>5, <1>8, <1>9, <1>10
<1> QED BY <1>1, <1>8, <1>9, <1>10, <1>11 DEF overlay, rows

\* Every mob has what is known of what it does.
LEMMA MobsAre ==
    ASSUME NEW s, Files(s), s.mobs # Null, RowsUnrepeated(s)
    PROVE  LET rows == Mobs(s) IN
           /\ Sequence(rows) /\ DOMAIN rows = DOMAIN s.mobs
           /\ \A i, j \in DOMAIN rows : rows[i].id = rows[j].id => i = j
           /\ \A k \in DOMAIN rows :
                /\ rows[k].id = s.mobs[k].id
                /\ s.mobs[k].id \in DOMAIN MobThreats(s) =>
                     rows[k].threats = MobThreats(s)[s.mobs[k].id]
<1> DEFINE N == Len(s.mobs)
           ids == [k \in DOMAIN s.mobs |-> s.mobs[k].id]
           overlay == MobThreats(s)
           row(k) == IF Marked(ids, k, overlay) THEN [s.mobs[k] EXCEPT !.threats = overlay[ids[k]]]
                     ELSE s.mobs[k]
           rows == Mobs(s)
<1>1. N \in Nat /\ DOMAIN s.mobs = 1..N
  BY Positions DEF Files
<1>2. rows = [k \in 1..N |-> row(k)]
  BY <1>1 DEF Mobs
<1>3. \A k \in 1..N : ids[k] = s.mobs[k].id
  BY <1>1
<1>4. DOMAIN ids = 1..N
  BY <1>1
<1>5. \A i, j \in 1..N : s.mobs[i].id = s.mobs[j].id => i = j
  BY <1>1 DEF RowsUnrepeated, Unrepeated, IsInjective
<1>6. \A k \in 1..N : Marked(ids, k, overlay) <=> ids[k] \in DOMAIN overlay
  BY <1>1, <1>3, <1>4, <1>5, MarkedAlone
<1>7. \A k \in 1..N : {"id", "threats"} \subseteq DOMAIN s.mobs[k]
  BY <1>1 DEF Files, ToSet
<1> HIDE DEF ids, overlay, rows, N
<1>8. ASSUME NEW k \in 1..N
      PROVE  /\ row(k).id = s.mobs[k].id
             /\ s.mobs[k].id \in DOMAIN overlay => row(k).threats = overlay[s.mobs[k].id]
  <2>1. "id" \in DOMAIN s.mobs[k] /\ "threats" \in DOMAIN s.mobs[k]
    BY <1>7
  <2>2. CASE Marked(ids, k, overlay)
    <3> DEFINE r == [s.mobs[k] EXCEPT !.threats = overlay[ids[k]]]
    <3>1. row(k) = r
      BY <2>2
    <3>2. r.id = s.mobs[k].id /\ r.threats = overlay[ids[k]]
      BY <2>1
    <3> HIDE DEF r, row
    <3> QED BY <1>3, <3>1, <3>2
  <2>3. CASE ~Marked(ids, k, overlay)
    <3>1. row(k) = s.mobs[k]
      BY <2>3
    <3> HIDE DEF row
    <3> QED BY <1>3, <1>6, <2>3, <3>1
  <2> QED BY <2>2, <2>3
<1> HIDE DEF row
<1>9. Sequence(rows) /\ DOMAIN rows = 1..N
  <2>1. rows = [k \in 1..N |-> rows[k]]
    BY <1>2
  <2> QED BY <1>1, <2>1, MapSequence
<1>10. \A k \in 1..N : rows[k] = row(k)
  BY <1>2
<1>11. \A i, j \in DOMAIN rows : rows[i].id = rows[j].id => i = j
  BY <1>5, <1>8, <1>9, <1>10
<1> QED BY <1>1, <1>8, <1>9, <1>10, <1>11 DEF overlay, rows

\* What the overlays make of a row of a skill.
LEMMA SkillRowsAre ==
    ASSUME NEW s, Files(s), s.skills # Null
    PROVE  LET rows == Skills(s)
               names == [k \in DOMAIN s.skills |-> s.skills[k].aegis]
               buffs == LastNamed(s.buffs)
               attacks == LastNamed(s.attacks)
           IN /\ Sequence(rows) /\ DOMAIN rows = DOMAIN s.skills
              /\ \A k \in DOMAIN rows :
                   /\ rows[k].id = s.skills[k].id /\ rows[k].aegis = s.skills[k].aegis
                   /\ rows[k].castByLevel = ByLevel(s.skills[k].cast, s.skills[k].max)
                   /\ rows[k].buff = IF Marked(names, k, buffs) THEN buffs[names[k]].buff ELSE Null
                   /\ rows[k].attack = IF Marked(names, k, attacks) THEN attacks[names[k]].attack ELSE Null
<1> DEFINE N == Len(s.skills)
           names == [k \in DOMAIN s.skills |-> s.skills[k].aegis]
           buffs == LastNamed(s.buffs)
           attacks == LastNamed(s.attacks)
           buff(k) == IF Marked(names, k, buffs) THEN buffs[names[k]].buff ELSE Null
           attack(k) == IF Marked(names, k, attacks) THEN attacks[names[k]].attack ELSE Null
           row(k) == [SkillRow(s.skills[k]) EXCEPT
                        !.buff   = IF Marked(names, k, buffs) THEN buffs[names[k]].buff ELSE @,
                        !.attack = IF Marked(names, k, attacks) THEN attacks[names[k]].attack ELSE @]
           rows == Skills(s)
<1>1. N \in Nat /\ DOMAIN s.skills = 1..N
  BY Positions DEF Files
<1>2. buffs = LastBy(s.buffs, LAMBDA e : e.aegis) /\ attacks = LastBy(s.attacks, LAMBDA e : e.aegis)
  BY DEF LastNamed, LastBy
<1>3. rows = [k \in 1..N |-> row(k)]
  <2> HIDE DEF buffs, attacks
  <2> QED BY <1>1, <1>2 DEF Skills
<1> HIDE DEF names, buffs, attacks, rows, N
<1>4. ASSUME NEW k \in 1..N
      PROVE  /\ row(k).id = s.skills[k].id /\ row(k).aegis = s.skills[k].aegis
             /\ row(k).castByLevel = ByLevel(s.skills[k].cast, s.skills[k].max)
             /\ row(k).buff = buff(k) /\ row(k).attack = attack(k)
  <2> DEFINE r == SkillRow(s.skills[k])
             b == buff(k)
             a == attack(k)
  <2>1. /\ r.id = s.skills[k].id /\ r.aegis = s.skills[k].aegis
        /\ r.castByLevel = ByLevel(s.skills[k].cast, s.skills[k].max)
        /\ r.buff = Null /\ r.attack = Null
        /\ {"id", "aegis", "castByLevel", "buff", "attack"} \subseteq DOMAIN r
    BY DEF SkillRow
  <2> HIDE DEF r
  <2>2. row(k) = [r EXCEPT !.buff = b, !.attack = a]
    BY <2>1 DEF r
  <2> HIDE DEF row, a, b
  <2>3. /\ row(k).id = r.id /\ row(k).aegis = r.aegis /\ row(k).castByLevel = r.castByLevel
        /\ row(k).buff = b /\ row(k).attack = a
    BY ONLY <2>1, <2>2
  <2> QED BY <2>1, <2>3 DEF a, b
<1> HIDE DEF row
<1>5. Sequence(rows) /\ DOMAIN rows = 1..N
  <2>1. rows = [k \in 1..N |-> rows[k]]
    BY <1>3
  <2> QED BY <1>1, <2>1, MapSequence
<1>6. \A k \in 1..N : rows[k] = row(k)
  BY <1>3
<1> QED BY <1>1, <1>4, <1>5, <1>6 DEF rows, names, buffs, attacks

\* Every skill has its casts and what the overlays say of it.
LEMMA SkillsAre ==
    ASSUME NEW s, Files(s), s.skills # Null, RowsUnrepeated(s)
    PROVE  LET rows == Skills(s) IN
           /\ Sequence(rows) /\ DOMAIN rows = DOMAIN s.skills /\ NamesOnce(rows)
           /\ \A i, j \in DOMAIN rows : rows[i].id = rows[j].id => i = j
           /\ \A k \in DOMAIN rows :
                /\ rows[k].aegis = s.skills[k].aegis
                /\ rows[k].castByLevel = ByLevel(s.skills[k].cast, s.skills[k].max)
                /\ rows[k].aegis \in DOMAIN LastNamed(s.buffs) =>
                     rows[k].buff = LastNamed(s.buffs)[rows[k].aegis].buff
                /\ rows[k].aegis \in DOMAIN LastNamed(s.attacks) =>
                     rows[k].attack = LastNamed(s.attacks)[rows[k].aegis].attack
<1> DEFINE N == Len(s.skills)
           names == [k \in DOMAIN s.skills |-> s.skills[k].aegis]
           buffs == LastNamed(s.buffs)
           attacks == LastNamed(s.attacks)
           rows == Skills(s)
<1>1. N \in Nat /\ DOMAIN s.skills = 1..N
  BY Positions DEF Files
<1>2. /\ Sequence(rows) /\ DOMAIN rows = 1..N
      /\ \A k \in 1..N :
           /\ rows[k].id = s.skills[k].id /\ rows[k].aegis = s.skills[k].aegis
           /\ rows[k].castByLevel = ByLevel(s.skills[k].cast, s.skills[k].max)
           /\ rows[k].buff = IF Marked(names, k, buffs) THEN buffs[names[k]].buff ELSE Null
           /\ rows[k].attack = IF Marked(names, k, attacks) THEN attacks[names[k]].attack ELSE Null
  BY <1>1, SkillRowsAre
<1>3. DOMAIN names = 1..N /\ \A k \in 1..N : names[k] = s.skills[k].aegis
  BY <1>1
<1>4. /\ \A i, j \in 1..N : s.skills[i].id = s.skills[j].id => i = j
      /\ \A i, j \in 1..N : s.skills[i].aegis = s.skills[j].aegis => i = j
  BY <1>1 DEF RowsUnrepeated, Unrepeated, IsInjective
<1>5. \A k \in 1..N : /\ Marked(names, k, buffs) <=> names[k] \in DOMAIN buffs
                      /\ Marked(names, k, attacks) <=> names[k] \in DOMAIN attacks
  BY <1>1, <1>3, <1>4, MarkedAlone
<1> HIDE DEF names, buffs, attacks, rows, N
<1>6. \A i, j \in DOMAIN rows : rows[i].id = rows[j].id => i = j
  BY <1>2, <1>4
<1>7. NamesOnce(rows)
  BY <1>2, <1>4 DEF NamesOnce
<1>8. ASSUME NEW k \in DOMAIN rows
      PROVE  /\ rows[k].aegis = s.skills[k].aegis
             /\ rows[k].castByLevel = ByLevel(s.skills[k].cast, s.skills[k].max)
             /\ rows[k].aegis \in DOMAIN buffs => rows[k].buff = buffs[rows[k].aegis].buff
             /\ rows[k].aegis \in DOMAIN attacks => rows[k].attack = attacks[rows[k].aegis].attack
  BY <1>2, <1>3, <1>5
<1> QED BY <1>1, <1>2, <1>6, <1>7, <1>8 DEF rows, buffs, attacks

\* What is computed of a mob covers every skill that it casts.
LEMMA Computed ==
    ASSUME NEW s, Files(s), s.skills # Null, RowsUnrepeated(s), NEW id \in DOMAIN ComputedThreats(s),
           NEW r \in ToSet(s.mobSkills), r.mob = id
    PROVE  LET threats == ComputedThreats(s)[id] IN
           /\ r.aegis \in threats.casts
           /\ \A sk \in ToSet(s.skills) :
                sk.aegis = r.aegis /\ sk.status \in DOMAIN statusChangeToImmunity =>
                  statusChangeToImmunity[sk.status] \in threats.status
<1> DEFINE rows == IF s.mobSkills = Null THEN <<>> ELSE s.mobSkills
           cast(mob) == {q.aegis : q \in {p \in ToSet(rows) : p.mob = mob}}
           named == LastNamed(s.skills)
           status(aegis) ==
             IF aegis \in DOMAIN named /\ named[aegis].status \in DOMAIN statusChangeToImmunity
               THEN {statusChangeToImmunity[named[aegis].status]} ELSE {}
           of(mob) == [status |-> UNION {status(a) : a \in cast(mob)}, casts |-> cast(mob)]
<1>1. named = LastBy(s.skills, LAMBDA sk : sk.aegis)
  BY DEF LastNamed, LastBy
<1>2. ComputedThreats(s) = [mob \in {q.mob : q \in ToSet(rows)} |-> of(mob)]
  <2> HIDE DEF named, rows
  <2> QED BY <1>1 DEF ComputedThreats, rows
<1>3. ToSet(rows) # {}
  <2>1. id \in {q.mob : q \in ToSet(rows)}
    <3> HIDE DEF of, rows
    <3> QED BY <1>2
  <2> QED BY <2>1
<1>4. rows = s.mobSkills
  <2>1. ToSet(<<>>) = {}
    BY DEF ToSet
  <2> QED BY <1>3, <2>1
<1> HIDE DEF rows, named
<1>5. r.aegis \in cast(id)
  BY <1>4
<1>6. ComputedThreats(s)[id] = of(id)
  <2> HIDE DEF of
  <2> QED BY <1>2
<1>7. ASSUME NEW sk \in ToSet(s.skills), sk.aegis = r.aegis, sk.status \in DOMAIN statusChangeToImmunity
      PROVE  statusChangeToImmunity[sk.status] \in of(id).status
  <2>1. PICK k \in DOMAIN s.skills : sk = s.skills[k]
    BY DEF ToSet
  <2>2. Sequence(s.skills) /\ r.aegis \in {s.skills[i].aegis : i \in DOMAIN s.skills}
    BY <1>7, <2>1 DEF Files
  <2>3. r.aegis \in DOMAIN named
    BY <2>2, LastNamedIs DEF named
  <2>4. PICK j \in DOMAIN s.skills : named[r.aegis] = s.skills[j] /\ s.skills[j].aegis = r.aegis
    BY <2>2, LastNamedIs DEF named
  <2>5. j = k
    BY <1>7, <2>1, <2>4 DEF RowsUnrepeated, Unrepeated, IsInjective
  <2>6. status(r.aegis) = {statusChangeToImmunity[sk.status]}
    BY <1>7, <2>1, <2>3, <2>4, <2>5
  <2> HIDE DEF cast, status
  <2> QED BY <1>5, <2>6
<1> QED BY <1>5, <1>6, <1>7

\* The overlays of mobs are served: by hand, or else computed.
LEMMA ThreatsServed ==
    ASSUME NEW s, Files(s), Buildable(s), RowsUnrepeated(s), NEW data, data.mobs = Mobs(s),
           NEW id \in DOMAIN MobThreats(s)
    PROVE  LET threats == Lookup(Index(FirstSeen(data.mobs)), id).threats
               byHand  == {e \in ToSet(s.threats) : e.id = id}
           IN IF byHand # {} THEN threats \in {e.threats : e \in byHand}
              ELSE \A r \in ToSet(s.mobSkills) : r.mob = id =>
                     /\ r.aegis \in threats.casts
                     /\ \A sk \in ToSet(s.skills) :
                          sk.aegis = r.aegis /\ sk.status \in DOMAIN statusChangeToImmunity =>
                            statusChangeToImmunity[sk.status] \in threats.status
<1> DEFINE threats == Lookup(Index(FirstSeen(data.mobs)), id).threats
           byHand  == {e \in ToSet(s.threats) : e.id = id}
<1>1. s.mobs # Null /\ s.skills # Null /\ s.threats # Null
  BY DEF Buildable, Required
<1>2. PICK k \in DOMAIN s.mobs : s.mobs[k].id = id
  BY DEF Buildable, ToSet
<1>3. threats = MobThreats(s)[id]
  <2>1. /\ Sequence(data.mobs) /\ k \in DOMAIN data.mobs
        /\ \A i, j \in DOMAIN data.mobs : data.mobs[i].id = data.mobs[j].id => i = j
        /\ data.mobs[k].id = id /\ data.mobs[k].threats = MobThreats(s)[id]
    BY <1>1, <1>2, MobsAre
  <2>2. Lookup(Index(FirstSeen(data.mobs)), id) = data.mobs[k]
    BY <2>1, IndexServes
  <2> QED BY <2>1, <2>2
<1> HIDE DEF threats
<1>4. DOMAIN Index(s.threats) = {e.id : e \in ToSet(s.threats)}
  BY DEF Index, ToSet
<1>5. /\ id \in DOMAIN ComputedThreats(s) \union DOMAIN Index(s.threats)
      /\ MobThreats(s)[id] = IF id \in DOMAIN Index(s.threats) THEN Index(s.threats)[id].threats
                             ELSE ComputedThreats(s)[id]
  BY DEF MobThreats
<1>6. CASE byHand # {}
  <2>1. id \in {s.threats[i].id : i \in DOMAIN s.threats}
    BY <1>6 DEF ToSet
  <2>2. Sequence(s.threats)
    BY <1>1 DEF Files
  <2>3. PICK j \in DOMAIN s.threats : Index(s.threats)[id] = s.threats[j] /\ s.threats[j].id = id
    BY <2>1, <2>2, IndexIs
  <2>4. s.threats[j] \in byHand /\ id \in DOMAIN Index(s.threats)
    BY <1>4, <2>3 DEF ToSet
  <2>5. threats = s.threats[j].threats
    BY <1>3, <1>5, <2>3, <2>4
  <2>6. threats \in {e.threats : e \in byHand}
    BY <2>4, <2>5
  <2> QED BY <1>6, <2>6 DEF threats
<1>7. CASE byHand = {}
  <2>1. id \notin DOMAIN Index(s.threats)
    BY <1>4, <1>7
  <2>2. id \in DOMAIN ComputedThreats(s) /\ threats = ComputedThreats(s)[id]
    BY <1>3, <1>5, <2>1
  <2>3. ASSUME NEW r \in ToSet(s.mobSkills), r.mob = id
        PROVE  /\ r.aegis \in threats.casts
               /\ \A sk \in ToSet(s.skills) :
                    sk.aegis = r.aegis /\ sk.status \in DOMAIN statusChangeToImmunity =>
                      statusChangeToImmunity[sk.status] \in threats.status
    BY <1>1, <2>2, <2>3, Computed
  <2> HIDE DEF byHand
  <2> QED BY <1>7, <2>3 DEF threats, byHand
<1> QED BY <1>6, <1>7

\* All overlays are served.
LEMMA OverlaysServed ==
    ASSUME NEW s, Files(s), Buildable(s), RowsUnrepeated(s), NEW data,
           data.items = Items(s), data.mobs = Mobs(s), data.skills = Skills(s)
    PROVE  ServesOverlays(s, data)
<1>1. /\ s.items # Null /\ s.skills # Null /\ s.immunities # Null /\ s.buffs # Null
      /\ s.attacks # Null
  BY DEF Buildable, Required
<1>2. Sequence(s.immunities) /\ Sequence(s.buffs) /\ Sequence(s.attacks)
  BY <1>1 DEF Files
<1>3. /\ \A i, j \in DOMAIN s.immunities : s.immunities[i].id = s.immunities[j].id => i = j
      /\ \A i, j \in DOMAIN s.buffs : s.buffs[i].aegis = s.buffs[j].aegis => i = j
      /\ \A i, j \in DOMAIN s.attacks : s.attacks[i].aegis = s.attacks[j].aegis => i = j
  <2>1. /\ Unrepeated(s.immunities, LAMBDA e : e.id)
        /\ Unrepeated(s.buffs, LAMBDA e : e.aegis)
        /\ Unrepeated(s.attacks, LAMBDA e : e.aegis)
    BY DEF Buildable, ValidImmunities, ValidBuffs, ValidAttacks
  <2> QED BY <2>1 DEF Unrepeated, IsInjective
<1>4. /\ \A e \in ToSet(s.immunities) : \E k \in DOMAIN s.items : s.items[k].id = e.id
      /\ \A e \in ToSet(s.buffs) : \E k \in DOMAIN s.skills : s.skills[k].aegis = e.aegis
      /\ \A e \in ToSet(s.attacks) : \E k \in DOMAIN s.skills : s.skills[k].aegis = e.aegis
  <2>1. /\ Covered(s.immunities, LAMBDA e : e.id, s.items, LAMBDA r : r.id)
        /\ Covered(s.buffs, LAMBDA e : e.aegis, s.skills, LAMBDA r : r.aegis)
        /\ Covered(s.attacks, LAMBDA e : e.aegis, s.skills, LAMBDA r : r.aegis)
    BY DEF Buildable
  <2>2. /\ {e.id : e \in ToSet(s.immunities)} \subseteq {r.id : r \in ToSet(s.items)}
        /\ {e.aegis : e \in ToSet(s.buffs)} \subseteq {r.aegis : r \in ToSet(s.skills)}
        /\ {e.aegis : e \in ToSet(s.attacks)} \subseteq {r.aegis : r \in ToSet(s.skills)}
    BY <2>1 DEF Covered
  <2>3. ASSUME NEW e \in ToSet(s.immunities) PROVE \E k \in DOMAIN s.items : s.items[k].id = e.id
    <3>1. e.id \in {r.id : r \in ToSet(s.items)}
      BY <2>2
    <3> QED BY <3>1 DEF ToSet
  <2>4. ASSUME NEW e \in ToSet(s.buffs) PROVE \E k \in DOMAIN s.skills : s.skills[k].aegis = e.aegis
    <3>1. e.aegis \in {r.aegis : r \in ToSet(s.skills)}
      BY <2>2
    <3> QED BY <3>1 DEF ToSet
  <2>5. ASSUME NEW e \in ToSet(s.attacks) PROVE \E k \in DOMAIN s.skills : s.skills[k].aegis = e.aegis
    <3>1. e.aegis \in {r.aegis : r \in ToSet(s.skills)}
      BY <2>2
    <3> QED BY <3>1 DEF ToSet
  <2> QED BY <2>3, <2>4, <2>5
<1>5. /\ Sequence(data.skills) /\ DOMAIN data.skills = DOMAIN s.skills /\ NamesOnce(data.skills)
      /\ \A i, j \in DOMAIN data.skills : data.skills[i].id = data.skills[j].id => i = j
      /\ \A k \in DOMAIN data.skills :
           /\ data.skills[k].aegis = s.skills[k].aegis
           /\ data.skills[k].aegis \in DOMAIN LastNamed(s.buffs) =>
                data.skills[k].buff = LastNamed(s.buffs)[data.skills[k].aegis].buff
           /\ data.skills[k].aegis \in DOMAIN LastNamed(s.attacks) =>
                data.skills[k].attack = LastNamed(s.attacks)[data.skills[k].aegis].attack
  BY <1>1, SkillsAre
<1>6. ASSUME NEW e \in ToSet(s.immunities)
      PROVE  Lookup(Index(FirstSeen(data.items)), e.id).immunity = e.statuses
  <2>1. PICK i \in DOMAIN s.immunities : e = s.immunities[i]
    BY DEF ToSet
  <2>2. e.id \in {s.immunities[j].id : j \in DOMAIN s.immunities}
    BY <2>1
  <2>3. e.id \in DOMAIN Index(s.immunities) /\ Index(s.immunities)[e.id] = e
    BY <1>2, <1>3, <2>1, <2>2, IndexIs
  <2>4. PICK k \in DOMAIN s.items : s.items[k].id = e.id
    BY <1>4
  <2>5. /\ Sequence(data.items) /\ k \in DOMAIN data.items
        /\ \A a, b \in DOMAIN data.items : data.items[a].id = data.items[b].id => a = b
        /\ data.items[k].id = e.id /\ data.items[k].immunity = e.statuses
    BY <1>1, <2>3, <2>4, ItemsAre
  <2>6. Lookup(Index(FirstSeen(data.items)), e.id) = data.items[k]
    BY <2>5, IndexServes
  <2> QED BY <2>5, <2>6
<1>7. ASSUME NEW e \in ToSet(s.buffs) PROVE ByName(data.skills)[e.aegis].buff = e.buff
  <2>1. PICK i \in DOMAIN s.buffs : e = s.buffs[i]
    BY DEF ToSet
  <2>2. e.aegis \in {s.buffs[j].aegis : j \in DOMAIN s.buffs}
    BY <2>1
  <2>3. e.aegis \in DOMAIN LastNamed(s.buffs) /\ LastNamed(s.buffs)[e.aegis] = e
    BY <1>2, <1>3, <2>1, <2>2, LastNamedIs
  <2>4. PICK k \in DOMAIN data.skills : data.skills[k].aegis = e.aegis
    BY <1>4, <1>5
  <2>5. ByName(data.skills)[e.aegis] = data.skills[k]
    BY <1>5, <2>4, NameServes
  <2> QED BY <1>5, <2>3, <2>4, <2>5
<1>8. ASSUME NEW e \in ToSet(s.attacks) PROVE ByName(data.skills)[e.aegis].attack = e.attack
  <2>1. PICK i \in DOMAIN s.attacks : e = s.attacks[i]
    BY DEF ToSet
  <2>2. e.aegis \in {s.attacks[j].aegis : j \in DOMAIN s.attacks}
    BY <2>1
  <2>3. e.aegis \in DOMAIN LastNamed(s.attacks) /\ LastNamed(s.attacks)[e.aegis] = e
    BY <1>2, <1>3, <2>1, <2>2, LastNamedIs
  <2>4. PICK k \in DOMAIN data.skills : data.skills[k].aegis = e.aegis
    BY <1>4, <1>5
  <2>5. ByName(data.skills)[e.aegis] = data.skills[k]
    BY <1>5, <2>4, NameServes
  <2> QED BY <1>5, <2>3, <2>4, <2>5
<1> QED BY <1>6, <1>7, <1>8, ThreatsServed DEF ServesOverlays

\* All casts are served.
LEMMA CastsServed ==
    ASSUME NEW s, Files(s), Buildable(s), RowsUnrepeated(s), NEW data, data.skills = Skills(s)
    PROVE  ServesCasts(s, data)
<1>1. s.skills # Null
  BY DEF Buildable, Required
<1> SUFFICES ASSUME NEW sk \in ToSet(s.skills), NEW level \in DOMAIN sk.cast.levels
             PROVE  ByName(data.skills)[sk.aegis].castByLevel[level] = sk.cast.levels[level]
  BY DEF ServesCasts
<1>2. PICK k \in DOMAIN s.skills : sk = s.skills[k]
  BY DEF ToSet
<1>3. /\ Sequence(data.skills) /\ k \in DOMAIN data.skills /\ NamesOnce(data.skills)
      /\ \A i, j \in DOMAIN data.skills : data.skills[i].id = data.skills[j].id => i = j
      /\ data.skills[k].aegis = sk.aegis /\ data.skills[k].castByLevel = ByLevel(sk.cast, sk.max)
  BY <1>1, <1>2, SkillsAre
<1>4. ByName(data.skills)[sk.aegis] = data.skills[k]
  BY <1>3, NameServes
<1>5. sk.max \in Int /\ IsFiniteSet(DOMAIN sk.cast.levels) /\ DOMAIN sk.cast.levels \subseteq Nat \ {0}
  BY <1>1 DEF Files
<1>6. ByLevel(sk.cast, sk.max)[level] = sk.cast.levels[level]
  BY <1>5, ByLevelIs
<1> QED BY <1>3, <1>4, <1>6

\* A file that a run of the builder writes serves what its sources say, whatever they are:
\* overlays and casts of rows that are not repeated, and to each class that follows those it
\* grew out of the skills from every way there; and nothing but a run changes the file.
THEOREM CatalogsAreFaithful == CatalogSpec => BuildsFaithfully
<1> DEFINE FromSources == sources \in Sources
<1> DEFINE Faithful ==
      file' # file /\ file' # Null =>
        /\ Buildable(sources) /\ sources' = sources
        /\ RowsUnrepeated(sources) =>
             /\ ServesOverlays(sources, file')
             /\ ServesCasts(sources, file')
             /\ ServesTrees(sources, file')
<1>1. CatalogInit => FromSources
  BY DEF CatalogInit
<1>2. FromSources /\ [CatalogNext]_cvars => FromSources'
  BY DEF CatalogNext, Edit, Build, WriteFails, cvars
<1>3. FromSources /\ CatalogNext => Faithful
  <2> SUFFICES ASSUME sources \in Sources, CatalogNext, file' # file, file' # Null
               PROVE  /\ Buildable(sources) /\ sources' = sources
                      /\ RowsUnrepeated(sources) =>
                           /\ ServesOverlays(sources, file')
                           /\ ServesCasts(sources, file')
                           /\ ServesTrees(sources, file')
    OBVIOUS
  <2>1. Buildable(sources) /\ file' = CatalogOf(sources) /\ sources' = sources
    BY DEF CatalogNext, Edit, Build, WriteFails
  <2>2. Files(sources)
    BY SourcesAssumption
  <2>3. /\ file'.items = Items(sources) /\ file'.mobs = Mobs(sources)
        /\ file'.skills = Skills(sources) /\ file'.classes = BuildClassMap(sources.trees)
    BY <2>1 DEF CatalogOf
  <2> QED BY <2>1, <2>2, <2>3, OverlaysServed, CastsServed, TreesServed
<1>4. FromSources /\ [CatalogNext]_cvars => [Faithful]_cvars
  <2> HIDE DEF Faithful
  <2> QED BY <1>3
<1> QED BY <1>1, <1>2, <1>4, PTL DEF CatalogSpec, BuildsFaithfully

-----------------------------------------------------------------------------
(* What is assumed of the catalog holds of every file that is built.       *)

\* The classes of a file have keys, and no skill of theirs is named like none.
ClassesReadable(classmap) ==
  /\ "" \notin DOMAIN classmap
  /\ \A key \in DOMAIN classmap :
       /\ Offers(classmap[key].skills)
       /\ \A x \in Range(classmap[key].skills) : x.aegis # "(innate)"

\* It stays so with one class more.
LEMMA OneMoreReadable ==
    ASSUME NEW class, NEW above, ClassesReadable(above), class.name.key # "",
           Sequence(class.inherit), Sequence(class.skills),
           \A sk \in ToSet(class.skills) : sk.aegis # "(innate)"
    PROVE  ClassesReadable(With(above, class.name.key, ClassTree(class, above)))
<1> DEFINE flat == Flattened(class, above)
           tree == ClassTree(class, above)
           found == {n \in ToSet(class.inherit) : n.key \in DOMAIN above}
           up == UNION {Range(above[n.key].skills) : n \in found}
           key == class.name.key
           more == With(above, key, tree)
<1>1. /\ Offers(flat)
      /\ \A x \in Range(flat) : x \in up \/ x \in Range(Own(class))
  <2>1. \A n \in ToSet(class.inherit) : n.key \in DOMAIN above => Offers(above[n.key].skills)
    BY DEF ClassesReadable
  <2> QED BY <2>1, FlattenedIs
<1>2. \A x \in up : x.aegis # "(innate)"
  BY DEF ClassesReadable
<1>3. \A x \in Range(Own(class)) : x.aegis # "(innate)"
  <2>1. {x.aegis : x \in Range(Own(class))} = {sk.aegis : sk \in ToSet(class.skills)}
    BY OwnIs
  <2>2. "(innate)" \notin {sk.aegis : sk \in ToSet(class.skills)}
    OBVIOUS
  <2> QED BY <2>1, <2>2
<1> HIDE DEF up
<1>4. /\ Offers(tree.skills)
      /\ \A x \in Range(tree.skills) : \E y \in Range(flat) : y.aegis = x.aegis
  <2>1. /\ Offers(tree.skills)
        /\ \A x \in Range(tree.skills) : \E y \in Range(flat) :
             /\ y.aegis = x.aegis /\ key \notin Drops(x.aegis)
             /\ x.unusable <=> y.unusable \/ key \in Flags(x.aegis)
    BY <1>1, ClassTreeIs
  <2> QED BY <2>1
<1> HIDE DEF tree, flat, key
<1>5. \A x \in Range(tree.skills) : x.aegis # "(innate)"
  BY <1>1, <1>2, <1>3, <1>4
<1>6. more = [k \in {key} \union DOMAIN above |-> IF k = key THEN tree ELSE above[k]]
  BY DEF With
<1>7. DOMAIN more = {key} \union DOMAIN above /\ "" \notin DOMAIN more
  BY <1>6 DEF key, ClassesReadable
<1>8. ASSUME NEW k \in DOMAIN more
      PROVE  Offers(more[k].skills) /\ \A x \in Range(more[k].skills) : x.aegis # "(innate)"
  <2>1. CASE k = key
    <3>1. more[k] = tree
      BY <1>6, <2>1
    <3> HIDE DEF more
    <3> QED BY <1>4, <1>5, <3>1
  <2>2. CASE k # key
    <3>1. k \in DOMAIN above /\ more[k] = above[k]
      BY <1>6, <1>7, <2>2
    <3> HIDE DEF more
    <3> QED BY <3>1 DEF ClassesReadable
  <2> QED BY <2>1, <2>2
<1> HIDE DEF more
<1>9. ClassesReadable(more)
  BY <1>7, <1>8 DEF ClassesReadable
<1> QED BY <1>9 DEF more, key, tree

\* Hence of the whole file.
LEMMA ReadableClasses ==
    ASSUME NEW s, Files(s)
    PROVE  ClassesReadable(BuildClassMap(s.trees))
<1>1. ClassesReadable(<<>>)
  BY DEF ClassesReadable
<1>2. CASE s.trees = Null
  <2>1. BuildClassMap(s.trees) = <<>>
    BY <1>2 DEF BuildClassMap
  <2> QED BY <1>1, <2>1
<1>3. CASE s.trees # Null
  <2> DEFINE trees == s.trees
             N == Len(trees)
  <2>1. Sequence(trees) /\ N \in Nat /\ DOMAIN trees = 1..N
    BY <1>3, Positions DEF Files
  <2>2. \A n \in 1..N :
          /\ trees[n].name.key # "" /\ Sequence(trees[n].inherit) /\ Sequence(trees[n].skills)
          /\ \A sk \in ToSet(trees[n].skills) : sk.aegis # "(innate)"
    <3>1. \A n \in 1..N : trees[n] \in ToSet(trees)
      BY <2>1 DEF ToSet
    <3> QED BY <1>3, <3>1 DEF Files
  <2>3. PICK g : g[0] = <<>> /\ \A n \in 1..N : g[n] = AfterClass(trees, n, g[n - 1])
    <3> HIDE DEF N, trees
    <3>1. \E g : g[0] = <<>> /\ \A n \in 1..N : g[n] = AfterClass(trees, n, g[n - 1])
      BY ONLY <2>1, LoopGoes
    <3> QED BY <3>1
  <2>4. BuildClassMap(trees) = g[N]
    BY <1>3, <2>1, <2>3, ClassMapIs DEF N, trees
  <2> HIDE DEF N, trees
  <2> DEFINE P == {n \in 0..N : ClassesReadable(g[n])}
  <2>5. 0 \in P
    BY <1>1, <2>1, <2>3
  <2>6. ASSUME NEW n \in 0..N, n \in P /\ n < N PROVE n + 1 \in P
    <3>1. n + 1 \in 1..N /\ n + 1 \in 0..N /\ (n + 1) - 1 = n
      BY <2>1, <2>6
    <3>2. g[n + 1] = With(g[n], trees[n + 1].name.key, ClassTree(trees[n + 1], g[n]))
      <4>1. g[n + 1] = AfterClass(trees, n + 1, g[n])
        BY <2>3, <3>1
      <4> QED BY <4>1 DEF AfterClass
    <3>3. ClassesReadable(g[n])
      BY <2>6
    <3>4. ClassesReadable(g[n + 1])
      BY <2>2, <3>1, <3>2, <3>3, OneMoreReadable
    <3> QED BY <3>1, <3>4
  <2> HIDE DEF P
  <2>7. \A n \in 0..N : n \in P
    BY <2>1, <2>5, <2>6, UpTo
  <2>8. N \in 0..N /\ N \in P
    BY <2>1, <2>7
  <2> QED BY <2>4, <2>8 DEF P, trees
<1> QED BY <1>2, <1>3

\* The overlays name each buff and each attack once.
LEMMA NamedOnce ==
    ASSUME NEW s, Files(s), Buildable(s)
    PROVE  /\ \A i, j \in DOMAIN s.buffs : s.buffs[i].buff.name = s.buffs[j].buff.name => i = j
           /\ \A i \in DOMAIN s.buffs : s.buffs[i].buff # Null
           /\ \A i, j \in DOMAIN s.attacks : s.attacks[i].attack = s.attacks[j].attack => i = j
           /\ \A i \in DOMAIN s.attacks : s.attacks[i].attack # Null /\ s.attacks[i].attack # ""
<1>1. Unrepeated(s.buffs, LAMBDA e : e.buff.name) /\ Unrepeated(s.attacks, LAMBDA e : e.attack)
  BY DEF Buildable, ValidBuffs, ValidAttacks
<1>2. \A i, j \in DOMAIN s.buffs : s.buffs[i].buff.name = s.buffs[j].buff.name => i = j
  BY <1>1 DEF Unrepeated, IsInjective
<1>3. \A i, j \in DOMAIN s.attacks : s.attacks[i].attack = s.attacks[j].attack => i = j
  BY <1>1 DEF Unrepeated, IsInjective
<1>4. \A e \in ToSet(s.buffs) : e.buff # Null
  BY DEF Buildable, ValidBuffs
<1>5. \A e \in ToSet(s.attacks) : e.attack # Null /\ e.attack # ""
  BY DEF Buildable, ValidAttacks
<1> QED BY <1>2, <1>3, <1>4, <1>5 DEF ToSet

\* A name finds a row with what an entry for the name says, or with nothing.
LEMMA NamedRowIs ==
    ASSUME NEW s, Files(s), Buildable(s), NEW a \in DOMAIN ByName(Skills(s))
    PROVE  LET x == ByName(Skills(s))[a] IN
           /\ x.buff # Null => \E i \in DOMAIN s.buffs : s.buffs[i].aegis = a /\ x.buff = s.buffs[i].buff
           /\ x.attack # Null =>
                \E i \in DOMAIN s.attacks : s.attacks[i].aegis = a /\ x.attack = s.attacks[i].attack
<1> DEFINE rows == Skills(s)
           names == [k \in DOMAIN s.skills |-> s.skills[k].aegis]
           buffs == LastNamed(s.buffs)
           attacks == LastNamed(s.attacks)
           K == {k \in DOMAIN rows : \A j \in 1..(k - 1) : rows[j].id # rows[k].id}
           seen == FirstSeen(rows)
           x == ByName(rows)[a]
<1>1. /\ s.skills # Null /\ Sequence(s.buffs) /\ Sequence(s.attacks)
      /\ DOMAIN names = DOMAIN s.skills /\ \A k \in DOMAIN s.skills : names[k] = s.skills[k].aegis
  BY DEF Buildable, Required, Files
<1>2. /\ Sequence(rows) /\ DOMAIN rows = DOMAIN s.skills
      /\ \A k \in DOMAIN rows :
           /\ rows[k].aegis = s.skills[k].aegis
           /\ rows[k].buff = IF Marked(names, k, buffs) THEN buffs[names[k]].buff ELSE Null
           /\ rows[k].attack = IF Marked(names, k, attacks) THEN attacks[names[k]].attack ELSE Null
  BY <1>1, SkillRowsAre
<1>3. ByName(rows) = LastNamed(seen)
  BY DEF ByName, LastBy, LastNamed
<1>4. seen = Sifted(rows, K)
  BY DEF FirstSeen
<1> HIDE DEF names, buffs, attacks, rows, K, seen
<1>5. Sequence(seen) /\ Range(seen) = {rows[k] : k \in K \intersect DOMAIN rows}
  BY <1>2, <1>4, SiftedRange
<1>6. a \in {seen[i].aegis : i \in DOMAIN seen}
  BY <1>3 DEF LastNamed, rows
<1>7. PICK i \in DOMAIN seen : LastNamed(seen)[a] = seen[i] /\ seen[i].aegis = a
  BY <1>5, <1>6, LastNamedIs
<1>8. PICK k \in DOMAIN rows : seen[i] = rows[k]
  BY <1>5 DEF Range
<1>9. x = rows[k] /\ rows[k].aegis = a /\ names[k] = a
  BY <1>1, <1>2, <1>3, <1>7, <1>8
<1>10. ASSUME rows[k].buff # Null
       PROVE  \E j \in DOMAIN s.buffs : s.buffs[j].aegis = a /\ rows[k].buff = s.buffs[j].buff
  <2>1. a \in DOMAIN buffs /\ rows[k].buff = buffs[a].buff
    BY <1>2, <1>9, <1>10 DEF Marked
  <2>2. a \in {s.buffs[j].aegis : j \in DOMAIN s.buffs}
    BY <2>1 DEF buffs, LastNamed
  <2>3. PICK j \in DOMAIN s.buffs : LastNamed(s.buffs)[a] = s.buffs[j] /\ s.buffs[j].aegis = a
    BY <1>1, <2>2, LastNamedIs
  <2> QED BY <2>1, <2>3 DEF buffs
<1>11. ASSUME rows[k].attack # Null
       PROVE  \E j \in DOMAIN s.attacks : s.attacks[j].aegis = a /\ rows[k].attack = s.attacks[j].attack
  <2>1. a \in DOMAIN attacks /\ rows[k].attack = attacks[a].attack
    BY <1>2, <1>9, <1>11 DEF Marked
  <2>2. a \in {s.attacks[j].aegis : j \in DOMAIN s.attacks}
    BY <2>1 DEF attacks, LastNamed
  <2>3. PICK j \in DOMAIN s.attacks : LastNamed(s.attacks)[a] = s.attacks[j] /\ s.attacks[j].aegis = a
    BY <1>1, <2>2, LastNamedIs
  <2> QED BY <2>1, <2>3 DEF attacks
<1> HIDE DEF x
<1>12. /\ x.buff # Null => \E j \in DOMAIN s.buffs : s.buffs[j].aegis = a /\ x.buff = s.buffs[j].buff
       /\ x.attack # Null =>
            \E j \in DOMAIN s.attacks : s.attacks[j].aegis = a /\ x.attack = s.attacks[j].attack
  BY <1>9, <1>10, <1>11
<1> QED BY <1>12 DEF x, rows

\* What a run of the builder writes can be told apart.
LEMMA BuiltIsReadable ==
    ASSUME NEW s, Files(s), Buildable(s)
    PROVE  Readable(CatalogOf(s))
<1> DEFINE data == CatalogOf(s)
           named == ByName(data.skills)
<1>1. data.skills = Skills(s) /\ data.classes = BuildClassMap(s.trees)
  BY DEF CatalogOf
<1> HIDE DEF data
<1>2. /\ "" \notin DOMAIN data.classes
      /\ \A key \in DOMAIN data.classes :
           /\ Sequence(data.classes[key].skills)
           /\ \A x \in Range(data.classes[key].skills) : x.aegis # "(innate)"
  BY <1>1, ReadableClasses DEF ClassesReadable, Offers
<1>3. \A a \in DOMAIN named :
        /\ named[a].buff # Null =>
             \E i \in DOMAIN s.buffs : s.buffs[i].aegis = a /\ named[a].buff = s.buffs[i].buff
        /\ named[a].attack # Null =>
             \E i \in DOMAIN s.attacks : s.attacks[i].aegis = a /\ named[a].attack = s.attacks[i].attack
  BY <1>1, NamedRowIs
<1> HIDE DEF named
<1>4. ASSUME NEW a \in DOMAIN named, NEW b \in DOMAIN named, named[a].buff # Null, named[b].buff # Null,
             named[a].buff.name = named[b].buff.name
      PROVE  a = b
  <2>1. PICK i \in DOMAIN s.buffs : s.buffs[i].aegis = a /\ named[a].buff = s.buffs[i].buff
    BY <1>3, <1>4
  <2>2. PICK j \in DOMAIN s.buffs : s.buffs[j].aegis = b /\ named[b].buff = s.buffs[j].buff
    BY <1>3, <1>4
  <2>3. i = j
    BY <1>4, <2>1, <2>2, NamedOnce
  <2> QED BY <2>1, <2>2, <2>3
<1>5. ASSUME NEW a \in DOMAIN named, named[a].attack # Null
      PROVE  named[a].attack # "" /\ \A b \in DOMAIN named : named[a].attack = named[b].attack => a = b
  <2>1. PICK i \in DOMAIN s.attacks : s.attacks[i].aegis = a /\ named[a].attack = s.attacks[i].attack
    BY <1>3, <1>5
  <2>2. named[a].attack # ""
    BY <2>1, NamedOnce
  <2>3. ASSUME NEW b \in DOMAIN named, named[a].attack = named[b].attack PROVE a = b
    <3>1. PICK j \in DOMAIN s.attacks : s.attacks[j].aegis = b /\ named[b].attack = s.attacks[j].attack
      BY <1>3, <1>5, <2>3
    <3>2. i = j
      BY <2>1, <2>3, <3>1, NamedOnce
    <3> QED BY <2>1, <3>1, <3>2
  <2> QED BY <2>2, <2>3
<1> QED BY <1>2, <1>4, <1>5 DEF Readable, named, data

\* catalog.json, unless it is half written, was built of some files.
FileIsBuilt ==
  /\ sources \in Sources
  /\ file # Null => \E s \in Sources : Buildable(s) /\ file = CatalogOf(s)

\* What the server embeds, unless a run stopped while it wrote, is such as the other modules
\* assume of the catalog (CatalogAssumption): no name stands for the buffs or the attacks of
\* two skills, and the words for none are no names.
THEOREM BuiltCatalogsAreReadable == CatalogSpec => [](file # Null => Readable(file))
<1>1. CatalogInit => FileIsBuilt
  BY DEF CatalogInit, FileIsBuilt
<1>2. FileIsBuilt /\ [CatalogNext]_cvars => FileIsBuilt'
  <2> SUFFICES ASSUME FileIsBuilt, [CatalogNext]_cvars PROVE FileIsBuilt'
    OBVIOUS
  <2>1. CASE Edit
    BY <2>1 DEF Edit, FileIsBuilt
  <2>2. CASE Build
    BY <2>2 DEF Build, FileIsBuilt
  <2>3. CASE WriteFails
    BY <2>3 DEF WriteFails, FileIsBuilt
  <2>4. CASE UNCHANGED cvars
    BY <2>4 DEF cvars, FileIsBuilt
  <2> QED BY <2>1, <2>2, <2>3, <2>4 DEF CatalogNext
<1>3. FileIsBuilt => (file # Null => Readable(file))
  <2> SUFFICES ASSUME FileIsBuilt, file # Null PROVE Readable(file)
    OBVIOUS
  <2>1. PICK s \in Sources : Buildable(s) /\ file = CatalogOf(s)
    BY DEF FileIsBuilt
  <2>2. Readable(CatalogOf(s))
    BY <2>1, SourcesAssumption, BuiltIsReadable
  <2> QED BY <2>1, <2>2
<1> QED BY <1>1, <1>2, <1>3, PTL DEF CatalogSpec
=============================================================================
