------------------------------ MODULE ToolCalls ------------------------------
(***************************************************************************)
(* The read-only tools of a run (internal/llm/tools): the model calls one  *)
(* after another, the registry dispatches each.  Lookups and listings      *)
(* answer from the catalog and the server's profile; score_build asks the  *)
(* calculator once; score_builds asks it for every candidate of a batch    *)
(* from a goroutine of its own, and waits for all of them.                 *)
(*                                                                         *)
(* The calculator is external: it gives any reply to any request.  An      *)
(* answer is [error, results]; replies is a history variable.              *)
(***************************************************************************)
EXTENDS Prompt, ScoreRequest

CONSTANTS
  Request,   \* requests that were accepted
  Call,      \* tool calls the model may make: [tool, arg]
  Reply,     \* what the calculator may reply: [status, decodes]
  MaxBatch   \* candidates of a batch (scoreBuildsMaxBatch)

Scores(c) == c.tool \in {"score_build", "score_builds"}

\* The setups a scoring call is about, in order.
Setups(c) == IF c.tool = "score_build" THEN <<c.arg>> ELSE c.arg

ASSUME ToolCallsAssumption ==
  /\ MaxBatch \in Nat \ {0}
  /\ \A r \in Request : ValidateRequestWithProfiles(r) /\ Spelling(r.class)
  /\ profiles # Null
  /\ \A c \in Call : Scores(c) => \A s \in Range(Setups(c)) :
       /\ Setup(s)
       /\ \A p \in {Null} \union Range(profiles) : Resolves(s) => Joined(SnapshotRequest(s, p), s) # Null
  /\ Null # [error |-> TRUE, results |-> <<>>]

VARIABLES
  request,    \* the request of the run
  call,       \* the call under way, or Null before the first
  running,    \* the candidates whose goroutine has not ended
  replies,    \* the result of the calculator, by candidate
  results,    \* the slots of the answer, one per candidate
  globalErr,  \* whether an outage was recorded
  answer      \* the answer to the call, Null until then

tvars == <<request, call, running, replies, results, globalErr, answer>>

Active == ResolveProfile(request.server)

-----------------------------------------------------------------------------
(* Tools that only read.  Null is an error.                                *)

ListClassSkills(class) ==
  IF ~Known(class) THEN Null
  ELSE {[id |-> s.id, aegis |-> s.aegis, max |-> s.max, unusable |-> s.unusable,
         scoreableAs |-> Scoreable(s)] : s \in Range(ClassSkills(class))}

ListClassBuffs(class) ==
  IF ~Known(class) THEN Null
  ELSE {[name |-> b.buff.name, anchor |-> b.aegis, id |-> b.id, kind |-> b.buff.kind,
         elements |-> b.buff.elements] : b \in BuffsForPrompt(class)}

\* A mob of the server hides the catalog's.
LookupMonster(p, id) ==
  IF p # Null /\ CustomMob(p, id) # Null THEN CustomMob(p, id) ELSE Lookup(mobs, id)

\* What a tool other than the scoring ones answers; an unknown tool is an error.
Answered(c) ==
  CASE c.tool = "list_class_skills" -> ListClassSkills(c.arg)
    [] c.tool = "list_class_buffs"  -> ListClassBuffs(c.arg)
    [] c.tool = "lookup_monster"    -> LookupMonster(Active, c.arg)
    [] c.tool = "lookup_item"       -> Lookup(items, c.arg)
    [] c.tool = "lookup_skill"      -> Lookup(skills, c.arg)
    [] c.tool = "search_items"      -> SearchItems(c.arg)
    [] OTHER -> Null

\* An answer of one result.
Single(result) == [error |-> result = Null, results |-> <<result>>]

-----------------------------------------------------------------------------
(* The calls.                                                              *)

ToolsInit ==
  /\ request \in Request
  /\ call = Null /\ running = {} /\ replies = <<>> /\ results = <<>>
  /\ globalErr = FALSE /\ answer = Null

Idle == call = Null \/ answer # Null

Dispatch(c) ==
  /\ Idle
  /\ call' = c
  /\ ~Scores(c)
  /\ answer' = Single(Answered(c))
  /\ running' = {} /\ replies' = <<>> /\ results' = <<>> /\ globalErr' = FALSE
  /\ UNCHANGED request

\* score_builds refuses an empty batch and one over the limit.
Refused(c) == c.tool = "score_builds" /\ Len(c.arg) \notin 1..MaxBatch

\* A goroutine per candidate.
Score(c) ==
  /\ Idle
  /\ call' = c
  /\ Scores(c)
  /\ answer' = IF Refused(c) THEN [error |-> TRUE, results |-> <<>>] ELSE Null
  /\ running' = IF Refused(c) THEN {} ELSE DOMAIN Setups(c)
  /\ replies' = [k \in DOMAIN Setups(c) |-> "none"]
  /\ results' = [k \in DOMAIN Setups(c) |-> Null]
  /\ globalErr' = FALSE
  /\ UNCHANGED request

\* One candidate's part of the answer: the score of what was asked, or an error.
Slot(k, asked, result) ==
  [index |-> k, score |-> IF result = "scored" THEN asked ELSE Null, error |-> result # "scored"]

\* isCandidateError: an invalid build or a 4xx.
CandidateError(result) == result \in {"invalid", "client"}

\* What becomes of candidate k: its request is not sent, or gets a reply.
Outcomes(k) ==
  IF Preview(Setups(call)[k], Active) = Null THEN {"invalid"}
  ELSE {ScoreResult(reply) : reply \in Reply}

\* Mutant: the results are in the order of their arrival.
EndInOrder(k) ==
  /\ k \in running
  /\ \E result \in Outcomes(k) :
       /\ replies' = [replies EXCEPT ![k] = result]
       /\ results' = [results EXCEPT ![Len(results) - Cardinality(running) + 1] =
                        Slot(k, Preview(Setups(call)[k], Active), result)]
       /\ globalErr' = (globalErr \/ (result # "scored" /\ ~CandidateError(result)))
  /\ running' = running \ {k}
  /\ UNCHANGED <<request, call, answer>>

\* The goroutine of candidate k ends: it records an outage and writes its slot.
End(k) ==
  /\ k \in running
  /\ \E result \in Outcomes(k) :
       /\ replies' = [replies EXCEPT ![k] = result]
       /\ results' = [results EXCEPT ![k] = Slot(k, Preview(Setups(call)[k], Active), result)]
       /\ globalErr' = (globalErr \/ (result # "scored" /\ ~CandidateError(result)))
  /\ running' = running \ {k}
  /\ UNCHANGED <<request, call, answer>>

\* All have ended.  The single tool returns any error, the batch only an outage.
Collect ==
  /\ call # Null /\ answer = Null
  /\ running = {}
  /\ answer' = LET failed == IF call.tool = "score_build" THEN results[1].error ELSE globalErr
               IN [error |-> failed, results |-> IF failed THEN <<>> ELSE results]
  /\ UNCHANGED <<request, call, running, replies, results, globalErr>>

ToolsNext ==
  \/ \E c \in Call : Dispatch(c) \/ Score(c)
  \/ \E k \in running : End(k)
  \/ Collect

-----------------------------------------------------------------------------
(* Invariants.                                                             *)

\* The candidates of c are scored.
Underway(c) == c # Null /\ Scores(c) /\ ~Refused(c)

Outage == \E k \in DOMAIN replies : replies[k] = "outage"

\* The goroutines of a call: one per candidate, the slot of each is written by itself
\* alone, and an outage that any of them has met is recorded, whichever ends first.
GoroutinesInv ==
  Underway(call) =>
    /\ DOMAIN replies = DOMAIN Setups(call) /\ DOMAIN results = DOMAIN Setups(call)
    /\ running \subseteq DOMAIN Setups(call)
    /\ \A k \in DOMAIN Setups(call) :
         IF k \in running THEN replies[k] = "none"
         ELSE /\ replies[k] \in Outcomes(k)
              /\ results[k] = Slot(k, Preview(Setups(call)[k], Active), replies[k])
    /\ globalErr <=> Outage

\* The answer to a scoring call, once there is one.
AnswerInv ==
  call # Null /\ Scores(call) =>
    IF Refused(call) THEN answer # Null /\ running = {} /\ answer.error
    ELSE answer # Null =>
           /\ running = {}
           /\ answer.error <=> IF call.tool = "score_build" THEN results[1].error ELSE globalErr
           /\ ~answer.error => answer.results = results

\* Inductive: what the answers of the scoring tools rest on.
CallInv == GoroutinesInv /\ AnswerInv

-----------------------------------------------------------------------------
(* Properties.                                                             *)

\* The result of a candidate is in its place, its own score or its own error.
OwnSlot(k, slot, asked) ==
  /\ slot.index = k
  /\ slot.error <=> asked = Null \/ replies[k] = "client"
  /\ slot.score = IF slot.error THEN Null ELSE asked

\* A batch is answered with the result of every candidate in its own place, its own
\* score or its own error, unless the calculator was out of reach for one of them:
\* then the whole call fails, whichever of the goroutines came first.
BatchTellsOutage ==
  call # Null /\ answer # Null /\ call.tool = "score_builds" /\ ~Refused(call) =>
    IF \E k \in DOMAIN replies : replies[k] = "outage" THEN answer.error
    ELSE /\ ~answer.error
         /\ \A k \in DOMAIN call.arg :
              OwnSlot(k, answer.results[k], Preview(call.arg[k], Active))

ScoredAs(k, slot, record) ==
  /\ slot.error <=> record = Null \/ replies[k] = "client"
  /\ ~slot.error => slot.score = record

\* A preview of what would be a valid snapshot is scored as submit_trajectory will
\* score it ("scored with the same buffs and attack skills", score_build.go:229-233):
\* the calculator gets the same request, or neither sends one.
PreviewIsCanonical ==
  call # Null /\ answer # Null /\ Scores(call) /\ ~answer.error =>
    \A k \in DOMAIN answer.results :
      LET s == Setups(call)[k] IN
      ValidAsSnapshot(s) => ScoredAs(k, answer.results[k], Canonical(s, Active))

\* The elements of an endow are told by level.
ElementTold(f, element, level) ==
  IF f[4] = "weapon_endow" THEN \E i \in DOMAIN f[5] : f[5][i] = element /\ i <= level
  ELSE element = ""

\* The setup declares what the prompt told offers at this allocation, and no more.
AsTold(s, told) ==
  LET level(id) == AllocatedLevel(s.skills, id)
      anchors   == {f \in told : f[1] = "skill" /\ level(f[2]) >= 1}
      Offers(f, b) ==
        \/ f[3] = "(innate)" /\ b.element = ""
        \/ \E a \in anchors : a[3] = f[3] /\ ElementTold(f, b.element, level(a[2]))
  IN /\ \A b \in ToSet(s.buffs) :
          \E f \in told : f[1] = "buff" /\ f[2] = b.name /\ Offers(f, b)
     /\ \A d \in ToSet(s.scored) : d.name # "" /\ \E a \in anchors : a[6] = d.name
     /\ s.scored # <<>> => /\ Cardinality({d.name : d \in ToSet(s.scored)}) = Len(s.scored)
                           /\ Cardinality({d \in ToSet(s.scored) : d.primary}) = 1

\* asked is what the calculator is asked for setup s after a prompt that told this.
Truthful(told, s, asked) ==
  /\ asked # Null <=> AsTold(s, told)
  /\ \A f \in told : f[1] = "mob" /\ f[2] = s.target /\ asked # Null =>
       asked.enemy.inline = [level |-> f[3], hp |-> f[4], traits |-> f[5]]

\* What the prompt relies on and no loader checks: the mobs of a profile have an id each,
\* a class has no innate buff of the name of one that a skill of it gives.
MobsApart ==
  \A server \in DOMAIN profiles :
    LET custom == profiles[server].mobs IN
    \A i, j \in DOMAIN custom : custom[i].id = custom[j].id => i = j

InnateApart ==
  \A key \in DOMAIN Data.innate \intersect DOMAIN classes :
    {b.name : b \in ToSet(Data.innate[key])} \intersect DOMAIN OfferedBuffs(Key(key)) = {}

\* The prompt is true: a build of the requested class is sent to the calculator
\* exactly when it declares what the prompt offers, and fights a mob of the server
\* as the prompt describes it.
PromptIsTrue ==
  call # Null /\ Scores(call) =>
    \A s \in Range(Setups(call)) :
      s.class = request.class /\ BuildValid([s EXCEPT !.mode = ""]) =>
        Truthful(UserPrompt(request), s, Preview(s, Active))

CapsAgree(told) ==
  \A cap \in told : cap[1] = "max levels" =>
    \A f \in told : f[1] = "max level" =>
      f[3] = IF f[2] = "base" THEN cap[2] ELSE cap[3]

\* What no loader checks either: a class is changed once, and its levels are changed under
\* a spelling that a request can have.
ChangesApart ==
  \A server \in DOMAIN profiles :
    LET changes == profiles[server].classChanges IN
    /\ \A i, j \in DOMAIN changes : SameName(changes[i].class, changes[j].class) => i = j
    /\ \A c \in ToSet(changes) : c.class.form = "case" => c.base <= 0 /\ c.job <= 0

\* The cap told as hard is the one that the server's rules, told next to it, give
\* the class, where they give one.  The override is found under the exact spelling only
\* (server.go:347), the rules under any letter case (server.go:604).
CapsToldAgree ==
  request.class.form = "exact" => CapsAgree(UserPrompt(request))
=============================================================================
