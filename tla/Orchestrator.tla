---------------------------- MODULE Orchestrator ----------------------------
(***************************************************************************)
(* One run of Generate (internal/orchestrator/orchestrator.go): the        *)
(* language model answers, its tool calls are executed in order, their     *)
(* results are the next user message, until the model ends its turn, the   *)
(* loop is exhausted or something fails.  The tool submit_trajectory       *)
(* validates, scores and gates a submission and hands it to the session    *)
(* (session.go), which keeps the answer of record.                         *)
(*                                                                         *)
(* The model and the calculator are external: the model may stop for any   *)
(* reason and submit anything, the calculator may answer each snapshot     *)
(* with any gate results or fail.  passed and last are history variables.  *)
(***************************************************************************)
EXTENDS Trajectory, FiniteSets

CONSTANTS
  Submission,   \* inputs of submit_trajectory: [primary, alternatives]
  GateOutcome,  \* what the evaluator may say of a snapshot: sets of severities
  MaxIters,     \* cap of the loop
  Turn,         \* the tool calls a turn may make: sequences of inputs and Other
  Other,        \* a call of any other tool
  NoAnswer

ASSUME OrchestratorAssumption ==
  /\ Submission \subseteq [primary : TrajectoryType, alternatives : Seq(TrajectoryType)]
  /\ Turn \subseteq Seq(Submission \union {Other})
  /\ GateOutcome \subseteq (SUBSET Severity) \ {{}}
  /\ MaxIters \in Nat
  /\ Other \notin Submission

\* The model writes no canonical score.
ASSUME ScoresAreClaimed ==
  \A in \in Submission : \A i \in 1..Len(in.primary.snapshots) :
     in.primary.snapshots[i].score # "canonical"

VARIABLES
  pc,        \* start, llm (before Complete), tools (dispatching), done
  iter,      \* rounds completed
  session,   \* [accepted, locked, attempts]
  messages,  \* the conversation: role and ids of tool_use or tool_result blocks
  calls,     \* tool_use blocks of the last turn
  results,   \* ids of the tool_result blocks collected for it
  result,    \* reason and primary of the result once done
  passed,    \* every submission that passed, in order
  last       \* what the last tool call met: [error, outage]

ovars == <<pc, iter, session, messages, calls, results, result, passed, last>>

\* What scoring one snapshot comes to.  A buff or skill that does not resolve or
\* a 4xx of the sidecar is the caller's mistake (fixable); a 5xx or a transport
\* error is an outage.
Outcome ==
  [error : {"none"}, gates : GateOutcome]
    \union [error : {"fixable", "outage"}, gates : {{}}]

Success == "success"

Init ==
  /\ pc = "start"
  /\ iter = 0
  /\ session = [accepted |-> NoAnswer, locked |-> FALSE, attempts |-> 0]
  /\ messages = <<>>
  /\ calls = <<>>
  /\ results = <<>>
  /\ result = [reason |-> "none", primary |-> NoAnswer]
  /\ passed = <<>>
  /\ last = [error |-> FALSE, outage |-> FALSE]

-----------------------------------------------------------------------------
(* The loop.                                                               *)

Fail(reason) ==
  /\ pc' = "done"
  /\ result' = [reason |-> reason, primary |-> NoAnswer]

\* buildResult with the session's answer.
Succeed ==
  /\ pc' = "done"
  /\ result' = [reason |-> Success, primary |-> session.accepted.primary]

RejectRequest ==
  /\ pc = "start"
  /\ Fail("invalid_request")
  /\ UNCHANGED <<iter, session, messages, calls, results, passed, last>>

Start ==
  /\ pc = "start"
  /\ pc' = "llm"
  /\ messages' = <<[role |-> "user", ids |-> <<>>]>>
  /\ UNCHANGED <<iter, session, calls, results, result, passed, last>>

ProviderFails ==
  /\ pc = "llm" /\ iter < MaxIters
  /\ Fail("provider_error") \/ Fail("provider_auth_error")
  /\ UNCHANGED <<iter, session, messages, calls, results, passed, last>>

\* The model's turn, with a tool_use block per call, joins the conversation.
Says(turn) ==
  /\ pc = "llm" /\ iter < MaxIters
  /\ messages' = Append(messages, [role |-> "assistant",
                                   ids  |-> [k \in 1..Len(turn) |-> <<iter, k>>]])

\* The model is done; calls that came with it are not executed.
EndTurn ==
  /\ \E turn \in Turn \union {<<>>} : Says(turn)
  /\ IF session.accepted = NoAnswer THEN Fail("no_submission") ELSE Succeed
  /\ UNCHANGED <<iter, session, calls, results, passed, last>>

\* max_tokens, or a stop reason the loop does not know.
StopShort ==
  /\ \E turn \in Turn \union {<<>>} : Says(turn)
  /\ Fail("provider_max_tokens") \/ Fail("validation_error_late")
  /\ UNCHANGED <<iter, session, calls, results, passed, last>>

\* stop_reason tool_use without a tool_use block.
UseNoTool ==
  /\ Says(<<>>)
  /\ Fail("validation_error_late")
  /\ UNCHANGED <<iter, session, calls, results, passed, last>>

\* Mutant: a turn without a tool call is answered like any other.
UseToolsUnchecked(turn) ==
  /\ Says(turn)
  /\ pc' = "tools"
  /\ calls' = turn
  /\ UNCHANGED <<iter, session, results, result, passed, last>>

\* Every submit_trajectory of the turn counts as an attempt before any runs.
UseTools(turn) ==
  /\ turn # <<>>
  /\ Says(turn)
  /\ pc' = "tools"
  /\ calls' = turn
  /\ session' = [session EXCEPT !.attempts =
                   @ + Cardinality({k \in 1..Len(turn) : turn[k] # Other})]
  /\ UNCHANGED <<iter, results, result, passed, last>>

\* Mutant: the results of a turn are appended to those of the turns before.
ContinueWithAll ==
  /\ pc = "tools" /\ Len(results) >= Len(calls)
  /\ messages' = Append(messages, [role |-> "user", ids |-> results])
  /\ pc' = "llm"
  /\ iter' = iter + 1
  /\ calls' = <<>>
  /\ UNCHANGED <<session, results, result, passed, last>>

\* All calls are answered: the results are the next user message.
Continue ==
  /\ pc = "tools" /\ Len(results) = Len(calls)
  /\ messages' = Append(messages, [role |-> "user", ids |-> results])
  /\ pc' = "llm"
  /\ iter' = iter + 1
  /\ calls' = <<>>
  /\ results' = <<>>
  /\ UNCHANGED <<session, result, passed, last>>

\* Mutant: the end of the loop is a failure whatever was accepted.
ExhaustFails ==
  /\ pc = "llm" /\ iter = MaxIters
  /\ Fail("max_iters_exhausted")
  /\ UNCHANGED <<iter, session, messages, calls, results, passed, last>>

Exhaust ==
  /\ pc = "llm" /\ iter = MaxIters
  /\ IF session.accepted = NoAnswer THEN Fail("max_iters_exhausted") ELSE Succeed
  /\ UNCHANGED <<iter, session, messages, calls, results, passed, last>>

-----------------------------------------------------------------------------
(* The tools.                                                              *)

\* call is the next one of the turn.
IsNext(call) ==
  /\ pc = "tools" /\ Len(results) < Len(calls)
  /\ calls[Len(results) + 1] = call

\* A tool result answers the call whether the tool returned an error or not.
AnswerCall(error, outage) ==
  /\ results' = Append(results, <<iter, Len(results) + 1>>)
  /\ last' = [error |-> error, outage |-> outage]
  /\ UNCHANGED <<pc, iter, messages, calls, result>>

OtherTool ==
  /\ IsNext(Other)
  /\ \E error \in BOOLEAN : AnswerCall(error, FALSE)
  /\ UNCHANGED <<session, passed>>

\* What scoring the selected snapshots of t may come to.
Scorings(t) == [Selected(t) -> Outcome]

\* scoreAndGate stops at the first snapshot that fails.
Failed(scoring) == \E i \in DOMAIN scoring : scoring[i].error # "none"

Outage(scoring) ==
  \E i \in DOMAIN scoring :
    /\ scoring[i].error = "outage"
    /\ \A j \in DOMAIN scoring : j < i => scoring[j].error = "none"

\* Mutant: any error of an alternative drops it.
DroppableAny(scoring) == TRUE

\* The error of an alternative that costs that alternative only.
Droppable(scoring) == ~Outage(scoring)

ValidInput(in) ==
  /\ ValidTrajectory(in.primary)
  /\ \A k \in 1..Len(in.alternatives) : ValidTrajectory(in.alternatives[k])

\* The tool returns an error.
Reject(outage) ==
  /\ AnswerCall(TRUE, outage)
  /\ UNCHANGED <<session, passed>>

\* What scoring the alternatives of in may come to.
AltScorings(in) ==
  LET n == Len(in.alternatives) IN
  {f \in [1..n -> UNION {Scorings(in.alternatives[k]) : k \in 1..n}] :
     \A k \in 1..n : f[k] \in Scorings(in.alternatives[k])}

\* The alternatives that scored and have no blocking gate; the others are
\* dropped without failing the submission.
Kept(in, altScoring) ==
  {Stamp(in.alternatives[k], altScoring[k]) :
     k \in {k \in 1..Len(in.alternatives) :
              /\ ~Failed(altScoring[k])
              /\ ~Blocked(Stamp(in.alternatives[k], altScoring[k]))}}

\* Mutant: the latest submission always wins.
AcceptLatest(answer) ==
  session' = [session EXCEPT !.accepted = answer,
                             !.locked   = session.locked \/ Clean(answer.primary)]

\* Session.Accept: the first clean submission is final, until then the latest
\* replaces the one before.
AcceptAnswer(answer) ==
  session' = IF session.locked THEN session
             ELSE [session EXCEPT !.accepted = answer,
                                  !.locked   = Clean(answer.primary)]

\* The primary has passed; now the alternatives.
SubmitPasses(in, scoring, altScoring) ==
  IF \E k \in DOMAIN altScoring : Failed(altScoring[k]) /\ ~Droppable(altScoring[k])
    THEN Reject(TRUE)
    ELSE LET answer == [primary      |-> Stamp(in.primary, scoring),
                        alternatives |-> Kept(in, altScoring)] IN
         /\ AnswerCall(FALSE, \E k \in DOMAIN altScoring : Outage(altScoring[k]))
         /\ AcceptAnswer(answer)
         /\ passed' = Append(passed, answer)

Submit(in) ==
  /\ IsNext(in)
  /\ \/ ~ValidInput(in) /\ Reject(FALSE)
     \/ /\ ValidInput(in)
        /\ \E scoring \in Scorings(in.primary) :
             IF Failed(scoring) THEN Reject(Outage(scoring))
             ELSE IF Blocked(Stamp(in.primary, scoring)) THEN Reject(FALSE)
             ELSE \E altScoring \in AltScorings(in) :
                    SubmitPasses(in, scoring, altScoring)

-----------------------------------------------------------------------------
Next ==
  \/ RejectRequest \/ Start
  \/ ProviderFails \/ EndTurn \/ StopShort \/ UseNoTool
  \/ \E turn \in Turn : UseTools(turn)
  \/ OtherTool \/ \E in \in Submission : Submit(in)
  \/ Continue \/ Exhaust

Spec == Init /\ [][Next]_ovars

-----------------------------------------------------------------------------
(* Properties.                                                             *)

\* The answers that may pass: a valid input, scored, without a blocking gate.
Answers(in) ==
  {[primary |-> Stamp(in.primary, scoring), alternatives |-> Kept(in, altScoring)] :
     scoring    \in {f \in Scorings(in.primary) :
                       ~Failed(f) /\ ~Blocked(Stamp(in.primary, f))},
     altScoring \in AltScorings(in)}

Answer == UNION {Answers(in) : in \in {i \in Submission : ValidInput(i)}}

ASSUME NoAnswerAssumption == NoAnswer \notin Answer

Block == Nat \X Nat

\* The variables have their types, and only what passed is kept.
OrchestratorTypeOK ==
  /\ pc \in {"start", "llm", "tools", "done"}
  /\ iter \in Nat
  /\ session \in [accepted : Answer \union {NoAnswer}, locked : BOOLEAN,
                  attempts : Nat]
  /\ messages \in Seq([role : {"user", "assistant"}, ids : Seq(Block)])
  /\ calls \in Seq(Submission \union {Other})
  /\ results \in Seq(Block)
  /\ result.primary = NoAnswer \/ result.reason = Success
  /\ passed \in Seq(Answer)
  /\ last \in [error : BOOLEAN, outage : BOOLEAN]

\* First clean wins (session.go): the answer of record is the first clean
\* submission that passed, which locks the session, or the latest one while
\* none was clean.
FirstCleanWins ==
  LET IsClean(k) == Clean(passed[k].primary) IN
  \/ passed = <<>> /\ session.accepted = NoAnswer /\ ~session.locked
  \/ /\ passed # <<>> /\ ~session.locked
     /\ session.accepted = passed[Len(passed)]
     /\ \A k \in 1..Len(passed) : ~IsClean(k)
  \/ /\ session.locked
     /\ \E k \in 1..Len(passed) :
          /\ session.accepted = passed[k]
          /\ IsClean(k)
          /\ \A j \in 1..(k - 1) : ~IsClean(j)

\* An answer of record grows between any two snapshots of a cycle, and never
\* returns from the second cycle to the first (Validate compares neighbours).
AnswerGrows ==
  session.accepted # NoAnswer =>
    \A t \in {session.accepted.primary} \union session.accepted.alternatives :
      \A i, j \in 1..Len(t.snapshots) : i < j =>
        LET s == t.snapshots[i]  r == t.snapshots[j] IN
        /\ s.post => r.post
        /\ s.post = r.post => Grows(s, r)

\* SaveAndComplete will store the answer of record: it refuses none but one
\* where the model itself wrote a score into a snapshot that is not rescored.
AnswerIsSavable ==
  session.accepted # NoAnswer =>
    LET p == session.accepted.primary IN
    \/ Savable(p, session.accepted.alternatives)
    \/ \E i \in 1..Len(p.snapshots) : p.snapshots[i].score = "claimed"

\* Whenever the provider is called the conversation is one it accepts: roles
\* alternate from user to user, and each user message answers exactly the tool
\* calls of the message before, in order.
ConversationWellFormed ==
  pc = "llm" =>
    /\ Len(messages) = 2 * iter + 1
    /\ \A m \in 1..Len(messages) :
         messages[m].role = IF m % 2 = 1 THEN "user" ELSE "assistant"
    /\ \A m \in 1..iter :
         /\ messages[2 * m].ids # <<>>
         /\ messages[2 * m + 1].ids = messages[2 * m].ids

\* The conversation at every step, with the part of a batch that is answered.
Conversation ==
  /\ pc = "start" => iter = 0 /\ calls = <<>> /\ results = <<>>
  /\ pc = "llm" => calls = <<>> /\ results = <<>>
  /\ pc \in {"llm", "tools"} =>
       /\ Len(messages) = 2 * iter + (IF pc = "llm" THEN 1 ELSE 2)
       /\ \A m \in 1..Len(messages) :
            messages[m].role = IF m % 2 = 1 THEN "user" ELSE "assistant"
       /\ \A m \in 1..iter : /\ messages[2 * m].ids # <<>>
                             /\ messages[2 * m + 1].ids = messages[2 * m].ids
  /\ iter <= MaxIters
  /\ pc = "tools" =>
       /\ iter < MaxIters
       /\ calls # <<>> /\ Len(results) <= Len(calls)
       /\ messages[2 * iter + 2].ids = [k \in 1..Len(calls) |-> <<iter, k>>]
       /\ results = [k \in 1..Len(results) |-> <<iter, k>>]

\* A run returns the answer of record or a failure; the failures that say that
\* the model submitted nothing are true.
ResultIsAnswer ==
  pc = "done" =>
    /\ result.reason = Success => /\ passed # <<>>
                                  /\ result.primary = session.accepted.primary
    /\ result.reason \in {"no_submission", "max_iters_exhausted"} => passed = <<>>

\* An outage of the sidecar fails the submission that meets it, whether the
\* primary or an alternative was being scored (submit_trajectory.go:265-271).
OutageSurfaces ==
  [][last'.outage => last'.error /\ session'.accepted = session.accepted]_ovars

\* The inductive invariant.
OrchestratorInv ==
  OrchestratorTypeOK /\ FirstCleanWins /\ Conversation /\ ResultIsAnswer
=============================================================================
