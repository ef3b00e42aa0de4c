------------------------ MODULE Orchestrator_proofs -------------------------
(***************************************************************************)
(* Proofs about one run of Generate, for any model, any calculator, any    *)
(* set of submissions and any cap of the loop.                             *)
(***************************************************************************)
EXTENDS Orchestrator, FiniteSetTheorems, WellFoundedInduction, TLAPS

\* A submission passes: Accept decides, the history remembers.
Passes(answer) ==
  /\ AcceptAnswer(answer)
  /\ passed' = Append(passed, answer)

\* A submission (Execute, submit_trajectory.go) either is rejected, which leaves
\* the session alone, or hands an answer without a blocking gate to the session.
LEMMA SubmitCases ==
  ASSUME NEW in \in Submission, Submit(in)
  PROVE  /\ IsNext(in)
         /\ \/ \E outage \in BOOLEAN : Reject(outage)
            \/ \E answer \in Answer : AnswerCall(FALSE, FALSE) /\ Passes(answer)
<1>1. IsNext(in)
  BY DEF Submit
<1>2. CASE ~ValidInput(in)
  BY <1>2 DEF Submit
<1>3. ASSUME ValidInput(in)
      PROVE \/ \E outage \in BOOLEAN : Reject(outage)
            \/ \E answer \in Answer : AnswerCall(FALSE, FALSE) /\ Passes(answer)
  <2>1. PICK scoring \in Scorings(in.primary) :
          IF Failed(scoring) THEN Reject(Outage(scoring))
          ELSE IF Blocked(Stamp(in.primary, scoring)) THEN Reject(FALSE)
          ELSE \E altScoring \in AltScorings(in) :
                 SubmitPasses(in, scoring, altScoring)
    BY <1>3 DEF Submit
  <2>2. CASE Failed(scoring)
    BY <2>1, <2>2 DEF Outage
  <2>3. CASE ~Failed(scoring) /\ Blocked(Stamp(in.primary, scoring))
    BY <2>1, <2>3
  <2>4. CASE ~Failed(scoring) /\ ~Blocked(Stamp(in.primary, scoring))
    <3>1. PICK altScoring \in AltScorings(in) : SubmitPasses(in, scoring, altScoring)
      BY <2>1, <2>4
    <3> DEFINE answer == [primary      |-> Stamp(in.primary, scoring),
                          alternatives |-> Kept(in, altScoring)]
    <3>2. answer \in Answers(in)
      BY <2>4 DEF Answers
    <3>3. answer \in Answer
      BY <1>3, <3>2 DEF Answer
    <3>4. CASE \E k \in DOMAIN altScoring :
                 Failed(altScoring[k]) /\ ~Droppable(altScoring[k])
      BY <3>1, <3>4 DEF SubmitPasses
    <3>5. CASE ~\E k \in DOMAIN altScoring :
                 Failed(altScoring[k]) /\ ~Droppable(altScoring[k])
      <4>1. ~\E k \in DOMAIN altScoring : Outage(altScoring[k])
        BY <3>5 DEF Droppable, Outage, Failed
      <4>2. AnswerCall(FALSE, FALSE) /\ Passes(answer)
        BY <3>1, <3>5, <4>1 DEF SubmitPasses, Passes
      <4> QED BY <3>3, <4>2
    <3> QED BY <3>4, <3>5
  <2> QED BY <2>2, <2>3, <2>4
<1> QED BY <1>1, <1>2, <1>3

Message == [role : {"user", "assistant"}, ids : Seq(Block)]

\* The model's turn joins the conversation, with a block per tool call.
LEMMA SaysType ==
  ASSUME OrchestratorTypeOK, NEW turn \in Turn \union {<<>>}, Says(turn)
  PROVE  /\ turn \in Seq(Submission \union {Other})
         /\ messages' \in Seq(Message)
         /\ messages' = Append(messages,
                          [role |-> "assistant",
                           ids  |-> [k \in 1..Len(turn) |-> <<iter, k>>]])
         /\ pc = "llm" /\ iter \in Nat /\ iter < MaxIters
<1>1. turn \in Seq(Submission \union {Other})
  <2>1. CASE turn \in Turn
    BY <2>1, OrchestratorAssumption
  <2>2. CASE turn = <<>>
    BY <2>2
  <2> QED BY <2>1, <2>2
<1>2. Len(turn) \in Nat
  BY <1>1
<1>3. iter \in Nat
  BY DEF OrchestratorTypeOK
<1>4. [k \in 1..Len(turn) |-> <<iter, k>>] \in Seq(Block)
  <2>1. \A k \in 1..Len(turn) : <<iter, k>> \in Block
    BY <1>2, <1>3 DEF Block
  <2> QED BY <1>2, <2>1
<1>5. [role |-> "assistant", ids |-> [k \in 1..Len(turn) |-> <<iter, k>>]] \in Message
  BY <1>4 DEF Message
<1>6. messages \in Seq(Message)
  BY DEF OrchestratorTypeOK, Message
<1> QED BY <1>1, <1>3, <1>5, <1>6 DEF Says

\* A tool result answers the next block of the round.
LEMMA AnswerCallType ==
  ASSUME OrchestratorTypeOK, NEW error \in BOOLEAN, NEW outage \in BOOLEAN,
         AnswerCall(error, outage)
  PROVE  /\ results' \in Seq(Block)
         /\ last' \in [error : BOOLEAN, outage : BOOLEAN]
<1>1. iter \in Nat /\ results \in Seq(Block)
  BY DEF OrchestratorTypeOK
<1>2. <<iter, Len(results) + 1>> \in Block
  BY <1>1 DEF Block
<1> QED BY <1>1, <1>2 DEF AnswerCall

\* Every step keeps the types, and Accept stores only what passed.
LEMMA TypeStep == OrchestratorTypeOK /\ [Next]_ovars => OrchestratorTypeOK'
<1> SUFFICES ASSUME OrchestratorTypeOK, [Next]_ovars PROVE OrchestratorTypeOK'
  OBVIOUS
<1> USE DEF OrchestratorTypeOK
<1>1. CASE RejectRequest
  BY <1>1 DEF RejectRequest, Fail
<1>2. CASE Start
  <2>1. [role |-> "user", ids |-> <<>>] \in Message
    BY DEF Message
  <2> QED BY <1>2, <2>1 DEF Start, Message
<1>3. CASE ProviderFails
  BY <1>3 DEF ProviderFails, Fail
<1>4. CASE EndTurn
  <2>1. messages' \in Seq(Message)
    BY <1>4, SaysType DEF EndTurn
  <2> QED BY <1>4, <2>1 DEF EndTurn, Fail, Succeed, Message
<1>5. CASE StopShort
  <2>1. messages' \in Seq(Message)
    BY <1>5, SaysType DEF StopShort
  <2> QED BY <1>5, <2>1 DEF StopShort, Fail, Message
<1>6. CASE UseNoTool
  <2>1. messages' \in Seq(Message)
    BY <1>6, SaysType DEF UseNoTool
  <2> QED BY <1>6, <2>1 DEF UseNoTool, Fail, Message
<1>7. ASSUME NEW turn \in Turn, UseTools(turn) PROVE OrchestratorTypeOK'
  <2>1. /\ messages' \in Seq(Message)
        /\ turn \in Seq(Submission \union {Other})
        /\ pc = "llm"
    BY <1>7, SaysType DEF UseTools
  <2>2. Cardinality({k \in 1..Len(turn) : turn[k] # Other}) \in Nat
    <3>1. Len(turn) \in Nat
      BY <2>1
    <3>2. IsFiniteSet(1..Len(turn))
      BY <3>1, FS_Interval
    <3> QED BY <3>2, FS_Subset, FS_CardinalityType
  <2>3. session' \in [accepted : Answer \union {NoAnswer}, locked : BOOLEAN,
                      attempts : Nat]
    <3> DEFINE n == Cardinality({k \in 1..Len(turn) : turn[k] # Other})
    <3>1. n \in Nat
      BY <2>2
    <3>2. session' = [session EXCEPT !.attempts = @ + n]
      BY <1>7 DEF UseTools
    <3>3. session.attempts + n \in Nat
      BY <3>1 DEF n
    <3> HIDE DEF n
    <3> QED BY <3>2, <3>3
  <2> QED BY <1>7, <2>1, <2>3 DEF UseTools, Message
<1>8. CASE OtherTool
  <2>1. PICK error \in BOOLEAN : AnswerCall(error, FALSE)
    BY <1>8 DEF OtherTool
  <2>2. /\ results' \in Seq(Block)
        /\ last' \in [error : BOOLEAN, outage : BOOLEAN]
    BY <1>8, <2>1, AnswerCallType DEF OtherTool, IsNext
  <2> QED BY <1>8, <2>1, <2>2 DEF OtherTool, AnswerCall
<1>9. ASSUME NEW in \in Submission, Submit(in) PROVE OrchestratorTypeOK'
  <2>2. ASSUME NEW outage \in BOOLEAN, Reject(outage) PROVE OrchestratorTypeOK'
    <3>1. AnswerCall(TRUE, outage)
      BY <2>2 DEF Reject
    <3>2. /\ results' \in Seq(Block)
            /\ last' \in [error : BOOLEAN, outage : BOOLEAN]
      BY <3>1, AnswerCallType
    <3> QED BY <2>2, <3>1, <3>2 DEF Reject, AnswerCall
  <2>3. ASSUME NEW answer \in Answer, AnswerCall(FALSE, FALSE), Passes(answer)
        PROVE OrchestratorTypeOK'
    <3>1. /\ results' \in Seq(Block)
            /\ last' \in [error : BOOLEAN, outage : BOOLEAN]
      BY <2>3, AnswerCallType
    <3>2. session' \in [accepted : Answer \union {NoAnswer}, locked : BOOLEAN,
                        attempts : Nat]
      BY <2>3 DEF Passes, AcceptAnswer, Clean
    <3>3. passed' \in Seq(Answer)
      BY <2>3 DEF Passes
    <3> QED BY <2>3, <3>1, <3>2, <3>3 DEF AnswerCall
  <2> QED BY <1>9, <2>2, <2>3, SubmitCases
<1>10. CASE Continue
  <2>1. [role |-> "user", ids |-> results] \in Message
    BY DEF Message
  <2>2. messages' \in Seq(Message)
    BY <1>10, <2>1 DEF Continue, Message
  <2> QED BY <1>10, <2>2 DEF Continue, Message
<1>11. CASE Exhaust
  BY <1>11 DEF Exhaust, Fail, Succeed
<1>12. CASE UNCHANGED ovars
  BY <1>12 DEF ovars
<1> QED BY <1>1, <1>2, <1>3, <1>4, <1>5, <1>6, <1>7, <1>8, <1>9, <1>10, <1>11,
           <1>12 DEF Next

-----------------------------------------------------------------------------
\* No step but a submission that passes touches the answer of record.
LEMMA SessionCases ==
  ASSUME OrchestratorTypeOK, [Next]_ovars
  PROVE  \/ /\ session'.accepted = session.accepted
            /\ session'.locked = session.locked
            /\ passed' = passed
         \/ \E answer \in Answer : Passes(answer)
<1> DEFINE Same == /\ session'.accepted = session.accepted
                   /\ session'.locked = session.locked
                   /\ passed' = passed
<1>1. CASE \/ RejectRequest \/ Start \/ ProviderFails \/ EndTurn \/ StopShort
           \/ UseNoTool \/ OtherTool \/ Continue \/ Exhaust \/ UNCHANGED ovars
  BY <1>1 DEF RejectRequest, Start, ProviderFails, EndTurn, StopShort, UseNoTool,
              OtherTool, Continue, Exhaust, ovars
<1>2. ASSUME NEW turn \in Turn, UseTools(turn) PROVE Same
  BY <1>2 DEF UseTools, OrchestratorTypeOK
<1>3. ASSUME NEW in \in Submission, Submit(in)
      PROVE  Same \/ \E answer \in Answer : Passes(answer)
  <2>1. ASSUME NEW outage \in BOOLEAN, Reject(outage) PROVE Same
    BY <2>1 DEF Reject
  <2> QED BY <1>3, <2>1, SubmitCases
<1> QED BY <1>1, <1>2, <1>3 DEF Next

\* Accept (session.go) keeps the first clean answer of a history that grows.
LEMMA FirstCleanStep ==
  OrchestratorTypeOK /\ FirstCleanWins /\ [Next]_ovars => FirstCleanWins'
<1> SUFFICES ASSUME OrchestratorTypeOK, FirstCleanWins, [Next]_ovars
             PROVE  FirstCleanWins'
  OBVIOUS
<1> DEFINE IsClean(h, k) == Clean(h[k].primary)
<1>1. CASE /\ session'.accepted = session.accepted
           /\ session'.locked = session.locked
           /\ passed' = passed
  BY <1>1 DEF FirstCleanWins
<1>2. ASSUME NEW answer \in Answer, Passes(answer) PROVE FirstCleanWins'
  <2> DEFINE n == Len(passed)
  <2>1. passed \in Seq(Answer) /\ n \in Nat
    BY DEF OrchestratorTypeOK
  <2>2. /\ passed' = Append(passed, answer)
        /\ Len(passed') = n + 1
        /\ passed'[n + 1] = answer
        /\ \A k \in 1..n : passed'[k] = passed[k]
    BY <1>2, <2>1 DEF Passes
  <2>3. CASE session.locked
    <3>1. session' = session
      BY <1>2, <2>3 DEF Passes, AcceptAnswer
    <3>2. PICK k \in 1..n : /\ session.accepted = passed[k]
                            /\ IsClean(passed, k)
                            /\ \A j \in 1..(k - 1) : ~IsClean(passed, j)
      BY <2>3 DEF FirstCleanWins
    <3>3. k \in 1..(n + 1) /\ \A j \in 1..(k - 1) : j \in 1..n
      BY <2>1, <3>2
    <3>4. /\ session'.accepted = passed'[k]
          /\ IsClean(passed', k)
          /\ \A j \in 1..(k - 1) : ~IsClean(passed', j)
      BY <2>2, <3>1, <3>2, <3>3
    <3> QED BY <2>2, <2>3, <3>1, <3>3, <3>4 DEF FirstCleanWins
  <2>4. CASE ~session.locked
    <3>1. /\ session'.accepted = answer
          /\ session'.locked = Clean(answer.primary)
      BY <1>2, <2>4 DEF Passes, AcceptAnswer, OrchestratorTypeOK
    <3>2. \A k \in 1..n : ~IsClean(passed, k)
      BY <2>1, <2>4 DEF FirstCleanWins
    <3>3. \A k \in 1..n : ~IsClean(passed', k)
      BY <2>2, <3>2
    <3>4. passed' # <<>> /\ n + 1 \in 1..(n + 1)
      BY <2>1, <2>2
    <3>5. CASE Clean(answer.primary)
      <4>1. /\ session'.accepted = passed'[n + 1]
            /\ IsClean(passed', n + 1)
            /\ \A j \in 1..((n + 1) - 1) : ~IsClean(passed', j)
        BY <2>1, <2>2, <3>1, <3>3, <3>5
      <4> QED BY <2>2, <3>1, <3>4, <3>5, <4>1 DEF FirstCleanWins
    <3>6. CASE ~Clean(answer.primary)
      <4>1. \A k \in 1..(n + 1) : ~IsClean(passed', k)
        BY <2>1, <2>2, <3>3, <3>6
      <4> QED BY <2>2, <3>1, <3>4, <3>6, <4>1 DEF FirstCleanWins
    <3> QED BY <3>5, <3>6
  <2> QED BY <2>3, <2>4
<1> QED BY <1>1, <1>2, SessionCases

\* A history without an answer of record is empty, and the reverse.
LEMMA NoAnswerMeansNothingPassed ==
  ASSUME OrchestratorTypeOK, FirstCleanWins
  PROVE  session.accepted = NoAnswer <=> passed = <<>>
<1>1. \A k \in 1..Len(passed) : passed[k] \in Answer
  BY DEF OrchestratorTypeOK
<1>2. Len(passed) \in Nat /\ (passed # <<>> => Len(passed) \in 1..Len(passed))
  BY DEF OrchestratorTypeOK
<1> QED BY <1>1, <1>2, NoAnswerAssumption DEF FirstCleanWins

\* EndTurn and Exhaust succeed with the answer of record, if there is one.
LEMMA ResultStep ==
  OrchestratorTypeOK /\ FirstCleanWins /\ ResultIsAnswer /\ [Next]_ovars
    => ResultIsAnswer'
<1> SUFFICES ASSUME OrchestratorTypeOK, FirstCleanWins, ResultIsAnswer,
                    [Next]_ovars
             PROVE  ResultIsAnswer'
  OBVIOUS
<1> USE DEF ResultIsAnswer
<1>1. CASE RejectRequest
  BY <1>1 DEF RejectRequest, Fail, Success
<1>2. CASE Start \/ Continue
  BY <1>2 DEF Start, Continue
<1>3. CASE ProviderFails
  BY <1>3 DEF ProviderFails, Fail, Success
<1>4. CASE EndTurn
  BY <1>4, NoAnswerMeansNothingPassed DEF EndTurn, Fail, Succeed, Success
<1>5. CASE StopShort
  BY <1>5 DEF StopShort, Fail, Success
<1>6. CASE UseNoTool
  BY <1>6 DEF UseNoTool, Fail, Success
<1>7. ASSUME NEW turn \in Turn, UseTools(turn) PROVE ResultIsAnswer'
  BY <1>7 DEF UseTools
<1>8. CASE OtherTool
  BY <1>8 DEF OtherTool, IsNext, AnswerCall
<1>9. ASSUME NEW in \in Submission, Submit(in) PROVE ResultIsAnswer'
  <2>1. pc = "tools" /\ pc' = pc
    BY <1>9, SubmitCases DEF IsNext, Reject, AnswerCall
  <2> QED BY <2>1
<1>10. CASE Exhaust
  BY <1>10, NoAnswerMeansNothingPassed DEF Exhaust, Fail, Succeed, Success
<1>11. CASE UNCHANGED ovars
  BY <1>11 DEF ovars
<1> QED BY <1>1, <1>2, <1>3, <1>4, <1>5, <1>6, <1>7, <1>8, <1>9, <1>10, <1>11
        DEF Next

-----------------------------------------------------------------------------
\* The rounds the loop has completed, as they stand in the conversation.
Rounds ==
  /\ \A m \in 1..Len(messages) :
       messages[m].role = IF m % 2 = 1 THEN "user" ELSE "assistant"
  /\ \A m \in 1..iter : /\ messages[2 * m].ids # <<>>
                        /\ messages[2 * m + 1].ids = messages[2 * m].ids

\* A message joins the conversation behind the others.
LEMMA MessageJoins ==
  ASSUME NEW sq \in Seq(Message), NEW block
  PROVE  /\ Len(Append(sq, block)) = Len(sq) + 1
         /\ Append(sq, block)[Len(sq) + 1] = block
         /\ \A m \in 1..Len(sq) : Append(sq, block)[m] = sq[m]
OBVIOUS

\* Generate starts the conversation with the user's request.
LEMMA StartStep == OrchestratorTypeOK /\ Conversation /\ Start => Conversation'
<1> SUFFICES ASSUME OrchestratorTypeOK, Conversation, Start PROVE Conversation'
  OBVIOUS
<1>1. /\ pc = "start" /\ pc' = "llm" /\ iter = 0 /\ iter' = 0
      /\ calls' = <<>> /\ results' = <<>>
      /\ messages' = <<[role |-> "user", ids |-> <<>>]>>
  BY DEF Start, Conversation
<1>2. Len(messages') = 1 /\ messages'[1].role = "user"
  BY <1>1
<1>3. \A m \in 1..Len(messages') :
        messages'[m].role = IF m % 2 = 1 THEN "user" ELSE "assistant"
  BY <1>2
<1> QED BY <1>1, <1>2, <1>3, OrchestratorAssumption DEF Conversation

\* A turn with tool calls opens a round: its blocks await their results.
LEMMA UseToolsStep ==
  ASSUME OrchestratorTypeOK, Conversation, NEW turn \in Turn, UseTools(turn)
  PROVE  Conversation'
<1> DEFINE ids == [k \in 1..Len(turn) |-> <<iter, k>>]
           block == [role |-> "assistant", ids |-> ids]
<1>1. /\ turn \in Seq(Submission \union {Other})
      /\ messages' = Append(messages, block)
      /\ pc = "llm" /\ iter \in Nat /\ iter < MaxIters
  BY SaysType DEF UseTools
<1>2. /\ pc' = "tools" /\ calls' = turn /\ turn # <<>>
      /\ iter' = iter /\ results' = results /\ results = <<>>
  BY <1>1 DEF UseTools, Conversation
<1>3. messages \in Seq(Message) /\ Len(messages) = 2 * iter + 1 /\ Rounds
  BY <1>1 DEF OrchestratorTypeOK, Message, Conversation, Rounds
<1>4. /\ Len(messages') = 2 * iter + 2
      /\ messages'[2 * iter + 2] = block
      /\ \A m \in 1..Len(messages) : messages'[m] = messages[m]
  <2>1. /\ Len(messages) + 1 = 2 * iter + 2
        /\ messages \in Seq(Message) /\ messages' = Append(messages, block)
    BY <1>1, <1>3
  <2> HIDE DEF block
  <2>2. /\ Len(messages') = Len(messages) + 1
        /\ messages'[Len(messages) + 1] = block
        /\ \A m \in 1..Len(messages) : messages'[m] = messages[m]
    BY <2>1, MessageJoins
  <2> QED BY <2>1, <2>2
<1>5. \A m \in 1..Len(messages') :
        messages'[m].role = IF m % 2 = 1 THEN "user" ELSE "assistant"
  <2>1. (2 * iter + 2) % 2 = 0
    BY <1>1
  <2>2. block.role = "assistant"
    OBVIOUS
  <2> HIDE DEF block
  <2>3. \A m \in 1..Len(messages') : m \in 1..Len(messages) \/ m = 2 * iter + 2
    BY <1>1, <1>3, <1>4
  <2> QED BY <1>3, <1>4, <2>1, <2>2, <2>3 DEF Rounds
<1>6. \A m \in 1..iter : /\ messages'[2 * m].ids # <<>>
                         /\ messages'[2 * m + 1].ids = messages'[2 * m].ids
  <2>1. \A m \in 1..iter : 2 * m \in 1..Len(messages) /\ 2 * m + 1 \in 1..Len(messages)
    BY <1>1, <1>3
  <2> QED BY <1>3, <1>4, <2>1 DEF Rounds
<1>7. messages'[2 * iter + 2].ids = ids
  BY <1>4
<1>8. results' = [k \in 1..Len(results') |-> <<iter, k>>]
  BY <1>2
<1>9. Len(results') <= Len(calls')
  BY <1>1, <1>2
<1> HIDE DEF block
<1> QED BY <1>1, <1>2, <1>4, <1>5, <1>6, <1>7, <1>8, <1>9 DEF Conversation

\* A tool answers the next block of the round, in order.
LEMMA AnswerCallStep ==
  ASSUME OrchestratorTypeOK, Conversation, pc = "tools",
         Len(results) < Len(calls),
         NEW error \in BOOLEAN, NEW outage \in BOOLEAN, AnswerCall(error, outage)
  PROVE  Conversation'
<1>1. /\ pc' = "tools" /\ iter' = iter /\ messages' = messages /\ calls' = calls
      /\ results' = Append(results, <<iter, Len(results) + 1>>)
  BY DEF AnswerCall
<1>2. results \in Seq(Block) /\ calls \in Seq(Submission \union {Other})
  BY DEF OrchestratorTypeOK
<1>3. results = [k \in 1..Len(results) |-> <<iter, k>>]
  BY DEF Conversation
<1>4. results' = [k \in 1..Len(results') |-> <<iter, k>>]
  <2> DEFINE n == Len(results)
  <2>1. n \in Nat /\ Len(results') = n + 1
    BY <1>1, <1>2
  <2>2. \A k \in 1..n : results'[k] = <<iter, k>>
    <3>1. \A k \in 1..n : results[k] = <<iter, k>>
      BY <1>3
    <3> QED BY <1>1, <1>2, <3>1
  <2>3. results'[n + 1] = <<iter, n + 1>>
    BY <1>1, <1>2
  <2>4. DOMAIN results' = 1..(n + 1)
    BY <1>1, <1>2
  <2>5. results' = [k \in 1..(n + 1) |-> results'[k]]
    BY <1>1, <1>2, <2>4
  <2>6. \A k \in 1..(n + 1) : results'[k] = <<iter, k>>
    BY <2>1, <2>2, <2>3
  <2> HIDE DEF n
  <2> QED BY <2>1, <2>5, <2>6
<1>5. Len(results') <= Len(calls)
  BY <1>1, <1>2
<1> QED BY <1>1, <1>4, <1>5 DEF Conversation

\* The results of a round close it: they are what its blocks asked for.
LEMMA ContinueStep == OrchestratorTypeOK /\ Conversation /\ Continue => Conversation'
<1> SUFFICES ASSUME OrchestratorTypeOK, Conversation, Continue PROVE Conversation'
  OBVIOUS
<1> DEFINE block == [role |-> "user", ids |-> results]
<1>1. /\ pc = "tools" /\ Len(results) = Len(calls) /\ pc' = "llm"
      /\ messages' = Append(messages, block)
      /\ iter' = iter + 1 /\ calls' = <<>> /\ results' = <<>>
  BY DEF Continue
<1>2. /\ iter \in Nat /\ iter < MaxIters /\ calls # <<>>
      /\ results \in Seq(Block) /\ calls \in Seq(Submission \union {Other})
      /\ messages \in Seq(Message) /\ Len(messages) = 2 * iter + 2 /\ Rounds
      /\ messages[2 * iter + 2].ids = [k \in 1..Len(calls) |-> <<iter, k>>]
      /\ results = [k \in 1..Len(results) |-> <<iter, k>>]
  BY <1>1 DEF OrchestratorTypeOK, Message, Conversation, Rounds
<1>3. results = messages[2 * iter + 2].ids /\ results # <<>>
  BY <1>1, <1>2
<1>4. /\ Len(messages') = 2 * iter + 3
      /\ messages'[2 * iter + 3] = block
      /\ \A m \in 1..Len(messages) : messages'[m] = messages[m]
  <2>1. /\ Len(messages) + 1 = 2 * iter + 3
        /\ messages \in Seq(Message) /\ messages' = Append(messages, block)
    BY <1>1, <1>2
  <2> HIDE DEF block
  <2>2. /\ Len(messages') = Len(messages) + 1
        /\ messages'[Len(messages) + 1] = block
        /\ \A m \in 1..Len(messages) : messages'[m] = messages[m]
    BY <2>1, MessageJoins
  <2> QED BY <2>1, <2>2
<1>5. block.role = "user" /\ block.ids = results
  OBVIOUS
<1> HIDE DEF block
<1>6. \A m \in 1..Len(messages') :
        messages'[m].role = IF m % 2 = 1 THEN "user" ELSE "assistant"
  <2>1. (2 * iter + 3) % 2 = 1
    BY <1>2
  <2>2. \A m \in 1..Len(messages') : m \in 1..Len(messages) \/ m = 2 * iter + 3
    BY <1>2, <1>4
  <2> QED BY <1>2, <1>4, <1>5, <2>1, <2>2 DEF Rounds
<1>7. \A m \in 1..(iter + 1) : /\ messages'[2 * m].ids # <<>>
                               /\ messages'[2 * m + 1].ids = messages'[2 * m].ids
  <2>1. \A m \in 1..iter : 2 * m \in 1..Len(messages) /\ 2 * m + 1 \in 1..Len(messages)
    BY <1>2
  <2>2. \A m \in 1..iter : /\ messages'[2 * m].ids # <<>>
                           /\ messages'[2 * m + 1].ids = messages'[2 * m].ids
    BY <1>2, <1>4, <2>1 DEF Rounds
  <2>3. /\ 2 * (iter + 1) = 2 * iter + 2 /\ 2 * (iter + 1) + 1 = 2 * iter + 3
        /\ 2 * iter + 2 \in 1..Len(messages)
    BY <1>2
  <2>4. /\ messages'[2 * (iter + 1)].ids = results
        /\ messages'[2 * (iter + 1) + 1].ids = results
    BY <1>3, <1>4, <1>5, <2>3
  <2>5. \A m \in 1..(iter + 1) : m \in 1..iter \/ m = iter + 1
    BY <1>2
  <2> QED BY <1>3, <2>2, <2>4, <2>5
<1>8. Len(messages') = 2 * (iter + 1) + 1 /\ iter + 1 <= MaxIters
  BY <1>2, <1>4, OrchestratorAssumption
<1> QED BY <1>1, <1>6, <1>7, <1>8 DEF Conversation

\* Every step keeps the conversation well formed.
LEMMA ConversationStep ==
  OrchestratorTypeOK /\ Conversation /\ [Next]_ovars => Conversation'
<1> SUFFICES ASSUME OrchestratorTypeOK, Conversation, [Next]_ovars
             PROVE  Conversation'
  OBVIOUS
<1>1. ASSUME pc' = "done", iter' = iter PROVE Conversation'
  BY <1>1 DEF Conversation
<1>2. CASE RejectRequest \/ ProviderFails \/ EndTurn \/ StopShort \/ UseNoTool
           \/ Exhaust
  BY <1>1, <1>2 DEF RejectRequest, ProviderFails, EndTurn, StopShort, UseNoTool,
                    Exhaust, Fail, Succeed
<1>3. CASE Start
  BY <1>3, StartStep
<1>4. ASSUME NEW turn \in Turn, UseTools(turn) PROVE Conversation'
  BY <1>4, UseToolsStep
<1>5. CASE OtherTool
  BY <1>5, AnswerCallStep DEF OtherTool, IsNext
<1>6. ASSUME NEW in \in Submission, Submit(in) PROVE Conversation'
  <2>1. pc = "tools" /\ Len(results) < Len(calls)
    BY <1>6 DEF Submit, IsNext
  <2>2. \E error \in BOOLEAN, outage \in BOOLEAN : AnswerCall(error, outage)
    BY <1>6, SubmitCases DEF Reject
  <2> QED BY <2>1, <2>2, AnswerCallStep
<1>7. CASE Continue
  BY <1>7, ContinueStep
<1>8. CASE UNCHANGED ovars
  BY <1>8 DEF ovars, Conversation
<1> QED BY <1>2, <1>3, <1>4, <1>5, <1>6, <1>7, <1>8 DEF Next

-----------------------------------------------------------------------------
\* The invariants of a run: its types, first clean wins, a conversation in
\* rounds, and a result that is the answer of record.
THEOREM OrchestratorInvariant == Spec => []OrchestratorInv
<1>1. Init => OrchestratorInv
  <2> SUFFICES ASSUME Init PROVE OrchestratorInv
    OBVIOUS
  <2>1. OrchestratorTypeOK
    BY DEF Init, OrchestratorTypeOK
  <2>2. FirstCleanWins
    BY DEF Init, FirstCleanWins
  <2>3. Conversation
    BY OrchestratorAssumption DEF Init, Conversation
  <2>4. ResultIsAnswer
    BY DEF Init, ResultIsAnswer
  <2> QED BY <2>1, <2>2, <2>3, <2>4 DEF OrchestratorInv
<1>2. OrchestratorInv /\ [Next]_ovars => OrchestratorInv'
  BY TypeStep, FirstCleanStep, ConversationStep, ResultStep DEF OrchestratorInv
<1> QED BY <1>1, <1>2, PTL DEF Spec

\* The answer of record is the first clean submission that passed, or the latest
\* while none was clean (session.go).
THEOREM FirstCleanSubmissionWins == Spec => []FirstCleanWins
<1>1. OrchestratorInv => FirstCleanWins
  BY DEF OrchestratorInv
<1> QED BY <1>1, OrchestratorInvariant, PTL

\* Every call of the provider carries a conversation it accepts: roles alternate
\* and each user message answers the tool calls before it (orchestrator.go).
THEOREM ProviderAccepts == Spec => []ConversationWellFormed
<1>1. OrchestratorInv => ConversationWellFormed
  BY DEF OrchestratorInv, Conversation, ConversationWellFormed
<1> QED BY <1>1, OrchestratorInvariant, PTL

\* A run returns the answer of record, and claims that nothing was submitted only
\* when nothing was.
THEOREM RunReturnsAnswer == Spec => []ResultIsAnswer
<1>1. OrchestratorInv => ResultIsAnswer
  BY DEF OrchestratorInv
<1> QED BY <1>1, OrchestratorInvariant, PTL

\* What the last tool call met is an error whenever it was an outage.
OutageIsError == last.outage => last.error

\* An outage of the sidecar is never swallowed by the submission that meets it
\* (submit_trajectory.go).
THEOREM OutagesSurface == Spec => OutageSurfaces
<1> DEFINE Surfaces == last'.outage => last'.error /\ session'.accepted = session.accepted
<1>1. Init => OutageIsError
  BY DEF Init, OutageIsError
<1>2. ASSUME OrchestratorInv, OutageIsError, [Next]_ovars PROVE OutageIsError' /\ Surfaces
  <2>1. ASSUME last' = last, session'.accepted = session.accepted
        PROVE  OutageIsError' /\ Surfaces
    BY <1>2, <2>1 DEF OutageIsError
  <2>2. ASSUME NEW error \in BOOLEAN, NEW outage \in BOOLEAN, AnswerCall(error, outage),
               outage => error /\ session' = session
        PROVE  OutageIsError' /\ Surfaces
    BY <2>2 DEF AnswerCall, OutageIsError
  <2>3. CASE \/ RejectRequest \/ Start \/ ProviderFails \/ EndTurn \/ StopShort
             \/ UseNoTool \/ Continue \/ Exhaust \/ UNCHANGED ovars
    BY <2>1, <2>3 DEF RejectRequest, Start, ProviderFails, EndTurn, StopShort,
                      UseNoTool, Continue, Exhaust, ovars
  <2>4. ASSUME NEW turn \in Turn, UseTools(turn) PROVE OutageIsError' /\ Surfaces
    BY <1>2, <2>1, <2>4 DEF UseTools, OrchestratorInv, OrchestratorTypeOK
  <2>5. CASE OtherTool
    BY <2>2, <2>5 DEF OtherTool
  <2>6. ASSUME NEW in \in Submission, Submit(in) PROVE OutageIsError' /\ Surfaces
    BY <2>2, <2>6, SubmitCases DEF Reject
  <2> QED BY <1>2, <2>3, <2>4, <2>5, <2>6 DEF Next
<1>3. OrchestratorInv /\ OutageIsError /\ [Next]_ovars => OutageIsError' /\ [Surfaces]_ovars
  BY <1>2
<1> QED BY <1>1, <1>3, OrchestratorInvariant, PTL DEF Spec, OutageSurfaces

-----------------------------------------------------------------------------
\* After canonical scoring, only snapshots that are not rescored can carry a
\* score without a gate result.
LEMMA StampScores ==
  ASSUME NEW in \in Submission, ValidTrajectory(in.primary),
         NEW scoring \in Scorings(in.primary), ~Failed(scoring),
         NEW t, t = Stamp(in.primary, scoring)
  PROVE  /\ Len(t.snapshots) \in Nat
         /\ \E i \in 1..Len(t.snapshots) : t.snapshots[i].score # "none"
         /\ \A i \in 1..Len(t.snapshots) :
              \/ t.snapshots[i].score = "canonical" /\ t.snapshots[i].gates # {}
              \/ t.snapshots[i].score \in {"none", "claimed"}
<1> DEFINE p == in.primary
           n == Len(p.snapshots)
<1>1. p \in TrajectoryType
  BY OrchestratorAssumption
<1>2. n \in Nat /\ n > 0 /\ p.snapshots \in Seq(Snapshot)
  <2>1. p.snapshots \in Seq(Snapshot)
    BY <1>1 DEF TrajectoryType
  <2>2. n > 0
    BY DEF ValidTrajectory
  <2>3. n \in Nat
    BY <2>1
  <2> QED BY <2>1, <2>2, <2>3
<1>3. /\ Len(t.snapshots) = n
      /\ \A i \in 1..n : t.snapshots[i] =
           IF i \in Selected(p)
             THEN [p.snapshots[i] EXCEPT !.score = "canonical", !.gates = scoring[i].gates]
             ELSE p.snapshots[i]
  <2> DEFINE sn == [i \in 1..n |->
                      IF i \in Selected(p)
                        THEN [p.snapshots[i] EXCEPT !.score = "canonical",
                                                    !.gates = scoring[i].gates]
                        ELSE p.snapshots[i]]
  <2>1. t = [p EXCEPT !.snapshots = sn]
    BY DEF Stamp
  <2>2. t.snapshots = sn
    <3> HIDE DEF sn
    <3> QED BY <1>1, <2>1 DEF TrajectoryType
  <2>3. Len(sn) = n
    BY <1>2
  <2>4. \A i \in 1..n : sn[i] = IF i \in Selected(p)
             THEN [p.snapshots[i] EXCEPT !.score = "canonical", !.gates = scoring[i].gates]
             ELSE p.snapshots[i]
    OBVIOUS
  <2> HIDE DEF sn
  <2> QED BY <2>2, <2>3, <2>4
<1>4. n \in Selected(p)
  BY <1>2 DEF Selected
<1>5. ASSUME NEW i \in Selected(p)
      PROVE  /\ t.snapshots[i].score = "canonical"
             /\ t.snapshots[i].gates = scoring[i].gates
             /\ scoring[i].gates # {}
  <2>1. i \in 1..n /\ p.snapshots[i] \in Snapshot
    BY <1>2, <1>5 DEF Selected
  <2>2. scoring[i] \in Outcome /\ scoring[i].error = "none"
    BY <1>5 DEF Scorings, Failed
  <2>3. scoring[i].gates \in GateOutcome
    BY <2>2 DEF Outcome
  <2>4. scoring[i].gates # {}
    <3>1. GateOutcome \subseteq (SUBSET Severity) \ {{}}
      BY OrchestratorAssumption
    <3>2. {} \notin GateOutcome
      BY <3>1
    <3> QED BY <2>3, <3>2
  <2> QED BY <1>3, <2>1, <2>4 DEF Snapshot
<1>6. ASSUME NEW i \in 1..n, i \notin Selected(p)
      PROVE  t.snapshots[i].score \in {"none", "claimed"}
  <2>1. p.snapshots[i] \in Snapshot
    BY <1>2
  <2> QED BY <1>3, <1>6, <2>1, ScoresAreClaimed DEF Snapshot
<1>7. \E i \in 1..n : t.snapshots[i].score # "none"
  BY <1>2, <1>4, <1>5
<1> QED BY <1>2, <1>3, <1>5, <1>6, <1>7

\* Every answer of record can be saved, but for one where the model itself wrote
\* a score (trajectory.go, save.go).
THEOREM AnswersAreSavable == Spec => []AnswerIsSavable
<1>1. ASSUME OrchestratorInv, session.accepted # NoAnswer PROVE AnswerIsSavable
  <2> DEFINE a == session.accepted
  <2>1. a \in Answer
    BY <1>1 DEF OrchestratorInv, OrchestratorTypeOK
  <2>2. PICK in \in Submission : ValidInput(in) /\ a \in Answers(in)
    BY <2>1 DEF Answer
  <2>3. PICK scoring \in Scorings(in.primary), altScoring \in AltScorings(in) :
          /\ ~Failed(scoring) /\ ~Blocked(Stamp(in.primary, scoring))
          /\ a = [primary |-> Stamp(in.primary, scoring), alternatives |-> Kept(in, altScoring)]
    BY <2>2 DEF Answers
  <2>4. /\ a.primary = Stamp(in.primary, scoring)
        /\ a.alternatives = Kept(in, altScoring)
        /\ ~Blocked(a.primary)
    BY <2>3
  <2>5. \A t \in a.alternatives : ~Blocked(t)
    BY <2>4 DEF Kept
  <2>6. /\ \E i \in 1..Len(a.primary.snapshots) : a.primary.snapshots[i].score # "none"
        /\ \A i \in 1..Len(a.primary.snapshots) :
             \/ /\ a.primary.snapshots[i].score = "canonical"
                /\ a.primary.snapshots[i].gates # {}
             \/ a.primary.snapshots[i].score \in {"none", "claimed"}
    BY <2>2, <2>3, <2>4, StampScores DEF ValidInput
  <2> QED BY <2>4, <2>5, <2>6 DEF AnswerIsSavable, Savable
<1>2. OrchestratorInv => AnswerIsSavable
  BY <1>1 DEF AnswerIsSavable
<1> QED BY <1>2, OrchestratorInvariant, PTL

-----------------------------------------------------------------------------
\* Induction over a set: a set of natural numbers that has 0 and every successor.
LEMMA SetInduction ==
  ASSUME NEW S \in SUBSET Nat, 0 \in S, \A n \in S : n + 1 \in S
  PROVE  S = Nat
<1> SUFFICES ASSUME S # Nat PROVE FALSE
  OBVIOUS
<1> DEFINE R == OpToRel(<, Nat)
           T == Nat \ S
<1>1. IsWellFoundedOn(R, Nat)
  BY NatLessThanWellFounded
<1>2. \A m, n \in Nat : <<m, n>> \in R <=> m < n
  BY DEF OpToRel
<1>3. T \subseteq Nat /\ T # {}
  OBVIOUS
<1> HIDE DEF R, T
<1>4. PICK n \in T : \A m \in T : <<m, n>> \notin R
  BY <1>1, <1>3, WFMin
<1>5. n \in Nat /\ n # 0 /\ n \notin S
  BY <1>3 DEF T
<1>6. n - 1 \in Nat /\ n - 1 < n
  BY <1>5
<1>7. <<n - 1, n>> \in R
  BY <1>2, <1>5, <1>6
<1>8. n - 1 \notin T
  BY <1>4, <1>7
<1> QED BY <1>5, <1>6, <1>8 DEF T

\* Growth is transitive.
LEMMA GrowsOn ==
  ASSUME NEW r \in Snapshot, NEW s \in Snapshot, NEW t \in Snapshot, Grows(r, s), Grows(s, t)
  PROVE  Grows(r, t)
<1>1. t.base >= r.base
  BY DEF Grows, Snapshot
<1>2. ASSUME NEW st \in DOMAIN r.stats
      PROVE  t.stats[st] >= r.stats[st]
  <2>1. /\ r.stats \in Stats /\ s.stats \in Stats /\ t.stats \in Stats
    BY DEF Snapshot
  <2>2. /\ st \in DOMAIN s.stats
        /\ r.stats[st] \in Int /\ s.stats[st] \in Int /\ t.stats[st] \in Int
    BY <2>1 DEF Stats
  <2>3. s.stats[st] >= r.stats[st] /\ t.stats[st] >= s.stats[st]
    BY <2>2 DEF Grows
  <2> QED BY <2>2, <2>3
<1>3. KeepsSkills(r, t)
  <2>1. ASSUME NEW i \in DOMAIN r.skills
        PROVE  \E k \in DOMAIN t.skills : /\ t.skills[k].id = r.skills[i].id
                                          /\ t.skills[k].level >= r.skills[i].level
    <3>1. PICK j \in DOMAIN s.skills : /\ s.skills[j].id = r.skills[i].id
                                       /\ s.skills[j].level >= r.skills[i].level
      BY DEF Grows, KeepsSkills
    <3>2. PICK k \in DOMAIN t.skills : /\ t.skills[k].id = s.skills[j].id
                                       /\ t.skills[k].level >= s.skills[j].level
      BY DEF Grows, KeepsSkills
    <3> DEFINE allocation == [id : Int, level : Int]
    <3>3. r.skills \in Seq(allocation) /\ s.skills \in Seq(allocation) /\ t.skills \in Seq(allocation)
      BY DEF Snapshot
    <3>4. r.skills[i] \in allocation /\ s.skills[j] \in allocation /\ t.skills[k] \in allocation
      <4> HIDE DEF allocation
      <4> QED BY <3>1, <3>2, <3>3
    <3>5. /\ r.skills[i].level \in Int /\ s.skills[j].level \in Int /\ t.skills[k].level \in Int
      BY <3>4
    <3> QED BY <3>1, <3>2, <3>5
  <2> QED BY <2>1 DEF KeepsSkills
<1> QED BY <1>1, <1>2, <1>3 DEF Grows

LEMMA FollowsOn ==
  ASSUME NEW r \in Snapshot, NEW s \in Snapshot, NEW t \in Snapshot, Follows(r, s), Follows(s, t)
  PROVE  Follows(r, t)
<1>1. r.post \in BOOLEAN /\ s.post \in BOOLEAN /\ t.post \in BOOLEAN
  BY DEF Snapshot
<1>2. (r.post => s.post) /\ (s.post => t.post)
  BY DEF Follows
<1>3. ASSUME r.post = t.post
      PROVE  Grows(r, t)
  <2>1. r.post = s.post /\ s.post = t.post
    BY <1>1, <1>2, <1>3
  <2>2. Grows(r, s) /\ Grows(s, t)
    BY <2>1 DEF Follows
  <2> QED BY <2>2, GrowsOn
<1>4. r.post => t.post
  BY <1>2
<1> QED BY <1>3, <1>4 DEF Follows

\* Validate compares neighbours (trajectory.go): so any two snapshots follow each other.
LEMMA ValidFollows ==
  ASSUME NEW t \in TrajectoryType, ValidTrajectory(t),
         NEW i \in 1..Len(t.snapshots), NEW j \in 1..Len(t.snapshots), i < j
  PROVE  Follows(t.snapshots[i], t.snapshots[j])
<1> DEFINE n == Len(t.snapshots)
           S == {d \in Nat : i + d + 1 <= n => Follows(t.snapshots[i], t.snapshots[i + d + 1])}
<1>1. n \in Nat /\ \A k \in 1..n : t.snapshots[k] \in Snapshot
  BY DEF TrajectoryType
<1>2. \A k \in 2..n : Follows(t.snapshots[k - 1], t.snapshots[k])
  BY DEF ValidTrajectory
<1> HIDE DEF n
<1>3. i \in 1..n /\ j \in 1..n
  BY DEF n
<1>4. 0 \in S
  <2> SUFFICES ASSUME i + 1 <= n
               PROVE  Follows(t.snapshots[i], t.snapshots[i + 1])
    BY <1>1, <1>3
  <2>1. i + 1 \in 2..n /\ (i + 1) - 1 = i
    BY <1>1, <1>3
  <2> QED BY <1>2, <2>1
<1>5. ASSUME NEW d \in S
      PROVE  d + 1 \in S
  <2> SUFFICES ASSUME i + (d + 1) + 1 <= n
               PROVE  Follows(t.snapshots[i], t.snapshots[i + (d + 1) + 1])
    OBVIOUS
  <2> DEFINE k == i + d + 1
  <2>1. k \in 1..n /\ k + 1 \in 2..n /\ (k + 1) - 1 = k /\ i + (d + 1) + 1 = k + 1
    BY <1>1, <1>3
  <2>2. Follows(t.snapshots[i], t.snapshots[k])
    BY <1>1, <1>3, <2>1
  <2>3. Follows(t.snapshots[k], t.snapshots[k + 1])
    BY <1>2, <2>1
  <2>4. /\ t.snapshots[i] \in Snapshot /\ t.snapshots[k] \in Snapshot
        /\ t.snapshots[k + 1] \in Snapshot
    BY <1>1, <1>3, <2>1
  <2> HIDE DEF k
  <2>5. Follows(t.snapshots[i], t.snapshots[k + 1])
    BY <2>2, <2>3, <2>4, FollowsOn
  <2> QED BY <2>1, <2>5
<1>6. S = Nat
  BY <1>4, <1>5, SetInduction
<1>7. j - i - 1 \in Nat /\ i + (j - i - 1) + 1 = j
  BY <1>3
<1>8. j - i - 1 \in S
  BY <1>6, <1>7
<1> QED BY <1>1, <1>3, <1>7, <1>8

\* Scoring changes nothing that growth is about.
LEMMA StampFollows ==
  ASSUME NEW t \in TrajectoryType, ValidTrajectory(t), NEW scoring,
         NEW i \in 1..Len(Stamp(t, scoring).snapshots),
         NEW j \in 1..Len(Stamp(t, scoring).snapshots), i < j
  PROVE  Follows(Stamp(t, scoring).snapshots[i], Stamp(t, scoring).snapshots[j])
<1> DEFINE n == Len(t.snapshots)
           stamped(k) == IF k \in Selected(t)
                           THEN [t.snapshots[k] EXCEPT !.score = "canonical",
                                                       !.gates = scoring[k].gates]
                           ELSE t.snapshots[k]
           sn == [k \in 1..n |-> stamped(k)]
<1>1. n \in Nat /\ \A k \in 1..n : t.snapshots[k] \in Snapshot
  BY DEF TrajectoryType
<1>2. Stamp(t, scoring) = [t EXCEPT !.snapshots = sn]
  BY DEF Stamp
<1>3. Stamp(t, scoring).snapshots = sn
  <2> HIDE DEF sn
  <2> QED BY <1>2 DEF TrajectoryType
<1>4. Len(sn) = n /\ \A k \in 1..n : sn[k] = stamped(k)
  <2> HIDE DEF stamped
  <2>1. Len(sn) = n
    BY <1>1
  <2>2. \A k \in 1..n : sn[k] = stamped(k)
    OBVIOUS
  <2> QED BY <2>1, <2>2
<1> HIDE DEF sn
<1>5. ASSUME NEW k \in 1..n
      PROVE  /\ stamped(k).base = t.snapshots[k].base
             /\ stamped(k).post = t.snapshots[k].post
             /\ stamped(k).stats = t.snapshots[k].stats
             /\ stamped(k).skills = t.snapshots[k].skills
  <2>1. t.snapshots[k] \in Snapshot
    BY <1>1
  <2> QED BY <2>1 DEF Snapshot
<1> HIDE DEF stamped
<1>6. i \in 1..n /\ j \in 1..n
  BY <1>3, <1>4
<1>7. Follows(t.snapshots[i], t.snapshots[j])
  BY <1>6, ValidFollows
<1>8. Follows(stamped(i), stamped(j))
  BY <1>5, <1>6, <1>7 DEF Follows, Grows, KeepsSkills
<1> QED BY <1>3, <1>4, <1>6, <1>8

\* An answer of record grows between any two snapshots of a cycle, and never returns
\* from the second cycle to the first, although Validate compares neighbours alone: for
\* trajectories of any length, the primary and every alternative that was kept.
THEOREM AnswersGrow == Spec => []AnswerGrows
<1>1. ASSUME OrchestratorInv, session.accepted # NoAnswer
      PROVE  AnswerGrows
  <2> DEFINE a == session.accepted
  <2>1. a \in Answer
    BY <1>1 DEF OrchestratorInv, OrchestratorTypeOK
  <2>2. PICK in \in Submission : ValidInput(in) /\ a \in Answers(in)
    BY <2>1 DEF Answer
  <2>3. PICK scoring \in Scorings(in.primary), altScoring \in AltScorings(in) :
          a = [primary |-> Stamp(in.primary, scoring), alternatives |-> Kept(in, altScoring)]
    BY <2>2 DEF Answers
  <2>4. a.primary = Stamp(in.primary, scoring) /\ a.alternatives = Kept(in, altScoring)
    BY <2>3
  <2>5. in.primary \in TrajectoryType /\ in.alternatives \in Seq(TrajectoryType)
    BY OrchestratorAssumption
  <2>6. ASSUME NEW t \in {a.primary} \union a.alternatives
        PROVE  \E u \in TrajectoryType : \E sc : ValidTrajectory(u) /\ t = Stamp(u, sc)
    <3>1. CASE t = a.primary
      BY <2>2, <2>4, <2>5, <3>1 DEF ValidInput
    <3>2. CASE t \in a.alternatives
      <4>1. PICK k \in 1..Len(in.alternatives) : t = Stamp(in.alternatives[k], altScoring[k])
        BY <2>4, <3>2 DEF Kept
      <4>2. in.alternatives[k] \in TrajectoryType /\ ValidTrajectory(in.alternatives[k])
        BY <2>2, <2>5 DEF ValidInput
      <4> QED BY <4>1, <4>2
    <3> QED BY <2>6, <3>1, <3>2
  <2>7. ASSUME NEW t \in {a.primary} \union a.alternatives,
               NEW i \in 1..Len(t.snapshots), NEW j \in 1..Len(t.snapshots), i < j
        PROVE  Follows(t.snapshots[i], t.snapshots[j])
    BY <2>6, <2>7, StampFollows
  <2> QED BY <2>7 DEF AnswerGrows, Follows
<1>2. OrchestratorInv => AnswerGrows
  BY <1>1 DEF AnswerGrows
<1> QED BY <1>2, OrchestratorInvariant, PTL
=============================================================================
