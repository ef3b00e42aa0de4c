------------------------------ MODULE Providers ------------------------------
(***************************************************************************)
(* The orchestrator's loop on top of the provider clients                  *)
(* (internal/llm/anthropic/client.go, internal/llm/openai/client.go): the  *)
(* conversation is put into the form of one API, what the API replies      *)
(* becomes a turn and a stop reason, and the loop branches on them.        *)
(*                                                                         *)
(* The APIs are external.  A reply is                                      *)
(*   [status, body, finish, calls, xml, hermes]                            *)
(* with status 0 for none; a body may be garbled, have no choices, or be   *)
(* full; xml and hermes are the calls a local server left as markup in the *)
(* text of the turn, in either dialect.  Text is left out of a reply: the  *)
(* property is about every choice of turns that carry some.                *)
(***************************************************************************)
EXTENDS Orchestrator, SequencesExt

CONSTANT ApiReply

ASSUME ProvidersAssumption ==
  \A r \in ApiReply : {r.calls, r.xml, r.hermes} \subseteq Turn \union {<<>>}

VARIABLE api   \* LLM_PROVIDER

pvars == <<ovars, api>>

-----------------------------------------------------------------------------
(* Replies.                                                                *)

mapFinishReason(finish) ==
  CASE finish \in {"tool_calls", "function_call"} -> "tool_use"
    [] finish = "length" -> "max_tokens"
    [] OTHER -> "end_turn"

\* Markup of the first dialect hides the second.
recoverToolCalls(r) == IF r.xml # <<>> THEN r.xml ELSE r.hermes

\* Markup counts only where no call arrived as one, and makes the turn a tool turn.
\* A call that did arrive is left as it is, whatever the turn was finished for.
OpenAIResponse(r) ==
  IF r.calls = <<>> /\ recoverToolCalls(r) # <<>>
    THEN [error |-> "none", stop |-> "tool_use", turn |-> recoverToolCalls(r)]
    ELSE [error |-> "none", stop |-> mapFinishReason(r.finish), turn |-> r.calls]

\* The API's words for a stop are the orchestrator's.  A body without content is a turn.
AnthropicResponse(r) ==
  IF r.body = "full" THEN [error |-> "none", stop |-> r.finish, turn |-> r.calls]
  ELSE [error |-> "none", stop |-> "", turn |-> <<>>]

Error(reason) == [error |-> reason, stop |-> "", turn |-> <<>>]

\* Complete and classifyProviderError.
Complete(r) ==
  CASE r.status \in {401, 403} -> Error("provider_auth_error")
    [] r.status \notin {401, 403} \union 200..299 -> Error("provider_error")
    [] r.status \in 200..299 /\ r.body = "garbled" -> Error("provider_error")
    [] r.status \in 200..299 /\ r.body = "empty" /\ api = "openai" -> Error("provider_error")
    [] OTHER -> IF api = "openai" THEN OpenAIResponse(r) ELSE AnthropicResponse(r)

\* What the loop does with the answer.
Ask(r) ==
  LET resp == Complete(r) IN
  \/ resp.error # "none" /\ ProviderFails /\ result'.reason = resp.error
  \/ /\ resp.error = "none"
     /\ \/ resp.stop = "end_turn" /\ EndTurn /\ Says(resp.turn)
        \/ resp.stop = "max_tokens" /\ StopShort /\ Says(resp.turn)
           /\ result'.reason = "provider_max_tokens"
        \/ resp.stop = "tool_use" /\ resp.turn = <<>> /\ UseNoTool
        \/ resp.stop = "tool_use" /\ UseTools(resp.turn)
        \/ /\ resp.stop \notin {"end_turn", "max_tokens", "tool_use"}
           /\ StopShort /\ Says(resp.turn)
           /\ result'.reason = "validation_error_late"

PInit == Init /\ api \in {"anthropic", "openai"}

Same(A) == A /\ UNCHANGED api

PNext ==
  \/ Same(RejectRequest)
  \/ Same(Start)
  \/ \E r \in ApiReply : Same(Ask(r))
  \/ Same(OtherTool)
  \/ \E in \in Submission : Same(Submit(in))
  \/ Same(Continue)
  \/ Same(Exhaust)

PSpec == PInit /\ [][PNext]_pvars

-----------------------------------------------------------------------------
(* The conversation as it is sent.                                         *)

TextBlock == [type |-> "text", id |-> <<>>]
ToolUse(id) == [type |-> "tool_use", id |-> id]
ToolResult(id) == [type |-> "tool_result", id |-> id]

\* The blocks of a type, in the order of the content: the loops of toAPIMessages.
Of(content, type) ==
  LET found[n \in 0..Len(content)] ==
        IF n = 0 THEN <<>>
        ELSE IF content[n].type = type THEN Append(found[n - 1], content[n])
        ELSE found[n - 1]
  IN found[Len(content)]

Ids(content, type) ==
  LET blocks == Of(content, type) IN [k \in DOMAIN blocks |-> blocks[k].id]

\* A recovered call is numbered within its turn, after the id of the reply: where the
\* server gives none, the calls of all such turns get the same ids.
CallId(id, unnamed) == IF id[1] \in unnamed THEN <<-1, id[2]>> ELSE id

\* The conversation of the orchestrator, where the assistant's messages in spoken
\* have text and the replies of the rounds in unnamed had no id.
LlmMessages(spoken, unnamed) ==
  [m \in DOMAIN messages |->
     LET ids == [k \in DOMAIN messages[m].ids |-> CallId(messages[m].ids[k], unnamed)] IN
     [role    |-> messages[m].role,
      content |-> IF messages[m].role = "assistant"
                    THEN (IF m \in spoken THEN <<TextBlock>> ELSE <<>>)
                           \o [k \in DOMAIN ids |-> ToolUse(ids[k])]
                  ELSE IF m = 1 THEN <<TextBlock, TextBlock>>
                  ELSE [k \in DOMAIN ids |-> ToolResult(ids[k])]]]

\* Anthropic: message by message, block by block.
AnthropicMessages(in) == [m \in DOMAIN in |-> [role |-> in[m].role, content |-> in[m].content]]

ApiMessage(role, text, uses, id) == [role |-> role, text |-> text, calls |-> uses, id |-> id]

\* Mutant: a turn that only calls tools is taken for an empty one.
FlattenedIfSpoken(msg) ==
  LET text    == Of(msg.content, "text") # <<>>
      answers == Ids(msg.content, "tool_result")
  IN IF msg.role = "assistant"
       THEN IF ~text THEN <<>>
            ELSE <<ApiMessage("assistant", TRUE, Ids(msg.content, "tool_use"), <<>>)>>
       ELSE [k \in DOMAIN answers |-> ApiMessage("tool", TRUE, <<>>, answers[k])]
              \o (IF text THEN <<ApiMessage("user", TRUE, <<>>, <<>>)>> ELSE <<>>)

\* OpenAI: a message per tool result, then the text; one message for an assistant's
\* text and calls, none where it has neither.
Flattened(msg) ==
  LET text    == Of(msg.content, "text") # <<>>
      uses    == Ids(msg.content, "tool_use")
      answers == Ids(msg.content, "tool_result")
  IN IF msg.role = "assistant"
       THEN IF ~text /\ uses = <<>> THEN <<>> ELSE <<ApiMessage("assistant", text, uses, <<>>)>>
       ELSE [k \in DOMAIN answers |-> ApiMessage("tool", TRUE, <<>>, answers[k])]
              \o (IF text THEN <<ApiMessage("user", TRUE, <<>>, <<>>)>> ELSE <<>>)

OpenAIMessages(in) ==
  <<ApiMessage("system", TRUE, <<>>, <<>>)>> \o FlattenSeq([m \in DOMAIN in |-> Flattened(in[m])])

-----------------------------------------------------------------------------
(* Properties.                                                             *)

\* What the API demands: the user begins, roles alternate, no message is empty, and
\* the message after a turn answers each of its calls, which differ.
AnthropicAccepts(sent) ==
  /\ \A m \in DOMAIN sent :
       /\ sent[m].role = IF m % 2 = 1 THEN "user" ELSE "assistant"
       /\ sent[m].content # <<>>
       /\ IsInjective(Ids(sent[m].content, "tool_use"))
  /\ \A m \in DOMAIN sent \ {1} :
       ToSet(Ids(sent[m].content, "tool_result")) = ToSet(Ids(sent[m - 1].content, "tool_use"))
  /\ Ids(sent[Len(sent)].content, "tool_use") = <<>>

\* What the API demands: no assistant's message is empty, the tool messages right after
\* one answer each of its calls once, and there is no other tool message.
OpenAIAccepts(sent) ==
  LET Caller(j) == SelectLastInSubSeq(sent, 1, j, LAMBDA m : m.role # "tool") IN
  /\ \A i \in DOMAIN sent : sent[i].role = "assistant" => sent[i].text \/ sent[i].calls # <<>>
  /\ \A i \in DOMAIN sent : IsInjective(sent[i].calls)
  /\ \A i \in DOMAIN sent : \A k \in DOMAIN sent[i].calls :
       Cardinality({j \in DOMAIN sent : Caller(j) = i /\ sent[j].id = sent[i].calls[k]}) = 1
  /\ \A j \in DOMAIN sent : sent[j].role = "tool" => sent[j].id \in ToSet(sent[Caller(j)].calls)

\* The calls of a conversation, in order.
AnthropicCalls(sent) == FlattenSeq([m \in DOMAIN sent |-> Ids(sent[m].content, "tool_use")])
OpenAICalls(sent)    == FlattenSeq([m \in DOMAIN sent |-> sent[m].calls])

\* "Both providers see the same effective conversation" (openai/client.go:310-311), at
\* every call of Complete: each API accepts its form, whatever turns have text and
\* whatever ids recovered calls got, and both forms tell of the same calls.
BothWiresAccepted ==
  pc = "llm" /\ iter < MaxIters =>
    \A spoken \in SUBSET {m \in DOMAIN messages : messages[m].role = "assistant"},
       unnamed \in SUBSET (0..(iter - 1)) :
      LET told   == LlmMessages(spoken, unnamed)
          openai == OpenAIMessages(told)
          anthropic == AnthropicMessages(told)
      IN /\ OpenAIAccepts(openai) /\ AnthropicAccepts(anthropic)
         /\ OpenAICalls(openai) = AnthropicCalls(anthropic)
=============================================================================
