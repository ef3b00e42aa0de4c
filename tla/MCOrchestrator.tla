---------------------------- MODULE MCOrchestrator ---------------------------
\* Small trajectories, turns and replies for model checking Orchestrator on top of
\* Providers.
EXTENDS Providers

Snap(class, base, post, str, skills) ==
  [class |-> class, base |-> base, job |-> 10, post |-> post,
   stats |-> [str |-> str, agi |-> 1, vit |-> 1, int |-> 1, dex |-> 9, luk |-> 1],
   skills |-> skills, buffs |-> <<>>,
   refine |-> [slot \in SlotKey |-> IF slot = "weapon" THEN 10 ELSE 0], score |-> "none", gates |-> {}]

Steal(level) == <<[id |-> 50, level |-> level]>>

Thief    == Snap("thief", 50, FALSE, 20, Steal(5))
Thief85  == Snap("thief", 85, FALSE, 40, Steal(10))
HighThief == Snap("high_thief", 40, TRUE, 8, <<>>)
Cross    == Snap("assassin_cross", 99, TRUE, 80, Steal(10))

Path(class, snapshots) == [class |-> class, snapshots |-> snapshots]
Alone(t) == [primary |-> t, alternatives |-> <<>>]

Plain   == Path("thief", <<Thief>>)
Rebirth == Path("assassin_cross", <<Thief, HighThief, Cross>>)
Claimed == Path("thief", <<[Thief EXCEPT !.score = "claimed"], [Thief EXCEPT !.base = 60]>>)

\* One trajectory per check of Validate that an input can miss.
Invalid ==
  {Path("", <<Thief>>), Path("thief", <<>>), Path("novice", <<Thief>>),
   Path("thief", <<[Thief EXCEPT !.class = ""], Thief>>),
   Path("thief", <<[Thief EXCEPT !.job = 0]>>),
   Path("thief", <<[Thief EXCEPT !.refine.weapon = 11]>>),
   Path("thief", <<[Thief EXCEPT !.skills = Steal(0)]>>),
   Path("thief", <<[Thief EXCEPT !.skills = Steal(1) \o Steal(2)]>>),
   Path("thief", <<[Thief EXCEPT !.buffs = <<"spurt", "spurt">>]>>),
   Path("thief", <<Thief85, Thief>>),
   Path("thief", <<Thief, [Thief85 EXCEPT !.stats.dex = 8]>>),
   Path("thief", <<Thief, [Thief85 EXCEPT !.skills = <<>>]>>),
   Path("thief", <<Thief85, HighThief, Thief>>)}

Single ==
  {Alone(Plain), Alone(Rebirth), Alone(Claimed),
   [primary |-> Plain, alternatives |-> <<Plain, Path("thief", <<Thief, Thief85>>)>>]}
  \union {Alone(t) : t \in Invalid}

MCSubmission == Single \union
  {[primary |-> Plain, alternatives |-> <<Path("thief", <<>>)>>]}

Common == {Other, Alone(Plain), Alone(Rebirth)}

MCTurn == {<<>>} \union {<<c>> : c \in MCSubmission \union {Other}}
            \union {<<c, d>> : c, d \in Common}

Reply(status, body, finish, uses, xml, hermes) ==
  [status |-> status, body |-> body, finish |-> finish,
   calls |-> uses, xml |-> xml, hermes |-> hermes]

Full(finish, uses) == Reply(200, "full", finish, uses, <<>>, <<>>)

OpenAIFinish    == {"tool_calls", "function_call", "length", "stop"}
AnthropicFinish == {"tool_use", "max_tokens", "end_turn", "refusal"}

\* Every turn in either API's words; every reason with calls, without and with some
\* that were left in the text, in either dialect or in both.
MCApiReply ==
  {Full(finish, turn) : finish \in {"tool_calls", "tool_use"}, turn \in MCTurn}
  \union {Full(finish, uses) : finish \in OpenAIFinish \union AnthropicFinish,
                              uses \in {<<>>, <<Alone(Plain)>>}}
  \union {Reply(200, "full", finish, <<>>, xml, hermes) :
            finish \in {"stop", "length"}, xml \in {<<>>, <<Other>>},
            hermes \in {<<Alone(Plain)>>, <<>>}}
  \union {Reply(200, body, "", <<>>, <<>>, <<>>) : body \in {"garbled", "empty"}}
  \union {Reply(status, "full", "", <<>>, <<>>, <<>>) : status \in {0, 401, 500}}

MCGateOutcome == {{"pass"}, {"pass", "warn"}, {"fail"}}
=============================================================================
