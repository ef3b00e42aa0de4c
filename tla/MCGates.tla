------------------------------- MODULE MCGates -------------------------------
(* Inputs around the boundaries of every gate, one family per gate. *)
EXTENDS Gates, TLC

Skill(aegis, attack, cast, byLevel, fixed, interruptible) ==
  [aegis |-> aegis, attack |-> attack, cast |-> cast, castByLevel |-> byLevel,
   fixed |-> fixed, interruptible |-> interruptible]

\* 1 stuns and freezes (a burst target), 2 silences and stuns; 3 is the server's own.
MCCatalog ==
  [mobs   |-> 1 :> {"stun", "frozen", "blind"} @@ 2 :> {"silence", "stun"},
   items  |-> 10 :> [immunity |-> {}, uninterruptible |-> FALSE]
              @@ 11 :> [immunity |-> {"frozen"}, uninterruptible |-> FALSE]
              @@ 12 :> [immunity |-> {}, uninterruptible |-> TRUE],
   skills |-> 12 :> Skill("MG_SAFETYWALL", "", 4000, <<>>, 0, TRUE)
              @@ 20 :> Skill("MG_BOLT", "bolt", 700, <<700, 3500, 7000>>, 500, TRUE)
              @@ 21 :> Skill("XX_STEADY", "bolt", 7000, <<>>, 0, FALSE)
              @@ 30 :> Skill("TK_DOWNKICK", "kick", 0, <<>>, 0, FALSE)
              @@ 31 :> Skill("TK_READYDOWN", "", 0, <<>>, 0, FALSE)]

\* No server; a server without thresholds; a block with gaps; an empty block.
Gaps == [CanonicalGates EXCEPT !.hitNormalFail = 0, !.hitMVPFailHard = 0, !.fleeWarn = 0,
           !.woePenalty = 0, !.ehpMVPMagicBurst = 0, !.castInterruptMs = 0,
           !.status = [pvm |-> CanonicalGates.status.pvm]]
Zero == [f \in DOMAIN CanonicalGates |-> IF f = "status" THEN <<>> ELSE 0]
Server  == [gates |-> Null, custom |-> 1 :> {} @@ 3 :> {"sleep", "frozen"}]
Partial == [gates |-> Gaps, custom |-> <<>>]
Empty   == [gates |-> Zero, custom |-> <<>>]

Stats(vit, int, luk, dex) == [vit |-> vit, int |-> int, luk |-> luk, dex |-> dex]

Combat == [hit |-> 100, dodge |-> 10, battle |-> 60, inMax |-> 1000, inAve |-> 50,
           inAveWithDodge |-> 45, enemy |-> "Normal"]

Base ==
  [score |-> [maxHp |-> 6000, remaining |-> 0, stats |-> Stats(50, 50, 10, 50),
              atk |-> 100, matk |-> 50, combat |-> Combat],
   snapshot |-> [class |-> "hunter", stats |-> Stats(100, 1, 1, 50), skills |-> <<>>,
                 primary |-> "", equipment |-> {}],
   target |-> 0, profile |-> Null, playstyle |-> "pvm", ignore |-> {}]

Offence ==
  {[Base EXCEPT !.score.combat.hit = hit, !.score.combat.enemy = enemy, !.score.matk = matk,
                !.snapshot.class = class, !.profile = profile] :
     hit \in {79, 80, 84, 94, 95, 99, 100, Null}, enemy \in {"Normal", "MVP", ""},
     matk \in {100, 101}, class \in {"hunter", "scholar"}, profile \in {Null, Partial, Empty}}

Survival ==
  {[Base EXCEPT !.score.maxHp = hp, !.score.combat.inMax = max, !.score.combat.inAve = ave,
                !.score.combat.battle = battle, !.score.combat.enemy = enemy,
                !.target = target, !.profile = profile] :
     hp \in {0, 999, 1499, 1500, 2000, 2500, 7525}, max \in {Null, 0, 1000},
     ave \in {Null, 25}, battle \in {60, 301}, enemy \in {"Normal", "Boss"},
     target \in {0, 1}, profile \in {Null, Partial}}

Dodging ==
  {[Base EXCEPT !.score.combat.dodge = dodge, !.score.combat.inAveWithDodge = with,
                !.score.combat.enemy = enemy, !.playstyle = playstyle, !.profile = profile] :
     dodge \in {79, 89, 90, 94, 95, 100}, with \in {24, 25, Null},
     enemy \in {"Normal", "PlayerCharacter", ""}, playstyle \in {"pvm", "woe"},
     profile \in {Null, Partial}}

Statuses ==
  {[Base EXCEPT !.score.stats = stats, !.score.combat.enemy = "", !.target = target,
                !.snapshot.equipment = equipment, !.playstyle = playstyle,
                !.ignore = ignore, !.profile = profile] :
     stats \in {Stats(96, 99, 15, 50), Stats(97, 100, 10, 50), Stats(97, 99, 15, 50),
                Stats(100, 100, 10, 50)},
     equipment \in {{}, {[id |-> 10, cards |-> {11}]}, {[id |-> 0, cards |-> {11}]}},
     target \in {1, 2, 3}, playstyle \in {"pvm", "pvp"}, ignore \in {{}, {"stun"}},
     profile \in {Null, Server, Partial}}

Casting ==
  {[Base EXCEPT !.score.stats.dex = dex, !.score.combat.dodge = dodge, !.profile = profile,
                !.snapshot.skills = skills, !.snapshot.primary = "bolt",
                !.snapshot.equipment = equipment] :
     dex \in {50, 149, 150}, dodge \in {79, 80}, profile \in {Null, Partial},
     equipment \in {{}, {[id |-> 12, cards |-> {}]}},
     skills \in {<<>>, <<[id |-> 20, level |-> 1]>>, <<[id |-> 20, level |-> 5]>>,
                 <<[id |-> 20, level |-> 3], [id |-> 12, level |-> 1]>>,
                 <<[id |-> 20, level |-> 0], [id |-> 21, level |-> 1]>>,
                 <<[id |-> 30, level |-> 1]>>,
                 <<[id |-> 30, level |-> 1], [id |-> 31, level |-> 1]>>}}

\* A boss that stuns and freezes, met by builds that dodge and cast.
Fights ==
  {[Base EXCEPT !.score.maxHp = hp, !.score.combat =
                  [hit |-> hit, dodge |-> dodge, battle |-> battle, inMax |-> 1000,
                   inAve |-> 50, inAveWithDodge |-> 24, enemy |-> "Boss"],
                !.score.stats = stats, !.target = 1, !.snapshot.primary = "bolt",
                !.snapshot.skills = <<[id |-> 20, level |-> 3]>>,
                !.snapshot.equipment = equipment] :
     hp \in {999, 2499, 2500, 7525}, hit \in {84, 95}, dodge \in {79, 89, 95},
     battle \in {40, 301}, stats \in {Stats(100, 50, 10, 149), Stats(50, 50, 10, 50)},
     equipment \in {{}, {[id |-> 12, cards |-> {11}]}}}

Budget == {[Base EXCEPT !.score.remaining = left, !.score.combat = combat] :
             left \in {-1, 0, 5, 6}, combat \in {Null, Combat}}

Unscored == {[i EXCEPT !.score = Null] : i \in Statuses}

MCInput == Offence \union Survival \union Dodging \union Statuses \union Casting
             \union Fights \union Budget \union Unscored
==============================================================================
