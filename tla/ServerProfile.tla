---------------------------- MODULE ServerProfile ----------------------------
(***************************************************************************)
(* A server's profile (internal/domain/server.go, configs/configs.go):     *)
(* which profiles load, what they override, and what they say to the       *)
(* model.  A profile is                                                    *)
(*   [key, name, mode, episode, caps, rates, classChanges, itemChanges,    *)
(*    gearGrants, rulesets, leveling, mobs, notes]; its thresholds belong  *)
(* to Gates.  caps, rates and the limits of a ruleset are functions from fields to    *)
(* numbers, 0 when the field is left out; texts are model values.  What is *)
(* said is a set of facts: the wording and the layout are left out.        *)
(***************************************************************************)
EXTENDS GameCatalog

\* The files of configs/servers: from the base name to the profile it parses to,
\* or Null where it does not parse.
CONSTANT ServerFile

Mode == {"pre-renewal", "renewal"}

Rates == [{"base", "job", "drop", "cardDrop", "mvpCard", "mvpDrop"} -> Nat]

Caps == [{"maxBase", "maxJob", "maxStat", "maxASPD", "instantCastDex", "minSkillDelay",
          "minItemDelay", "partyShareRange"} -> Int]

ClassChange(c) ==
  /\ DOMAIN c = {"class", "rules", "base", "job"} /\ Spelling(c.class)
  /\ {c.base, c.job} \subseteq Int /\ [base |-> c.base, job |-> c.job] # Null

\* The immunities an item change grants are read by nothing.
ItemChange(c) == DOMAIN c = {"id", "name", "notes"} /\ c.id \in Nat

GearGrant(g) == DOMAIN g = {"classes", "items"} /\ \A c \in g.classes : Spelling(c)

\* Classes, skills and items are banned alike.
Ruleset(r) ==
  /\ DOMAIN r = {"schedule", "limits", "banned", "notes"}
  /\ r.limits \in [{"minBaseLevel", "playerCap", "memberCap", "minParticipants"} -> Nat]

Leveling(l) == DOMAIN l = {"quests", "notes"}

Profile(p) ==
  /\ DOMAIN p = {"key", "name", "mode", "episode", "caps", "rates", "classChanges", "itemChanges",
                 "gearGrants", "rulesets", "leveling", "mobs", "notes"}
  /\ p.caps \in Caps /\ p.rates \in Rates
  /\ Sequence(p.classChanges) /\ \A c \in ToSet(p.classChanges) : ClassChange(c)
  /\ \A c \in ToSet(p.itemChanges) : ItemChange(c)
  /\ \A g \in ToSet(p.gearGrants) : GearGrant(g)
  /\ DOMAIN p.rulesets = {"pvpArena", "woe", "preTransWoe"}
  /\ \A label \in DOMAIN p.rulesets : p.rulesets[label] = Null \/ Ruleset(p.rulesets[label])
  /\ p.leveling = Null \/ Leveling(p.leveling)
  /\ Sequence(p.mobs) /\ Null \notin ToSet(p.mobs)

ASSUME ServerFileAssumption ==
  \A base \in DOMAIN ServerFile : ServerFile[base] = Null \/ Profile(ServerFile[base])

ValidProfile(p) ==
  /\ p.key # ""
  /\ p.mode \in Mode \union {""}
  /\ \A f \in {"maxBase", "maxJob", "maxStat"} : p.caps[f] >= 0
  /\ \A k \in DOMAIN p.classChanges : p.classChanges[k].class.key # ""
  /\ \A k \in DOMAIN p.mobs : p.mobs[k].id > 0

\* LoadServerProfile: a profile without a key takes the name of its file.
LoadServerProfile(base) ==
  LET p == IF base \in DOMAIN ServerFile THEN ServerFile[base] ELSE Null
      keyed == IF p = Null \/ p.key # "" THEN p ELSE [p EXCEPT !.key = base]
  IN IF base = "" \/ keyed = Null THEN Null
     ELSE IF ValidProfile(keyed) THEN keyed ELSE Null

\* LoadAllServerProfiles, by key: one bad file fails them all.  Of two files with one
\* key the one listed last stays, and any may be.
AllServerProfiles ==
  LET loaded == {LoadServerProfile(base) : base \in DOMAIN ServerFile} IN
  IF Null \in loaded THEN Null
  ELSE [key \in {p.key : p \in loaded} |-> CHOOSE p \in loaded : p.key = key]

-----------------------------------------------------------------------------
(* What a profile overrides.                                               *)

\* The first mob of this id, or Null.
CustomMob(p, id) ==
  LET found == {k \in DOMAIN p.mobs : p.mobs[k].id = id} IN
  IF found = {} THEN Null ELSE p.mobs[Min(found)]

\* The first change of the class, under exactly this spelling, or Null.
ClassMaxLevelOverride(p, class) ==
  LET found  == IF p = Null THEN {}
                ELSE {k \in DOMAIN p.classChanges : p.classChanges[k].class = class}
      change == p.classChanges[Min(found)]
  IN IF found = {} \/ (change.base = 0 /\ change.job = 0) THEN Null
     ELSE [base |-> change.base, job |-> change.job]

\* mobToEnemyStats: what the calculator is told of a mob it does not know.
EnemyStats(mob) == [level |-> mob.lv, hp |-> mob.hp, traits |-> mob.traits]

\* The mob the calculator is to fight: none, one of its own, or one described.
ResolveEnemy(p, id) ==
  LET custom == IF p = Null THEN Null ELSE CustomMob(p, id) IN
  CASE id = 0 -> [id |-> 0, inline |-> Null]
    [] id # 0 /\ custom # Null -> [id |-> 0, inline |-> EnemyStats(custom)]
    [] OTHER -> [id |-> id, inline |-> Null]

-----------------------------------------------------------------------------
(* RenderForPrompt.                                                        *)

\* Letter case and surrounding space do not matter; an underscore does.
Folded(class) == <<class.key, class.form = "space">>

SameName(a, b) == Folded(a) = Folded(b)

\* The fields of a function that are set.
Said(of, numbers) == {<<of, f, numbers[f]>> : f \in {g \in DOMAIN numbers : numbers[g] > 0}}

\* The three multipliers of the rates are one part: each is said when one is set.
\* What is noted of them is left to the notes of the profile.
RateFacts(rates) ==
  LET basic == {"base", "job", "drop"} IN
  Said("rate", [f \in DOMAIN rates \ basic |-> rates[f]])
    \union IF \E f \in basic : rates[f] > 0
             THEN {<<"rate", f, rates[f]>> : f \in basic} ELSE {}

\* Every change of the class is told, or all of them for the empty class.
ClassChangeFacts(p, class) ==
  UNION {{<<"class", c.class, "rule", r>> : r \in c.rules}
           \union Said("max level", [base |-> c.base, job |-> c.job]) :
         c \in {d \in ToSet(p.classChanges) : class.key = "" \/ SameName(d.class, class)}}

ItemChangeFacts(p) ==
  UNION {{<<"item", c.id, c.name>>} \union {<<"item", c.id, c.name, n>> : n \in c.notes} :
         c \in ToSet(p.itemChanges)}

GearGrantFacts(p, class) ==
  UNION {{<<"grant", g.classes, item>> : item \in g.items} :
         g \in {h \in ToSet(p.gearGrants) :
                  class.key = "" \/ \E c \in h.classes : SameName(c, class)}}

RulesetFacts(label, r) ==
  IF r = Null THEN {}
  ELSE {<<label, "schedule", r.schedule>>} \union Said(label, r.limits)
         \union {<<label, "banned", x>> : x \in r.banned}
         \union {<<label, "note", n>> : n \in r.notes}

LevelingFacts(leveling) ==
  IF leveling = Null THEN {}
  ELSE {<<"leveling", n>> : n \in leveling.notes} \union {<<"quest", q>> : q \in leveling.quests}

CustomMobFacts(p) ==
  {<<"mob", mob.id, mob.lv, mob.hp, mob.traits>> : mob \in ToSet(p.mobs)}

RenderForPrompt(p, class) ==
  {<<"name", IF p.name = "" THEN p.key ELSE p.name>>}
    \union {f \in {<<"episode", p.episode>>, <<"mode", p.mode>>} : f[2] # ""}
    \union Said("cap", p.caps) \union RateFacts(p.rates)
    \union ClassChangeFacts(p, class) \union ItemChangeFacts(p)
    \union GearGrantFacts(p, class)
    \union (UNION {RulesetFacts(label, p.rulesets[label]) : label \in DOMAIN p.rulesets})
    \union LevelingFacts(p.leveling) \union CustomMobFacts(p)
    \union {<<"note", n>> : n \in p.notes}
=============================================================================
