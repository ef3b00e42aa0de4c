-------------------------------- MODULE Prompt --------------------------------
(***************************************************************************)
(* What a run of the orchestrator is asked and what it tells the model     *)
(* before the first turn (internal/orchestrator/orchestrator.go).          *)
(*                                                                         *)
(* A request is [class, server, mode, playstyle, description], description *)
(* the length of the text, "" and 0 what is left out.  The prompt is a set *)
(* of facts; wording, order and the fixed advice are left out.             *)
(***************************************************************************)
EXTENDS ServerProfile

Playstyle == {"pvm", "pvp", "balanced_dual", "balanced_generalist"}

MaxDescriptionLen == 2000

profiles == AllServerProfiles

ValidateRequest(r) ==
  /\ r.mode \in {"", "pre-renewal"}
  /\ r.playstyle \in Playstyle \union {""}
  /\ r.description <= MaxDescriptionLen

\* With no profiles at all every server is accepted, and none applies.
KnownServer(server) ==
  server = "" \/ DOMAIN profiles = {} \/ server \in DOMAIN profiles

ValidateRequestWithProfiles(r) == ValidateRequest(r) /\ KnownServer(r.server)

\* resolveProfile of a known server.
ResolveProfile(server) ==
  IF server \in DOMAIN profiles THEN profiles[server] ELSE Null

-----------------------------------------------------------------------------
(* What is fetched for the prompt; nothing where the class is unknown.     *)

Known(class) == class.key # "" /\ ClassWithAliases(class) # Null

SkillsForPrompt(class) == IF Known(class) THEN ClassSkills(class) ELSE <<>>

\* The buffs of the skills, and the innate ones, with no skill of their own.
BuffsForPrompt(class) ==
  IF ~Known(class) THEN {}
  ELSE Range(ClassBuffs(class))
         \union {[aegis |-> "(innate)", id |-> 0, buff |-> b] : b \in ToSet(ClassInnateBuffs(class))}

\* Mutant: the server's levels are used where the catalog has none.
CatalogFirst(max, own) ==
  [f \in {"base", "job"} |-> IF max[f] > 0 THEN max[f] ELSE own[f]]

\* Each of the catalog's levels, replaced by the server's where it sets one.
Overridden(max, own) ==
  [f \in {"base", "job"} |-> IF own[f] > 0 THEN own[f] ELSE max[f]]

OverriddenIfAny(max, own) ==
  IF max = Null \/ own = Null THEN max ELSE Overridden(max, own)

MaxLevelsForPrompt(p, class) ==
  IF class.key = "" THEN Null
  ELSE OverriddenIfAny(ClassMaxLevels(class), ClassMaxLevelOverride(p, class))

SkillPointBudget(class) == IF class.key = "" THEN Null ELSE ClassSkillPointBudget(class)

-----------------------------------------------------------------------------
(* formatUserPrompt.                                                       *)

RequestFacts(r) ==
  {<<"class", IF r.class.key = "" THEN Key("novice") ELSE r.class>>,
   <<"mode", IF r.mode = "" THEN "pre-renewal" ELSE r.mode>>}
    \union {f \in {<<"server", r.server>>, <<"playstyle", r.playstyle>>} : f[2] # ""}
    \union {f \in {<<"description", r.description>>} : f[2] > 0}

\* The levels are told where both are positive, the budget where it is.
LevelFacts(max, budget) ==
  (IF max # Null /\ max.base > 0 /\ max.job > 0
     THEN {<<"max levels", max.base, max.job>>} ELSE {})
    \union {f \in {<<"budget", budget>>} : f[2] \notin {Null, 0}}

TaekwonFacts(class) ==
  (IF class.key \in {"taekwon_kid", "taekwon"} THEN {<<"ranker option">>} ELSE {})
    \union IF class.key \in {"taekwon_kid", "taekwon", "star_gladiator", "taekwon_master"}
             THEN {<<"kick stances">>} ELSE {}

\* The name under which a skill may be declared for scoring, or "".
Scoreable(s) == IF s.unusable \/ s.attack = Null THEN "" ELSE s.attack

SkillFacts(class) ==
  {<<"skill", s.id, s.aegis, s.max, s.unusable, Scoreable(s)>> : s \in Range(SkillsForPrompt(class))}

BuffFacts(class) ==
  {<<"buff", b.buff.name, b.aegis, b.buff.kind, b.buff.elements>> : b \in BuffsForPrompt(class)}

UserPrompt(r) ==
  LET p == ResolveProfile(r.server) IN
  RequestFacts(r) \union TaekwonFacts(r.class)
    \union LevelFacts(MaxLevelsForPrompt(p, r.class), SkillPointBudget(r.class))
    \union SkillFacts(r.class) \union BuffFacts(r.class)
    \union IF p = Null THEN {} ELSE RenderForPrompt(p, r.class)
=============================================================================
