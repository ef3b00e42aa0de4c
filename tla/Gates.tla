--------------------------------- MODULE Gates ---------------------------------
(***************************************************************************)
(* The quality gates (internal/scoring/gates): what is reported of one     *)
(* scored snapshot, as a set of results [gate, of, severity].  A run of    *)
(* the orchestrator judges one submission after another under the same     *)
(* request; the state is the submission that was judged last.              *)
(*                                                                         *)
(* An input is [score, snapshot, target, profile, playstyle, ignore]:      *)
(*   score     Null, or what gates read of the calculator's response: maxHp,*)
(*             remaining (status points), the effective stats, atk, matk,  *)
(*             and combat: Null, or percentages, damages and seconds, each *)
(*             Null when the calculator could not compute it;              *)
(*   snapshot  class, stats, skills (a sequence of [id, level]), primary   *)
(*             (the name of the primary scored skill, or ""), equipment    *)
(*             (a set of [id, cards]);                                     *)
(*   target    a mob, 0 for none;                                          *)
(*   profile   Null, or [gates, custom]: the thresholds, Null when the     *)
(*             server declares none, and the threats of its own mobs;      *)
(*   playstyle, and the statuses the request ignores.                      *)
(* Fractions are percentages, EHP multipliers tenths; texts are left out.  *)
(***************************************************************************)
EXTENDS Nil, Integers, Sequences

CONSTANTS
  Catalog,   \* [mobs, items, skills]: what the catalog knows of each id
  Input      \* the inputs that may be judged

Stat == {"vit", "int", "luk", "dex"}

\* What a simulated fight measures.
Measure == {"hit", "dodge", "battle", "inMax", "inAve", "inAveWithDodge"}

Rank == [pass |-> 0, warn |-> 1, fail |-> 2, fail_hard |-> 3]

Result(gate, of, severity) == [gate |-> gate, of |-> of, severity |-> severity]

One(gate, severity) == {Result(gate, "", severity)}

When(condition, results) == IF condition THEN results ELSE {}

-----------------------------------------------------------------------------
(* What the gates look up.                                                 *)

\* The thresholds of a profile replace the canonical ones as a whole.
CanonicalGates ==
  [hitNormalFailHard |-> 80, hitNormalFail |-> 95, hitNormalWarn |-> 100,
   hitMVPFailHard |-> 85, hitMVPFail |-> 95,
   fleeFail |-> 90, fleeWarn |-> 95, woePenalty |-> 20,
   ehpNormal |-> 15, ehpMVPMelee |-> 20, ehpMVPMagicBurst |-> 25,
   ttkMVPMaxSec |-> 300, castTimeWarnMs |-> 3000, castInterruptMs |-> 2000,
   status |-> [pvm |-> [fail |-> {"frozen", "stun"},
                        warn |-> {"stone_curse", "curse", "silence"}],
               pvp |-> [fail |-> {"frozen", "stun", "sleep"},
                        warn |-> {"stone_curse", "curse", "blind", "silence", "poison"}]]]

QualityGates(in) ==
  IF in.profile = Null \/ in.profile.gates = Null THEN CanonicalGates ELSE in.profile.gates

HasCombat(in) == in.score # Null /\ in.score.combat # Null

IsMVP(in) == HasCombat(in) /\ in.score.combat.enemy \in {"MVP", "Boss"}

\* An enemy the calculator does not name, or names unknown, leaves the playstyle.
ScenarioType(in) ==
  CASE HasCombat(in) /\ in.score.combat.enemy \in {"MVP", "Boss", "Normal"} -> "pvm"
    [] HasCombat(in) /\ in.score.combat.enemy = "PlayerCharacter"           -> "pvp"
    [] OTHER -> IF in.playstyle \in {"pvp", "woe"} THEN "pvp" ELSE "pvm"

\* A mob of the server hides the one of the catalog.
Threats(in) ==
  CASE in.target = 0 -> {}
    [] in.target # 0 /\ in.profile # Null /\ in.target \in DOMAIN in.profile.custom ->
         in.profile.custom[in.target]
    [] OTHER -> IF in.target \in DOMAIN Catalog.mobs THEN Catalog.mobs[in.target] ELSE {}

IsMagicBurstTarget(in) == Threats(in) \intersect {"frozen", "sleep", "stone_curse"} # {}

\* A slot without an item hides the cards in it.
Equipped(in) ==
  UNION {{e.id} \union e.cards : e \in {s \in in.snapshot.equipment : s.id # 0}}
    \intersect DOMAIN Catalog.items

EffectiveStats(in) == IF in.score = Null THEN in.snapshot.stats ELSE in.score.stats

\* Full immunity, by stats or by an item.
Covers(in, status) ==
  LET st == EffectiveStats(in) IN
  \/ status = "stun" /\ (st.vit >= 100 \/ (st.vit >= 97 /\ st.luk >= 15))
  \/ status = "sleep" /\ st.int >= 100
  \/ \E i \in Equipped(in) : status \in Catalog.items[i].immunity

GrantsUninterruptibleCast(in) == \E i \in Equipped(in) : Catalog.items[i].uninterruptible

\* Skills that are allocated and known to the catalog.
Allocated(in) ==
  {i \in DOMAIN in.snapshot.skills : /\ in.snapshot.skills[i].level > 0
                                     /\ in.snapshot.skills[i].id \in DOMAIN Catalog.skills}

\* CastAtLevelMs: the table by level when there is one, the level clamped into it.
CastAtLevel(skill, level) ==
  LET table == skill.castByLevel IN
  IF table = <<>> THEN skill.cast
  ELSE table[IF level < 1 THEN 1 ELSE IF level > Len(table) THEN Len(table) ELSE level]

\* The first allocated skill under the name of the primary one, or Null.
PrimaryAttackSkill(in) ==
  LET named == {i \in Allocated(in) :
                  Catalog.skills[in.snapshot.skills[i].id].attack = in.snapshot.primary}
  IN IF in.snapshot.primary = "" \/ named = {} THEN Null
     ELSE LET first == in.snapshot.skills[CHOOSE i \in named : \A j \in named : i <= j]
              skill == Catalog.skills[first.id]
          IN [cast |-> CastAtLevel(skill, first.level), fixed |-> skill.fixed,
              interruptible |-> skill.interruptible]

\* Pre-renewal cast time: DEX shortens the variable part and at 150 removes it.
EffectiveCastTime(skill, dex) ==
  IF dex >= 150 THEN skill.fixed
  ELSE skill.fixed + (skill.cast * (150 - (IF dex < 0 THEN 0 ELSE dex))) \div 150

-----------------------------------------------------------------------------
(* The gates.                                                              *)

UnderspendWarnThreshold == 5

Requirements(in) ==
  When(in.score # Null,
       One("requirements", CASE in.score.remaining < 0 -> "fail_hard"
                             [] in.score.remaining > UnderspendWarnThreshold -> "warn"
                             [] OTHER -> "pass"))

\* Each kick of the Taekwon classes and the stance that makes it work.
KickStance == [TK_STORMKICK |-> "TK_READYSTORM", TK_DOWNKICK |-> "TK_READYDOWN",
               TK_TURNKICK |-> "TK_READYTURN", TK_COUNTER |-> "TK_READYCOUNTER"]

MissingStances(in) ==
  LET learned == {Catalog.skills[in.snapshot.skills[i].id].aegis : i \in Allocated(in)}
  IN {k \in DOMAIN KickStance : k \in learned /\ KickStance[k] \notin learned}

KickStances(in) == When(MissingStances(in) # {}, One("kick_stance", "fail"))

HitInsensitiveClasses ==
  {"taekwon", "taekwon_kid", "taekwon_master", "star_gladiator", "soul_linker",
   "mage", "wizard", "sage", "high_mage", "high_wizard", "professor"}

\* Spellings that stand for another class name.
NormalizeClass(class) ==
  CASE class = "magician"      -> "mage"
    [] class = "high_magician" -> "high_mage"
    [] class = "scholar"       -> "professor"
    [] OTHER                   -> class

IsHitInsensitive(in) ==
  \/ NormalizeClass(in.snapshot.class) \in HitInsensitiveClasses
  \/ in.score # Null /\ in.score.matk > in.score.atk

Tier(actual, fail, warn) ==
  IF actual < fail THEN "fail" ELSE IF actual < warn THEN "warn" ELSE "pass"

\* The severity of a hit rate; targets of the MVP tier have no warning.
HitTier(in) ==
  LET q == QualityGates(in)  hit == in.score.combat.hit IN
  IF IsMVP(in)
    THEN IF hit < q.hitMVPFailHard THEN "fail_hard" ELSE Tier(hit, q.hitMVPFail, q.hitMVPFail)
    ELSE IF hit < q.hitNormalFailHard THEN "fail_hard" ELSE Tier(hit, q.hitNormalFail, q.hitNormalWarn)

\* Mutant: only the hardest failure is demoted.
DemotedHardOnly(in, severity) ==
  IF severity = "fail_hard" /\ IsHitInsensitive(in) THEN "warn" ELSE severity

\* An offence that does not roll HIT is warned of, never failed.
Demoted(in, severity) ==
  IF severity \in {"fail", "fail_hard"} /\ IsHitInsensitive(in) THEN "warn" ELSE severity

Hit(in) ==
  When(HasCombat(in) /\ in.score.combat.hit # Null, One("hit", Demoted(in, HitTier(in))))

\* Dodging takes half of the damage or more.
DodgeReliant(in) ==
  LET c == in.score.combat IN
  /\ HasCombat(in) /\ c.dodge # Null /\ c.inAve # Null /\ c.inAveWithDodge # Null
  /\ 2 * c.inAveWithDodge < c.inAve

\* In ten thousandths, after the penalty of pvp.
EffectiveDodge(in) ==
  in.score.combat.dodge *
    (100 - IF ScenarioType(in) = "pvp" THEN QualityGates(in).woePenalty ELSE 0)

Flee(in) ==
  When(DodgeReliant(in),
       One("flee", Tier(EffectiveDodge(in), 100 * QualityGates(in).fleeFail,
                        100 * QualityGates(in).fleeWarn)))

EHPMultiplier(in) ==
  LET q == QualityGates(in) IN
  IF ~IsMVP(in) THEN q.ehpNormal
  ELSE IF IsMagicBurstTarget(in) THEN q.ehpMVPMagicBurst ELSE q.ehpMVPMelee

HasEHP(in) == HasCombat(in) /\ in.score.maxHp # 0

\* Layer A: the biggest single hit.
EHPBurst(in) ==
  LET hp == in.score.maxHp  max == in.score.combat.inMax IN
  When(HasEHP(in) /\ max # Null /\ max > 0,
       One("ehp_burst", IF hp < max THEN "fail_hard"
                        ELSE IF 10 * hp < max * EHPMultiplier(in) THEN "fail" ELSE "pass"))

\* Layer B: the whole fight.
EHPFight(in) ==
  LET c == in.score.combat IN
  When(/\ HasEHP(in) /\ c.battle # Null /\ c.inAve # Null
       /\ in.score.maxHp < c.inAve * c.battle,
       One("ehp_fight", "fail"))

TTK(in) ==
  LET max == QualityGates(in).ttkMVPMaxSec IN
  When(IsMVP(in) /\ in.score.combat.battle # Null /\ max > 0,
       One("ttk_mvp", IF in.score.combat.battle <= max THEN "pass" ELSE "fail"))

\* The cast time of the primary skill is known and exceeds a limit that is set.
CastExceeds(in, limit) ==
  LET skill == PrimaryAttackSkill(in) IN
  /\ skill # Null /\ in.score # Null /\ limit > 0
  /\ EffectiveCastTime(skill, in.score.stats.dex) > limit

CastTime(in) ==
  When(/\ CastExceeds(in, QualityGates(in).castTimeWarnMs)
       /\ PrimaryAttackSkill(in).cast > 0 \/ PrimaryAttackSkill(in).fixed > 0,
       One("cast_time", "warn"))

\* resolveStatusPriority: the request may drop statuses from both buckets.
Priority(in) ==
  LET all == QualityGates(in).status  type == ScenarioType(in) IN
  IF type \notin DOMAIN all THEN [fail |-> {}, warn |-> {}]
  ELSE [fail |-> all[type].fail \ in.ignore, warn |-> all[type].warn \ in.ignore]

StatusSeverity(in, status) ==
  IF Covers(in, status) THEN "pass" ELSE IF status \in Priority(in).fail THEN "fail" ELSE "warn"

StatusImmunity(in) ==
  {Result("status_immunity", s, StatusSeverity(in, s)) :
     s \in Threats(in) \intersect (Priority(in).fail \union Priority(in).warn)}

\* Safety Wall, Fire Wall, Ice Wall, or dodging.
CastSafetyMitigation(in) ==
  \/ \E i \in DOMAIN in.snapshot.skills :
       in.snapshot.skills[i].id \in {12, 18, 87} /\ in.snapshot.skills[i].level > 0
  \/ HasCombat(in) /\ in.score.combat.dodge # Null /\ in.score.combat.dodge >= 80

UninterruptibleCast(in) ==
  LET skill == PrimaryAttackSkill(in) IN
  CASE skill = Null -> {}
    [] skill # Null /\ GrantsUninterruptibleCast(in) -> One("uninterruptible_cast", "pass")
    [] OTHER ->
         When(skill.interruptible /\ CastExceeds(in, QualityGates(in).castInterruptMs),
              One("uninterruptible_cast", IF CastSafetyMitigation(in) THEN "warn" ELSE "fail"))

\* evaluateRotation reports nothing yet.
Evaluate(in) ==
  UNION {Requirements(in), KickStances(in), Hit(in), Flee(in), EHPBurst(in), EHPFight(in),
         TTK(in), CastTime(in), StatusImmunity(in), UninterruptibleCast(in)}

\* Mutant: a threshold is forgotten.
WarningsButInterrupt(q) ==
  {f \in DOMAIN q \ {"status", "castInterruptMs"} : q[f] = 0}
    \union ({"pvm", "pvp"} \ DOMAIN q.status)

\* QualityGatesWarnings: the thresholds a profile leaves at zero.
Warnings(q) ==
  {f \in DOMAIN q \ {"status"} : q[f] = 0} \union ({"pvm", "pvp"} \ DOMAIN q.status)

-----------------------------------------------------------------------------

\* What the inputs are made of.  Numbers of the calculator are not negative; a block of
\* thresholds has all of the fields, and a profile without one is a profile.
WellFormed(i) ==
  /\ i = [score |-> i.score, snapshot |-> i.snapshot, target |-> i.target,
          profile |-> i.profile, playstyle |-> i.playstyle, ignore |-> i.ignore]
  /\ i.score # Null => i.score.maxHp \in Nat /\ \A st \in Stat : i.score.stats[st] \in Int
  /\ HasCombat(i) => \A m \in Measure :
                        i.score.combat[m] = Null \/ i.score.combat[m] \in Nat
  /\ i.profile # Null => /\ DOMAIN i.profile = {"gates", "custom"}
                         /\ [i.profile EXCEPT !.gates = Null] # Null
  /\ DOMAIN QualityGates(i) = DOMAIN CanonicalGates
  /\ \A f \in DOMAIN CanonicalGates \ {"status"} : QualityGates(i)[f] \in Nat
  /\ QualityGates(i).woePenalty <= 100
  /\ PrimaryAttackSkill(i) # Null =>
       PrimaryAttackSkill(i).cast \in Nat /\ PrimaryAttackSkill(i).fixed \in Nat

ASSUME GatesAssumption == \A i \in Input : WellFormed(i)

VARIABLE in   \* the input judged last

Init == in \in Input

\* The model submits again, under the same request.
Resubmit(next) ==
  /\ <<next.profile, next.playstyle, next.ignore>> = <<in.profile, in.playstyle, in.ignore>>
  /\ in' = next

Next == \E next \in Input : Resubmit(next)

Spec == Init /\ [][Next]_in

-----------------------------------------------------------------------------
(* Properties.                                                             *)

\* The same fight, fought in the same way: the gates that apply are the same.
SameFight(a, b) ==
  /\ a.score # Null /\ b.score # Null /\ a.target = b.target
  /\ a.score.combat = Null <=> b.score.combat = Null
  /\ HasCombat(a) =>
       /\ a.score.combat.enemy = b.score.combat.enemy
       /\ \A m \in Measure :
            a.score.combat[m] = Null <=> b.score.combat[m] = Null
  /\ IsHitInsensitive(a) <=> IsHitInsensitive(b)
  /\ DodgeReliant(a) <=> DodgeReliant(b)
  /\ a.score.maxHp = 0 <=> b.score.maxHp = 0
  /\ PrimaryAttackSkill(a) = PrimaryAttackSkill(b)

\* Nothing the gates read of b is worse than it was in a.
NoWorse(a, b) ==
  /\ a.score.remaining = b.score.remaining \/ b.score.remaining \in 0..UnderspendWarnThreshold
  /\ b.score.maxHp >= a.score.maxHp
  /\ \A st \in Stat : b.score.stats[st] >= a.score.stats[st]
  /\ HasCombat(a) => LET c == a.score.combat  d == b.score.combat IN
       /\ \A m \in {"hit", "dodge"} : c[m] # Null => d[m] >= c[m]
       /\ \A m \in {"inMax", "inAve", "battle"} : c[m] # Null => d[m] <= c[m]
  /\ Equipped(a) \subseteq Equipped(b)
  /\ MissingStances(b) \subseteq MissingStances(a)
  /\ CastSafetyMitigation(a) => CastSafetyMitigation(b)

\* Every complaint among the results R has one as severe among the results S.
NoNewComplaint(R, S) ==
  \A r \in R : r.severity # "pass" =>
     \E s \in S : s.gate = r.gate /\ s.of = r.of /\ Rank[s.severity] >= Rank[r.severity]

\* The model is told to repair what the gates report and to submit again: a
\* submission that is nowhere worse is not judged worse, by any gate.
RepairNeverHurts ==
  [][SameFight(in, in') /\ NoWorse(in, in') => NoNewComplaint(Evaluate(in'), Evaluate(in))]_in

\* GateOverrides drop the statuses they name from the verdict and nothing else.
OverridesOnlyDrop ==
  LET full == Evaluate([in EXCEPT !.ignore = {}]) IN
  Evaluate(in) = {r \in full : r.gate = "status_immunity" => r.of \notin in.ignore}

\* The thresholds each gate compares with.
Fields ==
  [requirements |-> {}, kick_stance |-> {},
   hit |-> {"hitNormalFailHard", "hitNormalFail", "hitNormalWarn", "hitMVPFailHard", "hitMVPFail"},
   flee |-> {"fleeFail", "fleeWarn", "woePenalty"},
   ehp_burst |-> {"ehpNormal", "ehpMVPMelee", "ehpMVPMagicBurst"}, ehp_fight |-> {},
   ttk_mvp |-> {"ttkMVPMaxSec"}, cast_time |-> {"castTimeWarnMs"},
   status_immunity |-> {"pvm", "pvp"}, uninterruptible_cast |-> {"castInterruptMs"}]

\* The author copied the canonical thresholds and left some out.
PartialBlock(q) == \A f \in DOMAIN q \ {"status"} : q[f] \in {0, CanonicalGates[f]}

\* QualityGatesWarnings is there to make "the silent-disable cases" visible: when a
\* partial block hides a complaint of the canonical gates, a threshold of that gate
\* is named.  Exempt are the lists of a declared scenario, which it does not open.
DisabledGateIsNamed ==
  in.profile # Null /\ in.profile.gates # Null /\ PartialBlock(in.profile.gates) =>
    \A r \in Evaluate([in EXCEPT !.profile.gates = Null]) :
       \/ r.severity = "pass"
       \/ \E s \in Evaluate(in) :
            s.gate = r.gate /\ s.of = r.of /\ Rank[s.severity] >= Rank[r.severity]
       \/ Fields[r.gate] \intersect Warnings(in.profile.gates) # {}
       \/ r.gate = "status_immunity" /\ ScenarioType(in) \in DOMAIN in.profile.gates.status
=============================================================================
