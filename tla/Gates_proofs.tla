------------------------------ MODULE Gates_proofs ------------------------------
(* Proofs about the gates, for every catalog and every set of inputs.      *)
EXTENDS Gates, TLAPS

(* Two inputs of one run, the second a repair of the first. *)
Repair(a, b) ==
  /\ a \in Input /\ b \in Input
  /\ a.profile = b.profile /\ a.playstyle = b.playstyle /\ a.ignore = b.ignore
  /\ SameFight(a, b)
  /\ NoWorse(a, b)

(* What is looked up for both is the same. *)
LEMMA SameLookups ==
  ASSUME NEW a, NEW b, Repair(a, b)
  PROVE  /\ QualityGates(a) = QualityGates(b)
         /\ HasCombat(a) <=> HasCombat(b)
         /\ IsMVP(a) <=> IsMVP(b)
         /\ ScenarioType(a) = ScenarioType(b)
         /\ Threats(a) = Threats(b)
         /\ Priority(a) = Priority(b)
<1>1. QualityGates(a) = QualityGates(b)
  BY DEF Repair, QualityGates
<1>2. HasCombat(a) <=> HasCombat(b)
  BY DEF Repair, SameFight, HasCombat
<1>3. HasCombat(a) => a.score.combat.enemy = b.score.combat.enemy
  BY DEF Repair, SameFight
<1>4. IsMVP(a) <=> IsMVP(b)
  BY <1>2, <1>3 DEF IsMVP
<1>5. ScenarioType(a) = ScenarioType(b)
  BY <1>2, <1>3 DEF ScenarioType, Repair
<1>6. Threats(a) = Threats(b)
  BY DEF Threats, Repair, SameFight
<1>7. Priority(a) = Priority(b)
  BY <1>1, <1>5 DEF Priority, Repair
<1> QED BY <1>1, <1>2, <1>4, <1>5, <1>6, <1>7

(* Numbers are comparable. *)
LEMMA Numbers ==
  ASSUME NEW a, NEW b, Repair(a, b)
  PROVE  /\ a.score # Null /\ b.score # Null
         /\ a.score.maxHp \in Nat /\ b.score.maxHp \in Nat
         /\ a.score.maxHp <= b.score.maxHp
         /\ \A st \in Stat : /\ a.score.stats[st] \in Int /\ b.score.stats[st] \in Int
                             /\ a.score.stats[st] <= b.score.stats[st]
         /\ HasCombat(a) => \A m \in Measure :
              /\ a.score.combat[m] = Null <=> b.score.combat[m] = Null
              /\ a.score.combat[m] # Null =>
                   a.score.combat[m] \in Nat /\ b.score.combat[m] \in Nat
         /\ \A f \in DOMAIN CanonicalGates \ {"status"} : QualityGates(a)[f] \in Nat
         /\ QualityGates(a).woePenalty <= 100
<1>1. WellFormed(a) /\ WellFormed(b)
  BY GatesAssumption DEF Repair
<1>2. HasCombat(a) <=> HasCombat(b)
  BY SameLookups
<1>3. a.score # Null /\ b.score # Null
  BY DEF Repair, SameFight
<1>4. a.score.maxHp \in Nat /\ b.score.maxHp \in Nat /\ a.score.maxHp <= b.score.maxHp
  BY <1>1, <1>3 DEF WellFormed, Repair, NoWorse
<1>5. \A st \in Stat : /\ a.score.stats[st] \in Int /\ b.score.stats[st] \in Int
                       /\ a.score.stats[st] <= b.score.stats[st]
  BY <1>1, <1>3 DEF WellFormed, Repair, NoWorse
<1>6. HasCombat(a) => \A m \in Measure :
              /\ a.score.combat[m] = Null <=> b.score.combat[m] = Null
              /\ a.score.combat[m] # Null =>
                   a.score.combat[m] \in Nat /\ b.score.combat[m] \in Nat
  BY <1>1, <1>2, Zenon DEF WellFormed, Repair, SameFight
<1>7. /\ \A f \in DOMAIN CanonicalGates \ {"status"} : QualityGates(a)[f] \in Nat
      /\ QualityGates(a).woePenalty <= 100
  BY <1>1 DEF WellFormed
<1> QED BY <1>3, <1>4, <1>5, <1>6, <1>7

(* The field names of the canonical thresholds. *)
LEMMA Thresholds ==
  DOMAIN CanonicalGates \ {"status"} =
    {"hitNormalFailHard", "hitNormalFail", "hitNormalWarn", "hitMVPFailHard", "hitMVPFail",
     "fleeFail", "fleeWarn", "woePenalty", "ehpNormal", "ehpMVPMelee", "ehpMVPMagicBurst",
     "ttkMVPMaxSec", "castTimeWarnMs", "castInterruptMs"}
  BY DEF CanonicalGates

(* One gate, judging one thing. *)
LEMMA OneGate ==
  ASSUME NEW gate, NEW c, NEW x, NEW d, NEW y,
         c /\ x # "pass" => d /\ Rank[y] >= Rank[x]
  PROVE  NoNewComplaint(When(c, One(gate, x)), When(d, One(gate, y)))
<1> SUFFICES ASSUME NEW r \in When(c, One(gate, x)), r.severity # "pass"
             PROVE  \E s \in When(d, One(gate, y)) :
                       s.gate = r.gate /\ s.of = r.of /\ Rank[s.severity] >= Rank[r.severity]
  BY DEF NoNewComplaint
<1>1. c /\ r = Result(gate, "", x)
  BY Zenon DEF When, One
<1>2. r.gate = gate /\ r.of = "" /\ r.severity = x
  BY <1>1 DEF Result
<1>3. d /\ Rank[y] >= Rank[x]
  BY <1>1, <1>2, Zenon
<1>4. Result(gate, "", y) \in When(d, One(gate, y))
  BY <1>3 DEF When, One
<1>5. /\ Result(gate, "", y).gate = gate /\ Result(gate, "", y).of = ""
      /\ Result(gate, "", y).severity = y
  BY DEF Result
<1> QED BY <1>2, <1>3, <1>4, <1>5

(* Ranks in numbers. *)
LEMMA Ranks ==
  /\ Rank["pass"] = 0 /\ Rank["warn"] = 1 /\ Rank["fail"] = 2 /\ Rank["fail_hard"] = 3
  BY DEF Rank

-----------------------------------------------------------------------------
(* Gate by gate: a repair gives no new complaint. *)

LEMMA RequirementsRepair ==
  ASSUME NEW a, NEW b, Repair(a, b)
  PROVE  NoNewComplaint(Requirements(b), Requirements(a))
<1> DEFINE sev(i) == CASE i.score.remaining < 0 -> "fail_hard"
                       [] i.score.remaining > UnderspendWarnThreshold -> "warn"
                       [] OTHER -> "pass"
<1>1. CASE a.score.remaining = b.score.remaining
  <2>1. sev(a) = sev(b)
    BY <1>1
  <2>2. sev(b) \in {"fail_hard", "warn", "pass"}
    OBVIOUS
  <2>3. Rank[sev(a)] >= Rank[sev(b)]
    BY <2>1, <2>2, Ranks
  <2>4. a.score # Null /\ b.score # Null
    BY Numbers
  <2> HIDE DEF sev
  <2>5. NoNewComplaint(When(b.score # Null, One("requirements", sev(b))),
                       When(a.score # Null, One("requirements", sev(a))))
    BY <2>3, <2>4, OneGate
  <2> QED BY <2>5 DEF Requirements, sev
<1>2. CASE b.score.remaining \in 0..UnderspendWarnThreshold
  <2>1. sev(b) = "pass"
    BY <1>2 DEF UnderspendWarnThreshold
  <2> HIDE DEF sev
  <2>2. NoNewComplaint(When(b.score # Null, One("requirements", sev(b))),
                       When(a.score # Null, One("requirements", sev(a))))
    BY <2>1, OneGate
  <2> QED BY <2>2 DEF Requirements, sev
<1> QED BY <1>1, <1>2 DEF Repair, NoWorse

LEMMA KickStancesRepair ==
  ASSUME NEW a, NEW b, Repair(a, b)
  PROVE  NoNewComplaint(KickStances(b), KickStances(a))
<1>1. MissingStances(b) # {} => MissingStances(a) # {}
  BY DEF Repair, NoWorse
<1>2. Rank["fail"] >= Rank["fail"]
  BY Ranks
<1> QED BY <1>1, <1>2, OneGate DEF KickStances

LEMMA HitRepair ==
  ASSUME NEW a, NEW b, Repair(a, b)
  PROVE  NoNewComplaint(Hit(b), Hit(a))
<1> DEFINE known(i) == HasCombat(i) /\ i.score.combat.hit # Null
<1> SUFFICES ASSUME known(b)
             PROVE  known(a) /\ Rank[Demoted(a, HitTier(a))] >= Rank[Demoted(b, HitTier(b))]
  BY OneGate DEF Hit
<1>1. known(a)
  BY Numbers, SameLookups DEF Measure
<1>2. /\ a.score.combat.hit \in Nat /\ b.score.combat.hit \in Nat
      /\ a.score.combat.hit <= b.score.combat.hit
  BY <1>1, Numbers DEF Measure, Repair, NoWorse
<1>3. \A f \in {"hitNormalFailHard", "hitNormalFail", "hitNormalWarn", "hitMVPFailHard",
                "hitMVPFail"} : QualityGates(a)[f] \in Nat
  BY Numbers, Thresholds
<1>4. HitTier(a) \in {"pass", "warn", "fail", "fail_hard"}
      /\ HitTier(b) \in {"pass", "warn", "fail", "fail_hard"}
  BY DEF HitTier, Tier
<1>5. Rank[HitTier(a)] >= Rank[HitTier(b)]
  BY <1>2, <1>3, Ranks, SameLookups DEF HitTier, Tier
<1>6. IsHitInsensitive(a) <=> IsHitInsensitive(b)
  BY DEF Repair, SameFight
<1>7. Rank[Demoted(a, HitTier(a))] >= Rank[Demoted(b, HitTier(b))]
  BY <1>4, <1>5, <1>6, Ranks DEF Demoted
<1> QED BY <1>1, <1>7

LEMMA FleeRepair ==
  ASSUME NEW a, NEW b, Repair(a, b)
  PROVE  NoNewComplaint(Flee(b), Flee(a))
<1> DEFINE q == QualityGates(a)
           tier(i) == Tier(EffectiveDodge(i), 100 * q.fleeFail, 100 * q.fleeWarn)
<1> SUFFICES ASSUME DodgeReliant(b)
             PROVE  DodgeReliant(a) /\ Rank[tier(a)] >= Rank[tier(b)]
  BY OneGate, SameLookups DEF Flee
<1>1. DodgeReliant(a)
  BY DEF Repair, SameFight
<1>2. /\ a.score.combat.dodge \in Nat /\ b.score.combat.dodge \in Nat
      /\ a.score.combat.dodge <= b.score.combat.dodge
  BY <1>1, Numbers DEF Measure, Repair, NoWorse, DodgeReliant
<1>3. q.fleeFail \in Nat /\ q.fleeWarn \in Nat /\ q.woePenalty \in 0..100
  BY Numbers, Thresholds
<1> DEFINE rest == 100 - (IF ScenarioType(a) = "pvp" THEN q.woePenalty ELSE 0)
<1>4. rest \in Nat
  BY <1>3
<1>5. EffectiveDodge(a) = a.score.combat.dodge * rest /\ EffectiveDodge(b) = b.score.combat.dodge * rest
  BY SameLookups DEF EffectiveDodge
<1> HIDE DEF rest
<1>6. \A x, y, k \in Nat : x <= y => x * k \in Nat /\ y * k \in Nat /\ x * k <= y * k
  OBVIOUS
<1>7. EffectiveDodge(a) \in Nat /\ EffectiveDodge(b) \in Nat /\ EffectiveDodge(a) <= EffectiveDodge(b)
  BY <1>2, <1>4, <1>5, <1>6
<1> HIDE DEF q
<1>8. Rank[tier(a)] >= Rank[tier(b)]
  BY <1>3, <1>7, Ranks DEF Tier
<1> QED BY <1>1, <1>8

(* Products of natural numbers grow with their factors. *)
LEMMA Products ==
  ASSUME NEW x \in Nat, NEW y \in Nat, NEW k \in Nat, NEW l \in Nat, x <= y, k <= l
  PROVE  x * k \in Nat /\ y * l \in Nat /\ x * k <= y * l
<1>1. x * k <= y * k
  OBVIOUS
<1>2. y * k <= y * l
  OBVIOUS
<1>3. x * k \in Nat /\ y * k \in Nat /\ y * l \in Nat
  OBVIOUS
<1> QED BY <1>1, <1>2, <1>3

LEMMA EHPBurstRepair ==
  ASSUME NEW a, NEW b, Repair(a, b)
  PROVE  NoNewComplaint(EHPBurst(b), EHPBurst(a))
<1> DEFINE hit(i) == i.score.combat.inMax
           known(i) == HasEHP(i) /\ hit(i) # Null /\ hit(i) > 0
           k == EHPMultiplier(a)
           sev(i) == IF i.score.maxHp < hit(i) THEN "fail_hard"
                     ELSE IF 10 * i.score.maxHp < hit(i) * k THEN "fail" ELSE "pass"
<1>1. k = EHPMultiplier(b)
  BY SameLookups DEF EHPMultiplier, IsMagicBurstTarget
<1>2. k \in Nat
  BY Numbers, Thresholds DEF EHPMultiplier
<1>3. ASSUME known(b)
      PROVE  known(a) /\ Rank[sev(a)] >= Rank[sev(b)]
  <2>1. HasEHP(a) /\ hit(a) # Null
    BY <1>3, Numbers, SameLookups DEF HasEHP, Measure, Repair, SameFight
  <2>2. hit(a) \in Nat /\ hit(b) \in Nat /\ hit(b) <= hit(a)
    BY <2>1, Numbers DEF HasEHP, Measure, Repair, NoWorse
  <2>3. hit(b) * k \in Nat /\ hit(a) * k \in Nat /\ hit(b) * k <= hit(a) * k
    BY <1>2, <2>2, Products
  <2>4. a.score.maxHp \in Nat /\ b.score.maxHp \in Nat /\ a.score.maxHp <= b.score.maxHp
    BY Numbers
  <2>5. known(a)
    BY <1>3, <2>1, <2>2
  <2> DEFINE x == hit(a) * k  y == hit(b) * k
  <2>6. x \in Nat /\ y \in Nat /\ y <= x
    BY <2>3
  <2> HIDE DEF x, y, hit, k
  <2>7. Rank[IF a.score.maxHp < hit(a) THEN "fail_hard"
             ELSE IF 10 * a.score.maxHp < x THEN "fail" ELSE "pass"]
        >= Rank[IF b.score.maxHp < hit(b) THEN "fail_hard"
                ELSE IF 10 * b.score.maxHp < y THEN "fail" ELSE "pass"]
    BY <2>2, <2>4, <2>6, Ranks
  <2> QED BY <2>5, <2>7 DEF x, y
<1> QED BY <1>1, <1>3, OneGate DEF EHPBurst

LEMMA EHPFightRepair ==
  ASSUME NEW a, NEW b, Repair(a, b)
  PROVE  NoNewComplaint(EHPFight(b), EHPFight(a))
<1> DEFINE ave(i) == i.score.combat.inAve
           time(i) == i.score.combat.battle
           falls(i) == /\ HasEHP(i) /\ time(i) # Null /\ ave(i) # Null
                       /\ i.score.maxHp < ave(i) * time(i)
<1>1. ASSUME falls(b)
      PROVE  falls(a)
  <2>1. HasEHP(a) /\ time(a) # Null /\ ave(a) # Null
    BY <1>1, Numbers, SameLookups DEF HasEHP, Measure, Repair, SameFight
  <2>2. /\ ave(a) \in Nat /\ ave(b) \in Nat /\ ave(b) <= ave(a)
        /\ time(a) \in Nat /\ time(b) \in Nat /\ time(b) <= time(a)
    BY <2>1, Numbers DEF HasEHP, Measure, Repair, NoWorse
  <2>3. /\ ave(b) * time(b) \in Nat /\ ave(a) * time(a) \in Nat
        /\ ave(b) * time(b) <= ave(a) * time(a)
    BY <2>2, Products
  <2>4. a.score.maxHp \in Nat /\ b.score.maxHp \in Nat /\ a.score.maxHp <= b.score.maxHp
    BY Numbers
  <2> DEFINE x == ave(a) * time(a)  y == ave(b) * time(b)
  <2>5. b.score.maxHp < y
    BY <1>1
  <2>6. x \in Nat /\ y \in Nat /\ y <= x
    BY <2>3
  <2> HIDE DEF x, y
  <2>7. a.score.maxHp < x
    BY <2>4, <2>5, <2>6
  <2> QED BY <2>1, <2>7 DEF x
<1>2. Rank["fail"] >= Rank["fail"]
  BY Ranks
<1> QED BY <1>1, <1>2, OneGate DEF EHPFight

LEMMA TTKRepair ==
  ASSUME NEW a, NEW b, Repair(a, b)
  PROVE  NoNewComplaint(TTK(b), TTK(a))
<1> DEFINE max == QualityGates(a).ttkMVPMaxSec
           known(i) == IsMVP(i) /\ i.score.combat.battle # Null /\ max > 0
           sev(i) == IF i.score.combat.battle <= max THEN "pass" ELSE "fail"
<1>1. max \in Nat
  BY Numbers, Thresholds
<1>2. ASSUME known(b)
      PROVE  known(a) /\ Rank[sev(a)] >= Rank[sev(b)]
  <2>1. known(a) /\ HasCombat(a)
    BY <1>2, Numbers, SameLookups DEF Measure, IsMVP
  <2>2. /\ a.score.combat.battle \in Nat /\ b.score.combat.battle \in Nat
        /\ b.score.combat.battle <= a.score.combat.battle
    BY <2>1, Numbers DEF Measure, Repair, NoWorse
  <2> HIDE DEF max
  <2> QED BY <1>1, <2>1, <2>2, Ranks
<1> QED BY <1>2, OneGate, SameLookups DEF TTK

(* DEX never lengthens a cast, the truncation to milliseconds included. *)
LEMMA DexShortens ==
  ASSUME NEW skill, skill.cast \in Nat, skill.fixed \in Nat,
         NEW d \in Int, NEW e \in Int, d <= e
  PROVE  /\ EffectiveCastTime(skill, d) \in Nat /\ EffectiveCastTime(skill, e) \in Nat
         /\ EffectiveCastTime(skill, e) <= EffectiveCastTime(skill, d)
<1> DEFINE left(n) == 150 - (IF n < 0 THEN 0 ELSE n)
<1>1. ASSUME NEW n \in Int, n < 150
      PROVE  /\ left(n) \in Nat
             /\ skill.cast * left(n) \in Nat
             /\ (skill.cast * left(n)) \div 150 \in Nat
             /\ EffectiveCastTime(skill, n) = skill.fixed + (skill.cast * left(n)) \div 150
  <2>1. left(n) \in Nat
    BY <1>1
  <2>2. skill.cast * left(n) \in Nat
    BY <2>1
  <2>3. \A x \in Nat : x \div 150 \in Nat
    OBVIOUS
  <2>4. EffectiveCastTime(skill, n) = skill.fixed + (skill.cast * left(n)) \div 150
    BY <1>1 DEF EffectiveCastTime
  <2> HIDE DEF left
  <2> QED BY <2>1, <2>2, <2>3, <2>4
<1>2. ASSUME NEW n \in Int, n >= 150
      PROVE  EffectiveCastTime(skill, n) = skill.fixed
  BY <1>2 DEF EffectiveCastTime
<1>3. \A x, y \in Nat : x <= y => x \div 150 <= y \div 150
  OBVIOUS
<1>4. CASE e >= 150
  <2>1. EffectiveCastTime(skill, e) = skill.fixed
    BY <1>2, <1>4
  <2>2. CASE d >= 150
    BY <1>2, <2>1, <2>2
  <2>3. CASE d < 150
    <3> DEFINE rest == (skill.cast * left(d)) \div 150
    <3>1. rest \in Nat /\ EffectiveCastTime(skill, d) = skill.fixed + rest
      BY <1>1, <2>3
    <3> HIDE DEF rest
    <3> QED BY <2>1, <3>1
  <2> QED BY <2>2, <2>3
<1>5. CASE e < 150
  <2>1. left(d) \in Nat /\ left(e) \in Nat /\ left(e) <= left(d)
    BY <1>5
  <2> HIDE DEF left
  <2>2. skill.cast * left(e) <= skill.cast * left(d)
    BY <2>1, Products
  <2>3. d < 150
    BY <1>5
  <2> DEFINE x == skill.cast * left(e)  y == skill.cast * left(d)
  <2>4. /\ x \in Nat /\ y \in Nat /\ x \div 150 \in Nat /\ y \div 150 \in Nat
        /\ EffectiveCastTime(skill, e) = skill.fixed + x \div 150
        /\ EffectiveCastTime(skill, d) = skill.fixed + y \div 150
    BY <1>1, <1>5, <2>3
  <2>5. x <= y
    BY <2>2
  <2> HIDE DEF x, y
  <2>6. x \div 150 <= y \div 150
    BY <1>3, <2>4, <2>5
  <2> QED BY <2>4, <2>6
<1> QED BY <1>4, <1>5

LEMMA CastRepair ==
  ASSUME NEW a, NEW b, Repair(a, b), NEW limit \in Nat, CastExceeds(b, limit)
  PROVE  CastExceeds(a, limit)
<1> DEFINE skill == PrimaryAttackSkill(a)
<1>1. skill = PrimaryAttackSkill(b) /\ skill # Null
  BY DEF Repair, SameFight, CastExceeds
<1>2. skill.cast \in Nat /\ skill.fixed \in Nat
  BY <1>1, GatesAssumption DEF Repair, WellFormed
<1>3. /\ a.score # Null /\ b.score # Null
      /\ a.score.stats.dex \in Int /\ b.score.stats.dex \in Int
      /\ a.score.stats.dex <= b.score.stats.dex
  BY Numbers DEF Stat
<1> HIDE DEF skill
<1>4. /\ EffectiveCastTime(skill, a.score.stats.dex) \in Nat
      /\ EffectiveCastTime(skill, b.score.stats.dex) \in Nat
      /\ EffectiveCastTime(skill, b.score.stats.dex) <= EffectiveCastTime(skill, a.score.stats.dex)
  BY <1>2, <1>3, DexShortens
<1>5. limit > 0 /\ EffectiveCastTime(skill, b.score.stats.dex) > limit
  BY <1>1 DEF CastExceeds
<1>6. EffectiveCastTime(skill, a.score.stats.dex) > limit
  BY <1>4, <1>5
<1> QED BY <1>1, <1>3, <1>5, <1>6 DEF CastExceeds, skill

LEMMA CastTimeRepair ==
  ASSUME NEW a, NEW b, Repair(a, b)
  PROVE  NoNewComplaint(CastTime(b), CastTime(a))
<1> DEFINE slow(i) == /\ CastExceeds(i, QualityGates(i).castTimeWarnMs)
                      /\ PrimaryAttackSkill(i).cast > 0 \/ PrimaryAttackSkill(i).fixed > 0
<1>1. slow(b) => slow(a)
  <2>1. QualityGates(a).castTimeWarnMs \in Nat /\ QualityGates(b) = QualityGates(a)
    BY Numbers, Thresholds, SameLookups
  <2>2. PrimaryAttackSkill(a) = PrimaryAttackSkill(b)
    BY DEF Repair, SameFight
  <2> QED BY <2>1, <2>2, CastRepair
<1>2. Rank["warn"] >= Rank["warn"]
  BY Ranks
<1> QED BY <1>1, <1>2, OneGate DEF CastTime

LEMMA UninterruptibleCastRepair ==
  ASSUME NEW a, NEW b, Repair(a, b)
  PROVE  NoNewComplaint(UninterruptibleCast(b), UninterruptibleCast(a))
<1> DEFINE skill == PrimaryAttackSkill(a)
           limit == QualityGates(a).castInterruptMs
           cancelled(i) == skill.interruptible /\ CastExceeds(i, limit)
           sev(i) == IF CastSafetyMitigation(i) THEN "warn" ELSE "fail"
<1>1. skill = PrimaryAttackSkill(b)
  BY DEF Repair, SameFight
<1>2. limit \in Nat /\ QualityGates(b) = QualityGates(a)
  BY Numbers, Thresholds, SameLookups
<1>3. GrantsUninterruptibleCast(a) => GrantsUninterruptibleCast(b)
  BY DEF GrantsUninterruptibleCast, Repair, NoWorse
<1>4. cancelled(b) => cancelled(a)
  BY <1>1, <1>2, CastRepair
<1>5. Rank[sev(a)] >= Rank[sev(b)]
  BY Ranks DEF Repair, NoWorse
<1>6. NoNewComplaint(When(cancelled(b), One("uninterruptible_cast", sev(b))),
                     When(cancelled(a), One("uninterruptible_cast", sev(a))))
  BY <1>4, <1>5, OneGate
<1>7. \A S : NoNewComplaint({}, S)
  BY DEF NoNewComplaint
<1>8. \A S : NoNewComplaint(One("uninterruptible_cast", "pass"), S)
  <2>1. ASSUME NEW r \in One("uninterruptible_cast", "pass")
        PROVE  r.severity = "pass"
    <3>1. r = Result("uninterruptible_cast", "", "pass")
      BY DEF One
    <3> QED BY <3>1 DEF Result
  <2> QED BY <2>1 DEF NoNewComplaint
<1>9. CASE skill = Null
  BY <1>1, <1>7, <1>9 DEF UninterruptibleCast
<1>10. CASE skill # Null /\ GrantsUninterruptibleCast(b)
  BY <1>1, <1>8, <1>10 DEF UninterruptibleCast
<1>11. CASE skill # Null /\ ~GrantsUninterruptibleCast(b)
  <2>1. UninterruptibleCast(b) = When(cancelled(b), One("uninterruptible_cast", sev(b)))
    BY <1>1, <1>2, <1>11 DEF UninterruptibleCast
  <2>2. UninterruptibleCast(a) = When(cancelled(a), One("uninterruptible_cast", sev(a)))
    BY <1>3, <1>11 DEF UninterruptibleCast
  <2> QED BY <1>6, <2>1, <2>2
<1> QED BY <1>9, <1>10, <1>11

LEMMA CoversRepair ==
  ASSUME NEW a, NEW b, Repair(a, b), NEW status, Covers(a, status)
  PROVE  Covers(b, status)
<1> DEFINE stun(i) == i.score.stats.vit >= 100 \/ (i.score.stats.vit >= 97 /\ i.score.stats.luk >= 15)
           worn(i) == \E e \in Equipped(i) : status \in Catalog.items[e].immunity
<1>1. EffectiveStats(a) = a.score.stats /\ EffectiveStats(b) = b.score.stats
  BY Numbers DEF EffectiveStats
<1>2. \A st \in Stat : /\ a.score.stats[st] \in Int /\ b.score.stats[st] \in Int
                       /\ a.score.stats[st] <= b.score.stats[st]
  BY Numbers
<1>3. \A i : EffectiveStats(i) = i.score.stats =>
        (Covers(i, status) <=> \/ status = "stun" /\ stun(i)
                               \/ status = "sleep" /\ i.score.stats.int >= 100
                               \/ worn(i))
  BY DEF Covers
<1>4. stun(a) => stun(b)
  <2>1. /\ a.score.stats.vit \in Int /\ b.score.stats.vit \in Int
        /\ a.score.stats.luk \in Int /\ b.score.stats.luk \in Int
        /\ a.score.stats.vit <= b.score.stats.vit /\ a.score.stats.luk <= b.score.stats.luk
    BY <1>2 DEF Stat
  <2> QED BY <2>1
<1>5. a.score.stats.int >= 100 => b.score.stats.int >= 100
  <2>1. /\ a.score.stats.int \in Int /\ b.score.stats.int \in Int
        /\ a.score.stats.int <= b.score.stats.int
    BY <1>2 DEF Stat
  <2> QED BY <2>1
<1>6. worn(a) => worn(b)
  BY DEF Repair, NoWorse
<1> HIDE DEF stun, worn
<1> QED BY <1>1, <1>3, <1>4, <1>5, <1>6

LEMMA StatusImmunityRepair ==
  ASSUME NEW a, NEW b, Repair(a, b)
  PROVE  NoNewComplaint(StatusImmunity(b), StatusImmunity(a))
<1> SUFFICES ASSUME NEW r \in StatusImmunity(b)
             PROVE  \E t \in StatusImmunity(a) :
                       t.gate = r.gate /\ t.of = r.of /\ Rank[t.severity] >= Rank[r.severity]
  BY DEF NoNewComplaint
<1>1. PICK s \in Threats(b) \intersect (Priority(b).fail \union Priority(b).warn) :
         r = Result("status_immunity", s, StatusSeverity(b, s))
  BY DEF StatusImmunity
<1> DEFINE t == Result("status_immunity", s, StatusSeverity(a, s))
<1>2. t \in StatusImmunity(a)
  BY <1>1, SameLookups DEF StatusImmunity
<1>3. Rank[StatusSeverity(a, s)] >= Rank[StatusSeverity(b, s)]
  <2>1. Covers(a, s) => Covers(b, s)
    BY CoversRepair
  <2>2. Priority(a) = Priority(b)
    BY SameLookups
  <2> QED BY <2>1, <2>2, Ranks DEF StatusSeverity
<1>4. t.gate = r.gate /\ t.of = r.of /\ Rank[t.severity] >= Rank[r.severity]
  BY <1>1, <1>3 DEF Result
<1> QED BY <1>2, <1>4

-----------------------------------------------------------------------------
(* All gates. *)

LEMMA EvaluateIs ==
  ASSUME NEW i
  PROVE  Evaluate(i) =
           Requirements(i) \union KickStances(i) \union Hit(i) \union Flee(i) \union EHPBurst(i)
             \union EHPFight(i) \union TTK(i) \union CastTime(i) \union StatusImmunity(i)
             \union UninterruptibleCast(i)
  BY DEF Evaluate

LEMMA Joined ==
  ASSUME NEW R, NEW S, NEW T, NEW U, NoNewComplaint(R, S), NoNewComplaint(T, U)
  PROVE  NoNewComplaint(R \union T, S \union U)
  BY Zenon DEF NoNewComplaint

LEMMA EvaluateRepair ==
  ASSUME NEW a, NEW b, Repair(a, b)
  PROVE  NoNewComplaint(Evaluate(b), Evaluate(a))
<1>1. NoNewComplaint(Requirements(b) \union KickStances(b), Requirements(a) \union KickStances(a))
  BY RequirementsRepair, KickStancesRepair, Joined
<1>2. NoNewComplaint(Requirements(b) \union KickStances(b) \union Hit(b),
                     Requirements(a) \union KickStances(a) \union Hit(a))
  BY <1>1, HitRepair, Joined
<1>3. NoNewComplaint(Requirements(b) \union KickStances(b) \union Hit(b) \union Flee(b),
                     Requirements(a) \union KickStances(a) \union Hit(a) \union Flee(a))
  BY <1>2, FleeRepair, Joined
<1> DEFINE early(i) == Requirements(i) \union KickStances(i) \union Hit(i) \union Flee(i)
           life(i) == EHPBurst(i) \union EHPFight(i)
           cast(i) == CastTime(i) \union StatusImmunity(i)
<1>4. NoNewComplaint(life(b), life(a))
  BY EHPBurstRepair, EHPFightRepair, Joined
<1>5. NoNewComplaint(cast(b), cast(a))
  BY CastTimeRepair, StatusImmunityRepair, Joined
<1> HIDE DEF early, life, cast
<1>6. NoNewComplaint(early(b) \union life(b), early(a) \union life(a))
  BY <1>3, <1>4, Joined DEF early
<1>7. NoNewComplaint(early(b) \union life(b) \union TTK(b), early(a) \union life(a) \union TTK(a))
  BY <1>6, TTKRepair, Joined
<1>8. NoNewComplaint(early(b) \union life(b) \union TTK(b) \union cast(b),
                     early(a) \union life(a) \union TTK(a) \union cast(a))
  BY <1>5, <1>7, Joined
<1> DEFINE most(i) == early(i) \union life(i) \union TTK(i) \union cast(i)
<1>9. NoNewComplaint(most(b) \union UninterruptibleCast(b), most(a) \union UninterruptibleCast(a))
  BY <1>8, UninterruptibleCastRepair, Joined
<1>10. \A i : Evaluate(i) = most(i) \union UninterruptibleCast(i)
  BY EvaluateIs, Zenon DEF early, life, cast
<1> HIDE DEF most
<1> QED BY <1>9, <1>10

(* Whatever the thresholds of the server, the target and the calculator's numbers, a   *)
(* submission that is nowhere worse than the one before it is not judged worse.       *)
THEOREM RepairsNeverHurt == Spec => RepairNeverHurts
<1>1. Init => in \in Input
  BY DEF Init
<1>2. in \in Input /\ [Next]_in => (in \in Input)'
  BY DEF Next, Resubmit
<1>3. in \in Input /\ [Next]_in =>
       [SameFight(in, in') /\ NoWorse(in, in') => NoNewComplaint(Evaluate(in'), Evaluate(in))]_in
  <2> SUFFICES ASSUME in \in Input, NEW next \in Input, Resubmit(next),
                      SameFight(in, in'), NoWorse(in, in')
               PROVE  NoNewComplaint(Evaluate(in'), Evaluate(in))
    BY DEF Next
  <2>1. Repair(in, in')
    BY DEF Resubmit, Repair
  <2> QED BY <2>1, EvaluateRepair
<1> QED BY <1>1, <1>2, <1>3, PTL DEF Spec, RepairNeverHurts

-----------------------------------------------------------------------------
(* The overrides of a request. *)

(* Only the gate of statuses reads them. *)
LEMMA IgnoreIsLocal ==
  ASSUME NEW i, NEW j,
         i.score = j.score, i.snapshot = j.snapshot, i.target = j.target,
         i.profile = j.profile, i.playstyle = j.playstyle
  PROVE  /\ Requirements(i) = Requirements(j) /\ KickStances(i) = KickStances(j)
         /\ Hit(i) = Hit(j) /\ Flee(i) = Flee(j)
         /\ EHPBurst(i) = EHPBurst(j) /\ EHPFight(i) = EHPFight(j)
         /\ TTK(i) = TTK(j) /\ CastTime(i) = CastTime(j)
         /\ UninterruptibleCast(i) = UninterruptibleCast(j)
         /\ Threats(i) = Threats(j) /\ QualityGates(i) = QualityGates(j)
         /\ ScenarioType(i) = ScenarioType(j)
         /\ \A s : Covers(i, s) <=> Covers(j, s)
<1>1. QualityGates(i) = QualityGates(j)
  BY DEF QualityGates
<1>2. (HasCombat(i) <=> HasCombat(j)) /\ (IsMVP(i) <=> IsMVP(j)) /\ ScenarioType(i) = ScenarioType(j)
  BY DEF HasCombat, IsMVP, ScenarioType
<1>3. Threats(i) = Threats(j) /\ Equipped(i) = Equipped(j) /\ EffectiveStats(i) = EffectiveStats(j)
  BY DEF Threats, Equipped, EffectiveStats
<1>4. \A s : Covers(i, s) <=> Covers(j, s)
  BY <1>3 DEF Covers
<1>5. Allocated(i) = Allocated(j)
  BY DEF Allocated
<1>6. PrimaryAttackSkill(i) = PrimaryAttackSkill(j)
  BY <1>5 DEF PrimaryAttackSkill
<1>7. Requirements(i) = Requirements(j)
  BY DEF Requirements
<1>8. KickStances(i) = KickStances(j)
  BY <1>5 DEF KickStances, MissingStances
<1>9. HitTier(i) = HitTier(j) /\ (IsHitInsensitive(i) <=> IsHitInsensitive(j))
  BY <1>1, <1>2 DEF HitTier, IsHitInsensitive
<1>10. Hit(i) = Hit(j)
  BY <1>2, <1>9 DEF Hit, Demoted
<1>11. Flee(i) = Flee(j)
  BY <1>1, <1>2 DEF Flee, DodgeReliant, EffectiveDodge
<1>12. EHPMultiplier(i) = EHPMultiplier(j)
  BY <1>1, <1>2, <1>3 DEF EHPMultiplier, IsMagicBurstTarget
<1>13. EHPBurst(i) = EHPBurst(j) /\ EHPFight(i) = EHPFight(j)
  BY <1>2, <1>12 DEF EHPBurst, EHPFight, HasEHP
<1>14. TTK(i) = TTK(j)
  BY <1>1, <1>2 DEF TTK
<1>15. \A limit : CastExceeds(i, limit) <=> CastExceeds(j, limit)
  BY <1>6 DEF CastExceeds
<1>16. CastTime(i) = CastTime(j)
  BY <1>1, <1>6, <1>15 DEF CastTime
<1>17. (CastSafetyMitigation(i) <=> CastSafetyMitigation(j))
       /\ (GrantsUninterruptibleCast(i) <=> GrantsUninterruptibleCast(j))
  BY <1>2, <1>3 DEF CastSafetyMitigation, GrantsUninterruptibleCast
<1>18. UninterruptibleCast(i) = UninterruptibleCast(j)
  BY <1>1, <1>6, <1>15, <1>17 DEF UninterruptibleCast
<1> QED BY <1>1, <1>2, <1>3, <1>4, <1>7, <1>8, <1>10, <1>11, <1>13, <1>14, <1>16, <1>18

(* The other gates do not report under the name of that one. *)
LEMMA OtherGates ==
  ASSUME NEW i, NEW r,
         r \in Requirements(i) \union KickStances(i) \union Hit(i) \union Flee(i)
                \union EHPBurst(i) \union EHPFight(i) \union TTK(i) \union CastTime(i)
                \union UninterruptibleCast(i)
  PROVE  r.gate # "status_immunity"
<1>1. ASSUME NEW g, NEW c, NEW x, NEW t \in When(c, One(g, x))
      PROVE  t.gate = g
  <2>1. t = Result(g, "", x)
    BY Zenon DEF When, One
  <2> QED BY <2>1 DEF Result
<1>2. ASSUME NEW g, NEW x, NEW t \in One(g, x)
      PROVE  t.gate = g
  <2>1. t = Result(g, "", x)
    BY DEF One
  <2> QED BY <2>1 DEF Result
<1>3. ASSUME NEW t \in UninterruptibleCast(i)
      PROVE  t.gate = "uninterruptible_cast"
  BY <1>1, <1>2, <1>3 DEF UninterruptibleCast
<1>4. CASE r \in Requirements(i)
  BY <1>1, <1>4 DEF Requirements
<1>5. CASE r \in KickStances(i)
  BY <1>1, <1>5 DEF KickStances
<1>6. CASE r \in Hit(i)
  BY <1>1, <1>6 DEF Hit
<1>7. CASE r \in Flee(i)
  BY <1>1, <1>7 DEF Flee
<1>8. CASE r \in EHPBurst(i)
  BY <1>1, <1>8 DEF EHPBurst
<1>9. CASE r \in EHPFight(i)
  BY <1>1, <1>9 DEF EHPFight
<1>10. CASE r \in TTK(i)
  BY <1>1, <1>10 DEF TTK
<1>11. CASE r \in CastTime(i)
  BY <1>1, <1>11 DEF CastTime
<1>12. CASE r \in UninterruptibleCast(i)
  BY <1>3, <1>12
<1> QED BY <1>4, <1>5, <1>6, <1>7, <1>8, <1>9, <1>10, <1>11, <1>12

(* Whatever the server's lists and the target, a request that ignores statuses gets    *)
(* the verdicts of one that ignores none, without those about the ignored statuses.    *)
THEOREM OverridesDropOnly == Spec => []OverridesOnlyDrop
<1>1. in \in Input => OverridesOnlyDrop
  <2> SUFFICES ASSUME in \in Input
               PROVE  OverridesOnlyDrop
    OBVIOUS
  <2> DEFINE all == [in EXCEPT !.ignore = {}]
             others(i) == Requirements(i) \union KickStances(i) \union Hit(i) \union Flee(i)
                            \union EHPBurst(i) \union EHPFight(i) \union TTK(i)
                            \union CastTime(i) \union UninterruptibleCast(i)
  <2>1. in = [score |-> in.score, snapshot |-> in.snapshot, target |-> in.target,
              profile |-> in.profile, playstyle |-> in.playstyle, ignore |-> in.ignore]
    BY GatesAssumption DEF WellFormed
  <2>2. /\ in.score = all.score /\ in.snapshot = all.snapshot /\ in.target = all.target
        /\ in.profile = all.profile /\ in.playstyle = all.playstyle /\ all.ignore = {}
    BY <2>1
  <2> HIDE DEF all
  <2>3. others(in) = others(all)
    BY <2>2, IgnoreIsLocal
  <2>4. \A r \in others(in) : r.gate # "status_immunity"
    BY OtherGates
  <2>5. Evaluate(in) = others(in) \union StatusImmunity(in)
        /\ Evaluate(all) = others(all) \union StatusImmunity(all)
    BY EvaluateIs, Zenon
  <2> HIDE DEF others
  <2>6. /\ Threats(in) = Threats(all) /\ \A s : Covers(in, s) <=> Covers(all, s)
        /\ Priority(in).fail = Priority(all).fail \ in.ignore
        /\ Priority(in).warn = Priority(all).warn \ in.ignore
    <3>1. /\ QualityGates(in) = QualityGates(all) /\ ScenarioType(in) = ScenarioType(all)
          /\ Threats(in) = Threats(all) /\ \A s : Covers(in, s) <=> Covers(all, s)
      BY <2>2, IgnoreIsLocal
    <3> QED BY <2>2, <3>1 DEF Priority
  <2>7. \A s : s \notin in.ignore => StatusSeverity(in, s) = StatusSeverity(all, s)
    BY <2>6 DEF StatusSeverity
  <2>8. \A i : \A r \in StatusImmunity(i) : r.gate = "status_immunity"
    BY DEF StatusImmunity, Result
  <2>9. \A r : r \in StatusImmunity(in) <=> r \in StatusImmunity(all) /\ r.of \notin in.ignore
    <3>1. ASSUME NEW r \in StatusImmunity(in)
          PROVE  r \in StatusImmunity(all) /\ r.of \notin in.ignore
      <4>1. PICK s \in Threats(in) \intersect (Priority(in).fail \union Priority(in).warn) :
              r = Result("status_immunity", s, StatusSeverity(in, s))
        BY DEF StatusImmunity
      <4>2. s \notin in.ignore /\ s \in Threats(all) \intersect (Priority(all).fail \union Priority(all).warn)
        BY <2>6
      <4>3. r = Result("status_immunity", s, StatusSeverity(all, s))
        BY <2>7, <4>1, <4>2
      <4>4. r \in StatusImmunity(all)
        BY <4>2, <4>3 DEF StatusImmunity
      <4>5. r.of = s
        BY <4>1 DEF Result
      <4> QED BY <4>2, <4>4, <4>5
    <3>2. ASSUME NEW r \in StatusImmunity(all), r.of \notin in.ignore
          PROVE  r \in StatusImmunity(in)
      <4>1. PICK s \in Threats(all) \intersect (Priority(all).fail \union Priority(all).warn) :
              r = Result("status_immunity", s, StatusSeverity(all, s))
        BY DEF StatusImmunity
      <4>2. s \notin in.ignore
        BY <3>2, <4>1 DEF Result
      <4>3. s \in Threats(in) \intersect (Priority(in).fail \union Priority(in).warn)
        BY <2>6, <4>2
      <4>4. r = Result("status_immunity", s, StatusSeverity(in, s))
        BY <2>7, <4>1, <4>2
      <4> QED BY <4>3, <4>4 DEF StatusImmunity
    <3> QED BY <3>1, <3>2
  <2>10. Evaluate(in) = {r \in Evaluate(all) : r.gate = "status_immunity" => r.of \notin in.ignore}
    BY <2>3, <2>4, <2>5, <2>8, <2>9
  <2> QED BY <2>10 DEF OverridesOnlyDrop, all
<1>2. Init => in \in Input
  BY DEF Init
<1>3. in \in Input /\ [Next]_in => (in \in Input)'
  BY DEF Next, Resubmit
<1> QED BY <1>1, <1>2, <1>3, PTL DEF Spec

-----------------------------------------------------------------------------
(* Thresholds that a server leaves out. *)

(* Inputs that differ in the thresholds of the server alone. *)
SameButThresholds(a, b) ==
  /\ a.score = b.score /\ a.snapshot = b.snapshot /\ a.target = b.target
  /\ a.playstyle = b.playstyle
  /\ a.profile # Null /\ b.profile # Null /\ a.profile.custom = b.profile.custom

(* What is looked up without thresholds is the same, and so are the gates without. *)
LEMMA ThresholdsAreLocal ==
  ASSUME NEW a, NEW b, SameButThresholds(a, b)
  PROVE  /\ HasCombat(a) <=> HasCombat(b)
         /\ IsMVP(a) <=> IsMVP(b)
         /\ ScenarioType(a) = ScenarioType(b)
         /\ IsHitInsensitive(a) <=> IsHitInsensitive(b)
         /\ DodgeReliant(a) <=> DodgeReliant(b)
         /\ IsMagicBurstTarget(a) <=> IsMagicBurstTarget(b)
         /\ PrimaryAttackSkill(a) = PrimaryAttackSkill(b)
         /\ \A limit : CastExceeds(a, limit) <=> CastExceeds(b, limit)
         /\ CastSafetyMitigation(a) <=> CastSafetyMitigation(b)
         /\ GrantsUninterruptibleCast(a) <=> GrantsUninterruptibleCast(b)
         /\ Requirements(a) = Requirements(b)
         /\ KickStances(a) = KickStances(b)
         /\ EHPFight(a) = EHPFight(b)
<1>1. (HasCombat(a) <=> HasCombat(b)) /\ (IsMVP(a) <=> IsMVP(b)) /\ ScenarioType(a) = ScenarioType(b)
  BY DEF SameButThresholds, HasCombat, IsMVP, ScenarioType
<1>2. Threats(a) = Threats(b) /\ Equipped(a) = Equipped(b)
  BY DEF SameButThresholds, Threats, Equipped
<1>3. Allocated(a) = Allocated(b)
  BY DEF SameButThresholds, Allocated
<1>4. PrimaryAttackSkill(a) = PrimaryAttackSkill(b)
  BY <1>3 DEF SameButThresholds, PrimaryAttackSkill
<1>5. \A limit : CastExceeds(a, limit) <=> CastExceeds(b, limit)
  BY <1>4 DEF SameButThresholds, CastExceeds
<1>6. Requirements(a) = Requirements(b)
  BY DEF SameButThresholds, Requirements
<1>7. KickStances(a) = KickStances(b)
  BY <1>3 DEF SameButThresholds, KickStances, MissingStances
<1>8. EHPFight(a) = EHPFight(b)
  BY <1>1 DEF SameButThresholds, EHPFight, HasEHP
<1>9. (IsHitInsensitive(a) <=> IsHitInsensitive(b)) /\ (DodgeReliant(a) <=> DodgeReliant(b))
  BY <1>1 DEF SameButThresholds, IsHitInsensitive, DodgeReliant
<1>10. /\ IsMagicBurstTarget(a) <=> IsMagicBurstTarget(b)
       /\ CastSafetyMitigation(a) <=> CastSafetyMitigation(b)
       /\ GrantsUninterruptibleCast(a) <=> GrantsUninterruptibleCast(b)
  BY <1>1, <1>2 DEF SameButThresholds, IsMagicBurstTarget, CastSafetyMitigation,
                    GrantsUninterruptibleCast
<1> QED BY <1>1, <1>4, <1>5, <1>6, <1>7, <1>8, <1>9, <1>10

(* A gate reports under its name, with a severity that has a rank. *)
Reports(R, gate) == \A r \in R : r.gate = gate /\ r.severity \in DOMAIN Rank

LEMMA ReportsOne ==
  ASSUME NEW gate, NEW c, NEW x, c => x \in {"pass", "warn", "fail", "fail_hard"}
  PROVE  Reports(When(c, One(gate, x)), gate)
<1> SUFFICES ASSUME NEW r \in When(c, One(gate, x))
             PROVE  r.gate = gate /\ r.severity \in DOMAIN Rank
  BY DEF Reports
<1>1. c /\ r = Result(gate, "", x)
  BY Zenon DEF When, One
<1>2. r.gate = gate /\ r.severity = x
  BY <1>1 DEF Result
<1>3. DOMAIN Rank = {"pass", "warn", "fail", "fail_hard"}
  BY DEF Rank
<1> QED BY <1>1, <1>2, <1>3

LEMMA AllReport ==
  ASSUME NEW i
  PROVE  /\ Reports(Requirements(i), "requirements") /\ Reports(KickStances(i), "kick_stance")
         /\ Reports(Hit(i), "hit") /\ Reports(Flee(i), "flee")
         /\ Reports(EHPBurst(i), "ehp_burst") /\ Reports(EHPFight(i), "ehp_fight")
         /\ Reports(TTK(i), "ttk_mvp") /\ Reports(CastTime(i), "cast_time")
         /\ Reports(UninterruptibleCast(i), "uninterruptible_cast")
<1> DEFINE severities == {"pass", "warn", "fail", "fail_hard"}
<1>1. Reports(Requirements(i), "requirements")
  BY ReportsOne DEF Requirements
<1>2. Reports(KickStances(i), "kick_stance")
  BY ReportsOne DEF KickStances
<1>3. Demoted(i, HitTier(i)) \in severities
  BY DEF Demoted, HitTier, Tier
<1>4. Reports(Hit(i), "hit")
  BY <1>3, ReportsOne DEF Hit
<1>5. Reports(Flee(i), "flee")
  <2>1. \A x, y, z : Tier(x, y, z) \in severities
    BY DEF Tier
  <2> QED BY <2>1, ReportsOne DEF Flee
<1>6. Reports(EHPBurst(i), "ehp_burst")
  BY ReportsOne DEF EHPBurst
<1>7. Reports(EHPFight(i), "ehp_fight")
  BY ReportsOne DEF EHPFight
<1>8. Reports(TTK(i), "ttk_mvp")
  BY ReportsOne DEF TTK
<1>9. Reports(CastTime(i), "cast_time")
  BY ReportsOne DEF CastTime
<1>10. Reports(UninterruptibleCast(i), "uninterruptible_cast")
  <2> DEFINE gate == "uninterruptible_cast"
  <2>1. ASSUME NEW c, NEW x \in severities
        PROVE  Reports(When(c, One(gate, x)), gate)
    BY ReportsOne
  <2>2. Reports({}, gate)
    BY DEF Reports
  <2>3. Reports(One(gate, "pass"), gate)
    <3>1. Reports(When(TRUE, One(gate, "pass")), gate)
      BY <2>1
    <3> QED BY <3>1 DEF When
  <2> HIDE DEF gate
  <2> DEFINE skill == PrimaryAttackSkill(i)
             slow == skill.interruptible /\ CastExceeds(i, QualityGates(i).castInterruptMs)
             severity == IF CastSafetyMitigation(i) THEN "warn" ELSE "fail"
  <2>4. Reports(When(slow, One(gate, severity)), gate)
    BY <2>1
  <2>5. UninterruptibleCast(i) \in {{}, One(gate, "pass"), When(slow, One(gate, severity))}
    BY DEF UninterruptibleCast, gate
  <2>6. Reports(UninterruptibleCast(i), gate)
    <3> HIDE DEF slow, severity
    <3> QED BY <2>2, <2>3, <2>4, <2>5
  <2> QED BY <2>6 DEF gate
<1> QED BY <1>1, <1>2, <1>4, <1>5, <1>6, <1>7, <1>8, <1>9, <1>10

(* A gate whose thresholds are the same reports the same. *)
LEMMA SameThresholdsSameVerdict ==
  ASSUME NEW a, NEW b, SameButThresholds(a, b)
  PROVE  LET q == QualityGates(a)
             p == QualityGates(b)
             Same(fields) == \A f \in fields : q[f] = p[f] IN
         /\ Same(Fields.hit) => Hit(a) = Hit(b)
         /\ Same(Fields.flee) => Flee(a) = Flee(b)
         /\ Same(Fields.ehp_burst) => EHPBurst(a) = EHPBurst(b)
         /\ Same(Fields.ttk_mvp) => TTK(a) = TTK(b)
         /\ Same(Fields.cast_time) => CastTime(a) = CastTime(b)
         /\ Same(Fields.uninterruptible_cast) => UninterruptibleCast(a) = UninterruptibleCast(b)
<1> DEFINE q == QualityGates(a)
           p == QualityGates(b)
           Same(fields) == \A f \in fields : q[f] = p[f]
<1>1. ASSUME Same(Fields.hit)
      PROVE  Hit(a) = Hit(b)
  <2>1. /\ q.hitNormalFailHard = p.hitNormalFailHard /\ q.hitNormalFail = p.hitNormalFail
        /\ q.hitNormalWarn = p.hitNormalWarn
        /\ q.hitMVPFailHard = p.hitMVPFailHard /\ q.hitMVPFail = p.hitMVPFail
    BY <1>1 DEF Fields
  <2>2. HitTier(a) = HitTier(b)
    BY <2>1, ThresholdsAreLocal DEF HitTier, SameButThresholds
  <2> QED BY <2>2, ThresholdsAreLocal DEF Hit, Demoted, SameButThresholds
<1>2. ASSUME Same(Fields.flee)
      PROVE  Flee(a) = Flee(b)
  <2>1. q.fleeFail = p.fleeFail /\ q.fleeWarn = p.fleeWarn /\ q.woePenalty = p.woePenalty
    BY <1>2 DEF Fields
  <2>2. EffectiveDodge(a) = EffectiveDodge(b)
    BY <2>1, ThresholdsAreLocal DEF EffectiveDodge, SameButThresholds
  <2>3. 100 * q.fleeFail = 100 * p.fleeFail /\ 100 * q.fleeWarn = 100 * p.fleeWarn
    BY <2>1, Zenon
  <2> DEFINE tier(i) == Tier(EffectiveDodge(i), 100 * QualityGates(i).fleeFail,
                             100 * QualityGates(i).fleeWarn)
  <2>4. tier(a) = tier(b)
    BY <2>2, <2>3, Zenon
  <2>5. DodgeReliant(a) <=> DodgeReliant(b)
    BY ThresholdsAreLocal
  <2>6. Flee(a) = When(DodgeReliant(a), One("flee", tier(a)))
        /\ Flee(b) = When(DodgeReliant(b), One("flee", tier(b)))
    BY Zenon DEF Flee
  <2> HIDE DEF tier
  <2> QED BY <2>4, <2>5, <2>6 DEF When
<1>3. ASSUME Same(Fields.ehp_burst)
      PROVE  EHPBurst(a) = EHPBurst(b)
  <2>1. /\ q.ehpNormal = p.ehpNormal /\ q.ehpMVPMelee = p.ehpMVPMelee
        /\ q.ehpMVPMagicBurst = p.ehpMVPMagicBurst
    BY <1>3 DEF Fields
  <2>2. EHPMultiplier(a) = EHPMultiplier(b)
    BY <2>1, ThresholdsAreLocal DEF EHPMultiplier
  <2> QED BY <2>2, ThresholdsAreLocal DEF EHPBurst, HasEHP, SameButThresholds
<1>4. ASSUME Same(Fields.ttk_mvp)
      PROVE  TTK(a) = TTK(b)
  <2>1. q.ttkMVPMaxSec = p.ttkMVPMaxSec
    BY <1>4 DEF Fields
  <2> QED BY <2>1, ThresholdsAreLocal DEF TTK, SameButThresholds
<1>5. ASSUME Same(Fields.cast_time)
      PROVE  CastTime(a) = CastTime(b)
  <2>1. q.castTimeWarnMs = p.castTimeWarnMs
    BY <1>5 DEF Fields
  <2> QED BY <2>1, ThresholdsAreLocal DEF CastTime
<1>6. ASSUME Same(Fields.uninterruptible_cast)
      PROVE  UninterruptibleCast(a) = UninterruptibleCast(b)
  <2>1. q.castInterruptMs = p.castInterruptMs
    BY <1>6 DEF Fields
  <2> QED BY <2>1, ThresholdsAreLocal DEF UninterruptibleCast
<1> QED BY <1>1, <1>2, <1>3, <1>4, <1>5, <1>6

\* Copied thresholds of which none is named are the canonical ones.
LEMMA UnnamedAreCanonical ==
  ASSUME NEW q, PartialBlock(q), DOMAIN q = DOMAIN CanonicalGates,
         NEW fields, fields \subseteq DOMAIN CanonicalGates \ {"status"},
         fields \intersect Warnings(q) = {}
  PROVE  \A f \in fields : CanonicalGates[f] = q[f]
<1> SUFFICES ASSUME NEW f \in fields
             PROVE  CanonicalGates[f] = q[f]
  OBVIOUS
<1>1. f \in DOMAIN q \ {"status"} /\ f \notin Warnings(q)
  OBVIOUS
<1>2. q[f] # 0
  BY <1>1 DEF Warnings
<1> QED BY <1>1, <1>2 DEF PartialBlock

(* Where a server copied the canonical thresholds and left some out, a complaint of    *)
(* the canonical gates is repeated by the server's gates or a threshold of that gate   *)
(* is among those QualityGatesWarnings names: for every partial block and every input. *)
THEOREM DisabledGatesAreNamed == Spec => []DisabledGateIsNamed
<1>1. in \in Input => DisabledGateIsNamed
  <2> DEFINE canonical == [in EXCEPT !.profile.gates = Null]
             q == in.profile.gates
  <2> SUFFICES ASSUME in \in Input, in.profile # Null, q # Null, PartialBlock(q),
                      NEW r \in Evaluate(canonical)
               PROVE  \/ \E s \in Evaluate(in) :
                           s.gate = r.gate /\ s.of = r.of /\ Rank[s.severity] >= Rank[r.severity]
                      \/ Fields[r.gate] \intersect Warnings(q) # {}
                      \/ r.gate = "status_immunity" /\ ScenarioType(in) \in DOMAIN q.status
    BY DEF DisabledGateIsNamed
  <2>1. WellFormed(in)
    BY GatesAssumption
  <2>2. SameButThresholds(canonical, in)
    <3> DEFINE profile == [in.profile EXCEPT !.gates = Null]
    <3>1. in = [score |-> in.score, snapshot |-> in.snapshot, target |-> in.target,
                profile |-> in.profile, playstyle |-> in.playstyle, ignore |-> in.ignore]
      BY <2>1 DEF WellFormed
    <3>2. DOMAIN in.profile = {"gates", "custom"} /\ profile # Null
      BY <2>1 DEF WellFormed
    <3>3. profile.custom = in.profile.custom
      BY <3>2
    <3>4. canonical = [in EXCEPT !.profile = profile]
      OBVIOUS
    <3> HIDE DEF profile, canonical
    <3>5. /\ canonical.score = in.score /\ canonical.snapshot = in.snapshot
          /\ canonical.target = in.target /\ canonical.playstyle = in.playstyle
          /\ canonical.profile = profile
      BY <3>1, <3>4
    <3> QED BY <3>2, <3>3, <3>5 DEF SameButThresholds
  <2>3. QualityGates(in) = q /\ QualityGates(canonical) = CanonicalGates
    <3>1. canonical.profile.gates = Null
      BY <2>1 DEF WellFormed
    <3> QED BY <3>1 DEF QualityGates
  <2> HIDE DEF canonical, q
  <2>4. DOMAIN q = DOMAIN CanonicalGates
    BY <2>1, <2>3 DEF WellFormed
  <2> DEFINE Named(gate) == Fields[gate] \intersect Warnings(q) # {}
  <2>5. ASSUME NEW R, NEW gate, R \subseteq Evaluate(in), Reports(R, gate), r \in R
        PROVE  \E s \in Evaluate(in) :
                 s.gate = r.gate /\ s.of = r.of /\ Rank[s.severity] >= Rank[r.severity]
    <3>1. r.severity \in DOMAIN Rank
      BY <2>5 DEF Reports
    <3>2. Rank[r.severity] \in Int
      BY <3>1 DEF Rank
    <3>3. Rank[r.severity] >= Rank[r.severity]
      BY <3>2
    <3> QED BY <2>5, <3>3
  <2>6. /\ Requirements(in) \subseteq Evaluate(in) /\ KickStances(in) \subseteq Evaluate(in)
        /\ Hit(in) \subseteq Evaluate(in) /\ Flee(in) \subseteq Evaluate(in)
        /\ EHPBurst(in) \subseteq Evaluate(in) /\ EHPFight(in) \subseteq Evaluate(in)
        /\ TTK(in) \subseteq Evaluate(in) /\ CastTime(in) \subseteq Evaluate(in)
        /\ UninterruptibleCast(in) \subseteq Evaluate(in)
    BY EvaluateIs, Zenon
  <2>7. /\ Requirements(canonical) = Requirements(in)
        /\ KickStances(canonical) = KickStances(in)
        /\ EHPFight(canonical) = EHPFight(in)
    BY <2>2, ThresholdsAreLocal
  <2>8. /\ ~Named("hit") => Hit(canonical) = Hit(in)
        /\ ~Named("flee") => Flee(canonical) = Flee(in)
        /\ ~Named("ehp_burst") => EHPBurst(canonical) = EHPBurst(in)
        /\ ~Named("ttk_mvp") => TTK(canonical) = TTK(in)
        /\ ~Named("cast_time") => CastTime(canonical) = CastTime(in)
        /\ ~Named("uninterruptible_cast") =>
             UninterruptibleCast(canonical) = UninterruptibleCast(in)
    <3> DEFINE Same(fields) == \A f \in fields : CanonicalGates[f] = q[f]
    <3>1. \A fields : /\ fields \subseteq DOMAIN CanonicalGates \ {"status"}
                      /\ fields \intersect Warnings(q) = {}
                      => Same(fields)
      BY <2>4, UnnamedAreCanonical
    <3>2. \A gate \in {"hit", "flee", "ehp_burst", "ttk_mvp", "cast_time", "uninterruptible_cast"} :
            Fields[gate] \subseteq DOMAIN CanonicalGates \ {"status"}
      BY Thresholds DEF Fields
    <3>3. \A gate \in {"hit", "flee", "ehp_burst", "ttk_mvp", "cast_time", "uninterruptible_cast"} :
            ~Named(gate) => Same(Fields[gate])
      BY <3>1, <3>2
    <3>4. /\ Same(Fields["hit"]) => Hit(canonical) = Hit(in)
          /\ Same(Fields["flee"]) => Flee(canonical) = Flee(in)
          /\ Same(Fields["ehp_burst"]) => EHPBurst(canonical) = EHPBurst(in)
          /\ Same(Fields["ttk_mvp"]) => TTK(canonical) = TTK(in)
          /\ Same(Fields["cast_time"]) => CastTime(canonical) = CastTime(in)
          /\ Same(Fields["uninterruptible_cast"]) =>
               UninterruptibleCast(canonical) = UninterruptibleCast(in)
      BY <2>2, <2>3, SameThresholdsSameVerdict
    <3> HIDE DEF Named, Same
    <3> QED BY <3>3, <3>4
  <2>9. /\ r \in Hit(canonical) => r.gate = "hit"
        /\ r \in Flee(canonical) => r.gate = "flee"
        /\ r \in EHPBurst(canonical) => r.gate = "ehp_burst"
        /\ r \in TTK(canonical) => r.gate = "ttk_mvp"
        /\ r \in CastTime(canonical) => r.gate = "cast_time"
        /\ r \in UninterruptibleCast(canonical) => r.gate = "uninterruptible_cast"
    BY AllReport DEF Reports
  <2>10. \/ r \in Requirements(in) \/ r \in KickStances(in) \/ r \in EHPFight(in)
         \/ r \in Hit(in) \/ r \in Flee(in) \/ r \in EHPBurst(in) \/ r \in TTK(in)
         \/ r \in CastTime(in) \/ r \in UninterruptibleCast(in)
         \/ Named(r.gate)
         \/ r \in StatusImmunity(canonical)
    <3>1. \/ r \in Requirements(canonical) \/ r \in KickStances(canonical) \/ r \in EHPFight(canonical)
          \/ r \in Hit(canonical) \/ r \in Flee(canonical) \/ r \in EHPBurst(canonical)
          \/ r \in TTK(canonical) \/ r \in CastTime(canonical)
          \/ r \in UninterruptibleCast(canonical)
          \/ r \in StatusImmunity(canonical)
      BY EvaluateIs, Zenon
    <3> HIDE DEF Named
    <3> QED BY <2>7, <2>8, <2>9, <3>1, Zenon
  <2>11. CASE r \in StatusImmunity(canonical)
    <3>1. r.gate = "status_immunity"
      BY <2>11 DEF StatusImmunity, Result
    <3>2. ScenarioType(in) \in {"pvm", "pvp"}
      BY DEF ScenarioType
    <3>3. ScenarioType(in) \notin DOMAIN q.status => ScenarioType(in) \in Warnings(q)
      BY <3>2 DEF Warnings
    <3>4. Fields["status_immunity"] = {"pvm", "pvp"}
      BY DEF Fields
    <3> QED BY <3>1, <3>2, <3>3, <3>4
  <2> QED BY <2>5, <2>6, <2>10, <2>11, AllReport
<1>2. Init => in \in Input
  BY DEF Init
<1>3. in \in Input /\ [Next]_in => (in \in Input)'
  BY DEF Next, Resubmit
<1> QED BY <1>1, <1>2, <1>3, PTL DEF Spec
===============================================================================
