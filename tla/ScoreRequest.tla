---------------------------- MODULE ScoreRequest ----------------------------
(***************************************************************************)
(* What the calculator is asked to score: by the tools score_build and     *)
(* score_builds, that preview a build, and by submit_trajectory, that      *)
(* scores the snapshots of record (domain/build.go, domain/trajectory.go,  *)
(* llm/tools, scoring/client.go).                                          *)
(*                                                                         *)
(* A setup is a build or a snapshot:                                       *)
(*   [mode, class, base, job, stats, skills, buffs, scored, equipment,     *)
(*    target]                                                              *)
(* stats stands for the six of them, 0 when all are zero; skills is a      *)
(* sequence of [id, level], buffs of [name, element], scored of            *)
(* [name, primary]; equipment a function from slots to [id, refine].       *)
(***************************************************************************)
EXTENDS ServerProfile

Snapshots == INSTANCE Trajectory

Setup(s) ==
  /\ DOMAIN s = {"mode", "class", "base", "job", "stats", "skills", "buffs", "scored",
                 "equipment", "target"}
  /\ {s.base, s.job} \subseteq Int
  /\ Sequence(s.skills) /\ Sequence(s.buffs) /\ Sequence(s.scored)
  /\ \A d \in ToSet(s.scored) : d.primary \in BOOLEAN

-----------------------------------------------------------------------------
(* What is declared, resolved.                                             *)

\* A map from id to level: the last allocation of an id stays.
AllocatedLevel(skills_, id) ==
  LET of == {k \in DOMAIN skills_ : skills_[k].id = id} IN
  IF of = {} THEN 0 ELSE skills_[Max(of)].level

\* Mutant: the elements are counted from 0.
ElementFitsFromZero(buff, element, level) ==
  IF buff.kind # "weapon_endow" THEN element = ""
  ELSE \E i \in DOMAIN buff.elements : buff.elements[i] = element /\ i - 1 <= level

\* An endow offers its elements level by level, another buff has none.
ElementFits(buff, element, level) ==
  IF buff.kind # "weapon_endow" THEN element = ""
  ELSE \E i \in DOMAIN buff.elements : buff.elements[i] = element /\ i <= level

\* The names of the skills' buffs and attacks, each with the row it stands for.
OfferedBuffs(class) == LastBy(ClassBuffs(class), LAMBDA s : s.buff.name)

OfferedAttacks(class) == LastBy(ClassAttackSkills(class), LAMBDA s : s.attack)

\* The class, the allocation and the element allow the buff.
BuffResolves(s, b) ==
  LET offered == OfferedBuffs(s.class)
      level   == AllocatedLevel(s.skills, offered[b.name].id)
  IN IF b.name \in DOMAIN offered
       THEN level >= 1 /\ ElementFits(offered[b.name].buff, b.element, level)
       ELSE b.name \in {i.name : i \in ToSet(ClassInnateBuffs(s.class))} /\ b.element = ""

BuffsResolve(s) ==
  s.buffs = <<>> \/ (ClassWithAliases(s.class) # Null /\ \A b \in ToSet(s.buffs) : BuffResolves(s, b))

\* Each skill once, of those offered and allocated, and one of them primary.
AttacksResolve(s) ==
  LET offered == OfferedAttacks(s.class) IN
  \/ s.scored = <<>>
  \/ /\ ClassWithAliases(s.class) # Null
     /\ IsInjective([k \in DOMAIN s.scored |-> s.scored[k].name])
     /\ \A d \in ToSet(s.scored) :
          d.name \in DOMAIN offered /\ AllocatedLevel(s.skills, offered[d.name].id) >= 1
     /\ Cardinality({k \in DOMAIN s.scored : s.scored[k].primary}) = 1

\* What is declared, as the calculator is told.
ResolvedBuff(s, b) ==
  LET offered == OfferedBuffs(s.class) IN
  [name |-> b.name, element |-> b.element,
   level |-> IF b.name \in DOMAIN offered THEN AllocatedLevel(s.skills, offered[b.name].id) ELSE 1]

ResolvedAttack(s, d) ==
  [name |-> d.name, primary |-> d.primary,
   level |-> AllocatedLevel(s.skills, OfferedAttacks(s.class)[d.name].id)]

-----------------------------------------------------------------------------
(* The requests.                                                           *)

BuildValid(b) ==
  /\ b.mode \in {"", "pre-renewal"}
  /\ b.base >= 0 /\ b.job >= 0
  /\ \A slot \in DOMAIN b.equipment : b.equipment[slot].refine \in 0..10

\* A zero is left out of a request.
NonZero(x, zero) == IF x = zero THEN Null ELSE x

\* Build.ToScoreRequest: a build has no skills.
BuildRequest(b, p) ==
  [class     |-> NonZero(b.class, Key("")),
   level     |-> NonZero([base |-> b.base, job |-> b.job], [base |-> 0, job |-> 0]),
   stats     |-> NonZero(b.stats, 0),
   equipment |-> IF DOMAIN b.equipment = {} THEN Null ELSE b.equipment,
   enemy     |-> ResolveEnemy(p, b.target),
   skills    |-> <<>>, buffs |-> <<>>, attackSkills |-> <<>>]

\* Snapshot.ToScoreRequest.
SnapshotRequest(s, p) == [BuildRequest(s, p) EXCEPT !.skills = s.skills]

Resolves(s) == BuffsResolve(s) /\ AttacksResolve(s)

\* What is declared joins the request; Null when it does not resolve.
Joined(request, s) ==
  [request EXCEPT !.buffs = [k \in DOMAIN s.buffs |-> ResolvedBuff(s, s.buffs[k])],
                  !.attackSkills = [k \in DOMAIN s.scored |-> ResolvedAttack(s, s.scored[k])]]

Resolved(request, s) == IF Resolves(s) THEN Joined(request, s) ELSE Null

\* Mutant: the skills of the build are not sent.
PreviewWithoutSkills(s, p) ==
  IF ~BuildValid([s EXCEPT !.mode = "pre-renewal"]) THEN Null
  ELSE Resolved(BuildRequest(s, p), s)

\* scoreOne: the request of a previewed build, or Null when it is the build's own
\* fault that there is none.  The mode the model writes is not read.
Preview(s, p) ==
  IF ~BuildValid([s EXCEPT !.mode = "pre-renewal"]) THEN Null
  ELSE Resolved([BuildRequest(s, p) EXCEPT !.skills = s.skills], s)

\* scoreAndGate: the request of a snapshot.
Canonical(s, p) == Resolved(SnapshotRequest(s, p), s)

\* The snapshot passes Validate, as Trajectory has it.
ValidAsSnapshot(s) ==
  Snapshots!ValidSnapshot(
    [class |-> s.class.key, base |-> s.base, job |-> s.job, skills |-> s.skills,
     buffs |-> [k \in DOMAIN s.buffs |-> s.buffs[k].name],
     refine |-> [slot \in DOMAIN s.equipment |-> s.equipment[slot].refine]])

-----------------------------------------------------------------------------
(* The calculator's answer.                                                *)

\* Client.Score: a reply is [status, decodes], of status 0 when none arrives.  Only
\* a 4xx is the fault of the request.
ScoreResult(reply) ==
  CASE reply.status \in 200..299 /\ reply.decodes -> "scored"
    [] reply.status \in 400..499 -> "client"
    [] OTHER -> "outage"
=============================================================================
