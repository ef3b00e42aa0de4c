----------------------------- MODULE Trajectory -----------------------------
(***************************************************************************)
(* What a submitted trajectory must satisfy, which of its snapshots are    *)
(* scored, and what their quality gates say of it                          *)
(* (internal/domain/trajectory.go, submit_trajectory.go, save.go).         *)
(*                                                                         *)
(* A trajectory is [class, snapshots].  A snapshot has the fields the      *)
(* checks read: class, base and job level, post (after rebirth), stats,    *)
(* skills (a sequence of [id, level]), buffs (a sequence of names), refine *)
(* (per equipment slot), score and gates.  Of a score only its origin      *)
(* matters: none, canonical (the sidecar computed it) or claimed (the      *)
(* model wrote it into its input).  Of the gate results, the severities.   *)
(***************************************************************************)
EXTENDS Integers, Sequences, Functions

Blocking == {"fail", "fail_hard"}
Severity == {"pass", "warn"} \union Blocking

Stats == [{"str", "agi", "vit", "int", "dex", "luk"} -> Int]

SlotKey == {"weapon", "headTop", "headMid", "headBot", "shield", "armor",
            "garment", "footgear", "accessory1", "accessory2"}

\* What the decoder makes of a snapshot, checked by nothing yet.
Snapshot ==
  [class  : STRING,
   base   : Int,
   job    : Int,
   post   : BOOLEAN,
   stats  : Stats,
   skills : Seq([id : Int, level : Int]),
   buffs  : Seq(STRING),
   refine : [SlotKey -> Int],
   score  : {"none", "claimed", "canonical"},
   gates  : SUBSET Severity]

TrajectoryType == [class : STRING, snapshots : Seq(Snapshot)]

ValidSnapshot(s) ==
  /\ s.class # ""
  /\ s.base >= 1 /\ s.job >= 1
  /\ \A slot \in DOMAIN s.refine : s.refine[slot] \in 0..10
  /\ \A i \in DOMAIN s.skills : s.skills[i].id > 0 /\ s.skills[i].level >= 1
  /\ IsInjective([i \in DOMAIN s.skills |-> s.skills[i].id])
  /\ \A i \in DOMAIN s.buffs : s.buffs[i] # ""
  /\ IsInjective(s.buffs)

\* Every skill of prev is still allocated at its level or higher.
KeepsSkills(prev, cur) ==
  \A i \in DOMAIN prev.skills : \E j \in DOMAIN cur.skills :
      /\ cur.skills[j].id = prev.skills[i].id
      /\ cur.skills[j].level >= prev.skills[i].level

\* Nothing shrinks from prev to cur.
Grows(prev, cur) ==
  /\ cur.base >= prev.base
  /\ \A st \in DOMAIN prev.stats : cur.stats[st] >= prev.stats[st]
  /\ KeepsSkills(prev, cur)

\* Mutant: snapshots are compared within their cycle only.
FollowsInCycle(prev, cur) == prev.post = cur.post => Grows(prev, cur)

\* cur may follow prev: one rebirth at most, growth within a cycle.
Follows(prev, cur) ==
  /\ prev.post => cur.post
  /\ prev.post = cur.post => Grows(prev, cur)

ValidTrajectory(t) ==
  LET n == Len(t.snapshots) IN
  /\ t.class # ""
  /\ n > 0
  /\ \A i \in 1..n : ValidSnapshot(t.snapshots[i])
  /\ \A i \in 2..n : Follows(t.snapshots[i - 1], t.snapshots[i])
  /\ t.snapshots[n].class = t.class

\* Mutant: the endgame is scored only where it is another checkpoint.
SelectedCheckpoints(t) ==
  {i \in 1..Len(t.snapshots) :
     LET s == t.snapshots[i] IN
     \/ s.base = 85
     \/ i > 1 /\ LET prev == t.snapshots[i - 1]
                 IN s.class # prev.class \/ s.post # prev.post}

\* SelectScoredIndices: the endgame, base level 85, and the first snapshot of
\* every class and of the cycle after rebirth.
Selected(t) ==
  {i \in 1..Len(t.snapshots) :
     LET s == t.snapshots[i] IN
     \/ i = Len(t.snapshots)
     \/ s.base = 85
     \/ i > 1 /\ LET prev == t.snapshots[i - 1]
                 IN s.class # prev.class \/ s.post # prev.post}

Gates(t) == UNION {t.snapshots[i].gates : i \in 1..Len(t.snapshots)}

Clean(t)   == Gates(t) \subseteq {"pass"}
Blocked(t) == Gates(t) \intersect Blocking # {}

\* t after canonical scoring: the evaluator found scoring[i].gates in snapshot i.
Stamp(t, scoring) ==
  [t EXCEPT !.snapshots =
     [i \in 1..Len(t.snapshots) |->
        IF i \in Selected(t)
          THEN [t.snapshots[i] EXCEPT !.score = "canonical",
                                      !.gates = scoring[i].gates]
          ELSE t.snapshots[i]]]

\* summarizeAndGuard returns no error.
Savable(primary, alternatives) ==
  LET scored == {i \in 1..Len(primary.snapshots) :
                   primary.snapshots[i].score # "none"} IN
  /\ scored # {}
  /\ \A i \in scored : primary.snapshots[i].gates # {}
  /\ ~Blocked(primary)
  /\ \A t \in alternatives : ~Blocked(t)
=============================================================================
