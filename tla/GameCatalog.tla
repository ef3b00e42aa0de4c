----------------------------- MODULE GameCatalog -----------------------------
(***************************************************************************)
(* The catalog of the game (internal/catalog/catalog.go): the indices Load *)
(* builds from the embedded file and the questions the tools, the prompt   *)
(* and the gates ask of them.                                              *)
(*                                                                         *)
(* Data is the decoded file:                                               *)
(*   items, mobs, skills   sequences of records with an id;                *)
(*   classes               by key: [skills, inherit], skills a sequence of *)
(*                         [aegis, max, unusable], inherit one of names;   *)
(*   jobMax                a sequence of [name, base, job];                *)
(*   innate                by key: the buffs of a class without an anchor. *)
(* A class is named by a spelling [key, form]: the key it normalizes to,   *)
(* and whether it is the key itself ("exact"), differs in letter case      *)
(* ("case"), or has spaces for underscores ("space").                      *)
(***************************************************************************)
EXTENDS Nil, Integers, SequencesExt

CONSTANT Data

Form == {"exact", "case", "space"}

Spelling(class) == class = [key |-> class.key, form |-> class.form] /\ class.form \in Form

Sequence(f) == f \in Seq(Range(f))

\* A class under its key.
Key(name) == [key |-> name, form |-> "exact"]

\* Lower case, and underscores for spaces.
NormalizeClassKey(class) == class.key

-----------------------------------------------------------------------------
(* The indices.                                                            *)

\* The rows at the positions of K, in their order.
Sifted(rows, K) ==
  LET sift[n \in 0..Len(rows)] ==
        IF n = 0 THEN <<>>
        ELSE IF n \in K THEN Append(sift[n - 1], rows[n]) ELSE sift[n - 1]
  IN sift[Len(rows)]

\* Rows in their order, of an id only the first.
FirstSeen(rows) ==
  Sifted(rows, {k \in DOMAIN rows : \A j \in 1..(k - 1) : rows[j].id # rows[k].id})

\* A map from id to row.
Index(rows) ==
  [id \in {rows[k].id : k \in DOMAIN rows} |-> rows[Min({k \in DOMAIN rows : rows[k].id = id})]]

\* The map a loop of assignments by key leaves behind: the last one stays.
LastBy(rows, KeyOf(_)) ==
  [key \in {KeyOf(rows[k]) : k \in DOMAIN rows} |->
     rows[Max({k \in DOMAIN rows : KeyOf(rows[k]) = key})]]

\* A map from the name of a skill to its row.
ByName(rows) == LastBy(FirstSeen(rows), LAMBDA skill : skill.aegis)

itemList     == FirstSeen(Data.items)
items        == Index(itemList)
mobs         == Index(FirstSeen(Data.mobs))
skills       == Index(FirstSeen(Data.skills))
skillsByName == ByName(Data.skills)
classes      == Data.classes
jobMaxLevels == LastBy(Data.jobMax, LAMBDA row : NormalizeClassKey(row.name))

\* The row of an id, or Null.
Lookup(index, id) == IF id \in DOMAIN index THEN index[id] ELSE Null

-----------------------------------------------------------------------------
(* Classes.                                                                *)

classAliases ==
  [taekwon_kid |-> "taekwon", swordman |-> "swordsman",
   high_swordman |-> "swordsman_high", high_swordsman |-> "swordsman_high"]

\* The key an alias stands for.
Unaliased(key) == IF key \in DOMAIN classAliases THEN classAliases[key] ELSE key

\* The key under which the catalog has the class, or Null.
ClassWithAliases(class) ==
  LET key == NormalizeClassKey(class) IN
  CASE key \in DOMAIN classes -> key
    [] key \notin DOMAIN classes /\ Unaliased(key) \in DOMAIN classes -> Unaliased(key)
    [] OTHER -> Null

\* Here an alias replaces the key before it is looked up.
ClassMaxLevels(class) ==
  LET key == Unaliased(NormalizeClassKey(class)) IN
  IF key \in DOMAIN jobMaxLevels
    THEN [base |-> jobMaxLevels[key].base, job |-> jobMaxLevels[key].job]
    ELSE Null

\* A skill of a class tree joined with its row; the tree's own cap comes first.
ClassSkill(s, named) ==
  IF s.aegis \in DOMAIN named
    THEN LET row == named[s.aegis] IN
         [aegis |-> s.aegis, unusable |-> s.unusable, id |-> row.id,
          max |-> IF s.max = 0 THEN row.max ELSE s.max,
          buff |-> row.buff, attack |-> row.attack]
    ELSE [aegis |-> s.aegis, unusable |-> s.unusable, id |-> 0, max |-> s.max,
          buff |-> Null, attack |-> Null]

\* What the file says can be told apart: a name stands for the buff or the attack of one
\* skill, and the words that mean none are no names.  Every file that is built is like this
\* (BuildCatalog).
Readable(data) ==
  LET named == ByName(data.skills) IN
  /\ "" \notin DOMAIN data.classes
  /\ \A key \in DOMAIN data.classes :
       /\ Sequence(data.classes[key].skills)
       /\ \A s \in Range(data.classes[key].skills) : s.aegis # "(innate)"
  /\ \A a, b \in DOMAIN named :
       LET x == named[a]  y == named[b] IN
       /\ x.buff # Null /\ y.buff # Null /\ x.buff.name = y.buff.name => a = b
       /\ x.attack # Null => x.attack # ""
       /\ x.attack # Null /\ x.attack = y.attack => a = b

ASSUME CatalogAssumption == Readable(Data)

ClassSkills(class) ==
  LET tree == classes[ClassWithAliases(class)].skills IN
  [k \in DOMAIN tree |-> ClassSkill(tree[k], skillsByName)]

\* The rows of the tree, at their positions there, that give a buff.
ClassBuffs(class) ==
  RestrictValues(ClassSkills(class), LAMBDA s : s.buff # Null /\ ~s.unusable)

ClassAttackSkills(class) ==
  RestrictValues(ClassSkills(class), LAMBDA s : s.attack # Null /\ ~s.unusable)

ClassInnateBuffs(class) ==
  LET key == ClassWithAliases(class) IN
  IF key \in DOMAIN Data.innate THEN Data.innate[key] ELSE <<>>

-----------------------------------------------------------------------------
(* Skill points.                                                           *)

\* Second jobs after rebirth continue the first job of that cycle.
transSecondJobToTransFirst ==
  [lord_knight |-> "swordsman_high", paladin |-> "swordsman_high",
   high_priest |-> "acolyte_high", champion |-> "acolyte_high",
   high_wizard |-> "magician_high", professor |-> "magician_high",
   whitesmith |-> "merchant_high", creator |-> "merchant_high",
   assassin_cross |-> "thief_high", stalker |-> "thief_high",
   sniper |-> "archer_high", clown |-> "archer_high", gypsy |-> "archer_high"]

\* The names that end with _high, but for the novice's.
HighFirst == Range(transSecondJobToTransFirst)

\* The classes below those in S, one level of inherit at a time.
Inherited[S \in SUBSET STRING] ==
  LET parents(k) == {NormalizeClassKey(n) : n \in ToSet(classes[k].inherit)}
      below == S \union UNION {parents(k) : k \in S \intersect DOMAIN classes}
  IN IF below = S THEN S ELSE Inherited[below]

\* The classes a character of this class has been, as a set: only their points
\* are added up.  After rebirth nothing is inherited from the first cycle.
ProgressionChain(key) ==
  CASE key \in DOMAIN transSecondJobToTransFirst ->
         {"novice_high", transSecondJobToTransFirst[key], key}
    [] key \in HighFirst \union {"novice_high"} -> {"novice_high", key}
    [] OTHER -> Inherited[{key}]

ClassSkillPointBudget(class) ==
  LET key == Unaliased(NormalizeClassKey(class))
      points(k) == LET max == ClassMaxLevels(Key(k)) IN
                   IF max # Null /\ max.job > 1 THEN max.job - 1 ELSE 0
  IN IF key \notin DOMAIN classes THEN Null
     ELSE FoldSet(LAMBDA k, total : total + points(k), 0, ProgressionChain(key))

-----------------------------------------------------------------------------
(* Search.                                                                 *)

DefaultSearchLimit == 20
MaxSearchLimit == 100

\* A filter is [type, subtype, name, minSlots, maxSlots, maxLevel, limit]; "" and 0
\* filter nothing, and name is a word items have among theirs.
Matches(item, f) ==
  /\ f.type # "" => item.type = f.type
  /\ f.subtype # "" => item.subtype = f.subtype
  /\ f.name # "" => f.name \in item.words
  /\ f.minSlots > 0 => item.slots >= f.minSlots
  /\ f.maxSlots > 0 => item.slots <= f.maxSlots
  /\ f.maxLevel > 0 => item.level <= f.maxLevel

SearchLimit(f) ==
  IF f.limit <= 0 THEN DefaultSearchLimit
  ELSE IF f.limit > MaxSearchLimit THEN MaxSearchLimit ELSE f.limit

SearchItems(f) ==
  LET found == SelectSeq(itemList, LAMBDA item : Matches(item, f)) IN
  SubSeq(found, 1, IF Len(found) < SearchLimit(f) THEN Len(found) ELSE SearchLimit(f))
=============================================================================
