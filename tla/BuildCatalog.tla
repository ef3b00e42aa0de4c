---------------------------- MODULE BuildCatalog ----------------------------
(***************************************************************************)
(* The tool that builds the catalog (cmd/build-catalog/main.go, with the   *)
(* loaders of internal/data): it joins an emulator's tables with files     *)
(* written by hand into catalog.json, which the next build of the server   *)
(* embeds and catalog.Load reads.                                          *)
(*                                                                         *)
(* sources holds the files; Null is one that is missing or does not parse: *)
(*   items         a sequence of records with an id, without immunities;   *)
(*   mobs          of records with an id, without threats;                 *)
(*   skills        of [id, aegis, max, status, cast], cast a number for    *)
(*                 all levels or a function from those that are listed,    *)
(*                 as [flat, levels];                                      *)
(*   trees         of [name, inherit, skills], skills a sequence of        *)
(*                 [aegis, max]; names are spellings as in GameCatalog;    *)
(*   jobs, groups  from a job to its two experience groups, and from       *)
(*                 groups to levels;                                       *)
(*   mobSkills     of [mob, aegis], the optional one: Null only when it is *)
(*                 missing (one that cannot be read ends the build, which  *)
(*                 changes nothing);                                       *)
(* and the overlays immunities, buffs, attacks, threats (sequences of      *)
(* records that name the row they are for) and innate.  The loaders sort   *)
(* the skills of a class by name: they are in that order here.             *)
(***************************************************************************)
EXTENDS GameCatalog

CONSTANT Sources   \* what the files may be

\* What a file parses to; the names of classes and of skills are identifiers.
Files(s) ==
  /\ \A rows \in {s.items, s.mobs, s.skills, s.trees, s.mobSkills, s.immunities, s.buffs, s.attacks, s.threats} :
       rows = Null \/ Sequence(rows)
  /\ s.items # Null => \A r \in ToSet(s.items) : {"id", "immunity", "uninterruptible"} \subseteq DOMAIN r
  /\ s.mobs # Null => \A r \in ToSet(s.mobs) : {"id", "threats"} \subseteq DOMAIN r
  /\ s.skills # Null => \A r \in ToSet(s.skills) :
       r.max \in Int /\ IsFiniteSet(DOMAIN r.cast.levels) /\ DOMAIN r.cast.levels \subseteq Nat \ {0}
  /\ s.trees # Null => \A c \in ToSet(s.trees) :
       /\ c.name.key # "" /\ Sequence(c.inherit) /\ Sequence(c.skills)
       /\ \A sk \in ToSet(c.skills) : sk.aegis # "(innate)"

ASSUME SourcesAssumption == \A s \in Sources : Files(s)

VARIABLES
  sources,   \* the files
  file       \* catalog.json; Null when half written

cvars == <<sources, file>>

Immunity == {"frozen", "stun", "sleep", "stone_curse", "curse", "silence", "blind", "poison",
             "confusion"}

BuffKind == {"weapon_endow", "stat_buff", "status", "debuff", "land"}

Persistence == {"permanent", "transient"}

Element == {"neutral", "water", "earth", "fire", "wind", "poison", "holy", "shadow", "ghost",
            "undead"}

\* What a loop over a map visits, in some order.
Listing(S) == FoldSet(LAMBDA x, seq : Append(seq, x), <<>>, S)

-----------------------------------------------------------------------------
(* The emulator's skills.                                                  *)

\* A field at the highest level: there, or at the highest level that is listed.
AtMaxLevel(v, max) ==
  CASE DOMAIN v.levels = {} -> v.flat
    [] max \in DOMAIN v.levels -> v.levels[max]
    [] OTHER -> v.levels[Max(DOMAIN v.levels)]

\* A field level by level, where it differs by level: a gap keeps the level below,
\* and there is nothing below the first.
ByLevel(v, max) ==
  LET top      == Max(DOMAIN v.levels)
      n        == IF top > max THEN top ELSE max
      below(i) == {k \in DOMAIN v.levels : k <= i}
  IN IF DOMAIN v.levels = {} THEN <<>>
     ELSE [i \in 1..n |-> IF below(i) = {} THEN 0 ELSE v.levels[Max(below(i))]]

SkillRow(s) ==
  [id |-> s.id, aegis |-> s.aegis, max |-> s.max, status |-> s.status,
   cast |-> AtMaxLevel(s.cast, s.max), castByLevel |-> ByLevel(s.cast, s.max),
   buff |-> Null, attack |-> Null]

-----------------------------------------------------------------------------
(* The overlays.  A mistake in one fails the build.                        *)

\* No two entries have the same value under Of.
Unrepeated(entries, Of(_)) == IsInjective([k \in DOMAIN entries |-> Of(entries[k])])

ValidImmunities(entries) ==
  /\ Unrepeated(entries, LAMBDA e : e.id)
  /\ \A e \in ToSet(entries) : e.id # 0 /\ e.statuses \subseteq Immunity

\* An element's place in an endow is the level that offers it.
ValidBuff(b) ==
  /\ b.name # "" /\ b.kind \in BuffKind /\ b.persistence \in Persistence
  /\ IF b.kind = "weapon_endow"
       THEN b.elements # <<>> /\ IsInjective(b.elements) /\ Range(b.elements) \subseteq Element
       ELSE b.elements = <<>>

ValidBuffs(entries) ==
  /\ \A e \in ToSet(entries) : e.aegis # "" /\ e.buff # Null /\ ValidBuff(e.buff)
  /\ Unrepeated(entries, LAMBDA e : e.aegis) /\ Unrepeated(entries, LAMBDA e : e.buff.name)

ValidAttacks(entries) ==
  /\ \A e \in ToSet(entries) : e.aegis # "" /\ e.attack \notin {Null, ""}
  /\ Unrepeated(entries, LAMBDA e : e.aegis) /\ Unrepeated(entries, LAMBDA e : e.attack)

\* An innate buff has no skill, hence no level that could offer an element.
ValidInnate(innate) ==
  \A c \in DOMAIN innate :
    /\ \A b \in ToSet(innate[c]) : ValidBuff(b) /\ b.kind \in {"stat_buff", "status"}
    /\ Unrepeated(innate[c], LAMBDA b : b.name)

ValidThreats(entries) ==
  /\ Unrepeated(entries, LAMBDA e : e.id)
  /\ \A e \in ToSet(entries) :
       e.id # 0 /\ (e.threats # Null => e.threats.status \subseteq Immunity)

\* The row at k is the one that an overlay's entry for its key is set on: the last of
\* those with the key.
Marked(keys, k, overlay) ==
  /\ keys[k] \in DOMAIN overlay
  /\ \A j \in DOMAIN keys : keys[j] = keys[k] => j <= k

\* Every entry has a row.
Covered(entries, For(_), rows, Of(_)) ==
  {For(e) : e \in ToSet(entries)} \subseteq {Of(r) : r \in ToSet(rows)}

-----------------------------------------------------------------------------
(* What a mob does: computed from the skills it casts, or by hand.         *)

statusChangeToImmunity ==
  [SC_FREEZE |-> "frozen", SC_STUN |-> "stun", SC_SLEEP |-> "sleep", SC_STONE |-> "stone_curse",
   SC_CURSE |-> "curse", SC_SILENCE |-> "silence", SC_BLIND |-> "blind", SC_POISON |-> "poison",
   SC_CONFUSION |-> "confusion", SC_ILLUSION |-> "confusion"]

ComputedThreats(s) ==
  LET rows == IF s.mobSkills = Null THEN <<>> ELSE s.mobSkills
      cast(mob) == {r.aegis : r \in {q \in ToSet(rows) : q.mob = mob}}
      named == LastBy(s.skills, LAMBDA sk : sk.aegis)
      status(aegis) ==
        IF aegis \in DOMAIN named /\ named[aegis].status \in DOMAIN statusChangeToImmunity
          THEN {statusChangeToImmunity[named[aegis].status]} ELSE {}
  IN [mob \in {r.mob : r \in ToSet(rows)} |->
        [status |-> UNION {status(a) : a \in cast(mob)}, casts |-> cast(mob)]]

\* Where there is an entry by hand nothing computed is left, not even what agrees.
MobThreats(s) ==
  LET computed == ComputedThreats(s)
      byHand   == Index(s.threats)
  IN [id \in DOMAIN computed \union DOMAIN byHand |->
        IF id \in DOMAIN byHand THEN byHand[id].threats ELSE computed[id]]

-----------------------------------------------------------------------------
(* Classes.                                                                *)

\* Quest skills a class has in the emulator's tree, without points, and cannot use.
usabilityExclusions == [soul_linker |-> {"TK_MISSION"}, star_gladiator |-> {"TK_MISSION"}]

\* Skills a class keeps with its points and cannot use.
unusableSkills ==
  [soul_linker |-> {"TK_STORMKICK", "TK_DOWNKICK", "TK_TURNKICK", "TK_COUNTER", "TK_JUMPKICK",
                    "TK_READYSTORM", "TK_READYDOWN", "TK_READYTURN", "TK_READYCOUNTER"}]

\* What the table has for the class.
Listed(table, key) == IF key \in DOMAIN table THEN table[key] ELSE {}

Own(class) ==
  [k \in DOMAIN class.skills |->
     [aegis |-> class.skills[k].aegis, max |-> class.skills[k].max, unusable |-> FALSE]]

\* Skills in their order, of a name only the first.
FirstNamed(entries) ==
  Sifted(entries, {k \in DOMAIN entries : \A j \in 1..(k - 1) : entries[j].aegis # entries[k].aegis})

\* Mutant: only the first parent counts.
FlattenedFirst(class, above) ==
  LET key == class.inherit[1].key IN
  FirstNamed((IF class.inherit # <<>> /\ key \in DOMAIN above THEN above[key].skills ELSE <<>>)
               \o Own(class))

\* flattenSkills: the skills of the parents, flattened before it, then the class's
\* own.  A parent that is listed later adds nothing.
Flattened(class, above) ==
  LET from(n) == IF n.key \in DOMAIN above THEN above[n.key].skills ELSE <<>> IN
  FirstNamed(FlattenSeq([k \in DOMAIN class.inherit |-> from(class.inherit[k])]) \o Own(class))

\* One class of buildClassMap: some skills are dropped, some flagged.
ClassTree(class, above) ==
  LET key  == class.name.key
      flat == Flattened(class, above)
      kept == Sifted(flat, {k \in DOMAIN flat : flat[k].aegis \notin Listed(usabilityExclusions, key)})
  IN [inherit |-> class.inherit,
      skills  |-> [k \in DOMAIN kept |->
                     [kept[k] EXCEPT !.unusable = @ \/ kept[k].aegis \in Listed(unusableSkills, key)]]]

\* A map that has this under the key as well.
With(above, key, tree) ==
  [k \in {key} \union DOMAIN above |-> IF k = key THEN tree ELSE above[k]]

\* In the order of the file; a class without skill trees has none at all.
BuildClassMap(trees) ==
  LET built[n \in 0..Len(trees)] ==
        IF n = 0 THEN <<>>
        ELSE With(built[n - 1], trees[n].name.key, ClassTree(trees[n], built[n - 1]))
  IN IF trees = Null THEN <<>> ELSE built[Len(trees)]

\* 0 for a group nobody knows.
Level(groups, g) == IF g \in DOMAIN groups THEN groups[g] ELSE 0

JobMaxLevels(jobs, groups) ==
  IF jobs = Null \/ groups = Null THEN <<>>
  ELSE LET names == Listing(DOMAIN jobs) IN
       [k \in DOMAIN names |-> LET job == jobs[names[k]] IN
          [name |-> names[k], base |-> Level(groups.base, job.base), job |-> Level(groups.job, job.job)]]

-----------------------------------------------------------------------------
(* The tool.                                                               *)

\* Without these files there is no catalog; without trees or levels there is one.
Required(s) ==
  {s.items, s.mobs, s.skills, s.immunities, s.buffs, s.attacks, s.innate, s.threats}

Buildable(s) ==
  /\ Null \notin Required(s)
  /\ ValidImmunities(s.immunities) /\ ValidBuffs(s.buffs) /\ ValidAttacks(s.attacks)
  /\ ValidInnate(s.innate) /\ ValidThreats(s.threats)
  /\ Covered(s.immunities, LAMBDA e : e.id, s.items, LAMBDA r : r.id)
  /\ Covered(s.buffs, LAMBDA e : e.aegis, s.skills, LAMBDA r : r.aegis)
  /\ Covered(s.attacks, LAMBDA e : e.aegis, s.skills, LAMBDA r : r.aegis)
  /\ DOMAIN MobThreats(s) \subseteq {m.id : m \in ToSet(s.mobs)}

Items(s) ==
  LET ids     == [k \in DOMAIN s.items |-> s.items[k].id]
      overlay == Index(s.immunities)
  IN [k \in DOMAIN ids |->
        IF Marked(ids, k, overlay)
          THEN [s.items[k] EXCEPT !.immunity = overlay[ids[k]].statuses,
                                  !.uninterruptible = overlay[ids[k]].uninterruptible]
          ELSE s.items[k]]

Mobs(s) ==
  LET ids     == [k \in DOMAIN s.mobs |-> s.mobs[k].id]
      overlay == MobThreats(s)
  IN [k \in DOMAIN ids |->
        IF Marked(ids, k, overlay) THEN [s.mobs[k] EXCEPT !.threats = overlay[ids[k]]] ELSE s.mobs[k]]

Skills(s) ==
  LET names   == [k \in DOMAIN s.skills |-> s.skills[k].aegis]
      buffs   == LastBy(s.buffs, LAMBDA e : e.aegis)
      attacks == LastBy(s.attacks, LAMBDA e : e.aegis)
  IN [k \in DOMAIN names |->
        [SkillRow(s.skills[k]) EXCEPT
           !.buff   = IF Marked(names, k, buffs) THEN buffs[names[k]].buff ELSE @,
           !.attack = IF Marked(names, k, attacks) THEN attacks[names[k]].attack ELSE @]]

CatalogOf(s) ==
  [items |-> Items(s), mobs |-> Mobs(s), skills |-> Skills(s),
   classes |-> BuildClassMap(s.trees), jobMax |-> JobMaxLevels(s.jobs, s.groups), innate |-> s.innate]

\* The catalog that is committed was built from files like these.
CatalogInit ==
  /\ sources \in Sources
  /\ \E s \in Sources : Buildable(s) /\ file = CatalogOf(s)

\* Someone updates the emulator or edits an overlay.
Edit ==
  /\ sources' \in Sources
  /\ UNCHANGED file

Build ==
  /\ Buildable(sources)
  /\ file' = CatalogOf(sources)
  /\ UNCHANGED sources

\* The file is cut before it is written, with no rename: a run that stops in between
\* leaves a file that Load refuses.
WriteFails ==
  /\ Buildable(sources)
  /\ file' = Null
  /\ UNCHANGED sources

CatalogNext == Edit \/ Build \/ WriteFails

CatalogSpec == CatalogInit /\ [][CatalogNext]_cvars

-----------------------------------------------------------------------------
(* Properties.                                                             *)

\* Every row of a table is the only one of its id, and of its name.
RowsUnrepeated(s) ==
  /\ Unrepeated(s.items, LAMBDA r : r.id) /\ Unrepeated(s.mobs, LAMBDA r : r.id)
  /\ Unrepeated(s.skills, LAMBDA r : r.id) /\ Unrepeated(s.skills, LAMBDA r : r.aegis)

\* Every class is there once, after those it grew out of.
InOrder(trees) ==
  /\ Unrepeated(trees, LAMBDA c : c.name.key)
  /\ \A k \in DOMAIN trees : \A n \in ToSet(trees[k].inherit) :
       \E j \in 1..(k - 1) : trees[j].name.key = n.key

\* Load serves what each overlay says, of the row it is for.
ServesOverlays(s, data) ==
  /\ \A e \in ToSet(s.immunities) : Lookup(Index(FirstSeen(data.items)), e.id).immunity = e.statuses
  /\ \A e \in ToSet(s.buffs) : ByName(data.skills)[e.aegis].buff = e.buff
  /\ \A e \in ToSet(s.attacks) : ByName(data.skills)[e.aegis].attack = e.attack
  /\ \A id \in DOMAIN MobThreats(s) :
       LET threats == Lookup(Index(FirstSeen(data.mobs)), id).threats
           byHand  == {e \in ToSet(s.threats) : e.id = id}
       IN IF byHand # {} THEN threats \in {e.threats : e \in byHand}
          ELSE \A r \in ToSet(s.mobSkills) : r.mob = id =>
                 /\ r.aegis \in threats.casts
                 /\ \A sk \in ToSet(s.skills) :
                      sk.aegis = r.aegis /\ sk.status \in DOMAIN statusChangeToImmunity =>
                        statusChangeToImmunity[sk.status] \in threats.status

\* At every level that is listed a skill is cast in the time listed for it.
ServesCasts(s, data) ==
  \A sk \in ToSet(s.skills) : \A level \in DOMAIN sk.cast.levels :
    ByName(data.skills)[sk.aegis].castByLevel[level] = sk.cast.levels[level]

Names(trees) == {c.name.key : c \in ToSet(trees)}

\* The classes whose own skills have this one, that drop it, and that flag it.
Lists(trees, aegis) ==
  {c.name.key : c \in {d \in ToSet(trees) : aegis \in {sk.aegis : sk \in ToSet(d.skills)}}}

Drops(aegis) == {key \in DOMAIN usabilityExclusions : aegis \in usabilityExclusions[key]}

Flags(aegis) == {key \in DOMAIN unusableSkills : aegis \in unusableSkills[key]}

\* T has what its classes grew out of, but for what is barred.
GrownFrom(trees, T, barred) ==
  \A c \in ToSet(trees) : c.name.key \in T => {n.key : n \in ToSet(c.inherit)} \ barred \subseteq T

\* The classes that this one grew out of, and itself, as far as the way there leads
\* through none that is barred.
Way(trees, key, barred) ==
  {k \in Names(trees) \ barred :
     \A T \in SUBSET Names(trees) : {key} \ barred \subseteq T /\ GrownFrom(trees, T, barred) => k \in T}

\* A class offers, each once, the skills that it or a class it grew out of has of its
\* own, unless a class on every way from there drops it: a character that changes its
\* job can keep every point it has spent, which the steps of a trajectory demand.  It
\* can use them where no class on some way flags them, and where it cannot, one does.
ServesTrees(s, data) ==
  s.trees # Null /\ InOrder(s.trees) =>
    \A c \in ToSet(s.trees) :
      LET way(barred) == Way(s.trees, c.name.key, barred)
          has(aegis)  == Lists(s.trees, aegis)
          offers      == data.classes[c.name.key].skills
          offered     == {sk.aegis : sk \in ToSet(offers)}
      IN /\ Unrepeated(offers, LAMBDA sk : sk.aegis)
         /\ \A aegis \in offered \union UNION {{sk.aegis : sk \in ToSet(d.skills)} : d \in ToSet(s.trees)} :
              aegis \in offered <=> way(Drops(aegis)) \intersect has(aegis) # {}
         /\ \A sk \in ToSet(offers) :
              IF sk.unusable
                THEN way(Drops(sk.aegis)) \intersect Flags(sk.aegis) # {}
                ELSE way(Drops(sk.aegis) \union Flags(sk.aegis)) \intersect has(sk.aegis) # {}

\* A file that a run writes has everything its sources say, of rows and classes that
\* are not repeated and follow those they grew out of; nothing but a run changes it.
BuildsFaithfully ==
  [][file' # file /\ file' # Null =>
       /\ Buildable(sources) /\ sources' = sources
       /\ RowsUnrepeated(sources) =>
            /\ ServesOverlays(sources, file')
            /\ ServesCasts(sources, file')
            /\ ServesTrees(sources, file')]_cvars
=============================================================================
