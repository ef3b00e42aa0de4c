------------------------------- MODULE MCTools -------------------------------
(* The tools of a run on a small catalog: the read-only ones of ToolCalls, and *)
(* the gates with which submit_trajectory judges one submission after another, *)
(* and the runs of the tool that builds such a catalog.                        *)
EXTENDS MCGates, Retrieval, BuildCatalog

Steady(ms) == [flat |-> ms, levels |-> <<>>]

Emu(id, aegis, max, status, cast) ==
  [id |-> id, aegis |-> aegis, max |-> max, status |-> status, cast |-> cast]

Buff(name, kind, elements) ==
  [name |-> name, kind |-> kind, persistence |-> "transient", elements |-> elements]

Tagged(aegis, buff) == [aegis |-> aegis, buff |-> buff]

Scored(aegis, attack) == [aegis |-> aegis, attack |-> attack]

Class(key, parents, added) ==
  [name |-> [key |-> key, form |-> "case"], inherit |-> [k \in DOMAIN parents |-> Key(parents[k])],
   skills |-> [k \in DOMAIN added |-> [aegis |-> added[k], max |-> 0]]]

Job(base, job) == [base |-> base, job |-> job]

Item(id, type, slots, words) ==
  [id |-> id, type |-> type, subtype |-> "", slots |-> slots, level |-> 1, words |-> words,
   immunity |-> {}, uninterruptible |-> FALSE]

Mob(id, level) == [id |-> id, lv |-> level, threats |-> Null]

\* Seven Wind endows, the kicks attack but not for a soul linker, and a super novice
\* has an innate buff.  One tree names a skill without a row.
Tidy ==
  [items  |-> <<Item(1201, "weapon", 3, {"knife"}), Item(1202, "weapon", 4, {"knife"}),
                Item(2301, "armor", 1, {"shirt"})>>,
   mobs   |-> <<Mob(1002, 1), Mob(1115, 85)>>,
   skills |-> <<Emu(1, "NV_BASIC", 9, "", Steady(0)), Emu(411, "TK_RUN", 10, "SC_RUN", Steady(0)),
                Emu(417, "TK_TURNKICK", 7, "SC_STUN", Steady(0)), Emu(415, "TK_STORMKICK", 7, "", Steady(0)),
                Emu(425, "TK_SEVENWIND", 7, "", [flat |-> 0, levels |-> 1 :> 900 @@ 3 :> 700 @@ 8 :> 500]),
                Emu(493, "TK_MISSION", 1, "", Steady(0)), Emu(469, "SL_SMA", 10, "", Steady(2000))>>,
   trees  |-> <<Class("novice", <<>>, <<"NV_BASIC">>), Class("super_novice", <<"novice">>, <<>>),
                Class("taekwon", <<"novice">>, <<"TK_MISSION", "TK_RUN", "TK_SEVENWIND", "TK_STORMKICK", "TK_TURNKICK">>),
                Class("soul_linker", <<"taekwon">>, <<"SL_LOST", "SL_SMA">>), Class("paladin", <<"novice">>, <<>>),
                Class("soul_reaper", <<"super_novice", "soul_linker">>, <<"NV_BASIC">>)>>,
   jobs   |-> Key("novice") :> Job("first", "novice") @@ Key("super_novice") :> Job("first", "super")
              @@ Key("taekwon") :> Job("first", "second") @@ Key("soul_linker") :> Job("first", "second")
              @@ Key("novice_high") :> Job("first", "novice") @@ Key("swordsman_high") :> Job("first", "second")
              @@ [key |-> "paladin", form |-> "case"] :> Job("first", "trans")
              @@ Key("soul_reaper") :> Job("third", "trans"),
   groups |-> [base |-> "first" :> 99, job |-> "novice" :> 10 @@ "super" :> 99 @@ "second" :> 50 @@ "trans" :> 70],
   mobSkills |-> <<[mob |-> 1115, aegis |-> "TK_TURNKICK"], [mob |-> 1115, aegis |-> "NPC_X"],
                   [mob |-> 1002, aegis |-> "TK_RUN"]>>,
   immunities |-> <<[id |-> 2301, statuses |-> {"frozen"}, uninterruptible |-> FALSE]>>,
   buffs   |-> <<Tagged("TK_RUN", Buff("spurt", "stat_buff", <<>>)), Tagged("TK_MISSION", Buff("taekwon_ranker", "status", <<>>)),
                 Tagged("TK_SEVENWIND", Buff("mild_wind", "weapon_endow", <<"earth", "wind", "holy">>))>>,
   attacks |-> <<Scored("TK_TURNKICK", "roundhouse"), Scored("TK_STORMKICK", "tornado_kick"), Scored("SL_SMA", "esma")>>,
   threats |-> <<[id |-> 1002, threats |-> [status |-> {"curse"}, casts |-> {}]]>>,
   innate  |-> [super_novice |-> <<Buff("no_death_bonus", "stat_buff", <<>>)>>]]

\* One item and one skill have a second row.
MCSource ==
  [Tidy EXCEPT !.items = @ \o <<Item(1201, "armor", 0, {"shirt"})>>,
               !.skills = @ \o <<Emu(425, "SG_FEEL", 3, "", Steady(0))>>]

\* One file differs: a mistake in an overlay, a file that is missing, a tree too late.
MCSources ==
  {Tidy, MCSource, [Tidy EXCEPT !.trees = Reverse(@)], [Tidy EXCEPT !.trees = Null],
   [Tidy EXCEPT !.groups = Null], [Tidy EXCEPT !.buffs = Null], [Tidy EXCEPT !.mobSkills = Null]}
  \union {[Tidy EXCEPT !.threats = <<[id |-> id, threats |-> t]>>] :
            id \in {0, 1115, 90001}, t \in {Null, [status |-> {"dizzy"}, casts |-> {}]}}
  \union {[Tidy EXCEPT !.buffs = @ \o <<t>>] :
            t \in {Tagged("SL_SMA", Buff("ka", "status", <<>>)), Tagged("SL_SMA", Buff("ka", "x", <<>>)),
                   Tagged("SL_SMA", Buff("ka", "status", <<"fire">>)),
                   Tagged("SL_SMA", Buff("ka", "weapon_endow", <<"fire">>)),
                   Tagged("SL_SMA", Buff("ka", "weapon_endow", <<"fire", "fire">>)),
                   Tagged("SL_SMA", Buff("spurt", "status", <<>>)), Tagged("TK_RUN", Buff("ka", "status", <<>>)),
                   Tagged("SL_LOST", Buff("ka", "status", <<>>))}}
  \union {[Tidy EXCEPT !.immunities = <<[id |-> id, statuses |-> {"stun"}, uninterruptible |-> TRUE]>>] :
            id \in {1202, 7}}
  \union {[Tidy EXCEPT !.attacks = <<Scored("TK_RUN", "rush"), Scored(aegis, "esma")>>] :
            aegis \in {"SL_SMA", "SL_LOST", "TK_RUN"}}
  \union {[Tidy EXCEPT !.innate = [novice |-> <<Buff("luck", "status", <<>>), Buff(name, kind, <<>>)>>]] :
            kind \in {"status", "land"}, name \in {"luck", "grit"}}

Sk(id, aegis, max, status, buff, attack) ==
  [id |-> id, aegis |-> aegis, max |-> max, status |-> status, cast |-> 0, castByLevel |-> <<>>,
   buff |-> buff, attack |-> attack]

\* A flattened tree.
Grown(parents, skills_, unusable) ==
  [inherit |-> [k \in DOMAIN parents |-> Key(parents[k])],
   skills  |-> [k \in DOMAIN skills_ |->
                  [aegis |-> skills_[k], max |-> 0, unusable |-> skills_[k] \in unusable]]]

Capped(key, base, job) == [name |-> key, base |-> base, job |-> job]

\* The catalog of MCSource, written out since TLC's coverage expands what a constant is
\* replaced by wherever the constant occurs.  BuiltAssumption compares the two.
MCData ==
  [items   |-> <<Item(1201, "weapon", 3, {"knife"}), Item(1202, "weapon", 4, {"knife"}),
                 [Item(2301, "armor", 1, {"shirt"}) EXCEPT !.immunity = {"frozen"}],
                 Item(1201, "armor", 0, {"shirt"})>>,
   mobs    |-> <<[id |-> 1002, lv |-> 1, threats |-> [status |-> {"curse"}, casts |-> {}]],
                 [id |-> 1115, lv |-> 85, threats |-> [status |-> {"stun"}, casts |-> {"TK_TURNKICK", "NPC_X"}]]>>,
   skills  |-> <<Sk(1, "NV_BASIC", 9, "", Null, Null),
                 Sk(411, "TK_RUN", 10, "SC_RUN", Buff("spurt", "stat_buff", <<>>), Null),
                 Sk(417, "TK_TURNKICK", 7, "SC_STUN", Null, "roundhouse"),
                 Sk(415, "TK_STORMKICK", 7, "", Null, "tornado_kick"),
                 [Sk(425, "TK_SEVENWIND", 7, "", Buff("mild_wind", "weapon_endow", <<"earth", "wind", "holy">>), Null)
                    EXCEPT !.cast = 500, !.castByLevel = <<900, 900, 700, 700, 700, 700, 700, 500>>],
                 Sk(493, "TK_MISSION", 1, "", Buff("taekwon_ranker", "status", <<>>), Null),
                 [Sk(469, "SL_SMA", 10, "", Null, "esma") EXCEPT !.cast = 2000],
                 Sk(425, "SG_FEEL", 3, "", Null, Null)>>,
   classes |-> [novice       |-> Grown(<<>>, <<"NV_BASIC">>, {}),
                super_novice |-> Grown(<<"novice">>, <<"NV_BASIC">>, {}),
                taekwon      |-> Grown(<<"novice">>, <<"NV_BASIC", "TK_MISSION", "TK_RUN", "TK_SEVENWIND",
                                                       "TK_STORMKICK", "TK_TURNKICK">>, {}),
                soul_linker  |-> Grown(<<"taekwon">>, <<"NV_BASIC", "TK_RUN", "TK_SEVENWIND", "TK_STORMKICK",
                                                        "TK_TURNKICK", "SL_LOST", "SL_SMA">>,
                                       {"TK_STORMKICK", "TK_TURNKICK"}),
                paladin      |-> Grown(<<"novice">>, <<"NV_BASIC">>, {}),
                soul_reaper  |-> Grown(<<"super_novice", "soul_linker">>,
                                       <<"NV_BASIC", "TK_RUN", "TK_SEVENWIND", "TK_STORMKICK", "TK_TURNKICK",
                                         "SL_LOST", "SL_SMA">>, {"TK_STORMKICK", "TK_TURNKICK"})],
   jobMax  |-> <<Capped(Key("novice"), 99, 10), Capped(Key("super_novice"), 99, 99), Capped(Key("taekwon"), 99, 50),
                 Capped(Key("soul_linker"), 99, 50), Capped(Key("novice_high"), 99, 10),
                 Capped(Key("swordsman_high"), 99, 50), Capped([key |-> "paladin", form |-> "case"], 99, 70),
                 Capped(Key("soul_reaper"), 0, 70)>>,
   innate  |-> [super_novice |-> <<Buff("no_death_bonus", "stat_buff", <<>>)>>]]

\* But for the skills of trees, which BuildsFaithfully is about.
ASSUME BuiltAssumption ==
  LET built == CatalogOf(MCSource) IN
  /\ \A part \in {"items", "mobs", "skills", "innate"} : built[part] = MCData[part]
  /\ ToSet(built.jobMax) = ToSet(MCData.jobMax)
  /\ DOMAIN built.classes = DOMAIN MCData.classes
  /\ \A key \in DOMAIN MCData.classes : built.classes[key].inherit = MCData.classes[key].inherit

Change(class, base, job) == [class |-> class, base |-> base, job |-> job, rules |-> {"r"}]

Uaro ==
  [key |-> "", name |-> "", mode |-> "pre-renewal", episode |-> "13.1",
   caps |-> [maxBase |-> 99, maxJob |-> 70, maxStat |-> 99, maxASPD |-> 190, instantCastDex |-> 150,
             minSkillDelay |-> 0, minItemDelay |-> 0, partyShareRange |-> 15],
   rates |-> [base |-> 5, job |-> 0, drop |-> 5, cardDrop |-> 5, mvpCard |-> 0, mvpDrop |-> 0],
   classChanges |-> <<Change(Key("taekwon_kid"), 0, 0), Change(Key("soul_linker"), 0, 70)>>,
   itemChanges |-> <<[id |-> 1201, name |-> "knife", notes |-> {"n"}]>>,
   gearGrants |-> <<[classes |-> {Key("paladin")}, items |-> {2720}]>>,
   rulesets |-> [pvpArena |-> Null, preTransWoe |-> Null,
                 woe |-> [schedule |-> "sat", banned |-> {"b"}, notes |-> {},
                          limits |-> [minBaseLevel |-> 0, playerCap |-> 0, memberCap |-> 50, minParticipants |-> 0]]],
   leveling |-> [notes |-> {"n"}, quests |-> {"q"}],
   mobs |-> <<[id |-> 1115, lv |-> 90, hp |-> 20, traits |-> "boss"], [id |-> 90001, lv |-> 5, hp |-> 7, traits |-> "fish"]>>,
   notes |-> {"n"}]

MCServerFile == [uaro |-> Uaro]

\* The instance is one that the theorems are about.
ASSUME DataApart == MobsApart /\ InnateApart /\ ChangesApart

Ask(class, server) ==
  [class |-> class, server |-> server, mode |-> "", playstyle |-> "pvm", description |-> 0]

Soul == Key("soul_linker")

MCRequest ==
  {Ask(class, server) :
     class \in {Key("taekwon_kid"), Soul, [Soul EXCEPT !.form = "case"], [Soul EXCEPT !.form = "space"],
                Key("super_novice"), Key(""), Key("jedi"), Key("paladin")},
     server \in {"", "uaro"}}

\* Alone, no skill, no declaration.
Bare(class) ==
  [mode |-> "", class |-> class, base |-> 80, job |-> 40, stats |-> 5, skills |-> <<>>, buffs |-> <<>>,
   scored |-> <<>>, equipment |-> [weapon |-> [id |-> 1201, refine |-> 7]], target |-> 1115]

Alloc(id, level) == [id |-> id, level |-> level]
Mild(element) == [name |-> "mild_wind", element |-> element]
Plain(name) == [name |-> name, element |-> ""]
Attack(name, primary) == [name |-> name, primary |-> primary]

Tree == <<Alloc(411, 1), Alloc(417, 3), Alloc(425, 2), Alloc(469, 1)>>

Declared(class) ==
  LET bare == Bare(class)  full == [bare EXCEPT !.skills = Tree] IN
  {[full EXCEPT !.buffs = buffs] :
     buffs \in {<<Mild(e)>> : e \in {"earth", "wind", "holy", "water", ""}}
                 \union {<<Plain(n)>> : n \in {"spurt", "taekwon_ranker", "no_death_bonus", "x"}}
                 \union {<<Plain("spurt"), Mild("wind")>>, <<[Plain("no_death_bonus") EXCEPT !.element = "fire"]>>}}
  \union {[full EXCEPT !.scored = scored] :
            scored \in {<<Attack("roundhouse", TRUE)>>, <<Attack("esma", TRUE)>>, <<Attack("esma", FALSE)>>,
                        <<Attack("roundhouse", TRUE), Attack("esma", TRUE)>>,
                        <<Attack("roundhouse", TRUE), Attack("roundhouse", FALSE)>>,
                        <<Attack("tornado_kick", TRUE)>>}}
  \union {bare, [bare EXCEPT !.buffs = <<Plain("spurt")>>],
          [full EXCEPT !.skills = @ \o <<Alloc(425, 3)>>, !.buffs = <<Mild("holy")>>],
          [bare EXCEPT !.base = -1], [bare EXCEPT !.equipment.weapon.refine = 11],
          [bare EXCEPT !.mode = "renewal", !.base = 0, !.job = 0, !.stats = 0, !.target = 0,
                       !.equipment = <<>>],
          [bare EXCEPT !.target = 1002], [bare EXCEPT !.target = 90001]}

Classes == {r.class : r \in MCRequest}

Filter(type, name, limit) ==
  [type |-> type, subtype |-> "", name |-> name, minSlots |-> 0, maxSlots |-> 3, maxLevel |-> 0, limit |-> limit]

Batches ==
  LET fine == Bare(Soul)  bad == [fine EXCEPT !.buffs = <<Plain("x")>>]
      endowed == [fine EXCEPT !.skills = Tree, !.buffs = <<Mild("wind")>>] IN
  {<<>>, <<fine>>, <<fine, bad>>, <<bad, endowed, fine>>, <<fine, fine, endowed, bad>>}

MCCall ==
  {[tool |-> "score_build", arg |-> s] : s \in UNION {Declared(class) : class \in Classes}}
  \union {[tool |-> "score_builds", arg |-> b] : b \in Batches}
  \union {[tool |-> t, arg |-> class] : t \in {"list_class_skills", "list_class_buffs"}, class \in Classes}
  \union {[tool |-> t, arg |-> id] : t \in {"lookup_monster", "lookup_item", "lookup_skill", "lookup_spell"},
                                     id \in {425, 1115, 1201, 90001, 7}}
  \union {[tool |-> "search_items", arg |-> Filter(t, n, l)] :
            t \in {"", "armor"}, n \in {"", "knife"}, l \in {0, 1, 101}}

MCReply ==
  {[status |-> 200, decodes |-> TRUE], [status |-> 200, decodes |-> FALSE], [status |-> 400, decodes |-> TRUE],
   [status |-> 503, decodes |-> TRUE], [status |-> 0, decodes |-> FALSE]}

\* Builds of the request's class and server or of others, near, far, or without a
\* vector.
MCRow ==
  {[class |-> class, server |-> server, distance |-> d] :
     class \in {Soul}, server \in {"", "uaro"}, d \in {1, 3, Null}}
  \union {[class |-> [Soul EXCEPT !.form = "space"], server |-> "uaro", distance |-> d] : d \in {1, 6}}

MCQuery ==
  [class : {Key(""), Soul}, server : {"", "uaro"}, limit : {0, 1}]

\* The gates judge while no other tool runs, and the other tools leave no trace in
\* them; the catalog a server has embedded does not change while it runs.
NoTool == ToolsInit /\ request = Ask(Soul, "")
NoRetrieval == RetrievalInit /\ ~semantic /\ ~embedder
NoBuild == sources = MCSource /\ file = MCData

MCInit ==
  \/ Init /\ NoTool /\ NoBuild /\ NoRetrieval
  \/ in = Base /\ ToolsInit /\ NoBuild /\ NoRetrieval
  \/ in = Base /\ NoTool /\ CatalogInit /\ NoRetrieval
  \/ in = Base /\ ToolsInit /\ request.class = Soul /\ NoBuild /\ RetrievalInit

MCNext ==
  \/ call = Null /\ request = Ask(Soul, "") /\ NoBuild /\ NoRetrieval
     /\ Next /\ UNCHANGED <<tvars, cvars, rvars>>
  \/ in = Base /\ NoBuild /\ NoRetrieval /\ ToolsNext /\ UNCHANGED <<in, cvars, rvars>>
  \/ in = Base /\ call = Null /\ request = Ask(Soul, "") /\ NoRetrieval
     /\ CatalogNext /\ UNCHANGED <<in, tvars, rvars>>
  \/ in = Base /\ call = Null /\ request.class = Soul /\ NoBuild
     /\ RetrievalNext /\ UNCHANGED <<in, tvars, cvars>>

MCSpec == MCInit /\ [][MCNext]_<<in, tvars, cvars, rvars>>
===============================================================================
