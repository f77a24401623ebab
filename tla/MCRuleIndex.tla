----------------------------- MODULE MCRuleIndex -----------------------------
(***************************************************************************)
(* Rules of one filter of each type, as a target or on the blacklist, of   *)
(* two filters, and of each other condition, for an actor that has nothing *)
(* at first and for one that has everything.                               *)
(***************************************************************************)
EXTENDS RuleIndex

Filter(type, form, mode, low, high) ==
    [type |-> type, form |-> form, mode |-> mode, low |-> low, high |-> high]
FormFilter(type, form) == Filter(type, form, "", 0, 0)
ModeFilter(type, mode) == Filter(type, NoForm, mode, 0, 0)
AtLeast(type, form, n) == Filter(type, form, "", n, 9)
AtMost(type, form, n) == Filter(type, form, "", -9, n)

MCFilters ==
    {FormFilter("Hair", "face"), FormFilter("Leveled NPC", "bandits"), FormFilter("Keyword", "tag"),
     FormFilter("Keyword", NoForm), FormFilter("Faction", "guild"), FormFilter("Perk", "perk"),
     FormFilter("Inventory Item", "sword"), FormFilter("Equipped Item", "sword"),
     FormFilter("Location", "inn"), ModeFilter("Source Plugin", "mod"),
     ModeFilter("NPC Trait", "essential"), ModeFilter("Cell Type", "interior"),
     ModeFilter("Cell Type", "exterior"), ModeFilter("Equipped Category", "weapon"),
     ModeFilter("Equipped Category", "unarmed"), AtLeast("Height", NoForm, 1),
     AtMost("Relationship Rank", NoForm, 0), AtLeast("Relationship Rank", NoForm, 1),
     AtLeast("Actor Value", NoForm, 1), AtMost("Actor Value", NoForm, 0),
     AtLeast("Faction Rank", "guild", 1), AtMost("Faction Rank", "guild", 0),
     AtLeast("Inventory Count", "sword", 1), AtMost("Inventory Count", "sword", 0),
     AtLeast("Gold", NoForm, 1), AtMost("Gold", NoForm, 0), AtMost("Gold", "gold", 0)}
    \cup {Filter("Quest", "quest", mode, 1, 1) :
          mode \in {"running", "completed", "not started", "stopped", "stage", "alias"}}

AnyLaw == [targets |-> {}, all |-> FALSE, bans |-> {}, allBans |-> FALSE, gender |-> BOOLEAN,
           banned |-> {}, combat |-> BOOLEAN, follower |-> BOOLEAN, hostile |-> BOOLEAN, level |-> 0]
MCLaws ==
    {AnyLaw}
    \cup {[AnyLaw EXCEPT !.targets = {f}] : f \in MCFilters}
    \cup {[AnyLaw EXCEPT !.bans = {f}] : f \in MCFilters}
    \cup {[AnyLaw EXCEPT !.targets = {FormFilter("Inventory Item", "sword"), f}, !.all = all] :
          f \in {FormFilter("Perk", "perk"), FormFilter("Keyword", "tag")}, all \in BOOLEAN}
    \cup {[AnyLaw EXCEPT !.gender = {TRUE}], [AnyLaw EXCEPT !.banned = {TRUE}],
          [AnyLaw EXCEPT !.combat = {TRUE}], [AnyLaw EXCEPT !.follower = {FALSE}],
          [AnyLaw EXCEPT !.hostile = {TRUE}, !.targets = {FormFilter("Keyword", "tag")}],
          [AnyLaw EXCEPT !.level = 1]}

Bare == [base |-> {}, lists |-> {}, size |-> 0, plugin |-> "Dynamic", traits |-> {}, affinity |-> 0,
         inside |-> FALSE, category |-> [i \in {"sword"} |-> "weapon"], worn |-> {}, value |-> 0,
         keywords |-> {}, tags |-> {}, ranks |-> [f \in {"guild"} |-> -1], abilities |-> {},
         count |-> [i \in {"sword"} |-> 0], gold |-> 0, places |-> {}, stage |-> [q \in {"quest"} |-> 0],
         aliases |-> {}, combat |-> FALSE, follower |-> FALSE, hostile |-> FALSE, gender |-> FALSE,
         level |-> 0]
Rich == [Bare EXCEPT !.base = {"face"}, !.lists = {"bandits"}, !.size = 1, !.plugin = "mod",
         !.traits = {"essential"}, !.affinity = 1, !.inside = TRUE, !.worn = {"sword"}, !.value = 1,
         !.tags = {"tag"}, !.ranks = [f \in {"guild"} |-> 1], !.abilities = {"perk"},
         !.count = [i \in {"sword"} |-> 1], !.gold = 1, !.places = {"inn"}]
MCSubjects == {Bare, Rich}
=============================================================================
