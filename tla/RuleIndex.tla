------------------------------ MODULE RuleIndex ------------------------------
(***************************************************************************)
(* How EDF finds the rules that a change of an actor may concern           *)
(* (EvaluateFilter in src/DistributionCore/FilterEvaluator.cpp, the index  *)
(* in src/Rule.cpp).  A rule filters actors by what they are, have, wear   *)
(* and do.  A change is reported by an event, as a set of dependencies and *)
(* the forms that changed, or seen by the next evaluation, which compares  *)
(* the actor with what it last saw.  An evaluation looks at the rules that *)
(* the index finds for the merged change, and at those it once applied.    *)
(* One rule is followed, any of a set: rules are found independently.  One *)
(* actor is followed, but another of the same base is evaluated as well.   *)
(***************************************************************************)
EXTENDS Integers, FiniteSets

CONSTANTS
    Laws,       \* the rules to check
    Subjects,   \* what the actor may be at first
    MaxAlterations  \* bound: changes of the actor

\* Kinds of dependencies (RuleDependency).
Kinds_X == {"static", "tag", "rank", "ability", "inventory", "environment", "level", "sleep",
            "combat", "value", "follower", "quest", "relationship", "equipment"}

VARIABLES
    law,        \* the rule: [targets, all, bans, allBans, gender, banned, combat, follower, hostile, level]
    subject,    \* the actor
    standing,    \* [active, documented]: the state of the rule for this actor
    waiting,    \* the merged change that waits
    seen,       \* what evaluations saw last: [base, value, follower], sets of at most one;
                \* base is shared by all actors of the base
    flipped,       \* history: how the match changed since the last evaluation
    baseFlips,     \* history: the same by changes of the base that only a comparison can see,
                   \* and that no evaluation of any actor of the base has seen
    alterations       \* counter of the bound

indexVars == <<law, subject, standing, waiting, seen, flipped, baseFlips, alterations>>

NoForm == "no form"
----------------------------------------------------------------------------
(* Filters: [type, form, mode, low, high].                                 *)

BaseTypes == {"NPC", "Race", "Combat Style", "Voice Type", "Class", "Skin", "Package", "Hair",
              "Facial Hair", "HeadPart Eyes"}
AbilityTypes == {"Perk", "Spell", "Shout"}
PlaceTypes == {"Location", "Cell", "Worldspace", "Location Keyword"}
ItemTypes == {"Inventory Item", "Inventory Count", "Equipped Item"}

\* At least, at most, equal and between are intervals; a value that does not
\* exist is in none.
MatchesNumeric(v, f) == f.low <= v /\ v <= f.high

MatchesQuest(s, f) ==
    CASE f.mode = "running"     -> s.stage[f.form] = 1
      [] f.mode = "completed"   -> s.stage[f.form] = 2
      [] f.mode = "not started" -> s.stage[f.form] = 0
      [] f.mode = "stopped"     -> s.stage[f.form] # 1
      [] f.mode = "stage"       -> s.stage[f.form] = f.low
      [] f.mode = "alias"       -> f.form \in s.aliases

\* The categories of what is in the hands and of the armor that is worn; to be
\* unarmed is to have no weapon.
MatchesEquippedCategory(s, category) ==
    IF category = "unarmed" THEN "weapon" \notin {s.category[i] : i \in s.worn}
    ELSE category \in {s.category[i] : i \in s.worn}

\* Forms that are not found match nothing.
EvaluateFilter(s, f) ==
    CASE f.type = "Actor Value"         -> MatchesNumeric(s.value, f)
      [] f.type \in {"Height", "Weight"} -> MatchesNumeric(s.size, f)
      [] f.type = "Source Plugin"       -> s.plugin = f.mode
      [] f.type = "NPC Trait"           -> f.mode \in s.traits
      [] f.type = "Relationship Rank"   -> MatchesNumeric(s.affinity, f)
      [] f.type = "Cell Type"           -> s.inside = (f.mode = "interior")
      [] f.type = "Equipped Category"   -> MatchesEquippedCategory(s, f.mode)
      [] f.type = "Gold"                -> MatchesNumeric(s.gold, f)
      [] f.type \in BaseTypes           -> f.form \in s.base
      [] f.type = "Leveled NPC"         -> f.form \in s.lists
      [] f.type = "Keyword"             -> f.form \in s.keywords \cup s.tags
      [] f.type = "Faction"             -> f.form \in DOMAIN s.ranks /\ s.ranks[f.form] >= 0
      [] f.type = "Faction Rank"        -> /\ f.form \in DOMAIN s.ranks /\ s.ranks[f.form] >= 0
                                           /\ MatchesNumeric(s.ranks[f.form], f)
      [] f.type \in AbilityTypes        -> f.form \in s.abilities
      [] f.type = "Inventory Item"      -> f.form # NoForm /\ s.count[f.form] > 0
      [] f.type = "Inventory Count"     -> f.form # NoForm /\ MatchesNumeric(s.count[f.form], f)
      [] f.type = "Equipped Item"       -> f.form \in s.worn
      [] f.type \in PlaceTypes          -> f.form \in s.places
      [] f.type = "Quest"               -> f.form # NoForm /\ MatchesQuest(s, f)

Some(s, filters, all) ==
    /\ filters # {}
    /\ IF all THEN \A f \in filters : EvaluateFilter(s, f)
              ELSE \E f \in filters : EvaluateFilter(s, f)

\* IsNPCMatchingTargets, for the targets and for the blacklist; the gender stands
\* for the child and the humanoid as well.
Targeted(s, r) ==
    /\ s.gender \in r.gender /\ s.combat \in r.combat
    /\ s.follower \in r.follower /\ s.hostile \in r.hostile
    /\ r.targets = {} \/ Some(s, r.targets, r.all)
Blacklisted(s, r) == s.gender \in r.banned \/ Some(s, r.bans, r.allBans)
Meets(s, r) == Targeted(s, r) /\ ~Blacklisted(s, r) /\ s.level >= r.level
----------------------------------------------------------------------------
(* The index of a rule (RebuildDependencyIndex).                           *)

\* GetFilterDependencyMask
FilterMask(type) ==
    CASE type = "Actor Value"                                -> {"value"}
      [] type \in {"Keyword", "Faction"}                     -> {"tag"}
      [] type = "Faction Rank"                               -> {"rank"}
      [] type \in AbilityTypes                               -> {"ability"}
      [] type \in ItemTypes \cup {"Gold"}                    -> {"inventory"}
      [] type \in PlaceTypes \cup {"Cell Type"}              -> {"environment"}
      [] type = "Quest"                                      -> {"quest"}
      [] type = "NPC Trait"                                  -> {"static", "quest"}
      [] type = "Relationship Rank"                          -> {"relationship"}
      [] type = "Equipped Category"                          -> {"equipment"}
      [] OTHER                                               -> {"static"}

FormlessTypes == {"Source Plugin", "NPC Trait", "Relationship Rank", "Cell Type", "Equipped Category"}
NonFormTypes == FormlessTypes \cup {"Actor Value", "Height", "Weight"} \* IsNonFormFilterType
FiltersOf(r) == r.targets \cup r.bans

\* _ruleDependencyMasks, and the kinds under which _rulesByDependency has the rule.
LawMask(r) ==
    {"level"}
    \cup (IF r.combat # BOOLEAN THEN {"combat"} ELSE {})
    \cup (IF r.follower # BOOLEAN THEN {"follower"} ELSE {})
    \cup (IF r.hostile # BOOLEAN THEN {"combat", "tag", "relationship"} ELSE {})
    \cup (IF r.gender # BOOLEAN \/ r.banned # {} \/ FiltersOf(r) = {} THEN {"static"} ELSE {})
    \cup UNION {FilterMask(f.type) : f \in FiltersOf(r)}

\* The form that leaves out the filters that have no form by nature, for a check.
UnresolvedForms(r) ==
    UNION {FilterMask(f.type) : f \in {g \in FiltersOf(r) : g.form = NoForm /\ g.type \notin NonFormTypes}}

\* _rulesWithUnresolvedDependency: what no form identifies is looked up for every form.
Unresolved(r) ==
    (IF r.hostile # BOOLEAN THEN {"combat", "tag", "relationship"} ELSE {})
    \cup UNION {FilterMask(f.type) :
                f \in {g \in FiltersOf(r) : g.type # "Actor Value" /\
                                            (g.type \in FormlessTypes \/ g.form = NoForm)}}

\* _rulesByExactDependency
Exact(r, kind, form) ==
    \E f \in FiltersOf(r) : /\ f.type \notin FormlessTypes \cup {"Actor Value"}
                            /\ f.form = form /\ form # NoForm /\ FilterMask(f.type) = {kind}

\* _broadFullEvaluationRules
Broad(r) ==
    \/ r.targets = {}
    \/ \E f \in r.targets : \/ f.type \in {"Gold", "Leveled NPC"}
                            \/ f.type \notin NonFormTypes /\ f.form = NoForm
----------------------------------------------------------------------------
(* Changes: the kinds, the forms, the actor values, and, for the           *)
(* properties, the kinds that were reported for any form.                  *)

Unchanged == [mask |-> {}, forms |-> {}, values |-> {}, any |-> {}]
Everything == [mask |-> Kinds_X, forms |-> {}, values |-> {}, any |-> {}]
About(kinds, forms) ==
    [mask |-> kinds, forms |-> forms, values |-> {}, any |-> IF forms = {} THEN kinds ELSE {}]
Joined_X(d, e) == [mask |-> d.mask \cup e.mask, forms |-> d.forms \cup e.forms,
                   values |-> d.values \cup e.values, any |-> d.any \cup e.any]
IsEverything(d) == d.mask = Kinds_X

\* GetCandidateRuleIDs for a change that is not of everything.
FoundBy(d, r) ==
    \E kind \in d.mask :
        IF kind = "value" /\ d.values # {} THEN \E f \in FiltersOf(r) : f.type = "Actor Value"
        ELSE IF kind \in {"value", "follower"} \/ d.forms = {} THEN kind \in LawMask(r)
        ELSE kind \in Unresolved(r) \/ \E form \in d.forms : Exact(r, kind, form)

\* What the index asks of the filters of a quest, and of a category of equipment, that
\* some rule has: MatchesQuestFilter and MatchesEquippedCategory of its own.
FoundByQuest(s, f) == f.form # NoForm /\ MatchesQuest(s, f)
FoundByEquipment(s, category) == MatchesEquippedCategory(s, category)

\* GetCandidateRuleIDs of an actor, for everything: by what it is and has.
FoundOn(s, f) ==
    CASE f.type \in {"Height", "Weight", "Leveled NPC"} -> FALSE
      [] f.type \in {"Actor Value", "Relationship Rank"} -> TRUE
      [] f.type = "Gold"                           -> f.form # NoForm /\ s.gold > 0
      [] f.type \in ItemTypes                      -> f.form # NoForm /\ s.count[f.form] > 0
      [] f.type = "Faction Rank"                   -> f.form \in DOMAIN s.ranks /\ s.ranks[f.form] >= 0
      [] f.type = "Quest"                          -> FoundByQuest(s, f)
      [] f.type = "Equipped Category"              -> FoundByEquipment(s, f.mode)
      [] OTHER                                     -> EvaluateFilter(s, f)
FoundForAll(s, r) == Broad(r) \/ \E f \in FiltersOf(r) : FoundOn(s, f)
----------------------------------------------------------------------------
\* What the fingerprint of the base has (DetectBaseNPCChanges).
BaseOf(s) == <<s.gender, s.traits, s.base, s.keywords>>

NeverSeen == [base |-> {}, value |-> {}, follower |-> {}]

IndexInit ==
    /\ law \in Laws /\ subject \in Subjects
    /\ standing = [active |-> FALSE, documented |-> FALSE]
    /\ waiting = Everything /\ flipped = Kinds_X /\ baseFlips = {}
    /\ seen = NeverSeen /\ alterations = 0

Alteration == alterations < MaxAlterations /\ alterations' = alterations + 1

\* A change of the actor to s: an event reports it, or the next evaluation sees it,
\* or neither does.
Flips(s) == Meets(s, law) # Meets(subject, law)
Alters(s, kinds) ==
    /\ Alteration
    /\ subject' = s
    /\ flipped' = IF Flips(s) THEN flipped \cup kinds ELSE flipped
    /\ UNCHANGED <<law, standing, seen, baseFlips>>
Reported(s, d) == Alters(s, d.mask) /\ waiting' = Joined_X(waiting, d)
Detectable(s, kinds) == Alters(s, kinds) /\ UNCHANGED waiting
Silent(s) == Alters(s, {}) /\ UNCHANGED waiting

Toggled(S, x) == IF x \in S THEN S \ {x} ELSE S \cup {x}

\* PersistentItemTransferHandler; what is taken away was taken off before.
ItemMoves(i) ==
    \E n \in 0..1 : /\ n # subject.count[i] /\ i \notin subject.worn
                    /\ Reported([subject EXCEPT !.count[i] = n], About({"inventory"}, {i}))
MoveGold == Reported([subject EXCEPT !.gold = 1 - @], About({"inventory"}, {"gold"}))

\* EquipmentEventHandler
Equip(i) ==
    /\ subject.count[i] > 0
    /\ Reported([subject EXCEPT !.worn = Toggled(@, i)], About({"equipment", "inventory"}, {i}))

\* QuestEventHandler: the quest, and what its scripts may change in the same breath.
QuestTurns(q) ==
    \E n \in 0..2 \ {subject.stage[q]}, essential, likes \in BOOLEAN :
        LET s == [subject EXCEPT !.stage[q] = n,
                                 !.traits = IF essential THEN @ \cup {"essential"} ELSE @ \ {"essential"},
                                 !.affinity = IF likes THEN 1 ELSE 0]
        IN Reported(s, About({"quest", "relationship", "static"}, {q}))
\* An alias is filled without a stage.
AliasFilled(q) == Silent([subject EXCEPT !.aliases = Toggled(@, q)])

\* CombatEventHandler; hostility changes with it.
CombatChanges(hostile) ==
    Reported([subject EXCEPT !.combat = ~@, !.hostile = hostile], About({"combat"}, {}))
\* LocationChangeHandler, ActorCellChangeHandler
PlaceChanges(p) ==
    Reported([subject EXCEPT !.places = Toggled(@, p), !.inside = ~@], About({"environment"}, {}))
\* PlayerLevel, for an NPC: only if a rule is found for it.
LevelRises ==
    LET s == [subject EXCEPT !.level = @ + 1]
    IN /\ subject.level = 0
       /\ IF FoundForAll(s, law) THEN Reported(s, About({"level"}, {})) ELSE Silent(s)
\* A follower is hired or sent away in a dialogue: what was last seen is updated here.
DialogueEnds(follows) ==
    LET s == [subject EXCEPT !.follower = follows]
        tells == law.follower # BOOLEAN /\ follows \notin seen.follower
    IN /\ Alteration /\ subject' = s
       /\ flipped' = IF Flips(s) THEN flipped \cup {"follower"} ELSE flipped
       /\ waiting' = [Joined_X(waiting, About({"quest", "relationship"}, {}))
                        EXCEPT !.mask = IF tells THEN @ \cup {"follower"} ELSE @]
       /\ seen' = [seen EXCEPT !.follower = IF tells THEN {follows} ELSE @]
       /\ UNCHANGED <<law, standing, baseFlips>>

\* Another plugin changes the base and tells it (NPCVisualUpdate: the fingerprint is
\* forgotten), or it does not.
BaseIsTold(s) ==
    /\ Alteration /\ subject' = s
    /\ flipped' = IF Flips(s) THEN flipped \cup {"static", "tag"} ELSE flipped
    /\ waiting' = Joined_X(waiting, About({"static", "tag"}, {}))
    /\ seen' = [seen EXCEPT !.base = {}]
    /\ UNCHANGED <<law, standing, baseFlips>>
BaseChangesUntold(s) ==
    /\ Alteration /\ subject' = s
    /\ baseFlips' = IF Flips(s) THEN baseFlips \cup {"static", "tag"} ELSE baseFlips
    /\ UNCHANGED <<law, standing, waiting, seen, flipped>>
BaseChangesTo(s, told) == IF told THEN BaseIsTold(s) ELSE BaseChangesUntold(s)
BaseChanges(told) ==
    \/ BaseChangesTo([subject EXCEPT !.gender = ~@], told)
    \/ \E b \in {"face"} : BaseChangesTo([subject EXCEPT !.base = Toggled(@, b)], told)
    \/ \E k \in {"tag"} : BaseChangesTo([subject EXCEPT !.keywords = Toggled(@, k)], told)
    \/ told /\ BaseChangesTo([subject EXCEPT !.size = 1 - @], told)

ValueChanges == Detectable([subject EXCEPT !.value = 1 - @], {"value"})
FollowerChanges == Detectable([subject EXCEPT !.follower = ~@], {"follower"})

\* What a reward of another rule gives or takes (GetRewardDependencyMask).
RewardChanges ==
    \/ Reported([subject EXCEPT !.tags = Toggled(@, "tag")], About({"tag"}, {"tag"}))
    \/ \E n \in -1..1 \ {subject.ranks["guild"]} :
         Reported([subject EXCEPT !.ranks["guild"] = n], About({"tag", "rank", "follower"}, {"guild"}))
    \/ Reported([subject EXCEPT !.abilities = Toggled(@, "perk")], About({"ability"}, {"perk"}))
\* The game or a script does the same: no event tells EDF.
GameChanges ==
    \/ \E n \in -1..1 \ {subject.ranks["guild"]} : Silent([subject EXCEPT !.ranks["guild"] = n])
    \/ Silent([subject EXCEPT !.abilities = Toggled(@, "perk")])

\* The actor is unloaded and loaded again.
ActorReloads ==
    /\ Alteration /\ waiting' = Everything /\ flipped' = Kinds_X
    /\ seen' = [seen EXCEPT !.value = {}, !.follower = {}]
    /\ UNCHANGED <<law, subject, standing, baseFlips>>

\* Another actor of the same base is evaluated, and leaves its fingerprint under the
\* base: it may have traits of its own.  A change of the base that was not told may be
\* taken for seen when this actor is evaluated.
TwinEvaluates ==
    /\ \E traits \in {subject.traits, Toggled(subject.traits, "essential")} :
         seen' = [seen EXCEPT !.base = {BaseOf([subject EXCEPT !.traits = traits])}]
    /\ baseFlips' = {}
    /\ UNCHANGED <<law, subject, standing, waiting, flipped, alterations>>
----------------------------------------------------------------------------
\* DetectBaseNPCChanges, DetectActorValueChanges, DetectFollowerStateChanges
Watched(r) == \E f \in FiltersOf(r) : f.type = "Actor Value"
Detected ==
    Joined_X(IF BaseOf(subject) \in seen.base THEN Unchanged ELSE About({"static", "tag"}, {}),
    Joined_X(IF ~Watched(law) \/ subject.value \in seen.value THEN Unchanged
             ELSE [Unchanged EXCEPT !.mask = {"value"}, !.values = {"value"}],
             IF law.follower = BOOLEAN \/ subject.follower \in seen.follower THEN Unchanged
             ELSE [Unchanged EXCEPT !.mask = {"follower"}]))

Pending_X == Joined_X(waiting, Detected)

\* The rules that are found, and those once applied that depend on the change.
Examined ==
    \/ IF IsEverything(Pending_X) THEN FoundForAll(subject, law) ELSE FoundBy(Pending_X, law)
    \/ standing.documented /\ (IsEverything(Pending_X) \/ LawMask(law) \cap Pending_X.mask # {})

Evaluation ==
    /\ waiting # Unchanged
    /\ standing' = IF Examined
                  THEN [active |-> Meets(subject, law),
                        documented |-> standing.documented \/ Meets(subject, law)]
                  ELSE standing
    /\ seen' = [base |-> {BaseOf(subject)}, value |-> IF Watched(law) THEN {subject.value} ELSE {},
                follower |-> IF law.follower = BOOLEAN THEN {} ELSE {subject.follower}]
    /\ waiting' = Unchanged /\ flipped' = {} /\ baseFlips' = {}
    /\ UNCHANGED <<law, subject, alterations>>

IndexNext ==
    \/ \E i \in DOMAIN subject.count : ItemMoves(i) \/ Equip(i)
    \/ \E q \in DOMAIN subject.stage : QuestTurns(q) \/ AliasFilled(q)
    \/ \E b \in BOOLEAN : CombatChanges(b) \/ DialogueEnds(b) \/ BaseChanges(b)
    \/ PlaceChanges("inn") \/ MoveGold \/ LevelRises \/ ValueChanges \/ FollowerChanges
    \/ RewardChanges \/ GameChanges \/ ActorReloads \/ TwinEvaluates \/ Evaluation

IndexSpec == IndexInit /\ [][IndexNext]_indexVars
----------------------------------------------------------------------------
\* Two things hide a rule from an evaluation.  One of everything does not look for
\* heights, weights and items that the actor does not have; and a change of any form
\* that was merged with a change of some forms looks like one of these forms.
Hidden ==
    IF IsEverything(Pending_X)
    THEN /\ law.targets # {}
         /\ \A f \in law.targets : EvaluateFilter(subject, f) =>
              \/ f.type \in {"Height", "Weight"}
              \/ f.type = "Inventory Count" /\ subject.count[f.form] = 0
    ELSE Pending_X.forms # {} /\ (flipped \cup baseFlips) \subseteq Pending_X.any

(* A change that makes a rule match the actor, or no longer match, and     *)
(* that an event reports or a comparison sees, has its effect in the next  *)
(* evaluation: whatever the kinds of the filters, the event names a kind   *)
(* and a form under which the index has the rule, and an evaluation of     *)
(* everything finds it by what the actor is and has (GetCandidateRuleIDs). *)
(* A change of the base that nobody tells is seen by the first evaluation  *)
(* of any actor of the base, and by no other (DetectBaseNPCChanges): it is *)
(* spoken of here only while no other actor of the base came first.        *)
ReportedIsFound ==
    [][waiting' = Unchanged /\ waiting # Unchanged /\ flipped \cup baseFlips # {} /\ ~Hidden
         => standing'.active = Meets(subject, law)]_indexVars
=============================================================================
