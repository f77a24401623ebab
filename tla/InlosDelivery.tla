--------------------------- MODULE InlosDelivery ---------------------------
(***************************************************************************)
(* What INLOS does with the loot of one victim (src/INLOS/Runtime.cpp,     *)
(* Evaluate): when it is defeated, and when it dies, the rules that match  *)
(* give their rewards to the one who did it or lay them into the body; at  *)
(* its death, what it carried is first moved to the killer, or discarded,  *)
(* as the settings say.  That a rule pays once per life is the subject of  *)
(* InlosLifecycle; here each of the two events comes at most once.         *)
(*                                                                         *)
(* Filters, levels and the other conditions of a rule are one Boolean that *)
(* may be either; counts and amounts are 1; a skill, a resource and a      *)
(* point of the skill menu are all "progress".                             *)
(***************************************************************************)
EXTENDS RewardSelection, FiniteSets, Folds

CONSTANTS
    People,      \* the actors who may do it: the player, followers, summons, others
    PlayerRef,   \* the player
    Teammates,   \* the active followers among them (a summon is none)
    Commander,   \* who commands a summoned actor: itself, if no one alive does
    Victim,      \* the subject
    Nobody,      \* the mark of an event without an instigator
    Carried,     \* what the victim carries
    QuestItems,  \* those that are quest objects
    LootRules,   \* the rules: [trigger, toBody, playerKiller, exclusive, groups]
    AllSettings, \* the settings that behaviours choose from
    Steps        \* the steps of a roll

ASSUME DeliveryAssumption ==
    /\ IsFiniteSet(People) /\ PlayerRef \in People
    /\ Victim \notin People /\ Nobody \notin People \cup {Victim}
    /\ "discarded" \notin People \cup {Victim, Nobody}
    /\ Teammates \subseteq People \ {PlayerRef}
    /\ DOMAIN Commander \subseteq People \ (Teammates \cup {PlayerRef})
    /\ \A p \in DOMAIN Commander : Commander[p] \in People
    /\ QuestItems \subseteq Carried

ASSUME SettingsAssumption ==
    \A s \in AllSettings :
        /\ s.recipient \in {"playerOnly", "party", "anyActor"}
        /\ s.vanilla \in {"nothing", "autoLoot", "discard"}

VARIABLES
    settings,  \* Settings
    phase_V,   \* "alive", or the event in progress, "down" after the defeat, "dead"
    instigator,\* of the event in progress
    ruleAt,    \* the rule that is next
    place,     \* per item the victim carried: who has it, or "discarded"
    paid,      \* the rules that were completed for the victim
    gifts,     \* history: [to, trigger, rule] of every reward given as an item
    lost,      \* history: the gifts that the loot of the death discarded or moved
    known,     \* who knows the spell that the rules teach
    progress   \* history: who was given progress, and for which instigator

deliveryVars == <<settings, phase_V, instigator, ruleAt, place, paid, gifts, lost, known,
                  progress>>

Summoned == DOMAIN Commander
Commanded == {p \in Summoned : Commander[p] # p}
MaxDepth == 8
----------------------------------------------------------------------------
\* Mutant: the summon itself is taken for the one who did it.
TheOneItself(p) == p

\* ResolveSummonOwner: at most eight commanders up; a summon that no one commands is
\* returned itself.
ResolveSummonOwner(p) ==
    LET up[n \in 0..MaxDepth] ==
            IF n = 0 THEN p
            ELSE LET q == up[n - 1] IN IF q \in Summoned THEN Commander[q] ELSE q
    IN up[MaxDepth]

\* ResolveConfiguredLootReceiver.
LootReceiver(p) ==
    IF settings.recipient = "playerOnly" THEN PlayerRef
    ELSE IF p = Nobody THEN Nobody
    ELSE LET r == ResolveSummonOwner(p)
         IN IF settings.recipient = "anyActor" \/ r \in Teammates \cup {PlayerRef}
            THEN r ELSE Nobody

\* ResolveVanillaLootReceiver.
VanillaReceiver(p) ==
    IF p = Nobody THEN Nobody
    ELSE LET r == ResolveSummonOwner(p)
         IN IF settings.followerToPlayer /\ r \in Teammates THEN PlayerRef ELSE r

OnBody == {i \in Carried : place[i] = Victim}
GiftsOnBody == {g \in gifts \ lost : g.to = Victim}

\* Mutant: a body that nobody loots is emptied all the same.
KeptUnlessNothing == {i \in OnBody : settings.vanilla = "nothing"}

\* ProcessVanillaLoot: the stacks that stay on the body.
Kept ==
    IF \/ settings.vanilla = "nothing"
       \/ settings.vanilla = "autoLoot" /\ VanillaReceiver(instigator) = Nobody
    THEN OnBody
    ELSE {i \in OnBody : /\ settings.vanilla = "discard"
                         /\ settings.keepQuest /\ i \in QuestItems}

Destination ==
    IF settings.vanilla = "autoLoot" THEN VanillaReceiver(instigator) ELSE "discarded"

LootBody ==
    /\ place' = [i \in Carried |-> IF i \in OnBody \ Kept THEN Destination ELSE place[i]]
    /\ lost' = IF settings.vanilla = "discard"
                  \/ (settings.vanilla = "autoLoot" /\ VanillaReceiver(instigator) # Nobody)
               THEN lost \cup GiftsOnBody ELSE lost
----------------------------------------------------------------------------
\* MatchesRule, of what depends on the one who did it.
MayApply(rule, trigger) ==
    /\ rule.trigger \in {trigger, "both"}
    /\ rule.playerKiller => instigator # Nobody /\ ResolveSummonOwner(instigator) = PlayerRef
    /\ ~rule.toBody => LootReceiver(instigator) # Nobody

\* ApplyReward, of rewards that are not things: they need a receiver that the settings
\* allow, and experience and the skills of the game itself are the player's.
Progresses(kind) ==
    \/ kind = "skillMenu" /\ LootReceiver(instigator) # Nobody
    \/ kind = "experience" /\ LootReceiver(instigator) = PlayerRef

\* ApplyReward, of the others: an item or a book is given to the receiver or laid into
\* the body; a spell or a perk is taught to one that is alive and does not know it,
\* else its book is given if the settings say so or it is loot.
Gives(kind, toBody) ==
    LET to == IF toBody THEN Victim ELSE LootReceiver(instigator)
        tangible == toBody /\ phase_V = "death"
    IN [teaches |-> kind = "spell" /\ ~tangible /\ to \notin known,
        item |-> \/ kind = "item"
                 \/ kind = "spell" /\ (tangible \/ (to \in known /\ settings.tomes)),
        to |-> to]

ApplyRewards(rule, chosen) ==
    LET kinds == {rule.groups[c[1]].rewards[c[2]].kind : c \in chosen}
        results == {Gives(k, rule.toBody) : k \in kinds}
    IN /\ gifts' = gifts \cup {[to |-> r.to, trigger |-> phase_V, rule |-> ruleAt] :
                                r \in {x \in results : x.item}}
       /\ known' = known \cup {r.to : r \in {x \in results : x.teaches}}
       /\ progress' = IF \E k \in kinds : Progresses(k)
                      THEN progress \cup {[to |-> LootReceiver(instigator), by |-> instigator]}
                      ELSE progress

Rolls(rule) ==
    [groups : [DOMAIN rule.groups -> Steps],
     rewards : [DOMAIN rule.groups -> [1..2 -> Steps]]]

\* What a rule's rolls may choose.
Selections ==
    [i \in DOMAIN LootRules |->
        {RollRuleRewards(LootRules[i], rolls) : rolls \in Rolls(LootRules[i])}]
----------------------------------------------------------------------------
DeliveryInit ==
    /\ settings \in AllSettings
    /\ phase_V = "alive"
    /\ instigator = Nobody
    /\ ruleAt = 0
    /\ place = [i \in Carried |-> Victim]
    /\ paid = {} /\ gifts = {} /\ lost = {}
    /\ known \in {{}, {PlayerRef}}
    /\ progress = {}

\* Evaluate, up to the loop over the rules.
Defeated(p) ==
    /\ phase_V = "alive"
    /\ phase_V' = "defeat"
    /\ instigator' = p
    /\ ruleAt' = 1
    /\ UNCHANGED <<settings, place, paid, gifts, lost, known, progress>>

Killed(p) ==
    /\ phase_V \in {"alive", "down"}
    /\ phase_V' = "looting"
    /\ instigator' = p
    /\ UNCHANGED <<settings, ruleAt, place, paid, gifts, lost, known, progress>>

ProcessVanillaLoot ==
    /\ phase_V = "looting"
    /\ LootBody
    /\ phase_V' = "death"
    /\ ruleAt' = 1
    /\ UNCHANGED <<settings, instigator, paid, gifts, known, progress>>

\* The rules one after the other, as long as one is left.
InEvent == phase_V \in {"defeat", "death"} /\ ruleAt \in DOMAIN LootRules

NextRule ==
    /\ ruleAt' = ruleAt + 1
    /\ phase_V' = IF ruleAt < Len(LootRules) THEN phase_V
                  ELSE IF phase_V = "defeat" THEN "down" ELSE "dead"

\* A rule that does not match, or that paid at the defeat.
PassOver ==
    /\ InEvent
    /\ NextRule
    /\ UNCHANGED <<settings, instigator, place, paid, gifts, lost, known, progress>>

PayRule ==
    /\ InEvent
    /\ LET rule == LootRules[ruleAt]
       IN /\ MayApply(rule, phase_V)
          /\ ruleAt \notin paid
          /\ \E chosen \in Selections[ruleAt] : ApplyRewards(rule, chosen)
    /\ paid' = paid \cup {ruleAt}
    /\ NextRule
    /\ UNCHANGED <<settings, instigator, place, lost>>

DeliveryNext ==
    \/ \E p \in People \cup {Nobody} : Defeated(p) \/ Killed(p)
    \/ ProcessVanillaLoot
    \/ PassOver
    \/ PayRule

DeliverySpec == DeliveryInit /\ [][DeliveryNext]_deliveryVars
----------------------------------------------------------------------------
\* The actors at the end of the chain of commanders of p.
Owners(p) ==
    {q \in People \ Commanded :
        \E n \in 1..Cardinality(People) :
            \E chain \in [1..n -> Commanded \cup {q}] :
                /\ chain[1] = p /\ chain[n] = q
                /\ \A i \in 1..(n - 1) :
                    chain[i] \in Commanded /\ Commander[chain[i]] = chain[i + 1]}

\* Nobody but those the settings allow has part in the loot: what a summon does is
\* credited to the one at the end of its chain of commanders; with "player only" all
\* progress is the player's, otherwise it is the owner's, who has to be the player or
\* a follower unless anyone may; no gift is ever for a summon that someone commands, and
\* one that no one commands has gifts only where anyone may
\* (ResolveSummonOwner, ResolveConfiguredLootReceiver).
ReceiversAreAllowed ==
    /\ \A x \in progress :
        \/ settings.recipient = "playerOnly" /\ x.to = PlayerRef
        \/ /\ settings.recipient = "party"
           /\ x.to \in Owners(x.by) \cap (Teammates \cup {PlayerRef})
        \/ settings.recipient = "anyActor" /\ x.to \in Owners(x.by)
    /\ \A p \in {g.to : g \in gifts} \cup known :
        /\ p \notin Commanded \cup {Nobody}
        /\ p \in Summoned => settings.recipient = "anyActor"

\* What a rule lays into the body when the victim dies stays there, and a quest object
\* is not discarded when the settings keep it; nothing leaves a body that is to be
\* left alone, nor to a summon that someone commands (ProcessVanillaLoot comes before
\* the rules).  What was laid into it at the defeat is loot of the death like anything
\* else.
LootIsWhereItBelongs ==
    /\ \A g \in lost : g.trigger = "defeat"
    /\ \A i \in Carried : place[i] = "discarded" =>
        settings.vanilla = "discard" /\ ~(settings.keepQuest /\ i \in QuestItems)
    /\ \A i \in Carried : place[i] \in People =>
        settings.vanilla = "autoLoot" /\ place[i] \notin Commanded
=============================================================================
