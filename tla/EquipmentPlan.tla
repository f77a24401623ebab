--------------------------- MODULE EquipmentPlan ---------------------------
(***************************************************************************)
(* What an NPC wears.  The rewards that rules gave it are items with a     *)
(* context: combat, sleep or neither.  After a change that allows it, EDF  *)
(* plans the equipment anew: the best armor that fits, rewards before the  *)
(* actor's own, and the other rewards of the context.  Putting it on       *)
(* reports changes, which are evaluated in the next pass of the cascade.   *)
(* While the inventory is open in a menu the plan is not carried out and   *)
(* changes are held back.  Items are numbered in the order of their        *)
(* FormIDs; a set of marks stands for a RuleEvaluationDelta.               *)
(***************************************************************************)
EXTENDS FiniteSetsExt, SequencesExt, Integers

CONSTANTS
    NItems,
    Gear,         \* per item: [kind, slots, rating, addons]; an addon is [races, slots]
    Race,         \* of the NPC, with its sex
    RaceEquips,   \* validEquipTypes of the race: kinds of weapons, "shield", "torch"
    NGifts,
    Gifts,        \* per reward: [items, outfit, contexts, lasting, watches]
    OwnItems,     \* the items of the NPC that no rule gave; it wears them
    MaxWearPasses, \* kMaxCascadePasses
    MaxWearChanges \* bound: changes from outside

ItemIDs == 1..NItems
GiftIDs == 1..NGifts
Contexts == {"combat", "sleep", "normal"}

ASSUME EquipmentAssumption ==
    /\ NItems \in Nat /\ NGifts \in Nat /\ MaxWearPasses \in Nat \ {0} /\ MaxWearChanges \in Nat
    /\ OwnItems \subseteq ItemIDs /\ \A i, j \in OwnItems : i # j => Gear[i].slots \cap Gear[j].slots = {}
    /\ \A i \in ItemIDs : Gear[i].rating \in Nat
    /\ \A g \in GiftIDs : /\ Gifts[g].items \subseteq ItemIDs /\ Gifts[g].outfit \in BOOLEAN
                          /\ Gifts[g].contexts \subseteq Contexts /\ Gifts[g].lasting \in BOOLEAN
                          /\ Gifts[g].watches \in {"facts", "gear"}

VARIABLES
    have,       \* the inventory: how many of each item
    worn,       \* the items worn
    active,     \* the rewards whose rule is active
    given,      \* these, and the lasting ones of ended rules
    matching,   \* the rewards whose rule matches the actor now
    fighting, asleep,
    browsing,   \* is the actor's inventory open in a menu?
    wearQueue,  \* the merged change that waits for the pump
    wearHeld,   \* the merged change that waits for the menu to close
    evaluation, \* the cascade in progress: [on, pending, passes, seen]
    postponed,  \* history: the last plan with changes was left for later
    wearChanges \* counter of the bound

equipmentVars == <<have, worn, active, given, matching, fighting, asleep, browsing, wearQueue, wearHeld,
                   evaluation, postponed, wearChanges>>

AtRest == [on |-> FALSE, pending |-> {}, passes |-> 0, seen |-> {}]

EquipmentInit ==
    /\ have = [i \in ItemIDs |-> IF i \in OwnItems THEN 1 ELSE 0]
    /\ worn = OwnItems /\ active = {} /\ given = {} /\ matching = {}
    /\ fighting = FALSE /\ asleep = FALSE /\ browsing = FALSE
    /\ wearQueue = {} /\ wearHeld = {} /\ evaluation = AtRest
    /\ postponed = FALSE /\ wearChanges = 0
----------------------------------------------------------------------------
(* The plan, for an inventory, what is worn of it and the given rewards.   *)

IsArmor(i) == Gear[i].kind = "armor" \* other than a shield

\* HasCompatibleArmorModel, by an addon of the armor or of one of its templates.
HasModel(i) ==
    \E a \in Gear[i].addons : Race \in a.races /\ a.slots \cap Gear[i].slots # {}
CanEquip(i) ==
    /\ Gear[i].kind \in {"armor", "shield"} => HasModel(i)
    /\ Gear[i].kind \in {"armor", "other"} \cup RaceEquips

Held(inventory) == {i \in ItemIDs : inventory[i] > 0} \* CaptureEquipmentSnapshot

Context == IF fighting THEN "combat" ELSE IF asleep THEN "sleep" ELSE "normal"
Fitting(g) == Context \in Gifts[g].contexts

PriorityOf(gifts, i) ==
    Max({0} \cup {IF Gifts[g].outfit THEN 1 ELSE 2 :
                  g \in {h \in gifts : Fitting(h) /\ i \in Gifts[h].items}})
Desired(gifts) == UNION {Gifts[g].items : g \in {h \in gifts : Fitting(h)}}
\* The form without the exclusion of the desired ones, for a check.
OutOfSomeContext(gifts) == UNION {Gifts[g].items : g \in {h \in gifts : ~Fitting(h)}}
\* Given for other contexts only; an item that does not fit is never desired.
OutOfContext(gifts) ==
    UNION {Gifts[g].items : g \in {h \in gifts : ~Fitting(h)}}
      \ {i \in Desired(gifts) : IsArmor(i) \/ CanEquip(i)}

ArmorBefore(gifts, i, j) ==
    \/ PriorityOf(gifts, i) > PriorityOf(gifts, j)
    \/ /\ PriorityOf(gifts, i) = PriorityOf(gifts, j)
       /\ \/ Gear[i].rating > Gear[j].rating
          \/ Gear[i].rating = Gear[j].rating /\ i < j
Wearable(inventory, gifts) ==
    {i \in Held(inventory) : IsArmor(i) /\ HasModel(i)} \ OutOfContext(gifts)

Overlap(i, j) == Gear[i].slots \cap Gear[j].slots # {}
\* The form that compares the rating first, for a check.
RankedByRating(inventory, gifts) ==
    SetToSortSeq(Wearable(inventory, gifts),
                 LAMBDA i, j : \/ Gear[i].rating > Gear[j].rating
                               \/ /\ Gear[i].rating = Gear[j].rating
                                  /\ ArmorBefore(gifts, i, j))
\* The best first; what overlaps with a better one is passed over.
Ranked(inventory, gifts) ==
    SetToSortSeq(Wearable(inventory, gifts), LAMBDA i, j : ArmorBefore(gifts, i, j))
Selected(inventory, gifts) ==
    FoldLeft(LAMBDA chosen, i : IF \E j \in chosen : Overlap(i, j) THEN chosen ELSE chosen \cup {i},
             {}, Ranked(inventory, gifts))

TakenOff(inventory, wearing, gifts) ==
    LET chosen == Selected(inventory, gifts)
    IN {i \in wearing : IF IsArmor(i)
                        THEN /\ i \notin chosen
                             /\ \/ i \in OutOfContext(gifts)
                                \/ \E j \in chosen : Overlap(i, j)
                        ELSE i \in OutOfContext(gifts)}
ToPutOn(inventory, wearing, gifts) ==
    LET chosen == Selected(inventory, gifts)
        others == {i \in Desired(gifts) \cap Held(inventory) : ~IsArmor(i) /\ CanEquip(i)}
    IN SelectSeq(Ranked(inventory, gifts), LAMBDA i : i \in chosen \ wearing)
       \o SetToSortSeq(others \ wearing, LAMBDA i, j :
                         \/ PriorityOf(gifts, i) < PriorityOf(gifts, j)
                         \/ PriorityOf(gifts, i) = PriorityOf(gifts, j) /\ i < j)
HasChanges(inventory, wearing, gifts) ==
    TakenOff(inventory, wearing, gifts) # {} \/ ToPutOn(inventory, wearing, gifts) # <<>>

\* The game: an item that is put on displaces what is worn in its slots.
Wearing(wearing, i) == {j \in wearing : ~Overlap(i, j)} \cup {i}
Carried(inventory, wearing, gifts) ==
    FoldLeft(Wearing, wearing \ TakenOff(inventory, wearing, gifts), ToPutOn(inventory, wearing, gifts))
----------------------------------------------------------------------------
(* Changes: one that arrives while the menu is open is held back.          *)

Note(marks) ==
    IF browsing THEN wearHeld' = wearHeld \cup marks /\ UNCHANGED wearQueue
                ELSE wearQueue' = wearQueue \cup marks /\ UNCHANGED wearHeld
Outside == wearChanges < MaxWearChanges /\ wearChanges' = wearChanges + 1 /\ ~evaluation.on

\* A quest, a location, an item...: the rule of a reward matches or no longer does.
RuleTurns(g) ==
    /\ Outside
    /\ matching' = IF g \in matching THEN matching \ {g} ELSE matching \cup {g}
    /\ Note({Gifts[g].watches})
    /\ UNCHANGED <<have, worn, active, given, fighting, asleep, browsing, evaluation, postponed>>

CombatTurns ==
    /\ Outside /\ fighting' = ~fighting /\ Note({"context"})
    /\ UNCHANGED <<have, worn, active, given, matching, asleep, browsing, evaluation, postponed>>
SleepTurns ==
    /\ Outside /\ asleep' = ~asleep /\ Note({"context"})
    /\ UNCHANGED <<have, worn, active, given, matching, fighting, browsing, evaluation, postponed>>

\* The game or the player dresses the actor, or takes an item of its own from it (for
\* rewards see RuleActivation): EDF only notes it.
Dress(i) ==
    /\ Outside /\ i \in Held(have) /\ CanEquip(i)
    /\ worn' = IF i \in worn THEN worn \ {i} ELSE Wearing(worn, i)
    /\ Note({"gear"})
    /\ UNCHANGED <<have, active, given, matching, fighting, asleep, browsing, evaluation, postponed>>
TakeItem(i) ==
    /\ Outside /\ have[i] > Cardinality({g \in given : i \in Gifts[g].items})
    /\ have' = [have EXCEPT ![i] = @ - 1]
    /\ worn' = IF have[i] = 1 THEN worn \ {i} ELSE worn
    /\ Note({"gear"})
    /\ UNCHANGED <<active, given, matching, fighting, asleep, browsing, evaluation, postponed>>

\* What waits for the pump is moved to what the menu holds back.
OpenInventory ==
    /\ Outside /\ ~browsing /\ browsing' = TRUE
    /\ wearHeld' = wearHeld \cup wearQueue /\ wearQueue' = {}
    /\ UNCHANGED <<have, worn, active, given, matching, fighting, asleep, evaluation, postponed>>
\* The task that runs when the menu has been closed for a while.
ReleaseHeld ==
    /\ browsing /\ ~evaluation.on /\ browsing' = FALSE
    /\ wearQueue' = wearQueue \cup wearHeld /\ wearHeld' = {}
    /\ UNCHANGED <<have, worn, active, given, matching, fighting, asleep, evaluation, postponed, wearChanges>>
----------------------------------------------------------------------------
(* The cascade: one step is one pass.                                      *)

Begun_E(marks) == [on |-> TRUE, pending |-> marks, passes |-> 0,
                   seen |-> {<<have, worn, active, fighting>>}]
EvaluateQueue ==
    /\ ~evaluation.on /\ wearQueue # {}
    /\ evaluation' = Begun_E(wearQueue) /\ wearQueue' = {}
    /\ UNCHANGED <<have, worn, active, given, matching, fighting, asleep, browsing, wearHeld, postponed,
                   wearChanges>>
\* A call of the API, or the editor: at once, whatever waits.
EvaluateNow ==
    /\ Outside
    /\ evaluation' = Begun_E({"full", "allow", "context"})
    /\ UNCHANGED <<have, worn, active, given, matching, fighting, asleep, browsing, wearQueue, wearHeld,
                   postponed>>

Concerned(marks) == {g \in GiftIDs : "full" \in marks \/ Gifts[g].watches \in marks}
Ending_E(marks) == (active \ matching) \cap Concerned(marks)
Starting(marks) == (matching \ active) \cap Concerned(marks)
Taken(marks) == {g \in Ending_E(marks) : ~Gifts[g].lasting}
OnlyObserved(marks) == marks \subseteq {"gear"}
NewlyGiven(marks) == Starting(marks) \ given
\* What the changed rules take from the inventory and put into it.
Withdrawn(marks) ==
    [i \in ItemIDs |-> Max({have[i] - Cardinality({g \in Taken(marks) : i \in Gifts[g].items}), 0})]
Stock(marks) ==
    [i \in ItemIDs |-> Withdrawn(marks)[i] + Cardinality({g \in NewlyGiven(marks) : i \in Gifts[g].items})]

\* ShouldReconcileEquipmentForDelta, or a rule that ended or put something on.
Reconciles(marks, gifts) ==
    \/ Ending_E(marks) # {} /\ ~OnlyObserved(marks)
    \/ \E g \in Starting(marks) : Fitting(g) /\ (g \in given => Gifts[g].outfit)
    \/ gifts # {} /\ marks \cap {"full", "allow", "context"} # {}

\* CollectActiveEquipmentReconciliationEvent, and the change of what was given.
Reports(marks, carries) ==
    {m \in {"gear"} : carries \/ Taken(marks) \cup NewlyGiven(marks) # {}} \cup {m \in {"allow"} : carries}

Pass_E ==
    LET marks == evaluation.pending
        running == (active \ Ending_E(marks)) \cup Starting(marks)
        gifts == (given \ Taken(marks)) \cup Starting(marks)
        stock == Stock(marks)
        left == {i \in worn : stock[i] > 0}
        plans == Reconciles(marks, gifts) /\ HasChanges(stock, left, gifts)
        carries == plans /\ ~browsing
        now == IF carries THEN Carried(stock, left, gifts) ELSE left
        reports == Reports(marks, carries)
        produced == IF browsing THEN {} ELSE reports
        state == <<stock, now, running, fighting>>
        ends == \/ produced = {} \/ state \in evaluation.seen
                \/ evaluation.passes + 1 = MaxWearPasses
    IN /\ evaluation.on
       /\ have' = stock /\ worn' = now /\ active' = running /\ given' = gifts
       /\ wearHeld' = IF browsing THEN wearHeld \cup reports ELSE wearHeld
       /\ evaluation' = IF ends THEN AtRest
                        ELSE [evaluation EXCEPT !.pending = produced, !.passes = @ + 1,
                                                !.seen = @ \cup {state}]
       /\ postponed' = IF Reconciles(marks, gifts) THEN plans /\ browsing ELSE postponed
       /\ UNCHANGED <<matching, fighting, asleep, browsing, wearQueue, wearChanges>>

EquipmentNext ==
    \/ \E g \in GiftIDs : RuleTurns(g)
    \/ \E i \in ItemIDs : Dress(i) \/ TakeItem(i)
    \/ CombatTurns \/ SleepTurns \/ OpenInventory \/ ReleaseHeld
    \/ EvaluateQueue \/ EvaluateNow \/ Pass_E

EquipmentSpec == EquipmentInit /\ [][EquipmentNext]_equipmentVars
----------------------------------------------------------------------------
\* The last pass of an evaluation that had to look at the equipment (the marks
\* of its first pass or of this one say so) and was free to change it.
Reconciled_E ==
    /\ evaluation.on /\ ~evaluation'.on /\ ~browsing
    /\ Reconciles(evaluation.pending, given')

(* A cascade that reconciles comes to rest: its last pass finds nothing    *)
(* left to put on or to take off, so that it is never the repeated state   *)
(* or the limit of passes that ends it                                     *)
(* (CollectActiveEquipmentReconciliationEvent feeds the plan's own events  *)
(* back into it).                                                          *)
PlanComesToRest == [][Reconciled_E => ~HasChanges(have', worn', given')]_equipmentVars

(* When the plan has been carried out, the NPC wears nothing that it got   *)
(* for another context only, wears what it got for this one, and for each  *)
(* piece of armor that fits and is left in the bag it wears one that is    *)
(* better and in its way: a reward before a piece of an outfit before its  *)
(* own, then the better rating.                                            *)
BestIsWorn ==
    [][Reconciled_E =>
         /\ worn' \cap UNION {Gifts[g].items : g \in given'} \subseteq Desired(given')
         /\ \A i \in Desired(given') : i \in Held(have') /\ CanEquip(i) /\ ~IsArmor(i) => i \in worn'
         /\ \A i \in Wearable(have', given') \ worn' :
              \E j \in worn' : Overlap(i, j) /\ ArmorBefore(given', j, i)]_equipmentVars

(* A plan that is not carried out because the inventory is open is carried *)
(* out later: until then something waits that will look at the equipment   *)
(* again (ApplyEquipmentPlan's message "Physical reconciliation deferred").*)
DeferredIsDone ==
    postponed => browsing \/ evaluation.on \/ wearQueue # {}
=============================================================================
