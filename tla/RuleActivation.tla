--------------------------- MODULE RuleActivation ---------------------------
(***************************************************************************)
(* The activation of rules for one actor and the ledger of the items they  *)
(* give it (src/SaveState.cpp): what a pass over the rules does with every *)
(* rule that starts, goes on or ends, what the ledger records of the items *)
(* that were given, taken and brought back, and what is removed or         *)
(* restored because of it.                                                 *)
(*                                                                         *)
(* A rule has one group of physical rewards, each of one item.  Filters,   *)
(* levels, cells and unstable cycles are abstracted: at each of the two     *)
(* points of a pass that ask whether a rule matches the actor the answer   *)
(* may be either, and the roll may be any set of the rule's rewards.  An   *)
(* evaluation runs on the main thread; between the rules of a pass nothing *)
(* else happens to the actor's items.                                      *)
(***************************************************************************)
EXTENDS Integers, Sequences, FiniteSets, SequencesExt, FiniteSetsExt

CONSTANTS
    NRules,     \* the number of rules, in the order of their IDs
    NRewards,   \* the number of rewards, in the order of their groups
    Reward,     \* per reward [rule, item, amount, persistent]
    Native,     \* per item, the copies the actor has before any rule applies
    Reported,   \* does the engine report the items that a rule adds or removes?
    MaxMoves,   \* bound: copies the player takes or brings back
    MaxLosses,  \* bound: copies that vanish without an event
    MaxEdits    \* bound: new versions, deletions and resets

Rules == 1..NRules
Rewards == 1..NRewards
Items == DOMAIN Native

ASSUME RewardAssumption ==
    /\ NRules \in Nat /\ NRewards \in Nat
    /\ Native \in [Items -> Nat]
    /\ Reward \in [Rewards -> [rule : Rules, item : Items, amount : Nat \ {0},
                               persistent : BOOLEAN]]

ASSUME ReportAssumption == Reported # {} /\ Reported \subseteq BOOLEAN

ASSUME ActivationBoundAssumption ==
    MaxMoves \in Nat /\ MaxLosses \in Nat /\ MaxEdits \in Nat

VARIABLES
    defined,  \* the rules that were not deleted
    version,  \* Rule::version
    state,    \* npcRuleVersions of the actor
    ledger,   \* persistentItems of the actor
    stock,    \* the actor's inventory
    outside,  \* copies that left the actor for another container
    pass,     \* the pass in progress: the rules to invalidate and to process, and the
              \* rule that its latest step applied, or 0
    renewed,  \* history: how often a rule was given a fresh start on purpose
    moves, losses, edits \* counters of the bounds

counters == <<moves, losses, edits>>
ruleVars == <<defined, version>>
vars == <<ruleVars, state, ledger, stock, outside, pass, renewed, counters>>
----------------------------------------------------------------------------
(* The ledger.                                                             *)

\* BuildManagedItemKey: rewards of one item in one group share an entry.
Key(w) == [item |-> Reward[w].item, temporary |-> ~Reward[w].persistent,
           rule |-> Reward[w].rule]
Keys == {Key(w) : w \in Rewards}

\* The order of the keys in the map: "P" comes before "T".
Before(k, l) ==
    \/ ~k.temporary /\ l.temporary
    \/ k.temporary = l.temporary /\ k.rule < l.rule

AtLeast0(n) == IF n > 0 THEN n ELSE 0
Protected(entry) == AtLeast0(entry.expected - entry.missing)

\* What an actor holds, and what the ledger says of it.
Holding == [ledger |-> ledger, stock |-> stock]

\* What of n copies falls to the entry k when the entries of an item are served
\* in their order, each up to its claim.
Share(n, claims, k) ==
    LET earlier == {l \in DOMAIN claims : Before(l, k)}
    IN Min({claims[k], AtLeast0(n - MapThenSumSet(LAMBDA l : claims[l], earlier))})

EntriesOf(h, i) == {k \in DOMAIN h.ledger : k.item = i}

\* HandleContainerChanged for an item that enters the actor: what is missing is
\* paid back; for one that leaves: what the entries protect is charged to them.
Paid(h, i, n) ==
    LET claims == [k \in EntriesOf(h, i) |-> h.ledger[k].missing]
    IN [h EXCEPT !.ledger = [k \in DOMAIN h.ledger |->
            IF k.item = i THEN [h.ledger[k] EXCEPT !.missing = @ - Share(n, claims, k)]
            ELSE h.ledger[k]]]

Charged(h, i, n) ==
    LET claims == [k \in EntriesOf(h, i) |-> Protected(h.ledger[k])]
    IN [h EXCEPT !.ledger = [k \in DOMAIN h.ledger |->
            IF k.item = i THEN [h.ledger[k] EXCEPT !.missing = @ + Share(n, claims, k)]
            ELSE h.ledger[k]]]

\* AddObjectToContainer and RemoveItem, with the event the engine sends or not.
PutOn(h, i, n, reported) ==
    LET added == [h EXCEPT !.stock[i] = @ + n]
    IN IF reported THEN Paid(added, i, n) ELSE added

TakeOff(h, i, n, reported) ==
    LET removed == [h EXCEPT !.stock[i] = @ - n]
    IN IF reported THEN Charged(removed, i, n) ELSE removed

\* The ledger of h with an entry under the key k.
Put(h, k, expected, missing) ==
    [h EXCEPT !.ledger =
        [l \in DOMAIN h.ledger \cup {k} |->
            IF l = k THEN [expected |-> expected, missing |-> missing] ELSE h.ledger[l]]]

\* Mutant: a grant records its own amount only.
GrantedAnew(h, w, reported) ==
    LET given == PutOn(h, Reward[w].item, Reward[w].amount, reported)
    IN Put(given, Key(w), Reward[w].amount,
           AtLeast0(Reward[w].amount - given.stock[Reward[w].item]))

\* ApplyRewardPhysicalTracked: the item is added, then recorded
\* (TrackPersistentItemGrant).
Granted(h, w, reported) ==
    LET i == Reward[w].item
        k == Key(w)
        given == PutOn(h, i, Reward[w].amount, reported)
        expected == Reward[w].amount
                    + IF k \in DOMAIN given.ledger THEN given.ledger[k].expected ELSE 0
    IN Put(given, k, expected, AtLeast0(expected - given.stock[i]))

\* EnsurePersistentItemTracked of a persistent reward.
Tracked(h, w) ==
    IF Key(w) \in DOMAIN h.ledger \/ h.stock[Reward[w].item] = 0 THEN h
    ELSE Put(h, Key(w), Reward[w].amount,
             AtLeast0(Reward[w].amount - h.stock[Reward[w].item]))

\* Mutant: a copy that is left suffices.
RestoreCountOfNone(h, w) ==
    IF Key(w) \in DOMAIN h.ledger /\ h.stock[Reward[w].item] = 0
    THEN Protected(h.ledger[Key(w)]) ELSE 0

\* GetPersistentRestoreCount.
RestoreCount(h, w) ==
    IF Key(w) \in DOMAIN h.ledger
    THEN AtLeast0(Protected(h.ledger[Key(w)]) - h.stock[Reward[w].item]) ELSE 0

\* RestorePersistentRewardIfNeeded.
RestoredReward(h, w, reported) ==
    LET tracked == Tracked(h, w)
        count == RestoreCount(tracked, w)
    IN IF count = 0 THEN tracked ELSE PutOn(tracked, Reward[w].item, count, reported)

\* RemoveManagedTemporaryItemOnInvalidation: what the ledger still attributes to
\* the rule is removed, or the amount of the reward if it has no entry; the entry
\* goes unless something of it was missing.
Invalidated(h, w, reported) ==
    LET i == Reward[w].item
        k == Key(w)
        known == k \in DOMAIN h.ledger
        count == Min({h.stock[i], IF known THEN Protected(h.ledger[k]) ELSE Reward[w].amount})
        erase == known /\ h.ledger[k].missing = 0
        left == IF count = 0 THEN h ELSE TakeOff(h, i, count, reported)
    IN IF erase
       THEN [left EXCEPT !.ledger = [l \in DOMAIN left.ledger \ {k} |-> left.ledger[l]]]
       ELSE left
----------------------------------------------------------------------------
(* The activation of a rule.                                               *)

NotApplied ==
    [version |-> 0, active |-> FALSE, canReroll |-> TRUE, keys |-> {}, persistentKeys |-> {}]

InOrder == [w \in Rewards |-> w]

\* HasOutstandingNonPersistentReward.
Outstanding(h, w) ==
    /\ ~Reward[w].persistent
    /\ Key(w) \in DOMAIN h.ledger
    /\ h.ledger[Key(w)].missing > 0

\* Mutant: a rule that ends may always be rolled again.
DeactivatedForgetful(h, s, reported) ==
    LET temporary == {w \in s.keys : ~Reward[w].persistent}
        EndOf(g, w) == IF w \in temporary THEN Invalidated(g, w, reported) ELSE g
    IN [holding |-> FoldLeft(EndOf, h, InOrder),
        record |-> [s EXCEPT !.active = FALSE, !.canReroll = TRUE, !.keys = {}]]

\* RemoveAppliedActivationRewards: the holding and the record it leaves.
Deactivated(h, s, reported) ==
    LET temporary == {w \in s.keys : ~Reward[w].persistent}
        EndOf(g, w) == IF w \in temporary THEN Invalidated(g, w, reported) ELSE g
        left == FoldLeft(EndOf, h, InOrder)
        outstanding == \E w \in s.keys : Outstanding(left, w)
    IN [holding |-> left,
        record |-> [s EXCEPT !.active = FALSE, !.canReroll = ~outstanding,
                             !.keys = IF outstanding THEN @ ELSE {}]]

\* StartRuleActivation with the rewards that were rolled.
Started(h, s, v, rolled, reported) ==
    LET Give(g, w) ==
            IF w \notin rolled THEN g
            ELSE IF Reward[w].persistent /\ w \in s.persistentKeys
            THEN RestoredReward(g, w, reported) ELSE Granted(g, w, reported)
    IN [holding |-> FoldLeft(Give, h, InOrder),
        record |-> [version |-> v, active |-> TRUE, canReroll |-> TRUE, keys |-> rolled,
                    persistentKeys |-> s.persistentKeys
                                       \cup {w \in rolled : Reward[w].persistent}]]

\* A rule of another version starts afresh.
Fresh(s) == [NotApplied EXCEPT !.version = s.version]

\* A rule that goes on: its persistent rewards are restored.
Continued(h, s, v, reported) ==
    LET Restore(g, w) ==
            IF w \in s.keys /\ Reward[w].persistent THEN RestoredReward(g, w, reported) ELSE g
    IN [holding |-> FoldLeft(Restore, h, InOrder),
        record |-> [s EXCEPT !.version = v]]

Becomes(r, result) ==
    /\ state' = [state EXCEPT ![r] = result.record]
    /\ ledger' = result.holding.ledger
    /\ stock' = result.holding.stock
----------------------------------------------------------------------------
NoPass == [invalidate |-> {}, process |-> {}, applied |-> 0]

Init ==
    /\ defined = Rules
    /\ version = [r \in Rules |-> 1]
    /\ state = [r \in Rules |-> NotApplied]
    /\ ledger = <<>>
    /\ stock = Native
    /\ outside = [i \in Items |-> 0]
    /\ pass = NoPass
    /\ renewed = [r \in Rules |-> 0]
    /\ moves = 0
    /\ losses = 0
    /\ edits = 0

Idle == pass.invalidate = {} /\ pass.process = {}
Applied == {r \in Rules : state[r].version > 0}

\* ApplyRulesToInstancePass, for the rules that depend on what changed; the
\* record of a deleted rule is looked at by every pass.
PassOver(S) ==
    pass' = [invalidate |-> Applied \cap (S \cup (Rules \ defined)),
             process |-> S \cap defined, applied |-> 0]

Evaluate(S) ==
    /\ Idle
    /\ PassOver(S)
    /\ UNCHANGED <<ruleVars, state, ledger, stock, outside, renewed, counters>>

\* The first half: the rules that no longer apply, in the order of their IDs.  A
\* rule that still matches is left alone, a deleted one never matches.
Invalidate ==
    /\ pass.invalidate # {}
    /\ LET r == Min(pass.invalidate)
           s == IF r \in defined THEN state[r] ELSE [state[r] EXCEPT !.persistentKeys = {}]
       IN /\ pass' = [pass EXCEPT !.invalidate = @ \ {r}]
          /\ \/ /\ r \in defined
                /\ UNCHANGED <<state, ledger, stock>>
             \/ IF s.active
                THEN \E reported \in Reported : Becomes(r, Deactivated(Holding, s, reported))
                ELSE Becomes(r, [holding |-> Holding, record |-> s])
    /\ UNCHANGED <<ruleVars, outside, renewed, counters>>

\* The record of a rule after a change of version: its activation is ended and it
\* starts afresh.
Renewed(h, r, reported) ==
    LET changed == state[r].version \notin {0, version[r]}
        ended == IF changed /\ state[r].active THEN Deactivated(h, state[r], reported)
                 ELSE [holding |-> h, record |-> state[r]]
    IN [ended EXCEPT !.record = IF changed THEN Fresh(@) ELSE @]

\* The second half, in the order of the phases: a rule that matches is activated
\* with a roll, activated again without one, or goes on.
Apply(r) ==
    \E reported \in Reported :
        LET h == Renewed(Holding, r, reported).holding
            s == Renewed(Holding, r, reported).record
        IN \/ /\ ~s.active /\ s.canReroll
              /\ \E rolled \in SUBSET {w \in Rewards : Reward[w].rule = r} :
                    Becomes(r, Started(h, s, version[r], rolled, reported))
           \/ /\ ~s.active /\ ~s.canReroll
              /\ Becomes(r, [holding |-> h,
                             record |-> [s EXCEPT !.active = TRUE, !.version = version[r]]])
           \/ /\ s.active
              /\ Becomes(r, Continued(h, s, version[r], reported))

Process(r) ==
    /\ pass.invalidate = {}
    /\ r \in pass.process
    /\ \/ /\ pass' = [pass EXCEPT !.process = @ \ {r}, !.applied = 0]
          /\ UNCHANGED <<state, ledger, stock>>
       \/ /\ pass' = [pass EXCEPT !.process = @ \ {r}, !.applied = r]
          /\ Apply(r)
    /\ UNCHANGED <<ruleVars, outside, renewed, counters>>
----------------------------------------------------------------------------
(* What happens to the actor and to the rules between two passes.          *)

\* A copy leaves the actor for another container, or comes back.
Take(i) ==
    /\ Idle
    /\ moves < MaxMoves /\ moves' = moves + 1
    /\ stock[i] > 0
    /\ outside' = [outside EXCEPT ![i] = @ + 1]
    /\ LET h == TakeOff(Holding, i, 1, TRUE) IN ledger' = h.ledger /\ stock' = h.stock
    /\ UNCHANGED <<ruleVars, state, pass, renewed, losses, edits>>

Return(i) ==
    /\ Idle
    /\ moves < MaxMoves /\ moves' = moves + 1
    /\ outside[i] > 0
    /\ outside' = [outside EXCEPT ![i] = @ - 1]
    /\ LET h == PutOn(Holding, i, 1, TRUE) IN ledger' = h.ledger /\ stock' = h.stock
    /\ UNCHANGED <<ruleVars, state, pass, renewed, losses, edits>>

\* A copy vanishes from the inventory without an event.
Lose(i) ==
    /\ Idle
    /\ losses < MaxLosses /\ losses' = losses + 1
    /\ stock[i] > 0
    /\ stock' = [stock EXCEPT ![i] = @ - 1]
    /\ UNCHANGED <<ruleVars, state, ledger, outside, pass, renewed, moves, edits>>

Edit == edits < MaxEdits /\ edits' = edits + 1

NewVersion(r) ==
    /\ Idle
    /\ Edit
    /\ r \in defined
    /\ version' = [version EXCEPT ![r] = @ + 1]
    /\ renewed' = [renewed EXCEPT ![r] = @ + 1]
    /\ UNCHANGED <<defined, state, ledger, stock, outside, pass, moves, losses>>

\* DeleteRule; the versions of the rule are kept.
Delete(r) ==
    /\ Idle
    /\ Edit
    /\ r \in defined
    /\ defined' = defined \ {r}
    /\ UNCHANGED <<version, state, ledger, stock, outside, pass, renewed, moves, losses>>

\* ResetRuleActivationForActor, for one rule; a full pass follows.
Reset(r) ==
    /\ Idle
    /\ Edit
    /\ r \in Applied
    /\ \E reported \in Reported :
        LET ended == IF state[r].active THEN Deactivated(Holding, state[r], reported)
                     ELSE [holding |-> Holding, record |-> state[r]]
        IN Becomes(r, [holding |-> ended.holding, record |-> Fresh(ended.record)])
    /\ renewed' = [renewed EXCEPT ![r] = @ + 1]
    /\ PassOver(Rules)
    /\ UNCHANGED <<ruleVars, outside, moves, losses>>

Next ==
    \/ \E S \in SUBSET Rules : Evaluate(S)
    \/ Invalidate
    \/ \E r \in Rules :
        Process(r) \/ NewVersion(r) \/ Delete(r) \/ Reset(r)
    \/ \E i \in Items : Take(i) \/ Return(i) \/ Lose(i)

Spec == Init /\ [][Next]_vars
----------------------------------------------------------------------------
(* Properties.                                                             *)

\* Every variable has its type; no more is missing than was expected.
TypeOK ==
    /\ defined \subseteq Rules
    /\ version \in [Rules -> Nat \ {0}]
    /\ state \in [Rules -> [version : Nat, active : BOOLEAN, canReroll : BOOLEAN,
                            keys : SUBSET Rewards, persistentKeys : SUBSET Rewards]]
    /\ DOMAIN ledger \subseteq Keys
    /\ \A k \in DOMAIN ledger :
        ledger[k].expected \in Nat /\ ledger[k].missing \in 0..ledger[k].expected
    /\ stock \in [Items -> Nat]
    /\ outside \in [Items -> Nat]
    /\ pass \in [invalidate : SUBSET Rules, process : SUBSET Rules, applied : Rules \cup {0}]
    /\ renewed \in [Rules -> Nat]
    /\ moves \in 0..MaxMoves /\ losses \in 0..MaxLosses /\ edits \in 0..MaxEdits

\* No other reward, of this or of another rule, is of the same item.
Alone(w) == \A v \in Rewards \ {w} : Reward[v].item # Reward[w].item

\* The copies of an item in the world are no more than the actor had, one reward
\* of each rule, and one more for every time the rule was renewed on purpose.
Bounded(i) ==
    stock[i] + outside[i] <=
        Native[i] + MapThenSumSet(LAMBDA w : Reward[w].amount * (1 + renewed[Reward[w].rule]),
                                  {w \in Rewards : Reward[w].item = i})

\* However often a rule ends and starts again, its temporary reward cannot be
\* farmed: while a copy is outside it is not given out again (the ledger, and
\* canRerollOnNextActivation of RemoveAppliedActivationRewards).
NoFarmingAlone ==
    \A w \in Rewards : Alone(w) /\ ~Reward[w].persistent => Bounded(Reward[w].item)

\* "Reativamos sem novo sorteio para impedir duplicação/farming"
\* (ApplyRulesToInstancePass): the same of any temporary reward.
NoFarming == \A w \in Rewards : ~Reward[w].persistent => Bounded(Reward[w].item)

\* A rule that is invalidated takes back every copy the actor still has of its
\* temporary reward, whatever was taken, brought back or given before
\* (RemoveManagedTemporaryItemOnInvalidation).
TemporaryIsGone ==
    [][\A w \in Rewards :
        LET r == Reward[w].rule IN
        /\ Alone(w) /\ ~Reward[w].persistent
        /\ state[r].active /\ ~state'[r].active /\ w \in state[r].keys
        => stock'[Reward[w].item] <= Native[Reward[w].item]]_vars

\* A pass leaves an actor whose rule is active with every copy of its persistent
\* reward that nobody took (RestorePersistentRewardIfNeeded), unless it has just
\* activated the rule again without a roll: such a rule waits for the next pass.
PersistentIsRestored ==
    [][\A w \in Rewards :
        LET r == Reward[w].rule IN
        /\ Alone(w) /\ Reward[w].persistent
        /\ pass'.process # pass.process /\ pass'.applied = r
        /\ state[r].active \/ state[r].canReroll
        /\ state'[r].active /\ w \in state'[r].keys
        => stock'[Reward[w].item] + outside'[Reward[w].item] >= Reward[w].amount]_vars
=============================================================================
