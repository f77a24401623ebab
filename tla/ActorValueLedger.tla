-------------------------- MODULE ActorValueLedger --------------------------
(***************************************************************************)
(* The numeric rewards (Actor Value, Actor Scale) of one actor             *)
(* (src/SaveState.cpp).  EDF does not change an actor value: it asks the   *)
(* plugin WhoEditThat, by requests that are queued and answered later, to  *)
(* keep one contribution per mutation key, the hash of a rule and a        *)
(* reward.  A pass over the rules ends by asking for the list of what is   *)
(* kept and removes, when the answer comes, what the rules did not want at *)
(* the time of the question.                                               *)
(*                                                                         *)
(* The library is external: one queue, served in its order.  Values,       *)
(* formulas and the hash (two keys never collide) are abstracted; at every *)
(* pass a rule may match the actor or not and a roll may be any set of the *)
(* rule's rewards.                                                         *)
(***************************************************************************)
EXTENDS Integers, Sequences, FiniteSets, SequencesExt

CONSTANTS
    NValueRules,     \* the number of rules with numeric rewards
    Numeric,         \* per reward [rule, kind, persistent]: kind "value" or "scale"
    Old,             \* the saves of an older EDF: per set of rules, those applied in it
    MaxPasses_L,     \* bound: passes over the rules
    MaxChanges_L     \* bound: edits, deletions, resets, saves and loads

ValueRules == 1..NValueRules
MutationKeys == DOMAIN Numeric
NumericKinds == {"value", "scale"}

ASSUME NumericAssumption ==
    /\ NValueRules \in Nat /\ IsFiniteSet(MutationKeys)
    /\ \A k \in MutationKeys :
        Numeric[k] \in [rule : ValueRules, kind : NumericKinds, persistent : BOOLEAN]
    /\ Old \subseteq SUBSET ValueRules
    /\ MaxPasses_L \in Nat /\ MaxChanges_L \in Nat

VARIABLES
    entries,   \* the keys that WhoEditThat keeps a contribution for
    requests,  \* the requests WhoEditThat has not served
    isReady,   \* IWhoEditThatAPI::IsReady
    direct,    \* the keys whose delta an older EDF put on the actor value itself
    numericOf, \* npcRuleVersions of the actor
    ruleNow,   \* per rule its version, or 0 when it was deleted
    saved_L,   \* the last save
    quiet,     \* history: the last pass was full, found no request and was accepted
    stray,     \* history: the keys a reset took over before their migration
    passes_L, changes_L \* counters of the bounds

gameVars == <<entries, direct, numericOf, stray>>
ledgerVars == <<entries, requests, isReady, direct, numericOf, ruleNow, saved_L,
                quiet, stray, passes_L, changes_L>>
----------------------------------------------------------------------------
KeysOf(r) == {k \in MutationKeys : Numeric[k].rule = r}
OfKind(keys, kind) == {k \in keys : Numeric[k].kind = kind}
Lasting(keys) == {k \in keys : Numeric[k].persistent}

\* AppliedRuleState, of what numeric rewards read and write.
NoNumericState ==
    [known |-> FALSE, active |-> FALSE, version |-> 0, reroll |-> TRUE,
     keys |-> {}, lasting |-> {}, legacy |-> {}]
OldState == [NoNumericState EXCEPT !.version = 1]

\* What one rule's part of a pass leaves: its state, the deltas still on the actor,
\* the requests it queued.
Work(st, on, sent) == [st |-> st, on |-> on, sent |-> sent]

\* A request is refused when the library is not ready.
Asked(sent, request) == IF isReady THEN sent \o request ELSE sent
Upsert(k) == [op |-> "upsert", keys |-> {k}]
Removal(k) == [op |-> "remove", keys |-> {k}]

\* QueueRemoveActorValueRule and QueueRemoveActorScaleRule: a prefix of the rule.
RuleRemoved(w, r) ==
    [w EXCEPT !.sent = Asked(@, <<[op |-> "remove", keys |-> OfKind(KeysOf(r), "value")],
                                  [op |-> "remove", keys |-> OfKind(KeysOf(r), "scale")]>>)]

\* The deltas of an older EDF are taken off the actor.
Undone(w, keys) ==
    LET off == OfKind(w.st.legacy, "value") \cap keys
    IN [w EXCEPT !.on = @ \ off, !.st.legacy = @ \ off]

Forgiven(w) ==
    LET u == Undone(w, w.st.legacy)
    IN [u EXCEPT !.st.legacy = {}, !.st.lasting = {}]

\* MigrateLegacyActivationState: the old save names no rewards; every one of the
\* rule's is taken for given, and its delta for ours.
Migrated(w, r) ==
    IF w.st.known \/ w.st.version = 0 THEN w
    ELSE [w EXCEPT !.st = [@ EXCEPT !.known = TRUE, !.active = TRUE, !.reroll = TRUE,
                                    !.keys = KeysOf(r), !.lasting = Lasting(KeysOf(r)),
                                    !.legacy = OfKind(KeysOf(r), "value")]]

\* ApplyOrReconcileNumericReward.
Reconciled(w, k) ==
    LET u == IF Numeric[k].kind = "value" THEN Undone(w, {k}) ELSE w
    IN [u EXCEPT !.sent = Asked(@, <<Upsert(k)>>)]

AllReconciled(w, keys) == FoldLeft(Reconciled, w, SetToSeq(keys))

\* RemoveNumericReward, of every temporary reward of the activation: what could not
\* be removed in any way keeps the rewards documented.
RemoveActive(w) ==
    LET gone == w.st.keys \ Lasting(w.st.keys)
        failed == {k \in gone : ~isReady /\ k \notin OfKind(w.st.legacy, "value")}
        u == Undone(w, gone)
        sent == [i \in 1..Cardinality(gone) |-> Removal(SetToSeq(gone)[i])]
    IN [u EXCEPT
          !.sent = Asked(@, sent),
          !.st.known = TRUE, !.st.active = FALSE, !.st.reroll = (failed = {}),
          !.st.keys = IF failed = {} THEN {} ELSE @]

\* The same, of a state that was never migrated: every temporary reward of the rule.
RemoveUnknown(w, r) ==
    LET gone == SetToSeq(KeysOf(r) \ Lasting(KeysOf(r)))
    IN [w EXCEPT !.sent = Asked(@, [i \in DOMAIN gone |-> Removal(gone[i])])]

\* The part of a pass that ends rules: the rule was deleted, or does not match.
Ending(w, r, matching) ==
    LET c == IF ruleNow[r] = 0 THEN Forgiven(RuleRemoved(w, r)) ELSE w
    IN IF r \notin matching /\ w.st.active THEN RemoveActive(c) ELSE c

\* A new version of the rule: its contributions are asked away, it rolls again.
NumericNewVersion(w, r) ==
    LET c == RuleRemoved(w, r)
        ended == IF w.st.active THEN RemoveActive(c) ELSE c
    IN [Forgiven(ended) EXCEPT !.st.active = FALSE, !.st.reroll = TRUE, !.st.keys = {}]

\* Mutant: an activation that goes on is taken for settled.
TakenAsDone(w) == w

\* What an activation has is asked for again at every pass.
AskedAgain(w) == AllReconciled(w, w.st.keys)

\* The part of a pass that applies rules, for one that matches: a new activation
\* rolls; one that may not roll again only becomes active; one that goes on asks
\* again for what it has.
Applying(w, r, won) ==
    LET v == IF w.st.version \notin {0, ruleNow[r]} THEN NumericNewVersion(w, r) ELSE w
        next ==
            IF v.st.active THEN AskedAgain(v)
            ELSE IF v.st.reroll
            THEN AllReconciled(
                    [v EXCEPT !.st = [@ EXCEPT !.keys = won,
                                               !.lasting = v.st.lasting \cup Lasting(won)]],
                    won)
            ELSE v
    IN [next EXCEPT !.st.known = TRUE, !.st.active = TRUE, !.st.version = ruleNow[r]]

RulePart(r, w, considered, matching, won) ==
    LET m == Migrated(w, r)
    IN IF r \notin considered THEN m
       ELSE LET e == IF m.st.version = 0 THEN m ELSE Ending(m, r, matching)
            IN IF r \in matching THEN Applying(e, r, won \cap KeysOf(r)) ELSE e

\* ReconcileActorValueLedger: what the rules want.
Desired(states) ==
    UNION {(IF states[r].active THEN states[r].keys ELSE {}) \cup states[r].lasting :
             r \in ValueRules}

\* ReconcileActorValueLedger: what a list request keeps with it.
Wanted(states) == Desired(states)

Lists(states) ==
    Asked(<<>>, <<[op |-> "list", kind |-> "value", desired |-> Wanted(states)],
                  [op |-> "list", kind |-> "scale", desired |-> Wanted(states)]>>)
----------------------------------------------------------------------------
Init_L ==
    /\ \E old \in Old :
        /\ numericOf = [r \in ValueRules |-> IF r \in old THEN OldState ELSE NoNumericState]
        /\ direct = UNION {OfKind(KeysOf(r), "value") : r \in old}
    /\ entries = {}
    /\ requests = <<>>
    /\ isReady \in BOOLEAN
    /\ ruleNow = [r \in ValueRules |-> 1]
    /\ saved_L = [entries |-> entries, direct |-> direct, numericOf |-> numericOf,
                  stray |-> {}]
    /\ quiet = FALSE
    /\ stray = {}
    /\ passes_L = 0 /\ changes_L = 0

\* ApplyRulesToInstancePass: every rule in turn, first those that end, then those
\* that apply; no two rules share a key, so that only the order within a rule counts.
NumericPass(considered) ==
    /\ passes_L < MaxPasses_L
    /\ passes_L' = passes_L + 1
    /\ \E matching \in SUBSET {r \in considered : ruleNow[r] # 0},
          won \in SUBSET MutationKeys :
        LET part == [r \in ValueRules |->
                        RulePart(r, Work(numericOf[r], direct \cap KeysOf(r), <<>>),
                                 considered, matching, won)]
        IN /\ won \subseteq {k \in MutationKeys : Numeric[k].rule \in matching}
           /\ numericOf' = [r \in ValueRules |-> part[r].st]
           /\ direct' = UNION {part[r].on : r \in ValueRules}
           /\ requests' = requests
                \o FlattenSeq([r \in ValueRules |-> part[r].sent])
                \o Lists(numericOf')
           /\ quiet' =
                /\ isReady /\ requests = <<>> /\ considered = ValueRules
                /\ \A r \in matching : numericOf[r].active \/ numericOf[r].reroll
    /\ UNCHANGED <<entries, isReady, ruleNow, saved_L, stray, changes_L>>

FullPass == NumericPass(ValueRules)
PartialPass == \E considered \in SUBSET ValueRules \ {ValueRules} : NumericPass(considered)

\* WhoEditThat serves its next request.  A list is answered with what is kept of a
\* kind; the callback asks away every entry that was not wanted when it was asked.
ServeRequest ==
    /\ requests # <<>>
    /\ LET q == Head(requests)
       IN \/ /\ q.op = "upsert"
             /\ entries' = entries \cup q.keys
             /\ requests' = Tail(requests)
          \/ /\ q.op = "remove"
             /\ entries' = entries \ q.keys
             /\ requests' = Tail(requests)
          \/ /\ q.op = "list"
             /\ LET unwanted == SetToSeq(OfKind(entries, q.kind) \ q.desired)
                    sent == [i \in DOMAIN unwanted |-> Removal(unwanted[i])]
                IN requests' = Asked(Tail(requests), sent)
             /\ UNCHANGED entries
    /\ quiet' = (quiet /\ isReady)
    /\ UNCHANGED <<isReady, direct, numericOf, ruleNow, saved_L, stray, passes_L, changes_L>>

\* The library becomes ready, or is between two games.
ReadinessChanges ==
    /\ isReady' = ~isReady
    /\ quiet' = (quiet /\ requests = <<>>)
    /\ UNCHANGED <<gameVars, requests, ruleNow, saved_L, passes_L, changes_L>>

Changes == changes_L < MaxChanges_L /\ changes_L' = changes_L + 1

EditNumeric(r) ==
    /\ Changes
    /\ ruleNow[r] = 1
    /\ ruleNow' = [ruleNow EXCEPT ![r] = 2]
    /\ UNCHANGED <<gameVars, requests, isReady, saved_L, quiet, passes_L>>

\* RuleManager::DeleteRule: the rule is not found any more, its history is.
ForgetRule(r) ==
    /\ Changes
    /\ ruleNow[r] # 0
    /\ ruleNow' = [ruleNow EXCEPT ![r] = 0]
    /\ UNCHANGED <<gameVars, requests, isReady, saved_L, quiet, passes_L>>

\* ResetRuleActivationForActor, up to the full pass that it ends with.
ResetRule(r) ==
    /\ Changes
    /\ numericOf[r] # NoNumericState
    /\ LET c == RuleRemoved(Work(numericOf[r], direct \cap KeysOf(r), <<>>), r)
           ended == IF ~c.st.known THEN RemoveUnknown(c, r)
                    ELSE IF c.st.active THEN RemoveActive(c) ELSE c
           w == Forgiven(ended)
       IN /\ numericOf' = [numericOf EXCEPT ![r] =
                [w.st EXCEPT !.known = TRUE, !.active = FALSE, !.reroll = TRUE, !.keys = {}]]
          /\ direct' = (direct \ KeysOf(r)) \cup w.on
          /\ requests' = requests \o w.sent
    /\ stray' = stray \cup {k \in direct \cap KeysOf(r) : ~numericOf[r].known}
    /\ quiet' = FALSE
    /\ UNCHANGED <<entries, isReady, ruleNow, saved_L, passes_L>>

SaveGame_L ==
    /\ Changes
    /\ saved_L' = [entries |-> entries, direct |-> direct, numericOf |-> numericOf,
                    stray |-> stray]
    /\ UNCHANGED <<gameVars, requests, isReady, ruleNow, quiet, passes_L>>

\* The game, the history of EDF and the entries of the library come back together.
\* The library is taken to drop the requests of the game that was left: EDF does not
\* mark them, and one that came through would act on the game that was loaded.
LoadGame_L ==
    /\ Changes
    /\ entries' = saved_L.entries
    /\ direct' = saved_L.direct
    /\ numericOf' = saved_L.numericOf
    /\ stray' = saved_L.stray
    /\ requests' = <<>>
    /\ quiet' = FALSE
    /\ UNCHANGED <<isReady, ruleNow, saved_L, passes_L>>

Next_L ==
    \/ FullPass
    \/ PartialPass
    \/ ServeRequest
    \/ ReadinessChanges
    \/ \E r \in ValueRules : EditNumeric(r)
    \/ \E r \in ValueRules : ForgetRule(r)
    \/ \E r \in ValueRules : ResetRule(r)
    \/ SaveGame_L
    \/ LoadGame_L

NumericSpec == Init_L /\ [][Next_L]_ledgerVars
----------------------------------------------------------------------------
\* A full pass that finds no request on its way and a library that takes its own
\* settles the actor: when everything it caused is served, the library keeps every
\* reward of an active rule and nothing that no rule wants, whatever was lost or
\* refused before (ReconcileActorValueLedger).  A persistent reward of a rule that
\* ended before the library was ready is wanted and stays missing.
QuietPassSettles ==
    quiet /\ requests = <<>> =>
        /\ entries \subseteq Desired(numericOf)
        /\ \A r \in ValueRules : numericOf[r].active => numericOf[r].keys \subseteq entries

\* A delta that an older EDF put on the actor itself never counts together with the
\* contribution that replaces it (ApplyOrReconcileNumericReward), however the old
\* save is migrated, saved and loaded in between.  A reset of a rule whose old state no
\* pass has migrated is excepted (stray): it declares the state known, and the delta
\* stays on the actor beside the new contribution.
HandedOver(k) == k \in entries \/ \E i \in DOMAIN requests : requests[i] = Upsert(k)
CountedOnce == \A k \in direct \ stray : ~HandedOver(k)

\* The values and scales of the actor are what the rules give, each counted once.
ValuesAreRight == QuietPassSettles /\ CountedOnce
=============================================================================
