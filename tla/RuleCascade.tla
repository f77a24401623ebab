----------------------------- MODULE RuleCascade -----------------------------
(***************************************************************************)
(* How the rules of one actor follow each other (ApplyRulesToInstance in   *)
(* src/SaveState.cpp, the index of rules in src/Rule.cpp): a change names  *)
(* what changed, the index finds the rules that may depend on it, a pass   *)
(* ends and starts rules, and what they give to the actor is the change of *)
(* the next pass, until nothing changes any more.                          *)
(*                                                                         *)
(* The rewards are keywords, here tags, that the plugin keeps itself: a tag*)
(* stays as long as a reward owns it.  A rule gives at most one tag, and   *)
(* its filters are tags and the combat.  One pass is one step: it runs on  *)
(* the main thread and reads the actor as it is then.                      *)
(***************************************************************************)
EXTENDS Integers, FiniteSets, Sequences, SequencesExt

CONSTANTS
    NTagRules,     \* the rules, in the order of their IDs
    Tags,
    RuleSets,   \* the definitions to check: per rule [needs, bans, combat, gives, persistent]
    NativeTags, \* the tags that the actor may have of its own
    MaxPasses,  \* kMaxCascadePasses
    MaxEvents   \* bound: changes of the actor and loads

TagRules == 1..NTagRules
Legacy == 0 \* the owner of a tag whose reward is not known

ASSUME CascadeAssumption ==
    /\ NTagRules \in Nat /\ MaxPasses \in Nat \ {0} /\ MaxEvents \in Nat
    /\ NativeTags \subseteq Tags
    /\ \A d \in RuleSets : d \in [TagRules ->
          [needs : SUBSET Tags, bans : SUBSET Tags, combat : SUBSET BOOLEAN \ {{}},
           gives : {{}} \cup {{t} : t \in Tags}, persistent : BOOLEAN]]

VARIABLES
    rule,    \* the rules
    unstable, \* _unstableCycleRules
    native,  \* the tags of the actor's base
    print,   \* _baseNPCFingerprints: the native tags last seen, in a set, or {}
    combat,  \* is the actor in combat?
    actor,   \* what the session keeps of the actor
    queue,   \* g_scheduledEvaluations: the merged change that waits
    cascade, \* the evaluation in progress
    blurred, \* history: a change of any form was merged with one of some forms
    stopped, \* history: the cascades that were stopped early, disturbed or not
    events   \* counter of the bound

cascadeVars == <<rule, unstable, native, print, combat, actor, queue, cascade, blurred, stopped, events>>
----------------------------------------------------------------------------
(* Changes (RuleEvaluationDelta).  The bit "other" stands for all kinds of *)
(* dependencies that no filter here has.                                   *)

Bits == {"static", "tag", "combat", "inventory", "other"}
Nothing == [mask |-> {}, forms |-> {}]
Full == [mask |-> Bits, forms |-> {}]
For(bit, forms) == [mask |-> {bit}, forms |-> forms]
IsFull(d) == d.mask = Bits

\* Merge: no forms mean any form, but only as long as nothing else has forms.
Merged(d, e) == [mask |-> d.mask \cup e.mask, forms |-> d.forms \cup e.forms]

AnyForm(d) == d.mask # {} /\ d.forms = {}
Blurs(d, e) ==
    /\ ~IsFull(Merged(d, e))
    /\ (AnyForm(d) /\ e.forms # {}) \/ (AnyForm(e) /\ d.forms # {})
----------------------------------------------------------------------------
(* The index (RebuildDependencyIndex).                                     *)

Filters(r) == rule[r].needs \cup rule[r].bans
HasFilters(r) == Filters(r) # {}
ChecksCombat(r) == rule[r].combat # BOOLEAN

\* GetRuleDependencyMask
Mask(r) ==
    {"other"} \cup (IF ChecksCombat(r) THEN {"combat"} ELSE {})
              \cup (IF HasFilters(r) THEN {"tag"} ELSE {"static"})

\* What a rule gives is what another filters by; an edge to a filter of the
\* blacklist is negative.
Edge(r, s) == rule[r].gives \cap Filters(s) # {}
NegativeEdge(r, s) == rule[r].gives \cap rule[s].bans # {}

\* A path leads from r to s: every set with r that no edge leaves has s.
Reaches(r, s) ==
    \A S \in SUBSET TagRules :
        (r \in S /\ \A u \in S : \A v \in TagRules : Edge(u, v) => v \in S) => s \in S
SameComponent(r, s) == Reaches(r, s) /\ Reaches(s, r)

\* Mutant: only a rule that bans its own tag is unstable.
UnstableAlone == {r \in TagRules : NegativeEdge(r, r)}

\* The rules of a strongly connected component with a negative edge; they are
\* left alone.
UnstableRules ==
    {r \in TagRules : \E s, u \in TagRules :
        SameComponent(r, s) /\ SameComponent(r, u) /\ NegativeEdge(s, u)}

Unstable(r) == r \in unstable

Has(a, t) == t \in native \cup a.held

\* IsNPCMatchingTargets, for the targets and for the blacklist.
Matches(a, r) ==
    /\ combat \in rule[r].combat
    /\ rule[r].needs = {} \/ \E t \in rule[r].needs : Has(a, t)
    /\ \A t \in rule[r].bans : ~Has(a, t)

\* GetCandidateRuleIDs for a change of everything: the rules for all, and those
\* of a tag that the actor has.
FullCandidates(a) ==
    {r \in TagRules : rule[r].needs = {} \/ \E t \in Filters(r) : Has(a, t)}

\* Mutant: no forms are taken for no change.
CandidatesOfForms(d) == {r \in TagRules : "tag" \in d.mask /\ Filters(r) \cap d.forms # {}}

\* ... and for any other change: by the kind of dependency, or by the forms.
CandidatesOf(d) ==
    IF d.forms = {} THEN {r \in TagRules : Mask(r) \cap d.mask # {}}
    ELSE {r \in TagRules : "tag" \in d.mask /\ Filters(r) \cap d.forms # {}}

Candidates(a, d) == IF IsFull(d) THEN FullCandidates(a) ELSE CandidatesOf(d)
----------------------------------------------------------------------------
(* The tags of the plugin and their owners.                                *)

NoActivation ==
    [documented |-> FALSE, active |-> FALSE, canReroll |-> TRUE, keyed |-> FALSE,
     kept |-> FALSE]

\* Mutant: after a load, rules that are not active own their tags as well.
WithOwnersOfAll(a) ==
    LET Own(t) == {r \in TagRules : a.state[r].keyed /\ t \in rule[r].gives}
        Owners(t) == IF Own(t) = {} /\ t \in a.held THEN {Legacy} ELSE Own(t)
    IN IF a.ready THEN a ELSE [a EXCEPT !.ready = TRUE, !.owners = [t \in Tags |-> Owners(t)]]

\* EnsureVirtualKeywordOwners: after a load, the active rules own what they gave,
\* and what nobody owns is kept as it is.
WithOwners(a) ==
    LET Own(t) == {r \in TagRules : a.state[r].active /\ a.state[r].keyed /\ t \in rule[r].gives}
        Owners(t) == IF Own(t) = {} /\ t \in a.held THEN {Legacy} ELSE Own(t)
    IN IF a.ready THEN a ELSE [a EXCEPT !.ready = TRUE, !.owners = [t \in Tags |-> Owners(t)]]

Produce(a, t) == [a EXCEPT !.produced = Merged(@, For("tag", {t}))]

\* AddVirtualKeyword for the reward of rule r.
Added(a, r, t) ==
    LET owned == [WithOwners(a) EXCEPT !.owners[t] = @ \cup {r}, !.held = @ \cup {t}]
    IN IF t \in a.held THEN owned ELSE Produce(owned, t)

\* RemoveVirtualKeyword, by RemoveRuleRewards, which reports a change in any case.
Removed(a, r, t) ==
    LET left == WithOwners(a).owners[t] \ {r}
    IN Produce([WithOwners(a) EXCEPT !.owners[t] = left,
                                     !.held = IF left = {} THEN @ \ {t} ELSE @], t)

\* RemoveAppliedActivationRewards.  A tag that the actor still has, of whatever
\* rule, counts as a reward that could not be removed.
Ended(a, r) ==
    LET temporary == a.state[r].keyed /\ ~rule[r].persistent
        left == IF temporary THEN Removed(a, r, CHOOSE t \in rule[r].gives : TRUE) ELSE a
        outstanding == temporary /\ rule[r].gives \subseteq left.held
    IN [left EXCEPT !.state[r] = [@ EXCEPT !.active = FALSE, !.canReroll = ~outstanding,
                                           !.keyed = outstanding]]

\* StartRuleActivation; a persistent reward that was given before is not given
\* again.
StartedAnew(a, r, won) ==
    LET given == won /\ ~(rule[r].persistent /\ a.state[r].kept)
        started == IF given THEN Added(a, r, CHOOSE t \in rule[r].gives : TRUE) ELSE a
        keep == won /\ rule[r].persistent
    IN [started EXCEPT !.state[r] =
            [documented |-> TRUE, active |-> TRUE, canReroll |-> TRUE, keyed |-> won,
             kept |-> @.kept \/ keep]]

\* A rule that matches is started, with a roll or without, or goes on.
Activated(a, r, won) ==
    IF a.state[r].active THEN a
    ELSE IF a.state[r].canReroll THEN StartedAnew(a, r, won)
    ELSE [a EXCEPT !.state[r].active = TRUE]
----------------------------------------------------------------------------
(* One pass (ApplyRulesToInstancePass).                                    *)

Documented(a, d) ==
    {r \in TagRules : a.state[r].documented /\ (IsFull(d) \/ Mask(r) \cap d.mask # {})}

\* First the rules that the actor has and that match no longer, in their order.
Cleared(a, d) ==
    LET EndIfNot(b, r) ==
            IF r \in Documented(a, d) /\ ~Unstable(r) /\ ~Matches(b, r) /\ b.state[r].active
            THEN Ended(b, r) ELSE b
    IN FoldLeft(EndIfNot, a, [r \in TagRules |-> r])

\* One phase: the rules that match when it begins.
PhaseApplied(a, S, won) ==
    LET matching == {r \in S : Matches(a, r)}
        Apply(b, r) == IF r \in matching THEN Activated(b, r, r \in won) ELSE b
    IN FoldLeft(Apply, a, [r \in TagRules |-> r])

ToProcess(a, d) == {r \in Candidates(a, d) \cup Documented(a, d) : ~Unstable(r)}

\* The phase of static filters comes before that of tags.
Passed(a, d, won) ==
    LET cleared == Cleared([a EXCEPT !.produced = Nothing], d)
        S == ToProcess(cleared, d)
        static == PhaseApplied(cleared, {r \in S : ~HasFilters(r)}, won)
    IN PhaseApplied(static, {r \in S : HasFilters(r)}, won)
----------------------------------------------------------------------------
NoCascade == [on |-> FALSE, pending |-> Nothing, seen |-> {}, passes |-> 0,
              disturbed |-> FALSE]

CascadeInit ==
    /\ rule \in RuleSets /\ unstable = UnstableRules
    /\ native \in SUBSET NativeTags /\ print = {} /\ combat = FALSE
    /\ actor = [state |-> [r \in TagRules |-> NoActivation], held |-> {}, ready |-> FALSE,
                owners |-> [t \in Tags |-> {}], produced |-> Nothing]
    /\ queue = Full
    /\ cascade = NoCascade
    /\ blurred = FALSE /\ stopped = {} /\ events = 0

\* What buildSignature covers.
Signature(a) ==
    <<[r \in TagRules |-> <<a.state[r].documented, a.state[r].active, a.state[r].canReroll,
                         a.state[r].keyed>>], a.held, combat>>

\* ApplyRulesToInstance of what waits, and of the base if it changed.
Begin ==
    /\ ~cascade.on /\ queue # Nothing
    /\ LET base == IF print = {native} THEN Nothing
                   ELSE [mask |-> {"static", "tag"}, forms |-> {}]
       IN /\ cascade' = [on |-> TRUE, pending |-> Merged(queue, base),
                         seen |-> {Signature(actor)}, passes |-> 0,
                       disturbed |-> FALSE]
          /\ blurred' = (blurred \/ Blurs(queue, base))
    /\ print' = {native}
    /\ queue' = Nothing
    /\ UNCHANGED <<rule, unstable, native, combat, actor, stopped, events>>

\* The next pass, with the rewards that are won; a change that leads to a state
\* that was seen before is dropped, and so is the one of the last pass.
Pass ==
    /\ cascade.on
    /\ \E won \in SUBSET {r \in TagRules : rule[r].gives # {}} :
        LET after == Passed(actor, cascade.pending, won)
            settled == after.produced = Nothing
            seen == Signature(after) \in cascade.seen
            last == cascade.passes + 1 = MaxPasses
        IN /\ actor' = [after EXCEPT !.produced = Nothing]
           /\ cascade' = IF settled \/ seen \/ last THEN NoCascade
                         ELSE [cascade EXCEPT !.pending = after.produced, !.passes = @ + 1,
                                              !.seen = @ \cup {Signature(after)}]
           /\ stopped' = IF ~settled /\ (seen \/ last) THEN stopped \cup {cascade.disturbed}
                       ELSE stopped
    /\ UNCHANGED <<rule, unstable, native, print, combat, queue, blurred, events>>
----------------------------------------------------------------------------
(* What happens to the actor; ScheduleRuleEvaluation merges it.            *)

Event == events < MaxEvents /\ events' = events + 1

Schedule(d) ==
    /\ queue' = Merged(queue, d)
    /\ blurred' = (blurred \/ Blurs(queue, d))

\* The combat handler, for any form.
ChangeCombat ==
    /\ Event
    /\ combat' = ~combat
    /\ Schedule(For("combat", {}))
    /\ cascade' = [cascade EXCEPT !.disturbed = cascade.on]
    /\ UNCHANGED <<rule, unstable, native, print, actor, stopped>>

\* The container sink, for the form of the item, which is none of the tags.
MoveItem ==
    /\ Event
    /\ Schedule(For("inventory", {"item"}))
    /\ UNCHANGED <<rule, unstable, native, print, combat, actor, cascade, stopped>>

\* The base of the actor changes and nothing reports it.
ChangeNative(t) ==
    /\ Event /\ ~cascade.on
    /\ native' = IF t \in native THEN native \ {t} ELSE native \cup {t}
    /\ UNCHANGED <<rule, unstable, print, combat, actor, queue, cascade, blurred, stopped>>

\* Another plugin reports that it changed the base (the sink of NPC updates).
ReportBase ==
    /\ Event
    /\ print' = {}
    /\ Schedule([mask |-> {"static", "tag"}, forms |-> {}])
    /\ UNCHANGED <<rule, unstable, native, combat, actor, cascade, stopped>>

\* A save of this moment is loaded: owners and queue are not part of it
\* (SetCurrentContext), and the actor is evaluated for everything.
Reload ==
    /\ Event /\ ~cascade.on
    /\ actor' = [actor EXCEPT !.ready = FALSE, !.owners = [t \in Tags |-> {}]]
    /\ queue' = Full /\ print' = {}
    /\ UNCHANGED <<rule, unstable, native, combat, cascade, blurred, stopped>>

CascadeNext ==
    \/ Begin \/ Pass \/ ChangeCombat \/ MoveItem \/ ReportBase \/ Reload
    \/ \E t \in NativeTags : ChangeNative(t)

CascadeSpec == CascadeInit /\ [][CascadeNext]_cascadeVars
----------------------------------------------------------------------------
Gave(r, t) == t \in rule[r].gives

\* No tag is left behind: whatever rules shared it, ended or were loaded, a tag
\* of the plugin is that of an active rule that won it or a persistent reward
\* (AddVirtualKeyword, RemoveVirtualKeyword, EnsureVirtualKeywordOwners).
TagsHaveAReason ==
    \A t \in actor.held : \E r \in TagRules :
        /\ Gave(r, t)
        /\ (actor.state[r].active /\ actor.state[r].keyed) \/ actor.state[r].kept

\* Once nothing is left to evaluate, exactly the rules that match the actor are
\* active, although each pass looks only at the rules that the index finds:
\* nothing else waits, no change of any form was merged with one of some forms,
\* and no cascade was stopped (GetCandidateRuleIDs, ApplyRulesToInstance).
Settled == ~cascade.on /\ queue = Nothing /\ print = {native}
Current == \A r \in TagRules : ~Unstable(r) => (actor.state[r].active <=> Matches(actor, r))
SettledIsCurrent == Settled /\ ~blurred /\ stopped = {} => Current

\* "TagRules already documented also have to be seen when one of their dependencies
\* changes" (ApplyRulesToInstancePass): the same whatever changes were merged.
SettledIsAlwaysCurrent == Settled /\ stopped = {} => Current

\* A cascade that nothing disturbs ends by itself: the rules that would go on for
\* ever are the ones that the index has found unstable, and the guards of the loop
\* are not needed (kMaxCascadePasses, visitedStates).
CascadeSettles == FALSE \notin stopped

\* "If checked, item won't be removed when rule becomes invalid" (the editor's
\* help of a persistent reward): the actor keeps a persistent tag.
PersistentStays ==
    \A r \in TagRules : actor.state[r].kept => rule[r].gives \subseteq actor.held
=============================================================================
