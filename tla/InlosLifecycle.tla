--------------------------- MODULE InlosLifecycle ---------------------------
(***************************************************************************)
(* The life cycle of loot in INLOS: the deaths and defeats that are        *)
(* reported, the evaluations they queue, the record INLOS keeps of every   *)
(* actor so that a rule pays once in a life, and the events that start a   *)
(* new life (src/INLOS/Runtime.cpp, src/INLOS/Plugin.cpp).                 *)
(*                                                                         *)
(* Evaluations are SKSE tasks and run one at a time on the main thread.    *)
(* INLOSActorRecovered is a mod event: a script thread may send it in the  *)
(* middle of an evaluation.  What a rule pays is abstracted to the roll of *)
(* its reward groups, which may well select nothing.                       *)
(***************************************************************************)
EXTENDS Integers, Sequences, FiniteSets

CONSTANTS
    Actors,     \* FormIDs of the actors, the player excepted
    NRules,     \* the number of rules, tried in order
    RuleTrigger, \* per rule, the trigger it asks for: "death", "defeat" or "both"
    MaxEvents,  \* bound: deaths, defeats, recoveries, revivals and loads
    MaxTasks    \* bound: evaluations queued at a time

Rules == 1..NRules
Triggers == {"death", "defeat"}

ASSUME RuleAssumption ==
    /\ NRules \in Nat \ {0}
    /\ RuleTrigger \in [Rules -> Triggers \cup {"both"}]

ASSUME InlosBoundAssumption == MaxEvents \in Nat /\ MaxTasks \in Nat

VARIABLES
    life,     \* State::_actors; an actor without an entry has a fresh one
    tasks,    \* the evaluations in the SKSE task queue
    run,      \* the evaluation in progress
    isDead,   \* RE::Actor::IsDead
    unloaded, \* revived actors whose load event is still to come
    rolls,    \* history: rolls of each rule for each actor in its present life
    claims,   \* history: what was reported of each actor in its present life
    declined, \* history: the rules that did not match when they were tried
    muddled,  \* history: actors whose record does not follow their life, see below
    events    \* counter of the bound

lifecycleVars == <<life, tasks, run, isDead, unloaded, rolls, claims, declined, muddled, events>>
historyVars == <<rolls, claims, declined, muddled>>
----------------------------------------------------------------------------
FreshLife == [dead |-> FALSE, deathProcessed |-> FALSE, defeatProcessed |-> FALSE,
              applied |-> {}]

LifecycleState ==
    [dead : BOOLEAN, deathProcessed : BOOLEAN, defeatProcessed : BOOLEAN,
     applied : SUBSET Rules]

Evaluation(actor, trigger) == [actor |-> actor, trigger |-> trigger]
Idle == run = <<>>

\* The actor of the evaluation in progress is a.
Evaluating(a) == ~Idle /\ run[1].actor = a

\* MatchesRule, as far as the trigger goes.
TriggerMatches(r, trigger) == RuleTrigger[r] \in {trigger, "both"}

LifecycleInit ==
    /\ life = [a \in Actors |-> FreshLife]
    /\ tasks = <<>>
    /\ run = <<>>
    /\ isDead = {}
    /\ unloaded = {}
    /\ rolls = [a \in Actors |-> [r \in Rules |-> 0]]
    /\ claims = [a \in Actors |-> {}]
    /\ declined = [a \in Actors |-> {}]
    /\ muddled = {}
    /\ events = 0

Event == events < MaxEvents /\ events' = events + 1

\* The history of an actor starts anew with its life.
NewLife(a) ==
    /\ rolls' = [rolls EXCEPT ![a] = [r \in Rules |-> 0]]
    /\ claims' = [claims EXCEPT ![a] = {}]
    /\ declined' = [declined EXCEPT ![a] = {}]
----------------------------------------------------------------------------
(* The evaluation of a task: Evaluate, State::BeginEvent, CompleteRule.    *)

\* What State::BeginEvent records of an event it accepts.
Begun(state, trigger) ==
    IF trigger = "death" THEN [state EXCEPT !.dead = TRUE, !.deathProcessed = TRUE]
    ELSE [state EXCEPT !.defeatProcessed = TRUE]

\* State::BeginEvent refuses an event that was processed in this life.
Processed(state, trigger) ==
    IF trigger = "death" THEN state.deathProcessed ELSE state.defeatProcessed

\* The task of QueueEvaluation up to the loop over the rules: an actor that is
\* not dead any more has no death to evaluate.
RunTask ==
    /\ Idle
    /\ tasks # <<>>
    /\ tasks' = Tail(tasks)
    /\ LET t == Head(tasks)
           state == life[t.actor]
       IN IF (t.trigger = "death" /\ t.actor \notin isDead) \/ Processed(state, t.trigger)
          THEN UNCHANGED <<life, run>>
          ELSE /\ life' = [life EXCEPT ![t.actor] = Begun(state, t.trigger)]
               /\ run' = <<[actor |-> t.actor, trigger |-> t.trigger,
                            previously |-> state.applied, rule |-> 1, step |-> "match"]>>
    /\ UNCHANGED <<isDead, unloaded, historyVars, events>>

\* The evaluation goes on with the next rule, or ends.
Proceed ==
    run' = IF run[1].rule = NRules THEN <<>>
           ELSE <<[run[1] EXCEPT !.rule = @ + 1, !.step = "match"]>>

\* A rule applied before this event, or that does not match, is passed over.
SkipRule ==
    /\ ~Idle /\ run[1].step = "match"
    /\ LET e == run[1] IN
       /\ declined' = IF e.rule \in e.previously \/ ~TriggerMatches(e.rule, e.trigger)
                      THEN declined
                      ELSE [declined EXCEPT ![e.actor] = @ \cup {<<e.rule, e.trigger>>}]
    /\ Proceed
    /\ UNCHANGED <<life, tasks, isDead, unloaded, rolls, claims, muddled, events>>

\* A rule that matches rolls its groups and hands out what they select.
RollRewards ==
    /\ ~Idle /\ run[1].step = "match"
    /\ LET e == run[1] IN
       /\ e.rule \notin e.previously
       /\ TriggerMatches(e.rule, e.trigger)
       /\ rolls' = [rolls EXCEPT ![e.actor][e.rule] = @ + 1]
       /\ run' = <<[e EXCEPT !.step = "complete"]>>
    /\ UNCHANGED <<life, tasks, isDead, unloaded, claims, declined, muddled, events>>

\* Mutant: only a rule with the trigger "both" is remembered.
CompleteOnlyBoth ==
    /\ ~Idle /\ run[1].step = "complete"
    /\ LET e == run[1] IN
       life' = IF e.trigger = "defeat" /\ RuleTrigger[e.rule] = "both" THEN life
               ELSE [life EXCEPT ![e.actor].applied = @ \cup {e.rule}]
    /\ Proceed
    /\ UNCHANGED <<tasks, isDead, unloaded, historyVars, events>>

\* State::CompleteRule.
CompleteRule ==
    /\ ~Idle /\ run[1].step = "complete"
    /\ LET e == run[1] IN life' = [life EXCEPT ![e.actor].applied = @ \cup {e.rule}]
    /\ Proceed
    /\ UNCHANGED <<tasks, isDead, unloaded, historyVars, events>>
----------------------------------------------------------------------------
(* The events.                                                             *)

\* A sink queues an evaluation, unless the setting of its trigger is off.
Report(a, trigger) ==
    \/ /\ Len(tasks) < MaxTasks
       /\ tasks' = Append(tasks, Evaluation(a, trigger))
       /\ claims' = [claims EXCEPT ![a] = @ \cup {trigger}]
    \/ UNCHANGED <<tasks, claims>>

\* TESDeathEvent.  An actor that came back to life is loaded before it dies again.
Die(a) ==
    /\ Event
    /\ a \notin isDead \cup unloaded
    /\ isDead' = isDead \cup {a}
    /\ Report(a, "death")
    /\ UNCHANGED <<life, run, unloaded, rolls, declined, muddled>>

\* INLOSActorDefeated, which may be sent twice for one defeat.
Defeat(a) ==
    /\ Event
    /\ a \notin isDead \cup unloaded
    /\ Report(a, "defeat")
    /\ UNCHANGED <<life, run, isDead, unloaded, rolls, declined, muddled>>

\* INLOSActorRecovered: State::MarkAlive.  An evaluation of the actor that is in
\* progress goes on with what it read before.
Recover(a) ==
    /\ Event
    /\ a \notin isDead
    /\ life' = IF life[a].dead \/ life[a].defeatProcessed
               THEN [life EXCEPT ![a] = FreshLife] ELSE life
    /\ NewLife(a)
    /\ muddled' = IF Evaluating(a) THEN muddled \cup {a} ELSE muddled
    /\ UNCHANGED <<tasks, run, isDead, unloaded>>

\* The engine brings an actor back to life; its load event comes later.
Revive(a) ==
    /\ Event
    /\ Idle
    /\ a \in isDead
    /\ isDead' = isDead \ {a}
    /\ unloaded' = unloaded \cup {a}
    /\ UNCHANGED <<life, tasks, run, historyVars>>

\* Mutant: a loaded actor may be evaluated again, but what it paid is kept.
MarkedLoadedKeepsApplied(state) ==
    IF state.dead THEN [FreshLife EXCEPT !.applied = state.applied] ELSE state

\* State::MarkLoadedAlive.
MarkedLoadedAlive(state) == IF state.dead THEN FreshLife ELSE state

\* TESObjectLoadedEvent of an actor that is not dead.  The new life of a revived
\* actor starts here; only if its death was evaluated does the record tell the
\* new life from the old.
Loaded(a) ==
    /\ Idle
    /\ a \notin isDead
    /\ life' = [life EXCEPT ![a] = MarkedLoadedAlive(@)]
    /\ unloaded' = unloaded \ {a}
    /\ IF a \in unloaded
       THEN /\ NewLife(a)
            /\ muddled' = IF ~life[a].dead /\ life[a].defeatProcessed
                          THEN muddled \cup {a} ELSE muddled
       ELSE UNCHANGED historyVars
    /\ UNCHANGED <<tasks, run, isDead, events>>

\* kPreLoadGame or kNewGame: State::Revert.  The task queue keeps its tasks; the
\* game that is loaded has its own dead.  The record is in no save, so that an actor
\* who was paid for before a save can be paid for again after loading it: the
\* histories speak of what was paid since the last load only.
Revert ==
    /\ Event
    /\ Idle
    /\ life' = [a \in Actors |-> FreshLife]
    /\ isDead' \in SUBSET Actors
    /\ unloaded' = {}
    /\ rolls' = [a \in Actors |-> [r \in Rules |-> 0]]
    /\ claims' = [a \in Actors |-> {}]
    /\ declined' = [a \in Actors |-> {}]
    /\ muddled' = {}
    /\ UNCHANGED <<tasks, run>>
----------------------------------------------------------------------------
LifecycleNext ==
    \/ RunTask \/ SkipRule \/ RollRewards \/ CompleteRule
    \/ \E a \in Actors : Die(a) \/ Defeat(a) \/ Recover(a) \/ Revive(a) \/ Loaded(a)
    \/ Revert

LifecycleSpec == LifecycleInit /\ [][LifecycleNext]_lifecycleVars
----------------------------------------------------------------------------
(* Properties.                                                             *)

\* Every variable has its type; a death that was processed is recorded.
LifecycleTypeOK ==
    /\ life \in [Actors -> LifecycleState]
    /\ \A a \in Actors : life[a].deathProcessed => life[a].dead
    /\ tasks \in Seq([actor : Actors, trigger : Triggers])
    /\ run = <<>> \/ run[1] \in [actor : Actors, trigger : Triggers,
                                 previously : SUBSET Rules, rule : Rules,
                                 step : {"match", "complete"}]
    /\ isDead \subseteq Actors
    /\ unloaded \subseteq Actors \ isDead
    /\ rolls \in [Actors -> [Rules -> Nat]]
    /\ claims \in [Actors -> SUBSET Triggers]
    /\ declined \in [Actors -> SUBSET (Rules \X Triggers)]
    /\ muddled \subseteq Actors
    /\ events \in 0..MaxEvents

\* Between two loads a rule rolls its rewards at most once in an actor's life, be the
\* actor defeated and then killed, its death reported late or twice, or its recovery
\* reported in the middle of the evaluation (State::BeginEvent, CompleteRule).
OncePerLife == \A a \in Actors, r \in Rules : rolls[a][r] <= 1

Queued(a) == \E i \in DOMAIN tasks : tasks[i].actor = a

\* Every death and every defeat that a sink accepted is answered once its tasks
\* have run: each rule it triggers has rolled in this life, or did not match.
\* Nothing an earlier life left in the record stands in its way, unless the
\* record was renewed in the middle of an evaluation, or could not tell the new
\* life from the old (State::MarkAlive, MarkLoadedAlive, Revert).
EveryClaimIsAnswered ==
    \A a \in Actors \ (muddled \cup unloaded) :
        ~Queued(a) /\ ~Evaluating(a) =>
            \A t \in claims[a], r \in Rules :
                TriggerMatches(r, t) => rolls[a][r] >= 1 \/ <<r, t>> \in declined[a]
=============================================================================
