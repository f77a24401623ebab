--------------------------- MODULE RuleScheduler ---------------------------
(***************************************************************************)
(* The scheduler of rule evaluations of the EDF core: the map of scheduled *)
(* evaluations, the pump that drains it on the game's main thread, the     *)
(* inventory interaction that holds evaluations back while a container     *)
(* menu is open, and the suspension of everything around a save transition *)
(* (src/SaveState.cpp, include/SaveState.h, Events.cpp, plugin.cpp,        *)
(* include/DelayedDispatcher.h).                                           *)
(*                                                                         *)
(* A thread is a sequence of steps it still has to run, todo[t].  One step *)
(* is one critical section of the code (the region between taking and      *)
(* releasing a mutex) or one post to a queue, so that two threads          *)
(* interleave exactly where the code lets them.  A closure handed to the   *)
(* SKSE task interface or to the delayed dispatcher is the first step of   *)
(* its body.                                                               *)
(***************************************************************************)
EXTENDS Integers, Sequences, FiniteSets

CONSTANTS
    Main,          \* the game's main thread: sinks, messages and SKSE tasks
    Loaders,       \* background loading threads (Hook_ShouldBackgroundClone)
    Actors,        \* FormIDs of the actors; the scheduler's map is ordered by them
    Player,        \* the player's FormID
    Kinds,         \* the kinds of change an evaluation delta carries
    Inventory,     \* the kind a container event reports
    LingeringEntry, \* TRUE: UI::GetMenu still finds the menu after its close event
    MaxEvents,     \* bound: events that report a change
    MaxLoads,      \* bound: save transitions and new games
    MaxToken       \* bound: interaction tokens issued by events

Threads == {Main} \cup Loaders

ASSUME ThreadAssumption == Main \notin Loaders

ASSUME ActorAssumption ==
    /\ Actors \subseteq Nat
    /\ Player \in Actors
    /\ Inventory \in Kinds

ASSUME BoundAssumption ==
    /\ LingeringEntry \in BOOLEAN
    /\ MaxEvents \in Nat
    /\ MaxLoads \in Nat
    /\ MaxToken \in Nat

VARIABLES
    suspended,    \* g_ruleEvaluationSuspended
    generation,   \* g_ruleEvaluationPumpGeneration
    pumpFlag,     \* g_ruleEvaluationPumpScheduled
    scheduled,    \* g_scheduledEvaluations: FormID |-> merged delta
    interaction,  \* g_inventoryInteraction
    nextToken,    \* g_nextInventoryInteractionToken
    tasks,        \* the SKSE task queue, in order
    timers,       \* closures waiting in the delayed dispatcher
    todo,         \* the steps each thread still has to run
    contextValid, \* SaveStateManager::_currentContext.isValid
    menuOpen,     \* the container menu is shown (between its two UI events)
    menuEntry,    \* UI::GetMenu<ContainerMenu>() is not null
    loading,      \* between kPreLoadGame and kPostLoadGame
    dead,         \* actors whose IsDead() is true
    owed,         \* history: changes reported and not yet evaluated
    events, loads \* counters of the bounds

vars == <<suspended, generation, pumpFlag, scheduled, interaction, nextToken,
          tasks, timers, todo, contextValid, menuOpen, menuEntry, loading, dead,
          owed, events, loads>>

engineVars == <<menuOpen, menuEntry, loading, dead, events, loads>>
----------------------------------------------------------------------------
(* Deltas, partial maps and the steps of a thread.                         *)

NoInteraction == [active |-> FALSE, token |-> 0, actors |-> {}, pending |-> <<>>]

\* RuleEvaluationDelta::Full: every kind of change.
Full == Kinds

\* The first entry of a std::map: its iteration follows the order of the FormIDs.
IsFirst(a, map) == a \in DOMAIN map /\ \A b \in DOMAIN map : a <= b

Without(map, keys) == [k \in DOMAIN map \ keys |-> map[k]]

\* try_emplace with an empty delta, then RuleEvaluationDelta::Merge.
Merged(map, actor, delta) ==
    [k \in DOMAIN map \cup {actor} |->
        (IF k \in DOMAIN map THEN map[k] ELSE {}) \cup (IF k = actor THEN delta ELSE {})]

\* The partial maps from S to T.
MapOf(S, T) == UNION {[D -> T] : D \in SUBSET S}

PumpOps == {"postPump", "pump", "take", "repost"}

Step ==
    [op : {"schedule", "defer", "enqueue", "apply", "nested"}, actor : Actors,
     delta : SUBSET Kinds]
    \cup [op : PumpOps \cup {"refresh"}, gen : Nat]
    \cup [op : {"begin", "moveScheduled"}, actors : SUBSET Actors]
    \cup [op : {"forgetScheduled", "forgetInteraction"}, actor : Actors]
    \cup [op : {"release"}, token : Nat]
    \cup [op : {"each"}, deltas : MapOf(Actors, SUBSET Kinds)]
    \cup [op : {"end", "suspend", "resetScheduled", "resetInteraction",
                "validate", "invalidate", "resume"}]

ActorStep(op, actor, delta) == [op |-> op, actor |-> actor, delta |-> delta]
PumpStep(op, gen) == [op |-> op, gen |-> gen]
Plain(op) == [op |-> op]

\* Thread t is at a step of kind op.
At(t, op) == todo[t] # <<>> /\ Head(todo[t]).op = op

\* Thread t leaves its current step and has the steps of new before the rest.
Goto(t, new) == todo' = [todo EXCEPT ![t] = new \o Tail(@)]

\* PersistentItemTransferHandler opens or joins the interaction when it found
\* the container menu.
MenuSteps(actor, menuFound) ==
    IF menuFound
    THEN <<[op |-> "begin", actors |-> {actor, Player}],
           [op |-> "moveScheduled", actors |-> {actor, Player}]>>
    ELSE <<>>

\* A loop that calls ScheduleRuleEvaluation for every key of deltas.
EachStep(deltas) == [op |-> "each", deltas |-> deltas]

ResetSteps == <<Plain("resetScheduled"), Plain("resetInteraction")>>
----------------------------------------------------------------------------
Init ==
    /\ suspended = FALSE
    /\ generation = 1
    /\ pumpFlag = FALSE
    /\ scheduled = <<>>
    /\ interaction = NoInteraction
    /\ nextToken = 1
    /\ tasks = <<>>
    /\ timers = {}
    /\ todo = [t \in Threads |-> <<>>]
    /\ contextValid = TRUE
    /\ menuOpen = FALSE
    /\ menuEntry = FALSE
    /\ loading = FALSE
    /\ dead = {}
    /\ owed = [a \in Actors |-> {}]
    /\ events = 0
    /\ loads = 0
----------------------------------------------------------------------------
(* ScheduleRuleEvaluation: the suspension test, the deferral under the     *)
(* interaction mutex, the insertion under the scheduler mutex and the post *)
(* of the pump, four steps that another thread may come between.           *)

Schedule(t) ==
    /\ At(t, "schedule")
    /\ LET s == Head(todo[t]) IN
       IF suspended
       THEN /\ Goto(t, <<>>)
            /\ owed' = [owed EXCEPT ![s.actor] = @ \ s.delta]
       ELSE /\ Goto(t, <<ActorStep("defer", s.actor, s.delta)>>)
            /\ owed' = [owed EXCEPT ![s.actor] = @ \cup s.delta]
    /\ UNCHANGED <<suspended, generation, pumpFlag, scheduled, interaction,
                   nextToken, tasks, timers, contextValid, engineVars>>

\* The actor's evaluations wait for the end of the inventory interaction.
Deferred(actor) == interaction.active /\ actor \in interaction.actors

DeferTo(actor, delta) ==
    interaction' = [interaction EXCEPT !.pending = Merged(@, actor, delta)]

DeferInventoryInteractionEvaluation(t) ==
    /\ At(t, "defer")
    /\ LET s == Head(todo[t]) IN
       IF Deferred(s.actor)
       THEN Goto(t, <<>>) /\ DeferTo(s.actor, s.delta)
       ELSE Goto(t, <<ActorStep("enqueue", s.actor, s.delta)>>) /\ UNCHANGED interaction
    /\ UNCHANGED <<suspended, generation, pumpFlag, scheduled, nextToken, tasks,
                   timers, contextValid, owed, engineVars>>

\* Mutant: the flag is tested but never set.
EnqueueFlagUnset(t) ==
    /\ At(t, "enqueue")
    /\ LET s == Head(todo[t])
           startPump == s.actor \notin DOMAIN scheduled /\ ~pumpFlag
       IN /\ scheduled' = Merged(scheduled, s.actor, s.delta)
          /\ Goto(t, IF startPump THEN <<PumpStep("postPump", generation)>> ELSE <<>>)
    /\ UNCHANGED <<suspended, generation, pumpFlag, interaction, nextToken, tasks,
                   timers, contextValid, owed, engineVars>>

\* Mutant: an actor already in the map keeps its old delta.
EnqueueUnmerged(t) ==
    /\ At(t, "enqueue")
    /\ LET s == Head(todo[t])
           startPump == s.actor \notin DOMAIN scheduled /\ ~pumpFlag
       IN /\ scheduled' = IF s.actor \in DOMAIN scheduled THEN scheduled
                          ELSE Merged(scheduled, s.actor, s.delta)
          /\ pumpFlag' = (pumpFlag \/ startPump)
          /\ Goto(t, IF startPump THEN <<PumpStep("postPump", generation)>> ELSE <<>>)
    /\ UNCHANGED <<suspended, generation, interaction, nextToken, tasks, timers,
                   contextValid, owed, engineVars>>

Enqueue(t) ==
    /\ At(t, "enqueue")
    /\ LET s == Head(todo[t])
           startPump == s.actor \notin DOMAIN scheduled /\ ~pumpFlag
       IN /\ scheduled' = Merged(scheduled, s.actor, s.delta)
          /\ pumpFlag' = (pumpFlag \/ startPump)
          /\ Goto(t, IF startPump THEN <<PumpStep("postPump", generation)>> ELSE <<>>)
    /\ UNCHANGED <<suspended, generation, interaction, nextToken, tasks, timers,
                   contextValid, owed, engineVars>>

\* taskInterface->AddTask of the pump, after the mutex is released.
PostPump(t) ==
    /\ At(t, "postPump")
    /\ tasks' = Append(tasks, PumpStep("pump", Head(todo[t]).gen))
    /\ Goto(t, <<>>)
    /\ UNCHANGED <<suspended, generation, pumpFlag, scheduled, interaction,
                   nextToken, timers, contextValid, owed, engineVars>>
----------------------------------------------------------------------------
(* ProcessScheduledRuleEvaluations, on the main thread.                    *)

Pump(t) ==
    /\ At(t, "pump")
    /\ LET gen == Head(todo[t]).gen IN
       Goto(t, IF gen # generation \/ suspended THEN <<>> ELSE <<PumpStep("take", gen)>>)
    /\ UNCHANGED <<suspended, generation, pumpFlag, scheduled, interaction,
                   nextToken, tasks, timers, contextValid, owed, engineVars>>

\* One round of the loop.  After the evaluation the pump goes on or, once the
\* frame budget or the limit of actors is used up, leaves the loop.
Take(t) ==
    /\ At(t, "take")
    /\ LET gen == Head(todo[t]).gen IN
       \/ /\ DOMAIN scheduled = {}
          /\ pumpFlag' = FALSE
          /\ Goto(t, <<>>)
          /\ UNCHANGED scheduled
       \/ \E a \in Actors, next \in {"take", "repost"} :
          /\ IsFirst(a, scheduled)
          /\ Goto(t, <<ActorStep("apply", a, scheduled[a]), PumpStep(next, gen)>>)
          /\ scheduled' = Without(scheduled, {a})
          /\ UNCHANGED pumpFlag
    /\ UNCHANGED <<suspended, generation, interaction, nextToken, tasks, timers,
                   contextValid, owed, engineVars>>

\* ApplyRulesToInstance of one actor.  It consumes the delta; the rewards it
\* hands out may raise a container event for the same actor before it returns.
Apply(t) ==
    /\ At(t, "apply")
    /\ LET s == Head(todo[t])
           evaluates == s.actor \notin dead /\ ~suspended /\ contextValid
       IN /\ owed' = [owed EXCEPT ![s.actor] = @ \ s.delta]
          /\ \/ Goto(t, <<>>)
             \/ /\ evaluates
                /\ menuEntry => nextToken < MaxToken
                /\ Goto(t, Append(MenuSteps(s.actor, menuEntry),
                                  ActorStep("nested", s.actor, {Inventory})))
    /\ UNCHANGED <<suspended, generation, pumpFlag, scheduled, interaction,
                   nextToken, tasks, timers, contextValid, engineVars>>

\* ScheduleRuleEvaluation called from inside the evaluation of the same actor:
\* deferred like any other, else the running cascade takes the delta over.
Nested(t) ==
    /\ At(t, "nested")
    /\ LET s == Head(todo[t]) IN
       IF ~suspended /\ Deferred(s.actor)
       THEN /\ DeferTo(s.actor, s.delta)
            /\ owed' = [owed EXCEPT ![s.actor] = @ \cup s.delta]
       ELSE UNCHANGED <<interaction, owed>>
    /\ Goto(t, <<>>)
    /\ UNCHANGED <<suspended, generation, pumpFlag, scheduled, nextToken, tasks,
                   timers, contextValid, engineVars>>

\* Mutant: the pump stops at its budget without posting its successor.
RepostNothing(t) ==
    /\ At(t, "repost")
    /\ pumpFlag' = (pumpFlag /\ DOMAIN scheduled # {})
    /\ Goto(t, <<>>)
    /\ UNCHANGED <<suspended, generation, scheduled, interaction, nextToken, tasks,
                   timers, contextValid, owed, engineVars>>

Repost(t) ==
    /\ At(t, "repost")
    /\ LET hasMore == DOMAIN scheduled # {} IN
       /\ pumpFlag' = (pumpFlag /\ hasMore)
       /\ Goto(t, IF hasMore THEN <<PumpStep("postPump", Head(todo[t]).gen)>> ELSE <<>>)
    /\ UNCHANGED <<suspended, generation, scheduled, interaction, nextToken, tasks,
                   timers, contextValid, owed, engineVars>>
----------------------------------------------------------------------------
(* BeginInventoryInteraction and EndInventoryInteraction.                  *)

BeginInventoryInteraction(t) ==
    /\ At(t, "begin")
    /\ LET joined == Head(todo[t]).actors IN
       interaction' =
          [active |-> TRUE,
           token |-> nextToken,
           actors |-> joined \cup (IF interaction.active THEN interaction.actors ELSE {}),
           pending |-> IF interaction.active THEN interaction.pending ELSE <<>>]
    /\ nextToken' = nextToken + 1
    /\ Goto(t, <<>>)
    /\ UNCHANGED <<suspended, generation, pumpFlag, scheduled, tasks, timers,
                   contextValid, owed, engineVars>>

\* Mutant: what was queued before the menu opened stays queued.
MoveNothing(t) ==
    /\ At(t, "moveScheduled")
    /\ Goto(t, <<>>)
    /\ UNCHANGED <<suspended, generation, pumpFlag, scheduled, interaction, nextToken,
                   tasks, timers, contextValid, owed, engineVars>>

\* The evaluations already queued join the batch of the interaction.
MoveScheduled(t) ==
    /\ At(t, "moveScheduled")
    /\ LET moved == Head(todo[t]).actors \cap DOMAIN scheduled
           Delta(map, a) == IF a \in DOMAIN map THEN map[a] ELSE {}
           held == interaction.pending
       IN /\ interaction' = [interaction EXCEPT !.pending =
                [a \in DOMAIN held \cup moved |->
                    Delta(held, a) \cup (IF a \in moved THEN scheduled[a] ELSE {})]]
          /\ scheduled' = Without(scheduled, moved)
    /\ Goto(t, <<>>)
    /\ UNCHANGED <<suspended, generation, pumpFlag, nextToken, tasks, timers,
                   contextValid, owed, engineVars>>

\* Mutant: the release is bound to the next token instead of the current one.
EndNextToken(t) ==
    /\ At(t, "end")
    /\ timers' = IF interaction.active
                 THEN timers \cup {[op |-> "release", token |-> nextToken]}
                 ELSE timers
    /\ Goto(t, <<>>)
    /\ UNCHANGED <<suspended, generation, pumpFlag, scheduled, interaction,
                   nextToken, tasks, contextValid, owed, engineVars>>

EndInventoryInteraction(t) ==
    /\ At(t, "end")
    /\ timers' = IF interaction.active
                 THEN timers \cup {[op |-> "release", token |-> interaction.token]}
                 ELSE timers
    /\ Goto(t, <<>>)
    /\ UNCHANGED <<suspended, generation, pumpFlag, scheduled, interaction,
                   nextToken, tasks, contextValid, owed, engineVars>>

Release(t) ==
    /\ At(t, "release")
    /\ IF ~interaction.active \/ interaction.token # Head(todo[t]).token
       THEN Goto(t, <<>>) /\ UNCHANGED interaction
       ELSE /\ interaction' = NoInteraction
            /\ Goto(t, <<EachStep([a \in DOMAIN interaction.pending \cap interaction.actors
                                    |-> interaction.pending[a]])>>)
    /\ UNCHANGED <<suspended, generation, pumpFlag, scheduled, nextToken, tasks,
                   timers, contextValid, owed, engineVars>>

\* One round of a loop that schedules actors; the dead ones are passed over.
Each(t) ==
    /\ At(t, "each")
    /\ LET deltas == Head(todo[t]).deltas IN
       \/ deltas = <<>> /\ Goto(t, <<>>)
       \/ \E a \in Actors :
          /\ IsFirst(a, deltas)
          /\ LET rest == EachStep(Without(deltas, {a})) IN
             Goto(t, IF a \in dead THEN <<rest>>
                     ELSE <<ActorStep("schedule", a, deltas[a]), rest>>)
    /\ UNCHANGED <<suspended, generation, pumpFlag, scheduled, interaction, nextToken,
                   tasks, timers, contextValid, owed, engineVars>>
----------------------------------------------------------------------------
(* Forgetting one actor, resetting everything, and the save transitions.   *)

ForgetScheduled(t) ==
    /\ At(t, "forgetScheduled")
    /\ LET a == Head(todo[t]).actor IN
       /\ scheduled' = Without(scheduled, {a})
       /\ owed' = [owed EXCEPT ![a] = {}]
    /\ Goto(t, <<>>)
    /\ UNCHANGED <<suspended, generation, pumpFlag, interaction, nextToken, tasks,
                   timers, contextValid, engineVars>>

ForgetInteraction(t) ==
    /\ At(t, "forgetInteraction")
    /\ LET a == Head(todo[t]).actor IN
       /\ interaction' = [interaction EXCEPT !.actors = @ \ {a},
                                             !.pending = Without(@, {a})]
       /\ owed' = [owed EXCEPT ![a] = {}]
    /\ Goto(t, <<>>)
    /\ UNCHANGED <<suspended, generation, pumpFlag, scheduled, nextToken, tasks,
                   timers, contextValid, engineVars>>

\* Mutant: the generation is counted down.
ResetGenerationDown(t) ==
    /\ At(t, "resetScheduled")
    /\ scheduled' = <<>>
    /\ pumpFlag' = FALSE
    /\ generation' = generation - 1
    /\ owed' = [a \in Actors |-> {}]
    /\ Goto(t, <<>>)
    /\ UNCHANGED <<suspended, interaction, nextToken, tasks, timers, contextValid,
                   engineVars>>

\* Mutant: the flag of the disowned pump stays set.
ResetKeepsFlag(t) ==
    /\ At(t, "resetScheduled")
    /\ scheduled' = <<>>
    /\ generation' = generation + 1
    /\ owed' = [a \in Actors |-> {}]
    /\ Goto(t, <<>>)
    /\ UNCHANGED <<suspended, pumpFlag, interaction, nextToken, tasks, timers,
                   contextValid, engineVars>>

\* ResetRuleEvaluationRuntimeState, scheduler part.
ResetScheduled(t) ==
    /\ At(t, "resetScheduled")
    /\ scheduled' = <<>>
    /\ pumpFlag' = FALSE
    /\ generation' = generation + 1
    /\ owed' = [a \in Actors |-> {}]
    /\ Goto(t, <<>>)
    /\ UNCHANGED <<suspended, interaction, nextToken, tasks, timers, contextValid,
                   engineVars>>

\* ResetRuleEvaluationRuntimeState, interaction part.
ResetInteraction(t) ==
    /\ At(t, "resetInteraction")
    /\ interaction' = NoInteraction
    /\ nextToken' = nextToken + 1
    /\ owed' = [a \in Actors |-> {}]
    /\ Goto(t, <<>>)
    /\ UNCHANGED <<suspended, generation, pumpFlag, scheduled, tasks, timers,
                   contextValid, engineVars>>

SuspendRuleEvaluationForLoad(t) ==
    /\ At(t, "suspend")
    /\ suspended' = TRUE
    /\ Goto(t, ResetSteps)
    /\ UNCHANGED <<generation, pumpFlag, scheduled, interaction, nextToken, tasks,
                   timers, contextValid, owed, engineVars>>

\* The assignment of _currentContext.isValid in SetCurrentContext ("validate")
\* and ClearContext ("invalidate"), after the reset each of them starts with.
SetContext(t) ==
    /\ At(t, "validate") \/ At(t, "invalidate")
    /\ contextValid' = At(t, "validate")
    /\ Goto(t, <<>>)
    /\ UNCHANGED <<suspended, generation, pumpFlag, scheduled, interaction,
                   nextToken, tasks, timers, owed, engineVars>>

\* The post-load refresh is bound to the generation read here.
ResumeRuleEvaluationAfterLoad(t) ==
    /\ At(t, "resume")
    /\ suspended' = FALSE
    /\ timers' = timers \cup {PumpStep("refresh", generation)}
    /\ Goto(t, <<>>)
    /\ UNCHANGED <<generation, pumpFlag, scheduled, interaction, nextToken, tasks,
                   contextValid, owed, engineVars>>

\* The delayed body of ResumeRuleEvaluationAfterLoad.
Refresh(t) ==
    /\ At(t, "refresh")
    /\ Goto(t, IF suspended \/ Head(todo[t]).gen # generation THEN <<>>
               ELSE <<EachStep([a \in Actors |-> Full])>>)
    /\ UNCHANGED <<suspended, generation, pumpFlag, scheduled, interaction,
                   nextToken, tasks, timers, contextValid, owed, engineVars>>
----------------------------------------------------------------------------
(* Where steps come from: the queues, the events and the messages.         *)

schedulerVars == <<suspended, generation, pumpFlag, scheduled, interaction,
                   nextToken, contextValid, owed>>

Idle(t) == todo[t] = <<>>
Start(t, steps) == Idle(t) /\ todo' = [todo EXCEPT ![t] = steps]

\* The main loop runs the next SKSE task.
RunTask ==
    /\ tasks # <<>>
    /\ Start(Main, <<Head(tasks)>>)
    /\ tasks' = Tail(tasks)
    /\ UNCHANGED <<schedulerVars, timers, engineVars>>

\* DelayedDispatcher::RunLoop: a due closure adds its body as an SKSE task.
FireTimer(timer) ==
    /\ timer \in timers
    /\ timers' = timers \ {timer}
    /\ tasks' = Append(tasks, timer)
    /\ UNCHANGED <<schedulerVars, todo, engineVars>>

Event == events < MaxEvents /\ events' = events + 1

\* A sink reports a change of one actor: load, equipment, combat, location, cell.
ReportChange ==
    /\ Event
    /\ \E a \in Actors, delta \in {{k} : k \in Kinds} \cup {Full} :
        Start(Main, <<ActorStep("schedule", a, delta)>>)
    /\ UNCHANGED <<schedulerVars, tasks, timers, menuOpen, menuEntry, loading, dead, loads>>

\* A quest event, or ScheduleAllLoadedRuleEvaluations: every loaded actor.
ReportAll ==
    /\ Event
    /\ \E delta \in {{k} : k \in Kinds} \cup {Full} :
        Start(Main, <<EachStep([a \in Actors |-> delta])>>)
    /\ UNCHANGED <<schedulerVars, tasks, timers, menuOpen, menuEntry, loading, dead, loads>>

\* PlayerLevel: the player is evaluated at once unless in combat (nothing else
\* reports the player's level), the other actors are scheduled.
LevelUp ==
    /\ Event
    /\ \E k \in Kinds \ {Inventory} :
        LET others == <<EachStep([a \in Actors \ {Player} |-> {k}])>> IN
        Start(Main, others) \/ Start(Main, <<ActorStep("apply", Player, {k})>> \o others)
    /\ UNCHANGED <<schedulerVars, tasks, timers, menuOpen, menuEntry, loading, dead, loads>>

\* PersistentItemTransferHandler: an item leaves an actor's inventory, enters
\* one, or goes from an actor to another.
TransferSteps(a) ==
    Append(MenuSteps(a, menuEntry), ActorStep("schedule", a, {Inventory}))

ContainerChanged ==
    /\ Event
    /\ menuEntry => nextToken < MaxToken
    /\ \E a \in Actors :
        \/ Start(Main, TransferSteps(a))
        \/ \E b \in Actors \ {a} : Start(Main, TransferSteps(a) \o TransferSteps(b))
    /\ UNCHANGED <<schedulerVars, tasks, timers, menuOpen, menuEntry, loading, dead, loads>>

\* Hook_ShouldBackgroundClone, on a loading thread.
BackgroundClone(t) ==
    /\ Event
    /\ \E a \in Actors \ (dead \cup {Player}) :
        Start(t, <<ActorStep("schedule", a, Full)>>)
    /\ UNCHANGED <<schedulerVars, tasks, timers, menuOpen, menuEntry, loading, dead, loads>>

\* LoadEventHandler with loaded = false: ForgetRuleEvaluationRuntimeState.
Unload ==
    /\ Event
    /\ \E a \in Actors \ {Player} :
        Start(Main, <<[op |-> "forgetScheduled", actor |-> a],
                      [op |-> "forgetInteraction", actor |-> a]>>)
    /\ UNCHANGED <<schedulerVars, tasks, timers, menuOpen, menuEntry, loading, dead, loads>>

\* The container menu opens on an actor or on a plain container.
OpenMenu ==
    /\ ~menuOpen /\ ~menuEntry /\ ~loading
    /\ nextToken < MaxToken
    /\ menuOpen' = TRUE
    /\ menuEntry' = TRUE
    /\ \E target \in SUBSET Actors :
        /\ Cardinality(target) <= 1
        /\ Start(Main, <<[op |-> "begin", actors |-> target \cup {Player}],
                         [op |-> "moveScheduled", actors |-> target \cup {Player}]>>)
    /\ UNCHANGED <<schedulerVars, tasks, timers, loading, dead, events, loads>>

CloseMenu ==
    /\ menuOpen
    /\ menuOpen' = FALSE
    /\ menuEntry' = LingeringEntry
    /\ Start(Main, <<Plain("end")>>)
    /\ UNCHANGED <<schedulerVars, tasks, timers, loading, dead, events, loads>>

\* The engine drops the menu object some time after the close event.
DropMenuEntry ==
    /\ menuEntry /\ ~menuOpen
    /\ menuEntry' = FALSE
    /\ UNCHANGED <<schedulerVars, tasks, timers, todo, menuOpen, loading, dead,
                   events, loads>>

Kill ==
    /\ \E a \in Actors \ (dead \cup {Player}) : dead' = dead \cup {a}
    /\ Idle(Main)
    /\ UNCHANGED <<schedulerVars, tasks, timers, todo, menuOpen, menuEntry, loading,
                   events, loads>>

Load == loads < MaxLoads /\ loads' = loads + 1

\* kPreLoadGame: without a save name nothing follows the suspension; a readable
\* header sets the new context, an unreadable one clears the context.
PreLoadGame ==
    /\ Load
    /\ ~loading
    /\ loading' = TRUE
    /\ \E outcome \in {"noName", "validate", "invalidate"} :
        Start(Main, <<Plain("suspend")>>
                    \o (IF outcome = "noName" THEN <<>>
                        ELSE ResetSteps \o <<Plain(outcome)>>))
    /\ UNCHANGED <<schedulerVars, tasks, timers, menuOpen, menuEntry, dead, events>>

PostLoadGame ==
    /\ loading
    /\ loading' = FALSE
    /\ Start(Main, <<Plain("resume")>>)
    /\ UNCHANGED <<schedulerVars, tasks, timers, menuOpen, menuEntry, dead, events, loads>>

NewGame ==
    /\ Load
    /\ ~loading
    /\ Start(Main, ResetSteps \o <<Plain("validate"), Plain("resume")>>)
    /\ UNCHANGED <<schedulerVars, tasks, timers, menuOpen, menuEntry, loading, dead, events>>
----------------------------------------------------------------------------
StepOf(t) ==
    \/ Schedule(t) \/ DeferInventoryInteractionEvaluation(t) \/ Enqueue(t) \/ PostPump(t)
    \/ Pump(t) \/ Take(t) \/ Apply(t) \/ Nested(t) \/ Repost(t)
    \/ BeginInventoryInteraction(t) \/ MoveScheduled(t)
    \/ EndInventoryInteraction(t) \/ Release(t) \/ Each(t)
    \/ ForgetScheduled(t) \/ ForgetInteraction(t)
    \/ ResetScheduled(t) \/ ResetInteraction(t)
    \/ SuspendRuleEvaluationForLoad(t) \/ SetContext(t)
    \/ ResumeRuleEvaluationAfterLoad(t) \/ Refresh(t)

EngineEvent ==
    \/ ReportChange \/ ReportAll \/ LevelUp \/ ContainerChanged \/ Unload
    \/ OpenMenu \/ CloseMenu \/ DropMenuEntry \/ Kill
    \/ PreLoadGame \/ PostLoadGame \/ NewGame
    \/ \E t \in Loaders : BackgroundClone(t)

Next ==
    \/ \E t \in Threads : StepOf(t)
    \/ RunTask
    \/ \E timer \in timers : FireTimer(timer)
    \/ EngineEvent

Spec == Init /\ [][Next]_vars

\* Every thread runs on, the main loop keeps draining the task queue however
\* many events it handles, the dispatcher's clock advances, the player
\* eventually closes a menu and the engine eventually finishes a load.
Fairness ==
    /\ \A t \in Threads : WF_vars(StepOf(t))
    /\ SF_vars(RunTask)
    /\ WF_vars(\E timer \in timers : FireTimer(timer))
    /\ SF_vars(CloseMenu)
    /\ SF_vars(PostLoadGame)

FairSpec == Spec /\ Fairness
----------------------------------------------------------------------------
(* Properties.                                                             *)

\* Every variable has its type.
TypeOK ==
    /\ suspended \in BOOLEAN
    /\ generation \in Nat
    /\ pumpFlag \in BOOLEAN
    /\ scheduled \in MapOf(Actors, SUBSET Kinds)
    /\ interaction \in [active : BOOLEAN, token : Nat, actors : SUBSET Actors,
                        pending : MapOf(Actors, SUBSET Kinds)]
    /\ nextToken \in Nat
    /\ tasks \in Seq(Step)
    /\ timers \in SUBSET Step
    /\ todo \in [Threads -> Seq(Step)]
    /\ contextValid \in BOOLEAN
    /\ menuOpen \in BOOLEAN
    /\ menuEntry \in BOOLEAN
    /\ loading \in BOOLEAN
    /\ dead \in SUBSET Actors
    /\ owed \in [Actors -> SUBSET Kinds]
    /\ events \in Nat
    /\ loads \in Nat

\* A pump of the current generation: queued, running or about to be posted.
Live(step) == step.op \in PumpOps /\ step.gen = generation

\* At most one pump of the current generation exists, in the task queue or in
\* the hands of a thread, whatever threads report changes and whenever the
\* state is reset: no two pumps drain the map side by side
\* (g_ruleEvaluationPumpScheduled, g_ruleEvaluationPumpGeneration).
SinglePump ==
    /\ \A i, j \in DOMAIN tasks : Live(tasks[i]) /\ Live(tasks[j]) => i = j
    /\ \A t, u \in Threads : \A i \in DOMAIN todo[t], j \in DOMAIN todo[u] :
        Live(todo[t][i]) /\ Live(todo[u][j]) => t = u /\ i = j
    /\ \A i \in DOMAIN tasks, t \in Threads : \A j \in DOMAIN todo[t] :
        ~(Live(tasks[i]) /\ Live(todo[t][j]))

SomePump ==
    \/ \E i \in DOMAIN tasks : Live(tasks[i])
    \/ \E t \in Threads : \E i \in DOMAIN todo[t] : Live(todo[t][i])

\* While the flag that keeps ScheduleRuleEvaluation from posting a pump is set,
\* or an evaluation is scheduled, a pump is on its way; else nothing would be
\* evaluated until the next reset.
PumpArmed == pumpFlag \/ DOMAIN scheduled # {} => SomePump

\* "[RuleScheduler] Evaluation resumed after save transition."
\* (ResumeRuleEvaluationAfterLoad): once evaluation is resumed the scheduler is
\* able to evaluate what it is given.
ResumedIsArmed == ~suspended => PumpArmed

\* What a step still carries for an actor.
Carried(step, a) ==
    CASE step.op \in {"schedule", "defer", "enqueue", "apply", "nested"} /\ step.actor = a -> step.delta
      [] step.op = "each" /\ a \in DOMAIN step.deltas -> step.deltas[a]
      [] OTHER -> {}

HeldBy(a, k) ==
    \/ a \in DOMAIN scheduled /\ k \in scheduled[a]
    \/ a \in DOMAIN interaction.pending /\ k \in interaction.pending[a]
    \/ \E t \in Threads : \E i \in DOMAIN todo[t] : k \in Carried(todo[t][i], a)

\* A change accepted by ScheduleRuleEvaluation and not yet evaluated is in the
\* map, in the batch of the interaction or in the hands of a thread: no
\* sequence of menus, releases and container events drops it on the way.
NoChangeLost ==
    \A a \in Actors \ dead : \A k \in owed[a] : HeldBy(a, k)

\* The pump hands actor a over to ApplyRulesToInstance in this step.
Evaluates(a) ==
    \E t \in Threads : At(t, "take") /\ a \in DOMAIN scheduled /\ a \notin DOMAIN scheduled'

\* "An evaluation queued just before the menu opened must not run midway
\* through the menu transaction" (BeginInventoryInteraction): the pump takes no
\* actor whose evaluations the interaction holds back.
NoEvaluationMidMenu == [][\A a \in Actors : Evaluates(a) => ~Deferred(a)]_vars

ReleasePending ==
    LET IsRelease(step) == step.op = "release" /\ step.token = interaction.token
    IN \/ \E timer \in timers : IsRelease(timer)
       \/ \E i \in DOMAIN tasks : IsRelease(tasks[i])

\* An interaction whose menu is closed has its release on the way, for the token
\* it now has: the batch it holds back is not held back for ever
\* (EndInventoryInteraction, and the token test of its delayed body).
ReleaseArmed == interaction.active /\ ~menuOpen /\ Idle(Main) => ReleasePending

\* Every accepted change is eventually evaluated, or dropped because its actor
\* died or was unloaded or because the game's state was replaced.
EventuallyEvaluated ==
    \A a \in Actors, k \in Kinds :
        k \in owed[a] ~> (k \notin owed[a] \/ a \in dead)

\* Every inventory interaction eventually ends.
InteractionEnds == interaction.active ~> ~interaction.active
=============================================================================
