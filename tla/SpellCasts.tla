----------------------------- MODULE SpellCasts -----------------------------
(***************************************************************************)
(* Spells that a rule casts on an actor when it activates                  *)
(* (src/SaveState.cpp).  The actor may not be fit for it at that time, so  *)
(* that the cast is a request that waits in a timer of the dispatcher,     *)
(* then in the task queue of the main thread, and is retried; meanwhile    *)
(* the rule may end, be activated again, be edited, or the game be saved   *)
(* and another one loaded.                                                 *)
(*                                                                         *)
(* One rule with spell rewards on one actor.  Filters and levels are one   *)
(* Boolean.  Ending a rule dispels what it cast; the list of active        *)
(* effects may still hold an effect just dispelled, so that whether the    *)
(* rule may roll again is open.                                            *)
(***************************************************************************)
EXTENDS Integers, FiniteSets

CONSTANTS
    CastRewards,   \* the rewards of type Spell that are cast
    LastingCasts,  \* those that are persistent
    MaxAttempts,   \* kMaxSpellCastAttempts
    MaxActivations,\* bound: activations of the rule
    MaxTurns       \* bound: changes of the rule's conditions, edits, saves and loads

ASSUME CastAssumption ==
    /\ LastingCasts \subseteq CastRewards
    /\ MaxAttempts \in Nat \ {0}
    /\ MaxActivations \in Nat /\ MaxTurns \in Nat

VARIABLES
    ruleVersion,   \* Rule::version
    holds,         \* the rule is enabled and its conditions hold for the actor
    applied,       \* AppliedRuleState of the rule
    nextActivation,     \* g_nextRuleActivationToken
    casts,         \* PendingSpellRewardCast, each in a timer or in the task queue
    generation_C,  \* g_ruleEvaluationPumpGeneration
    suspended_C,   \* g_ruleEvaluationSuspended
    fit,           \* "ready", "away" (no cell, 3D or process; or a menu) or "gone"
    effects,       \* the effects on the actor
    saved_C,       \* the last save
    given,         \* history: per reward and activation, how often it was cast
    turns          \* counter of the bound

castVars == <<ruleVersion, holds, applied, nextActivation, casts, generation_C, suspended_C,
              fit, effects, saved_C, given, turns>>

NotActive == [active |-> FALSE, version |-> 0, reroll |-> TRUE, token |-> 0,
              keys |-> {}, lasting |-> {}]
Activations == 1..MaxActivations
----------------------------------------------------------------------------
\* ScheduleSafeSpellRewardCast, for the rewards of one activation.
Request(r, token) ==
    [reward |-> r, version |-> ruleVersion, token |-> token, generation |-> generation_C,
     attempt |-> 0, at |-> "timer"]

\* RemoveAppliedActivationRewards, of an activation whose effects may still be
\* listed after they were dispelled.
RemovedApplied(a, dispelled) ==
    [a EXCEPT !.active = FALSE, !.token = 0, !.reroll = dispelled,
              !.keys = IF dispelled THEN {} ELSE @]

Dispelled(a) == effects \ (a.keys \ LastingCasts)

\* Mutant: an activation keeps the token of the one before.
StartedAgain(a, won) ==
    [a EXCEPT !.active = TRUE, !.reroll = TRUE, !.version = ruleVersion,
              !.token = IF @ = 0 THEN 1 ELSE @, !.keys = won,
              !.lasting = @ \cup (won \cap LastingCasts)]

\* StartRuleActivation.
StartedRoll(a, won) ==
    [a EXCEPT !.active = TRUE, !.reroll = TRUE, !.version = ruleVersion,
              !.token = nextActivation, !.keys = won,
              !.lasting = @ \cup (won \cap LastingCasts)]

\* A new version of the rule ends what the old one gave, and rolls.
Superseded(a) ==
    IF a.version \in {0, ruleVersion} THEN a
    ELSE [a EXCEPT !.active = FALSE, !.token = 0, !.reroll = TRUE,
                   !.keys = {}, !.lasting = {}]
----------------------------------------------------------------------------
CastInit ==
    /\ ruleVersion = 1
    /\ holds = TRUE
    /\ applied = NotActive
    /\ nextActivation = 1
    /\ casts = {}
    /\ generation_C = 0
    /\ suspended_C = FALSE
    /\ fit \in {"ready", "away"}
    /\ effects = {}
    /\ saved_C = [applied |-> NotActive, effects |-> {}]
    /\ given = [r \in CastRewards |-> [t \in Activations |-> 0]]
    /\ turns = 0

\* A pass in which the rule does not match: it ends.
EndRule ==
    /\ ~suspended_C
    /\ fit # "gone"
    /\ ~holds
    /\ applied.active
    /\ \E dispelled \in BOOLEAN :
        /\ effects \cap (applied.keys \ LastingCasts) = {} => dispelled
        /\ applied' = RemovedApplied(applied, dispelled)
    /\ effects' = Dispelled(applied)
    /\ UNCHANGED <<ruleVersion, holds, nextActivation, casts, generation_C, suspended_C, fit,
                   saved_C, given, turns>>

\* A pass in which the rule matches and is not active, or has a new version: it rolls,
\* and a persistent reward that it gave before is not given again.
ActivateRule ==
    /\ ~suspended_C
    /\ fit # "gone"
    /\ holds
    /\ LET a == Superseded(applied)
       IN /\ ~a.active /\ a.reroll
          /\ nextActivation \in Activations
          /\ \E won \in SUBSET CastRewards :
              /\ applied' = StartedRoll(a, won)
              /\ casts' = casts \cup {Request(r, applied'.token) : r \in won \ a.lasting}
          /\ effects' = IF applied.active /\ a # applied THEN Dispelled(applied) ELSE effects
    /\ nextActivation' = nextActivation + 1
    /\ UNCHANGED <<ruleVersion, holds, generation_C, suspended_C, fit, saved_C, given, turns>>

\* The same for a rule that may not roll: its rewards stay documented, nothing is cast.
ReactivateRule ==
    /\ ~suspended_C
    /\ fit # "gone"
    /\ holds
    /\ ~applied.active /\ ~applied.reroll /\ applied.version = ruleVersion
    /\ applied' = [applied EXCEPT !.active = TRUE]
    /\ UNCHANGED <<ruleVersion, holds, nextActivation, casts, generation_C, suspended_C, fit,
                   effects, saved_C, given, turns>>

\* QueueSafeSpellRewardCast: the timer hands the request to the main thread, unless
\* the evaluation is suspended or the game was left.
CastTimer(q) ==
    /\ q.at = "timer"
    /\ casts' =
        IF suspended_C \/ q.generation # generation_C THEN casts \ {q}
        ELSE (casts \ {q}) \cup {[q EXCEPT !.at = "task"]}
    /\ UNCHANGED <<ruleVersion, holds, applied, nextActivation, generation_C, suspended_C, fit,
                   effects, saved_C, given, turns>>

\* IsSpellRewardStillActive.
StillActive(q) ==
    /\ applied.active
    /\ applied.version = q.version
    /\ applied.token = q.token
    /\ q.reward \in applied.keys

Retried(q) ==
    IF q.attempt + 1 < MaxAttempts
    THEN {[q EXCEPT !.attempt = @ + 1, !.at = "timer"]} ELSE {}

Cast(q) ==
    /\ effects' = effects \cup {q.reward}
    /\ given' = [given EXCEPT ![q.reward][q.token] = @ + 1]

\* ProcessSafeSpellRewardCast: the reference may have no spell caster.
CastTask(q) ==
    /\ q.at = "task"
    /\ \/ /\ \/ suspended_C
             \/ q.generation # generation_C
             \/ fit = "gone"
             \/ ~StillActive(q)
             \/ fit = "ready" /\ (~holds \/ ruleVersion # q.version)
          /\ casts' = casts \ {q}
          /\ UNCHANGED <<effects, given>>
       \/ /\ ~suspended_C /\ q.generation = generation_C
          /\ fit = "away" /\ StillActive(q)
          /\ casts' = (casts \ {q}) \cup Retried(q)
          /\ UNCHANGED <<effects, given>>
       \/ /\ ~suspended_C /\ q.generation = generation_C
          /\ fit = "ready" /\ StillActive(q)
          /\ holds /\ ruleVersion = q.version
          /\ Cast(q)
          /\ casts' = casts \ {q}
    /\ UNCHANGED <<ruleVersion, holds, applied, nextActivation, generation_C, suspended_C, fit,
                   saved_C, turns>>

Turn == turns < MaxTurns /\ turns' = turns + 1

\* The world changes: the actor's conditions, its place, its death.
ConditionsChange ==
    /\ Turn
    /\ holds' = ~holds
    /\ UNCHANGED <<ruleVersion, applied, nextActivation, casts, generation_C, suspended_C, fit,
                   effects, saved_C, given>>

ActorMoves ==
    /\ fit # "gone"
    /\ fit' \in {"ready", "away", "gone"} \ {fit}
    /\ fit' = "gone" => Turn
    /\ fit' # "gone" => UNCHANGED turns
    /\ UNCHANGED <<ruleVersion, holds, applied, nextActivation, casts, generation_C,
                   suspended_C,
                   effects, saved_C, given>>

\* An effect that ends by itself, or that another mod dispels.
EffectEnds ==
    /\ Turn
    /\ \E r \in effects : effects' = effects \ {r}
    /\ UNCHANGED <<ruleVersion, holds, applied, nextActivation, casts, generation_C,
                   suspended_C,
                   fit, saved_C, given>>

EditCasts ==
    /\ Turn
    /\ ruleVersion = 1
    /\ ruleVersion' = 2
    /\ UNCHANGED <<holds, applied, nextActivation, casts, generation_C, suspended_C, fit,
                   effects, saved_C, given>>

SaveCasts ==
    /\ ~suspended_C
    /\ Turn
    /\ saved_C' = [applied |-> [applied EXCEPT !.token = 0], effects |-> effects]
    /\ UNCHANGED <<ruleVersion, holds, applied, nextActivation, casts, generation_C,
                   suspended_C,
                   fit, effects, given>>

\* SuspendRuleEvaluationForLoad: a new generation; then the save is read, without the
\* token of the activation; then the evaluation resumes.
BeginLoad_C ==
    /\ ~suspended_C
    /\ Turn
    /\ suspended_C' = TRUE
    /\ generation_C' = generation_C + 1
    /\ UNCHANGED <<ruleVersion, holds, applied, nextActivation, casts, fit, effects,
                   saved_C, given>>

EndLoad_C ==
    /\ suspended_C
    /\ suspended_C' = FALSE
    /\ applied' = saved_C.applied
    /\ effects' = saved_C.effects
    /\ fit' \in {"ready", "away"}
    /\ holds' \in BOOLEAN
    /\ UNCHANGED <<ruleVersion, nextActivation, casts, generation_C, saved_C, given, turns>>

CastNext ==
    \/ EndRule
    \/ ActivateRule
    \/ ReactivateRule
    \/ \E q \in casts : CastTimer(q) \/ CastTask(q)
    \/ ConditionsChange
    \/ ActorMoves
    \/ EffectEnds
    \/ EditCasts
    \/ SaveCasts
    \/ BeginLoad_C
    \/ EndLoad_C

CastSpec == CastInit /\ [][CastNext]_castVars
----------------------------------------------------------------------------
\* One activation of the rule casts a reward at most once, however often the request
\* is retried and however many requests of other activations, versions and games are
\* on their way (IsSpellRewardStillActive).
CastOncePerActivation ==
    \A r \in CastRewards, t \in Activations : given[r][t] <= 1

\* An effect that a rule's temporary reward left on the actor belongs to an
\* activation that documents it: when that ends, it is dispelled.  A request that
\* comes late never leaves an effect that nothing will take away
\* (ProcessSafeSpellRewardCast, RemoveAppliedActivationRewards).
EffectIsDocumented == effects \ LastingCasts \subseteq applied.keys

\* Every cast is accounted for: once per activation, and with an end.
CastsAreAccounted == CastOncePerActivation /\ EffectIsDocumented
=============================================================================
