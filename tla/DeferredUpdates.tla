-------------------------- MODULE DeferredUpdates --------------------------
(***************************************************************************)
(* Two updates that wait for the main thread (src/SaveState.cpp): the      *)
(* sleep of an actor, reported by animation events on any thread and       *)
(* joined while a task for the actor is on its way; and the look at the    *)
(* followers some time after a dialogue, where only the last one counts.   *)
(***************************************************************************)
EXTENDS Integers, Sequences, FiniteSets

CONSTANTS
    Sleepers,    \* the actors
    Reporters,   \* the threads that process animation events
    NoReport,    \* the mark of an actor without a report
    MaxReports,  \* bound: reports of sleep
    MaxDialogues,\* bound: dialogues
    MaxResets    \* bound: resets of the runtime state, forgotten actors

ASSUME DeferredAssumption ==
    /\ NoReport \notin Sleepers \cup BOOLEAN \cup [token : Nat, entering : BOOLEAN]
    /\ MaxReports \in Nat /\ MaxDialogues \in Nat /\ MaxResets \in Nat

VARIABLES
    sleepUpdates,  \* g_sleepUpdates: per actor [token, entering], or NoReport
    sleepStates,   \* g_sleepStates
    sleepToken,    \* g_nextSleepToken
    reporting,     \* per thread what it does in ScheduleSleepOutfitUpdate
    mainTasks,     \* the task queue of the main thread
    storing,       \* the update the main thread took and has not stored
    refreshToken,  \* g_followerRefreshToken
    generation_F,  \* g_ruleEvaluationPumpGeneration
    refreshTimers,        \* delayed tasks of the dispatcher
    suspended_F,   \* g_ruleEvaluationSuspended
    lastReport,    \* history: what an actor's last report since a reset said
    lookOwed,          \* history: a dialogue ended and the followers were not looked at
    reports, dialogues, resets \* counters of the bounds

sleepVars == <<sleepUpdates, sleepStates, sleepToken, reporting, storing, lastReport, reports>>
followerVars == <<refreshToken, refreshTimers, lookOwed, dialogues>>
deferredVars == <<sleepVars, followerVars, mainTasks, generation_F, suspended_F, resets>>

NotReporting == [at |-> "idle", actor |-> NoReport, entering |-> FALSE, token |-> 0]
NoUpdates == [a \in Sleepers |-> NoReport]
----------------------------------------------------------------------------
DeferredInit ==
    /\ sleepUpdates = NoUpdates
    /\ sleepStates = NoUpdates
    /\ sleepToken = 1
    /\ reporting = [t \in Reporters |-> NotReporting]
    /\ mainTasks = <<>>
    /\ storing = NotReporting
    /\ refreshToken = 0
    /\ generation_F = 0
    /\ refreshTimers = {}
    /\ suspended_F = FALSE
    /\ lastReport = NoUpdates
    /\ lookOwed = FALSE
    /\ reports = 0 /\ dialogues = 0 /\ resets = 0

\* ScheduleSleepOutfitUpdate: the token is taken before the lock.
TakeToken(t, a, entering) ==
    /\ reporting[t] = NotReporting
    /\ reports < MaxReports
    /\ reports' = reports + 1
    /\ sleepToken' = sleepToken + 1
    /\ reporting' = [reporting EXCEPT ![t] =
            [at |-> "lock", actor |-> a, entering |-> entering, token |-> sleepToken]]
    /\ UNCHANGED <<sleepUpdates, sleepStates, storing, lastReport, followerVars, mainTasks,
                   generation_F, suspended_F, resets>>

\* Mutant: an update that waits is left as it is.
UnlessWaiting(old, token, entering) ==
    IF old # NoReport THEN old ELSE [token |-> token, entering |-> entering]

\* Under the lock: an update that waits takes the new state, or a new one is made.
Joined(old, token, entering) ==
    IF old # NoReport THEN [old EXCEPT !.entering = entering]
    ELSE [token |-> token, entering |-> entering]

JoinUpdate(t) ==
    LET w == reporting[t]
        old == sleepUpdates[w.actor]
    IN /\ w.at = "lock"
       /\ sleepUpdates' = [sleepUpdates EXCEPT ![w.actor] = Joined(old, w.token, w.entering)]
       /\ lastReport' = [lastReport EXCEPT ![w.actor] = w.entering]
       /\ reporting' = [reporting EXCEPT ![t] = IF old = NoReport THEN [w EXCEPT !.at = "post"]
                                                ELSE NotReporting]
       /\ UNCHANGED <<sleepStates, sleepToken, storing, reports, followerVars, mainTasks,
                      generation_F, suspended_F, resets>>

PostUpdate(t) ==
    /\ reporting[t].at = "post"
    /\ mainTasks' = Append(mainTasks, [kind |-> "sleep", actor |-> reporting[t].actor,
                                       token |-> reporting[t].token, generation |-> 0])
    /\ reporting' = [reporting EXCEPT ![t] = NotReporting]
    /\ UNCHANGED <<sleepUpdates, sleepStates, sleepToken, storing, lastReport, reports,
                   followerVars, generation_F, suspended_F, resets>>

\* The task takes its update; only then, under another lock, it stores the state and
\* has the actor evaluated.  (The actors of the model live.)
SleepTask ==
    /\ storing = NotReporting
    /\ mainTasks # <<>>
    /\ LET q == Head(mainTasks)
           waiting == sleepUpdates[q.actor]
       IN /\ q.kind = "sleep"
          /\ mainTasks' = Tail(mainTasks)
          /\ IF waiting = NoReport \/ (waiting # NoReport /\ waiting.token # q.token)
             THEN UNCHANGED <<storing, sleepUpdates>>
             ELSE /\ storing' = [at |-> "store", actor |-> q.actor,
                                 entering |-> waiting.entering, token |-> q.token]
                  /\ sleepUpdates' = [sleepUpdates EXCEPT ![q.actor] = NoReport]
    /\ UNCHANGED <<sleepStates, sleepToken, reporting, lastReport, reports, followerVars,
                   generation_F, suspended_F, resets>>

StoreSleep ==
    /\ storing # NotReporting
    /\ sleepStates' = [sleepStates EXCEPT ![storing.actor] = storing.entering]
    /\ storing' = NotReporting
    /\ UNCHANGED <<sleepUpdates, sleepToken, reporting, lastReport, reports, followerVars,
                   mainTasks, generation_F, suspended_F, resets>>

\* ForgetRuleEvaluationRuntimeState, on the main thread: the actor's form was deleted.
ForgetActor(a) ==
    /\ storing = NotReporting
    /\ resets < MaxResets
    /\ resets' = resets + 1
    /\ sleepUpdates' = [sleepUpdates EXCEPT ![a] = NoReport]
    /\ sleepStates' = [sleepStates EXCEPT ![a] = NoReport]
    /\ lastReport' = [lastReport EXCEPT ![a] = NoReport]
    /\ UNCHANGED <<sleepToken, reporting, storing, reports, followerVars, mainTasks,
                   generation_F, suspended_F>>

\* SuspendRuleEvaluationForLoad with ResetRuleEvaluationRuntimeState.
SuspendAndReset ==
    /\ storing = NotReporting
    /\ resets < MaxResets
    /\ resets' = resets + 1
    /\ suspended_F' = TRUE
    /\ generation_F' = generation_F + 1
    /\ refreshToken' = refreshToken + 1
    /\ sleepUpdates' = NoUpdates /\ sleepStates' = NoUpdates /\ lastReport' = NoUpdates
    /\ lookOwed' = FALSE
    /\ UNCHANGED <<sleepToken, reporting, storing, reports, mainTasks, refreshTimers,
                   dialogues>>

\* ResumeRuleEvaluationAfterLoad.
Resume_F ==
    /\ storing = NotReporting
    /\ suspended_F
    /\ suspended_F' = FALSE
    /\ UNCHANGED <<sleepVars, followerVars, mainTasks, generation_F, resets>>

NewToken == refreshToken + 1

\* QueueFollowerStateRefreshAfterDialogue.
DialogueCloses ==
    /\ storing = NotReporting
    /\ ~suspended_F
    /\ dialogues < MaxDialogues
    /\ dialogues' = dialogues + 1
    /\ refreshToken' = refreshToken + 1
    /\ refreshTimers' = refreshTimers \cup {[generation |-> generation_F, token |-> NewToken]}
    /\ lookOwed' = TRUE
    /\ UNCHANGED <<sleepVars, mainTasks, generation_F, suspended_F, resets>>

FollowerTimer(w) ==
    /\ w \in refreshTimers
    /\ refreshTimers' = refreshTimers \ {w}
    /\ mainTasks' = Append(mainTasks, [kind |-> "followers", actor |-> NoReport,
                                       token |-> w.token, generation |-> w.generation])
    /\ UNCHANGED <<sleepVars, refreshToken, lookOwed, dialogues, generation_F,
                   suspended_F, resets>>

\* The task looks at every follower, if its dialogue is the last one of this game.
FollowerTask ==
    /\ storing = NotReporting
    /\ mainTasks # <<>>
    /\ LET q == Head(mainTasks)
       IN /\ q.kind = "followers"
          /\ mainTasks' = Tail(mainTasks)
          /\ lookOwed' =
                /\ lookOwed
                /\ suspended_F \/ q.token # refreshToken \/ q.generation # generation_F
    /\ UNCHANGED <<sleepVars, refreshToken, refreshTimers, dialogues, generation_F,
                   suspended_F, resets>>

DeferredNext ==
    \/ \E t \in Reporters :
        \/ \E a \in Sleepers, entering \in BOOLEAN : TakeToken(t, a, entering)
        \/ JoinUpdate(t)
        \/ PostUpdate(t)
    \/ SleepTask
    \/ StoreSleep
    \/ \E a \in Sleepers : ForgetActor(a)
    \/ SuspendAndReset
    \/ Resume_F
    \/ DialogueCloses
    \/ \E w \in refreshTimers : FollowerTimer(w)
    \/ FollowerTask

DeferredSpec == DeferredInit /\ [][DeferredNext]_deferredVars
----------------------------------------------------------------------------
\* When no update of an actor waits, its recorded sleep is what the last report said
\* since the last reset, however the reports of several threads met, and nothing of
\* the time before a reset comes back (ScheduleSleepOutfitUpdate).
SleepIsLast ==
    \A a \in Sleepers :
        sleepUpdates[a] = NoReport /\ storing.actor # a => sleepStates[a] = lastReport[a]

\* An update that waits has a task on its way that will take it, and a dialogue that
\* ended has a look at the followers on its way, until it is made or the game is left:
\* neither waits for an event that may never come (QueueFollowerStateRefreshAfterDialogue).
UpdatesAreOnTheirWay ==
    /\ \A a \in Sleepers : sleepUpdates[a] # NoReport =>
        \/ \E i \in DOMAIN mainTasks :
            mainTasks[i].actor = a /\ mainTasks[i].token = sleepUpdates[a].token
        \/ \E t \in Reporters :
            /\ reporting[t].at = "post" /\ reporting[t].actor = a
            /\ reporting[t].token = sleepUpdates[a].token
    /\ lookOwed =>
        \/ \E w \in refreshTimers : w.token = refreshToken /\ w.generation = generation_F
        \/ \E i \in DOMAIN mainTasks :
            /\ mainTasks[i].kind = "followers"
            /\ mainTasks[i].token = refreshToken /\ mainTasks[i].generation = generation_F

\* Each update reaches its actor, and as it was last reported.
UpdatesArrive == SleepIsLast /\ UpdatesAreOnTheirWay
=============================================================================
