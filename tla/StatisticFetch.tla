--------------------------- MODULE StatisticFetch ---------------------------
(***************************************************************************)
(* How WIYT reads the game's statistics (src/WIYT/Runtime.cpp): a refresh  *)
(* asks the Papyrus virtual machine for each statistic, the answers come   *)
(* back on the machine's own time, and a flag keeps refreshes from asking  *)
(* while answers are outstanding.  A call that cannot be dispatched is     *)
(* subtracted only after the last dispatch, when answers may be in.        *)
(***************************************************************************)
EXTENDS Integers, FiniteSets

CONSTANTS
    MaxNames,   \* bound: the statistics that titles ask for
    MaxFetches, \* bound: fetches
    MaxGames    \* bound: games loaded

Fetches == 1..MaxFetches

ASSUME FetchAssumption == MaxNames \in Nat /\ MaxFetches \in Nat /\ MaxGames \in Nat

VARIABLES
    inFlight,  \* g_statisticFetchInFlight
    fetch,     \* per fetch, its AsyncFetchState and what the caller holds
    game,      \* history: the game that is played
    late       \* history: an answer of an earlier game came in

fetchVars == <<inFlight, fetch, game, late>>
----------------------------------------------------------------------------
NoFetch == [phase |-> "none", left |-> 0, remaining |-> 0, outstanding |-> 0,
            failures |-> 0, game |-> 0]

FetchInit ==
    /\ inFlight = FALSE
    /\ fetch = [f \in Fetches |-> NoFetch]
    /\ game = 1
    /\ late = FALSE

Dispatching(f) == fetch[f].phase = "dispatch"

\* RefreshProgressSources past the rate limit: the flag is exchanged, the names
\* are collected, and without names or a virtual machine it is taken back.
StartFetch(f) ==
    /\ fetch[f] = NoFetch /\ \A g \in Fetches : g < f => fetch[g] # NoFetch
    /\ ~inFlight
    /\ \A g \in Fetches : ~Dispatching(g)
    /\ \E names \in 0..MaxNames :
         /\ inFlight' = (names > 0)
         /\ fetch' = [fetch EXCEPT ![f] =
                [@ EXCEPT !.phase = IF names > 0 THEN "dispatch" ELSE "done",
                          !.left = names, !.remaining = names, !.game = game]]
    /\ UNCHANGED <<game, late>>

\* DispatchStaticCall of the next name.
DispatchCall(f) ==
    /\ Dispatching(f) /\ fetch[f].left > 0
    /\ \/ fetch' = [fetch EXCEPT ![f].left = @ - 1, ![f].outstanding = @ + 1]
       \/ fetch' = [fetch EXCEPT ![f].left = @ - 1, ![f].failures = @ + 1]
    /\ UNCHANGED <<inFlight, game, late>>

\* Mutant: calls that failed are not subtracted.
EndDispatchUncounted(f) ==
    /\ Dispatching(f) /\ fetch[f].left = 0
    /\ fetch' = [fetch EXCEPT ![f].phase = "done"]
    /\ UNCHANGED <<inFlight, game, late>>

\* The end of FetchStatistics: calls that failed are subtracted, and whoever
\* brings the count to zero takes the flag back.
EndDispatch(f) ==
    /\ Dispatching(f) /\ fetch[f].left = 0
    /\ fetch' = [fetch EXCEPT ![f].phase = "done", ![f].remaining = @ - fetch[f].failures]
    /\ inFlight' = IF fetch[f].failures > 0 /\ fetch[f].remaining = fetch[f].failures
                   THEN FALSE ELSE inFlight
    /\ UNCHANGED <<game, late>>

\* Mutant: the flag is taken back by the first answer.
AnswerEarly(f) ==
    /\ fetch[f].outstanding > 0
    /\ fetch' = [fetch EXCEPT ![f].outstanding = @ - 1, ![f].remaining = @ - 1]
    /\ inFlight' = FALSE
    /\ late' = (late \/ fetch[f].game # game)
    /\ UNCHANGED game

\* StatisticCallback: the last answer takes the flag back, whichever fetch and
\* game set it.
Answer(f) ==
    /\ fetch[f].outstanding > 0
    /\ fetch' = [fetch EXCEPT ![f].outstanding = @ - 1, ![f].remaining = @ - 1]
    /\ inFlight' = IF fetch[f].remaining = 1 THEN FALSE ELSE inFlight
    /\ late' = (late \/ fetch[f].game # game)
    /\ UNCHANGED game

\* kPostLoadGame, ResetTransientTracking: the flag is taken back.  Calls of the
\* game before may be gone with its stacks, or be answered later.
LoadOtherGame ==
    /\ game < MaxGames
    /\ \A f \in Fetches : ~Dispatching(f)
    /\ game' = game + 1
    /\ inFlight' = FALSE
    /\ \/ UNCHANGED fetch
       \/ fetch' = [f \in Fetches |-> [fetch[f] EXCEPT !.outstanding = 0]]
    /\ UNCHANGED late

FetchNext ==
    \/ \E f \in Fetches : StartFetch(f) \/ DispatchCall(f) \/ EndDispatch(f) \/ Answer(f)
    \/ LoadOtherGame

\* The caller runs to its end and the virtual machine answers.
FetchFairness ==
    \A f \in Fetches : WF_fetchVars(DispatchCall(f) \/ EndDispatch(f)) /\ WF_fetchVars(Answer(f))

FetchSpec == FetchInit /\ [][FetchNext]_fetchVars /\ FetchFairness
----------------------------------------------------------------------------
\* The flag is set only while someone is left to take it back: a fetch that is
\* being dispatched, or an answer that is outstanding.  Otherwise no statistic
\* would be read again in this game (FetchStatistics, StatisticCallback).
FlagHasAnOwner ==
    inFlight => \E f \in Fetches : Dispatching(f) \/ fetch[f].outstanding > 0

\* One fetch at a time, as long as no answer of an earlier game comes late: the
\* late answer takes back the flag of the present fetch.
OneFetchAtATime ==
    ~late => Cardinality({f \in Fetches : fetch[f].game = game
                             /\ (Dispatching(f) \/ fetch[f].outstanding > 0)}) <= 1

\* A fetch comes to its end, so that the next refresh may ask again.
FetchEnds == inFlight ~> ~inFlight
=============================================================================
