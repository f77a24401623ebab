---------------------------- MODULE Titles_proofs ----------------------------
(***************************************************************************)
(* Proofs about WIYT's titles, for any number of threads, statistics,      *)
(* titles and packages and for every bound: the statistics                 *)
(* (StatisticFetch), the note of rewards given (RewardSuppression), the    *)
(* public Globals (TitleGlobals), the progress and the rewards of a title  *)
(* (TitleProgress) and the store (TitleStore).                             *)
(***************************************************************************)
EXTENDS TitleProgress, StatisticFetch, RewardSuppression, TitleGlobals, TitleStore,
        FiniteSetTheorems, TLAPS

----------------------------------------------------------------------------
(* The statistics.  Both theorems rest on the accounts of one fetch        *)
(* (Account): while it dispatches, its count is that of the calls to come, *)
(* the outstanding ones and those that failed; afterwards it is that of    *)
(* the outstanding ones, unless a load dropped them.  The count of a fetch *)
(* that dispatches can reach zero before its end; then the flag was taken  *)
(* back already (CountedOut).                                              *)

Fetch == [phase : {"none", "dispatch", "done"}, left : Nat, remaining : Int,
          outstanding : Nat, failures : Nat, game : Nat]

FetchTypeOK ==
    /\ inFlight \in BOOLEAN
    /\ fetch \in [Fetches -> Fetch]
    /\ game \in Nat
    /\ late \in BOOLEAN

Account(f) ==
    /\ fetch[f].phase = "none" => fetch[f] = NoFetch
    /\ Dispatching(f) =>
         fetch[f].remaining = fetch[f].left + fetch[f].outstanding + fetch[f].failures
    /\ fetch[f].phase = "done" =>
         fetch[f].outstanding = 0 \/ fetch[f].remaining = fetch[f].outstanding

\* The last answer came before the end of the dispatch.
CountedOut(f) == Dispatching(f) /\ fetch[f].remaining = 0 => ~inFlight

FlagInv ==
    /\ FetchTypeOK
    /\ \A f \in Fetches : Account(f)
    /\ \A f \in Fetches : CountedOut(f)
    /\ FlagHasAnOwner
----------------------------------------------------------------------------
\* No load comes in the middle of a dispatch; without late answers, the present
\* game's fetch has the flag as long as an answer is to come.
Active(f) == Dispatching(f) \/ fetch[f].outstanding > 0

HoldsFlag(f) ==
    /\ fetch[f].game <= game
    /\ Dispatching(f) => fetch[f].game = game
    /\ ~late /\ fetch[f].game = game /\ Active(f) /\ fetch[f].remaining > 0 => inFlight

OnlyOne ==
    ~late => \A f, g \in Fetches :
        (fetch[f].game = game /\ fetch[g].game = game /\ Active(f) /\ Active(g)) => f = g

ApartInv == FlagInv /\ (\A f \in Fetches : HoldsFlag(f)) /\ OnlyOne
----------------------------------------------------------------------------
LEMMA FlagInit == FetchInit => FlagInv
  <1> SUFFICES ASSUME FetchInit PROVE FlagInv
    OBVIOUS
  <1>1. NoFetch \in Fetch
    BY DEF NoFetch, Fetch
  <1>2. FetchTypeOK
    BY <1>1 DEF FetchInit, FetchTypeOK
  <1>3. \A f \in Fetches : Account(f) /\ CountedOut(f)
    BY DEF FetchInit, Account, CountedOut, Dispatching, NoFetch
  <1>4. FlagHasAnOwner
    BY DEF FetchInit, FlagHasAnOwner
  <1>. QED BY <1>2, <1>3, <1>4 DEF FlagInv

\* A step of one fetch leaves the others as they are.
LEMMA FlagStart ==
    ASSUME FlagInv, NEW f \in Fetches, StartFetch(f) PROVE FlagInv'
  <1> USE DEF FlagInv
  <1>1. PICK names \in 0..MaxNames :
          /\ inFlight' = (names > 0)
          /\ fetch' = [fetch EXCEPT ![f] =
                [@ EXCEPT !.phase = IF names > 0 THEN "dispatch" ELSE "done",
                          !.left = names, !.remaining = names, !.game = game]]
    BY DEF StartFetch
  <1>2. names \in Nat
    BY FetchAssumption
  <1>3. fetch[f] = NoFetch /\ UNCHANGED <<game, late>> /\ \A g \in Fetches : ~Dispatching(g)
    BY DEF StartFetch
  <1> DEFINE phase == IF names > 0 THEN "dispatch" ELSE "done"
  <1> DEFINE started == [NoFetch EXCEPT !.phase = phase, !.left = names,
                                        !.remaining = names, !.game = game]
  <1>4. phase \in {"none", "dispatch", "done"}
    OBVIOUS
  <1>5. fetch' = [fetch EXCEPT ![f] = started]
    BY <1>1, <1>3
  <1> HIDE DEF phase
  <1>6. started \in Fetch
    <2>1. NoFetch \in Fetch
      BY DEF NoFetch, Fetch
    <2>2. names \in Int /\ game \in Nat
      BY <1>2 DEF FetchTypeOK
    <2>. QED BY <1>2, <1>4, <2>1, <2>2 DEF Fetch
  <1>7. FetchTypeOK'
    <2>1. inFlight' \in BOOLEAN
      BY <1>1
    <2>. QED BY <1>3, <1>5, <1>6, <2>1 DEF FetchTypeOK
  <1>8. /\ fetch'[f].phase = phase /\ fetch'[f].left = names /\ fetch'[f].remaining = names
        /\ fetch'[f].outstanding = 0 /\ fetch'[f].failures = 0
    BY <1>5 DEF FetchTypeOK, NoFetch
  <1>9. \A g \in Fetches : g # f => fetch'[g] = fetch[g]
    BY <1>5 DEF FetchTypeOK
  <1>10. Account(f)' /\ CountedOut(f)'
    BY <1>1, <1>2, <1>8 DEF Account, CountedOut, Dispatching, phase
  <1>11. \A g \in Fetches : g # f => Account(g)' /\ CountedOut(g)'
    BY <1>3, <1>9 DEF Account, CountedOut, Dispatching
  <1>12. FlagHasAnOwner'
    BY <1>1, <1>8 DEF FlagHasAnOwner, Dispatching, phase
  <1>. QED BY <1>7, <1>10, <1>11, <1>12

LEMMA FlagCall ==
    ASSUME FlagInv, NEW f \in Fetches, DispatchCall(f) PROVE FlagInv'
  <1> USE DEF FlagInv
  <1>1. /\ Dispatching(f) /\ fetch[f].left > 0 /\ UNCHANGED <<inFlight, game, late>>
        /\ fetch[f] \in Fetch
    BY DEF DispatchCall, FetchTypeOK
  <1>2. fetch' \in [Fetches -> Fetch] /\ \A g \in Fetches : g # f => fetch'[g] = fetch[g]
    BY <1>1 DEF DispatchCall, FetchTypeOK, Fetch
  <1>3. /\ fetch'[f].phase = "dispatch" /\ fetch'[f].remaining = fetch[f].remaining
        /\ fetch'[f].left + fetch'[f].outstanding + fetch'[f].failures
             = fetch[f].left + fetch[f].outstanding + fetch[f].failures
    BY <1>1 DEF DispatchCall, FetchTypeOK, Fetch, Dispatching
  <1>4. FetchTypeOK'
    BY <1>1, <1>2 DEF FetchTypeOK
  <1>5. \A g \in Fetches : Account(g)' /\ CountedOut(g)'
    BY <1>1, <1>2, <1>3 DEF Account, CountedOut, Dispatching
  <1>6. FlagHasAnOwner'
    BY <1>3 DEF FlagHasAnOwner, Dispatching
  <1>. QED BY <1>4, <1>5, <1>6

LEMMA FlagEnd ==
    ASSUME FlagInv, NEW f \in Fetches, EndDispatch(f) PROVE FlagInv'
  <1> USE DEF FlagInv
  <1>1. /\ Dispatching(f) /\ fetch[f].left = 0 /\ fetch[f] \in Fetch
        /\ UNCHANGED <<game, late>>
        /\ fetch[f].remaining = fetch[f].outstanding + fetch[f].failures
    BY DEF EndDispatch, FetchTypeOK, Account, Fetch
  <1>2. fetch' \in [Fetches -> Fetch] /\ \A g \in Fetches : g # f => fetch'[g] = fetch[g]
    <2>1. [fetch[f] EXCEPT !.phase = "done", !.remaining = @ - fetch[f].failures] \in Fetch
      <3>1. fetch[f].remaining - fetch[f].failures \in Int
        BY <1>1 DEF Fetch
      <3>. QED BY <1>1, <3>1 DEF Fetch
    <2>. QED BY <2>1 DEF EndDispatch, FetchTypeOK
  <1>3. /\ fetch'[f].phase = "done" /\ fetch'[f].outstanding = fetch[f].outstanding
        /\ fetch'[f].remaining = fetch[f].outstanding
    BY <1>1 DEF EndDispatch, FetchTypeOK, Fetch
  <1>4. inFlight' \in BOOLEAN /\ (inFlight' => inFlight)
    BY DEF EndDispatch, FetchTypeOK
  <1>5. FetchTypeOK'
    BY <1>1, <1>2, <1>4 DEF FetchTypeOK
  <1>6. \A g \in Fetches : Account(g)' /\ CountedOut(g)'
    BY <1>2, <1>3, <1>4 DEF Account, CountedOut, Dispatching
  <1>7. FlagHasAnOwner'
    <2> SUFFICES ASSUME inFlight'
                 PROVE  \E g \in Fetches : (Dispatching(g) \/ fetch[g].outstanding > 0)'
      BY DEF FlagHasAnOwner
    <2>1. ~(fetch[f].failures > 0 /\ fetch[f].remaining = fetch[f].failures)
      BY DEF EndDispatch
    <2>2. fetch[f].remaining # 0
      BY <1>1, <1>4 DEF CountedOut
    <2>3. fetch[f].outstanding > 0
      BY <1>1, <2>1, <2>2 DEF Fetch
    <2>. QED BY <1>3, <2>3
  <1>. QED BY <1>5, <1>6, <1>7

LEMMA FlagAnswer ==
    ASSUME FlagInv, NEW f \in Fetches, Answer(f) PROVE FlagInv'
  <1> USE DEF FlagInv
  <1>1. fetch[f].outstanding > 0 /\ fetch[f] \in Fetch /\ game' = game
    BY DEF Answer, FetchTypeOK
  <1>2. fetch' \in [Fetches -> Fetch] /\ \A g \in Fetches : g # f => fetch'[g] = fetch[g]
    BY <1>1 DEF Answer, FetchTypeOK, Fetch
  <1>3. /\ fetch'[f].phase = fetch[f].phase /\ fetch'[f].left = fetch[f].left
        /\ fetch'[f].outstanding = fetch[f].outstanding - 1
        /\ fetch'[f].remaining = fetch[f].remaining - 1
        /\ fetch'[f].failures = fetch[f].failures
    BY <1>1 DEF Answer, FetchTypeOK, Fetch
  <1>4. inFlight' = IF fetch[f].remaining = 1 THEN FALSE ELSE inFlight
    BY DEF Answer
  <1>5. FetchTypeOK'
    <2>1. late' \in BOOLEAN
      BY DEF Answer, FetchTypeOK
    <2>2. inFlight' \in BOOLEAN
      BY <1>4 DEF FetchTypeOK
    <2>. QED BY <1>1, <1>2, <2>1, <2>2 DEF FetchTypeOK
  <1>6. fetch[f].phase # "none"
    BY <1>1 DEF Account, NoFetch
  <1>7. \A g \in Fetches : Account(g)'
    <2>1. Account(f)'
      BY <1>1, <1>3, <1>6 DEF Account, Dispatching, Fetch
    <2>2. \A g \in Fetches : g # f => Account(g)'
      BY <1>2 DEF Account, Dispatching
    <2>. QED BY <2>1, <2>2
  <1>8. \A g \in Fetches : CountedOut(g)'
    BY <1>1, <1>2, <1>3, <1>4 DEF CountedOut, Dispatching, Fetch
  <1>9. FlagHasAnOwner'
    <2> SUFFICES ASSUME inFlight'
                 PROVE  \E g \in Fetches : (Dispatching(g) \/ fetch[g].outstanding > 0)'
      BY DEF FlagHasAnOwner
    <2>1. fetch[f].remaining # 1
      BY <1>4
    <2>2. CASE Dispatching(f)
      BY <2>2, <1>3 DEF Dispatching
    <2>3. CASE fetch[f].phase = "done"
      BY <2>3, <2>1, <1>1, <1>3 DEF Account, Fetch
    <2>. QED BY <1>1, <1>6, <2>2, <2>3 DEF Dispatching, Fetch
  <1>. QED BY <1>5, <1>7, <1>8, <1>9

LEMMA FlagLoad ==
    ASSUME FlagInv, LoadOtherGame PROVE FlagInv'
  <1> USE DEF FlagInv
  <1>1. inFlight' = FALSE /\ game' = game + 1 /\ late' = late
        /\ \A f \in Fetches : ~Dispatching(f)
    BY DEF LoadOtherGame
  <1>2. fetch' \in [Fetches -> Fetch]
        /\ \A f \in Fetches : /\ fetch'[f].phase = fetch[f].phase
                              /\ fetch'[f] = fetch[f]
                                  \/ fetch'[f] = [fetch[f] EXCEPT !.outstanding = 0]
    BY DEF LoadOtherGame, FetchTypeOK, Fetch
  <1>3. FetchTypeOK'
    <2>1. inFlight' \in BOOLEAN /\ late' \in BOOLEAN
      BY <1>1, Zenon DEF FetchTypeOK
    <2>2. game' \in Nat
      BY <1>1 DEF FetchTypeOK
    <2>. QED BY <1>2, <2>1, <2>2 DEF FetchTypeOK
  <1>4. \A f \in Fetches : Account(f)' /\ CountedOut(f)'
    <2> SUFFICES ASSUME NEW f \in Fetches PROVE Account(f)' /\ CountedOut(f)'
      OBVIOUS
    <2>1. fetch[f] \in Fetch
      BY DEF FetchTypeOK
    <2>2. fetch'[f].phase # "dispatch"
      BY <1>1, <1>2 DEF Dispatching
    <2>. QED BY <1>1, <1>2, <2>1, <2>2 DEF Account, CountedOut, Dispatching, Fetch, NoFetch
  <1>5. FlagHasAnOwner'
    BY <1>1 DEF FlagHasAnOwner
  <1>. QED BY <1>3, <1>4, <1>5

LEMMA FlagStep == FlagInv /\ [FetchNext]_fetchVars => FlagInv'
  <1> SUFFICES ASSUME FlagInv, [FetchNext]_fetchVars PROVE FlagInv'
    OBVIOUS
  <1>1. ASSUME NEW f \in Fetches, StartFetch(f) PROVE FlagInv'
    BY <1>1, FlagStart
  <1>2. ASSUME NEW f \in Fetches, DispatchCall(f) PROVE FlagInv'
    BY <1>2, FlagCall
  <1>3. ASSUME NEW f \in Fetches, EndDispatch(f) PROVE FlagInv'
    BY <1>3, FlagEnd
  <1>4. ASSUME NEW f \in Fetches, Answer(f) PROVE FlagInv'
    BY <1>4, FlagAnswer
  <1>5. CASE LoadOtherGame
    BY <1>5, FlagLoad
  <1>6. CASE UNCHANGED fetchVars
    BY <1>6 DEF fetchVars, FlagInv, FetchTypeOK, Account, CountedOut, Dispatching, FlagHasAnOwner
  <1>. QED BY <1>1, <1>2, <1>3, <1>4, <1>5, <1>6 DEF FetchNext

\* The flag g_statisticFetchInFlight never stays set with nobody left to take
\* it back, whatever calls fail and whenever answers come (FetchStatistics,
\* StatisticCallback, ResetTransientTracking).
THEOREM FlagIsReturned == FetchSpec => []FlagHasAnOwner
  <1>1. FlagInv => FlagHasAnOwner
    BY DEF FlagInv
  <1>. QED BY FlagInit, FlagStep, <1>1, PTL DEF FetchSpec
----------------------------------------------------------------------------
LEMMA ApartInit == FetchInit => ApartInv
  <1> SUFFICES ASSUME FetchInit PROVE ApartInv
    OBVIOUS
  <1>1. \A f \in Fetches : ~Active(f) /\ ~Dispatching(f) /\ fetch[f].game = 0 /\ game = 1
    BY DEF FetchInit, Active, Dispatching, NoFetch
  <1>. QED BY <1>1, FlagInit DEF ApartInv, HoldsFlag, OnlyOne

LEMMA ApartStart ==
    ASSUME ApartInv, FlagInv', NEW f \in Fetches, StartFetch(f)
    PROVE  (\A g \in Fetches : HoldsFlag(g)') /\ OnlyOne'
  <1> USE DEF ApartInv, FlagInv
  <1>1. PICK names \in 0..MaxNames :
          /\ inFlight' = (names > 0)
          /\ fetch' = [fetch EXCEPT ![f] =
                [@ EXCEPT !.phase = IF names > 0 THEN "dispatch" ELSE "done",
                          !.left = names, !.remaining = names, !.game = game]]
    BY DEF StartFetch
  <1>2. names \in Nat
    BY FetchAssumption
  <1>3. /\ fetch[f] = NoFetch /\ ~inFlight /\ UNCHANGED <<game, late>>
        /\ \A g \in Fetches : ~Dispatching(g)
    BY DEF StartFetch
  <1>4. \A g \in Fetches : g # f => fetch'[g] = fetch[g]
    BY <1>1 DEF FetchTypeOK
  <1>5. fetch'[f].game = game /\ fetch'[f].remaining = names
    BY <1>1, <1>3 DEF FetchTypeOK, NoFetch
  <1>6. \A g \in Fetches : ~late /\ fetch[g].game = game => fetch[g].outstanding = 0
    <2> SUFFICES ASSUME NEW g \in Fetches, ~late, fetch[g].game = game, fetch[g].outstanding # 0
                 PROVE  FALSE
      OBVIOUS
    <2>1. fetch[g] \in Fetch /\ fetch[g].outstanding > 0
      BY DEF FetchTypeOK, Fetch
    <2>2. fetch[g].phase = "done"
      BY <1>3, <2>1 DEF Account, NoFetch, Dispatching, Fetch
    <2>3. fetch[g].remaining > 0
      BY <2>1, <2>2 DEF Account
    <2>. QED BY <1>3, <2>1, <2>3 DEF HoldsFlag, Active
  <1>7. \A g \in Fetches : g # f /\ ~late' => ~(fetch'[g].game = game' /\ Active(g)')
    BY <1>3, <1>4, <1>6 DEF Active, Dispatching
  <1>8. \A g \in Fetches : g # f => HoldsFlag(g)'
    BY <1>3, <1>4, <1>7 DEF HoldsFlag, Dispatching
  <1>9. HoldsFlag(f)'
    <2>1. fetch'[f].game <= game' /\ fetch'[f].game = game'
      BY <1>3, <1>5 DEF FetchTypeOK
    <2>2. fetch'[f].remaining > 0 => inFlight'
      BY <1>1, <1>5
    <2>. QED BY <2>1, <2>2 DEF HoldsFlag
  <1>. QED BY <1>7, <1>8, <1>9 DEF OnlyOne

\* A call, the end of the dispatch or an answer: who is active was so before,
\* but for the fetch itself, which was too.
LEMMA ApartOwn ==
    ASSUME ApartInv, NEW f \in Fetches, Active(f), game' = game, late => late',
           \A g \in Fetches : g # f => fetch'[g] = fetch[g],
           fetch'[f].game = fetch[f].game,
           Dispatching(f)' => Dispatching(f),
           ~late' /\ fetch[f].game = game /\ Active(f)' /\ fetch'[f].remaining > 0 => inFlight',
           (inFlight' <=> inFlight) \/ late' \/ fetch[f].game = game
    PROVE  (\A g \in Fetches : HoldsFlag(g)') /\ OnlyOne'
  <1> USE DEF ApartInv
  <1>1. HoldsFlag(f)'
    BY DEF HoldsFlag
  <1>2. ASSUME NEW g \in Fetches, g # f PROVE HoldsFlag(g)'
    <2>1. fetch'[g] = fetch[g]
      BY <1>2
    <2>2. ASSUME ~late', fetch[g].game = game, Active(g), fetch[g].remaining > 0 PROVE inFlight'
      <3>1. inFlight /\ fetch[f].game # game
        BY <1>2, <2>2 DEF HoldsFlag, OnlyOne
      <3>. QED BY <2>2, <3>1
    <2>. QED BY <2>1, <2>2 DEF HoldsFlag, Active, Dispatching
  <1>3. OnlyOne'
    <2>1. \A g \in Fetches : Active(g)' => Active(g)
      BY DEF Active, Dispatching
    <2>2. \A g \in Fetches : fetch'[g].game = fetch[g].game
      OBVIOUS
    <2>. QED BY <2>1, <2>2 DEF OnlyOne
  <1>. QED BY <1>1, <1>2, <1>3

LEMMA ApartCall ==
    ASSUME ApartInv, NEW f \in Fetches, DispatchCall(f)
    PROVE  (\A g \in Fetches : HoldsFlag(g)') /\ OnlyOne'
  <1> USE DEF ApartInv, FlagInv
  <1>1. /\ Dispatching(f) /\ UNCHANGED <<inFlight, game, late>>
        /\ \A g \in Fetches : g # f => fetch'[g] = fetch[g]
        /\ fetch'[f].game = fetch[f].game /\ fetch'[f].remaining = fetch[f].remaining
    <2>1. Dispatching(f) /\ UNCHANGED <<inFlight, game, late>>
      BY DEF DispatchCall
    <2>2. fetch[f] \in Fetch
      BY DEF FetchTypeOK
    <2>. QED BY <2>1, <2>2 DEF DispatchCall, FetchTypeOK, Fetch
  <1>2. Active(f)
    BY <1>1 DEF Active
  <1>3. ~late' /\ fetch[f].game = game /\ Active(f)' /\ fetch'[f].remaining > 0 => inFlight'
    BY <1>1, <1>2 DEF HoldsFlag
  <1>. QED BY <1>1, <1>2, <1>3, ApartOwn

LEMMA ApartEnd ==
    ASSUME ApartInv, NEW f \in Fetches, EndDispatch(f)
    PROVE  (\A g \in Fetches : HoldsFlag(g)') /\ OnlyOne'
  <1> USE DEF ApartInv, FlagInv
  <1>1. /\ Dispatching(f) /\ fetch[f].left = 0 /\ fetch[f] \in Fetch
        /\ UNCHANGED <<game, late>>
        /\ fetch[f].remaining = fetch[f].outstanding + fetch[f].failures
    BY DEF EndDispatch, FetchTypeOK, Account, Fetch
  <1>2. /\ \A g \in Fetches : g # f => fetch'[g] = fetch[g]
        /\ fetch'[f].game = fetch[f].game /\ fetch'[f].phase = "done"
        /\ fetch'[f].remaining = fetch[f].outstanding
    BY <1>1 DEF EndDispatch, FetchTypeOK, Fetch
  <1>3. Active(f) /\ fetch[f].game = game
    BY <1>1 DEF Active, HoldsFlag
  <1>4. ~late' /\ fetch[f].game = game /\ Active(f)' /\ fetch'[f].remaining > 0 => inFlight'
    <2> SUFFICES ASSUME ~late, fetch'[f].remaining > 0 PROVE inFlight'
      BY <1>1
    <2>1. fetch[f].remaining > 0 /\ fetch[f].remaining # fetch[f].failures
      BY <1>1, <1>2 DEF Fetch
    <2>2. inFlight
      BY <1>3, <2>1 DEF HoldsFlag
    <2>. QED BY <2>1, <2>2 DEF EndDispatch
  <1>5. Dispatching(f)' => Dispatching(f)
    BY <1>1
  <1>. QED BY <1>1, <1>2, <1>3, <1>4, <1>5, ApartOwn

LEMMA ApartAnswer ==
    ASSUME ApartInv, NEW f \in Fetches, Answer(f)
    PROVE  (\A g \in Fetches : HoldsFlag(g)') /\ OnlyOne'
  <1> USE DEF ApartInv, FlagInv
  <1>1. /\ fetch[f].outstanding > 0 /\ fetch[f] \in Fetch /\ game' = game
        /\ late' = (late \/ fetch[f].game # game)
    BY DEF Answer, FetchTypeOK
  <1>2. /\ \A g \in Fetches : g # f => fetch'[g] = fetch[g]
        /\ fetch'[f].game = fetch[f].game /\ fetch'[f].phase = fetch[f].phase
        /\ fetch'[f].remaining = fetch[f].remaining - 1
    BY <1>1 DEF Answer, FetchTypeOK
  <1>3. Active(f) /\ (Dispatching(f)' => Dispatching(f))
    BY <1>1, <1>2 DEF Active, Dispatching
  <1>4. ~late' /\ fetch[f].game = game /\ Active(f)' /\ fetch'[f].remaining > 0 => inFlight'
    <2> SUFFICES ASSUME ~late', fetch[f].game = game, fetch'[f].remaining > 0 PROVE inFlight'
      OBVIOUS
    <2>1. fetch[f].remaining > 0 /\ fetch[f].remaining # 1
      BY <1>1, <1>2 DEF Fetch
    <2>2. inFlight
      BY <1>1, <1>3, <2>1 DEF HoldsFlag
    <2>. QED BY <2>1, <2>2 DEF Answer
  <1>5. late' \/ fetch[f].game = game
    BY <1>1
  <1>6. late => late'
    BY <1>1
  <1>. QED BY <1>1, <1>2, <1>3, <1>4, <1>5, <1>6, ApartOwn

LEMMA ApartLoad ==
    ASSUME ApartInv, LoadOtherGame
    PROVE  (\A g \in Fetches : HoldsFlag(g)') /\ OnlyOne'
  <1> USE DEF ApartInv, FlagInv
  <1>1. game' = game + 1 /\ game \in Nat /\ \A f \in Fetches : ~Dispatching(f)
    BY DEF LoadOtherGame, FetchTypeOK
  <1>2. \A f \in Fetches : fetch'[f].game = fetch[f].game /\ fetch'[f].phase = fetch[f].phase
    BY DEF LoadOtherGame, FetchTypeOK, Fetch
  <1>3. \A f \in Fetches : fetch[f].game <= game /\ fetch[f].game \in Nat
    BY DEF HoldsFlag, FetchTypeOK, Fetch
  <1>4. \A f \in Fetches : fetch'[f].game < game'
    BY <1>1, <1>2, <1>3
  <1>. QED BY <1>1, <1>2, <1>3, <1>4 DEF HoldsFlag, OnlyOne, Dispatching

LEMMA ApartStep == ApartInv /\ [FetchNext]_fetchVars => ApartInv'
  <1> SUFFICES ASSUME ApartInv, [FetchNext]_fetchVars PROVE ApartInv'
    OBVIOUS
  <1>0. FlagInv'
    BY FlagStep DEF ApartInv
  <1>1. ASSUME NEW f \in Fetches, StartFetch(f) PROVE ApartInv'
    BY <1>0, <1>1, ApartStart DEF ApartInv
  <1>2. ASSUME NEW f \in Fetches, DispatchCall(f) PROVE ApartInv'
    BY <1>0, <1>2, ApartCall DEF ApartInv
  <1>3. ASSUME NEW f \in Fetches, EndDispatch(f) PROVE ApartInv'
    BY <1>0, <1>3, ApartEnd DEF ApartInv
  <1>4. ASSUME NEW f \in Fetches, Answer(f) PROVE ApartInv'
    BY <1>0, <1>4, ApartAnswer DEF ApartInv
  <1>5. CASE LoadOtherGame
    BY <1>0, <1>5, ApartLoad DEF ApartInv
  <1>6. CASE UNCHANGED fetchVars
    BY <1>0, <1>6 DEF fetchVars, ApartInv, HoldsFlag, OnlyOne, Active, Dispatching
  <1>. QED BY <1>1, <1>2, <1>3, <1>4, <1>5, <1>6 DEF FetchNext

\* As long as no answer of an earlier game comes late, at most one fetch of the
\* game being played is dispatching or has answers outstanding
\* (RefreshProgressSources, FetchStatistics).
THEOREM FetchesStayApart == FetchSpec => []OneFetchAtATime
  <1>1. ApartInv => OneFetchAtATime
    <2> SUFFICES ASSUME ApartInv, ~late
                 PROVE  Cardinality({f \in Fetches : fetch[f].game = game
                            /\ (Dispatching(f) \/ fetch[f].outstanding > 0)}) <= 1
      BY DEF OneFetchAtATime
    <2> DEFINE S == {f \in Fetches : fetch[f].game = game
                            /\ (Dispatching(f) \/ fetch[f].outstanding > 0)}
    <2>1. \A f, g \in S : f = g
      BY DEF ApartInv, OnlyOne, Active
    <2>2. CASE S = {}
      BY <2>2, FS_EmptySet
    <2>3. CASE S # {}
      <3>1. PICK f \in S : TRUE
        BY <2>3
      <3>2. S = {f}
        BY <2>1, <3>1
      <3>3. Cardinality({f}) = 1
        BY FS_Singleton
      <3>. QED BY <3>2, <3>3
    <2>. QED BY <2>2, <2>3
  <1>. QED BY ApartInit, ApartStep, <1>1, PTL DEF FetchSpec

----------------------------------------------------------------------------
(* The note of rewards given.  What was credited, and the items noted that *)
(* are still to be added (Owed), never exceed what was taken and what is   *)
(* noted: so an item that is added without a note was paid for by one the  *)
(* player took from the note.                                              *)

\* The items that the threads still add, one by one.
Owed == {o \in Givers \X (1..MaxAmount) : o[2] <= adding[o[1]]}

SuppressionTypeOK ==
    /\ suppressed \in Nat
    /\ adding \in [Givers -> 0..MaxAmount]
    /\ harvest \in BOOLEAN
    /\ taken \in Nat /\ credited \in Nat /\ harvested \in Nat /\ noted \in Nat

SuppressionInv ==
    /\ SuppressionTypeOK
    /\ credited <= taken
    /\ credited + Cardinality(Owed) <= taken + suppressed
    /\ harvested <= credited

LEMMA OwedIsFinite ==
    /\ IsFiniteSet(Givers \X (1..MaxAmount))
    /\ \A S \in SUBSET (Givers \X (1..MaxAmount)) : IsFiniteSet(S) /\ Cardinality(S) \in Nat
  <1>1. IsFiniteSet(Givers)
    BY SuppressionAssumption
  <1>2. IsFiniteSet(1..MaxAmount)
    BY SuppressionAssumption, FS_Interval
  <1>3. IsFiniteSet(Givers \X (1..MaxAmount))
    BY <1>1, <1>2, FS_Product
  <1>4. ASSUME NEW S \in SUBSET (Givers \X (1..MaxAmount))
        PROVE  IsFiniteSet(S) /\ Cardinality(S) \in Nat
    BY <1>3, FS_Subset, FS_CardinalityType
  <1>5. QED
    BY <1>3, <1>4

\* The items that one thread adds are as many as the amount it noted.
LEMMA OwedByOne ==
    ASSUME NEW g \in Givers, NEW n \in 1..MaxAmount
    PROVE  /\ {g} \X (1..n) \in SUBSET (Givers \X (1..MaxAmount))
           /\ IsFiniteSet({g} \X (1..n)) /\ Cardinality({g} \X (1..n)) = n
  <1>1. n \in Nat /\ 1 <= n
    BY SuppressionAssumption
  <1>2. IsFiniteSet({g}) /\ Cardinality({g}) = 1
    BY FS_Singleton
  <1>3. IsFiniteSet(1..n) /\ Cardinality(1..n) = n
    BY <1>1, FS_Interval
  <1>4. /\ IsFiniteSet({g} \X (1..n))
        /\ Cardinality({g} \X (1..n)) = Cardinality({g}) * Cardinality(1..n)
    BY <1>2, <1>3, FS_Product
  <1>5. Cardinality({g} \X (1..n)) = n
    BY <1>1, <1>2, <1>3, <1>4
  <1>6. {g} \X (1..n) \in SUBSET (Givers \X (1..MaxAmount))
    BY SuppressionAssumption
  <1>7. QED
    BY <1>4, <1>5, <1>6

\* A thread that notes an amount owes so many items more.
LEMMA NotedIsOwed ==
    ASSUME SuppressionTypeOK, NEW g \in Givers, NEW n \in 1..MaxAmount, adding[g] = 0,
           adding' = [adding EXCEPT ![g] = n]
    PROVE  /\ Cardinality(Owed) \in Nat
           /\ Cardinality(Owed') = Cardinality(Owed) + n
  <1>1. /\ Owed' = Owed \cup ({g} \X (1..n))
        /\ Owed \cap ({g} \X (1..n)) = {}
    BY SuppressionAssumption DEF Owed, SuppressionTypeOK
  <1>2. Owed \in SUBSET (Givers \X (1..MaxAmount))
    BY DEF Owed
  <1>3. IsFiniteSet(Owed) /\ Cardinality(Owed) \in Nat
    BY <1>2, OwedIsFinite
  <1>4. IsFiniteSet({g} \X (1..n)) /\ Cardinality({g} \X (1..n)) = n
    BY OwedByOne
  <1>5. Cardinality(Owed \cup ({g} \X (1..n)))
          = Cardinality(Owed) + n - Cardinality(Owed \cap ({g} \X (1..n)))
    BY <1>3, <1>4, FS_Union
  <1>6. Cardinality(Owed \cap ({g} \X (1..n))) = 0
    BY <1>1, FS_EmptySet
  <1>7. n \in Nat
    BY SuppressionAssumption
  <1>8. QED
    BY <1>1, <1>3, <1>5, <1>6, <1>7

\* A thread that added its amount owes so many items less.
LEMMA AddedIsPaid ==
    ASSUME SuppressionTypeOK, NEW g \in Givers, adding[g] > 0,
           adding' = [adding EXCEPT ![g] = 0]
    PROVE  /\ Cardinality(Owed) \in Nat /\ Cardinality(Owed') \in Nat
           /\ Cardinality(Owed) = Cardinality(Owed') + adding[g]
  <1> DEFINE n == adding[g]
  <1>1. n \in 1..MaxAmount
    BY SuppressionAssumption DEF SuppressionTypeOK
  <1>2. /\ Owed = Owed' \cup ({g} \X (1..n))
        /\ Owed' \cap ({g} \X (1..n)) = {}
    BY SuppressionAssumption DEF Owed, SuppressionTypeOK
  <1>3. Owed \in SUBSET (Givers \X (1..MaxAmount)) /\ Owed' \in SUBSET (Givers \X (1..MaxAmount))
    BY DEF Owed
  <1>4. /\ Cardinality(Owed) \in Nat
        /\ IsFiniteSet(Owed') /\ Cardinality(Owed') \in Nat
    BY <1>3, OwedIsFinite
  <1>5. IsFiniteSet({g} \X (1..n)) /\ Cardinality({g} \X (1..n)) = n
    BY <1>1, OwedByOne
  <1>6. Cardinality(Owed' \cup ({g} \X (1..n)))
          = Cardinality(Owed') + n - Cardinality(Owed' \cap ({g} \X (1..n)))
    BY <1>4, <1>5, FS_Union
  <1>7. Cardinality(Owed' \cap ({g} \X (1..n))) = 0
    BY <1>2, FS_EmptySet
  <1>8. n \in Nat
    BY <1>1, SuppressionAssumption
  <1>9. QED
    BY <1>2, <1>4, <1>6, <1>7, <1>8

LEMMA EventTypes ==
    ASSUME SuppressionTypeOK, NEW n \in Nat, ContainerEvent(n)
    PROVE  suppressed' \in Nat /\ credited' \in Nat /\ harvested' \in Nat /\ harvest' \in BOOLEAN
  <1>1. suppressed' \in Nat /\ credited' \in Nat
    BY DEF SuppressionTypeOK, ContainerEvent, AfterConsuming
  <1>2. harvested' \in Nat
    BY DEF SuppressionTypeOK, ContainerEvent
  <1>3. harvest' \in BOOLEAN
    BY DEF ContainerEvent
  <1>4. QED
    BY <1>1, <1>2, <1>3

LEMMA SuppressionInitially == SuppressionInit => SuppressionInv
  <1> SUFFICES ASSUME SuppressionInit PROVE SuppressionInv
    OBVIOUS
  <1>1. SuppressionTypeOK
    <2>1. adding \in [Givers -> 0..MaxAmount]
      BY SuppressionAssumption DEF SuppressionInit
    <2>2. harvest \in BOOLEAN
      BY DEF SuppressionInit
    <2>3. QED
      BY <2>1, <2>2 DEF SuppressionInit, SuppressionTypeOK
  <1>2. Owed = {}
    BY DEF SuppressionInit, Owed
  <1>3. Cardinality(Owed) = 0
    BY <1>2, FS_EmptySet
  <1>4. QED
    BY <1>1, <1>3 DEF SuppressionInit, SuppressionInv

LEMMA SuppressionStep ==
    SuppressionInv /\ [SuppressionNext]_suppressionVars => SuppressionInv'
  <1> SUFFICES ASSUME SuppressionInv, [SuppressionNext]_suppressionVars
               PROVE  SuppressionInv'
    OBVIOUS
  <1> USE SuppressionAssumption DEF SuppressionInv
  <1>0. Owed \in SUBSET (Givers \X (1..MaxAmount))
    BY DEF Owed
  <1>1. Cardinality(Owed) \in Nat
    BY <1>0, OwedIsFinite
  <1>2. ASSUME adding' = adding PROVE Cardinality(Owed') = Cardinality(Owed)
    BY <1>2 DEF Owed
  <1>3. ASSUME NEW g \in Givers, NEW n \in 1..MaxAmount, NoteReward(g, n)
        PROVE  SuppressionInv'
    <2>1. SuppressionTypeOK'
      BY <1>3 DEF SuppressionTypeOK, NoteReward
    <2>2. Cardinality(Owed') = Cardinality(Owed) + n
      BY <1>3, NotedIsOwed DEF NoteReward
    <2>3. QED
      BY <1>1, <1>3, <2>1, <2>2 DEF SuppressionTypeOK, NoteReward
  <1>4. ASSUME NEW g \in Givers, AddReward(g) PROVE SuppressionInv'
    <2>1. /\ Cardinality(Owed') \in Nat
          /\ Cardinality(Owed) = Cardinality(Owed') + adding[g]
      BY <1>4, AddedIsPaid DEF AddReward
    <2>2. adding[g] \in Nat
      BY DEF SuppressionTypeOK
    <2>3. CASE ContainerEvent(adding[g])
      <3>1. suppressed' \in Nat /\ credited' \in Nat /\ harvested' \in Nat /\ harvest' \in BOOLEAN
        BY <2>2, <2>3, EventTypes
      <3>2. SuppressionTypeOK'
        BY <1>4, <3>1 DEF SuppressionTypeOK, AddReward
      <3>3. QED
        BY <1>4, <2>1, <2>2, <2>3, <3>2
        DEF SuppressionTypeOK, AddReward, ContainerEvent, AfterConsuming
    <2>4. CASE UNCHANGED <<suppressed, credited, harvested, harvest>>
      <3>1. SuppressionTypeOK'
        BY <1>4, <2>4 DEF SuppressionTypeOK, AddReward
      <3>2. QED
        BY <1>4, <2>1, <2>2, <2>4, <3>1 DEF SuppressionTypeOK, AddReward
    <2>5. QED
      BY <1>4, <2>3, <2>4 DEF AddReward
  <1>5. ASSUME NEW n \in 1..MaxAmount, TakeItems(n) PROVE SuppressionInv'
    <2>1. n \in Nat
      OBVIOUS
    <2>2. SuppressionTypeOK'
      <3>1. suppressed' \in Nat /\ credited' \in Nat /\ harvested' \in Nat /\ harvest' \in BOOLEAN
        BY <1>5, <2>1, EventTypes DEF TakeItems
      <3>2. QED
        BY <1>5, <2>1, <3>1 DEF SuppressionTypeOK, TakeItems
    <2>3. Cardinality(Owed') = Cardinality(Owed)
      BY <1>2, <1>5 DEF TakeItems
    <2>4. QED
      BY <1>1, <1>5, <2>1, <2>2, <2>3
      DEF SuppressionTypeOK, TakeItems, ContainerEvent, AfterConsuming
  <1>6. CASE ForgetNotes
    <2>1. SuppressionTypeOK'
      BY <1>6 DEF SuppressionTypeOK, ForgetNotes
    <2>2. Owed = {}
      BY <1>6 DEF ForgetNotes, Owed
    <2>3. Cardinality(Owed) = 0
      BY <2>2, FS_EmptySet
    <2>4. Cardinality(Owed') = Cardinality(Owed)
      BY <1>2, <1>6 DEF ForgetNotes
    <2>5. QED
      BY <1>6, <2>1, <2>3, <2>4 DEF SuppressionTypeOK, ForgetNotes
  <1>7. CASE ActivateFlora \/ HarvestExpires \/ UNCHANGED suppressionVars
    <2>1. SuppressionTypeOK'
      BY <1>7 DEF SuppressionTypeOK, ActivateFlora, HarvestExpires, suppressionVars
    <2>2. Cardinality(Owed') = Cardinality(Owed)
      BY <1>2, <1>7 DEF ActivateFlora, HarvestExpires, suppressionVars
    <2>3. QED
      BY <1>7, <2>1, <2>2 DEF ActivateFlora, HarvestExpires, suppressionVars
  <1>8. QED
    BY <1>3, <1>4, <1>5, <1>6, <1>7 DEF SuppressionNext

\* Rewards earn no progress, for any number of threads that give them, any
\* amounts and any order of notes and container events (SuppressNextAcquisition
\* and ConsumeSuppression in Runtime.cpp).
THEOREM RewardsAreNotCounted == SuppressionSpec => []RewardsEarnNothing
  <1>1. SuppressionInv => RewardsEarnNothing
    BY DEF SuppressionInv, SuppressionTypeOK, RewardsEarnNothing
  <1>2. QED
    BY <1>1, SuppressionInitially, SuppressionStep, PTL DEF SuppressionSpec

----------------------------------------------------------------------------
(* The public Globals.  The titles do fit into as many batches as          *)
(* SynchronizeAll makes (TitlesFitInBatches), so each batch is one pending *)
(* operation; and two batches of one synchronization have no title in      *)
(* common (BatchesApart), so that none is lost when it is looked up first  *)
(* and created later.                                                      *)

LEMMA Quotient ==
    ASSUME NEW a \in Nat, NEW l \in Nat \ {0}
    PROVE  a \div l \in Nat /\ (a \div l) * l <= a /\ a < (a \div l) * l + l
  OBVIOUS

LEMMA MultiplesApart ==
    ASSUME NEW j \in Nat, NEW k \in Nat, NEW l \in Nat \ {0}, j < k
    PROVE  j * l + l <= k * l
  <1>1. PICK d \in Nat : k = j + 1 + d
    <2>1. k - j - 1 \in Nat /\ k = j + 1 + (k - j - 1)
      OBVIOUS
    <2>2. QED
      BY <2>1
  <1>2. k * l = j * l + l + d * l
    BY <1>1
  <1>3. d * l >= 0
    OBVIOUS
  <1>4. QED
    BY <1>2, <1>3

LEMMA QuotientIs ==
    ASSUME NEW a \in Nat, NEW l \in Nat \ {0}, NEW k \in Nat, k * l <= a, a < k * l + l
    PROVE  a \div l = k
  <1>1. a \div l \in Nat /\ (a \div l) * l <= a /\ a < (a \div l) * l + l
    BY Quotient
  <1>2. a \div l < k => FALSE
    BY <1>1, MultiplesApart
  <1>3. k < a \div l => FALSE
    BY <1>1, MultiplesApart
  <1>4. QED
    BY <1>1, <1>2, <1>3

\* The batches that SynchronizeAll makes of some titles: as many as are needed,
\* none of them empty or too large, and each title in one of them.
InBatches(some, p) ==
    /\ UNION p = some /\ {} \notin p
    /\ \A b, c \in p : b # c => b \cap c = {}
    /\ \A b \in p : Cardinality(b) <= BatchLimit
    /\ Cardinality(p) = (Cardinality(some) + BatchLimit - 1) \div BatchLimit

LEMMA TitlesFitInBatches ==
    ASSUME NEW some, IsFiniteSet(some), some # {}
    PROVE  BatchesOf(some) \in SUBSET SUBSET some /\ InBatches(some, BatchesOf(some))
  <1> DEFINE n == Cardinality(some)
             L == BatchLimit
             last == (n - 1) \div L
  <1>1. L \in Nat \ {0}
    BY GlobalsAssumption
  <1>2. n \in Nat /\ ExistsBijection(1..n, some)
    BY FS_CardinalityType
  <1>3. n # 0
    BY FS_EmptySet
  <1>4. n - 1 \in Nat
    BY <1>2, <1>3
  <1>5. PICK f \in Bijection(1..n, some) : TRUE
    BY <1>2 DEF ExistsBijection
  <1>6. /\ f \in [1..n -> some]
        /\ \A i, j \in 1..n : f[i] = f[j] => i = j
        /\ \A x \in some : \E i \in 1..n : f[i] = x
    BY <1>5 DEF Bijection, Injection, Surjection, IsInjective
  <1>7. last \in Nat /\ last * L <= n - 1 /\ n - 1 < last * L + L
    BY <1>1, <1>4, Quotient
  <1> DEFINE Index(x) == CHOOSE i \in 1..n : f[i] = x
             Batch(k) == {x \in some : (Index(x) - 1) \div L = k}
             p == {Batch(k) : k \in 0..last}
  <1>8. \A x \in some : Index(x) \in 1..n /\ f[Index(x)] = x
    BY <1>6
  <1>9. \A i \in 1..n : f[i] \in some /\ Index(f[i]) = i
    BY <1>6, <1>8
  <1> HIDE DEF Index, n, L, last
  <1>10. \A x \in some : (Index(x) - 1) \div L \in 0..last
    <2> TAKE x \in some
    <2> DEFINE a == Index(x) - 1
               k == a \div L
    <2>1. a \in Nat /\ a <= n - 1
      BY <1>2, <1>8
    <2> HIDE DEF a
    <2>2. k \in Nat /\ k * L <= a
      BY <1>1, <2>1, Quotient
    <2> HIDE DEF k
    <2>3. last < k => FALSE
      <3>1. last < k => last * L + L <= k * L
        BY <1>1, <1>7, <2>2, MultiplesApart
      <3>2. k * L \in Int /\ last * L \in Int
        BY <1>1, <1>7, <2>2
      <3>3. QED
        BY <1>1, <1>4, <1>7, <2>1, <2>2, <3>1, <3>2
    <2>4. k \in 0..last
      BY <1>7, <2>2, <2>3
    <2>5. QED
      BY <2>4 DEF k, a
  <1>11. \A k \in 0..last : \E x \in some : x \in Batch(k)
    <2> TAKE k \in 0..last
    <2>1. k \in Nat /\ k <= last
      BY <1>7
    <2>2. k * L \in Nat /\ k * L <= n - 1
      <3>1. k < last => k * L + L <= last * L
        BY <1>1, <1>7, <2>1, MultiplesApart
      <3>2. k * L \in Nat /\ last * L \in Nat
        BY <1>1, <1>7, <2>1
      <3>3. QED
        BY <1>1, <1>4, <1>7, <2>1, <3>1, <3>2
    <2>3. k * L + 1 \in 1..n
      BY <1>2, <2>2
    <2>4. (k * L) \div L = k
      BY <1>1, <2>1, <2>2, QuotientIs
    <2>5. Index(f[k * L + 1]) - 1 = k * L
      BY <1>9, <2>2, <2>3
    <2>6. f[k * L + 1] \in some /\ (Index(f[k * L + 1]) - 1) \div L = k
      BY <1>9, <2>3, <2>4, <2>5
    <2>7. f[k * L + 1] \in Batch(k)
      BY <2>6
    <2>8. QED
      BY <2>6, <2>7
  <1>12. UNION p = some /\ {} \notin p /\ p \in SUBSET SUBSET some
    BY <1>10, <1>11
  <1>13. \A b, c \in p : b # c => b \cap c = {}
    OBVIOUS
  <1>14. \A k \in 0..last : Cardinality(Batch(k)) <= L
    <2> TAKE k \in 0..last
    <2>1. k \in Nat
      BY <1>7
    <2> DEFINE h == [x \in Batch(k) |-> Index(x) - k * L]
    <2>2. \A x \in Batch(k) : Index(x) - k * L \in 1..L
      <3> TAKE x \in Batch(k)
      <3> DEFINE a == Index(x) - 1
      <3>1. a \in Nat /\ a \div L = k /\ Index(x) = a + 1
        BY <1>2, <1>8
      <3> HIDE DEF a
      <3>2. k * L <= a /\ a < k * L + L
        BY <1>1, <3>1, Quotient
      <3>3. k * L \in Nat
        BY <1>1, <2>1
      <3>4. QED
        BY <1>1, <3>1, <3>2, <3>3
    <2>3. \A x, y \in Batch(k) : h[x] = h[y] => x = y
      <3> TAKE x, y \in Batch(k)
      <3>1. Index(x) \in 1..n /\ Index(y) \in 1..n /\ f[Index(x)] = x /\ f[Index(y)] = y
        BY <1>8
      <3>2. k * L \in Nat
        BY <1>1, <2>1
      <3>3. h[x] = h[y] => Index(x) = Index(y)
        BY <1>2, <3>1, <3>2
      <3>4. QED
        BY <3>1, <3>3
    <2>4. h \in [Batch(k) -> 1..L]
      BY <2>2
    <2>5. h \in Injection(Batch(k), 1..L)
      BY <2>3, <2>4 DEF Injection, IsInjective
    <2>6. IsFiniteSet(1..L) /\ Cardinality(1..L) = L
      BY <1>1, FS_Interval
    <2>7. QED
      BY <2>5, <2>6, FS_Injection
  <1>15. Cardinality(p) = last + 1
    <2> DEFINE h == [k \in 0..last |-> Batch(k)]
    <2>1. h \in [0..last -> p]
      OBVIOUS
    <2>2. \A j, k \in 0..last : h[j] = h[k] => j = k
      BY <1>11
    <2>3. \A b \in p : \E k \in 0..last : h[k] = b
      OBVIOUS
    <2>4. h \in Bijection(0..last, p)
      BY <2>1, <2>2, <2>3 DEF Bijection, Injection, Surjection, IsInjective
    <2>5. ExistsBijection(0..last, p)
      BY <2>4 DEF ExistsBijection
    <2>6. IsFiniteSet(0..last) /\ Cardinality(0..last) = last + 1
      BY <1>7, FS_Interval
    <2>7. QED
      BY <2>5, <2>6, FS_Bijection
  <1>16. (n + L - 1) \div L = last + 1
    <2>1. (last + 1) * L = last * L + L /\ last * L \in Nat
      BY <1>1, <1>7
    <2>2. n + L - 1 \in Nat /\ (last + 1) * L <= n + L - 1 /\ n + L - 1 < (last + 1) * L + L
      BY <1>1, <1>2, <1>4, <1>7, <2>1
    <2>3. last + 1 \in Nat
      BY <1>7
    <2> DEFINE a == n + L - 1
               k == last + 1
    <2>4. a \in Nat /\ k \in Nat /\ k * L <= a /\ a < k * L + L
      BY <2>2, <2>3
    <2> HIDE DEF a, k
    <2>5. a \div L = k
      BY <1>1, <2>4, QuotientIs
    <2>6. QED
      BY <2>5 DEF a, k
  <1>17. InBatches(some, p)
    BY <1>12, <1>13, <1>14, <1>15, <1>16 DEF InBatches, n, L
  <1>18. \E q \in SUBSET SUBSET some : InBatches(some, q)
    BY <1>12, <1>17
  <1>19. BatchesOf(some) = CHOOSE q \in SUBSET SUBSET some : InBatches(some, q)
    BY DEF BatchesOf, InBatches
  <1>20. QED
    BY <1>18, <1>19


\* What DFG is asked for.
GlobalsTypeOK ==
    /\ lastValue \in [Titles -> Int]
    /\ queued \in BOOLEAN
    /\ pending \in Nat
    /\ IsFiniteSet(waiting) /\ IsFiniteSet(batches)
    /\ progress \in [Titles -> 0..Earned]
    /\ announced \in [Titles -> Nat]
    /\ syncs \in Nat

\* The batches that are on their way: an answer of DFG for a batch never makes
\* it into one that DFG has already.
BatchesApart ==
    LET all == waiting \cup batches
    IN /\ waiting \cap batches = {}
       /\ all \subseteq [id : Nat, titles : SUBSET Titles, kind : {"lookup", "create"}]
       /\ \A b \in all : b.titles # {} /\ b.id < syncs
       /\ \A b, c \in all : b.id = c.id /\ b # c => b.titles \cap c.titles = {}

\* Only a title that was not earned is announced.
AnnouncedIsEarned ==
    \A t \in Titles : announced[t] <= 1 /\ (announced[t] = 1 => progress[t] = Earned)

GlobalsInv ==
    GlobalsTypeOK /\ BatchesApart /\ SynchronizationHasAnOwner /\ AnnouncedIsEarned

LEMMA GlobalsInitially == GlobalsInit => GlobalsInv
  <1> SUFFICES ASSUME GlobalsInit PROVE GlobalsInv
    OBVIOUS
  <1>1. IsFiniteSet({})
    BY FS_EmptySet
  <1>2. GlobalsTypeOK
    <2>1. lastValue \in [Titles -> Int]
      BY DEF GlobalsInit, Unresolved
    <2>2. progress \in [Titles -> 0..Earned] /\ announced \in [Titles -> Nat]
      BY DEF GlobalsInit, Earned
    <2>3. QED
      BY <1>1, <2>1, <2>2 DEF GlobalsInit, GlobalsTypeOK
  <1>3. BatchesApart
    BY DEF GlobalsInit, BatchesApart
  <1>4. SynchronizationHasAnOwner
    BY DEF GlobalsInit, SynchronizationHasAnOwner
  <1>5. AnnouncedIsEarned
    BY DEF GlobalsInit, AnnouncedIsEarned
  <1>6. QED
    BY <1>2, <1>3, <1>4, <1>5 DEF GlobalsInv

\* The batches of a synchronization that begins.
LEMMA GlobalsAsked ==
    ASSUME GlobalsInv, NEW gone \in SUBSET Titles, SynchronizeAll(gone)
    PROVE  GlobalsInv'
  <1> USE DEF GlobalsInv
  <1> DEFINE missing == {t \in Titles : lastValue[t] = Unresolved} \cup gone
  <1>1. CASE missing = {}
    <2>1. GlobalsTypeOK'
      <3>1. lastValue' \in [Titles -> Int]
        BY <1>1 DEF GlobalsTypeOK, SynchronizeAll, Published, Unresolved, Earned
      <3>2. queued' = FALSE /\ pending' = 0 /\ syncs' \in Nat
        BY <1>1 DEF GlobalsTypeOK, SynchronizeAll, Count
      <3>3. UNCHANGED <<waiting, batches, progress, announced>>
        BY <1>1 DEF SynchronizeAll
      <3>4. QED
        BY <3>1, <3>2, <3>3 DEF GlobalsTypeOK
    <2>2. BatchesApart'
      BY <1>1 DEF GlobalsTypeOK, BatchesApart, SynchronizeAll, Count
    <2>3. SynchronizationHasAnOwner'
      BY <1>1 DEF SynchronizationHasAnOwner, SynchronizeAll
    <2>4. AnnouncedIsEarned'
      BY <1>1 DEF AnnouncedIsEarned, SynchronizeAll
    <2>5. QED
      BY <2>1, <2>2, <2>3, <2>4
  <1>2. CASE missing # {}
    <2> DEFINE P == BatchesOf(missing)
               ask(b) == [id |-> syncs, titles |-> b, kind |-> "lookup"]
               h == [b \in P |-> ask(b)]
    <2>1. missing \in SUBSET Titles
      OBVIOUS
    <2>2. IsFiniteSet(missing)
      BY <2>1, GlobalsAssumption, FS_Subset
    <2> HIDE DEF missing
    <2>3. P \in SUBSET SUBSET missing /\ InBatches(missing, P)
      BY <1>2, <2>2, TitlesFitInBatches
    <2> HIDE DEF P
    <2>4. /\ {} \notin P /\ P # {}
          /\ \A b, c \in P : b # c => b \cap c = {}
          /\ \A b \in P : b \in SUBSET Titles
      BY <1>2, <2>1, <2>3 DEF InBatches
    <2>5. waiting' = {ask(b) : b \in P} /\ queued' = TRUE /\ pending' = Cardinality(waiting')
      BY <1>2 DEF SynchronizeAll, missing, P
    <2>6. /\ waiting = {} /\ batches' = batches /\ lastValue' = lastValue
          /\ progress' = progress /\ announced' = announced /\ syncs' = syncs + 1
      BY <1>2 DEF SynchronizeAll, Count, missing
    <2>7. IsFiniteSet(P)
      <3>1. IsFiniteSet(SUBSET missing)
        BY <2>2, FS_SUBSET
      <3>2. QED
        BY <2>3, <3>1, FS_Subset
    <2>8. IsFiniteSet(waiting')
      <3>1. h \in Surjection(P, {ask(b) : b \in P})
        BY DEF Surjection
      <3>2. QED
        BY <2>5, <2>7, <3>1, FS_Surjection
    <2>9. Cardinality(waiting') \in Nat /\ Cardinality(waiting') # 0
      <3>1. waiting' # {}
        <4>1. PICK b \in P : TRUE
          BY <2>4
        <4>2. ask(b) \in waiting'
          BY <2>5, <4>1
        <4>3. QED
          BY <4>2
      <3>2. QED
        BY <2>8, <3>1, FS_CardinalityType, FS_EmptySet
    <2>10. Cardinality(batches) \in Nat
      BY FS_CardinalityType DEF GlobalsTypeOK
    <2>11. GlobalsTypeOK'
      BY <2>5, <2>6, <2>8, <2>9 DEF GlobalsTypeOK
    <2>12. BatchesApart'
      <3>1. syncs \in Nat
        BY DEF GlobalsTypeOK
      <3>2. \A b \in batches :
              /\ b \in [id : Nat, titles : SUBSET Titles, kind : {"lookup", "create"}]
              /\ b.titles # {} /\ b.id < syncs /\ b.id \in Nat
        BY DEF BatchesApart
      <3>3. \A b \in waiting' :
              /\ b \in [id : Nat, titles : SUBSET Titles, kind : {"lookup", "create"}]
              /\ b.titles # {} /\ b.id = syncs /\ b.titles \in P /\ b = ask(b.titles)
        <4> TAKE b \in waiting'
        <4>1. PICK c \in P : b = ask(c)
          BY <2>5
        <4>2. b.id = syncs /\ b.titles = c /\ b.kind = "lookup"
          BY <4>1
        <4>3. c # {} /\ c \in SUBSET Titles
          BY <2>4
        <4>4. b \in [id : Nat, titles : SUBSET Titles, kind : {"lookup", "create"}]
          BY <3>1, <4>1, <4>3
        <4>5. QED
          BY <4>1, <4>2, <4>3, <4>4
      <3>4. \A b, c \in batches : b.id = c.id /\ b # c => b.titles \cap c.titles = {}
        BY DEF BatchesApart
      <3>5. \A b, c \in waiting' : b # c => b.titles \cap c.titles = {}
        BY <2>4, <3>3
      <3> HIDE DEF ask
      <3>6. \A b \in waiting', c \in batches : b.id # c.id
        BY <3>1, <3>2, <3>3
      <3>7. waiting' \cap batches = {}
        BY <3>6
      <3>8. \A b, c \in waiting' \cup batches : b.id = c.id /\ b # c => b.titles \cap c.titles = {}
        BY <3>4, <3>5, <3>6
      <3>9. \A b \in waiting' \cup batches : b.titles # {} /\ b.id < syncs'
        BY <2>6, <3>1, <3>2, <3>3
      <3>10. waiting' \cup batches \subseteq
               [id : Nat, titles : SUBSET Titles, kind : {"lookup", "create"}]
        BY <3>2, <3>3
      <3>11. QED
        BY <2>6, <3>7, <3>8, <3>9, <3>10 DEF BatchesApart
    <2>13. SynchronizationHasAnOwner'
      BY <2>5, <2>6, <2>9, <2>10 DEF SynchronizationHasAnOwner
    <2>14. AnnouncedIsEarned'
      BY <2>6 DEF AnnouncedIsEarned
    <2>15. QED
      BY <2>11, <2>12, <2>13, <2>14
  <1>3. QED
    BY <1>1, <1>2

\* An operation ends with a batch less on its way.
LEMMA GlobalsEnded ==
    ASSUME GlobalsInv, NEW values \in [Titles -> Int], EndOperation(values),
           IsFiniteSet(waiting'), IsFiniteSet(batches'),
           Cardinality(waiting') + Cardinality(batches')
               = Cardinality(waiting) + Cardinality(batches) - 1,
           progress' = progress, syncs' = syncs
    PROVE  GlobalsTypeOK' /\ SynchronizationHasAnOwner' /\ AnnouncedIsEarned'
  <1> USE DEF GlobalsInv
  <1>0. pending \in Nat /\ queued \in BOOLEAN
    BY DEF GlobalsTypeOK
  <1>1. pending' \in Nat /\ queued' \in BOOLEAN
    <2>1. pending' \in Nat
      BY <1>0 DEF EndOperation
    <2>2. queued' = FALSE \/ queued' = queued
      BY DEF EndOperation
    <2>3. QED
      BY <1>0, <2>1, <2>2
  <1>2. lastValue' \in [Titles -> Int]
    BY DEF EndOperation, GlobalsTypeOK, Published, Unresolved, Earned
  <1>3. announced' = announced
    BY DEF EndOperation, AnnouncedQuietly
  <1>4. GlobalsTypeOK'
    BY <1>1, <1>2, <1>3 DEF GlobalsTypeOK
  <1>5. /\ Cardinality(waiting) \in Nat /\ Cardinality(batches) \in Nat
        /\ Cardinality(waiting') \in Nat /\ Cardinality(batches') \in Nat
    BY FS_CardinalityType DEF GlobalsTypeOK
  <1>6. SynchronizationHasAnOwner'
    <2> SUFFICES ASSUME queued'
                 PROVE  pending' > 0 /\ pending' <= Cardinality(waiting') + Cardinality(batches')
      BY DEF SynchronizationHasAnOwner
    <2>1. pending' # 0 /\ queued
      BY DEF EndOperation
    <2>2. pending > 0 /\ pending <= Cardinality(waiting) + Cardinality(batches)
      BY <2>1 DEF SynchronizationHasAnOwner
    <2>3. pending' = pending - 1
      BY <2>2 DEF EndOperation
    <2>4. QED
      BY <1>0, <1>1, <1>5, <2>1, <2>2, <2>3
  <1>7. AnnouncedIsEarned'
    BY <1>3 DEF AnnouncedIsEarned
  <1>8. QED
    BY <1>4, <1>6, <1>7

LEMMA GlobalsHanded ==
    ASSUME GlobalsInv, NEW b \in waiting, HandOver(b)
    PROVE  GlobalsInv'
  <1> USE DEF GlobalsInv
  <1>1. b \notin batches /\ waiting' = waiting \ {b}
    BY DEF HandOver, BatchesApart
  <1>2. /\ IsFiniteSet(waiting') /\ Cardinality(waiting') = Cardinality(waiting) - 1
        /\ Cardinality(waiting) \in Nat /\ Cardinality(batches) \in Nat
    BY <1>1, FS_RemoveElement, FS_CardinalityType DEF GlobalsTypeOK
  <1>3. CASE batches' = batches \cup {b} /\ UNCHANGED <<queued, pending, lastValue, announced>>
    <2>1. IsFiniteSet(batches') /\ Cardinality(batches') = Cardinality(batches) + 1
      BY <1>1, <1>3, FS_AddElement DEF GlobalsTypeOK
    <2>2. GlobalsTypeOK'
      BY <1>2, <1>3, <2>1 DEF GlobalsTypeOK, HandOver
    <2>3. BatchesApart'
      <3>1. waiting' \cup batches' = waiting \cup batches
        BY <1>1, <1>3
      <3>2. waiting' \cap batches' = {}
        BY <1>1, <1>3 DEF BatchesApart
      <3>3. QED
        BY <3>1, <3>2 DEF BatchesApart, HandOver
    <2>4. SynchronizationHasAnOwner'
      BY <1>2, <1>3, <2>1 DEF SynchronizationHasAnOwner
    <2>5. AnnouncedIsEarned'
      BY <1>3 DEF AnnouncedIsEarned, HandOver
    <2>6. QED
      BY <2>2, <2>3, <2>4, <2>5
  <1>4. CASE EndOperation(lastValue) /\ UNCHANGED batches
    <2>1. lastValue \in [Titles -> Int] /\ IsFiniteSet(batches')
      BY <1>4 DEF GlobalsTypeOK
    <2>2. progress' = progress /\ syncs' = syncs
      BY DEF HandOver
    <2>3. Cardinality(waiting') + Cardinality(batches')
               = Cardinality(waiting) + Cardinality(batches) - 1
      BY <1>2, <1>4
    <2>4. GlobalsTypeOK' /\ SynchronizationHasAnOwner' /\ AnnouncedIsEarned'
      BY <1>2, <1>4, <2>1, <2>2, <2>3, GlobalsEnded
    <2>5. BatchesApart'
      BY <1>1, <1>4, <2>2 DEF BatchesApart
    <2>6. QED
      BY <2>4, <2>5
  <1>5. QED
    BY <1>3, <1>4 DEF HandOver

\* An answer that ends the operation of its batch.
LEMMA GlobalsAnswered ==
    ASSUME GlobalsInv, NEW b \in batches, batches' = batches \ {b},
           NEW some \in SUBSET Titles, EndOperation(Resolved(some)),
           waiting' = waiting, progress' = progress, syncs' = syncs
    PROVE  GlobalsInv'
  <1> USE DEF GlobalsInv
  <1>1. Resolved(some) \in [Titles -> Int]
    BY DEF Resolved, GlobalsTypeOK, Earned
  <1>2. /\ IsFiniteSet(batches') /\ Cardinality(batches') = Cardinality(batches) - 1
        /\ IsFiniteSet(waiting')
        /\ Cardinality(waiting) \in Nat /\ Cardinality(batches) \in Nat
    BY FS_RemoveElement, FS_CardinalityType DEF GlobalsTypeOK
  <1>3. Cardinality(waiting') + Cardinality(batches')
               = Cardinality(waiting) + Cardinality(batches) - 1
    BY <1>2
  <1>4. GlobalsTypeOK' /\ SynchronizationHasAnOwner' /\ AnnouncedIsEarned'
    BY <1>1, <1>2, <1>3, GlobalsEnded
  <1>5. BatchesApart'
    BY DEF BatchesApart
  <1>6. QED
    BY <1>4, <1>5

\* The titles of a batch that do not exist are asked for again as one batch.
LEMMA GlobalsCreated ==
    ASSUME GlobalsInv, NEW b \in batches, b.kind = "lookup",
           NEW absent \in SUBSET b.titles, absent # {},
           batches' = (batches \ {b}) \cup {[b EXCEPT !.titles = absent, !.kind = "create"]},
           NEW some \in SUBSET Titles, lastValue' = Resolved(some),
           UNCHANGED <<queued, pending, announced, waiting, progress, syncs>>
    PROVE  GlobalsInv'
  <1> USE DEF GlobalsInv
  <1> DEFINE create == [b EXCEPT !.titles = absent, !.kind = "create"]
             All == [id : Nat, titles : SUBSET Titles, kind : {"lookup", "create"}]
  <1>1. b \in All /\ b.titles # {} /\ b.id < syncs
    BY DEF BatchesApart
  <1>2. create \in All /\ create.id = b.id /\ create.titles = absent /\ create.kind = "create"
    BY <1>1
  <1> HIDE DEF create, All
  <1>3. batches' = (batches \ {b}) \cup {create}
    BY DEF create
  <1>4. \A c \in waiting \cup batches : c # b /\ c.id = b.id => c.titles \cap b.titles = {}
    BY DEF BatchesApart
  <1>5. create \notin waiting \cup batches
    <2>1. create # b
      BY <1>2
    <2>2. create \in waiting \cup batches => create.titles \cap b.titles = {}
      BY <1>2, <1>4, <2>1
    <2>3. QED
      BY <1>2, <2>2
  <1>6. /\ IsFiniteSet(batches \ {b}) /\ Cardinality(batches \ {b}) = Cardinality(batches) - 1
        /\ Cardinality(batches) \in Nat
    BY FS_RemoveElement, FS_CardinalityType DEF GlobalsTypeOK
  <1>7. /\ IsFiniteSet(batches')
        /\ Cardinality(batches') = Cardinality(batches \ {b}) + 1
    BY <1>3, <1>5, <1>6, FS_AddElement
  <1>8. GlobalsTypeOK'
    <2>1. Resolved(some) \in [Titles -> Int]
      BY DEF Resolved, GlobalsTypeOK, Earned
    <2>2. QED
      BY <1>7, <2>1 DEF GlobalsTypeOK
  <1>9. BatchesApart'
    <2>1. waiting' \cap batches' = {}
      BY <1>3, <1>5 DEF BatchesApart
    <2>2. waiting' \cup batches' \subseteq All
      BY <1>2, <1>3 DEF BatchesApart, All
    <2>3. \A c \in waiting' \cup batches' : c.titles # {} /\ c.id < syncs'
      BY <1>1, <1>2, <1>3 DEF BatchesApart
    <2>4. ASSUME NEW c \in waiting \cup batches, NEW d \in waiting \cup batches,
                 c.id = d.id, c # d
          PROVE  c.titles \cap d.titles = {}
      BY <2>4 DEF BatchesApart
    <2>5. ASSUME NEW c \in waiting \cup batches, c # b, c.id = create.id
          PROVE  c.titles \cap create.titles = {}
      BY <1>2, <1>4, <2>5
    <2>6. \A c, d \in waiting' \cup batches' : c.id = d.id /\ c # d => c.titles \cap d.titles = {}
      <3> TAKE c, d \in waiting' \cup batches'
      <3>1. /\ c = create \/ (c \in waiting \cup batches /\ c # b)
            /\ d = create \/ (d \in waiting \cup batches /\ d # b)
        BY <1>3 DEF BatchesApart
      <3>2. QED
        BY <2>4, <2>5, <3>1
    <2>7. QED
      BY <2>1, <2>2, <2>3, <2>6 DEF BatchesApart, All
  <1>10. SynchronizationHasAnOwner'
    <2>1. Cardinality(batches') = Cardinality(batches)
      BY <1>6, <1>7
    <2>2. QED
      BY <2>1 DEF SynchronizationHasAnOwner
  <1>11. AnnouncedIsEarned'
    BY DEF AnnouncedIsEarned
  <1>12. QED
    BY <1>8, <1>9, <1>10, <1>11

LEMMA GlobalsStep == GlobalsInv /\ [GlobalsNext]_globalsVars => GlobalsInv'
  <1> SUFFICES ASSUME GlobalsInv, [GlobalsNext]_globalsVars PROVE GlobalsInv'
    OBVIOUS
  <1>1. ASSUME NEW gone \in SUBSET Titles, SynchronizeAll(gone) PROVE GlobalsInv'
    BY <1>1, GlobalsAsked
  <1>2. ASSUME NEW b \in waiting, HandOver(b) PROVE GlobalsInv'
    BY <1>2, GlobalsHanded
  <1>3. ASSUME NEW b \in batches, AnswerLookup(b) PROVE GlobalsInv'
    <2>0. b.titles \in SUBSET Titles
      BY DEF GlobalsInv, BatchesApart
    <2>1. UNCHANGED <<waiting, exists, progress, syncs>> /\ b.kind = "lookup"
      BY <1>3 DEF AnswerLookup
    <2> DEFINE Absent_(failed) == b.titles \ (exists \cup failed)
               Create(failed) == [b EXCEPT !.titles = Absent_(failed), !.kind = "create"]
    <2>2. PICK found \in SUBSET (b.titles \cap exists), failed \in SUBSET b.titles :
            \/ /\ Absent_(failed) # {}
               /\ batches' = (batches \ {b}) \cup {Create(failed)}
               /\ lastValue' = Resolved(found)
               /\ UNCHANGED <<queued, pending, announced>>
            \/ /\ batches' = batches \ {b}
               /\ EndOperation(Resolved(found))
      BY <1>3 DEF AnswerLookup
    <2>3. found \in SUBSET Titles /\ Absent_(failed) \in SUBSET b.titles
      BY <2>0
    <2>4. CASE /\ Absent_(failed) # {}
               /\ batches' = (batches \ {b}) \cup {Create(failed)}
               /\ lastValue' = Resolved(found)
               /\ UNCHANGED <<queued, pending, announced>>
      BY <2>1, <2>3, <2>4, GlobalsCreated
    <2>5. CASE batches' = batches \ {b} /\ EndOperation(Resolved(found))
      BY <2>1, <2>3, <2>5, GlobalsAnswered
    <2>6. QED
      BY <2>2, <2>4, <2>5
  <1>4. ASSUME NEW b \in batches, AnswerCreate(b) PROVE GlobalsInv'
    <2>0. b.titles \in SUBSET Titles
      BY DEF GlobalsInv, BatchesApart
    <2>1. UNCHANGED <<waiting, progress, syncs>> /\ batches' = batches \ {b}
      BY <1>4 DEF AnswerCreate
    <2>2. PICK created \in SUBSET b.titles : EndOperation(Resolved(created))
      BY <1>4 DEF AnswerCreate
    <2>3. created \in SUBSET Titles
      BY <2>0
    <2>4. QED
      BY <2>1, <2>2, <2>3, GlobalsAnswered
  <1>5. ASSUME NEW t \in Titles, NEW value \in 0..Earned, ChangeProgress(t, value)
        PROVE  GlobalsInv'
    <2> USE DEF GlobalsInv
    <2>1. /\ progress[t] # Earned /\ progress' = [progress EXCEPT ![t] = value]
          /\ syncs' = syncs + 1 /\ UNCHANGED requestVars
      BY <1>5 DEF ChangeProgress, Count
    <2>2. value \in Int /\ announced \in [Titles -> Nat] /\ lastValue \in [Titles -> Int]
      BY DEF Earned, GlobalsTypeOK
    <2>3. lastValue' = lastValue \/ lastValue' = [lastValue EXCEPT ![t] = value]
      BY <1>5 DEF ChangeProgress
    <2>4. \/ announced' = announced
          \/ value = Earned /\ announced' = [announced EXCEPT ![t] = @ + 1]
      BY <1>5 DEF ChangeProgress, Announces
    <2>5. GlobalsTypeOK'
      <3>1. lastValue' \in [Titles -> Int]
        BY <2>2, <2>3
      <3>2. announced' \in [Titles -> Nat]
        BY <2>2, <2>4
      <3>3. progress' \in [Titles -> 0..Earned] /\ syncs' \in Nat
        BY <2>1 DEF GlobalsTypeOK
      <3>4. UNCHANGED <<queued, pending, waiting, batches>>
        BY <2>1 DEF requestVars
      <3>5. QED
        BY <3>1, <3>2, <3>3, <3>4 DEF GlobalsTypeOK
    <2>6. BatchesApart'
      BY <2>1 DEF GlobalsTypeOK, BatchesApart, requestVars
    <2>7. SynchronizationHasAnOwner'
      BY <2>1 DEF SynchronizationHasAnOwner, requestVars
    <2>8. AnnouncedIsEarned'
      BY <2>1, <2>2, <2>4 DEF AnnouncedIsEarned, GlobalsTypeOK
    <2>9. QED
      BY <2>5, <2>6, <2>7, <2>8
  <1>6. CASE LoadAnother
    <2> USE DEF GlobalsInv
    <2>1. GlobalsTypeOK'
      <3>1. lastValue' \in [Titles -> Int]
        BY <1>6 DEF LoadAnother, ClearRuntimeForms, Unresolved
      <3>2. progress' \in [Titles -> 0..Earned] /\ announced' \in [Titles -> Nat]
        BY <1>6 DEF LoadAnother, Earned
      <3>3. queued' = FALSE /\ pending' = 0 /\ syncs' \in Nat
        BY <1>6 DEF GlobalsTypeOK, LoadAnother, ClearRuntimeForms, Count
      <3>4. waiting' = waiting /\ batches' = batches
        BY <1>6 DEF LoadAnother
      <3>5. QED
        BY <3>1, <3>2, <3>3, <3>4 DEF GlobalsTypeOK
    <2>2. BatchesApart'
      BY <1>6 DEF GlobalsTypeOK, BatchesApart, LoadAnother, Count
    <2>3. SynchronizationHasAnOwner'
      BY <1>6 DEF SynchronizationHasAnOwner, LoadAnother, ClearRuntimeForms
    <2>4. AnnouncedIsEarned'
      BY <1>6 DEF AnnouncedIsEarned, LoadAnother
    <2>5. QED
      BY <2>1, <2>2, <2>3, <2>4
  <1>7. CASE UNCHANGED globalsVars
    BY <1>7 DEF GlobalsInv, GlobalsTypeOK, BatchesApart, SynchronizationHasAnOwner,
                AnnouncedIsEarned, globalsVars
  <1>8. ASSUME NEW t \in Titles, NEW value \in 0..Earned, ResetProgress(t, value)
        PROVE  GlobalsInv'
    <2> USE DEF GlobalsInv
    <2>1. /\ progress' = [progress EXCEPT ![t] = value]
          /\ syncs' = syncs + 1 /\ UNCHANGED requestVars /\ exists' = exists
      BY <1>8 DEF ResetProgress, Count
    <2>2. announced \in [Titles -> Nat] /\ lastValue \in [Titles -> Int]
      BY DEF GlobalsTypeOK
    <2>3. lastValue' = lastValue \/ lastValue' = [lastValue EXCEPT ![t] = 0]
      BY <1>8 DEF ResetProgress
    <2>4. PICK n \in 0..1 : /\ announced' = [announced EXCEPT ![t] = n]
                            /\ n = 1 => value = Earned
      BY <1>8 DEF ResetProgress, Announces
    <2>5. GlobalsTypeOK'
      <3>1. lastValue' \in [Titles -> Int]
        BY <2>2, <2>3
      <3>2. announced' \in [Titles -> Nat]
        BY <2>2, <2>4
      <3>3. progress' \in [Titles -> 0..Earned] /\ syncs' \in Nat
        BY <2>1 DEF GlobalsTypeOK
      <3>4. UNCHANGED <<queued, pending, waiting, batches>>
        BY <2>1 DEF requestVars
      <3>5. QED
        BY <3>1, <3>2, <3>3, <3>4 DEF GlobalsTypeOK
    <2>6. BatchesApart'
      BY <2>1 DEF GlobalsTypeOK, BatchesApart, requestVars
    <2>7. SynchronizationHasAnOwner'
      BY <2>1 DEF SynchronizationHasAnOwner, requestVars
    <2>8. AnnouncedIsEarned'
      BY <2>1, <2>2, <2>4 DEF AnnouncedIsEarned, GlobalsTypeOK
    <2>9. QED
      BY <2>5, <2>6, <2>7, <2>8
  <1>9. QED
    BY <1>1, <1>2, <1>3, <1>4, <1>5, <1>6, <1>7, <1>8 DEF GlobalsNext

\* The Globals of a game are synchronized to the end and each title is announced
\* once until its progress is reset, for any number of titles, any size of a batch and
\* any order in which DFG answers, refuses or fails, games that were left included
\* (DFGBridge.cpp).
THEOREM GlobalsAreSynchronized == GlobalsSpec => []GlobalsInOrder
  <1>1. GlobalsInv => GlobalsInOrder
    BY DEF GlobalsInv, AnnouncedIsEarned, GlobalsInOrder, AnnouncedOnce
  <1>2. QED
    BY <1>1, GlobalsInitially, GlobalsStep, PTL DEF GlobalsSpec

----------------------------------------------------------------------------
(* The store.  What a title counts as saved is its row on disk, if its     *)
(* package still has a database, whatever happened before (SavedIsOnDisk); *)
(* and as long as no load and no save failed in part, the packages found   *)
(* are those with a database (DatabasesAreListed), and the rows on disk    *)
(* are those of the titles (NothingElseOnDisk), so                         *)
(* that a save that succeeds leaves on disk the titles in memory.  Between *)
(* the steps of SaveAll two rows may have the same Global; that is why the *)
(* disk is only known to be clean when no save is under way.               *)

TitleRecord == [package : Packages, content : Contents, version : Nat,
                saved : {<<>>} \cup {<<c>> : c \in Contents}]

StoreTypeOK ==
    /\ IsDisk(disk) /\ listed \subseteq Packages
    /\ up \in BOOLEAN
    /\ packages \subseteq Packages
    /\ titles \in [DOMAIN titles -> TitleRecord] /\ DOMAIN titles \subseteq TitleIDs
    /\ doomed \subseteq TitleIDs
    /\ doomedPackages \subseteq Packages \ {Local}
    /\ saving \in [on : BOOLEAN, save : SUBSET TitleIDs, delete : SUBSET TitleIDs,
                   deletePackages : SUBSET (Packages \ {Local}), failed : BOOLEAN]
    /\ trouble \in BOOLEAN /\ settled \in BOOLEAN

\* A title that was saved is on disk, with the version and the content it had,
\* unless its package has no database any more.
SavedIsOnDisk ==
    \A id \in DOMAIN titles :
        LET t == titles[id]
        IN t.saved # <<>> /\ OnDisk(t.package) =>
             id \in Stored(t.package)
             /\ disk[t.package][id] = [version |-> t.version, content |-> t.saved[1]]

\* The titles belong to packages that are there, when the program runs; what is
\* to be saved is there until it was tried.
PackagesAreThere ==
    /\ up => Local \in packages
    /\ \A id \in DOMAIN titles : titles[id].package \in packages
    /\ ~up => titles = <<>> /\ ~saving.on
    /\ saving.save \subseteq DOMAIN titles

StoreInv == StoreTypeOK /\ SavedIsOnDisk /\ PackagesAreThere

\* No two rows have the same identifier or Global.
Clean(d) ==
    \A r, s \in RowsOf(d) : r # s =>
        r[2] # s[2] /\ d[r[1]][r[2]].content.global # d[s[1]][s[2]].content.global

\* Each package with a database has its manifest, and the other way round; these
\* are the packages that the program knows.
DatabasesAreListed ==
    /\ \A p \in Packages : p \in listed <=> OnDisk(p)
    /\ up => packages = listed

NothingElseOnDisk ==
    up => \A p \in Packages : \A id \in Stored(p) :
        id \in DOMAIN titles /\ titles[id].package = p /\ titles[id].saved # <<>>

\* What SaveAll began with and has not done, it has still to do.
SavingToTheEnd ==
    /\ saving.failed => trouble
    /\ saving.on =>
         /\ Valid
         /\ \A id \in Lasting : Modified(id) => id \in saving.save \/ saving.failed
         /\ doomed \subseteq saving.delete \/ saving.failed
         /\ doomedPackages \subseteq saving.deletePackages \/ saving.failed

SettledIsSaved ==
    settled =>
        /\ up /\ doomed = {} /\ doomedPackages = {} /\ Valid
        /\ \A id \in DOMAIN titles : ~Modified(id)
        /\ saving.save = {} /\ saving.delete = {} /\ saving.deletePackages = {}

KeptWell ==
    /\ DatabasesAreListed
    /\ NothingElseOnDisk /\ SavingToTheEnd /\ SettledIsSaved /\ (~saving.on => Clean(disk))

KeptInv == StoreInv /\ (~trouble => KeptWell)

LEMMA DatabaseFacts ==
    /\ EmptyPackage # Absent /\ IsDatabase(EmptyPackage) /\ DOMAIN EmptyPackage = {}
    /\ \A db : IsDatabase(db) => db # Absent
  <1>1. DOMAIN Absent = {NoTitle}
    BY DEF Absent
  <1>2. DOMAIN EmptyPackage = {}
    BY DEF EmptyPackage
  <1>3. IsDatabase(EmptyPackage)
    BY <1>2 DEF IsDatabase, EmptyPackage
  <1>4. ASSUME NEW db, IsDatabase(db) PROVE db # Absent
    BY <1>1, <1>4, StoreAssumption DEF IsDatabase, NoTitle
  <1>5. QED
    BY <1>2, <1>3, <1>4

LEMMA WithRowFacts ==
    ASSUME NEW db, IsDatabase(db), NEW id \in TitleIDs, NEW row \in Rows
    PROVE  /\ IsDatabase(WithRow(db, id, row))
           /\ DOMAIN WithRow(db, id, row) = DOMAIN db \cup {id}
           /\ WithRow(db, id, row)[id] = row
           /\ \A x \in DOMAIN db : x # id => WithRow(db, id, row)[x] = db[x]
  BY DEF IsDatabase, WithRow

LEMMA WithoutRowFacts ==
    ASSUME NEW db, NEW id \in TitleIDs, IsDatabase(db) \/ db = Absent
    PROVE  /\ IsDatabase(db) => IsDatabase(WithoutRow(db, id))
           /\ db = Absent => WithoutRow(db, id) = Absent
           /\ DOMAIN WithoutRow(db, id) = DOMAIN db \ {id}
           /\ \A x \in DOMAIN db : x # id => WithoutRow(db, id)[x] = db[x]
  <1>1. IsDatabase(db) => IsDatabase(WithoutRow(db, id))
    BY DEF IsDatabase, WithoutRow
  <1>2. DOMAIN WithoutRow(db, id) = DOMAIN db \ {id}
    BY DEF WithoutRow
  <1>3. \A x \in DOMAIN db : x # id => WithoutRow(db, id)[x] = db[x]
    BY DEF WithoutRow
  <1>4. ASSUME db = Absent PROVE WithoutRow(db, id) = Absent
    <2>1. DOMAIN db = {NoTitle} /\ {NoTitle} \ {id} = {NoTitle}
      BY <1>4, StoreAssumption DEF Absent, NoTitle
    <2>2. db[NoTitle] = 0
      BY <1>4 DEF Absent
    <2>3. WithoutRow(db, id) = [x \in {NoTitle} |-> db[x]]
      BY <2>1 DEF WithoutRow
    <2>4. QED
      BY <2>2, <2>3 DEF Absent
  <1>5. QED
    BY <1>1, <1>2, <1>3, <1>4

LEMMA DiskUpdated ==
    ASSUME NEW d, IsDisk(d), NEW p \in Packages, NEW db, db = Absent \/ IsDatabase(db),
           NEW e, e = [d EXCEPT ![p] = db]
    PROVE  IsDisk(e) /\ e[p] = db /\ \A q \in Packages : q # p => e[q] = d[q]
  BY DEF IsDisk

LEMMA EmptyPackageAdded ==
    ASSUME NEW d, IsDisk(d), NEW p \in Packages
    PROVE  LET e == [d EXCEPT ![p] = EmptyPackage]
           IN IsDisk(e) /\ e[p] # Absent /\ e[p] = EmptyPackage
              /\ \A q \in Packages : q # p => e[q] = d[q]
  <1>1. EmptyPackage # Absent /\ IsDatabase(EmptyPackage)
    BY DatabaseFacts
  <1> DEFINE e == [d EXCEPT ![p] = EmptyPackage]
  <1>2. IsDisk(e) /\ e[p] = EmptyPackage /\ \A q \in Packages : q # p => e[q] = d[q]
    BY <1>1, DiskUpdated
  <1>3. QED
    BY <1>1, <1>2

LEMMA RowFacts ==
    ASSUME NEW d, IsDisk(d), NEW r \in RowsOf(d)
    PROVE  /\ r = <<r[1], r[2]>> /\ r[1] \in Packages /\ r[2] \in TitleIDs
           /\ d[r[1]] # Absent /\ IsDatabase(d[r[1]]) /\ r[2] \in DOMAIN d[r[1]]
           /\ d[r[1]][r[2]] \in Rows
  BY DEF IsDisk, RowsOf, IsDatabase

\* What loading makes of rows: each title comes from one of them.
LEMMA TitlesAreRows ==
    ASSUME NEW d, IsDisk(d), NEW rows \in SUBSET RowsOf(d)
    PROVE  LET T == TitlesFrom(d, rows)
           IN /\ T \in [DOMAIN T -> TitleRecord] /\ DOMAIN T \subseteq TitleIDs
              /\ DOMAIN T = {r[2] : r \in Kept(d, rows)}
              /\ \A id \in DOMAIN T : \E p \in Packages :
                   <<p, id>> \in Kept(d, rows) /\ T[id] = LoadedTitle(d, p, id)
  <1> DEFINE T == TitlesFrom(d, rows)
             K == Kept(d, rows)
             From(id) == CHOOSE r \in K : r[2] = id
  <1>1. K \subseteq rows
    BY DEF Kept
  <1> HIDE DEF K
  <1>2. T = [id \in {r[2] : r \in K} |-> LoadedTitle(d, From(id)[1], id)]
    BY DEF TitlesFrom, K
  <1>3. DOMAIN T = {r[2] : r \in K}
    BY <1>2
  <1>4. ASSUME NEW id \in DOMAIN T
        PROVE  /\ From(id)[1] \in Packages /\ <<From(id)[1], id>> \in K
               /\ T[id] = LoadedTitle(d, From(id)[1], id)
               /\ id \in TitleIDs /\ LoadedTitle(d, From(id)[1], id) \in TitleRecord
    <2>1. From(id) \in K /\ From(id)[2] = id
      BY <1>3
    <2> DEFINE r == From(id)
    <2>2. T[id] = LoadedTitle(d, r[1], id)
      BY <1>2, <1>3
    <2> HIDE DEF r
    <2>3. r \in RowsOf(d) /\ r \in K /\ r[2] = id
      BY <1>1, <2>1 DEF r
    <2>4. /\ r = <<r[1], id>> /\ r[1] \in Packages /\ id \in TitleIDs
          /\ d[r[1]][id] \in Rows
      BY <2>3, RowFacts
    <2>5. LoadedTitle(d, r[1], id) \in TitleRecord
      BY <2>4 DEF LoadedTitle, TitleRecord, Rows
    <2>6. QED
      BY <2>2, <2>3, <2>4, <2>5 DEF r
  <1>5. T \in [DOMAIN T -> TitleRecord]
    <2>1. \A id \in DOMAIN T : T[id] \in TitleRecord
      BY <1>4
    <2>2. T = [id \in DOMAIN T |-> T[id]]
      BY <1>2, <1>3
    <2> HIDE DEF T
    <2>3. QED
      BY <2>1, <2>2
  <1>6. QED
    BY <1>3, <1>4, <1>5 DEF K

LEMMA NoTitles ==
    ASSUME NEW f, f = <<>>
    PROVE  DOMAIN f = {} /\ f \in [DOMAIN f -> TitleRecord]
  OBVIOUS


LEMMA StoreInitially == StoreInit => StoreInv
  <1> SUFFICES ASSUME StoreInit PROVE StoreInv
    OBVIOUS
  <1>1. DOMAIN titles = {} /\ titles \in [DOMAIN titles -> TitleRecord]
    BY NoTitles DEF StoreInit
  <1>2. IsDisk(disk)
    BY StoreAssumption DEF StoreInit
  <1>3. StoreTypeOK
    BY <1>1, <1>2 DEF StoreInit, StoreTypeOK, NotSaving
  <1>4. SavedIsOnDisk
    BY <1>1 DEF SavedIsOnDisk
  <1>5. PackagesAreThere
    BY <1>1 DEF PackagesAreThere, StoreInit, NotSaving
  <1>6. QED
    BY <1>3, <1>4, <1>5 DEF StoreInv

\* What Load makes of a disk, in whole or in part.
LEMMA StoreLoaded ==
    ASSUME StoreInv, ~up, IsDisk(disk'), listed' \subseteq Packages, up' = TRUE,
           packages' \subseteq Packages, Local \in packages',
           NEW rows \in SUBSET RowsOf(disk'), \A r \in rows : r[1] \in packages',
           titles' = TitlesFrom(disk', rows),
           doomed' = {}, doomedPackages' = {}, saving' = saving,
           trouble' \in BOOLEAN, settled' = FALSE
    PROVE  StoreInv'
  <1> USE DEF StoreInv
  <1>1. /\ titles' \in [DOMAIN titles' -> TitleRecord] /\ DOMAIN titles' \subseteq TitleIDs
        /\ DOMAIN titles' = {r[2] : r \in Kept(disk', rows)}
        /\ \A id \in DOMAIN titles' : \E p \in Packages :
             <<p, id>> \in Kept(disk', rows) /\ titles'[id] = LoadedTitle(disk', p, id)
    <2>1. \A d : IsDisk(d) /\ rows \in SUBSET RowsOf(d) =>
            LET T == TitlesFrom(d, rows)
            IN /\ T \in [DOMAIN T -> TitleRecord] /\ DOMAIN T \subseteq TitleIDs
               /\ DOMAIN T = {r[2] : r \in Kept(d, rows)}
               /\ \A id \in DOMAIN T : \E p \in Packages :
                    <<p, id>> \in Kept(d, rows) /\ T[id] = LoadedTitle(d, p, id)
      BY TitlesAreRows
    <2>2. QED
      BY <2>1
  <1>2. ASSUME NEW id \in DOMAIN titles'
        PROVE  \E p \in packages' :
                 /\ disk'[p] # Absent /\ id \in DOMAIN disk'[p] /\ disk'[p][id] \in Rows
                 /\ titles'[id] = LoadedTitle(disk', p, id)
    <2>1. PICK p \in Packages :
            <<p, id>> \in Kept(disk', rows) /\ titles'[id] = LoadedTitle(disk', p, id)
      BY <1>1
    <2>2. <<p, id>> \in RowsOf(disk') /\ <<p, id>> \in rows /\ <<p, id>>[1] = p
      BY <2>1 DEF Kept
    <2>3. disk'[p] # Absent /\ id \in DOMAIN disk'[p] /\ p \in packages'
      BY <2>2 DEF RowsOf
    <2>4. disk'[p][id] \in Rows
      BY <2>3 DEF IsDisk, IsDatabase
    <2>5. QED
      BY <2>1, <2>3, <2>4
  <1>3. StoreTypeOK'
    BY <1>1 DEF StoreTypeOK
  <1>4. SavedIsOnDisk'
    <2> SUFFICES ASSUME NEW id \in DOMAIN titles'
                 PROVE  LET t == titles'[id]
                        IN /\ disk'[t.package] # Absent /\ id \in DOMAIN disk'[t.package]
                           /\ disk'[t.package][id]
                                = [version |-> t.version, content |-> t.saved[1]]
      BY DEF SavedIsOnDisk, Stored, OnDisk
    <2>1. PICK p \in packages' :
            /\ disk'[p] # Absent /\ id \in DOMAIN disk'[p] /\ disk'[p][id] \in Rows
            /\ titles'[id] = LoadedTitle(disk', p, id)
      BY <1>2
    <2> DEFINE row == disk'[p][id]
    <2>2. titles'[id] = [package |-> p, content |-> row.content, version |-> row.version,
                         saved |-> <<row.content>>]
      BY <2>1 DEF LoadedTitle
    <2>3. row = [version |-> row.version, content |-> row.content]
      BY <2>1 DEF Rows
    <2> HIDE DEF row
    <2>5. titles'[id].package = p /\ titles'[id].version = row.version
          /\ titles'[id].saved[1] = row.content
      BY <2>2
    <2>6. disk'[p][id] = row
      BY DEF row
    <2>7. QED
      BY <2>1, <2>3, <2>5, <2>6
  <1>5. PackagesAreThere'
    <2>1. \A id \in DOMAIN titles' : titles'[id].package \in packages'
      BY <1>2 DEF LoadedTitle
    <2>2. saving.save = {}
      BY NoTitles DEF PackagesAreThere
    <2>3. QED
      BY <2>1, <2>2 DEF PackagesAreThere
  <1>6. QED
    BY <1>3, <1>4, <1>5

LEMMA StoreLoads == StoreInv /\ LoadStore => StoreInv'
  <1> SUFFICES ASSUME StoreInv, LoadStore PROVE StoreInv'
    OBVIOUS
  <1>1. IsDisk(disk')
    <2>1. CASE OnDisk(Local)
      BY <2>1 DEF LoadStore, OnDisk, StoreInv, StoreTypeOK
    <2>2. CASE ~OnDisk(Local)
      <3>1. disk' = [disk EXCEPT ![Local] = EmptyPackage]
        BY <2>2 DEF LoadStore
      <3>2. IsDisk(disk) /\ Local \in Packages
        BY StoreAssumption DEF StoreInv, StoreTypeOK
      <3>3. QED
        BY <3>1, <3>2, EmptyPackageAdded
    <2>3. QED
      BY <2>1, <2>2
  <1>2. trouble' \in BOOLEAN
    BY DEF LoadStore, StoreInv, StoreTypeOK
  <1>3. /\ listed' \subseteq Packages /\ packages' = listed' /\ Local \in packages'
        /\ ~up /\ up' = TRUE /\ doomed' = {} /\ doomedPackages' = {} /\ saving' = saving
        /\ settled' = FALSE
    BY StoreAssumption DEF LoadStore, StoreInv, StoreTypeOK
  <1> DEFINE rows == FoundRows(disk', listed')
  <1>4. titles' = TitlesFrom(disk', rows)
    BY DEF LoadStore
  <1>5. rows \in SUBSET RowsOf(disk') /\ \A r \in rows : r[1] \in packages'
    BY <1>3 DEF FoundRows
  <1> HIDE DEF rows
  <1>6. QED
    BY <1>1, <1>2, <1>3, <1>4, <1>5, StoreLoaded

LEMMA StoreLoadsInPart ==
    ASSUME StoreInv, NEW p \in Packages, LoadStoreInPart(p)
    PROVE  StoreInv'
  <1>1. IsDisk(disk') /\ disk' = disk /\ listed' = listed /\ listed \subseteq Packages
    BY DEF LoadStoreInPart, StoreInv, StoreTypeOK
  <1>2. /\ packages' \in {listed, listed \ {p}} /\ Local \in packages' /\ trouble' = TRUE
        /\ ~up /\ up' = TRUE /\ doomed' = {} /\ doomedPackages' = {} /\ saving' = saving
        /\ settled' = FALSE
    BY DEF LoadStoreInPart
  <1> DEFINE rows == FoundRows(disk', listed \ {p})
  <1>3. rows \in SUBSET RowsOf(disk') /\ \A r \in rows : r[1] \in packages'
    BY <1>2 DEF FoundRows
  <1>4. titles' = TitlesFrom(disk', rows)
    BY <1>1 DEF LoadStoreInPart
  <1> HIDE DEF rows
  <1>5. packages' \subseteq Packages /\ trouble' \in BOOLEAN
    BY <1>1, <1>2
  <1>6. QED
    BY <1>1, <1>2, <1>3, <1>4, <1>5, StoreLoaded

LEMMA StoreStops == StoreInv /\ Stop => StoreInv'
  <1> SUFFICES ASSUME StoreInv, Stop PROVE StoreInv'
    OBVIOUS
  <1>1. DOMAIN titles' = {} /\ titles' \in [DOMAIN titles' -> TitleRecord]
    BY NoTitles DEF Stop
  <1>2. saving' \in [on : BOOLEAN, save : SUBSET TitleIDs, delete : SUBSET TitleIDs,
                   deletePackages : SUBSET (Packages \ {Local}), failed : BOOLEAN]
    BY DEF Stop, NotSaving
  <1>3. trouble' \in BOOLEAN
    BY DEF Stop, StoreInv, StoreTypeOK
  <1>4. StoreTypeOK'
    BY <1>1, <1>2, <1>3 DEF Stop, StoreInv, StoreTypeOK
  <1>5. SavedIsOnDisk'
    BY <1>1 DEF SavedIsOnDisk
  <1>6. PackagesAreThere'
    BY <1>1 DEF PackagesAreThere, Stop, NotSaving
  <1>7. QED
    BY <1>4, <1>5, <1>6 DEF StoreInv

\* The actions that leave what is on disk, and what of the titles is there.
LEMMA StoreUntouched ==
    ASSUME StoreInv, UNCHANGED <<disk, listed, up, packages, titles, saving, trouble>>,
           doomed' \subseteq TitleIDs, doomedPackages' \subseteq Packages \ {Local},
           settled' \in BOOLEAN
    PROVE  StoreInv'
  <1>1. StoreTypeOK'
    BY DEF StoreInv, StoreTypeOK
  <1>2. SavedIsOnDisk'
    BY DEF StoreInv, SavedIsOnDisk, Stored, OnDisk
  <1>3. PackagesAreThere'
    BY DEF StoreInv, PackagesAreThere, OnDisk
  <1>4. QED
    BY <1>1, <1>2, <1>3 DEF StoreInv

LEMMA StoreEdits ==
    ASSUME StoreInv, NEW id \in TitleIDs, NEW c \in Contents, EditTitle(id, c)
    PROVE  StoreInv'
  <1> USE DEF StoreInv
  <1>1. /\ id \in DOMAIN titles /\ titles' = [titles EXCEPT ![id].content = c]
        /\ settled' = FALSE
        /\ UNCHANGED <<disk, listed, up, packages, doomed, doomedPackages, saving, trouble>>
    BY DEF EditTitle
  <1>2. titles \in [DOMAIN titles -> TitleRecord] /\ DOMAIN titles \subseteq TitleIDs
    BY DEF StoreTypeOK
  <1>3. /\ DOMAIN titles' = DOMAIN titles /\ titles' \in [DOMAIN titles' -> TitleRecord]
        /\ \A x \in DOMAIN titles : /\ titles'[x].package = titles[x].package
                                    /\ titles'[x].version = titles[x].version
                                    /\ titles'[x].saved = titles[x].saved
    BY <1>1, <1>2 DEF TitleRecord
  <1>4. StoreTypeOK'
    BY <1>1, <1>2, <1>3 DEF StoreTypeOK
  <1>5. SavedIsOnDisk'
    BY <1>1, <1>3 DEF SavedIsOnDisk, Stored, OnDisk
  <1>6. PackagesAreThere'
    <2>1. up
      BY DEF EditTitle, Editing
    <2>2. QED
      BY <1>1, <1>3, <2>1 DEF PackagesAreThere, OnDisk
  <1>7. QED
    BY <1>4, <1>5, <1>6

LEMMA StoreCreates ==
    ASSUME StoreInv, NEW id \in TitleIDs, NEW p \in Packages, NEW c \in Contents,
           CreateTitle(id, p, c)
    PROVE  StoreInv'
  <1> USE DEF StoreInv
  <1> DEFINE q == IF p \in packages THEN p ELSE Local
             t == [package |-> q, content |-> c, version |-> 0, saved |-> <<>>]
  <1>1. /\ id \notin DOMAIN titles /\ up /\ settled' = FALSE
        /\ titles' = [x \in DOMAIN titles \cup {id} |-> IF x = id THEN t ELSE titles[x]]
        /\ UNCHANGED <<disk, listed, up, packages, doomed, doomedPackages, saving, trouble>>
    BY DEF CreateTitle, Editing
  <1>2. titles \in [DOMAIN titles -> TitleRecord] /\ DOMAIN titles \subseteq TitleIDs
    BY DEF StoreTypeOK
  <1>3. q \in packages /\ q \in Packages
    BY <1>1, StoreAssumption DEF PackagesAreThere
  <1> HIDE DEF q
  <1>4. t \in TitleRecord /\ t.package = q /\ t.saved = <<>>
    BY <1>3 DEF TitleRecord
  <1> HIDE DEF t
  <1>5. /\ DOMAIN titles' = DOMAIN titles \cup {id}
        /\ titles'[id] = t /\ \A x \in DOMAIN titles : titles'[x] = titles[x]
    BY <1>1
  <1>6. titles' \in [DOMAIN titles' -> TitleRecord]
    BY <1>1, <1>2, <1>4
  <1>7. StoreTypeOK'
    BY <1>1, <1>2, <1>5, <1>6 DEF StoreTypeOK
  <1>8. SavedIsOnDisk'
    BY <1>1, <1>4, <1>5 DEF SavedIsOnDisk, Stored, OnDisk
  <1>9. PackagesAreThere'
    BY <1>1, <1>3, <1>4, <1>5 DEF PackagesAreThere, OnDisk
  <1>10. QED
    BY <1>7, <1>8, <1>9

LEMMA StoreCreatesPackage ==
    ASSUME StoreInv, NEW p \in Packages, CreatePackage(p)
    PROVE  StoreInv'
  <1> USE DEF StoreInv
  <1>1. /\ disk' = [disk EXCEPT ![p] = EmptyPackage] /\ disk[p] = Absent /\ up
        /\ packages' = packages \cup {p} /\ listed' = listed \cup {p} /\ p \notin packages
        /\ UNCHANGED <<up, titles, doomed, doomedPackages, saving, trouble, settled>>
    BY DEF CreatePackage, OnDisk, Editing
  <1>2. IsDisk(disk)
    BY DEF StoreTypeOK
  <1>3. /\ IsDisk(disk') /\ disk'[p] # Absent
        /\ \A q \in Packages : q # p => disk'[q] = disk[q]
    BY <1>1, <1>2, EmptyPackageAdded
  <1>4. StoreTypeOK'
    BY <1>1, <1>3 DEF StoreTypeOK
  <1>5. SavedIsOnDisk'
    <2>1. ASSUME NEW id \in DOMAIN titles, titles[id].saved # <<>>
          PROVE  titles[id].package \in Packages /\ titles[id].package # p
      BY <1>1, <2>1 DEF PackagesAreThere, StoreTypeOK, TitleRecord
    <2>2. QED
      BY <1>1, <1>3, <2>1 DEF SavedIsOnDisk, Stored, OnDisk
  <1>6. PackagesAreThere'
    BY <1>1, <1>3 DEF PackagesAreThere, OnDisk
  <1>7. QED
    BY <1>4, <1>5, <1>6


LEMMA StoreBegins == StoreInv /\ BeginSaveAll => StoreInv'
  <1> SUFFICES ASSUME StoreInv, BeginSaveAll PROVE StoreInv'
    OBVIOUS
  <1> USE DEF StoreInv
  <1> DEFINE todo == {id \in Lasting : Modified(id)}
  <1>1. todo \subseteq DOMAIN titles
    BY DEF Lasting
  <1> HIDE DEF todo
  <1>2. /\ saving' = [on |-> TRUE, save |-> todo, delete |-> doomed,
                      deletePackages |-> doomedPackages, failed |-> FALSE]
        /\ up /\ UNCHANGED <<disk, listed, up, memoryVars, trouble, settled>>
    BY DEF BeginSaveAll, Editing, todo
  <1>3. saving' \in [on : BOOLEAN, save : SUBSET TitleIDs, delete : SUBSET TitleIDs,
                   deletePackages : SUBSET (Packages \ {Local}), failed : BOOLEAN]
    BY <1>1, <1>2 DEF StoreTypeOK
  <1>4. StoreTypeOK'
    BY <1>2, <1>3 DEF StoreTypeOK, memoryVars
  <1>5. SavedIsOnDisk'
    BY <1>2 DEF SavedIsOnDisk, Stored, OnDisk, memoryVars
  <1>6. PackagesAreThere'
    BY <1>1, <1>2 DEF PackagesAreThere, OnDisk, memoryVars
  <1>7. QED
    BY <1>4, <1>5, <1>6

LEMMA StoreEnds == StoreInv /\ EndSaveAll => StoreInv'
  <1> SUFFICES ASSUME StoreInv, EndSaveAll PROVE StoreInv'
    OBVIOUS
  <1> USE DEF StoreInv
  <1>1. /\ saving' = NotSaving /\ settled' = ~saving.failed
        /\ UNCHANGED <<disk, listed, up, memoryVars, trouble>>
    BY DEF EndSaveAll
  <1>2. saving' \in [on : BOOLEAN, save : SUBSET TitleIDs, delete : SUBSET TitleIDs,
                   deletePackages : SUBSET (Packages \ {Local}), failed : BOOLEAN]
    BY <1>1 DEF NotSaving
  <1>3. settled' \in BOOLEAN
    BY <1>1 DEF StoreTypeOK
  <1>4. StoreTypeOK'
    BY <1>1, <1>2, <1>3 DEF StoreTypeOK, memoryVars
  <1>5. SavedIsOnDisk'
    BY <1>1 DEF SavedIsOnDisk, Stored, OnDisk, memoryVars
  <1>6. PackagesAreThere'
    BY <1>1 DEF PackagesAreThere, OnDisk, memoryVars, NotSaving
  <1>7. QED
    BY <1>4, <1>5, <1>6

\* What SaveTitle leaves: the title with another version, saved as it is.
LEMMA TitleSaved ==
    ASSUME StoreTypeOK, NEW id \in DOMAIN titles, NEW v \in Nat,
           titles' = [titles EXCEPT ![id].version = v, ![id].saved = <<titles[id].content>>]
    PROVE  /\ DOMAIN titles' = DOMAIN titles /\ titles' \in [DOMAIN titles' -> TitleRecord]
           /\ \A x \in DOMAIN titles : x # id => titles'[x] = titles[x]
           /\ titles'[id].package = titles[id].package
           /\ titles'[id].content = titles[id].content
           /\ titles'[id].version = v /\ titles'[id].saved = <<titles[id].content>>
  <1>1. titles[id] \in TitleRecord /\ titles \in [DOMAIN titles -> TitleRecord]
    BY DEF StoreTypeOK
  <1> DEFINE t == [titles[id] EXCEPT !.version = v, !.saved = <<titles[id].content>>]
  <1>2. /\ t \in TitleRecord /\ t.package = titles[id].package
        /\ t.content = titles[id].content /\ t.version = v
        /\ t.saved = <<titles[id].content>>
    BY <1>1 DEF TitleRecord
  <1>3. titles' = [titles EXCEPT ![id] = t]
    BY <1>1
  <1> HIDE DEF t
  <1>4. QED
    BY <1>1, <1>2, <1>3

LEMMA StoreSaves ==
    ASSUME StoreInv, NEW id \in TitleIDs, SaveTitle(id)
    PROVE  StoreInv'
  <1> USE DEF StoreInv
  <1> DEFINE p == titles[id].package
             row == Row(p, id)
  <1>1. /\ saving.on /\ id \in saving.save /\ id \in DOMAIN titles
        /\ UNCHANGED <<listed, up, packages, doomed, doomedPackages, settled>>
    BY DEF SaveTitle, PackagesAreThere
  <1>2. titles[id] \in TitleRecord /\ p \in Packages
    BY <1>1 DEF StoreTypeOK, TitleRecord
  <1>3. up
    BY <1>1 DEF PackagesAreThere
  <1>4. CASE /\ OnDisk(p)
             /\ disk' = [disk EXCEPT ![p] = WithRow(@, id, row)]
             /\ titles' = [titles EXCEPT ![id].version = row.version,
                                         ![id].saved = <<titles[id].content>>]
             /\ saving' = [saving EXCEPT !.save = @ \ {id}]
             /\ UNCHANGED trouble
    <2>1. IsDisk(disk) /\ IsDatabase(disk[p]) /\ disk[p] # Absent
      BY <1>2, <1>4 DEF StoreTypeOK, IsDisk, OnDisk
    <2>2. row \in Rows /\ row.content = titles[id].content /\ row.version \in Nat
          /\ row = [version |-> row.version, content |-> titles[id].content]
      <3>1. id \in Stored(p) => disk[p][id].version \in Nat
        BY <2>1 DEF Stored, IsDatabase, Rows
      <3>2. titles[id].content \in Contents
        BY <1>2 DEF TitleRecord
      <3>3. QED
        BY <3>1, <3>2 DEF Row, Rows
    <2> HIDE DEF row
    <2> DEFINE db == WithRow(disk[p], id, row)
    <2>3. /\ IsDatabase(db) /\ DOMAIN db = DOMAIN disk[p] \cup {id} /\ db[id] = row
          /\ \A x \in DOMAIN disk[p] : x # id => db[x] = disk[p][x]
      <3> DEFINE old == disk[p]
      <3>1. IsDatabase(old) /\ row \in Rows
        BY <2>1, <2>2
      <3> HIDE DEF old
      <3>2. /\ IsDatabase(WithRow(old, id, row))
            /\ DOMAIN WithRow(old, id, row) = DOMAIN old \cup {id}
            /\ WithRow(old, id, row)[id] = row
            /\ \A x \in DOMAIN old : x # id => WithRow(old, id, row)[x] = old[x]
        BY <3>1, WithRowFacts
      <3>3. QED
        BY <3>2 DEF old
    <2>4. disk' = [disk EXCEPT ![p] = db]
      BY <1>4
    <2> HIDE DEF db
    <2>5. /\ IsDisk(disk') /\ disk'[p] = db /\ disk'[p] # Absent
          /\ \A q \in Packages : q # p => disk'[q] = disk[q]
      <3>1. db # Absent
        BY <2>3, DatabaseFacts
      <3>2. /\ IsDisk(disk') /\ disk'[p] = db
            /\ \A q \in Packages : q # p => disk'[q] = disk[q]
        BY <1>2, <2>1, <2>3, <2>4 DEF IsDisk
      <3>3. QED
        BY <3>1, <3>2
    <2>6. /\ DOMAIN titles' = DOMAIN titles /\ titles' \in [DOMAIN titles' -> TitleRecord]
          /\ \A x \in DOMAIN titles : x # id => titles'[x] = titles[x]
          /\ titles'[id].package = p /\ titles'[id].version = row.version
          /\ titles'[id].saved = <<titles[id].content>>
      BY <1>1, <1>4, <2>2, TitleSaved
    <2>7. saving' \in [on : BOOLEAN, save : SUBSET TitleIDs, delete : SUBSET TitleIDs,
                   deletePackages : SUBSET (Packages \ {Local}), failed : BOOLEAN]
          /\ saving'.save = saving.save \ {id} /\ saving'.on = saving.on
      BY <1>4 DEF StoreTypeOK
    <2>8. StoreTypeOK'
      BY <1>1, <1>4, <2>5, <2>6, <2>7 DEF StoreTypeOK
    <2>9. SavedIsOnDisk'
      <3>1. ASSUME NEW x \in DOMAIN titles, x # id, titles[x].saved # <<>>,
                   disk'[titles[x].package] # Absent
            PROVE  LET t == titles[x]
                   IN /\ disk'[t.package] # Absent /\ x \in DOMAIN disk'[t.package]
                      /\ disk'[t.package][x]
                           = [version |-> t.version, content |-> t.saved[1]]
        <4>1. titles[x].package \in Packages
          BY DEF StoreTypeOK, TitleRecord
        <4>2. /\ disk[titles[x].package] # Absent /\ x \in DOMAIN disk[titles[x].package]
              /\ disk[titles[x].package][x]
                   = [version |-> titles[x].version, content |-> titles[x].saved[1]]
          BY <2>1, <2>5, <3>1, <4>1 DEF SavedIsOnDisk, Stored, OnDisk
        <4>3. CASE titles[x].package = p
          BY <2>3, <2>5, <3>1, <4>2, <4>3
        <4>4. CASE titles[x].package # p
          BY <2>5, <4>1, <4>2, <4>4
        <4>5. QED
          BY <4>3, <4>4
      <3>2. /\ id \in DOMAIN disk'[p]
            /\ disk'[p][id] = [version |-> titles'[id].version, content |-> titles'[id].saved[1]]
        BY <2>2, <2>3, <2>5, <2>6
      <3>3. QED
        BY <1>1, <2>5, <2>6, <3>1, <3>2 DEF SavedIsOnDisk, Stored, OnDisk
    <2>10. PackagesAreThere'
      <3>3. \A x \in DOMAIN titles' : titles'[x].package \in packages'
        BY <1>1, <2>6 DEF PackagesAreThere
      <3>4. QED
        BY <1>1, <1>3, <2>6, <2>7, <3>3 DEF PackagesAreThere
    <2>11. QED
      BY <2>8, <2>9, <2>10
  <1>5. CASE /\ saving' = [saving EXCEPT !.save = @ \ {id}, !.failed = TRUE]
             /\ titles' = AfterFailure(id)
             /\ trouble' = TRUE
             /\ UNCHANGED disk
    <2>1. saving' \in [on : BOOLEAN, save : SUBSET TitleIDs, delete : SUBSET TitleIDs,
                   deletePackages : SUBSET (Packages \ {Local}), failed : BOOLEAN]
          /\ saving'.save = saving.save \ {id} /\ saving'.on = saving.on
      BY <1>5 DEF StoreTypeOK
    <2>2. titles' = titles
      BY <1>5 DEF AfterFailure
    <2>3. StoreTypeOK'
      BY <1>1, <1>5, <2>1, <2>2 DEF StoreTypeOK
    <2>4. SavedIsOnDisk'
      BY <1>5, <2>2 DEF SavedIsOnDisk, Stored, OnDisk
    <2>5. PackagesAreThere'
      BY <1>1, <1>5, <2>1, <2>2 DEF PackagesAreThere, OnDisk
    <2>6. QED
      BY <2>3, <2>4, <2>5
  <1>6. QED
    BY <1>4, <1>5 DEF SaveTitle

LEMMA StoreDeletes ==
    ASSUME StoreInv, NEW id \in TitleIDs, DeleteTitle(id)
    PROVE  StoreInv'
  <1> USE DEF StoreInv
  <1>1. /\ saving.on /\ saving.save = {}
        /\ UNCHANGED <<listed, up, packages, doomedPackages, settled>>
    BY DEF DeleteTitle
  <1>2. up
    BY <1>1 DEF PackagesAreThere
  <1>3. IsDisk(disk) /\ titles \in [DOMAIN titles -> TitleRecord]
    BY DEF StoreTypeOK
  <1>4. CASE /\ disk' = IF id \notin DOMAIN titles THEN disk
                        ELSE [disk EXCEPT ![titles[id].package] = WithoutRow(@, id)]
             /\ titles' = WithoutRow(titles, id)
             /\ doomed' = doomed \ {id}
             /\ saving' = [saving EXCEPT !.delete = @ \ {id}]
             /\ UNCHANGED trouble
    <2>1. /\ IsDisk(disk')
          /\ \A q \in Packages :
               /\ disk'[q] = Absent <=> disk[q] = Absent
               /\ \A x \in DOMAIN disk[q] : x # id =>
                    x \in DOMAIN disk'[q] /\ disk'[q][x] = disk[q][x]
      <3>1. CASE id \notin DOMAIN titles
        BY <1>3, <1>4, <3>1
      <3>2. CASE id \in DOMAIN titles
        <4> DEFINE p == titles[id].package
                   db == WithoutRow(disk[p], id)
        <4>1. p \in Packages
          BY <1>3, <3>2 DEF TitleRecord
        <4>2. IsDatabase(disk[p]) \/ disk[p] = Absent
          BY <1>3, <4>1 DEF IsDisk
        <4>3. /\ IsDatabase(disk[p]) => IsDatabase(db)
              /\ disk[p] = Absent => db = Absent
              /\ DOMAIN db = DOMAIN disk[p] \ {id}
              /\ \A x \in DOMAIN disk[p] : x # id => db[x] = disk[p][x]
          BY <4>2, WithoutRowFacts
        <4>4. disk' = [disk EXCEPT ![p] = db]
          BY <1>4, <3>2
        <4> HIDE DEF p, db
        <4>5. IsDatabase(db) \/ db = Absent
          BY <4>2, <4>3
        <4>6. /\ IsDisk(disk') /\ disk'[p] = db
              /\ \A q \in Packages : q # p => disk'[q] = disk[q]
          BY <1>3, <4>1, <4>4, <4>5 DEF IsDisk
        <4>7. db = Absent <=> disk[p] = Absent
          BY <4>2, <4>3, DatabaseFacts
        <4>8. QED
          BY <4>3, <4>6, <4>7
      <3>3. QED
        BY <3>1, <3>2
    <2>2. /\ DOMAIN titles' = DOMAIN titles \ {id}
          /\ titles' \in [DOMAIN titles' -> TitleRecord]
          /\ \A x \in DOMAIN titles' : titles'[x] = titles[x]
      BY <1>3, <1>4 DEF WithoutRow
    <2>3. saving' \in [on : BOOLEAN, save : SUBSET TitleIDs, delete : SUBSET TitleIDs,
                   deletePackages : SUBSET (Packages \ {Local}), failed : BOOLEAN]
          /\ saving'.save = {} /\ saving'.on = saving.on
      BY <1>1, <1>4 DEF StoreTypeOK
    <2>4. StoreTypeOK'
      BY <1>1, <1>4, <2>1, <2>2, <2>3 DEF StoreTypeOK
    <2>5. SavedIsOnDisk'
      <3>1. ASSUME NEW x \in DOMAIN titles', titles[x].saved # <<>>,
                   disk'[titles[x].package] # Absent
            PROVE  LET t == titles[x]
                   IN /\ disk'[t.package] # Absent /\ x \in DOMAIN disk'[t.package]
                      /\ disk'[t.package][x]
                           = [version |-> t.version, content |-> t.saved[1]]
        <4>1. x \in DOMAIN titles /\ x # id
          BY <2>2
        <4>2. titles[x].package \in Packages
          BY <1>3, <4>1 DEF TitleRecord
        <4>3. /\ disk[titles[x].package] # Absent /\ x \in DOMAIN disk[titles[x].package]
              /\ disk[titles[x].package][x]
                   = [version |-> titles[x].version, content |-> titles[x].saved[1]]
          BY <2>1, <3>1, <4>1, <4>2 DEF SavedIsOnDisk, Stored, OnDisk
        <4>4. QED
          BY <2>1, <4>1, <4>2, <4>3
      <3>2. QED
        BY <2>2, <3>1 DEF SavedIsOnDisk, Stored, OnDisk
    <2>6. PackagesAreThere'
      <3>2. \A x \in DOMAIN titles' : titles'[x].package \in packages'
        BY <1>1, <2>2 DEF PackagesAreThere
      <3>3. QED
        BY <1>1, <1>2, <2>3, <3>2 DEF PackagesAreThere
    <2>7. QED
      BY <2>4, <2>5, <2>6
  <1>5. CASE /\ saving' = [saving EXCEPT !.delete = @ \ {id}, !.failed = TRUE]
             /\ trouble' = TRUE
             /\ UNCHANGED <<disk, titles, doomed>>
    <2>1. saving' \in [on : BOOLEAN, save : SUBSET TitleIDs, delete : SUBSET TitleIDs,
                   deletePackages : SUBSET (Packages \ {Local}), failed : BOOLEAN]
          /\ saving'.save = {} /\ saving'.on = saving.on
      BY <1>1, <1>5 DEF StoreTypeOK
    <2>2. StoreTypeOK'
      BY <1>1, <1>5, <2>1 DEF StoreTypeOK
    <2>3. SavedIsOnDisk'
      BY <1>5 DEF SavedIsOnDisk, Stored, OnDisk
    <2>4. PackagesAreThere'
      BY <1>1, <1>5, <2>1 DEF PackagesAreThere, OnDisk
    <2>5. QED
      BY <2>2, <2>3, <2>4
  <1>6. QED
    BY <1>4, <1>5 DEF DeleteTitle


LEMMA StoreDeletesPackage ==
    ASSUME StoreInv, NEW p \in Packages, DeletePackage(p)
    PROVE  StoreInv'
  <1> USE DEF StoreInv
  <1>1. /\ saving.on /\ saving.save = {} /\ p \in saving.deletePackages /\ p # Local
        /\ UNCHANGED <<up, doomed, settled>>
    BY DEF DeletePackage, StoreTypeOK
  <1>2. up
    BY <1>1 DEF PackagesAreThere
  <1>3. IsDisk(disk) /\ titles \in [DOMAIN titles -> TitleRecord]
    BY DEF StoreTypeOK
  <1>4. CASE /\ disk' = [disk EXCEPT ![p] = Absent]
             /\ listed' = listed \ {p}
             /\ packages' = packages \ {p}
             /\ titles' = Remaining(p)
             /\ doomedPackages' = doomedPackages \ {p}
             /\ saving' = [saving EXCEPT !.deletePackages = @ \ {p}]
             /\ UNCHANGED trouble
    <2>1. /\ IsDisk(disk') /\ disk'[p] = Absent
          /\ \A q \in Packages : q # p => disk'[q] = disk[q]
      BY <1>3, <1>4 DEF IsDisk
    <2>2. /\ DOMAIN titles' = {x \in DOMAIN titles : titles[x].package # p}
          /\ titles' \in [DOMAIN titles' -> TitleRecord]
          /\ \A x \in DOMAIN titles' : titles'[x] = titles[x]
      BY <1>3, <1>4 DEF Remaining
    <2>3. saving' \in [on : BOOLEAN, save : SUBSET TitleIDs, delete : SUBSET TitleIDs,
                   deletePackages : SUBSET (Packages \ {Local}), failed : BOOLEAN]
          /\ saving'.save = {} /\ saving'.on = saving.on
      BY <1>1, <1>4 DEF StoreTypeOK
    <2>4. StoreTypeOK'
      BY <1>1, <1>4, <2>1, <2>2, <2>3 DEF StoreTypeOK
    <2>5. SavedIsOnDisk'
      <3>1. ASSUME NEW x \in DOMAIN titles', titles[x].saved # <<>>,
                   disk'[titles[x].package] # Absent
            PROVE  LET t == titles[x]
                   IN /\ disk'[t.package] # Absent /\ x \in DOMAIN disk'[t.package]
                      /\ disk'[t.package][x]
                           = [version |-> t.version, content |-> t.saved[1]]
        <4>1. x \in DOMAIN titles /\ titles[x].package # p
          BY <2>2
        <4>2. titles[x].package \in Packages
          BY <1>3, <4>1 DEF TitleRecord
        <4>3. /\ disk[titles[x].package] # Absent /\ x \in DOMAIN disk[titles[x].package]
              /\ disk[titles[x].package][x]
                   = [version |-> titles[x].version, content |-> titles[x].saved[1]]
          BY <2>1, <3>1, <4>1, <4>2 DEF SavedIsOnDisk, Stored, OnDisk
        <4>4. QED
          BY <2>1, <4>1, <4>2, <4>3
      <3>2. QED
        BY <2>2, <3>1 DEF SavedIsOnDisk, Stored, OnDisk
    <2>6. PackagesAreThere'
      <3>2. \A x \in DOMAIN titles' : titles'[x].package \in packages'
        BY <1>4, <2>2 DEF PackagesAreThere
      <3>3. QED
        BY <1>1, <1>2, <1>4, <2>3, <3>2 DEF PackagesAreThere
    <2>7. QED
      BY <2>4, <2>5, <2>6
  <1>5. CASE /\ disk' \in {disk, [disk EXCEPT ![p] = Absent]}
             /\ listed' \in {listed, listed \ {p}}
             /\ saving' = [saving EXCEPT !.deletePackages = @ \ {p}, !.failed = TRUE]
             /\ trouble' = TRUE
             /\ UNCHANGED <<packages, titles, doomedPackages>>
    <2>1. saving' \in [on : BOOLEAN, save : SUBSET TitleIDs, delete : SUBSET TitleIDs,
                   deletePackages : SUBSET (Packages \ {Local}), failed : BOOLEAN]
          /\ saving'.save = {} /\ saving'.on = saving.on
      BY <1>1, <1>5 DEF StoreTypeOK
    <2>2. /\ IsDisk(disk')
          /\ \A q \in Packages : disk'[q] # Absent => disk'[q] = disk[q]
      BY <1>3, <1>5 DEF IsDisk
    <2>3. listed' \subseteq Packages
      BY <1>5 DEF StoreTypeOK
    <2>4. StoreTypeOK'
      BY <1>1, <1>5, <2>1, <2>2, <2>3 DEF StoreTypeOK
    <2>5. SavedIsOnDisk'
      <3>1. \A x \in DOMAIN titles : titles[x].package \in Packages
        BY <1>3 DEF TitleRecord
      <3>2. QED
        BY <1>5, <2>2, <3>1 DEF SavedIsOnDisk, Stored, OnDisk
    <2>6. PackagesAreThere'
      BY <1>1, <1>5, <2>1 DEF PackagesAreThere
    <2>7. QED
      BY <2>4, <2>5, <2>6
  <1>6. QED
    BY <1>4, <1>5 DEF DeletePackage

LEMMA StoreMarks ==
    ASSUME StoreInv, \/ \E id \in TitleIDs : MarkTitle(id)
                     \/ \E p \in Packages : MarkPackage(p)
    PROVE  StoreInv'
  <1>1. doomed \subseteq TitleIDs /\ doomedPackages \subseteq Packages \ {Local}
    BY DEF StoreInv, StoreTypeOK
  <1>2. ASSUME NEW id \in TitleIDs, MarkTitle(id) PROVE StoreInv'
    <2>1. doomed' \subseteq TitleIDs
      BY <1>1, <1>2 DEF MarkTitle
    <2>2. QED
      BY <1>1, <1>2, <2>1, StoreUntouched DEF MarkTitle
  <1>3. ASSUME NEW p \in Packages, MarkPackage(p) PROVE StoreInv'
    <2>1. doomedPackages' \subseteq Packages \ {Local}
      BY <1>1, <1>3 DEF MarkPackage
    <2>2. QED
      BY <1>1, <1>3, <2>1, StoreUntouched DEF MarkPackage
  <1>4. QED
    BY <1>2, <1>3

LEMMA StoreStep == StoreInv /\ [StoreNext]_storeVars => StoreInv'
  <1> SUFFICES ASSUME StoreInv, [StoreNext]_storeVars PROVE StoreInv'
    OBVIOUS
  <1>1. CASE UNCHANGED storeVars
    <2>1. /\ UNCHANGED <<disk, listed, up, packages, titles, saving, trouble>>
          /\ doomed' = doomed /\ doomedPackages' = doomedPackages /\ settled' = settled
      BY <1>1 DEF storeVars
    <2>2. QED
      BY <2>1, StoreUntouched DEF StoreInv, StoreTypeOK
  <1>2. ASSUME NEW id \in TitleIDs, NEW c \in Contents, EditTitle(id, c) PROVE StoreInv'
    BY <1>2, StoreEdits
  <1>3. ASSUME NEW id \in TitleIDs, NEW p \in Packages, NEW c \in Contents,
               CreateTitle(id, p, c)
        PROVE  StoreInv'
    BY <1>3, StoreCreates
  <1>4. QED
    BY <1>1, <1>2, <1>3, StoreLoads, StoreLoadsInPart, StoreStops, StoreMarks, StoreSaves,
       StoreDeletes, StoreCreatesPackage, StoreDeletesPackage, StoreBegins, StoreEnds
    DEF StoreNext

LEMMA UnmodifiedIsSaved == StoreInv => UnmodifiedIsOnDisk
  <1> SUFFICES ASSUME StoreInv, NEW id \in DOMAIN titles, ~Modified(id),
                      OnDisk(titles[id].package)
               PROVE  LET p == titles[id].package
                      IN id \in Stored(p)
                         /\ disk[p][id] = [version |-> titles[id].version,
                                           content |-> titles[id].content]
    BY DEF UnmodifiedIsOnDisk
  <1>1. titles[id].saved = <<titles[id].content>>
    BY DEF Modified
  <1>2. titles[id].saved # <<>> /\ titles[id].saved[1] = titles[id].content
    BY <1>1
  <1>3. QED
    BY <1>2 DEF StoreInv, SavedIsOnDisk

\* A title that counts as unmodified is in the database of its package as it is
\* in memory, unless a failed deletion of the package removed that database: for
\* any number of titles and packages, whatever the disk held in the beginning,
\* whichever loads, transactions of SaveAll and deletions of packages failed or
\* failed in part, and wherever the program ended (TitleDefinition::IsModified,
\* SaveTitle, LoadPackage and DeletePackageNow in Store.cpp).
THEOREM UnmodifiedTitlesAreOnDisk == StoreSpec => []UnmodifiedIsOnDisk
  BY StoreInitially, StoreStep, UnmodifiedIsSaved, PTL DEF StoreSpec


LEMMA CleanIsKept ==
    ASSUME NEW d, IsDisk(d), Clean(d)
    PROVE  Kept(d, RowsOf(d)) = RowsOf(d)
  <1>1. ASSUME NEW r \in RowsOf(d), NEW s \in RowsOf(d), Before(s, r) PROVE r # s
    <2>1. /\ PackageOrder[r[1]] \in Nat /\ r[2] \in Nat
      BY RowFacts, StoreAssumption
    <2>2. QED
      BY <1>1, <2>1 DEF Before
  <1>2. QED
    BY <1>1 DEF Kept, Clean

\* While nothing failed in part, all rows are found.
LEMMA AllRowsAreFound == DatabasesAreListed => FoundRows(disk, listed) = RowsOf(disk)
  BY DEF DatabasesAreListed, FoundRows, RowsOf, OnDisk

\* While nothing failed in part, the packages of the titles have databases.
LEMMA TitlesHaveDatabases ==
    StoreInv /\ DatabasesAreListed /\ up => \A id \in DOMAIN titles : OnDisk(titles[id].package)
  BY DEF StoreInv, StoreTypeOK, PackagesAreThere, DatabasesAreListed

\* When nothing is modified and the titles are valid, the rows on disk are those
\* of the titles in memory, and loading them gives these titles.
LEMMA SavedRowsAreClean ==
    ASSUME StoreInv, up, NothingElseOnDisk, Valid, doomed = {}, doomedPackages = {},
           \A id \in DOMAIN titles : ~Modified(id) /\ OnDisk(titles[id].package)
    PROVE  Clean(disk) /\ TitlesFrom(disk, RowsOf(disk)) = titles
  <1> USE DEF StoreInv
  <1>0. /\ IsDisk(disk) /\ titles \in [DOMAIN titles -> TitleRecord]
        /\ DOMAIN titles \subseteq TitleIDs
    BY DEF StoreTypeOK
  <1>1. \A a, b \in DOMAIN titles :
          a # b => titles[a].content.global # titles[b].content.global
    BY DEF Valid, Lasting
  <1>2. ASSUME NEW id \in DOMAIN titles
        PROVE  LET p == titles[id].package
               IN /\ <<p, id>> \in RowsOf(disk)
                  /\ disk[p][id] = [version |-> titles[id].version,
                                    content |-> titles[id].content]
                  /\ titles[id].saved = <<titles[id].content>>
    <2> DEFINE p == titles[id].package
    <2>1. p \in Packages /\ id \in TitleIDs
      BY <1>0 DEF TitleRecord
    <2>2. id \in Stored(p) /\ disk[p][id] = [version |-> titles[id].version,
                                            content |-> titles[id].content]
      BY UnmodifiedIsSaved DEF UnmodifiedIsOnDisk
    <2>3. disk[p] # Absent /\ id \in DOMAIN disk[p]
      BY <2>2 DEF Stored, OnDisk
    <2>4. <<p, id>> \in RowsOf(disk)
      BY <2>1, <2>3 DEF RowsOf
    <2>5. titles[id].saved = <<titles[id].content>>
      BY DEF Modified
    <2>6. QED
      BY <2>2, <2>4, <2>5
  <1>3. ASSUME NEW r \in RowsOf(disk)
        PROVE  /\ r[2] \in DOMAIN titles /\ titles[r[2]].package = r[1]
               /\ r = <<r[1], r[2]>>
               /\ disk[r[1]][r[2]].content = titles[r[2]].content
    <2>1. /\ r = <<r[1], r[2]>> /\ r[1] \in Packages
          /\ disk[r[1]] # Absent /\ r[2] \in DOMAIN disk[r[1]]
      BY <1>0, RowFacts
    <2>2. r[2] \in Stored(r[1])
      BY <2>1 DEF Stored, OnDisk
    <2>3. r[2] \in DOMAIN titles /\ titles[r[2]].package = r[1]
      BY <2>1, <2>2 DEF NothingElseOnDisk
    <2>4. disk[r[1]][r[2]] = [version |-> titles[r[2]].version,
                              content |-> titles[r[2]].content]
      BY <1>2, <2>3
    <2>5. QED
      BY <2>1, <2>3, <2>4
  <1>4. Clean(disk)
    <2> SUFFICES ASSUME NEW r \in RowsOf(disk), NEW s \in RowsOf(disk), r # s
                 PROVE  /\ r[2] # s[2]
                        /\ disk[r[1]][r[2]].content.global # disk[s[1]][s[2]].content.global
      BY DEF Clean
    <2>1. r[2] # s[2]
      BY <1>3
    <2>2. QED
      BY <1>1, <1>3, <2>1
  <1>5. Kept(disk, RowsOf(disk)) = RowsOf(disk)
    BY <1>0, <1>4, CleanIsKept
  <1> DEFINE T == TitlesFrom(disk, RowsOf(disk))
  <1>6. /\ T \in [DOMAIN T -> TitleRecord]
        /\ DOMAIN T = {r[2] : r \in RowsOf(disk)}
        /\ \A id \in DOMAIN T : \E p \in Packages :
             <<p, id>> \in RowsOf(disk) /\ T[id] = LoadedTitle(disk, p, id)
    BY <1>0, <1>5, TitlesAreRows
  <1> HIDE DEF T
  <1>7. DOMAIN T = DOMAIN titles
    <2>1. ASSUME NEW id \in DOMAIN T PROVE id \in DOMAIN titles
      BY <1>3, <1>6
    <2>2. ASSUME NEW id \in DOMAIN titles PROVE id \in DOMAIN T
      <3>1. <<titles[id].package, id>> \in RowsOf(disk)
        BY <1>2
      <3>2. <<titles[id].package, id>>[2] = id
        OBVIOUS
      <3>3. QED
        BY <1>6, <3>1, <3>2
    <2>3. QED
      BY <2>1, <2>2
  <1>8. ASSUME NEW id \in DOMAIN titles PROVE T[id] = titles[id]
    <2>1. PICK p \in Packages : <<p, id>> \in RowsOf(disk) /\ T[id] = LoadedTitle(disk, p, id)
      BY <1>6, <1>7
    <2>2. titles[id].package = p
      <3>1. <<p, id>>[1] = p /\ <<p, id>>[2] = id
        OBVIOUS
      <3>2. QED
        BY <1>3, <2>1, <3>1
    <2>3. /\ disk[p][id] = [version |-> titles[id].version, content |-> titles[id].content]
          /\ titles[id].saved = <<titles[id].content>>
      BY <1>2, <2>2
    <2>4. T[id] = [package |-> p, content |-> titles[id].content,
                   version |-> titles[id].version, saved |-> <<titles[id].content>>]
      BY <2>1, <2>3 DEF LoadedTitle
    <2>5. titles[id] = [package |-> titles[id].package, content |-> titles[id].content,
                        version |-> titles[id].version, saved |-> titles[id].saved]
      BY <1>0 DEF TitleRecord
    <2>6. QED
      BY <2>2, <2>3, <2>4, <2>5
  <1>9. T = titles
    BY <1>0, <1>6, <1>7, <1>8
  <1>10. QED
    BY <1>4, <1>9 DEF T

LEMMA KeptLoads ==
    ASSUME KeptInv, StoreInv', ~trouble, LoadStore
    PROVE  KeptWell'
  <1>1. ~up /\ ~saving.on /\ ~saving.failed /\ Clean(disk) /\ IsDisk(disk)
    BY DEF KeptInv, KeptWell, StoreInv, StoreTypeOK, LoadStore, PackagesAreThere, SavingToTheEnd
  <1>2. IsDisk(disk') /\ DatabasesAreListed'
    <2>1. IsDisk(disk') /\ DatabasesAreListed /\ listed' = listed \cup {Local}
          /\ packages' = listed'
      BY DEF StoreInv, StoreTypeOK, KeptInv, KeptWell, LoadStore
    <2>2. CASE OnDisk(Local)
      BY <2>1, <2>2 DEF LoadStore, DatabasesAreListed, OnDisk
    <2>3. CASE ~OnDisk(Local)
      <3>1. disk' = [disk EXCEPT ![Local] = EmptyPackage]
        BY <2>3 DEF LoadStore
      <3>2. disk'[Local] # Absent /\ \A q \in Packages : q # Local => disk'[q] = disk[q]
        BY <1>1, <3>1, EmptyPackageAdded, StoreAssumption
      <3>3. QED
        BY <2>1, <3>2, StoreAssumption DEF DatabasesAreListed, OnDisk
    <2>4. QED
      BY <2>1, <2>2, <2>3
  <1>0. FoundRows(disk', listed') = RowsOf(disk')
    BY <1>2 DEF DatabasesAreListed, FoundRows, RowsOf, OnDisk
  <1>3. RowsOf(disk') = RowsOf(disk) /\ \A r \in RowsOf(disk) : disk'[r[1]] = disk[r[1]]
    <2>1. CASE OnDisk(Local)
      BY <2>1 DEF LoadStore
    <2>2. CASE ~OnDisk(Local)
      <3>1. disk' = [disk EXCEPT ![Local] = EmptyPackage] /\ disk[Local] = Absent
        BY <2>2 DEF LoadStore, OnDisk
      <3>2. /\ disk'[Local] = EmptyPackage
            /\ \A q \in Packages : q # Local => disk'[q] = disk[q]
        BY <1>1, <3>1, StoreAssumption DEF IsDisk
      <3>3. DOMAIN EmptyPackage = {}
        BY DatabaseFacts
      <3>4. QED
        BY <3>1, <3>2, <3>3 DEF RowsOf
    <2>3. QED
      BY <2>1, <2>2
  <1>4. Clean(disk')
    BY <1>1, <1>3 DEF Clean
  <1>5. Kept(disk', RowsOf(disk')) = RowsOf(disk')
    <2>1. \A d : IsDisk(d) /\ Clean(d) => Kept(d, RowsOf(d)) = RowsOf(d)
      BY CleanIsKept
    <2>2. QED
      BY <1>2, <1>4, <2>1
  <1>6. /\ DOMAIN titles' = {r[2] : r \in RowsOf(disk')}
        /\ \A id \in DOMAIN titles' : \E p \in Packages :
             <<p, id>> \in RowsOf(disk') /\ titles'[id] = LoadedTitle(disk', p, id)
    <2>1. \A d : IsDisk(d) =>
            LET T == TitlesFrom(d, RowsOf(d))
            IN /\ DOMAIN T = {r[2] : r \in Kept(d, RowsOf(d))}
               /\ \A id \in DOMAIN T : \E p \in Packages :
                    <<p, id>> \in Kept(d, RowsOf(d)) /\ T[id] = LoadedTitle(d, p, id)
      BY TitlesAreRows
    <2>2. titles' = TitlesFrom(disk', RowsOf(disk'))
      BY <1>0 DEF LoadStore
    <2>3. QED
      BY <1>2, <1>5, <2>1, <2>2
  <1>7. NothingElseOnDisk'
    <2>1. ASSUME NEW p \in Packages, NEW id, disk'[p] # Absent, id \in DOMAIN disk'[p]
          PROVE  id \in DOMAIN titles' /\ titles'[id].package = p /\ titles'[id].saved # <<>>
      <3>1. id \in TitleIDs
        BY <1>2, <2>1 DEF IsDisk, IsDatabase
      <3>2. <<p, id>> \in RowsOf(disk') /\ <<p, id>>[2] = id
        BY <2>1, <3>1 DEF RowsOf
      <3>3. id \in DOMAIN titles'
        BY <1>6, <3>2
      <3>4. PICK q \in Packages :
              <<q, id>> \in RowsOf(disk') /\ titles'[id] = LoadedTitle(disk', q, id)
        BY <1>6, <3>3
      <3>5. <<p, id>> = <<q, id>>
        BY <1>4, <3>2, <3>4 DEF Clean
      <3>6. titles'[id].package = q /\ titles'[id].saved = <<disk'[q][id].content>>
        BY <3>4 DEF LoadedTitle
      <3>7. QED
        BY <3>3, <3>5, <3>6
    <2>2. QED
      BY <2>1 DEF NothingElseOnDisk, Stored, OnDisk
  <1>8. SavingToTheEnd' /\ SettledIsSaved'
    BY <1>1 DEF LoadStore, SavingToTheEnd, SettledIsSaved
  <1>9. QED
    BY <1>2, <1>4, <1>7, <1>8 DEF KeptWell


\* The actions of the editor on titles, and the end of the program.
LEMMA KeptEdits ==
    ASSUME KeptInv, ~trouble,
           \/ \E id \in TitleIDs :
                \/ MarkTitle(id)
                \/ \E c \in Contents : \/ EditTitle(id, c)
                                       \/ \E p \in Packages : CreateTitle(id, p, c)
           \/ \E p \in Packages : MarkPackage(p)
    PROVE  KeptWell'
  <1>1. /\ DatabasesAreListed
        /\ NothingElseOnDisk /\ SavingToTheEnd /\ Clean(disk) /\ ~saving.on /\ ~saving.failed
        /\ titles \in [DOMAIN titles -> TitleRecord] /\ up
    BY DEF KeptInv, KeptWell, StoreInv, StoreTypeOK, SavingToTheEnd, MarkTitle, EditTitle,
           CreateTitle, MarkPackage, Editing
  <1>2. settled' = FALSE /\ UNCHANGED <<disk, listed, packages, up, saving>>
    BY DEF MarkTitle, EditTitle, CreateTitle, MarkPackage
  <1>3. /\ DOMAIN titles \subseteq DOMAIN titles'
        /\ \A x \in DOMAIN titles : /\ titles'[x].package = titles[x].package
                                    /\ titles'[x].saved = titles[x].saved
    <2>1. ASSUME NEW id \in TitleIDs, NEW c \in Contents, EditTitle(id, c)
          PROVE  /\ DOMAIN titles \subseteq DOMAIN titles'
                 /\ \A x \in DOMAIN titles : /\ titles'[x].package = titles[x].package
                                             /\ titles'[x].saved = titles[x].saved
      BY <1>1, <2>1 DEF EditTitle, TitleRecord
    <2>2. ASSUME NEW id \in TitleIDs, NEW c \in Contents, NEW p \in Packages,
                 CreateTitle(id, p, c)
          PROVE  /\ DOMAIN titles \subseteq DOMAIN titles'
                 /\ \A x \in DOMAIN titles : titles'[x] = titles[x]
      BY <2>2 DEF CreateTitle
    <2>3. QED
      BY <2>1, <2>2 DEF MarkTitle, MarkPackage
  <1>4. NothingElseOnDisk'
    BY <1>1, <1>2, <1>3 DEF NothingElseOnDisk, Stored, OnDisk
  <1>5. SavingToTheEnd' /\ SettledIsSaved' /\ Clean(disk')
    BY <1>1, <1>2 DEF SavingToTheEnd, SettledIsSaved
  <1>6. DatabasesAreListed'
    BY <1>1, <1>2 DEF DatabasesAreListed, OnDisk
  <1>7. QED
    BY <1>4, <1>5, <1>6 DEF KeptWell

LEMMA KeptCreatesPackage ==
    ASSUME KeptInv, ~trouble, NEW p \in Packages, CreatePackage(p)
    PROVE  KeptWell'
  <1>1. /\ NothingElseOnDisk /\ SavingToTheEnd /\ SettledIsSaved /\ Clean(disk)
        /\ ~saving.on /\ IsDisk(disk) /\ DatabasesAreListed
    BY DEF KeptInv, KeptWell, StoreInv, StoreTypeOK, CreatePackage, Editing
  <1>2. /\ disk' = [disk EXCEPT ![p] = EmptyPackage] /\ disk[p] = Absent
        /\ UNCHANGED <<up, titles, doomed, doomedPackages, saving, trouble, settled>>
    BY DEF CreatePackage, OnDisk
  <1>3. /\ disk'[p] = EmptyPackage /\ DOMAIN EmptyPackage = {}
        /\ \A q \in Packages : q # p => disk'[q] = disk[q]
    BY <1>1, <1>2, DatabaseFacts DEF IsDisk
  <1>4. NothingElseOnDisk'
    BY <1>1, <1>2, <1>3 DEF NothingElseOnDisk, Stored, OnDisk
  <1>5. RowsOf(disk') = RowsOf(disk) /\ \A r \in RowsOf(disk) : disk'[r[1]] = disk[r[1]]
    BY <1>2, <1>3 DEF RowsOf
  <1>6. Clean(disk')
    BY <1>1, <1>5 DEF Clean
  <1>7. SavingToTheEnd'
    BY <1>1, <1>2 DEF SavingToTheEnd
  <1>8. SettledIsSaved'
    BY <1>1, <1>2 DEF SettledIsSaved, Valid, Lasting, Modified
  <1>9. DatabasesAreListed'
    <2>1. disk'[p] # Absent
      BY <1>3, DatabaseFacts
    <2>2. listed' = listed \cup {p} /\ packages' = packages \cup {p}
      BY DEF CreatePackage
    <2>3. QED
      BY <1>1, <1>2, <1>3, <2>1, <2>2 DEF DatabasesAreListed, OnDisk
  <1>10. QED
    BY <1>4, <1>6, <1>7, <1>8, <1>9 DEF KeptWell

LEMMA KeptBegins ==
    ASSUME KeptInv, ~trouble, BeginSaveAll
    PROVE  KeptWell'
  <1> DEFINE todo == {id \in Lasting : Modified(id)}
  <1>1. /\ NothingElseOnDisk /\ SettledIsSaved /\ DatabasesAreListed
        /\ Valid /\ UNCHANGED <<disk, listed, up, memoryVars, trouble, settled>>
        /\ saving' = [on |-> TRUE, save |-> todo, delete |-> doomed,
                      deletePackages |-> doomedPackages, failed |-> FALSE]
    BY DEF KeptInv, KeptWell, BeginSaveAll
  <1>2. UNCHANGED <<titles, doomed, doomedPackages>>
    BY <1>1 DEF memoryVars
  <1>3. NothingElseOnDisk'
    BY <1>1, <1>2 DEF NothingElseOnDisk, Stored, OnDisk
  <1>4. Lasting' = Lasting /\ Valid' /\ \A id : Modified(id)' <=> Modified(id)
    BY <1>1, <1>2 DEF Lasting, Valid, Modified
  <1>5. SavingToTheEnd'
    BY <1>1, <1>2, <1>4 DEF SavingToTheEnd
  <1>6. SettledIsSaved'
    <2>1. settled => todo = {}
      BY <1>1 DEF SettledIsSaved, Lasting
    <2> HIDE DEF todo
    <2>2. QED
      BY <1>1, <1>2, <1>4, <2>1 DEF SettledIsSaved
  <1>7. saving'.on
    BY <1>1
  <1>8. DatabasesAreListed'
    BY <1>1 DEF DatabasesAreListed, OnDisk, memoryVars
  <1>9. QED
    BY <1>3, <1>5, <1>6, <1>7, <1>8 DEF KeptWell

LEMMA KeptSaves ==
    ASSUME KeptInv, ~trouble, ~trouble', NEW id \in TitleIDs, SaveTitle(id)
    PROVE  KeptWell'
  <1> DEFINE p == titles[id].package
             row == Row(p, id)
  <1>1. /\ saving.on /\ id \in saving.save /\ id \in DOMAIN titles
        /\ UNCHANGED <<listed, up, packages, doomed, doomedPackages, settled>>
    BY DEF SaveTitle, KeptInv, StoreInv, PackagesAreThere
  <1>2. /\ OnDisk(p)
        /\ disk' = [disk EXCEPT ![p] = WithRow(@, id, row)]
        /\ titles' = [titles EXCEPT ![id].version = row.version,
                                    ![id].saved = <<titles[id].content>>]
        /\ saving' = [saving EXCEPT !.save = @ \ {id}]
    BY DEF SaveTitle
  <1>3. /\ NothingElseOnDisk /\ SavingToTheEnd /\ SettledIsSaved
        /\ StoreTypeOK /\ IsDisk(disk) /\ DatabasesAreListed
    BY DEF KeptInv, KeptWell, StoreInv, StoreTypeOK
  <1>4. p \in Packages /\ IsDatabase(disk[p])
    BY <1>1, <1>2, <1>3 DEF StoreTypeOK, TitleRecord, IsDisk, OnDisk
  <1>5. row.version \in Nat
    <2>1. id \in Stored(p) => disk[p][id].version \in Nat
      BY <1>4 DEF Stored, IsDatabase, Rows
    <2>2. QED
      BY <2>1 DEF Row
  <1> HIDE DEF row
  <1>6. /\ DOMAIN titles' = DOMAIN titles
        /\ \A x \in DOMAIN titles : /\ titles'[x].package = titles[x].package
                                    /\ titles'[x].content = titles[x].content
        /\ \A x \in DOMAIN titles : x # id => titles'[x] = titles[x]
        /\ titles'[id].saved = <<titles[id].content>>
    BY <1>1, <1>2, <1>3, <1>5, TitleSaved
  <1>7. /\ disk'[p] = WithRow(disk[p], id, row)
        /\ DOMAIN WithRow(disk[p], id, row) = DOMAIN disk[p] \cup {id}
        /\ \A q \in Packages : q # p => disk'[q] = disk[q]
    <2>1. DOMAIN WithRow(disk[p], id, row) = DOMAIN disk[p] \cup {id}
      BY DEF WithRow
    <2>2. QED
      BY <1>2, <1>3, <1>4, <2>1 DEF IsDisk
  <1>8. NothingElseOnDisk'
    <2>1. up
      BY <1>1 DEF KeptInv, StoreInv, PackagesAreThere
    <2>2. ASSUME NEW q \in Packages, NEW x, disk'[q] # Absent, x \in DOMAIN disk'[q]
          PROVE  x \in DOMAIN titles' /\ titles'[x].package = q /\ titles'[x].saved # <<>>
      <3>1. CASE q = p /\ x = id
        <4>1. <<titles[id].content>> # <<>>
          OBVIOUS
        <4>2. titles'[id].saved # <<>>
          BY <1>6, <4>1
        <4>3. id \in DOMAIN titles' /\ titles'[id].package = p
          BY <1>1, <1>6
        <4>4. QED
          BY <3>1, <4>2, <4>3
      <3>2. CASE ~(q = p /\ x = id)
        <4>1. disk[q] # Absent /\ x \in DOMAIN disk[q]
          BY <1>2, <1>7, <2>2, <3>2 DEF OnDisk
        <4>2. x \in DOMAIN titles /\ titles[x].package = q /\ titles[x].saved # <<>>
          BY <1>3, <2>1, <4>1 DEF NothingElseOnDisk, Stored, OnDisk
        <4>3. x # id
          BY <3>2, <4>2
        <4>4. QED
          BY <1>6, <4>2, <4>3
      <3>3. QED
        BY <3>1, <3>2
    <2>3. QED
      BY <2>2 DEF NothingElseOnDisk, Stored, OnDisk
  <1>9. saving'.on = saving.on /\ saving'.save = saving.save \ {id}
        /\ saving'.delete = saving.delete /\ saving'.deletePackages = saving.deletePackages
        /\ saving'.failed = saving.failed
    BY <1>2, <1>3 DEF StoreTypeOK
  <1>10. Lasting' = Lasting /\ Lasting \subseteq DOMAIN titles
    BY <1>1, <1>6 DEF Lasting
  <1>11. SavingToTheEnd'
    <2>1. Valid'
      BY <1>1, <1>3, <1>6, <1>10 DEF SavingToTheEnd, Valid
    <2>2. \A x \in Lasting' : Modified(x)' => x \in saving'.save \/ saving'.failed
      <3> TAKE x \in Lasting'
      <3>1. x \in DOMAIN titles /\ x \in Lasting
        BY <1>10
      <3>2. CASE x = id
        BY <1>1, <1>6, <3>2 DEF Modified
      <3>3. CASE x # id
        BY <1>1, <1>3, <1>6, <1>9, <3>1, <3>3 DEF Modified, SavingToTheEnd
      <3>4. QED
        BY <3>2, <3>3
    <2>3. QED
      BY <1>1, <1>3, <1>9, <2>1, <2>2 DEF SavingToTheEnd
  <1>12. ~settled'
    BY <1>1, <1>3 DEF SettledIsSaved
  <1>13. SettledIsSaved'
    BY <1>12 DEF SettledIsSaved
  <1>14. DatabasesAreListed'
    <2>1. disk'[p] # Absent
      <3>1. id \in DOMAIN disk'[p] /\ id \in TitleIDs
        BY <1>7
      <3>2. DOMAIN Absent = {NoTitle}
        BY DEF Absent
      <3>3. QED
        BY <3>1, <3>2, StoreAssumption DEF NoTitle
    <2>2. QED
      BY <1>1, <1>2, <1>3, <1>7, <2>1 DEF DatabasesAreListed, OnDisk
  <1>15. QED
    BY <1>1, <1>8, <1>9, <1>11, <1>13, <1>14 DEF KeptWell

\* Titles that are gone leave the others valid.
LEMMA KeptDeletes ==
    ASSUME KeptInv, ~trouble, ~trouble', NEW id \in TitleIDs, DeleteTitle(id)
    PROVE  KeptWell'
  <1>1. /\ saving.on /\ saving.save = {} /\ id \in saving.delete
        /\ UNCHANGED <<listed, up, packages, doomedPackages, settled>>
        /\ disk' = IF id \notin DOMAIN titles THEN disk
                   ELSE [disk EXCEPT ![titles[id].package] = WithoutRow(@, id)]
        /\ titles' = WithoutRow(titles, id)
        /\ doomed' = doomed \ {id}
        /\ saving' = [saving EXCEPT !.delete = @ \ {id}]
    BY DEF DeleteTitle
  <1>2. /\ NothingElseOnDisk /\ SavingToTheEnd /\ SettledIsSaved
        /\ StoreTypeOK /\ IsDisk(disk) /\ up /\ DatabasesAreListed
    BY <1>1 DEF KeptInv, KeptWell, StoreInv, StoreTypeOK, PackagesAreThere
  <1>3. /\ DOMAIN titles' = DOMAIN titles \ {id}
        /\ \A x \in DOMAIN titles' : titles'[x] = titles[x]
    BY <1>1 DEF WithoutRow
  <1>4. saving'.on = saving.on /\ saving'.save = {}
        /\ saving'.delete = saving.delete \ {id}
        /\ saving'.deletePackages = saving.deletePackages /\ saving'.failed = saving.failed
    BY <1>1, <1>2 DEF StoreTypeOK
  <1>5. NothingElseOnDisk'
    <2>1. ASSUME NEW q \in Packages, NEW x, disk'[q] # Absent, x \in DOMAIN disk'[q]
          PROVE  disk[q] # Absent /\ x \in DOMAIN disk[q]
                 /\ ~(x = id /\ id \in DOMAIN titles /\ q = titles[id].package)
      <3>1. CASE id \notin DOMAIN titles
        BY <1>1, <2>1, <3>1
      <3>2. CASE id \in DOMAIN titles
        <4> DEFINE p == titles[id].package
                   db == WithoutRow(disk[p], id)
        <4>1. p \in Packages
          BY <1>2, <3>2 DEF StoreTypeOK, TitleRecord
        <4>2. IsDatabase(disk[p]) \/ disk[p] = Absent
          BY <1>2, <4>1 DEF IsDisk
        <4>3. /\ disk[p] = Absent => db = Absent
              /\ DOMAIN db = DOMAIN disk[p] \ {id}
          BY <4>2, WithoutRowFacts
        <4>4. disk' = [disk EXCEPT ![p] = db]
          BY <1>1, <3>2
        <4> HIDE DEF p, db
        <4>5. /\ disk'[p] = db /\ \A r \in Packages : r # p => disk'[r] = disk[r]
          BY <1>2, <4>1, <4>4 DEF IsDisk
        <4>6. disk[q] # Absent /\ x \in DOMAIN disk[q] /\ ~(x = id /\ q = p)
          BY <2>1, <4>3, <4>5
        <4>7. QED
          BY <4>6 DEF p
      <3>3. QED
        BY <3>1, <3>2
    <2>2. ASSUME NEW q \in Packages, NEW x, disk'[q] # Absent, x \in DOMAIN disk'[q]
          PROVE  x \in DOMAIN titles' /\ titles'[x].package = q /\ titles'[x].saved # <<>>
      <3>1. x \in DOMAIN titles /\ titles[x].package = q /\ titles[x].saved # <<>>
        BY <1>2, <2>1, <2>2 DEF NothingElseOnDisk, Stored, OnDisk
      <3>2. x # id
        BY <2>1, <2>2, <3>1
      <3>3. QED
        BY <1>3, <3>1, <3>2
    <2>3. QED
      BY <2>2 DEF NothingElseOnDisk, Stored, OnDisk
  <1>6. /\ Lasting' \subseteq Lasting /\ Lasting \subseteq DOMAIN titles
        /\ Lasting' \subseteq DOMAIN titles'
    BY <1>1, <1>3 DEF Lasting
  <1>7. SavingToTheEnd'
    <2>1. Valid'
      BY <1>1, <1>2, <1>3, <1>6 DEF SavingToTheEnd, Valid
    <2>2. \A x \in Lasting' : Modified(x)' => x \in saving'.save \/ saving'.failed
      <3> TAKE x \in Lasting'
      <3>1. x \in Lasting /\ titles'[x] = titles[x]
        BY <1>3, <1>6
      <3>2. QED
        BY <1>1, <1>2, <1>4, <3>1 DEF SavingToTheEnd, Modified
    <2>3. QED
      BY <1>1, <1>2, <1>4, <2>1, <2>2 DEF SavingToTheEnd
  <1>8. ~settled'
    BY <1>1, <1>2 DEF SettledIsSaved
  <1>9. SettledIsSaved'
    BY <1>8 DEF SettledIsSaved
  <1>10. DatabasesAreListed'
    <2>1. \A q \in Packages : disk'[q] = Absent <=> disk[q] = Absent
      <3>1. CASE id \notin DOMAIN titles
        BY <1>1, <3>1
      <3>2. CASE id \in DOMAIN titles
        <4> DEFINE p == titles[id].package
                   db == WithoutRow(disk[p], id)
        <4>1. p \in Packages
          BY <1>2, <3>2 DEF StoreTypeOK, TitleRecord
        <4>2. IsDatabase(disk[p]) \/ disk[p] = Absent
          BY <1>2, <4>1 DEF IsDisk
        <4>3. db = Absent <=> disk[p] = Absent
          BY <4>2, WithoutRowFacts, DatabaseFacts
        <4>4. disk' = [disk EXCEPT ![p] = db]
          BY <1>1, <3>2
        <4> HIDE DEF p, db
        <4>5. disk'[p] = db /\ \A q \in Packages : q # p => disk'[q] = disk[q]
          BY <1>2, <4>1, <4>4 DEF IsDisk
        <4>6. QED
          BY <4>3, <4>5
      <3>3. QED
        BY <3>1, <3>2
    <2>2. QED
      BY <1>1, <1>2, <2>1 DEF DatabasesAreListed, OnDisk
  <1>11. QED
    BY <1>1, <1>4, <1>5, <1>7, <1>9, <1>10 DEF KeptWell

LEMMA KeptDeletesPackage ==
    ASSUME KeptInv, ~trouble, ~trouble', NEW p \in Packages, DeletePackage(p)
    PROVE  KeptWell'
  <1>1. /\ saving.on /\ saving.save = {} /\ p \in saving.deletePackages
        /\ UNCHANGED <<up, doomed, settled>>
        /\ disk' = [disk EXCEPT ![p] = Absent]
        /\ listed' = listed \ {p} /\ packages' = packages \ {p}
        /\ titles' = Remaining(p)
        /\ doomedPackages' = doomedPackages \ {p}
        /\ saving' = [saving EXCEPT !.deletePackages = @ \ {p}]
    BY DEF DeletePackage
  <1>2. /\ NothingElseOnDisk /\ SavingToTheEnd /\ SettledIsSaved
        /\ StoreTypeOK /\ IsDisk(disk) /\ up /\ DatabasesAreListed
    BY <1>1 DEF KeptInv, KeptWell, StoreInv, StoreTypeOK, PackagesAreThere
  <1>3. /\ DOMAIN titles' = {x \in DOMAIN titles : titles[x].package # p}
        /\ \A x \in DOMAIN titles' : titles'[x] = titles[x]
    BY <1>1 DEF Remaining
  <1>4. saving'.on = saving.on /\ saving'.save = {}
        /\ saving'.delete = saving.delete
        /\ saving'.deletePackages = saving.deletePackages \ {p}
        /\ saving'.failed = saving.failed
    BY <1>1, <1>2 DEF StoreTypeOK
  <1>5. /\ disk'[p] = Absent /\ \A q \in Packages : q # p => disk'[q] = disk[q]
    BY <1>1, <1>2 DEF IsDisk
  <1>6. NothingElseOnDisk'
    BY <1>1, <1>2, <1>3, <1>5 DEF NothingElseOnDisk, Stored, OnDisk
  <1>7. /\ Lasting' \subseteq Lasting /\ Lasting \subseteq DOMAIN titles
        /\ Lasting' \subseteq DOMAIN titles'
    BY <1>1, <1>3 DEF Lasting
  <1>8. SavingToTheEnd'
    <2>1. Valid'
      BY <1>1, <1>2, <1>3, <1>7 DEF SavingToTheEnd, Valid
    <2>2. \A x \in Lasting' : Modified(x)' => x \in saving'.save \/ saving'.failed
      <3> TAKE x \in Lasting'
      <3>1. x \in Lasting /\ titles'[x] = titles[x]
        BY <1>3, <1>7
      <3>2. QED
        BY <1>1, <1>2, <1>4, <3>1 DEF SavingToTheEnd, Modified
    <2>3. QED
      BY <1>1, <1>2, <1>4, <2>1, <2>2 DEF SavingToTheEnd
  <1>9. ~settled'
    BY <1>1, <1>2 DEF SettledIsSaved
  <1>10. SettledIsSaved'
    BY <1>9 DEF SettledIsSaved
  <1>11. DatabasesAreListed'
    BY <1>1, <1>2, <1>5 DEF DatabasesAreListed, OnDisk
  <1>12. QED
    BY <1>1, <1>4, <1>6, <1>8, <1>10, <1>11 DEF KeptWell

\* SaveAll that fails nowhere settles the store.
LEMMA KeptEnds ==
    ASSUME KeptInv, ~trouble, EndSaveAll
    PROVE  KeptWell'
  <1>1. /\ saving.on /\ saving.save = {} /\ saving.delete = {} /\ saving.deletePackages = {}
        /\ saving' = NotSaving
        /\ UNCHANGED <<disk, listed, packages, up, titles, doomed, doomedPackages>>
    BY DEF EndSaveAll, memoryVars
  <1>2. StoreInv /\ NothingElseOnDisk /\ SavingToTheEnd /\ up /\ DatabasesAreListed
    BY <1>1 DEF KeptInv, KeptWell, StoreInv, PackagesAreThere
  <1>3. ~saving.failed
    BY <1>2 DEF SavingToTheEnd
  <1>4. doomed = {} /\ doomedPackages = {} /\ Valid /\ \A id \in Lasting : ~Modified(id)
    BY <1>1, <1>2, <1>3 DEF SavingToTheEnd
  <1>5. \A id \in DOMAIN titles : ~Modified(id)
    BY <1>4 DEF Lasting
  <1>6. Clean(disk)
    BY <1>2, <1>4, <1>5, TitlesHaveDatabases, SavedRowsAreClean
  <1>7. NothingElseOnDisk'
    BY <1>1, <1>2 DEF NothingElseOnDisk, Stored, OnDisk
  <1>8. SavingToTheEnd'
    BY <1>1 DEF SavingToTheEnd, NotSaving
  <1>9. SettledIsSaved'
    BY <1>1, <1>2, <1>4, <1>5 DEF SettledIsSaved, NotSaving, Valid, Lasting, Modified
  <1>10. DatabasesAreListed'
    BY <1>1, <1>2 DEF DatabasesAreListed, OnDisk
  <1>11. QED
    BY <1>1, <1>6, <1>7, <1>8, <1>9, <1>10 DEF KeptWell

LEMMA KeptStops ==
    ASSUME KeptInv, ~trouble', Stop
    PROVE  KeptWell'
  <1>1. ~trouble /\ ~saving.on /\ disk' = disk /\ ~up' /\ saving' = NotSaving /\ ~settled'
    BY DEF Stop
  <1>2. Clean(disk')
    BY <1>1 DEF KeptInv, KeptWell
  <1>3. DatabasesAreListed'
    BY <1>1 DEF KeptInv, KeptWell, DatabasesAreListed, OnDisk, Stop
  <1>4. QED
    BY <1>1, <1>2, <1>3 DEF KeptWell, NothingElseOnDisk, SavingToTheEnd, SettledIsSaved, NotSaving

LEMMA KeptStep == KeptInv /\ [StoreNext]_storeVars => KeptInv'
  <1> SUFFICES ASSUME KeptInv, [StoreNext]_storeVars PROVE KeptInv'
    OBVIOUS
  <1>1. StoreInv'
    BY StoreStep DEF KeptInv
  <1>2. ASSUME ~trouble' PROVE KeptWell'
    <2>1. CASE UNCHANGED storeVars
      <3>1. /\ KeptWell
            /\ UNCHANGED <<disk, listed, up, packages, titles, doomed, doomedPackages,
                           saving, trouble, settled>>
        BY <1>2, <2>1 DEF KeptInv, storeVars
      <3>2. QED
        BY <3>1 DEF KeptWell, DatabasesAreListed, NothingElseOnDisk, SavingToTheEnd, SettledIsSaved, Valid,
                    Lasting, Modified, Stored, OnDisk
    <2>2. CASE Stop
      BY <1>2, <2>2, KeptStops
    <2>3. ASSUME NEW p \in Packages, LoadStoreInPart(p) PROVE FALSE
      BY <1>2, <2>3 DEF LoadStoreInPart
    <2>4. CASE LoadStore
      <3>1. ~trouble
        BY <1>2, <2>4 DEF LoadStore
      <3>2. QED
        BY <1>1, <2>4, <3>1, KeptLoads
    <2>5. ASSUME NEW id \in TitleIDs,
                 \/ MarkTitle(id)
                 \/ \E c \in Contents : \/ EditTitle(id, c)
                                        \/ \E p \in Packages : CreateTitle(id, p, c)
          PROVE  KeptWell'
      <3>1. ~trouble
        BY <1>2, <2>5 DEF MarkTitle, EditTitle, CreateTitle
      <3>2. QED
        BY <2>5, <3>1, KeptEdits
    <2>6. ASSUME NEW p \in Packages, MarkPackage(p) PROVE KeptWell'
      <3>1. ~trouble
        BY <1>2, <2>6 DEF MarkPackage
      <3>2. QED
        BY <2>6, <3>1, KeptEdits
    <2>7. ASSUME NEW id \in TitleIDs, SaveTitle(id) PROVE KeptWell'
      <3>1. ~trouble
        BY <1>2, <2>7 DEF SaveTitle
      <3>2. QED
        BY <1>2, <2>7, <3>1, KeptSaves
    <2>8. ASSUME NEW id \in TitleIDs, DeleteTitle(id) PROVE KeptWell'
      <3>1. ~trouble
        BY <1>2, <2>8 DEF DeleteTitle
      <3>2. QED
        BY <1>2, <2>8, <3>1, KeptDeletes
    <2>9. ASSUME NEW p \in Packages, DeletePackage(p) PROVE KeptWell'
      <3>1. ~trouble
        BY <1>2, <2>9 DEF DeletePackage
      <3>2. QED
        BY <1>2, <2>9, <3>1, KeptDeletesPackage
    <2>10. ASSUME NEW p \in Packages, CreatePackage(p) PROVE KeptWell'
      <3>1. ~trouble
        BY <1>2, <2>10 DEF CreatePackage
      <3>2. QED
        BY <2>10, <3>1, KeptCreatesPackage
    <2>11. CASE BeginSaveAll
      <3>1. ~trouble
        BY <1>2, <2>11 DEF BeginSaveAll
      <3>2. QED
        BY <2>11, <3>1, KeptBegins
    <2>12. CASE EndSaveAll
      <3>1. ~trouble
        BY <1>2, <2>12 DEF EndSaveAll
      <3>2. QED
        BY <2>12, <3>1, KeptEnds
    <2>13. QED
      BY <2>1, <2>2, <2>3, <2>4, <2>5, <2>6, <2>7, <2>8, <2>9, <2>10, <2>11, <2>12
      DEF StoreNext
  <1>3. QED
    BY <1>1, <1>2 DEF KeptInv

\* The disk and the memory agree wherever the store takes them to agree: when
\* SaveAll succeeded, a restart brings back the very titles in memory, for any
\* number of titles and packages and any order of edits, marks, saves and ends
\* of the program.  The program must have found a disk without two titles of the
\* same identifier or Global: of two such titles Load drops one, and brings it
\* back when the other was renamed.
THEOREM StoreKeepsTitles ==
    ASSUME \A d \in Disks : Clean(d)
    PROVE  StoreSpec => []TitlesAreKept
  <1>1. StoreInit => KeptInv
    <2> SUFFICES ASSUME StoreInit PROVE KeptInv
      OBVIOUS
    <2>1. StoreInv
      BY StoreInitially
    <2>2. NothingElseOnDisk /\ SavingToTheEnd /\ SettledIsSaved
      BY DEF StoreInit, NothingElseOnDisk, SavingToTheEnd, SettledIsSaved, NotSaving
    <2>3. Clean(disk) /\ DatabasesAreListed
      BY DEF StoreInit, DatabasesAreListed, OnDisk
    <2>4. QED
      BY <2>1, <2>2, <2>3 DEF KeptInv, KeptWell
  <1>2. KeptInv => TitlesAreKept
    <2> SUFFICES ASSUME KeptInv PROVE TitlesAreKept
      OBVIOUS
    <2>1. UnmodifiedIsOnDisk
      BY UnmodifiedIsSaved DEF KeptInv
    <2>2. ASSUME settled, ~trouble PROVE TitlesFrom(disk, FoundRows(disk, listed)) = titles
      <3>1. StoreInv /\ DatabasesAreListed /\ NothingElseOnDisk /\ SettledIsSaved
        BY <2>2 DEF KeptInv, KeptWell
      <3>2. TitlesFrom(disk, RowsOf(disk)) = titles
        BY <2>2, <3>1, TitlesHaveDatabases, SavedRowsAreClean DEF SettledIsSaved
      <3>3. QED
        BY <3>1, <3>2, AllRowsAreFound
    <2>3. RestartRestores
      BY <2>2 DEF RestartRestores
    <2>4. QED
      BY <2>1, <2>3 DEF TitlesAreKept
  <1>3. QED
    BY <1>1, <1>2, KeptStep, PTL DEF StoreSpec

----------------------------------------------------------------------------
(* The progress of a title.  What the operations make of the record of a   *)
(* title is said once, as facts about its fields (TitleShape and the       *)
(* lemmas after it); the four invariants rest on these.                    *)

ReqShape(p) ==
    p = [print |-> p.print, value |-> p.value, baseline |-> p.baseline,
         highest |-> p.highest, keys |-> p.keys, met |-> p.met]

TitleShape(t) ==
    /\ t = [completed |-> t.completed, rewarded |-> t.rewarded, chosen |-> t.chosen,
            selected |-> t.selected, delivered |-> t.delivered, overall |-> t.overall,
            req |-> t.req]
    /\ t.completed \in BOOLEAN
    /\ t.req = [q \in Reqs |-> t.req[q]]
    /\ \A q \in Reqs : ReqShape(t.req[q])

\* What no operation on the progress touches.
SameRewards(t, u) ==
    /\ u.rewarded = t.rewarded /\ u.chosen = t.chosen
    /\ u.selected = t.selected /\ u.delivered = t.delivered

\* 1.0 is for completed titles (RecomputeLocked).
Capped(t) == t.overall = 1000 => t.completed

\* The progress of the requirements was made under the present definition.
MadeUnder(t, d) == \A q \in d.reqs : t.req[q].print = d.print[q]

LEMMA FreshTitleShape ==
    /\ ReqShape(FreshReq) /\ TitleShape(FreshTitle)
    /\ ~FreshTitle.completed /\ FreshTitle.completed = FALSE /\ ~FreshTitle.rewarded
    /\ FreshTitle.delivered = {}
  <1>1. ReqShape(FreshReq)
    BY DEF ReqShape, FreshReq
  <1>2. /\ FreshTitle.completed = FALSE /\ FreshTitle.rewarded = FALSE
        /\ FreshTitle.delivered = {} /\ FreshTitle.req = [q \in Reqs |-> FreshReq]
    BY DEF FreshTitle
  <1>3. FreshTitle = [completed |-> FreshTitle.completed, rewarded |-> FreshTitle.rewarded,
            chosen |-> FreshTitle.chosen, selected |-> FreshTitle.selected,
            delivered |-> FreshTitle.delivered, overall |-> FreshTitle.overall,
            req |-> FreshTitle.req]
    BY DEF FreshTitle
  <1>4. TitleShape(FreshTitle)
    BY <1>1, <1>2, <1>3 DEF TitleShape
  <1>5. QED
    BY <1>1, <1>2, <1>4

LEMMA RecomputedTitle ==
    ASSUME NEW t, TitleShape(t), NEW d
    PROVE  LET u == Recomputed(t, d)
           IN /\ TitleShape(u) /\ SameRewards(t, u) /\ u.req = t.req
              /\ (t.completed => u.completed) /\ Capped(u)
  <1> DEFINE raw == RawOverall(t, d)
             over == IF raw < 999 THEN raw ELSE 999
             u == Recomputed(t, d)
  <1>1. over # 1000
    OBVIOUS
  <1>2. t = [completed |-> t.completed, rewarded |-> t.rewarded, chosen |-> t.chosen,
             selected |-> t.selected, delivered |-> t.delivered, overall |-> t.overall,
             req |-> t.req]
    BY DEF TitleShape
  <1>3. /\ t.completed \in BOOLEAN /\ t.req = [q \in Reqs |-> t.req[q]]
        /\ \A q \in Reqs : ReqShape(t.req[q])
    BY DEF TitleShape
  <1>4. u \in {[t EXCEPT !.completed = TRUE, !.overall = 1000], [t EXCEPT !.overall = over]}
    BY DEF Recomputed, over
  <1> HIDE DEF over, u
  <1>6. CASE u = [t EXCEPT !.completed = TRUE, !.overall = 1000]
    <2>1. u = [completed |-> u.completed, rewarded |-> u.rewarded, chosen |-> u.chosen,
            selected |-> u.selected, delivered |-> u.delivered, overall |-> u.overall,
            req |-> u.req]
      BY <1>2, <1>6
    <2>2. u.completed = TRUE /\ SameRewards(t, u) /\ u.req = t.req
      BY <1>2, <1>6 DEF SameRewards
    <2>3. TitleShape(u)
      BY <1>3, <2>1, <2>2 DEF TitleShape
    <2>4. QED
      BY <2>2, <2>3 DEF u, Capped
  <1>7. CASE u = [t EXCEPT !.overall = over]
    <2>1. u = [completed |-> t.completed, rewarded |-> t.rewarded, chosen |-> t.chosen,
            selected |-> t.selected, delivered |-> t.delivered, overall |-> over,
            req |-> t.req]
      BY <1>2, <1>7
    <2>2. TitleShape(u)
      BY <1>3, <2>1 DEF TitleShape
    <2>3. SameRewards(t, u) /\ u.req = t.req /\ (t.completed => u.completed) /\ Capped(u)
      BY <1>1, <2>1 DEF SameRewards, Capped
    <2>4. QED
      BY <2>2, <2>3 DEF u
  <1>8. QED
    BY <1>4, <1>6, <1>7

LEMMA CurrentReq ==
    ASSUME NEW t, TitleShape(t), NEW d, NEW q \in Reqs
    PROVE  /\ ReqShape(Current(t, d, q))
           /\ ~t.completed => Current(t, d, q).print = d.print[q]
  <1> DEFINE p == t.req[q]
  <1>1. ReqShape(p)
    BY DEF TitleShape
  <1>2. p = [print |-> p.print, value |-> p.value, baseline |-> p.baseline,
             highest |-> p.highest, keys |-> p.keys, met |-> p.met]
    BY <1>1 DEF ReqShape
  <1>3. CASE p.print # d.print[q] /\ ~t.completed /\ p.print # d.legacyPrint[q]
    <2>1. CASE p.print = NoPrint \/ (p.print = d.legacyPrint[q] /\ ~t.completed)
      <3>1. Current(t, d, q) \in {[FreshReq EXCEPT !.print = d.print[q]],
                                  [p EXCEPT !.print = d.print[q]]}
        BY <1>3, <2>1 DEF Current
      <3>2. QED
        BY <1>2, <3>1 DEF FreshReq, ReqShape
    <2>2. CASE ~(p.print = NoPrint \/ (p.print = d.legacyPrint[q] /\ ~t.completed))
      <3>1. Current(t, d, q) = [FreshReq EXCEPT !.print = d.print[q]]
        BY <1>3, <2>2 DEF Current
      <3>2. QED
        BY <3>1 DEF FreshReq, ReqShape
    <2>3. QED
      BY <2>1, <2>2
  <1>4. CASE /\ ~(p.print # d.print[q] /\ ~t.completed /\ p.print # d.legacyPrint[q])
             /\ p.print = NoPrint \/ (p.print = d.legacyPrint[q] /\ ~t.completed)
    <2>1. Current(t, d, q) = [p EXCEPT !.print = d.print[q]]
      BY <1>4 DEF Current
    <2>2. QED
      BY <1>2, <2>1 DEF ReqShape
  <1>5. CASE /\ ~(p.print # d.print[q] /\ ~t.completed /\ p.print # d.legacyPrint[q])
             /\ ~(p.print = NoPrint \/ (p.print = d.legacyPrint[q] /\ ~t.completed))
    <2>1. Current(t, d, q) = p
      BY <1>5 DEF Current
    <2>2. QED
      BY <1>1, <1>5, <2>1
  <1>6. QED
    BY <1>3, <1>4, <1>5

LEMMA ReconciledTitle ==
    ASSUME NEW t, TitleShape(t), NEW d \in Definitions
    PROVE  LET u == Reconciled(t, d)
           IN /\ TitleShape(u) /\ SameRewards(t, u)
              /\ (t.completed => u.completed) /\ Capped(u)
              /\ ~t.completed => MadeUnder(u, d)
  <1> DEFINE met(q) == [Current(t, d, q) EXCEPT !.met = ~d.filtered[q]]
             r == [q \in Reqs |-> IF q \in d.reqs THEN met(q) ELSE t.req[q]]
             s == [t EXCEPT !.req = r]
  <1>1. ASSUME NEW q \in Reqs
        PROVE  ReqShape(met(q)) /\ (~t.completed => met(q).print = d.print[q])
    <2> DEFINE p == Current(t, d, q)
    <2>1. ReqShape(p) /\ (~t.completed => p.print = d.print[q])
      BY CurrentReq
    <2> HIDE DEF p
    <2>2. /\ ReqShape([p EXCEPT !.met = ~d.filtered[q]])
          /\ [p EXCEPT !.met = ~d.filtered[q]].print = p.print
      BY <2>1 DEF ReqShape
    <2>3. QED
      BY <2>1, <2>2 DEF p
  <1> HIDE DEF met
  <1>2. /\ r = [q \in Reqs |-> r[q]]
        /\ \A q \in Reqs : ReqShape(r[q])
        /\ \A q \in Reqs : ~t.completed /\ q \in d.reqs => r[q].print = d.print[q]
    BY <1>1 DEF TitleShape
  <1> HIDE DEF r
  <1>3. s = [completed |-> t.completed, rewarded |-> t.rewarded, chosen |-> t.chosen,
            selected |-> t.selected, delivered |-> t.delivered, overall |-> t.overall,
            req |-> r]
    BY DEF TitleShape
  <1>4. TitleShape(s) /\ SameRewards(t, s) /\ s.completed = t.completed /\ s.req = r
    <2> HIDE DEF s
    <2>1. t.completed \in BOOLEAN
      BY DEF TitleShape
    <2>2. QED
      BY <1>2, <1>3, <2>1 DEF TitleShape, SameRewards
  <1>5. Reconciled(t, d) = Recomputed(s, d)
    BY DEF Reconciled, r, met
  <1> HIDE DEF s
  <1> DEFINE u == Recomputed(s, d)
  <1>6. /\ TitleShape(u) /\ SameRewards(s, u) /\ u.req = s.req
        /\ (s.completed => u.completed) /\ Capped(u)
    BY <1>4, RecomputedTitle
  <1>7. d.reqs \subseteq Reqs
    BY DefinitionAssumption
  <1> HIDE DEF u
  <1>8. ~t.completed => MadeUnder(u, d)
    BY <1>2, <1>4, <1>6, <1>7 DEF MadeUnder
  <1>9. SameRewards(t, u)
    BY <1>4, <1>6 DEF SameRewards
  <1>10. QED
    BY <1>4, <1>5, <1>6, <1>8, <1>9 DEF u

LEMMA StoredReq ==
    ASSUME NEW t, TitleShape(t), NEW q, NEW p, q \in Reqs => ReqShape(p)
    PROVE  LET s == [t EXCEPT !.req[q] = p]
           IN /\ TitleShape(s) /\ SameRewards(t, s) /\ s.completed = t.completed
              /\ s.req = [t.req EXCEPT ![q] = p] /\ s.overall = t.overall
  <1> DEFINE s == [t EXCEPT !.req[q] = p]
             r == [t.req EXCEPT ![q] = p]
  <1>1. r = [x \in Reqs |-> r[x]] /\ \A x \in Reqs : ReqShape(r[x])
    BY DEF TitleShape
  <1> HIDE DEF r
  <1>2. s = [completed |-> t.completed, rewarded |-> t.rewarded, chosen |-> t.chosen,
            selected |-> t.selected, delivered |-> t.delivered, overall |-> t.overall,
            req |-> r]
    BY DEF TitleShape, r
  <1> HIDE DEF s
  <1>3. t.completed \in BOOLEAN
    BY DEF TitleShape
  <1>4. /\ TitleShape(s) /\ SameRewards(t, s) /\ s.completed = t.completed
        /\ s.req = r /\ s.overall = t.overall
    BY <1>1, <1>2, <1>3 DEF TitleShape, SameRewards
  <1>5. QED
    BY <1>4 DEF s, r

LEMMA RevisedTitle ==
    ASSUME NEW t, TitleShape(t), NEW d, NEW q, NEW p, q \in Reqs => ReqShape(p)
    PROVE  LET u == Revised(t, d, q, p)
           IN /\ TitleShape(u) /\ SameRewards(t, u) /\ u.req = [t.req EXCEPT ![q] = p]
              /\ (t.completed => u.completed) /\ Capped(u)
  <1> DEFINE s == [t EXCEPT !.req[q] = p]
             r == [t.req EXCEPT ![q] = p]
             u == Recomputed(s, d)
  <1>1. TitleShape(s) /\ SameRewards(t, s) /\ s.completed = t.completed /\ s.req = r
    BY StoredReq
  <1> HIDE DEF r, s
  <1>2. /\ TitleShape(u) /\ SameRewards(s, u) /\ u.req = s.req
        /\ (s.completed => u.completed) /\ Capped(u)
    BY <1>1, RecomputedTitle
  <1> HIDE DEF u
  <1>3. SameRewards(t, u)
    BY <1>1, <1>2 DEF SameRewards
  <1>4. Revised(t, d, q, p) = u
    BY DEF Revised, u, s
  <1>5. QED
    BY <1>1, <1>2, <1>3, <1>4 DEF r

\* What an event or a counter makes of the progress, the fingerprint stays.
LEMMA ProgressedReq ==
    ASSUME NEW p, ReqShape(p), NEW mode, NEW amount, NEW key
    PROVE  /\ ReqShape(Credited(p, mode, amount, key))
           /\ Credited(p, mode, amount, key).print = p.print
           /\ ReqShape(Measured(p, mode, amount))
           /\ Measured(p, mode, amount).print = p.print
  <1>1. p = [print |-> p.print, value |-> p.value, baseline |-> p.baseline,
             highest |-> p.highest, keys |-> p.keys, met |-> p.met]
    BY DEF ReqShape
  <1>2. ASSUME NEW n, NEW v, NEW k, NEW h,
               \/ n = [p EXCEPT !.value = v, !.keys = k, !.highest = h]
               \/ n = [p EXCEPT !.value = v, !.baseline = k, !.highest = h]
        PROVE  ReqShape(n) /\ n.print = p.print
    <2>1. n = [print |-> n.print, value |-> n.value, baseline |-> n.baseline,
               highest |-> n.highest, keys |-> n.keys, met |-> n.met]
      BY <1>1, <1>2
    <2>2. n.print = p.print
      BY <1>1, <1>2
    <2>3. QED
      BY <2>1, <2>2 DEF ReqShape
  <1>3. \E v, k, h : Credited(p, mode, amount, key)
                         = [p EXCEPT !.value = v, !.keys = k, !.highest = h]
    BY DEF Credited
  <1>4. \E v, k, h : Measured(p, mode, amount)
                         = [p EXCEPT !.value = v, !.baseline = k, !.highest = h]
    BY DEF Measured
  <1>5. ReqShape(Credited(p, mode, amount, key)) /\ Credited(p, mode, amount, key).print = p.print
    BY <1>2, <1>3
  <1>6. ReqShape(Measured(p, mode, amount)) /\ Measured(p, mode, amount).print = p.print
    BY <1>2, <1>4
  <1>7. QED
    BY <1>5, <1>6


\* What has to hold of a call: it is a record of its fields, its plan is a
\* sequence, and who gives or marks a reward has picked one.
IsPlan(s) == \E S : s \in Seq(S)

CallShape(c) ==
    /\ c = [plan |-> c.plan, pc |-> c.pc, change |-> c.change, earned |-> c.earned,
            todo |-> c.todo, reward |-> c.reward, failed |-> c.failed]
    /\ IsPlan(c.plan)
    /\ c.failed \in BOOLEAN
    /\ c.pc \in {"give", "mark"} => c.reward = <<c.reward[1]>>

CallsShaped ==
    /\ call = [t \in Threads |-> call[t]]
    /\ \A t \in Threads : CallShape(call[t])

\* The Global of the title will be synchronized when this plan is done.
Owing(s) == s # <<>> /\ s[Len(s)].op = "synchronize"

LEMMA PlanWithHead ==
    ASSUME NEW s, IsPlan(s), NEW x
    PROVE  IsPlan(<<x>> \o s) /\ (Owing(s) => Owing(<<x>> \o s))
  <1> DEFINE u == <<x>> \o s
  <1>1. PICK S : s \in Seq(S)
    BY DEF IsPlan
  <1>2. s \in Seq(S \cup {x}) /\ <<x>> \in Seq(S \cup {x})
    BY <1>1
  <1>3. u \in Seq(S \cup {x})
    BY <1>2
  <1>4. ASSUME Owing(s) PROVE Owing(u)
    <2>1. Len(u) = Len(s) + 1 /\ Len(s) \in Nat \ {0} /\ u[Len(s) + 1] = s[Len(s)]
      BY <1>2, <1>4 DEF Owing
    <2>2. QED
      BY <1>3, <1>4, <2>1 DEF Owing
  <1>5. QED
    BY <1>3, <1>4 DEF IsPlan

LEMMA PlanWithoutHead ==
    ASSUME NEW s, IsPlan(s), s # <<>>
    PROVE  /\ IsPlan(Tail(s))
           /\ Owing(s) /\ Head(s).op # "synchronize" => Owing(Tail(s))
  <1>1. PICK S : s \in Seq(S)
    BY DEF IsPlan
  <1>2. Tail(s) \in Seq(S) /\ Len(Tail(s)) = Len(s) - 1 /\ Len(s) \in Nat \ {0} /\ Head(s) = s[1]
    BY <1>1
  <1>3. ASSUME Owing(s), Head(s).op # "synchronize" PROVE Owing(Tail(s))
    <2>1. Len(s) # 1
      BY <1>2, <1>3 DEF Owing
    <2>2. Tail(s)[Len(s) - 1] = s[Len(s)]
      BY <1>1, <1>2, <2>1
    <2>3. Tail(s) # <<>> /\ Tail(s)[Len(Tail(s))] = s[Len(s)]
      <3> DEFINE u == Tail(s)
      <3>1. u \in Seq(S) /\ Len(u) # 0 /\ Len(u) = Len(s) - 1
        BY <1>1, <1>2, <2>1
      <3> HIDE DEF u
      <3>2. u # <<>>
        BY <3>1
      <3>3. QED
        BY <2>2, <3>1, <3>2 DEF u
    <2>4. QED
      BY <1>3, <2>3 DEF Owing
  <1>4. QED
    BY <1>2, <1>3 DEF IsPlan

LEMMA PlanWithEnd ==
    ASSUME NEW s, IsPlan(s), NEW x
    PROVE  IsPlan(s \o <<x>>) /\ (x.op = "synchronize" => Owing(s \o <<x>>))
  <1> DEFINE u == s \o <<x>>
  <1>1. PICK S : s \in Seq(S)
    BY DEF IsPlan
  <1>2. s \in Seq(S \cup {x}) /\ <<x>> \in Seq(S \cup {x})
    BY <1>1
  <1>3. u \in Seq(S \cup {x}) /\ Len(u) = Len(s) + 1 /\ Len(s) \in Nat /\ u[Len(s) + 1] = x
    BY <1>2
  <1>4. QED
    BY <1>3 DEF Owing, IsPlan

LEMMA RefreshIsPlan ==
    ASSUME NEW d \in Definitions
    PROVE  IsPlan(RefreshPlan(d))
  <1> DEFINE live == IF d.enabled THEN d.reqs ELSE {}
             sources == {q \in live : d.mode[q] \in AbsoluteModes}
             n == Cardinality(live)
             m == Cardinality(sources)
             a == [i \in DOMAIN InOrder(live) |-> Prepare(InOrder(live)[i], "refresh")]
             b == [i \in DOMAIN InOrder(sources) |-> Prepare(InOrder(sources)[i], "absolute")]
  <1>1. live \subseteq 1..NReqs /\ sources \subseteq live
    BY DefinitionAssumption DEF Reqs
  <1>2. NReqs \in Nat
    BY TitleBoundAssumption
  <1>3. IsFiniteSet(1..NReqs)
    BY <1>2, FS_Interval
  <1>4. IsFiniteSet(live) /\ IsFiniteSet(sources)
    <2> HIDE DEF live, sources
    <2>1. QED
      BY <1>1, <1>3, FS_Subset
  <1> HIDE DEF live, sources
  <1>5. n \in Nat /\ m \in Nat
    BY <1>4, FS_CardinalityType
  <1>6. DOMAIN InOrder(live) = 1..n /\ DOMAIN InOrder(sources) = 1..m
    BY DEF InOrder
  <1> HIDE DEF n, m
  <1> DEFINE S == {a[i] : i \in 1..n} \cup {b[i] : i \in 1..m}
  <1>7. DOMAIN a = 1..n /\ DOMAIN b = 1..m
    BY <1>6
  <1> HIDE DEF a, b
  <1>8. a \in Seq(S) /\ b \in Seq(S)
    <2>1. a = [i \in 1..n |-> a[i]] /\ b = [i \in 1..m |-> b[i]]
      BY <1>7 DEF a, b
    <2>2. \A i \in 1..n : a[i] \in S
      BY DEF S
    <2>3. \A i \in 1..m : b[i] \in S
      BY DEF S
    <2> HIDE DEF S
    <2>4. QED
      BY <1>5, <2>1, <2>2, <2>3
  <1> HIDE DEF S
  <1>9. a \o b \in Seq(S)
    BY <1>8
  <1>10. RefreshPlan(d) = a \o b
    BY DEF RefreshPlan, a, b, live, sources
  <1>11. QED
    BY <1>9, <1>10 DEF IsPlan

LEMMA CallReplaced ==
    ASSUME CallsShaped, NEW t \in Threads, NEW c, CallShape(c),
           call' = [call EXCEPT ![t] = c]
    PROVE  /\ CallsShaped'
           /\ call'[t] = c
           /\ \A s \in Threads \ {t} : call'[s] = call[s]
  <1>1. call = [x \in Threads |-> call[x]]
    BY DEF CallsShaped
  <1>2. DOMAIN call = Threads
    BY <1>1
  <1>3. call' = [x \in Threads |-> call'[x]]
    BY <1>1
  <1>4. call'[t] = c /\ \A s \in Threads \ {t} : call'[s] = call[s]
    BY <1>2
  <1>5. CallsShaped'
    BY <1>3, <1>4 DEF CallsShaped
  <1>6. QED
    BY <1>4, <1>5

LEMMA CallEntered ==
    ASSUME CallsShaped, NEW t \in Threads, NEW plan, IsPlan(plan),
           call' = [call EXCEPT ![t] = [Idle EXCEPT !.plan = plan]]
    PROVE  /\ CallsShaped'
           /\ call'[t].pc = "next" /\ call'[t].plan = plan
           /\ \A s \in Threads \ {t} : call'[s] = call[s]
  <1> DEFINE c == [Idle EXCEPT !.plan = plan]
  <1>1. c.plan = plan /\ c.pc = "next" /\ c.failed = FALSE
    BY DEF Idle
  <1>2. c = [plan |-> c.plan, pc |-> c.pc, change |-> c.change, earned |-> c.earned,
             todo |-> c.todo, reward |-> c.reward, failed |-> c.failed]
    <2>1. Idle = [plan |-> Idle.plan, pc |-> Idle.pc, change |-> Idle.change,
                  earned |-> Idle.earned, todo |-> Idle.todo, reward |-> Idle.reward,
                  failed |-> Idle.failed]
      BY DEF Idle
    <2>2. c = [Idle EXCEPT !.plan = plan]
      OBVIOUS
    <2> HIDE DEF c
    <2>3. QED
      BY <2>1, <2>2
  <1> HIDE DEF c
  <1>3. CallShape(c)
    BY <1>1, <1>2 DEF CallShape
  <1>4. call' = [call EXCEPT ![t] = c]
    BY DEF c
  <1>5. CallsShaped' /\ call'[t] = c /\ \A s \in Threads \ {t} : call'[s] = call[s]
    BY <1>3, <1>4, CallReplaced
  <1>6. QED
    BY <1>1, <1>5

\* The call after an operation: what it published is the title it left.
LEMMA CallAfterOutcome ==
    ASSUME CallsShaped, NEW t \in Threads, call[t].pc = "next",
           NEW before, NEW after, NEW changed, NEW plan, IsPlan(plan),
           Outcome(t, before, after, changed, plan)
    PROVE  /\ CallsShaped'
           /\ call'[t].pc \in {"next", "publish"} /\ call'[t].plan = plan
           /\ call'[t].pc = "publish" => /\ call'[t].change = after.overall
                                         /\ changed \/ after.overall # before.overall
           /\ \A s \in Threads \ {t} : call'[s] = call[s]
  <1> DEFINE c == call[t]
             e == [c EXCEPT !.plan = plan, !.pc = "publish", !.change = after.overall,
                            !.earned = after.completed]
             f == [c EXCEPT !.plan = plan]
             u == IF changed \/ after.overall # before.overall THEN e ELSE f
  <1>1. call' = [call EXCEPT ![t] = u]
    BY DEF Outcome, CallsShaped
  <1>2. c = [plan |-> c.plan, pc |-> c.pc, change |-> c.change, earned |-> c.earned,
             todo |-> c.todo, reward |-> c.reward, failed |-> c.failed]
        /\ c.failed \in BOOLEAN
    BY DEF CallsShaped, CallShape
  <1> HIDE DEF c
  <1>3. CallShape(e) /\ e.pc = "publish" /\ e.plan = plan /\ e.change = after.overall
    <2> DEFINE o == after.overall
               g == after.completed
    <2>0. e = [c EXCEPT !.plan = plan, !.pc = "publish", !.change = o, !.earned = g]
      OBVIOUS
    <2> HIDE DEF e
    <2>1. /\ e.pc = "publish" /\ e.plan = plan /\ e.change = after.overall
          /\ e.failed = c.failed
      BY <1>2, <2>0
    <2>2. e = [plan |-> e.plan, pc |-> e.pc, change |-> e.change, earned |-> e.earned,
               todo |-> e.todo, reward |-> e.reward, failed |-> e.failed]
      BY <1>2, <2>0
    <2>3. QED
      BY <1>2, <2>1, <2>2 DEF CallShape
  <1>4. CallShape(f) /\ f.pc = "next" /\ f.plan = plan
    <2>1. f.pc = "next" /\ f.plan = plan /\ f.failed = c.failed
      BY <1>2 DEF c
    <2>2. f = [plan |-> f.plan, pc |-> f.pc, change |-> f.change, earned |-> f.earned,
               todo |-> f.todo, reward |-> f.reward, failed |-> f.failed]
      BY <1>2
    <2> HIDE DEF f
    <2>3. QED
      BY <1>2, <2>1, <2>2 DEF CallShape
  <1> HIDE DEF e, f
  <1>5. CallShape(u)
    BY <1>3, <1>4
  <1>6. /\ u.pc \in {"next", "publish"} /\ u.plan = plan
        /\ u.pc = "publish" => u.change = after.overall
        /\ u.pc = "publish" => changed \/ after.overall # before.overall
    BY <1>3, <1>4
  <1> HIDE DEF u
  <1>7. CallsShaped' /\ call'[t] = u /\ \A s \in Threads \ {t} : call'[s] = call[s]
    BY <1>1, <1>5, CallReplaced
  <1>8. QED
    BY <1>6, <1>7

\* The calls after the steps of ProcessRewardsForTitle and of its callers.
OnlyCall(t) == CallsShaped' /\ \A s \in Threads \ {t} : call'[s] = call[s]

LEMMA CallAfterPublish ==
    ASSUME CallsShaped, NEW t \in Threads, Publish(t)
    PROVE  /\ OnlyCall(t) /\ call'[t].pc = "next"
           /\ Owing(call[t].plan) => Owing(call'[t].plan)
  <1> DEFINE c == call[t]
             plan == IF c.earned THEN <<Pay>> \o c.plan ELSE c.plan
             u == call'[t]
  <1>1. call' = [call EXCEPT ![t].pc = "next", ![t].earned = FALSE, ![t].change = 0,
                             ![t].plan = plan]
    BY DEF Publish
  <1>2. c = [plan |-> c.plan, pc |-> c.pc, change |-> c.change, earned |-> c.earned,
             todo |-> c.todo, reward |-> c.reward, failed |-> c.failed]
    BY DEF CallsShaped, CallShape
  <1>3. call = [x \in Threads |-> call[x]] /\ DOMAIN call = Threads
    <2>1. call = [x \in Threads |-> call[x]]
      BY DEF CallsShaped
    <2>2. QED
      BY <2>1
  <1>4. IsPlan(plan) /\ (Owing(c.plan) => Owing(plan))
    BY PlanWithHead DEF CallsShaped, CallShape
  <1> HIDE DEF plan
  <1>5. u.pc = "next" /\ u.plan = plan /\ u.failed = c.failed
    BY <1>1, <1>2, <1>3
  <1>6. u = [plan |-> u.plan, pc |-> u.pc, change |-> u.change, earned |-> u.earned,
             todo |-> u.todo, reward |-> u.reward, failed |-> u.failed]
    BY <1>1, <1>2, <1>3
  <1>7. call' = [x \in Threads |-> call'[x]]
    BY <1>1, <1>3
  <1>8. \A s \in Threads \ {t} : call'[s] = call[s]
    BY <1>1, <1>3
  <1>9. CallShape(u)
    BY <1>4, <1>5, <1>6 DEF CallsShaped, CallShape
  <1>10. CallsShaped'
    BY <1>7, <1>8, <1>9 DEF CallsShaped
  <1>11. QED
    BY <1>4, <1>5, <1>8, <1>10 DEF OnlyCall

\* A step that changes one field of the call, or the place where it stands.
LEMMA CallAfterTail ==
    ASSUME CallsShaped, NEW t \in Threads, call[t].plan # <<>>, call[t].pc = "next",
           call' = [call EXCEPT ![t].plan = Tail(@)]
    PROVE  /\ OnlyCall(t) /\ call'[t].pc = "next" /\ call'[t].plan = Tail(call[t].plan)
           /\ Owing(call[t].plan) /\ Head(call[t].plan).op # "synchronize"
                => Owing(call'[t].plan)
  <1> DEFINE c == call[t]
             u == [c EXCEPT !.plan = Tail(c.plan)]
  <1>1. c = [plan |-> c.plan, pc |-> c.pc, change |-> c.change, earned |-> c.earned,
             todo |-> c.todo, reward |-> c.reward, failed |-> c.failed]
        /\ IsPlan(c.plan) /\ c.failed \in BOOLEAN
    BY DEF CallsShaped, CallShape
  <1>2. call' = [call EXCEPT ![t] = u]
    OBVIOUS
  <1>3. IsPlan(Tail(c.plan)) /\ (Owing(c.plan) /\ Head(c.plan).op # "synchronize"
                                   => Owing(Tail(c.plan)))
    BY <1>1, PlanWithoutHead
  <1>u. u = [c EXCEPT !.plan = Tail(c.plan)]
    OBVIOUS
  <1> HIDE DEF u
  <1>4. u.pc = "next" /\ u.plan = Tail(c.plan) /\ u.failed = c.failed
    BY <1>1, <1>u
  <1>5. u = [plan |-> u.plan, pc |-> u.pc, change |-> u.change, earned |-> u.earned,
             todo |-> u.todo, reward |-> u.reward, failed |-> u.failed]
    BY <1>1, <1>u
  <1>6. CallShape(u)
    BY <1>1, <1>3, <1>4, <1>5 DEF CallShape
  <1>7. CallsShaped' /\ call'[t] = u /\ \A s \in Threads \ {t} : call'[s] = call[s]
    BY <1>2, <1>6, CallReplaced
  <1>8. QED
    BY <1>3, <1>4, <1>7 DEF OnlyCall

LEMMA CallAfterStartPay ==
    ASSUME CallsShaped, NEW t \in Threads, StartPay(t)
    PROVE  /\ OnlyCall(t) /\ call[t].pc = "next" /\ call'[t].pc \in {"next", "select", "check"}
           /\ call'[t].pc = "check" => title.chosen /\ call'[t].todo = title.selected
           /\ Owing(call[t].plan) => Owing(call'[t].plan)
  <1> DEFINE c == call[t]
             s == [c EXCEPT !.plan = Tail(c.plan)]
             e == [s EXCEPT !.pc = "check", !.todo = title.selected]
             f == [s EXCEPT !.pc = "select"]
             u == IF ~title.completed \/ title.rewarded THEN s
                  ELSE IF title.chosen THEN e ELSE f
  <1>1. /\ call' = [call EXCEPT ![t] = u]
        /\ c.pc = "next" /\ c.plan # <<>> /\ Head(c.plan).op # "synchronize"
    BY DEF StartPay, AtOp
  <1>2. c = [plan |-> c.plan, pc |-> c.pc, change |-> c.change, earned |-> c.earned,
             todo |-> c.todo, reward |-> c.reward, failed |-> c.failed]
        /\ IsPlan(c.plan) /\ c.failed \in BOOLEAN
    BY DEF CallsShaped, CallShape
  <1>3. IsPlan(Tail(c.plan)) /\ (Owing(c.plan) => Owing(Tail(c.plan)))
    BY <1>1, <1>2, PlanWithoutHead
  <1>s. s = [c EXCEPT !.plan = Tail(c.plan)]
    OBVIOUS
  <1> HIDE DEF s
  <1>4. s.pc = "next" /\ s.plan = Tail(c.plan) /\ s.failed = c.failed
    BY <1>1, <1>2, <1>s
  <1>5. s = [plan |-> s.plan, pc |-> s.pc, change |-> s.change, earned |-> s.earned,
             todo |-> s.todo, reward |-> s.reward, failed |-> s.failed]
    BY <1>2, <1>s
  <1>6. CallShape(s)
    BY <1>2, <1>3, <1>4, <1>5 DEF CallShape
  <1>7. CallShape(e) /\ e.pc = "check" /\ e.todo = title.selected /\ e.plan = s.plan
    <2>1. e = [s EXCEPT !.pc = "check", !.todo = title.selected]
      OBVIOUS
    <2> HIDE DEF e
    <2>2. e.pc = "check" /\ e.plan = s.plan /\ e.failed = s.failed /\ e.todo = title.selected
      BY <1>5, <2>1
    <2>3. e = [plan |-> e.plan, pc |-> e.pc, change |-> e.change, earned |-> e.earned,
               todo |-> e.todo, reward |-> e.reward, failed |-> e.failed]
      BY <1>5, <2>1
    <2>4. QED
      BY <1>6, <2>2, <2>3 DEF CallShape
  <1>8. CallShape(f) /\ f.pc = "select" /\ f.plan = s.plan
    <2>1. f = [s EXCEPT !.pc = "select"]
      OBVIOUS
    <2> HIDE DEF f
    <2>2. f.pc = "select" /\ f.plan = s.plan /\ f.failed = s.failed
      BY <1>5, <2>1
    <2>3. f = [plan |-> f.plan, pc |-> f.pc, change |-> f.change, earned |-> f.earned,
               todo |-> f.todo, reward |-> f.reward, failed |-> f.failed]
      BY <1>5, <2>1
    <2>4. QED
      BY <1>6, <2>2, <2>3 DEF CallShape
  <1> HIDE DEF e, f
  <1>9. /\ CallShape(u) /\ u.plan = Tail(c.plan) /\ u.pc \in {"next", "select", "check"}
        /\ u.pc = "check" => title.chosen /\ u.todo = title.selected
    BY <1>4, <1>6, <1>7, <1>8
  <1> HIDE DEF u
  <1>10. CallsShaped' /\ call'[t] = u /\ \A x \in Threads \ {t} : call'[x] = call[x]
    BY <1>1, <1>9, CallReplaced
  <1>11. QED
    BY <1>1, <1>3, <1>9, <1>10 DEF OnlyCall

LEMMA CallAfterGoto ==
    ASSUME CallsShaped, NEW t \in Threads, NEW pc,
           pc \in {"give", "mark"} => call[t].pc \in {"give", "mark"},
           Goto(t, pc)
    PROVE  /\ OnlyCall(t) /\ call'[t].pc = pc /\ call'[t].plan = call[t].plan
           /\ call'[t].todo = call[t].todo /\ call'[t].failed = call[t].failed
           /\ call'[t].reward = call[t].reward
  <1> DEFINE c == call[t]
             u == [c EXCEPT !.pc = pc]
  <1>1. call' = [call EXCEPT ![t] = u]
    BY DEF Goto
  <1>2. c = [plan |-> c.plan, pc |-> c.pc, change |-> c.change, earned |-> c.earned,
             todo |-> c.todo, reward |-> c.reward, failed |-> c.failed]
        /\ IsPlan(c.plan) /\ c.failed \in BOOLEAN
        /\ (c.pc \in {"give", "mark"} => c.reward = <<c.reward[1]>>)
    BY DEF CallsShaped, CallShape
  <1>3. /\ u.pc = pc /\ u.plan = c.plan /\ u.failed = c.failed
        /\ u.todo = c.todo /\ u.reward = c.reward
    BY <1>2
  <1>4. u = [plan |-> u.plan, pc |-> u.pc, change |-> u.change, earned |-> u.earned,
             todo |-> u.todo, reward |-> u.reward, failed |-> u.failed]
    BY <1>2
  <1> HIDE DEF u
  <1>5. CallShape(u)
    BY <1>2, <1>3, <1>4 DEF CallShape
  <1>6. CallsShaped' /\ call'[t] = u /\ \A s \in Threads \ {t} : call'[s] = call[s]
    BY <1>1, <1>5, CallReplaced
  <1>7. QED
    BY <1>3, <1>6 DEF OnlyCall

LEMMA CallAfterReread ==
    ASSUME CallsShaped, NEW t \in Threads, Reread(t)
    PROVE  /\ OnlyCall(t) /\ call'[t].pc = "check" /\ call'[t].plan = call[t].plan
           /\ call'[t].todo = title.selected
  <1> DEFINE c == call[t]
             u == call'[t]
  <1>1. call' = [call EXCEPT ![t].pc = "check", ![t].todo = title.selected]
    BY DEF Reread
  <1>2. c = [plan |-> c.plan, pc |-> c.pc, change |-> c.change, earned |-> c.earned,
             todo |-> c.todo, reward |-> c.reward, failed |-> c.failed]
    BY DEF CallsShaped, CallShape
  <1>3. call = [x \in Threads |-> call[x]] /\ DOMAIN call = Threads
    <2>1. call = [x \in Threads |-> call[x]]
      BY DEF CallsShaped
    <2>2. QED
      BY <2>1
  <1>4. u.pc = "check" /\ u.plan = c.plan /\ u.failed = c.failed /\ u.todo = title.selected
    BY <1>1, <1>2, <1>3
  <1>5. u = [plan |-> u.plan, pc |-> u.pc, change |-> u.change, earned |-> u.earned,
             todo |-> u.todo, reward |-> u.reward, failed |-> u.failed]
    BY <1>1, <1>2, <1>3
  <1>6. call' = [x \in Threads |-> call'[x]] /\ \A s \in Threads \ {t} : call'[s] = call[s]
    BY <1>1, <1>3
  <1>7. CallShape(u)
    BY <1>4, <1>5 DEF CallsShaped, CallShape
  <1>8. CallsShaped'
    BY <1>6, <1>7 DEF CallsShaped
  <1>9. QED
    BY <1>4, <1>6, <1>8 DEF OnlyCall

LEMMA PassedCall ==
    ASSUME CallsShaped, NEW t \in Threads, NEW r
    PROVE  LET u == Passed(t, r)
           IN /\ CallShape(u) /\ u.pc = "check" /\ u.plan = call[t].plan
              /\ u.todo = call[t].todo \ {r} /\ u.failed = call[t].failed
  <1> DEFINE c == call[t]
             u == Passed(t, r)
  <1>1. u = [c EXCEPT !.pc = "check", !.todo = c.todo \ {r}, !.reward = <<>>]
    BY DEF Passed
  <1>2. c = [plan |-> c.plan, pc |-> c.pc, change |-> c.change, earned |-> c.earned,
             todo |-> c.todo, reward |-> c.reward, failed |-> c.failed]
    BY DEF CallsShaped, CallShape
  <1> HIDE DEF u
  <1>3. u.pc = "check" /\ u.plan = c.plan /\ u.failed = c.failed /\ u.todo = c.todo \ {r}
    BY <1>1, <1>2
  <1>4. u = [plan |-> u.plan, pc |-> u.pc, change |-> u.change, earned |-> u.earned,
             todo |-> u.todo, reward |-> u.reward, failed |-> u.failed]
    BY <1>1, <1>2
  <1>5. CallShape(u)
    BY <1>3, <1>4 DEF CallsShaped, CallShape
  <1>6. QED
    BY <1>3, <1>5 DEF u

\* CheckDelivered goes on without the reward or picks it.
LEMMA CallAfterCheck ==
    ASSUME CallsShaped, NEW t \in Threads, CheckDelivered(t)
    PROVE  \E r :
             /\ OnlyCall(t) /\ call'[t].plan = call[t].plan
             /\ call'[t].failed = call[t].failed
             /\ \/ /\ r \in title.delivered
                   /\ call'[t].pc = "check" /\ call'[t].todo = call[t].todo \ {r}
                \/ /\ r \notin title.delivered
                   /\ call'[t].pc = "give" /\ call'[t].todo = call[t].todo
                   /\ call'[t].reward = <<r>>
  <1> DEFINE c == call[t]
  <1>1. PICK r \in c.todo :
           call' = [call EXCEPT ![t] = IF r \in title.delivered THEN Passed(t, r)
                                       ELSE [c EXCEPT !.pc = "give", !.reward = <<r>>]]
    BY DEF CheckDelivered, CallsShaped
  <1> DEFINE u == Passed(t, r)
             e == [c EXCEPT !.pc = "give", !.reward = <<r>>]
             v == IF r \in title.delivered THEN u ELSE e
  <1>2. /\ CallShape(u) /\ u.pc = "check" /\ u.plan = c.plan
        /\ u.todo = c.todo \ {r} /\ u.failed = c.failed
    BY PassedCall
  <1>3. /\ CallShape(e) /\ e.pc = "give" /\ e.plan = c.plan
        /\ e.todo = c.todo /\ e.failed = c.failed /\ e.reward = <<r>>
    <2>1. e = [c EXCEPT !.pc = "give", !.reward = <<r>>]
      OBVIOUS
    <2>2. c = [plan |-> c.plan, pc |-> c.pc, change |-> c.change, earned |-> c.earned,
               todo |-> c.todo, reward |-> c.reward, failed |-> c.failed]
      BY DEF CallsShaped, CallShape
    <2> HIDE DEF e
    <2>3. /\ e.pc = "give" /\ e.plan = c.plan
          /\ e.todo = c.todo /\ e.failed = c.failed /\ e.reward = <<r>>
      BY <2>1, <2>2
    <2>4. e = [plan |-> e.plan, pc |-> e.pc, change |-> e.change, earned |-> e.earned,
               todo |-> e.todo, reward |-> e.reward, failed |-> e.failed]
      BY <2>1, <2>2
    <2>5. <<r>>[1] = r
      OBVIOUS
    <2>6. QED
      BY <2>3, <2>4, <2>5 DEF CallsShaped, CallShape
  <1>4. call' = [call EXCEPT ![t] = v]
    BY <1>1
  <1> HIDE DEF u, e
  <1>5. CallShape(v)
    BY <1>2, <1>3
  <1>6. CallsShaped' /\ call'[t] = v /\ \A s \in Threads \ {t} : call'[s] = call[s]
    <2> HIDE DEF v
    <2>1. QED
      BY <1>4, <1>5, CallReplaced
  <1>7. /\ OnlyCall(t) /\ call'[t].plan = c.plan /\ call'[t].failed = c.failed
        /\ \/ r \in title.delivered /\ call'[t].pc = "check" /\ call'[t].todo = c.todo \ {r}
           \/ /\ r \notin title.delivered /\ call'[t].pc = "give" /\ call'[t].todo = c.todo
              /\ call'[t].reward = <<r>>
    BY <1>2, <1>3, <1>6 DEF OnlyCall
  <1>8. QED
    BY <1>7

\* FailReward and MarkDelivered go on with the next reward.
LEMMA CallAfterReward ==
    ASSUME CallsShaped, NEW t \in Threads, FailReward(t) \/ MarkDelivered(t)
    PROVE  /\ OnlyCall(t) /\ call'[t].pc = "check" /\ call'[t].plan = call[t].plan
           /\ call'[t].todo = call[t].todo \ {call[t].reward[1]}
           /\ FailReward(t) => call'[t].failed = TRUE
           /\ ~FailReward(t) => call'[t].failed = call[t].failed
  <1> DEFINE c == call[t]
             r == c.reward[1]
             u == Passed(t, r)
             e == [u EXCEPT !.failed = TRUE]
  <1>1. /\ CallShape(u) /\ u.pc = "check" /\ u.plan = c.plan
        /\ u.todo = c.todo \ {r} /\ u.failed = c.failed
    BY PassedCall
  <1>2. c.pc = "give" => FailReward(t) /\ call' = [call EXCEPT ![t] = e]
    BY DEF FailReward, MarkDelivered, At
  <1>3. c.pc # "give" => ~FailReward(t) /\ call' = [call EXCEPT ![t] = u]
    BY DEF FailReward, MarkDelivered, At
  <1> HIDE DEF u
  <1>4. /\ CallShape(e) /\ e.pc = "check" /\ e.plan = c.plan
        /\ e.todo = c.todo \ {r} /\ e.failed = TRUE
    <2>1. e = [u EXCEPT !.failed = TRUE]
      OBVIOUS
    <2>2. u = [plan |-> u.plan, pc |-> u.pc, change |-> u.change, earned |-> u.earned,
               todo |-> u.todo, reward |-> u.reward, failed |-> u.failed]
      BY <1>1 DEF CallShape
    <2> HIDE DEF e
    <2>3. e.pc = u.pc /\ e.plan = u.plan /\ e.todo = u.todo /\ e.failed = TRUE
      BY <2>1, <2>2
    <2>4. e = [plan |-> e.plan, pc |-> e.pc, change |-> e.change, earned |-> e.earned,
               todo |-> e.todo, reward |-> e.reward, failed |-> e.failed]
      BY <2>1, <2>2
    <2>5. QED
      BY <1>1, <2>3, <2>4 DEF CallShape
  <1> HIDE DEF e
  <1>5. CASE c.pc = "give"
    <2>1. CallsShaped' /\ call'[t] = e /\ \A s \in Threads \ {t} : call'[s] = call[s]
      BY <1>2, <1>4, <1>5, CallReplaced
    <2>2. QED
      BY <1>2, <1>4, <1>5, <2>1 DEF OnlyCall
  <1>6. CASE c.pc # "give"
    <2>1. CallsShaped' /\ call'[t] = u /\ \A s \in Threads \ {t} : call'[s] = call[s]
      BY <1>1, <1>3, <1>6, CallReplaced
    <2>2. QED
      BY <1>1, <1>3, <1>6, <2>1 DEF OnlyCall
  <1>7. QED
    BY <1>5, <1>6

LEMMA CallAfterClose ==
    ASSUME CallsShaped, NEW t \in Threads, ClosePay(t)
    PROVE  OnlyCall(t) /\ call'[t].pc = "next" /\ call'[t].plan = call[t].plan
  <1> DEFINE c == call[t]
             u == call'[t]
  <1>1. call' = [call EXCEPT ![t].pc = "next", ![t].failed = FALSE]
    BY DEF ClosePay
  <1>2. c = [plan |-> c.plan, pc |-> c.pc, change |-> c.change, earned |-> c.earned,
             todo |-> c.todo, reward |-> c.reward, failed |-> c.failed]
    BY DEF CallsShaped, CallShape
  <1>3. call = [x \in Threads |-> call[x]] /\ DOMAIN call = Threads
    <2>1. call = [x \in Threads |-> call[x]]
      BY DEF CallsShaped
    <2>2. QED
      BY <2>1
  <1>4. u.pc = "next" /\ u.plan = c.plan /\ u.failed = FALSE
    BY <1>1, <1>2, <1>3
  <1>5. u = [plan |-> u.plan, pc |-> u.pc, change |-> u.change, earned |-> u.earned,
             todo |-> u.todo, reward |-> u.reward, failed |-> u.failed]
    BY <1>1, <1>2, <1>3
  <1>6. call' = [x \in Threads |-> call'[x]] /\ \A s \in Threads \ {t} : call'[s] = call[s]
    BY <1>1, <1>3
  <1>7. CallShape(u)
    BY <1>4, <1>5 DEF CallsShaped, CallShape
  <1>8. CallsShaped'
    BY <1>6, <1>7 DEF CallsShaped
  <1>9. QED
    BY <1>4, <1>6, <1>8 DEF OnlyCall

\* A saved record of the title, and every variable, have their shape.
SavedShape(r) ==
    TitleShape(r.title) /\ r.given \in [Threads -> [Rewards -> Nat]] /\ r.disturbed \in BOOLEAN

ShapesWell ==
    /\ def \in Definitions /\ TitleShape(title) /\ CallsShaped
    /\ unsaved \in BOOLEAN /\ disturbed \in BOOLEAN /\ given \in [Threads -> [Rewards -> Nat]]
    /\ cosave # <<>> => SavedShape(cosave[1])

\* A closed title was paid; a payment under way was chosen, and unless something
\* failed it has yet to try all that is not delivered.
ClosedWell(t) == t.rewarded => t.chosen /\ t.selected \subseteq t.delivered

PaysWell(t) ==
    /\ call[t].pc \in {"reread", "check", "give", "mark"} => title.chosen
    /\ call[t].pc \in {"check", "give", "mark"} /\ ~call[t].failed =>
           title.selected \subseteq title.delivered \cup call[t].todo

DeliveryWell ==
    /\ ~disturbed => ClosedWell(title) /\ \A t \in Threads : PaysWell(t)
    /\ cosave # <<>> /\ ~cosave[1].disturbed => ClosedWell(cosave[1].title)

\* Thread t is about to give reward r, or about to mark it.
AboutTo(t, r, pc) == call[t].pc = pc /\ call[t].reward = <<r>>

\* A reward that thread t gave is marked or about to be marked by t; so t gave
\* nothing of what it is about to give.
GivenTo(t, r) ==
    /\ given[t][r] <= 1
    /\ given[t][r] = 1 => r \in title.delivered \/ AboutTo(t, r, "mark")
    /\ AboutTo(t, r, "give") => given[t][r] = 0

GivenInSave(t, r) ==
    /\ cosave[1].given[t][r] <= 1
    /\ cosave[1].given[t][r] = 1 => r \in cosave[1].title.delivered

GivenWell ==
    /\ \A t \in Threads, r \in Rewards : GivenTo(t, r)
    /\ cosave # <<>> => \A t \in Threads, r \in Rewards : GivenInSave(t, r)

\* Unless an edit is not saved, what a title has still to earn was made under
\* the present definition.
DefinedWell == ~unsaved /\ ~title.completed => MadeUnder(title, def)

\* What is or will be published as 1.0 is earned, or a synchronization follows.
PublishedWell ==
    /\ Capped(title)
    /\ ~disturbed =>
          /\ \A t \in Threads : call[t].pc = "publish" /\ call[t].change = 1000
                                    => title.completed
          /\ public = 1000 => title.completed \/ Owing(call[Main].plan)

TitleInv == ShapesWell /\ DeliveryWell /\ GivenWell /\ DefinedWell /\ PublishedWell

LEMMA MainIsThread == Main \in Threads
  BY TitleThreadAssumption

LEMMA SameGiven ==
    ASSUME GivenWell, NEW t \in Threads, \A s \in Threads \ {t} : call'[s] = call[s],
           call[t].pc \notin {"give", "mark"}, call'[t].pc \notin {"give", "mark"},
           title'.delivered = title.delivered, UNCHANGED <<given, cosave>>
    PROVE  GivenWell'
  <1>1. ASSUME NEW s \in Threads, NEW r \in Rewards PROVE GivenTo(s, r)'
    BY DEF GivenWell, GivenTo, AboutTo
  <1>2. cosave' # <<>> => \A s \in Threads, r \in Rewards : GivenInSave(s, r)'
    BY DEF GivenWell, GivenInSave
  <1>3. QED
    BY <1>1, <1>2 DEF GivenWell

\* How often a thread gave a reward is a number, of which GivenTo holds.
LEMMA GivenTypes ==
    TitleInv => \A t \in Threads, r \in Rewards : given[t][r] \in Nat /\ GivenTo(t, r)
  BY DEF TitleInv, ShapesWell, GivenWell

LEMMA PrepareKeeps ==
    ASSUME TitleInv, NEW t \in Threads, DoPrepare(t) \/ DoApply(t)
    PROVE  /\ ShapesWell' /\ SameRewards(title, title')
           /\ title.completed => title'.completed
           /\ Capped(title') /\ DefinedWell'
           /\ ~unsaved /\ ~title.completed => MadeUnder(title', def)
           /\ call[t].pc = "next" /\ call'[t].pc \in {"next", "publish"}
           /\ call'[t].pc = "publish" => call'[t].change = title'.overall
           /\ \A s \in Threads \ {t} : call'[s] = call[s]
           /\ Owing(call[t].plan) => Owing(call'[t].plan)
           /\ UNCHANGED <<definitionVars, public, cosave, historyVars>>
  <1> DEFINE o == Head(call[t].plan)
             q == o.q
             rest == Tail(call[t].plan)
             p == Current(title, def, q)
  <1>1. /\ TitleShape(title) /\ def \in Definitions /\ CallsShaped /\ Capped(title)
        /\ IsPlan(call[t].plan)
    BY DEF TitleInv, ShapesWell, CallsShaped, CallShape, PublishedWell
  <1>2. /\ call[t].pc = "next" /\ call[t].plan # <<>> /\ o.op # "synchronize"
        /\ UNCHANGED <<definitionVars, public, cosave, historyVars>>
    BY DEF DoPrepare, DoApply, AtOp
  <1>3. IsPlan(rest) /\ (Owing(call[t].plan) => Owing(rest))
    BY <1>1, <1>2, PlanWithoutHead
  <1>4. q \in Reqs => ReqShape(p) /\ (~title.completed => p.print = def.print[q])
    BY <1>1, CurrentReq
  <1> HIDE DEF p, q, rest
  \* The title is left alone, loses what was made under another definition, or
  \* takes over progress that was made under the present one.
  <1>5. \E plan, changed, n :
           /\ IsPlan(plan) /\ (Owing(call[t].plan) => Owing(plan))
           /\ Outcome(t, title, title', changed, plan)
           /\ \/ title' = title /\ changed = FALSE
              \/ /\ ~title.completed /\ (q \in Reqs => ReqShape(n) /\ n.print = p.print)
                 /\ \/ title' = Revised(title, def, q, n)
                    \/ title' = [title EXCEPT !.req[q] = n]
    <2>1. CASE DoPrepare(t)
      <3>1. PICK met :
               LET goesOn == o.cause # "refresh" /\ (met \/ def.required[q])
                   plan == IF goesOn THEN <<Apply(q, o.cause)>> \o rest ELSE rest
               IN IF title.completed
                  THEN Outcome(t, title, title, FALSE, plan) /\ UNCHANGED title
                  ELSE /\ title' = Revised(title, def, q, [p EXCEPT !.met = met])
                       /\ Outcome(t, title, title', p.met # met, plan)
        BY <2>1 DEF DoPrepare, p, q, rest
      <3> DEFINE goesOn == o.cause # "refresh" /\ (met \/ def.required[q])
                 plan == IF goesOn THEN <<Apply(q, o.cause)>> \o rest ELSE rest
                 n == [p EXCEPT !.met = met]
      <3>2. IsPlan(plan) /\ (Owing(call[t].plan) => Owing(plan))
        BY <1>3, PlanWithHead
      <3> HIDE DEF plan
      <3>3. q \in Reqs => ReqShape(n) /\ n.print = p.print
        <4>1. n = [p EXCEPT !.met = met]
          OBVIOUS
        <4> HIDE DEF n
        <4>2. QED
          BY <1>4, <4>1 DEF ReqShape
      <3>4. IF title.completed
            THEN Outcome(t, title, title, FALSE, plan) /\ title' = title
            ELSE title' = Revised(title, def, q, n) /\ Outcome(t, title, title', p.met # met, plan)
        BY <3>1 DEF plan
      <3> HIDE DEF n
      <3>5. CASE title.completed
        BY <3>2, <3>4, <3>5
      <3>6. CASE ~title.completed
        BY <3>2, <3>3, <3>4, <3>6
      <3>7. QED
        BY <3>5, <3>6
    <2>2. CASE DoApply(t)
      <3> DEFINE mode == def.mode[q]
                 Next_(amount) == IF o.cause = "event" THEN Credited(p, mode, amount, amount)
                                  ELSE Measured(p, mode, amount)
                 applies == mode \in IF o.cause = "event" THEN EventModes ELSE AbsoluteModes
      <3>1. PICK amount :
               CASE title.completed \/ ~applies ->
                      Outcome(t, title, title, FALSE, rest) /\ UNCHANGED title
                 [] ~title.completed /\ applies /\ mode = "unique" /\ amount \in p.keys ->
                      /\ title' = [title EXCEPT !.req[q] = p]
                      /\ Outcome(t, title, title', FALSE, rest)
                 [] OTHER ->
                      /\ title' = Revised(title, def, q, Next_(amount))
                      /\ Outcome(t, title, title', Next_(amount).value # p.value, rest)
        BY <2>2 DEF DoApply, p, q, rest
      <3> DEFINE n == Next_(amount)
      <3>2. q \in Reqs => ReqShape(n) /\ n.print = p.print
        BY <1>4, ProgressedReq
      <3>3. CASE title.completed \/ ~applies
        <4>1. Outcome(t, title, title, FALSE, rest) /\ title' = title
          BY <3>1, <3>3
        <4>2. QED
          BY <1>3, <4>1
      <3>4. CASE ~title.completed /\ applies /\ mode = "unique" /\ amount \in p.keys
        <4>1. title' = [title EXCEPT !.req[q] = p] /\ Outcome(t, title, title', FALSE, rest)
          BY <3>1, <3>4
        <4>2. QED
          BY <1>3, <1>4, <3>4, <4>1
      <3>5. CASE /\ ~title.completed /\ applies
                 /\ ~(mode = "unique" /\ amount \in p.keys)
        <4>1. /\ title' = Revised(title, def, q, n)
              /\ Outcome(t, title, title', n.value # p.value, rest)
          BY <3>1, <3>5
        <4> HIDE DEF n
        <4>2. QED
          BY <1>3, <3>2, <3>5, <4>1
      <3>6. QED
        BY <3>3, <3>4, <3>5
    <2>3. QED
      BY <2>1, <2>2
  <1>6. PICK plan, changed, n :
           /\ IsPlan(plan) /\ (Owing(call[t].plan) => Owing(plan))
           /\ Outcome(t, title, title', changed, plan)
           /\ \/ title' = title /\ changed = FALSE
              \/ /\ ~title.completed /\ (q \in Reqs => ReqShape(n) /\ n.print = p.print)
                 /\ \/ title' = Revised(title, def, q, n)
                    \/ title' = [title EXCEPT !.req[q] = n]
    BY <1>5
  <1>7. /\ CallsShaped'
        /\ call'[t].pc \in {"next", "publish"} /\ call'[t].plan = plan
        /\ call'[t].pc = "publish" => call'[t].change = title'.overall
        /\ \A s \in Threads \ {t} : call'[s] = call[s]
    BY <1>1, <1>2, <1>6, CallAfterOutcome
  <1>8. /\ TitleShape(title') /\ SameRewards(title, title')
        /\ title.completed => title'.completed
        /\ Capped(title') /\ DefinedWell'
        /\ ~unsaved /\ ~title.completed => MadeUnder(title', def)
    <2>1. CASE title' = title /\ changed = FALSE
      <3>1. DefinedWell'
        BY <1>2, <2>1 DEF TitleInv, DefinedWell, MadeUnder, definitionVars
      <3>2. ~unsaved /\ ~title.completed => MadeUnder(title', def)
        BY <2>1 DEF TitleInv, DefinedWell
      <3>3. QED
        BY <1>1, <2>1, <3>1, <3>2 DEF SameRewards
    <2>2. CASE /\ ~title.completed /\ (q \in Reqs => ReqShape(n) /\ n.print = p.print)
               /\ \/ title' = Revised(title, def, q, n)
                  \/ title' = [title EXCEPT !.req[q] = n]
      <3>1. /\ TitleShape(title') /\ SameRewards(title, title')
            /\ title'.req = [title.req EXCEPT ![q] = n] /\ Capped(title')
        <4>1. CASE title' = Revised(title, def, q, n)
          BY <1>1, <2>2, <4>1, RevisedTitle
        <4>2. CASE title' = [title EXCEPT !.req[q] = n]
          <5>1. /\ TitleShape(title') /\ SameRewards(title, title')
                /\ title'.completed = title.completed
                /\ title'.req = [title.req EXCEPT ![q] = n]
                /\ title'.overall = title.overall
            BY <1>1, <2>2, <4>2, StoredReq
          <5>2. QED
            BY <1>1, <5>1 DEF Capped
        <4>3. QED
          BY <2>2, <4>1, <4>2
      <3>2. ASSUME ~unsaved' PROVE MadeUnder(title', def')
        <4>1. MadeUnder(title, def) /\ def' = def
          BY <1>2, <2>2, <3>2 DEF TitleInv, DefinedWell, definitionVars
        <4>2. def.reqs \subseteq Reqs
          BY <1>1, DefinitionAssumption
        <4>3. title.req = [x \in Reqs |-> title.req[x]]
          BY <1>1 DEF TitleShape
        <4>4. ASSUME NEW x \in def.reqs PROVE title'.req[x].print = def.print[x]
          <5>1. CASE x = q
            BY <1>4, <2>2, <3>1, <4>2, <4>3, <5>1
          <5>2. CASE x # q
            BY <3>1, <4>1, <4>2, <4>3, <5>2 DEF MadeUnder
          <5>3. QED
            BY <5>1, <5>2
        <4>5. QED
          BY <4>1, <4>4 DEF MadeUnder
      <3>3. def' = def /\ unsaved' = unsaved
        BY <1>2 DEF definitionVars
      <3>4. QED
        BY <2>2, <3>1, <3>2, <3>3 DEF DefinedWell
    <2>3. QED
      BY <1>6, <2>1, <2>2
  <1>9. ShapesWell'
    BY <1>1, <1>2, <1>7, <1>8 DEF TitleInv, ShapesWell, definitionVars, historyVars, SavedShape
  <1>10. QED
    BY <1>2, <1>6, <1>7, <1>8, <1>9

\* The conjuncts after a step that neither pays nor changes what is delivered.
LEMMA PrepareStep ==
    ASSUME TitleInv, NEW t \in Threads, DoPrepare(t) \/ DoApply(t)
    PROVE  TitleInv'
  <1>1. /\ ShapesWell' /\ SameRewards(title, title')
        /\ title.completed => title'.completed
        /\ Capped(title') /\ DefinedWell'
        /\ call[t].pc = "next" /\ call'[t].pc \in {"next", "publish"}
        /\ call'[t].pc = "publish" => call'[t].change = title'.overall
        /\ \A s \in Threads \ {t} : call'[s] = call[s]
        /\ Owing(call[t].plan) => Owing(call'[t].plan)
        /\ UNCHANGED <<definitionVars, public, cosave, historyVars>>
    BY PrepareKeeps
  <1>2. disturbed' = disturbed /\ cosave' = cosave /\ public' = public /\ given' = given
    BY <1>1 DEF historyVars
  <1>3. DeliveryWell'
    BY <1>1, <1>2 DEF TitleInv, DeliveryWell, ClosedWell, PaysWell, SameRewards
  <1>4. GivenWell'
    BY <1>1, <1>2, SameGiven DEF TitleInv, SameRewards
  <1>5. PublishedWell'
    <2>1. ASSUME ~disturbed', NEW s \in Threads, call'[s].pc = "publish", call'[s].change = 1000
          PROVE  title'.completed
      BY <1>1, <1>2, <2>1 DEF TitleInv, PublishedWell, Capped
    <2>2. ASSUME ~disturbed', public' = 1000
          PROVE  title'.completed \/ Owing(call'[Main].plan)
      BY <1>1, <1>2, <2>2, MainIsThread DEF TitleInv, PublishedWell
    <2>3. QED
      BY <1>1, <2>1, <2>2 DEF PublishedWell
  <1>6. QED
    BY <1>1, <1>3, <1>4, <1>5 DEF TitleInv

LEMMA PublishStep ==
    ASSUME TitleInv, NEW t \in Threads, Publish(t)
    PROVE  TitleInv'
  <1>1. CallsShaped /\ Main \in Threads
    BY MainIsThread DEF TitleInv, ShapesWell
  <1>2. /\ OnlyCall(t) /\ call'[t].pc = "next"
        /\ Owing(call[t].plan) => Owing(call'[t].plan)
    BY <1>1, CallAfterPublish
  <1>3. /\ call[t].pc = "publish" /\ public' = call[t].change
        /\ UNCHANGED <<def, unsaved, title, cosave, given, disturbed>>
    BY DEF Publish, definitionVars, historyVars
  <1>4. ShapesWell'
    BY <1>2, <1>3 DEF TitleInv, ShapesWell, OnlyCall
  <1>5. DeliveryWell'
    BY <1>2, <1>3 DEF TitleInv, DeliveryWell, PaysWell, OnlyCall
  <1>6. GivenWell'
    BY <1>2, <1>3, SameGiven DEF TitleInv, OnlyCall
  <1>7. DefinedWell'
    BY <1>3 DEF TitleInv, DefinedWell
  <1>8. PublishedWell'
    BY <1>1, <1>2, <1>3 DEF TitleInv, PublishedWell, OnlyCall
  <1>9. QED
    BY <1>4, <1>5, <1>6, <1>7, <1>8 DEF TitleInv

LEMMA SynchronizeStep ==
    ASSUME TitleInv, NEW t \in Threads, DoSynchronize(t)
    PROVE  TitleInv'
  <1>1. CallsShaped
    BY DEF TitleInv, ShapesWell
  <1>2. /\ call[t].pc = "next" /\ call[t].plan # <<>>
        /\ public' = title.overall \/ public' = 0
        /\ call' = [call EXCEPT ![t].plan = Tail(@)]
        /\ UNCHANGED <<def, unsaved, title, cosave, given, disturbed>>
    BY DEF DoSynchronize, AtOp, definitionVars, historyVars
  <1>3. OnlyCall(t) /\ call'[t].pc = "next"
    BY <1>1, <1>2, CallAfterTail
  <1>4. ShapesWell'
    BY <1>2, <1>3 DEF TitleInv, ShapesWell, OnlyCall
  <1>5. DeliveryWell'
    BY <1>2, <1>3 DEF TitleInv, DeliveryWell, PaysWell, OnlyCall
  <1>6. GivenWell'
    BY <1>2, <1>3, SameGiven DEF TitleInv, OnlyCall
  <1>7. DefinedWell'
    BY <1>2 DEF TitleInv, DefinedWell
  <1>8. PublishedWell'
    BY <1>2, <1>3 DEF TitleInv, PublishedWell, OnlyCall, Capped
  <1>9. QED
    BY <1>4, <1>5, <1>6, <1>7, <1>8 DEF TitleInv

LEMMA StartPayStep ==
    ASSUME TitleInv, NEW t \in Threads, StartPay(t)
    PROVE  TitleInv'
  <1>1. CallsShaped /\ Main \in Threads
    BY MainIsThread DEF TitleInv, ShapesWell
  <1>2. /\ OnlyCall(t) /\ call[t].pc = "next" /\ call'[t].pc \in {"next", "select", "check"}
        /\ call'[t].pc = "check" => title.chosen /\ call'[t].todo = title.selected
        /\ Owing(call[t].plan) => Owing(call'[t].plan)
    BY <1>1, CallAfterStartPay
  <1>3. UNCHANGED <<def, unsaved, title, public, cosave, given, disturbed>>
    BY DEF StartPay, definitionVars, historyVars
  <1>4. ShapesWell'
    BY <1>2, <1>3 DEF TitleInv, ShapesWell, OnlyCall
  <1>5. DeliveryWell'
    BY <1>2, <1>3 DEF TitleInv, DeliveryWell, PaysWell, OnlyCall
  <1>6. GivenWell'
    BY <1>2, <1>3, SameGiven DEF TitleInv, OnlyCall
  <1>7. DefinedWell'
    BY <1>3 DEF TitleInv, DefinedWell
  <1>8. PublishedWell'
    BY <1>1, <1>2, <1>3 DEF TitleInv, PublishedWell, OnlyCall
  <1>9. QED
    BY <1>4, <1>5, <1>6, <1>7, <1>8 DEF TitleInv

\* What the steps of the payment leave alone once a title is there to be paid.
LEMMA PaymentPublishes ==
    ASSUME TitleInv, NEW t \in Threads, \A s \in Threads \ {t} : call'[s] = call[s],
           call'[t].plan = call[t].plan, call'[t].pc # "publish",
           title'.completed = title.completed, title'.overall = title.overall,
           UNCHANGED <<public, disturbed>>
    PROVE  PublishedWell'
  BY MainIsThread DEF TitleInv, PublishedWell, Capped

LEMMA PaymentDefines ==
    ASSUME TitleInv, title'.completed = title.completed, title'.req = title.req,
           UNCHANGED <<def, unsaved>>
    PROVE  DefinedWell'
  BY DEF TitleInv, DefinedWell, MadeUnder

LEMMA RewardedTitle ==
    ASSUME NEW t, TitleShape(t), NEW w, NEW c, NEW s, NEW d
    PROVE  LET u == [completed |-> t.completed, rewarded |-> w, chosen |-> c,
                     selected |-> s, delivered |-> d, overall |-> t.overall, req |-> t.req]
           IN TitleShape(u)
  BY DEF TitleShape

LEMMA SelectStep ==
    ASSUME TitleInv, NEW t \in Threads, SelectRewards(t)
    PROVE  TitleInv'
  <1>1. CallsShaped /\ TitleShape(title)
    BY DEF TitleInv, ShapesWell
  <1>2. PICK rewards \in SUBSET def.rewards : title' = Chosen(title, rewards)
    BY DEF SelectRewards
  <1>3. /\ call[t].pc = "select" /\ Goto(t, "reread")
        /\ UNCHANGED <<def, unsaved, public, cosave, given, disturbed>>
    BY DEF SelectRewards, At, definitionVars, historyVars
  <1>4. /\ OnlyCall(t) /\ call'[t].pc = "reread" /\ call'[t].plan = call[t].plan
    BY <1>1, <1>3, CallAfterGoto
  <1>5. /\ TitleShape(title') /\ title'.chosen /\ (title.chosen => title' = title)
        /\ title'.completed = title.completed /\ title'.overall = title.overall
        /\ title'.req = title.req /\ title'.delivered = title.delivered
        /\ title'.rewarded = title.rewarded
    <2>1. CASE title.chosen
      <3>1. title' = title
        BY <1>2, <2>1 DEF Chosen
      <3>2. QED
        BY <1>1, <2>1, <3>1
    <2>2. CASE ~title.chosen
      <3> DEFINE u == title'
      <3>1. u = [title EXCEPT !.chosen = TRUE, !.selected = rewards]
        BY <1>2, <2>2 DEF Chosen
      <3>2. title = [completed |-> title.completed, rewarded |-> title.rewarded,
                     chosen |-> title.chosen, selected |-> title.selected,
                     delivered |-> title.delivered, overall |-> title.overall,
                     req |-> title.req]
        BY <1>1 DEF TitleShape
      <3>3. u = [completed |-> u.completed, rewarded |-> u.rewarded, chosen |-> u.chosen,
                 selected |-> u.selected, delivered |-> u.delivered, overall |-> u.overall,
                 req |-> u.req]
        BY <3>1, <3>2
      <3>4. /\ u.chosen /\ u.completed = title.completed /\ u.overall = title.overall
            /\ u.req = title.req /\ u.delivered = title.delivered
            /\ u.rewarded = title.rewarded
        BY <3>1, <3>2
      <3> HIDE DEF u
      <3>5. TitleShape(u)
        BY <1>1, <3>3, <3>4 DEF TitleShape
      <3>6. QED
        BY <2>2, <3>4, <3>5 DEF u
    <2>3. QED
      BY <2>1, <2>2
  <1>6. ShapesWell'
    BY <1>3, <1>4, <1>5 DEF TitleInv, ShapesWell, OnlyCall
  <1>7. DeliveryWell'
    <2>1. ASSUME ~disturbed PROVE ClosedWell(title) /\ \A s \in Threads : PaysWell(s)
      BY <2>1 DEF TitleInv, DeliveryWell
    <2>2. CASE title.chosen
      BY <1>3, <1>4, <1>5, <2>2 DEF TitleInv, DeliveryWell, PaysWell, OnlyCall
    <2>3. CASE ~title.chosen
      <3>1. ASSUME ~disturbed PROVE ClosedWell(title') /\ \A s \in Threads : PaysWell(s)'
        BY <1>3, <1>4, <1>5, <2>1, <2>3, <3>1 DEF ClosedWell, PaysWell, OnlyCall
      <3>2. QED
        BY <1>3, <3>1 DEF TitleInv, DeliveryWell
    <2>4. QED
      BY <2>2, <2>3
  <1>8. GivenWell'
    BY <1>3, <1>4, <1>5, SameGiven DEF TitleInv, OnlyCall
  <1>9. DefinedWell' /\ PublishedWell'
    BY <1>3, <1>4, <1>5, PaymentDefines, PaymentPublishes DEF OnlyCall
  <1>10. QED
    BY <1>6, <1>7, <1>8, <1>9 DEF TitleInv

LEMMA RereadStep ==
    ASSUME TitleInv, NEW t \in Threads, Reread(t)
    PROVE  TitleInv'
  <1>1. CallsShaped
    BY DEF TitleInv, ShapesWell
  <1>2. /\ OnlyCall(t) /\ call'[t].pc = "check" /\ call'[t].plan = call[t].plan
        /\ call'[t].todo = title.selected
    BY <1>1, CallAfterReread
  <1>3. /\ call[t].pc = "reread"
        /\ UNCHANGED <<def, unsaved, title, public, cosave, given, disturbed>>
    BY DEF Reread, At, definitionVars, historyVars
  <1>4. ShapesWell'
    BY <1>2, <1>3 DEF TitleInv, ShapesWell, OnlyCall
  <1>5. DeliveryWell'
    BY <1>2, <1>3 DEF TitleInv, DeliveryWell, PaysWell, OnlyCall
  <1>6. GivenWell'
    BY <1>2, <1>3, SameGiven DEF TitleInv, OnlyCall
  <1>7. DefinedWell' /\ PublishedWell'
    BY <1>2, <1>3, PaymentDefines, PaymentPublishes DEF OnlyCall
  <1>8. QED
    BY <1>4, <1>5, <1>6, <1>7 DEF TitleInv

LEMMA CheckStep ==
    ASSUME TitleInv, NEW t \in Threads, CheckDelivered(t)
    PROVE  TitleInv'
  <1>1. CallsShaped
    BY DEF TitleInv, ShapesWell
  <1>2. PICK r :
             /\ OnlyCall(t) /\ call'[t].plan = call[t].plan
             /\ call'[t].failed = call[t].failed
             /\ \/ /\ r \in title.delivered
                   /\ call'[t].pc = "check" /\ call'[t].todo = call[t].todo \ {r}
                \/ /\ r \notin title.delivered
                   /\ call'[t].pc = "give" /\ call'[t].todo = call[t].todo
                   /\ call'[t].reward = <<r>>
    BY <1>1, CallAfterCheck
  <1>3. /\ call[t].pc = "check"
        /\ UNCHANGED <<def, unsaved, title, public, cosave, given, disturbed>>
    BY DEF CheckDelivered, At, definitionVars, historyVars
  <1>4. ShapesWell'
    BY <1>2, <1>3 DEF TitleInv, ShapesWell, OnlyCall
  <1>5. DeliveryWell'
    BY <1>2, <1>3 DEF TitleInv, DeliveryWell, PaysWell, OnlyCall
  <1>6. GivenWell'
    <2>1. ASSUME NEW s \in Threads, NEW x \in Rewards PROVE GivenTo(s, x)'
      <3>1. given[s][x] \in Nat /\ GivenTo(s, x)
        BY GivenTypes
      <3>2. CASE s # t
        BY <1>2, <1>3, <3>1, <3>2 DEF GivenTo, AboutTo, OnlyCall
      <3>3. CASE s = t
        <4>1. <<r>> = <<x>> => r = x
          OBVIOUS
        <4>2. QED
          BY <1>2, <1>3, <3>1, <3>3, <4>1 DEF GivenTo, AboutTo
      <3>4. QED
        BY <3>2, <3>3
    <2>2. QED
      BY <1>3, <2>1 DEF TitleInv, GivenWell, GivenInSave
  <1>7. DefinedWell' /\ PublishedWell'
    BY <1>2, <1>3, PaymentDefines, PaymentPublishes DEF OnlyCall
  <1>8. QED
    BY <1>4, <1>5, <1>6, <1>7 DEF TitleInv

LEMMA GiveStep ==
    ASSUME TitleInv, NEW t \in Threads, GiveReward(t)
    PROVE  TitleInv'
  <1>0. PICK r : r = call[t].reward[1]
    OBVIOUS
  <1>1. CallsShaped /\ def.rewards \subseteq Rewards /\ given \in [Threads -> [Rewards -> Nat]]
    BY DefinitionAssumption DEF TitleInv, ShapesWell
  <1>2. /\ call[t].pc = "give" /\ Goto(t, "mark")
        /\ given' = IF r \in def.rewards THEN [given EXCEPT ![t][r] = @ + 1] ELSE given
        /\ UNCHANGED <<def, unsaved, title, public, cosave, disturbed>>
    BY <1>0 DEF GiveReward, At, definitionVars
  <1>3. /\ OnlyCall(t) /\ call'[t].pc = "mark" /\ call'[t].plan = call[t].plan
        /\ call'[t].todo = call[t].todo /\ call'[t].failed = call[t].failed
        /\ call'[t].reward = call[t].reward
    BY <1>1, <1>2, CallAfterGoto
  <1>4. call[t].reward = <<r>>
    BY <1>0, <1>1, <1>2 DEF CallsShaped, CallShape
  <1>5. /\ given' \in [Threads -> [Rewards -> Nat]]
        /\ \A s \in Threads, x \in Rewards : s # t \/ x # r => given'[s][x] = given[s][x]
        /\ r \in Rewards => given'[t][r] \in {given[t][r], given[t][r] + 1}
    BY <1>1, <1>2
  <1>6. ShapesWell'
    BY <1>2, <1>3, <1>5 DEF TitleInv, ShapesWell, OnlyCall
  <1>7. DeliveryWell'
    BY <1>2, <1>3 DEF TitleInv, DeliveryWell, PaysWell, OnlyCall
  <1>8. GivenWell'
    <2>1. ASSUME NEW s \in Threads, NEW x \in Rewards PROVE GivenTo(s, x)'
      <3>1. given[s][x] \in Nat /\ GivenTo(s, x)
        BY GivenTypes
      <3>2. CASE s # t
        BY <1>2, <1>3, <1>5, <3>1, <3>2 DEF GivenTo, AboutTo, OnlyCall
      <3>3. CASE s = t /\ x # r
        <4>1. <<r>> # <<x>>
          BY <3>3
        <4>2. QED
          BY <1>2, <1>3, <1>4, <1>5, <3>1, <3>3, <4>1 DEF GivenTo, AboutTo
      <3>4. CASE s = t /\ x = r
        BY <1>2, <1>3, <1>4, <1>5, <3>1, <3>4 DEF GivenTo, AboutTo
      <3>5. QED
        BY <3>2, <3>3, <3>4
    <2>2. QED
      BY <1>2, <2>1 DEF TitleInv, GivenWell, GivenInSave
  <1>9. DefinedWell' /\ PublishedWell'
    BY <1>2, <1>3, PaymentDefines, PaymentPublishes DEF OnlyCall
  <1>10. QED
    BY <1>6, <1>7, <1>8, <1>9 DEF TitleInv

LEMMA FailStep ==
    ASSUME TitleInv, NEW t \in Threads, FailReward(t)
    PROVE  TitleInv'
  <1>1. CallsShaped
    BY DEF TitleInv, ShapesWell
  <1>2. /\ call[t].pc = "give"
        /\ UNCHANGED <<def, unsaved, title, public, cosave, given, disturbed>>
    BY DEF FailReward, At, definitionVars, historyVars
  <1>3. /\ OnlyCall(t) /\ call'[t].pc = "check" /\ call'[t].plan = call[t].plan
        /\ call'[t].failed = TRUE
    BY <1>1, CallAfterReward
  <1>4. ShapesWell'
    BY <1>2, <1>3 DEF TitleInv, ShapesWell, OnlyCall
  <1>5. DeliveryWell'
    BY <1>2, <1>3 DEF TitleInv, DeliveryWell, PaysWell, OnlyCall
  <1>6. GivenWell'
    <2>1. ASSUME NEW s \in Threads, NEW x \in Rewards PROVE GivenTo(s, x)'
      <3>1. given[s][x] \in Nat /\ GivenTo(s, x)
        BY GivenTypes
      <3>2. QED
        BY <1>2, <1>3, <3>1 DEF GivenTo, AboutTo, OnlyCall
    <2>2. QED
      BY <1>2, <2>1 DEF TitleInv, GivenWell, GivenInSave
  <1>7. DefinedWell' /\ PublishedWell'
    BY <1>2, <1>3, PaymentDefines, PaymentPublishes DEF OnlyCall
  <1>8. QED
    BY <1>4, <1>5, <1>6, <1>7 DEF TitleInv

LEMMA MarkStep ==
    ASSUME TitleInv, NEW t \in Threads, MarkDelivered(t)
    PROVE  TitleInv'
  <1>0. PICK r : r = call[t].reward[1]
    OBVIOUS
  <1> DEFINE u == title'
  <1>1. CallsShaped /\ TitleShape(title)
    BY DEF TitleInv, ShapesWell
  <1>2. /\ call[t].pc = "mark" /\ ~FailReward(t)
        /\ u = [title EXCEPT !.delivered = title.delivered \cup {r}]
        /\ UNCHANGED <<def, unsaved, public, cosave, given, disturbed>>
    BY <1>0 DEF MarkDelivered, FailReward, At, definitionVars, historyVars
  <1>3. /\ OnlyCall(t) /\ call'[t].pc = "check" /\ call'[t].plan = call[t].plan
        /\ call'[t].todo = call[t].todo \ {r} /\ call'[t].failed = call[t].failed
    BY <1>0, <1>1, <1>2, CallAfterReward
  <1>4. call[t].reward = <<r>>
    BY <1>0, <1>1, <1>2 DEF CallsShaped, CallShape
  <1> HIDE DEF u
  <1>5. /\ TitleShape(u) /\ u.completed = title.completed /\ u.overall = title.overall
        /\ u.req = title.req /\ u.delivered = title.delivered \cup {r}
        /\ u.rewarded = title.rewarded /\ u.chosen = title.chosen
        /\ u.selected = title.selected
    <2>1. title = [completed |-> title.completed, rewarded |-> title.rewarded,
                   chosen |-> title.chosen, selected |-> title.selected,
                   delivered |-> title.delivered, overall |-> title.overall,
                   req |-> title.req]
      BY <1>1 DEF TitleShape
    <2>2. u = [completed |-> u.completed, rewarded |-> u.rewarded, chosen |-> u.chosen,
               selected |-> u.selected, delivered |-> u.delivered, overall |-> u.overall,
               req |-> u.req]
      BY <1>2, <2>1
    <2>3. /\ u.completed = title.completed /\ u.overall = title.overall
          /\ u.req = title.req /\ u.delivered = title.delivered \cup {r}
          /\ u.rewarded = title.rewarded /\ u.chosen = title.chosen
          /\ u.selected = title.selected
      BY <1>2, <2>1
    <2>4. TitleShape(u)
      BY <1>1, <2>2, <2>3 DEF TitleShape
    <2>5. QED
      BY <2>3, <2>4
  <1>6. ShapesWell'
    BY <1>2, <1>3, <1>5 DEF TitleInv, ShapesWell, OnlyCall, u
  <1>7. DeliveryWell'
    BY <1>2, <1>3, <1>5 DEF TitleInv, DeliveryWell, ClosedWell, PaysWell, OnlyCall, u
  <1>8. GivenWell'
    <2>1. ASSUME NEW s \in Threads, NEW x \in Rewards PROVE GivenTo(s, x)'
      <3>1. given[s][x] \in Nat /\ GivenTo(s, x)
        BY GivenTypes
      <3>2. title.delivered \subseteq title'.delivered /\ r \in title'.delivered
        BY <1>5 DEF u
      <3>3. CASE s # t
        BY <1>2, <1>3, <3>1, <3>2, <3>3 DEF GivenTo, AboutTo, OnlyCall
      <3>4. CASE s = t
        <4>1. <<r>> = <<x>> => r = x
          OBVIOUS
        <4>2. QED
          BY <1>2, <1>3, <1>4, <3>1, <3>2, <3>4, <4>1 DEF GivenTo, AboutTo
      <3>5. QED
        BY <3>3, <3>4
    <2>2. QED
      BY <1>2, <2>1 DEF TitleInv, GivenWell, GivenInSave
  <1>9. DefinedWell' /\ PublishedWell'
    BY <1>2, <1>3, <1>5, PaymentDefines, PaymentPublishes DEF OnlyCall, u
  <1>10. QED
    BY <1>6, <1>7, <1>8, <1>9 DEF TitleInv

LEMMA CloseStep ==
    ASSUME TitleInv, NEW t \in Threads, ClosePay(t)
    PROVE  TitleInv'
  <1> DEFINE u == title'
  <1>1. CallsShaped /\ TitleShape(title)
    BY DEF TitleInv, ShapesWell
  <1>2. /\ call[t].pc = "check" /\ call[t].todo = {}
        /\ (u = title \/ (~call[t].failed /\ u = [title EXCEPT !.rewarded = TRUE]))
        /\ UNCHANGED <<def, unsaved, public, cosave, given, disturbed>>
    BY DEF ClosePay, At, definitionVars, historyVars
  <1>3. OnlyCall(t) /\ call'[t].pc = "next" /\ call'[t].plan = call[t].plan
    BY <1>1, CallAfterClose
  <1> HIDE DEF u
  <1>4. /\ TitleShape(u) /\ u.completed = title.completed /\ u.overall = title.overall
        /\ u.req = title.req /\ u.delivered = title.delivered
        /\ u.chosen = title.chosen /\ u.selected = title.selected
    <2>1. title = [completed |-> title.completed, rewarded |-> title.rewarded,
                   chosen |-> title.chosen, selected |-> title.selected,
                   delivered |-> title.delivered, overall |-> title.overall,
                   req |-> title.req]
      BY <1>1 DEF TitleShape
    <2>2. u = [completed |-> u.completed, rewarded |-> u.rewarded, chosen |-> u.chosen,
               selected |-> u.selected, delivered |-> u.delivered, overall |-> u.overall,
               req |-> u.req]
      BY <1>2, <2>1
    <2>3. /\ u.completed = title.completed /\ u.overall = title.overall
          /\ u.req = title.req /\ u.delivered = title.delivered
          /\ u.chosen = title.chosen /\ u.selected = title.selected
      BY <1>2, <2>1
    <2>4. TitleShape(u)
      BY <1>1, <2>2, <2>3 DEF TitleShape
    <2>5. QED
      BY <2>3, <2>4
  <1>5. ShapesWell'
    BY <1>2, <1>3, <1>4 DEF TitleInv, ShapesWell, OnlyCall, u
  <1>6. ~disturbed => ClosedWell(u)
    BY <1>2, <1>4 DEF TitleInv, DeliveryWell, ClosedWell, PaysWell
  <1>7. DeliveryWell'
    BY <1>2, <1>3, <1>4, <1>6 DEF TitleInv, DeliveryWell, PaysWell, OnlyCall, u
  <1>8. GivenWell'
    BY <1>2, <1>3, <1>4, SameGiven DEF TitleInv, OnlyCall, u
  <1>9. DefinedWell' /\ PublishedWell'
    BY <1>2, <1>3, <1>4, PaymentDefines, PaymentPublishes DEF OnlyCall, u
  <1>10. QED
    BY <1>5, <1>7, <1>8, <1>9 DEF TitleInv

\* Reports and statistics: a thread that was idle has work, and nothing else.
LEMMA EnterStep ==
    ASSUME TitleInv, NEW t \in Threads, NEW plan, IsPlan(plan), Enter(t, plan),
           UNCHANGED <<definitionVars, title, public, cosave, historyVars>>
    PROVE  TitleInv'
  <1>1. CallsShaped /\ Main \in Threads
    BY MainIsThread DEF TitleInv, ShapesWell
  <1>2. /\ call[t].pc = "next" /\ call[t].plan = <<>>
        /\ call' = [call EXCEPT ![t] = [Idle EXCEPT !.plan = plan]]
        /\ UNCHANGED <<def, unsaved, title, public, cosave, given, disturbed>>
    BY DEF Enter, IsIdle, definitionVars, historyVars
  <1>3. OnlyCall(t) /\ call'[t].pc = "next"
    BY <1>1, <1>2, CallEntered DEF OnlyCall
  <1>4. ShapesWell'
    BY <1>2, <1>3 DEF TitleInv, ShapesWell, OnlyCall
  <1>5. DeliveryWell'
    BY <1>2, <1>3 DEF TitleInv, DeliveryWell, PaysWell, OnlyCall
  <1>6. GivenWell'
    BY <1>2, <1>3, SameGiven DEF TitleInv, OnlyCall
  <1>7. DefinedWell'
    BY <1>2 DEF TitleInv, DefinedWell
  <1>8. PublishedWell'
    BY <1>1, <1>2, <1>3 DEF TitleInv, PublishedWell, OnlyCall, Owing
  <1>9. QED
    BY <1>4, <1>5, <1>6, <1>7, <1>8 DEF TitleInv

LEMMA ReportStep ==
    ASSUME TitleInv, NEW q \in Reqs, ReportEvent(q)
    PROVE  TitleInv'
  <1>1. def \in Definitions
    BY DEF TitleInv, ShapesWell
  <1>2. IsPlan(<<Prepare(q, "event")>> \o RefreshPlan(def))
    BY <1>1, RefreshIsPlan, PlanWithHead
  <1>3. QED
    BY <1>2, EnterStep, MainIsThread DEF ReportEvent

LEMMA AnswerStep ==
    ASSUME TitleInv, NEW t \in Threads, NEW q \in Reqs, NEW last, AnswerStatistic(t, q, last)
    PROVE  TitleInv'
  <1> DEFINE tail == IF last THEN <<Pay>> ELSE <<>>
             plan == <<Prepare(q, "absolute")>> \o tail
  <1>1. IsPlan(tail)
    <2>1. <<Pay>> \in Seq({Pay}) /\ <<>> \in Seq({Pay})
      OBVIOUS
    <2>2. QED
      BY <2>1 DEF IsPlan
  <1> HIDE DEF tail
  <1>2. IsPlan(plan)
    BY <1>1, PlanWithHead
  <1>3. Enter(t, plan)
    BY DEF AnswerStatistic, tail
  <1> HIDE DEF plan
  <1>4. QED
    BY <1>2, <1>3, EnterStep DEF AnswerStatistic

LEMMA EditStep ==
    ASSUME TitleInv, NEW d \in Definitions, EditDefinition(d)
    PROVE  TitleInv'
  <1>1. /\ def' = d /\ unsaved' = TRUE /\ disturbed' = (disturbed \/ ~AllIdle)
        /\ UNCHANGED <<title, public, cosave, call, given>>
    BY DEF EditDefinition
  <1>2. disturbed' \in BOOLEAN /\ (~disturbed' => ~disturbed)
    BY <1>1 DEF TitleInv, ShapesWell
  <1>3. ShapesWell'
    <2>1. CallsShaped'
      BY <1>1 DEF TitleInv, ShapesWell, CallsShaped, CallShape
    <2>2. QED
      BY <1>1, <1>2, <2>1 DEF TitleInv, ShapesWell
  <1>4. DeliveryWell'
    BY <1>1, <1>2 DEF TitleInv, DeliveryWell, PaysWell
  <1>5. GivenWell'
    BY <1>1 DEF TitleInv, GivenWell, GivenTo, GivenInSave, AboutTo
  <1>6. DefinedWell' /\ PublishedWell'
    BY <1>1, <1>2 DEF TitleInv, DefinedWell, PublishedWell
  <1>7. QED
    BY <1>3, <1>4, <1>5, <1>6 DEF TitleInv

LEMMA RefreshAndSynchronize ==
    ASSUME NEW d \in Definitions, NEW cause
    PROVE  /\ IsPlan(RefreshPlan(d) \o <<Synchronize(cause)>>)
           /\ Owing(RefreshPlan(d) \o <<Synchronize(cause)>>)
  <1>1. Synchronize(cause).op = "synchronize"
    BY DEF Synchronize
  <1>2. QED
    BY <1>1, RefreshIsPlan, PlanWithEnd

LEMMA SaveDefinitionsStep ==
    ASSUME TitleInv, SaveDefinitions
    PROVE  TitleInv'
  <1> DEFINE plan == RefreshPlan(def) \o <<Synchronize("saved")>>
  <1>1. /\ CallsShaped /\ Main \in Threads /\ def \in Definitions /\ TitleShape(title)
    BY MainIsThread DEF TitleInv, ShapesWell
  <1>2. /\ call[Main].pc = "next" /\ call[Main].plan = <<>>
        /\ call' = [call EXCEPT ![Main] = [Idle EXCEPT !.plan = plan]]
        /\ title' = Reconciled(title, def) /\ unsaved' = FALSE
        /\ UNCHANGED <<def, public, cosave, given, disturbed>>
    BY DEF SaveDefinitions, Enter, IsIdle, historyVars
  <1>3. IsPlan(plan)
    BY <1>1, RefreshAndSynchronize
  <1> HIDE DEF plan
  <1>4. OnlyCall(Main) /\ call'[Main].pc = "next"
    BY <1>1, <1>2, <1>3, CallEntered DEF OnlyCall
  <1>5. /\ TitleShape(title') /\ SameRewards(title, title')
        /\ (title.completed => title'.completed) /\ Capped(title')
        /\ ~title.completed => MadeUnder(title', def)
    <2> DEFINE u == Reconciled(title, def)
    <2>1. /\ TitleShape(u) /\ SameRewards(title, u)
          /\ (title.completed => u.completed) /\ Capped(u)
          /\ ~title.completed => MadeUnder(u, def)
      BY <1>1, ReconciledTitle
    <2> HIDE DEF u
    <2>2. title' = u
      BY <1>2 DEF u
    <2>3. QED
      BY <2>1, <2>2
  <1>6. ShapesWell'
    BY <1>2, <1>4, <1>5 DEF TitleInv, ShapesWell, OnlyCall
  <1>7. DeliveryWell'
    BY <1>2, <1>4, <1>5 DEF TitleInv, DeliveryWell, ClosedWell, PaysWell, SameRewards, OnlyCall
  <1>8. GivenWell'
    BY <1>1, <1>2, <1>4, <1>5, SameGiven DEF TitleInv, SameRewards, OnlyCall
  <1>9. DefinedWell'
    BY <1>2, <1>5 DEF DefinedWell
  <1>10. PublishedWell'
    BY <1>1, <1>2, <1>4, <1>5 DEF TitleInv, PublishedWell, OnlyCall, Owing
  <1>11. QED
    BY <1>6, <1>7, <1>8, <1>9, <1>10 DEF TitleInv

\* A title that starts anew.
LEMMA FreshReconciled ==
    ASSUME NEW d \in Definitions
    PROVE  LET u == Reconciled(FreshTitle, d)
           IN /\ TitleShape(u) /\ u.rewarded = FALSE /\ u.delivered = {}
              /\ Capped(u) /\ MadeUnder(u, d)
  <1> DEFINE u == Reconciled(FreshTitle, d)
  <1>1. /\ TitleShape(FreshTitle) /\ ~FreshTitle.completed
        /\ FreshTitle.delivered = {}
    BY FreshTitleShape
  <1>2. FreshTitle.rewarded = FALSE
    BY DEF FreshTitle
  <1>3. /\ TitleShape(u) /\ SameRewards(FreshTitle, u) /\ Capped(u)
        /\ ~FreshTitle.completed => MadeUnder(u, d)
    BY <1>1, ReconciledTitle
  <1> HIDE DEF u
  <1>4. QED
    BY <1>1, <1>2, <1>3 DEF SameRewards, u

LEMMA ResetStep ==
    ASSUME TitleInv, ResetTitle
    PROVE  TitleInv'
  <1> DEFINE plan == RefreshPlan(def) \o <<Synchronize("reset")>>
  <1>1. /\ CallsShaped /\ Main \in Threads /\ def \in Definitions
    BY MainIsThread DEF TitleInv, ShapesWell
  <1>2. /\ call' = [call EXCEPT ![Main] = [Idle EXCEPT !.plan = plan]]
        /\ title' = Reconciled(FreshTitle, def) /\ given' = NothingGiven
        /\ disturbed' = ~AllIdle
        /\ UNCHANGED <<def, unsaved, public, cosave>>
    BY DEF ResetTitle, Enter, definitionVars
  <1>3. IsPlan(plan) /\ Owing(plan)
    BY <1>1, RefreshAndSynchronize
  <1> HIDE DEF plan
  <1>4. OnlyCall(Main) /\ call'[Main].pc = "next" /\ call'[Main].plan = plan
    BY <1>1, <1>2, <1>3, CallEntered DEF OnlyCall
  <1>5. /\ TitleShape(title') /\ title'.rewarded = FALSE /\ title'.delivered = {}
        /\ Capped(title') /\ MadeUnder(title', def)
    <2> DEFINE u == Reconciled(FreshTitle, def)
    <2>1. /\ TitleShape(u) /\ u.rewarded = FALSE /\ u.delivered = {}
          /\ Capped(u) /\ MadeUnder(u, def)
      BY <1>1, FreshReconciled
    <2> HIDE DEF u
    <2>2. title' = u
      BY <1>2 DEF u
    <2>3. QED
      BY <2>1, <2>2
  <1>6. ~disturbed' => \A t \in Threads : call'[t].pc = "next"
    BY <1>2, <1>4 DEF AllIdle, IsIdle, OnlyCall
  <1>7. ShapesWell'
    <2>1. given' \in [Threads -> [Rewards -> Nat]] /\ disturbed' \in BOOLEAN
      BY <1>2 DEF NothingGiven
    <2>2. QED
      BY <1>2, <1>4, <1>5, <2>1 DEF TitleInv, ShapesWell, OnlyCall
  <1>8. DeliveryWell'
    <2>1. ASSUME ~disturbed' PROVE ClosedWell(title') /\ \A s \in Threads : PaysWell(s)'
      BY <1>5, <1>6, <2>1 DEF ClosedWell, PaysWell
    <2>2. QED
      BY <1>2, <2>1 DEF TitleInv, DeliveryWell
  <1>9. GivenWell'
    <2>1. ASSUME NEW t \in Threads, NEW r \in Rewards PROVE GivenTo(t, r)'
      <3>1. given'[t][r] = 0
        BY <1>2 DEF NothingGiven
      <3>2. QED
        BY <3>1 DEF GivenTo
    <2>2. QED
      BY <1>2, <2>1 DEF TitleInv, GivenWell, GivenInSave
  <1>10. DefinedWell'
    BY <1>2, <1>5 DEF DefinedWell
  <1>11. PublishedWell'
    <2>1. ASSUME ~disturbed', NEW s \in Threads PROVE call'[s].pc # "publish"
      BY <1>6, <2>1
    <2>2. QED
      BY <1>3, <1>4, <1>5, <2>1 DEF PublishedWell
  <1>12. QED
    BY <1>7, <1>8, <1>9, <1>10, <1>11 DEF TitleInv

LEMMA SaveGameStep ==
    ASSUME TitleInv, SaveGame
    PROVE  TitleInv'
  <1> DEFINE forgot == [q \in Reqs |-> [title.req[q] EXCEPT !.met = TRUE]]
             u == [title EXCEPT !.req = forgot]
  <1>1. /\ AllIdle
        /\ cosave' = <<[title |-> u, given |-> given, disturbed |-> disturbed]>>
        /\ UNCHANGED <<def, unsaved, title, public, call, given, disturbed>>
    BY DEF SaveGame, definitionVars, historyVars
  <1>2. TitleShape(title)
    BY DEF TitleInv, ShapesWell
  <1>3. \A q \in Reqs : ReqShape(forgot[q])
    <2>1. \A q \in Reqs : ReqShape([title.req[q] EXCEPT !.met = TRUE])
      <3> TAKE q \in Reqs
      <3> DEFINE p == title.req[q]
                 n == [p EXCEPT !.met = TRUE]
      <3>1. p = [print |-> p.print, value |-> p.value, baseline |-> p.baseline,
                 highest |-> p.highest, keys |-> p.keys, met |-> p.met]
        BY <1>2 DEF TitleShape, ReqShape
      <3> HIDE DEF p
      <3>n. n = [p EXCEPT !.met = TRUE]
        OBVIOUS
      <3> HIDE DEF n
      <3>2. n = [print |-> n.print, value |-> n.value, baseline |-> n.baseline,
                 highest |-> n.highest, keys |-> n.keys, met |-> n.met]
        BY <3>1, <3>n
      <3>3. ReqShape(n)
        BY <3>2 DEF ReqShape
      <3>4. QED
        BY <3>3 DEF n, p
    <2>2. QED
      BY <2>1
  <1>4. forgot = [q \in Reqs |-> forgot[q]]
    OBVIOUS
  <1> HIDE DEF forgot
  <1>5. u = [completed |-> title.completed, rewarded |-> title.rewarded,
             chosen |-> title.chosen, selected |-> title.selected,
             delivered |-> title.delivered, overall |-> title.overall, req |-> forgot]
    BY <1>2 DEF TitleShape
  <1> HIDE DEF u
  <1>6. title.completed \in BOOLEAN
    BY <1>2 DEF TitleShape
  <1>7. TitleShape(u) /\ SameRewards(title, u)
    BY <1>3, <1>4, <1>5, <1>6 DEF TitleShape, SameRewards
  <1>8. /\ cosave'[1].title = u /\ cosave'[1].given = given
        /\ cosave'[1].disturbed = disturbed
    BY <1>1
  <1>9. ShapesWell'
    <2>1. CallsShaped'
      BY <1>1 DEF TitleInv, ShapesWell, CallsShaped, CallShape
    <2>2. SavedShape(cosave'[1])
      BY <1>7, <1>8 DEF TitleInv, ShapesWell, SavedShape
    <2>3. QED
      BY <1>1, <2>1, <2>2 DEF TitleInv, ShapesWell
  <1>10. DeliveryWell'
    BY <1>1, <1>7, <1>8 DEF TitleInv, DeliveryWell, ClosedWell, PaysWell, SameRewards
  <1>11. GivenWell'
    <2>1. ASSUME NEW t \in Threads, NEW r \in Rewards PROVE GivenInSave(t, r)'
      <3>1. call[t].pc = "next"
        BY <1>1 DEF AllIdle, IsIdle
      <3>2. GivenTo(t, r)
        BY GivenTypes
      <3>3. QED
        BY <1>7, <1>8, <3>1, <3>2 DEF GivenTo, GivenInSave, AboutTo, SameRewards
    <2>2. QED
      BY <1>1, <2>1 DEF TitleInv, GivenWell, GivenTo, AboutTo
  <1>12. DefinedWell' /\ PublishedWell'
    BY <1>1 DEF TitleInv, DefinedWell, PublishedWell
  <1>13. QED
    BY <1>9, <1>10, <1>11, <1>12 DEF TitleInv

\* What the load callback makes of a record.
LEMMA LoadedStep ==
    ASSUME TitleInv, AllIdle, NEW record, Loaded(record), SavedShape(record),
           ~record.disturbed => ClosedWell(record.title),
           \A t \in Threads, r \in Rewards :
               /\ record.given[t][r] <= 1
               /\ record.given[t][r] = 1 => r \in record.title.delivered
    PROVE  TitleInv'
  <1> DEFINE plan == RefreshPlan(def) \o <<Pay>>
  <1>1. /\ CallsShaped /\ Main \in Threads /\ def \in Definitions /\ TitleShape(record.title)
    BY MainIsThread DEF TitleInv, ShapesWell, SavedShape
  <1>2. /\ call' = [call EXCEPT ![Main] = [Idle EXCEPT !.plan = plan]]
        /\ title' = Reconciled(record.title, def) /\ public' = title'.overall
        /\ given' = record.given /\ disturbed' = record.disturbed
        /\ UNCHANGED <<def, unsaved, cosave>>
    BY DEF Loaded, definitionVars
  <1>3. IsPlan(plan)
    BY <1>1, RefreshIsPlan, PlanWithEnd
  <1> HIDE DEF plan
  <1>4. OnlyCall(Main) /\ call'[Main].pc = "next"
    BY <1>1, <1>2, <1>3, CallEntered DEF OnlyCall
  <1>5. /\ TitleShape(title') /\ SameRewards(record.title, title')
        /\ (record.title.completed => title'.completed) /\ Capped(title')
        /\ ~record.title.completed => MadeUnder(title', def)
    <2> DEFINE u == Reconciled(record.title, def)
    <2>1. /\ TitleShape(u) /\ SameRewards(record.title, u)
          /\ (record.title.completed => u.completed) /\ Capped(u)
          /\ ~record.title.completed => MadeUnder(u, def)
      BY <1>1, ReconciledTitle
    <2> HIDE DEF u
    <2>2. title' = u
      BY <1>2 DEF u
    <2>3. QED
      BY <2>1, <2>2
  <1>6. \A t \in Threads : call'[t].pc = "next"
    BY <1>4 DEF AllIdle, IsIdle, OnlyCall
  <1>7. ShapesWell'
    BY <1>2, <1>4, <1>5 DEF TitleInv, ShapesWell, SavedShape, OnlyCall
  <1>8. DeliveryWell'
    <2>1. ASSUME ~disturbed' PROVE ClosedWell(title') /\ \A s \in Threads : PaysWell(s)'
      BY <1>2, <1>5, <1>6, <2>1 DEF ClosedWell, PaysWell, SameRewards
    <2>2. QED
      BY <1>2, <2>1 DEF TitleInv, DeliveryWell
  <1>9. GivenWell'
    <2>1. ASSUME NEW t \in Threads, NEW r \in Rewards PROVE GivenTo(t, r)'
      BY <1>2, <1>5, <1>6 DEF GivenTo, AboutTo, SameRewards
    <2>2. QED
      BY <1>2, <2>1 DEF TitleInv, GivenWell, GivenInSave
  <1>10. DefinedWell'
    BY <1>2, <1>5 DEF DefinedWell
  <1>11. PublishedWell'
    <2>1. public' = 1000 => title'.completed
      BY <1>2, <1>5 DEF Capped
    <2>2. QED
      BY <1>5, <1>6, <2>1 DEF PublishedWell
  <1>12. QED
    BY <1>7, <1>8, <1>9, <1>10, <1>11 DEF TitleInv

LEMMA LoadStep ==
    ASSUME TitleInv, LoadGame \/ StartFresh
    PROVE  TitleInv'
  <1>1. CASE LoadGame
    <2>1. AllIdle /\ cosave # <<>> /\ Loaded(cosave[1])
      BY <1>1 DEF LoadGame
    <2>2. SavedShape(cosave[1]) /\ (~cosave[1].disturbed => ClosedWell(cosave[1].title))
      BY <2>1 DEF TitleInv, ShapesWell, DeliveryWell
    <2>3. \A t \in Threads, r \in Rewards :
             /\ cosave[1].given[t][r] <= 1
             /\ cosave[1].given[t][r] = 1 => r \in cosave[1].title.delivered
      BY <2>1 DEF TitleInv, GivenWell, GivenInSave
    <2>4. QED
      BY <2>1, <2>2, <2>3, LoadedStep
  <1>2. CASE StartFresh
    <2>1. AllIdle /\ Loaded(NoRecord)
      BY <1>2 DEF StartFresh
    <2>2. /\ TitleShape(FreshTitle) /\ ~FreshTitle.rewarded /\ FreshTitle.delivered = {}
      BY FreshTitleShape
    <2>3. /\ NoRecord.title = FreshTitle /\ NoRecord.given = NothingGiven
          /\ NoRecord.disturbed = FALSE
      BY DEF NoRecord
    <2>4. SavedShape(NoRecord) /\ ClosedWell(NoRecord.title)
      <3>1. NoRecord.given \in [Threads -> [Rewards -> Nat]]
        BY <2>3 DEF NothingGiven
      <3>2. QED
        BY <2>2, <2>3, <3>1 DEF SavedShape, ClosedWell
    <2>5. \A t \in Threads, r \in Rewards :
             /\ NoRecord.given[t][r] <= 1
             /\ NoRecord.given[t][r] = 1 => r \in NoRecord.title.delivered
      BY <2>3 DEF NothingGiven
    <2>6. QED
      BY <2>1, <2>4, <2>5, LoadedStep
  <1>3. QED
    BY <1>1, <1>2

LEMMA TitleStep == TitleInv /\ [Next]_vars => TitleInv'
  <1> SUFFICES ASSUME TitleInv, [Next]_vars PROVE TitleInv'
    OBVIOUS
  <1>1. ASSUME NEW q \in Reqs, ReportEvent(q) PROVE TitleInv'
    BY <1>1, ReportStep
  <1>2. ASSUME NEW t \in Threads \ {Main}, NEW q \in Reqs, NEW last \in BOOLEAN,
               AnswerStatistic(t, q, last)
        PROVE  TitleInv'
    BY <1>2, AnswerStep
  <1>3. ASSUME NEW t \in Threads,
               \/ DoPrepare(t) \/ DoApply(t) \/ Publish(t) \/ DoSynchronize(t)
               \/ StartPay(t) \/ SelectRewards(t) \/ Reread(t)
               \/ CheckDelivered(t) \/ GiveReward(t) \/ FailReward(t)
               \/ MarkDelivered(t) \/ ClosePay(t)
        PROVE  TitleInv'
    BY <1>3, PrepareStep, PublishStep, SynchronizeStep, StartPayStep, SelectStep,
       RereadStep, CheckStep, GiveStep, FailStep, MarkStep, CloseStep
  <1>4. ASSUME NEW d \in Definitions, EditDefinition(d) PROVE TitleInv'
    BY <1>4, EditStep
  <1>5. CASE SaveDefinitions
    BY <1>5, SaveDefinitionsStep
  <1>6. CASE ResetTitle
    BY <1>6, ResetStep
  <1>7. CASE SaveGame
    BY <1>7, SaveGameStep
  <1>8. CASE LoadGame \/ StartFresh
    BY <1>8, LoadStep
  <1>9. CASE UNCHANGED vars
    <2>1. UNCHANGED <<def, unsaved, title, public, cosave, call, given, disturbed>>
      BY <1>9 DEF vars
    <2>2. ShapesWell'
      BY <2>1 DEF TitleInv, ShapesWell, CallsShaped, CallShape
    <2>3. DeliveryWell'
      BY <2>1 DEF TitleInv, DeliveryWell, PaysWell
    <2>4. GivenWell'
      BY <2>1 DEF TitleInv, GivenWell, GivenTo, GivenInSave, AboutTo
    <2>5. DefinedWell' /\ PublishedWell'
      BY <2>1 DEF TitleInv, DefinedWell, PublishedWell
    <2>6. QED
      BY <2>2, <2>3, <2>4, <2>5 DEF TitleInv
  <1>10. CASE Settled
    BY <1>9, <1>10 DEF Settled
  <1>11. QED
    BY <1>1, <1>2, <1>3, <1>4, <1>5, <1>6, <1>7, <1>8, <1>9, <1>10 DEF Next

LEMMA TitleInitially == Init => TitleInv
  <1> SUFFICES ASSUME Init PROVE TitleInv
    OBVIOUS
  <1>1. /\ def \in Definitions /\ unsaved = FALSE /\ title = Reconciled(FreshTitle, def)
        /\ public = 0 /\ cosave = <<>> /\ call = [t \in Threads |-> Idle]
        /\ given = NothingGiven /\ disturbed = FALSE
    BY DEF Init
  <1>2. /\ TitleShape(title) /\ title.rewarded = FALSE /\ title.delivered = {}
        /\ Capped(title) /\ MadeUnder(title, def)
    <2> DEFINE u == Reconciled(FreshTitle, def)
    <2>1. /\ TitleShape(u) /\ u.rewarded = FALSE /\ u.delivered = {}
          /\ Capped(u) /\ MadeUnder(u, def)
      BY <1>1, FreshReconciled
    <2> HIDE DEF u
    <2>2. title = u
      BY <1>1 DEF u
    <2>3. QED
      BY <2>1, <2>2
  <1>3. Idle.pc = "next" /\ CallShape(Idle)
    <2>1. /\ Idle = [plan |-> Idle.plan, pc |-> Idle.pc, change |-> Idle.change,
                    earned |-> Idle.earned, todo |-> Idle.todo, reward |-> Idle.reward,
                    failed |-> Idle.failed]
          /\ Idle.pc = "next" /\ Idle.failed = FALSE /\ Idle.plan = <<>>
      BY DEF Idle
    <2>2. Idle.plan \in Seq({})
      BY <2>1
    <2>3. QED
      BY <2>1, <2>2 DEF CallShape, IsPlan
  <1>4. CallsShaped /\ \A t \in Threads : call[t].pc = "next"
    BY <1>1, <1>3 DEF CallsShaped
  <1>5. ShapesWell
    <2>1. given \in [Threads -> [Rewards -> Nat]]
      BY <1>1 DEF NothingGiven
    <2>2. QED
      BY <1>1, <1>2, <1>4, <2>1 DEF ShapesWell
  <1>6. DeliveryWell
    BY <1>1, <1>2, <1>4 DEF DeliveryWell, ClosedWell, PaysWell
  <1>7. GivenWell
    <2>1. ASSUME NEW t \in Threads, NEW r \in Rewards PROVE GivenTo(t, r)
      <3>1. given[t][r] = 0
        BY <1>1 DEF NothingGiven
      <3>2. QED
        BY <3>1 DEF GivenTo
    <2>2. QED
      BY <1>1, <2>1 DEF GivenWell
  <1>8. DefinedWell /\ PublishedWell
    BY <1>1, <1>2, <1>4 DEF DefinedWell, PublishedWell
  <1>9. QED
    BY <1>5, <1>6, <1>7, <1>8 DEF TitleInv

\* A title is closed only after each reward of the one selection was delivered,
\* for any number of threads and rewards, whoever selected, whatever failed and
\* whatever was saved and loaded in between (ProcessRewardsForTitle).
THEOREM ClosedTitlesArePaid == Spec => []RewardedMeansDelivered
  <1>1. TitleInv => RewardedMeansDelivered
    BY DEF TitleInv, DeliveryWell, ClosedWell, RewardedMeansDelivered
  <1>2. QED
    BY <1>1, TitleInitially, TitleStep, PTL DEF Spec

\* No thread gives a reward of the same progress twice, for any number of threads
\* and rewards, over saves, loads, failures, retries and resets, with the three
\* steps of the threads' payments interleaved at will (ProcessRewardsForTitle).
THEOREM RewardsAreGivenOnce == Spec => []GivenOncePerThread
  <1>1. TitleInv => GivenOncePerThread
    BY GivenTypes DEF GivenTo, GivenOncePerThread
  <1>2. QED
    BY <1>1, TitleInitially, TitleStep, PTL DEF Spec

\* A Global reads 1.0 only for a title that is completed, once every call has
\* come to its end (RecomputeLocked, HandleProgressChange, SynchronizeTitle).
THEOREM PublicOnesAreEarned == Spec => []PublicOneIsEarned
  <1>1. TitleInv => PublicOneIsEarned
    <2> SUFFICES ASSUME TitleInv, AllIdle, public = 1000, ~disturbed
                 PROVE  title.completed
      BY DEF PublicOneIsEarned
    <2>1. ~Owing(call[Main].plan)
      BY MainIsThread DEF AllIdle, IsIdle, Owing
    <2>2. QED
      BY <2>1 DEF TitleInv, PublishedWell
  <1>2. QED
    BY <1>1, TitleInitially, TitleStep, PTL DEF Spec

\* With every edit saved, the progress that earns a title was made under its
\* present definition (GetRequirementLocked, ReconcileDefinitions).
THEOREM TitlesAreEarnedAsDefined == Spec => EarnedAsDefined
  <1> DEFINE A == ~title.completed /\ title'.completed /\ cosave' = cosave
                      /\ ~AllIdle /\ ~unsaved =>
                  \A q \in def.reqs : title'.req[q].print = def.print[q]
  <1>1. ASSUME TitleInv, Next, ~title.completed, title'.completed, cosave' = cosave,
               ~AllIdle, ~unsaved
        PROVE  \A q \in def.reqs : title'.req[q].print = def.print[q]
    <2>1. ASSUME NEW t \in Threads, DoPrepare(t) \/ DoApply(t) PROVE MadeUnder(title', def)
      BY <1>1, <2>1, PrepareKeeps
    <2>2. ASSUME NEW t \in Threads, SelectRewards(t) PROVE FALSE
      <3>1. PICK rewards : title' = Chosen(title, rewards)
        BY <2>2 DEF SelectRewards
      <3>2. title'.completed = title.completed
        BY <3>1 DEF Chosen
      <3>3. QED
        BY <1>1, <3>2
    <2>3. ASSUME NEW t \in Threads, MarkDelivered(t) \/ ClosePay(t) PROVE FALSE
      <3>1. \/ title' = [title EXCEPT !.delivered = @ \cup {call[t].reward[1]}]
            \/ title' = [title EXCEPT !.rewarded = TRUE]
            \/ title' = title
        BY <2>3 DEF MarkDelivered, ClosePay
      <3>2. title = [completed |-> title.completed, rewarded |-> title.rewarded,
                     chosen |-> title.chosen, selected |-> title.selected,
                     delivered |-> title.delivered, overall |-> title.overall,
                     req |-> title.req]
        BY <1>1 DEF TitleInv, ShapesWell, TitleShape
      <3>3. title'.completed = title.completed
        BY <3>1, <3>2
      <3>4. QED
        BY <1>1, <3>3
    <2>4. ASSUME title' = title PROVE FALSE
      BY <1>1, <2>4
    <2>5. CASE SaveDefinitions
      <3>1. title' = Reconciled(title, def)
        BY <2>5 DEF SaveDefinitions
      <3>2. TitleShape(title) /\ def \in Definitions
        BY <1>1 DEF TitleInv, ShapesWell
      <3>3. MadeUnder(Reconciled(title, def), def)
        BY <1>1, <3>2, ReconciledTitle
      <3>4. QED
        BY <3>1, <3>3 DEF MadeUnder
    <2>6. CASE ResetTitle
      <3>1. title' = Reconciled(FreshTitle, def)
        BY <2>6 DEF ResetTitle
      <3>2. def \in Definitions
        BY <1>1 DEF TitleInv, ShapesWell
      <3>3. MadeUnder(Reconciled(FreshTitle, def), def)
        BY <3>2, FreshReconciled
      <3>4. QED
        BY <3>1, <3>3 DEF MadeUnder
    <2>7. CASE LoadGame \/ StartFresh
      BY <1>1, <2>7 DEF LoadGame, StartFresh
    <2>8. ASSUME NEW t \in Threads,
                 \/ Publish(t) \/ DoSynchronize(t) \/ StartPay(t) \/ Reread(t)
                 \/ CheckDelivered(t) \/ GiveReward(t) \/ FailReward(t)
          PROVE  FALSE
      BY <2>4, <2>8 DEF Publish, DoSynchronize, StartPay, Reread, CheckDelivered,
                        GiveReward, FailReward
    <2>9. ASSUME \/ \E q \in Reqs : ReportEvent(q)
                 \/ \E t \in Threads \ {Main}, q \in Reqs, last \in BOOLEAN :
                        AnswerStatistic(t, q, last)
                 \/ \E d \in Definitions : EditDefinition(d)
                 \/ SaveGame \/ Settled
          PROVE  FALSE
      BY <2>4, <2>9 DEF ReportEvent, AnswerStatistic, EditDefinition, SaveGame, Settled, vars
    <2>10. MadeUnder(title', def)
      BY <1>1, <2>1, <2>2, <2>3, <2>5, <2>6, <2>7, <2>8, <2>9 DEF Next, MadeUnder
    <2>11. QED
      BY <2>10 DEF MadeUnder
  <1>2. TitleInv /\ [Next]_vars => [A]_vars
    BY <1>1
  <1>3. QED
    BY <1>2, TitleInitially, TitleStep, PTL DEF Spec, EarnedAsDefined
=============================================================================
