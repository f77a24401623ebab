--------------------------- MODULE Waiting_proofs ---------------------------
(***************************************************************************)
(* Proofs about what waits in timers, queues and threads, for any number   *)
(* of threads, tasks, actors and rewards and for every bound: the          *)
(* dispatcher does not sleep past a task (DelayedDispatcher), what sleeps  *)
(* and dialogues deferred reaches its actor (DeferredUpdates), every cast  *)
(* of a spell is accounted for (SpellCasts), and what was asked of         *)
(* WhoEditThat comes to what the rules give (ActorValueLedger).            *)
(***************************************************************************)
EXTENDS DeferredUpdates, DelayedDispatcher, SpellCasts, ActorValueLedger,
        FiniteSetTheorems, WellFoundedInduction, TLAPS

----------------------------------------------------------------------------
(* The dispatcher.                                                         *)

LEMMA LeastOf ==
    ASSUME NEW S \in SUBSET Nat, S # {}
    PROVE  Min(S) \in S /\ \A n \in S : Min(S) <= n
  <1> DEFINE R == OpToRel(<, Nat)
  <1>1. IsWellFoundedOn(R, Nat)
    BY NatLessThanWellFounded
  <1>2. \A m, n \in Nat : <<m, n>> \in R <=> m < n
    BY DEF OpToRel
  <1> HIDE DEF R
  <1>3. \E m \in S : \A n \in S : ~(<<n, m>> \in R)
    BY <1>1, WFMin
  <1>4. \E m \in S : \A n \in S : m <= n
    <2>1. PICK m \in S : \A n \in S : ~(<<n, m>> \in R)
      BY <1>3
    <2>2. ASSUME NEW n \in S PROVE m <= n
      <3>1. m \in Nat /\ n \in Nat
        OBVIOUS
      <3>2. ~(n < m)
        BY <1>2, <2>1, <3>1
      <3>3. QED
        BY <3>1, <3>2
    <2>3. QED
      BY <2>2
  <1>5. QED
    BY <1>4 DEF Min

DispatcherTypeOK ==
    /\ now \in Nat
    /\ \A e \in queue_D : e.time \in Nat
    /\ worker.time \in Nat
    /\ woken \in BOOLEAN

DispatcherInv == DispatcherTypeOK /\ NoneOversleeps

LEMMA FirstIsLeast ==
    ASSUME DispatcherTypeOK, queue_D # {}
    PROVE  First \in Nat
  <1>1. {e.time : e \in queue_D} \in SUBSET Nat /\ {e.time : e \in queue_D} # {}
    BY DEF DispatcherTypeOK
  <1>2. QED
    BY <1>1, LeastOf DEF First

LEMMA DispatcherStep ==
    DispatcherInv /\ [DispatcherNext]_dispatcherVars => DispatcherInv'
  <1> SUFFICES ASSUME DispatcherInv, [DispatcherNext]_dispatcherVars PROVE DispatcherInv'
    OBVIOUS
  <1> USE DEF DispatcherInv
  <1>1. ASSUME NEW p \in Posters, NEW delay \in 1..2, PostDelayed(p, delay)
        PROVE  DispatcherInv'
    <2>1. DispatcherTypeOK'
      BY <1>1 DEF PostDelayed, DispatcherTypeOK
    <2>2. notifies' # {}
      BY <1>1 DEF PostDelayed
    <2>3. QED
      BY <2>1, <2>2 DEF NoneOversleeps
  <1>2. ASSUME NEW p \in Posters, Notify(p)
        PROVE  DispatcherInv'
    <2>1. DispatcherTypeOK' /\ (Waiting' => woken')
      BY <1>2 DEF Notify, DispatcherTypeOK, Waiting
    <2>2. QED
      BY <2>1 DEF NoneOversleeps
  <1>3. CASE Stop_D
    BY <1>3 DEF Stop_D, DispatcherTypeOK, NoneOversleeps
  <1>4. CASE Look
    <2>1. queue_D # {} => First \in Nat
      BY FirstIsLeast
    <2>2. CASE worker' = WorkerAt("idle") /\ queue_D = {} /\ UNCHANGED queue_D
      BY <1>4, <2>2 DEF Look, DispatcherTypeOK, NoneOversleeps, WorkerAt
    <2>3. CASE worker' = [at |-> "sleep", time |-> First] /\ queue_D # {} /\ UNCHANGED queue_D
      <3>1. First' = First
        BY <2>3 DEF First
      <3>2. DispatcherTypeOK'
        BY <1>4, <2>1, <2>3 DEF Look, DispatcherTypeOK
      <3>3. worker'.at = "sleep" /\ worker'.time = First
        BY <2>3
      <3>4. QED
        BY <2>1, <2>3, <3>1, <3>2, <3>3 DEF NoneOversleeps
    <2>4. CASE worker' = WorkerAt("end") /\ UNCHANGED queue_D
      BY <1>4, <2>4 DEF Look, DispatcherTypeOK, NoneOversleeps, WorkerAt, Waiting
    <2>5. ASSUME NEW e \in queue_D, queue_D' = queue_D \ {e}, worker' = [at |-> "run", time |-> e.time]
          PROVE  DispatcherInv'
      BY <1>4, <2>5 DEF Look, DispatcherTypeOK, NoneOversleeps, Waiting
    <2>6. QED
      BY <1>4, <2>2, <2>3, <2>4, <2>5 DEF Look
  <1>5. CASE Wake
    <2>1. queue_D # {} => First \in Nat
      BY FirstIsLeast
    <2>2. DispatcherTypeOK'
      BY <1>5 DEF Wake, DispatcherTypeOK, WorkerAt
    <2>3. CASE Awake
      BY <1>5, <2>2, <2>3 DEF Wake, NoneOversleeps, WorkerAt, Waiting
    <2>4. CASE ~Awake
      <3>1. woken /\ worker' = worker /\ UNCHANGED <<queue_D, stopped, notifies>>
        BY <1>5, <2>4 DEF Wake
      <3>2. SUFFICES ASSUME ~stopped, queue_D # {}
                     PROVE  worker.at = "sleep" /\ worker.time <= First
        BY <2>2, <3>1 DEF NoneOversleeps, First
      <3>3. worker.at = "sleep" /\ ~(First < worker.time)
        BY <1>5, <2>4, <3>1, <3>2 DEF Wake, Awake, Waiting
      <3>4. QED
        BY <2>1, <3>2, <3>3 DEF DispatcherTypeOK
    <2>5. QED
      BY <2>3, <2>4
  <1>6. CASE RunDelayed
    BY <1>6 DEF RunDelayed, DispatcherTypeOK, NoneOversleeps, Waiting, WorkerAt
  <1>7. CASE Tick
    BY <1>7 DEF Tick, DispatcherTypeOK, NoneOversleeps, Waiting, First
  <1>8. CASE UNCHANGED dispatcherVars
    BY <1>8 DEF dispatcherVars, DispatcherTypeOK, NoneOversleeps, Waiting, First
  <1>9. QED
    BY <1>1, <1>2, <1>3, <1>4, <1>5, <1>6, <1>7, <1>8 DEF DispatcherNext

\* While the worker waits, with nobody about to notify it, it is for the first of the
\* posted tasks, however many threads post and whatever their delays (PostDelayed and
\* RunLoop: the predicates of wait and wait_until).
THEOREM DispatcherAwakes == DispatcherSpec => []NoneOversleeps
  <1>1. DispatcherInit => DispatcherInv
    <2> SUFFICES ASSUME DispatcherInit PROVE DispatcherInv
      OBVIOUS
    <2>1. worker = [at |-> "loop", time |-> 0] /\ queue_D = {} /\ now = 0 /\ woken = FALSE
      BY DEF DispatcherInit, WorkerAt
    <2>2. DispatcherTypeOK
      BY <2>1 DEF DispatcherTypeOK
    <2>3. QED
      BY <2>1, <2>2 DEF DispatcherInv, NoneOversleeps
  <1>2. DispatcherInv => NoneOversleeps
    BY DEF DispatcherInv
  <1>3. QED
    BY <1>1, <1>2, DispatcherStep, PTL DEF DispatcherSpec

----------------------------------------------------------------------------
(* The casts of spells.                                                    *)

Applied_C == [active : BOOLEAN, version : Nat, reroll : BOOLEAN, token : Nat,
              keys : SUBSET CastRewards, lasting : SUBSET CastRewards]

CastRequest == [reward : CastRewards, version : Nat, token : Activations, generation : Nat,
                attempt : Nat, at : {"timer", "task"}]

CastTypeOK ==
    /\ ruleVersion \in Nat
    /\ applied \in Applied_C
    /\ nextActivation \in Nat \ {0}
    /\ casts \subseteq CastRequest
    /\ generation_C \in Nat
    /\ saved_C.applied \in Applied_C
    /\ given \in [CastRewards -> [Activations -> Nat]]

\* A request is the only one of its reward and activation, and nothing was cast for it;
\* the activations to come have no requests and no casts.
OneRequest ==
    /\ \A p, q \in casts : p.reward = q.reward /\ p.token = q.token => p = q
    /\ \A q \in casts : q.token < nextActivation /\ given[q.reward][q.token] = 0
    /\ \A r \in CastRewards, t \in Activations : t >= nextActivation => given[r][t] = 0
    /\ CastOncePerActivation

\* What an activation documents covers the temporary effects, and without an active one
\* there are none.
Documented(a, found) ==
    /\ found \ LastingCasts \subseteq a.keys
    /\ ~a.active => found \subseteq LastingCasts

CastInv ==
    /\ CastTypeOK
    /\ OneRequest
    /\ Documented(applied, effects)
    /\ Documented(saved_C.applied, saved_C.effects)

LEMMA CastInitially == CastInit => CastInv
  <1> SUFFICES ASSUME CastInit PROVE CastInv
    OBVIOUS
  <1>1. NotActive \in Applied_C /\ NotActive.keys = {} /\ effects = {} /\ applied = NotActive
    BY DEF CastInit, NotActive, Applied_C
  <1>2. CastTypeOK
    BY <1>1 DEF CastInit, CastTypeOK
  <1>3. OneRequest
    BY DEF CastInit, OneRequest, CastOncePerActivation
  <1>4. Documented(applied, effects) /\ Documented(saved_C.applied, saved_C.effects)
    BY <1>1 DEF CastInit, Documented
  <1>5. QED
    BY <1>2, <1>3, <1>4 DEF CastInv

\* The end of an activation dispels what it left for a time.
LEMMA DispelledIsLasting ==
    ASSUME Documented(applied, effects)
    PROVE  Dispelled(applied) \subseteq LastingCasts
  BY DEF Documented, Dispelled

LEMMA EndKeeps == ASSUME CastInv, EndRule PROVE CastInv'
  <1>1. PICK d \in BOOLEAN : applied' = RemovedApplied(applied, d)
    BY DEF EndRule
  <1>2. effects' = Dispelled(applied)
        /\ UNCHANGED <<ruleVersion, nextActivation, casts, generation_C, saved_C, given>>
    BY DEF EndRule
  <1>3. applied' \in Applied_C
    BY <1>1 DEF RemovedApplied, CastInv, CastTypeOK, Applied_C
  <1>4. Documented(applied', effects')
    BY <1>2, DispelledIsLasting DEF CastInv, Documented
  <1>5. CastTypeOK' /\ OneRequest'
    BY <1>2, <1>3 DEF CastInv, CastTypeOK, OneRequest, CastOncePerActivation
  <1>6. QED
    BY <1>2, <1>4, <1>5 DEF CastInv, Documented

LEMMA ActivateKeeps == ASSUME CastInv, ActivateRule PROVE CastInv'
  <1> DEFINE a == Superseded(applied)
  <1>1. PICK won \in SUBSET CastRewards :
            /\ applied' = StartedRoll(a, won)
            /\ casts' = casts \cup {Request(r, applied'.token) : r \in won \ a.lasting}
    BY DEF ActivateRule
  <1>2. /\ ~a.active /\ nextActivation \in Activations /\ nextActivation' = nextActivation + 1
        /\ effects' = IF applied.active /\ a # applied THEN Dispelled(applied) ELSE effects
        /\ UNCHANGED <<ruleVersion, generation_C, saved_C, given>>
    BY DEF ActivateRule
  <1>3. a \in Applied_C
    BY DEF Superseded, CastInv, CastTypeOK, Applied_C
  <1>4. applied.active => a # applied
    BY <1>2
  <1>5. effects' \subseteq LastingCasts
    BY <1>2, <1>4, DispelledIsLasting DEF CastInv, Documented
  <1> HIDE DEF a
  <1>6. applied' \in Applied_C /\ applied'.token = nextActivation /\ applied'.active
    BY <1>1, <1>3 DEF StartedRoll, CastInv, CastTypeOK, Applied_C
  <1>7. \A r \in CastRewards : /\ Request(r, nextActivation) \in CastRequest
                               /\ Request(r, nextActivation).reward = r
                               /\ Request(r, nextActivation).token = nextActivation
    BY <1>2 DEF Request, CastRequest, CastInv, CastTypeOK
  <1>8. \A q \in casts' : q \in casts
             \/ \E r \in CastRewards : q = Request(r, nextActivation)
    BY <1>1, <1>6
  <1>9. CastTypeOK'
    BY <1>2, <1>6, <1>7, <1>8 DEF CastInv, CastTypeOK
  <1>10. OneRequest'
    <2>1. \A q \in casts : q \in CastRequest /\ q.token < nextActivation
      BY DEF CastInv, CastTypeOK, OneRequest
    <2>2. \A p, q \in casts' : p.reward = q.reward /\ p.token = q.token => p = q
      <3>1. SUFFICES ASSUME NEW p \in casts', NEW q \in casts', p.reward = q.reward, p.token = q.token
                     PROVE  p = q
        OBVIOUS
      <3>2. CASE p \in casts /\ q \in casts
        BY <3>1, <3>2 DEF CastInv, OneRequest
      <3>3. CASE p \notin casts \/ q \notin casts
        <4>1. p.token = nextActivation /\ q.token = nextActivation
          BY <1>7, <1>8, <3>1, <3>3
        <4>2. p \notin casts /\ q \notin casts
          BY <2>1, <4>1 DEF CastInv, CastTypeOK
        <4>3. QED
          BY <1>7, <1>8, <3>1, <4>2
      <3>4. QED
        BY <3>2, <3>3
    <2>3. ASSUME NEW q \in casts'
          PROVE  q.token < nextActivation' /\ given'[q.reward][q.token] = 0
      <3>1. CASE q \in casts
        <4>1. q.token < nextActivation /\ given[q.reward][q.token] = 0 /\ q.token \in Nat
          BY <3>1 DEF CastInv, OneRequest, CastTypeOK, CastRequest, Activations
        <4>2. QED
          BY <1>2, <4>1 DEF CastInv, CastTypeOK
      <3>2. CASE q \notin casts
        <4>1. q.token = nextActivation /\ q.reward \in CastRewards
          BY <1>7, <1>8, <3>2
        <4>2. QED
          BY <1>2, <4>1 DEF CastInv, OneRequest, CastTypeOK, Activations
      <3>3. QED
        BY <3>1, <3>2
    <2>4. \A r \in CastRewards, t \in Activations : t >= nextActivation' => given'[r][t] = 0
      BY <1>2 DEF CastInv, OneRequest, CastTypeOK, Activations
    <2>5. CastOncePerActivation'
      BY <1>2 DEF CastInv, OneRequest, CastOncePerActivation
    <2>6. QED
      BY <2>2, <2>3, <2>4, <2>5 DEF OneRequest
  <1>11. QED
    BY <1>2, <1>5, <1>6, <1>9, <1>10 DEF CastInv, Documented

\* The request moves on, as it is but for its attempt and its place.
LEMMA MovedRequest ==
    ASSUME CastInv, NEW q \in casts, NEW p \in CastRequest,
           p.reward = q.reward, p.token = q.token,
           casts' \subseteq (casts \ {q}) \cup {p},
           UNCHANGED <<ruleVersion, applied, nextActivation, generation_C, effects, saved_C, given>>
    PROVE  CastInv'
  <1>1. CastTypeOK'
    BY DEF CastInv, CastTypeOK
  <1>2. OneRequest'
    <2>1. \A x, y \in casts' : x.reward = y.reward /\ x.token = y.token => x = y
      BY DEF CastInv, OneRequest
    <2>2. \A x \in casts' : x.token < nextActivation /\ given[x.reward][x.token] = 0
      BY DEF CastInv, OneRequest
    <2>3. QED
      BY <2>1, <2>2 DEF CastInv, OneRequest, CastOncePerActivation
  <1>3. QED
    BY <1>1, <1>2 DEF CastInv, Documented

LEMMA CastTimerKeeps == ASSUME CastInv, NEW q \in casts, CastTimer(q) PROVE CastInv'
  <1> DEFINE p == [q EXCEPT !.at = "task"]
  <1>1. p \in CastRequest /\ p.reward = q.reward /\ p.token = q.token
    BY DEF CastInv, CastTypeOK, CastRequest
  <1>2. casts' \subseteq (casts \ {q}) \cup {p}
    BY DEF CastTimer
  <1> HIDE DEF p
  <1>3. QED
    BY <1>1, <1>2, MovedRequest DEF CastTimer

LEMMA CastTaskKeeps == ASSUME CastInv, NEW q \in casts, CastTask(q) PROVE CastInv'
  <1>1. UNCHANGED <<ruleVersion, applied, nextActivation, generation_C, saved_C>>
    BY DEF CastTask
  <1>2. q \in CastRequest
    BY DEF CastInv, CastTypeOK
  <1>3. CASE casts' \subseteq (casts \ {q}) \cup Retried(q) /\ UNCHANGED <<effects, given>>
    <2> DEFINE p == [q EXCEPT !.attempt = @ + 1, !.at = "timer"]
    <2>1. p \in CastRequest /\ p.reward = q.reward /\ p.token = q.token
      <3>1. q.attempt + 1 \in Nat
        BY <1>2 DEF CastRequest
      <3>2. \A n \in Nat : LET x == [q EXCEPT !.attempt = n, !.at = "timer"] IN
                x \in CastRequest /\ x.reward = q.reward /\ x.token = q.token
        BY <1>2 DEF CastRequest
      <3>3. QED
        BY <3>1, <3>2
    <2>2. casts' \subseteq (casts \ {q}) \cup {p}
      BY <1>3 DEF Retried
    <2> HIDE DEF p
    <2>3. QED
      BY <1>1, <1>3, <2>1, <2>2, MovedRequest
  <1>4. CASE Cast(q) /\ StillActive(q) /\ casts' = casts \ {q}
    <2> DEFINE r == q.reward
               t == q.token
    <2>1. /\ r \in CastRewards /\ t \in Activations /\ t < nextActivation /\ given[r][t] = 0
      BY <1>2 DEF CastRequest, CastInv, OneRequest
    <2>2. /\ effects' = effects \cup {r} /\ given' = [given EXCEPT ![r][t] = @ + 1]
          /\ applied.active /\ r \in applied.keys
      BY <1>4 DEF Cast, StillActive
    <2> HIDE DEF r, t
    <2>3. /\ given' \in [CastRewards -> [Activations -> Nat]]
          /\ given'[r][t] = 1
          /\ \A x \in CastRewards, y \in Activations :
                 x # r \/ y # t => given'[x][y] = given[x][y]
      BY <2>1, <2>2 DEF CastInv, CastTypeOK
    <2>4. CastTypeOK'
      BY <1>1, <1>4, <2>3 DEF CastInv, CastTypeOK
    <2>5. \A p \in casts' : p \in casts /\ p \in CastRequest /\ (p.reward # r \/ p.token # t)
      BY <1>4 DEF CastInv, CastTypeOK, OneRequest, r, t
    <2>6. \A p \in casts' : p.token < nextActivation /\ given'[p.reward][p.token] = 0
      BY <2>3, <2>5 DEF CastInv, OneRequest, CastRequest
    <2>7. \A x \in CastRewards, y \in Activations : y >= nextActivation => given'[x][y] = 0
      BY <2>1, <2>3 DEF CastInv, OneRequest, CastTypeOK, Activations
    <2>8. CastOncePerActivation'
      BY <2>3 DEF CastInv, OneRequest, CastOncePerActivation
    <2>9. OneRequest'
      BY <1>1, <2>5, <2>6, <2>7, <2>8 DEF CastInv, OneRequest
    <2>10. QED
      BY <1>1, <2>2, <2>4, <2>9 DEF CastInv, Documented
  <1>5. QED
    BY <1>3, <1>4 DEF CastTask

LEMMA CastStep == CastInv /\ [CastNext]_castVars => CastInv'
  <1> SUFFICES ASSUME CastInv, [CastNext]_castVars PROVE CastInv'
    OBVIOUS
  <1>a. ASSUME UNCHANGED <<nextActivation, casts, given>>, CastTypeOK',
               Documented(applied, effects)', Documented(saved_C.applied, saved_C.effects)'
        PROVE  CastInv'
    BY <1>a DEF CastInv, OneRequest, CastOncePerActivation
  <1>1. CASE ReactivateRule
    <2>1. applied' = [applied EXCEPT !.active = TRUE]
          /\ UNCHANGED <<ruleVersion, nextActivation, casts, generation_C, effects, saved_C, given>>
      BY <1>1 DEF ReactivateRule
    <2>2. applied' \in Applied_C /\ applied'.active /\ applied'.keys = applied.keys
      BY <2>1 DEF CastInv, CastTypeOK, Applied_C
    <2>3. QED
      BY <1>a, <2>1, <2>2 DEF CastInv, CastTypeOK, Documented
  <1>2. CASE ConditionsChange \/ ActorMoves
    BY <1>2, <1>a DEF ConditionsChange, ActorMoves, CastInv, CastTypeOK, Documented
  <1>3. CASE EffectEnds
    BY <1>3, <1>a DEF EffectEnds, CastInv, CastTypeOK, Documented
  <1>4. CASE EditCasts
    BY <1>4, <1>a DEF EditCasts, CastInv, CastTypeOK, Documented
  <1>5. CASE SaveCasts
    <2> DEFINE a == [applied EXCEPT !.token = 0]
    <2>1. a \in Applied_C /\ a.keys = applied.keys /\ a.active = applied.active
      BY DEF CastInv, CastTypeOK, Applied_C
    <2>2. /\ saved_C'.applied = a /\ saved_C'.effects = effects
          /\ UNCHANGED <<ruleVersion, applied, nextActivation, casts, generation_C, effects, given>>
      BY <1>5 DEF SaveCasts
    <2> HIDE DEF a
    <2>3. QED
      BY <1>a, <2>1, <2>2 DEF CastInv, CastTypeOK, Documented
  <1>6. CASE BeginLoad_C
    BY <1>6, <1>a DEF BeginLoad_C, CastInv, CastTypeOK, Documented
  <1>7. CASE EndLoad_C
    BY <1>7, <1>a DEF EndLoad_C, CastInv, CastTypeOK, Documented
  <1>8. CASE UNCHANGED castVars
    BY <1>8, <1>a DEF castVars, CastInv, CastTypeOK, Documented
  <1>9. QED
    BY <1>1, <1>2, <1>3, <1>4, <1>5, <1>6, <1>7, <1>8, EndKeeps, ActivateKeeps, CastTimerKeeps,
       CastTaskKeeps DEF CastNext

\* IsSpellRewardStillActive, ProcessSafeSpellRewardCast and
\* RemoveAppliedActivationRewards: whatever number of requests of other activations,
\* versions and games are on their way, an activation casts a reward at most once, and
\* every temporary effect belongs to an activation that will dispel it.
THEOREM CastsAccounted == CastSpec => []CastsAreAccounted
  <1>1. CastInv => CastsAreAccounted
    BY DEF CastInv, OneRequest, Documented, CastsAreAccounted, EffectIsDocumented
  <1>2. QED
    BY <1>1, CastInitially, CastStep, PTL DEF CastSpec

----------------------------------------------------------------------------
(* The updates that wait for the main thread.                              *)

SleepUpdate == [token : Nat, entering : BOOLEAN]

AtWork(places) == [at : places, actor : Sleepers, entering : BOOLEAN, token : Nat]

MainTask ==
    [kind : {"sleep"}, actor : Sleepers, token : Nat, generation : Nat]
    \cup [kind : {"followers"}, actor : {NoReport}, token : Nat, generation : Nat]

DeferredTypeOK ==
    /\ sleepUpdates \in [Sleepers -> SleepUpdate \cup {NoReport}]
    /\ sleepStates \in [Sleepers -> BOOLEAN \cup {NoReport}]
    /\ lastReport \in [Sleepers -> BOOLEAN \cup {NoReport}]
    /\ sleepToken \in Nat
    /\ reporting \in [Reporters -> AtWork({"lock", "post"}) \cup {NotReporting}]
    /\ mainTasks \in Seq(MainTask)
    /\ storing \in AtWork({"store"}) \cup {NotReporting}
    /\ refreshToken \in Nat
    /\ generation_F \in Nat
    /\ \A w \in refreshTimers : w.token \in Nat /\ w.generation \in Nat
    /\ lookOwed \in BOOLEAN
    /\ suspended_F \in BOOLEAN

\* What waits is the last report; so is what the main thread is about to store, as long
\* as nothing came to wait since.
WaitingIsLast ==
    /\ \A a \in Sleepers : sleepUpdates[a] # NoReport => sleepUpdates[a].entering = lastReport[a]
    /\ storing # NotReporting /\ sleepUpdates[storing.actor] = NoReport =>
          storing.entering = lastReport[storing.actor]

SleepOnItsWay ==
    \A a \in Sleepers : sleepUpdates[a] # NoReport =>
        \/ \E i \in DOMAIN mainTasks :
            mainTasks[i].actor = a /\ mainTasks[i].token = sleepUpdates[a].token
        \/ \E t \in Reporters :
            /\ reporting[t].at = "post" /\ reporting[t].actor = a
            /\ reporting[t].token = sleepUpdates[a].token

\* While the evaluation is suspended nothing is owed, so that the task that finds it
\* suspended may return.
LookOnItsWay ==
    lookOwed =>
        /\ ~suspended_F
        /\ \/ \E w \in refreshTimers : w.token = refreshToken /\ w.generation = generation_F
           \/ \E i \in DOMAIN mainTasks :
                /\ mainTasks[i].kind = "followers"
                /\ mainTasks[i].token = refreshToken /\ mainTasks[i].generation = generation_F

SleepInv == WaitingIsLast /\ SleepIsLast
DeferredInv == DeferredTypeOK /\ SleepInv /\ SleepOnItsWay /\ LookOnItsWay

LEMMA NotReportingFields ==
    /\ NotReporting.at = "idle" /\ NotReporting.actor = NoReport
    /\ \A places : \A w \in AtWork(places) :
          /\ w.at \in places /\ w.actor \in Sleepers /\ w.entering \in BOOLEAN /\ w.token \in Nat
          /\ w.actor # NoReport
  BY DeferredAssumption DEF NotReporting, AtWork

LEMMA MarksApart ==
    /\ \A u \in SleepUpdate : u # NoReport
    /\ NoReport \notin BOOLEAN /\ NoReport \notin Sleepers
  BY DeferredAssumption DEF SleepUpdate

LEMMA DeferredInitially == DeferredInit => DeferredInv
  <1> SUFFICES ASSUME DeferredInit PROVE DeferredInv
    OBVIOUS
  <1>1. DeferredTypeOK
    <2>1. \A T : NoUpdates \in [Sleepers -> T \cup {NoReport}]
      BY DEF NoUpdates
    <2>2. mainTasks \in Seq(MainTask)
      BY DEF DeferredInit
    <2>3. reporting \in [Reporters -> AtWork({"lock", "post"}) \cup {NotReporting}]
      BY DEF DeferredInit
    <2>4. QED
      BY <2>1, <2>2, <2>3 DEF DeferredInit, DeferredTypeOK
  <1>2. SleepInv
    BY DEF DeferredInit, SleepInv, WaitingIsLast, SleepIsLast, NoUpdates
  <1>3. SleepOnItsWay /\ LookOnItsWay
    BY DEF DeferredInit, SleepOnItsWay, LookOnItsWay, NoUpdates
  <1>4. QED
    BY <1>1, <1>2, <1>3 DEF DeferredInv

\* A task at the end of the queue.
LEMMA TaskAdded ==
    ASSUME mainTasks \in Seq(MainTask), NEW q \in MainTask, mainTasks' = Append(mainTasks, q)
    PROVE  /\ mainTasks' \in Seq(MainTask)
           /\ \A i \in DOMAIN mainTasks : i \in DOMAIN mainTasks' /\ mainTasks'[i] = mainTasks[i]
           /\ \E i \in DOMAIN mainTasks' : mainTasks'[i] = q
  <1>1. Len(mainTasks) + 1 \in DOMAIN mainTasks' /\ mainTasks'[Len(mainTasks) + 1] = q
    OBVIOUS
  <1>2. QED
    BY <1>1

\* The first task is gone; any other one is still there.
LEMMA TaskTaken ==
    ASSUME mainTasks \in Seq(MainTask), mainTasks # <<>>, mainTasks' = Tail(mainTasks)
    PROVE  /\ mainTasks' \in Seq(MainTask) /\ Head(mainTasks) \in MainTask
           /\ \A i \in DOMAIN mainTasks : mainTasks[i] = Head(mainTasks)
                  \/ \E j \in DOMAIN mainTasks' : mainTasks'[j] = mainTasks[i]
  <1>1. \A i \in DOMAIN mainTasks : i # 1 =>
            i - 1 \in DOMAIN Tail(mainTasks) /\ Tail(mainTasks)[i - 1] = mainTasks[i]
    OBVIOUS
  <1>2. mainTasks[1] = Head(mainTasks) /\ Head(mainTasks) \in MainTask /\ Tail(mainTasks) \in Seq(MainTask)
    OBVIOUS
  <1>3. ASSUME NEW i \in DOMAIN mainTasks
        PROVE  mainTasks[i] = Head(mainTasks) \/ \E j \in DOMAIN mainTasks' : mainTasks'[j] = mainTasks[i]
    BY <1>1, <1>2
  <1>4. QED
    BY <1>2, <1>3

LEMMA TakeTokenKeeps ==
    ASSUME DeferredInv, NEW t \in Reporters, NEW a \in Sleepers, NEW entering \in BOOLEAN,
           TakeToken(t, a, entering)
    PROVE  DeferredInv'
  <1> DEFINE w == [at |-> "lock", actor |-> a, entering |-> entering, token |-> sleepToken]
  <1>1. w \in AtWork({"lock", "post"}) /\ w.at = "lock"
    BY DEF AtWork, DeferredInv, DeferredTypeOK
  <1>2. reporting' = [reporting EXCEPT ![t] = w] /\ reporting[t] = NotReporting
        /\ sleepToken' = sleepToken + 1
        /\ UNCHANGED <<sleepUpdates, sleepStates, storing, lastReport, followerVars, mainTasks,
                       generation_F, suspended_F>>
    BY DEF TakeToken
  <1> HIDE DEF w
  <1>3. DeferredTypeOK'
    BY <1>1, <1>2 DEF DeferredInv, DeferredTypeOK, followerVars
  <1>4. SleepInv'
    BY <1>2 DEF DeferredInv, SleepInv, WaitingIsLast, SleepIsLast
  <1>5. \A u \in Reporters : reporting[u].at = "post" => reporting'[u] = reporting[u]
    BY <1>2, NotReportingFields DEF DeferredInv, DeferredTypeOK
  <1>6. SleepOnItsWay' /\ LookOnItsWay'
    BY <1>2, <1>5 DEF DeferredInv, SleepOnItsWay, LookOnItsWay, followerVars
  <1>7. QED
    BY <1>3, <1>4, <1>6 DEF DeferredInv

LEMMA JoinKeeps ==
    ASSUME DeferredInv, NEW t \in Reporters, JoinUpdate(t)
    PROVE  DeferredInv'
  <1> DEFINE w == reporting[t]
             old == sleepUpdates[w.actor]
             new == Joined(old, w.token, w.entering)
             goes == IF old = NoReport THEN [w EXCEPT !.at = "post"] ELSE NotReporting
  <1>1. w \in AtWork({"lock", "post"}) /\ w.at = "lock"
    BY NotReportingFields DEF JoinUpdate, DeferredInv, DeferredTypeOK
  <1>2. w.actor \in Sleepers /\ w.entering \in BOOLEAN /\ w.token \in Nat
    BY <1>1, NotReportingFields
  <1>3. /\ sleepUpdates' = [sleepUpdates EXCEPT ![w.actor] = new]
        /\ lastReport' = [lastReport EXCEPT ![w.actor] = w.entering]
        /\ reporting' = [reporting EXCEPT ![t] = goes]
        /\ UNCHANGED <<sleepStates, sleepToken, storing, followerVars, mainTasks, generation_F,
                       suspended_F>>
    BY DEF JoinUpdate
  <1>4. old \in SleepUpdate \cup {NoReport}
    BY <1>2 DEF DeferredInv, DeferredTypeOK
  <1>5. /\ new \in SleepUpdate /\ new.entering = w.entering
        /\ new.token = IF old = NoReport THEN w.token ELSE old.token
    BY <1>2, <1>4 DEF Joined, SleepUpdate
  <1>6. goes \in AtWork({"lock", "post"}) \cup {NotReporting}
    BY <1>1 DEF AtWork
  <1>7. old = NoReport => goes.at = "post" /\ goes.actor = w.actor /\ goes.token = w.token
    BY <1>1 DEF AtWork
  <1> HIDE DEF w, old, new, goes
  <1>8. DeferredTypeOK'
    BY <1>2, <1>3, <1>5, <1>6 DEF DeferredInv, DeferredTypeOK, followerVars
  <1>9. SleepInv'
    <2>1. \A b \in Sleepers : IF b = w.actor
              THEN sleepUpdates'[b] = new /\ lastReport'[b] = w.entering
              ELSE sleepUpdates'[b] = sleepUpdates[b] /\ lastReport'[b] = lastReport[b]
      BY <1>2, <1>3 DEF DeferredInv, DeferredTypeOK
    <2>2. new # NoReport
      BY <1>5, MarksApart
    <2>3. storing # NotReporting => storing.actor \in Sleepers
      BY NotReportingFields DEF DeferredInv, DeferredTypeOK
    <2>4. WaitingIsLast'
      BY <1>3, <1>5, <2>1, <2>2, <2>3 DEF DeferredInv, SleepInv, WaitingIsLast
    <2>5. SleepIsLast'
      BY <1>3, <2>1, <2>2 DEF DeferredInv, SleepInv, SleepIsLast
    <2>6. QED
      BY <2>4, <2>5 DEF SleepInv
  <1>10. SleepOnItsWay'
    <2>1. /\ \A b \in Sleepers : sleepUpdates'[b] = IF b = w.actor THEN new ELSE sleepUpdates[b]
          /\ \A u \in Reporters : reporting'[u] = IF u = t THEN goes ELSE reporting[u]
          /\ UNCHANGED mainTasks
      BY <1>2, <1>3 DEF DeferredInv, DeferredTypeOK
    <2>2. reporting[t].at # "post"
      BY <1>1 DEF w
    <2>3. ASSUME NEW b \in Sleepers, sleepUpdates[b] # NoReport
          PROVE  \/ \E i \in DOMAIN mainTasks' :
                      mainTasks'[i].actor = b /\ mainTasks'[i].token = sleepUpdates[b].token
                 \/ \E u \in Reporters :
                      /\ reporting'[u].at = "post" /\ reporting'[u].actor = b
                      /\ reporting'[u].token = sleepUpdates[b].token
      BY <2>1, <2>2, <2>3 DEF DeferredInv, SleepOnItsWay
    <2>4. CASE old = NoReport
      BY <1>5, <1>7, <2>1, <2>3, <2>4 DEF SleepOnItsWay
    <2>5. CASE old # NoReport
      <3>1. \A b \in Sleepers : sleepUpdates'[b] # NoReport =>
                sleepUpdates[b] # NoReport /\ sleepUpdates'[b].token = sleepUpdates[b].token
        BY <1>5, <2>1, <2>5 DEF old
      <3>2. QED
        BY <2>3, <3>1 DEF SleepOnItsWay
    <2>6. QED
      BY <2>4, <2>5
  <1>11. LookOnItsWay'
    BY <1>3 DEF DeferredInv, LookOnItsWay, followerVars
  <1>12. QED
    BY <1>8, <1>9, <1>10, <1>11 DEF DeferredInv

LEMMA PostKeeps ==
    ASSUME DeferredInv, NEW t \in Reporters, PostUpdate(t)
    PROVE  DeferredInv'
  <1> DEFINE w == reporting[t]
             q == [kind |-> "sleep", actor |-> w.actor, token |-> w.token, generation |-> 0]
  <1>1. w.actor \in Sleepers /\ w.token \in Nat
    BY NotReportingFields DEF PostUpdate, DeferredInv, DeferredTypeOK
  <1>2. q \in MainTask /\ q.actor = w.actor /\ q.token = w.token
    BY <1>1 DEF MainTask
  <1>3. /\ mainTasks' = Append(mainTasks, q)
        /\ reporting' = [reporting EXCEPT ![t] = NotReporting]
        /\ UNCHANGED <<sleepUpdates, sleepStates, sleepToken, storing, lastReport, followerVars,
                       generation_F, suspended_F>>
    BY DEF PostUpdate
  <1> HIDE DEF q
  <1>4. /\ mainTasks' \in Seq(MainTask)
        /\ \A i \in DOMAIN mainTasks : i \in DOMAIN mainTasks' /\ mainTasks'[i] = mainTasks[i]
        /\ \E i \in DOMAIN mainTasks' : mainTasks'[i] = q
    BY <1>2, <1>3, TaskAdded DEF DeferredInv, DeferredTypeOK
  <1>5. DeferredTypeOK'
    BY <1>3, <1>4 DEF DeferredInv, DeferredTypeOK, followerVars
  <1>6. SleepInv'
    BY <1>3 DEF DeferredInv, SleepInv, WaitingIsLast, SleepIsLast
  <1>7. \A u \in Reporters : u # t => reporting'[u] = reporting[u]
    BY <1>3 DEF DeferredInv, DeferredTypeOK
  <1>8. SleepOnItsWay'
    <2>1. SUFFICES ASSUME NEW b \in Sleepers, sleepUpdates[b] # NoReport
                   PROVE  \/ \E i \in DOMAIN mainTasks' :
                              mainTasks'[i].actor = b /\ mainTasks'[i].token = sleepUpdates[b].token
                          \/ \E u \in Reporters :
                              /\ reporting'[u].at = "post" /\ reporting'[u].actor = b
                              /\ reporting'[u].token = sleepUpdates[b].token
      BY <1>3 DEF SleepOnItsWay
    <2>2. CASE \E i \in DOMAIN mainTasks :
                 mainTasks[i].actor = b /\ mainTasks[i].token = sleepUpdates[b].token
      BY <1>4, <2>2
    <2>3. ASSUME NEW u \in Reporters, reporting[u].at = "post", reporting[u].actor = b,
                 reporting[u].token = sleepUpdates[b].token
          PROVE  \/ \E i \in DOMAIN mainTasks' :
                      mainTasks'[i].actor = b /\ mainTasks'[i].token = sleepUpdates[b].token
                 \/ \E v \in Reporters :
                      /\ reporting'[v].at = "post" /\ reporting'[v].actor = b
                      /\ reporting'[v].token = sleepUpdates[b].token
      BY <1>2, <1>4, <1>7, <2>3
    <2>4. QED
      BY <2>1, <2>2, <2>3 DEF DeferredInv, SleepOnItsWay
  <1>9. LookOnItsWay'
    BY <1>3, <1>4 DEF DeferredInv, LookOnItsWay, followerVars
  <1>10. QED
    BY <1>5, <1>6, <1>8, <1>9 DEF DeferredInv

LEMMA SleepTaskKeeps == ASSUME DeferredInv, SleepTask PROVE DeferredInv'
  <1> DEFINE q == Head(mainTasks)
             waiting == sleepUpdates[q.actor]
             taken == [at |-> "store", actor |-> q.actor, entering |-> waiting.entering,
                       token |-> q.token]
  <1>1. /\ storing = NotReporting /\ mainTasks # <<>> /\ mainTasks' = Tail(mainTasks)
        /\ q.kind = "sleep"
        /\ UNCHANGED <<sleepStates, sleepToken, reporting, lastReport, followerVars, generation_F,
                       suspended_F>>
    BY DEF SleepTask
  <1>2. /\ mainTasks' \in Seq(MainTask) /\ q \in MainTask
        /\ \A i \in DOMAIN mainTasks : mainTasks[i] = q
               \/ \E j \in DOMAIN mainTasks' : mainTasks'[j] = mainTasks[i]
    BY <1>1, TaskTaken DEF DeferredInv, DeferredTypeOK
  <1>3. q.actor \in Sleepers /\ q.token \in Nat
    BY <1>1, <1>2 DEF MainTask
  <1>4. LookOnItsWay'
    BY <1>1, <1>2 DEF DeferredInv, LookOnItsWay, followerVars
  <1>5. CASE waiting = NoReport \/ waiting.token # q.token
    <2>1. UNCHANGED <<storing, sleepUpdates>>
      BY <1>5 DEF SleepTask
    <2>2. DeferredTypeOK'
      BY <1>1, <1>2, <2>1 DEF DeferredInv, DeferredTypeOK, followerVars
    <2>3. SleepInv'
      BY <1>1, <2>1 DEF DeferredInv, SleepInv, WaitingIsLast, SleepIsLast
    <2>4. SleepOnItsWay'
      BY <1>1, <1>2, <1>5, <2>1 DEF DeferredInv, SleepOnItsWay
    <2>5. QED
      BY <1>4, <2>2, <2>3, <2>4 DEF DeferredInv
  <1>6. CASE waiting # NoReport /\ waiting.token = q.token
    <2>1. storing' = taken /\ sleepUpdates' = [sleepUpdates EXCEPT ![q.actor] = NoReport]
      BY <1>6 DEF SleepTask
    <2>2. waiting \in SleepUpdate /\ waiting.entering = lastReport[q.actor]
      BY <1>3, <1>6 DEF DeferredInv, DeferredTypeOK, SleepInv, WaitingIsLast
    <2>3. taken \in AtWork({"store"}) /\ taken.actor = q.actor /\ taken.entering = lastReport[q.actor]
      BY <1>3, <2>2 DEF AtWork, SleepUpdate
    <2> HIDE DEF taken, waiting, q
    <2>4. \A a \in Sleepers : sleepUpdates'[a] = IF a = q.actor THEN NoReport ELSE sleepUpdates[a]
      BY <1>3, <2>1 DEF DeferredInv, DeferredTypeOK
    <2>5. DeferredTypeOK'
      BY <1>1, <1>2, <1>3, <2>1, <2>3 DEF DeferredInv, DeferredTypeOK, followerVars
    <2>6. WaitingIsLast'
      BY <1>1, <2>1, <2>3, <2>4 DEF DeferredInv, SleepInv, WaitingIsLast
    <2>7. SleepIsLast'
      <3>1. ASSUME NEW a \in Sleepers, sleepUpdates'[a] = NoReport, storing'.actor # a
            PROVE  sleepStates[a] = lastReport[a]
        <4>1. sleepUpdates[a] = NoReport
          BY <2>1, <2>3, <2>4, <3>1
        <4>2. storing.actor # a
          BY <1>1, NotReportingFields, MarksApart
        <4>3. QED
          BY <4>1, <4>2 DEF DeferredInv, SleepInv, SleepIsLast
      <3>2. QED
        BY <1>1, <3>1 DEF SleepIsLast
    <2>8. SleepOnItsWay'
      <3>1. \A a \in Sleepers : sleepUpdates'[a] # NoReport =>
                a # q.actor /\ sleepUpdates'[a] = sleepUpdates[a]
        BY <2>4
      <3>2. QED
        BY <1>1, <1>2, <3>1 DEF DeferredInv, SleepOnItsWay
    <2>9. QED
      BY <1>4, <2>5, <2>6, <2>7, <2>8 DEF DeferredInv, SleepInv
  <1>7. QED
    BY <1>5, <1>6

LEMMA StoreKeeps == ASSUME DeferredInv, StoreSleep PROVE DeferredInv'
  <1>1. /\ storing # NotReporting /\ storing' = NotReporting
        /\ sleepStates' = [sleepStates EXCEPT ![storing.actor] = storing.entering]
        /\ UNCHANGED <<sleepUpdates, sleepToken, reporting, lastReport, followerVars, mainTasks,
                       generation_F, suspended_F>>
    BY DEF StoreSleep
  <1>2. storing \in AtWork({"store"}) /\ storing.actor \in Sleepers /\ storing.entering \in BOOLEAN
    BY <1>1, NotReportingFields DEF DeferredInv, DeferredTypeOK
  <1>3. DeferredTypeOK'
    BY <1>1, <1>2 DEF DeferredInv, DeferredTypeOK, followerVars
  <1>4. \A a \in Sleepers : sleepStates'[a] = IF a = storing.actor THEN storing.entering ELSE sleepStates[a]
    BY <1>1, <1>2 DEF DeferredInv, DeferredTypeOK
  <1>5. WaitingIsLast'
    BY <1>1 DEF DeferredInv, SleepInv, WaitingIsLast
  <1>6. SleepIsLast'
    BY <1>1, <1>2, <1>4 DEF DeferredInv, SleepInv, WaitingIsLast, SleepIsLast
  <1>7. SleepOnItsWay' /\ LookOnItsWay'
    BY <1>1 DEF DeferredInv, SleepOnItsWay, LookOnItsWay, followerVars
  <1>8. QED
    BY <1>3, <1>5, <1>6, <1>7 DEF DeferredInv, SleepInv

LEMMA ResetsKeep ==
    ASSUME DeferredInv, SuspendAndReset \/ \E a \in Sleepers : ForgetActor(a)
    PROVE  DeferredInv'
  <1>1. ASSUME NEW a \in Sleepers, ForgetActor(a)
        PROVE  DeferredInv'
    <2>1. /\ storing = NotReporting
          /\ sleepUpdates' = [sleepUpdates EXCEPT ![a] = NoReport]
          /\ sleepStates' = [sleepStates EXCEPT ![a] = NoReport]
          /\ lastReport' = [lastReport EXCEPT ![a] = NoReport]
          /\ UNCHANGED <<sleepToken, reporting, storing, followerVars, mainTasks, generation_F,
                         suspended_F>>
      BY <1>1 DEF ForgetActor
    <2>2. DeferredTypeOK'
      BY <2>1 DEF DeferredInv, DeferredTypeOK, followerVars
    <2>3. \A b \in Sleepers :
              /\ b = a => sleepUpdates'[b] = NoReport /\ sleepStates'[b] = lastReport'[b]
              /\ b # a => /\ sleepUpdates'[b] = sleepUpdates[b]
                          /\ sleepStates'[b] = sleepStates[b] /\ lastReport'[b] = lastReport[b]
      BY <2>1 DEF DeferredInv, DeferredTypeOK
    <2>4. SleepInv'
      BY <2>1, <2>3 DEF DeferredInv, SleepInv, WaitingIsLast, SleepIsLast
    <2>5. SleepOnItsWay' /\ LookOnItsWay'
      BY <2>1, <2>3 DEF DeferredInv, SleepOnItsWay, LookOnItsWay, followerVars
    <2>6. QED
      BY <2>2, <2>4, <2>5 DEF DeferredInv
  <1>2. CASE SuspendAndReset
    <2>1. /\ storing = NotReporting /\ suspended_F' = TRUE
          /\ generation_F' = generation_F + 1 /\ refreshToken' = refreshToken + 1
          /\ sleepUpdates' = NoUpdates /\ sleepStates' = NoUpdates /\ lastReport' = NoUpdates
          /\ lookOwed' = FALSE
          /\ UNCHANGED <<sleepToken, reporting, storing, mainTasks, refreshTimers>>
      BY <1>2 DEF SuspendAndReset
    <2>2. /\ NoUpdates \in [Sleepers -> SleepUpdate \cup {NoReport}]
          /\ NoUpdates \in [Sleepers -> BOOLEAN \cup {NoReport}]
      BY DEF NoUpdates
    <2>3. DeferredTypeOK'
      <3>1. DeferredTypeOK
        BY DEF DeferredInv
      <3>2. generation_F' \in Nat /\ refreshToken' \in Nat
        BY <2>1, <3>1 DEF DeferredTypeOK
      <3>3. QED
        BY <2>1, <2>2, <3>1, <3>2 DEF DeferredTypeOK
    <2>4. SleepInv' /\ SleepOnItsWay' /\ LookOnItsWay'
      BY <2>1 DEF SleepInv, WaitingIsLast, SleepIsLast, SleepOnItsWay, LookOnItsWay, NoUpdates
    <2>5. QED
      BY <2>3, <2>4 DEF DeferredInv
  <1>3. QED
    BY <1>1, <1>2

\* What only concerns the followers leaves the sleep of the actors.
LEMMA FollowersKeep ==
    ASSUME DeferredInv,
           Resume_F \/ DialogueCloses \/ FollowerTask \/ \E w \in refreshTimers : FollowerTimer(w)
    PROVE  DeferredInv'
  <1>1. UNCHANGED <<sleepUpdates, sleepStates, sleepToken, reporting, storing, lastReport>>
    BY DEF Resume_F, DialogueCloses, FollowerTask, FollowerTimer, sleepVars
  <1>2. SleepInv'
    BY <1>1 DEF DeferredInv, SleepInv, WaitingIsLast, SleepIsLast
  <1>3. CASE Resume_F
    <2>1. suspended_F' = FALSE /\ UNCHANGED <<followerVars, mainTasks, generation_F>>
      BY <1>3 DEF Resume_F
    <2>2. QED
      BY <1>1, <1>2, <2>1 DEF DeferredInv, DeferredTypeOK, SleepOnItsWay, LookOnItsWay, followerVars
  <1>4. CASE DialogueCloses
    <2> DEFINE w == [generation |-> generation_F, token |-> NewToken]
    <2>1. /\ ~suspended_F /\ refreshToken' = refreshToken + 1 /\ lookOwed' = TRUE
          /\ refreshTimers' = refreshTimers \cup {w}
          /\ UNCHANGED <<mainTasks, generation_F, suspended_F>>
      BY <1>4 DEF DialogueCloses
    <2>2. w.token = refreshToken + 1 /\ w.generation = generation_F
      BY DEF NewToken
    <2> HIDE DEF w
    <2>3. DeferredTypeOK'
      BY <1>1, <2>1, <2>2 DEF DeferredInv, DeferredTypeOK
    <2>4. SleepOnItsWay' /\ LookOnItsWay'
      BY <1>1, <2>1, <2>2 DEF DeferredInv, SleepOnItsWay, LookOnItsWay
    <2>5. QED
      BY <1>2, <2>3, <2>4 DEF DeferredInv
  <1>5. ASSUME NEW w \in refreshTimers, FollowerTimer(w)
        PROVE  DeferredInv'
    <2> DEFINE q == [kind |-> "followers", actor |-> NoReport, token |-> w.token,
                     generation |-> w.generation]
    <2>1. q \in MainTask /\ q.kind = "followers" /\ q.token = w.token /\ q.generation = w.generation
      BY <1>5 DEF MainTask, DeferredInv, DeferredTypeOK
    <2>2. /\ mainTasks' = Append(mainTasks, q) /\ refreshTimers' = refreshTimers \ {w}
          /\ UNCHANGED <<refreshToken, lookOwed, generation_F, suspended_F>>
      BY <1>5 DEF FollowerTimer
    <2> HIDE DEF q
    <2>3. /\ mainTasks' \in Seq(MainTask)
          /\ \A i \in DOMAIN mainTasks : i \in DOMAIN mainTasks' /\ mainTasks'[i] = mainTasks[i]
          /\ \E i \in DOMAIN mainTasks' : mainTasks'[i] = q
      BY <2>1, <2>2, TaskAdded DEF DeferredInv, DeferredTypeOK
    <2>4. DeferredTypeOK'
      BY <1>1, <2>2, <2>3 DEF DeferredInv, DeferredTypeOK
    <2>5. SleepOnItsWay'
      BY <1>1, <2>3 DEF DeferredInv, SleepOnItsWay
    <2>6. LookOnItsWay'
      BY <2>1, <2>2, <2>3 DEF DeferredInv, LookOnItsWay
    <2>7. QED
      BY <1>2, <2>4, <2>5, <2>6 DEF DeferredInv
  <1>6. CASE FollowerTask
    <2> DEFINE q == Head(mainTasks)
    <2>1. /\ mainTasks # <<>> /\ mainTasks' = Tail(mainTasks) /\ q.kind = "followers"
          /\ lookOwed' = (/\ lookOwed
                          /\ suspended_F \/ q.token # refreshToken \/ q.generation # generation_F)
          /\ UNCHANGED <<refreshToken, refreshTimers, generation_F, suspended_F>>
      BY <1>6 DEF FollowerTask
    <2>2. /\ mainTasks' \in Seq(MainTask) /\ q \in MainTask
          /\ \A i \in DOMAIN mainTasks : mainTasks[i] = q
                 \/ \E j \in DOMAIN mainTasks' : mainTasks'[j] = mainTasks[i]
      BY <2>1, TaskTaken DEF DeferredInv, DeferredTypeOK
    <2>3. q.actor = NoReport
      BY <2>1, <2>2 DEF MainTask
    <2> HIDE DEF q
    <2>4. DeferredTypeOK'
      BY <1>1, <2>1, <2>2 DEF DeferredInv, DeferredTypeOK
    <2>5. SleepOnItsWay'
      BY <1>1, <2>2, <2>3, MarksApart DEF DeferredInv, SleepOnItsWay
    <2>6. LookOnItsWay'
      BY <2>1, <2>2 DEF DeferredInv, LookOnItsWay
    <2>7. QED
      BY <1>2, <2>4, <2>5, <2>6 DEF DeferredInv
  <1>7. QED
    BY <1>3, <1>4, <1>5, <1>6

LEMMA DeferredStep == DeferredInv /\ [DeferredNext]_deferredVars => DeferredInv'
  <1> SUFFICES ASSUME DeferredInv, [DeferredNext]_deferredVars PROVE DeferredInv'
    OBVIOUS
  <1>1. CASE UNCHANGED deferredVars
    BY <1>1 DEF deferredVars, sleepVars, followerVars, DeferredInv, DeferredTypeOK, SleepInv,
                WaitingIsLast, SleepIsLast, SleepOnItsWay, LookOnItsWay
  <1>2. ASSUME NEW t \in Reporters,
               \/ \E a \in Sleepers, entering \in BOOLEAN : TakeToken(t, a, entering)
               \/ JoinUpdate(t) \/ PostUpdate(t)
        PROVE  DeferredInv'
    BY <1>2, TakeTokenKeeps, JoinKeeps, PostKeeps
  <1>3. QED
    BY <1>1, <1>2, SleepTaskKeeps, StoreKeeps, ResetsKeep, FollowersKeep DEF DeferredNext

\* ScheduleSleepOutfitUpdate and QueueFollowerStateRefreshAfterDialogue: however the
\* reports of any number of threads, the resets and the dialogues meet, the recorded
\* sleep is the last one reported, and no update that waits is without its task.
THEOREM DeferredArrive == DeferredSpec => []UpdatesArrive
  <1>1. DeferredInv => UpdatesArrive
    BY DEF DeferredInv, SleepInv, SleepOnItsWay, LookOnItsWay, UpdatesArrive, UpdatesAreOnTheirWay
  <1>2. QED
    BY <1>1, DeferredInitially, DeferredStep, PTL DEF DeferredSpec

----------------------------------------------------------------------------
(* The actor values (ActorValueLedger).                                    *)

\* What holds at 0 and survives every step up to n holds at n.
LEMMA UpTo ==
    ASSUME NEW n \in Nat, NEW S, 0 \in S, \A k \in 0..(n - 1) : k \in S => k + 1 \in S
    PROVE  \A k \in 0..n : k \in S
  <1> DEFINE Missing == {k \in 0..n : k \notin S}
  <1>1. SUFFICES ASSUME Missing # {} PROVE FALSE
    OBVIOUS
  <1>2. PICK k \in Missing : \A j \in Missing : k <= j
    <2>1. Missing \subseteq Nat
      OBVIOUS
    <2> HIDE DEF Missing
    <2>. QED BY <1>1, <2>1, LeastOf
  <1>3. k - 1 \in 0..(n - 1) /\ k - 1 \notin Missing
    BY <1>2
  <1>. QED BY <1>2, <1>3

\* The folds of the library take the greatest index last.
LEMMA MaxIs ==
    ASSUME NEW k \in Nat, NEW s \in SUBSET (1..(k + 1)), k + 1 \in s
    PROVE  Max(s) = k + 1
  <1>1. \A x \in s : (\A y \in s : x >= y) => x = k + 1
    OBVIOUS
  <1>2. k + 1 \in s /\ \A y \in s : k + 1 >= y
    OBVIOUS
  <1>. QED BY <1>1, <1>2 DEF Max


\* The keys that an older EDF may have put on the actor itself.
Values == OfKind(MutationKeys, "value")

NumericRecord == [known : BOOLEAN, active : BOOLEAN, version : 0..2, reroll : BOOLEAN,
                  keys : SUBSET MutationKeys, lasting : SUBSET MutationKeys,
                  legacy : SUBSET MutationKeys]

\* A rule's record has the rule's rewards, and a rule that never applied is not active.
NumericWell(r, s) ==
    /\ s \in NumericRecord
    /\ s.keys \cup s.lasting \cup s.legacy \subseteq KeysOf(r)
    /\ s.version = 0 => ~s.active

\* What the library may be asked, about the keys of S or by a list request.
Removals(S) == {[op |-> "remove", keys |-> T] : T \in SUBSET S}
Requests(S) == {Upsert(k) : k \in S} \cup Removals(S)
ListRequests == [op : {"list"}, kind : NumericKinds, desired : SUBSET MutationKeys]
AllRequests == Requests(MutationKeys) \cup ListRequests

\* What a sequence of requests does to a key: it asks for it, never takes it away, leaves
\* it there whatever was before, or takes it away at last.
Removes(q, k) == q.op = "remove" /\ k \in q.keys
AsksFor(s, k) == \E i \in DOMAIN s : s[i] = Upsert(k)
Spares(s, k) == \A i \in DOMAIN s : ~Removes(s[i], k)
Sets(s, k) == \E i \in DOMAIN s : /\ s[i] = Upsert(k)
                                  /\ \A j \in DOMAIN s : j > i => ~Removes(s[j], k)
Clears(s, k) == \E i \in DOMAIN s :
    \/ Removes(s[i], k)
    \/ s[i].op = "list" /\ s[i].kind = Numeric[k].kind /\ k \notin s[i].desired

\* A delta of an older EDF is in the record, or will be when the rule is migrated.
Tracked(s, k) == k \in s.legacy \/ (~s.known /\ s.version # 0)

\* A game, the present one or the saved: a delta that still counts has no contribution
\* beside it, and the history knows of it.
GameWell(ents, on, states, lost) ==
    /\ ents \subseteq MutationKeys /\ on \subseteq Values
    /\ DOMAIN states = ValueRules /\ \A r \in ValueRules : NumericWell(r, states[r])
    /\ \A k \in on \ lost : k \notin ents /\ Tracked(states[Numeric[k].rule], k)

\* After a quiet pass the requests that wait bring the library to what the rules want.
QuietWell ==
    /\ requests # <<>> => isReady
    /\ \A r \in ValueRules : numericOf[r].active => \A k \in numericOf[r].keys :
          Sets(requests, k) \/ (k \in entries /\ Spares(requests, k))
    /\ \A k \in MutationKeys \ Desired(numericOf) :
          ~AsksFor(requests, k) /\ (k \in entries => Clears(requests, k))
    /\ \A i \in DOMAIN requests :
          requests[i].op = "list" => requests[i].desired = Desired(numericOf)

\* The invariant.
LedgerWell ==
    /\ isReady \in BOOLEAN /\ requests \in Seq(AllRequests)
    /\ DOMAIN ruleNow = ValueRules /\ \A r \in ValueRules : ruleNow[r] \in 0..2
    /\ GameWell(entries, direct, numericOf, stray)
    /\ GameWell(saved_L.entries, saved_L.direct, saved_L.numericOf, saved_L.stray)
    /\ \A k \in direct \ stray : ~AsksFor(requests, k)
    /\ quiet => QuietWell
----------------------------------------------------------------------------
(* Sequences of requests.                                                  *)

\* Every key has one rule and one kind.
LEMMA KeysAre ==
    /\ \A k \in MutationKeys : /\ Numeric[k].rule \in ValueRules /\ k \in KeysOf(Numeric[k].rule)
                               /\ Numeric[k].kind \in NumericKinds
    /\ \A r \in ValueRules : KeysOf(r) \subseteq MutationKeys
    /\ \A r \in ValueRules : \A k \in KeysOf(r) : Numeric[k].rule = r
    /\ Values \subseteq MutationKeys
  BY NumericAssumption DEF KeysOf, Values, OfKind

\* No request for a key is a removal, and each names its key.
LEMMA RequestsAre ==
    ASSUME NEW S, NEW k
    PROVE  /\ k \in S => Upsert(k) \in Requests(S)
           /\ Upsert(k).op = "upsert" /\ Upsert(k).keys = {k}
           /\ \A q : ~Removes(Upsert(q), k)
           /\ \A q : Upsert(q) = Upsert(k) => q = k
           /\ \A T \in SUBSET S : [op |-> "remove", keys |-> T] \in Removals(S)
           /\ \A q \in Removals(S) : q.op = "remove" /\ q.keys \subseteq S /\ q \in Requests(S)
           /\ \A q \in Removals(S) : q # Upsert(k)
  <1>1. /\ k \in S => Upsert(k) \in Requests(S)
        /\ Upsert(k).op = "upsert" /\ Upsert(k).keys = {k}
        /\ \A q : Upsert(q).op = "upsert" /\ Upsert(q).keys = {q}
    BY DEF Upsert, Requests
  <1>2. \A q : ~Removes(Upsert(q), k)
    BY <1>1 DEF Removes
  <1>3. ASSUME NEW q, Upsert(q) = Upsert(k) PROVE q = k
    <2>1. {q} = {k}
      BY <1>1, <1>3
    <2>. QED BY <2>1
  <1>4. \A T \in SUBSET S : [op |-> "remove", keys |-> T] \in Removals(S)
    BY DEF Removals
  <1>5. \A q \in Removals(S) : q.op = "remove" /\ q.keys \subseteq S /\ q \in Requests(S)
    BY DEF Removals, Requests
  <1>6. \A q \in Removals(S) : q # Upsert(k)
    BY <1>1, <1>5
  <1>. QED BY <1>1, <1>2, <1>3, <1>4, <1>5, <1>6

\* Which element of a concatenation is which.
LEMMA SeqCat ==
    ASSUME NEW R, NEW s \in Seq(R), NEW t \in Seq(R)
    PROVE  /\ s \o t \in Seq(R)
           /\ Len(s) \in Nat /\ Len(t) \in Nat /\ DOMAIN s = 1..Len(s) /\ DOMAIN t = 1..Len(t)
           /\ DOMAIN (s \o t) = 1..(Len(s) + Len(t))
           /\ \A i \in DOMAIN s : i \in DOMAIN (s \o t) /\ (s \o t)[i] = s[i]
           /\ \A i \in DOMAIN t : Len(s) + i \in DOMAIN (s \o t) /\ (s \o t)[Len(s) + i] = t[i]
           /\ \A i \in DOMAIN (s \o t) :
                 \/ i \in DOMAIN s /\ (s \o t)[i] = s[i]
                 \/ i - Len(s) \in DOMAIN t /\ (s \o t)[i] = t[i - Len(s)]
  OBVIOUS

\* What a concatenation asks for, spares, clears and sets, from its two parts.
LEMMA AsksCat ==
    ASSUME NEW R, NEW s \in Seq(R), NEW t \in Seq(R), NEW k
    PROVE  AsksFor(s \o t, k) <=> AsksFor(s, k) \/ AsksFor(t, k)
  <1> DEFINE u == s \o t
  <1>1. ASSUME NEW i \in DOMAIN u, u[i] = Upsert(k)
        PROVE  AsksFor(s, k) \/ AsksFor(t, k)
    <2>1. \/ i \in DOMAIN s /\ u[i] = s[i]
          \/ i - Len(s) \in DOMAIN t /\ u[i] = t[i - Len(s)]
      BY SeqCat
    <2>. QED BY <1>1, <2>1 DEF AsksFor
  <1>2. ASSUME NEW i \in DOMAIN s, s[i] = Upsert(k) PROVE AsksFor(u, k)
    <2>1. i \in DOMAIN u /\ u[i] = s[i]
      BY SeqCat
    <2>. QED BY <1>2, <2>1 DEF AsksFor
  <1>3. ASSUME NEW i \in DOMAIN t, t[i] = Upsert(k) PROVE AsksFor(u, k)
    <2>1. Len(s) + i \in DOMAIN u /\ u[Len(s) + i] = t[i]
      BY SeqCat
    <2>. QED BY <1>3, <2>1 DEF AsksFor
  <1> HIDE DEF u
  <1>4. AsksFor(u, k) <=> AsksFor(s, k) \/ AsksFor(t, k)
    BY <1>1, <1>2, <1>3 DEF AsksFor
  <1>. QED BY <1>4 DEF u

LEMMA SparesCat ==
    ASSUME NEW R, NEW s \in Seq(R), NEW t \in Seq(R), NEW k
    PROVE  Spares(s \o t, k) <=> Spares(s, k) /\ Spares(t, k)
  <1> DEFINE u == s \o t
  <1>1. ASSUME Spares(s, k), Spares(t, k), NEW i \in DOMAIN u
        PROVE  ~Removes(u[i], k)
    <2>1. \/ i \in DOMAIN s /\ u[i] = s[i]
          \/ i - Len(s) \in DOMAIN t /\ u[i] = t[i - Len(s)]
      BY SeqCat
    <2>. QED BY <1>1, <2>1 DEF Spares
  <1>2. ASSUME NEW i \in DOMAIN s, Spares(u, k) PROVE ~Removes(s[i], k)
    <2>1. i \in DOMAIN u /\ u[i] = s[i]
      BY SeqCat
    <2>. QED BY <1>2, <2>1 DEF Spares
  <1>3. ASSUME NEW i \in DOMAIN t, Spares(u, k) PROVE ~Removes(t[i], k)
    <2>1. Len(s) + i \in DOMAIN u /\ u[Len(s) + i] = t[i]
      BY SeqCat
    <2>. QED BY <1>3, <2>1 DEF Spares
  <1> HIDE DEF u
  <1>4. Spares(u, k) <=> Spares(s, k) /\ Spares(t, k)
    BY <1>1, <1>2, <1>3 DEF Spares
  <1>. QED BY <1>4 DEF u

LEMMA ClearsCat ==
    ASSUME NEW R, NEW s \in Seq(R), NEW t \in Seq(R), NEW k
    PROVE  Clears(s \o t, k) <=> Clears(s, k) \/ Clears(t, k)
  <1> DEFINE u == s \o t
             Hits(q) == \/ Removes(q, k)
                        \/ q.op = "list" /\ q.kind = Numeric[k].kind /\ k \notin q.desired
  <1>0. \A v : Clears(v, k) <=> \E i \in DOMAIN v : Hits(v[i])
    BY DEF Clears
  <1> HIDE DEF Hits
  <1>1. ASSUME NEW i \in DOMAIN u, Hits(u[i])
        PROVE  Clears(s, k) \/ Clears(t, k)
    <2>1. \/ i \in DOMAIN s /\ u[i] = s[i]
          \/ i - Len(s) \in DOMAIN t /\ u[i] = t[i - Len(s)]
      BY SeqCat
    <2>. QED BY <1>0, <1>1, <2>1
  <1>2. ASSUME NEW i \in DOMAIN s, Hits(s[i]) PROVE Clears(u, k)
    <2>1. i \in DOMAIN u /\ u[i] = s[i]
      BY SeqCat
    <2>. QED BY <1>0, <1>2, <2>1
  <1>3. ASSUME NEW i \in DOMAIN t, Hits(t[i]) PROVE Clears(u, k)
    <2>1. Len(s) + i \in DOMAIN u /\ u[Len(s) + i] = t[i]
      BY SeqCat
    <2>. QED BY <1>0, <1>3, <2>1
  <1> HIDE DEF u
  <1>4. Clears(u, k) <=> Clears(s, k) \/ Clears(t, k)
    BY <1>0, <1>1, <1>2, <1>3
  <1>. QED BY <1>4 DEF u

LEMMA SetsCat ==
    ASSUME NEW R, NEW s \in Seq(R), NEW t \in Seq(R), NEW k
    PROVE  /\ Sets(t, k) => Sets(s \o t, k)
           /\ Sets(s, k) /\ Spares(t, k) => Sets(s \o t, k)
  <1> DEFINE u == s \o t
  <1>1. ASSUME Sets(t, k) PROVE Sets(s \o t, k)
    <2>1. PICK i \in DOMAIN t : t[i] = Upsert(k) /\ \A j \in DOMAIN t : j > i => ~Removes(t[j], k)
      BY <1>1 DEF Sets
    <2>2. Len(s) + i \in DOMAIN u /\ u[Len(s) + i] = Upsert(k)
      BY <2>1, SeqCat
    <2>3. ASSUME NEW j \in DOMAIN u, j > Len(s) + i PROVE ~Removes(u[j], k)
      <3>1. Len(s) \in Nat /\ i \in Nat /\ j \in Nat /\ DOMAIN s = 1..Len(s)
        BY SeqCat
      <3>2. j - Len(s) \in DOMAIN t /\ u[j] = t[j - Len(s)] /\ j - Len(s) > i
        BY <2>3, <3>1, SeqCat
      <3>. QED BY <2>1, <3>2
    <2>. QED BY <2>2, <2>3 DEF Sets
  <1>2. ASSUME Sets(s, k), Spares(t, k) PROVE Sets(s \o t, k)
    <2>1. PICK i \in DOMAIN s : s[i] = Upsert(k) /\ \A j \in DOMAIN s : j > i => ~Removes(s[j], k)
      BY <1>2 DEF Sets
    <2>2. i \in DOMAIN u /\ u[i] = Upsert(k)
      BY <2>1, SeqCat
    <2>3. ASSUME NEW j \in DOMAIN u, j > i PROVE ~Removes(u[j], k)
      <3>1. \/ j \in DOMAIN s /\ u[j] = s[j]
            \/ j - Len(s) \in DOMAIN t /\ u[j] = t[j - Len(s)]
        BY SeqCat
      <3>. QED BY <1>2, <2>1, <2>3, <3>1 DEF Spares
    <2>. QED BY <2>2, <2>3 DEF Sets
  <1>. QED BY <1>1, <1>2

LEMMA EmptySays ==
    ASSUME NEW k
    PROVE  ~AsksFor(<<>>, k) /\ Spares(<<>>, k) /\ ~Clears(<<>>, k) /\ ~Sets(<<>>, k)
  BY DEF AsksFor, Spares, Clears, Sets

\* What a sequence of removals asks, and of requests for other keys.
LEMMA RemovalsAsk ==
    ASSUME NEW s, NEW k, NEW S, s \in Seq(Removals(S))
    PROVE  ~AsksFor(s, k)
  BY RequestsAre DEF AsksFor

LEMMA OthersSpare ==
    ASSUME NEW S, NEW s \in Seq(Requests(S)), NEW k, k \notin S
    PROVE  ~AsksFor(s, k) /\ Spares(s, k)
  BY DEF AsksFor, Spares, Requests, Removals, Removes, Upsert

\* A finite set is put into a sequence.
LEMMA Enumerated ==
    ASSUME NEW S, IsFiniteSet(S), NEW n, n = Cardinality(S), NEW f, f = SetToSeq(S)
    PROVE  /\ n \in Nat /\ f \in [1..n -> S]
           /\ \A x \in S : \E i \in 1..n : f[i] = x
  <1>1. n \in Nat /\ ExistsBijection(1..n, S)
    BY FS_CardinalityType
  <1>2. PICK g : g \in Bijection(1..n, S)
    BY <1>1 DEF ExistsBijection
  <1>3. g \in [1..n -> S] /\ IsInjective(g)
    BY <1>2 DEF Bijection, Injection, IsInjective
  <1>4. f \in [1..n -> S] /\ IsInjective(f)
    BY <1>3 DEF SetToSeq
  <1>5. ASSUME NEW x \in S, \A i \in 1..n : f[i] # x
        PROVE  FALSE
    <2>1. f \in [1..n -> S \ {x}]
      BY <1>4, <1>5
    <2>2. IsFiniteSet(S \ {x}) /\ Cardinality(S \ {x}) = n - 1
      BY FS_RemoveElement
    <2>3. IsFiniteSet(1..n) /\ Cardinality(1..n) = n
      BY <1>1, FS_Interval
    <2>4. Cardinality(S \ {x}) < Cardinality(1..n)
      BY <1>1, <2>2, <2>3
    <2>5. \E i, j \in 1..n : i # j /\ f[i] = f[j]
      <3> DEFINE D == 1..n
                 T == S \ {x}
      <3>1. IsFiniteSet(D) /\ IsFiniteSet(T) /\ Cardinality(T) < Cardinality(D) /\ f \in [D -> T]
        BY <2>1, <2>2, <2>3, <2>4
      <3> HIDE DEF D, T
      <3>2. \E i, j \in D : i # j /\ f[i] = f[j]
        BY <3>1, FS_PigeonHole
      <3>. QED BY <3>2 DEF D
    <2>. QED BY <1>4, <2>5 DEF IsInjective
  <1>. QED BY <1>1, <1>4, <1>5

\* SetToSeq puts every element of a finite set somewhere.
LEMMA InSequence ==
    ASSUME NEW S, IsFiniteSet(S)
    PROVE  /\ Cardinality(S) \in Nat
           /\ SetToSeq(S) \in [1..Cardinality(S) -> S]
           /\ SetToSeq(S) \in Seq(S) /\ Len(SetToSeq(S)) = Cardinality(S)
           /\ \A x \in S : \E i \in 1..Cardinality(S) : SetToSeq(S)[i] = x
  <1>1. \A n \in Nat : \A f \in [1..n -> S] : f \in Seq(S) /\ Len(f) = n
    OBVIOUS
  <1>2. /\ Cardinality(S) \in Nat /\ SetToSeq(S) \in [1..Cardinality(S) -> S]
        /\ \A x \in S : \E i \in 1..Cardinality(S) : SetToSeq(S)[i] = x
    BY Enumerated, Zenon
  <1>3. SetToSeq(S) \in Seq(S) /\ Len(SetToSeq(S)) = Cardinality(S)
    <2> DEFINE n == Cardinality(S)
               f == SetToSeq(S)
    <2>1. n \in Nat /\ f \in [1..n -> S]
      BY <1>2
    <2> HIDE DEF n, f
    <2>2. f \in Seq(S) /\ Len(f) = n
      BY <1>1, <2>1
    <2>. QED BY <2>2 DEF n, f
  <1>4. QED BY <1>2, <1>3

LEMMA KeysFinite ==
    ASSUME NEW S, S \subseteq MutationKeys
    PROVE  IsFiniteSet(S)
  BY NumericAssumption, FS_Subset

\* Sequences put one after the other.
InTurn(c, R, n, ss) ==
    /\ c \in [0..n -> Seq(R)] /\ c[0] = <<>> /\ FlattenSeq(ss) = c[n]
    /\ \A k \in 0..(n - 1) : c[k + 1] = c[k] \o ss[k + 1]

LEMMA Flattened ==
    ASSUME NEW R, NEW n \in Nat, NEW ss, ss \in [1..n -> Seq(R)]
    PROVE  \E c : InTurn(c, R, n, ss)
  <1>1. Len(ss) = n /\ DOMAIN ss = 1..n
    OBVIOUS
  <1> DEFINE Chain(k, c) == /\ c \in [0..k -> Seq(R)] /\ c[0] = <<>>
                            /\ \A j \in 0..(k - 1) : c[j + 1] = c[j] \o ss[j + 1]
             Sound == {k \in 0..n : \E c : Chain(k, c)}
  <1>2. n \in Sound
    <2>1. 0 \in Sound
      <3> DEFINE c == [k \in 0..0 |-> <<>>]
      <3>1. Chain(0, c)
        OBVIOUS
      <3> HIDE DEF Chain, c
      <3>. QED BY <3>1
    <2>2. ASSUME NEW k \in 0..(n - 1), k \in Sound
          PROVE  k + 1 \in Sound
      <3>1. PICK c : Chain(k, c)
        BY <2>2
      <3>2. k \in Nat /\ k + 1 \in 1..n /\ ss[k + 1] \in Seq(R) /\ k \in 0..k
        OBVIOUS
      <3> DEFINE d == [j \in 0..(k + 1) |-> IF j = k + 1 THEN c[k] \o ss[k + 1] ELSE c[j]]
      <3>3. \A j \in 0..(k + 1) : j = k + 1 \/ j \in 0..k
        BY <3>2
      <3>4. c[k] \o ss[k + 1] \in Seq(R)
        BY <3>1, <3>2
      <3>5. d \in [0..(k + 1) -> Seq(R)] /\ d[0] = <<>>
        BY <3>1, <3>2, <3>3, <3>4
      <3>6. ASSUME NEW j \in 0..((k + 1) - 1)
            PROVE  d[j + 1] = d[j] \o ss[j + 1]
        <4>1. j \in 0..k /\ j \in 0..(k + 1) /\ j + 1 \in 0..(k + 1) /\ j # k + 1
          BY <3>2
        <4>2. d[j] = c[j]
          BY <4>1
        <4>3. CASE j = k
          BY <4>1, <4>2, <4>3
        <4>4. CASE j # k
          <5>1. j \in 0..(k - 1) /\ j + 1 # k + 1
            BY <3>2, <4>1, <4>4
          <5>2. d[j + 1] = c[j + 1]
            BY <4>1, <5>1
          <5>. QED BY <3>1, <4>2, <5>1, <5>2
        <4>. QED BY <4>3, <4>4
      <3>7. Chain(k + 1, d)
        BY <3>5, <3>6
      <3>8. k + 1 \in 0..n
        BY <3>2
      <3> HIDE DEF Chain, d
      <3>. QED BY <3>7, <3>8
    <2> HIDE DEF Sound
    <2>3. \A k \in 0..n : k \in Sound
      BY <2>1, <2>2, UpTo
    <2>. QED BY <2>3
  <1>3. PICK c : Chain(n, c)
    BY <1>2
  <1>4. c \in [0..n -> Seq(R)] /\ c[0] = <<>> /\ \A k \in 0..(n - 1) : c[k + 1] = c[k] \o ss[k + 1]
    BY <1>3
  <1> HIDE DEF Chain, Sound
  <1>5. CASE n = 0
    <2>1. FlattenSeq(ss) = ss
      BY <1>1, <1>5 DEF FlattenSeq
    <2>2. ss = <<>>
      BY <1>5
    <2>3. FlattenSeq(ss) = c[n]
      BY <1>4, <1>5, <2>1, <2>2
    <2>. QED BY <1>4, <2>3 DEF InTurn
  <1>6. CASE n # 0
    <2> DEFINE Following(f, i) == IF i = 1 THEN ss[i] ELSE f[i - 1] \o ss[i]
               Table(f) == f = [i \in 1..n |-> Following(f, i)]
               flat == CHOOSE f : Table(f)
               d == [i \in 1..n |-> c[i]]
               e == [i \in 1..n |-> Following(d, i)]
               b == [i \in 0..n |-> IF i = 0 THEN <<>> ELSE flat[i]]
    <2>1. n \in 1..n /\ 1 \in 1..n
      BY <1>6
    <2>2. FlattenSeq(ss) = flat[n]
      <3>1. FlattenSeq(ss) =
              (CHOOSE f : f = [i \in 1..n |-> IF i = 1 THEN ss[i] ELSE f[i - 1] \o ss[i]])[n]
        BY <1>1, <1>6 DEF FlattenSeq
      <3>. QED BY <3>1
    <2>3. ASSUME NEW i \in 1..n PROVE d[i] = e[i]
      <3>1. CASE i = 1
        <4>1. 0 \in 0..(n - 1) /\ ss[1] \in Seq(R)
          BY <2>1
        <4>2. c[0 + 1] = c[0] \o ss[0 + 1]
          BY <1>4, <4>1
        <4>3. <<>> \o ss[1] = ss[1]
          BY <4>1
        <4>4. c[1] = ss[1]
          BY <1>4, <4>2, <4>3
        <4>. QED BY <3>1, <4>4
      <3>2. CASE i # 1
        <4>1. i - 1 \in 0..(n - 1) /\ i - 1 \in 1..n /\ (i - 1) + 1 = i
          BY <3>2
        <4>2. c[(i - 1) + 1] = c[i - 1] \o ss[(i - 1) + 1]
          BY <1>4, <4>1
        <4>. QED BY <3>2, <4>1, <4>2
      <3>. QED BY <3>1, <3>2
    <2>4. Table(d)
      <3>1. d = e
        BY <2>3
      <3>. QED BY <3>1
    <2>5. Table(flat)
      <3> HIDE DEF Table, d
      <3>. QED BY <2>4
    <2>6. \A i \in 1..n : flat[i] = Following(flat, i)
      BY <2>5
    <2> HIDE DEF flat, Table, d, e
    <2> DEFINE Same == {k \in 0..n : b[k] = c[k]}
    <2>7. n \in Same
      <3>1. 0 \in Same
        BY <1>4
      <3>2. ASSUME NEW k \in 0..(n - 1), k \in Same
            PROVE  k + 1 \in Same
        <4>1. k \in 0..n /\ k + 1 \in 1..n /\ k + 1 \in 0..n /\ k + 1 # 0 /\ k \in Nat /\ (k + 1) - 1 = k
          OBVIOUS
        <4>2. b[k + 1] = Following(flat, k + 1) /\ b[k] = c[k]
          BY <2>6, <3>2, <4>1
        <4>3. c[k + 1] = c[k] \o ss[k + 1]
          BY <1>4
        <4>4. CASE k = 0
          <5>1. ss[1] \in Seq(R)
            BY <2>1
          <5>2. <<>> \o ss[1] = ss[1]
            BY <5>1
          <5>3. k + 1 = 1
            BY <4>4
          <5>4. b[1] = ss[1] /\ c[1] = c[0] \o ss[1]
            BY <4>2, <4>3, <4>4, <5>3
          <5>5. b[k + 1] = c[k + 1]
            BY <1>4, <5>2, <5>3, <5>4
          <5>. QED BY <4>1, <5>5
        <4>5. CASE k # 0
          <5>1. b[k] = flat[k]
            BY <4>1, <4>5
          <5>2. b[k + 1] = flat[k] \o ss[k + 1]
            <6>1. k + 1 # 1
              BY <4>5
            <6>2. b[k + 1] = flat[(k + 1) - 1] \o ss[k + 1]
              BY <4>2, <6>1
            <6>. QED BY <4>1, <6>2
          <5>. QED BY <4>1, <4>2, <4>3, <5>1, <5>2
        <4>. QED BY <4>4, <4>5
      <3> HIDE DEF Same, b, Following
      <3>3. \A k \in 0..n : k \in Same
        BY <3>1, <3>2, UpTo
      <3>. QED BY <3>3
    <2>8. FlattenSeq(ss) = c[n]
      BY <1>6, <2>1, <2>2, <2>7
    <2>. QED BY <1>4, <2>8 DEF InTurn
  <1>. QED BY <1>5, <1>6

\* The rewards of an activation are reconciled one after the other.
OneByOne(g, w, keys, n, q) ==
    /\ g[0] = w /\ AllReconciled(w, keys) = g[n]
    /\ \A k \in 0..(n - 1) : g[k + 1] = Reconciled(g[k], q[k + 1])

LEMMA ReconciledChain ==
    ASSUME NEW w, NEW keys, NEW n \in Nat, NEW q, q = SetToSeq(keys), q \in [1..n -> keys]
    PROVE  \E g : OneByOne(g, w, keys, n, q)
  <1> DEFINE Dealt(b, k) == Reconciled(b, k)
             seq == q
             Rest(g, s) == IF s = {} THEN w ELSE Dealt(g[s \ {Max(s)}], seq[Max(s)])
             iter == CHOOSE g : g = [s \in SUBSET DOMAIN seq |-> Rest(g, s)]
             Table(k, g) == g = [s \in SUBSET (1..k) |-> Rest(g, s)]
             Sound == {k \in 0..n : \E g : Table(k, g)}
  <1>1. AllReconciled(w, keys) = iter[DOMAIN seq]
    BY DEF AllReconciled, FoldLeft, MapThenFoldSet
  <1>2. DOMAIN seq = 1..n /\ n \in Nat
    OBVIOUS
  <1> HIDE DEF Dealt, seq
  <1>3. \A g, h, s : s = {} \/ g[s \ {Max(s)}] = h[s \ {Max(s)}] => Rest(g, s) = Rest(h, s)
    OBVIOUS
  <1>4. /\ \A g : Rest(g, {}) = w
        /\ \A g, s : s # {} => Rest(g, s) = Dealt(g[s \ {Max(s)}], seq[Max(s)])
    OBVIOUS
  <1> HIDE DEF Rest
  <1>5. 0 \in Sound
    <2> DEFINE h == [s \in SUBSET (1..0) |-> w]
               f == [s \in SUBSET (1..0) |-> Rest(h, s)]
    <2>1. \A s \in SUBSET (1..0) : s = {}
      OBVIOUS
    <2>2. \A s \in SUBSET (1..0) : h[s] = f[s]
      BY <1>4, <2>1
    <2>3. h = f
      BY <2>2
    <2> HIDE DEF h
    <2>4. Table(0, h)
      BY <2>3
    <2> HIDE DEF Table
    <2>. QED BY <1>2, <2>4
  <1>6. ASSUME NEW k \in 0..(n - 1), k \in Sound
        PROVE  k + 1 \in Sound
    <2>1. PICK g : Table(k, g)
      BY <1>6
    <2>2. k \in Nat /\ k + 1 \in 0..n
      BY <1>2
    <2> DEFINE h == [s \in SUBSET (1..(k + 1)) |->
                        IF s \in SUBSET (1..k) THEN g[s] ELSE Rest(g, s)]
               f == [s \in SUBSET (1..(k + 1)) |-> Rest(h, s)]
    <2>3. \A s \in SUBSET (1..k) : g[s] = Rest(g, s)
      BY <2>1
    <2>4. 1..k \subseteq 1..(k + 1)
      BY <2>2
    <2>5. \A s \in SUBSET (1..k) : h[s] = g[s]
      BY <2>4
    <2>6. ASSUME NEW s \in SUBSET (1..(k + 1))
          PROVE  s \ {Max(s)} \in SUBSET (1..k)
      <3>1. CASE k + 1 \in s
        <4>1. Max(s) = k + 1
          BY <2>2, <3>1, MaxIs
        <4>2. \A i \in 1..(k + 1) : i # k + 1 => i \in 1..k
          BY <2>2
        <4>. QED BY <4>1, <4>2
      <3>2. CASE k + 1 \notin s
        <4>1. \A i \in 1..(k + 1) : i # k + 1 => i \in 1..k
          BY <2>2
        <4>. QED BY <3>2, <4>1
      <3>. QED BY <3>1, <3>2
    <2>7. \A s \in SUBSET (1..(k + 1)) : h[s] = Rest(g, s)
      BY <2>3
    <2>8. ASSUME NEW s \in SUBSET (1..(k + 1))
          PROVE  h[s] = f[s]
      <3>1. h[s \ {Max(s)}] = g[s \ {Max(s)}]
        BY <2>5, <2>6
      <3>2. f[s] = Rest(h, s)
        OBVIOUS
      <3>3. h[s] = Rest(g, s)
        BY <2>7
      <3> HIDE DEF h, f
      <3>4. Rest(g, s) = Rest(h, s)
        BY <1>3, <3>1
      <3>. QED BY <3>2, <3>3, <3>4
    <2>9. h = f
      BY <2>8
    <2> HIDE DEF h
    <2>10. Table(k + 1, h)
      BY <2>9
    <2> HIDE DEF Table
    <2>. QED BY <2>2, <2>10
  <1>7. n \in Sound
    <2> HIDE DEF Sound
    <2>1. \A k \in 0..n : k \in Sound
      BY <1>2, <1>5, <1>6, UpTo
    <2>. QED BY <1>2, <2>1
  <1>8. iter = CHOOSE g : Table(n, g)
    BY <1>2
  <1>9. Table(n, iter)
    <2> HIDE DEF Table, iter
    <2>1. \E g : Table(n, g)
      BY <1>7
    <2>. QED BY <1>8, <2>1
  <1> HIDE DEF iter, Sound
  <1>10. \A s \in SUBSET (1..n) : iter[s] = Rest(iter, s)
    BY <1>9
  <1> DEFINE g == [k \in 0..n |-> iter[1..k]]
  <1>11. g[0] = w
    <2>1. 1..0 = {} /\ {} \in SUBSET (1..n)
      OBVIOUS
    <2>2. iter[{}] = w
      BY <1>4, <1>10, <2>1
    <2>3. 0 \in 0..n
      BY <1>2
    <2>. QED BY <2>1, <2>2, <2>3
  <1>12. ASSUME NEW k \in 0..(n - 1)
         PROVE  g[k + 1] = Dealt(g[k], seq[k + 1])
    <2>1. /\ 1..(k + 1) \subseteq 1..n /\ k + 1 \in 1..(k + 1)
          /\ k \in Nat /\ k \in 0..n /\ k + 1 \in 0..n
      BY <1>2
    <2>2. Max(1..(k + 1)) = k + 1
      BY <2>1, MaxIs
    <2>3. (1..(k + 1)) \ {k + 1} = 1..k
      BY <2>1
    <2>4. iter[1..(k + 1)] = Rest(iter, 1..(k + 1)) /\ 1..(k + 1) # {}
      BY <1>10, <2>1
    <2>5. iter[1..(k + 1)] = Dealt(iter[1..k], seq[k + 1])
      BY <1>4, <2>2, <2>3, <2>4
    <2>. QED BY <2>1, <2>5
  <1>13. AllReconciled(w, keys) = g[n]
    BY <1>1, <1>2
  <1> HIDE DEF g
  <1>14. \A k \in 0..(n - 1) : g[k + 1] = Reconciled(g[k], q[k + 1])
    BY <1>12 DEF Dealt, seq
  <1>. QED BY <1>11, <1>13, <1>14 DEF OneByOne

----------------------------------------------------------------------------
(* One rule's part of a pass.                                              *)

PartWell(r, w) ==
    /\ w = Work(w.st, w.on, w.sent)
    /\ NumericWell(r, w.st)
    /\ w.on \subseteq Values \cap KeysOf(r) \cap direct
    /\ w.sent \in Seq(Requests(KeysOf(r)))

\* The deltas that the rule's record does not know of.
Loose(w) == w.on \ w.st.legacy
Mute(w) == \A k \in MutationKeys : ~AsksFor(w.sent, k)

SameRecord(s, t) == /\ s.known = t.known /\ s.active = t.active /\ s.version = t.version
                    /\ s.reroll = t.reroll /\ s.keys = t.keys

\* What x takes over of w: no request is made for a reward, and no delta is lost sight of.
Quietly(r, w, x) ==
    /\ PartWell(r, x) /\ Loose(x) \subseteq Loose(w) /\ x.st.version = w.st.version
    /\ Mute(w) => Mute(x)

\* A record is told by its fields.
LEMMA RecordIs ==
    ASSUME NEW r \in ValueRules, NEW s
    PROVE  NumericWell(r, s) <=>
              /\ s = [known |-> s.known, active |-> s.active, version |-> s.version,
                      reroll |-> s.reroll, keys |-> s.keys, lasting |-> s.lasting,
                      legacy |-> s.legacy]
              /\ s.known \in BOOLEAN /\ s.active \in BOOLEAN /\ s.reroll \in BOOLEAN
              /\ s.version \in 0..2 /\ s.keys \subseteq KeysOf(r)
              /\ s.lasting \subseteq KeysOf(r) /\ s.legacy \subseteq KeysOf(r)
              /\ s.version = 0 => ~s.active
  BY KeysAre DEF NumericWell, NumericRecord

\* Taking an old delta off: the record forgets it with the actor.
LEMMA UndoneIs ==
    ASSUME NEW r \in ValueRules, NEW w, PartWell(r, w), NEW keys
    PROVE  LET x == Undone(w, keys)
               off == OfKind(w.st.legacy, "value") \cap keys
           IN /\ Quietly(r, w, x) /\ SameRecord(w.st, x.st)
              /\ x.st.lasting = w.st.lasting /\ x.st.legacy = w.st.legacy \ off
              /\ x.on = w.on \ off /\ x.sent = w.sent
  <1> DEFINE x == Undone(w, keys)
             off == OfKind(w.st.legacy, "value") \cap keys
             s == [known |-> w.st.known, active |-> w.st.active, version |-> w.st.version,
                   reroll |-> w.st.reroll, keys |-> w.st.keys, lasting |-> w.st.lasting,
                   legacy |-> w.st.legacy \ off]
  <1>0. off \subseteq w.st.legacy
    BY DEF OfKind
  <1>1. w = [st |-> w.st, on |-> w.on, sent |-> w.sent]
    BY DEF PartWell, Work
  <1>2. w.st = [known |-> w.st.known, active |-> w.st.active, version |-> w.st.version,
                reroll |-> w.st.reroll, keys |-> w.st.keys, lasting |-> w.st.lasting,
                legacy |-> w.st.legacy]
    BY RecordIs DEF PartWell
  <1>3. x = [[w EXCEPT !.on = w.on \ off] EXCEPT !.st = [w.st EXCEPT !.legacy = w.st.legacy \ off]]
    BY <1>1 DEF Undone
  <1> HIDE DEF off, x
  <1>4. [w.st EXCEPT !.legacy = w.st.legacy \ off] = s
    BY <1>2
  <1>5. x = [st |-> s, on |-> w.on \ off, sent |-> w.sent]
    BY <1>1, <1>3, <1>4
  <1>6. NumericWell(r, s)
    BY RecordIs DEF PartWell
  <1>7. PartWell(r, x)
    BY <1>5, <1>6 DEF PartWell, Work
  <1>8. x.st = s /\ x.on = w.on \ off /\ x.sent = w.sent
    BY <1>5
  <1>9. Loose(x) \subseteq Loose(w)
    BY <1>8 DEF Loose
  <1>10. Mute(w) => Mute(x)
    BY <1>8 DEF Mute
  <1>11. SameRecord(w.st, x.st) /\ x.st.lasting = w.st.lasting /\ x.st.legacy = w.st.legacy \ off
    BY <1>8 DEF SameRecord
  <1>12. Quietly(r, w, x)
    BY <1>7, <1>9, <1>10, <1>11 DEF Quietly, SameRecord
  <1>. QED BY <1>8, <1>11, <1>12 DEF x, off

\* Forgiving takes all of the record's deltas off.
LEMMA ForgivenIs ==
    ASSUME NEW r \in ValueRules, NEW w, PartWell(r, w)
    PROVE  LET x == Forgiven(w)
           IN /\ Quietly(r, w, x) /\ SameRecord(w.st, x.st)
              /\ x.st.lasting = {} /\ x.st.legacy = {} /\ x.sent = w.sent
  <1> DEFINE u == Undone(w, w.st.legacy)
             x == Forgiven(w)
             s == [known |-> u.st.known, active |-> u.st.active, version |-> u.st.version,
                   reroll |-> u.st.reroll, keys |-> u.st.keys, lasting |-> {}, legacy |-> {}]
             off == OfKind(w.st.legacy, "value") \cap w.st.legacy
  <1>1. /\ Quietly(r, w, u) /\ SameRecord(w.st, u.st) /\ u.sent = w.sent
        /\ u.on = w.on \ off
    BY UndoneIs
  <1>2. PartWell(r, u)
    BY <1>1 DEF Quietly
  <1>3. x = [[u EXCEPT !.st = [u.st EXCEPT !.legacy = {}]] EXCEPT
                !.st = [[u.st EXCEPT !.legacy = {}] EXCEPT !.lasting = {}]]
    <2>1. u = [st |-> u.st, on |-> u.on, sent |-> u.sent]
      BY <1>2 DEF PartWell, Work
    <2>2. x = [u EXCEPT !.st.legacy = {}, !.st.lasting = {}]
      BY DEF Forgiven
    <2> HIDE DEF u, x
    <2>. QED BY <2>1, <2>2
  <1> HIDE DEF u, x
  <1>4. u = [st |-> u.st, on |-> u.on, sent |-> u.sent]
    BY <1>2 DEF PartWell, Work
  <1>5. u.st = [known |-> u.st.known, active |-> u.st.active, version |-> u.st.version,
                reroll |-> u.st.reroll, keys |-> u.st.keys, lasting |-> u.st.lasting,
                legacy |-> u.st.legacy]
    BY <1>2, RecordIs DEF PartWell
  <1>6. [[u.st EXCEPT !.legacy = {}] EXCEPT !.lasting = {}] = s
    <2> DEFINE v == [known |-> u.st.known, active |-> u.st.active, version |-> u.st.version,
                     reroll |-> u.st.reroll, keys |-> u.st.keys, lasting |-> u.st.lasting,
                     legacy |-> {}]
    <2>1. [u.st EXCEPT !.legacy = {}] = v
      BY <1>5
    <2>2. [v EXCEPT !.lasting = {}] = s
      OBVIOUS
    <2>. QED BY <2>1, <2>2
  <1>7. x = [st |-> s, on |-> u.on, sent |-> u.sent]
    BY <1>3, <1>4, <1>6
  <1>8. NumericWell(r, s)
    BY <1>2, RecordIs DEF PartWell
  <1>9. x.st = s /\ x.on = u.on /\ x.sent = u.sent
    BY <1>7
  <1>10. PartWell(r, x)
    BY <1>2, <1>7, <1>8 DEF PartWell, Work
  <1>11. Loose(x) \subseteq Loose(w)
    <2>1. \A k \in w.on : k \in w.st.legacy => k \in off
      BY DEF OfKind, PartWell, Values
    <2>. QED BY <1>1, <1>9, <2>1 DEF Loose
  <1>12. Mute(w) => Mute(x)
    BY <1>1, <1>9 DEF Mute
  <1>13. SameRecord(w.st, x.st) /\ x.st.lasting = {} /\ x.st.legacy = {} /\ x.sent = w.sent
    BY <1>1, <1>9 DEF SameRecord
  <1>14. Quietly(r, w, x)
    BY <1>10, <1>11, <1>12, <1>13 DEF Quietly, SameRecord
  <1>. QED BY <1>13, <1>14 DEF x

\* A part that adds removals to its requests.
LEMMA SendsRemovals ==
    ASSUME NEW r \in ValueRules, NEW w, PartWell(r, w), NEW t \in Seq(Removals(KeysOf(r)))
    PROVE  LET x == [w EXCEPT !.sent = Asked(@, t)]
           IN Quietly(r, w, x) /\ x.st = w.st /\ x.on = w.on /\ x.sent = Asked(w.sent, t)
  <1> DEFINE x == [w EXCEPT !.sent = Asked(@, t)]
  <1>1. w = [st |-> w.st, on |-> w.on, sent |-> w.sent] /\ w.sent \in Seq(Requests(KeysOf(r)))
    BY DEF PartWell, Work
  <1>2. x = [st |-> w.st, on |-> w.on, sent |-> Asked(w.sent, t)]
    BY <1>1
  <1> HIDE DEF x
  <1>3. t \in Seq(Requests(KeysOf(r)))
    BY RequestsAre
  <1>4. Asked(w.sent, t) \in Seq(Requests(KeysOf(r)))
    BY <1>1, <1>3, SeqCat DEF Asked
  <1>5. x.st = w.st /\ x.on = w.on /\ x.sent = Asked(w.sent, t)
    BY <1>2
  <1>6. ASSUME Mute(w), NEW k \in MutationKeys PROVE ~AsksFor(x.sent, k)
    <2>1. ~AsksFor(t, k)
      BY RemovalsAsk
    <2>. QED BY <1>1, <1>3, <1>5, <1>6, <2>1, AsksCat DEF Asked, Mute
  <1>7. PartWell(r, x)
    BY <1>2, <1>4 DEF PartWell, Work
  <1>8. Quietly(r, w, x)
    BY <1>5, <1>6, <1>7 DEF Quietly, Loose, Mute
  <1>. QED BY <1>5, <1>8 DEF x

\* The request that removes all of a rule.
LEMMA RuleRemovedIs ==
    ASSUME NEW r \in ValueRules, NEW w, PartWell(r, w)
    PROVE  LET x == RuleRemoved(w, r)
           IN Quietly(r, w, x) /\ x.st = w.st /\ x.on = w.on
  <1> DEFINE t == <<[op |-> "remove", keys |-> OfKind(KeysOf(r), "value")],
                    [op |-> "remove", keys |-> OfKind(KeysOf(r), "scale")]>>
  <1>1. /\ OfKind(KeysOf(r), "value") \in SUBSET KeysOf(r)
        /\ OfKind(KeysOf(r), "scale") \in SUBSET KeysOf(r)
    BY DEF OfKind
  <1>2. t[1] \in Removals(KeysOf(r)) /\ t[2] \in Removals(KeysOf(r))
    BY <1>1, RequestsAre
  <1>3. t \in Seq(Removals(KeysOf(r)))
    BY <1>2
  <1>4. RuleRemoved(w, r) = [w EXCEPT !.sent = Asked(@, t)]
    BY DEF RuleRemoved
  <1> HIDE DEF t
  <1>. QED BY <1>3, <1>4, SendsRemovals

\* A record with a field changed.
Fields(a, b, c, d, e, f, g) ==
    [known |-> a, active |-> b, version |-> c, reroll |-> d, keys |-> e, lasting |-> f, legacy |-> g]

\* RemoveNumericReward, of an activation.
LEMMA RemoveActiveIs ==
    ASSUME NEW r \in ValueRules, NEW w, PartWell(r, w), isReady \in BOOLEAN
    PROVE  LET x == RemoveActive(w)
           IN /\ Quietly(r, w, x) /\ ~x.st.active /\ x.st.known
              /\ isReady => x.st.reroll
  <1> DEFINE gone == w.st.keys \ Lasting(w.st.keys)
             failed == {k \in gone : ~isReady /\ k \notin OfKind(w.st.legacy, "value")}
             u == Undone(w, gone)
             sent == [i \in 1..Cardinality(gone) |-> Removal(SetToSeq(gone)[i])]
             v == [u EXCEPT !.sent = Asked(@, sent)]
             s == [known |-> TRUE, active |-> FALSE, version |-> u.st.version,
                   reroll |-> failed = {}, keys |-> IF failed = {} THEN {} ELSE u.st.keys,
                   lasting |-> u.st.lasting, legacy |-> u.st.legacy]
             x == RemoveActive(w)
  <1>1. Quietly(r, w, u) /\ PartWell(r, u)
    BY UndoneIs DEF Quietly
  <1>2. gone \subseteq KeysOf(r) /\ gone \subseteq MutationKeys
    BY RecordIs, KeysAre DEF PartWell
  <1>3. sent \in Seq(Removals(KeysOf(r)))
    <2> HIDE DEF gone
    <2>1. IsFiniteSet(gone)
      BY <1>2, KeysFinite
    <2>2. Cardinality(gone) \in Nat /\ \A i \in 1..Cardinality(gone) : SetToSeq(gone)[i] \in gone
      BY <2>1, InSequence
    <2>3. \A k \in gone : Removal(k) \in Removals(KeysOf(r))
      BY <1>2, RequestsAre DEF Removal
    <2>. QED BY <2>2, <2>3
  <1>4. x = [u EXCEPT !.sent = Asked(@, sent),
                      !.st.known = TRUE, !.st.active = FALSE, !.st.reroll = (failed = {}),
                      !.st.keys = IF failed = {} THEN {} ELSE @]
    BY DEF RemoveActive
  <1> HIDE DEF gone, u, sent, failed, x
  <1>5. u = [st |-> u.st, on |-> u.on, sent |-> u.sent]
    BY <1>1 DEF PartWell, Work
  <1>6. u.st = [known |-> u.st.known, active |-> u.st.active, version |-> u.st.version,
                reroll |-> u.st.reroll, keys |-> u.st.keys, lasting |-> u.st.lasting,
                legacy |-> u.st.legacy]
    BY <1>1, RecordIs DEF PartWell
  <1>7. x = [st |-> s, on |-> u.on, sent |-> Asked(u.sent, sent)]
    <2> DEFINE yes == TRUE
               no == FALSE
               a == u.st
               all == failed = {}
               kept == IF all THEN {} ELSE a.keys
               b == Fields(a.known, a.active, a.version, a.reroll, a.keys, a.lasting, a.legacy)
               c == Fields(yes, a.active, a.version, a.reroll, a.keys, a.lasting, a.legacy)
               d == Fields(yes, no, a.version, a.reroll, a.keys, a.lasting, a.legacy)
               e == Fields(yes, no, a.version, all, a.keys, a.lasting, a.legacy)
               f == Fields(yes, no, a.version, all, kept, a.lasting, a.legacy)
    <2>1. a = b
      BY <1>6 DEF Fields
    <2>2. /\ [b EXCEPT !.known = yes] = c /\ [c EXCEPT !.active = no] = d
          /\ [d EXCEPT !.reroll = all] = e /\ [e EXCEPT !.keys = kept] = f
      <3> HIDE DEF all, kept, yes, no
      <3>. QED BY DEF Fields
    <2>4. f = s
      BY DEF Fields
    <2>5. e.keys = a.keys
      BY DEF Fields
    <2>6. x = [st |-> [[[[a EXCEPT !.known = TRUE] EXCEPT !.active = FALSE]
                          EXCEPT !.reroll = all]
                          EXCEPT !.keys = IF all THEN {} ELSE @],
               on |-> u.on, sent |-> Asked(u.sent, sent)]
      BY <1>4, <1>5
    <2> HIDE DEF b, c, d, e, f, s, all
    <2>7. x = [st |-> [e EXCEPT !.keys = IF all THEN {} ELSE @], on |-> u.on, sent |-> Asked(u.sent, sent)]
      BY <2>1, <2>2, <2>6
    <2>. QED BY <2>2, <2>4, <2>5, <2>7
  <1>8. v = [st |-> u.st, on |-> u.on, sent |-> Asked(u.sent, sent)]
    BY <1>5
  <1>9. Quietly(r, u, v)
    BY <1>1, <1>3, SendsRemovals
  <1> HIDE DEF v
  <1>10. x.st = s /\ x.on = u.on /\ x.sent = v.sent /\ v.st = u.st /\ v.on = u.on
    BY <1>7, <1>8
  <1>11. NumericWell(r, s)
    <2>1. /\ u.st.version \in 0..2 /\ u.st.keys \subseteq KeysOf(r)
          /\ u.st.lasting \subseteq KeysOf(r) /\ u.st.legacy \subseteq KeysOf(r)
      BY <1>1, RecordIs DEF PartWell
    <2> DEFINE all == failed = {}
    <2>2. all \in BOOLEAN
      OBVIOUS
    <2>3. s = Fields(TRUE, FALSE, s.version, all, s.keys, s.lasting, s.legacy) /\ s.reroll = all
      BY DEF Fields
    <2>4. /\ s = [known |-> s.known, active |-> s.active, version |-> s.version,
                  reroll |-> s.reroll, keys |-> s.keys, lasting |-> s.lasting,
                  legacy |-> s.legacy]
          /\ s.known = TRUE /\ s.active = FALSE /\ s.version = u.st.version
          /\ s.lasting = u.st.lasting /\ s.legacy = u.st.legacy
          /\ s.keys \in {{}, u.st.keys}
      OBVIOUS
    <2> HIDE DEF s, all
    <2>. QED BY <2>1, <2>2, <2>3, <2>4, RecordIs
  <1>12. PartWell(r, x)
    BY <1>7, <1>8, <1>9, <1>10, <1>11 DEF PartWell, Work, Quietly
  <1>13. Loose(x) \subseteq Loose(w) /\ (Mute(w) => Mute(x))
    BY <1>1, <1>9, <1>10 DEF Loose, Mute, Quietly
  <1>14. failed = {} \/ ~isReady
    BY DEF failed
  <1>15. Quietly(r, w, x) /\ ~x.st.active /\ x.st.known /\ (isReady => x.st.reroll)
    BY <1>1, <1>10, <1>12, <1>13, <1>14 DEF Quietly
  <1>. QED BY <1>15 DEF x

\* One part after the other.
LEMMA QuietlyOn ==
    ASSUME NEW r, NEW w, NEW x, NEW y, Quietly(r, w, x), Quietly(r, x, y)
    PROVE  Quietly(r, w, y)
  BY DEF Quietly

LEMMA QuietlySame ==
    ASSUME NEW r, NEW w, PartWell(r, w)
    PROVE  Quietly(r, w, w)
  BY DEF Quietly

\* The first part of a pass: the rules that end.
LEMMA EndingIs ==
    ASSUME NEW r \in ValueRules, NEW w, PartWell(r, w), NEW matching, isReady \in BOOLEAN
    PROVE  LET x == Ending(w, r, matching)
           IN /\ Quietly(r, w, x)
              /\ r \notin matching => ~x.st.active
              /\ r \in matching /\ ruleNow[r] # 0 => x = w
  <1> DEFINE d == RuleRemoved(w, r)
             f == Forgiven(d)
             c == IF ruleNow[r] = 0 THEN f ELSE w
             x == Ending(w, r, matching)
  <1>1. Quietly(r, w, d) /\ d.st = w.st
    BY RuleRemovedIs
  <1>2. Quietly(r, d, f) /\ SameRecord(d.st, f.st)
    BY <1>1, ForgivenIs DEF Quietly
  <1>3. Quietly(r, w, c) /\ (c.st.active <=> w.st.active) /\ PartWell(r, c)
    BY <1>1, <1>2, QuietlyOn, QuietlySame DEF SameRecord, Quietly
  <1>4. x = IF r \notin matching /\ w.st.active THEN RemoveActive(c) ELSE c
    BY DEF Ending
  <1> HIDE DEF c, x
  <1>5. Quietly(r, c, RemoveActive(c)) /\ ~RemoveActive(c).st.active
    BY <1>3, RemoveActiveIs
  <1>6. Quietly(r, w, x) /\ (r \notin matching => ~x.st.active)
    BY <1>3, <1>4, <1>5, QuietlyOn
  <1>7. r \in matching /\ ruleNow[r] # 0 => x = w
    BY <1>4 DEF c
  <1>. QED BY <1>6, <1>7 DEF x

\* A new version asks everything away and forgets it.
LEMMA NewVersionIs ==
    ASSUME NEW r \in ValueRules, NEW w, PartWell(r, w), isReady \in BOOLEAN
    PROVE  LET x == NumericNewVersion(w, r)
           IN Quietly(r, w, x) /\ ~x.st.active /\ x.st.reroll /\ x.st.keys = {}
  <1> DEFINE c == RuleRemoved(w, r)
             ended == IF w.st.active THEN RemoveActive(c) ELSE c
             f == Forgiven(ended)
             s == [known |-> f.st.known, active |-> FALSE, version |-> f.st.version,
                   reroll |-> TRUE, keys |-> {}, lasting |-> f.st.lasting,
                   legacy |-> f.st.legacy]
             x == NumericNewVersion(w, r)
  <1>1. Quietly(r, w, c) /\ PartWell(r, c)
    BY RuleRemovedIs DEF Quietly
  <1>2. Quietly(r, c, ended) /\ PartWell(r, ended)
    BY <1>1, RemoveActiveIs, QuietlySame DEF Quietly
  <1>3. Quietly(r, ended, f) /\ PartWell(r, f)
    BY <1>2, ForgivenIs DEF Quietly
  <1>4. x = [f EXCEPT !.st.active = FALSE, !.st.reroll = TRUE, !.st.keys = {}]
    BY DEF NumericNewVersion
  <1>5. Quietly(r, w, f)
    BY <1>1, <1>2, <1>3, QuietlyOn
  <1> HIDE DEF f, x, c, ended
  <1>6. f = [st |-> f.st, on |-> f.on, sent |-> f.sent]
    BY <1>3 DEF PartWell, Work
  <1>7. f.st = [known |-> f.st.known, active |-> f.st.active, version |-> f.st.version,
                reroll |-> f.st.reroll, keys |-> f.st.keys, lasting |-> f.st.lasting,
                legacy |-> f.st.legacy]
    BY <1>3, RecordIs DEF PartWell
  <1>8. x = [st |-> s, on |-> f.on, sent |-> f.sent]
    <2> DEFINE yes == TRUE
               no == FALSE
               a == f.st
               b == Fields(a.known, a.active, a.version, a.reroll, a.keys, a.lasting, a.legacy)
               d == Fields(a.known, no, a.version, a.reroll, a.keys, a.lasting, a.legacy)
               e == Fields(a.known, no, a.version, yes, a.keys, a.lasting, a.legacy)
               g == Fields(a.known, no, a.version, yes, {}, a.lasting, a.legacy)
    <2>1. a = b /\ g = s
      BY <1>7 DEF Fields
    <2>2. [b EXCEPT !.active = no] = d /\ [d EXCEPT !.reroll = yes] = e /\ [e EXCEPT !.keys = {}] = g
      <3> HIDE DEF yes, no
      <3>. QED BY DEF Fields
    <2>3. x = [st |-> [[[a EXCEPT !.active = FALSE] EXCEPT !.reroll = TRUE] EXCEPT !.keys = {}],
               on |-> f.on, sent |-> f.sent]
      BY <1>4, <1>6
    <2> HIDE DEF b, d, e, g, s
    <2>. QED BY <2>1, <2>2, <2>3
  <1>9. x.st = s /\ x.on = f.on /\ x.sent = f.sent
    BY <1>8
  <1>10. NumericWell(r, s)
    BY <1>3, RecordIs DEF PartWell
  <1>11. PartWell(r, x)
    BY <1>3, <1>8, <1>10 DEF PartWell, Work
  <1>12. Quietly(r, w, x)
    BY <1>5, <1>9, <1>11 DEF Quietly, Loose, Mute
  <1>. QED BY <1>9, <1>12 DEF x

\* The migration takes up every delta that the old save may have left.
LEMMA MigratedIs ==
    ASSUME NEW r \in ValueRules, NEW w, PartWell(r, w)
    PROVE  LET x == Migrated(w, r)
           IN /\ Quietly(r, w, x) /\ x.sent = w.sent
              /\ \A k \in Loose(x) : ~Tracked(w.st, k)
              /\ w.st.active \/ w.st.reroll => x.st.active \/ x.st.reroll
  <1> DEFINE x == Migrated(w, r)
             s == [known |-> TRUE, active |-> TRUE, version |-> w.st.version, reroll |-> TRUE,
                   keys |-> KeysOf(r), lasting |-> Lasting(KeysOf(r)),
                   legacy |-> OfKind(KeysOf(r), "value")]
  <1>1. CASE w.st.known \/ w.st.version = 0
    <2>1. x = w
      BY <1>1 DEF Migrated
    <2>. QED BY <1>1, <2>1, QuietlySame DEF Loose, Tracked
  <1>2. CASE ~(w.st.known \/ w.st.version = 0)
    <2>1. w = [st |-> w.st, on |-> w.on, sent |-> w.sent]
      BY DEF PartWell, Work
    <2>2. w.st = [known |-> w.st.known, active |-> w.st.active, version |-> w.st.version,
                  reroll |-> w.st.reroll, keys |-> w.st.keys, lasting |-> w.st.lasting,
                  legacy |-> w.st.legacy]
      BY RecordIs DEF PartWell
    <2>3. x = [w EXCEPT !.st = [w.st EXCEPT !.known = TRUE, !.active = TRUE, !.reroll = TRUE,
                                            !.keys = KeysOf(r), !.lasting = Lasting(KeysOf(r)),
                                            !.legacy = OfKind(KeysOf(r), "value")]]
      BY <1>2, <2>1 DEF Migrated
    <2> HIDE DEF x
    <2>4. [w.st EXCEPT !.known = TRUE, !.active = TRUE, !.reroll = TRUE, !.keys = KeysOf(r),
                       !.lasting = Lasting(KeysOf(r)), !.legacy = OfKind(KeysOf(r), "value")] = s
      <3> DEFINE yes == TRUE
                 a == w.st
                 all == KeysOf(r)
                 lasting == Lasting(all)
                 legacy == OfKind(all, "value")
                 b == Fields(a.known, a.active, a.version, a.reroll, a.keys, a.lasting, a.legacy)
                 c == Fields(yes, a.active, a.version, a.reroll, a.keys, a.lasting, a.legacy)
                 d == Fields(yes, yes, a.version, a.reroll, a.keys, a.lasting, a.legacy)
                 e == Fields(yes, yes, a.version, yes, a.keys, a.lasting, a.legacy)
                 f == Fields(yes, yes, a.version, yes, all, a.lasting, a.legacy)
                 g == Fields(yes, yes, a.version, yes, all, lasting, a.legacy)
                 h == Fields(yes, yes, a.version, yes, all, lasting, legacy)
      <3>1. a = b /\ h = s
        BY <2>2 DEF Fields
      <3> HIDE DEF all, lasting, legacy
      <3>2. /\ [b EXCEPT !.known = yes] = c /\ [c EXCEPT !.active = yes] = d
            /\ [d EXCEPT !.reroll = yes] = e /\ [e EXCEPT !.keys = all] = f
            /\ [f EXCEPT !.lasting = lasting] = g /\ [g EXCEPT !.legacy = legacy] = h
        <4> HIDE DEF yes
        <4>. QED BY DEF Fields
      <3> HIDE DEF b, c, d, e, f, g, h, s
      <3>3. [a EXCEPT !.known = TRUE, !.active = TRUE, !.reroll = TRUE, !.keys = all,
                      !.lasting = lasting, !.legacy = legacy] = h
        BY <3>1, <3>2
      <3>. QED BY <3>1, <3>3 DEF all, lasting, legacy
    <2>5. x = [st |-> s, on |-> w.on, sent |-> w.sent]
      BY <2>1, <2>3, <2>4
    <2>6. x.st = s /\ x.on = w.on /\ x.sent = w.sent
      BY <2>5
    <2>7. NumericWell(r, s)
      <3>1. Lasting(KeysOf(r)) \subseteq KeysOf(r) /\ OfKind(KeysOf(r), "value") \subseteq KeysOf(r)
        BY DEF Lasting, OfKind
      <3>2. w.st.version \in 0..2 /\ w.st.version # 0
        BY <1>2, RecordIs DEF PartWell
      <3>. QED BY <3>1, <3>2, RecordIs
    <2>8. PartWell(r, x)
      BY <2>5, <2>7 DEF PartWell, Work
    <2>9. Loose(x) = {}
      BY <2>6 DEF Loose, PartWell, Values, OfKind
    <2>10. Quietly(r, w, x)
      BY <2>6, <2>8, <2>9 DEF Quietly, Mute
    <2>. QED BY <2>6, <2>9, <2>10 DEF x
  <1>. QED BY <1>1, <1>2

\* A reward is asked for once its old delta is off the actor.
LEMMA ReconciledIs ==
    ASSUME NEW r \in ValueRules, NEW w, PartWell(r, w), NEW k \in KeysOf(r)
    PROVE  LET x == Reconciled(w, k)
           IN /\ PartWell(r, x) /\ SameRecord(w.st, x.st) /\ Loose(x) \subseteq Loose(w)
              /\ x.on \subseteq w.on /\ x.st.legacy \subseteq w.st.legacy
              /\ k \in x.on => k \notin x.st.legacy
              /\ x.sent = Asked(w.sent, <<Upsert(k)>>)
  <1> DEFINE u == IF Numeric[k].kind = "value" THEN Undone(w, {k}) ELSE w
             x == Reconciled(w, k)
  <1>1. /\ PartWell(r, u) /\ SameRecord(w.st, u.st) /\ Loose(u) \subseteq Loose(w)
        /\ u.on \subseteq w.on /\ u.st.legacy \subseteq w.st.legacy /\ u.sent = w.sent
    <2>1. CASE Numeric[k].kind = "value"
      BY <2>1, UndoneIs DEF Quietly
    <2>2. CASE Numeric[k].kind # "value"
      BY <2>2 DEF SameRecord
    <2>. QED BY <2>1, <2>2
  <1>2. k \in u.on => k \notin u.st.legacy
    <2>1. CASE Numeric[k].kind = "value"
      <3>1. /\ u.on = w.on \ (OfKind(w.st.legacy, "value") \cap {k})
            /\ u.st.legacy \subseteq w.st.legacy
        BY <1>1, <2>1, UndoneIs
      <3>. QED BY <2>1, <3>1 DEF OfKind
    <2>2. CASE Numeric[k].kind # "value"
      BY <1>1, <2>2 DEF PartWell, Values, OfKind
    <2>. QED BY <2>1, <2>2
  <1>3. x = [u EXCEPT !.sent = Asked(@, <<Upsert(k)>>)]
    BY DEF Reconciled
  <1> HIDE DEF u, x
  <1>4. u = [st |-> u.st, on |-> u.on, sent |-> u.sent] /\ u.sent \in Seq(Requests(KeysOf(r)))
    BY <1>1 DEF PartWell, Work
  <1>5. x = [st |-> u.st, on |-> u.on, sent |-> Asked(u.sent, <<Upsert(k)>>)]
    BY <1>3, <1>4
  <1>6. Upsert(k) \in Requests(KeysOf(r))
    BY RequestsAre
  <1>7. Asked(u.sent, <<Upsert(k)>>) \in Seq(Requests(KeysOf(r)))
    <2>1. <<Upsert(k)>> \in Seq(Requests(KeysOf(r)))
      BY <1>6
    <2>. QED BY <1>4, <2>1, SeqCat DEF Asked
  <1>8. x.st = u.st /\ x.on = u.on /\ x.sent = Asked(w.sent, <<Upsert(k)>>)
    BY <1>1, <1>5
  <1>9. PartWell(r, x)
    BY <1>1, <1>5, <1>7 DEF PartWell, Work
  <1>10. Loose(x) \subseteq Loose(w)
    BY <1>1, <1>8 DEF Loose
  <1>. QED BY <1>1, <1>2, <1>8, <1>9, <1>10 DEF x

\* A request for a key sets this one and spares the others.
LEMMA OneUpsert ==
    ASSUME NEW S, NEW k \in S
    PROVE  /\ <<Upsert(k)>> \in Seq(Requests(S))
           /\ Sets(<<Upsert(k)>>, k)
           /\ \A l : Spares(<<Upsert(k)>>, l)
           /\ \A l : AsksFor(<<Upsert(k)>>, l) => l = k
  <1> DEFINE t == <<Upsert(k)>>
  <1>1. Upsert(k) \in Requests(S)
    BY RequestsAre
  <1>2. t \in Seq(Requests(S)) /\ DOMAIN t = {1} /\ t[1] = Upsert(k)
    BY <1>1
  <1> HIDE DEF t
  <1>3. Sets(t, k)
    BY <1>2 DEF Sets
  <1>4. \A l : Spares(t, l)
    BY <1>2 DEF Spares, Removes, Upsert
  <1>5. ASSUME NEW l, AsksFor(t, l) PROVE l = k
    BY <1>2, <1>5, RequestsAre DEF AsksFor
  <1>. QED BY <1>2, <1>3, <1>4, <1>5 DEF t

\* Reconciling a set of rewards asks for each of them, for no other, and for none whose
\* delta the record still knows.
LEMMA AllReconciledIs ==
    ASSUME NEW r \in ValueRules, NEW w, PartWell(r, w), NEW keys \in SUBSET KeysOf(r),
           isReady \in BOOLEAN
    PROVE  LET x == AllReconciled(w, keys)
           IN /\ PartWell(r, x) /\ SameRecord(w.st, x.st) /\ Loose(x) \subseteq Loose(w)
              /\ Mute(w) => \A k \in MutationKeys : AsksFor(x.sent, k) =>
                               k \in keys /\ (k \in x.on => k \in Loose(x))
              /\ isReady => \A k \in keys : Sets(x.sent, k)
  <1> DEFINE q == SetToSeq(keys)
             n == Cardinality(keys)
             x == AllReconciled(w, keys)
  <1>1. n \in Nat /\ q \in [1..n -> keys] /\ \A k \in keys : \E i \in 1..n : q[i] = k
    <2>1. IsFiniteSet(keys)
      BY KeysAre, KeysFinite
    <2>. QED BY <2>1, InSequence
  <1>3. \E g : OneByOne(g, w, keys, n, q)
    <2>1. q = SetToSeq(keys)
      OBVIOUS
    <2> HIDE DEF q, n
    <2>. QED BY <1>1, <2>1, ReconciledChain
  <1>4. PICK g : OneByOne(g, w, keys, n, q)
    BY <1>3
  <1>2. /\ g[0] = w /\ x = g[n]
        /\ \A i \in 0..(n - 1) : g[i + 1] = Reconciled(g[i], q[i + 1])
    BY <1>4 DEF OneByOne
  <1> HIDE DEF q, n, x
  <1> DEFINE Good(i) ==
                /\ PartWell(r, g[i]) /\ SameRecord(w.st, g[i].st) /\ Loose(g[i]) \subseteq Loose(w)
                /\ Mute(w) => \A k \in MutationKeys : AsksFor(g[i].sent, k) =>
                                 k \in keys /\ (k \in g[i].on => k \notin g[i].st.legacy)
                /\ isReady => \A j \in 1..i : Sets(g[i].sent, q[j])
             Sound == {i \in 0..n : Good(i)}
  <1>5. 0 \in Sound
    <2>1. Good(0)
      BY <1>2 DEF Mute, SameRecord
    <2>. QED BY <1>1, <2>1
  <1>6. ASSUME NEW i \in 0..(n - 1), i \in Sound
        PROVE  i + 1 \in Sound
    <2>1. /\ i \in Nat /\ i + 1 \in 1..n /\ i + 1 \in 0..n
          /\ \A j \in 1..(i + 1) : j \in 1..i \/ j = i + 1
      BY <1>1
    <2> DEFINE y == g[i]
               z == g[i + 1]
               k == q[i + 1]
    <2>2. Good(i)
      BY <1>6
    <2>3. k \in keys /\ k \in KeysOf(r) /\ z = Reconciled(y, k) /\ PartWell(r, y)
      BY <1>1, <1>2, <2>1, <2>2
    <2>4. /\ PartWell(r, z) /\ SameRecord(y.st, z.st) /\ Loose(z) \subseteq Loose(y)
          /\ z.on \subseteq y.on /\ z.st.legacy \subseteq y.st.legacy
          /\ k \in z.on => k \notin z.st.legacy
          /\ z.sent = Asked(y.sent, <<Upsert(k)>>)
      BY <2>3, ReconciledIs
    <2>5. y.sent \in Seq(Requests(KeysOf(r))) /\ <<Upsert(k)>> \in Seq(Requests(KeysOf(r)))
      BY <2>3, OneUpsert DEF PartWell
    <2> HIDE DEF y, z, k
    <2>6. SameRecord(w.st, z.st) /\ Loose(z) \subseteq Loose(w)
      BY <2>2, <2>4 DEF SameRecord, y
    <2>7. ASSUME Mute(w), NEW l \in MutationKeys, AsksFor(z.sent, l)
          PROVE  l \in keys /\ (l \in z.on => l \notin z.st.legacy)
      <3>1. AsksFor(y.sent, l) \/ l = k
        <4>1. AsksFor(y.sent \o <<Upsert(k)>>, l) <=> AsksFor(y.sent, l) \/ AsksFor(<<Upsert(k)>>, l)
          BY <2>5, AsksCat
        <4>2. AsksFor(<<Upsert(k)>>, l) => l = k
          BY <2>3, OneUpsert
        <4>. QED BY <2>4, <2>7, <4>1, <4>2 DEF Asked
      <3>2. CASE AsksFor(y.sent, l)
        BY <2>2, <2>4, <2>7, <3>2 DEF y
      <3>3. CASE l = k
        BY <2>3, <2>4, <3>3
      <3>. QED BY <3>1, <3>2, <3>3
    <2>8. ASSUME isReady, NEW j \in 1..(i + 1)
          PROVE  Sets(z.sent, q[j])
      <3>1. z.sent = y.sent \o <<Upsert(k)>>
        BY <2>4, <2>8 DEF Asked
      <3>2. CASE j \in 1..i
        <4>1. Sets(y.sent, q[j]) /\ Spares(<<Upsert(k)>>, q[j])
          BY <2>2, <2>3, <2>8, <3>2, OneUpsert DEF y
        <4>. QED BY <2>5, <3>1, <4>1, SetsCat
      <3>3. CASE j = i + 1
        <4>1. Sets(<<Upsert(k)>>, k)
          BY <2>3, OneUpsert
        <4>2. Sets(z.sent, k)
          BY <2>5, <3>1, <4>1, SetsCat
        <4>. QED BY <3>3, <4>2 DEF k
      <3>. QED BY <2>1, <3>2, <3>3
    <2>9. Good(i + 1)
      BY <2>4, <2>6, <2>7, <2>8 DEF z
    <2> HIDE DEF Good
    <2>. QED BY <2>1, <2>9
  <1>7. Good(n)
    <2> HIDE DEF Sound
    <2>1. \A i \in 0..n : i \in Sound
      BY <1>1, <1>5, <1>6, UpTo
    <2>2. n \in Sound
      BY <1>1, <2>1
    <2>. QED BY <2>2 DEF Sound
  <1>8. /\ PartWell(r, x) /\ SameRecord(w.st, x.st) /\ Loose(x) \subseteq Loose(w)
        /\ Mute(w) => \A k \in MutationKeys : AsksFor(x.sent, k) =>
                               k \in keys /\ (k \in x.on => k \in Loose(x))
    BY <1>2, <1>7 DEF Loose
  <1>9. isReady => \A k \in keys : Sets(x.sent, k)
    BY <1>1, <1>2, <1>7
  <1>. QED BY <1>8, <1>9 DEF x

\* The second part of a pass: a rule that applies is active and has asked for all it has.
LEMMA ApplyingIs ==
    ASSUME NEW r \in ValueRules, NEW w, PartWell(r, w), NEW won \in SUBSET KeysOf(r),
           isReady \in BOOLEAN, ruleNow[r] \in 1..2, Mute(w)
    PROVE  LET x == Applying(w, r, won)
           IN /\ PartWell(r, x) /\ Loose(x) \subseteq Loose(w) /\ x.st.active
              /\ \A k \in MutationKeys : AsksFor(x.sent, k) =>
                    k \in x.st.keys /\ (k \in x.on => k \in Loose(x))
              /\ isReady /\ (w.st.active \/ w.st.reroll) => \A k \in x.st.keys : Sets(x.sent, k)
  <1> DEFINE v == IF w.st.version \notin {0, ruleNow[r]} THEN NumericNewVersion(w, r) ELSE w
             b == [v EXCEPT !.st = [@ EXCEPT !.keys = won,
                                             !.lasting = v.st.lasting \cup Lasting(won)]]
             c == [known |-> v.st.known, active |-> v.st.active, version |-> v.st.version,
                   reroll |-> v.st.reroll, keys |-> won,
                   lasting |-> v.st.lasting \cup Lasting(won), legacy |-> v.st.legacy]
             next == IF v.st.active THEN AskedAgain(v)
                     ELSE IF v.st.reroll THEN AllReconciled(b, won) ELSE v
             s == [known |-> TRUE, active |-> TRUE, version |-> ruleNow[r],
                   reroll |-> next.st.reroll, keys |-> next.st.keys,
                   lasting |-> next.st.lasting, legacy |-> next.st.legacy]
             x == Applying(w, r, won)
  <1>1. /\ PartWell(r, v) /\ Loose(v) \subseteq Loose(w) /\ Mute(v)
        /\ w.st.active \/ w.st.reroll => v.st.active \/ v.st.reroll
    <2>1. CASE w.st.version \notin {0, ruleNow[r]}
      BY <2>1, NewVersionIs DEF Quietly
    <2>2. CASE w.st.version \in {0, ruleNow[r]}
      BY <2>2
    <2>. QED BY <2>1, <2>2
  <1>2. x = [next EXCEPT !.st.known = TRUE, !.st.active = TRUE, !.st.version = ruleNow[r]]
    BY DEF Applying
  <1> HIDE DEF v, x
  <1>3. /\ PartWell(r, b) /\ Loose(b) \subseteq Loose(v) /\ Mute(b)
        /\ b.st = c
    <2>1. v = [st |-> v.st, on |-> v.on, sent |-> v.sent]
      BY <1>1 DEF PartWell, Work
    <2>2. v.st = [known |-> v.st.known, active |-> v.st.active, version |-> v.st.version,
                  reroll |-> v.st.reroll, keys |-> v.st.keys, lasting |-> v.st.lasting,
                  legacy |-> v.st.legacy]
      BY <1>1, RecordIs DEF PartWell
    <2> DEFINE e == [v.st EXCEPT !.keys = won, !.lasting = @ \cup Lasting(won)]
    <2>3. e = c
      <3> DEFINE a == v.st
                 L == a.lasting \cup Lasting(won)
                 d == Fields(a.known, a.active, a.version, a.reroll, a.keys, a.lasting, a.legacy)
                 f == Fields(a.known, a.active, a.version, a.reroll, won, L, a.legacy)
                 g == Fields(a.known, a.active, a.version, a.reroll, won, a.lasting, a.legacy)
      <3>1. a = d /\ c = f
        BY <2>2 DEF Fields
      <3>2. [d EXCEPT !.keys = won] = g /\ [g EXCEPT !.lasting = L] = f
        <4> HIDE DEF L, a
        <4>. QED BY DEF Fields
      <3>3. e = [[a EXCEPT !.keys = won] EXCEPT !.lasting = L]
        OBVIOUS
      <3> HIDE DEF a, L, d, f, g
      <3>. QED BY <3>1, <3>2, <3>3
    <2>8. b = [st |-> e, on |-> v.on, sent |-> v.sent]
      <3> DEFINE p == v.st
                 o == v.on
                 m == v.sent
      <3>1. /\ v = [st |-> p, on |-> o, sent |-> m]
            /\ e = [p EXCEPT !.keys = won, !.lasting = p.lasting \cup Lasting(won)]
        BY <2>1
      <3>2. b = [v EXCEPT !.st = [v.st EXCEPT !.keys = won, !.lasting = v.st.lasting \cup Lasting(won)]]
        OBVIOUS
      <3>3. b = [v EXCEPT !.st = e]
        BY <3>2
      <3> HIDE DEF p, o, m, b, e
      <3>. QED BY <3>1, <3>3 DEF p, o, m
    <2> HIDE DEF c, b, e
    <2>4. b = [st |-> c, on |-> v.on, sent |-> v.sent]
      BY <2>3, <2>8
    <2>5. NumericWell(r, c)
      <3>1. Lasting(won) \subseteq KeysOf(r)
        BY DEF Lasting
      <3>. QED BY <1>1, <3>1, RecordIs DEF PartWell, c
    <2>6. c.legacy = v.st.legacy
      BY DEF c
    <2>7. b.st = c /\ b.on = v.on /\ b.sent = v.sent
      BY <2>4
    <2>. QED BY <1>1, <2>4, <2>5, <2>6, <2>7 DEF PartWell, Work, Loose, Mute
  <1>4. /\ PartWell(r, next) /\ Loose(next) \subseteq Loose(v)
        /\ \A k \in MutationKeys : AsksFor(next.sent, k) =>
              k \in next.st.keys /\ (k \in next.on => k \in Loose(next))
        /\ isReady /\ (v.st.active \/ v.st.reroll) => \A k \in next.st.keys : Sets(next.sent, k)
    <2>1. CASE v.st.active
      <3>1. v.st.keys \in SUBSET KeysOf(r)
        BY <1>1, RecordIs DEF PartWell
      <3>2. next = AllReconciled(v, v.st.keys)
        BY <2>1 DEF AskedAgain
      <3> HIDE DEF next
      <3>. QED BY <1>1, <2>1, <3>1, <3>2, AllReconciledIs DEF SameRecord
    <2>2. CASE ~v.st.active /\ v.st.reroll
      <3>1. next = AllReconciled(b, won)
        BY <2>2
      <3> HIDE DEF b
      <3>2. b.st.keys = won
        BY <1>3
      <3> HIDE DEF next, b, c
      <3>. QED BY <1>3, <2>2, <3>1, <3>2, AllReconciledIs DEF SameRecord
    <2>3. CASE ~v.st.active /\ ~v.st.reroll
      BY <1>1, <2>3 DEF Mute
    <2>. QED BY <2>1, <2>2, <2>3
  <1> HIDE DEF next, b, c
  <1>5. next = [st |-> next.st, on |-> next.on, sent |-> next.sent]
    BY <1>4 DEF PartWell, Work
  <1>6. next.st = [known |-> next.st.known, active |-> next.st.active, version |-> next.st.version,
                   reroll |-> next.st.reroll, keys |-> next.st.keys, lasting |-> next.st.lasting,
                   legacy |-> next.st.legacy]
    BY <1>4, RecordIs DEF PartWell
  <1>7. x = [st |-> s, on |-> next.on, sent |-> next.sent]
    <2> DEFINE yes == TRUE
               a == next.st
               d == Fields(a.known, a.active, a.version, a.reroll, a.keys, a.lasting, a.legacy)
               e == Fields(yes, a.active, a.version, a.reroll, a.keys, a.lasting, a.legacy)
               f == Fields(yes, yes, a.version, a.reroll, a.keys, a.lasting, a.legacy)
               g == Fields(yes, yes, ruleNow[r], a.reroll, a.keys, a.lasting, a.legacy)
    <2>1. a = d /\ g = s
      BY <1>6 DEF Fields
    <2>2. [d EXCEPT !.known = yes] = e /\ [e EXCEPT !.active = yes] = f
          /\ [f EXCEPT !.version = ruleNow[r]] = g
      <3> HIDE DEF yes
      <3>. QED BY DEF Fields
    <2>3. x = [st |-> [[[a EXCEPT !.known = TRUE] EXCEPT !.active = TRUE] EXCEPT !.version = ruleNow[r]],
               on |-> next.on, sent |-> next.sent]
      BY <1>2, <1>5
    <2> HIDE DEF d, e, f, g, s
    <2>. QED BY <2>1, <2>2, <2>3
  <1>8. x.st = s /\ x.on = next.on /\ x.sent = next.sent
    BY <1>7
  <1>9. NumericWell(r, s)
    <2>1. /\ next.st.keys \subseteq KeysOf(r) /\ next.st.lasting \subseteq KeysOf(r)
          /\ next.st.legacy \subseteq KeysOf(r) /\ next.st.reroll \in BOOLEAN
      BY <1>4, RecordIs DEF PartWell
    <2>2. s.version \in 0..2 /\ s.version # 0
      OBVIOUS
    <2>. QED BY <2>1, <2>2, RecordIs
  <1>10. PartWell(r, x)
    BY <1>4, <1>7, <1>9 DEF PartWell, Work
  <1>11. x.st.keys = next.st.keys /\ x.st.legacy = next.st.legacy /\ x.st.active
    BY <1>8
  <1> HIDE DEF s
  <1>12. Loose(x) = Loose(next)
    BY <1>8, <1>11 DEF Loose
  <1>. QED BY <1>1, <1>4, <1>8, <1>10, <1>11, <1>12 DEF x

\* What a rule's part of a pass leaves: whatever it asks for is documented and active,
\* and of no delta that it still knows; what goes on is asked for.
LEMMA RulePartIs ==
    ASSUME NEW r \in ValueRules, NEW w, PartWell(r, w), w.sent = <<>>,
           NEW considered, NEW matching, NEW won, isReady \in BOOLEAN, ruleNow[r] \in 0..2,
           r \in matching => r \in considered /\ ruleNow[r] # 0
    PROVE  LET x == RulePart(r, w, considered, matching, won)
           IN /\ PartWell(r, x)
              /\ \A k \in Loose(x) : ~Tracked(w.st, k)
              /\ \A k \in MutationKeys : AsksFor(x.sent, k) =>
                    x.st.active /\ k \in x.st.keys /\ (k \in x.on => k \in Loose(x))
              /\ isReady /\ r \in considered /\ (r \in matching => w.st.active \/ w.st.reroll)
                   => (x.st.active => \A k \in x.st.keys : Sets(x.sent, k))
  <1> DEFINE m == Migrated(w, r)
             e == IF m.st.version = 0 THEN m ELSE Ending(m, r, matching)
             a == Applying(e, r, won \cap KeysOf(r))
             x == RulePart(r, w, considered, matching, won)
  <1>1. /\ PartWell(r, m) /\ Mute(m) /\ m.sent = <<>>
        /\ \A k \in Loose(m) : ~Tracked(w.st, k)
        /\ w.st.active \/ w.st.reroll => m.st.active \/ m.st.reroll
    <2>1. Mute(w)
      BY EmptySays DEF Mute
    <2>. QED BY <2>1, MigratedIs DEF Quietly
  <1>2. x = IF r \notin considered THEN m ELSE IF r \in matching THEN a ELSE e
    BY DEF RulePart
  <1> HIDE DEF m, x
  <1>3. /\ PartWell(r, e) /\ Mute(e) /\ Loose(e) \subseteq Loose(m)
        /\ r \in matching => e = m
        /\ r \notin matching => ~e.st.active
    <2>1. CASE m.st.version = 0
      <3>1. ~m.st.active
        BY <1>1, <2>1 DEF PartWell, NumericWell
      <3>. QED BY <1>1, <2>1, <3>1
    <2>2. CASE m.st.version # 0
      <3>1. e = Ending(m, r, matching)
        BY <2>2
      <3> HIDE DEF e
      <3>2. Quietly(r, m, e) /\ (r \notin matching => ~e.st.active)
            /\ (r \in matching /\ ruleNow[r] # 0 => e = m)
        BY <1>1, <3>1, EndingIs
      <3>. QED BY <1>1, <3>2 DEF Quietly
    <2>. QED BY <2>1, <2>2
  <1> HIDE DEF e
  <1>4. CASE r \notin considered
    <2>1. x = m
      BY <1>2, <1>4
    <2>. QED BY <1>1, <1>4, <2>1 DEF Mute, x
  <1>5. CASE r \in considered /\ r \in matching
    <2>1. x = a
      BY <1>2, <1>5
    <2>2. ruleNow[r] \in 1..2 /\ won \cap KeysOf(r) \in SUBSET KeysOf(r)
      BY <1>5
    <2>3. /\ PartWell(r, a) /\ Loose(a) \subseteq Loose(e) /\ a.st.active
          /\ \A k \in MutationKeys : AsksFor(a.sent, k) =>
                k \in a.st.keys /\ (k \in a.on => k \in Loose(a))
          /\ isReady /\ (e.st.active \/ e.st.reroll) => \A k \in a.st.keys : Sets(a.sent, k)
      BY <1>3, <2>2, ApplyingIs
    <2> HIDE DEF a
    <2>. QED BY <1>1, <1>3, <1>5, <2>1, <2>3 DEF x
  <1>6. CASE r \in considered /\ r \notin matching
    <2>1. x = e
      BY <1>2, <1>6
    <2>. QED BY <1>1, <1>3, <1>6, <2>1 DEF Mute, x
  <1>. QED BY <1>4, <1>5, <1>6

\* What sequences put one after the other ask for, and what only one of them touches.
LEMMA FlattenedAsks ==
    ASSUME NEW R, NEW n \in Nat, NEW ss, ss \in [1..n -> Seq(R)], NEW k
    PROVE  /\ FlattenSeq(ss) \in Seq(R)
           /\ AsksFor(FlattenSeq(ss), k) => \E i \in 1..n : AsksFor(ss[i], k)
           /\ \A j \in 1..n : Sets(ss[j], k) /\ (\A i \in 1..n : i # j => Spares(ss[i], k))
                                 => Sets(FlattenSeq(ss), k)
  <1>0. PICK c : InTurn(c, R, n, ss)
    BY Flattened
  <1>1. /\ c \in [0..n -> Seq(R)] /\ c[0] = <<>> /\ FlattenSeq(ss) = c[n]
        /\ \A i \in 0..(n - 1) : c[i + 1] = c[i] \o ss[i + 1]
    BY <1>0 DEF InTurn
  <1>2. \A i \in 0..n : c[i] \in Seq(R)
    BY <1>1
  <1>3. \A i \in 0..(n - 1) : /\ i \in Nat /\ i + 1 \in 1..n /\ i + 1 \in 0..n /\ i \in 0..n
                              /\ c[i] \in Seq(R) /\ ss[i + 1] \in Seq(R)
                              /\ c[i + 1] = c[i] \o ss[i + 1]
    <2>1. \A i \in 0..(n - 1) : i \in Nat /\ i + 1 \in 1..n /\ i + 1 \in 0..n /\ i \in 0..n
      OBVIOUS
    <2>2. \A i \in 1..n : ss[i] \in Seq(R)
      OBVIOUS
    <2>. QED BY <1>1, <1>2, <2>1, <2>2
  <1>4. 0 \in 0..n /\ n \in 0..n
    OBVIOUS
  <1>5. AsksFor(c[n], k) => \E i \in 1..n : AsksFor(ss[i], k)
    <2> DEFINE S == {i \in 0..n : AsksFor(c[i], k) => \E j \in 1..n : AsksFor(ss[j], k)}
    <2>1. 0 \in S
      BY <1>1, <1>4, EmptySays
    <2>2. ASSUME NEW i \in 0..(n - 1), i \in S PROVE i + 1 \in S
      <3>1. AsksFor(c[i + 1], k) <=> AsksFor(c[i], k) \/ AsksFor(ss[i + 1], k)
        <4> DEFINE s == c[i]
                   t == ss[i + 1]
        <4>1. s \in Seq(R) /\ t \in Seq(R) /\ c[i + 1] = s \o t
          BY <1>3
        <4> HIDE DEF s, t
        <4>. QED BY <4>1, AsksCat DEF s, t
      <3>. QED BY <1>3, <2>2, <3>1
    <2> HIDE DEF S
    <2>3. \A i \in 0..n : i \in S
      BY <2>1, <2>2, UpTo
    <2>. QED BY <1>4, <2>3 DEF S
  <1>6. ASSUME NEW j \in 1..n, Sets(ss[j], k), \A i \in 1..n : i # j => Spares(ss[i], k)
        PROVE  Sets(c[n], k)
    <2> DEFINE S == {i \in 0..n : i >= j => Sets(c[i], k)}
    <2>1. 0 \in S
      BY <1>4
    <2>2. ASSUME NEW i \in 0..(n - 1), i \in S PROVE i + 1 \in S
      <3>1. CASE i + 1 = j
        <4>1. Sets(c[i + 1], k)
          BY <1>3, <1>6, <3>1, SetsCat
        <4>. QED BY <1>3, <4>1
      <3>2. CASE i + 1 # j /\ i + 1 >= j
        <4>1. i >= j
          BY <1>3, <3>2
        <4>2. Sets(c[i + 1], k)
          BY <1>3, <1>6, <2>2, <3>2, <4>1, SetsCat
        <4>. QED BY <1>3, <4>2
      <3>3. CASE ~(i + 1 >= j)
        BY <1>3, <3>3
      <3>. QED BY <3>1, <3>2, <3>3
    <2> HIDE DEF S
    <2>3. \A i \in 0..n : i \in S
      BY <2>1, <2>2, UpTo
    <2>4. n \in S /\ n >= j
      BY <1>4, <2>3
    <2>. QED BY <2>4 DEF S
  <1>. QED BY <1>1, <1>2, <1>4, <1>5, <1>6

LEMMA SeqWider ==
    ASSUME NEW A, NEW B, A \subseteq B, NEW s \in Seq(A)
    PROVE  s \in Seq(B)
  OBVIOUS

LEMMA RequestsWider ==
    /\ Requests(MutationKeys) \subseteq AllRequests /\ ListRequests \subseteq AllRequests
    /\ \A r \in ValueRules : Requests(KeysOf(r)) \subseteq Requests(MutationKeys)
    /\ \A q \in Requests(MutationKeys) : q.op \in {"upsert", "remove"}
    /\ \A q \in ListRequests : q.op = "list"
  <1>1. /\ Requests(MutationKeys) \subseteq AllRequests /\ ListRequests \subseteq AllRequests
        /\ \A q \in ListRequests : q.op = "list"
    BY DEF AllRequests, ListRequests
  <1>2. ASSUME NEW r \in ValueRules, NEW q \in Requests(KeysOf(r))
        PROVE  q \in Requests(MutationKeys)
    BY KeysAre DEF Requests, Removals
  <1>3. \A q \in Requests(MutationKeys) : q.op \in {"upsert", "remove"}
    BY DEF Requests, Removals, Upsert
  <1>. QED BY <1>1, <1>2, <1>3

\* The two lists at the end of a pass take away what no rule wants.
LEMMA ListsAre ==
    ASSUME NEW states, Desired(states) \subseteq MutationKeys, isReady \in BOOLEAN, NEW k
    PROVE  LET l == Lists(states)
           IN /\ l \in Seq(ListRequests) /\ ~AsksFor(l, k) /\ Spares(l, k)
              /\ \A i \in DOMAIN l : l[i].desired = Desired(states)
              /\ isReady /\ k \in MutationKeys \ Desired(states) => Clears(l, k)
  <1> DEFINE q(kind) == [op |-> "list", kind |-> kind, desired |-> Desired(states)]
             t == <<q("value"), q("scale")>>
             l == Lists(states)
  <1>1. \A kind \in NumericKinds : /\ q(kind) \in ListRequests /\ q(kind).op = "list"
                                   /\ q(kind).kind = kind /\ q(kind).desired = Desired(states)
    BY DEF ListRequests
  <1>2. "value" \in NumericKinds /\ "scale" \in NumericKinds
    BY DEF NumericKinds
  <1> HIDE DEF q
  <1>3. t \in Seq(ListRequests) /\ DOMAIN t = 1..2 /\ t[1] = q("value") /\ t[2] = q("scale")
    BY <1>1, <1>2
  <1>4. l = IF isReady THEN <<>> \o t ELSE <<>>
    BY DEF Lists, Asked, Wanted, q
  <1> HIDE DEF t, l
  <1>5. <<>> \o t = t /\ <<>> \in Seq(ListRequests)
    BY <1>3
  <1>6. CASE isReady
    <2>1. l = t
      BY <1>4, <1>5, <1>6
    <2>2. \A i \in DOMAIN t : t[i].op = "list" /\ t[i].desired = Desired(states)
      BY <1>1, <1>2, <1>3
    <2>3. ~AsksFor(t, k) /\ Spares(t, k)
      BY <2>2, RequestsAre DEF AsksFor, Spares, Removes
    <2>4. k \in MutationKeys \ Desired(states) => Clears(t, k)
      <3> SUFFICES ASSUME k \in MutationKeys \ Desired(states) PROVE Clears(t, k)
        OBVIOUS
      <3>1. Numeric[k].kind \in NumericKinds
        BY KeysAre
      <3>2. PICK i \in DOMAIN t : t[i].kind = Numeric[k].kind
        BY <1>1, <1>2, <1>3, <3>1 DEF NumericKinds
      <3>. QED BY <2>2, <3>2 DEF Clears
    <2>. QED BY <1>3, <2>1, <2>2, <2>3, <2>4 DEF l
  <1>7. CASE ~isReady
    <2>1. l = <<>>
      BY <1>4, <1>7
    <2>. QED BY <1>5, <1>7, <2>1, EmptySays DEF l
  <1>. QED BY <1>6, <1>7

LEMMA DesiredAre ==
    ASSUME NEW states, \A r \in ValueRules : NumericWell(r, states[r])
    PROVE  Desired(states) \subseteq MutationKeys
  BY DEF Desired, NumericWell, NumericRecord

\* A pass over the rules.
PartOf(r, considered, matching, won) ==
    RulePart(r, Work(numericOf[r], direct \cap KeysOf(r), <<>>), considered, matching, won)

\* A rule's part of a pass, in the present game.
LEMMA PartOfIs ==
    ASSUME LedgerWell, NEW r \in ValueRules, NEW considered, NEW won,
           NEW matching \in SUBSET {q \in considered : ruleNow[q] # 0}
    PROVE  LET x == PartOf(r, considered, matching, won)
           IN /\ PartWell(r, x)
              /\ \A k \in Loose(x) : ~Tracked(numericOf[r], k)
              /\ \A k \in MutationKeys : AsksFor(x.sent, k) =>
                    x.st.active /\ k \in x.st.keys /\ (k \in x.on => k \in Loose(x))
              /\ isReady /\ r \in considered
                    /\ (r \in matching => numericOf[r].active \/ numericOf[r].reroll)
                   => (x.st.active => \A k \in x.st.keys : Sets(x.sent, k))
  <1> DEFINE w == Work(numericOf[r], direct \cap KeysOf(r), <<>>)
  <1>1. w.st = numericOf[r] /\ w.on = direct \cap KeysOf(r) /\ w.sent = <<>>
    BY DEF Work
  <1>2. NumericWell(r, numericOf[r]) /\ direct \subseteq Values
    BY DEF LedgerWell, GameWell
  <1>3. PartWell(r, w)
    <2>1. <<>> \in Seq(Requests(KeysOf(r)))
      OBVIOUS
    <2>. QED BY <1>1, <1>2, <2>1 DEF PartWell, Work
  <1>4. /\ isReady \in BOOLEAN /\ ruleNow[r] \in 0..2
        /\ r \in matching => r \in considered /\ ruleNow[r] # 0
    BY DEF LedgerWell
  <1> HIDE DEF w
  <1>5. PartOf(r, considered, matching, won) = RulePart(r, w, considered, matching, won)
    BY DEF PartOf, w
  <1>. QED BY <1>1, <1>3, <1>4, <1>5, RulePartIs

\* A pass keeps the invariant: each key is in one rule's part alone, so what the parts ask
\* one after the other is what each asks of its own keys.
LEMMA PassKeeps ==
    ASSUME LedgerWell, NEW considered \in SUBSET ValueRules, NumericPass(considered)
    PROVE  LedgerWell'
  <1> DEFINE Part(m, w) == [r \in ValueRules |-> PartOf(r, considered, m, w)]
  <1>1. PICK matching \in SUBSET {r \in considered : ruleNow[r] # 0},
             won \in SUBSET MutationKeys :
             /\ numericOf' = [r \in ValueRules |-> Part(matching, won)[r].st]
             /\ direct' = UNION {Part(matching, won)[r].on : r \in ValueRules}
             /\ requests' = requests
                    \o FlattenSeq([r \in ValueRules |-> Part(matching, won)[r].sent])
                    \o Lists(numericOf')
             /\ quiet' = /\ isReady /\ requests = <<>> /\ considered = ValueRules
                         /\ \A r \in matching : numericOf[r].active \/ numericOf[r].reroll
    BY DEF NumericPass, PartOf
  <1> DEFINE x(r) == PartOf(r, considered, matching, won)
             ss == [r \in ValueRules |-> x(r).sent]
             f == FlattenSeq(ss)
             l == Lists(numericOf')
             R == Requests(MutationKeys)
  <1>2. /\ \A r \in ValueRules : numericOf'[r] = x(r).st
        /\ DOMAIN numericOf' = ValueRules
        /\ direct' = UNION {x(r).on : r \in ValueRules}
        /\ requests' = requests \o f \o l
    BY <1>1
  <1>3. \A r \in ValueRules :
              /\ PartWell(r, x(r))
              /\ \A k \in Loose(x(r)) : ~Tracked(numericOf[r], k)
              /\ \A k \in MutationKeys : AsksFor(x(r).sent, k) =>
                    x(r).st.active /\ k \in x(r).st.keys /\ (k \in x(r).on => k \in Loose(x(r)))
              /\ isReady /\ r \in considered
                    /\ (r \in matching => numericOf[r].active \/ numericOf[r].reroll)
                   => (x(r).st.active => \A k \in x(r).st.keys : Sets(x(r).sent, k))
    BY PartOfIs
  <1>4. UNCHANGED <<entries, isReady, ruleNow, saved_L, stray>>
    BY DEF NumericPass
  <1>5. NValueRules \in Nat /\ ValueRules = 1..NValueRules
    BY NumericAssumption DEF ValueRules
  <1> HIDE DEF Part, x
  <1>6. ss \in [1..NValueRules -> Seq(R)]
    <2>1. ASSUME NEW r \in ValueRules PROVE x(r).sent \in Seq(R)
      <3>1. x(r).sent \in Seq(Requests(KeysOf(r)))
        BY <1>3 DEF PartWell
      <3>2. Requests(KeysOf(r)) \subseteq R
        BY RequestsWider
      <3> HIDE DEF R
      <3>. QED BY <3>1, <3>2, SeqWider
    <2> HIDE DEF R
    <2>. QED BY <1>5, <2>1
  <1> HIDE DEF ss, f, l, R
  <1>7. /\ f \in Seq(R)
        /\ \A k : AsksFor(f, k) => \E i \in 1..NValueRules : AsksFor(ss[i], k)
        /\ \A k : \A j \in 1..NValueRules :
              Sets(ss[j], k) /\ (\A i \in 1..NValueRules : i # j => Spares(ss[i], k))
                 => Sets(f, k)
    BY <1>5, <1>6, FlattenedAsks DEF f
  <1>8. \A r \in ValueRules : r \in 1..NValueRules /\ ss[r] = x(r).sent
    BY <1>5 DEF ss
  <1>9. \A r \in ValueRules : /\ NumericWell(r, numericOf'[r])
                               /\ x(r).on \subseteq Values \cap KeysOf(r) \cap direct
    BY <1>2, <1>3 DEF PartWell
  <1>10. Desired(numericOf') \subseteq MutationKeys
    BY <1>9, DesiredAre
  <1>11. isReady \in BOOLEAN
    BY DEF LedgerWell
  <1>12. \A k : /\ l \in Seq(ListRequests) /\ ~AsksFor(l, k) /\ Spares(l, k)
                /\ \A i \in DOMAIN l : l[i].desired = Desired(numericOf')
                /\ isReady /\ k \in MutationKeys \ Desired(numericOf') => Clears(l, k)
    BY <1>10, <1>11, ListsAre DEF l
  <1>13. l \in Seq(ListRequests) /\ \A i \in DOMAIN l : l[i].desired = Desired(numericOf')
    BY <1>12
  <1>14. /\ requests \in Seq(AllRequests) /\ f \in Seq(AllRequests) /\ l \in Seq(AllRequests)
         /\ requests \o f \in Seq(AllRequests) /\ requests' \in Seq(AllRequests)
    <2>1. requests \in Seq(AllRequests) /\ f \in Seq(AllRequests) /\ l \in Seq(AllRequests)
      BY <1>7, <1>13, RequestsWider, SeqWider DEF LedgerWell, R
    <2>2. requests \o f \in Seq(AllRequests)
      BY <2>1, SeqCat
    <2>3. (requests \o f) \o l \in Seq(AllRequests)
      BY <2>1, <2>2, SeqCat
    <2>. QED BY <1>2, <2>1, <2>2, <2>3
  <1>15. ASSUME NEW k \in MutationKeys, AsksFor(requests', k)
         PROVE  \/ AsksFor(requests, k)
                \/ \E r \in ValueRules : AsksFor(x(r).sent, k)
    <2>1. AsksFor(requests \o f, k)
      BY <1>2, <1>12, <1>14, <1>15, AsksCat
    <2>2. AsksFor(requests, k) \/ AsksFor(f, k)
      BY <1>14, <2>1, AsksCat
    <2>. QED BY <1>5, <1>7, <1>8, <2>2
  \* A request for a key is in the part of its own rule.
  <1>16. ASSUME NEW r \in ValueRules, NEW k \in MutationKeys, k \notin KeysOf(r)
         PROVE  ~AsksFor(x(r).sent, k) /\ Spares(x(r).sent, k)
    BY <1>3, <1>16, OthersSpare DEF PartWell
  <1>17. ASSUME NEW k \in direct' \ stray
         PROVE  /\ k \notin entries /\ Tracked(numericOf'[Numeric[k].rule], k)
                /\ ~AsksFor(requests', k)
    <2>1. PICK r \in ValueRules : k \in x(r).on
      BY <1>2
    <2>2. k \in KeysOf(r) /\ k \in direct \ stray /\ k \in MutationKeys /\ Numeric[k].rule = r
      BY <1>9, <2>1, KeysAre
    <2>3. k \notin entries /\ Tracked(numericOf[r], k) /\ ~AsksFor(requests, k)
      BY <2>2 DEF LedgerWell, GameWell
    <2>4. k \notin Loose(x(r))
      BY <1>3, <2>3
    <2>5. Tracked(numericOf'[r], k)
      BY <1>2, <2>1, <2>4 DEF Loose, Tracked
    <2>6. ~AsksFor(requests', k)
      <3>1. ASSUME NEW s \in ValueRules PROVE ~AsksFor(x(s).sent, k)
        <4>1. CASE s = r
          BY <1>3, <2>1, <2>2, <2>4, <4>1
        <4>2. CASE s # r
          BY <1>16, <2>2, <4>2, KeysAre
        <4>. QED BY <4>1, <4>2
      <3>. QED BY <1>15, <2>2, <2>3, <3>1
    <2>. QED BY <2>2, <2>3, <2>5, <2>6
  <1>18. GameWell(entries, direct', numericOf', stray)
    <2>1. entries \subseteq MutationKeys
      BY DEF LedgerWell, GameWell
    <2>. QED BY <1>2, <1>9, <1>17, <2>1 DEF GameWell
  <1>19. ASSUME quiet' PROVE QuietWell'
    <2>1. /\ isReady /\ requests = <<>> /\ considered = ValueRules
          /\ \A r \in matching : numericOf[r].active \/ numericOf[r].reroll
      BY <1>1, <1>19
    <2>2. f \o l = requests' /\ f \in Seq(AllRequests) /\ l \in Seq(AllRequests)
      <3>1. requests \o f = f
        BY <1>14, <2>1
      <3>. QED BY <1>2, <1>14, <3>1
    <2>3. ASSUME NEW r \in ValueRules, numericOf'[r].active, NEW k \in numericOf'[r].keys
          PROVE  Sets(requests', k)
      <3>1. k \in MutationKeys /\ k \in KeysOf(r)
        BY <1>9, KeysAre DEF NumericWell
      <3>2. Sets(x(r).sent, k)
        BY <1>2, <1>3, <2>1, <2>3
      <3>3. ASSUME NEW i \in 1..NValueRules, i # r PROVE Spares(ss[i], k)
        BY <1>5, <1>8, <1>16, <3>1, <3>3, KeysAre
      <3>4. Sets(f, k)
        BY <1>7, <1>8, <3>2, <3>3
      <3>. QED BY <1>12, <2>2, <3>1, <3>4, SetsCat
    <2>4. ASSUME NEW k \in MutationKeys \ Desired(numericOf')
          PROVE  ~AsksFor(requests', k) /\ Clears(requests', k)
      <3>1. ~AsksFor(requests, k)
        BY <2>1, EmptySays
      <3>2. ASSUME NEW r \in ValueRules, AsksFor(x(r).sent, k) PROVE FALSE
        <4>1. numericOf'[r].active /\ k \in numericOf'[r].keys
          BY <1>2, <1>3, <2>4, <3>2
        <4>. QED BY <2>4, <4>1 DEF Desired
      <3>3. Clears(l, k)
        BY <1>12, <2>1, <2>4
      <3>4. Clears(requests', k)
        BY <2>2, <3>3, ClearsCat
      <3>. QED BY <1>15, <2>4, <3>1, <3>2, <3>4
    <2>5. ASSUME NEW i \in DOMAIN requests', requests'[i].op = "list"
          PROVE  requests'[i].desired = Desired(numericOf')
      <3>1. \/ i \in DOMAIN f /\ requests'[i] = f[i]
            \/ i - Len(f) \in DOMAIN l /\ requests'[i] = l[i - Len(f)]
        BY <2>2, <2>5, SeqCat
      <3>2. CASE i \in DOMAIN f /\ requests'[i] = f[i]
        <4>1. f[i] \in R
          BY <1>7, <3>2
        <4>. QED BY <2>5, <3>2, <4>1, RequestsWider DEF R
      <3>3. CASE i - Len(f) \in DOMAIN l /\ requests'[i] = l[i - Len(f)]
        BY <1>13, <3>3
      <3>. QED BY <3>1, <3>2, <3>3
    <2>6. isReady'
      BY <1>4, <2>1
    <2>. QED BY <2>3, <2>4, <2>5, <2>6 DEF QuietWell
  <1>20. GameWell(saved_L.entries, saved_L.direct, saved_L.numericOf, saved_L.stray)
    BY DEF LedgerWell
  <1>21. DOMAIN ruleNow = ValueRules /\ \A r \in ValueRules : ruleNow[r] \in 0..2
    BY DEF LedgerWell
  <1>. QED BY <1>4, <1>11, <1>14, <1>17, <1>18, <1>19, <1>20, <1>21 DEF LedgerWell

\* The requests that remove every key of a set.
LEMMA RemovalsOf ==
    ASSUME NEW S, S \subseteq MutationKeys
    PROVE  LET q == SetToSeq(S)
               t == [i \in DOMAIN q |-> Removal(q[i])]
           IN /\ t \in Seq(Removals(S))
              /\ \A k : ~AsksFor(t, k) /\ (k \in S => Clears(t, k)) /\ (k \notin S => Spares(t, k))
  <1> DEFINE q == SetToSeq(S)
             n == Cardinality(S)
             t == [i \in DOMAIN q |-> Removal(q[i])]
  <1>1. n \in Nat /\ q \in [1..n -> S] /\ \A k \in S : \E i \in 1..n : q[i] = k
    BY KeysFinite, InSequence
  <1> HIDE DEF q, n
  <1>2. DOMAIN t = 1..n /\ \A i \in 1..n : q[i] \in S /\ t[i] = Removal(q[i])
    BY <1>1
  <1>3. \A k \in S : Removal(k) \in Removals(S) /\ Removes(Removal(k), k)
    BY DEF Removal, Removals, Removes
  <1>4. t \in Seq(Removals(S))
    BY <1>1, <1>2, <1>3
  <1> HIDE DEF t
  <1>5. ASSUME NEW k \in S PROVE Clears(t, k)
    <2>1. PICK i \in 1..n : q[i] = k
      BY <1>1
    <2>. QED BY <1>2, <1>3, <2>1 DEF Clears
  <1>6. ASSUME NEW k PROVE ~AsksFor(t, k) /\ (k \notin S => Spares(t, k))
    <2>1. t \in Seq(Requests(S))
      <3>1. Removals(S) \subseteq Requests(S)
        BY DEF Requests
      <3>. QED BY <1>4, <3>1, SeqWider
    <2>. QED BY <1>4, <2>1, RemovalsAsk, OthersSpare
  <1>. QED BY <1>4, <1>5, <1>6 DEF t, q

\* What is left of a sequence when its first request is taken.
Hits(q, k) == \/ Removes(q, k)
              \/ q.op = "list" /\ q.kind = Numeric[k].kind /\ k \notin q.desired

LEMMA TailAre ==
    ASSUME NEW R, NEW s \in Seq(R), s # <<>>
    PROVE  /\ Tail(s) \in Seq(R) /\ Head(s) \in R /\ 1 \in DOMAIN s
           /\ \A i \in DOMAIN Tail(s) : i \in Nat \ {0} /\ i + 1 \in DOMAIN s /\ Tail(s)[i] = s[i + 1]
           /\ \A i \in DOMAIN s :
                 i \in Nat /\ (i = 1 \/ (i - 1 \in DOMAIN Tail(s) /\ Tail(s)[i - 1] = s[i]))
           /\ Head(s) = s[1]
  OBVIOUS

LEMMA TailSays ==
    ASSUME NEW R, NEW s \in Seq(R), s # <<>>, NEW k
    PROVE  /\ AsksFor(Tail(s), k) => AsksFor(s, k)
           /\ Head(s) = Upsert(k) => AsksFor(s, k)
           /\ Spares(s, k) => Spares(Tail(s), k) /\ ~Removes(Head(s), k)
           /\ Sets(s, k) => Sets(Tail(s), k) \/ (Head(s) = Upsert(k) /\ Spares(Tail(s), k))
           /\ Clears(s, k) => Clears(Tail(s), k) \/ Hits(Head(s), k)
  <1> DEFINE t == Tail(s)
             q == Head(s)
  <1>1. /\ \A i \in DOMAIN t : i \in Nat \ {0} /\ i + 1 \in DOMAIN s /\ t[i] = s[i + 1]
        /\ \A i \in DOMAIN s : i \in Nat /\ (i = 1 \/ (i - 1 \in DOMAIN t /\ t[i - 1] = s[i]))
        /\ q = s[1] /\ 1 \in DOMAIN s
    BY TailAre
  <1> HIDE DEF t, q
  <1>2. AsksFor(t, k) => AsksFor(s, k)
    BY <1>1 DEF AsksFor
  <1>3. q = Upsert(k) => AsksFor(s, k)
    BY <1>1 DEF AsksFor
  <1>4. Spares(s, k) => Spares(t, k) /\ ~Removes(q, k)
    BY <1>1 DEF Spares
  <1>5. ASSUME Sets(s, k) PROVE Sets(t, k) \/ (q = Upsert(k) /\ Spares(t, k))
    <2>1. PICK i \in DOMAIN s : s[i] = Upsert(k) /\ \A j \in DOMAIN s : j > i => ~Removes(s[j], k)
      BY <1>5 DEF Sets
    <2>2. CASE i = 1
      <3>1. ASSUME NEW j \in DOMAIN t PROVE ~Removes(t[j], k)
        <4>1. j + 1 \in DOMAIN s /\ t[j] = s[j + 1] /\ j + 1 > i
          BY <1>1, <2>2
        <4>. QED BY <2>1, <4>1
      <3>. QED BY <1>1, <2>1, <2>2, <3>1 DEF Spares
    <2>3. CASE i # 1
      <3>1. i - 1 \in DOMAIN t /\ t[i - 1] = Upsert(k)
        BY <1>1, <2>1, <2>3
      <3>2. ASSUME NEW j \in DOMAIN t, j > i - 1 PROVE ~Removes(t[j], k)
        <4>1. j + 1 \in DOMAIN s /\ t[j] = s[j + 1] /\ j + 1 > i
          BY <1>1, <3>2
        <4>. QED BY <2>1, <4>1
      <3>. QED BY <3>1, <3>2 DEF Sets
    <2>. QED BY <2>2, <2>3
  <1>6. ASSUME Clears(s, k) PROVE Clears(t, k) \/ Hits(q, k)
    <2>0. \A v : Clears(v, k) <=> \E i \in DOMAIN v : Hits(v[i], k)
      BY DEF Clears, Hits
    <2>1. PICK i \in DOMAIN s : Hits(s[i], k)
      BY <1>6, <2>0
    <2>. QED BY <1>1, <2>0, <2>1
  <1>. QED BY <1>2, <1>3, <1>4, <1>5, <1>6 DEF t, q

\* What a request can be.
LEMMA RequestKinds ==
    ASSUME NEW q \in AllRequests
    PROVE  /\ q.op = "upsert" => q.keys \subseteq MutationKeys
                                 /\ \A k \in q.keys : q = Upsert(k)
           /\ q.op = "upsert" => \E k \in MutationKeys : q = Upsert(k) /\ q.keys = {k}
           /\ q.op = "remove" => q.keys \subseteq MutationKeys /\ \A k : q # Upsert(k)
           /\ q.op = "list" => \A k : q # Upsert(k) /\ ~Removes(q, k)
           /\ q.op # "list" => \A k : Hits(q, k) <=> Removes(q, k)
           /\ q.op = "upsert" => \A k : ~Removes(q, k)
  <1>1. \A k : Upsert(k).op = "upsert" /\ Upsert(k).keys = {k}
    BY DEF Upsert
  <1>2. \/ \E k \in MutationKeys : q = Upsert(k)
        \/ q.op = "remove" /\ q.keys \subseteq MutationKeys
        \/ q.op = "list"
    BY DEF AllRequests, Requests, Removals, ListRequests
  <1>. QED BY <1>1, <1>2 DEF Hits, Removes

\* Nothing changes but what the library keeps and what it was asked.
LEMMA ServedWell ==
    ASSUME LedgerWell, UNCHANGED <<isReady, direct, numericOf, ruleNow, saved_L, stray>>,
           requests' \in Seq(AllRequests), entries' \subseteq MutationKeys,
           \A k \in direct \ stray : k \notin entries' /\ ~AsksFor(requests', k),
           quiet' => QuietWell'
    PROVE  LedgerWell'
  <1>1. /\ isReady' \in BOOLEAN /\ requests' \in Seq(AllRequests)
        /\ DOMAIN ruleNow' = ValueRules /\ \A r \in ValueRules : ruleNow'[r] \in 0..2
        /\ GameWell(saved_L'.entries, saved_L'.direct, saved_L'.numericOf, saved_L'.stray)
        /\ \A k \in direct' \ stray' : ~AsksFor(requests', k)
    BY DEF LedgerWell
  <1>2. GameWell(entries', direct', numericOf', stray')
    <2>1. GameWell(entries, direct, numericOf, stray)
      BY DEF LedgerWell
    <2>. QED BY <2>1 DEF GameWell
  <1>. QED BY <1>1, <1>2 DEF LedgerWell

\* A served request moves what it says from the requests to the entries; the answer to a
\* list takes away only what was unwanted when it was asked.
LEMMA ServeKeeps ==
    ASSUME LedgerWell, ServeRequest
    PROVE  LedgerWell'
  <1> DEFINE q == Head(requests)
             t == Tail(requests)
             u == OfKind(entries, q.kind) \ q.desired
             sent == [i \in DOMAIN SetToSeq(u) |-> Removal(SetToSeq(u)[i])]
  <1>1. /\ requests # <<>> /\ quiet' = (quiet /\ isReady)
        /\ UNCHANGED <<isReady, direct, numericOf, ruleNow, saved_L, stray>>
        /\ \/ q.op = "upsert" /\ entries' = entries \cup q.keys /\ requests' = t
           \/ q.op = "remove" /\ entries' = entries \ q.keys /\ requests' = t
           \/ q.op = "list" /\ entries' = entries /\ requests' = Asked(t, sent)
    BY DEF ServeRequest
  <1>2. /\ requests \in Seq(AllRequests) /\ entries \subseteq MutationKeys
        /\ \A k \in direct \ stray : k \notin entries /\ ~AsksFor(requests, k)
        /\ \A r \in ValueRules : numericOf[r].keys \subseteq MutationKeys
        /\ isReady \in BOOLEAN
    BY RecordIs, KeysAre DEF LedgerWell, GameWell
  <1>3. /\ t \in Seq(AllRequests) /\ q \in AllRequests
        /\ \A i \in DOMAIN t : i + 1 \in DOMAIN requests /\ t[i] = requests[i + 1]
        /\ 1 \in DOMAIN requests /\ q = requests[1]
    BY <1>1, <1>2, TailAre
  <1>4. \A k : /\ AsksFor(t, k) => AsksFor(requests, k)
               /\ q = Upsert(k) => AsksFor(requests, k)
               /\ Spares(requests, k) => Spares(t, k) /\ ~Removes(q, k)
               /\ Sets(requests, k) => Sets(t, k) \/ (q = Upsert(k) /\ Spares(t, k))
               /\ Clears(requests, k) => Clears(t, k) \/ Hits(q, k)
    BY <1>1, <1>2, TailSays
  <1>5. /\ quiet => isReady
        /\ quiet => \A r \in ValueRules : numericOf[r].active => \A k \in numericOf[r].keys :
              Sets(requests, k) \/ (k \in entries /\ Spares(requests, k))
        /\ quiet => \A k \in MutationKeys \ Desired(numericOf) :
              ~AsksFor(requests, k) /\ (k \in entries => Clears(requests, k))
        /\ quiet => \A i \in DOMAIN requests : requests[i].op = "list" =>
                       requests[i].desired = Desired(numericOf)
    BY <1>1 DEF LedgerWell, QuietWell
  <1>6. q.op = "list" => u \subseteq MutationKeys
    BY <1>2 DEF OfKind
  <1>7. q.op = "list" =>
          /\ sent \in Seq(Removals(u))
          /\ \A k : ~AsksFor(sent, k) /\ (k \in u => Clears(sent, k)) /\ (k \notin u => Spares(sent, k))
    BY <1>6, RemovalsOf
  <1> HIDE DEF q, t, sent
  <1>8. q.op = "list" => sent \in Seq(AllRequests)
    <2> SUFFICES ASSUME q.op = "list" PROVE sent \in Seq(AllRequests)
      OBVIOUS
    <2>1. Removals(u) \subseteq AllRequests
      BY <1>6 DEF AllRequests, Requests, Removals
    <2> HIDE DEF u
    <2>. QED BY <1>7, <2>1, SeqWider
  <1>9. q.op = "list" => /\ requests' = IF isReady THEN t \o sent ELSE t
                         /\ entries' = entries
    BY <1>1 DEF Asked
  <1>10. CASE q.op = "upsert" \/ q.op = "remove"
    <2>1. requests' = t
      BY <1>1, <1>10
    <2>2. PICK ks : /\ ks \subseteq MutationKeys
                    /\ q.op = "upsert" => entries' = entries \cup ks /\ \A k \in ks : q = Upsert(k)
                    /\ q.op = "remove" => entries' = entries \ ks /\ \A k : Removes(q, k) <=> k \in ks
      BY <1>1, <1>3, <1>10, RequestKinds DEF Removes
    <2>3. /\ entries' \subseteq MutationKeys
          /\ \A k \in direct \ stray : k \notin entries' /\ ~AsksFor(requests', k)
      BY <1>2, <1>4, <1>10, <2>1, <2>2
    <2>4. ASSUME quiet' PROVE QuietWell'
      <3>1. quiet /\ isReady
        BY <1>1, <2>4
      <3>2. ASSUME NEW r \in ValueRules, numericOf[r].active, NEW k \in numericOf[r].keys
            PROVE  Sets(requests', k) \/ (k \in entries' /\ Spares(requests', k))
        <4>1. CASE Sets(requests, k)
          <5>1. CASE q.op = "upsert"
            <6>1. q = Upsert(k) => k \in entries'
              BY <1>1, <5>1, RequestsAre
            <6>. QED BY <1>4, <2>1, <4>1, <6>1
          <5>2. CASE q.op = "remove"
            BY <1>3, <1>4, <2>1, <4>1, <5>2, RequestKinds
          <5>. QED BY <1>10, <5>1, <5>2
        <4>2. CASE k \in entries /\ Spares(requests, k)
          BY <1>4, <1>10, <2>1, <2>2, <4>2
        <4>. QED BY <1>5, <3>1, <3>2, <4>1, <4>2
      <3>3. ASSUME NEW k \in MutationKeys \ Desired(numericOf)
            PROVE  ~AsksFor(requests', k) /\ (k \in entries' => Clears(requests', k))
        <4>1. ~AsksFor(requests, k) /\ (k \in entries => Clears(requests, k))
          BY <1>5, <3>1
        <4>2. q # Upsert(k)
          BY <1>4, <4>1
        <4>3. k \in entries' => k \in entries /\ ~Removes(q, k)
          BY <1>3, <1>10, <2>2, <4>2, RequestKinds
        <4>4. Hits(q, k) <=> Removes(q, k)
          BY <1>3, <1>10, RequestKinds
        <4>. QED BY <1>4, <2>1, <4>1, <4>3, <4>4
      <3>4. \A i \in DOMAIN requests' : requests'[i].op = "list" => requests'[i].desired = Desired(numericOf)
        BY <1>3, <1>5, <2>1, <3>1
      <3>. QED BY <1>1, <3>1, <3>2, <3>3, <3>4 DEF QuietWell
    <2>. QED BY <1>1, <1>3, <2>1, <2>3, <2>4, ServedWell
  <1>11. CASE q.op = "list"
    <2>1. requests' \in Seq(AllRequests)
      <3>1. t \o sent \in Seq(AllRequests)
        BY <1>3, <1>8, <1>11, SeqCat
      <3>. QED BY <1>3, <1>9, <1>11, <3>1
    <2>2. \A k : AsksFor(requests', k) => AsksFor(t, k)
      <3>1. \A k : AsksFor(t \o sent, k) => AsksFor(t, k)
        BY <1>3, <1>7, <1>8, <1>11, AsksCat
      <3>. QED BY <1>9, <1>11, <3>1
    <2>3. /\ entries' \subseteq MutationKeys
          /\ \A k \in direct \ stray : k \notin entries' /\ ~AsksFor(requests', k)
      BY <1>2, <1>4, <1>9, <1>11, <2>2
    <2>4. ASSUME quiet' PROVE QuietWell'
      <3>1. quiet /\ isReady /\ requests' = t \o sent
        BY <1>1, <1>9, <1>11, <2>4
      <3>2. q.desired = Desired(numericOf)
        BY <1>3, <1>5, <1>11, <3>1
      <3>3. ASSUME NEW r \in ValueRules, numericOf[r].active, NEW k \in numericOf[r].keys
            PROVE  Sets(requests', k) \/ (k \in entries' /\ Spares(requests', k))
        <4>1. k \notin u
          BY <3>2, <3>3 DEF Desired
        <4>2. Spares(sent, k)
          BY <1>7, <1>11, <4>1
        <4>3. Sets(t, k) \/ (k \in entries /\ Spares(t, k))
          BY <1>3, <1>4, <1>5, <1>11, <3>1, <3>3, RequestKinds
        <4>4. Sets(t, k) => Sets(t \o sent, k)
          BY <1>3, <1>8, <1>11, <4>2, SetsCat
        <4>5. Spares(t, k) => Spares(t \o sent, k)
          BY <1>3, <1>8, <1>11, <4>2, SparesCat
        <4>. QED BY <1>9, <1>11, <3>1, <4>3, <4>4, <4>5
      <3>4. ASSUME NEW k \in MutationKeys \ Desired(numericOf)
            PROVE  ~AsksFor(requests', k) /\ (k \in entries' => Clears(requests', k))
        <4>1. ~AsksFor(requests, k) /\ (k \in entries => Clears(requests, k))
          BY <1>5, <3>1
        <4>2. ~AsksFor(requests', k)
          BY <1>4, <2>2, <4>1
        <4>3. ASSUME k \in entries PROVE Clears(t, k) \/ Clears(sent, k)
          <5>1. Clears(t, k) \/ Hits(q, k)
            BY <1>4, <4>1, <4>3
          <5>2. CASE Hits(q, k)
            <6>1. q.kind = Numeric[k].kind
              BY <1>3, <1>11, <5>2, RequestKinds DEF Hits
            <6>2. k \in u
              BY <3>2, <4>3, <6>1 DEF OfKind
            <6>. QED BY <1>7, <1>11, <6>2
          <5>. QED BY <5>1, <5>2
        <4>4. Clears(t, k) \/ Clears(sent, k) => Clears(t \o sent, k)
          BY <1>3, <1>8, <1>11, ClearsCat
        <4>. QED BY <1>9, <1>11, <3>1, <4>2, <4>3, <4>4
      <3>5. ASSUME NEW i \in DOMAIN requests', requests'[i].op = "list"
            PROVE  requests'[i].desired = Desired(numericOf)
        <4>1. \/ i \in DOMAIN t /\ requests'[i] = t[i]
              \/ i - Len(t) \in DOMAIN sent /\ requests'[i] = sent[i - Len(t)]
          BY <1>3, <1>8, <1>11, <3>1, <3>5, SeqCat
        <4>2. CASE i \in DOMAIN t /\ requests'[i] = t[i]
          BY <1>3, <1>5, <3>1, <3>5, <4>2
        <4>3. CASE i - Len(t) \in DOMAIN sent /\ requests'[i] = sent[i - Len(t)]
          <5>1. sent[i - Len(t)] \in Removals(u)
            BY <1>7, <1>11, <4>3
          <5>2. sent[i - Len(t)].op = "remove"
            BY <5>1, RequestsAre
          <5>. QED BY <3>5, <4>3, <5>2
        <4>. QED BY <4>1, <4>2, <4>3
      <3>. QED BY <1>1, <3>1, <3>3, <3>4, <3>5 DEF QuietWell
    <2>. QED BY <1>1, <2>1, <2>3, <2>4, ServedWell
  <1>. QED BY <1>1, <1>10, <1>11

\* RemoveNumericReward, of a state that was never migrated.
LEMMA RemoveUnknownIs ==
    ASSUME NEW r \in ValueRules, NEW w, PartWell(r, w)
    PROVE  LET x == RemoveUnknown(w, r)
           IN Quietly(r, w, x) /\ x.st = w.st /\ x.on = w.on
  <1> DEFINE S == KeysOf(r) \ Lasting(KeysOf(r))
             t == [i \in DOMAIN SetToSeq(S) |-> Removal(SetToSeq(S)[i])]
  <1>1. S \subseteq KeysOf(r) /\ S \subseteq MutationKeys
    BY KeysAre
  <1>2. RemoveUnknown(w, r) = [w EXCEPT !.sent = Asked(@, t)]
    BY DEF RemoveUnknown
  <1> HIDE DEF S
  <1>3. t \in Seq(Removals(S))
    BY <1>1, RemovalsOf
  <1> HIDE DEF t
  <1>4. t \in Seq(Removals(KeysOf(r)))
    <2>1. Removals(S) \subseteq Removals(KeysOf(r))
      BY <1>1 DEF Removals
    <2>. QED BY <1>3, <2>1, SeqWider
  <1>. QED BY <1>2, <1>4, SendsRemovals

\* What a reset leaves of a rule.
ResetOf(r) ==
    LET c == RuleRemoved(Work(numericOf[r], direct \cap KeysOf(r), <<>>), r)
        ended == IF ~c.st.known THEN RemoveUnknown(c, r)
                 ELSE IF c.st.active THEN RemoveActive(c) ELSE c
    IN Forgiven(ended)

\* A reset leaves no delta that the record knew of.
LEMMA ResetOfIs ==
    ASSUME LedgerWell, NEW r \in ValueRules
    PROVE  LET w == ResetOf(r)
               s == [w.st EXCEPT !.known = TRUE, !.active = FALSE, !.reroll = TRUE, !.keys = {}]
           IN /\ PartWell(r, w) /\ Mute(w) /\ NumericWell(r, s)
              /\ \A k \in w.on : k \notin numericOf[r].legacy
  <1> DEFINE b == Work(numericOf[r], direct \cap KeysOf(r), <<>>)
             c == RuleRemoved(b, r)
             ended == IF ~c.st.known THEN RemoveUnknown(c, r)
                      ELSE IF c.st.active THEN RemoveActive(c) ELSE c
             w == ResetOf(r)
  <1>1. PartWell(r, b) /\ Mute(b) /\ b.st = numericOf[r]
    <2>1. b.st = numericOf[r] /\ b.on = direct \cap KeysOf(r) /\ b.sent = <<>>
      BY DEF Work
    <2>2. NumericWell(r, numericOf[r]) /\ direct \subseteq Values
      BY DEF LedgerWell, GameWell
    <2>3. <<>> \in Seq(Requests(KeysOf(r)))
      OBVIOUS
    <2>. QED BY <2>1, <2>2, <2>3, EmptySays DEF PartWell, Work, Mute
  <1>2. w = Forgiven(ended)
    BY DEF ResetOf
  <1> HIDE DEF b, w
  <1>3. Quietly(r, b, c) /\ PartWell(r, c)
    BY <1>1, RuleRemovedIs DEF Quietly
  <1> HIDE DEF c
  <1>4. isReady \in BOOLEAN
    BY DEF LedgerWell
  <1>5. Quietly(r, c, ended) /\ PartWell(r, ended)
    BY <1>3, <1>4, RemoveUnknownIs, RemoveActiveIs, QuietlySame DEF Quietly
  <1> HIDE DEF ended
  <1>6. Quietly(r, ended, w) /\ w.st.legacy = {}
    BY <1>2, <1>5, ForgivenIs
  <1>7. PartWell(r, w) /\ Mute(w) /\ Loose(w) \subseteq Loose(b)
    BY <1>1, <1>3, <1>5, <1>6 DEF Quietly
  <1>8. \A k \in w.on : k \notin numericOf[r].legacy
    BY <1>1, <1>6, <1>7 DEF Loose
  <1>9. NumericWell(r, [w.st EXCEPT !.known = TRUE, !.active = FALSE, !.reroll = TRUE, !.keys = {}])
    <2> DEFINE a == w.st
               yes == TRUE
               no == FALSE
               none == {}
               s == [a EXCEPT !.known = yes, !.active = no, !.reroll = yes, !.keys = none]
               a0 == Fields(a.known, a.active, a.version, a.reroll, a.keys, a.lasting, a.legacy)
               a1 == Fields(yes, a.active, a.version, a.reroll, a.keys, a.lasting, a.legacy)
               a2 == Fields(yes, no, a.version, a.reroll, a.keys, a.lasting, a.legacy)
               a3 == Fields(yes, no, a.version, yes, a.keys, a.lasting, a.legacy)
               a4 == Fields(yes, no, a.version, yes, none, a.lasting, a.legacy)
    <2>1. /\ a.version \in 0..2 /\ a.lasting \subseteq KeysOf(r) /\ a.legacy \subseteq KeysOf(r)
          /\ a = [known |-> a.known, active |-> a.active, version |-> a.version,
                  reroll |-> a.reroll, keys |-> a.keys, lasting |-> a.lasting, legacy |-> a.legacy]
      BY <1>7, RecordIs DEF PartWell
    <2>2. a = a0
      BY <2>1 DEF Fields
    <2>3. yes \in BOOLEAN /\ no \in BOOLEAN /\ ~no /\ none \subseteq KeysOf(r)
      OBVIOUS
    <2>4. /\ [a0 EXCEPT !.known = yes] = a1 /\ [a1 EXCEPT !.active = no] = a2
          /\ [a2 EXCEPT !.reroll = yes] = a3 /\ [a3 EXCEPT !.keys = none] = a4
      <3> HIDE DEF yes, no, none
      <3>. QED BY DEF Fields
    <2>5. s = [[[[a EXCEPT !.known = yes] EXCEPT !.active = no] EXCEPT !.reroll = yes] EXCEPT !.keys = none]
      <3> HIDE DEF a, yes, no, none
      <3>. QED OBVIOUS
    <2>6. s = a4
      <3> HIDE DEF a0, a1, a2, a3, a4, s
      <3>. QED BY <2>2, <2>4, <2>5
    <2>7. /\ a4 = [known |-> a4.known, active |-> a4.active, version |-> a4.version,
                   reroll |-> a4.reroll, keys |-> a4.keys, lasting |-> a4.lasting, legacy |-> a4.legacy]
          /\ a4.known = yes /\ a4.active = no /\ a4.version = a.version /\ a4.reroll = yes
          /\ a4.keys = none /\ a4.lasting = a.lasting /\ a4.legacy = a.legacy
      <3> HIDE DEF yes, no, none, a
      <3>. QED BY DEF Fields
    <2>8. NumericWell(r, a4)
      <3> HIDE DEF yes, no, none, a, a4
      <3>. QED BY <2>1, <2>3, <2>7, RecordIs
    <2>. QED BY <2>6, <2>8
  <1>. QED BY <1>7, <1>8, <1>9 DEF w

\* A reset keeps the invariant: the deltas it leaves on the actor are stray.
LEMMA ResetKeeps ==
    ASSUME LedgerWell, NEW r \in ValueRules, ResetRule(r)
    PROVE  LedgerWell'
  <1> DEFINE w == ResetOf(r)
             s == [w.st EXCEPT !.known = TRUE, !.active = FALSE, !.reroll = TRUE, !.keys = {}]
  <1>1. /\ numericOf' = [numericOf EXCEPT ![r] = s]
        /\ direct' = (direct \ KeysOf(r)) \cup w.on
        /\ requests' = requests \o w.sent
        /\ stray' = stray \cup {k \in direct \cap KeysOf(r) : ~numericOf[r].known}
        /\ quiet' = FALSE
        /\ UNCHANGED <<entries, isReady, ruleNow, saved_L>>
    BY DEF ResetRule, ResetOf
  <1>2. /\ PartWell(r, w) /\ Mute(w) /\ NumericWell(r, s)
        /\ \A k \in w.on : k \notin numericOf[r].legacy
    BY ResetOfIs
  <1> HIDE DEF w, s
  <1>3. /\ w.on \subseteq Values \cap KeysOf(r) \cap direct /\ w.sent \in Seq(Requests(KeysOf(r)))
        /\ entries \subseteq MutationKeys /\ direct \subseteq Values
        /\ DOMAIN numericOf = ValueRules /\ \A q \in ValueRules : NumericWell(q, numericOf[q])
        /\ \A k \in direct \ stray : /\ k \notin entries /\ Tracked(numericOf[Numeric[k].rule], k)
                                     /\ ~AsksFor(requests, k)
        /\ requests \in Seq(AllRequests)
    BY <1>2 DEF PartWell, LedgerWell, GameWell
  <1>4. /\ DOMAIN numericOf' = ValueRules /\ numericOf'[r] = s
        /\ \A q \in ValueRules \ {r} : numericOf'[q] = numericOf[q]
    BY <1>1, <1>3
  <1>5. ASSUME NEW k \in direct' \ stray'
        PROVE  k \in direct \ stray /\ k \notin KeysOf(r)
    <2>1. k \in direct \ stray /\ k \in MutationKeys
      BY <1>1, <1>3, <1>5, KeysAre
    <2>2. ASSUME k \in w.on PROVE FALSE
      <3>1. k \in KeysOf(r) /\ Numeric[k].rule = r /\ k \notin numericOf[r].legacy
        BY <1>2, <1>3, <2>2, KeysAre
      <3>2. ~numericOf[r].known
        BY <1>3, <2>1, <3>1 DEF Tracked
      <3>. QED BY <1>1, <1>5, <2>1, <3>1, <3>2
    <2>. QED BY <1>1, <1>5, <2>1, <2>2
  <1>6. w.sent \in Seq(AllRequests)
    BY <1>3, RequestsWider, SeqWider
  <1>7. ASSUME NEW k \in direct' \ stray'
        PROVE  /\ k \notin entries /\ Tracked(numericOf'[Numeric[k].rule], k)
               /\ ~AsksFor(requests', k)
    <2>1. k \in MutationKeys /\ Numeric[k].rule \in ValueRules \ {r}
      BY <1>3, <1>5, <1>7, KeysAre
    <2>2. ~AsksFor(requests \o w.sent, k)
      BY <1>2, <1>3, <1>5, <1>6, <1>7, <2>1, AsksCat DEF Mute
    <2>. QED BY <1>1, <1>3, <1>4, <1>5, <1>7, <2>1, <2>2
  <1>8. requests' \in Seq(AllRequests)
    <2>1. requests \o w.sent \in Seq(AllRequests)
      BY <1>3, <1>6, SeqCat
    <2>. QED BY <1>1, <2>1
  <1>9. GameWell(entries', direct', numericOf', stray')
    <2>1. entries' \subseteq MutationKeys /\ direct' \subseteq Values
      BY <1>1, <1>3
    <2>2. \A q \in ValueRules : NumericWell(q, numericOf'[q])
      BY <1>2, <1>3, <1>4
    <2>. QED BY <1>1, <1>4, <1>7, <2>1, <2>2 DEF GameWell
  <1>10. /\ isReady' \in BOOLEAN /\ DOMAIN ruleNow' = ValueRules
         /\ \A q \in ValueRules : ruleNow'[q] \in 0..2
         /\ GameWell(saved_L'.entries, saved_L'.direct, saved_L'.numericOf, saved_L'.stray)
    BY <1>1 DEF LedgerWell
  <1>. QED BY <1>1, <1>7, <1>8, <1>9, <1>10 DEF LedgerWell

\* An old save: its rules are not migrated, their deltas are on the actor.
LEMMA LedgerStarts ==
    ASSUME Init_L
    PROVE  LedgerWell
  <1>1. PICK old \in Old :
          /\ numericOf = [r \in ValueRules |-> IF r \in old THEN OldState ELSE NoNumericState]
          /\ direct = UNION {OfKind(KeysOf(r), "value") : r \in old}
    BY DEF Init_L
  <1>2. /\ entries = {} /\ requests = <<>> /\ isReady \in BOOLEAN
        /\ ruleNow = [r \in ValueRules |-> 1] /\ quiet = FALSE /\ stray = {}
        /\ saved_L = [entries |-> entries, direct |-> direct, numericOf |-> numericOf, stray |-> {}]
    BY DEF Init_L
  <1>3. old \subseteq ValueRules
    BY NumericAssumption
  <1> DEFINE no == FALSE
             yes == TRUE
             zero == 0
             one == 1
             none == {}
             N == Fields(no, no, zero, yes, none, none, none)
             O == Fields(no, no, one, yes, none, none, none)
  <1>4. NoNumericState = N /\ OldState = O
    <2>1. NoNumericState = N
      BY DEF NoNumericState, Fields
    <2>2. OldState = [NoNumericState EXCEPT !.version = one]
      BY DEF OldState
    <2>3. [N EXCEPT !.version = one] = O
      <3> HIDE DEF no, yes, zero, one, none
      <3>. QED BY DEF Fields
    <2> HIDE DEF N, O
    <2>. QED BY <2>1, <2>2, <2>3
  <1>5. /\ N = [known |-> N.known, active |-> N.active, version |-> N.version, reroll |-> N.reroll,
                keys |-> N.keys, lasting |-> N.lasting, legacy |-> N.legacy]
        /\ O = [known |-> O.known, active |-> O.active, version |-> O.version, reroll |-> O.reroll,
                keys |-> O.keys, lasting |-> O.lasting, legacy |-> O.legacy]
        /\ N.known = no /\ N.active = no /\ N.version = zero /\ N.reroll = yes
        /\ N.keys = none /\ N.lasting = none /\ N.legacy = none
        /\ O.known = no /\ O.active = no /\ O.version = one /\ O.reroll = yes
        /\ O.keys = none /\ O.lasting = none /\ O.legacy = none
    <2> HIDE DEF no, yes, zero, one, none
    <2>. QED BY DEF Fields
  <1> HIDE DEF N, O
  <1>6. \A r \in ValueRules : NumericWell(r, N) /\ NumericWell(r, O)
    <2>1. no \in BOOLEAN /\ yes \in BOOLEAN /\ ~no /\ zero \in 0..2 /\ one \in 0..2
          /\ \A S : none \subseteq S
      OBVIOUS
    <2> HIDE DEF no, yes, zero, one, none
    <2>. QED BY <1>5, <2>1, RecordIs
  <1>7. \A r \in ValueRules : numericOf[r] \in {N, O} /\ (r \in old => numericOf[r] = O)
    BY <1>1, <1>4
  <1>8. ASSUME NEW k \in direct PROVE k \in Values /\ Tracked(numericOf[Numeric[k].rule], k)
    <2>1. PICK r \in old : k \in OfKind(KeysOf(r), "value")
      BY <1>1
    <2>2. k \in KeysOf(r) /\ k \in MutationKeys /\ Numeric[k].rule = r /\ Numeric[k].kind = "value"
      BY <1>3, <2>1, KeysAre DEF OfKind
    <2>3. Tracked(O, k)
      BY <1>5 DEF Tracked
    <2>. QED BY <1>3, <1>7, <2>1, <2>2, <2>3 DEF Values, OfKind
  <1>9. GameWell(entries, direct, numericOf, stray)
    <2>1. DOMAIN numericOf = ValueRules
      BY <1>1
    <2>2. \A r \in ValueRules : NumericWell(r, numericOf[r])
      BY <1>6, <1>7
    <2>. QED BY <1>2, <1>8, <2>1, <2>2 DEF GameWell
  <1>10. /\ saved_L.entries = entries /\ saved_L.direct = direct
         /\ saved_L.numericOf = numericOf /\ saved_L.stray = stray
    BY <1>2
  <1>11. requests \in Seq(AllRequests) /\ \A k \in direct \ stray : ~AsksFor(requests, k)
    BY <1>2, EmptySays
  <1>12. DOMAIN ruleNow = ValueRules /\ \A r \in ValueRules : ruleNow[r] \in 0..2
    BY <1>2
  <1>. QED BY <1>2, <1>9, <1>10, <1>11, <1>12 DEF LedgerWell

\* The other steps leave the game as it is, or exchange it with the save.
LEMMA OthersKeep ==
    ASSUME LedgerWell
    PROVE  /\ ReadinessChanges => LedgerWell'
           /\ \A r \in ValueRules : EditNumeric(r) \/ ForgetRule(r) => LedgerWell'
           /\ SaveGame_L => LedgerWell'
           /\ LoadGame_L => LedgerWell'
           /\ UNCHANGED ledgerVars => LedgerWell'
  <1>1. /\ isReady \in BOOLEAN /\ requests \in Seq(AllRequests)
        /\ DOMAIN ruleNow = ValueRules /\ \A r \in ValueRules : ruleNow[r] \in 0..2
        /\ GameWell(entries, direct, numericOf, stray)
        /\ GameWell(saved_L.entries, saved_L.direct, saved_L.numericOf, saved_L.stray)
        /\ \A k \in direct \ stray : ~AsksFor(requests, k)
        /\ quiet => QuietWell
    BY DEF LedgerWell
  <1>2. ASSUME ReadinessChanges PROVE LedgerWell'
    <2>1. /\ isReady' = ~isReady /\ quiet' = (quiet /\ requests = <<>>)
          /\ UNCHANGED <<entries, direct, numericOf, stray, requests, ruleNow, saved_L>>
      BY <1>2 DEF ReadinessChanges, gameVars
    <2>2. quiet' => QuietWell'
      BY <1>1, <2>1 DEF QuietWell
    <2>. QED BY <1>1, <2>1, <2>2 DEF LedgerWell
  <1>3. ASSUME NEW r \in ValueRules, EditNumeric(r) \/ ForgetRule(r) PROVE LedgerWell'
    <2>1. /\ UNCHANGED <<entries, direct, numericOf, stray, requests, isReady, saved_L, quiet>>
          /\ ruleNow' = [ruleNow EXCEPT ![r] = 2] \/ ruleNow' = [ruleNow EXCEPT ![r] = 0]
      BY <1>3 DEF EditNumeric, ForgetRule, gameVars
    <2>2. DOMAIN ruleNow' = ValueRules /\ \A q \in ValueRules : ruleNow'[q] \in 0..2
      BY <1>1, <2>1
    <2>3. quiet' => QuietWell'
      BY <1>1, <2>1 DEF QuietWell
    <2>. QED BY <1>1, <2>1, <2>2, <2>3 DEF LedgerWell
  <1>4. ASSUME SaveGame_L PROVE LedgerWell'
    <2>1. /\ saved_L' = [entries |-> entries, direct |-> direct, numericOf |-> numericOf,
                         stray |-> stray]
          /\ UNCHANGED <<entries, direct, numericOf, stray, requests, isReady, ruleNow, quiet>>
      BY <1>4 DEF SaveGame_L, gameVars
    <2>2. /\ saved_L'.entries = entries /\ saved_L'.direct = direct
          /\ saved_L'.numericOf = numericOf /\ saved_L'.stray = stray
      BY <2>1
    <2>3. quiet' => QuietWell'
      BY <1>1, <2>1 DEF QuietWell
    <2>. QED BY <1>1, <2>1, <2>2, <2>3 DEF LedgerWell
  <1>5. ASSUME LoadGame_L PROVE LedgerWell'
    <2>1. /\ entries' = saved_L.entries /\ direct' = saved_L.direct
          /\ numericOf' = saved_L.numericOf /\ stray' = saved_L.stray
          /\ requests' = <<>> /\ quiet' = FALSE /\ UNCHANGED <<isReady, ruleNow, saved_L>>
      BY <1>5 DEF LoadGame_L
    <2>2. requests' \in Seq(AllRequests) /\ \A k : ~AsksFor(requests', k)
      BY <2>1, EmptySays
    <2>. QED BY <1>1, <2>1, <2>2 DEF LedgerWell
  <1>6. ASSUME UNCHANGED ledgerVars PROVE LedgerWell'
    <2>1. UNCHANGED <<entries, direct, numericOf, stray, requests, isReady, ruleNow, saved_L, quiet>>
      BY <1>6 DEF ledgerVars
    <2>2. quiet' => QuietWell'
      BY <1>1, <2>1 DEF QuietWell
    <2>. QED BY <1>1, <2>1, <2>2 DEF LedgerWell
  <1>. QED BY <1>2, <1>3, <1>4, <1>5, <1>6

LEMMA LedgerStep == LedgerWell /\ [Next_L]_ledgerVars => LedgerWell'
  <1> SUFFICES ASSUME LedgerWell, [Next_L]_ledgerVars PROVE LedgerWell'
    OBVIOUS
  <1>1. CASE FullPass \/ PartialPass
    <2>1. PICK considered \in SUBSET ValueRules : NumericPass(considered)
      BY <1>1 DEF FullPass, PartialPass
    <2>. QED BY <2>1, PassKeeps
  <1>2. CASE ServeRequest
    BY <1>2, ServeKeeps
  <1>3. CASE \E r \in ValueRules : ResetRule(r)
    BY <1>3, ResetKeeps
  <1>4. CASE \/ ReadinessChanges \/ SaveGame_L \/ LoadGame_L \/ UNCHANGED ledgerVars
             \/ \E r \in ValueRules : EditNumeric(r) \/ ForgetRule(r)
    BY <1>4, OthersKeep
  <1>. QED BY <1>1, <1>2, <1>3, <1>4 DEF Next_L

\* The values and scales of the actor are what the rules give, each counted once: a full
\* pass that finds no request on its way settles the actor (ReconcileActorValueLedger),
\* and the delta of an older EDF never counts with the contribution that replaces it
\* (ApplyOrReconcileNumericReward).
THEOREM ValuesCountRight == NumericSpec => []ValuesAreRight
  <1>1. LedgerWell => ValuesAreRight
    <2> SUFFICES ASSUME LedgerWell PROVE ValuesAreRight
      OBVIOUS
    <2>1. ASSUME quiet, requests = <<>>
          PROVE  /\ entries \subseteq Desired(numericOf)
                 /\ \A r \in ValueRules : numericOf[r].active => numericOf[r].keys \subseteq entries
      <3>1. QuietWell /\ entries \subseteq MutationKeys
        BY <2>1 DEF LedgerWell, GameWell
      <3>. QED BY <2>1, <3>1, EmptySays DEF QuietWell
    <2>2. ASSUME NEW k \in direct \ stray PROVE ~HandedOver(k)
      BY <2>2 DEF LedgerWell, GameWell, HandedOver, AsksFor
    <2>. QED BY <2>1, <2>2 DEF ValuesAreRight, QuietPassSettles, CountedOnce
  <1>. QED BY <1>1, LedgerStarts, LedgerStep, PTL DEF NumericSpec
=============================================================================
