---------------------------- MODULE Inlos_proofs ----------------------------
(***************************************************************************)
(* Proofs about INLOS: InlosLifecycle, for any actors, rules, triggers and *)
(* any number of events, and InlosDelivery, for any people, rules and      *)
(* settings.                                                               *)
(*                                                                         *)
(* A rule rolls its rewards once in an actor's life.                       *)
(*                                                                         *)
(* What was rolled is in the record, or about to enter it (Recorded); what *)
(* an evaluation has still to try was not rolled, unless it knows so from  *)
(* its start (Untried), even if the record was renewed under its feet; and *)
(* a record that says dead is never taken for one of the present life      *)
(* (DeadIsDead), so that a load event cannot forget what was paid in it.   *)
(*                                                                         *)
(* A claim on an actor is answered by a queued evaluation or by the record *)
(* (ClaimsWell), and of what the record calls processed every rule of the  *)
(* trigger was rolled or declined, or the run under way has it still ahead *)
(* (AnswersWell).                                                          *)
(*                                                                         *)
(* The loot: who can be a receiver (ReceiverIs), and what was given, moved *)
(* and taught so far (PlacesWell, GiftsWell, SharesWell).                  *)
(***************************************************************************)
EXTENDS InlosLifecycle, InlosDelivery, SequenceTheorems, FiniteSetTheorems,
        WellFoundedInduction, TLAPS

Run == [actor : Actors, trigger : Triggers, previously : SUBSET Rules, rule : Rules,
        step : {"match", "complete"}]

DeadIsDead == \A a \in Actors : life[a].dead => a \in isDead \cup unloaded

Recorded ==
    \A a \in Actors, r \in Rules : rolls[a][r] >= 1 =>
        \/ r \in life[a].applied
        \/ Evaluating(a) /\ run[1].rule = r /\ run[1].step = "complete"

ToTry(r) == r > run[1].rule \/ (r = run[1].rule /\ run[1].step = "match")

Untried ==
    ~Idle => \A r \in Rules : ToTry(r) /\ r \notin run[1].previously =>
                                rolls[run[1].actor][r] = 0

LifecycleInv ==
    LifecycleTypeOK /\ DeadIsDead /\ Recorded /\ Untried /\ OncePerLife
----------------------------------------------------------------------------
LEMMA FreshIsState == FreshLife \in LifecycleState /\ FreshLife.applied = {} /\ ~FreshLife.dead
                      /\ ~FreshLife.deathProcessed
  BY DEF FreshLife, LifecycleState

LEMMA LifecycleInitially == LifecycleInit => LifecycleInv
  <1> SUFFICES ASSUME LifecycleInit PROVE LifecycleInv
    OBVIOUS
  <1> USE DEF LifecycleInit
  <1>1. LifecycleTypeOK
    <2>1. life \in [Actors -> LifecycleState] /\ \A a \in Actors : ~life[a].deathProcessed
      BY FreshIsState
    <2>2. rolls \in [Actors -> [Rules -> Nat]]
      OBVIOUS
    <2>3. events \in 0..MaxEvents
      BY InlosBoundAssumption
    <2>4. /\ claims \in [Actors -> SUBSET Triggers]
          /\ declined \in [Actors -> SUBSET (Rules \X Triggers)]
      OBVIOUS
    <2>. QED BY <2>1, <2>2, <2>3, <2>4 DEF LifecycleTypeOK
  <1>2. DeadIsDead
    BY FreshIsState DEF DeadIsDead
  <1>3. \A a \in Actors, r \in Rules : rolls[a][r] = 0
    OBVIOUS
  <1>. QED BY <1>1, <1>2, <1>3 DEF LifecycleInv, Recorded, Untried, Idle, OncePerLife

\* The rolls of a new life are none.
LEMMA NewLifeRolls ==
    ASSUME LifecycleTypeOK, NEW a \in Actors, NewLife(a)
    PROVE  /\ rolls' \in [Actors -> [Rules -> Nat]]
           /\ claims' \in [Actors -> SUBSET Triggers]
           /\ declined' \in [Actors -> SUBSET (Rules \X Triggers)]
           /\ \A r \in Rules : rolls'[a][r] = 0
           /\ \A b \in Actors : b # a => rolls'[b] = rolls[b]
  <1>1. [r \in Rules |-> 0] \in [Rules -> Nat]
    OBVIOUS
  <1>2. /\ rolls \in [Actors -> [Rules -> Nat]]
        /\ claims \in [Actors -> SUBSET Triggers]
        /\ declined \in [Actors -> SUBSET (Rules \X Triggers)]
    BY DEF LifecycleTypeOK
  <1>3. rolls' = [rolls EXCEPT ![a] = [r \in Rules |-> 0]]
    BY DEF NewLife
  <1>4. /\ claims' \in [Actors -> SUBSET Triggers]
        /\ declined' \in [Actors -> SUBSET (Rules \X Triggers)]
    BY <1>2 DEF NewLife
  <1>. QED BY <1>1, <1>2, <1>3, <1>4

\* A new record of one actor, or none.
LEMMA OneRecord ==
    ASSUME LifecycleTypeOK, NEW a \in Actors, NEW state \in LifecycleState,
           state.deathProcessed => state.dead, life' = [life EXCEPT ![a] = state]
    PROVE  /\ life' \in [Actors -> LifecycleState]
           /\ \A b \in Actors : life'[b].deathProcessed => life'[b].dead
           /\ life'[a] = state
           /\ \A b \in Actors : b # a => life'[b] = life[b]
  BY DEF LifecycleTypeOK
----------------------------------------------------------------------------
LEMMA RunTaskKeeps == ASSUME LifecycleInv, RunTask PROVE LifecycleInv'
  <1> DEFINE t == Head(tasks)
             state == life[t.actor]
             new == [actor |-> t.actor, trigger |-> t.trigger,
                     previously |-> state.applied, rule |-> 1, step |-> "match"]
  <1>0. LifecycleTypeOK
    BY DEF LifecycleInv
  <1>1. /\ t \in [actor : Actors, trigger : Triggers]
        /\ tasks' \in Seq([actor : Actors, trigger : Triggers])
        /\ UNCHANGED <<isDead, unloaded, rolls, claims, declined, muddled, events>>
    <2>1. tasks \in Seq([actor : Actors, trigger : Triggers]) /\ tasks # <<>> /\ tasks' = Tail(tasks)
      BY <1>0 DEF RunTask, LifecycleTypeOK
    <2>2. UNCHANGED <<isDead, unloaded, rolls, claims, declined, muddled, events>>
      BY DEF RunTask, historyVars
    <2>. QED BY <2>1, <2>2, HeadTailProperties
  <1>2. state \in LifecycleState /\ t.actor \in Actors /\ (state.deathProcessed => state.dead)
    BY <1>0, <1>1 DEF LifecycleTypeOK
  <1>3. CASE UNCHANGED <<life, run>>
    <2>1. LifecycleTypeOK'
      BY <1>0, <1>1, <1>3 DEF LifecycleTypeOK
    <2>. QED BY <1>1, <1>3, <2>1 DEF LifecycleInv, DeadIsDead, Recorded, Untried, ToTry,
                OncePerLife, Evaluating, Idle
  <1>4. CASE /\ ~((t.trigger = "death" /\ t.actor \notin isDead) \/ Processed(state, t.trigger))
             /\ life' = [life EXCEPT ![t.actor] = Begun(state, t.trigger)]
             /\ run' = <<new>>
    <2>1. /\ Begun(state, t.trigger) \in LifecycleState
          /\ Begun(state, t.trigger).applied = state.applied
          /\ Begun(state, t.trigger).deathProcessed => Begun(state, t.trigger).dead
          /\ Begun(state, t.trigger).dead => state.dead \/ t.actor \in isDead
      BY <1>2, <1>4 DEF Begun, LifecycleState
    <2>2. /\ life' \in [Actors -> LifecycleState]
          /\ \A b \in Actors : life'[b].deathProcessed => life'[b].dead
          /\ life'[t.actor] = Begun(state, t.trigger)
          /\ \A b \in Actors : b # t.actor => life'[b] = life[b]
      BY <1>0, <1>2, <1>4, <2>1, OneRecord
    <2>3. new \in Run
      <3>1. 1 \in Rules
        BY RuleAssumption DEF Rules
      <3>2. state.applied \in SUBSET Rules
        BY <1>2 DEF LifecycleState
      <3>. QED BY <1>1, <3>1, <3>2 DEF Run
    <2>4. LifecycleTypeOK'
      BY <1>0, <1>1, <1>4, <2>2, <2>3 DEF LifecycleTypeOK, Run
    <2>5. \A a \in Actors : life'[a].applied = life[a].applied
      BY <2>1, <2>2
    <2>6. DeadIsDead'
      BY <1>1, <2>1, <2>2 DEF LifecycleInv, DeadIsDead
    <2>7. Idle
      BY DEF RunTask
    <2>8. \A a \in Actors, r \in Rules : rolls[a][r] >= 1 => r \in life[a].applied
      BY <2>7 DEF LifecycleInv, Recorded, Evaluating
    <2>9. Recorded'
      BY <1>1, <2>5, <2>8 DEF Recorded
    <2>10. Untried'
      <3>1. run'[1].previously = life[t.actor].applied /\ run'[1].actor = t.actor
        BY <1>4
      <3>2. \A r \in Rules : rolls[t.actor][r] \in Nat
        BY <1>0, <1>2 DEF LifecycleTypeOK
      <3>. QED BY <1>1, <1>2, <2>8, <3>1, <3>2 DEF Untried
    <2>11. OncePerLife'
      BY <1>1 DEF LifecycleInv, OncePerLife
    <2>. QED BY <2>4, <2>6, <2>9, <2>10, <2>11 DEF LifecycleInv
  <1>. HIDE DEF new, state, t
  <1>5. \/ UNCHANGED <<life, run>>
        \/ /\ ~((t.trigger = "death" /\ t.actor \notin isDead) \/ Processed(state, t.trigger))
           /\ life' = [life EXCEPT ![t.actor] = Begun(state, t.trigger)]
           /\ run' = <<new>>
    BY DEF RunTask, t, state, new
  <1>. QED BY <1>3, <1>4, <1>5

LEMMA RunTyped == ASSUME LifecycleTypeOK, ~Idle PROVE run[1] \in Run
  BY DEF LifecycleTypeOK, Idle, Run

\* The next rule, or the end of the evaluation.
LEMMA ProceedTyped ==
    ASSUME LifecycleTypeOK, ~Idle, Proceed
    PROVE  \/ run' = <<>>
           \/ /\ run'[1] \in Run /\ run' # <<>> /\ run'[1].step = "match"
              /\ run'[1].actor = run[1].actor /\ run'[1].previously = run[1].previously
              /\ run'[1].rule = run[1].rule + 1
  <1> DEFINE next == [run[1] EXCEPT !.rule = @ + 1, !.step = "match"]
  <1>1. run[1] \in Run
    BY RunTyped
  <1>2. CASE run[1].rule = NRules
    BY <1>2 DEF Proceed
  <1>3. CASE run[1].rule # NRules
    <2>1. run[1].rule + 1 \in Rules
      BY <1>1, <1>3, RuleAssumption DEF Run, Rules
    <2>2. next \in Run /\ next.step = "match" /\ next.actor = run[1].actor
          /\ next.previously = run[1].previously /\ next.rule = run[1].rule + 1
      BY <1>1, <2>1 DEF Run
    <2>3. run' = <<next>>
      BY <1>3 DEF Proceed
    <2>. HIDE DEF next
    <2>. QED BY <2>2, <2>3
  <1>. QED BY <1>2, <1>3

\* What was to be tried after the present rule is still untried.
LEMMA ProceedUntried ==
    ASSUME LifecycleInv, ~Idle, Proceed, rolls' = rolls PROVE Untried'
  <1>1. LifecycleTypeOK
    BY DEF LifecycleInv
  <1>2. CASE run' = <<>>
    BY <1>2 DEF Untried, Idle
  <1>3. CASE /\ run'[1] \in Run /\ run' # <<>> /\ run'[1].step = "match"
             /\ run'[1].actor = run[1].actor /\ run'[1].previously = run[1].previously
             /\ run'[1].rule = run[1].rule + 1
    <2>1. \A r \in Rules : ToTry(r)' => ToTry(r)
      <3>1. run[1].rule \in Int
        BY <1>1, RunTyped DEF Run, Rules
      <3>. QED BY <1>3, <3>1 DEF ToTry, Rules
    <2>. QED BY <1>3, <2>1 DEF Untried, LifecycleInv
  <1>. QED BY <1>1, <1>2, <1>3, ProceedTyped

LEMMA SkipKeeps == ASSUME LifecycleInv, SkipRule PROVE LifecycleInv'
  <1>0. LifecycleTypeOK /\ ~Idle /\ run[1].step = "match" /\ Proceed
        /\ UNCHANGED <<life, tasks, isDead, unloaded, rolls, claims, muddled, events>>
    BY DEF LifecycleInv, SkipRule
  <1>1. run[1] \in Run
    BY <1>0, RunTyped
  <1>2. declined' \in [Actors -> SUBSET (Rules \X Triggers)]
    <2>1. <<run[1].rule, run[1].trigger>> \in Rules \X Triggers
      BY <1>1 DEF Run
    <2>2. declined \in [Actors -> SUBSET (Rules \X Triggers)]
      BY <1>0 DEF LifecycleTypeOK
    <2>3. declined' = declined \/ declined' = [declined EXCEPT ![run[1].actor] =
                                     @ \cup {<<run[1].rule, run[1].trigger>>}]
      BY DEF SkipRule
    <2>. QED BY <2>1, <2>2, <2>3
  <1>3. run' = <<>> \/ run'[1] \in Run
    BY <1>0, ProceedTyped
  <1>4. LifecycleTypeOK'
    BY <1>0, <1>2, <1>3 DEF LifecycleTypeOK, Run
  <1>5. Untried'
    BY <1>0, ProceedUntried
  <1>6. Recorded'
    BY <1>0 DEF LifecycleInv, Recorded, Evaluating
  <1>. QED BY <1>0, <1>4, <1>5, <1>6 DEF LifecycleInv, DeadIsDead, OncePerLife

LEMMA RollKeeps == ASSUME LifecycleInv, RollRewards PROVE LifecycleInv'
  <1> DEFINE e == run[1]
             new == [e EXCEPT !.step = "complete"]
  <1>0. /\ LifecycleTypeOK /\ ~Idle /\ e.step = "match" /\ e.rule \notin e.previously
        /\ rolls' = [rolls EXCEPT ![e.actor][e.rule] = @ + 1] /\ run' = <<new>>
        /\ UNCHANGED <<life, tasks, isDead, unloaded, claims, declined, muddled, events>>
    BY DEF LifecycleInv, RollRewards
  <1>1. e \in Run /\ e.rule \in Rules /\ e.actor \in Actors
    BY <1>0, RunTyped DEF Run
  <1>2. /\ new \in Run /\ new.actor = e.actor /\ new.rule = e.rule /\ new.step = "complete"
        /\ new.previously = e.previously
    BY <1>1 DEF Run
  <1>3. rolls \in [Actors -> [Rules -> Nat]] /\ rolls[e.actor][e.rule] = 0
    BY <1>0, <1>1 DEF LifecycleTypeOK, LifecycleInv, Untried, ToTry
  <1> HIDE DEF e, new
  <1>4. /\ rolls' \in [Actors -> [Rules -> Nat]] /\ rolls'[e.actor][e.rule] = 1
        /\ \A a \in Actors, r \in Rules : ~(a = e.actor /\ r = e.rule) => rolls'[a][r] = rolls[a][r]
    BY <1>0, <1>1, <1>3
  <1>5. LifecycleTypeOK'
    BY <1>0, <1>2, <1>4 DEF LifecycleTypeOK, Run
  <1>6. run'[1] = new /\ run' # <<>>
    BY <1>0
  <1>7. Recorded'
    <2> SUFFICES ASSUME NEW a \in Actors, NEW r \in Rules, rolls'[a][r] >= 1
                 PROVE  \/ r \in life[a].applied
                        \/ Evaluating(a)' /\ run'[1].rule = r /\ run'[1].step = "complete"
      BY <1>0 DEF Recorded
    <2>1. CASE a = e.actor /\ r = e.rule
      BY <1>2, <1>6, <2>1 DEF Evaluating, Idle
    <2>2. CASE ~(a = e.actor /\ r = e.rule)
      BY <1>0, <1>4, <2>2 DEF LifecycleInv, Recorded, e
    <2>. QED BY <2>1, <2>2
  <1>8. Untried'
    <2>1. \A r \in Rules : ToTry(r)' => r > e.rule
      BY <1>2, <1>6 DEF ToTry
    <2>2. \A r \in Rules : r > e.rule => r # e.rule
      BY <1>1 DEF Rules
    <2>3. \A r \in Rules : r > e.rule /\ r \notin e.previously => rolls[e.actor][r] = 0
      BY <1>0 DEF LifecycleInv, Untried, ToTry, e
    <2>. QED BY <1>1, <1>2, <1>4, <1>6, <2>1, <2>2, <2>3 DEF Untried
  <1>9. OncePerLife'
    BY <1>4 DEF LifecycleInv, OncePerLife
  <1>. QED BY <1>0, <1>5, <1>7, <1>8, <1>9 DEF LifecycleInv, DeadIsDead

LEMMA CompleteKeeps == ASSUME LifecycleInv, CompleteRule PROVE LifecycleInv'
  <1> DEFINE e == run[1]
             state == [life[e.actor] EXCEPT !.applied = @ \cup {e.rule}]
  <1>0. /\ LifecycleTypeOK /\ ~Idle /\ e.step = "complete" /\ Proceed
        /\ life' = [life EXCEPT ![e.actor].applied = @ \cup {e.rule}]
        /\ UNCHANGED <<tasks, isDead, unloaded, rolls, claims, declined, muddled, events>>
    BY DEF LifecycleInv, CompleteRule, historyVars
  <1>1. e \in Run /\ e.rule \in Rules /\ e.actor \in Actors
    BY <1>0, RunTyped DEF Run
  <1>2. life[e.actor] \in LifecycleState
        /\ (life[e.actor].deathProcessed => life[e.actor].dead)
    BY <1>0, <1>1 DEF LifecycleTypeOK
  <1>3. /\ state \in LifecycleState /\ state.applied = life[e.actor].applied \cup {e.rule}
        /\ state.dead = life[e.actor].dead /\ state.deathProcessed = life[e.actor].deathProcessed
    BY <1>1, <1>2 DEF LifecycleState
  <1>4. life' = [life EXCEPT ![e.actor] = state]
    BY <1>0, <1>1 DEF LifecycleTypeOK
  <1> HIDE DEF state
  <1>5. /\ life' \in [Actors -> LifecycleState]
        /\ \A b \in Actors : life'[b].deathProcessed => life'[b].dead
        /\ life'[e.actor] = state
        /\ \A b \in Actors : b # e.actor => life'[b] = life[b]
    BY <1>0, <1>1, <1>2, <1>3, <1>4, OneRecord
  <1>6. run' = <<>> \/ run'[1] \in Run
    BY <1>0, ProceedTyped
  <1>7. LifecycleTypeOK'
    BY <1>0, <1>5, <1>6 DEF LifecycleTypeOK, Run
  <1>8. DeadIsDead'
    BY <1>0, <1>3, <1>5 DEF LifecycleInv, DeadIsDead
  <1>9. Recorded'
    BY <1>0, <1>3, <1>5 DEF LifecycleInv, Recorded, Evaluating
  <1>10. Untried'
    BY <1>0, ProceedUntried
  <1>. QED BY <1>0, <1>7, <1>8, <1>9, <1>10 DEF LifecycleInv, OncePerLife
----------------------------------------------------------------------------
(* The events.                                                              *)

LEMMA ReportTyped ==
    ASSUME LifecycleTypeOK, NEW a \in Actors, NEW trigger \in Triggers, Report(a, trigger)
    PROVE  /\ tasks' \in Seq([actor : Actors, trigger : Triggers])
           /\ claims' \in [Actors -> SUBSET Triggers]
  <1>1. Evaluation(a, trigger) \in [actor : Actors, trigger : Triggers]
    BY DEF Evaluation
  <1>2. tasks \in Seq([actor : Actors, trigger : Triggers])
        /\ claims \in [Actors -> SUBSET Triggers]
    BY DEF LifecycleTypeOK
  <1>3. Append(tasks, Evaluation(a, trigger)) \in Seq([actor : Actors, trigger : Triggers])
    BY <1>1, <1>2, AppendProperties
  <1>. QED BY <1>2, <1>3 DEF Report

LEMMA CountedEvent ==
    ASSUME LifecycleTypeOK, Event PROVE events' \in 0..MaxEvents
  BY InlosBoundAssumption DEF LifecycleTypeOK, Event

\* A death or a defeat that is reported.
LEMMA ReportKeeps ==
    ASSUME LifecycleInv, NEW a \in Actors, Die(a) \/ Defeat(a) PROVE LifecycleInv'
  <1>0. /\ LifecycleTypeOK /\ Event /\ UNCHANGED <<life, run, unloaded, rolls, declined, muddled>>
        /\ a \notin unloaded
        /\ isDead' = isDead \cup {a} \/ isDead' = isDead
        /\ \E t \in Triggers : Report(a, t)
    BY DEF LifecycleInv, Die, Defeat, Triggers
  <1>1. /\ tasks' \in Seq([actor : Actors, trigger : Triggers])
        /\ claims' \in [Actors -> SUBSET Triggers] /\ events' \in 0..MaxEvents
    BY <1>0, ReportTyped, CountedEvent
  <1>2. isDead \subseteq isDead' /\ isDead' \subseteq Actors /\ unloaded \subseteq Actors \ isDead'
    BY <1>0 DEF LifecycleTypeOK
  <1>3. LifecycleTypeOK'
    BY <1>0, <1>1, <1>2 DEF LifecycleTypeOK
  <1>4. DeadIsDead'
    BY <1>0, <1>2 DEF LifecycleInv, DeadIsDead
  <1>. QED BY <1>0, <1>3, <1>4 DEF LifecycleInv, Recorded, Untried, ToTry, OncePerLife,
              Evaluating, Idle

LEMMA RecoverKeeps ==
    ASSUME LifecycleInv, NEW a \in Actors, Recover(a) PROVE LifecycleInv'
  <1>0. /\ LifecycleTypeOK /\ Event /\ a \notin isDead /\ NewLife(a)
        /\ UNCHANGED <<tasks, run, isDead, unloaded>> /\ muddled' \subseteq Actors
    BY DEF LifecycleInv, Recover, LifecycleTypeOK
  <1>1. /\ rolls' \in [Actors -> [Rules -> Nat]]
        /\ claims' \in [Actors -> SUBSET Triggers]
        /\ declined' \in [Actors -> SUBSET (Rules \X Triggers)]
        /\ \A r \in Rules : rolls'[a][r] = 0
        /\ \A b \in Actors : b # a => rolls'[b] = rolls[b]
    BY <1>0, NewLifeRolls
  <1>2. \/ life' = [life EXCEPT ![a] = FreshLife]
        \/ life' = life /\ ~life[a].dead
    BY DEF Recover
  <1>3. /\ life' \in [Actors -> LifecycleState]
        /\ \A b \in Actors : life'[b].deathProcessed => life'[b].dead
        /\ \A b \in Actors : b # a => life'[b] = life[b]
        /\ ~life'[a].dead
    BY <1>0, <1>2, FreshIsState, OneRecord DEF LifecycleTypeOK
  <1>4. LifecycleTypeOK'
    BY <1>0, <1>1, <1>3, CountedEvent DEF LifecycleTypeOK
  <1>5. DeadIsDead'
    BY <1>0, <1>3 DEF LifecycleInv, DeadIsDead
  <1>6. Recorded'
    <2> SUFFICES ASSUME NEW b \in Actors, NEW r \in Rules, rolls'[b][r] >= 1
                 PROVE  \/ r \in life'[b].applied
                        \/ Evaluating(b) /\ run[1].rule = r /\ run[1].step = "complete"
      BY <1>0 DEF Recorded, Evaluating, Idle
    <2>1. b # a
      BY <1>1
    <2>. QED BY <1>1, <1>3, <2>1 DEF LifecycleInv, Recorded
  <1>7. Untried'
    <2> SUFFICES ASSUME ~Idle, NEW r \in Rules, ToTry(r), r \notin run[1].previously
                 PROVE  rolls'[run[1].actor][r] = 0
      BY <1>0 DEF Untried, Idle, ToTry
    <2>1. run[1].actor \in Actors /\ rolls[run[1].actor][r] = 0
      BY <1>0, RunTyped DEF LifecycleInv, Untried, Run
    <2>. QED BY <1>1, <2>1
  <1>8. OncePerLife'
    BY <1>1 DEF LifecycleInv, OncePerLife
  <1>. QED BY <1>4, <1>5, <1>6, <1>7, <1>8 DEF LifecycleInv

LEMMA ReviveKeeps ==
    ASSUME LifecycleInv, NEW a \in Actors, Revive(a) PROVE LifecycleInv'
  <1>0. /\ LifecycleTypeOK /\ Event /\ isDead' = isDead \ {a} /\ unloaded' = unloaded \cup {a}
        /\ UNCHANGED <<life, tasks, run, rolls, claims, declined, muddled>>
    BY DEF LifecycleInv, Revive, historyVars
  <1>1. LifecycleTypeOK'
    BY <1>0, CountedEvent DEF LifecycleTypeOK
  <1>2. DeadIsDead'
    BY <1>0 DEF LifecycleInv, DeadIsDead
  <1>. QED BY <1>0, <1>1, <1>2 DEF LifecycleInv, Recorded, Untried, ToTry, OncePerLife,
              Evaluating, Idle

LEMMA LoadedKeeps ==
    ASSUME LifecycleInv, NEW a \in Actors, Loaded(a) PROVE LifecycleInv'
  <1>0. /\ LifecycleTypeOK /\ Idle /\ a \notin isDead /\ unloaded' = unloaded \ {a}
        /\ UNCHANGED <<tasks, run, isDead, events>>
        /\ life' = [life EXCEPT ![a] = MarkedLoadedAlive(life[a])]
    BY DEF LifecycleInv, Loaded
  <1>1. life[a] \in LifecycleState /\ (life[a].deathProcessed => life[a].dead)
    BY <1>0 DEF LifecycleTypeOK
  <1>2. /\ MarkedLoadedAlive(life[a]) \in LifecycleState
        /\ MarkedLoadedAlive(life[a]).deathProcessed => MarkedLoadedAlive(life[a]).dead
        /\ ~MarkedLoadedAlive(life[a]).dead
        /\ life[a].dead \/ MarkedLoadedAlive(life[a]) = life[a]
    BY <1>1, FreshIsState DEF MarkedLoadedAlive
  <1>3. /\ life' \in [Actors -> LifecycleState]
        /\ \A b \in Actors : life'[b].deathProcessed => life'[b].dead
        /\ life'[a] = MarkedLoadedAlive(life[a])
        /\ \A b \in Actors : b # a => life'[b] = life[b]
    BY <1>0, <1>2, OneRecord
  <1>4. CASE a \in unloaded
    <2>1. NewLife(a) /\ muddled' \subseteq Actors
      BY <1>0, <1>4 DEF Loaded, LifecycleTypeOK
    <2>2. /\ rolls' \in [Actors -> [Rules -> Nat]]
          /\ claims' \in [Actors -> SUBSET Triggers]
          /\ declined' \in [Actors -> SUBSET (Rules \X Triggers)]
          /\ \A r \in Rules : rolls'[a][r] = 0
          /\ \A b \in Actors : b # a => rolls'[b] = rolls[b]
      BY <1>0, <2>1, NewLifeRolls
    <2>3. LifecycleTypeOK'
      BY <1>0, <1>3, <2>1, <2>2 DEF LifecycleTypeOK
    <2>4. DeadIsDead'
      BY <1>0, <1>2, <1>3 DEF LifecycleInv, DeadIsDead
    <2>5. Recorded'
      BY <1>0, <1>3, <2>2 DEF LifecycleInv, Recorded, Evaluating
    <2>6. OncePerLife'
      BY <2>2 DEF LifecycleInv, OncePerLife
    <2>. QED BY <1>0, <2>3, <2>4, <2>5, <2>6 DEF LifecycleInv, Untried, Idle
  <1>5. CASE a \notin unloaded
    <2>1. UNCHANGED <<rolls, claims, declined, muddled>>
      BY <1>5 DEF Loaded, historyVars
    <2>2. ~life[a].dead
      BY <1>0, <1>5 DEF LifecycleInv, DeadIsDead
    <2>3. \A b \in Actors : life'[b] = life[b]
      BY <1>2, <1>3, <2>2
    <2>4. LifecycleTypeOK'
      BY <1>0, <1>3, <2>1 DEF LifecycleTypeOK
    <2>5. DeadIsDead'
      BY <1>0, <1>5, <2>3 DEF LifecycleInv, DeadIsDead
    <2>6. Recorded' /\ OncePerLife'
      BY <1>0, <2>1, <2>3 DEF LifecycleInv, Recorded, Evaluating, OncePerLife
    <2>. QED BY <1>0, <2>4, <2>5, <2>6 DEF LifecycleInv, Untried, Idle
  <1>. QED BY <1>4, <1>5

LEMMA RevertKeeps == ASSUME LifecycleInv, Revert PROVE LifecycleInv'
  <1>0. /\ LifecycleTypeOK /\ Event /\ Idle
        /\ life' = [b \in Actors |-> FreshLife] /\ isDead' \in SUBSET Actors
        /\ unloaded' = {} /\ muddled' = {} /\ UNCHANGED <<tasks, run>>
        /\ rolls' = [b \in Actors |-> [r \in Rules |-> 0]]
    BY DEF LifecycleInv, Revert
  <1>1. /\ claims' \in [Actors -> SUBSET Triggers]
        /\ declined' \in [Actors -> SUBSET (Rules \X Triggers)]
    BY DEF Revert
  <1>2. /\ life' \in [Actors -> LifecycleState]
        /\ \A b \in Actors : ~life'[b].dead
        /\ \A b \in Actors : ~life'[b].deathProcessed
    BY <1>0, FreshIsState
  <1>3. rolls' \in [Actors -> [Rules -> Nat]] /\ \A b \in Actors, r \in Rules : rolls'[b][r] = 0
    BY <1>0
  <1>4. LifecycleTypeOK'
    BY <1>0, <1>1, <1>2, <1>3, CountedEvent DEF LifecycleTypeOK
  <1>. QED BY <1>0, <1>2, <1>3, <1>4 DEF LifecycleInv, DeadIsDead, Recorded, Untried, Idle,
              OncePerLife
----------------------------------------------------------------------------
LEMMA LifecycleStep == LifecycleInv /\ [LifecycleNext]_lifecycleVars => LifecycleInv'
  <1> SUFFICES ASSUME LifecycleInv, [LifecycleNext]_lifecycleVars PROVE LifecycleInv'
    OBVIOUS
  <1>1. CASE UNCHANGED lifecycleVars
    BY <1>1 DEF lifecycleVars, LifecycleInv, LifecycleTypeOK, DeadIsDead, Recorded, Untried,
       ToTry, OncePerLife, Evaluating, Idle
  <1>2. CASE RunTask \/ SkipRule \/ RollRewards \/ CompleteRule
    BY <1>2, RunTaskKeeps, SkipKeeps, RollKeeps, CompleteKeeps
  <1>3. ASSUME NEW a \in Actors, Die(a) \/ Defeat(a) \/ Recover(a) \/ Revive(a) \/ Loaded(a)
        PROVE  LifecycleInv'
    BY <1>3, ReportKeeps, RecoverKeeps, ReviveKeeps, LoadedKeeps
  <1>4. CASE Revert
    BY <1>4, RevertKeeps
  <1>. QED BY <1>1, <1>2, <1>3, <1>4 DEF LifecycleNext

LEMMA LifecycleInvariant == LifecycleSpec => []LifecycleInv
  BY LifecycleInitially, LifecycleStep, PTL DEF LifecycleSpec

\* Every variable of the life cycle keeps its type, and a death that was
\* processed is recorded.
THEOREM LifecycleTyped == LifecycleSpec => []LifecycleTypeOK
  <1>1. LifecycleInv => LifecycleTypeOK
    BY DEF LifecycleInv
  <1>. QED BY LifecycleInvariant, <1>1, PTL

\* Between two loads a rule rolls its rewards at most once in a life, whatever is
\* reported twice, late or in the middle of an evaluation (State::BeginEvent, CompleteRule).
THEOREM RulePaysOnce == LifecycleSpec => []OncePerLife
  <1>1. LifecycleInv => OncePerLife
    BY DEF LifecycleInv
  <1>. QED BY LifecycleInvariant, <1>1, PTL
----------------------------------------------------------------------------
(* Every claim is answered.                                                *)

\* Rule r has rolled for actor a in this life, or did not match event t.
Done(a, r, t) == TriggerMatches(r, t) => rolls[a][r] >= 1 \/ <<r, t>> \in declined[a]

\* What the record says was paid or processed was so in the present life, or is
\* about to be by the evaluation in progress.
AnswersOf(a) ==
    /\ \A r \in life[a].applied : rolls[a][r] >= 1
    /\ life[a].applied # {} => life[a].dead \/ life[a].defeatProcessed
    /\ Evaluating(a) =>
        /\ Processed(life[a], run[1].trigger)
        /\ \A r \in run[1].previously : rolls[a][r] >= 1
        /\ run[1].step = "complete" => rolls[a][run[1].rule] >= 1
    /\ \A t \in Triggers : Processed(life[a], t) =>
        \A r \in Rules : Done(a, r, t) \/ (Evaluating(a) /\ run[1].trigger = t /\ ToTry(r))

AnswersWell == \A a \in Actors \ muddled : AnswersOf(a)

\* What was reported in the present life is in the record or in the queue; a death
\* that was reported will still be one when its task runs.
ClaimsOf(a) ==
    /\ "death" \in claims[a] => a \in isDead
    /\ \A t \in claims[a] : \/ Processed(life[a], t)
                            \/ \E i \in DOMAIN tasks : tasks[i] = Evaluation(a, t)

ClaimsWell == \A a \in Actors \ (muddled \cup unloaded) : ClaimsOf(a)

AnswerInv == LifecycleInv /\ AnswersWell /\ ClaimsWell

\* What does not concern an actor leaves its answers.
LEMMA AnswersStay ==
    ASSUME NEW b \in Actors, AnswersOf(b),
           life'[b] = life[b], rolls'[b] = rolls[b], declined'[b] = declined[b],
           \/ run' = run
           \/ ~Evaluating(b) /\ ~Evaluating(b)'
    PROVE  AnswersOf(b)'
  <1>1. CASE run' = run
    BY <1>1 DEF AnswersOf, Done, Evaluating, Idle, ToTry
  <1>2. CASE ~Evaluating(b) /\ ~Evaluating(b)'
    BY <1>2 DEF AnswersOf, Done
  <1>. QED BY <1>1, <1>2

LEMMA ClaimsStay ==
    ASSUME NEW b \in Actors, ClaimsOf(b), life'[b] = life[b], claims'[b] = claims[b],
           b \in isDead => b \in isDead', tasks' = tasks
    PROVE  ClaimsOf(b)'
  BY DEF ClaimsOf

LEMMA AnswersInitially == LifecycleInit => AnswersWell /\ ClaimsWell
  <1> SUFFICES ASSUME LifecycleInit PROVE AnswersWell /\ ClaimsWell
    OBVIOUS
  <1>1. ASSUME NEW a \in Actors
        PROVE  AnswersOf(a) /\ ClaimsOf(a)
    <2>1. life[a] = FreshLife /\ claims[a] = {} /\ Idle
      BY DEF LifecycleInit, Idle
    <2>2. \A t : ~Processed(life[a], t)
      BY <2>1 DEF FreshLife, Processed
    <2>3. life[a].applied = {}
      BY <2>1 DEF FreshLife
    <2>. QED BY <2>1, <2>2, <2>3 DEF AnswersOf, ClaimsOf, Evaluating
  <1>. QED BY <1>1 DEF AnswersWell, ClaimsWell

LEMMA RunTaskAnswers ==
    ASSUME AnswerInv, RunTask PROVE AnswersWell' /\ ClaimsWell'
  <1> DEFINE t == Head(tasks)
             state == life[t.actor]
             new == [actor |-> t.actor, trigger |-> t.trigger,
                     previously |-> state.applied, rule |-> 1, step |-> "match"]
  <1>0. LifecycleTypeOK /\ Idle /\ tasks # <<>>
    BY DEF AnswerInv, LifecycleInv, RunTask
  <1>1. /\ t \in [actor : Actors, trigger : Triggers] /\ t = tasks[1]
        /\ \A i \in DOMAIN tasks : i # 1 => i - 1 \in DOMAIN tasks' /\ tasks'[i - 1] = tasks[i]
        /\ UNCHANGED <<isDead, unloaded, rolls, claims, declined, muddled, events>>
    <2>1. tasks \in Seq([actor : Actors, trigger : Triggers]) /\ tasks' = Tail(tasks)
      BY <1>0 DEF RunTask, LifecycleTypeOK
    <2>2. UNCHANGED <<isDead, unloaded, rolls, claims, declined, muddled, events>>
      BY DEF RunTask, historyVars
    <2>3. /\ t = tasks[1] /\ t \in [actor : Actors, trigger : Triggers]
          /\ Len(tasks') = Len(tasks) - 1 /\ Len(tasks) \in Nat
          /\ DOMAIN tasks = 1..Len(tasks) /\ DOMAIN tasks' = 1..Len(tasks')
      <3>1. t = tasks[1] /\ t \in [actor : Actors, trigger : Triggers]
        <4>1. \A S, q : q \in Seq(S) /\ q # <<>> => Head(q) = q[1]
          OBVIOUS
        <4>. QED BY <1>0, <2>1, <4>1, HeadTailProperties
      <3>2. Len(tasks') = Len(tasks) - 1 /\ Len(tasks) \in Nat
            /\ tasks' \in Seq([actor : Actors, trigger : Triggers])
        BY <1>0, <2>1, HeadTailProperties
      <3>3. DOMAIN tasks = 1..Len(tasks) /\ DOMAIN tasks' = 1..Len(tasks')
        BY <2>1, <3>2
      <3>. QED BY <3>1, <3>2, <3>3
    <2>4. \A j \in 1..(Len(tasks) - 1) : tasks'[j] = tasks[j + 1]
      BY <1>0, <2>1
    <2>5. ASSUME NEW i \in DOMAIN tasks, i # 1
          PROVE  i - 1 \in DOMAIN tasks' /\ tasks'[i - 1] = tasks[i]
      <3>1. i \in Nat /\ i - 1 \in 1..(Len(tasks) - 1) /\ (i - 1) + 1 = i
        BY <2>3, <2>5
      <3>. QED BY <2>3, <2>4, <3>1
    <2>. QED BY <2>2, <2>3, <2>5
  <1>2. t = Evaluation(t.actor, t.trigger) /\ t.actor \in Actors /\ t.trigger \in Triggers
        /\ state \in LifecycleState
    BY <1>0, <1>1 DEF Evaluation, LifecycleTypeOK
  <1>3. \A b : ~Evaluating(b)
    BY <1>0 DEF Evaluating
  <1>4. \/ UNCHANGED <<life, run>>
           /\ ((t.trigger = "death" /\ t.actor \notin isDead) \/ Processed(state, t.trigger))
        \/ /\ life' = [life EXCEPT ![t.actor] = Begun(state, t.trigger)]
           /\ run' = <<new>>
    BY DEF RunTask
  <1>a. \A i \in DOMAIN tasks : i = 1 \/ \E j \in DOMAIN tasks' : tasks'[j] = tasks[i]
    BY <1>1
  <1> HIDE DEF t, state, new
  <1>5. CASE /\ UNCHANGED <<life, run>>
             /\ ((t.trigger = "death" /\ t.actor \notin isDead) \/ Processed(state, t.trigger))
    <2>1. AnswersWell'
      BY <1>1, <1>5, AnswersStay DEF AnswerInv, AnswersWell
    <2>2. ASSUME NEW a \in Actors \ (muddled \cup unloaded), NEW c \in claims[a]
          PROVE  Processed(life[a], c) \/ \E i \in DOMAIN tasks' : tasks'[i] = Evaluation(a, c)
      <3>1. CASE Processed(life[a], c)
        BY <3>1
      <3>2. ASSUME NEW i \in DOMAIN tasks, tasks[i] = Evaluation(a, c)
            PROVE  Processed(life[a], c) \/ \E j \in DOMAIN tasks' : tasks'[j] = Evaluation(a, c)
        <4>1. CASE i = 1
          <5>1. t.actor = a /\ t.trigger = c
            BY <1>1, <3>2, <4>1 DEF Evaluation
          <5>2. c = "death" => a \in isDead
            BY <2>2 DEF AnswerInv, ClaimsWell, ClaimsOf
          <5>. QED BY <1>5, <5>1, <5>2 DEF state
        <4>2. CASE i # 1
          BY <1>a, <3>2, <4>2
        <4>. QED BY <4>1, <4>2
      <3>. QED BY <3>1, <3>2 DEF AnswerInv, ClaimsWell, ClaimsOf
    <2>3. ClaimsWell'
      BY <1>1, <1>5, <2>2 DEF AnswerInv, ClaimsWell, ClaimsOf
    <2>. QED BY <2>1, <2>3
  <1>6. CASE /\ life' = [life EXCEPT ![t.actor] = Begun(state, t.trigger)]
             /\ run' = <<new>>
    <2>1. /\ Begun(state, t.trigger).applied = state.applied
          /\ Begun(state, t.trigger).dead \/ Begun(state, t.trigger).defeatProcessed
          /\ Processed(Begun(state, t.trigger), t.trigger)
          /\ \A c \in Triggers : c # t.trigger /\ Processed(Begun(state, t.trigger), c)
                                    => Processed(state, c)
          /\ \A c \in Triggers : Processed(state, c) => Processed(Begun(state, t.trigger), c)
      BY <1>2 DEF Begun, LifecycleState, Processed, Triggers
    <2>2. /\ life'[t.actor] = Begun(state, t.trigger)
          /\ \A b \in Actors : b # t.actor => life'[b] = life[b]
      BY <1>0, <1>2, <1>6 DEF LifecycleTypeOK
    <2>3. /\ ~Idle' /\ run'[1].actor = t.actor /\ run'[1].trigger = t.trigger
          /\ run'[1].previously = state.applied /\ run'[1].rule = 1 /\ run'[1].step = "match"
      BY <1>6 DEF new, Idle
    <2>4. ASSUME NEW b \in Actors \ muddled, b # t.actor
          PROVE  AnswersOf(b)'
      <3>1. ~Evaluating(b)'
        BY <2>3, <2>4 DEF Evaluating
      <3>. QED BY <1>1, <1>3, <2>2, <2>4, <3>1, AnswersStay DEF AnswerInv, AnswersWell
    <2>5. ASSUME NEW x \in Actors, x = t.actor, x \notin muddled
          PROVE  AnswersOf(x)'
      <3>0. AnswersOf(x) /\ ~Evaluating(x) /\ state = life[x]
        BY <1>3, <2>5 DEF AnswerInv, AnswersWell, state
      <3>1. \A r \in state.applied : rolls[x][r] >= 1
        BY <3>0 DEF AnswersOf
      <3>2. \A r \in Rules : ToTry(r)'
        BY <2>3 DEF ToTry, Rules
      <3>3. Evaluating(x)'
        BY <2>3, <2>5 DEF Evaluating
      <3>4. ASSUME NEW c \in Triggers, Processed(life'[x], c), NEW r \in Rules
            PROVE  Done(x, r, c)' \/ (Evaluating(x)' /\ run'[1].trigger = c /\ ToTry(r)')
        <4>1. CASE c = t.trigger
          BY <2>3, <3>2, <3>3, <4>1
        <4>2. CASE c # t.trigger
          <5>1. Done(x, r, c)
            BY <2>1, <2>2, <2>5, <3>0, <3>4, <4>2 DEF AnswersOf
          <5>. QED BY <1>1, <5>1 DEF Done
        <4>. QED BY <4>1, <4>2
      <3>5. /\ \A r \in life'[x].applied : rolls'[x][r] >= 1
            /\ life'[x].applied # {} => life'[x].dead \/ life'[x].defeatProcessed
            /\ Processed(life'[x], run'[1].trigger)
            /\ \A r \in run'[1].previously : rolls'[x][r] >= 1
            /\ run'[1].step # "complete"
        BY <1>1, <2>1, <2>2, <2>3, <2>5, <3>1
      <3>. QED BY <3>4, <3>5 DEF AnswersOf
    <2>6. AnswersWell'
      BY <1>1, <2>4, <2>5 DEF AnswersWell
    <2>7. ASSUME NEW a \in Actors \ (muddled \cup unloaded), NEW c \in claims[a]
          PROVE  Processed(life'[a], c) \/ \E i \in DOMAIN tasks' : tasks'[i] = Evaluation(a, c)
      <3>0. c \in Triggers
        BY <1>0, <2>7 DEF LifecycleTypeOK
      <3>1. CASE Processed(life[a], c)
        BY <2>1, <2>2, <3>0, <3>1 DEF state
      <3>2. ASSUME NEW i \in DOMAIN tasks, tasks[i] = Evaluation(a, c)
            PROVE  Processed(life'[a], c) \/ \E j \in DOMAIN tasks' : tasks'[j] = Evaluation(a, c)
        <4>1. CASE i = 1
          <5>1. t.actor = a /\ t.trigger = c
            BY <1>1, <3>2, <4>1 DEF Evaluation
          <5>. QED BY <2>1, <2>2, <5>1
        <4>2. CASE i # 1
          BY <1>a, <3>2, <4>2
        <4>. QED BY <4>1, <4>2
      <3>. QED BY <3>1, <3>2 DEF AnswerInv, ClaimsWell, ClaimsOf
    <2>8. ClaimsWell'
      BY <1>1, <2>7 DEF AnswerInv, ClaimsWell, ClaimsOf
    <2>. QED BY <2>6, <2>8
  <1>. QED BY <1>4, <1>5, <1>6

\* The rule that was tried is done; so is every rule when it was the last.
LEMMA ProceedAnswers ==
    ASSUME LifecycleTypeOK, ~Idle, Proceed, NEW a \in Actors, NEW r \in Rules,
           Evaluating(a), ToTry(r)
    PROVE  r = run[1].rule \/ (Evaluating(a)' /\ run'[1].trigger = run[1].trigger /\ ToTry(r)')
  <1>1. run[1] \in Run
    BY RunTyped
  <1>2. CASE run[1].rule = NRules
    BY <1>1, <1>2, RuleAssumption DEF ToTry, Rules, Run
  <1>3. CASE run[1].rule # NRules
    <2>1. run' = <<[run[1] EXCEPT !.rule = @ + 1, !.step = "match"]>>
      BY <1>3 DEF Proceed
    <2>2. PICK next : next = [run[1] EXCEPT !.rule = @ + 1, !.step = "match"]
      OBVIOUS
    <2>3. /\ next.rule = run[1].rule + 1 /\ next.step = "match"
          /\ next.actor = run[1].actor /\ next.trigger = run[1].trigger
      BY <1>1, <2>2 DEF Run
    <2>4. run' = <<next>>
      BY <2>1, <2>2
    <2>5. run'[1] = next /\ run' # <<>>
      BY <2>4
    <2>6. Evaluating(a)' /\ run'[1].trigger = run[1].trigger
      BY <2>3, <2>5 DEF Evaluating, Idle
    <2>7. r = run[1].rule \/ ToTry(r)'
      BY <1>1, <2>3, <2>5 DEF ToTry, Rules, Run
    <2>. QED BY <2>6, <2>7
  <1>. QED BY <1>2, <1>3

\* Going on changes neither the actor nor the event of an evaluation.
LEMMA ProceedSame ==
    ASSUME LifecycleTypeOK, ~Idle, Proceed, NEW a \in Actors, Evaluating(a)'
    PROVE  Evaluating(a) /\ run'[1].trigger = run[1].trigger
           /\ run'[1].previously = run[1].previously /\ run'[1].step = "match"
  <1>1. run[1] \in Run
    BY RunTyped
  <1>2. run[1].rule # NRules
    BY DEF Proceed, Evaluating, Idle
  <1>3. PICK next : next = [run[1] EXCEPT !.rule = @ + 1, !.step = "match"]
    OBVIOUS
  <1>4. /\ next.step = "match" /\ next.previously = run[1].previously
        /\ next.actor = run[1].actor /\ next.trigger = run[1].trigger
    BY <1>1, <1>3 DEF Run
  <1>5. run' = <<next>>
    BY <1>2, <1>3 DEF Proceed
  <1>. QED BY <1>4, <1>5 DEF Evaluating, Idle

LEMMA SkipAnswers ==
    ASSUME AnswerInv, SkipRule PROVE AnswersWell' /\ ClaimsWell'
  <1>0. LifecycleTypeOK /\ ~Idle /\ run[1].step = "match" /\ Proceed
        /\ UNCHANGED <<life, tasks, isDead, unloaded, rolls, claims, muddled, events>>
    BY DEF AnswerInv, LifecycleInv, SkipRule
  <1>1. run[1] \in Run /\ declined \in [Actors -> SUBSET (Rules \X Triggers)]
    BY <1>0, RunTyped DEF LifecycleTypeOK
  <1>2. \/ declined' = declined
           /\ (run[1].rule \in run[1].previously \/ ~TriggerMatches(run[1].rule, run[1].trigger))
        \/ declined' = [declined EXCEPT ![run[1].actor] = @ \cup {<<run[1].rule, run[1].trigger>>}]
    BY DEF SkipRule
  <1>3. \A a \in Actors : declined[a] \subseteq declined'[a]
    BY <1>1, <1>2 DEF Run
  <1>4. ASSUME NEW a \in Actors \ muddled
        PROVE  AnswersOf(a)'
    <2>1. AnswersOf(a)
      BY DEF AnswerInv, AnswersWell
    <2>2. \A r \in Rules, c \in Triggers : Done(a, r, c) => Done(a, r, c)'
      BY <1>0, <1>3 DEF Done
    <2>3. Evaluating(a) => Done(a, run[1].rule, run[1].trigger)
                           \/ <<run[1].rule, run[1].trigger>> \in declined'[a]
      <3>1. CASE run[1].rule \in run[1].previously
        BY <2>1, <3>1 DEF AnswersOf, Done
      <3>2. CASE ~TriggerMatches(run[1].rule, run[1].trigger)
        BY <3>2 DEF Done
      <3>3. CASE declined' = [declined EXCEPT ![run[1].actor] = @ \cup {<<run[1].rule, run[1].trigger>>}]
        BY <1>1, <3>3 DEF Evaluating, Run
      <3>. QED BY <1>2, <3>1, <3>2, <3>3
    <2>4. Evaluating(a)' =>
            /\ Processed(life[a], run'[1].trigger)
            /\ \A r \in run'[1].previously : rolls[a][r] >= 1
            /\ run'[1].step # "complete"
      BY <1>0, <2>1, ProceedSame DEF AnswersOf
    <2>5. ASSUME NEW c \in Triggers, Processed(life[a], c), NEW r \in Rules
          PROVE  Done(a, r, c)' \/ (Evaluating(a)' /\ run'[1].trigger = c /\ ToTry(r)')
      <3>1. CASE Done(a, r, c)
        BY <2>2, <3>1
      <3>2. CASE Evaluating(a) /\ run[1].trigger = c /\ ToTry(r)
        <4>1. CASE r = run[1].rule
          <5>1. Done(a, r, c) \/ <<r, c>> \in declined'[a]
            BY <2>3, <3>2, <4>1
          <5>. QED BY <2>2, <5>1 DEF Done
        <4>2. CASE r # run[1].rule
          BY <1>0, <3>2, <4>2, ProceedAnswers
        <4>. QED BY <4>1, <4>2
      <3>. QED BY <2>1, <2>5, <3>1, <3>2 DEF AnswersOf
    <2>6. /\ \A r \in life[a].applied : rolls[a][r] >= 1
          /\ life[a].applied # {} => life[a].dead \/ life[a].defeatProcessed
      BY <2>1 DEF AnswersOf
    <2>. QED BY <1>0, <2>4, <2>5, <2>6 DEF AnswersOf
  <1>5. ClaimsWell'
    BY <1>0, ClaimsStay DEF AnswerInv, ClaimsWell
  <1>. QED BY <1>0, <1>4, <1>5 DEF AnswersWell

LEMMA RollAnswers ==
    ASSUME AnswerInv, RollRewards PROVE AnswersWell' /\ ClaimsWell'
  <1> DEFINE e == run[1]
             new == [e EXCEPT !.step = "complete"]
  <1>0. /\ LifecycleTypeOK /\ ~Idle /\ e.step = "match"
        /\ rolls' = [rolls EXCEPT ![e.actor][e.rule] = @ + 1] /\ run' = <<new>>
        /\ UNCHANGED <<life, tasks, isDead, unloaded, claims, declined, muddled, events>>
    BY DEF AnswerInv, LifecycleInv, RollRewards
  <1>1. e \in Run /\ e.rule \in Rules /\ e.actor \in Actors
    BY <1>0, RunTyped DEF Run
  <1>2. /\ new.actor = e.actor /\ new.rule = e.rule /\ new.step = "complete"
        /\ new.previously = e.previously /\ new.trigger = e.trigger
    BY <1>1 DEF Run
  <1>3. rolls \in [Actors -> [Rules -> Nat]]
    BY <1>0 DEF LifecycleTypeOK
  <1> HIDE DEF e, new
  <1>4. /\ rolls'[e.actor][e.rule] >= 1
        /\ \A a \in Actors, r \in Rules : rolls[a][r] >= 1 => rolls'[a][r] >= 1
    BY <1>0, <1>1, <1>3
  <1>5. run'[1] = new /\ ~Idle'
    BY <1>0 DEF Idle
  <1>6. \A a \in Actors : Evaluating(a)' <=> Evaluating(a)
    BY <1>0, <1>2, <1>5 DEF Evaluating, e
  <1>7. ASSUME NEW a \in Actors \ muddled
        PROVE  AnswersOf(a)'
    <2>1. AnswersOf(a)
      BY DEF AnswerInv, AnswersWell
    <2>2. life[a].applied \subseteq Rules /\ e.previously \subseteq Rules
      BY <1>0, <1>1 DEF LifecycleTypeOK, LifecycleState, Run
    <2>3. \A r \in Rules, c \in Triggers : Done(a, r, c) => Done(a, r, c)'
      BY <1>0, <1>4 DEF Done
    <2>4. Evaluating(a) =>
            /\ Processed(life[a], new.trigger)
            /\ \A r \in new.previously : rolls'[a][r] >= 1
            /\ rolls'[a][new.rule] >= 1
      <3>1. Evaluating(a) => a = e.actor /\ Processed(life[a], e.trigger)
                             /\ \A r \in e.previously : rolls[a][r] >= 1
        BY <2>1 DEF AnswersOf, Evaluating, e
      <3>. QED BY <1>2, <1>4, <2>2, <3>1
    <2>5. ASSUME NEW c \in Triggers, Processed(life[a], c), NEW r \in Rules
          PROVE  Done(a, r, c)' \/ (Evaluating(a)' /\ run'[1].trigger = c /\ ToTry(r)')
      <3>1. CASE Done(a, r, c)
        BY <2>3, <3>1
      <3>2. CASE Evaluating(a) /\ e.trigger = c /\ r = e.rule
        <4>1. a = e.actor
          BY <3>2 DEF Evaluating, e
        <4>. QED BY <1>4, <3>2, <4>1 DEF Done
      <3>3. CASE Evaluating(a) /\ e.trigger = c /\ r > e.rule
        <4>1. ToTry(r)'
          BY <1>2, <1>5, <3>3 DEF ToTry
        <4>. QED BY <1>2, <1>5, <1>6, <3>3, <4>1
      <3>4. Done(a, r, c) \/ (Evaluating(a) /\ e.trigger = c /\ ToTry(r))
        BY <2>1, <2>5 DEF AnswersOf, e
      <3>. QED BY <3>1, <3>2, <3>3, <3>4 DEF ToTry, e
    <2>6. /\ \A r \in life[a].applied : rolls'[a][r] >= 1
          /\ life[a].applied # {} => life[a].dead \/ life[a].defeatProcessed
      BY <1>4, <2>1, <2>2 DEF AnswersOf
    <2>. QED BY <1>0, <1>5, <1>6, <2>4, <2>5, <2>6 DEF AnswersOf
  <1>8. ClaimsWell'
    BY <1>0, ClaimsStay DEF AnswerInv, ClaimsWell
  <1>. QED BY <1>0, <1>7, <1>8 DEF AnswersWell

LEMMA CompleteAnswers ==
    ASSUME AnswerInv, CompleteRule PROVE AnswersWell' /\ ClaimsWell'
  <1> DEFINE e == run[1]
             state == [life[e.actor] EXCEPT !.applied = @ \cup {e.rule}]
  <1>0. /\ LifecycleTypeOK /\ ~Idle /\ e.step = "complete" /\ Proceed
        /\ life' = [life EXCEPT ![e.actor].applied = @ \cup {e.rule}]
        /\ UNCHANGED <<tasks, isDead, unloaded, rolls, claims, declined, muddled, events>>
    BY DEF AnswerInv, LifecycleInv, CompleteRule, historyVars
  <1>1. e \in Run /\ e.rule \in Rules /\ e.actor \in Actors
    BY <1>0, RunTyped DEF Run
  <1>2. life[e.actor] \in LifecycleState
    BY <1>0, <1>1 DEF LifecycleTypeOK
  <1>3. /\ state.applied = life[e.actor].applied \cup {e.rule}
        /\ state.dead = life[e.actor].dead /\ state.deathProcessed = life[e.actor].deathProcessed
        /\ state.defeatProcessed = life[e.actor].defeatProcessed
    BY <1>2 DEF LifecycleState
  <1>4. /\ life'[e.actor] = state
        /\ \A b \in Actors : b # e.actor => life'[b] = life[b]
    BY <1>0, <1>1 DEF LifecycleTypeOK
  <1> HIDE DEF e, state
  <1>5. \A a \in Actors : /\ life'[a].dead = life[a].dead
                          /\ life'[a].defeatProcessed = life[a].defeatProcessed
                          /\ \A c : Processed(life'[a], c) <=> Processed(life[a], c)
                          /\ a = e.actor \/ life'[a].applied = life[a].applied
    BY <1>3, <1>4 DEF Processed
  <1>6. \A a \in Actors : Evaluating(a) <=> a = e.actor
    BY <1>0 DEF Evaluating, e
  <1>7. ASSUME NEW a \in Actors \ muddled
        PROVE  AnswersOf(a)'
    <2>1. AnswersOf(a)
      BY DEF AnswerInv, AnswersWell
    <2>2. Evaluating(a) => rolls[a][e.rule] >= 1 /\ Processed(life[a], e.trigger)
      BY <1>0, <2>1 DEF AnswersOf, e
    <2>3. /\ \A r \in life'[a].applied : rolls[a][r] >= 1
          /\ life'[a].applied # {} => life'[a].dead \/ life'[a].defeatProcessed
      <3>1. CASE a = e.actor
        <4>1. life'[a].applied = life[a].applied \cup {e.rule}
          BY <1>3, <1>4, <3>1
        <4>2. life[a].dead \/ life[a].defeatProcessed
          <5>1. e.trigger \in Triggers /\ (life[a].deathProcessed => life[a].dead)
            BY <1>0, <1>1 DEF Run, LifecycleTypeOK
          <5>. QED BY <1>6, <2>2, <3>1, <5>1 DEF Processed, Triggers
        <4>. QED BY <1>5, <1>6, <2>1, <2>2, <3>1, <4>1, <4>2 DEF AnswersOf
      <3>2. CASE a # e.actor
        BY <1>4, <2>1, <3>2 DEF AnswersOf
      <3>. QED BY <3>1, <3>2
    <2>4. Evaluating(a)' =>
            /\ Processed(life'[a], run'[1].trigger)
            /\ \A r \in run'[1].previously : rolls[a][r] >= 1
            /\ run'[1].step # "complete"
      BY <1>0, <1>5, <2>1, ProceedSame DEF AnswersOf
    <2>5. ASSUME NEW c \in Triggers, Processed(life[a], c), NEW r \in Rules
          PROVE  Done(a, r, c) \/ (Evaluating(a)' /\ run'[1].trigger = c /\ ToTry(r)')
      <3>1. CASE Done(a, r, c)
        BY <3>1
      <3>2. CASE Evaluating(a) /\ run[1].trigger = c /\ ToTry(r)
        <4>1. CASE r = e.rule
          BY <2>2, <3>2, <4>1 DEF Done
        <4>2. CASE r # e.rule
          BY <1>0, <3>2, <4>2, ProceedAnswers DEF e
        <4>. QED BY <4>1, <4>2
      <3>. QED BY <2>1, <2>5, <3>1, <3>2 DEF AnswersOf
    <2>6. \A r, c : Done(a, r, c)' <=> Done(a, r, c)
      BY <1>0 DEF Done
    <2>. QED BY <1>0, <1>5, <2>3, <2>4, <2>5, <2>6 DEF AnswersOf
  <1>8. ClaimsWell'
    <2>1. ASSUME NEW a \in Actors \ (muddled \cup unloaded)
          PROVE  ClaimsOf(a)'
      <3>1. ClaimsOf(a)
        BY DEF AnswerInv, ClaimsWell
      <3>2. \A c : Processed(life'[a], c) <=> Processed(life[a], c)
        BY <1>5
      <3>. QED BY <1>0, <3>1, <3>2 DEF ClaimsOf
    <2>. QED BY <1>0, <2>1 DEF ClaimsWell
  <1>. QED BY <1>0, <1>7, <1>8 DEF AnswersWell
----------------------------------------------------------------------------
(* The events, once more.                                                   *)

\* A record that says nothing was processed has nothing to answer for.
LEMMA FreshAnswers ==
    ASSUME NEW a \in Actors, life'[a].applied = {}, ~Evaluating(a)',
           ~life'[a].deathProcessed, ~life'[a].defeatProcessed
    PROVE  AnswersOf(a)'
  <1>1. \A c : ~Processed(life'[a], c)
    BY DEF Processed
  <1>. QED BY <1>1 DEF AnswersOf

LEMMA NoClaims ==
    ASSUME NEW a \in Actors, claims'[a] = {} PROVE ClaimsOf(a)'
  BY DEF ClaimsOf

LEMMA ReportAnswers ==
    ASSUME AnswerInv, NEW a \in Actors, Die(a) \/ Defeat(a)
    PROVE  AnswersWell' /\ ClaimsWell'
  <1>0. /\ LifecycleTypeOK /\ UNCHANGED <<life, run, unloaded, rolls, declined, muddled>>
        /\ isDead \subseteq isDead'
    BY DEF AnswerInv, LifecycleInv, Die, Defeat
  <1>1. AnswersWell'
    BY <1>0, AnswersStay DEF AnswerInv, AnswersWell
  <1>2. PICK c \in Triggers : Report(a, c) /\ (c = "death" => a \in isDead')
    BY DEF Die, Defeat, Triggers
  <1>3. tasks \in Seq([actor : Actors, trigger : Triggers]) /\ claims \in [Actors -> SUBSET Triggers]
    BY <1>0 DEF LifecycleTypeOK
  <1>4. CASE UNCHANGED <<tasks, claims>>
    <2>1. ClaimsWell'
      BY <1>0, <1>4, ClaimsStay DEF AnswerInv, ClaimsWell
    <2>. QED BY <1>1, <2>1
  <1>5. CASE /\ tasks' = Append(tasks, Evaluation(a, c))
             /\ claims' = [claims EXCEPT ![a] = @ \cup {c}]
    <2>1. /\ \A i \in DOMAIN tasks : i \in DOMAIN tasks' /\ tasks'[i] = tasks[i]
          /\ \E i \in DOMAIN tasks' : tasks'[i] = Evaluation(a, c)
      <3>1. /\ Len(tasks) + 1 \in DOMAIN tasks' /\ tasks'[Len(tasks) + 1] = Evaluation(a, c)
            /\ \A i \in DOMAIN tasks : i \in DOMAIN tasks' /\ tasks'[i] = tasks[i]
        BY <1>3, <1>5
      <3>. QED BY <3>1
    <2>2. ASSUME NEW b \in Actors \ (muddled \cup unloaded)
          PROVE  ClaimsOf(b)'
      <3>1. ClaimsOf(b)
        BY DEF AnswerInv, ClaimsWell
      <3>2. claims'[b] = IF b = a THEN claims[b] \cup {c} ELSE claims[b]
        BY <1>3, <1>5
      <3>3. "death" \in claims'[b] => b \in isDead'
        BY <1>0, <1>2, <3>1, <3>2 DEF ClaimsOf
      <3>4. ASSUME NEW d \in claims'[b]
            PROVE  Processed(life'[b], d) \/ \E i \in DOMAIN tasks' : tasks'[i] = Evaluation(b, d)
        <4>1. CASE d \in claims[b]
          BY <1>0, <2>1, <3>1, <4>1 DEF ClaimsOf
        <4>2. CASE d \notin claims[b]
          BY <2>1, <3>2, <4>2
        <4>. QED BY <4>1, <4>2
      <3>. QED BY <3>3, <3>4 DEF ClaimsOf
    <2>3. ClaimsWell'
      BY <1>0, <2>2 DEF ClaimsWell
    <2>. QED BY <1>1, <2>3
  <1>6. (UNCHANGED <<tasks, claims>>)
        \/ (tasks' = Append(tasks, Evaluation(a, c)) /\ claims' = [claims EXCEPT ![a] = @ \cup {c}])
    BY <1>2 DEF Report
  <1>. QED BY <1>1, <1>4, <1>5, <1>6

\* The history of the other actors stays as it was.
LEMMA NewLifeOthers ==
    ASSUME LifecycleTypeOK, NEW a \in Actors, NewLife(a)
    PROVE  /\ claims'[a] = {}
           /\ \A b \in Actors : b # a => /\ rolls'[b] = rolls[b] /\ claims'[b] = claims[b]
                                         /\ declined'[b] = declined[b]
  BY DEF LifecycleTypeOK, NewLife

LEMMA RecoverAnswers ==
    ASSUME AnswerInv, NEW a \in Actors, Recover(a)
    PROVE  AnswersWell' /\ ClaimsWell'
  <1>0. /\ LifecycleTypeOK /\ NewLife(a) /\ UNCHANGED <<tasks, run, isDead, unloaded>>
        /\ muddled' = IF Evaluating(a) THEN muddled \cup {a} ELSE muddled
        /\ life' = IF life[a].dead \/ life[a].defeatProcessed
                   THEN [life EXCEPT ![a] = FreshLife] ELSE life
    BY DEF AnswerInv, LifecycleInv, Recover
  <1>1. \A b \in Actors : b # a => life'[b] = life[b] /\ rolls'[b] = rolls[b]
                                   /\ claims'[b] = claims[b] /\ declined'[b] = declined[b]
    BY <1>0, NewLifeOthers DEF LifecycleTypeOK
  <1>2. ASSUME a \notin muddled'
        PROVE  AnswersOf(a)'
    <2>1. ~Evaluating(a) /\ AnswersOf(a) /\ ~Evaluating(a)'
      BY <1>0, <1>2 DEF AnswerInv, AnswersWell, Evaluating, Idle
    <2>2. CASE life[a].dead \/ life[a].defeatProcessed
      <3>1. life'[a] = FreshLife
        BY <1>0, <2>2 DEF LifecycleTypeOK
      <3>. QED BY <2>1, <3>1, FreshAnswers DEF FreshLife
    <2>3. CASE ~(life[a].dead \/ life[a].defeatProcessed)
      <3>1. life'[a] = life[a] /\ life[a].applied = {} /\ ~life[a].deathProcessed
        BY <1>0, <2>1, <2>3 DEF AnswersOf, LifecycleTypeOK
      <3>. QED BY <2>1, <2>3, <3>1, FreshAnswers
    <2>. QED BY <2>2, <2>3
  <1>3. AnswersWell'
    <2>1. ASSUME NEW b \in Actors, b \notin muddled', b # a
          PROVE  AnswersOf(b)'
      BY <1>0, <1>1, <2>1, AnswersStay DEF AnswerInv, AnswersWell
    <2>. QED BY <1>2, <2>1 DEF AnswersWell
  <1>4. ClaimsWell'
    <2>1. ASSUME NEW b \in Actors, b \notin muddled' \cup unloaded'
          PROVE  ClaimsOf(b)'
      <3>1. CASE b = a
        BY <1>0, <3>1, NewLifeOthers, NoClaims
      <3>2. CASE b # a
        BY <1>0, <1>1, <2>1, <3>2, ClaimsStay DEF AnswerInv, ClaimsWell
      <3>. QED BY <3>1, <3>2
    <2>. QED BY <2>1 DEF ClaimsWell
  <1>. QED BY <1>3, <1>4

LEMMA ReviveAnswers ==
    ASSUME AnswerInv, NEW a \in Actors, Revive(a)
    PROVE  AnswersWell' /\ ClaimsWell'
  <1>0. /\ isDead' = isDead \ {a} /\ unloaded' = unloaded \cup {a}
        /\ UNCHANGED <<life, tasks, run, rolls, claims, declined, muddled>>
    BY DEF Revive, historyVars
  <1>1. AnswersWell'
    BY <1>0, AnswersStay DEF AnswerInv, AnswersWell
  <1>2. ASSUME NEW b \in Actors, b \notin muddled' \cup unloaded'
        PROVE  ClaimsOf(b)'
    BY <1>0, <1>2, ClaimsStay DEF AnswerInv, ClaimsWell
  <1>. QED BY <1>1, <1>2 DEF ClaimsWell

LEMMA LoadedAnswers ==
    ASSUME AnswerInv, NEW a \in Actors, Loaded(a)
    PROVE  AnswersWell' /\ ClaimsWell'
  <1>0. /\ LifecycleTypeOK /\ DeadIsDead /\ Idle /\ a \notin isDead /\ unloaded' = unloaded \ {a}
        /\ UNCHANGED <<tasks, run, isDead, events>>
        /\ life' = [life EXCEPT ![a] = MarkedLoadedAlive(life[a])]
    BY DEF AnswerInv, LifecycleInv, Loaded
  <1>1. /\ life'[a] = MarkedLoadedAlive(life[a])
        /\ \A b \in Actors : b # a => life'[b] = life[b]
        /\ \A b : ~Evaluating(b) /\ ~Evaluating(b)'
    BY <1>0 DEF LifecycleTypeOK, Evaluating, Idle
  <1>2. CASE a \in unloaded
    <2>1. NewLife(a) /\ muddled' = IF ~life[a].dead /\ life[a].defeatProcessed
                                   THEN muddled \cup {a} ELSE muddled
      BY <1>2 DEF Loaded
    <2>2. \A b \in Actors : b # a => rolls'[b] = rolls[b] /\ claims'[b] = claims[b]
                                     /\ declined'[b] = declined[b]
      BY <1>0, <2>1, NewLifeOthers
    <2>3. ASSUME a \notin muddled'
          PROVE  AnswersOf(a)'
      <3>1. AnswersOf(a) /\ (life[a].deathProcessed => life[a].dead)
        BY <1>0, <2>1, <2>3 DEF AnswerInv, AnswersWell, LifecycleTypeOK
      <3>2. CASE life[a].dead
        BY <1>1, <3>2, FreshAnswers DEF MarkedLoadedAlive, FreshLife
      <3>3. CASE ~life[a].dead
        <4>1. life'[a] = life[a] /\ ~life[a].defeatProcessed /\ life[a].applied = {}
          BY <1>1, <2>1, <2>3, <3>1, <3>3 DEF MarkedLoadedAlive, AnswersOf
        <4>. QED BY <1>1, <3>1, <3>3, <4>1, FreshAnswers
      <3>. QED BY <3>2, <3>3
    <2>4. ASSUME NEW b \in Actors, b \notin muddled', b # a
          PROVE  AnswersOf(b)'
      BY <1>0, <1>1, <2>1, <2>2, <2>4, AnswersStay DEF AnswerInv, AnswersWell
    <2>5. ASSUME NEW b \in Actors, b \notin muddled' \cup unloaded'
          PROVE  ClaimsOf(b)'
      <3>1. CASE b = a
        BY <1>0, <2>1, <3>1, NewLifeOthers, NoClaims
      <3>2. CASE b # a
        BY <1>0, <1>1, <2>1, <2>2, <2>5, <3>2, ClaimsStay DEF AnswerInv, ClaimsWell
      <3>. QED BY <3>1, <3>2
    <2>. QED BY <2>3, <2>4, <2>5 DEF AnswersWell, ClaimsWell
  <1>3. CASE a \notin unloaded
    <2>1. UNCHANGED <<rolls, claims, declined, muddled>> /\ ~life[a].dead /\ unloaded' = unloaded
      BY <1>0, <1>3 DEF Loaded, historyVars, DeadIsDead
    <2>2. \A b \in Actors : life'[b] = life[b]
      BY <1>1, <2>1 DEF MarkedLoadedAlive
    <2>3. AnswersWell'
      BY <1>0, <2>1, <2>2, AnswersStay DEF AnswerInv, AnswersWell
    <2>4. ClaimsWell'
      BY <1>0, <2>1, <2>2, ClaimsStay DEF AnswerInv, ClaimsWell
    <2>. QED BY <2>3, <2>4
  <1>. QED BY <1>2, <1>3

LEMMA RevertAnswers == ASSUME AnswerInv, Revert PROVE AnswersWell' /\ ClaimsWell'
  <1>0. /\ Idle /\ life' = [b \in Actors |-> FreshLife] /\ UNCHANGED <<tasks, run>>
        /\ claims' = [b \in Actors |-> {}]
    BY DEF Revert
  <1>1. ASSUME NEW b \in Actors
        PROVE  AnswersOf(b)' /\ ClaimsOf(b)'
    <2>1. life'[b] = FreshLife /\ claims'[b] = {} /\ ~Evaluating(b)'
      BY <1>0 DEF Evaluating, Idle
    <2>. QED BY <2>1, FreshAnswers, NoClaims DEF FreshLife
  <1>. QED BY <1>1 DEF AnswersWell, ClaimsWell

LEMMA AnswerStep == AnswerInv /\ [LifecycleNext]_lifecycleVars => AnswerInv'
  <1> SUFFICES ASSUME AnswerInv, [LifecycleNext]_lifecycleVars PROVE AnswerInv'
    OBVIOUS
  <1>0. LifecycleInv'
    BY LifecycleStep DEF AnswerInv
  <1>1. CASE UNCHANGED lifecycleVars
    <2>1. UNCHANGED <<life, tasks, run, isDead, unloaded, rolls, claims, declined, muddled>>
      BY <1>1 DEF lifecycleVars
    <2>2. AnswersWell'
      BY <2>1, AnswersStay DEF AnswerInv, AnswersWell
    <2>3. ClaimsWell'
      BY <2>1, ClaimsStay DEF AnswerInv, ClaimsWell
    <2>. QED BY <1>0, <2>2, <2>3 DEF AnswerInv
  <1>2. CASE RunTask \/ SkipRule \/ RollRewards \/ CompleteRule
    BY <1>0, <1>2, RunTaskAnswers, SkipAnswers, RollAnswers, CompleteAnswers DEF AnswerInv
  <1>3. ASSUME NEW a \in Actors, Die(a) \/ Defeat(a) \/ Recover(a) \/ Revive(a) \/ Loaded(a)
        PROVE  AnswerInv'
    BY <1>0, <1>3, ReportAnswers, RecoverAnswers, ReviveAnswers, LoadedAnswers DEF AnswerInv
  <1>4. CASE Revert
    BY <1>0, <1>4, RevertAnswers DEF AnswerInv
  <1>. QED BY <1>1, <1>2, <1>3, <1>4 DEF LifecycleNext

\* Every death and every defeat that a sink accepted is answered once its tasks
\* have run: each rule it triggers has rolled in this life, or did not match
\* (State::MarkAlive, MarkLoadedAlive, Revert).
THEOREM ClaimsAreAnswered == LifecycleSpec => []EveryClaimIsAnswered
  <1>1. LifecycleInit => AnswerInv
    BY LifecycleInitially, AnswersInitially DEF AnswerInv
  <1>2. AnswerInv => EveryClaimIsAnswered
    <2> SUFFICES ASSUME AnswerInv, NEW a \in Actors \ (muddled \cup unloaded),
                        ~Queued(a), ~Evaluating(a), NEW t \in claims[a], NEW r \in Rules,
                        TriggerMatches(r, t)
                 PROVE  rolls[a][r] >= 1 \/ <<r, t>> \in declined[a]
      BY DEF EveryClaimIsAnswered
    <2>1. t \in Triggers
      BY DEF AnswerInv, LifecycleInv, LifecycleTypeOK
    <2>2. Processed(life[a], t)
      BY DEF AnswerInv, ClaimsWell, ClaimsOf, Queued, Evaluation
    <2>. QED BY <2>1, <2>2 DEF AnswerInv, AnswersWell, AnswersOf, Done
  <1>. QED BY <1>1, <1>2, AnswerStep, PTL DEF LifecycleSpec
----------------------------------------------------------------------------
(* The loot of one victim (InlosDelivery).                                  *)

\* Every chain of commanders ends within the eight that ResolveSummonOwner follows: with
\* one that is no summon, or with a summon that no one commands.
ChainsEnd == \A p \in People : ResolveSummonOwner(p) \notin Commanded

\* The commander of a summon, and anyone else himself.
Above(q) == IF q \in Summoned THEN Commander[q] ELSE q

Receivers == People \cup {Nobody}

PlacesWell ==
    /\ settings \in AllSettings
    /\ instigator \in Receivers
    /\ \A i \in Carried :
        /\ place[i] = "discarded" =>
            settings.vanilla = "discard" /\ ~(settings.keepQuest /\ i \in QuestItems)
        /\ place[i] \in People => settings.vanilla = "autoLoot" /\ place[i] \notin Commanded

\* Until the body is looted nothing was given but at the defeat.
GiftsWell ==
    /\ phase_V \notin {"dead", "death"} => \A g \in gifts : g.trigger = "defeat"
    /\ \A g \in lost : g.trigger = "defeat"

\* Whoever an item is given to, or a spell taught.
Allowed(p) ==
    /\ p \notin Commanded \cup {Nobody}
    /\ p \in Summoned => settings.recipient = "anyActor"

\* Who had part in the loot had it as the receiver of an instigator.
SharesWell ==
    /\ \A x \in progress : /\ x.by \in Receivers /\ x.to = LootReceiver(x.by)
                           /\ x.to # Nobody
    /\ \A g \in gifts : Allowed(g.to)
    /\ \A p \in known : Allowed(p)

DeliveryInv == PlacesWell /\ GiftsWell /\ SharesWell
----------------------------------------------------------------------------
LEMMA LeastOf ==
    ASSUME NEW S, S \subseteq Nat, S # {}
    PROVE  \E x \in S : \A j \in S : x <= j
  <1>1. \E R : IsWellFoundedOn(R, Nat) /\ \A x, y \in Nat : <<y, x>> \in R <=> y < x
    <2>1. \A x, y \in Nat : <<y, x>> \in OpToRel(<, Nat) <=> y < x
      BY DEF OpToRel
    <2>2. QED
      BY <2>1, NatLessThanWellFounded
  <1>2. PICK R : IsWellFoundedOn(R, Nat) /\ \A x, y \in Nat : <<y, x>> \in R <=> y < x
    BY <1>1
  <1>3. PICK x \in S : \A y \in S : ~(<<y, x>> \in R)
    BY <1>2, WFMin
  <1>4. \A y \in S : x <= y
    <2>1. \A y \in S : ~(y < x)
      BY <1>2, <1>3
    <2>2. QED
      BY <2>1
  <1>5. QED
    BY <1>4

LEMMA UpTo ==
    ASSUME NEW n \in Nat, NEW S, 0 \in S, \A k \in 0..(n - 1) : k \in S => k + 1 \in S
    PROVE  \A k \in 0..n : k \in S
  <1> DEFINE Missing == {k \in 0..n : k \notin S}
  <1>1. SUFFICES ASSUME Missing # {} PROVE FALSE
    OBVIOUS
  <1>2. PICK k \in Missing : \A j \in Missing : k <= j
    <2>1. Missing \subseteq Nat
      OBVIOUS
    <2> HIDE DEF Missing
    <2>. QED BY <1>1, <2>1, LeastOf
  <1>3. k - 1 \in 0..(n - 1) /\ k - 1 \notin Missing
    BY <1>2
  <1>. QED BY <1>2, <1>3

----------------------------------------------------------------------------
(* The chain of commanders.                                                *)

LEMMA AboveIs == \A p \in People : Above(p) \in People
  BY DeliveryAssumption DEF Above, Summoned

\* ResolveSummonOwner goes up step by step.
LEMMA StepsUp ==
    ASSUME NEW p
    PROVE  \E g : /\ g[0] = p /\ ResolveSummonOwner(p) = g[8]
                  /\ \A n \in 0..7 : g[n + 1] = Above(g[n])
  <1> DEFINE Next_(g, n) == IF n = 0 THEN p
                            ELSE LET q == g[n - 1] IN IF q \in Summoned THEN Commander[q] ELSE q
             up == CHOOSE g : g = [n \in 0..MaxDepth |-> Next_(g, n)]
             Sound == {k \in 0..8 : \E g : g = [n \in 0..k |-> Next_(g, n)]}
  <1>1. ResolveSummonOwner(p) = up[MaxDepth]
    BY DEF ResolveSummonOwner
  <1>2. 0 \in Sound
    <2> DEFINE h == [n \in 0..0 |-> p]
               f == [n \in 0..0 |-> Next_(h, n)]
    <2>1. \A n \in 0..0 : h[n] = f[n]
      OBVIOUS
    <2>2. h = f
      BY <2>1
    <2> HIDE DEF h
    <2>. QED BY <2>2
  <1>3. ASSUME NEW k \in 0..7, k \in Sound
        PROVE  k + 1 \in Sound
    <2>1. PICK g : g = [n \in 0..k |-> Next_(g, n)]
      BY <1>3
    <2> DEFINE h == [n \in 0..(k + 1) |-> IF n \in 0..k THEN g[n] ELSE Above(g[k])]
    <2>2. \A n \in 0..k : h[n] = g[n]
      OBVIOUS
    <2>3. h[k + 1] = Above(g[k])
      OBVIOUS
    <2>4. \A n \in 0..k : g[n] = Next_(g, n)
      BY <2>1
    <2> DEFINE f == [n \in 0..(k + 1) |-> Next_(h, n)]
    <2>5. \A n \in 0..(k + 1) : h[n] = f[n]
      <3>1. ASSUME NEW n \in 0..k PROVE h[n] = f[n]
        <4>1. n = 0 \/ (n - 1 \in 0..k /\ h[n - 1] = g[n - 1])
          BY <2>2
        <4>. QED BY <2>2, <2>4, <4>1
      <3>2. h[k + 1] = f[k + 1]
        BY <2>2, <2>3 DEF Above
      <3>3. \A n \in 0..(k + 1) : n \in 0..k \/ n = k + 1
        OBVIOUS
      <3> HIDE DEF h, f
      <3>. QED BY <3>1, <3>2, <3>3
    <2>6. h = f
      BY <2>5
    <2> HIDE DEF h
    <2>. QED BY <2>6
  <1>4. 8 \in Sound
    <2> HIDE DEF Sound
    <2>. QED BY <1>2, <1>3, UpTo
  <1>5. up = [n \in 0..MaxDepth |-> Next_(up, n)]
    BY <1>4 DEF MaxDepth
  <1>6. \A n \in 0..8 : up[n] = Next_(up, n)
    BY <1>5 DEF MaxDepth
  <1> HIDE DEF up
  <1>7. \A n \in 0..7 : up[n + 1] = Above(up[n])
    BY <1>6 DEF Above
  <1>8. up[0] = p
    BY <1>6
  <1>. QED BY <1>1, <1>7, <1>8 DEF MaxDepth

\* The receiver the code finds is at the end of a chain of commanders: as long as
\* it has not ended nobody comes twice, so that the chain fits in the people.
LEMMA OwnerIsFound ==
    ASSUME NEW p \in People, ResolveSummonOwner(p) \notin Commanded
    PROVE  ResolveSummonOwner(p) \in Owners(p)
  <1>1. PICK g : /\ g[0] = p /\ ResolveSummonOwner(p) = g[8]
                 /\ \A n \in 0..7 : g[n + 1] = Above(g[n])
    BY StepsUp
  <1>2. \A n \in 0..8 : g[n] \in People
    <2> DEFINE S == {n \in 0..8 : g[n] \in People}
    <2>1. 0 \in S
      BY <1>1
    <2>2. \A n \in 0..7 : n \in S => n + 1 \in S
      BY <1>1, AboveIs
    <2> HIDE DEF S
    <2>3. \A n \in 0..8 : n \in S
      BY <2>1, <2>2, UpTo
    <2>. QED BY <2>3 DEF S
  <1> DEFINE Ends == {n \in 0..8 : g[n] \notin Commanded}
  <1>3. PICK m \in Ends : \A n \in Ends : m <= n
    <2>1. Ends \subseteq Nat /\ 8 \in Ends
      BY <1>1
    <2> HIDE DEF Ends
    <2>. QED BY <2>1, LeastOf
  <1>4. \A n \in 0..8 : n < m => g[n] \in Commanded
    BY <1>3
  <1>5. m \in 0..8 /\ g[m] \notin Commanded
    BY <1>3
  <1> HIDE DEF Ends
  <1>6. g[8] = g[m]
    <2> DEFINE S == {d \in 0..(8 - m) : g[m + d] = g[m]}
    <2>1. 0 \in S
      BY <1>5
    <2>2. ASSUME NEW d \in 0..((8 - m) - 1), d \in S PROVE d + 1 \in S
      <3>1. m + d \in 0..7 /\ d + 1 \in 0..(8 - m) /\ m + (d + 1) = (m + d) + 1
        BY <1>5
      <3>2. g[(m + d) + 1] = Above(g[m + d])
        BY <1>1, <3>1
      <3>. QED BY <1>5, <2>2, <3>1, <3>2 DEF Above, Commanded
    <2>3. 8 - m \in Nat
      BY <1>5
    <2> HIDE DEF S
    <2>4. \A d \in 0..(8 - m) : d \in S
      BY <2>1, <2>2, <2>3, UpTo
    <2>5. 8 - m \in S
      BY <2>3, <2>4
    <2>. QED BY <1>5, <2>5 DEF S
  <1>7. ASSUME NEW i \in 0..m, NEW j \in 0..m, i < j PROVE g[i] # g[j]
    <2>1. SUFFICES ASSUME g[i] = g[j] PROVE FALSE
      OBVIOUS
    <2> DEFINE S == {d \in 0..(m - j) : g[i + d] = g[j + d]}
    <2>2. 0 \in S
      BY <1>5, <2>1
    <2>3. ASSUME NEW d \in 0..((m - j) - 1), d \in S PROVE d + 1 \in S
      <3>1. /\ i + d \in 0..7 /\ j + d \in 0..7 /\ d + 1 \in 0..(m - j)
            /\ i + (d + 1) = (i + d) + 1 /\ j + (d + 1) = (j + d) + 1
        BY <1>5, <1>7
      <3>2. g[(i + d) + 1] = Above(g[i + d]) /\ g[(j + d) + 1] = Above(g[j + d])
        BY <1>1, <3>1
      <3>. QED BY <2>3, <3>1, <3>2
    <2>4. m - j \in Nat
      BY <1>5
    <2> HIDE DEF S
    <2>5. \A d \in 0..(m - j) : d \in S
      BY <2>2, <2>3, <2>4, UpTo
    <2>6. m - j \in S
      BY <2>4, <2>5
    <2>7. g[i + (m - j)] = g[m]
      BY <1>5, <2>6 DEF S
    <2>8. i + (m - j) \in 0..8 /\ i + (m - j) < m
      BY <1>5, <1>7
    <2>. QED BY <1>4, <1>5, <2>7, <2>8
  <1> DEFINE n == m + 1
             chain == [i \in 1..n |-> g[i - 1]]
  <1>8. n \in Nat /\ n \in 1..9
    BY <1>5
  <1>9. chain \in [1..n -> People]
    <2>1. \A i \in 1..n : i - 1 \in 0..8
      BY <1>5
    <2>. QED BY <1>2, <2>1
  <1>10. \A i, j \in 1..n : chain[i] = chain[j] => i = j
    <2>1. \A i \in 1..n : i - 1 \in 0..m /\ chain[i] = g[i - 1]
      BY <1>5
    <2> SUFFICES ASSUME NEW i \in 1..n, NEW j \in 1..n, i # j PROVE chain[i] # chain[j]
      OBVIOUS
    <2>2. i - 1 < j - 1 \/ j - 1 < i - 1
      BY <1>5
    <2>. QED BY <1>7, <2>1, <2>2
  <1>11. n \in 1..Cardinality(People)
    <2> DEFINE Met == {chain[i] : i \in 1..n}
    <2> HIDE DEF chain
    <2>1. Met \subseteq People
      BY <1>9
    <2>2. IsFiniteSet(Met) /\ Cardinality(Met) <= Cardinality(People)
      BY <2>1, FS_Subset, DeliveryAssumption
    <2>3. chain \in [1..n -> Met] /\ chain \in Bijection(1..n, Met)
      BY <1>9, <1>10 DEF Bijection, Injection, Surjection, IsInjective
    <2>4. ExistsBijection(1..n, Met)
      BY <2>3 DEF ExistsBijection
    <2>5. Cardinality(Met) = n
      BY <1>8, <2>2, <2>4, FS_CountingElements
    <2>6. Cardinality(People) \in Nat
      BY FS_CardinalityType, DeliveryAssumption
    <2>. QED BY <1>8, <2>2, <2>5, <2>6
  <1>12. /\ chain[1] = p /\ chain[n] = g[8]
         /\ \A i \in 1..(n - 1) :
              chain[i] \in Commanded /\ Commander[chain[i]] = chain[i + 1]
    <2>1. chain[1] = p /\ chain[n] = g[m]
      BY <1>1, <1>5
    <2>2. ASSUME NEW i \in 1..(n - 1)
          PROVE  chain[i] \in Commanded /\ Commander[chain[i]] = chain[i + 1]
      <3>1. i - 1 \in 0..7 /\ i - 1 < m /\ i - 1 \in 0..8
        BY <1>5
      <3>2. chain[i] = g[i - 1] /\ chain[i + 1] = g[(i - 1) + 1]
        BY <1>5
      <3>3. g[(i - 1) + 1] = Above(g[i - 1]) /\ g[i - 1] \in Commanded
        BY <1>1, <1>4, <3>1
      <3>. QED BY <3>2, <3>3 DEF Above, Commanded
    <2>. QED BY <1>6, <2>1, <2>2
  <1>13. chain = [i \in 1..n |-> chain[i]] /\ n \in 1..Cardinality(People)
    BY <1>11, <1>8
  <1> HIDE DEF chain, n
  <1>14. chain \in [1..n -> Commanded \cup {g[8]}]
    <2>1. \A i \in 1..n : i \in 1..(n - 1) \/ i = n
      BY <1>8
    <2>2. \A i \in 1..n : chain[i] \in Commanded \cup {g[8]}
      BY <1>12, <2>1
    <2>. QED BY <1>13, <2>2
  <1>15. g[8] \in People \ Commanded
    BY <1>1, <1>2
  <1>16. n \in 1..Cardinality(People)
    BY <1>13
  <1>17. \E k \in 1..Cardinality(People) :
            \E c \in [1..k -> Commanded \cup {g[8]}] :
                /\ c[1] = p /\ c[k] = g[8]
                /\ \A i \in 1..(k - 1) : c[i] \in Commanded /\ Commander[c[i]] = c[i + 1]
    <2> WITNESS n \in 1..Cardinality(People)
    <2> WITNESS chain \in [1..n -> Commanded \cup {g[8]}]
    <2>. QED BY <1>12
  <1>18. g[8] \in Owners(p)
    BY <1>15, <1>17, Zenon DEF Owners
  <1>. QED BY <1>1, <1>18
----------------------------------------------------------------------------
(* The steps.                                                              *)

\* What the receivers are.
LEMMA ReceiverIs ==
    ASSUME ChainsEnd, PlacesWell
    PROVE  /\ LootReceiver(instigator) # Nobody => Allowed(LootReceiver(instigator))
           /\ VanillaReceiver(instigator) \notin Commanded
           /\ VanillaReceiver(instigator) # "discarded"
  <1>1. instigator \in People \cup {Nobody} /\ PlayerRef \in People \ Summoned
        /\ Nobody \notin Summoned /\ "discarded" \notin People \cup {Nobody}
    BY DeliveryAssumption DEF PlacesWell, Receivers, Summoned
  <1>2. instigator # Nobody => /\ ResolveSummonOwner(instigator) \in People
                               /\ ResolveSummonOwner(instigator) \notin Commanded
    BY <1>1, OwnerIsFound DEF ChainsEnd, Owners
  <1>3. Commanded \subseteq Summoned /\ (Teammates \cup {PlayerRef}) \cap Summoned = {}
    BY DeliveryAssumption DEF Commanded, Summoned
  <1>4. LootReceiver(instigator) # Nobody => Allowed(LootReceiver(instigator))
    BY <1>1, <1>2, <1>3 DEF LootReceiver, Allowed
  <1>. QED BY <1>1, <1>2, <1>3, <1>4 DEF VanillaReceiver

LEMMA DeliveryInitially == ASSUME DeliveryInit PROVE DeliveryInv
  <1>1. PlacesWell
    BY DeliveryAssumption DEF DeliveryInit, PlacesWell, Receivers
  <1>2. GiftsWell
    BY DEF DeliveryInit, GiftsWell
  <1>3. SharesWell
    BY DeliveryAssumption DEF DeliveryInit, SharesWell, Allowed, Commanded, Summoned
  <1>. QED BY <1>1, <1>2, <1>3 DEF DeliveryInv

\* The loot of the death takes what was given before it, and goes where the settings say.
LEMMA LootStep ==
    ASSUME ChainsEnd, DeliveryInv, ProcessVanillaLoot
    PROVE  DeliveryInv'
  <1>0. PlacesWell /\ GiftsWell /\ SharesWell
    BY DEF DeliveryInv
  <1>1. PlacesWell'
    <2>1. settings' = settings /\ instigator' = instigator
      BY DEF ProcessVanillaLoot
    <2>2. ASSUME NEW i \in Carried
          PROVE  /\ place'[i] = "discarded" =>
                      settings.vanilla = "discard" /\ ~(settings.keepQuest /\ i \in QuestItems)
                 /\ place'[i] \in People => settings.vanilla = "autoLoot" /\ place'[i] \notin Commanded
      <3>1. place'[i] = IF i \in OnBody \ Kept THEN Destination ELSE place[i]
        BY DEF ProcessVanillaLoot, LootBody
      <3>2. CASE i \notin OnBody \ Kept
        BY <1>0, <3>1, <3>2 DEF PlacesWell
      <3>3. CASE i \in OnBody \ Kept
        <4>1. settings.vanilla \in {"autoLoot", "discard"}
          BY <1>0, <3>3, SettingsAssumption DEF PlacesWell, Kept
        <4>2. CASE settings.vanilla = "autoLoot"
          BY <1>0, <3>1, <3>3, <4>2, ReceiverIs DEF Destination
        <4>3. CASE settings.vanilla = "discard"
          BY <3>1, <3>3, <4>3, DeliveryAssumption DEF Destination, Kept
        <4>. QED BY <4>1, <4>2, <4>3
      <3>. QED BY <3>2, <3>3
    <2>. QED BY <1>0, <2>1, <2>2 DEF PlacesWell
  <1>2. GiftsWell'
    BY <1>0 DEF ProcessVanillaLoot, LootBody, GiftsOnBody, GiftsWell
  <1>3. SharesWell'
    <2>1. UNCHANGED <<settings, progress, gifts, known>>
      BY DEF ProcessVanillaLoot
    <2>. QED BY <1>0, <2>1 DEF SharesWell, Allowed, LootReceiver
  <1>. QED BY <1>1, <1>2, <1>3 DEF DeliveryInv

\* A rule gives to the body or to a receiver, and moves nothing.
LEMMA PayStep ==
    ASSUME ChainsEnd, DeliveryInv, PayRule
    PROVE  DeliveryInv'
  <1>0. /\ PlacesWell /\ GiftsWell /\ SharesWell
        /\ UNCHANGED <<settings, instigator, place, lost>> /\ InEvent
    BY DEF DeliveryInv, PayRule
  <1> DEFINE rule == LootRules[ruleAt]
  <1>1. PICK chosen : MayApply(rule, phase_V) /\ ApplyRewards(rule, chosen)
    BY DEF PayRule
  <1> DEFINE kinds == {rule.groups[c[1]].rewards[c[2]].kind : c \in chosen}
             to == IF rule.toBody THEN Victim ELSE LootReceiver(instigator)
             results == {Gives(k, rule.toBody) : k \in kinds}
  <1> HIDE DEF rule, kinds
  <1>2. /\ gifts' = gifts \cup {[to |-> r.to, trigger |-> phase_V, rule |-> ruleAt] :
                                r \in {x \in results : x.item}}
        /\ known' = known \cup {r.to : r \in {x \in results : x.teaches}}
        /\ progress' = IF \E k \in kinds : Progresses(k)
                       THEN progress \cup {[to |-> LootReceiver(instigator), by |-> instigator]}
                       ELSE progress
    BY <1>1 DEF ApplyRewards, kinds
  <1>3. Allowed(to)
    BY <1>0, <1>1, ReceiverIs, DeliveryAssumption DEF MayApply, Allowed, Commanded, Summoned
  <1>4. \A r \in results : r.to = to
    BY DEF Gives
  <1> HIDE DEF results
  <1>5. PlacesWell'
    BY <1>0 DEF PlacesWell
  <1>6. GiftsWell'
    <2>1. phase_V = "death" => phase_V' \in {"dead", "death"}
      BY DEF PayRule, NextRule
    <2>2. phase_V \in {"defeat", "death"}
      BY <1>0 DEF InEvent
    <2>3. \A g \in gifts' : g \in gifts \/ g.trigger = phase_V
      BY <1>2
    <2>. QED BY <1>0, <2>1, <2>2, <2>3 DEF GiftsWell
  <1>7. SharesWell'
    <2>1. \A x \in progress' : x \in progress \/ (x.by = instigator /\ x.to = LootReceiver(instigator)
                                                /\ LootReceiver(instigator) # Nobody)
      BY <1>2, DeliveryAssumption DEF Progresses
    <2>2. \A g \in gifts' : g \in gifts \/ g.to = to
      BY <1>2, <1>4
    <2>3. \A p \in known' : p \in known \/ p = to
      BY <1>2, <1>4
    <2>4. \A p : LootReceiver(p)' = LootReceiver(p)
      BY <1>0 DEF LootReceiver
    <2> HIDE DEF to
    <2>5. \A x \in progress' : x.by \in Receivers /\ x.to = LootReceiver(x.by) /\ x.to # Nobody
      BY <1>0, <2>1 DEF SharesWell, PlacesWell
    <2>6. \A x \in progress' : x.by \in Receivers /\ x.to = LootReceiver(x.by)' /\ x.to # Nobody
      BY <2>4, <2>5
    <2>7. \A g \in gifts' : Allowed(g.to)
      BY <1>0, <1>3, <2>2 DEF SharesWell
    <2>8. \A p \in known' : Allowed(p)
      BY <1>0, <1>3, <2>3 DEF SharesWell
    <2>9. \A p : Allowed(p)' = Allowed(p)
      BY <1>0 DEF Allowed
    <2>. QED BY <2>6, <2>7, <2>8, <2>9 DEF SharesWell
  <1>. QED BY <1>5, <1>6, <1>7 DEF DeliveryInv

LEMMA DeliveryStep ==
    ASSUME ChainsEnd, DeliveryInv, [DeliveryNext]_deliveryVars
    PROVE  DeliveryInv'
  <1>0. PlacesWell /\ GiftsWell /\ SharesWell
    BY DEF DeliveryInv
  <1>1. ASSUME NEW p \in Receivers, Defeated(p) \/ Killed(p)
        PROVE  DeliveryInv'
    <2>1. PlacesWell'
      BY <1>0, <1>1 DEF Defeated, Killed, PlacesWell
    <2>2. GiftsWell'
      BY <1>0, <1>1 DEF Defeated, Killed, GiftsWell
    <2>3. SharesWell'
      BY <1>0, <1>1 DEF Defeated, Killed, SharesWell, Allowed, LootReceiver
    <2>. QED BY <2>1, <2>2, <2>3 DEF DeliveryInv
  <1>2. CASE PassOver
    <2>1. PlacesWell'
      BY <1>0, <1>2 DEF PassOver, PlacesWell
    <2>2. GiftsWell'
      BY <1>0, <1>2 DEF PassOver, InEvent, NextRule, GiftsWell
    <2>3. SharesWell'
      BY <1>0, <1>2 DEF PassOver, SharesWell, Allowed, LootReceiver
    <2>. QED BY <2>1, <2>2, <2>3 DEF DeliveryInv
  <1>3. CASE UNCHANGED deliveryVars
    BY <1>0, <1>3 DEF deliveryVars, DeliveryInv, PlacesWell, GiftsWell, SharesWell, Allowed, LootReceiver
  <1>. QED BY <1>1, <1>2, <1>3, LootStep, PayStep DEF DeliveryNext, Receivers

LEMMA DeliveryAlways == ASSUME ChainsEnd PROVE DeliverySpec => []DeliveryInv
  <1>1. DeliveryInit => DeliveryInv
    BY DeliveryInitially
  <1>2. DeliveryInv /\ [DeliveryNext]_deliveryVars => DeliveryInv'
    BY DeliveryStep
  <1>. QED BY <1>1, <1>2, PTL DEF DeliverySpec

\* What a rule lays into the body when the victim dies stays there, and a quest object
\* is not discarded when the settings keep it (ProcessVanillaLoot).
THEOREM LootStays ==
    ASSUME ChainsEnd
    PROVE  DeliverySpec => []LootIsWhereItBelongs
  <1>1. DeliveryInv => LootIsWhereItBelongs
    BY DEF DeliveryInv, PlacesWell, GiftsWell, LootIsWhereItBelongs
  <1>. QED BY <1>1, DeliveryAlways, PTL

\* Nobody but those the settings allow has part in the loot (ResolveSummonOwner,
\* ResolveConfiguredLootReceiver).
THEOREM OnlyThoseAllowed ==
    ASSUME ChainsEnd
    PROVE  DeliverySpec => []ReceiversAreAllowed
  <1>1. DeliveryInv => ReceiversAreAllowed
    <2> SUFFICES ASSUME DeliveryInv PROVE ReceiversAreAllowed
      OBVIOUS
    <2>0. PlacesWell /\ SharesWell
      BY DEF DeliveryInv
    <2>1. settings.recipient \in {"playerOnly", "party", "anyActor"}
      BY <2>0, SettingsAssumption DEF PlacesWell
    <2>2. ASSUME NEW x \in progress
          PROVE  \/ settings.recipient = "playerOnly" /\ x.to = PlayerRef
                 \/ /\ settings.recipient = "party"
                    /\ x.to \in Owners(x.by) \cap (Teammates \cup {PlayerRef})
                 \/ settings.recipient = "anyActor" /\ x.to \in Owners(x.by)
      <3>1. x.by \in Receivers /\ x.to = LootReceiver(x.by) /\ x.to # Nobody
        BY <2>0 DEF SharesWell
      <3>2. CASE settings.recipient = "playerOnly"
        BY <3>1, <3>2 DEF LootReceiver
      <3>3. CASE settings.recipient # "playerOnly"
        <4>1. x.by \in People /\ x.to = ResolveSummonOwner(x.by)
          BY <3>1, <3>3 DEF LootReceiver, Receivers
        <4>2. x.to \in Owners(x.by)
          BY <4>1, OwnerIsFound DEF ChainsEnd
        <4>3. settings.recipient = "anyActor" \/ x.to \in Teammates \cup {PlayerRef}
          BY <3>1, <3>3 DEF LootReceiver
        <4>. QED BY <2>1, <3>3, <4>2, <4>3
      <3>. QED BY <3>2, <3>3
    <2>. QED BY <2>0, <2>2 DEF SharesWell, Allowed, ReceiversAreAllowed
  <1>. QED BY <1>1, DeliveryAlways, PTL
=============================================================================
