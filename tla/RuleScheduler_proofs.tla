------------------------ MODULE RuleScheduler_proofs ------------------------
(***************************************************************************)
(* Type correctness of the scheduler and the uniqueness of its pump, for   *)
(* every set of actors, kinds of change and loading threads.  Two facts    *)
(* make the uniqueness inductive: the flag is set whenever a live pump     *)
(* exists, and the thread that drains the map is the main thread, which    *)
(* never resets the scheduler while it drains.                             *)
(***************************************************************************)
EXTENDS RuleScheduler, TLAPS

----------------------------------------------------------------------------
(* Steps and the lists of steps of the threads.                            *)

\* The fields of a step are those of its kind (the closures of the code
\* capture the variables their bodies use).
LEMMA StepFields ==
    ASSUME NEW s \in Step
    PROVE  /\ s.op \in {"schedule", "defer", "enqueue", "apply", "nested"}
              => s.actor \in Actors /\ s.delta \in SUBSET Kinds
           /\ s.op \in PumpOps \cup {"refresh"} => s.gen \in Nat
           /\ s.op \in {"begin", "moveScheduled"} => s.actors \in SUBSET Actors
           /\ s.op \in {"forgetScheduled", "forgetInteraction"} => s.actor \in Actors
           /\ s.op = "release" => s.token \in Nat
           /\ s.op = "each" => s.deltas \in MapOf(Actors, SUBSET Kinds)
  BY DEF Step, PumpOps

\* The steps the actions build are steps.
LEMMA StepIntro ==
    /\ \A op \in {"schedule", "defer", "enqueue", "apply", "nested"}, a \in Actors,
         d \in SUBSET Kinds : ActorStep(op, a, d) \in Step
    /\ \A op \in PumpOps \cup {"refresh"}, g \in Nat : PumpStep(op, g) \in Step
    /\ \A op \in {"begin", "moveScheduled"}, S \in SUBSET Actors :
         [op |-> op, actors |-> S] \in Step
    /\ \A op \in {"forgetScheduled", "forgetInteraction"}, a \in Actors :
         [op |-> op, actor |-> a] \in Step
    /\ \A n \in Nat : [op |-> "release", token |-> n] \in Step
    /\ \A m \in MapOf(Actors, SUBSET Kinds) : EachStep(m) \in Step
    /\ \A op \in {"end", "suspend", "resetScheduled", "resetInteraction",
                  "validate", "invalidate", "resume"} : Plain(op) \in Step
  BY DEF Step, ActorStep, PumpStep, EachStep, Plain

\* Putting steps before the rest of a list: what is at each place afterwards.
LEMMA SplicePlaces ==
    ASSUME NEW S, NEW new \in Seq(S), NEW old \in Seq(S), old # <<>>
    PROVE  /\ new \o Tail(old) \in Seq(S)
           /\ Len(new \o Tail(old)) = Len(new) + Len(old) - 1
           /\ \A i \in 1..Len(new) : (new \o Tail(old))[i] = new[i]
           /\ \A i \in DOMAIN (new \o Tail(old)) : i > Len(new) =>
                /\ i - Len(new) + 1 \in DOMAIN old
                /\ i - Len(new) + 1 # 1
                /\ (new \o Tail(old))[i] = old[i - Len(new) + 1]
  <1>1. Tail(old) \in Seq(S) /\ Len(Tail(old)) = Len(old) - 1 /\ Len(old) \in Nat /\ Len(old) > 0
    OBVIOUS
  <1>2. \A i \in 1..Len(Tail(old)) : Tail(old)[i] = old[i + 1]
    BY <1>1
  <1>3. Len(new) \in Nat /\ Len(new \o Tail(old)) = Len(new) + Len(Tail(old))
    BY <1>1
  <1>4. \A i \in 1..(Len(new) + Len(Tail(old))) :
          (new \o Tail(old))[i] = IF i <= Len(new) THEN new[i] ELSE Tail(old)[i - Len(new)]
    BY <1>1
  <1>5. QED
    BY <1>1, <1>2, <1>3, <1>4

\* A thread that goes on with steps still has a list of steps.
LEMMA GotoType ==
    ASSUME todo \in [Threads -> Seq(Step)], NEW t \in Threads, todo[t] # <<>>,
           NEW new \in Seq(Step), Goto(t, new)
    PROVE  todo' \in [Threads -> Seq(Step)]
  BY SplicePlaces DEF Goto

\* The first step of a thread is a step.
LEMMA HeadType ==
    ASSUME todo \in [Threads -> Seq(Step)], NEW t \in Threads, todo[t] # <<>>
    PROVE  Head(todo[t]) \in Step
  OBVIOUS

\* Short lists of steps.
LEMMA StepLists ==
    /\ <<>> \in Seq(Step)
    /\ \A s \in Step : <<s>> \in Seq(Step)
    /\ \A s1, s2 \in Step : <<s1, s2>> \in Seq(Step)
    /\ \A s1, s2, s3 \in Step : <<s1, s2, s3>> \in Seq(Step)
    /\ \A s1, s2, s3, s4 \in Step : <<s1, s2, s3, s4>> \in Seq(Step)
  OBVIOUS

----------------------------------------------------------------------------
(* Partial maps.                                                           *)

LEMMA MapOfIntro ==
    ASSUME NEW S, NEW T, NEW D \in SUBSET S, NEW f \in [D -> T]
    PROVE  f \in MapOf(S, T)
  BY DEF MapOf

LEMMA MapOfElim ==
    ASSUME NEW S, NEW T, NEW f \in MapOf(S, T)
    PROVE  DOMAIN f \in SUBSET S /\ f \in [DOMAIN f -> T]
  BY DEF MapOf

LEMMA EmptyMap == ASSUME NEW S, NEW T PROVE <<>> \in MapOf(S, T)
  <1>1. <<>> \in [{} -> T]
    OBVIOUS
  <1>2. QED
    BY <1>1 DEF MapOf

LEMMA WithoutType ==
    ASSUME NEW S, NEW T, NEW f \in MapOf(S, T), NEW keys
    PROVE  Without(f, keys) \in MapOf(S, T)
  <1>1. DOMAIN f \in SUBSET S /\ f \in [DOMAIN f -> T]
    BY MapOfElim
  <1>2. Without(f, keys) \in [DOMAIN f \ keys -> T]
    BY <1>1 DEF Without
  <1>3. QED
    BY <1>1, <1>2, MapOfIntro

LEMMA MergedType ==
    ASSUME NEW S, NEW K, NEW f \in MapOf(S, SUBSET K), NEW a \in S, NEW d \in SUBSET K
    PROVE  Merged(f, a, d) \in MapOf(S, SUBSET K)
  <1>1. DOMAIN f \in SUBSET S /\ f \in [DOMAIN f -> SUBSET K]
    BY MapOfElim
  <1>2. Merged(f, a, d) \in [DOMAIN f \cup {a} -> SUBSET K]
    BY <1>1 DEF Merged
  <1>3. QED
    BY <1>1, <1>2, MapOfIntro

----------------------------------------------------------------------------
(* Type correctness.                                                       *)

USE DEF vars, engineVars, schedulerVars

LEMMA InitType == Init => TypeOK
  <1> SUFFICES ASSUME Init PROVE TypeOK
    OBVIOUS
  <1>1. scheduled \in MapOf(Actors, SUBSET Kinds) /\ interaction.pending \in MapOf(Actors, SUBSET Kinds)
    BY EmptyMap DEF Init, NoInteraction
  <1>2. interaction \in [active : BOOLEAN, token : Nat, actors : SUBSET Actors,
                         pending : MapOf(Actors, SUBSET Kinds)]
    BY <1>1 DEF Init, NoInteraction
  <1>3. todo \in [Threads -> Seq(Step)] /\ tasks \in Seq(Step) /\ timers \in SUBSET Step
    BY DEF Init
  <1>4. owed \in [Actors -> SUBSET Kinds]
    BY DEF Init
  <1>5. QED
    BY <1>1, <1>2, <1>3, <1>4 DEF Init, TypeOK

\* The calls of ScheduleRuleEvaluation.
LEMMA ScheduleType ==
    ASSUME TypeOK, NEW t \in Threads,
           \/ Schedule(t) \/ DeferInventoryInteractionEvaluation(t) \/ Enqueue(t) \/ PostPump(t)
    PROVE  TypeOK'
  <1> DEFINE s == Head(todo[t])
  <1>0. todo[t] # <<>> /\ s \in Step
    BY HeadType DEF TypeOK, Schedule, DeferInventoryInteractionEvaluation, Enqueue, PostPump, At
  <1>1. CASE Schedule(t)
    <2>1. s.actor \in Actors /\ s.delta \in SUBSET Kinds
      BY <1>0, <1>1, StepFields DEF Schedule, At
    <2>2. <<>> \in Seq(Step) /\ <<ActorStep("defer", s.actor, s.delta)>> \in Seq(Step)
      BY <2>1, StepIntro
    <2>3. todo' \in [Threads -> Seq(Step)]
      BY <1>0, <1>1, <2>2, GotoType DEF Schedule, TypeOK
    <2>4. owed' \in [Actors -> SUBSET Kinds]
      BY <1>1, <2>1 DEF Schedule, TypeOK
    <2>5. QED
      BY <1>1, <2>3, <2>4 DEF Schedule, TypeOK
  <1>2. CASE DeferInventoryInteractionEvaluation(t)
    <2>1. s.actor \in Actors /\ s.delta \in SUBSET Kinds
      BY <1>0, <1>2, StepFields DEF DeferInventoryInteractionEvaluation, At
    <2>2. <<>> \in Seq(Step) /\ <<ActorStep("enqueue", s.actor, s.delta)>> \in Seq(Step)
      BY <2>1, StepIntro
    <2>3. todo' \in [Threads -> Seq(Step)]
      BY <1>0, <1>2, <2>2, GotoType DEF DeferInventoryInteractionEvaluation, TypeOK
    <2>4. Merged(interaction.pending, s.actor, s.delta) \in MapOf(Actors, SUBSET Kinds)
      BY <2>1, MergedType DEF TypeOK
    <2>5. interaction' \in [active : BOOLEAN, token : Nat, actors : SUBSET Actors,
                            pending : MapOf(Actors, SUBSET Kinds)]
      BY <1>2, <2>4 DEF DeferInventoryInteractionEvaluation, DeferTo, TypeOK
    <2>6. QED
      BY <1>2, <2>3, <2>5 DEF DeferInventoryInteractionEvaluation, TypeOK
  <1>3. CASE Enqueue(t)
    <2>1. s.actor \in Actors /\ s.delta \in SUBSET Kinds
      BY <1>0, <1>3, StepFields DEF Enqueue, At
    <2>2. <<>> \in Seq(Step) /\ <<PumpStep("postPump", generation)>> \in Seq(Step)
      BY StepIntro DEF TypeOK, PumpOps
    <2>3. todo' \in [Threads -> Seq(Step)]
      BY <1>0, <1>3, <2>2, GotoType DEF Enqueue, TypeOK
    <2>4. scheduled' \in MapOf(Actors, SUBSET Kinds)
      BY <1>3, <2>1, MergedType DEF Enqueue, TypeOK
    <2>5. pumpFlag' \in BOOLEAN
      BY <1>3 DEF Enqueue, TypeOK
    <2>6. QED
      BY <1>3, <2>3, <2>4, <2>5 DEF Enqueue, TypeOK
  <1>4. CASE PostPump(t)
    <2>1. s.gen \in Nat
      BY <1>0, <1>4, StepFields DEF PostPump, At, PumpOps
    <2>2. PumpStep("pump", s.gen) \in Step
      BY <2>1, StepIntro DEF PumpOps
    <2>3. tasks' \in Seq(Step)
      BY <1>4, <2>2 DEF PostPump, TypeOK
    <2>4. todo' \in [Threads -> Seq(Step)]
      BY <1>0, <1>4, StepLists, GotoType DEF PostPump, TypeOK
    <2>5. QED
      BY <1>4, <2>3, <2>4 DEF PostPump, TypeOK
  <1>5. QED
    BY <1>1, <1>2, <1>3, <1>4

\* What the actions build besides the steps of a call.
LEMMA MenuStepsType ==
    ASSUME NEW a \in Actors, NEW b \in BOOLEAN
    PROVE  /\ MenuSteps(a, b) \in Seq(Step)
           /\ \A s \in Step : Append(MenuSteps(a, b), s) \in Seq(Step)
  <1>1. {a, Player} \in SUBSET Actors
    BY ActorAssumption
  <1>2. MenuSteps(a, b) \in Seq(Step)
    BY <1>1, StepIntro, StepLists DEF MenuSteps
  <1>3. QED
    BY <1>2

LEMMA EachStepType ==
    ASSUME NEW D \in SUBSET Actors, NEW d \in SUBSET Kinds
    PROVE  EachStep([a \in D |-> d]) \in Step
  <1>1. [a \in D |-> d] \in [D -> SUBSET Kinds]
    OBVIOUS
  <1>2. QED
    BY <1>1, MapOfIntro, StepIntro

\* The rounds of the pump.
LEMMA PumpType ==
    ASSUME TypeOK, NEW t \in Threads,
           Pump(t) \/ Take(t) \/ Apply(t) \/ Nested(t) \/ Repost(t)
    PROVE  TypeOK'
  <1> DEFINE s == Head(todo[t])
  <1>0. todo[t] # <<>> /\ s \in Step
    BY HeadType DEF TypeOK, Pump, Take, Apply, Nested, Repost, At
  <1>1. CASE Pump(t)
    <2>1. s.gen \in Nat
      BY <1>0, <1>1, StepFields DEF Pump, At, PumpOps
    <2>2. <<PumpStep("take", s.gen)>> \in Seq(Step)
      BY <2>1, StepIntro, StepLists DEF PumpOps
    <2>3. todo' \in [Threads -> Seq(Step)]
      BY <1>0, <1>1, <2>2, StepLists, GotoType DEF Pump, TypeOK
    <2>4. QED
      BY <1>1, <2>3 DEF Pump, TypeOK
  <1>2. CASE Take(t)
    <2>1. s.gen \in Nat
      BY <1>0, <1>2, StepFields DEF Take, At, PumpOps
    <2>2. CASE DOMAIN scheduled = {} /\ pumpFlag' = FALSE /\ Goto(t, <<>>) /\ UNCHANGED scheduled
      <3>1. todo' \in [Threads -> Seq(Step)]
        BY <1>0, <2>2, StepLists, GotoType DEF TypeOK
      <3>2. QED
        BY <1>2, <2>2, <3>1 DEF Take, TypeOK
    <2>3. ASSUME NEW a \in Actors, NEW next \in {"take", "repost"}, IsFirst(a, scheduled),
                 Goto(t, <<ActorStep("apply", a, scheduled[a]), PumpStep(next, s.gen)>>),
                 scheduled' = Without(scheduled, {a}), UNCHANGED pumpFlag
          PROVE  TypeOK'
      <3>1. scheduled[a] \in SUBSET Kinds
        BY <2>3, MapOfElim DEF TypeOK, IsFirst
      <3>2. <<ActorStep("apply", a, scheduled[a]), PumpStep(next, s.gen)>> \in Seq(Step)
        BY <2>1, <3>1, StepIntro, StepLists DEF PumpOps
      <3>3. todo' \in [Threads -> Seq(Step)]
        BY <1>0, <2>3, <3>2, GotoType DEF TypeOK
      <3>4. scheduled' \in MapOf(Actors, SUBSET Kinds)
        BY <2>3, WithoutType DEF TypeOK
      <3>5. QED
        BY <1>2, <2>3, <3>3, <3>4 DEF Take, TypeOK
    <2>4. QED
      BY <1>2, <2>2, <2>3 DEF Take
  <1>3. CASE Apply(t)
    <2>1. s.actor \in Actors /\ s.delta \in SUBSET Kinds
      BY <1>0, <1>3, StepFields DEF Apply, At
    <2>2. ActorStep("nested", s.actor, {Inventory}) \in Step
      BY <2>1, StepIntro, ActorAssumption
    <2>3. Append(MenuSteps(s.actor, menuEntry), ActorStep("nested", s.actor, {Inventory})) \in Seq(Step)
      BY <2>1, <2>2, MenuStepsType DEF TypeOK
    <2>4. todo' \in [Threads -> Seq(Step)]
      BY <1>0, <1>3, <2>3, StepLists, GotoType DEF Apply, TypeOK
    <2>5. owed' \in [Actors -> SUBSET Kinds]
      BY <1>3, <2>1 DEF Apply, TypeOK
    <2>6. QED
      BY <1>3, <2>4, <2>5 DEF Apply, TypeOK
  <1>4. CASE Nested(t)
    <2>1. s.actor \in Actors /\ s.delta \in SUBSET Kinds
      BY <1>0, <1>4, StepFields DEF Nested, At
    <2>2. todo' \in [Threads -> Seq(Step)]
      BY <1>0, <1>4, StepLists, GotoType DEF Nested, TypeOK
    <2>3. Merged(interaction.pending, s.actor, s.delta) \in MapOf(Actors, SUBSET Kinds)
      BY <2>1, MergedType DEF TypeOK
    <2>4. interaction' \in [active : BOOLEAN, token : Nat, actors : SUBSET Actors,
                            pending : MapOf(Actors, SUBSET Kinds)]
      BY <1>4, <2>3 DEF Nested, DeferTo, TypeOK
    <2>5. owed' \in [Actors -> SUBSET Kinds]
      BY <1>4, <2>1 DEF Nested, TypeOK
    <2>6. QED
      BY <1>4, <2>2, <2>4, <2>5 DEF Nested, TypeOK
  <1>5. CASE Repost(t)
    <2>1. s.gen \in Nat
      BY <1>0, <1>5, StepFields DEF Repost, At, PumpOps
    <2>2. <<PumpStep("postPump", s.gen)>> \in Seq(Step)
      BY <2>1, StepIntro, StepLists DEF PumpOps
    <2>3. todo' \in [Threads -> Seq(Step)]
      BY <1>0, <1>5, <2>2, StepLists, GotoType DEF Repost, TypeOK
    <2>4. pumpFlag' \in BOOLEAN
      BY <1>5 DEF Repost, TypeOK
    <2>5. QED
      BY <1>5, <2>3, <2>4 DEF Repost, TypeOK
  <1>6. QED
    BY <1>1, <1>2, <1>3, <1>4, <1>5

\* The inventory interaction.
LEMMA InteractionType ==
    ASSUME TypeOK, NEW t \in Threads,
           \/ BeginInventoryInteraction(t) \/ MoveScheduled(t)
           \/ EndInventoryInteraction(t) \/ Release(t) \/ Each(t)
    PROVE  TypeOK'
  <1> DEFINE s == Head(todo[t])
             Interaction == [active : BOOLEAN, token : Nat, actors : SUBSET Actors,
                             pending : MapOf(Actors, SUBSET Kinds)]
  <1>0. todo[t] # <<>> /\ s \in Step /\ interaction \in Interaction
    BY HeadType DEF TypeOK, BeginInventoryInteraction, MoveScheduled,
                    EndInventoryInteraction, Release, Each, At
  <1>1. CASE BeginInventoryInteraction(t)
    <2>1. s.actors \in SUBSET Actors
      BY <1>0, <1>1, StepFields DEF BeginInventoryInteraction, At
    <2>2. todo' \in [Threads -> Seq(Step)]
      BY <1>0, <1>1, StepLists, GotoType DEF BeginInventoryInteraction, TypeOK
    <2>3. interaction' \in Interaction
      BY <1>0, <1>1, <2>1, EmptyMap DEF BeginInventoryInteraction, TypeOK
    <2>4. QED
      BY <1>1, <2>2, <2>3 DEF BeginInventoryInteraction, TypeOK
  <1>2. CASE MoveScheduled(t)
    <2> DEFINE moved == s.actors \cap DOMAIN scheduled
               Delta(map, a) == IF a \in DOMAIN map THEN map[a] ELSE {}
               merged == [a \in DOMAIN interaction.pending \cup moved |->
                            Delta(interaction.pending, a) \cup (IF a \in moved THEN scheduled[a] ELSE {})]
    <2>1. /\ DOMAIN scheduled \in SUBSET Actors /\ scheduled \in [DOMAIN scheduled -> SUBSET Kinds]
          /\ DOMAIN interaction.pending \in SUBSET Actors
          /\ interaction.pending \in [DOMAIN interaction.pending -> SUBSET Kinds]
      BY <1>0, MapOfElim DEF TypeOK
    <2>2. \A a \in DOMAIN interaction.pending \cup moved :
             Delta(interaction.pending, a) \cup (IF a \in moved THEN scheduled[a] ELSE {}) \in SUBSET Kinds
      BY <2>1
    <2>3. merged \in [DOMAIN interaction.pending \cup moved -> SUBSET Kinds]
      BY <2>2
    <2>4. merged \in MapOf(Actors, SUBSET Kinds)
      BY <2>1, <2>3, MapOfIntro
    <2>5. interaction' \in Interaction
      BY <1>0, <1>2, <2>4 DEF MoveScheduled
    <2>6. scheduled' \in MapOf(Actors, SUBSET Kinds)
      BY <1>2, WithoutType DEF MoveScheduled, TypeOK
    <2>7. todo' \in [Threads -> Seq(Step)]
      BY <1>0, <1>2, StepLists, GotoType DEF MoveScheduled, TypeOK
    <2>8. QED
      BY <1>2, <2>5, <2>6, <2>7 DEF MoveScheduled, TypeOK
  <1>3. CASE EndInventoryInteraction(t)
    <2>1. [op |-> "release", token |-> interaction.token] \in Step
      BY <1>0, StepIntro
    <2>2. timers' \in SUBSET Step
      BY <1>3, <2>1 DEF EndInventoryInteraction, TypeOK
    <2>3. todo' \in [Threads -> Seq(Step)]
      BY <1>0, <1>3, StepLists, GotoType DEF EndInventoryInteraction, TypeOK
    <2>4. QED
      BY <1>3, <2>2, <2>3 DEF EndInventoryInteraction, TypeOK
  <1>4. CASE Release(t)
    <2> DEFINE D == DOMAIN interaction.pending \cap interaction.actors
               batch == [a \in D |-> interaction.pending[a]]
    <2>1. D \in SUBSET Actors /\ batch \in [D -> SUBSET Kinds]
      BY <1>0, MapOfElim
    <2>2. <<EachStep(batch)>> \in Seq(Step)
      BY <2>1, MapOfIntro, StepIntro, StepLists
    <2>3. todo' \in [Threads -> Seq(Step)]
      BY <1>0, <1>4, <2>2, StepLists, GotoType DEF Release, TypeOK
    <2>4. NoInteraction \in Interaction
      BY EmptyMap DEF NoInteraction
    <2>5. interaction' \in Interaction
      BY <1>0, <1>4, <2>4 DEF Release
    <2>6. QED
      BY <1>4, <2>3, <2>5 DEF Release, TypeOK
  <1>5. CASE Each(t)
    <2>1. s.deltas \in MapOf(Actors, SUBSET Kinds)
      BY <1>0, <1>5, StepFields DEF Each, At
    <2>2. CASE Goto(t, <<>>)
      <3>1. todo' \in [Threads -> Seq(Step)]
        BY <1>0, <2>2, StepLists, GotoType DEF TypeOK
      <3>2. QED
        BY <1>5, <3>1 DEF Each, TypeOK
    <2>3. ASSUME NEW a \in Actors, IsFirst(a, s.deltas),
                 Goto(t, IF a \in dead THEN <<EachStep(Without(s.deltas, {a}))>>
                         ELSE <<ActorStep("schedule", a, s.deltas[a]),
                                EachStep(Without(s.deltas, {a}))>>)
          PROVE  TypeOK'
      <3>1. s.deltas[a] \in SUBSET Kinds
        BY <2>1, <2>3, MapOfElim DEF IsFirst
      <3>2. EachStep(Without(s.deltas, {a})) \in Step
        BY <2>1, WithoutType, StepIntro
      <3>3. ActorStep("schedule", a, s.deltas[a]) \in Step
        BY <3>1, StepIntro
      <3>4. todo' \in [Threads -> Seq(Step)]
        BY <1>0, <2>3, <3>2, <3>3, StepLists, GotoType DEF TypeOK
      <3>5. QED
        BY <1>5, <3>4 DEF Each, TypeOK
    <2>4. QED
      BY <1>5, <2>2, <2>3 DEF Each
  <1>6. QED
    BY <1>1, <1>2, <1>3, <1>4, <1>5

\* Forgetting, resetting and the save transitions.
LEMMA TransitionType ==
    ASSUME TypeOK, NEW t \in Threads,
           \/ ForgetScheduled(t) \/ ForgetInteraction(t)
           \/ ResetScheduled(t) \/ ResetInteraction(t)
           \/ SuspendRuleEvaluationForLoad(t) \/ SetContext(t)
           \/ ResumeRuleEvaluationAfterLoad(t) \/ Refresh(t)
    PROVE  TypeOK'
  <1> DEFINE s == Head(todo[t])
             Interaction == [active : BOOLEAN, token : Nat, actors : SUBSET Actors,
                             pending : MapOf(Actors, SUBSET Kinds)]
  <1>0. todo[t] # <<>> /\ s \in Step /\ interaction \in Interaction
    BY HeadType DEF TypeOK, ForgetScheduled, ForgetInteraction, ResetScheduled, ResetInteraction,
                    SuspendRuleEvaluationForLoad, SetContext, ResumeRuleEvaluationAfterLoad,
                    Refresh, At
  <1>a. Goto(t, <<>>) => todo' \in [Threads -> Seq(Step)]
    BY <1>0, StepLists, GotoType DEF TypeOK
  <1>1. CASE ForgetScheduled(t)
    <2>1. s.actor \in Actors
      BY <1>0, <1>1, StepFields DEF ForgetScheduled, At
    <2>2. scheduled' \in MapOf(Actors, SUBSET Kinds)
      BY <1>1, WithoutType DEF ForgetScheduled, TypeOK
    <2>3. owed' \in [Actors -> SUBSET Kinds]
      BY <1>1, <2>1 DEF ForgetScheduled, TypeOK
    <2>4. QED
      BY <1>1, <1>a, <2>2, <2>3 DEF ForgetScheduled, TypeOK
  <1>2. CASE ForgetInteraction(t)
    <2>1. s.actor \in Actors
      BY <1>0, <1>2, StepFields DEF ForgetInteraction, At
    <2>2. Without(interaction.pending, {s.actor}) \in MapOf(Actors, SUBSET Kinds)
      BY <1>0, WithoutType
    <2>3. interaction' \in Interaction
      BY <1>0, <1>2, <2>2 DEF ForgetInteraction
    <2>4. owed' \in [Actors -> SUBSET Kinds]
      BY <1>2, <2>1 DEF ForgetInteraction, TypeOK
    <2>5. QED
      BY <1>2, <1>a, <2>3, <2>4 DEF ForgetInteraction, TypeOK
  <1>3. CASE ResetScheduled(t)
    <2>1. scheduled' \in MapOf(Actors, SUBSET Kinds)
      BY <1>3, EmptyMap DEF ResetScheduled
    <2>2. owed' \in [Actors -> SUBSET Kinds]
      BY <1>3 DEF ResetScheduled
    <2>3. generation' \in Nat
      BY <1>3 DEF ResetScheduled, TypeOK
    <2>4. QED
      BY <1>3, <1>a, <2>1, <2>2, <2>3 DEF ResetScheduled, TypeOK
  <1>4. CASE ResetInteraction(t)
    <2>1. interaction' \in Interaction
      BY <1>4, EmptyMap DEF ResetInteraction, NoInteraction
    <2>2. owed' \in [Actors -> SUBSET Kinds]
      BY <1>4 DEF ResetInteraction
    <2>3. nextToken' \in Nat
      BY <1>4 DEF ResetInteraction, TypeOK
    <2>4. QED
      BY <1>4, <1>a, <2>1, <2>2, <2>3 DEF ResetInteraction, TypeOK
  <1>5. CASE SuspendRuleEvaluationForLoad(t)
    <2>1. ResetSteps \in Seq(Step)
      BY StepIntro, StepLists DEF ResetSteps
    <2>2. todo' \in [Threads -> Seq(Step)]
      BY <1>0, <1>5, <2>1, GotoType DEF SuspendRuleEvaluationForLoad, TypeOK
    <2>3. QED
      BY <1>5, <2>2 DEF SuspendRuleEvaluationForLoad, TypeOK
  <1>6. CASE SetContext(t)
    <2>1. contextValid' \in BOOLEAN
      BY <1>6 DEF SetContext, At
    <2>2. QED
      BY <1>6, <1>a, <2>1 DEF SetContext, TypeOK
  <1>7. CASE ResumeRuleEvaluationAfterLoad(t)
    <2>1. PumpStep("refresh", generation) \in Step
      BY StepIntro DEF TypeOK
    <2>2. timers' \in SUBSET Step
      BY <1>7, <2>1 DEF ResumeRuleEvaluationAfterLoad, TypeOK
    <2>3. QED
      BY <1>7, <1>a, <2>2 DEF ResumeRuleEvaluationAfterLoad, TypeOK
  <1>8. CASE Refresh(t)
    <2>1. Full \in SUBSET Kinds /\ Actors \in SUBSET Actors
      BY DEF Full
    <2>2. <<EachStep([a \in Actors |-> Full])>> \in Seq(Step)
      BY <2>1, EachStepType, StepLists
    <2>3. todo' \in [Threads -> Seq(Step)]
      BY <1>0, <1>8, <2>2, StepLists, GotoType DEF Refresh, TypeOK
    <2>4. QED
      BY <1>8, <2>3 DEF Refresh, TypeOK
  <1>9. QED
    BY <1>1, <1>2, <1>3, <1>4, <1>5, <1>6, <1>7, <1>8

\* Every step of a thread.
LEMMA StepOfType ==
    ASSUME TypeOK, NEW t \in Threads, StepOf(t)
    PROVE  TypeOK'
  BY ScheduleType, PumpType, InteractionType, TransitionType DEF StepOf

\* Starting a handler on an idle thread.
LEMMA StartType ==
    ASSUME todo \in [Threads -> Seq(Step)], NEW t \in Threads,
           NEW steps \in Seq(Step), Start(t, steps)
    PROVE  todo' \in [Threads -> Seq(Step)]
  BY DEF Start

\* The queues and the events that start a handler.
LEMMA EngineType ==
    ASSUME TypeOK,
           RunTask \/ (\E timer \in timers : FireTimer(timer)) \/ EngineEvent
    PROVE  TypeOK'
  <1>0. Main \in Threads /\ Loaders \subseteq Threads
    BY DEF Threads
  <1>1. CASE RunTask
    <2>1. Head(tasks) \in Step /\ Tail(tasks) \in Seq(Step)
      BY <1>1 DEF RunTask, TypeOK
    <2>2. todo' \in [Threads -> Seq(Step)]
      BY <1>0, <1>1, <2>1, StepLists, StartType DEF RunTask, TypeOK
    <2>3. QED
      BY <1>1, <2>1, <2>2 DEF RunTask, TypeOK
  <1>2. ASSUME NEW timer \in timers, FireTimer(timer)
        PROVE  TypeOK'
    <2>1. timer \in Step /\ tasks' \in Seq(Step)
      BY <1>2 DEF FireTimer, TypeOK
    <2>2. QED
      BY <1>2, <2>1 DEF FireTimer, TypeOK
  <1>3. CASE ReportChange
    <2>1. \A d \in {{k} : k \in Kinds} \cup {Full} : d \in SUBSET Kinds
      BY DEF Full
    <2>2. PICK a \in Actors, d \in {{k} : k \in Kinds} \cup {Full} :
            Start(Main, <<ActorStep("schedule", a, d)>>)
      BY <1>3 DEF ReportChange
    <2>3. <<ActorStep("schedule", a, d)>> \in Seq(Step)
      BY <2>1, StepIntro, StepLists
    <2>4. todo' \in [Threads -> Seq(Step)]
      BY <1>0, <2>2, <2>3, StartType DEF TypeOK
    <2>5. QED
      BY <1>3, <2>4 DEF ReportChange, Event, TypeOK
  <1>4. CASE ReportAll
    <2>1. \A d \in {{k} : k \in Kinds} \cup {Full} : d \in SUBSET Kinds
      BY DEF Full
    <2>2. PICK d \in {{k} : k \in Kinds} \cup {Full} : Start(Main, <<EachStep([a \in Actors |-> d])>>)
      BY <1>4 DEF ReportAll
    <2>3. Actors \in SUBSET Actors
      OBVIOUS
    <2>4. <<EachStep([a \in Actors |-> d])>> \in Seq(Step)
      BY <2>1, <2>3, EachStepType, StepLists
    <2>5. todo' \in [Threads -> Seq(Step)]
      BY <1>0, <2>2, <2>4, StartType DEF TypeOK
    <2>6. QED
      BY <1>4, <2>5 DEF ReportAll, Event, TypeOK
  <1>5. CASE LevelUp
    <2>1. ASSUME NEW k \in Kinds
          PROVE  /\ <<EachStep([a \in Actors \ {Player} |-> {k}])>> \in Seq(Step)
                 /\ <<ActorStep("apply", Player, {k})>> \in Seq(Step)
      <3>1. EachStep([a \in Actors \ {Player} |-> {k}]) \in Step
        BY EachStepType
      <3>2. QED
        BY <3>1, StepIntro, StepLists, ActorAssumption
    <2>2. \A q1, q2 \in Seq(Step) : q1 \o q2 \in Seq(Step)
      OBVIOUS
    <2>3. PICK steps \in Seq(Step) : Start(Main, steps)
      BY <1>5, <2>1, <2>2 DEF LevelUp
    <2>4. todo' \in [Threads -> Seq(Step)]
      BY <1>0, <2>3, StartType DEF TypeOK
    <2>5. QED
      BY <1>5, <2>4 DEF LevelUp, Event, TypeOK
  <1>6. CASE ContainerChanged
    <2>1. \A a \in Actors : TransferSteps(a) \in Seq(Step)
      <3> SUFFICES ASSUME NEW a \in Actors PROVE TransferSteps(a) \in Seq(Step)
        OBVIOUS
      <3>1. ActorStep("schedule", a, {Inventory}) \in Step
        BY StepIntro, ActorAssumption
      <3>2. QED
        BY <3>1, MenuStepsType DEF TransferSteps, TypeOK
    <2>2. \A q1, q2 \in Seq(Step) : q1 \o q2 \in Seq(Step)
      OBVIOUS
    <2>3. PICK steps \in Seq(Step) : Start(Main, steps)
      BY <1>6, <2>1, <2>2 DEF ContainerChanged
    <2>4. todo' \in [Threads -> Seq(Step)]
      BY <1>0, <2>3, StartType DEF TypeOK
    <2>5. QED
      BY <1>6, <2>4 DEF ContainerChanged, Event, TypeOK
  <1>7. ASSUME NEW t \in Loaders, BackgroundClone(t)
        PROVE  TypeOK'
    <2>1. PICK a \in Actors \ (dead \cup {Player}) : Start(t, <<ActorStep("schedule", a, Full)>>)
      BY <1>7 DEF BackgroundClone
    <2>2. <<ActorStep("schedule", a, Full)>> \in Seq(Step)
      BY StepIntro, StepLists DEF Full
    <2>3. todo' \in [Threads -> Seq(Step)]
      BY <1>0, <2>1, <2>2, StartType DEF TypeOK
    <2>4. QED
      BY <1>7, <2>3 DEF BackgroundClone, Event, TypeOK
  <1>8. CASE Unload
    <2>1. PICK a \in Actors \ {Player} :
            Start(Main, <<[op |-> "forgetScheduled", actor |-> a],
                          [op |-> "forgetInteraction", actor |-> a]>>)
      BY <1>8 DEF Unload
    <2>2. <<[op |-> "forgetScheduled", actor |-> a],
            [op |-> "forgetInteraction", actor |-> a]>> \in Seq(Step)
      BY StepIntro, StepLists
    <2>3. todo' \in [Threads -> Seq(Step)]
      BY <1>0, <2>1, <2>2, StartType DEF TypeOK
    <2>4. QED
      BY <1>8, <2>3 DEF Unload, Event, TypeOK
  <1>9. CASE OpenMenu
    <2>1. PICK target \in SUBSET Actors :
            Start(Main, <<[op |-> "begin", actors |-> target \cup {Player}],
                          [op |-> "moveScheduled", actors |-> target \cup {Player}]>>)
      BY <1>9 DEF OpenMenu
    <2>2. target \cup {Player} \in SUBSET Actors
      BY ActorAssumption
    <2>3. <<[op |-> "begin", actors |-> target \cup {Player}],
            [op |-> "moveScheduled", actors |-> target \cup {Player}]>> \in Seq(Step)
      BY <2>2, StepIntro, StepLists
    <2>4. todo' \in [Threads -> Seq(Step)]
      BY <1>0, <2>1, <2>3, StartType DEF TypeOK
    <2>5. QED
      BY <1>9, <2>4 DEF OpenMenu, TypeOK
  <1>10. CASE CloseMenu \/ DropMenuEntry \/ Kill
    <2>1. <<Plain("end")>> \in Seq(Step)
      BY StepIntro, StepLists
    <2>2. CloseMenu => todo' \in [Threads -> Seq(Step)]
      BY <1>0, <2>1, StartType DEF CloseMenu, TypeOK
    <2>3. QED
      BY <1>10, <2>2, BoundAssumption DEF CloseMenu, DropMenuEntry, Kill, TypeOK
  <1>11. CASE PreLoadGame
    <2>1. PICK outcome \in {"noName", "validate", "invalidate"} :
            Start(Main, <<Plain("suspend")>>
                        \o (IF outcome = "noName" THEN <<>>
                            ELSE ResetSteps \o <<Plain(outcome)>>))
      BY <1>11 DEF PreLoadGame
    <2>2. outcome # "noName" => ResetSteps \in Seq(Step) /\ <<Plain(outcome)>> \in Seq(Step)
      BY StepIntro, StepLists DEF ResetSteps
    <2>3. <<Plain("suspend")>> \in Seq(Step)
      BY StepIntro, StepLists
    <2>4. <<Plain("suspend")>> \o (IF outcome = "noName" THEN <<>>
                                   ELSE ResetSteps \o <<Plain(outcome)>>) \in Seq(Step)
      BY <2>2, <2>3
    <2>5. todo' \in [Threads -> Seq(Step)]
      BY <1>0, <2>1, <2>4, StartType DEF TypeOK
    <2>6. QED
      BY <1>11, <2>5 DEF PreLoadGame, Load, TypeOK
  <1>12. CASE PostLoadGame
    <2>1. <<Plain("resume")>> \in Seq(Step)
      BY StepIntro, StepLists
    <2>2. todo' \in [Threads -> Seq(Step)]
      BY <1>0, <1>12, <2>1, StartType DEF PostLoadGame, TypeOK
    <2>3. QED
      BY <1>12, <2>2 DEF PostLoadGame, TypeOK
  <1>13. CASE NewGame
    <2>1. ResetSteps \in Seq(Step) /\ <<Plain("validate"), Plain("resume")>> \in Seq(Step)
      BY StepIntro, StepLists DEF ResetSteps
    <2>2. ResetSteps \o <<Plain("validate"), Plain("resume")>> \in Seq(Step)
      BY <2>1
    <2>3. todo' \in [Threads -> Seq(Step)]
      BY <1>0, <1>13, <2>2, StartType DEF NewGame, TypeOK
    <2>4. QED
      BY <1>13, <2>3 DEF NewGame, Load, TypeOK
  <1>14. QED
    BY <1>1, <1>2, <1>3, <1>4, <1>5, <1>6, <1>7, <1>8, <1>9, <1>10, <1>11, <1>12, <1>13
    DEF EngineEvent

\* The variables keep their types in every behaviour of the scheduler.
THEOREM TypeCorrect == Spec => []TypeOK
  <1>1. TypeOK /\ [Next]_vars => TypeOK'
    <2> SUFFICES ASSUME TypeOK, [Next]_vars PROVE TypeOK'
      OBVIOUS
    <2>1. CASE \E t \in Threads : StepOf(t)
      BY <2>1, StepOfType
    <2>2. CASE RunTask \/ (\E timer \in timers : FireTimer(timer)) \/ EngineEvent
      BY <2>2, EngineType
    <2>3. CASE UNCHANGED vars
      BY <2>3 DEF TypeOK
    <2>4. QED
      BY <2>1, <2>2, <2>3 DEF Next
  <1>2. QED
    BY InitType, <1>1, PTL DEF Spec

----------------------------------------------------------------------------
(* At most one pump of the current generation.                            *)


DrainOps == {"pump", "take", "repost"}
ResetOps == {"suspend", "resetScheduled"}

\* What the queues hold, and what a loading thread does.
QueuesCarry ==
    /\ \A i \in DOMAIN tasks : tasks[i].op \in {"pump", "release", "refresh"}
    /\ \A timer \in timers : timer.op \in {"release", "refresh"}

LoadersOnlySchedule ==
    \A t \in Loaders : \A i \in DOMAIN todo[t] :
        todo[t][i].op \in {"schedule", "defer", "enqueue", "postPump"}

\* The main thread does not reset while it drains.
NoResetInDrain ==
    \A i, j \in DOMAIN todo[Main] :
        ~(todo[Main][i].op \in DrainOps /\ todo[Main][j].op \in ResetOps)

\* No pump is ahead of the generation, and the one that drains belongs to it.
Generations ==
    /\ \A i \in DOMAIN tasks : tasks[i].op \in PumpOps => tasks[i].gen <= generation
    /\ \A t \in Threads : \A i \in DOMAIN todo[t] :
        /\ todo[t][i].op \in PumpOps => todo[t][i].gen <= generation
        /\ todo[t][i].op \in {"take", "repost"} => todo[t][i].gen = generation

\* The flag is set as long as a live pump exists.
FlagSet ==
    /\ \A i \in DOMAIN tasks : Live(tasks[i]) => pumpFlag
    /\ \A t \in Threads : \A i \in DOMAIN todo[t] : Live(todo[t][i]) => pumpFlag

\* A pump of generation gen.
LiveAt(step, gen) == step.op \in PumpOps /\ step.gen = gen

PumpInv ==
    /\ QueuesCarry
    /\ LoadersOnlySchedule
    /\ NoResetInDrain
    /\ Generations
    /\ FlagSet
    /\ SinglePump

----------------------------------------------------------------------------
(* A thread goes on with other steps.                                      *)

\* Where the steps of a thread come from once it has gone on.
LEMMA GotoPlaces ==
    ASSUME todo \in [Threads -> Seq(Step)], NEW t \in Threads, todo[t] # <<>>,
           NEW new \in Seq(Step), Goto(t, new)
    PROVE  /\ \A u \in Threads \ {t} : todo'[u] = todo[u]
           /\ \A i \in DOMAIN todo'[t] :
                /\ i \in Nat
                /\ i <= Len(new) => i \in DOMAIN new /\ todo'[t][i] = new[i]
                /\ i > Len(new) => /\ i - Len(new) + 1 \in DOMAIN todo[t]
                                   /\ i - Len(new) + 1 # 1
                                   /\ todo'[t][i] = todo[t][i - Len(new) + 1]
  <1>1. todo[t] \in Seq(Step) /\ todo'[t] = new \o Tail(todo[t])
    BY DEF Goto
  <1>2. todo'[t] \in Seq(Step)
    BY <1>1
  <1>3. DOMAIN todo'[t] = 1..Len(todo'[t]) /\ DOMAIN new = 1..Len(new) /\ Len(new) \in Nat
    BY <1>2
  <1>4. \A i \in DOMAIN todo'[t] : i <= Len(new) => i \in DOMAIN new /\ todo'[t][i] = new[i]
    BY <1>1, <1>3, SplicePlaces
  <1>5. \A i \in DOMAIN todo'[t] : i > Len(new) =>
            /\ i - Len(new) + 1 \in DOMAIN todo[t]
            /\ i - Len(new) + 1 # 1
            /\ todo'[t][i] = todo[t][i - Len(new) + 1]
    BY <1>1, SplicePlaces
  <1>6. \A u \in Threads \ {t} : todo'[u] = todo[u]
    BY DEF Goto
  <1>7. \A i \in DOMAIN todo'[t] : i \in Nat
    BY <1>3
  <1>8. QED
    BY <1>4, <1>5, <1>6, <1>7

LEMMA DropPlaces ==
    ASSUME todo \in [Threads -> Seq(Step)], NEW t \in Threads, todo[t] # <<>>, Goto(t, <<>>)
    PROVE  /\ \A u \in Threads \ {t} : todo'[u] = todo[u]
           /\ \A i \in DOMAIN todo'[t] :
                i \in Nat /\ i + 1 \in DOMAIN todo[t] /\ i + 1 # 1 /\ todo'[t][i] = todo[t][i + 1]
  <1> DEFINE rest == Tail(todo[t])
  <1>1. todo[t] \in Seq(Step)
    OBVIOUS
  <1>2. rest \in Seq(Step) /\ <<>> \o rest = rest
    BY <1>1
  <1>3. \A i \in DOMAIN rest : i \in Nat /\ i + 1 \in DOMAIN todo[t] /\ i + 1 # 1 /\ rest[i] = todo[t][i + 1]
    BY <1>1
  <1>4. todo'[t] = rest /\ \A u \in Threads \ {t} : todo'[u] = todo[u]
    BY <1>2 DEF Goto
  <1> HIDE DEF rest
  <1>5. QED
    BY <1>3, <1>4

\* What is at each place of a longer queue.
LEMMA AppendPlaces ==
    ASSUME NEW S, NEW q \in Seq(S), NEW e \in S
    PROVE  /\ \A i \in DOMAIN Append(q, e) :
                i = Len(q) + 1 \/ (i \in DOMAIN q /\ Append(q, e)[i] = q[i])
           /\ Append(q, e)[Len(q) + 1] = e
  OBVIOUS

\* A step that hands its pump, if it has one, to the last of the steps that
\* replace it, and touches neither the flag nor the generation.
LEMMA PassOn ==
    ASSUME TypeOK, PumpInv, NEW t \in Threads, todo[t] # <<>>,
           NEW new \in Seq(Step), Goto(t, new),
           \A i \in DOMAIN new :
             /\ new[i].op \in PumpOps => /\ i = Len(new)
                                         /\ Head(todo[t]).op \in PumpOps
                                         /\ new[i].gen = Head(todo[t]).gen
             /\ new[i].op \in DrainOps => Head(todo[t]).op \in DrainOps
             /\ new[i].op \in {"take", "repost"} => new[i].gen = generation
             /\ new[i].op \notin ResetOps
             /\ t \in Loaders => new[i].op \in {"schedule", "defer", "enqueue", "postPump"},
           UNCHANGED <<generation, tasks, pumpFlag>>,
           \A timer \in timers' : timer.op \in {"release", "refresh"}
    PROVE  PumpInv'
  <1> DEFINE From(u, i) == IF u # t THEN i ELSE IF i <= Len(new) THEN 1 ELSE i - Len(new) + 1
  <1>1. /\ \A u \in Threads \ {t} : todo'[u] = todo[u]
        /\ \A i \in DOMAIN todo'[t] :
             /\ i \in Nat
             /\ i <= Len(new) => i \in DOMAIN new /\ todo'[t][i] = new[i]
             /\ i > Len(new) => /\ i - Len(new) + 1 \in DOMAIN todo[t]
                                /\ i - Len(new) + 1 # 1
                                /\ todo'[t][i] = todo[t][i - Len(new) + 1]
    BY GotoPlaces DEF TypeOK
  <1>2. 1 \in DOMAIN todo[t] /\ Head(todo[t]) = todo[t][1] /\ Len(new) \in Nat
    BY DEF TypeOK
  <1>3. \A u \in Threads : \A i \in DOMAIN todo'[u] : todo'[u][i].op \in PumpOps =>
            /\ From(u, i) \in DOMAIN todo[u]
            /\ todo[u][From(u, i)].op \in PumpOps
            /\ todo[u][From(u, i)].gen = todo'[u][i].gen
    BY <1>1, <1>2
  <1>4. \A u \in Threads : \A i, j \in DOMAIN todo'[u] :
            /\ todo'[u][i].op \in PumpOps
            /\ todo'[u][j].op \in PumpOps
            /\ From(u, i) = From(u, j)
            => i = j
    BY <1>1, <1>2
  <1> HIDE DEF From
  <1>5. QueuesCarry'
    BY DEF PumpInv, QueuesCarry
  <1>6. LoadersOnlySchedule'
    BY <1>1 DEF PumpInv, LoadersOnlySchedule, Threads
  <1>7. NoResetInDrain'
    <2>1. Main \in Threads
      BY DEF Threads
    <2>2. \A i \in DOMAIN todo'[Main] : todo'[Main][i].op \in DrainOps =>
             \E k \in DOMAIN todo[Main] : todo[Main][k].op \in DrainOps
      BY <1>1, <1>2, <2>1
    <2>3. \A i \in DOMAIN todo'[Main] : todo'[Main][i].op \in ResetOps =>
             \E k \in DOMAIN todo[Main] : todo[Main][k].op \in ResetOps
      BY <1>1, <1>2, <2>1
    <2>4. QED
      BY <2>2, <2>3 DEF PumpInv, NoResetInDrain
  <1>8. Generations'
    <2>1. \A i \in DOMAIN tasks' : tasks'[i].op \in PumpOps => tasks'[i].gen <= generation'
      BY DEF PumpInv, Generations
    <2>2. \A u \in Threads : \A i \in DOMAIN todo'[u] :
             todo'[u][i].op \in PumpOps => todo'[u][i].gen <= generation'
      BY <1>3 DEF PumpInv, Generations
    <2>3. \A u \in Threads : \A i \in DOMAIN todo'[u] :
             todo'[u][i].op \in {"take", "repost"} => todo'[u][i].gen = generation'
      BY <1>1, <1>2 DEF PumpInv, Generations
    <2>4. QED
      BY <2>1, <2>2, <2>3 DEF Generations
  <1>9. FlagSet'
    BY <1>3 DEF PumpInv, FlagSet, Live
  <1>10. SinglePump'
    BY <1>3, <1>4 DEF PumpInv, SinglePump, Live
  <1>11. QED
    BY <1>5, <1>6, <1>7, <1>8, <1>9, <1>10 DEF PumpInv

----------------------------------------------------------------------------
(* The steps of the threads.                                               *)

USE DEF DrainOps, ResetOps, vars, engineVars, schedulerVars

\* Short lists, place by place.
LEMMA Places ==
    /\ \A i \in DOMAIN <<>> : FALSE
    /\ \A a : DOMAIN <<a>> = {1} /\ <<a>>[1] = a /\ Len(<<a>>) = 1
    /\ \A a, b : /\ DOMAIN <<a, b>> = {1, 2} /\ Len(<<a, b>>) = 2
                 /\ <<a, b>>[1] = a /\ <<a, b>>[2] = b
  OBVIOUS

\* The list of the menu's steps holds no pump and no reset.
LEMMA MenuStepsPlaces ==
    ASSUME NEW a \in Actors, NEW b \in BOOLEAN, NEW s \in Step,
           s.op \in {"schedule", "nested"}
    PROVE  \A i \in DOMAIN Append(MenuSteps(a, b), s) :
              Append(MenuSteps(a, b), s)[i].op \in {"begin", "moveScheduled", "schedule", "nested"}
  BY DEF MenuSteps

\* The calls of ScheduleRuleEvaluation.  Enqueue posts a pump only while the
\* flag is clear, and then no pump is live.
LEMMA SchedulePump ==
    ASSUME TypeOK, PumpInv, NEW t \in Threads,
           \/ Schedule(t) \/ DeferInventoryInteractionEvaluation(t) \/ Enqueue(t) \/ PostPump(t)
    PROVE  PumpInv'
  <1> DEFINE s == Head(todo[t])
  <1>0. /\ todo[t] # <<>> /\ s \in Step /\ s = todo[t][1] /\ 1 \in DOMAIN todo[t]
        /\ \A timer \in timers : timer.op \in {"release", "refresh"}
    BY HeadType DEF TypeOK, Schedule, DeferInventoryInteractionEvaluation, Enqueue, PostPump, At,
                    PumpInv, QueuesCarry
  <1>1. CASE Schedule(t)
    <2>1. s.actor \in Actors /\ s.delta \in SUBSET Kinds
      BY <1>0, <1>1, StepFields DEF Schedule, At
    <2> DEFINE new == IF suspended THEN <<>> ELSE <<ActorStep("defer", s.actor, s.delta)>>
    <2>2. new \in Seq(Step) /\ Goto(t, new)
      BY <1>1, <2>1, StepIntro, StepLists DEF Schedule
    <2>3. \A i \in DOMAIN new : new[i].op = "defer"
      BY Places DEF ActorStep
    <2> HIDE DEF new
    <2>4. QED
      BY <1>0, <1>1, <2>2, <2>3, PassOn DEF Schedule, PumpOps
  <1>2. CASE DeferInventoryInteractionEvaluation(t)
    <2>1. s.actor \in Actors /\ s.delta \in SUBSET Kinds
      BY <1>0, <1>2, StepFields DEF DeferInventoryInteractionEvaluation, At
    <2> DEFINE new == IF Deferred(s.actor) THEN <<>>
                      ELSE <<ActorStep("enqueue", s.actor, s.delta)>>
    <2>2. new \in Seq(Step) /\ Goto(t, new)
      BY <1>2, <2>1, StepIntro, StepLists DEF DeferInventoryInteractionEvaluation
    <2>3. \A i \in DOMAIN new : new[i].op = "enqueue"
      BY Places DEF ActorStep
    <2> HIDE DEF new
    <2>4. QED
      BY <1>0, <1>2, <2>2, <2>3, PassOn DEF DeferInventoryInteractionEvaluation, PumpOps
  <1>3. CASE Enqueue(t)
    <2> DEFINE startPump == s.actor \notin DOMAIN scheduled /\ ~pumpFlag
    <2>1. CASE ~startPump
      <3>1. Goto(t, <<>>) /\ pumpFlag' = pumpFlag
        BY <1>3, <2>1 DEF Enqueue, TypeOK
      <3>2. QED
        BY <1>0, <1>3, <3>1, StepLists, Places, PassOn DEF Enqueue
    <2>2. CASE startPump
      <3>1. /\ \A i \in DOMAIN tasks : ~Live(tasks[i])
            /\ \A u \in Threads : \A i \in DOMAIN todo[u] : ~Live(todo[u][i])
        BY <2>2 DEF PumpInv, FlagSet
      <3> DEFINE new == <<PumpStep("postPump", generation)>>
      <3>2. new \in Seq(Step) /\ Goto(t, new) /\ pumpFlag' = TRUE
        BY <1>3, <2>2, StepIntro, StepLists DEF Enqueue, TypeOK, PumpOps
      <3>3. /\ DOMAIN new = {1} /\ Len(new) = 1
            /\ new[1].op = "postPump" /\ new[1].gen = generation
        BY Places DEF PumpStep
      <3> HIDE DEF new
      <3>4. /\ \A u \in Threads \ {t} : todo'[u] = todo[u]
            /\ \A i \in DOMAIN todo'[t] :
                \/ i = 1 /\ todo'[t][i].op = "postPump" /\ todo'[t][i].gen = generation
                \/ \E k \in DOMAIN todo[t] : todo'[t][i] = todo[t][k]
        <4>1. /\ \A u \in Threads \ {t} : todo'[u] = todo[u]
              /\ \A i \in DOMAIN todo'[t] :
                  /\ i \in Nat
                  /\ i <= Len(new) => i \in DOMAIN new /\ todo'[t][i] = new[i]
                  /\ i > Len(new) => /\ i - Len(new) + 1 \in DOMAIN todo[t]
                                     /\ i - Len(new) + 1 # 1
                                     /\ todo'[t][i] = todo[t][i - Len(new) + 1]
          BY <1>0, <3>2, GotoPlaces DEF TypeOK
        <4>2. QED
          BY <3>3, <4>1
      <3>5. UNCHANGED <<generation, tasks, timers>>
        BY <1>3 DEF Enqueue
      <3>6. QueuesCarry' /\ LoadersOnlySchedule'
        BY <3>4, <3>5 DEF PumpInv, QueuesCarry, LoadersOnlySchedule, Threads
      <3>7. NoResetInDrain'
        BY <3>4 DEF PumpInv, NoResetInDrain, Threads
      <3>8. Generations'
        <4>1. generation <= generation
          BY DEF TypeOK
        <4>2. \A u \in Threads : \A i \in DOMAIN todo'[u] :
                \/ todo'[u][i].op = "postPump" /\ todo'[u][i].gen = generation
                \/ \E k \in DOMAIN todo[u] : todo'[u][i] = todo[u][k]
          BY <3>4
        <4>3. QED
          BY <3>5, <4>1, <4>2 DEF PumpInv, Generations
      <3>9. FlagSet'
        BY <3>2 DEF FlagSet
      <3>10. /\ \A i \in DOMAIN tasks' : ~LiveAt(tasks'[i], generation)
             /\ \A u \in Threads : \A i \in DOMAIN todo'[u] :
                    LiveAt(todo'[u][i], generation) => u = t /\ i = 1
        BY <3>1, <3>4, <3>5 DEF Live, LiveAt
      <3>11. SinglePump'
        BY <3>5, <3>10 DEF SinglePump, Live, LiveAt
      <3>12. QED
        BY <3>6, <3>7, <3>8, <3>9, <3>11 DEF PumpInv
    <2>3. QED
      BY <2>1, <2>2
  <1>4. CASE PostPump(t)
    <2> DEFINE last == Len(tasks) + 1
    <2>1. /\ s.op = "postPump" /\ s.gen \in Nat /\ s.gen <= generation
          /\ tasks' = Append(tasks, PumpStep("pump", s.gen)) /\ Goto(t, <<>>)
          /\ UNCHANGED <<generation, pumpFlag, timers>>
      BY <1>0, <1>4, StepFields DEF PostPump, At, PumpOps, PumpInv, Generations
    <2>2. /\ \A i \in DOMAIN tasks' : i = last \/ (i \in DOMAIN tasks /\ tasks'[i] = tasks[i])
          /\ tasks'[last] = PumpStep("pump", s.gen)
      <3>1. PumpStep("pump", s.gen) \in Step
        BY <2>1, StepIntro DEF PumpOps
      <3>2. QED
        BY <2>1, <3>1, AppendPlaces DEF TypeOK
    <2>3. /\ \A u \in Threads \ {t} : todo'[u] = todo[u]
          /\ \A i \in DOMAIN todo'[t] :
              i \in Nat /\ i + 1 \in DOMAIN todo[t] /\ i + 1 # 1 /\ todo'[t][i] = todo[t][i + 1]
      BY <1>0, <2>1, DropPlaces DEF TypeOK
    <2>4. QueuesCarry' /\ LoadersOnlySchedule'
      BY <2>1, <2>2, <2>3 DEF PumpInv, QueuesCarry, LoadersOnlySchedule, Threads, PumpStep
    <2>5. NoResetInDrain'
      BY <2>3 DEF PumpInv, NoResetInDrain, Threads
    <2>a. /\ \A i \in DOMAIN tasks' :
                LiveAt(tasks'[i], generation) => IF i = last THEN Live(s) ELSE Live(tasks[i])
          /\ \A u \in Threads : \A i \in DOMAIN todo'[u] :
                LiveAt(todo'[u][i], generation) => Live(todo[u][IF u = t THEN i + 1 ELSE i])
      BY <2>1, <2>2, <2>3 DEF Live, LiveAt, PumpStep, PumpOps
    <2>6. Generations'
      BY <2>1, <2>2, <2>3 DEF PumpInv, Generations, PumpStep
    <2>7. FlagSet'
      <3>1. Live(s) => pumpFlag
        BY <1>0 DEF PumpInv, FlagSet
      <3>2. \A i \in DOMAIN tasks' : LiveAt(tasks'[i], generation) => pumpFlag
        BY <2>2, <2>a, <3>1 DEF PumpInv, FlagSet
      <3>3. \A u \in Threads : \A i \in DOMAIN todo'[u] :
              LiveAt(todo'[u][i], generation) => pumpFlag
        BY <2>3, <2>a DEF PumpInv, FlagSet
      <3>4. QED
        BY <2>1, <3>2, <3>3 DEF FlagSet, Live, LiveAt
    <2>8. \A i, j \in DOMAIN tasks' :
              LiveAt(tasks'[i], generation) /\ LiveAt(tasks'[j], generation) => i = j
      BY <1>0, <2>2, <2>a DEF PumpInv, SinglePump
    <2>9. \A u, v \in Threads : \A i \in DOMAIN todo'[u], j \in DOMAIN todo'[v] :
              LiveAt(todo'[u][i], generation) /\ LiveAt(todo'[v][j], generation) => u = v /\ i = j
      BY <2>3, <2>a DEF PumpInv, SinglePump
    <2>10. \A i \in DOMAIN tasks', u \in Threads : \A j \in DOMAIN todo'[u] :
              ~(LiveAt(tasks'[i], generation) /\ LiveAt(todo'[u][j], generation))
      BY <1>0, <2>2, <2>3, <2>a DEF PumpInv, SinglePump
    <2>11. SinglePump'
      BY <2>1, <2>8, <2>9, <2>10 DEF SinglePump, Live, LiveAt
    <2>12. QED
      BY <2>4, <2>5, <2>6, <2>7, <2>11 DEF PumpInv
  <1>5. QED
    BY <1>1, <1>2, <1>3, <1>4

\* A thread that leaves a live pump behind is the only one that had it.
LEMMA OnlyThisPump ==
    ASSUME TypeOK, PumpInv, NEW t \in Threads, todo[t] # <<>>, Live(Head(todo[t])),
           Goto(t, <<>>), UNCHANGED <<generation, tasks, timers>>
    PROVE  PumpInv'
  <1>1. /\ \A u \in Threads \ {t} : todo'[u] = todo[u]
        /\ \A i \in DOMAIN todo'[t] :
             i \in Nat /\ i + 1 \in DOMAIN todo[t] /\ i + 1 # 1 /\ todo'[t][i] = todo[t][i + 1]
    BY DropPlaces DEF TypeOK
  <1>2. 1 \in DOMAIN todo[t] /\ Live(todo[t][1])
    BY DEF TypeOK
  <1>3. /\ \A i \in DOMAIN tasks : ~Live(tasks[i])
        /\ \A u \in Threads : \A i \in DOMAIN todo[u] : Live(todo[u][i]) => u = t /\ i = 1
    BY <1>2 DEF PumpInv, SinglePump
  <1>4. /\ \A i \in DOMAIN tasks' : ~LiveAt(tasks'[i], generation)
        /\ \A u \in Threads : \A i \in DOMAIN todo'[u] : ~LiveAt(todo'[u][i], generation)
    BY <1>1, <1>3 DEF Live, LiveAt
  <1>5. QueuesCarry' /\ LoadersOnlySchedule'
    BY <1>1 DEF PumpInv, QueuesCarry, LoadersOnlySchedule, Threads
  <1>6. NoResetInDrain'
    BY <1>1 DEF PumpInv, NoResetInDrain, Threads
  <1>7. Generations'
    BY <1>1 DEF PumpInv, Generations
  <1>8. FlagSet' /\ SinglePump'
    BY <1>4 DEF FlagSet, SinglePump, Live, LiveAt
  <1>9. QED
    BY <1>5, <1>6, <1>7, <1>8 DEF PumpInv

\* The rounds of the pump.  The drain clears the flag only for its own pump.
LEMMA DrainPump ==
    ASSUME TypeOK, PumpInv, NEW t \in Threads,
           Pump(t) \/ Take(t) \/ Apply(t) \/ Nested(t) \/ Repost(t)
    PROVE  PumpInv'
  <1> DEFINE s == Head(todo[t])
  <1>0. /\ todo[t] # <<>> /\ s \in Step /\ s = todo[t][1] /\ 1 \in DOMAIN todo[t]
        /\ \A timer \in timers : timer.op \in {"release", "refresh"}
        /\ s.op \in DrainOps \cup {"apply", "nested"}
    BY HeadType DEF TypeOK, Pump, Take, Apply, Nested, Repost, At, PumpInv, QueuesCarry
  <1>a. t \notin Loaders
    BY <1>0 DEF PumpInv, LoadersOnlySchedule
  <1>b. s.op \in {"take", "repost"} => s.gen = generation /\ Live(s)
    BY <1>0 DEF PumpInv, Generations, Live, PumpOps
  <1>1. CASE Pump(t)
    <2> DEFINE new == IF s.gen # generation \/ suspended THEN <<>> ELSE <<PumpStep("take", s.gen)>>
    <2>1. s.op = "pump" /\ s.gen \in Nat
      BY <1>0, <1>1, StepFields DEF Pump, At, PumpOps
    <2>2. new \in Seq(Step) /\ Goto(t, new)
      BY <1>1, <2>1, StepIntro, StepLists DEF Pump, PumpOps
    <2>3. \A i \in DOMAIN new : /\ i = Len(new) /\ new[i].op = "take"
                                /\ new[i].gen = s.gen /\ s.gen = generation
      BY Places DEF PumpStep
    <2> HIDE DEF new
    <2>4. QED
      BY <1>0, <1>1, <1>a, <2>1, <2>2, <2>3, PassOn DEF Pump, PumpOps
  <1>2. CASE Take(t)
    <2>1. s.op = "take" /\ s.gen \in Nat
      BY <1>0, <1>2, StepFields DEF Take, At, PumpOps
    <2>2. CASE Goto(t, <<>>)
      BY <1>0, <1>2, <1>b, <2>1, <2>2, OnlyThisPump DEF Take
    <2>3. ASSUME NEW a \in Actors, NEW next \in {"take", "repost"}, IsFirst(a, scheduled),
                 Goto(t, <<ActorStep("apply", a, scheduled[a]), PumpStep(next, s.gen)>>),
                 scheduled' = Without(scheduled, {a}), UNCHANGED pumpFlag
          PROVE  PumpInv'
      <3> DEFINE new == <<ActorStep("apply", a, scheduled[a]), PumpStep(next, s.gen)>>
      <3>1. scheduled[a] \in SUBSET Kinds
        BY <2>3, MapOfElim DEF TypeOK, IsFirst
      <3>2. new \in Seq(Step) /\ Goto(t, new)
        BY <2>1, <2>3, <3>1, StepIntro, StepLists DEF PumpOps
      <3>3. \A i \in DOMAIN new : \/ new[i].op = "apply"
                                  \/ i = Len(new) /\ new[i].op = next /\ new[i].gen = s.gen
        BY Places DEF ActorStep, PumpStep
      <3> HIDE DEF new
      <3>4. QED
        BY <1>0, <1>2, <1>a, <1>b, <2>1, <2>3, <3>2, <3>3, PassOn DEF Take, PumpOps
    <2>4. QED
      BY <1>2, <2>2, <2>3 DEF Take
  <1>3. CASE Apply(t)
    <2> DEFINE menu == Append(MenuSteps(s.actor, menuEntry), ActorStep("nested", s.actor, {Inventory}))
    <2>1. s.actor \in Actors
      BY <1>0, <1>3, StepFields DEF Apply, At
    <2>2. ActorStep("nested", s.actor, {Inventory}) \in Step
      BY <2>1, StepIntro, ActorAssumption
    <2>3. menu \in Seq(Step)
      BY <2>1, <2>2, MenuStepsType DEF TypeOK
    <2>4. \A i \in DOMAIN menu : menu[i].op \in {"begin", "moveScheduled", "schedule", "nested"}
      BY <2>1, <2>2, MenuStepsPlaces DEF TypeOK, ActorStep
    <2> HIDE DEF menu
    <2>5. PICK new \in {<<>>, menu} : Goto(t, new)
      BY <1>3 DEF Apply, menu
    <2>6. new \in Seq(Step)
      BY <2>3, StepLists
    <2>7. \A i \in DOMAIN new : new[i].op \in {"begin", "moveScheduled", "schedule", "nested"}
      BY <2>4, Places
    <2>8. QED
      BY <1>0, <1>3, <1>a, <2>5, <2>6, <2>7, PassOn DEF Apply, PumpOps
  <1>4. CASE Nested(t)
    BY <1>0, <1>4, <1>a, StepLists, Places, PassOn DEF Nested
  <1>5. CASE Repost(t)
    <2>1. s.op = "repost" /\ s.gen \in Nat
      BY <1>0, <1>5, StepFields DEF Repost, At, PumpOps
    <2>2. CASE DOMAIN scheduled = {}
      BY <1>0, <1>5, <1>b, <2>1, <2>2, OnlyThisPump DEF Repost
    <2>3. CASE DOMAIN scheduled # {}
      <3> DEFINE new == <<PumpStep("postPump", s.gen)>>
      <3>1. new \in Seq(Step) /\ Goto(t, new) /\ pumpFlag' = pumpFlag
        BY <1>5, <2>1, <2>3, StepIntro, StepLists DEF Repost, TypeOK, PumpOps
      <3>2. \A i \in DOMAIN new : i = Len(new) /\ new[i].op = "postPump" /\ new[i].gen = s.gen
        BY Places DEF PumpStep
      <3> HIDE DEF new
      <3>3. QED
        BY <1>0, <1>5, <1>a, <2>1, <3>1, <3>2, PassOn DEF Repost, PumpOps
    <2>4. QED
      BY <2>2, <2>3
  <1>6. QED
    BY <1>1, <1>2, <1>3, <1>4, <1>5

\* A step that goes on with nothing.
LEMMA DropStep ==
    ASSUME TypeOK, PumpInv, NEW t \in Threads, todo[t] # <<>>, Goto(t, <<>>),
           UNCHANGED <<generation, tasks, pumpFlag>>,
           \A timer \in timers' : timer.op \in {"release", "refresh"}
    PROVE  PumpInv'
  BY StepLists, Places, PassOn

\* A step of the main thread that goes on with one step, neither pump nor reset.
LEMMA GoOnWith ==
    ASSUME TypeOK, PumpInv, NEW t \in Threads, todo[t] # <<>>, t \notin Loaders,
           NEW step \in Step, step.op \notin PumpOps \cup DrainOps \cup ResetOps,
           Goto(t, <<step>>), UNCHANGED <<generation, tasks, pumpFlag>>,
           \A timer \in timers' : timer.op \in {"release", "refresh"}
    PROVE  PumpInv'
  <1> DEFINE new == <<step>>
  <1>1. new \in Seq(Step) /\ Goto(t, new) /\ \A i \in DOMAIN new : new[i] = step
    BY StepLists, Places
  <1> HIDE DEF new
  <1>2. QED
    BY <1>1, PassOn DEF PumpOps

\* The inventory interaction and the loops over the actors touch no pump.
LEMMA InteractionPump ==
    ASSUME TypeOK, PumpInv, NEW t \in Threads,
           \/ BeginInventoryInteraction(t) \/ MoveScheduled(t)
           \/ EndInventoryInteraction(t) \/ Release(t) \/ Each(t)
    PROVE  PumpInv'
  <1> DEFINE s == Head(todo[t])
  <1>0. /\ todo[t] # <<>> /\ s \in Step /\ s = todo[t][1] /\ 1 \in DOMAIN todo[t]
        /\ \A timer \in timers : timer.op \in {"release", "refresh"}
        /\ s.op \in {"begin", "moveScheduled", "end", "release", "each"}
    BY HeadType DEF TypeOK, BeginInventoryInteraction, MoveScheduled, EndInventoryInteraction,
                    Release, Each, At, PumpInv, QueuesCarry
  <1>a. t \notin Loaders
    BY <1>0 DEF PumpInv, LoadersOnlySchedule
  <1>1. CASE BeginInventoryInteraction(t) \/ MoveScheduled(t)
    BY <1>0, <1>1, DropStep DEF BeginInventoryInteraction, MoveScheduled
  <1>2. CASE EndInventoryInteraction(t)
    <2>1. \A timer \in timers' : timer.op \in {"release", "refresh"}
      BY <1>0, <1>2 DEF EndInventoryInteraction
    <2>2. QED
      BY <1>0, <1>2, <2>1, DropStep DEF EndInventoryInteraction
  <1>3. CASE Release(t)
    <2> DEFINE D == DOMAIN interaction.pending \cap interaction.actors
               loop == EachStep([a \in D |-> interaction.pending[a]])
    <2>1. interaction.pending \in MapOf(Actors, SUBSET Kinds) /\ interaction.actors \in SUBSET Actors
      BY DEF TypeOK
    <2>2. D \in SUBSET Actors /\ [a \in D |-> interaction.pending[a]] \in [D -> SUBSET Kinds]
      BY <2>1, MapOfElim
    <2>3. loop \in Step /\ loop.op = "each"
      BY <2>2, MapOfIntro, StepIntro DEF EachStep
    <2> HIDE DEF loop
    <2>4. Goto(t, <<>>) \/ Goto(t, <<loop>>)
      BY <1>3 DEF Release, loop
    <2>5. CASE Goto(t, <<loop>>)
      BY <1>0, <1>3, <1>a, <2>3, <2>5, GoOnWith DEF Release, PumpOps
    <2>6. CASE Goto(t, <<>>)
      BY <1>0, <1>3, <2>6, DropStep DEF Release
    <2>7. QED
      BY <2>4, <2>5, <2>6
  <1>4. CASE Each(t)
    <2>1. s.deltas \in MapOf(Actors, SUBSET Kinds)
      BY <1>0, <1>4, StepFields DEF Each, At
    <2>2. CASE Goto(t, <<>>)
      BY <1>0, <1>4, <2>2, DropStep DEF Each
    <2>3. ASSUME NEW a \in Actors, IsFirst(a, s.deltas),
                 Goto(t, IF a \in dead THEN <<EachStep(Without(s.deltas, {a}))>>
                         ELSE <<ActorStep("schedule", a, s.deltas[a]),
                                EachStep(Without(s.deltas, {a}))>>)
          PROVE  PumpInv'
      <3> DEFINE rest == EachStep(Without(s.deltas, {a}))
                 call == ActorStep("schedule", a, s.deltas[a])
      <3>1. s.deltas[a] \in SUBSET Kinds
        BY <2>1, <2>3, MapOfElim DEF IsFirst
      <3>2. rest \in Step /\ rest.op = "each" /\ call \in Step /\ call.op = "schedule"
        BY <2>1, <3>1, WithoutType, StepIntro DEF EachStep, ActorStep
      <3> HIDE DEF rest, call
      <3>3. Goto(t, <<rest>>) \/ Goto(t, <<call, rest>>)
        BY <2>3 DEF rest, call
      <3>4. CASE Goto(t, <<rest>>)
        BY <1>0, <1>4, <1>a, <3>2, <3>4, GoOnWith DEF Each, PumpOps
      <3>5. CASE Goto(t, <<call, rest>>)
        <4> DEFINE new == <<call, rest>>
        <4>1. new \in Seq(Step) /\ \A i \in DOMAIN new : new[i].op \in {"each", "schedule"}
          BY <3>2, StepLists, Places
        <4>2. Goto(t, new)
          BY <3>5
        <4> HIDE DEF new
        <4>3. QED
          BY <1>0, <1>4, <1>a, <4>1, <4>2, PassOn DEF Each, PumpOps
      <3>6. QED
        BY <3>3, <3>4, <3>5
    <2>4. QED
      BY <1>4, <2>2, <2>3 DEF Each
  <1>5. QED
    BY <1>1, <1>2, <1>3, <1>4

\* A reset disowns every pump at once: none is of the new generation.
LEMMA TransitionPump ==
    ASSUME TypeOK, PumpInv, NEW t \in Threads,
           \/ ForgetScheduled(t) \/ ForgetInteraction(t)
           \/ ResetScheduled(t) \/ ResetInteraction(t)
           \/ SuspendRuleEvaluationForLoad(t) \/ SetContext(t)
           \/ ResumeRuleEvaluationAfterLoad(t) \/ Refresh(t)
    PROVE  PumpInv'
  <1> DEFINE s == Head(todo[t])
  <1>0. /\ todo[t] # <<>> /\ s \in Step /\ s = todo[t][1] /\ 1 \in DOMAIN todo[t]
        /\ \A timer \in timers : timer.op \in {"release", "refresh"}
        /\ s.op \in {"forgetScheduled", "forgetInteraction", "resetScheduled", "resetInteraction",
                     "suspend", "validate", "invalidate", "resume", "refresh"}
    BY HeadType DEF TypeOK, ForgetScheduled, ForgetInteraction, ResetScheduled, ResetInteraction,
                    SuspendRuleEvaluationForLoad, SetContext, ResumeRuleEvaluationAfterLoad,
                    Refresh, At, PumpInv, QueuesCarry
  <1>a. t = Main /\ t \notin Loaders
    BY <1>0 DEF PumpInv, LoadersOnlySchedule, Threads
  <1>b. s.op \in ResetOps => \A i \in DOMAIN todo[t] : todo[t][i].op \notin DrainOps
    BY <1>0, <1>a DEF PumpInv, NoResetInDrain
  <1>1. CASE ForgetScheduled(t) \/ ForgetInteraction(t) \/ ResetInteraction(t) \/ SetContext(t)
    BY <1>0, <1>1, DropStep DEF ForgetScheduled, ForgetInteraction, ResetInteraction, SetContext
  <1>2. CASE ResumeRuleEvaluationAfterLoad(t)
    <2>1. \A timer \in timers' : timer.op \in {"release", "refresh"}
      BY <1>0, <1>2 DEF ResumeRuleEvaluationAfterLoad, PumpStep
    <2>2. QED
      BY <1>0, <1>2, <2>1, DropStep DEF ResumeRuleEvaluationAfterLoad
  <1>3. CASE Refresh(t)
    <2> DEFINE loop == EachStep([a \in Actors |-> Full])
    <2>1. loop \in Step /\ loop.op = "each"
      <3>1. Full \in SUBSET Kinds /\ Actors \in SUBSET Actors
        BY DEF Full
      <3>2. QED
        BY <3>1, EachStepType DEF EachStep
    <2> HIDE DEF loop
    <2>2. Goto(t, <<>>) \/ Goto(t, <<loop>>)
      BY <1>3 DEF Refresh, loop
    <2>3. CASE Goto(t, <<loop>>)
      BY <1>0, <1>3, <1>a, <2>1, <2>3, GoOnWith DEF Refresh, PumpOps
    <2>4. CASE Goto(t, <<>>)
      BY <1>0, <1>3, <2>4, DropStep DEF Refresh
    <2>5. QED
      BY <2>2, <2>3, <2>4
  <1>4. CASE ResetScheduled(t)
    <2>1. /\ s.op = "resetScheduled" /\ Goto(t, <<>>) /\ generation' = generation + 1
          /\ UNCHANGED <<tasks, timers>>
      BY <1>4 DEF ResetScheduled, At
    <2>2. /\ \A u \in Threads \ {t} : todo'[u] = todo[u]
          /\ \A i \in DOMAIN todo'[t] :
               i \in Nat /\ i + 1 \in DOMAIN todo[t] /\ i + 1 # 1 /\ todo'[t][i] = todo[t][i + 1]
      BY <1>0, <2>1, DropPlaces DEF TypeOK
    <2>3. \A u \in Threads : \A i \in DOMAIN todo'[u] :
             todo'[u][i].op \notin {"take", "repost"}
      BY <1>a, <1>b, <2>1, <2>2 DEF PumpInv, LoadersOnlySchedule, Threads
    <2>4. /\ \A i \in DOMAIN tasks' : tasks'[i].op \in PumpOps =>
                tasks'[i].gen <= generation' /\ tasks'[i].gen # generation'
          /\ \A u \in Threads : \A i \in DOMAIN todo'[u] : todo'[u][i].op \in PumpOps =>
                todo'[u][i].gen <= generation' /\ todo'[u][i].gen # generation'
      <3>1. /\ generation \in Nat
            /\ \A i \in DOMAIN tasks : tasks[i] \in Step
            /\ \A u \in Threads : \A i \in DOMAIN todo[u] : todo[u][i] \in Step
        BY DEF TypeOK
      <3>2. \A p \in Step : p.op \in PumpOps /\ p.gen <= generation =>
                p.gen <= generation + 1 /\ p.gen # generation + 1
        BY <3>1, StepFields
      <3>3. QED
        BY <2>1, <2>2, <3>1, <3>2 DEF PumpInv, Generations
    <2>5. QueuesCarry' /\ LoadersOnlySchedule'
      BY <2>1, <2>2 DEF PumpInv, QueuesCarry, LoadersOnlySchedule, Threads
    <2>6. NoResetInDrain'
      BY <1>a, <1>b, <2>1, <2>2 DEF NoResetInDrain
    <2>7. Generations'
      BY <2>3, <2>4 DEF Generations
    <2>8. FlagSet' /\ SinglePump'
      BY <2>4 DEF FlagSet, SinglePump, Live
    <2>9. QED
      BY <2>5, <2>6, <2>7, <2>8 DEF PumpInv
  <1>5. CASE SuspendRuleEvaluationForLoad(t)
    <2>1. s.op = "suspend" /\ Goto(t, ResetSteps) /\ UNCHANGED <<generation, tasks, timers, pumpFlag>>
      BY <1>5 DEF SuspendRuleEvaluationForLoad, At
    <2>2. /\ ResetSteps \in Seq(Step)
          /\ \A i \in DOMAIN ResetSteps : ResetSteps[i].op \in {"resetScheduled", "resetInteraction"}
      BY StepIntro, StepLists, Places DEF ResetSteps, Plain
    <2>3. /\ \A u \in Threads \ {t} : todo'[u] = todo[u]
          /\ \A i \in DOMAIN todo'[t] :
               \/ todo'[t][i].op \in {"resetScheduled", "resetInteraction"}
               \/ i > Len(ResetSteps) /\ i - Len(ResetSteps) + 1 \in DOMAIN todo[t]
                  /\ todo'[t][i] = todo[t][i - Len(ResetSteps) + 1]
      <3>1. Len(ResetSteps) \in Nat
        BY <2>2
      <3>2. QED
        BY <1>0, <2>1, <2>2, <3>1, GotoPlaces DEF TypeOK
    <2>4. \A i \in DOMAIN todo'[t] : todo'[t][i].op \notin DrainOps
      BY <1>b, <2>1, <2>3
    <2>5. QueuesCarry' /\ LoadersOnlySchedule'
      BY <1>a, <2>1, <2>3 DEF PumpInv, QueuesCarry, LoadersOnlySchedule, Threads
    <2>6. NoResetInDrain'
      BY <1>a, <2>4 DEF NoResetInDrain
    <2> DEFINE At2(i) == i - Len(ResetSteps) + 1
    <2>7. \A u \in Threads : \A i \in DOMAIN todo'[u] : todo'[u][i].op \in PumpOps =>
             \E k \in DOMAIN todo[u] : todo'[u][i] = todo[u][k] /\ (IF u = t THEN k = At2(i) ELSE k = i)
      BY <2>3 DEF PumpOps
    <2>8. Generations'
      BY <2>1, <2>7 DEF PumpInv, Generations, PumpOps
    <2>9. FlagSet'
      BY <2>1, <2>7 DEF PumpInv, FlagSet, Live
    <2>10. SinglePump'
      <3>1. Len(ResetSteps) \in Nat /\ \A u \in Threads : \A i \in DOMAIN todo'[u] : i \in Nat
        <4>1. todo' \in [Threads -> Seq(Step)]
          BY <1>0, <2>1, <2>2, GotoType DEF TypeOK
        <4>2. QED
          BY <2>2, <4>1
      <3>2. \A i, j \in Nat : At2(i) = At2(j) => i = j
        BY <3>1
      <3> HIDE DEF At2
      <3>3. \A i, j \in DOMAIN tasks' : LiveAt(tasks'[i], generation) /\ LiveAt(tasks'[j], generation) => i = j
        BY <2>1 DEF PumpInv, SinglePump, Live, LiveAt
      <3>4. \A u, v \in Threads : \A i \in DOMAIN todo'[u], j \in DOMAIN todo'[v] :
               LiveAt(todo'[u][i], generation) /\ LiveAt(todo'[v][j], generation) => u = v /\ i = j
        BY <2>7, <3>1, <3>2 DEF PumpInv, SinglePump, Live, LiveAt
      <3>5. \A i \in DOMAIN tasks', u \in Threads : \A j \in DOMAIN todo'[u] :
               ~(LiveAt(tasks'[i], generation) /\ LiveAt(todo'[u][j], generation))
        BY <2>1, <2>7 DEF PumpInv, SinglePump, Live, LiveAt
      <3>6. QED
        BY <2>1, <3>3, <3>4, <3>5 DEF SinglePump, Live, LiveAt
    <2>11. QED
      BY <2>5, <2>6, <2>8, <2>9, <2>10 DEF PumpInv
  <1>6. QED
    BY <1>1, <1>2, <1>3, <1>4, <1>5

----------------------------------------------------------------------------
(* The queues and the events.                                              *)

\* A handler that starts on an idle thread without a pump.
LEMMA StartPump ==
    ASSUME TypeOK, PumpInv, NEW t \in Threads, NEW steps \in Seq(Step), Start(t, steps),
           \A i \in DOMAIN steps :
             /\ steps[i].op \notin PumpOps
             /\ t \in Loaders => steps[i].op \in {"schedule", "defer", "enqueue", "postPump"},
           UNCHANGED <<generation, tasks, pumpFlag, timers>>
    PROVE  PumpInv'
  <1>1. todo'[t] = steps /\ \A u \in Threads \ {t} : todo'[u] = todo[u]
    BY DEF Start, TypeOK
  <1>2. QueuesCarry' /\ LoadersOnlySchedule'
    BY <1>1 DEF PumpInv, QueuesCarry, LoadersOnlySchedule, Threads
  <1>3. NoResetInDrain' /\ Generations'
    BY <1>1 DEF PumpInv, NoResetInDrain, Generations, PumpOps, Threads
  <1>4. FlagSet' /\ SinglePump'
    BY <1>1 DEF PumpInv, FlagSet, SinglePump, Live
  <1>5. QED
    BY <1>2, <1>3, <1>4 DEF PumpInv

\* The main thread takes the next task, which may be the pump.
LEMMA RunTaskPump == ASSUME TypeOK, PumpInv, RunTask PROVE PumpInv'
  <1> DEFINE first == Head(tasks)
  <1>1. /\ tasks # <<>> /\ first = tasks[1] /\ 1 \in DOMAIN tasks /\ first \in Step
        /\ first.op \in {"pump", "release", "refresh"}
        /\ UNCHANGED <<generation, pumpFlag, timers>>
    BY DEF RunTask, TypeOK, PumpInv, QueuesCarry
  <1>2. \A i \in DOMAIN tasks' : i + 1 \in DOMAIN tasks /\ i + 1 # 1 /\ tasks'[i] = tasks[i + 1] /\ i \in Nat
    <2>1. tasks \in Seq(Step) /\ tasks' = Tail(tasks)
      BY DEF RunTask, TypeOK
    <2>2. QED
      BY <1>1, <2>1
  <1>3. /\ todo[Main] = <<>> /\ Main \in Threads /\ todo'[Main] = <<first>>
        /\ \A u \in Threads \ {Main} : todo'[u] = todo[u]
    BY DEF RunTask, Start, Idle, TypeOK, Threads
  <1>4. \A i \in DOMAIN todo'[Main] : i = 1 /\ todo'[Main][i] = first
    BY <1>3, Places
  <1> HIDE DEF first
  <1>5. QueuesCarry' /\ LoadersOnlySchedule'
    BY <1>1, <1>2, <1>3, ThreadAssumption DEF PumpInv, QueuesCarry, LoadersOnlySchedule, Threads
  <1>6. NoResetInDrain'
    BY <1>1, <1>4 DEF NoResetInDrain
  <1>7. Generations'
    BY <1>1, <1>2, <1>3, <1>4 DEF PumpInv, Generations
  <1>8. /\ \A i \in DOMAIN tasks' : LiveAt(tasks'[i], generation) => Live(tasks[i + 1])
        /\ \A u \in Threads : \A i \in DOMAIN todo'[u] : LiveAt(todo'[u][i], generation) =>
              IF u = Main THEN i = 1 /\ Live(tasks[1]) ELSE Live(todo[u][i])
    BY <1>1, <1>2, <1>3, <1>4 DEF Live, LiveAt
  <1>9. FlagSet'
    <2>1. \A i \in DOMAIN tasks' : LiveAt(tasks'[i], generation) => pumpFlag
      BY <1>2, <1>8 DEF PumpInv, FlagSet
    <2>2. \A u \in Threads : \A i \in DOMAIN todo'[u] : LiveAt(todo'[u][i], generation) => pumpFlag
      BY <1>1, <1>3, <1>8 DEF PumpInv, FlagSet
    <2>3. QED
      BY <1>1, <2>1, <2>2 DEF FlagSet, Live, LiveAt
  <1>10. SinglePump'
    <2>1. \A i, j \in DOMAIN tasks' : LiveAt(tasks'[i], generation) /\ LiveAt(tasks'[j], generation) => i = j
      BY <1>2, <1>8 DEF PumpInv, SinglePump
    <2>2. \A u, v \in Threads : \A i \in DOMAIN todo'[u], j \in DOMAIN todo'[v] :
             LiveAt(todo'[u][i], generation) /\ LiveAt(todo'[v][j], generation) => u = v /\ i = j
      BY <1>1, <1>3, <1>8 DEF PumpInv, SinglePump
    <2>3. \A i \in DOMAIN tasks', u \in Threads : \A j \in DOMAIN todo'[u] :
             ~(LiveAt(tasks'[i], generation) /\ LiveAt(todo'[u][j], generation))
      BY <1>1, <1>2, <1>3, <1>8 DEF PumpInv, SinglePump
    <2>4. QED
      BY <1>1, <2>1, <2>2, <2>3 DEF SinglePump, Live, LiveAt
  <1>11. QED
    BY <1>5, <1>6, <1>7, <1>9, <1>10 DEF PumpInv

\* The dispatcher adds a task that is no pump.
LEMMA FireTimerPump ==
    ASSUME TypeOK, PumpInv, NEW timer \in timers, FireTimer(timer) PROVE PumpInv'
  <1>1. /\ timer \in Step /\ timer.op \in {"release", "refresh"}
        /\ tasks' = Append(tasks, timer) /\ timers' = timers \ {timer}
        /\ UNCHANGED <<generation, pumpFlag, todo>>
    BY DEF FireTimer, TypeOK, PumpInv, QueuesCarry
  <1>2. \A i \in DOMAIN tasks' : tasks'[i] = timer \/ (i \in DOMAIN tasks /\ tasks'[i] = tasks[i])
    BY <1>1, AppendPlaces DEF TypeOK
  <1>3. QueuesCarry' /\ LoadersOnlySchedule' /\ NoResetInDrain'
    BY <1>1, <1>2 DEF PumpInv, QueuesCarry, LoadersOnlySchedule, NoResetInDrain
  <1>4. \A i \in DOMAIN tasks' : tasks'[i].op \in PumpOps => i \in DOMAIN tasks /\ tasks'[i] = tasks[i]
    BY <1>1, <1>2 DEF PumpOps
  <1>5. Generations' /\ FlagSet'
    BY <1>1, <1>4 DEF PumpInv, Generations, FlagSet, Live
  <1>6. SinglePump'
    BY <1>1, <1>4 DEF PumpInv, SinglePump, Live
  <1>7. QED
    BY <1>3, <1>5, <1>6 DEF PumpInv

\* Lists of steps that are no pumps.
QuietSteps == {s \in Step : s.op \notin PumpOps}

LEMMA QuietLists ==
    /\ \A s \in QuietSteps : <<s>> \in Seq(QuietSteps)
    /\ \A s1, s2 \in QuietSteps : <<s1, s2>> \in Seq(QuietSteps)
    /\ \A q1, q2 \in Seq(QuietSteps) : q1 \o q2 \in Seq(QuietSteps)
    /\ \A q \in Seq(QuietSteps) : \A s \in QuietSteps : Append(q, s) \in Seq(QuietSteps)
  OBVIOUS

LEMMA QuietIntro ==
    /\ \A op \in {"schedule", "apply", "nested"}, a \in Actors, d \in SUBSET Kinds :
         ActorStep(op, a, d) \in QuietSteps
    /\ \A op \in {"begin", "moveScheduled"}, S \in SUBSET Actors :
         [op |-> op, actors |-> S] \in QuietSteps
    /\ \A op \in {"forgetScheduled", "forgetInteraction"}, a \in Actors :
         [op |-> op, actor |-> a] \in QuietSteps
    /\ \A D \in SUBSET Actors, d \in SUBSET Kinds : EachStep([a \in D |-> d]) \in QuietSteps
    /\ \A op \in {"end", "suspend", "resetScheduled", "resetInteraction",
                  "validate", "invalidate", "resume"} : Plain(op) \in QuietSteps
  <1>1. /\ \A op, a, d : ActorStep(op, a, d).op = op
        /\ \A op, S : [op |-> op, actors |-> S].op = op
        /\ \A op, a : [op |-> op, actor |-> a].op = op
        /\ \A m : EachStep(m).op = "each"
        /\ \A op : Plain(op).op = op
    BY DEF ActorStep, EachStep, Plain
  <1>2. \A D \in SUBSET Actors, d \in SUBSET Kinds : EachStep([a \in D |-> d]) \in Step
    BY EachStepType
  <1>3. QED
    BY <1>1, <1>2, StepIntro DEF QuietSteps, PumpOps

\* The main thread starts a handler that holds no pump.
LEMMA MainStartPump ==
    ASSUME TypeOK, PumpInv, NEW steps \in Seq(QuietSteps), Start(Main, steps),
           UNCHANGED <<generation, tasks, pumpFlag, timers>>
    PROVE  PumpInv'
  <1>1. steps \in Seq(Step) /\ \A i \in DOMAIN steps : steps[i].op \notin PumpOps
    BY DEF QuietSteps
  <1>2. Main \in Threads /\ Main \notin Loaders
    BY ThreadAssumption DEF Threads
  <1>3. QED
    BY <1>1, <1>2, StartPump

\* No event starts a pump.
LEMMA EnginePump == ASSUME TypeOK, PumpInv, EngineEvent PROVE PumpInv'
  <1>0. Player \in Actors /\ {Inventory} \in SUBSET Kinds /\ Full \in SUBSET Kinds
    BY ActorAssumption DEF Full
  <1>1. CASE ReportChange
    <2>1. PICK a \in Actors, d \in {{k} : k \in Kinds} \cup {Full} :
            Start(Main, <<ActorStep("schedule", a, d)>>)
      BY <1>1 DEF ReportChange
    <2>2. d \in SUBSET Kinds
      BY <1>0
    <2>3. <<ActorStep("schedule", a, d)>> \in Seq(QuietSteps)
      BY <2>2, QuietIntro, QuietLists
    <2>4. QED
      BY <1>1, <2>1, <2>3, MainStartPump DEF ReportChange
  <1>2. CASE ReportAll
    <2>1. PICK d \in {{k} : k \in Kinds} \cup {Full} : Start(Main, <<EachStep([a \in Actors |-> d])>>)
      BY <1>2 DEF ReportAll
    <2>2. d \in SUBSET Kinds /\ Actors \in SUBSET Actors
      BY <1>0
    <2>3. <<EachStep([a \in Actors |-> d])>> \in Seq(QuietSteps)
      BY <2>2, QuietIntro, QuietLists
    <2>4. QED
      BY <1>2, <2>1, <2>3, MainStartPump DEF ReportAll
  <1>3. CASE LevelUp
    <2>1. ASSUME NEW k \in Kinds
          PROVE  /\ <<EachStep([a \in Actors \ {Player} |-> {k}])>> \in Seq(QuietSteps)
                 /\ <<ActorStep("apply", Player, {k})>> \in Seq(QuietSteps)
      <3>1. {k} \in SUBSET Kinds /\ Actors \ {Player} \in SUBSET Actors
        OBVIOUS
      <3>2. EachStep([a \in Actors \ {Player} |-> {k}]) \in QuietSteps
        BY <3>1, QuietIntro
      <3>3. QED
        BY <1>0, <3>1, <3>2, QuietIntro, QuietLists
    <2>2. PICK steps \in Seq(QuietSteps) : Start(Main, steps)
      BY <1>3, <2>1, QuietLists DEF LevelUp
    <2>3. QED
      BY <1>3, <2>2, MainStartPump DEF LevelUp
  <1>4. CASE ContainerChanged
    <2>1. \A a \in Actors : TransferSteps(a) \in Seq(QuietSteps)
      <3> SUFFICES ASSUME NEW a \in Actors PROVE TransferSteps(a) \in Seq(QuietSteps)
        OBVIOUS
      <3>1. {a, Player} \in SUBSET Actors /\ ActorStep("schedule", a, {Inventory}) \in QuietSteps
        BY <1>0, QuietIntro
      <3>2. <<>> \in Seq(QuietSteps)
        OBVIOUS
      <3>3. MenuSteps(a, menuEntry) \in Seq(QuietSteps)
        BY <3>1, <3>2, QuietIntro, QuietLists DEF MenuSteps
      <3>4. QED
        BY <3>1, <3>3, QuietLists DEF TransferSteps
    <2>2. PICK steps \in Seq(QuietSteps) : Start(Main, steps)
      BY <1>4, <2>1, QuietLists DEF ContainerChanged
    <2>3. QED
      BY <1>4, <2>2, MainStartPump DEF ContainerChanged
  <1>5. ASSUME NEW t \in Loaders, BackgroundClone(t)
        PROVE  PumpInv'
    <2>1. PICK a \in Actors \ (dead \cup {Player}) : Start(t, <<ActorStep("schedule", a, Full)>>)
      BY <1>5 DEF BackgroundClone
    <2> DEFINE s == ActorStep("schedule", a, Full)
    <2>2. s \in Step /\ s.op = "schedule"
      BY <1>0, StepIntro DEF ActorStep
    <2> HIDE DEF s
    <2>3. <<s>> \in Seq(Step) /\ \A i \in DOMAIN <<s>> : <<s>>[i] = s
      BY <2>2, StepLists, Places
    <2>4. t \in Threads /\ Start(t, <<s>>)
      BY <2>1 DEF Threads, s
    <2>5. QED
      BY <1>5, <2>2, <2>3, <2>4, StartPump DEF BackgroundClone, PumpOps
  <1>6. CASE Unload
    <2>1. PICK a \in Actors \ {Player} :
            Start(Main, <<[op |-> "forgetScheduled", actor |-> a],
                          [op |-> "forgetInteraction", actor |-> a]>>)
      BY <1>6 DEF Unload
    <2>2. <<[op |-> "forgetScheduled", actor |-> a],
            [op |-> "forgetInteraction", actor |-> a]>> \in Seq(QuietSteps)
      BY QuietIntro, QuietLists
    <2>3. QED
      BY <1>6, <2>1, <2>2, MainStartPump DEF Unload
  <1>7. CASE OpenMenu
    <2>1. PICK target \in SUBSET Actors :
            Start(Main, <<[op |-> "begin", actors |-> target \cup {Player}],
                          [op |-> "moveScheduled", actors |-> target \cup {Player}]>>)
      BY <1>7 DEF OpenMenu
    <2>2. target \cup {Player} \in SUBSET Actors
      BY <1>0
    <2>3. <<[op |-> "begin", actors |-> target \cup {Player}],
            [op |-> "moveScheduled", actors |-> target \cup {Player}]>> \in Seq(QuietSteps)
      BY <2>2, QuietIntro, QuietLists
    <2>4. QED
      BY <1>7, <2>1, <2>3, MainStartPump DEF OpenMenu
  <1>8. CASE CloseMenu
    <2>1. <<Plain("end")>> \in Seq(QuietSteps)
      BY QuietIntro, QuietLists
    <2>2. QED
      BY <1>8, <2>1, MainStartPump DEF CloseMenu
  <1>9. CASE DropMenuEntry \/ Kill
    BY <1>9 DEF DropMenuEntry, Kill, PumpInv, QueuesCarry, LoadersOnlySchedule, NoResetInDrain,
                Generations, FlagSet, SinglePump, Live
  <1>a. ResetSteps \in Seq(QuietSteps)
    BY QuietIntro, QuietLists DEF ResetSteps
  <1>10. CASE PreLoadGame
    <2>1. PICK outcome \in {"noName", "validate", "invalidate"} :
            Start(Main, <<Plain("suspend")>>
                        \o (IF outcome = "noName" THEN <<>>
                            ELSE ResetSteps \o <<Plain(outcome)>>))
      BY <1>10 DEF PreLoadGame
    <2>2. outcome # "noName" => <<Plain(outcome)>> \in Seq(QuietSteps)
      BY QuietIntro, QuietLists
    <2>3. outcome # "noName" => ResetSteps \o <<Plain(outcome)>> \in Seq(QuietSteps)
      BY <1>a, <2>2, QuietLists
    <2>4. <<Plain("suspend")>> \in Seq(QuietSteps) /\ <<>> \in Seq(QuietSteps)
      BY QuietIntro, QuietLists
    <2>5. <<Plain("suspend")>> \o (IF outcome = "noName" THEN <<>>
                                   ELSE ResetSteps \o <<Plain(outcome)>>) \in Seq(QuietSteps)
      BY <2>3, <2>4, QuietLists
    <2>6. QED
      BY <1>10, <2>1, <2>5, MainStartPump DEF PreLoadGame
  <1>11. CASE PostLoadGame
    <2>1. <<Plain("resume")>> \in Seq(QuietSteps)
      BY QuietIntro, QuietLists
    <2>2. QED
      BY <1>11, <2>1, MainStartPump DEF PostLoadGame
  <1>12. CASE NewGame
    <2>1. <<Plain("validate"), Plain("resume")>> \in Seq(QuietSteps)
      BY QuietIntro, QuietLists
    <2>2. ResetSteps \o <<Plain("validate"), Plain("resume")>> \in Seq(QuietSteps)
      BY <1>a, <2>1, QuietLists
    <2>3. QED
      BY <1>12, <2>2, MainStartPump DEF NewGame
  <1>13. QED
    BY <1>1, <1>2, <1>3, <1>4, <1>5, <1>6, <1>7, <1>8, <1>9, <1>10, <1>11, <1>12 DEF EngineEvent

----------------------------------------------------------------------------
LEMMA InitPump == Init => PumpInv
  <1> SUFFICES ASSUME Init PROVE PumpInv
    OBVIOUS
  <1>1. /\ \A i \in DOMAIN tasks : FALSE
        /\ \A t \in Threads : \A i \in DOMAIN todo[t] : FALSE
        /\ timers = {}
    BY Places DEF Init
  <1>2. QED
    BY <1>1 DEF PumpInv, QueuesCarry, LoadersOnlySchedule, NoResetInDrain, Generations,
                FlagSet, SinglePump, Threads

LEMMA NextPump == TypeOK /\ PumpInv /\ [Next]_vars => PumpInv'
  <1> SUFFICES ASSUME TypeOK, PumpInv, [Next]_vars PROVE PumpInv'
    OBVIOUS
  <1>1. CASE \E t \in Threads : StepOf(t)
    BY <1>1, SchedulePump, DrainPump, InteractionPump, TransitionPump DEF StepOf
  <1>2. CASE RunTask \/ (\E timer \in timers : FireTimer(timer)) \/ EngineEvent
    BY <1>2, RunTaskPump, FireTimerPump, EnginePump
  <1>3. CASE UNCHANGED vars
    BY <1>3 DEF PumpInv, QueuesCarry, LoadersOnlySchedule, NoResetInDrain, Generations,
                FlagSet, SinglePump, Live
  <1>4. QED
    BY <1>1, <1>2, <1>3 DEF Next

\* However many threads report changes and whenever the state is reset, at
\* most one pump of the current generation exists: two pumps never drain the
\* map of scheduled evaluations side by side.
THEOREM PumpIsUnique == Spec => []SinglePump
  <1>1. PumpInv => SinglePump
    BY DEF PumpInv
  <1>2. QED
    BY TypeCorrect, InitPump, NextPump, <1>1, PTL DEF Spec

=============================================================================
