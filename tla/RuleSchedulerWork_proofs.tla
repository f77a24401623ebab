---------------------- MODULE RuleSchedulerWork_proofs ----------------------
(***************************************************************************)
(* What becomes of the reported changes, for every set of actors, kinds of *)
(* change and loading threads: none is dropped between its report and its  *)
(* evaluation, no evaluation runs in the middle of a menu transaction, and *)
(* neither the map nor the batch of an interaction waits for nothing.      *)
(* The first two rest on the order of the main thread's steps: the step    *)
(* that opens an interaction is followed by the one that moves the queued  *)
(* evaluations of its actors into the batch.  A background clone thread,   *)
(* which may insert into the map between any two of those steps, breaks    *)
(* two of them, each in one window; these are proved for the behaviours    *)
(* in which no insertion by such a thread falls into that window.          *)
(***************************************************************************)
EXTENDS RuleScheduler_proofs

USE DEF vars, engineVars, schedulerVars

----------------------------------------------------------------------------
(* The steps of the menu come in pairs.                                    *)

MenuOps == {"begin", "moveScheduled"}

\* Every "begin" of a list is followed by the "moveScheduled" of its actors,
\* and every "moveScheduled" follows its "begin".
Paired(list) ==
    \A i \in DOMAIN list :
        /\ list[i].op = "begin" =>
             /\ i + 1 \in DOMAIN list
             /\ list[i + 1].op = "moveScheduled"
             /\ list[i + 1].actors = list[i].actors
        /\ list[i].op = "moveScheduled" =>
             /\ i - 1 \in DOMAIN list
             /\ list[i - 1].op = "begin"
             /\ list[i - 1].actors = list[i].actors

\* The main thread is between the two steps, or at neither or both of them.
MenuOrder ==
    IF At(Main, "moveScheduled")
    THEN /\ interaction.active
         /\ Head(todo[Main]).actors \subseteq interaction.actors
         /\ Paired(Tail(todo[Main]))
    ELSE Paired(todo[Main])

\* The interaction holds back evaluations of its own actors only, and holds
\* none while it is not active.
BatchOfActors ==
    /\ DOMAIN interaction.pending \subseteq interaction.actors
    /\ interaction.active \/ DOMAIN interaction.pending = {}

\* What a step hands on to the map, to the batch or to the next step: a nested
\* report may be taken over by the running cascade, so it does not count.
HandsOn(step, a) == IF step.op = "nested" THEN {} ELSE Carried(step, a)

InMaps(a, k) ==
    \/ a \in DOMAIN scheduled /\ k \in scheduled[a]
    \/ a \in DOMAIN interaction.pending /\ k \in interaction.pending[a]

KeptBy(a, k) ==
    InMaps(a, k) \/ \E t \in Threads : \E i \in DOMAIN todo[t] : k \in HandsOn(todo[t][i], a)

OwedIsKept == \A a \in Actors \ dead : \A k \in owed[a] : KeptBy(a, k)

WorkInv == MenuOrder /\ BatchOfActors /\ OwedIsKept

----------------------------------------------------------------------------
(* Lists in which the steps of the menu come in pairs.                     *)

LEMMA JoinPlaces ==
    ASSUME NEW S, NEW q1 \in Seq(S), NEW q2 \in Seq(S)
    PROVE  /\ q1 \o q2 \in Seq(S)
           /\ DOMAIN q1 = 1..Len(q1) /\ DOMAIN q2 = 1..Len(q2)
           /\ Len(q1) \in Nat /\ Len(q2) \in Nat
           /\ DOMAIN (q1 \o q2) = 1..(Len(q1) + Len(q2))
           /\ \A i \in 1..Len(q1) : (q1 \o q2)[i] = q1[i]
           /\ \A i \in 1..Len(q2) : (q1 \o q2)[Len(q1) + i] = q2[i]
  OBVIOUS

LEMMA PairedJoin ==
    ASSUME NEW q1 \in Seq(Step), NEW q2 \in Seq(Step), Paired(q1), Paired(q2)
    PROVE  Paired(q1 \o q2)
  <1> DEFINE q == q1 \o q2
             n == Len(q1)
             m == Len(q2)
  <1>1. /\ DOMAIN q1 = 1..n /\ DOMAIN q2 = 1..m /\ n \in Nat /\ m \in Nat
        /\ DOMAIN q = 1..(n + m)
        /\ \A i \in 1..n : q[i] = q1[i]
        /\ \A i \in 1..m : q[n + i] = q2[i]
    BY JoinPlaces
  <1> HIDE DEF q, n, m
  <1>2. SUFFICES ASSUME NEW i \in DOMAIN q
                 PROVE  /\ q[i].op = "begin" =>
                             /\ i + 1 \in DOMAIN q
                             /\ q[i + 1].op = "moveScheduled"
                             /\ q[i + 1].actors = q[i].actors
                        /\ q[i].op = "moveScheduled" =>
                             /\ i - 1 \in DOMAIN q
                             /\ q[i - 1].op = "begin"
                             /\ q[i - 1].actors = q[i].actors
    BY DEF Paired, q
  <1>3. CASE i <= n
    <2>1. i \in DOMAIN q1 /\ q[i] = q1[i]
      BY <1>1, <1>3
    <2>2. /\ i + 1 \in DOMAIN q1 => i + 1 \in DOMAIN q /\ q[i + 1] = q1[i + 1]
          /\ i - 1 \in DOMAIN q1 => i - 1 \in DOMAIN q /\ q[i - 1] = q1[i - 1]
      BY <1>1
    <2>3. QED
      BY <2>1, <2>2 DEF Paired
  <1>4. CASE i > n
    <2> DEFINE j == i - n
    <2>1. j \in DOMAIN q2 /\ q[i] = q2[j]
      <3>1. j \in 1..m /\ i = n + j
        BY <1>1, <1>4
      <3>2. QED
        BY <1>1, <3>1
    <2>2. /\ j + 1 \in DOMAIN q2 => i + 1 \in DOMAIN q /\ q[i + 1] = q2[j + 1]
          /\ j - 1 \in DOMAIN q2 => i - 1 \in DOMAIN q /\ q[i - 1] = q2[j - 1]
      <3>1. i + 1 = n + (j + 1) /\ i - 1 = n + (j - 1)
        BY <1>1
      <3>2. \A k \in DOMAIN q2 : n + k \in DOMAIN q /\ q[n + k] = q2[k]
        BY <1>1
      <3>3. QED
        BY <3>1, <3>2
    <2> HIDE DEF j
    <2>3. QED
      BY <2>1, <2>2 DEF Paired
  <1>5. QED
    BY <1>1, <1>3, <1>4

LEMMA TailPlaces ==
    ASSUME NEW S, NEW q \in Seq(S), q # <<>>
    PROVE  /\ Tail(q) \in Seq(S) /\ 1 \in DOMAIN q /\ Head(q) = q[1]
           /\ \A i \in DOMAIN Tail(q) :
                i \in Nat /\ i >= 1 /\ i + 1 \in DOMAIN q /\ Tail(q)[i] = q[i + 1]
           /\ \A i \in DOMAIN q : i \in Nat /\ i >= 1 /\ (i > 1 => i - 1 \in DOMAIN Tail(q))
  OBVIOUS

LEMMA PairedTail ==
    ASSUME NEW q \in Seq(Step), q # <<>>, Paired(q)
    PROVE  /\ Head(q).op # "moveScheduled"
           /\ Head(q).op # "begin" => Paired(Tail(q))
           /\ Head(q).op = "begin" =>
                /\ Tail(q) # <<>>
                /\ Head(Tail(q)).op = "moveScheduled"
                /\ Head(Tail(q)).actors = Head(q).actors
                /\ Paired(Tail(Tail(q)))
  <1> DEFINE r == Tail(q)
  <1>1. /\ r \in Seq(Step) /\ 1 \in DOMAIN q /\ Head(q) = q[1]
        /\ \A i \in DOMAIN r : i \in Nat /\ i >= 1 /\ i + 1 \in DOMAIN q /\ r[i] = q[i + 1]
        /\ \A i \in DOMAIN q : i \in Nat /\ i >= 1 /\ (i > 1 => i - 1 \in DOMAIN r)
    BY TailPlaces
  <1> HIDE DEF r
  <1>2. Head(q).op # "moveScheduled"
    <2>1. 0 \notin DOMAIN q
      BY <1>1
    <2>2. QED
      BY <1>1, <2>1 DEF Paired
  <1>3. Head(q).op # "begin" => Paired(r)
    <2> SUFFICES ASSUME Head(q).op # "begin", NEW i \in DOMAIN r
                 PROVE  /\ r[i].op = "begin" =>
                             /\ i + 1 \in DOMAIN r
                             /\ r[i + 1].op = "moveScheduled"
                             /\ r[i + 1].actors = r[i].actors
                        /\ r[i].op = "moveScheduled" =>
                             /\ i - 1 \in DOMAIN r
                             /\ r[i - 1].op = "begin"
                             /\ r[i - 1].actors = r[i].actors
      BY DEF Paired
    <2>1. i + 1 \in DOMAIN q /\ r[i] = q[i + 1] /\ i \in Nat /\ i >= 1 /\ (i + 1) + 1 = i + 2
      BY <1>1
    <2>2. r[i].op = "begin" => /\ i + 2 \in DOMAIN q
                               /\ q[i + 2].op = "moveScheduled"
                               /\ q[i + 2].actors = r[i].actors
      BY <2>1 DEF Paired
    <2>3. i + 2 \in DOMAIN q => i + 1 \in DOMAIN r /\ r[i + 1] = q[i + 2]
      <3>1. i + 2 > 1 /\ (i + 2) - 1 = i + 1 /\ (i + 1) + 1 = i + 2
        BY <2>1
      <3>2. QED
        BY <1>1, <3>1
    <2>4. r[i].op = "moveScheduled" => /\ i \in DOMAIN q
                                       /\ q[i].op = "begin"
                                       /\ q[i].actors = r[i].actors
      <3>1. (i + 1) - 1 = i
        BY <2>1
      <3>2. QED
        BY <2>1, <3>1 DEF Paired
    <2>5. r[i].op = "moveScheduled" => i # 1
      BY <1>1, <2>4
    <2>6. r[i].op = "moveScheduled" => i - 1 \in DOMAIN r /\ r[i - 1] = q[i]
      <3>1. i # 1 => i > 1 /\ (i - 1) + 1 = i
        BY <2>1
      <3>2. QED
        BY <1>1, <2>4, <2>5, <3>1
    <2>7. QED
      BY <2>2, <2>3, <2>4, <2>6
  <1>4. ASSUME Head(q).op = "begin"
        PROVE  /\ r # <<>>
               /\ Head(r).op = "moveScheduled"
               /\ Head(r).actors = Head(q).actors
               /\ Paired(Tail(r))
    <2>1. 2 \in DOMAIN q /\ q[2].op = "moveScheduled" /\ q[2].actors = q[1].actors
      <3>1. 1 + 1 = 2
        OBVIOUS
      <3>2. QED
        BY <1>1, <1>4, <3>1 DEF Paired
    <2>2. 1 \in DOMAIN r /\ r[1] = q[2]
      BY <1>1, <2>1
    <2>3. r # <<>> /\ Head(r) = r[1]
      BY <1>1, <2>2
    <2> DEFINE z == Tail(r)
    <2>4. /\ \A i \in DOMAIN z : i \in Nat /\ i >= 1 /\ i + 1 \in DOMAIN r /\ z[i] = r[i + 1]
          /\ \A i \in DOMAIN r : i \in Nat /\ i >= 1 /\ (i > 1 => i - 1 \in DOMAIN z)
      BY <1>1, <2>3, TailPlaces
    <2> HIDE DEF z
    <2>5. \A i \in DOMAIN z : i \in Nat /\ i >= 1 /\ i + 2 \in DOMAIN q /\ z[i] = q[i + 2]
      <3> SUFFICES ASSUME NEW i \in DOMAIN z
                   PROVE  i \in Nat /\ i >= 1 /\ i + 2 \in DOMAIN q /\ z[i] = q[i + 2]
        OBVIOUS
      <3>1. i \in Nat /\ i >= 1 /\ i + 1 \in DOMAIN r /\ z[i] = r[i + 1] /\ (i + 1) + 1 = i + 2
        BY <2>4
      <3>2. QED
        BY <1>1, <3>1
    <2>6. \A i \in DOMAIN q : i > 2 => i - 2 \in DOMAIN z
      <3> SUFFICES ASSUME NEW i \in DOMAIN q, i > 2 PROVE i - 2 \in DOMAIN z
        OBVIOUS
      <3>1. i - 1 \in DOMAIN r /\ i - 1 > 1 /\ (i - 1) - 1 = i - 2
        BY <1>1
      <3>2. QED
        BY <2>4, <3>1
    <2>7. Paired(z)
      <3> SUFFICES ASSUME NEW i \in DOMAIN z
                   PROVE  /\ z[i].op = "begin" =>
                               /\ i + 1 \in DOMAIN z
                               /\ z[i + 1].op = "moveScheduled"
                               /\ z[i + 1].actors = z[i].actors
                          /\ z[i].op = "moveScheduled" =>
                               /\ i - 1 \in DOMAIN z
                               /\ z[i - 1].op = "begin"
                               /\ z[i - 1].actors = z[i].actors
        BY DEF Paired
      <3>1. /\ i \in Nat /\ i >= 1 /\ i + 2 \in DOMAIN q /\ z[i] = q[i + 2]
            /\ (i + 2) + 1 = i + 3 /\ (i + 2) - 1 = i + 1
        BY <2>5
      <3>2. z[i].op = "begin" => /\ i + 3 \in DOMAIN q
                                 /\ q[i + 3].op = "moveScheduled"
                                 /\ q[i + 3].actors = z[i].actors
        BY <3>1 DEF Paired
      <3>3. i + 3 \in DOMAIN q => i + 1 \in DOMAIN z /\ z[i + 1] = q[i + 3]
        <4>1. i + 3 > 2 /\ (i + 3) - 2 = i + 1 /\ (i + 1) + 2 = i + 3
          BY <3>1
        <4>2. QED
          BY <2>5, <2>6, <4>1
      <3>4. z[i].op = "moveScheduled" => /\ i + 1 \in DOMAIN q
                                         /\ q[i + 1].op = "begin"
                                         /\ q[i + 1].actors = z[i].actors
        BY <3>1 DEF Paired
      <3>5. z[i].op = "moveScheduled" => i # 1
        BY <2>1, <3>4
      <3>6. z[i].op = "moveScheduled" => i - 1 \in DOMAIN z /\ z[i - 1] = q[i + 1]
        <4>1. i # 1 => i + 1 > 2 /\ (i + 1) - 2 = i - 1 /\ (i - 1) + 2 = i + 1
          BY <3>1
        <4>2. QED
          BY <2>5, <2>6, <3>4, <3>5, <4>1
      <3>7. QED
        BY <3>2, <3>3, <3>4, <3>6
    <2>8. QED
      BY <1>1, <2>1, <2>2, <2>3, <2>7 DEF z
  <1>5. QED
    BY <1>2, <1>3, <1>4 DEF r

\* Lists without a step of the menu, and the pair itself.
PlainSteps == {s \in Step : s.op \notin MenuOps}

LEMMA PairedPlain == ASSUME NEW q \in Seq(PlainSteps) PROVE q \in Seq(Step) /\ Paired(q)
  <1>1. \A i \in DOMAIN q : q[i] \in Step /\ q[i].op \notin MenuOps
    BY DEF PlainSteps
  <1>2. QED
    BY <1>1 DEF Paired, PlainSteps, MenuOps

LEMMA PairedMenu ==
    ASSUME NEW S \in SUBSET Actors
    PROVE  Paired(<<[op |-> "begin", actors |-> S], [op |-> "moveScheduled", actors |-> S]>>)
  <1> DEFINE b == [op |-> "begin", actors |-> S]
             m == [op |-> "moveScheduled", actors |-> S]
             q == <<b, m>>
  <1>1. b.op = "begin" /\ m.op = "moveScheduled" /\ b.actors = S /\ m.actors = S
    OBVIOUS
  <1>2. DOMAIN q = {1, 2} /\ q[1] = b /\ q[2] = m
    BY Places
  <1> HIDE DEF b, m, q
  <1>3. Paired(q)
    BY <1>1, <1>2 DEF Paired
  <1>4. QED
    BY <1>3 DEF b, m, q

LEMMA MenuStepsPaired ==
    ASSUME NEW a \in Actors, NEW b \in BOOLEAN, NEW s \in PlainSteps
    PROVE  Append(MenuSteps(a, b), s) \in Seq(Step) /\ Paired(Append(MenuSteps(a, b), s))
  <1>1. <<s>> \in Seq(PlainSteps) /\ <<>> \in Seq(PlainSteps)
    OBVIOUS
  <1>2. {a, Player} \in SUBSET Actors
    BY ActorAssumption
  <1>3. Paired(MenuSteps(a, b))
    BY <1>1, <1>2, PairedMenu, PairedPlain DEF MenuSteps
  <1>4. MenuSteps(a, b) \in Seq(Step) /\ <<s>> \in Seq(Step) /\ Paired(<<s>>)
    BY <1>1, MenuStepsType, PairedPlain
  <1>5. Append(MenuSteps(a, b), s) = MenuSteps(a, b) \o <<s>>
    BY <1>4
  <1>6. MenuSteps(a, b) \o <<s>> \in Seq(Step)
    BY <1>4
  <1>7. Paired(MenuSteps(a, b) \o <<s>>)
    BY <1>3, <1>4, PairedJoin
  <1>8. QED
    BY <1>5, <1>6, <1>7

----------------------------------------------------------------------------
(* The order of the main thread's steps and the actors of the batch.       *)

\* A thread goes on with steps whose menu steps come in pairs.
LEMMA MenuOrderOn ==
    ASSUME TypeOK, MenuOrder, NEW t \in Threads, todo[t] # <<>>,
           Head(todo[t]).op = "begin" => t # Main,
           NEW new \in Seq(Step), Paired(new), Goto(t, new),
           t # Main => /\ interaction'.active = interaction.active
                       /\ interaction'.actors = interaction.actors
    PROVE  MenuOrder'
  <1>1. todo \in [Threads -> Seq(Step)] /\ Main \in Threads
    BY DEF TypeOK, Threads
  <1>2. CASE t = Main
    <2> DEFINE old == todo[Main]
               q == new \o Tail(old)
    <2>1. old \in Seq(Step) /\ old # <<>> /\ Tail(old) \in Seq(Step) /\ todo'[Main] = q
      BY <1>1, <1>2, TailPlaces DEF Goto
    <2>2. Paired(Tail(old))
      BY <1>2, <2>1, PairedTail DEF MenuOrder, At
    <2>3. q \in Seq(Step) /\ Paired(q)
      BY <2>1, <2>2, PairedJoin, JoinPlaces
    <2>4. q # <<>> => Head(q).op # "moveScheduled"
      BY <2>3, PairedTail
    <2> HIDE DEF q, old
    <2>5. QED
      BY <2>1, <2>3, <2>4 DEF MenuOrder, At
  <1>3. CASE t # Main
    <2>1. todo'[Main] = todo[Main]
      BY <1>1, <1>3 DEF Goto
    <2>2. QED
      BY <1>3, <2>1 DEF MenuOrder, At
  <1>4. QED
    BY <1>2, <1>3

\* The main thread starts a handler.
LEMMA MenuOrderStart ==
    ASSUME TypeOK, MenuOrder, NEW t \in Threads, NEW steps \in Seq(Step), Paired(steps),
           Start(t, steps), UNCHANGED interaction
    PROVE  MenuOrder'
  <1>1. todo \in [Threads -> Seq(Step)] /\ Main \in Threads
    BY DEF TypeOK, Threads
  <1>2. CASE t = Main
    <2>1. todo'[Main] = steps
      BY <1>1, <1>2 DEF Start
    <2>2. steps # <<>> => Head(steps).op # "moveScheduled"
      BY PairedTail
    <2>3. QED
      BY <2>1, <2>2 DEF MenuOrder, At
  <1>3. CASE t # Main
    <2>1. todo'[Main] = todo[Main]
      BY <1>1, <1>3 DEF Start
    <2>2. QED
      BY <2>1 DEF MenuOrder, At
  <1>4. QED
    BY <1>2, <1>3

\* Only the main thread touches the menus and the batch's actors.
LEMMA MainOnly ==
    ASSUME PumpInv, NEW t \in Threads, todo[t] # <<>>, 1 \in DOMAIN todo[t],
           Head(todo[t]) = todo[t][1],
           Head(todo[t]).op \notin {"schedule", "defer", "enqueue", "postPump"}
    PROVE  t = Main
  BY DEF PumpInv, LoadersOnlySchedule, Threads

\* Which kind of step each kind of step goes on with.
Follow == {<<"schedule", "defer">>, <<"defer", "enqueue">>, <<"enqueue", "postPump">>,
           <<"pump", "take">>, <<"take", "apply">>, <<"take", "take">>, <<"take", "repost">>,
           <<"apply", "begin">>, <<"apply", "moveScheduled">>, <<"apply", "nested">>,
           <<"repost", "postPump">>, <<"release", "each">>,
           <<"each", "schedule">>, <<"each", "each">>,
           <<"suspend", "resetScheduled">>, <<"suspend", "resetInteraction">>,
           <<"refresh", "each">>}

\* Every step of a thread leaves a list whose menu steps come in pairs.
LEMMA StepForm ==
    ASSUME TypeOK, NEW t \in Threads, StepOf(t)
    PROVE  /\ todo[t] # <<>> /\ Head(todo[t]) \in Step
           /\ Head(todo[t]) = todo[t][1] /\ 1 \in DOMAIN todo[t]
           /\ \E new \in Seq(Step) :
                /\ Goto(t, new)
                /\ Paired(new)
                /\ \A i \in DOMAIN new : <<Head(todo[t]).op, new[i].op>> \in Follow
  <1> DEFINE s == Head(todo[t])
             Good(new) == /\ new \in Seq(Step) /\ Goto(t, new) /\ Paired(new)
                          /\ \A i \in DOMAIN new : <<s.op, new[i].op>> \in Follow
  <1>0. todo[t] # <<>> /\ s \in Step /\ s = todo[t][1] /\ 1 \in DOMAIN todo[t]
    <2>1. todo[t] # <<>>
      BY DEF StepOf, Schedule, DeferInventoryInteractionEvaluation, Enqueue, PostPump,
         Pump, Take, Apply, Nested, Repost, BeginInventoryInteraction, MoveScheduled,
         EndInventoryInteraction, Release, Each, ForgetScheduled, ForgetInteraction, ResetScheduled,
         ResetInteraction, SuspendRuleEvaluationForLoad, SetContext, ResumeRuleEvaluationAfterLoad,
         Refresh, At
    <2>2. todo[t] \in Seq(Step)
      BY DEF TypeOK
    <2>3. QED
      BY <2>1, <2>2
  <1>a. Goto(t, <<>>) => \E new : Good(new)
    <2>1. <<>> \in Seq(PlainSteps)
      OBVIOUS
    <2>2. <<>> \in Seq(Step) /\ Paired(<<>>) /\ \A i \in DOMAIN <<>> : FALSE
      BY <2>1, PairedPlain, Places
    <2>3. QED
      BY <2>2
  <1>b. \A step \in Step : Goto(t, <<step>>) /\ <<s.op, step.op>> \in Follow /\ step.op \notin MenuOps
                           => \E new : Good(new)
    <2> SUFFICES ASSUME NEW step \in Step, Goto(t, <<step>>),
                        <<s.op, step.op>> \in Follow, step.op \notin MenuOps
                 PROVE  Good(<<step>>)
      OBVIOUS
    <2> DEFINE new == <<step>>
    <2>1. new \in Seq(PlainSteps) /\ \A i \in DOMAIN new : new[i] = step
      BY Places DEF PlainSteps
    <2> HIDE DEF new
    <2>2. new \in Seq(Step) /\ Paired(new)
      BY <2>1, PairedPlain
    <2>3. QED
      BY <2>1, <2>2 DEF new
  <1>c. \A s1, s2 \in Step : /\ Goto(t, <<s1, s2>>)
                             /\ <<s.op, s1.op>> \in Follow /\ s1.op \notin MenuOps
                             /\ <<s.op, s2.op>> \in Follow /\ s2.op \notin MenuOps
                             => \E new : Good(new)
    <2> SUFFICES ASSUME NEW s1 \in Step, NEW s2 \in Step, Goto(t, <<s1, s2>>),
                        <<s.op, s1.op>> \in Follow, s1.op \notin MenuOps,
                        <<s.op, s2.op>> \in Follow, s2.op \notin MenuOps
                 PROVE  Good(<<s1, s2>>)
      OBVIOUS
    <2> DEFINE new == <<s1, s2>>
    <2>1. new \in Seq(PlainSteps) /\ \A i \in DOMAIN new : new[i] = s1 \/ new[i] = s2
      BY Places DEF PlainSteps
    <2> HIDE DEF new
    <2>2. new \in Seq(Step) /\ Paired(new)
      BY <2>1, PairedPlain
    <2>3. QED
      BY <2>1, <2>2 DEF new
  <1> HIDE DEF Good
  <1>d. /\ \A op, a, d : ActorStep(op, a, d).op = op
        /\ \A op, g : PumpStep(op, g).op = op
        /\ \A m : EachStep(m).op = "each"
        /\ \A op : Plain(op).op = op
    BY DEF ActorStep, PumpStep, EachStep, Plain
  <1>1. CASE Schedule(t)
    <2>1. s.op = "schedule" /\ s.actor \in Actors /\ s.delta \in SUBSET Kinds
      BY <1>0, <1>1, StepFields DEF Schedule, At
    <2>2. ActorStep("defer", s.actor, s.delta) \in Step
      BY <2>1, StepIntro
    <2>3. \E new : Good(new)
      BY <1>1, <1>a, <1>b, <1>d, <2>1, <2>2 DEF Schedule, Follow, MenuOps
    <2>4. QED
      BY <1>0, <2>3 DEF Good
  <1>2. CASE DeferInventoryInteractionEvaluation(t)
    <2>1. s.op = "defer" /\ s.actor \in Actors /\ s.delta \in SUBSET Kinds
      BY <1>0, <1>2, StepFields DEF DeferInventoryInteractionEvaluation, At
    <2>2. ActorStep("enqueue", s.actor, s.delta) \in Step
      BY <2>1, StepIntro
    <2>3. \E new : Good(new)
      BY <1>2, <1>a, <1>b, <1>d, <2>1, <2>2 DEF DeferInventoryInteractionEvaluation, Follow, MenuOps
    <2>4. QED
      BY <1>0, <2>3 DEF Good
  <1>3. CASE Enqueue(t)
    <2>1. s.op = "enqueue" /\ PumpStep("postPump", generation) \in Step
      BY <1>3, StepIntro DEF Enqueue, At, TypeOK, PumpOps
    <2>2. Goto(t, <<>>) \/ Goto(t, <<PumpStep("postPump", generation)>>)
      BY <1>3 DEF Enqueue
    <2>3. \E new : Good(new)
      BY <1>a, <1>b, <1>d, <2>1, <2>2 DEF Follow, MenuOps
    <2>4. QED
      BY <1>0, <2>3 DEF Good
  <1>4. CASE Pump(t)
    <2>1. s.op = "pump" /\ s.gen \in Nat
      BY <1>0, <1>4, StepFields DEF Pump, At, PumpOps
    <2>2. PumpStep("take", s.gen) \in Step
      BY <2>1, StepIntro DEF PumpOps
    <2>3. Goto(t, <<>>) \/ Goto(t, <<PumpStep("take", s.gen)>>)
      BY <1>4 DEF Pump
    <2>4. \E new : Good(new)
      BY <1>a, <1>b, <1>d, <2>1, <2>2, <2>3 DEF Follow, MenuOps
    <2>5. QED
      BY <1>0, <2>4 DEF Good
  <1>5. CASE Take(t)
    <2>1. s.op = "take" /\ s.gen \in Nat
      BY <1>0, <1>5, StepFields DEF Take, At, PumpOps
    <2>2. ASSUME NEW a \in Actors, NEW next \in {"take", "repost"}, IsFirst(a, scheduled),
                 Goto(t, <<ActorStep("apply", a, scheduled[a]), PumpStep(next, s.gen)>>)
          PROVE  \E new : Good(new)
      <3>1. scheduled[a] \in SUBSET Kinds
        BY <2>2, MapOfElim DEF TypeOK, IsFirst
      <3>2. ActorStep("apply", a, scheduled[a]) \in Step /\ PumpStep(next, s.gen) \in Step
        BY <2>1, <3>1, StepIntro DEF PumpOps
      <3>3. QED
        BY <1>c, <1>d, <2>1, <2>2, <3>2 DEF Follow, MenuOps
    <2>3. \E new : Good(new)
      BY <1>5, <1>a, <2>2 DEF Take
    <2>4. QED
      BY <1>0, <2>3 DEF Good
  <1>6. CASE Apply(t)
    <2>1. s.op = "apply" /\ s.actor \in Actors
      BY <1>0, <1>6, StepFields DEF Apply, At
    <2> DEFINE n == ActorStep("nested", s.actor, {Inventory})
               new == Append(MenuSteps(s.actor, menuEntry), n)
    <2>2. n \in Step /\ n.op = "nested" /\ n \in PlainSteps
      BY <1>d, <2>1, StepIntro, ActorAssumption DEF PlainSteps, MenuOps
    <2> HIDE DEF n
    <2>3. new \in Seq(Step) /\ Paired(new)
      BY <2>1, <2>2, MenuStepsPaired DEF TypeOK
    <2>4. \A i \in DOMAIN new : new[i].op \in {"begin", "moveScheduled", "schedule", "nested"}
      BY <2>1, <2>2, MenuStepsPlaces DEF TypeOK
    <2>5. \A i \in DOMAIN new : new[i].op # "schedule"
      BY <2>2 DEF MenuSteps
    <2>6. Goto(t, new) => Good(new)
      BY <2>1, <2>3, <2>4, <2>5 DEF Good, Follow
    <2>7. Goto(t, <<>>) \/ Goto(t, new)
      BY <1>6 DEF Apply, n
    <2> HIDE DEF new
    <2>8. \E q : Good(q)
      BY <1>a, <2>6, <2>7
    <2>9. QED
      BY <1>0, <2>8 DEF Good
  <1>7. CASE Repost(t)
    <2>1. s.op = "repost" /\ s.gen \in Nat
      BY <1>0, <1>7, StepFields DEF Repost, At, PumpOps
    <2>2. PumpStep("postPump", s.gen) \in Step
      BY <2>1, StepIntro DEF PumpOps
    <2>3. Goto(t, <<>>) \/ Goto(t, <<PumpStep("postPump", s.gen)>>)
      BY <1>7 DEF Repost
    <2>4. \E new : Good(new)
      BY <1>a, <1>b, <1>d, <2>1, <2>2, <2>3 DEF Follow, MenuOps
    <2>5. QED
      BY <1>0, <2>4 DEF Good
  <1>8. CASE Release(t)
    <2> DEFINE held == [a \in DOMAIN interaction.pending \cap interaction.actors
                          |-> interaction.pending[a]]
    <2>1. s.op = "release" /\ (Goto(t, <<>>) \/ Goto(t, <<EachStep(held)>>))
      BY <1>8 DEF Release, At
    <2>2. interaction.pending \in MapOf(Actors, SUBSET Kinds)
      BY DEF TypeOK
    <2>3. /\ DOMAIN interaction.pending \in SUBSET Actors
          /\ interaction.pending \in [DOMAIN interaction.pending -> SUBSET Kinds]
      BY <2>2, MapOfElim
    <2>4. held \in [DOMAIN interaction.pending \cap interaction.actors -> SUBSET Kinds]
      BY <2>3
    <2>5. DOMAIN interaction.pending \cap interaction.actors \in SUBSET Actors
      BY <2>3
    <2> HIDE DEF held
    <2>6. EachStep(held) \in Step
      BY <2>4, <2>5, MapOfIntro, StepIntro
    <2>7. \E new : Good(new)
      BY <1>a, <1>b, <1>d, <2>1, <2>6 DEF Follow, MenuOps
    <2>8. QED
      BY <1>0, <2>7 DEF Good
  <1>9. CASE Each(t)
    <2>1. s.op = "each" /\ s.deltas \in MapOf(Actors, SUBSET Kinds)
      BY <1>0, <1>9, StepFields DEF Each, At
    <2>2. ASSUME NEW a \in Actors, IsFirst(a, s.deltas)
          PROVE  /\ EachStep(Without(s.deltas, {a})) \in Step
                 /\ ActorStep("schedule", a, s.deltas[a]) \in Step
      <3>1. s.deltas[a] \in SUBSET Kinds /\ Without(s.deltas, {a}) \in MapOf(Actors, SUBSET Kinds)
        BY <2>1, <2>2, MapOfElim, WithoutType DEF IsFirst
      <3>2. QED
        BY <3>1, StepIntro
    <2>3. \/ Goto(t, <<>>)
          \/ \E a \in Actors : /\ IsFirst(a, s.deltas)
                               /\ \/ Goto(t, <<EachStep(Without(s.deltas, {a}))>>)
                                  \/ Goto(t, <<ActorStep("schedule", a, s.deltas[a]),
                                               EachStep(Without(s.deltas, {a}))>>)
      BY <1>9 DEF Each
    <2>4. ASSUME NEW a \in Actors, IsFirst(a, s.deltas),
                 Goto(t, <<EachStep(Without(s.deltas, {a}))>>)
          PROVE  \E new : Good(new)
      BY <1>b, <1>d, <2>1, <2>2, <2>4 DEF Follow, MenuOps
    <2>5. ASSUME NEW a \in Actors, IsFirst(a, s.deltas),
                 Goto(t, <<ActorStep("schedule", a, s.deltas[a]), EachStep(Without(s.deltas, {a}))>>)
          PROVE  \E new : Good(new)
      BY <1>c, <1>d, <2>1, <2>2, <2>5 DEF Follow, MenuOps
    <2>6. \E new : Good(new)
      BY <1>a, <2>3, <2>4, <2>5
    <2>7. QED
      BY <1>0, <2>6 DEF Good
  <1>10. CASE SuspendRuleEvaluationForLoad(t)
    <2>1. s.op = "suspend" /\ Goto(t, <<Plain("resetScheduled"), Plain("resetInteraction")>>)
      BY <1>10 DEF SuspendRuleEvaluationForLoad, At, ResetSteps
    <2>2. Plain("resetScheduled") \in Step /\ Plain("resetInteraction") \in Step
      BY StepIntro
    <2>3. \E new : Good(new)
      BY <1>c, <1>d, <2>1, <2>2 DEF Follow, MenuOps
    <2>4. QED
      BY <1>0, <2>3 DEF Good
  <1>11. CASE Refresh(t)
    <2>1. Full \in SUBSET Kinds /\ Actors \in SUBSET Actors
      BY DEF Full
    <2>2. EachStep([a \in Actors |-> Full]) \in Step
      BY <2>1, EachStepType
    <2>3. s.op = "refresh" /\ (Goto(t, <<>>) \/ Goto(t, <<EachStep([a \in Actors |-> Full])>>))
      BY <1>11 DEF Refresh, At
    <2>4. \E new : Good(new)
      BY <1>a, <1>b, <1>d, <2>2, <2>3 DEF Follow, MenuOps
    <2>5. QED
      BY <1>0, <2>4 DEF Good
  <1>12. CASE \/ PostPump(t) \/ Nested(t) \/ BeginInventoryInteraction(t) \/ MoveScheduled(t)
              \/ EndInventoryInteraction(t) \/ ForgetScheduled(t) \/ ForgetInteraction(t)
              \/ ResetScheduled(t) \/ ResetInteraction(t) \/ SetContext(t)
              \/ ResumeRuleEvaluationAfterLoad(t)
    <2>1. Goto(t, <<>>)
      BY <1>12 DEF PostPump, Nested, BeginInventoryInteraction, MoveScheduled,
           EndInventoryInteraction, ForgetScheduled, ForgetInteraction, ResetScheduled,
           ResetInteraction, SetContext, ResumeRuleEvaluationAfterLoad
    <2>2. QED
      BY <1>0, <1>a, <2>1 DEF Good
  <1>13. QED
    BY <1>1, <1>2, <1>3, <1>4, <1>5, <1>6, <1>7, <1>8, <1>9, <1>10, <1>11, <1>12 DEF StepOf

----------------------------------------------------------------------------
(* What the maps hold after a change of theirs.                            *)

LEMMA MergedValues ==
    ASSUME NEW f \in MapOf(Actors, SUBSET Kinds), NEW a \in Actors, NEW d \in SUBSET Kinds
    PROVE  /\ DOMAIN Merged(f, a, d) = DOMAIN f \cup {a}
           /\ \A b \in DOMAIN f : f[b] \subseteq Merged(f, a, d)[b]
           /\ d \subseteq Merged(f, a, d)[a]
  BY MapOfElim DEF Merged

LEMMA WithoutValues ==
    ASSUME NEW f, NEW keys
    PROVE  /\ DOMAIN Without(f, keys) = DOMAIN f \ keys
           /\ \A b \in DOMAIN f \ keys : Without(f, keys)[b] = f[b]
  BY DEF Without

\* What a step hands on, by its kind.
LEMMA HandsOnStep ==
    ASSUME NEW s, NEW a
    PROVE  /\ s.op \in {"schedule", "defer", "enqueue", "apply"}
              => HandsOn(s, a) = IF s.actor = a THEN s.delta ELSE {}
           /\ s.op = "each" => HandsOn(s, a) = IF a \in DOMAIN s.deltas THEN s.deltas[a] ELSE {}
           /\ s.op \notin {"schedule", "defer", "enqueue", "apply", "each"} => HandsOn(s, a) = {}
  BY DEF HandsOn, Carried

LEMMA HandsOnNew ==
    ASSUME NEW a
    PROVE  /\ \A op \in {"schedule", "defer", "enqueue", "apply"} : \A b, d :
                HandsOn(ActorStep(op, b, d), a) = IF b = a THEN d ELSE {}
           /\ \A m : HandsOn(EachStep(m), a) = IF a \in DOMAIN m THEN m[a] ELSE {}
  BY DEF HandsOn, Carried, ActorStep, EachStep

\* The loop that goes on without one actor still hands on the others' changes.
LEMMA HandsOnLess ==
    ASSUME NEW m, NEW gone, NEW a, a # gone, a \in DOMAIN m
    PROVE  HandsOn(EachStep(Without(m, {gone})), a) = m[a]
  <1> DEFINE rest == Without(m, {gone})
  <1>1. a \in DOMAIN rest /\ rest[a] = m[a]
    BY DEF Without
  <1> HIDE DEF rest
  <1>2. HandsOn(EachStep(rest), a) = rest[a]
    BY <1>1, HandsOnNew
  <1>3. QED
    BY <1>1, <1>2 DEF rest

\* After a step of a thread, change k of actor a is in the maps or in the steps
\* the thread goes on with.
Handed(new, a, k) == InMaps(a, k)' \/ \E i \in DOMAIN new : k \in HandsOn(new[i], a)

LEMMA KeptOn ==
    ASSUME TypeOK, NEW t \in Threads, todo[t] # <<>>,
           NEW new \in Seq(Step), Goto(t, new), NEW a, NEW k,
           \/ Handed(new, a, k)
           \/ /\ KeptBy(a, k)
              /\ InMaps(a, k) \/ k \in HandsOn(Head(todo[t]), a) => Handed(new, a, k)
    PROVE  KeptBy(a, k)'
  <1> DEFINE old == todo[t]
             q == new \o Tail(old)
  <1>1. /\ old \in Seq(Step) /\ old # <<>> /\ todo'[t] = q
        /\ \A u \in Threads \ {t} : todo'[u] = todo[u]
    BY DEF Goto, TypeOK
  <1>2. /\ Tail(old) \in Seq(Step) /\ Head(old) = old[1]
        /\ \A i \in DOMAIN old : i \in Nat /\ i >= 1 /\ (i > 1 => i - 1 \in DOMAIN Tail(old))
        /\ \A i \in DOMAIN Tail(old) : Tail(old)[i] = old[i + 1]
    BY <1>1, TailPlaces
  <1>3. /\ \A i \in DOMAIN new : i \in DOMAIN q /\ q[i] = new[i]
        /\ \A i \in DOMAIN Tail(old) : Len(new) + i \in DOMAIN q /\ q[Len(new) + i] = Tail(old)[i]
    BY <1>2, JoinPlaces
  <1>4. \A i \in DOMAIN old : i > 1 => \E j \in DOMAIN q : q[j] = old[i]
    <2> SUFFICES ASSUME NEW i \in DOMAIN old, i > 1 PROVE \E j \in DOMAIN q : q[j] = old[i]
      OBVIOUS
    <2>1. i - 1 \in DOMAIN Tail(old) /\ (i - 1) + 1 = i
      BY <1>2
    <2>2. Tail(old)[i - 1] = old[i]
      BY <1>2, <2>1
    <2>3. QED
      BY <1>3, <2>1, <2>2
  <1> HIDE DEF q
  <1>5. CASE Handed(new, a, k)
    BY <1>1, <1>3, <1>5 DEF Handed, KeptBy, InMaps
  <1>6. CASE /\ KeptBy(a, k)
             /\ ~(InMaps(a, k) \/ k \in HandsOn(Head(todo[t]), a))
    <2>1. PICK u \in Threads : \E i \in DOMAIN todo[u] : k \in HandsOn(todo[u][i], a)
      BY <1>6 DEF KeptBy
    <2>2. PICK i \in DOMAIN todo[u] : k \in HandsOn(todo[u][i], a)
      BY <2>1
    <2>3. CASE u = t
      <3>1. i # 1
        BY <1>2, <1>6, <2>2, <2>3
      <3>2. i > 1
        BY <1>2, <2>2, <2>3, <3>1
      <3>3. QED
        BY <1>1, <1>4, <2>2, <2>3, <3>2 DEF KeptBy
    <2>4. CASE u # t
      BY <1>1, <2>2, <2>4 DEF KeptBy
    <2>5. QED
      BY <2>3, <2>4
  <1>7. QED
    BY <1>5, <1>6

\* A step that hands nothing on and takes nothing out of the maps.
LEMMA KeptQuiet ==
    ASSUME TypeOK, OwedIsKept, NEW t \in Threads, todo[t] # <<>>,
           NEW new \in Seq(Step), Goto(t, new),
           Head(todo[t]).op \notin {"schedule", "defer", "enqueue", "apply", "each"},
           \A a \in Actors, k \in Kinds : InMaps(a, k) => InMaps(a, k)',
           dead' = dead, owed' = owed
    PROVE  OwedIsKept'
  <1> SUFFICES ASSUME NEW a \in Actors \ dead, NEW k \in owed[a] PROVE KeptBy(a, k)'
    BY DEF OwedIsKept
  <1>1. KeptBy(a, k) /\ k \in Kinds
    BY DEF OwedIsKept, TypeOK
  <1>2. HandsOn(Head(todo[t]), a) = {}
    BY HandsOnStep
  <1>3. InMaps(a, k) => Handed(new, a, k)
    BY <1>1 DEF Handed
  <1>4. QED
    BY <1>1, <1>2, <1>3, KeptOn

----------------------------------------------------------------------------
(* The steps of the threads keep the order of the menus, the actors of the *)
(* batch and every owed change.                                            *)

LEMMA MenuOrderStep ==
    ASSUME TypeOK, PumpInv, MenuOrder, NEW t \in Threads, StepOf(t)
    PROVE  MenuOrder'
  <1> DEFINE s == Head(todo[t])
  <1>0. /\ todo[t] # <<>> /\ s \in Step /\ s = todo[t][1] /\ 1 \in DOMAIN todo[t]
        /\ \E new \in Seq(Step) : Goto(t, new) /\ Paired(new)
    BY StepForm
  <1>a. s.op \notin {"schedule", "defer", "enqueue", "postPump"} => t = Main
    BY <1>0, MainOnly
  <1>1. CASE s.op = "begin"
    <2>1. t = Main /\ BeginInventoryInteraction(Main)
      BY <1>1, <1>a DEF StepOf, Schedule, DeferInventoryInteractionEvaluation, Enqueue, PostPump,
         Pump, Take, Apply, Nested, Repost, MoveScheduled,
         EndInventoryInteraction, Release, Each, ForgetScheduled, ForgetInteraction, ResetScheduled,
         ResetInteraction, SuspendRuleEvaluationForLoad, SetContext, ResumeRuleEvaluationAfterLoad,
         Refresh, At
    <2> DEFINE old == todo[Main]
    <2>2. old \in Seq(Step) /\ old # <<>> /\ Tail(old) \in Seq(Step)
      BY <1>0, <2>1, TailPlaces DEF TypeOK
    <2>3. todo'[Main] = Tail(old)
      BY <2>1, <2>2 DEF BeginInventoryInteraction, Goto, TypeOK
    <2>4. Paired(old)
      BY <1>1, <2>1 DEF MenuOrder, At
    <2>5. /\ Tail(old) # <<>>
          /\ Head(Tail(old)).op = "moveScheduled"
          /\ Head(Tail(old)).actors = s.actors
          /\ Paired(Tail(Tail(old)))
      BY <1>1, <2>1, <2>2, <2>4, PairedTail
    <2>6. interaction'.active /\ s.actors \subseteq interaction'.actors
      BY <2>1 DEF BeginInventoryInteraction
    <2> HIDE DEF old
    <2>7. QED
      BY <2>3, <2>5, <2>6 DEF MenuOrder, At
  <1>2. CASE s.op # "begin"
    <2>1. t # Main => s.op \in {"schedule", "defer", "enqueue", "postPump"}
      BY <1>a
    <2>2. t # Main => \/ Schedule(t) \/ DeferInventoryInteractionEvaluation(t)
                      \/ Enqueue(t) \/ PostPump(t)
      BY <2>1 DEF StepOf, Pump, Take, Apply, Nested, Repost, BeginInventoryInteraction, MoveScheduled,
         EndInventoryInteraction, Release, Each, ForgetScheduled, ForgetInteraction, ResetScheduled,
         ResetInteraction, SuspendRuleEvaluationForLoad, SetContext, ResumeRuleEvaluationAfterLoad,
         Refresh, At
    <2>3. t # Main => /\ interaction'.active = interaction.active
                      /\ interaction'.actors = interaction.actors
      BY <2>2 DEF Schedule, DeferInventoryInteractionEvaluation, DeferTo, Enqueue, PostPump, TypeOK
    <2>4. QED
      BY <1>0, <1>2, <2>3, MenuOrderOn
  <1>3. QED
    BY <1>1, <1>2

LEMMA BatchStep ==
    ASSUME TypeOK, PumpInv, MenuOrder, BatchOfActors, NEW t \in Threads, StepOf(t)
    PROVE  BatchOfActors'
  <1> DEFINE s == Head(todo[t])
  <1>0. /\ todo[t] # <<>> /\ s \in Step /\ s = todo[t][1] /\ 1 \in DOMAIN todo[t]
        /\ interaction.pending \in MapOf(Actors, SUBSET Kinds)
    BY StepForm DEF TypeOK
  <1>a. s.op \in {"defer", "nested"} => s.actor \in Actors /\ s.delta \in SUBSET Kinds
    BY <1>0, StepFields
  <1>b. s.op \in {"defer", "nested"} =>
            DOMAIN Merged(interaction.pending, s.actor, s.delta)
              = DOMAIN interaction.pending \cup {s.actor}
    BY <1>0, <1>a, MergedValues
  <1>1. CASE DeferInventoryInteractionEvaluation(t) \/ Nested(t)
    <2>1. s.op \in {"defer", "nested"}
      BY <1>1 DEF DeferInventoryInteractionEvaluation, Nested, At
    <2>2. CASE interaction' = interaction
      BY <2>2 DEF BatchOfActors
    <2>3. CASE Deferred(s.actor) /\ DeferTo(s.actor, s.delta)
      <3>1. /\ interaction'.pending = Merged(interaction.pending, s.actor, s.delta)
            /\ interaction'.actors = interaction.actors /\ interaction'.active = interaction.active
        BY <2>3 DEF DeferTo, TypeOK
      <3>2. QED
        BY <1>b, <2>1, <2>3, <3>1 DEF BatchOfActors, Deferred
    <2>4. QED
      BY <1>1, <2>2, <2>3 DEF DeferInventoryInteractionEvaluation, Nested
  <1>2. CASE BeginInventoryInteraction(t)
    BY <1>2, Places DEF BeginInventoryInteraction, BatchOfActors
  <1>3. CASE MoveScheduled(t)
    <2>1. t = Main /\ s.op = "moveScheduled"
      BY <1>0, <1>3, MainOnly DEF MoveScheduled, At
    <2>2. interaction.active /\ s.actors \subseteq interaction.actors
      BY <1>0, <2>1 DEF MenuOrder, At
    <2>3. /\ DOMAIN interaction'.pending = DOMAIN interaction.pending \cup (s.actors \cap DOMAIN scheduled)
          /\ interaction'.actors = interaction.actors /\ interaction'.active = interaction.active
      BY <1>3 DEF MoveScheduled, TypeOK
    <2>4. QED
      BY <2>2, <2>3 DEF BatchOfActors
  <1>4. CASE Release(t) \/ ResetInteraction(t)
    BY <1>4, Places DEF Release, ResetInteraction, NoInteraction, BatchOfActors
  <1>5. CASE ForgetInteraction(t)
    <2>1. /\ interaction'.pending = Without(interaction.pending, {s.actor})
          /\ interaction'.actors = interaction.actors \ {s.actor}
          /\ interaction'.active = interaction.active
      BY <1>5 DEF ForgetInteraction, TypeOK
    <2>2. QED
      <3>1. DOMAIN interaction'.pending = DOMAIN interaction.pending \ {s.actor}
        BY <2>1 DEF Without
      <3>2. QED
        BY <2>1, <3>1 DEF BatchOfActors
  <1>6. CASE UNCHANGED interaction
    BY <1>6 DEF BatchOfActors
  <1>7. QED
    BY <1>1, <1>2, <1>3, <1>4, <1>5, <1>6
    DEF StepOf, Schedule, Enqueue, PostPump, Pump, Take, Apply, Repost, EndInventoryInteraction, Each,
        ForgetScheduled, ResetScheduled, SuspendRuleEvaluationForLoad, SetContext,
        ResumeRuleEvaluationAfterLoad, Refresh

\* The calls of ScheduleRuleEvaluation, also from inside an evaluation.
LEMMA OwedSchedule ==
    ASSUME TypeOK, BatchOfActors, OwedIsKept, NEW t \in Threads,
           \/ Schedule(t) \/ DeferInventoryInteractionEvaluation(t) \/ Enqueue(t) \/ PostPump(t)
           \/ Nested(t)
    PROVE  OwedIsKept'
  <1> DEFINE s == Head(todo[t])
  <1>0. /\ todo[t] # <<>> /\ s \in Step
        /\ interaction.pending \in MapOf(Actors, SUBSET Kinds)
        /\ scheduled \in MapOf(Actors, SUBSET Kinds)
        /\ dead' = dead
    <2>1. StepOf(t)
      BY DEF StepOf
    <2>2. todo[t] # <<>> /\ s \in Step
      BY <2>1, StepForm
    <2>3. /\ interaction.pending \in MapOf(Actors, SUBSET Kinds)
          /\ scheduled \in MapOf(Actors, SUBSET Kinds)
      BY DEF TypeOK
    <2>4. dead' = dead
      BY DEF Schedule, DeferInventoryInteractionEvaluation, Enqueue, PostPump, Nested
    <2>5. QED
      BY <2>2, <2>3, <2>4
  <1>a. s.op \in {"schedule", "defer", "enqueue", "nested"} => s.actor \in Actors /\ s.delta \in SUBSET Kinds
    BY <1>0, StepFields
  <1>b. \A a \in Actors, k \in Kinds :
            /\ s.actor \in Actors /\ s.delta \in SUBSET Kinds
            /\ DeferTo(s.actor, s.delta) /\ scheduled' = scheduled
            => /\ InMaps(a, k) => InMaps(a, k)'
               /\ a = s.actor /\ k \in s.delta => InMaps(a, k)'
    <2> SUFFICES ASSUME s.actor \in Actors, s.delta \in SUBSET Kinds,
                        DeferTo(s.actor, s.delta), scheduled' = scheduled
                 PROVE  \A a \in Actors, k \in Kinds :
                            /\ InMaps(a, k) => InMaps(a, k)'
                            /\ a = s.actor /\ k \in s.delta => InMaps(a, k)'
      OBVIOUS
    <2>1. interaction'.pending = Merged(interaction.pending, s.actor, s.delta)
      BY DEF DeferTo, TypeOK
    <2>2. /\ DOMAIN interaction'.pending = DOMAIN interaction.pending \cup {s.actor}
          /\ \A b \in DOMAIN interaction.pending : interaction.pending[b] \subseteq interaction'.pending[b]
          /\ s.delta \subseteq interaction'.pending[s.actor]
      <3> DEFINE held == interaction.pending
                 m == Merged(held, s.actor, s.delta)
      <3>1. /\ DOMAIN m = DOMAIN held \cup {s.actor}
            /\ \A b \in DOMAIN held : held[b] \subseteq m[b]
            /\ s.delta \subseteq m[s.actor]
        BY <1>0, MergedValues
      <3>2. QED
        BY <2>1, <3>1
    <2>3. QED
      BY <2>2 DEF InMaps
  <1>1. CASE Schedule(t)
    <2>1. s.op = "schedule" /\ s.actor \in Actors /\ s.delta \in SUBSET Kinds
          /\ UNCHANGED <<scheduled, interaction>>
      BY <1>1, <1>a DEF Schedule, At
    <2> SUFFICES ASSUME NEW a \in Actors \ dead, NEW k \in owed'[a] PROVE KeptBy(a, k)'
      BY <1>0 DEF OwedIsKept
    <2>2. InMaps(a, k) => InMaps(a, k)'
      BY <2>1 DEF InMaps
    <2>3. HandsOn(s, a) = IF s.actor = a THEN s.delta ELSE {}
      BY <2>1, HandsOnStep
    <2>4. CASE suspended
      <3>1. Goto(t, <<>>) /\ k \in owed[a] /\ ~(a = s.actor /\ k \in s.delta)
        BY <1>1, <2>1, <2>4 DEF Schedule, TypeOK
      <3>2. KeptBy(a, k)
        BY <3>1 DEF OwedIsKept
      <3>3. InMaps(a, k) \/ k \in HandsOn(s, a) => Handed(<<>>, a, k)
        BY <2>2, <2>3, <3>1 DEF Handed
      <3>4. QED
        BY <1>0, <3>1, <3>2, <3>3, StepLists, KeptOn
    <2>5. CASE ~suspended
      <3> DEFINE new == <<ActorStep("defer", s.actor, s.delta)>>
      <3>1. new \in Seq(Step) /\ Goto(t, new)
        BY <1>1, <2>1, <2>5, StepIntro, StepLists DEF Schedule
      <3>2. 1 \in DOMAIN new /\ HandsOn(new[1], a) = IF s.actor = a THEN s.delta ELSE {}
        BY Places, HandsOnNew
      <3>3. k \in owed[a] \/ (a = s.actor /\ k \in s.delta)
        BY <1>1, <2>1, <2>5 DEF Schedule, TypeOK
      <3> HIDE DEF new
      <3>4. (a = s.actor /\ k \in s.delta) \/ k \in HandsOn(s, a) => Handed(new, a, k)
        BY <2>3, <3>2 DEF Handed
      <3>5. InMaps(a, k) => Handed(new, a, k)
        BY <2>2 DEF Handed
      <3>6. k \in owed[a] => KeptBy(a, k)
        BY DEF OwedIsKept
      <3>7. QED
        BY <1>0, <3>1, <3>3, <3>4, <3>5, <3>6, KeptOn
    <2>6. QED
      BY <2>4, <2>5
  <1>2. CASE DeferInventoryInteractionEvaluation(t)
    <2>1. s.op = "defer" /\ s.actor \in Actors /\ s.delta \in SUBSET Kinds
          /\ scheduled' = scheduled /\ owed' = owed
      BY <1>2, <1>a DEF DeferInventoryInteractionEvaluation, At
    <2> SUFFICES ASSUME NEW a \in Actors \ dead, NEW k \in owed[a] PROVE KeptBy(a, k)'
      BY <1>0, <2>1 DEF OwedIsKept
    <2>2. KeptBy(a, k) /\ k \in Kinds
      BY DEF OwedIsKept, TypeOK
    <2>3. HandsOn(s, a) = IF s.actor = a THEN s.delta ELSE {}
      BY <2>1, HandsOnStep
    <2>4. CASE Goto(t, <<>>) /\ DeferTo(s.actor, s.delta)
      <3>1. InMaps(a, k) \/ k \in HandsOn(s, a) => Handed(<<>>, a, k)
        BY <1>b, <2>1, <2>2, <2>3, <2>4 DEF Handed
      <3>2. QED
        BY <1>0, <2>2, <2>4, <3>1, StepLists, KeptOn
    <2>5. CASE Goto(t, <<ActorStep("enqueue", s.actor, s.delta)>>) /\ UNCHANGED interaction
      <3> DEFINE new == <<ActorStep("enqueue", s.actor, s.delta)>>
      <3>1. new \in Seq(Step) /\ Goto(t, new)
        BY <2>1, <2>5, StepIntro, StepLists
      <3>2. 1 \in DOMAIN new /\ HandsOn(new[1], a) = IF s.actor = a THEN s.delta ELSE {}
        BY Places, HandsOnNew
      <3> HIDE DEF new
      <3>3. InMaps(a, k) \/ k \in HandsOn(s, a) => Handed(new, a, k)
        BY <2>1, <2>3, <2>5, <3>2 DEF Handed, InMaps
      <3>4. QED
        BY <1>0, <2>2, <3>1, <3>3, KeptOn
    <2>6. QED
      BY <1>2, <2>4, <2>5 DEF DeferInventoryInteractionEvaluation
  <1>3. CASE Enqueue(t)
    <2>1. s.op = "enqueue" /\ s.actor \in Actors /\ s.delta \in SUBSET Kinds
          /\ interaction' = interaction /\ owed' = owed /\ scheduled' = Merged(scheduled, s.actor, s.delta)
      BY <1>3, <1>a DEF Enqueue, At
    <2>2. PICK new \in Seq(Step) : Goto(t, new)
      BY <1>3, StepForm DEF StepOf
    <2> SUFFICES ASSUME NEW a \in Actors \ dead, NEW k \in owed[a] PROVE KeptBy(a, k)'
      BY <1>0, <2>1 DEF OwedIsKept
    <2>3. KeptBy(a, k)
      BY DEF OwedIsKept
    <2>4. HandsOn(s, a) = IF s.actor = a THEN s.delta ELSE {}
      BY <2>1, HandsOnStep
    <2>5. /\ DOMAIN scheduled' = DOMAIN scheduled \cup {s.actor}
          /\ \A b \in DOMAIN scheduled : scheduled[b] \subseteq scheduled'[b]
          /\ s.delta \subseteq scheduled'[s.actor]
      BY <1>0, <2>1, MergedValues
    <2>6. InMaps(a, k) \/ k \in HandsOn(s, a) => Handed(new, a, k)
      BY <2>1, <2>4, <2>5 DEF Handed, InMaps
    <2>7. QED
      BY <1>0, <2>2, <2>3, <2>6, KeptOn
  <1>4. CASE PostPump(t)
    BY <1>0, <1>4, StepLists, KeptQuiet DEF PostPump, At, InMaps
  <1>5. CASE Nested(t)
    <2>1. s.op = "nested" /\ s.actor \in Actors /\ s.delta \in SUBSET Kinds
          /\ Goto(t, <<>>) /\ scheduled' = scheduled
      BY <1>5, <1>a DEF Nested, At
    <2>2. CASE UNCHANGED <<interaction, owed>>
      BY <1>0, <2>1, <2>2, StepLists, KeptQuiet DEF InMaps
    <2>3. CASE DeferTo(s.actor, s.delta) /\ owed' = [owed EXCEPT ![s.actor] = @ \cup s.delta]
      <3> SUFFICES ASSUME NEW a \in Actors \ dead, NEW k \in owed'[a] PROVE KeptBy(a, k)'
        BY <1>0 DEF OwedIsKept
      <3>1. k \in Kinds /\ (k \in owed[a] \/ (a = s.actor /\ k \in s.delta))
        BY <2>1, <2>3 DEF TypeOK
      <3>2. HandsOn(s, a) = {}
        BY <2>1, HandsOnStep
      <3>3. InMaps(a, k) \/ (a = s.actor /\ k \in s.delta) => Handed(<<>>, a, k)
        BY <1>b, <2>1, <2>3, <3>1 DEF Handed
      <3>4. k \in owed[a] => KeptBy(a, k)
        BY DEF OwedIsKept
      <3>5. QED
        BY <1>0, <2>1, <3>1, <3>2, <3>3, <3>4, StepLists, KeptOn
    <2>4. QED
      BY <1>5, <2>2, <2>3 DEF Nested
  <1>6. QED
    BY <1>1, <1>2, <1>3, <1>4, <1>5

\* The rounds of the pump and the evaluation of one actor.
LEMMA OwedPump ==
    ASSUME TypeOK, OwedIsKept, NEW t \in Threads,
           Pump(t) \/ Take(t) \/ Apply(t) \/ Repost(t)
    PROVE  OwedIsKept'
  <1> DEFINE s == Head(todo[t])
  <1>0. todo[t] # <<>> /\ s \in Step /\ scheduled \in MapOf(Actors, SUBSET Kinds)
    <2>1. StepOf(t)
      BY DEF StepOf
    <2>2. QED
      BY <2>1, StepForm DEF TypeOK
  <1>a. dead' = dead /\ interaction' = interaction
    BY DEF Pump, Take, Apply, Repost
  <1>1. CASE Pump(t) \/ Repost(t)
    <2>1. PICK new \in Seq(Step) : Goto(t, new)
      BY <1>1, StepForm DEF StepOf
    <2>2. s.op \in {"pump", "repost"} /\ UNCHANGED <<scheduled, owed>>
      BY <1>1 DEF Pump, Repost, At
    <2>3. QED
      BY <1>0, <1>a, <2>1, <2>2, KeptQuiet DEF InMaps
  <1>2. CASE Take(t)
    <2>1. s.op = "take" /\ owed' = owed
      BY <1>2 DEF Take, At
    <2>2. CASE Goto(t, <<>>) /\ UNCHANGED scheduled
      BY <1>0, <1>a, <2>1, <2>2, StepLists, KeptQuiet DEF InMaps
    <2>3. ASSUME NEW first \in Actors, NEW next \in {"take", "repost"}, IsFirst(first, scheduled),
                 Goto(t, <<ActorStep("apply", first, scheduled[first]), PumpStep(next, s.gen)>>),
                 scheduled' = Without(scheduled, {first})
          PROVE  OwedIsKept'
      <3> DEFINE apply == ActorStep("apply", first, scheduled[first])
                 new == <<apply, PumpStep(next, s.gen)>>
      <3>1. scheduled[first] \in SUBSET Kinds /\ s.gen \in Nat
        BY <1>0, <2>1, <2>3, MapOfElim, StepFields DEF IsFirst, PumpOps
      <3>2. new \in Seq(Step) /\ Goto(t, new)
        BY <2>3, <3>1, StepIntro, StepLists DEF PumpOps
      <3>3. 1 \in DOMAIN new /\ new[1] = apply
        BY Places
      <3> HIDE DEF new
      <3> SUFFICES ASSUME NEW a \in Actors \ dead, NEW k \in owed[a] PROVE KeptBy(a, k)'
        BY <1>a, <2>1 DEF OwedIsKept
      <3>4. KeptBy(a, k)
        BY DEF OwedIsKept
      <3>5. HandsOn(s, a) = {}
        BY <2>1, HandsOnStep
      <3>6. HandsOn(new[1], a) = IF first = a THEN scheduled[first] ELSE {}
        <4>1. HandsOn(apply, a) = IF first = a THEN scheduled[first] ELSE {}
          BY HandsOnNew
        <4>2. QED
          BY <3>3, <4>1
      <3>7. InMaps(a, k) => Handed(new, a, k)
        <4>1. CASE a = first /\ a \in DOMAIN scheduled /\ k \in scheduled[a]
          BY <3>3, <3>6, <4>1 DEF Handed
        <4>2. CASE a # first /\ a \in DOMAIN scheduled /\ k \in scheduled[a]
          <5>1. a \in DOMAIN scheduled' /\ scheduled'[a] = scheduled[a]
            BY <2>3, <4>2 DEF Without
          <5>2. QED
            BY <4>2, <5>1 DEF Handed, InMaps
        <4>3. CASE a \in DOMAIN interaction.pending /\ k \in interaction.pending[a]
          BY <1>a, <4>3 DEF Handed, InMaps
        <4>4. QED
          BY <4>1, <4>2, <4>3 DEF InMaps
      <3>8. QED
        BY <1>0, <3>2, <3>4, <3>5, <3>7, KeptOn
    <2>4. QED
      BY <1>2, <2>2, <2>3 DEF Take
  <1>3. CASE Apply(t)
    <2>1. s.op = "apply" /\ s.actor \in Actors /\ s.delta \in SUBSET Kinds
          /\ scheduled' = scheduled /\ owed' = [owed EXCEPT ![s.actor] = @ \ s.delta]
      BY <1>0, <1>3, StepFields DEF Apply, At
    <2>2. PICK new \in Seq(Step) : Goto(t, new)
      BY <1>3, StepForm DEF StepOf
    <2> SUFFICES ASSUME NEW a \in Actors \ dead, NEW k \in owed'[a] PROVE KeptBy(a, k)'
      BY <1>a DEF OwedIsKept
    <2>3. k \in owed[a] /\ ~(a = s.actor /\ k \in s.delta)
      BY <2>1 DEF TypeOK
    <2>4. KeptBy(a, k)
      BY <2>3 DEF OwedIsKept
    <2>5. HandsOn(s, a) = IF s.actor = a THEN s.delta ELSE {}
      BY <2>1, HandsOnStep
    <2>6. InMaps(a, k) \/ k \in HandsOn(s, a) => Handed(new, a, k)
      BY <1>a, <2>1, <2>3, <2>5 DEF Handed, InMaps
    <2>7. QED
      BY <1>0, <2>2, <2>4, <2>6, KeptOn
  <1>4. QED
    BY <1>1, <1>2, <1>3

\* The inventory interaction and the loops over the actors.
LEMMA OwedInteraction ==
    ASSUME TypeOK, BatchOfActors, OwedIsKept, NEW t \in Threads,
           \/ BeginInventoryInteraction(t) \/ MoveScheduled(t)
           \/ EndInventoryInteraction(t) \/ Release(t) \/ Each(t)
    PROVE  OwedIsKept'
  <1> DEFINE s == Head(todo[t])
  <1>0. /\ todo[t] # <<>> /\ s \in Step /\ scheduled \in MapOf(Actors, SUBSET Kinds)
        /\ interaction.pending \in MapOf(Actors, SUBSET Kinds)
    <2>1. StepOf(t)
      BY DEF StepOf
    <2>2. QED
      BY <2>1, StepForm DEF TypeOK
  <1>a. dead' = dead /\ owed' = owed
    BY DEF BeginInventoryInteraction, MoveScheduled, EndInventoryInteraction, Release, Each
  <1>1. CASE BeginInventoryInteraction(t)
    <2>1. /\ s.op = "begin" /\ Goto(t, <<>>) /\ scheduled' = scheduled
          /\ interaction'.pending = IF interaction.active THEN interaction.pending ELSE <<>>
      BY <1>1 DEF BeginInventoryInteraction, At
    <2>2. \A a \in Actors, k \in Kinds : InMaps(a, k) => InMaps(a, k)'
      BY <2>1 DEF InMaps, BatchOfActors
    <2>3. QED
      BY <1>0, <1>a, <2>1, <2>2, StepLists, KeptQuiet
  <1>2. CASE MoveScheduled(t)
    <2> DEFINE held == interaction.pending
               moved == s.actors \cap DOMAIN scheduled
    <2>1. s.op = "moveScheduled" /\ Goto(t, <<>>) /\ scheduled' = Without(scheduled, moved)
      BY <1>2 DEF MoveScheduled, At
    <2>2. interaction'.pending =
            [a \in DOMAIN held \cup moved |->
                (IF a \in DOMAIN held THEN held[a] ELSE {})
                \cup (IF a \in moved THEN scheduled[a] ELSE {})]
      BY <1>2 DEF MoveScheduled, TypeOK
    <2>3. \A a \in Actors, k \in Kinds : InMaps(a, k) => InMaps(a, k)'
      <3> SUFFICES ASSUME NEW a \in Actors, NEW k \in Kinds, InMaps(a, k) PROVE InMaps(a, k)'
        OBVIOUS
      <3>1. CASE a \in moved /\ k \in scheduled[a]
        <4>1. a \in DOMAIN interaction'.pending /\ k \in interaction'.pending[a]
          BY <2>2, <3>1
        <4>2. QED
          BY <4>1 DEF InMaps
      <3>2. CASE a \in DOMAIN scheduled /\ a \notin moved /\ k \in scheduled[a]
        <4>1. a \in DOMAIN scheduled' /\ scheduled'[a] = scheduled[a]
          BY <2>1, <3>2 DEF Without
        <4>2. QED
          BY <3>2, <4>1 DEF InMaps
      <3>3. CASE a \in DOMAIN held /\ k \in held[a]
        <4>1. a \in DOMAIN interaction'.pending /\ k \in interaction'.pending[a]
          BY <2>2, <3>3
        <4>2. QED
          BY <4>1 DEF InMaps
      <3>4. QED
        BY <3>1, <3>2, <3>3 DEF InMaps
    <2>4. QED
      BY <1>0, <1>a, <2>1, <2>3, StepLists, KeptQuiet
  <1>3. CASE EndInventoryInteraction(t)
    BY <1>0, <1>3, <1>a, StepLists, KeptQuiet DEF EndInventoryInteraction, At, InMaps
  <1>4. CASE Release(t)
    <2>1. s.op = "release" /\ scheduled' = scheduled
      BY <1>4 DEF Release, At
    <2>2. CASE Goto(t, <<>>) /\ UNCHANGED interaction
      BY <1>0, <1>a, <2>1, <2>2, StepLists, KeptQuiet DEF InMaps
    <2> DEFINE held == interaction.pending
               batch == [a \in DOMAIN held \cap interaction.actors |-> held[a]]
    <2>3. CASE Goto(t, <<EachStep(batch)>>)
      <3>1. PICK new \in Seq(Step) : Goto(t, new) /\ new = <<EachStep(batch)>>
        <4>1. DOMAIN held \in SUBSET Actors /\ held \in [DOMAIN held -> SUBSET Kinds]
          BY <1>0, MapOfElim
        <4>2. DOMAIN held \cap interaction.actors \in SUBSET Actors
          BY <4>1
        <4>3. batch \in [DOMAIN held \cap interaction.actors -> SUBSET Kinds]
          BY <4>1
        <4> HIDE DEF batch
        <4>4. EachStep(batch) \in Step
          BY <4>2, <4>3, MapOfIntro, StepIntro
        <4>5. QED
          BY <2>3, <4>4, StepLists
      <3>2. 1 \in DOMAIN new /\ new[1] = EachStep(batch)
        BY <3>1, Places
      <3>3. DOMAIN batch = DOMAIN held /\ \A a \in DOMAIN held : batch[a] = held[a]
        BY DEF BatchOfActors
      <3> SUFFICES ASSUME NEW a \in Actors \ dead, NEW k \in owed[a] PROVE KeptBy(a, k)'
        BY <1>a DEF OwedIsKept
      <3>4. KeptBy(a, k)
        BY DEF OwedIsKept
      <3>5. HandsOn(s, a) = {}
        BY <2>1, HandsOnStep
      <3> HIDE DEF batch
      <3>6. HandsOn(new[1], a) = IF a \in DOMAIN batch THEN batch[a] ELSE {}
        <4>1. HandsOn(EachStep(batch), a) = IF a \in DOMAIN batch THEN batch[a] ELSE {}
          BY HandsOnNew
        <4>2. QED
          BY <3>2, <4>1
      <3>7. InMaps(a, k) => Handed(new, a, k)
        BY <2>1, <3>2, <3>3, <3>6 DEF Handed, InMaps
      <3>8. QED
        BY <1>0, <3>1, <3>4, <3>5, <3>7, KeptOn
    <2>4. QED
      BY <1>4, <2>2, <2>3 DEF Release
  <1>5. CASE Each(t)
    <2>1. /\ s.op = "each" /\ s.deltas \in MapOf(Actors, SUBSET Kinds)
          /\ UNCHANGED <<scheduled, interaction>>
      BY <1>0, <1>5, StepFields DEF Each, At
    <2> SUFFICES ASSUME NEW a \in Actors \ dead, NEW k \in owed[a] PROVE KeptBy(a, k)'
      BY <1>a DEF OwedIsKept
    <2>2. KeptBy(a, k)
      BY DEF OwedIsKept
    <2>3. HandsOn(s, a) = IF a \in DOMAIN s.deltas THEN s.deltas[a] ELSE {}
      BY <2>1, HandsOnStep
    <2>4. \A new : InMaps(a, k) => Handed(new, a, k)
      BY <2>1 DEF Handed, InMaps
    <2>5. CASE s.deltas = <<>> /\ Goto(t, <<>>)
      <3>1. DOMAIN <<>> = {}
        OBVIOUS
      <3>2. HandsOn(s, a) = {}
        BY <2>3, <2>5, <3>1
      <3>3. QED
        BY <1>0, <2>2, <2>4, <2>5, <3>2, StepLists, KeptOn
    <2>6. ASSUME NEW first \in Actors, IsFirst(first, s.deltas),
                 Goto(t, IF first \in dead THEN <<EachStep(Without(s.deltas, {first}))>>
                         ELSE <<ActorStep("schedule", first, s.deltas[first]),
                                EachStep(Without(s.deltas, {first}))>>)
          PROVE  KeptBy(a, k)'
      <3> DEFINE rest == EachStep(Without(s.deltas, {first}))
                 head == ActorStep("schedule", first, s.deltas[first])
      <3>1. rest \in Step /\ head \in Step
        <4>1. s.deltas[first] \in SUBSET Kinds /\ Without(s.deltas, {first}) \in MapOf(Actors, SUBSET Kinds)
          BY <2>1, <2>6, MapOfElim, WithoutType DEF IsFirst
        <4>2. QED
          BY <4>1, StepIntro
      <3>2. HandsOn(head, a) = IF first = a THEN s.deltas[first] ELSE {}
        BY HandsOnNew
      <3>3. a # first /\ a \in DOMAIN s.deltas => HandsOn(rest, a) = s.deltas[a]
        BY HandsOnLess
      <3> HIDE DEF rest, head
      <3>4. CASE first \in dead
        <4> DEFINE new == <<rest>>
        <4>1. new \in Seq(Step) /\ Goto(t, new) /\ 1 \in DOMAIN new /\ new[1] = rest
          BY <2>6, <3>1, <3>4, StepLists, Places DEF rest
        <4> HIDE DEF new
        <4>2. k \in HandsOn(s, a) => Handed(new, a, k)
          BY <2>3, <3>3, <3>4, <4>1 DEF Handed
        <4>3. QED
          BY <1>0, <2>2, <2>4, <4>1, <4>2, KeptOn
      <3>5. CASE first \notin dead
        <4> DEFINE new == <<head, rest>>
        <4>1. new \in Seq(Step) /\ Goto(t, new) /\ DOMAIN new = {1, 2} /\ new[1] = head /\ new[2] = rest
          BY <2>6, <3>1, <3>5, StepLists, Places DEF rest, head
        <4> HIDE DEF new
        <4>2. k \in HandsOn(s, a) => Handed(new, a, k)
          BY <2>3, <3>2, <3>3, <4>1 DEF Handed
        <4>3. QED
          BY <1>0, <2>2, <2>4, <4>1, <4>2, KeptOn
      <3>6. QED
        BY <3>4, <3>5
    <2>7. QED
      BY <1>5, <2>5, <2>6 DEF Each
  <1>6. QED
    BY <1>1, <1>2, <1>3, <1>4, <1>5

\* Forgetting an actor and resetting the state owe nothing of what they drop.
LEMMA OwedTransition ==
    ASSUME TypeOK, OwedIsKept, NEW t \in Threads,
           \/ ForgetScheduled(t) \/ ForgetInteraction(t)
           \/ ResetScheduled(t) \/ ResetInteraction(t)
           \/ SuspendRuleEvaluationForLoad(t) \/ SetContext(t)
           \/ ResumeRuleEvaluationAfterLoad(t) \/ Refresh(t)
    PROVE  OwedIsKept'
  <1> DEFINE s == Head(todo[t])
  <1>0. todo[t] # <<>> /\ s \in Step
    <2>1. StepOf(t)
      BY DEF StepOf
    <2>2. QED
      BY <2>1, StepForm
  <1>a. dead' = dead
    BY DEF ForgetScheduled, ForgetInteraction, ResetScheduled, ResetInteraction,
           SuspendRuleEvaluationForLoad, SetContext, ResumeRuleEvaluationAfterLoad, Refresh
  <1>1. CASE ForgetScheduled(t) \/ ForgetInteraction(t)
    <2>1. /\ s.op \in {"forgetScheduled", "forgetInteraction"} /\ Goto(t, <<>>) /\ s.actor \in Actors
          /\ owed' = [owed EXCEPT ![s.actor] = {}]
      BY <1>0, <1>1, StepFields DEF ForgetScheduled, ForgetInteraction, At
    <2> SUFFICES ASSUME NEW a \in Actors \ dead, NEW k \in owed'[a] PROVE KeptBy(a, k)'
      BY <1>a DEF OwedIsKept
    <2>2. a # s.actor /\ k \in owed[a]
      BY <2>1 DEF TypeOK
    <2>3. KeptBy(a, k)
      BY <2>2 DEF OwedIsKept
    <2>4. HandsOn(s, a) = {}
      BY <2>1, HandsOnStep
    <2>5. InMaps(a, k) => InMaps(a, k)'
      <3>1. CASE ForgetScheduled(t)
        <4>1. scheduled' = Without(scheduled, {s.actor}) /\ interaction' = interaction
          BY <3>1 DEF ForgetScheduled
        <4>2. a \in DOMAIN scheduled => a \in DOMAIN scheduled' /\ scheduled'[a] = scheduled[a]
          BY <2>2, <4>1 DEF Without
        <4>3. QED
          BY <4>1, <4>2 DEF InMaps
      <3>2. CASE ForgetInteraction(t)
        <4> DEFINE held == interaction.pending
        <4>1. interaction'.pending = Without(held, {s.actor}) /\ scheduled' = scheduled
          BY <3>2 DEF ForgetInteraction, TypeOK
        <4>2. a \in DOMAIN held => a \in DOMAIN interaction'.pending /\ interaction'.pending[a] = held[a]
          BY <2>2, <4>1 DEF Without
        <4>3. QED
          BY <4>1, <4>2 DEF InMaps
      <3>3. QED
        BY <1>1, <3>1, <3>2
    <2>6. InMaps(a, k) \/ k \in HandsOn(s, a) => Handed(<<>>, a, k)
      BY <2>4, <2>5 DEF Handed
    <2>7. QED
      BY <1>0, <2>1, <2>3, <2>6, StepLists, KeptOn
  <1>2. CASE ResetScheduled(t) \/ ResetInteraction(t)
    <2>1. owed' = [a \in Actors |-> {}]
      BY <1>2 DEF ResetScheduled, ResetInteraction
    <2>2. QED
      BY <2>1 DEF OwedIsKept
  <1>3. CASE \/ SuspendRuleEvaluationForLoad(t) \/ SetContext(t)
             \/ ResumeRuleEvaluationAfterLoad(t) \/ Refresh(t)
    <2>1. PICK new \in Seq(Step) : Goto(t, new)
      BY <1>3, StepForm DEF StepOf
    <2>2. /\ s.op \in {"suspend", "validate", "invalidate", "resume", "refresh"}
          /\ UNCHANGED <<scheduled, interaction, owed>>
      BY <1>3 DEF SuspendRuleEvaluationForLoad, SetContext, ResumeRuleEvaluationAfterLoad, Refresh, At
    <2>3. QED
      BY <1>0, <1>a, <2>1, <2>2, KeptQuiet DEF InMaps
  <1>4. QED
    BY <1>1, <1>2, <1>3

LEMMA WorkStepOf ==
    ASSUME TypeOK, PumpInv, WorkInv, NEW t \in Threads, StepOf(t)
    PROVE  WorkInv'
  <1>1. MenuOrder' /\ BatchOfActors'
    BY MenuOrderStep, BatchStep DEF WorkInv
  <1>2. OwedIsKept'
    BY OwedSchedule, OwedPump, OwedInteraction, OwedTransition DEF WorkInv, StepOf
  <1>3. QED
    BY <1>1, <1>2 DEF WorkInv

----------------------------------------------------------------------------
(* The queues and the events.                                              *)

\* An idle thread starts a handler: nothing it held is replaced.
LEMMA StartWork ==
    ASSUME TypeOK, WorkInv, NEW t \in Threads, NEW steps \in Seq(Step), Paired(steps),
           Start(t, steps), UNCHANGED <<scheduled, interaction, owed>>, dead \subseteq dead'
    PROVE  WorkInv'
  <1>1. MenuOrder' /\ BatchOfActors'
    BY MenuOrderStart DEF WorkInv, BatchOfActors
  <1>2. \A u \in Threads : \A i \in DOMAIN todo[u] : todo'[u] = todo[u]
    <2>1. todo[t] = <<>> /\ todo'= [todo EXCEPT ![t] = steps]
      BY DEF Start, Idle
    <2>2. \A u \in Threads \ {t} : todo'[u] = todo[u]
      BY <2>1 DEF TypeOK
    <2>3. \A i \in DOMAIN todo[t] : FALSE
      BY <2>1, Places
    <2>4. QED
      BY <2>2, <2>3
  <1>3. \A a, k : KeptBy(a, k) => KeptBy(a, k)'
    BY <1>2 DEF KeptBy, InMaps
  <1>4. OwedIsKept'
    BY <1>3 DEF WorkInv, OwedIsKept
  <1>5. QED
    BY <1>1, <1>4 DEF WorkInv

\* The main thread starts a handler without a step of the menu.
LEMMA PlainStartWork ==
    ASSUME TypeOK, WorkInv, NEW steps \in Seq(PlainSteps), Start(Main, steps),
           UNCHANGED <<scheduled, interaction, owed>>, dead \subseteq dead'
    PROVE  WorkInv'
  <1>1. steps \in Seq(Step) /\ Paired(steps) /\ Main \in Threads
    BY PairedPlain DEF Threads
  <1>2. QED
    BY <1>1, StartWork

LEMMA PlainLists ==
    /\ <<>> \in Seq(PlainSteps)
    /\ \A s \in PlainSteps : <<s>> \in Seq(PlainSteps)
    /\ \A s1, s2 \in PlainSteps : <<s1, s2>> \in Seq(PlainSteps)
    /\ \A q1, q2 \in Seq(PlainSteps) : q1 \o q2 \in Seq(PlainSteps)
  OBVIOUS

LEMMA PlainIntro ==
    /\ \A op \in {"schedule", "apply"}, a \in Actors, d \in SUBSET Kinds :
         ActorStep(op, a, d) \in PlainSteps
    /\ \A op \in {"forgetScheduled", "forgetInteraction"}, a \in Actors :
         [op |-> op, actor |-> a] \in PlainSteps
    /\ \A D \in SUBSET Actors, d \in SUBSET Kinds : EachStep([a \in D |-> d]) \in PlainSteps
    /\ \A op \in {"end", "suspend", "resetScheduled", "resetInteraction",
                  "validate", "invalidate", "resume"} : Plain(op) \in PlainSteps
  <1>1. /\ \A op, a, d : ActorStep(op, a, d).op = op
        /\ \A op, a : [op |-> op, actor |-> a].op = op
        /\ \A m : EachStep(m).op = "each"
        /\ \A op : Plain(op).op = op
    BY DEF ActorStep, EachStep, Plain
  <1>2. \A D \in SUBSET Actors, d \in SUBSET Kinds : EachStep([a \in D |-> d]) \in Step
    BY EachStepType
  <1>3. QED
    BY <1>1, <1>2, StepIntro DEF PlainSteps, MenuOps

\* No event drops a change.
LEMMA EngineWork ==
    ASSUME TypeOK, PumpInv, WorkInv,
           RunTask \/ (\E timer \in timers : FireTimer(timer)) \/ EngineEvent
    PROVE  WorkInv'
  <1>0. Player \in Actors /\ {Inventory} \in SUBSET Kinds /\ Full \in SUBSET Kinds
        /\ Main \in Threads /\ Loaders \subseteq Threads
    BY ActorAssumption DEF Full, Threads
  <1>1. CASE RunTask
    <2>1. Head(tasks) = tasks[1] /\ 1 \in DOMAIN tasks /\ Head(tasks) \in Step
      BY <1>1 DEF RunTask, TypeOK
    <2>2. Head(tasks) \in PlainSteps
      BY <2>1 DEF PumpInv, QueuesCarry, PlainSteps, MenuOps
    <2>3. <<Head(tasks)>> \in Seq(PlainSteps)
      BY <2>2, PlainLists
    <2>4. QED
      BY <1>1, <2>3, PlainStartWork DEF RunTask
  <1>2. CASE (\E timer \in timers : FireTimer(timer)) \/ DropMenuEntry \/ Kill
    <2>1. UNCHANGED <<todo, scheduled, interaction, owed>> /\ dead \subseteq dead'
      BY <1>2 DEF FireTimer, DropMenuEntry, Kill
    <2>2. QED
      BY <2>1 DEF WorkInv, MenuOrder, At, BatchOfActors, OwedIsKept, KeptBy, InMaps
  <1>3. CASE ReportChange
    <2>1. PICK a \in Actors, d \in {{k} : k \in Kinds} \cup {Full} :
            Start(Main, <<ActorStep("schedule", a, d)>>)
      BY <1>3 DEF ReportChange
    <2>2. d \in SUBSET Kinds
      BY <1>0
    <2>3. <<ActorStep("schedule", a, d)>> \in Seq(PlainSteps)
      BY <2>2, PlainIntro, PlainLists
    <2>4. QED
      BY <1>3, <2>1, <2>3, PlainStartWork DEF ReportChange
  <1>4. CASE ReportAll
    <2>1. PICK d \in {{k} : k \in Kinds} \cup {Full} : Start(Main, <<EachStep([a \in Actors |-> d])>>)
      BY <1>4 DEF ReportAll
    <2>2. d \in SUBSET Kinds /\ Actors \in SUBSET Actors
      BY <1>0
    <2>3. <<EachStep([a \in Actors |-> d])>> \in Seq(PlainSteps)
      BY <2>2, PlainIntro, PlainLists
    <2>4. QED
      BY <1>4, <2>1, <2>3, PlainStartWork DEF ReportAll
  <1>5. CASE LevelUp
    <2>1. ASSUME NEW k \in Kinds
          PROVE  /\ <<EachStep([a \in Actors \ {Player} |-> {k}])>> \in Seq(PlainSteps)
                 /\ <<ActorStep("apply", Player, {k})>> \in Seq(PlainSteps)
      <3>1. {k} \in SUBSET Kinds /\ Actors \ {Player} \in SUBSET Actors
        OBVIOUS
      <3>2. EachStep([a \in Actors \ {Player} |-> {k}]) \in PlainSteps
        BY <3>1, PlainIntro
      <3>3. QED
        BY <1>0, <3>1, <3>2, PlainIntro, PlainLists
    <2>2. PICK steps \in Seq(PlainSteps) : Start(Main, steps)
      BY <1>5, <2>1, PlainLists DEF LevelUp
    <2>3. QED
      BY <1>5, <2>2, PlainStartWork DEF LevelUp
  <1>6. CASE ContainerChanged
    <2>1. \A a \in Actors : TransferSteps(a) \in Seq(Step) /\ Paired(TransferSteps(a))
      <3> SUFFICES ASSUME NEW a \in Actors
                   PROVE  TransferSteps(a) \in Seq(Step) /\ Paired(TransferSteps(a))
        OBVIOUS
      <3>1. ActorStep("schedule", a, {Inventory}) \in PlainSteps
        BY <1>0, PlainIntro
      <3>2. QED
        BY <3>1, MenuStepsPaired DEF TransferSteps, TypeOK
    <2>2. \A a, b \in Actors : /\ TransferSteps(a) \o TransferSteps(b) \in Seq(Step)
                               /\ Paired(TransferSteps(a) \o TransferSteps(b))
      BY <2>1, JoinPlaces, PairedJoin
    <2>3. PICK steps \in Seq(Step) : Paired(steps) /\ Start(Main, steps)
      BY <1>6, <2>1, <2>2 DEF ContainerChanged
    <2>4. QED
      BY <1>0, <1>6, <2>3, StartWork DEF ContainerChanged
  <1>7. ASSUME NEW t \in Loaders, BackgroundClone(t)
        PROVE  WorkInv'
    <2>1. PICK a \in Actors \ (dead \cup {Player}) : Start(t, <<ActorStep("schedule", a, Full)>>)
      BY <1>7 DEF BackgroundClone
    <2>2. <<ActorStep("schedule", a, Full)>> \in Seq(PlainSteps)
      BY <1>0, PlainIntro, PlainLists
    <2>3. <<ActorStep("schedule", a, Full)>> \in Seq(Step) /\ Paired(<<ActorStep("schedule", a, Full)>>)
      BY <2>2, PairedPlain
    <2>4. t \in Threads
      BY <1>0
    <2>5. QED
      BY <1>7, <2>1, <2>3, <2>4, StartWork DEF BackgroundClone
  <1>8. CASE Unload
    <2>1. PICK a \in Actors \ {Player} :
            Start(Main, <<[op |-> "forgetScheduled", actor |-> a],
                          [op |-> "forgetInteraction", actor |-> a]>>)
      BY <1>8 DEF Unload
    <2>2. <<[op |-> "forgetScheduled", actor |-> a],
            [op |-> "forgetInteraction", actor |-> a]>> \in Seq(PlainSteps)
      BY PlainIntro, PlainLists
    <2>3. QED
      BY <1>8, <2>1, <2>2, PlainStartWork DEF Unload
  <1>9. CASE OpenMenu
    <2>1. PICK target \in SUBSET Actors :
            Start(Main, <<[op |-> "begin", actors |-> target \cup {Player}],
                          [op |-> "moveScheduled", actors |-> target \cup {Player}]>>)
      BY <1>9 DEF OpenMenu
    <2> DEFINE S == target \cup {Player}
               steps == <<[op |-> "begin", actors |-> S], [op |-> "moveScheduled", actors |-> S]>>
    <2>2. S \in SUBSET Actors
      BY <1>0
    <2>3. steps \in Seq(Step) /\ Paired(steps)
      BY <2>2, StepIntro, StepLists, PairedMenu
    <2> HIDE DEF steps
    <2>4. Start(Main, steps)
      BY <2>1 DEF steps
    <2>5. QED
      BY <1>0, <1>9, <2>3, <2>4, StartWork DEF OpenMenu
  <1>10. CASE CloseMenu
    <2>1. <<Plain("end")>> \in Seq(PlainSteps)
      BY PlainIntro, PlainLists
    <2>2. QED
      BY <1>10, <2>1, PlainStartWork DEF CloseMenu
  <1>a. ResetSteps \in Seq(PlainSteps)
    BY PlainIntro, PlainLists DEF ResetSteps
  <1>11. CASE PreLoadGame
    <2>1. PICK outcome \in {"noName", "validate", "invalidate"} :
            Start(Main, <<Plain("suspend")>>
                        \o (IF outcome = "noName" THEN <<>>
                            ELSE ResetSteps \o <<Plain(outcome)>>))
      BY <1>11 DEF PreLoadGame
    <2>2. outcome # "noName" => <<Plain(outcome)>> \in Seq(PlainSteps)
      BY PlainIntro, PlainLists
    <2>3. outcome # "noName" => ResetSteps \o <<Plain(outcome)>> \in Seq(PlainSteps)
      BY <1>a, <2>2, PlainLists
    <2>4. <<Plain("suspend")>> \in Seq(PlainSteps) /\ <<>> \in Seq(PlainSteps)
      BY PlainIntro, PlainLists
    <2>5. <<Plain("suspend")>> \o (IF outcome = "noName" THEN <<>>
                                   ELSE ResetSteps \o <<Plain(outcome)>>) \in Seq(PlainSteps)
      BY <2>3, <2>4, PlainLists
    <2>6. QED
      BY <1>11, <2>1, <2>5, PlainStartWork DEF PreLoadGame
  <1>12. CASE PostLoadGame
    <2>1. <<Plain("resume")>> \in Seq(PlainSteps)
      BY PlainIntro, PlainLists
    <2>2. QED
      BY <1>12, <2>1, PlainStartWork DEF PostLoadGame
  <1>13. CASE NewGame
    <2>1. <<Plain("validate"), Plain("resume")>> \in Seq(PlainSteps)
      BY PlainIntro, PlainLists
    <2>2. ResetSteps \o <<Plain("validate"), Plain("resume")>> \in Seq(PlainSteps)
      BY <1>a, <2>1, PlainLists
    <2>3. QED
      BY <1>13, <2>2, PlainStartWork DEF NewGame
  <1>14. QED
    BY <1>1, <1>2, <1>3, <1>4, <1>5, <1>6, <1>7, <1>8, <1>9, <1>10, <1>11, <1>12, <1>13
    DEF EngineEvent

----------------------------------------------------------------------------
LEMMA InitWork == Init => WorkInv
  <1> SUFFICES ASSUME Init PROVE WorkInv
    OBVIOUS
  <1>1. Main \in Threads /\ todo[Main] = <<>>
    BY DEF Init, Threads
  <1>2. MenuOrder
    BY <1>1, PlainLists, PairedPlain DEF MenuOrder, At
  <1>3. BatchOfActors /\ OwedIsKept
    BY Places DEF Init, NoInteraction, BatchOfActors, OwedIsKept
  <1>4. QED
    BY <1>2, <1>3 DEF WorkInv

LEMMA NextWork == TypeOK /\ PumpInv /\ WorkInv /\ [Next]_vars => WorkInv'
  <1> SUFFICES ASSUME TypeOK, PumpInv, WorkInv, [Next]_vars PROVE WorkInv'
    OBVIOUS
  <1>1. CASE \E t \in Threads : StepOf(t)
    BY <1>1, WorkStepOf
  <1>2. CASE RunTask \/ (\E timer \in timers : FireTimer(timer)) \/ EngineEvent
    BY <1>2, EngineWork
  <1>3. CASE UNCHANGED vars
    BY <1>3 DEF WorkInv, MenuOrder, At, BatchOfActors, OwedIsKept, KeptBy, InMaps
  <1>4. QED
    BY <1>1, <1>2, <1>3 DEF Next

\* No sequence of reports, menus, releases and container events, on whatever
\* threads, drops a change between its acceptance and its evaluation
\* (ScheduleRuleEvaluation, DeferInventoryInteractionEvaluation and the release).
THEOREM ChangesAreKept == Spec => []NoChangeLost
  <1>1. WorkInv => NoChangeLost
    <2> SUFFICES ASSUME WorkInv, NEW a \in Actors \ dead, NEW k \in owed[a] PROVE HeldBy(a, k)
      BY DEF NoChangeLost
    <2>1. KeptBy(a, k)
      BY DEF WorkInv, OwedIsKept
    <2>2. \A s : k \in HandsOn(s, a) => k \in Carried(s, a)
      BY DEF HandsOn
    <2>3. QED
      BY <2>1, <2>2 DEF KeptBy, InMaps, HeldBy
  <1>2. Spec => []PumpInv
    BY TypeCorrect, InitPump, NextPump, PTL DEF Spec
  <1>3. QED
    BY TypeCorrect, InitWork, NextWork, <1>1, <1>2, PTL DEF Spec

----------------------------------------------------------------------------
(* What a thread's list holds after a step, and what the events start.     *)

LEMMA GotoMembers ==
    ASSUME TypeOK, NEW t \in Threads, todo[t] # <<>>, NEW new \in Seq(Step), Goto(t, new)
    PROVE  /\ \A u \in Threads \ {t} : todo'[u] = todo[u]
           /\ \A i \in DOMAIN todo'[t] :
                \/ \E j \in DOMAIN new : todo'[t][i] = new[j]
                \/ \E j \in DOMAIN todo[t] : j > 1 /\ todo'[t][i] = todo[t][j]
           /\ \A j \in DOMAIN new : \E i \in DOMAIN todo'[t] : todo'[t][i] = new[j]
           /\ \A j \in DOMAIN todo[t] : j > 1 => \E i \in DOMAIN todo'[t] : todo'[t][i] = todo[t][j]
           /\ \A j \in DOMAIN todo[t] : j > 1 \/ todo[t][j] = Head(todo[t])
  <1> DEFINE old == todo[t]
             q == new \o Tail(old)
  <1>1. /\ old \in Seq(Step) /\ old # <<>> /\ todo'[t] = q
        /\ \A u \in Threads \ {t} : todo'[u] = todo[u]
    BY DEF Goto, TypeOK
  <1>2. /\ Tail(old) \in Seq(Step) /\ Head(old) = old[1] /\ 1 \in DOMAIN old
        /\ \A i \in DOMAIN old : i \in Nat /\ i >= 1 /\ (i > 1 => i - 1 \in DOMAIN Tail(old))
        /\ \A i \in DOMAIN Tail(old) :
             i \in Nat /\ i >= 1 /\ i + 1 \in DOMAIN old /\ Tail(old)[i] = old[i + 1]
    BY <1>1, TailPlaces
  <1> DEFINE n == Len(new)
             m == Len(Tail(old))
  <1>3. /\ DOMAIN new = 1..n /\ DOMAIN Tail(old) = 1..m /\ n \in Nat /\ m \in Nat
        /\ DOMAIN q = 1..(n + m)
        /\ \A i \in 1..n : q[i] = new[i]
        /\ \A i \in 1..m : q[n + i] = Tail(old)[i]
    BY <1>2, JoinPlaces
  <1> HIDE DEF q, n, m, old
  <1>4. \A i \in DOMAIN q : \/ \E j \in DOMAIN new : q[i] = new[j]
                            \/ \E j \in DOMAIN old : j > 1 /\ q[i] = old[j]
    <2> SUFFICES ASSUME NEW i \in DOMAIN q
                 PROVE  \/ \E j \in DOMAIN new : q[i] = new[j]
                        \/ \E j \in DOMAIN old : j > 1 /\ q[i] = old[j]
      OBVIOUS
    <2>1. CASE i <= n
      BY <1>3, <2>1
    <2>2. CASE i > n
      <3>1. i - n \in 1..m /\ i = n + (i - n)
        BY <1>3, <2>2
      <3>2. q[i] = Tail(old)[i - n] /\ i - n \in DOMAIN Tail(old)
        BY <1>3, <3>1
      <3>3. (i - n) + 1 \in DOMAIN old /\ (i - n) + 1 > 1 /\ q[i] = old[(i - n) + 1]
        BY <1>2, <3>2
      <3>4. QED
        BY <3>3
    <2>3. QED
      BY <1>3, <2>1, <2>2
  <1>5. \A j \in DOMAIN new : \E i \in DOMAIN q : q[i] = new[j]
    BY <1>3
  <1>6. \A j \in DOMAIN old : j > 1 => \E i \in DOMAIN q : q[i] = old[j]
    <2> SUFFICES ASSUME NEW j \in DOMAIN old, j > 1 PROVE \E i \in DOMAIN q : q[i] = old[j]
      OBVIOUS
    <2>1. j - 1 \in DOMAIN Tail(old) /\ (j - 1) + 1 = j
      BY <1>2
    <2>2. Tail(old)[j - 1] = old[j] /\ n + (j - 1) \in DOMAIN q /\ q[n + (j - 1)] = Tail(old)[j - 1]
      <3>1. Tail(old)[j - 1] = old[(j - 1) + 1]
        BY <1>2, <2>1
      <3>2. j - 1 \in 1..m
        BY <1>3, <2>1
      <3>3. n + (j - 1) \in DOMAIN q /\ q[n + (j - 1)] = Tail(old)[j - 1]
        BY <1>3, <3>2
      <3>4. QED
        BY <2>1, <3>1, <3>3
    <2>3. QED
      BY <2>2
  <1>7. \A j \in DOMAIN old : j > 1 \/ old[j] = Head(old)
    BY <1>2
  <1>8. QED
    BY <1>1, <1>4, <1>5, <1>6, <1>7 DEF old

StepsOf(ops) == {s \in Step : s.op \in ops}

LEMMA ListsOf ==
    ASSUME NEW ops
    PROVE  /\ <<>> \in Seq(StepsOf(ops))
           /\ \A s \in StepsOf(ops) : <<s>> \in Seq(StepsOf(ops))
           /\ \A s1, s2 \in StepsOf(ops) : <<s1, s2>> \in Seq(StepsOf(ops))
           /\ \A q1, q2 \in Seq(StepsOf(ops)) : q1 \o q2 \in Seq(StepsOf(ops))
           /\ \A q \in Seq(StepsOf(ops)) : q \in Seq(Step) /\ \A i \in DOMAIN q : q[i].op \in ops
  BY DEF StepsOf

LEMMA StepsOfIntro ==
    ASSUME NEW ops
    PROVE  /\ \A op \in {"schedule", "apply"} \cap ops, a \in Actors, d \in SUBSET Kinds :
                ActorStep(op, a, d) \in StepsOf(ops)
           /\ \A op \in MenuOps \cap ops, S \in SUBSET Actors : [op |-> op, actors |-> S] \in StepsOf(ops)
           /\ \A op \in {"forgetScheduled", "forgetInteraction"} \cap ops, a \in Actors :
                [op |-> op, actor |-> a] \in StepsOf(ops)
           /\ "each" \in ops => \A D \in SUBSET Actors, d \in SUBSET Kinds :
                EachStep([a \in D |-> d]) \in StepsOf(ops)
           /\ \A op \in {"end", "suspend", "resetScheduled", "resetInteraction",
                         "validate", "invalidate", "resume"} \cap ops : Plain(op) \in StepsOf(ops)
  <1>1. /\ \A op, a, d : ActorStep(op, a, d).op = op
        /\ \A op, S : [op |-> op, actors |-> S].op = op
        /\ \A op, a : [op |-> op, actor |-> a].op = op
        /\ \A m : EachStep(m).op = "each"
        /\ \A op : Plain(op).op = op
    BY DEF ActorStep, EachStep, Plain
  <1>2. \A D \in SUBSET Actors, d \in SUBSET Kinds : EachStep([a \in D |-> d]) \in Step
    BY EachStepType
  <1>3. \A op \in {"schedule", "apply"} \cap ops, a \in Actors, d \in SUBSET Kinds :
            ActorStep(op, a, d) \in StepsOf(ops)
    BY <1>1, StepIntro DEF StepsOf
  <1>4. \A op \in MenuOps \cap ops, S \in SUBSET Actors : [op |-> op, actors |-> S] \in StepsOf(ops)
    BY <1>1, StepIntro DEF StepsOf, MenuOps
  <1>5. \A op \in {"forgetScheduled", "forgetInteraction"} \cap ops, a \in Actors :
            [op |-> op, actor |-> a] \in StepsOf(ops)
    BY <1>1, StepIntro DEF StepsOf
  <1>6. "each" \in ops => \A D \in SUBSET Actors, d \in SUBSET Kinds :
            EachStep([a \in D |-> d]) \in StepsOf(ops)
    BY <1>1, <1>2 DEF StepsOf
  <1>7. \A op \in {"end", "suspend", "resetScheduled", "resetInteraction",
                   "validate", "invalidate", "resume"} \cap ops : Plain(op) \in StepsOf(ops)
    BY <1>1, StepIntro DEF StepsOf
  <1>8. QED
    BY <1>3, <1>4, <1>5, <1>6, <1>7

ReportOps == {"schedule", "each", "apply"}
TransferOps == {"begin", "moveScheduled", "schedule"}
ForgetOps == {"forgetScheduled", "forgetInteraction"}
TransitionOps == {"suspend", "resetScheduled", "resetInteraction", "validate", "invalidate", "resume"}

\* An event starts a report, a menu's transaction (with the menu's entry there),
\* the forgetting of an actor, the end of an interaction or a save transition.
Started(steps) ==
    \/ steps \in Seq(StepsOf(ReportOps))
    \/ steps \in Seq(StepsOf(TransferOps)) /\ menuEntry'
    \/ steps \in Seq(StepsOf(ForgetOps))
    \/ steps \in Seq(StepsOf({"end"}))
    \/ steps \in Seq(StepsOf(TransitionOps))

LEMMA EngineForm ==
    ASSUME TypeOK, EngineEvent
    PROVE  /\ UNCHANGED <<schedulerVars, tasks, timers>>
           /\ \/ UNCHANGED todo
              \/ \E t \in Threads, steps \in Seq(Step) : Start(t, steps) /\ Started(steps)
  <1>0. /\ Player \in Actors /\ {Inventory} \in SUBSET Kinds /\ Full \in SUBSET Kinds
        /\ Actors \in SUBSET Actors /\ Main \in Threads /\ Loaders \subseteq Threads
    BY ActorAssumption DEF Full, Threads
  <1>1. UNCHANGED <<schedulerVars, tasks, timers>>
    BY DEF EngineEvent, ReportChange, ReportAll, LevelUp, ContainerChanged, Unload, OpenMenu, CloseMenu,
           DropMenuEntry, Kill, PreLoadGame, PostLoadGame, NewGame, BackgroundClone
  <1> SUFFICES \/ UNCHANGED todo
               \/ \E t \in Threads : \E steps : Start(t, steps) /\ Started(steps)
    BY <1>1, ListsOf DEF Started
  <1>2. CASE ReportChange \/ \E t \in Loaders : BackgroundClone(t)
    <2>1. PICK t \in Threads, a \in Actors, d \in SUBSET Kinds : Start(t, <<ActorStep("schedule", a, d)>>)
      BY <1>0, <1>2 DEF ReportChange, BackgroundClone
    <2>2. ActorStep("schedule", a, d) \in StepsOf(ReportOps)
      BY StepsOfIntro DEF ReportOps
    <2>3. QED
      BY <2>1, <2>2, ListsOf DEF Started
  <1>3. CASE ReportAll
    <2>1. PICK d \in SUBSET Kinds : Start(Main, <<EachStep([a \in Actors |-> d])>>)
      BY <1>0, <1>3 DEF ReportAll
    <2>2. EachStep([a \in Actors |-> d]) \in StepsOf(ReportOps)
      BY <1>0, StepsOfIntro DEF ReportOps
    <2>3. QED
      BY <1>0, <2>1, <2>2, ListsOf DEF Started
  <1>4. CASE LevelUp
    <2>1. PICK k \in Kinds :
            LET others == <<EachStep([a \in Actors \ {Player} |-> {k}])>> IN
            Start(Main, others) \/ Start(Main, <<ActorStep("apply", Player, {k})>> \o others)
      BY <1>4 DEF LevelUp
    <2>2. {k} \in SUBSET Kinds /\ Actors \ {Player} \in SUBSET Actors
      OBVIOUS
    <2>3. /\ EachStep([a \in Actors \ {Player} |-> {k}]) \in StepsOf(ReportOps)
          /\ ActorStep("apply", Player, {k}) \in StepsOf(ReportOps)
      BY <1>0, <2>2, StepsOfIntro DEF ReportOps
    <2>4. \E steps \in Seq(StepsOf(ReportOps)) : Start(Main, steps)
      BY <2>1, <2>3, ListsOf
    <2>5. QED
      BY <1>0, <2>4 DEF Started
  <1>5. CASE ContainerChanged
    <2> DEFINE ops == IF menuEntry THEN TransferOps ELSE ReportOps
    <2>1. \A a \in Actors : TransferSteps(a) \in Seq(StepsOf(ops))
      <3> SUFFICES ASSUME NEW a \in Actors PROVE TransferSteps(a) \in Seq(StepsOf(ops))
        OBVIOUS
      <3>1. {a, Player} \in SUBSET Actors /\ ActorStep("schedule", a, {Inventory}) \in StepsOf(ops)
        BY <1>0, StepsOfIntro DEF ReportOps, TransferOps
      <3>2. MenuSteps(a, menuEntry) \in Seq(StepsOf(ops))
        BY <3>1, StepsOfIntro, ListsOf DEF MenuSteps, TransferOps, MenuOps
      <3> HIDE DEF ops
      <3>3. QED
        BY <3>1, <3>2 DEF TransferSteps
    <2> HIDE DEF ops
    <2>2. PICK steps \in Seq(StepsOf(ops)) : Start(Main, steps)
      BY <1>5, <2>1, ListsOf DEF ContainerChanged
    <2>3. menuEntry' = menuEntry
      BY <1>5 DEF ContainerChanged
    <2>4. QED
      BY <1>0, <2>2, <2>3 DEF Started, ops
  <1>6. CASE Unload
    <2>1. PICK a \in Actors \ {Player} :
            Start(Main, <<[op |-> "forgetScheduled", actor |-> a],
                          [op |-> "forgetInteraction", actor |-> a]>>)
      BY <1>6 DEF Unload
    <2>2. /\ [op |-> "forgetScheduled", actor |-> a] \in StepsOf(ForgetOps)
          /\ [op |-> "forgetInteraction", actor |-> a] \in StepsOf(ForgetOps)
      BY StepsOfIntro DEF ForgetOps
    <2>3. QED
      BY <1>0, <2>1, <2>2, ListsOf DEF Started
  <1>7. CASE OpenMenu
    <2>1. PICK target \in SUBSET Actors :
            Start(Main, <<[op |-> "begin", actors |-> target \cup {Player}],
                          [op |-> "moveScheduled", actors |-> target \cup {Player}]>>)
      BY <1>7 DEF OpenMenu
    <2>2. target \cup {Player} \in SUBSET Actors
      BY <1>0
    <2>3. /\ [op |-> "begin", actors |-> target \cup {Player}] \in StepsOf(TransferOps)
          /\ [op |-> "moveScheduled", actors |-> target \cup {Player}] \in StepsOf(TransferOps)
      BY <2>2, StepsOfIntro DEF TransferOps, MenuOps
    <2>4. QED
      BY <1>0, <1>7, <2>1, <2>3, ListsOf DEF Started, OpenMenu
  <1>8. CASE CloseMenu
    <2>1. Plain("end") \in StepsOf({"end"})
      BY StepsOfIntro
    <2>2. QED
      BY <1>0, <1>8, <2>1, ListsOf DEF Started, CloseMenu
  <1>9. CASE DropMenuEntry \/ Kill
    BY <1>9 DEF DropMenuEntry, Kill
  <1>a. \A op \in TransitionOps : Plain(op) \in StepsOf(TransitionOps)
    BY StepsOfIntro DEF TransitionOps
  <1>b. ResetSteps \in Seq(StepsOf(TransitionOps))
    BY <1>a, ListsOf DEF ResetSteps, TransitionOps
  <1>10. CASE PreLoadGame
    <2>1. PICK outcome \in {"noName", "validate", "invalidate"} :
            Start(Main, <<Plain("suspend")>>
                        \o (IF outcome = "noName" THEN <<>>
                            ELSE ResetSteps \o <<Plain(outcome)>>))
      BY <1>10 DEF PreLoadGame
    <2>2. outcome # "noName" => <<Plain(outcome)>> \in Seq(StepsOf(TransitionOps))
      BY <1>a, ListsOf DEF TransitionOps
    <2>3. outcome # "noName" => ResetSteps \o <<Plain(outcome)>> \in Seq(StepsOf(TransitionOps))
      BY <1>b, <2>2, ListsOf
    <2>4. <<Plain("suspend")>> \in Seq(StepsOf(TransitionOps)) /\ <<>> \in Seq(StepsOf(TransitionOps))
      BY <1>a, ListsOf DEF TransitionOps
    <2>5. <<Plain("suspend")>> \o (IF outcome = "noName" THEN <<>>
                                   ELSE ResetSteps \o <<Plain(outcome)>>) \in Seq(StepsOf(TransitionOps))
      BY <2>3, <2>4, ListsOf
    <2>6. QED
      BY <1>0, <2>1, <2>5 DEF Started
  <1>11. CASE PostLoadGame
    <2>1. <<Plain("resume")>> \in Seq(StepsOf(TransitionOps))
      BY <1>a, ListsOf DEF TransitionOps
    <2>2. QED
      BY <1>0, <1>11, <2>1 DEF Started, PostLoadGame
  <1>12. CASE NewGame
    <2>1. <<Plain("validate"), Plain("resume")>> \in Seq(StepsOf(TransitionOps))
      BY <1>a, ListsOf DEF TransitionOps
    <2>2. ResetSteps \o <<Plain("validate"), Plain("resume")>> \in Seq(StepsOf(TransitionOps))
      BY <1>b, <2>1, ListsOf
    <2>3. QED
      BY <1>0, <1>12, <2>2 DEF Started, NewGame
  <1>13. QED
    BY <1>2, <1>3, <1>4, <1>5, <1>6, <1>7, <1>8, <1>9, <1>10, <1>11, <1>12 DEF EngineEvent

----------------------------------------------------------------------------
(* What a loading thread does.                                             *)

LEMMA LoaderForm ==
    ASSUME TypeOK, PumpInv, NEW t \in Loaders, StepOf(t)
    PROVE  /\ t \in Threads /\ Main \in Threads /\ t # Main
           /\ todo'[Main] = todo[Main]
           /\ \/ Schedule(t) \/ DeferInventoryInteractionEvaluation(t) \/ Enqueue(t) \/ PostPump(t)
           /\ UNCHANGED <<suspended, generation>>
  <1>a. t \in Threads /\ Main \in Threads /\ t # Main
    BY ThreadAssumption DEF Threads
  <1>1. todo[t] # <<>> /\ Head(todo[t]) = todo[t][1] /\ 1 \in DOMAIN todo[t]
    BY <1>a, StepForm
  <1>2. todo'[Main] = todo[Main]
    <2>1. PICK new \in Seq(Step) : Goto(t, new)
      BY <1>a, StepForm
    <2>2. QED
      BY <1>a, <2>1 DEF Goto, TypeOK
  <1>3. Head(todo[t]).op \in {"schedule", "defer", "enqueue", "postPump"}
    BY <1>1 DEF PumpInv, LoadersOnlySchedule
  <1>4. \/ Schedule(t) \/ DeferInventoryInteractionEvaluation(t) \/ Enqueue(t) \/ PostPump(t)
    BY <1>3 DEF StepOf, Pump, Take, Apply, Nested, Repost, BeginInventoryInteraction, MoveScheduled,
       EndInventoryInteraction, Release, Each, ForgetScheduled, ForgetInteraction, ResetScheduled,
       ResetInteraction, SuspendRuleEvaluationForLoad, SetContext, ResumeRuleEvaluationAfterLoad,
       Refresh, At
  <1>5. UNCHANGED <<suspended, generation>>
    BY <1>4 DEF Schedule, DeferInventoryInteractionEvaluation, Enqueue, PostPump
  <1>6. QED
    BY <1>a, <1>2, <1>4, <1>5

----------------------------------------------------------------------------
(* The menu's transaction.                                                 *)

\* ScheduleRuleEvaluation releases the interaction mutex, which it tested the
\* actor under, before it takes the scheduler mutex to insert it.  Only a thread
\* other than the main one can find an interaction begun in between; here none does.
InsertsOnlyWhatIsFree ==
    [][\A t \in Loaders : Enqueue(t) => ~Deferred(Head(todo[t]).actor)]_vars

\* The evaluations of a held back actor are all in the batch, but for those that
\* the next step of the main thread moves there; the insertion into the map
\* follows at once on the test that found the actor not held back.
HeldBackIsMoved ==
    /\ \A a \in DOMAIN scheduled :
         Deferred(a) => At(Main, "moveScheduled") /\ a \in Head(todo[Main]).actors
    /\ At(Main, "enqueue") => ~Deferred(Head(todo[Main]).actor)
    /\ \A i \in DOMAIN todo[Main] : todo[Main][i].op = "enqueue" => i = 1

\* A step that neither queues nor holds back anything.
LEMMA HeldBackOn ==
    ASSUME TypeOK, HeldBackIsMoved, Main \in Threads, todo[Main] # <<>>,
           Head(todo[Main]).op # "moveScheduled",
           NEW new \in Seq(Step), Goto(Main, new),
           \A i \in DOMAIN new : new[i].op # "enqueue",
           DOMAIN scheduled' \subseteq DOMAIN scheduled,
           \A a : Deferred(a)' => Deferred(a)
    PROVE  HeldBackIsMoved'
  <1>1. \A i \in DOMAIN todo'[Main] : todo'[Main][i].op # "enqueue"
    <2>1. \A j \in DOMAIN todo[Main] : j > 1 => todo[Main][j].op # "enqueue"
      <3>1. \A j \in DOMAIN todo[Main] : j > 1 => j # 1
        BY DEF TypeOK
      <3>2. QED
        BY <3>1 DEF HeldBackIsMoved
    <2>2. QED
      BY <2>1, GotoMembers
  <1>2. todo'[Main] # <<>> => Head(todo'[Main]) = todo'[Main][1] /\ 1 \in DOMAIN todo'[Main]
    <2>1. todo'[Main] \in Seq(Step)
      BY GotoType DEF TypeOK
    <2>2. QED
      BY <2>1
  <1>3. \A a \in DOMAIN scheduled : ~Deferred(a)
    BY DEF HeldBackIsMoved, At
  <1>4. \A a \in DOMAIN scheduled' : ~Deferred(a)'
    BY <1>3
  <1>5. ~At(Main, "enqueue")'
    BY <1>1, <1>2 DEF At
  <1>6. QED
    BY <1>1, <1>4, <1>5 DEF HeldBackIsMoved

LEMMA HeldBackStep ==
    ASSUME TypeOK, WorkInv, HeldBackIsMoved, StepOf(Main)
    PROVE  HeldBackIsMoved'
  <1> DEFINE s == Head(todo[Main])
  <1>a. Main \in Threads
    BY DEF Threads
  <1>0. /\ todo[Main] # <<>> /\ s \in Step /\ s = todo[Main][1] /\ 1 \in DOMAIN todo[Main]
        /\ todo[Main] \in Seq(Step)
    BY <1>a, StepForm DEF TypeOK
  <1>b. PICK new \in Seq(Step) :
            Goto(Main, new) /\ \A i \in DOMAIN new : <<s.op, new[i].op>> \in Follow
    BY <1>a, StepForm
  <1>c. s.op # "defer" => \A i \in DOMAIN new : new[i].op # "enqueue"
    BY <1>b DEF Follow
  <1>d. \A i \in DOMAIN todo[Main] : i # 1 => todo[Main][i].op # "enqueue"
    BY DEF HeldBackIsMoved
  <1>1. CASE DeferInventoryInteractionEvaluation(Main)
    <2>1. s.op = "defer" /\ scheduled' = scheduled
      BY <1>1 DEF DeferInventoryInteractionEvaluation, At
    <2>2. s.actor \in Actors /\ s.delta \in SUBSET Kinds
      BY <1>0, <2>1, StepFields
    <2>3. CASE Goto(Main, <<>>) /\ DeferTo(s.actor, s.delta)
      <3>1. \A a : Deferred(a)' => Deferred(a)
        BY <2>3 DEF DeferTo, Deferred, TypeOK
      <3>2. QED
        BY <1>0, <1>a, <2>1, <2>3, <3>1, StepLists, Places, HeldBackOn
    <2>4. CASE /\ ~Deferred(s.actor) /\ UNCHANGED interaction
               /\ Goto(Main, <<ActorStep("enqueue", s.actor, s.delta)>>)
      <3> DEFINE e == ActorStep("enqueue", s.actor, s.delta)
                 list == <<e>>
      <3>1. list \in Seq(Step) /\ Goto(Main, list) /\ Len(list) = 1 /\ DOMAIN list = {1} /\ list[1] = e
        BY <2>2, <2>4, StepIntro, StepLists, Places
      <3>2. e.op = "enqueue" /\ e.actor = s.actor
        BY DEF ActorStep
      <3> HIDE DEF e, list
      <3>3. \A i \in DOMAIN todo'[Main] :
                /\ i \in Nat
                /\ i <= Len(list) => i \in DOMAIN list /\ todo'[Main][i] = list[i]
                /\ i > Len(list) => /\ i - Len(list) + 1 \in DOMAIN todo[Main]
                                    /\ i - Len(list) + 1 # 1
                                    /\ todo'[Main][i] = todo[Main][i - Len(list) + 1]
        BY <1>0, <1>a, <3>1, GotoPlaces DEF TypeOK
      <3>4. \A i \in DOMAIN todo'[Main] : todo'[Main][i].op = "enqueue" => i = 1
        BY <1>d, <3>1, <3>3
      <3>5. Head(todo'[Main]) = e
        <4>1. todo'[Main] = list \o Tail(todo[Main])
          BY <1>a, <3>1 DEF Goto, TypeOK
        <4>2. /\ list \o Tail(todo[Main]) \in Seq(Step)
              /\ Len(list \o Tail(todo[Main])) >= 1
              /\ (list \o Tail(todo[Main]))[1] = list[1]
          <5>1. /\ list \o Tail(todo[Main]) \in Seq(Step)
                /\ Len(list \o Tail(todo[Main])) = Len(list) + Len(todo[Main]) - 1
                /\ \A i \in 1..Len(list) : (list \o Tail(todo[Main]))[i] = list[i]
            <6>1. list \in Seq(Step) /\ todo[Main] \in Seq(Step) /\ todo[Main] # <<>>
              BY <1>0, <3>1
            <6>2. QED
              BY <6>1, SplicePlaces
          <5>2. Len(todo[Main]) \in Nat /\ Len(todo[Main]) >= 1
            BY <1>0
          <5>3. QED
            BY <3>1, <5>1, <5>2
        <4>3. Head(todo'[Main]) = todo'[Main][1]
          BY <4>1, <4>2
        <4>4. QED
          BY <3>1, <4>1, <4>2, <4>3
      <3>6. \A a \in DOMAIN scheduled : ~Deferred(a)
        BY <2>1 DEF HeldBackIsMoved, At
      <3>7. \A a : Deferred(a)' <=> Deferred(a)
        BY <2>4 DEF Deferred
      <3>8. QED
        BY <2>1, <2>4, <3>2, <3>4, <3>5, <3>6, <3>7 DEF HeldBackIsMoved, At
    <2>5. QED
      BY <1>1, <2>3, <2>4 DEF DeferInventoryInteractionEvaluation
  <1>2. CASE Enqueue(Main)
    <2>1. s.op = "enqueue" /\ interaction' = interaction /\ scheduled' = Merged(scheduled, s.actor, s.delta)
      BY <1>2 DEF Enqueue, At
    <2>2. ~Deferred(s.actor)
      BY <1>0, <2>1 DEF HeldBackIsMoved, At
    <2>3. \A a \in DOMAIN scheduled : ~Deferred(a)
      BY <2>1 DEF HeldBackIsMoved, At
    <2>4. DOMAIN scheduled' = DOMAIN scheduled \cup {s.actor}
      BY <2>1 DEF Merged
    <2>5. \A a : Deferred(a)' <=> Deferred(a)
      BY <2>1 DEF Deferred
    <2>6. \A i \in DOMAIN todo'[Main] : todo'[Main][i].op # "enqueue"
      <3>1. \A j \in DOMAIN todo[Main] : j > 1 => todo[Main][j].op # "enqueue"
        BY <1>0, <1>d
      <3>2. QED
        BY <1>0, <1>a, <1>b, <1>c, <2>1, <3>1, GotoMembers
    <2>7. todo'[Main] # <<>> => Head(todo'[Main]) = todo'[Main][1] /\ 1 \in DOMAIN todo'[Main]
      <3>1. todo'[Main] \in Seq(Step)
        BY <1>0, <1>a, <1>b, GotoType DEF TypeOK
      <3>2. QED
        BY <3>1
    <2>8. QED
      BY <2>2, <2>3, <2>4, <2>5, <2>6, <2>7 DEF HeldBackIsMoved, At
  <1>3. CASE BeginInventoryInteraction(Main)
    <2>1. s.op = "begin" /\ scheduled' = scheduled /\ Goto(Main, <<>>)
      BY <1>3 DEF BeginInventoryInteraction, At
    <2>2. /\ Tail(todo[Main]) # <<>>
          /\ Head(Tail(todo[Main])).op = "moveScheduled"
          /\ Head(Tail(todo[Main])).actors = s.actors
      BY <1>0, <2>1, PairedTail DEF WorkInv, MenuOrder, At
    <2>3. todo'[Main] = Tail(todo[Main])
      BY <1>0, <1>a, <2>1 DEF Goto, TypeOK
    <2>4. \A a : Deferred(a)' => a \in s.actors \/ Deferred(a)
      BY <1>3 DEF BeginInventoryInteraction, Deferred
    <2>5. \A a \in DOMAIN scheduled : ~Deferred(a)
      BY <2>1 DEF HeldBackIsMoved, At
    <2>6. \A i \in DOMAIN todo'[Main] : todo'[Main][i].op # "enqueue"
      <3>1. \A j \in DOMAIN todo[Main] : j > 1 => todo[Main][j].op # "enqueue"
        BY <1>0, <1>d
      <3>2. QED
        BY <1>0, <1>a, <1>b, <1>c, <2>1, <3>1, GotoMembers
    <2>7. ~At(Main, "enqueue")'
      BY <2>2, <2>3 DEF At
    <2>8. At(Main, "moveScheduled")' /\ Head(todo'[Main]).actors = s.actors
      BY <2>2, <2>3 DEF At
    <2>9. QED
      BY <2>1, <2>4, <2>5, <2>6, <2>7, <2>8 DEF HeldBackIsMoved
  <1>4. CASE MoveScheduled(Main)
    <2>1. s.op = "moveScheduled" /\ scheduled' = Without(scheduled, s.actors \cap DOMAIN scheduled)
          /\ Goto(Main, <<>>)
      BY <1>4 DEF MoveScheduled, At
    <2>2. \A a : Deferred(a)' <=> Deferred(a)
      BY <1>4 DEF MoveScheduled, Deferred, TypeOK
    <2>3. DOMAIN scheduled' = DOMAIN scheduled \ s.actors
      BY <2>1 DEF Without
    <2>4. \A a \in DOMAIN scheduled' : ~Deferred(a)'
      BY <2>2, <2>3 DEF HeldBackIsMoved
    <2>5. \A i \in DOMAIN todo'[Main] : todo'[Main][i].op # "enqueue"
      <3>1. \A j \in DOMAIN todo[Main] : j > 1 => todo[Main][j].op # "enqueue"
        BY <1>0, <1>d
      <3>2. QED
        BY <1>0, <1>a, <1>b, <1>c, <2>1, <3>1, GotoMembers
    <2>6. todo'[Main] # <<>> => Head(todo'[Main]) = todo'[Main][1] /\ 1 \in DOMAIN todo'[Main]
      <3>1. todo'[Main] \in Seq(Step)
        BY <1>0, <1>a, <1>b, GotoType DEF TypeOK
      <3>2. QED
        BY <3>1
    <2>7. QED
      BY <2>4, <2>5, <2>6 DEF HeldBackIsMoved, At
  <1>5. CASE \/ Schedule(Main) \/ PostPump(Main) \/ Pump(Main) \/ Take(Main) \/ Apply(Main)
             \/ Nested(Main) \/ Repost(Main) \/ EndInventoryInteraction(Main) \/ Release(Main)
             \/ Each(Main) \/ ForgetScheduled(Main) \/ ForgetInteraction(Main)
             \/ ResetScheduled(Main) \/ ResetInteraction(Main)
             \/ SuspendRuleEvaluationForLoad(Main) \/ SetContext(Main)
             \/ ResumeRuleEvaluationAfterLoad(Main) \/ Refresh(Main)
    <2>1. s.op \notin {"moveScheduled", "defer"}
      BY <1>5 DEF Schedule, PostPump, Pump, Take, Apply, Nested, Repost, EndInventoryInteraction,
                  Release, Each, ForgetScheduled, ForgetInteraction, ResetScheduled, ResetInteraction,
                  SuspendRuleEvaluationForLoad, SetContext, ResumeRuleEvaluationAfterLoad, Refresh, At
    <2>2. DOMAIN scheduled' \subseteq DOMAIN scheduled
      <3>1. scheduled' = scheduled \/ scheduled' = <<>> \/ \E keys : scheduled' = Without(scheduled, keys)
        BY <1>5 DEF Schedule, PostPump, Pump, Take, Apply, Nested, Repost, EndInventoryInteraction,
                    Release, Each, ForgetScheduled, ForgetInteraction, ResetScheduled, ResetInteraction,
                    SuspendRuleEvaluationForLoad, SetContext, ResumeRuleEvaluationAfterLoad, Refresh
      <3>2. QED
        BY <3>1, Places DEF Without
    <2>3. \A a : Deferred(a)' => Deferred(a)
      <3>1. CASE Nested(Main)
        BY <3>1 DEF Nested, DeferTo, Deferred, TypeOK
      <3>2. CASE Release(Main) \/ ResetInteraction(Main)
        BY <3>2 DEF Release, ResetInteraction, NoInteraction, Deferred
      <3>3. CASE ForgetInteraction(Main)
        BY <3>3 DEF ForgetInteraction, Deferred, TypeOK
      <3>4. CASE UNCHANGED interaction
        BY <3>4 DEF Deferred
      <3>5. QED
        BY <1>5, <3>1, <3>2, <3>3, <3>4
        DEF Schedule, PostPump, Pump, Take, Apply, Repost, EndInventoryInteraction, Each,
            ForgetScheduled, ResetScheduled, SuspendRuleEvaluationForLoad, SetContext,
            ResumeRuleEvaluationAfterLoad, Refresh
    <2>4. QED
      BY <1>0, <1>a, <1>b, <1>c, <2>1, <2>2, <2>3, HeldBackOn
  <1>6. QED
    BY <1>1, <1>2, <1>3, <1>4, <1>5 DEF StepOf

\* A loading thread inserts nothing that is held back.
LEMMA HeldBackLoader ==
    ASSUME TypeOK, PumpInv, HeldBackIsMoved, NEW t \in Loaders, StepOf(t),
           Enqueue(t) => ~Deferred(Head(todo[t]).actor)
    PROVE  HeldBackIsMoved'
  <1>1. /\ todo'[Main] = todo[Main]
        /\ Schedule(t) \/ DeferInventoryInteractionEvaluation(t) \/ Enqueue(t) \/ PostPump(t)
    BY LoaderForm
  <1>2. \A a : Deferred(a)' <=> Deferred(a)
    BY <1>1 DEF Schedule, DeferInventoryInteractionEvaluation, Enqueue, PostPump, DeferTo, Deferred,
       TypeOK
  <1>3. \A a \in DOMAIN scheduled' : a \in DOMAIN scheduled \/ ~Deferred(a)
    <2>1. CASE Enqueue(t)
      <3>1. DOMAIN scheduled' = DOMAIN scheduled \cup {Head(todo[t]).actor}
        BY <2>1 DEF Enqueue, Merged
      <3>2. QED
        BY <2>1, <3>1
    <2>2. CASE ~Enqueue(t)
      BY <1>1, <2>2 DEF Schedule, DeferInventoryInteractionEvaluation, PostPump
    <2>3. QED
      BY <2>1, <2>2
  <1>4. QED
    BY <1>1, <1>2, <1>3 DEF HeldBackIsMoved, At

LEMMA HeldBackEngine ==
    ASSUME TypeOK, PumpInv, HeldBackIsMoved,
           RunTask \/ (\E timer \in timers : FireTimer(timer)) \/ EngineEvent
    PROVE  HeldBackIsMoved'
  <1>a. UNCHANGED <<scheduled, interaction>>
    BY EngineForm DEF RunTask, FireTimer
  <1>1. CASE UNCHANGED todo
    BY <1>1, <1>a DEF HeldBackIsMoved, Deferred, At
  <1>2. ASSUME NEW t \in Threads, NEW steps \in Seq(Step), Start(t, steps),
               \A i \in DOMAIN steps : steps[i].op # "enqueue"
        PROVE  HeldBackIsMoved'
    <2>a. CASE t # Main
      <3>1. todo'[Main] = todo[Main]
        BY <1>2, <2>a DEF Start, Threads, TypeOK
      <3>2. QED
        BY <1>a, <3>1 DEF HeldBackIsMoved, Deferred, At
    <2> SUFFICES ASSUME t = Main PROVE HeldBackIsMoved'
      BY <2>a
    <2>1. todo[Main] = <<>> /\ todo'[Main] = steps
      BY <1>2 DEF Start, Idle, TypeOK
    <2>2. \A a \in DOMAIN scheduled : ~Deferred(a)
      BY <2>1 DEF HeldBackIsMoved, At
    <2>3. steps # <<>> => Head(steps) = steps[1] /\ 1 \in DOMAIN steps
      OBVIOUS
    <2>4. ~At(Main, "enqueue")'
      BY <1>2, <2>1, <2>3 DEF At
    <2>5. QED
      BY <1>2, <1>a, <2>1, <2>2, <2>4 DEF HeldBackIsMoved, Deferred
  <1>3. CASE RunTask
    <2>1. Head(tasks) = tasks[1] /\ 1 \in DOMAIN tasks /\ Head(tasks) \in Step
      BY <1>3 DEF RunTask, TypeOK
    <2>2. Head(tasks).op # "enqueue"
      BY <2>1 DEF PumpInv, QueuesCarry
    <2> DEFINE steps == <<Head(tasks)>>
    <2>3. steps \in Seq(Step) /\ Start(Main, steps) /\ \A i \in DOMAIN steps : steps[i] = Head(tasks)
      BY <1>3, <2>1, StepLists, Places DEF RunTask
    <2> HIDE DEF steps
    <2>4. QED
      BY <1>2, <2>2, <2>3 DEF Threads
  <1>4. CASE EngineEvent
    <2>1. CASE UNCHANGED todo
      BY <1>1, <2>1
    <2>2. ASSUME NEW t \in Threads, NEW steps \in Seq(Step), Start(t, steps), Started(steps)
          PROVE  HeldBackIsMoved'
      <3>1. "enqueue" \notin ReportOps \cup TransferOps \cup ForgetOps \cup TransitionOps
        BY DEF ReportOps, TransferOps, ForgetOps, TransitionOps
      <3> DEFINE free(ops) == steps \in Seq(StepsOf(ops)) /\ "enqueue" \notin ops
      <3>2. \E ops : free(ops)
        BY <2>2, <3>1 DEF Started
      <3>3. PICK ops : free(ops)
        BY <3>2
      <3>4. \A i \in DOMAIN steps : steps[i].op \in ops
        BY <3>3, ListsOf
      <3>5. QED
        BY <1>2, <2>2, <3>3, <3>4
    <2>3. QED
      BY <1>4, <2>1, <2>2, EngineForm
  <1>5. CASE \E timer \in timers : FireTimer(timer)
    BY <1>1, <1>5 DEF FireTimer
  <1>6. QED
    BY <1>3, <1>4, <1>5

\* "An evaluation queued just before the menu opened must not run midway through
\* the menu transaction" (BeginInventoryInteraction): whatever the background
\* clone threads report, the pump takes no actor whose evaluations the interaction
\* holds back, unless such a thread inserts an actor that an interaction begun
\* since its own test holds back.
THEOREM MenuIsUndisturbed == Spec /\ InsertsOnlyWhatIsFree => NoEvaluationMidMenu
  <1> DEFINE Free == \A t \in Loaders : Enqueue(t) => ~Deferred(Head(todo[t]).actor)
  <1>1. Init => HeldBackIsMoved
    <2> SUFFICES ASSUME Init PROVE HeldBackIsMoved
      OBVIOUS
    <2>1. todo[Main] = <<>>
      BY DEF Init, Threads
    <2>2. QED
      BY <2>1, Places DEF Init, HeldBackIsMoved, At
  <1>2. TypeOK /\ PumpInv /\ WorkInv /\ HeldBackIsMoved /\ [Next]_vars /\ [Free]_vars => HeldBackIsMoved'
    <2> SUFFICES ASSUME TypeOK, PumpInv, WorkInv, HeldBackIsMoved, [Next]_vars, [Free]_vars
                 PROVE  HeldBackIsMoved'
      OBVIOUS
    <2>1. CASE UNCHANGED vars
      BY <2>1 DEF HeldBackIsMoved, Deferred, At
    <2>2. ASSUME Free, NEW t \in Threads, StepOf(t) PROVE HeldBackIsMoved'
      <3>1. CASE t = Main
        BY <2>2, <3>1, HeldBackStep
      <3>2. CASE t \in Loaders
        BY <2>2, <3>2, HeldBackLoader
      <3>3. QED
        BY <3>1, <3>2 DEF Threads
    <2>3. CASE RunTask \/ (\E timer \in timers : FireTimer(timer)) \/ EngineEvent
      BY <2>3, HeldBackEngine
    <2>4. QED
      BY <2>1, <2>2, <2>3 DEF Next
  <1>3. HeldBackIsMoved /\ PumpInv /\ TypeOK => [\A a \in Actors : Evaluates(a) => ~Deferred(a)]_vars
    <2> SUFFICES ASSUME HeldBackIsMoved, PumpInv, TypeOK, NEW a \in Actors, Evaluates(a)
                 PROVE  ~Deferred(a)
      OBVIOUS
    <2>1. PICK t \in Threads : At(t, "take") /\ a \in DOMAIN scheduled
      BY DEF Evaluates
    <2>2. t = Main
      <3>1. todo[t] \in Seq(Step) /\ todo[t] # <<>>
        BY <2>1 DEF At, TypeOK
      <3>2. Head(todo[t]) = todo[t][1] /\ 1 \in DOMAIN todo[t]
        BY <3>1
      <3>3. QED
        BY <2>1, <3>1, <3>2, MainOnly DEF At
    <2>3. QED
      BY <2>1, <2>2 DEF HeldBackIsMoved, At
  <1>4. Spec => []PumpInv
    BY TypeCorrect, InitPump, NextPump, PTL DEF Spec
  <1>5. Spec => []WorkInv
    BY TypeCorrect, InitWork, NextWork, <1>4, PTL DEF Spec
  <1>6. Spec /\ InsertsOnlyWhatIsFree => []HeldBackIsMoved
    BY TypeCorrect, <1>1, <1>2, <1>4, <1>5, PTL DEF Spec, InsertsOnlyWhatIsFree
  <1>7. QED
    BY TypeCorrect, <1>3, <1>4, <1>6, PTL DEF NoEvaluationMidMenu

----------------------------------------------------------------------------
(* The pump is armed.                                                      *)

\* ScheduleRuleEvaluation tests the suspension before it takes the scheduler mutex
\* to insert the actor.  Only a thread other than the main one can find evaluation
\* suspended in between; here none does.
InsertsOnlyWhileRunning == [][\A t \in Loaders : Enqueue(t) => ~suspended]_vars

\* While evaluation is suspended nothing enters the map, and from the reset that
\* follows the suspension on the map is empty and no pump is expected.
SuspendedIsEmpty ==
    suspended =>
        /\ At(Main, "resetScheduled") \/ (~pumpFlag /\ DOMAIN scheduled = {})
        /\ \A i \in DOMAIN todo[Main] : todo[Main][i].op \notin {"defer", "enqueue"}

\* The handlers of the save transitions do nothing else.
SuspendAlone ==
    \A i, j \in DOMAIN todo[Main] : todo[Main][i].op = "suspend" => todo[Main][j].op \in TransitionOps

ArmedInv == PumpArmed /\ SuspendedIsEmpty /\ SuspendAlone

LEMMA SuspendAloneStep ==
    ASSUME TypeOK, SuspendAlone, Main \in Threads, StepOf(Main)
    PROVE  SuspendAlone'
  <1> DEFINE s == Head(todo[Main])
  <1>1. PICK new \in Seq(Step) :
            Goto(Main, new) /\ \A i \in DOMAIN new : <<s.op, new[i].op>> \in Follow
    BY StepForm
  <1>2. todo[Main] # <<>> /\ s = todo[Main][1] /\ 1 \in DOMAIN todo[Main]
    BY StepForm
  <1>3. \A i \in DOMAIN new : new[i].op # "suspend" /\ (s.op \in TransitionOps => new[i].op \in TransitionOps)
    BY <1>1 DEF Follow, TransitionOps
  <1>4. \A i \in DOMAIN todo'[Main] :
            \/ \E j \in DOMAIN new : todo'[Main][i] = new[j]
            \/ \E j \in DOMAIN todo[Main] : j > 1 /\ todo'[Main][i] = todo[Main][j]
    BY <1>1, <1>2, GotoMembers
  <1>5. ASSUME NEW i \in DOMAIN todo'[Main], NEW j \in DOMAIN todo'[Main],
               todo'[Main][i].op = "suspend"
        PROVE  todo'[Main][j].op \in TransitionOps
    <2>1. PICK k \in DOMAIN todo[Main] : todo[Main][k].op = "suspend"
      BY <1>3, <1>4, <1>5
    <2>2. s.op \in TransitionOps
      BY <1>2, <2>1 DEF SuspendAlone
    <2>3. QED
      BY <1>3, <1>4, <2>1, <2>2 DEF SuspendAlone
  <1>6. QED
    BY <1>5 DEF SuspendAlone

LEMMA SuspendedStep ==
    ASSUME TypeOK, SuspendedIsEmpty, SuspendAlone, StepOf(Main)
    PROVE  SuspendedIsEmpty'
  <1> DEFINE s == Head(todo[Main])
  <1>a. Main \in Threads
    BY DEF Threads
  <1>1. PICK new \in Seq(Step) :
            Goto(Main, new) /\ \A i \in DOMAIN new : <<s.op, new[i].op>> \in Follow
    BY <1>a, StepForm
  <1>2. todo[Main] # <<>> /\ s = todo[Main][1] /\ 1 \in DOMAIN todo[Main]
    BY <1>a, StepForm
  <1>3. \A i \in DOMAIN todo'[Main] :
            \/ \E j \in DOMAIN new : todo'[Main][i] = new[j]
            \/ \E j \in DOMAIN todo[Main] : j > 1 /\ todo'[Main][i] = todo[Main][j]
    BY <1>1, <1>2, <1>a, GotoMembers
  <1>4. CASE SuspendRuleEvaluationForLoad(Main)
    <2>1. s.op = "suspend" /\ Goto(Main, ResetSteps)
      BY <1>4 DEF SuspendRuleEvaluationForLoad, At
    <2>2. \A i \in DOMAIN todo[Main] : todo[Main][i].op \in TransitionOps
      BY <1>2, <2>1 DEF SuspendAlone
    <2>3. \A i \in DOMAIN new : new[i].op \in TransitionOps
      BY <1>1, <2>1 DEF Follow, TransitionOps
    <2>4. \A i \in DOMAIN todo'[Main] : todo'[Main][i].op \notin {"defer", "enqueue"}
      BY <1>3, <2>2, <2>3 DEF TransitionOps
    <2>5. At(Main, "resetScheduled")'
      <3>1. todo'[Main] = ResetSteps \o Tail(todo[Main])
        BY <1>a, <2>1 DEF Goto, TypeOK
      <3>2. /\ ResetSteps \in Seq(Step) /\ Tail(todo[Main]) \in Seq(Step)
            /\ ResetSteps # <<>> /\ Head(ResetSteps) = Plain("resetScheduled")
        BY <1>2, <1>a, StepIntro, StepLists, TailPlaces DEF ResetSteps, TypeOK
      <3>3. todo'[Main] # <<>> /\ Head(todo'[Main]) = Head(ResetSteps)
        BY <3>1, <3>2
      <3>4. QED
        BY <3>2, <3>3 DEF At, Plain
    <2>6. QED
      BY <2>4, <2>5 DEF SuspendedIsEmpty
  <1>5. CASE ~SuspendRuleEvaluationForLoad(Main) /\ suspended'
    <2>1. suspended
      BY <1>5 DEF StepOf, Schedule, DeferInventoryInteractionEvaluation, Enqueue, PostPump,
         Pump, Take, Apply, Nested, Repost, BeginInventoryInteraction, MoveScheduled,
         EndInventoryInteraction, Release, Each, ForgetScheduled, ForgetInteraction, ResetScheduled,
         ResetInteraction, SetContext, ResumeRuleEvaluationAfterLoad, Refresh
    <2>2. s.op \notin {"defer", "enqueue"}
      BY <1>2, <2>1 DEF SuspendedIsEmpty
    <2>3. CASE Schedule(Main)
      <3>1. Goto(Main, <<>>)
        BY <2>1, <2>3 DEF Schedule
      <3>2. \A i \in DOMAIN todo'[Main] : \E j \in DOMAIN todo[Main] : todo'[Main][i] = todo[Main][j]
        BY <1>2, <1>a, <3>1, DropPlaces DEF TypeOK
      <3>3. s.op = "schedule" /\ UNCHANGED <<pumpFlag, scheduled>>
        BY <2>3 DEF Schedule, At
      <3>4. QED
        BY <2>1, <3>2, <3>3 DEF SuspendedIsEmpty, At
    <2>4. CASE ~Schedule(Main)
      <3>1. s.op # "schedule"
        BY <2>4 DEF StepOf, DeferInventoryInteractionEvaluation, Enqueue, PostPump,
           Pump, Take, Apply, Nested, Repost, BeginInventoryInteraction, MoveScheduled,
           EndInventoryInteraction, Release, Each, ForgetScheduled, ForgetInteraction, ResetScheduled,
           ResetInteraction, SuspendRuleEvaluationForLoad, SetContext, ResumeRuleEvaluationAfterLoad,
           Refresh, At
      <3>2. \A i \in DOMAIN new : new[i].op \notin {"defer", "enqueue"}
        BY <1>1, <2>2, <3>1 DEF Follow
      <3>3. \A i \in DOMAIN todo'[Main] : todo'[Main][i].op \notin {"defer", "enqueue"}
        BY <1>3, <2>1, <3>2 DEF SuspendedIsEmpty
      <3>4. CASE ResetScheduled(Main)
        BY <3>3, <3>4, Places DEF ResetScheduled, SuspendedIsEmpty
      <3>5. CASE ~ResetScheduled(Main)
        <4>1. s.op # "resetScheduled"
          BY <3>5 DEF StepOf, Schedule, DeferInventoryInteractionEvaluation, Enqueue, PostPump,
             Pump, Take, Apply, Nested, Repost, BeginInventoryInteraction, MoveScheduled,
             EndInventoryInteraction, Release, Each, ForgetScheduled, ForgetInteraction,
             ResetInteraction, SuspendRuleEvaluationForLoad, SetContext, ResumeRuleEvaluationAfterLoad,
             Refresh, At
        <4>2. ~pumpFlag /\ DOMAIN scheduled = {}
          BY <2>1, <4>1 DEF SuspendedIsEmpty, At
        <4>3. ~Enqueue(Main)
          BY <2>2 DEF Enqueue, At
        <4>4. /\ pumpFlag' => pumpFlag
              /\ scheduled' = scheduled \/ \E keys : scheduled' = Without(scheduled, keys)
          <5>1. CASE Take(Main)
            <6>1. CASE UNCHANGED scheduled /\ ~pumpFlag'
              BY <6>1
            <6>2. ASSUME NEW a \in Actors, scheduled' = Without(scheduled, {a}), UNCHANGED pumpFlag
                  PROVE  /\ pumpFlag' => pumpFlag
                         /\ scheduled' = scheduled \/ \E keys : scheduled' = Without(scheduled, keys)
              BY <6>2
            <6>3. QED
              BY <5>1, <6>1, <6>2 DEF Take
          <5>2. CASE MoveScheduled(Main) \/ ForgetScheduled(Main)
            BY <5>2 DEF MoveScheduled, ForgetScheduled
          <5>3. CASE Repost(Main)
            BY <5>3 DEF Repost
          <5>4. CASE UNCHANGED <<pumpFlag, scheduled>>
            BY <5>4
          <5>5. QED
            BY <3>5, <4>3, <5>1, <5>2, <5>3, <5>4
            DEF StepOf, Schedule, DeferInventoryInteractionEvaluation, PostPump,
                Pump, Apply, Nested, BeginInventoryInteraction, EndInventoryInteraction, Release, Each,
                ForgetInteraction, ResetInteraction, SuspendRuleEvaluationForLoad, SetContext,
                ResumeRuleEvaluationAfterLoad, Refresh
        <4>5. ~pumpFlag' /\ DOMAIN scheduled' = {}
          BY <4>2, <4>4 DEF Without
        <4>6. QED
          BY <3>3, <4>5 DEF SuspendedIsEmpty
      <3>6. QED
        BY <3>4, <3>5
    <2>5. QED
      BY <2>3, <2>4
  <1>6. CASE ~suspended'
    BY <1>6 DEF SuspendedIsEmpty
  <1>7. QED
    BY <1>4, <1>5, <1>6

\* A live pump, wherever it is.
PumpAt(gen) ==
    \/ \E i \in DOMAIN tasks : LiveAt(tasks[i], gen)
    \/ \E t \in Threads : \E i \in DOMAIN todo[t] : LiveAt(todo[t][i], gen)

\* A step that keeps the tasks keeps the live pump, unless it was the pump's step
\* and goes on without it.
LEMMA PumpStays ==
    ASSUME TypeOK, PumpAt(generation), NEW t \in Threads, todo[t] # <<>>,
           NEW new \in Seq(Step), Goto(t, new),
           tasks' = tasks \/ \E e \in Step : tasks' = Append(tasks, e),
           Live(Head(todo[t])) =>
              \/ \E i \in DOMAIN new : LiveAt(new[i], generation)
              \/ \E i \in DOMAIN tasks' : LiveAt(tasks'[i], generation)
    PROVE  PumpAt(generation)'  \/ generation' # generation
  <1> SUFFICES \/ \E i \in DOMAIN tasks' : LiveAt(tasks'[i], generation)
               \/ \E u \in Threads : \E i \in DOMAIN todo'[u] : LiveAt(todo'[u][i], generation)
    BY DEF PumpAt
  <1>1. /\ \A u \in Threads \ {t} : todo'[u] = todo[u]
        /\ \A j \in DOMAIN new : \E i \in DOMAIN todo'[t] : todo'[t][i] = new[j]
        /\ \A j \in DOMAIN todo[t] : j > 1 => \E i \in DOMAIN todo'[t] : todo'[t][i] = todo[t][j]
        /\ \A j \in DOMAIN todo[t] : j > 1 \/ todo[t][j] = Head(todo[t])
    BY GotoMembers
  <1>2. CASE \E i \in DOMAIN tasks : LiveAt(tasks[i], generation)
    <2>1. tasks \in Seq(Step)
      BY DEF TypeOK
    <2>2. \A e \in Step : \A i \in DOMAIN tasks :
              i \in DOMAIN Append(tasks, e) /\ Append(tasks, e)[i] = tasks[i]
      BY <2>1
    <2>3. QED
      BY <1>2, <2>2
  <1>3. CASE \E i \in DOMAIN todo[t] : LiveAt(todo[t][i], generation)
    BY <1>1, <1>3 DEF Live, LiveAt
  <1>4. CASE \E u \in Threads \ {t} : \E i \in DOMAIN todo[u] : LiveAt(todo[u][i], generation)
    BY <1>1, <1>4
  <1>5. QED
    BY <1>2, <1>3, <1>4 DEF PumpAt

LEMMA SomePumpIs == SomePump <=> PumpAt(generation)
  BY DEF SomePump, PumpAt, Live, LiveAt

LEMMA PumpArmedStep ==
    ASSUME TypeOK, PumpInv, PumpArmed, SuspendedIsEmpty, NEW t \in Threads, StepOf(t)
    PROVE  PumpArmed'
  <1> DEFINE s == Head(todo[t])
  <1>0. todo[t] # <<>> /\ s = todo[t][1] /\ 1 \in DOMAIN todo[t] /\ s \in Step
    BY StepForm
  <1>b. PICK new \in Seq(Step) : Goto(t, new)
    BY StepForm
  <1>c. PumpArmed' <=> (pumpFlag' \/ DOMAIN scheduled' # {} => PumpAt(generation)')
    BY DEF PumpArmed, SomePump, PumpAt, Live, LiveAt
  <1>d. pumpFlag \/ DOMAIN scheduled # {} => PumpAt(generation)
    BY SomePumpIs DEF PumpArmed
  <1>e. s.op \in {"take", "repost"} => s.gen = generation
    BY <1>0 DEF PumpInv, Generations
  <1>1. CASE Enqueue(t)
    <2>1. s.op = "enqueue" /\ UNCHANGED <<generation, tasks>>
      BY <1>1 DEF Enqueue, At
    <2>2. ~Live(s)
      BY <2>1 DEF Live, PumpOps
    <2>3. CASE s.actor \in DOMAIN scheduled \/ pumpFlag
      BY <1>0, <1>b, <1>c, <1>d, <2>1, <2>2, <2>3, PumpStays
    <2>4. CASE s.actor \notin DOMAIN scheduled /\ ~pumpFlag
      <3> DEFINE p == PumpStep("postPump", generation)
                 list == <<p>>
      <3>1. list \in Seq(Step) /\ Goto(t, list) /\ 1 \in DOMAIN list /\ list[1] = p
        BY <1>1, <2>4, StepIntro, StepLists, Places DEF Enqueue, TypeOK, PumpOps
      <3>2. LiveAt(p, generation)
        BY DEF LiveAt, PumpStep, PumpOps
      <3> HIDE DEF p, list
      <3>3. \E i \in DOMAIN todo'[t] : todo'[t][i] = p
        BY <1>0, <3>1, GotoMembers
      <3>4. QED
        BY <1>c, <2>1, <3>2, <3>3 DEF PumpAt
    <2>5. QED
      BY <2>3, <2>4
  <1>2. CASE PostPump(t)
    <2> DEFINE p == PumpStep("pump", s.gen)
    <2>1. /\ s.op = "postPump" /\ tasks' = Append(tasks, p)
          /\ UNCHANGED <<generation, pumpFlag, scheduled>>
      BY <1>2 DEF PostPump, At
    <2>2. p \in Step
      BY <1>0, <2>1, StepFields, StepIntro DEF PumpOps
    <2>3. Live(s) => LiveAt(p, generation)
      BY DEF Live, LiveAt, PumpStep, PumpOps
    <2> HIDE DEF p
    <2>4. \E i \in DOMAIN tasks' : tasks'[i] = p
      BY <2>1, <2>2, AppendPlaces DEF TypeOK
    <2>5. QED
      BY <1>0, <1>b, <1>c, <1>d, <2>1, <2>2, <2>3, <2>4, PumpStays
  <1>3. CASE Pump(t)
    <2>1. s.op = "pump" /\ s.gen \in Nat /\ UNCHANGED <<generation, pumpFlag, scheduled, tasks>>
      BY <1>0, <1>3, StepFields DEF Pump, At, PumpOps
    <2>2. CASE suspended
      <3>1. t = Main
        BY <1>0, <2>1, MainOnly
      <3>2. QED
        BY <1>c, <2>1, <2>2, <3>1 DEF SuspendedIsEmpty, At
    <2>3. CASE ~suspended /\ s.gen = generation
      <3> DEFINE p == PumpStep("take", s.gen)
                 list == <<p>>
      <3>1. list \in Seq(Step) /\ Goto(t, list) /\ 1 \in DOMAIN list /\ list[1] = p
        BY <1>3, <2>1, <2>3, StepIntro, StepLists, Places DEF Pump, PumpOps
      <3>2. LiveAt(p, generation)
        BY <2>3 DEF LiveAt, PumpStep, PumpOps
      <3> HIDE DEF p, list
      <3>3. QED
        BY <1>0, <1>c, <1>d, <2>1, <3>1, <3>2, PumpStays
    <2>4. CASE s.gen # generation
      <3>1. ~Live(s)
        BY <2>4 DEF Live
      <3>2. QED
        BY <1>0, <1>b, <1>c, <1>d, <2>1, <3>1, PumpStays
    <2>5. QED
      BY <2>2, <2>3, <2>4
  <1>4. CASE Take(t)
    <2>1. s.op = "take" /\ s.gen \in Nat /\ UNCHANGED <<generation, tasks>>
      BY <1>0, <1>4, StepFields DEF Take, At, PumpOps
    <2>2. CASE DOMAIN scheduled = {} /\ pumpFlag' = FALSE /\ UNCHANGED scheduled
      BY <1>c, <2>2
    <2>3. ASSUME NEW a \in Actors, NEW next \in {"take", "repost"}, IsFirst(a, scheduled),
                 Goto(t, <<ActorStep("apply", a, scheduled[a]), PumpStep(next, s.gen)>>)
          PROVE  PumpArmed'
      <3> DEFINE p == PumpStep(next, s.gen)
                 list == <<ActorStep("apply", a, scheduled[a]), p>>
      <3>1. scheduled[a] \in SUBSET Kinds /\ DOMAIN scheduled # {}
        BY <2>3, MapOfElim DEF TypeOK, IsFirst
      <3>5. ActorStep("apply", a, scheduled[a]) \in Step /\ p \in Step
        BY <2>1, <3>1, StepIntro DEF PumpOps
      <3>6. Goto(t, list)
        BY <2>3
      <3>2. list \in Seq(Step) /\ Goto(t, list) /\ 2 \in DOMAIN list /\ list[2] = p
        BY <3>5, <3>6, StepLists, Places
      <3>3. LiveAt(p, generation)
        BY <1>e, <2>1 DEF LiveAt, PumpStep, PumpOps
      <3> HIDE DEF p, list
      <3>4. QED
        BY <1>0, <1>c, <1>d, <2>1, <3>1, <3>2, <3>3, PumpStays
    <2>4. QED
      BY <1>4, <2>2, <2>3 DEF Take
  <1>5. CASE Repost(t)
    <2>1. s.op = "repost" /\ s.gen \in Nat /\ UNCHANGED <<generation, tasks, scheduled>>
      BY <1>0, <1>5, StepFields DEF Repost, At, PumpOps
    <2>2. CASE DOMAIN scheduled = {}
      BY <1>5, <1>c, <2>1, <2>2 DEF Repost
    <2>3. CASE DOMAIN scheduled # {}
      <3> DEFINE p == PumpStep("postPump", s.gen)
                 list == <<p>>
      <3>1. list \in Seq(Step) /\ Goto(t, list) /\ 1 \in DOMAIN list /\ list[1] = p
        BY <1>5, <2>1, <2>3, StepIntro, StepLists, Places DEF Repost, PumpOps
      <3>2. LiveAt(p, generation)
        BY <1>e, <2>1 DEF LiveAt, PumpStep, PumpOps
      <3> HIDE DEF p, list
      <3>3. QED
        BY <1>0, <1>c, <1>d, <2>1, <2>3, <3>1, <3>2, PumpStays
    <2>4. QED
      BY <2>2, <2>3
  <1>6. CASE ResetScheduled(t)
    BY <1>6, <1>c, Places DEF ResetScheduled
  <1>7. CASE \/ Schedule(t) \/ DeferInventoryInteractionEvaluation(t) \/ Apply(t)
             \/ Nested(t) \/ BeginInventoryInteraction(t) \/ MoveScheduled(t)
             \/ EndInventoryInteraction(t) \/ Release(t) \/ Each(t)
             \/ ForgetScheduled(t) \/ ForgetInteraction(t) \/ ResetInteraction(t)
             \/ SuspendRuleEvaluationForLoad(t) \/ SetContext(t)
             \/ ResumeRuleEvaluationAfterLoad(t) \/ Refresh(t)
    <2>1. ~Live(s)
      <3>1. s.op \notin PumpOps
        BY <1>7 DEF Schedule, DeferInventoryInteractionEvaluation, Apply, Nested,
             BeginInventoryInteraction, MoveScheduled, EndInventoryInteraction, Release, Each,
             ForgetScheduled, ForgetInteraction, ResetInteraction, SuspendRuleEvaluationForLoad,
             SetContext, ResumeRuleEvaluationAfterLoad, Refresh, At, PumpOps
      <3>2. QED
        BY <3>1 DEF Live
    <2>2. UNCHANGED <<generation, tasks, pumpFlag>>
      BY <1>7 DEF Schedule, DeferInventoryInteractionEvaluation, Apply, Nested,
           BeginInventoryInteraction, MoveScheduled, EndInventoryInteraction, Release, Each,
           ForgetScheduled, ForgetInteraction, ResetInteraction, SuspendRuleEvaluationForLoad,
           SetContext, ResumeRuleEvaluationAfterLoad, Refresh
    <2>3. DOMAIN scheduled' \subseteq DOMAIN scheduled
      <3>1. scheduled' = scheduled \/ \E keys : scheduled' = Without(scheduled, keys)
        <4>1. CASE MoveScheduled(t) \/ ForgetScheduled(t)
          BY <4>1 DEF MoveScheduled, ForgetScheduled
        <4>2. QED
          BY <1>7, <4>1 DEF Schedule, DeferInventoryInteractionEvaluation, Apply, Nested,
             BeginInventoryInteraction, EndInventoryInteraction, Release, Each,
             ForgetInteraction, ResetInteraction, SuspendRuleEvaluationForLoad,
             SetContext, ResumeRuleEvaluationAfterLoad, Refresh
      <3>2. QED
        BY <3>1 DEF Without
    <2>4. QED
      BY <1>0, <1>b, <1>c, <1>d, <2>1, <2>2, <2>3, PumpStays
  <1>8. QED
    BY <1>1, <1>2, <1>3, <1>4, <1>5, <1>6, <1>7 DEF StepOf

\* The main thread begins a list of steps.
LEMMA ArmedStart ==
    ASSUME TypeOK, SuspendedIsEmpty, UNCHANGED <<suspended, pumpFlag, scheduled>>,
           NEW steps \in Seq(Step), Start(Main, steps),
           \A i \in DOMAIN steps : steps[i].op \notin {"defer", "enqueue"},
           \A i, j \in DOMAIN steps : steps[i].op = "suspend" => steps[j].op \in TransitionOps
    PROVE  SuspendedIsEmpty' /\ SuspendAlone'
  <1>1. Main \in Threads /\ todo[Main] = <<>> /\ todo'[Main] = steps
    BY DEF Start, Idle, TypeOK, Threads
  <1>2. suspended => ~pumpFlag /\ DOMAIN scheduled = {}
    BY <1>1 DEF SuspendedIsEmpty, At
  <1>3. QED
    BY <1>1, <1>2 DEF SuspendedIsEmpty, SuspendAlone

\* What begins when an event comes or a task is run.
LEMMA ArmedEngine ==
    ASSUME TypeOK, PumpInv, ArmedInv,
           RunTask \/ (\E timer \in timers : FireTimer(timer)) \/ EngineEvent
    PROVE  ArmedInv'
  <1>a. Main \in Threads
    BY DEF Threads
  <1>b. UNCHANGED <<suspended, generation, pumpFlag, scheduled>>
    BY EngineForm DEF RunTask, FireTimer
  <1>d. PumpArmed' <=> (pumpFlag \/ DOMAIN scheduled # {} => PumpAt(generation)')
    BY <1>b DEF PumpArmed, SomePump, PumpAt, Live, LiveAt
  <1>e. pumpFlag \/ DOMAIN scheduled # {} => PumpAt(generation)
    BY SomePumpIs DEF ArmedInv, PumpArmed
  <1>1. CASE UNCHANGED <<todo, tasks>>
    BY <1>1, <1>a, <1>b, <1>d, <1>e DEF ArmedInv, PumpAt, SuspendedIsEmpty, SuspendAlone, At
  <1>2. CASE RunTask
    <2>1. /\ tasks # <<>> /\ tasks \in Seq(Step) /\ Head(tasks) = tasks[1] /\ 1 \in DOMAIN tasks
          /\ Head(tasks) \in Step
      BY <1>2 DEF RunTask, TypeOK
    <2> DEFINE steps == <<Head(tasks)>>
    <2>2. steps \in Seq(Step) /\ Start(Main, steps) /\ DOMAIN steps = {1} /\ steps[1] = tasks[1]
      BY <1>2, <2>1, StepLists, Places DEF RunTask
    <2> HIDE DEF steps
    <2>3. tasks[1].op \in {"pump", "release", "refresh"}
      BY <2>1 DEF PumpInv, QueuesCarry
    <2>4. SuspendedIsEmpty' /\ SuspendAlone'
      BY <1>b, <2>2, <2>3, ArmedStart DEF ArmedInv
    <2>5. /\ todo[Main] = <<>> /\ todo'[Main] = steps
          /\ \A u \in Threads \ {Main} : todo'[u] = todo[u]
      BY <1>a, <2>2 DEF Start, Idle, TypeOK
    <2>6. PumpAt(generation) => PumpAt(generation)'
      <3>a. ASSUME NEW u \in Threads, NEW i \in DOMAIN todo[u], LiveAt(todo[u][i], generation)
            PROVE  PumpAt(generation)'
        <4>1. u # Main
          BY <2>5, <3>a, Places
        <4>2. QED
          BY <1>b, <2>5, <3>a, <4>1 DEF PumpAt
      <3>1. SUFFICES ASSUME NEW i \in DOMAIN tasks, LiveAt(tasks[i], generation)
                     PROVE  PumpAt(generation)'
        BY <3>a DEF PumpAt
      <3>2. CASE i = 1
        BY <1>a, <1>b, <2>2, <2>5, <3>1, <3>2 DEF PumpAt
      <3>3. CASE i # 1
        <4>1. i - 1 \in DOMAIN Tail(tasks) /\ Tail(tasks)[i - 1] = tasks[i]
          BY <2>1, <3>3
        <4>2. QED
          BY <1>2, <1>b, <3>1, <4>1 DEF RunTask, PumpAt
      <3>4. QED
        BY <3>2, <3>3
    <2>7. QED
      BY <1>d, <1>e, <2>4, <2>6 DEF ArmedInv
  <1>3. CASE \E timer \in timers : FireTimer(timer)
    <2>1. PICK timer \in timers : FireTimer(timer)
      BY <1>3
    <2>2. /\ tasks \in Seq(Step) /\ timer \in Step /\ UNCHANGED todo
          /\ tasks' = Append(tasks, timer)
      BY <2>1 DEF TypeOK, FireTimer
    <2>3. \A i \in DOMAIN tasks : i \in DOMAIN tasks' /\ tasks'[i] = tasks[i]
      BY <2>2
    <2>4. PumpAt(generation) => PumpAt(generation)'
      BY <1>b, <2>2, <2>3 DEF PumpAt
    <2>5. QED
      BY <1>b, <1>d, <1>e, <2>2, <2>4 DEF ArmedInv, SuspendedIsEmpty, SuspendAlone, At
  <1>4. CASE EngineEvent
    <2>1. CASE UNCHANGED todo
      BY <1>1, <1>4, <2>1, EngineForm
    <2>2. ASSUME NEW t \in Threads, NEW steps \in Seq(Step), Start(t, steps), Started(steps)
          PROVE  ArmedInv'
      <3>1. /\ UNCHANGED tasks /\ todo[t] = <<>>
            /\ \A u \in Threads \ {t} : todo'[u] = todo[u]
        BY <1>4, <2>2, EngineForm DEF Start, Idle, TypeOK
      <3>2. /\ \A i \in DOMAIN steps : steps[i].op \notin {"defer", "enqueue"}
            /\ \A i, j \in DOMAIN steps : steps[i].op = "suspend" => steps[j].op \in TransitionOps
        BY <2>2, ListsOf DEF Started, ReportOps, TransferOps, ForgetOps, TransitionOps
      <3>3. SuspendedIsEmpty' /\ SuspendAlone'
        <4>1. CASE t = Main
          BY <1>b, <2>2, <3>1, <3>2, <4>1, ArmedStart DEF ArmedInv
        <4>2. CASE t # Main
          <5>1. todo'[Main] = todo[Main]
            BY <1>a, <3>1, <4>2
          <5>2. QED
            BY <1>b, <5>1 DEF ArmedInv, SuspendedIsEmpty, SuspendAlone, At
        <4>3. QED
          BY <4>1, <4>2
      <3>4. PumpAt(generation) => PumpAt(generation)'
        <4>1. \A u \in Threads : \A i \in DOMAIN todo[u] : i \in DOMAIN todo'[u] /\ todo'[u][i] = todo[u][i]
          BY <3>1, Places
        <4>2. QED
          BY <1>b, <3>1, <4>1 DEF PumpAt
      <3>5. QED
        BY <1>d, <1>e, <3>3, <3>4 DEF ArmedInv
    <2>3. QED
      BY <1>4, <2>1, <2>2, EngineForm
  <1>5. QED
    BY <1>2, <1>3, <1>4

\* A loading thread inserts nothing while evaluation is suspended.
LEMMA SuspendedLoader ==
    ASSUME TypeOK, PumpInv, SuspendedIsEmpty, SuspendAlone, NEW t \in Loaders, StepOf(t),
           Enqueue(t) => ~suspended
    PROVE  SuspendedIsEmpty' /\ SuspendAlone'
  <1>1. /\ todo'[Main] = todo[Main] /\ suspended' = suspended
        /\ Schedule(t) \/ DeferInventoryInteractionEvaluation(t) \/ Enqueue(t) \/ PostPump(t)
    BY LoaderForm
  <1>2. suspended => UNCHANGED <<pumpFlag, scheduled>>
    BY <1>1 DEF Schedule, DeferInventoryInteractionEvaluation, PostPump
  <1>3. QED
    BY <1>1, <1>2 DEF SuspendedIsEmpty, SuspendAlone, At

\* "[RuleScheduler] Evaluation resumed after save transition."
\* (ResumeRuleEvaluationAfterLoad): whatever the background clone threads report, a
\* map that is not empty, and a flag that keeps the next report from posting a
\* pump, always have a pump on its way, unless such a thread inserts an actor while
\* evaluation is suspended.
THEOREM PumpIsArmed == Spec /\ InsertsOnlyWhileRunning => []PumpArmed
  <1> DEFINE Running == \A t \in Loaders : Enqueue(t) => ~suspended
  <1>1. Init => ArmedInv
    <2> SUFFICES ASSUME Init PROVE ArmedInv
      OBVIOUS
    <2>1. todo[Main] = <<>> /\ DOMAIN scheduled = {} /\ ~pumpFlag /\ ~suspended
      BY Places DEF Init, Threads
    <2>2. QED
      BY <2>1, Places DEF ArmedInv, PumpArmed, SuspendedIsEmpty, SuspendAlone
  <1>2. TypeOK /\ PumpInv /\ ArmedInv /\ [Next]_vars /\ [Running]_vars => ArmedInv'
    <2> SUFFICES ASSUME TypeOK, PumpInv, ArmedInv, [Next]_vars, [Running]_vars PROVE ArmedInv'
      OBVIOUS
    <2>1. CASE UNCHANGED vars
      BY <2>1 DEF ArmedInv, PumpArmed, SomePump, Live, SuspendedIsEmpty, SuspendAlone, At
    <2>2. ASSUME Running, NEW t \in Threads, StepOf(t) PROVE ArmedInv'
      <3>1. PumpArmed'
        BY <2>2, PumpArmedStep DEF ArmedInv
      <3>2. SuspendedIsEmpty' /\ SuspendAlone'
        <4>1. CASE t = Main
          BY <2>2, <4>1, SuspendAloneStep, SuspendedStep DEF ArmedInv
        <4>2. CASE t \in Loaders
          BY <2>2, <4>2, SuspendedLoader DEF ArmedInv
        <4>3. QED
          BY <4>1, <4>2 DEF Threads
      <3>3. QED
        BY <3>1, <3>2 DEF ArmedInv
    <2>3. CASE RunTask \/ (\E timer \in timers : FireTimer(timer)) \/ EngineEvent
      BY <2>3, ArmedEngine
    <2>4. QED
      BY <2>1, <2>2, <2>3 DEF Next
  <1>3. Spec => []PumpInv
    BY TypeCorrect, InitPump, NextPump, PTL DEF Spec
  <1>4. Spec /\ InsertsOnlyWhileRunning => []ArmedInv
    BY TypeCorrect, <1>1, <1>2, <1>3, PTL DEF Spec, InsertsOnlyWhileRunning
  <1>5. ArmedInv => PumpArmed
    BY DEF ArmedInv
  <1>6. QED
    BY <1>4, <1>5, PTL

----------------------------------------------------------------------------
(* The release of an interaction is armed.                                 *)

\* The release of the interaction as it is now.
OwnRelease(step) == step.op = "release" /\ step.token = interaction.token

Ending == \E i \in DOMAIN todo[Main] : todo[Main][i].op = "end" \/ OwnRelease(todo[Main][i])

\* The menu's object goes with its close event; what opens or joins an
\* interaction runs while the menu is open, so the token of an interaction whose
\* menu is closed changes no more; and its end or its release is on the way.
ReleaseInv ==
    /\ menuEntry = menuOpen
    /\ (\E i \in DOMAIN todo[Main] : todo[Main][i].op = "begin") => menuOpen
    /\ interaction.active /\ ~menuOpen => ReleasePending \/ Ending

\* The step of a thread that opens nothing and ends nothing.
LEMMA ReleaseOn ==
    ASSUME TypeOK, ReleaseInv, todo[Main] # <<>>, NEW new \in Seq(Step), Goto(Main, new),
           \A i \in DOMAIN new : new[i].op # "begin" \/ menuOpen,
           interaction'.active => interaction.active /\ interaction'.token = interaction.token,
           UNCHANGED <<menuOpen, menuEntry>>,
           tasks' = tasks \/ \E e \in Step : tasks' = Append(tasks, e),
           timers \subseteq timers',
           interaction'.active /\ ~menuOpen =>
              \/ Head(todo[Main]).op # "end" /\ ~OwnRelease(Head(todo[Main]))
              \/ \E timer \in timers' : OwnRelease(timer)
    PROVE  ReleaseInv'
  <1>a. Main \in Threads /\ tasks \in Seq(Step)
    BY DEF Threads, TypeOK
  <1>1. /\ \A i \in DOMAIN todo'[Main] :
                \/ \E j \in DOMAIN new : todo'[Main][i] = new[j]
                \/ \E j \in DOMAIN todo[Main] : j > 1 /\ todo'[Main][i] = todo[Main][j]
        /\ \A j \in DOMAIN todo[Main] : j > 1 => \E i \in DOMAIN todo'[Main] : todo'[Main][i] = todo[Main][j]
        /\ \A j \in DOMAIN todo[Main] : j > 1 \/ todo[Main][j] = Head(todo[Main])
    BY <1>a, GotoMembers
  <1>2. (\E i \in DOMAIN todo'[Main] : todo'[Main][i].op = "begin") => menuOpen'
    BY <1>1 DEF ReleaseInv
  <1>3. ASSUME interaction'.active, ~menuOpen'
        PROVE  ReleasePending' \/ Ending'
    <2>1. interaction.active /\ ~menuOpen /\ interaction'.token = interaction.token
      BY <1>3
    <2>2. \A i \in DOMAIN tasks : i \in DOMAIN tasks' /\ tasks'[i] = tasks[i]
      <3>1. \A e \in Step : \A i \in DOMAIN tasks :
                i \in DOMAIN Append(tasks, e) /\ Append(tasks, e)[i] = tasks[i]
        BY <1>a
      <3>2. QED
        BY <3>1
    <2>3. CASE ReleasePending
      BY <2>1, <2>2, <2>3 DEF ReleasePending
    <2>4. CASE \E timer \in timers' : OwnRelease(timer)
      BY <2>1, <2>4 DEF ReleasePending, OwnRelease
    <2>5. CASE Ending /\ Head(todo[Main]).op # "end" /\ ~OwnRelease(Head(todo[Main]))
      <3>1. PICK j \in DOMAIN todo[Main] : todo[Main][j].op = "end" \/ OwnRelease(todo[Main][j])
        BY <2>5 DEF Ending
      <3>2. j > 1
        BY <1>1, <2>5, <3>1
      <3>3. QED
        BY <1>1, <2>1, <3>1, <3>2 DEF Ending, OwnRelease
    <2>6. QED
      BY <1>3, <2>1, <2>3, <2>4, <2>5 DEF ReleaseInv
  <1>4. QED
    BY <1>2, <1>3 DEF ReleaseInv

LEMMA ReleaseStep ==
    ASSUME TypeOK, ReleaseInv, StepOf(Main)
    PROVE  ReleaseInv'
  <1> DEFINE s == Head(todo[Main])
  <1>a. Main \in Threads
    BY DEF Threads
  <1>1. todo[Main] # <<>> /\ s = todo[Main][1] /\ 1 \in DOMAIN todo[Main] /\ s \in Step
    BY <1>a, StepForm
  <1>2. PICK new \in Seq(Step) :
            Goto(Main, new) /\ \A i \in DOMAIN new : <<s.op, new[i].op>> \in Follow
    BY <1>a, StepForm
  <1>3. s.op # "apply" => \A i \in DOMAIN new : new[i].op # "begin"
    BY <1>2 DEF Follow
  <1>4. UNCHANGED <<menuOpen, menuEntry>>
    BY DEF StepOf, Schedule, DeferInventoryInteractionEvaluation, Enqueue, PostPump,
       Pump, Take, Apply, Nested, Repost, BeginInventoryInteraction, MoveScheduled,
       EndInventoryInteraction, Release, Each, ForgetScheduled, ForgetInteraction, ResetScheduled,
       ResetInteraction, SuspendRuleEvaluationForLoad, SetContext, ResumeRuleEvaluationAfterLoad,
       Refresh
  <1>5. CASE Apply(Main)
    <2>1. /\ s.op = "apply" /\ UNCHANGED <<interaction, tasks, timers>>
          /\ s.actor \in Actors
      BY <1>1, <1>5, StepFields DEF Apply, At
    <2>2. \E list \in Seq(Step) :
              Goto(Main, list) /\ \A i \in DOMAIN list : list[i].op # "begin" \/ menuOpen
      <3>1. CASE menuOpen
        BY <1>2, <3>1
      <3>2. CASE ~menuOpen
        <4>1. ~menuEntry
          BY <3>2 DEF ReleaseInv
        <4> DEFINE n == ActorStep("nested", s.actor, {Inventory})
        <4>2. n \in Step /\ n.op # "begin"
          <5>1. {Inventory} \in SUBSET Kinds
            BY ActorAssumption
          <5>2. QED
            BY <2>1, <5>1, StepIntro DEF ActorStep
        <4>3. Append(MenuSteps(s.actor, menuEntry), n) = <<n>>
          BY <4>1 DEF MenuSteps
        <4>4. Goto(Main, <<>>) \/ Goto(Main, <<n>>)
          BY <1>5, <4>3 DEF Apply
        <4> HIDE DEF n
        <4>5. <<n>> \in Seq(Step) /\ <<>> \in Seq(Step)
          BY <4>2, StepLists
        <4>6. (\A i \in DOMAIN <<>> : FALSE) /\ \A i \in DOMAIN <<n>> : <<n>>[i] = n
          BY Places
        <4>7. CASE Goto(Main, <<>>)
          BY <4>5, <4>6, <4>7
        <4>8. CASE Goto(Main, <<n>>)
          BY <4>2, <4>5, <4>6, <4>8
        <4>9. QED
          BY <4>4, <4>7, <4>8
      <3>3. QED
        BY <3>1, <3>2
    <2>3. s.op # "end" /\ ~OwnRelease(s)
      BY <2>1 DEF OwnRelease
    <2>4. QED
      BY <1>1, <1>4, <2>1, <2>2, <2>3, ReleaseOn
  <1>6. CASE BeginInventoryInteraction(Main)
    <2>1. s.op = "begin" /\ UNCHANGED <<tasks, timers>>
      BY <1>6 DEF BeginInventoryInteraction, At
    <2>2. menuOpen
      BY <1>1, <2>1 DEF ReleaseInv
    <2>3. QED
      BY <1>4, <2>2 DEF ReleaseInv
  <1>7. CASE EndInventoryInteraction(Main)
    <2>1. s.op = "end" /\ UNCHANGED <<tasks, interaction>> /\ timers \subseteq timers'
      BY <1>7 DEF EndInventoryInteraction, At
    <2>2. interaction.active => \E timer \in timers' : OwnRelease(timer)
      <3> DEFINE r == [op |-> "release", token |-> interaction.token]
      <3>1. interaction.active => r \in timers'
        BY <1>7 DEF EndInventoryInteraction
      <3>2. OwnRelease(r)
        BY DEF OwnRelease
      <3>3. QED
        BY <3>1, <3>2
    <2>3. QED
      BY <1>1, <1>2, <1>3, <1>4, <2>1, <2>2, ReleaseOn
  <1>8. CASE Release(Main)
    <2>1. s.op = "release" /\ UNCHANGED <<tasks, timers>>
      BY <1>8 DEF Release, At
    <2>2. interaction'.active => UNCHANGED interaction /\ ~OwnRelease(s)
      BY <1>8 DEF Release, NoInteraction, OwnRelease
    <2>3. QED
      BY <1>1, <1>2, <1>3, <1>4, <2>1, <2>2, ReleaseOn
  <1>9. CASE \/ Schedule(Main) \/ DeferInventoryInteractionEvaluation(Main) \/ Enqueue(Main)
             \/ PostPump(Main) \/ Pump(Main) \/ Take(Main) \/ Nested(Main) \/ Repost(Main)
             \/ MoveScheduled(Main) \/ Each(Main) \/ ForgetScheduled(Main) \/ ForgetInteraction(Main)
             \/ ResetScheduled(Main) \/ ResetInteraction(Main) \/ SuspendRuleEvaluationForLoad(Main)
             \/ SetContext(Main) \/ ResumeRuleEvaluationAfterLoad(Main) \/ Refresh(Main)
    <2>1. s.op \notin {"apply", "begin", "end", "release"}
      BY <1>9 DEF Schedule, DeferInventoryInteractionEvaluation, Enqueue, PostPump, Pump, Take,
         Nested, Repost, MoveScheduled, Each, ForgetScheduled, ForgetInteraction, ResetScheduled,
         ResetInteraction, SuspendRuleEvaluationForLoad, SetContext, ResumeRuleEvaluationAfterLoad,
         Refresh, At
    <2>2. ~OwnRelease(s)
      BY <2>1 DEF OwnRelease
    <2>3. interaction'.active => interaction.active /\ interaction'.token = interaction.token
      <3>1. interaction \in [active : BOOLEAN, token : Nat, actors : SUBSET Actors,
                             pending : MapOf(Actors, SUBSET Kinds)]
        BY DEF TypeOK
      <3>2. CASE DeferInventoryInteractionEvaluation(Main) \/ Nested(Main) \/ MoveScheduled(Main)
                 \/ ForgetInteraction(Main)
        <4>1. \A p : [interaction EXCEPT !.pending = p].active = interaction.active
                     /\ [interaction EXCEPT !.pending = p].token = interaction.token
          BY <3>1
        <4>2. \A q, p : [interaction EXCEPT !.actors = q, !.pending = p].active = interaction.active
                     /\ [interaction EXCEPT !.actors = q, !.pending = p].token = interaction.token
          BY <3>1
        <4>3. CASE ForgetInteraction(Main)
          BY <4>2, <4>3 DEF ForgetInteraction
        <4>4. CASE MoveScheduled(Main)
          BY <4>1, <4>4 DEF MoveScheduled
        <4>5. CASE DeferInventoryInteractionEvaluation(Main) \/ Nested(Main)
          <5>1. UNCHANGED interaction \/ \E p : interaction' = [interaction EXCEPT !.pending = p]
            BY <4>5 DEF DeferInventoryInteractionEvaluation, Nested, DeferTo
          <5>2. QED
            BY <4>1, <5>1
        <4>6. QED
          BY <3>2, <4>3, <4>4, <4>5
      <3>3. CASE ResetInteraction(Main)
        BY <3>3 DEF ResetInteraction, NoInteraction
      <3>4. CASE UNCHANGED interaction
        BY <3>4
      <3>5. QED
        BY <1>9, <3>2, <3>3, <3>4 DEF Schedule, Enqueue, PostPump, Pump, Take, Repost, Each,
           ForgetScheduled, ResetScheduled, SuspendRuleEvaluationForLoad, SetContext,
           ResumeRuleEvaluationAfterLoad, Refresh
    <2>4. timers \subseteq timers'
      BY <1>9 DEF Schedule, DeferInventoryInteractionEvaluation, Enqueue, PostPump, Pump, Take,
         Nested, Repost, MoveScheduled, Each, ForgetScheduled, ForgetInteraction, ResetScheduled,
         ResetInteraction, SuspendRuleEvaluationForLoad, SetContext, ResumeRuleEvaluationAfterLoad,
         Refresh
    <2>5. tasks' = tasks \/ \E e \in Step : tasks' = Append(tasks, e)
      <3>1. CASE PostPump(Main)
        <4>1. PumpStep("pump", s.gen) \in Step
          BY <1>1, <3>1, StepFields, StepIntro DEF PostPump, At, PumpOps
        <4>2. QED
          BY <3>1, <4>1 DEF PostPump
      <3>2. QED
        BY <1>9, <3>1 DEF Schedule, DeferInventoryInteractionEvaluation, Enqueue, Pump, Take,
           Nested, Repost, MoveScheduled, Each, ForgetScheduled, ForgetInteraction, ResetScheduled,
           ResetInteraction, SuspendRuleEvaluationForLoad, SetContext,
           ResumeRuleEvaluationAfterLoad, Refresh
    <2>6. QED
      BY <1>1, <1>2, <1>3, <1>4, <2>1, <2>2, <2>3, <2>4, <2>5, ReleaseOn
  <1>10. QED
    BY <1>5, <1>6, <1>7, <1>8, <1>9 DEF StepOf

\* A loading thread reports, queues and posts, and nothing else.
LEMMA ReleaseLoader ==
    ASSUME TypeOK, PumpInv, ReleaseInv, NEW t \in Loaders, StepOf(t)
    PROVE  ReleaseInv'
  <1>1. t \in Threads /\ todo[t] # <<>> /\ Head(todo[t]) \in Step
    BY LoaderForm, StepForm
  <1>2. todo'[Main] = todo[Main]
    BY LoaderForm
  <1>4. \/ Schedule(t) \/ DeferInventoryInteractionEvaluation(t) \/ Enqueue(t) \/ PostPump(t)
    BY LoaderForm
  <1>5. /\ UNCHANGED <<menuOpen, menuEntry, timers>>
        /\ interaction'.active = interaction.active /\ interaction'.token = interaction.token
    <2>1. interaction \in [active : BOOLEAN, token : Nat, actors : SUBSET Actors,
                           pending : MapOf(Actors, SUBSET Kinds)]
      BY DEF TypeOK
    <2>2. QED
      BY <1>4, <2>1 DEF Schedule, DeferInventoryInteractionEvaluation, Enqueue, PostPump, DeferTo
  <1>6. \A i \in DOMAIN tasks : i \in DOMAIN tasks' /\ tasks'[i] = tasks[i]
    <2>1. tasks \in Seq(Step)
      BY DEF TypeOK
    <2>2. CASE PostPump(t)
      <3>1. PumpStep("pump", Head(todo[t]).gen) \in Step
        BY <1>1, <2>2, StepFields, StepIntro DEF PostPump, At, PumpOps
      <3>2. QED
        BY <2>1, <2>2, <3>1 DEF PostPump
    <2>3. QED
      BY <1>4, <2>2 DEF Schedule, DeferInventoryInteractionEvaluation, Enqueue
  <1>7. ReleasePending => ReleasePending'
    BY <1>5, <1>6 DEF ReleasePending
  <1>8. Ending => Ending'
    BY <1>2, <1>5 DEF Ending, OwnRelease
  <1>9. QED
    BY <1>2, <1>5, <1>7, <1>8 DEF ReleaseInv

\* An event changes the menu, the engine runs a task or a timer.
LEMMA ReleaseEngine ==
    ASSUME LingeringEntry = FALSE, TypeOK, PumpInv, ReleaseInv,
           RunTask \/ (\E timer \in timers : FireTimer(timer)) \/ EngineEvent
    PROVE  ReleaseInv'
  <1>a. Main \in Threads /\ UNCHANGED interaction
    BY EngineForm DEF Threads, RunTask, FireTimer
  <1>1. CASE RunTask
    <2>1. /\ tasks # <<>> /\ tasks \in Seq(Step) /\ Head(tasks) = tasks[1] /\ 1 \in DOMAIN tasks
          /\ Head(tasks) \in Step
      BY <1>1 DEF RunTask, TypeOK
    <2>2. /\ tasks' = Tail(tasks) /\ UNCHANGED <<timers, menuOpen, menuEntry>>
          /\ todo[Main] = <<>> /\ todo'[Main] = <<Head(tasks)>>
      BY <1>1, <1>a DEF RunTask, Start, Idle, TypeOK
    <2>3. DOMAIN todo'[Main] = {1} /\ todo'[Main][1] = tasks[1]
      BY <2>1, <2>2, Places
    <2>4. ReleasePending => ReleasePending' \/ Ending'
      <3>1. CASE \E timer \in timers : OwnRelease(timer)
        BY <1>a, <2>2, <3>1 DEF ReleasePending, OwnRelease
      <3>2. ASSUME NEW i \in DOMAIN tasks, OwnRelease(tasks[i])
            PROVE  ReleasePending' \/ Ending'
        <4>1. CASE i = 1
          BY <1>a, <2>3, <3>2, <4>1 DEF Ending, OwnRelease
        <4>2. CASE i # 1
          <5>1. i - 1 \in DOMAIN Tail(tasks) /\ Tail(tasks)[i - 1] = tasks[i]
            BY <2>1, <4>2
          <5>2. QED
            BY <1>a, <2>2, <3>2, <5>1 DEF ReleasePending, OwnRelease
        <4>3. QED
          BY <4>1, <4>2
      <3>3. QED
        BY <3>1, <3>2 DEF ReleasePending, OwnRelease
    <2>5. ~Ending
      BY <2>2, Places DEF Ending
    <2>6. tasks[1].op # "begin"
      BY <2>1 DEF PumpInv, QueuesCarry
    <2>7. QED
      BY <1>a, <2>2, <2>3, <2>4, <2>5, <2>6 DEF ReleaseInv
  <1>2. CASE \E timer \in timers : FireTimer(timer)
    <2>1. PICK timer \in timers : FireTimer(timer)
      BY <1>2
    <2>2. /\ tasks \in Seq(Step) /\ timer \in Step /\ tasks' = Append(tasks, timer)
          /\ timers' = timers \ {timer} /\ UNCHANGED <<todo, menuOpen, menuEntry>>
      BY <2>1 DEF TypeOK, FireTimer
    <2>3. /\ \A i \in DOMAIN tasks : i \in DOMAIN tasks' /\ tasks'[i] = tasks[i]
          /\ \E i \in DOMAIN tasks' : tasks'[i] = timer
      BY <2>2, AppendPlaces
    <2>4. ReleasePending => ReleasePending'
      BY <1>a, <2>2, <2>3 DEF ReleasePending
    <2>5. QED
      BY <1>a, <2>2, <2>4 DEF ReleaseInv, Ending, OwnRelease
  <1>3. CASE EngineEvent
    <2>1. UNCHANGED <<tasks, timers>>
      BY <1>3, EngineForm
    <2>2. ReleasePending' <=> ReleasePending
      BY <1>a, <2>1 DEF ReleasePending
    <2>3. CASE OpenMenu
      BY <2>3 DEF OpenMenu, ReleaseInv
    <2>4. CASE CloseMenu
      <3>1. menuOpen' = FALSE /\ menuEntry' = FALSE /\ todo'[Main] = <<Plain("end")>>
        BY <1>a, <2>4 DEF CloseMenu, Start, TypeOK
      <3>2. DOMAIN todo'[Main] = {1} /\ todo'[Main][1].op = "end"
        BY <3>1, Places DEF Plain
      <3>3. Ending'
        BY <3>2 DEF Ending
      <3>4. ~\E i \in DOMAIN todo'[Main] : todo'[Main][i].op = "begin"
        BY <3>2
      <3>5. QED
        BY <3>1, <3>3, <3>4 DEF ReleaseInv
    <2>5. CASE ~OpenMenu /\ ~CloseMenu
      <3>1. UNCHANGED <<menuOpen, menuEntry>>
        <4>1. CASE DropMenuEntry
          BY <4>1 DEF DropMenuEntry, ReleaseInv
        <4>2. QED
          BY <1>3, <2>5, <4>1 DEF EngineEvent, ReportChange, ReportAll, LevelUp, ContainerChanged,
             Unload, Kill, PreLoadGame, PostLoadGame, NewGame, BackgroundClone
      <3>2. CASE UNCHANGED todo
        BY <1>a, <2>2, <3>1, <3>2 DEF ReleaseInv, Ending, OwnRelease
      <3>3. ASSUME NEW t \in Threads, NEW steps \in Seq(Step), Start(t, steps), Started(steps)
            PROVE  ReleaseInv'
        <4>1. CASE t = Main
          <5>1. todo[Main] = <<>> /\ todo'[Main] = steps
            BY <1>a, <3>3, <4>1 DEF Start, Idle, TypeOK
          <5>2. ~Ending
            BY <5>1, Places DEF Ending
          <5>3. (\E i \in DOMAIN steps : steps[i].op = "begin") => menuEntry'
            BY <3>3, ListsOf DEF Started, ReportOps, TransferOps, ForgetOps, TransitionOps
          <5>4. QED
            BY <1>a, <2>2, <3>1, <5>1, <5>2, <5>3 DEF ReleaseInv
        <4>2. CASE t # Main
          <5>1. todo'[Main] = todo[Main]
            BY <1>a, <3>3, <4>2 DEF Start, TypeOK
          <5>2. QED
            BY <1>a, <2>2, <3>1, <5>1 DEF ReleaseInv, Ending, OwnRelease
        <4>3. QED
          BY <4>1, <4>2
      <3>4. QED
        BY <1>3, <3>2, <3>3, EngineForm
    <2>6. QED
      BY <2>3, <2>4, <2>5
  <1>4. QED
    BY <1>1, <1>2, <1>3

\* EndInventoryInteraction and the token test of its delayed body: an interaction
\* whose menu is closed, with the main thread at rest, has the release of the
\* token it now has in the dispatcher or in the task queue, for every number of
\* loading threads, if the menu's object goes with its close event.
THEOREM ReleaseIsArmed == ASSUME LingeringEntry = FALSE PROVE Spec => []ReleaseArmed
  <1>1. Init => ReleaseInv
    <2> SUFFICES ASSUME Init PROVE ReleaseInv
      OBVIOUS
    <2>1. todo[Main] = <<>> /\ ~interaction.active /\ menuEntry = menuOpen
      BY DEF Init, NoInteraction, Threads
    <2>2. QED
      BY <2>1, Places DEF ReleaseInv
  <1>2. TypeOK /\ PumpInv /\ ReleaseInv /\ [Next]_vars => ReleaseInv'
    <2> SUFFICES ASSUME TypeOK, PumpInv, ReleaseInv, [Next]_vars PROVE ReleaseInv'
      OBVIOUS
    <2>1. CASE \E t \in Threads : StepOf(t)
      BY <2>1, ReleaseStep, ReleaseLoader DEF Threads
    <2>2. CASE RunTask \/ (\E timer \in timers : FireTimer(timer)) \/ EngineEvent
      BY <2>2, ReleaseEngine
    <2>3. CASE UNCHANGED vars
      BY <2>3 DEF ReleaseInv, ReleasePending, Ending, OwnRelease
    <2>4. QED
      BY <2>1, <2>2, <2>3 DEF Next
  <1>3. ReleaseInv => ReleaseArmed
    BY Places DEF ReleaseInv, ReleaseArmed, Ending, Idle
  <1>4. Spec => []PumpInv
    BY TypeCorrect, InitPump, NextPump, PTL DEF Spec
  <1>5. Spec => []ReleaseInv
    BY TypeCorrect, <1>1, <1>2, <1>4, PTL DEF Spec
  <1>6. QED
    BY <1>3, <1>5, PTL
=============================================================================
