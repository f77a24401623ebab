---------------------------- MODULE TitleProgress ----------------------------
(***************************************************************************)
(* The progress of a WIYT title and the delivery of its rewards            *)
(* (src/WIYT/State.cpp, src/WIYT/Runtime.cpp, src/WIYT/Plugin.cpp).        *)
(*                                                                         *)
(* Titles share nothing but the lock of State, so the module follows one.  *)
(* Every operation of State is one critical section; between two of them   *)
(* the calls of the threads interleave: the main thread reports events,    *)
(* runs the editor and the co-save callbacks, and the Papyrus virtual      *)
(* machine calls back with statistics.  A game is saved and loaded with    *)
(* the virtual machine frozen: no call is half way then.                   *)
(***************************************************************************)
EXTENDS Integers, Sequences, FiniteSets, SequencesExt

CONSTANTS
    Threads, Main, \* the threads that call into the runtime; Main is one of them
    NReqs,         \* the requirements a definition may have are 1..NReqs
    Rewards,       \* keys of rewards in the reward groups
    Definitions,   \* the versions of the title's definition
    MaxValue,      \* bound: what a counter or an amount may reach
    MaxEvents      \* bound: reports, edits, resets, saves and loads

Reqs == 1..NReqs
EventModes == {"count", "sum", "unique", "highestValue"}
AbsoluteModes == {"lifetime", "sinceActivated", "highestReached"}
NoPrint == 0   \* the empty fingerprint
NoBaseline == -1

ASSUME TitleThreadAssumption == Main \in Threads

ASSUME TitleBoundAssumption ==
    NReqs \in Nat /\ MaxValue \in Nat /\ MaxEvents \in Nat

\* A definition: its requirements with the fingerprints, targets and modes of
\* each, and the rewards that its groups hold.
ASSUME DefinitionAssumption ==
    \A d \in Definitions :
        /\ d.reqs \subseteq Reqs
        /\ d.rewards \subseteq Rewards
        /\ d.enabled \in BOOLEAN
        /\ d.print \in [Reqs -> Nat \ {NoPrint}]
        /\ d.legacyPrint \in [Reqs -> Nat \ {NoPrint}]
        /\ d.target \in [Reqs -> Nat \ {0}]
        /\ d.mode \in [Reqs -> EventModes \cup AbsoluteModes]
        /\ d.required \in [Reqs -> BOOLEAN]
        /\ d.filtered \in [Reqs -> BOOLEAN]

VARIABLES
    def,       \* the definition in the store, as edited so far
    unsaved,   \* the definition was edited since the store was saved
    title,     \* State::_titles
    public,    \* the value of the title's Global, in thousandths
    cosave,    \* what the last save of the game holds of the title
    call,      \* per thread, what it is doing
    given,     \* history: how often each thread gave each reward in this progress
    disturbed, \* history: a reset or an edit found a call under way
    events     \* counter of the bound

vars == <<def, unsaved, title, public, cosave, call, given, disturbed, events>>
definitionVars == <<def, unsaved>>
historyVars == <<given, disturbed>>
----------------------------------------------------------------------------
(* What State keeps of a title, and how an operation changes it.           *)

FreshReq == [print |-> NoPrint, value |-> 0, baseline |-> NoBaseline,
             highest |-> 0, keys |-> {}, met |-> TRUE]

FreshTitle == [completed |-> FALSE, rewarded |-> FALSE, chosen |-> FALSE,
               selected |-> {}, delivered |-> {}, overall |-> 0,
               req |-> [q \in Reqs |-> FreshReq]]

\* GetRequirementLocked: progress made under another definition is dropped.
Current(t, d, q) ==
    LET p == t.req[q]
    IN CASE p.print # d.print[q] /\ ~t.completed /\ p.print # d.legacyPrint[q] ->
              [FreshReq EXCEPT !.print = d.print[q]]
         [] p.print = NoPrint \/ (p.print = d.legacyPrint[q] /\ ~t.completed) ->
              [p EXCEPT !.print = d.print[q]]
         [] OTHER -> p

Reached(t, d, q) == t.req[q].value >= d.target[q]
Waiting(t, d, q) == Reached(t, d, q) /\ d.required[q] /\ ~t.req[q].met

\* The mean of the requirements' ratios, in thousandths.
RawOverall(t, d) ==
    IF d.reqs = {} THEN 0
    ELSE MapThenSumSet(LAMBDA q : (1000 * Min({t.req[q].value, d.target[q]}))
                                      \div d.target[q], d.reqs)
             \div Cardinality(d.reqs)

Complete(t, d) ==
    d.reqs # {} /\ \A q \in d.reqs : Reached(t, d, q) /\ ~Waiting(t, d, q)

\* Mutant: the prerequisites hold up completion, not the public value.
RecomputedUncapped(t, d) ==
    IF t.completed \/ Complete(t, d)
    THEN [t EXCEPT !.completed = TRUE, !.overall = 1000]
    ELSE [t EXCEPT !.overall = RawOverall(t, d)]

\* RecomputeLocked: completion is for good, and 1.0 is for completed titles.
Recomputed(t, d) ==
    IF t.completed \/ Complete(t, d)
    THEN [t EXCEPT !.completed = TRUE, !.overall = 1000]
    ELSE LET raw == RawOverall(t, d)
         IN [t EXCEPT !.overall = IF raw < 999 THEN raw ELSE 999]

\* ReconcileDefinitions; what it completes is not reported to anyone.
Reconciled(t, d) ==
    Recomputed([t EXCEPT !.req =
        [q \in Reqs |-> IF q \in d.reqs
                        THEN [Current(t, d, q) EXCEPT !.met = ~d.filtered[q]]
                        ELSE t.req[q]]], d)

\* AddEventProgress: the value an event of this amount and key leads to.
Credited(p, mode, amount, key) ==
    LET keys == IF mode = "unique" THEN p.keys \cup {key} ELSE p.keys
        value == CASE mode = "count" -> p.value + 1
                   [] mode = "sum" -> p.value + amount
                   [] mode = "unique" -> Cardinality(keys)
                   [] mode = "highestValue" -> Max({p.value, amount})
        capped == Min({value, MaxValue})
    IN [p EXCEPT !.value = capped, !.keys = keys, !.highest = Max({@, capped})]

\* SetAbsoluteProgress: the value that the counter stands for.
Measured(p, mode, counter) ==
    LET baseline == IF mode = "sinceActivated" /\ p.baseline = NoBaseline
                    THEN counter ELSE p.baseline
        value == CASE mode = "lifetime" -> counter
                   [] mode = "sinceActivated" -> Max({0, counter - baseline})
                   [] mode = "highestReached" -> Max({p.highest, counter})
    IN [p EXCEPT !.value = value, !.baseline = baseline, !.highest = Max({@, value})]

\* An operation of State stores the progress p and recomputes the title.
Revised(t, d, q, p) == Recomputed([t EXCEPT !.req[q] = p], d)
----------------------------------------------------------------------------
(* What a thread has to do.  plan is the work left in the calls it is in;  *)
(* pc is where it stands in HandleProgressChange or ProcessRewardsForTitle.*)

Prepare(q, cause) == [op |-> "prepare", q |-> q, cause |-> cause]
Apply(q, cause) == [op |-> "apply", q |-> q, cause |-> cause]
Pay == [op |-> "pay", q |-> 0, cause |-> "reward"]
Synchronize(cause) == [op |-> "synchronize", q |-> 0, cause |-> cause]

Causes == {"refresh", "event", "absolute"}
Ops == [op : {"prepare", "apply"}, q : Reqs, cause : Causes]
       \cup {Pay} \cup {Synchronize(cause) : cause \in {"saved", "reset"}}

NothingGiven == [t \in Threads |-> [r \in Rewards |-> 0]]

Idle == [plan |-> <<>>, pc |-> "next", change |-> 0, earned |-> FALSE,
         todo |-> {}, reward |-> <<>>, failed |-> FALSE]
IsIdle(t) == call[t].plan = <<>> /\ call[t].pc = "next"
AllIdle == \A t \in Threads : IsIdle(t)

\* The numbers in S from the least one on, as the loops visit them.
InOrder(S) ==
    [i \in 1..Cardinality(S) |-> CHOOSE q \in S : Cardinality({r \in S : r < q}) = i - 1]

\* RefreshProgressSources: the prerequisites of every requirement, then the
\* Globals and graph variables, which are the absolute sources of this model.
RefreshPlan(d) ==
    LET live == IF d.enabled THEN d.reqs ELSE {}
        reqs == InOrder(live)
        sources == InOrder({q \in live : d.mode[q] \in AbsoluteModes})
    IN [i \in DOMAIN reqs |-> Prepare(reqs[i], "refresh")]
       \o [i \in DOMAIN sources |-> Prepare(sources[i], "absolute")]

Init ==
    /\ def \in Definitions
    /\ unsaved = FALSE
    /\ title = Reconciled(FreshTitle, def)
    /\ public = 0
    /\ cosave = <<>>
    /\ call = [t \in Threads |-> Idle]
    /\ given = NothingGiven
    /\ disturbed = FALSE
    /\ events = 0

Event == events < MaxEvents /\ events' = events + 1

\* Thread t enters the runtime with this work.
Enter(t, plan) ==
    /\ IsIdle(t)
    /\ call' = [call EXCEPT ![t] = [Idle EXCEPT !.plan = plan]]

\* An event sink: the report, then a refresh (EventHandler::ProcessEvent).
ReportEvent(q) ==
    /\ Event
    /\ def.enabled /\ q \in def.reqs /\ def.mode[q] \in EventModes
    /\ Enter(Main, <<Prepare(q, "event")>> \o RefreshPlan(def))
    /\ UNCHANGED <<definitionVars, title, public, cosave, historyVars>>

\* The virtual machine answers with a statistic; the last answer of a fetch tries
\* the pending rewards.
AnswerStatistic(t, q, last) ==
    /\ Event
    /\ def.enabled /\ q \in def.reqs /\ def.mode[q] \in AbsoluteModes
    /\ Enter(t, <<Prepare(q, "absolute")>> \o IF last THEN <<Pay>> ELSE <<>>)
    /\ UNCHANGED <<definitionVars, title, public, cosave, historyVars>>

\* The operation at the head of t's plan is of this kind.
AtOp(t, op) == call[t].pc = "next" /\ call[t].plan # <<>> /\ Head(call[t].plan).op = op

\* The operation is over with this outcome; HandleProgressChange publishes
\* what changed.
Outcome(t, before, after, changed, plan) ==
    call' = [call EXCEPT ![t] =
        IF changed \/ after.overall # before.overall
        THEN [@ EXCEPT !.plan = plan, !.pc = "publish", !.change = after.overall,
                       !.earned = after.completed]
        ELSE [@ EXCEPT !.plan = plan]]

\* PrepareRequirementProgress: the player's prerequisites are read, and with
\* them the title; the progress itself follows if they allow it.
DoPrepare(t) ==
    /\ AtOp(t, "prepare")
    /\ LET o == Head(call[t].plan)
           q == o.q
       IN \E met \in IF def.filtered[q] THEN BOOLEAN ELSE {TRUE} :
            LET goesOn == o.cause # "refresh" /\ (met \/ def.required[q])
                plan == IF goesOn THEN <<Apply(q, o.cause)>> \o Tail(call[t].plan)
                        ELSE Tail(call[t].plan)
                p == Current(title, def, q)
            IN IF title.completed
               THEN /\ Outcome(t, title, title, FALSE, plan)
                    /\ UNCHANGED title
               ELSE /\ title' = Revised(title, def, q, [p EXCEPT !.met = met])
                    /\ Outcome(t, title, title', p.met # met, plan)
    /\ UNCHANGED <<definitionVars, public, cosave, historyVars, events>>

\* AddEventProgress or SetAbsoluteProgress, with an amount or a counter that
\* the world comes up with.  A key that was counted before counts no more.
DoApply(t) ==
    /\ AtOp(t, "apply")
    /\ LET o == Head(call[t].plan)
           q == o.q
           mode == def.mode[q]
           plan == Tail(call[t].plan)
           p == Current(title, def, q)
       IN \E amount \in 0..MaxValue :
            LET next == IF o.cause = "event" THEN Credited(p, mode, amount, amount)
                        ELSE Measured(p, mode, amount)
                applies == mode \in IF o.cause = "event" THEN EventModes ELSE AbsoluteModes
            IN CASE title.completed \/ ~applies ->
                      /\ Outcome(t, title, title, FALSE, plan)
                      /\ UNCHANGED title
                 [] ~title.completed /\ applies /\ mode = "unique" /\ amount \in p.keys ->
                      /\ title' = [title EXCEPT !.req[q] = p]
                      /\ Outcome(t, title, title', FALSE, plan)
                 [] OTHER ->
                      /\ title' = Revised(title, def, q, next)
                      /\ Outcome(t, title, title', next.value # p.value, plan)
    /\ UNCHANGED <<definitionVars, public, cosave, historyVars, events>>

\* HandleProgressChange: the Global follows; a title just earned is paid.
Publish(t) ==
    /\ call[t].pc = "publish"
    /\ public' = call[t].change
    /\ call' = [call EXCEPT ![t].pc = "next", ![t].earned = FALSE, ![t].change = 0,
                            ![t].plan = IF call[t].earned THEN <<Pay>> \o @ ELSE @]
    /\ UNCHANGED <<definitionVars, title, cosave, historyVars, events>>

\* SynchronizeTitle at the end of the editor's buttons.
DoSynchronize(t) ==
    /\ AtOp(t, "synchronize")
    /\ public' = IF Head(call[t].plan).cause = "saved" THEN title.overall ELSE 0
    /\ call' = [call EXCEPT ![t].plan = Tail(@)]
    /\ UNCHANGED <<definitionVars, title, cosave, historyVars, events>>
----------------------------------------------------------------------------
(* ProcessRewardsForTitle.  Each look at the title and each change of it   *)
(* is a critical section of its own.                                       *)

At(t, pc) == call[t].pc = pc
Goto(t, pc) == call' = [call EXCEPT ![t].pc = pc]

\* The copy of the title that decides whether there is anything to pay.
StartPay(t) ==
    /\ AtOp(t, "pay")
    /\ LET started == [call[t] EXCEPT !.plan = Tail(@)]
       IN call' = [call EXCEPT ![t] =
            IF ~title.completed \/ title.rewarded THEN started
            ELSE IF title.chosen
                 THEN [started EXCEPT !.pc = "check", !.todo = title.selected]
                 ELSE [started EXCEPT !.pc = "select"]]
    /\ UNCHANGED <<definitionVars, title, public, cosave, historyVars, events>>

\* SetSelectedRewards: the first selection stands.
Chosen(t, rewards) ==
    IF t.chosen THEN t ELSE [t EXCEPT !.chosen = TRUE, !.selected = rewards]

\* SelectRewards rolls what the groups hold; the roll may well be empty.
SelectRewards(t) ==
    /\ At(t, "select")
    /\ \E rewards \in SUBSET def.rewards : title' = Chosen(title, rewards)
    /\ Goto(t, "reread")
    /\ UNCHANGED <<definitionVars, public, cosave, historyVars, events>>

\* Mutant: the selection is not read again, and what was copied before is empty.
RereadCopy(t) ==
    /\ At(t, "reread")
    /\ call' = [call EXCEPT ![t].pc = "check", ![t].todo = {}]
    /\ UNCHANGED <<definitionVars, title, public, cosave, historyVars, events>>

\* The title is read again: another thread may have selected first.
Reread(t) ==
    /\ At(t, "reread")
    /\ call' = [call EXCEPT ![t].pc = "check", ![t].todo = title.selected]
    /\ UNCHANGED <<definitionVars, title, public, cosave, historyVars, events>>

\* The loop goes on without reward r.
Passed(t, r) == [call[t] EXCEPT !.pc = "check", !.todo = @ \ {r}, !.reward = <<>>]

\* IsRewardDelivered of the next reward.
CheckDelivered(t) ==
    /\ At(t, "check")
    /\ \E r \in call[t].todo :
         call' = [call EXCEPT ![t] =
            IF r \in title.delivered THEN Passed(t, r)
            ELSE [@ EXCEPT !.pc = "give", !.reward = <<r>>]]
    /\ UNCHANGED <<definitionVars, title, public, cosave, historyVars, events>>

\* ApplyReward.  A key that the groups no longer hold counts as delivered.
GiveReward(t) ==
    /\ At(t, "give")
    /\ LET r == call[t].reward[1]
       IN given' = IF r \in def.rewards THEN [given EXCEPT ![t][r] = @ + 1] ELSE given
    /\ Goto(t, "mark")
    /\ UNCHANGED <<definitionVars, title, public, cosave, disturbed, events>>

\* ApplyReward fails: no player, an unknown form, no menu of skills.
FailReward(t) ==
    /\ At(t, "give")
    /\ call[t].reward[1] \in def.rewards
    /\ call' = [call EXCEPT ![t] =
            [Passed(t, call[t].reward[1]) EXCEPT !.failed = TRUE]]
    /\ UNCHANGED <<definitionVars, title, public, cosave, historyVars, events>>

\* Mutant: the delivery is not recorded.
MarkNothing(t) ==
    /\ At(t, "mark")
    /\ call' = [call EXCEPT ![t] = Passed(t, call[t].reward[1])]
    /\ UNCHANGED <<definitionVars, title, public, cosave, historyVars, events>>

\* MarkRewardDelivered.
MarkDelivered(t) ==
    /\ At(t, "mark")
    /\ title' = [title EXCEPT !.delivered = @ \cup {call[t].reward[1]}]
    /\ call' = [call EXCEPT ![t] = Passed(t, call[t].reward[1])]
    /\ UNCHANGED <<definitionVars, public, cosave, historyVars, events>>

\* Nothing is left to try: a title without a failure is rewarded for good.
ClosePay(t) ==
    /\ At(t, "check") /\ call[t].todo = {}
    /\ title' = IF call[t].failed THEN title ELSE [title EXCEPT !.rewarded = TRUE]
    /\ call' = [call EXCEPT ![t].pc = "next", ![t].failed = FALSE]
    /\ UNCHANGED <<definitionVars, public, cosave, historyVars, events>>
----------------------------------------------------------------------------
(* The editor, which works on the definitions in the store.                *)

\* An edit takes effect at once, saved or not.
EditDefinition(d) ==
    /\ Event /\ IsIdle(Main)
    /\ d # def /\ def' = d /\ unsaved' = TRUE
    /\ disturbed' = (disturbed \/ ~AllIdle)
    /\ UNCHANGED <<title, public, cosave, call, given>>

\* Mutant: saving the store rebuilds nothing.
SaveDefinitionsOnly ==
    /\ Event
    /\ unsaved' = FALSE
    /\ Enter(Main, RefreshPlan(def) \o <<Synchronize("saved")>>)
    /\ UNCHANGED <<def, title, public, cosave, historyVars>>

\* The Save button: RebuildRequirementIndex reconciles, a refresh follows and
\* then SynchronizeAll.
SaveDefinitions ==
    /\ Event
    /\ unsaved' = FALSE
    /\ title' = Reconciled(title, def)
    /\ Enter(Main, RefreshPlan(def) \o <<Synchronize("saved")>>)
    /\ UNCHANGED <<def, public, cosave, historyVars>>

\* The Reset Progress button; after the refresh the Global is set to zero,
\* whatever the refresh made of the title.
ResetTitle ==
    /\ Event
    /\ title' = Reconciled(FreshTitle, def)
    /\ Enter(Main, RefreshPlan(def) \o <<Synchronize("reset")>>)
    /\ given' = NothingGiven
    /\ disturbed' = ~AllIdle
    /\ UNCHANGED <<definitionVars, public, cosave>>
----------------------------------------------------------------------------
(* The co-save.                                                            *)

\* State::Save.  Whether prerequisites are met is not written.
SaveGame ==
    /\ Event /\ AllIdle
    /\ cosave' = <<[title |-> [title EXCEPT !.req =
                        [q \in Reqs |-> [title.req[q] EXCEPT !.met = TRUE]]],
                    given |-> given, disturbed |-> disturbed]>>
    /\ UNCHANGED <<definitionVars, title, public, call, historyVars>>

\* The load callback and kPostLoadGame: what was read is reconciled, published
\* and refreshed, and what is still owed is paid.
Loaded(record) ==
    /\ title' = Reconciled(record.title, def)
    /\ public' = title'.overall
    /\ given' = record.given
    /\ disturbed' = record.disturbed
    /\ call' = [call EXCEPT ![Main] = [Idle EXCEPT !.plan = RefreshPlan(def) \o <<Pay>>]]
    /\ UNCHANGED <<definitionVars, cosave>>

NoRecord == [title |-> FreshTitle, given |-> NothingGiven, disturbed |-> FALSE]

LoadGame ==
    /\ Event /\ AllIdle
    /\ cosave # <<>> /\ Loaded(cosave[1])

\* A new game, a save without a record, and a record that cannot be read to its
\* end: State::Load replaces nothing, and the revert left nothing.
StartFresh == Event /\ AllIdle /\ Loaded(NoRecord)

\* The program runs its calls to the end; the world may stop at any time.
Settled == AllIdle /\ UNCHANGED vars

Next ==
    \/ \E q \in Reqs : ReportEvent(q)
    \/ \E t \in Threads \ {Main}, q \in Reqs, last \in BOOLEAN : AnswerStatistic(t, q, last)
    \/ \E t \in Threads :
        \/ DoPrepare(t) \/ DoApply(t) \/ Publish(t) \/ DoSynchronize(t)
        \/ StartPay(t) \/ SelectRewards(t) \/ Reread(t)
        \/ CheckDelivered(t) \/ GiveReward(t) \/ FailReward(t)
        \/ MarkDelivered(t) \/ ClosePay(t)
    \/ \E d \in Definitions : EditDefinition(d)
    \/ SaveDefinitions \/ ResetTitle
    \/ SaveGame \/ LoadGame \/ StartFresh
    \/ Settled

Spec == Init /\ [][Next]_vars
----------------------------------------------------------------------------
Requirement ==
    [print : Nat, value : Nat, baseline : Nat \cup {NoBaseline}, highest : Nat,
     keys : SUBSET Nat, met : BOOLEAN]

Title ==
    [completed : BOOLEAN, rewarded : BOOLEAN, chosen : BOOLEAN,
     selected : SUBSET Rewards, delivered : SUBSET Rewards, overall : 0..1000,
     req : [Reqs -> Requirement]]

CallRecord ==
    [plan : Seq(Ops),
     pc : {"next", "publish", "select", "reread", "check", "give", "mark"},
     change : 0..1000, earned : BOOLEAN, todo : SUBSET Rewards,
     reward : {<<>>} \cup {<<r>> : r \in Rewards}, failed : BOOLEAN]

Record == [title : Title, given : [Threads -> [Rewards -> Nat]], disturbed : BOOLEAN]

\* What each variable holds; a call that gives or marks a reward has picked one.
TypeOK ==
    /\ def \in Definitions
    /\ unsaved \in BOOLEAN
    /\ title \in Title
    /\ public \in 0..1000
    /\ cosave = <<>> \/ (Len(cosave) = 1 /\ cosave[1] \in Record)
    /\ call \in [Threads -> CallRecord]
    /\ \A t \in Threads : call[t].pc \in {"give", "mark"} => call[t].reward # <<>>
    /\ given \in [Threads -> [Rewards -> Nat]]
    /\ disturbed \in BOOLEAN
    /\ events \in 0..MaxEvents

\* IsRewardDelivered, ApplyReward and MarkRewardDelivered are three steps, and
\* saves, loads, failures and retries come between payments: no thread gives a
\* reward of the same progress twice.  Two threads that both look before either
\* has marked the reward give it once each: nothing in the code prevents that.
GivenOncePerThread == \A t \in Threads, r \in Rewards : given[t][r] <= 1

\* A title is closed only when each reward of the one selection was delivered,
\* whoever selected and whatever failed in between (ProcessRewardsForTitle).
RewardedMeansDelivered ==
    title.rewarded /\ ~disturbed => title.chosen /\ title.selected \subseteq title.delivered

\* "A public title Global reaches exactly 1.0 only when every completion
\* prerequisite is satisfied" (RecomputeLocked), seen when no call is under way.
PublicOneIsEarned == AllIdle /\ public = 1000 /\ ~disturbed => title.completed

\* With every edit saved, a title is earned by progress that was made under
\* its present definition, in this game or in the one that was loaded.
EarnedAsDefined ==
    [][~title.completed /\ title'.completed /\ cosave' = cosave /\ ~AllIdle /\ ~unsaved =>
        \A q \in def.reqs : title'.req[q].print = def.print[q]]_vars
=============================================================================
