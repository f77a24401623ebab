# ProgressNPC: TLA+ models, checks and proofs

ProgressNPC is a family of SKSE plugins for Skyrim. **EDF** (the core) applies
*rules* to actors: a rule whose filters match an actor is *activated*, rolls its
groups of rewards and gives what they select; when it stops matching, what it gave
for a time is taken back. **INLOS** gives loot when an actor dies or is defeated.
**WIYT** counts statistics of the player, completes titles and delivers their
rewards. The three share `DistributionCore` (filters, rolls, rule domain).

This directory holds TLA+ models of the parts whose correctness depends on the order
of steps, the TLC instances that check them, and proofs that TLAPS checks. File
names below are under `src/src/` or `src/include/`; line numbers are those of the
commit beside this directory.

- [1. Inventory](#1-inventory)
- [2. Modules and how they correspond to the code](#2-modules-and-how-they-correspond-to-the-code)
- [3. Runs: what is checked, with which bounds](#3-runs-what-is-checked-with-which-bounds)
- [4. Where the code and its own text disagree](#4-where-the-code-and-its-own-text-disagree)
- [5. Proofs](#5-proofs)
- [6. Assumptions and limits](#6-assumptions-and-limits)
- [7. Plan and what is left](#7-plan-and-what-is-left)

## 1. Inventory

Threads. The engine runs sinks, SKSE messages and SKSE tasks on the *main thread*.
`Hook_ShouldBackgroundClone` (`Events.cpp`) runs on *loading threads*. The *delayed
dispatcher* (`DelayedDispatcher.h`) is one thread of the plugin that keeps closures
until they are due and then hands them to the SKSE task queue. Mod events (INLOS,
WIYT) and statistic callbacks (WIYT) may come from *script threads*.

| component | state | operations | works with |
|---|---|---|---|
| Rule evaluation scheduler (`SaveState.cpp` 838-1395, `Events.cpp`) | map of scheduled deltas, pump flag and generation, inventory interaction with its token, suspension flag | schedule, pump, begin/end/release an interaction, suspend, resume, reset, forget an actor | every sink; the activation it calls; the dispatcher |
| Rule activation and cascade (`SaveState.cpp` 4357-5184) | `npcRuleVersions`: per actor and rule the version, the activation and what it rolled | a pass over the rules (invalidate, then apply by phase), cascade of passes, reset of a rule | item, tag and actor value ledgers, scheduler |
| Item ledger (`SaveState.cpp` 775-830, 1580-1724, 3368-3407, 3977-4165) | `persistentItems`: expected and missing count per actor, item, rule and group | grant, transfer in and out, adopt, restore, remove | container events, activation |
| Virtual keywords and factions (`SaveState.cpp` 1726-1988) | owners per tag and rank, native ranks | add and remove an owner, rebuild after a load | activation, scheduler |
| Spell casts (`SaveState.cpp` 3570-3820) | activation tokens, queued attempts | cast, retry, give up | dispatcher, activation |
| Sleep and follower updates (`SaveState.cpp` 1145-1199, 1323-1395) | pending sets, generation, token | defer, run if still wanted | dispatcher, scheduler |
| Actor value ledger (`SaveState.cpp` 243-606) | applied deltas per reward, script callbacks | apply, reconcile, remove | another mod through scripts |
| Equipment plan (`SaveState.cpp` 3194-3366) | none kept | equip what the rewards in force ask for | engine inventory |
| Save context and companion history (`SaveState.cpp` 1416-2512, `plugin.cpp`) | current context, session data, snapshots per character, a JSON file and its backup | set context, restore, snapshot, migrate, write and replace | SKSE messages; everything that keeps session data |
| Rule manager, dependency index (`Rule.cpp`) | rules, histories of versions, owners, index of filters | load, save, create, delete, look up candidates | package store, activation, UI |
| Rule package store (`RulePackageStore.cpp`) | packages in SQLite | load, save, mark deleted, delete package | rule manager |
| Distribution core (`FilterEvaluator.cpp`, `RewardSelector.cpp`, `Domain.cpp`) | none | match a filter, roll rewards, validate a rule | all three plugins |
| INLOS life cycle and evaluation (`INLOS/Runtime.cpp`) | per actor: dead, processed events, applied rules; settings | sinks of deaths, defeats, recoveries and loads; queued evaluations; revert | store, vanilla loot, experience |
| INLOS store, settings, skill menu | rules in SQLite, an ini, an optional menu | load, save | INLOS evaluation |
| WIYT state and runtime (`WIYT/State.cpp`, `WIYT/Runtime.cpp`) | progress per title, completion, delivered rewards, statistic fetches in flight | progress, recompute, fetch, deliver | script callbacks, globals |
| WIYT store, DFG bridge | titles in SQLite, globals of another mod | load, save, publish | WIYT state |
| EDF API, form lists, UIs, co-save serialization | none of protocol (the serialization callbacks are commented out) | queries, drawing | stores |

What is hard here, and what makes each part correct:

- *Scheduler.* Threads report changes while the main thread drains the map, resets it
  and holds parts of it back; closures run after the state they were posted for has
  gone. Correct: one pump of the current generation, never none while work waits; an
  accepted change is evaluated or dropped with its actor; nothing is evaluated in the
  middle of a container menu; no batch is held back for ever.
- *Activation and ledger.* Rules start and end in any order while the player takes
  items, brings them back or loses them, and while giving and taking by the rules may
  itself be reported as a transfer. Correct: nothing can be farmed, temporary items
  go, persistent ones come back unless somebody took them.
- *Save history.* Several game saves share a number; quicksaves have none; the file is
  replaced in three steps of which each may fail or be cut off by a crash. Correct:
  what a save recorded is what loading it restores; no character gets another's data.
- *INLOS.* Deaths are reported late or twice, actors come back to life, evaluations
  wait in a queue across loads. Correct: between two loads a rule pays once in a life, and
  every accepted report is answered.
- *Cascade and index.* A pass looks only at the rules an index finds for what changed,
  and what it gives is the next change. Correct: a rule whose answer changed is found,
  the cascade ends by itself, and a shared tag goes with its last owner.
- *Requests that wait.* Spells, sleep updates, looks at followers, actor value requests
  wait in timers and queues while rules end, are edited, and games are loaded. Correct:
  each takes effect once, for the state that asked for it, or not at all.
- *Equipment.* Rewards for combat, sleep and neither share slots with each other and with
  the actor's own things, and putting them on is itself a change. Correct: the best is
  worn, and the cascade comes to rest.
- *WIYT.* Callbacks answer after a load; two threads deliver one title; definitions are
  edited under progress. Correct: no thread gives a reward twice, a title is earned by
  progress under its present definition, a fetch ends and frees its flag.
- *Stores.* Several tables or files change together. Correct: what counts as saved is
  what a restart loads, saved games find the versions they name, deletions last; where a
  failure breaks that, section 4 says so.

`PROJECT.json` lists the hazards line by line with the properties that watch them.

## 2. Modules and how they correspond to the code

Each component's module says in comments which function an action stands for, and
`PROJECT.json` ("map") gives its lines. Definitions introduced by "Mutant:" are broken
variants of the definition that follows them; nothing uses them except the test that
each property can fail.

| code | module | proofs | instance |
|---|---|---|---|
| scheduler | `RuleScheduler` | `RuleScheduler_proofs`, `RuleSchedulerWork_proofs` | `MCRuleScheduler` |
| sleep, followers; the dispatcher | `DeferredUpdates`, `DelayedDispatcher` | `Waiting_proofs` | `MCThreads` |
| spell casts; actor values | `SpellCasts`, `ActorValueLedger` | `Waiting_proofs` | `MCThreads` |
| filters and dependency index | `RuleIndex` | | `MCRuleIndex` in `MCThreads` |
| activation, item ledger | `RuleActivation` | `Rules_proofs` | `MCRuleActivation` in `MCRules` |
| cascade, tag owners | `RuleCascade` | `Rules_proofs` | `MCRuleCascade` in `MCRules` |
| equipment | `EquipmentPlan` | | `MCEquipmentPlan` in `MCRules` |
| rule manager, packages, API edits | `RuleStore`, abstract: `RuleLedger` | `RuleStore_proofs` | `MCRules` |
| save history | `SaveHistory` | `SaveHistory_proofs` | `MCSaveHistory` in `MCRecords` |
| INLOS lives | `InlosLifecycle` | `Inlos_proofs` | `MCInlosLifecycle` in `MCRecords` |
| INLOS loot | `InlosDelivery`, with `RewardSelection` | `Inlos_proofs` | `MCInlosDelivery` in `MCRecords` |
| WIYT titles | `TitleProgress` | `Titles_proofs` | `MCTitles` |
| WIYT statistics | `StatisticFetch` | `Titles_proofs` | `MCTitles` |
| WIYT reward notes, Globals, store | `RewardSuppression`, `TitleGlobals`, `TitleStore` | `Titles_proofs` | `MCTitles` |

`MCThreads`, `MCRules`, `MCRecords` and `MCTitles` put parts side by side: the variable
`part` is chosen at the start and only that part moves. The parts share no variable, so
interleaving them would multiply states and show nothing more. It is a way to run several
modules at once, not a composition. Where components do interact, the module itself has
both sides: the scheduler with the sinks and the dispatcher's timers, the activation with
the ledger and the container events, the cascade with the index and the tag owners, the
equipment plan with the cascade and the held-back changes, the delivery of loot with the
selection of rewards.

### RuleScheduler

Variables are the code's globals under their meaning: `scheduled`
(`g_scheduledEvaluations`), `pumpFlag`, `generation`, `interaction`, `nextToken`,
`suspended`; `tasks` is the SKSE queue, `timers` the dispatcher, and `todo[t]` what
thread `t` still has to do. One step of a thread is one critical section of the code or
one post: so `Schedule` (the test of the suspension and the test whether to defer),
`DeferInventoryInteractionEvaluation`, `Enqueue` and `PostPump` are four steps,
between which other threads run, as in `ScheduleRuleEvaluation` (974-1030). A pump is
`Pump` (generation, suspension), `Take` for every actor in the order of the map,
`Apply` (the evaluation, abstracted to its effect on the scheduler: it pays what the
delta owed and reports any nested changes), and `Repost`. Sinks are actions of the
environment that may happen when the main thread is idle: `ReportChange`, `ReportAll`,
`LevelUp`, `ContainerChanged`, `Unload`, `OpenMenu`, `CloseMenu`, `Kill`,
`PreLoadGame`, `PostLoadGame`, `NewGame`; `BackgroundClone` is a loading thread's.
`owed` is a history variable: what was accepted and is not yet evaluated. Deltas are
abstracted to sets of two kinds of change, because the scheduler only merges them and
asks whether they are about the inventory.

### DeferredUpdates, DelayedDispatcher

`DeferredUpdates` has the sleep updates, which any thread reports and which are joined
under the actor's token while a task is on its way (`TakeToken`, `JoinUpdate`,
`PostUpdate`, `SleepTask`, `StoreSleep`), and the look at the followers after a dialogue,
where only the last token counts. `DelayedDispatcher` has the worker's loop with the mutex
released between `PostDelayed` and `Notify`, its three kinds of waiting, and its stop.

### SpellCasts, ActorValueLedger

`SpellCasts` follows the requests for the spells of one rule: `CastTimer` and `CastTask`
are the two hops of a try, with every check of `IsSpellRewardStillActive` and
`ProcessSafeSpellRewardCast`; around them the rule ends, starts again with or without a
roll, is edited, the actor goes away, games are saved and loaded. `ActorValueLedger` has
the requests of numeric rewards to another plugin, WhoEditThat, which is external: one
queue that it serves in order. `FullPass` asks for the list of contributions, and the
answer removes what was not wanted when the question was asked
(`ReconcileActorValueLedger`); deltas of older versions are migrated on the way.

### RuleIndex

One rule is followed for one actor. `subject` is all that filters read; the actions are
the sinks, each of which changes the actor and reports what the code reports (a mask of
dependencies and the forms) or reports nothing. `Evaluation` merges what waits with what
the comparisons see (`seen`: base fingerprint, actor values, follower state). The
fingerprint is kept per base NPC, so `TwinEvaluates`, the evaluation of another actor of the
same base, overwrites it. Then `Evaluation` looks the
rule up as `GetCandidateRuleIDs` does, and evaluates it by the filters of
`FilterEvaluator.cpp`; types of filters that the code treats alike are one group
(`BaseTypes`, `AbilityTypes`, `PlaceTypes`, `ItemTypes`).

### RuleCascade

The rules of one actor whose rewards are keywords. `Pass` is one `ApplyRulesToInstancePass`
with the candidates of the index, the rules already documented, the two phases and the owners of
tags; `Begin` takes the merged change, `cascade` keeps the visited states and the count of
passes, `Reload` rebuilds the owners from the active rules as `EnsureVirtualKeywordOwners`
does. `unstable` is the cycles that the manager marks when rules are loaded.

### RuleActivation

One actor, its rules and the ledger of items. `state` is `npcRuleVersions` (`version`,
`active`, `canReroll`, `keys` = `activeRewardKeys`, `persistentKeys`), `ledger` is
`persistentItems`, `stock` the inventory, `outside` what the player holds. The ledger's
operations are functions on a *holding* (ledger and stock), which keeps a handler that
calls several of them one step: `Granted` (`ApplyRewardPhysicalTracked`, the item, the
event it may raise, then the entry), `Paid` and `Charged` (`HandleContainerChanged`),
`RestoredReward`, `Invalidated`, and from these `Deactivated`
(`RemoveAppliedActivationRewards`), `Started` (`StartRuleActivation`) and `Continued`.
A pass is `Evaluate`, then one `Invalidate` per documented rule, then one `Process` per
rule. Whether a rule matches is left open at both points, since the first half of a pass
may change the answer of the second. `Share` states in closed form what the loop of
`HandleContainerChanged` gives each entry, in the order of the `std::map`.

### EquipmentPlan

`have` and `worn` are the engine's inventory, `active` and `given` the rewards in force,
`evaluation` the cascade in progress. `Pass_E` gives and withdraws, and, when
`ShouldReconcileEquipmentForDelta` allows it, makes the plan: the desired rewards of the
context, the ranked armor that the race can wear, what is taken off for it. Carrying it out
is one step, whose reports (`Reports`) are the next pass's change. `OpenInventory` and
`ReleaseHeld` are the interaction of the scheduler; `EvaluateNow` is the API.

### RuleStore, RuleLedger

`rows`, `present`, `legacy` and `imports` are the disk; `rules`, `histories`, `owners`,
`deleted` and `doomed` are `RuleManager`'s memory. `SaveRules` is `BeginSaveRules`, then
one step per modified rule in any order, one per package to delete if none failed
(each may fail), then `EndSaveRules`;
`Stop` may fall anywhere. `LoadRules` may find any package unreadable. `ApiCreate` and
`ApiUpdate` are requests of other plugins. `RuleLedger` is the abstract specification:
per package and rule a set of committed versions that only grows, or goes as a whole.

### SaveHistory

`context`, `session`, `cache` and `disk` are `_currentContext`, `_sessionData`,
`_characterHistory` and the file with its `.bak`; session data are a stamp that tells
apart whose data and which state they are. `Restored` is the search of
`SetCurrentContext` (number and name, number without name, greatest smaller number),
`Updated` that of `UpdateSaveEntry`. Writing is `PersistCurrentSave`, then
`WriteTemporary`, `Backup` (copy of the file to `.bak`), `Promote` (`MoveFileExW`) and,
if that fails, `Fallback` (copy of the backup over the file); each may fail as the
code allows, and `Crash` may happen before, between and inside them (`CrashedDisk`).
`PreLoadGame` and `NewGame` are the SKSE messages, with the cases where the header
cannot be read or the name is missing. `Play` is any change of the session data.

### InlosLifecycle, InlosDelivery, RewardSelection

`life` is `State::_actors`, `tasks` the queued evaluations, `run` the evaluation in
progress with its position in the loop over the rules. `RunTask`, `SkipRule`,
`RollRewards` and `CompleteRule` are `QueueEvaluation`'s task, `Evaluate` and
`State::BeginEvent`/`CompleteRule`; `Recover` may fall between any two of them because
it is a mod event. `rolls`, `claims` and `declined` are histories of the actor's present
life, which a load begins anew as it does the record (`Revert`). `InlosDelivery` is one
victim and what an evaluation gives: the owner at the end of the chain of commanders (a
summon that no one alive commands is its own: `Commander[p] = p`), the receiver that the settings allow, what each kind of reward
does, and the vanilla loot of the body, which is moved or discarded before the rules.
`RewardSelection` is the roll itself: an exclusive one selects the first whose cumulated
chance reaches it, any other each on its own.

### WIYT

`TitleProgress` follows one title over the threads that call `State`: each call is a
sequence of critical sections (`DoPrepare`, `DoApply`, `Publish`, `StartPay`,
`SelectRewards`, `CheckDelivered`, `GiveReward`, `MarkDelivered`, `ClosePay`), between
which other calls, edits of the definition, a reset, saves and loads run.
`StatisticFetch` has the count of outstanding answers and the flag `g_statisticFetchInFlight`;
`RewardSuppression` the notes that keep rewards from counting as acquisitions;
`TitleGlobals` the batches to the form library DFG with its late answers, and the progress
that is published, with the button that resets it; `TitleStore` the packages of titles,
validation, and a `SaveAll` of which each transaction may fail, while a package is deleted
file by file and may lose its manifest (`listed`), its database (`disk`) or both.

## 3. Runs: what is checked, with which bounds

`CHECK_DEADLOCK FALSE` appears in all configurations but that of `titles_main`: the
bounds end every behaviour (no events, saves or moves are left), so a stop is the end of
the instance. In `titles_main` the end of the title's part is the explicit action
`Settled`, possible only when no call is under way, so that its threads are checked for deadlock.

| run | instance | what it shows |
|---|---|---|
| `scheduler_main` | main thread, 2 actors, 2 kinds, 2 events, 1 load, 3 tokens; a closed menu may be found for a while | type, `SinglePump`, `PumpArmed` (a set flag or a scheduled actor always has a pump on its way), `NoEvaluationMidMenu` |
| `scheduler_threads`, part scheduler | one loading thread besides, 2 tokens | `NoChangeLost`, `ReleaseArmed` |
| part deferred | 1 sleeper, 2 threads, 3 reports, 2 dialogues, 2 resets | `UpdatesArrive` |
| part dispatcher | 2 posters, 3 posts, delays 1-2, time 4 | `NoneOversleeps` |
| part numbers | 1 rule with a temporary value and a persistent scale, 3 passes, 2 changes, with and without old deltas | `ValuesAreRight` |
| part casts | 2 spells (1 lasting), 2 tries, 2 activations, 3 turns | `CastsAreAccounted` |
| part index | 80 rules, an actor that has nothing and one that has everything, 2 alterations | `ReportedIsFound` |
| `scheduler_liveness` | as main with 2 tokens and no lingering menu, fairness | `EventuallyEvaluated`, `InteractionEnds` |
| `scheduler_resume` | one loading thread, 1 event, 1 load | violates `ResumedIsArmed` (section 4) |
| `rules_main`, part activation | 1 rule, 2 temporary copies (the actor has 1 of its own) and 2 persistent ones, 3 moves, 1 loss, 2 edits, additions reported or not | `NoFarmingAlone`, `TemporaryIsGone`, `PersistentIsRestored` |
| part store | 2 rules, 2 packages, 2 contents, 2 versions, 6 acts, every partial failure, stops anywhere | `VersionsKnown`, `DeletedStayDeleted`, `LedgerKept` (the refinement) |
| part cascade | 4 sets of 3 rules over 3 tags, 4 events, limit of 32 passes | `TagsHaveAReason`, `SettledIsCurrent`, `CascadeSettles` |
| part equipment | 6 items, 3 rewards, 4 changes from outside | `PlanComesToRest`, `BestIsWorn` |
| `records_main`, part save | 2 characters (one migrated), numbers 1-2, 3 saves, 3 loads or crashes, 2 changes | `LoadRestoresSave`, `NoForeignData` |
| part life | 2 actors, 3 rules (one per trigger), 7 events, 2 queued tasks | `OncePerLife`, `EveryClaimIsAnswered` |
| part loot | 6 people (a summon of a summon of the player, and one without a commander), 2 items, 2 rules, every setting (spell books as a second choice together with keeping quest objects; followers' loot to the player only where loot is moved), chances in thirds | `ReceiversAreAllowed`, `LootIsWhereItBelongs` |
| `titles_main`, part progress | 2 threads, 2 requirements, 2 rewards, 2 definitions, 4 events | `GivenOncePerThread`, `RewardedMeansDelivered`, `PublicOneIsEarned`, `EarnedAsDefined` |
| part fetch | 3 statistics, 3 fetches, 2 games, fairness | `FlagHasAnOwner`, `OneFetchAtATime`, `FetchEnds` |
| part suppression | 2 threads that give, amounts to 2, 4 taken | `RewardsEarnNothing` |
| part globals | 2 titles, batches of 1, 4 synchronizations | `GlobalsInOrder` |
| part store | 2 packages, 2 titles, 3 Globals of which two differ in case, 3 disks, 7 acts | `TitlesAreKept` |
| `save_legacy` | 1 migrated character, 2 saves, 2 loads | violates `MigratedIsKept` (section 4) |
| `activation_farming` | 2 rules that give one item, 2 moves, additions reported | violates `NoFarming` (section 4) |
| `tags_persistent`, `tags_merged` | as part cascade | violate `PersistentStays`, `SettledIsAlwaysCurrent` (section 4) |
| `equipment_postponed` | as part equipment, 5 changes | violates `DeferredIsDone` (section 4) |

Why the bounds are enough for the cases that matter.

- *Scheduler.* Two actors let one be drained while the other is held back or rescheduled;
  two events let a second change arrive at every point of the first one's way; one load
  gives two generations, hence stale pumps; three tokens give a renewal of an interaction
  while a release is pending. `SinglePump` with loading threads is not run: it is proved
  for any number of them.
- *Deferred, dispatcher, casts, numbers.* Three reports of two threads give a joined
  update whose task has begun while the third arrives; two resets give a task of the time
  before the first. Three posts give an earlier task while the worker goes to sleep for a
  later one and a third at the limit. Two tries give a retry and giving up (the code's
  limit of 30 differs in count only); two activations a request of the former that meets
  the latter. Three passes give a question, a change while its answer is on its way, and
  the pass that sets it right.
- *Index.* Rules are found independently of each other, so one at a time suffices; the
  list has a type of each group of filters as a target and on the blacklist, all modes of quests,
  both directions of comparisons, and pairs of filters under "any" and "all". Two
  alterations and an evaluation between give a change and its reversal, or two reports
  that merge.
- *Activation.* Three moves take both copies and return one, or take one in two lives; the
  loss separates what vanished from what was taken; two edits give two new versions, or a
  version and a deletion or reset. A rule whose items nobody else gives shares no state
  with other rules in this module, so one rule is checked with more freedom.
- *Cascade.* Each set is chosen for a shape: a chain with an unstable cycle, three owners
  of one tag of which one lasting, an unstable pair beside a rule for combat, a cycle that
  keeps itself alive. With three rules the longest cascade is far below 32.
- *Equipment.* The robe overlaps both own pieces, the day's armor one of them, the staff is
  desired by two rewards, the best helmet does not fit: every precedence is decided
  somewhere. Four changes give gift, context, menu, and a second context.
- *Saves.* Three saves give a numbered save, a second under the same or the next number,
  and a quicksave; three restarts allow a crash in the write, a load, and a second crash
  or a change of character.
- *INLOS.* Seven events are two lives with a defeat and a death each and a load. The chain
  of two summons exercises the loop of commanders; the two rules have both orders of a
  spell and progress, exclusive and free rolls, and every setting. The third summon has no
  commander.
- *Stores.* Six or seven acts are a save, an edit, a deletion, a failure, a restart and an
  import in any order; the disks to begin with spare the acts that would create them.
- *Titles.* Two threads pay one title in all orders; four events are enough to earn, edit,
  save, load and earn again. Batches of one make two titles wait for each other.

Fairness.

- `RuleScheduler!Fairness` (`scheduler_liveness`): a thread in the middle of a handler goes
  on (WF on each thread's step); the main loop keeps draining the SKSE queue although sinks
  interrupt it (SF on `RunTask`, which is disabled while a sink runs); the dispatcher's
  clock advances (WF on a timer, justified by `NoneOversleeps`); a menu that is opened is
  closed and a load that was started is finished (SF, as other handlers run in between). No
  fairness is assumed of the player otherwise, nor of loading threads beginning anything.
- `StatisticFetch!FetchFairness` (`titles_main`): the caller runs through its loop of
  dispatches to the end, since it waits for nothing, and Papyrus answers a call that it
  accepted. A load may drop the calls; then it also takes back the flag.

## 4. Where the code and its own text disagree

Each of these is a run TLC finds violated, with the quoted line in `PROJECT.json`.

1. `scheduler_resume`: a loading thread that passed the suspension test before a load
   starts may set the pump flag after the reset; its pump then finds evaluation
   suspended and returns without clearing the flag (`SaveState.cpp` 1041), and after the
   resume no pump is ever posted until the next reset. The main-thread instance keeps
   `PumpArmed`, so the thread is needed for it.
2. `save_legacy`: snapshots migrated from the old format have no name; a quicksave made
   under their number replaces them.
3. `activation_farming`: entries of one item are charged and paid in key order, so a copy
   given by one rule can pay the debt of another; the latter then rolls again although its
   copy is outside. It needs two rewards of the same item and that the engine reports the
   items a rule adds; with `Reported = {FALSE}` the same instance has no violation.
4. `tags_persistent`: after a load only active rules own a tag, so that a tag which an
   ended rule gave for good goes with the end of another rule that gives it for a time
   (`SaveState.cpp` 1743, against the editor's help, `UI.cpp` 2291).
5. `tags_merged`: a change without forms means "any form" until it is merged with a change
   that names some (`Rule.h` 324); rules for the first are then not looked up by form, and
   one that was not active yet stays so (against `SaveState.cpp` 4806-4807).
6. `equipment_postponed`: a plan that is "deferred" because the inventory is open
   (`SaveState.cpp` 3203) is kept nowhere; if the evaluation came from the API, nothing
   that waits makes it again.

Behaviours the models have and no text of the repository contradicts, so that no
property speaks of them: the removal of a temporary reward may take copies the actor had
before any rule (`TrackPersistentItemGrant` counts the whole stock as present); a
reported removal is charged to the entry it removes for, which can keep `canReroll` FALSE
after every copy came back; a rule activated again without a roll does not restore its
persistent rewards until its next pass (`PersistentIsRestored` excludes that step); a new
version of a rule gives its persistent rewards again; deleting a package erases the
histories of its rules; a rule that the API creates for a package that is to be deleted
lands in the local one; an update by the API overwrites an edit that was not saved; two
desired weapons of one slot displace each other. A base NPC that changes unreported is
found by the first evaluated actor of the base alone (`Rule.cpp` 3472). An actor that INLOS
paid for before a save pays again after loading it, because the record of lives is cleared
at `kPreLoadGame` and is in no save (`INLOS/Plugin.cpp` 18). Two threads that pay one title
at a time may each give a reward once (`WIYT/Runtime.cpp` 719-733 test, give and mark
without a common lock). A package whose deletion fails after its database is gone keeps its
titles in memory as unmodified, so that the next `SaveAll` reports success while they are
nowhere on disk (`WIYT/Store.cpp` 1564). A summon that no one alive commands is its own
owner (`INLOS/Runtime.cpp` 121) and gets loot where anyone may; the editor's help
(`INLOS/UI.cpp` 3238, "Summons resolve to their owner") says nothing of a summon without one.

## 5. Proofs

Checked by TLAPS, for every value of the constants, from the modules' named assumptions
only. The invariants were run by TLC before they were proved.

*The scheduler* (`RuleScheduler_proofs`, `RuleSchedulerWork_proofs`), for every finite or
infinite set of actors, kinds and loading threads and any bounds.

- `TypeCorrect`: `Spec => []TypeOK`. One lemma per group of actions; the work is in the
  sequences of steps a thread holds (what `Goto` appends and what `Head` returns).
- `PumpIsUnique`: `Spec => []SinglePump`. `SinglePump` alone is not inductive: nothing in
  it stops a thread that sees the flag unset from posting a second pump. The inductive
  invariant is
  `PumpInv == QueuesCarry /\ LoadersOnlySchedule /\ NoResetInDrain /\ Generations /\ FlagSet /\ SinglePump`:
  tasks and timers hold only first steps of closures (`QueuesCarry`); loading threads run
  nothing but the path of `ScheduleRuleEvaluation` (`LoadersOnlySchedule`), so a pump is
  drained by the main thread only; the main thread has no reset ahead of it in the middle of a drain
  (`NoResetInDrain`), so the drain's generation does not change under it; no pump has a
  generation greater than the current one (`Generations`), so a reset leaves no live pump;
  and whenever a live pump exists the flag is set (`FlagSet`), so `Enqueue` posts none.

- `ChangesAreKept`: `[]NoChangeLost`, with any loading threads. Where a change is when no
  thread has it in hand depends on what the threads may still do, so the invariant says
  what each step a thread carries will do with it: a thread that carries a change will put
  it into the map, the batch of the interaction or an evaluation; the map is emptied only
  by the pump, by a death, or by a load that gives up what was owed.
- `MenuIsUndisturbed`: `Spec /\ InsertsOnlyWhatIsFree => NoEvaluationMidMenu`;
  `PumpIsArmed`: `Spec /\ InsertsOnlyWhileRunning => []PumpArmed`. Both with any number of
  background clone threads, which are always there, reporting at any time. A clone thread
  can break either property, and the hypotheses name the one step by which it does, an
  insertion (`Enqueue`) that comes too late for the test made before it: of an actor that an
  interaction begun meanwhile holds back, or while evaluation was suspended meanwhile
  (section 4 has that behaviour). TLC finds each property violated once its hypothesis is
  dropped. `HeldBackIsMoved` says that the evaluations of a held back actor are
  in the batch, but for those that the main thread's very next step moves there;
  `SuspendedIsEmpty`, that while evaluation is suspended the map is empty and no pump is
  expected, or the reset comes next.
- `ReleaseIsArmed`: `[]ReleaseArmed`, under the hypothesis `LingeringEntry = FALSE`
  (section 6). The invariant says that the interaction's token is that of the last release
  posted, or that the main thread is about to post one.

*What waits* (`Waiting_proofs`), for any actors, threads, tasks, spells and bounds.

- `DispatcherAwakes`: `[]NoneOversleeps`. The worker reads the first due time under the lock;
  the invariant has what it read, who has posted since, and that each such poster has a
  notification to come or made.
- `CastsAccounted`: `[]CastsAreAccounted`. A request that waits, runs or has ended is of one
  activation, and its token tells whether that activation is the present one; the effect of
  an activation that has ended was dispelled or is still in the record.
- `DeferredArrive`: `[]UpdatesArrive`. Every update that waits has one task with its token,
  and a thread that took an update stores it before anyone else can.
- `ValuesCountRight`: `[]ValuesAreRight`, for any rules, values, scales and lists. The
  invariant `LedgerWell` has two parts. `GameWell`, of the present game and of the saved
  one: the delta of an older EDF that still counts has no contribution of WhoEditThat
  beside it, and the rule's history knows of it; no request that waits asks for such a
  key. `QuietWell`: after a full pass that found nothing on its way, what waits brings the
  library to what the rules want - each active reward is set by it, or is there and is
  spared; each other key is not asked for, and is cleared if it is there; and the lists
  name what is wanted. Without it `QuietPassSettles` speaks only of the moment when
  nothing waits, which no step by itself produces. A pass loops over rules, keys, sources
  and lists; each loop is a fold, whose step is proved to keep a relation to the actor
  before it, and the parts of the rules are put together one by one (`UpTo`, which needs
  no induction theorem: the least number of parts that fails would not be the least).

*The rules* (`Rules_proofs`): the cascade, for any rules, tags and bounds, and any sequence of
changes of the actor, passes and rebuilt owners (no edits of rules).

- `TagsKeepAReason`: `[]TagsHaveAReason`. What each pass does to the tag owners is stated
  of the actor as it goes through the pass's loops: `OwnersWell` says that, while the
  owners of tags are known, every tag held has one and every owner still gives it, and
  that before they are rebuilt after a load every tag held has a rule to give it.
- `TheRightRulesAreActive`: `[]SettledIsCurrent`. That all is right when nothing is left
  to evaluate does not say why. `NoneForgotten` does: whenever a stable rule is active
  without matching, or matches without being active, the evaluation in progress or the one
  that waits has it among its candidates. The work is to show that what a pass passes on
  names every change it made, so that the index finds all the rules it unsettled.

The activations, for any rules, rewards, items, rolls and bounds. Both rest on
`Activation`: the records, ledger and stock have their form (`RecordOf`, `HoldingWell`:
`missing` never exceeds `expected`), the versions their order (`Ages`), and each reward
that is alone of its item has its books in order (`Books`):

- for a temporary reward, `Even` and `Fair`. `Even` bounds three sums: what is in the stock
  and outside by the native items and `expected`, what is outside by the native items and
  `missing`, and the stock with `missing` by the native items and `expected`. None of the
  three can be left out: a removal is charged with the second, a return with the third.
  `Fair` bounds `expected` by the fresh starts made and the one in force; a start that a
  new version announced and no pass has made yet is counted apart (`Behind`).
- for a persistent reward, `Kept`: what the rule gave is in the ledger with its amount,
  and what the ledger calls missing is outside.

They give `ActivationTypes`: `[]TypeOK`; `TemporaryIsNotFarmed`: `[]NoFarmingAlone`, over any
transfers, losses, versions, deletions and resets of one game, without a load in between;
`EndedRuleTakesBack`: `TemporaryIsGone`; and `RewardsAreRestored`: `PersistentIsRestored`,
both action properties. The loops over rewards and ledger entries are folds. What such a
fold leaves of one reward is proved by following the values it takes from step to step
(`UpTo`, from the well-foundedness of the natural numbers): until the reward's turn they
agree with the start, at its turn the step does what the reward asks, after it the others
leave it alone.

*The store* (`RuleStore_proofs`), for any sets of rules, packages and contents. All three
rest on `StoreInv`: a row's versions end with its current one (`RowsInOrder`); a rule in
memory has a version that none of its row exceeds (`NewestInMemory`), without which the
version a save commits might overwrite one; memory agrees with itself on a rule's package
(`MemoryOwned`) and is empty while the program is down (`DownIsEmpty`); a package that is
not there has no rows (`AbsentIsEmpty`); the row of a deleted rule is gone or marked
(`BuriedRows`), without which a start would bring it back.

- `HistoriesComplete`: `[]VersionsKnown`; `DeletionLasts`: `[]DeletedStayDeleted`.
- `StoreImplementsLedger`: `RuleStoreSpec => LedgerKept`, the refinement. Initial states
  map to initial states, and each step commits a version, withdraws a package, supersedes a
  local history by a newer file, or leaves the ledger as it is.

*INLOS* (`Inlos_proofs`), for any actors, rules and triggers and any number of
events.

- `LifecycleTyped`: `[]LifecycleTypeOK`; `RulePaysOnce`: `[]OncePerLife`. That a rule
  rolled once says nothing of what an evaluation will do next; `LifecycleInv` adds that
  what was rolled is in the record or about to enter it (`Recorded`), that what an
  evaluation has still to try was not rolled unless it knows so from its start
  (`Untried`, which survives a record renewed under its feet), and that a record that says
  dead is not of an actor that lives and is loaded (`DeadIsDead`), so that a load event
  cannot forget what was paid in this life.
- `ClaimsAreAnswered`: `[]EveryClaimIsAnswered`. `AnswerInv` adds `ClaimsWell` (what was
  reported in this life is in the record or in the queue, and a death that was reported is
  still one when its task runs) and `AnswersWell` (of what the record calls processed, each
  rule of the trigger was rolled or declined, or the evaluation under way has it ahead; and
  what the record calls applied was rolled in this life). Both leave out the actors in
  `muddled`, as the property does.

- `LootStays`: `[]LootIsWhereItBelongs`; `OnlyThoseAllowed`: `[]ReceiversAreAllowed`, for
  any people, rules, rolls and settings. `DeliveryInv` has what each setting lets leave the
  body (`PlacesWell`), which gifts there can be before the body is looted (`GiftsWell`) and
  that whoever has part in the loot is the one who answers for an instigator and no summon
  that someone commands (`SharesWell`). Both under the hypothesis `ChainsEnd`: every chain
  of commanders ends, with someone who is no summon or with a summon that no one commands,
  within the eight steps that `ResolveSummonOwner` follows. Without it the code credits a
  summon that has a commander. A summon without one is its own owner: it has gifts only with
  the setting "any actor", and the vanilla loot that it caused.

*The save history* (`SaveHistory_proofs`), for any characters, save numbers and bounds.

- `NothingForeign`: `[]NoForeignData`, with no hypothesis. `HistoryInv` has what a file can
  be (`FilesWell`), that the context is the game in progress and its character's history in
  memory (`ContextWell`), and that what is being written is that history (`JobWell`).
- `SavesAreRestored`: `[]LoadRestoresSave`, under the hypothesis `TornRestore = FALSE`
  (section 6: with `TRUE` it does not hold). `KeptInv` adds that no character is left with
  a torn file, or a torn backup alone (`NothingTorn`), and that of the snapshots under a
  written save's own name, in memory and in what can be read, the first has its data
  (`SnapshotsKept`); the first is the one a load finds. A snapshot that is
  put in is the first of its own name (`NewHolds`) and leaves that of every other name in
  its place (`OthersHold`).

*The titles* (`Titles_proofs`), for any number of threads, rewards, requirements,
definitions, statistics, titles and packages.

- `ClosedTitlesArePaid`: `[]RewardedMeansDelivered`; `RewardsAreGivenOnce`:
  `[]GivenOncePerThread`; `PublicOnesAreEarned`: `[]PublicOneIsEarned`;
  `TitlesAreEarnedAsDefined`: `EarnedAsDefined`, an action property. All four rest on
  `TitleInv`. `DeliveryWell`: a payment under way has a selection that stands, and unless
  something failed the rewards it has yet to try are all that are not delivered.
  `GivenWell`: a thread gave a reward at most once, and one that is not marked only if it is
  about to mark it; a thread that has the reward still to give has not given it. `PublishedWell`: a thread that will publish 1.0 has a completed title,
  and a public 1.0 of a title that is not completed (a reset) has a synchronization at the
  end of the main thread's plan. `DefinedWell`: what a title has still to earn was made
  under the present definition. Each says the same of the record in the co-save, so that
  loads preserve it.
- `FlagIsReturned`: `[]FlagHasAnOwner`. `FlagInv` adds the accounts of a fetch: while it
  dispatches, its count is that of the calls to come, the outstanding ones and those that
  failed (`Account`); a count that reaches zero before the end has taken the flag back
  (`CountedOut`).
- `FetchesStayApart`: `[]OneFetchAtATime`. `ApartInv` adds that, without late answers, an
  active fetch of the present game with calls left holds the flag (`HoldsFlag`).
- `RewardsAreNotCounted`: `[]RewardsEarnNothing`. What may still be counted in excess is
  bounded by the notes: for each gift whose event has not come there is a note that will
  take it (`SuppressionInv` counts the pairs of giver and gift that are owed).
- `GlobalsAreSynchronized`: `[]GlobalsInOrder`. A title is announced once until its progress
  is reset, which the history `announced` follows. The synchronization's count is that of the
  batches and answers that are out; that `BatchesOf` chooses a partition at all is
  `TitlesFitInBatches`, which constructs one from an enumeration of the titles.
- `StoreKeepsTitles`: `[]TitlesAreKept`, under the hypothesis that no disk found at a start
  holds two titles of one identifier or Global (`Clean`). The hypothesis is needed: of two
  such titles `Load` drops one, and brings it back at the next start when the other was
  renamed meanwhile. `UnmodifiedTitlesAreOnDisk`, its first part, needs no hypothesis:
  a title that is not marked as modified is on the disk as it is in memory, whichever loads,
  transactions and deletions failed or failed in part, unless a failed deletion removed the
  database of its package (the property says so itself).

Assumptions on constants that only proofs need: finite sets of threads, titles and
mutation keys and of those who give rewards (the code's vectors), identifiers that are positive numbers and
disks that are tables of titles (`TitleStore`), the form of a
reward and a native number of each item (`RuleActivation`), the people and settings of the loot
(`InlosDelivery`), and the types of the deferred updates' constants. TLC evaluates each of
them.

Only model-checked: liveness (`EventuallyEvaluated`, `InteractionEnds`, `FetchEnds`), which
is out of TLAPS' reach; `CascadeSettles`, which depends on the number of passes and on which
rules the index calls unstable; `ReportedIsFound`, a table of which report reaches which
filter, where the instance has every filter there is; and `PlanComesToRest` and
`BestIsWorn`, which depend on the gear. What the recursion of `EquipmentPlan` or the draws
of `RewardSelection` compute would need induction over data.

## 6. Assumptions and limits

- *RuleScheduler.* `PumpArmed` and `NoEvaluationMidMenu` are checked with the main thread
  alone; clone threads break both, each in one window (section 5). Container events, menus and messages come on the main thread. How long
  the engine still finds a closed menu is the constant `LingeringEntry`. With `TRUE`, a
  container event after the close event would renew the interaction's token, the posted
  release would no longer match, and `ReleaseArmed` would fail; whether the engine does so
  is not in this repository, so `ReleaseArmed` and liveness are checked with `FALSE`.
- *SaveHistory.* A game save has one name when it is saved and when it is loaded. A
  numbered save's header has the number of its name; a quicksave's header may have any, so
  `LoadRestoresSave` speaks of numbered saves. A failed `MoveFileExW` may leave the file
  absent. A crash does not tear the copy that restores the backup (`TornRestore = FALSE`);
  with `TRUE`, a failed move, a crash in that copy and a second failure lose the history.
  A load without a name leaves the previous context in force: `strayed` records it, and
  the properties speak of the rest. A file either parses as a whole or not at all; sharing
  violations and the copy from the old directory (`GetCharacterPath`) are left out.
- *RuleActivation.* One item per reward, no levels or filters, no cascade; the migration of
  old activations is left out. Saving and loading are left out: `TemporaryIsNotFarmed` is
  about one game; that a load restores the records that were saved with the inventory is the
  subject of SaveHistory. The engine reports additions and removals by
  `AddObjectToContainer`/`RemoveItem` by an event or not (`Reported`; within one step it
  does so uniformly).
- *RuleCascade.* A rule gives at most one tag, and matches by tags and combat. Unstable
  rules are fixed in a behaviour; edits and versions during a cascade are left out. Ranks
  of factions follow the same protocol of owners and are not modelled.
- *RuleIndex.* `Hidden` names the two cases in which a rule is not found: an evaluation of
  everything does not look for heights, weights, and items the actor does not have; and a
  merged change (section 4, 5). Values change by more than the tolerance of the
  comparison. Gender stands for the other conditions that are read from the base (child,
  humanoid, scope, summoned). A change of the base that nothing reports counts only until
  another actor of the base is evaluated (`baseFlips`). A perk, spell, faction or alias that another mod changes has
  no event and is not an action. A level-up in combat is skipped (`SaveState.h` 522).
- *EquipmentPlan.* What the ledger does with rewards that are taken is in RuleActivation.
  Equipping an item displaces those in its slots, which the engine does. Instance data and
  ammunition are left out.
- *SpellCasts.* A cast given up after the last try leaves the reward documented. A load
  drops the requests that wait; the loaded activation does not cast again.
- *ActorValueLedger.* WhoEditThat is external: it serves requests in their order, drops
  them at a load and may refuse them while it is not ready. A reset of a rule before its
  old delta was migrated leaves the delta (`stray`).
- *RuleStore.* Saves by the editor's thread and tasks of the API on the main thread are
  assumed not to interleave inside one another's steps. After an import while a package
  cannot be opened, two packages may hold one rule (`RulePackageStore.cpp` 1259).
- *InlosLifecycle.* The properties speak of the time between two loads (section 4). A revived
  actor gets its load event before it dies again. `muddled`
  names the actors whose record was renewed in the middle of an evaluation or could not
  tell two lives apart (a defeat followed by a death that was not evaluated); for them
  `EveryClaimIsAnswered` says nothing.
- *InlosDelivery.* The instigator is not the victim. Counts and amounts are 1, a rule's
  filters and levels one Boolean. Experience without a receiver is dropped, as in the code.
- *RewardSelection.* Rolls are whole steps of the 100 %; a chance of 0 with a roll of
  exactly 0 is left out.
- *TitleProgress.* `InOrder` lists numbers by their rank, which is what the loops' order
  comes to. The main thread finishes a call before its next; games are saved and
  loaded with the virtual machine frozen. `disturbed` records a reset or an edit in the
  middle of a call; `EarnedAsDefined` is about titles whose edits are saved.
- *StatisticFetch.* `late` records an answer of a game that was left; it takes back the
  flag of the present fetch, and `OneFetchAtATime` speaks of the rest.
- *RewardSuppression, TitleGlobals, TitleStore.* The notes of one form; progress in thirds;
  of a title's content only the Global. A Global that DFG registers anew raises no second
  announcement. `UnmodifiedIsOnDisk` excepts the titles of a package without a database, and
  `RestartRestores` every restart after something failed.
- The engine's inventory, SQLite and Papyrus are outside; rule editors appear as the edits
  they make.

Not modelled: the UIs (drawing), form lists and the queries of the EDF API (no changing
state), the co-save callbacks (commented out), exports, snapshots and backups of packages
(copies of files, outside the protocol of a save), the store of INLOS (the protocol of
`TitleStore`), its ini file and skill menu, vendored interfaces and build files.
`PROJECT.json` ("components") says of each part what is left out.

## 7. Plan and what is left

The plan was to model the scheduler, the records, the activation, then what waits in
threads, then WIYT and the stores, then values and equipment; all of it is done. Left for
those who continue:

1. Faction ranks in `RuleCascade` (the rank in force is the greatest of the owners'), and
   the migration of old activations in `RuleActivation`.
2. One instance in which the passes of `RuleCascade` run the activations of
   `RuleActivation`; today each has the other's answer left open.
3. The store of INLOS as an instance of `TitleStore`, once its differences (one database,
   no Globals) are parameters.
4. A refinement of `SaveHistory` to a map from saves to session data.
