---------------------------- MODULE TitleGlobals ----------------------------
(***************************************************************************)
(* The public Globals of WIYT's titles (src/WIYT/DFGBridge.cpp): titles    *)
(* without a usable Global are looked up in batches with the form library  *)
(* DFG, those that do not exist are created, and each resolved Global gets *)
(* the title's progress.  DFG answers on a thread of its own, also after   *)
(* the game that asked was left.  Progress is abstracted to thirds: 0, 1   *)
(* and 2 of 2, the latter for titles that were earned.                     *)
(***************************************************************************)
EXTENDS Integers, FiniteSets

CONSTANTS
    Titles,
    BatchLimit, \* kBatchLimit: titles per batch
    MaxSyncs    \* bound: calls of SynchronizeAll, changes and resets of progress, reverts

ASSUME GlobalsAssumption ==
    IsFiniteSet(Titles) /\ BatchLimit \in Nat \ {0} /\ MaxSyncs \in Nat

Unresolved == -2 \* no entry in _globals
Earned == 2

VARIABLES
    lastValue, \* per title, _globals: the value last published
    queued,    \* _synchronizationQueued
    pending,   \* _pendingSynchronizationOperations
    waiting,   \* batches that SynchronizeAll has still to hand to DFG
    batches,   \* batches DFG has and did not answer yet: set of [id, titles, kind]
    exists,    \* titles whose Global exists in DFG
    progress,  \* the titles' overallProgress in State
    announced, \* history: WIYTTitleEarned events per title in this game, since it was reset
    syncs      \* counter of the bound; numbers the batches

globalsVars == <<lastValue, queued, pending, waiting, batches, exists, progress,
                 announced, syncs>>
requestVars == <<queued, pending, waiting, batches>>
----------------------------------------------------------------------------
GlobalsInit ==
    /\ lastValue = [t \in Titles |-> Unresolved]
    /\ queued = FALSE /\ pending = 0 /\ waiting = {} /\ batches = {}
    /\ exists \in SUBSET Titles
    /\ progress = [t \in Titles |-> 0]
    /\ announced = [t \in Titles |-> 0]
    /\ syncs = 0

Count == syncs < MaxSyncs /\ syncs' = syncs + 1

\* The values after every resolved title was published without an event.
Published(values) ==
    [t \in Titles |-> IF values[t] = Unresolved THEN Unresolved ELSE progress[t]]

\* SynchronizeAll returns at once while one is queued.
MaySynchronize == ~queued

\* A partition of the titles into batches of at most BatchLimit.
BatchesOf(titles) ==
    CHOOSE p \in SUBSET SUBSET titles :
        /\ UNION p = titles /\ {} \notin p
        /\ \A b, c \in p : b # c => b \cap c = {}
        /\ \A b \in p : Cardinality(b) <= BatchLimit
        /\ Cardinality(p) = (Cardinality(titles) + BatchLimit - 1) \div BatchLimit

\* SynchronizeAll: titles whose entry is missing, or whose form is gone, are
\* asked for; if there are none, everything is published.
SynchronizeAll(gone) ==
    /\ Count
    /\ MaySynchronize /\ waiting = {}
    /\ LET missing == {t \in Titles : lastValue[t] = Unresolved} \cup gone
       IN IF missing # {}
          THEN /\ queued' = TRUE
               /\ waiting' = {[id |-> syncs, titles |-> b, kind |-> "lookup"] :
                                 b \in BatchesOf(missing)}
               /\ pending' = Cardinality(waiting')
               /\ UNCHANGED lastValue
          ELSE /\ queued' = FALSE /\ pending' = 0
               /\ lastValue' = Published(lastValue)
               /\ UNCHANGED waiting
    /\ UNCHANGED <<batches, exists, progress, announced>>

\* A synchronization publishes without events (a_dispatch is false).
AnnouncedQuietly(values) == announced' = announced

\* CompleteSynchronizationOperation: the last one publishes everything.
EndOperation(values) ==
    /\ pending' = IF pending > 0 THEN pending - 1 ELSE 0
    /\ queued' = IF pending' = 0 THEN FALSE ELSE queued
    /\ lastValue' = IF pending' = 0 THEN Published(values) ELSE values
    /\ AnnouncedQuietly(lastValue')

\* QueueLookupForms takes the batch, or refuses it.
HandOver(b) ==
    /\ b \in waiting /\ waiting' = waiting \ {b}
    /\ \/ batches' = batches \cup {b} /\ UNCHANGED <<queued, pending, lastValue, announced>>
       \/ EndOperation(lastValue) /\ UNCHANGED batches
    /\ UNCHANGED <<exists, progress, syncs>>

\* RegisterResolvedGlobal: a fresh entry, published without an event.
Resolved(titles) == [t \in Titles |-> IF t \in titles THEN progress[t] ELSE lastValue[t]]

\* OnLookupBatch: DFG answers for the titles of found; those that do not exist
\* are created, and if there are none, or DFG refuses, the operation is over.
AnswerLookup(b) ==
    /\ b \in batches /\ b.kind = "lookup"
    /\ \E found \in SUBSET (b.titles \cap exists), failed \in SUBSET b.titles :
         LET absent == b.titles \ (exists \cup failed)
             create == [b EXCEPT !.titles = absent, !.kind = "create"]
         IN \/ /\ absent # {}
               /\ batches' = (batches \ {b}) \cup {create}
               /\ lastValue' = Resolved(found)
               /\ UNCHANGED <<queued, pending, announced>>
            \/ /\ batches' = batches \ {b}
               /\ EndOperation(Resolved(found))
    /\ UNCHANGED <<waiting, exists, progress, syncs>>

\* OnCreateBatch, for the titles that DFG could create.
AnswerCreate(b) ==
    /\ b \in batches /\ b.kind = "create"
    /\ batches' = batches \ {b}
    /\ \E created \in SUBSET b.titles :
         /\ exists' = exists \cup created
         /\ EndOperation(Resolved(created))
    /\ UNCHANGED <<waiting, progress, syncs>>

\* SynchronizeTitle with dispatch: WIYTTitleEarned is sent on reaching 1.0.
Announces(t, value) == lastValue[t] # value /\ value = Earned /\ lastValue[t] < Earned

\* The progress of a title changes: HandleProgressChange publishes it.
ChangeProgress(t, value) ==
    /\ Count
    /\ progress[t] # Earned /\ value # progress[t]
    /\ progress' = [progress EXCEPT ![t] = value]
    /\ IF lastValue[t] = Unresolved THEN UNCHANGED <<lastValue, announced>>
       ELSE /\ lastValue' = [lastValue EXCEPT ![t] = value]
            /\ announced' = IF Announces(t, value)
                            THEN [announced EXCEPT ![t] = @ + 1] ELSE announced
    /\ UNCHANGED <<requestVars, exists>>

\* The button Reset Progress: ResetTitle, then RefreshProgressSources publishes what the
\* counters of the game make of the title, and may announce it, and SynchronizeTitle
\* publishes 0 whatever that was.
ResetProgress(t, value) ==
    /\ Count
    /\ progress' = [progress EXCEPT ![t] = value]
    /\ IF lastValue[t] = Unresolved
       THEN lastValue' = lastValue /\ announced' = [announced EXCEPT ![t] = 0]
       ELSE /\ lastValue' = [lastValue EXCEPT ![t] = 0]
            /\ announced' = [announced EXCEPT ![t] = IF Announces(t, value) THEN 1 ELSE 0]
    /\ UNCHANGED <<requestVars, exists>>

\* Mutant: a revert forgets the operations that are under way, not the flag.
ForgetForms == /\ lastValue' = [t \in Titles |-> Unresolved]
               /\ pending' = 0
               /\ UNCHANGED queued

\* ClearRuntimeForms.
ClearRuntimeForms == /\ lastValue' = [t \in Titles |-> Unresolved]
                     /\ pending' = 0
                     /\ queued' = FALSE

\* The revert callback and what the game loaded next makes of the titles; the
\* batches that DFG has are answered all the same.
LoadAnother ==
    /\ Count /\ waiting = {}
    /\ ClearRuntimeForms
    /\ progress' \in [Titles -> {0, Earned}]
    /\ announced' = [t \in Titles |-> 0]
    /\ UNCHANGED <<waiting, batches, exists>>

GlobalsNext ==
    \/ \E gone \in SUBSET Titles : SynchronizeAll(gone)
    \/ \E b \in waiting : HandOver(b)
    \/ \E b \in batches : AnswerLookup(b) \/ AnswerCreate(b)
    \/ \E t \in Titles, value \in 0..Earned : ChangeProgress(t, value) \/ ResetProgress(t, value)
    \/ LoadAnother

GlobalsSpec == GlobalsInit /\ [][GlobalsNext]_globalsVars
----------------------------------------------------------------------------
\* A queued synchronization waits for something: a batch to hand over, or an
\* answer of DFG.  Otherwise no title would ever be synchronized again, for
\* refusals, creations and answers to a game that was left count down alike.
SynchronizationHasAnOwner ==
    queued => pending > 0 /\ pending <= Cardinality(waiting) + Cardinality(batches)

\* WIYTTitleEarned is sent at most once for a title in a game, however often
\* its Global is registered anew: a second time only after its progress was reset, when
\* it can be earned again.
AnnouncedOnce == \A t \in Titles : announced[t] <= 1

\* The Globals of a game are synchronized to the end, and each title is announced once
\* for each time it is earned.
GlobalsInOrder == SynchronizationHasAnOwner /\ AnnouncedOnce
=============================================================================
