-------------------------- MODULE RewardSuppression --------------------------
(***************************************************************************)
(* How WIYT tells the items it gives as rewards from those the player      *)
(* comes by (src/WIYT/Runtime.cpp): before it adds an item it notes the    *)
(* amount, and the container event takes what it finds from the note.      *)
(* The note is kept per form, so the module follows one form; rewards are  *)
(* given by several threads, and the player picks things up in between.    *)
(***************************************************************************)
EXTENDS Integers, FiniteSets

CONSTANTS
    Givers,     \* the threads that give rewards
    MaxAmount,  \* bound: the amount of a reward or of an acquisition
    MaxTaken    \* bound: what the player comes by, and what is given

ASSUME SuppressionAssumption ==
    IsFiniteSet(Givers) /\ MaxAmount \in Nat /\ MaxTaken \in Nat

VARIABLES
    suppressed, \* g_suppressedAcquisitions of the form; 0 if it has no entry
    adding,     \* per thread, the amount noted and not yet added
    harvest,    \* _pendingHarvest is set and recent
    taken,      \* history: what the player came by
    credited,   \* history: what was reported as gameplay acquisitions
    harvested,  \* history: what was reported as harvested
    noted       \* history: what was noted in all

suppressionVars == <<suppressed, adding, harvest, taken, credited, harvested, noted>>
----------------------------------------------------------------------------
SuppressionInit ==
    /\ suppressed = 0
    /\ adding = [g \in Givers |-> 0]
    /\ harvest = FALSE
    /\ taken = 0 /\ credited = 0 /\ harvested = 0 /\ noted = 0

\* Mutant: a note is dropped when anything is taken from it.
AfterConsumingAll(n) == 0

\* What ConsumeSuppression leaves of a note.
AfterConsuming(n) == IF suppressed > n THEN suppressed - n ELSE 0

\* The container event of n items: a note, however small, suppresses all of it.
ContainerEvent(n) ==
    /\ suppressed' = AfterConsuming(n)
    /\ credited' = IF suppressed > 0 THEN credited ELSE credited + n
    /\ harvested' = IF harvest /\ suppressed = 0 THEN harvested + n ELSE harvested
    /\ harvest' = FALSE

\* SuppressNextAcquisition in ApplyReward.
NoteReward(g, n) ==
    /\ adding[g] = 0 /\ noted + n <= MaxTaken
    /\ suppressed' = suppressed + n
    /\ adding' = [adding EXCEPT ![g] = n]
    /\ noted' = noted + n
    /\ UNCHANGED <<harvest, taken, credited, harvested>>

\* AddObjectToContainer, which sends the event, or nothing if nothing came.
AddReward(g) ==
    /\ adding[g] > 0
    /\ adding' = [adding EXCEPT ![g] = 0]
    /\ \/ ContainerEvent(adding[g])
       \/ UNCHANGED <<suppressed, credited, harvested, harvest>>
    /\ UNCHANGED <<taken, noted>>

\* The player picks up or harvests n items.
TakeItems(n) ==
    /\ taken + n <= MaxTaken
    /\ taken' = taken + n
    /\ ContainerEvent(n)
    /\ UNCHANGED <<adding, noted>>

\* TESActivateEvent of flora by the player: an acquisition is expected.
ActivateFlora ==
    /\ harvest' = TRUE
    /\ UNCHANGED <<suppressed, adding, taken, credited, harvested, noted>>

\* The three seconds of the harvest are over.
HarvestExpires ==
    /\ harvest /\ harvest' = FALSE
    /\ UNCHANGED <<suppressed, adding, taken, credited, harvested, noted>>

\* ResetTransientTracking when a game was loaded.
ForgetNotes ==
    /\ \A g \in Givers : adding[g] = 0
    /\ suppressed' = 0 /\ harvest' = FALSE
    /\ UNCHANGED <<adding, taken, credited, harvested, noted>>

SuppressionNext ==
    \/ \E g \in Givers : AddReward(g) \/ \E n \in 1..MaxAmount : NoteReward(g, n)
    \/ \E n \in 1..MaxAmount : TakeItems(n)
    \/ ActivateFlora \/ HarvestExpires \/ ForgetNotes

SuppressionSpec == SuppressionInit /\ [][SuppressionNext]_suppressionVars
----------------------------------------------------------------------------
\* Rewards earn no progress: whichever events met whichever notes, what counts
\* as acquired or harvested is never more than what the player came by.
RewardsEarnNothing == credited <= taken /\ harvested <= taken
=============================================================================
