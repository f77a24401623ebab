----------------------------- MODULE MCThreads -----------------------------
(***************************************************************************)
(* What is under way in threads, timers and queues, side by side: the      *)
(* evaluations of the scheduler and what they find, the updates that wait  *)
(* for the main thread, the dispatcher itself, the spells that wait to be  *)
(* cast and the requests to WhoEditThat.  They share no variable: a        *)
(* behaviour of this instance moves one of them.                           *)
(***************************************************************************)
EXTENDS MCRuleScheduler, DeferredUpdates, DelayedDispatcher, ActorValueLedger, SpellCasts, MCRuleIndex

VARIABLE part
allVars == <<part, vars, deferredVars, dispatcherVars, castVars, ledgerVars, indexVars>>

\* A rule gives a value for a time and a scale for good; an older EDF may have
\* applied it.
MCNumeric == <<[rule |-> 1, kind |-> "value", persistent |-> FALSE],
               [rule |-> 1, kind |-> "scale", persistent |-> TRUE]>>
MCOld == {{}, {1}}

ThreadsInit ==
    /\ part \in {"scheduler", "deferred", "dispatcher", "casts", "numbers", "index"}
    /\ Init /\ DeferredInit /\ DispatcherInit /\ CastInit /\ Init_L /\ IndexInit
    /\ part # "casts" => fit = "ready"
    /\ part # "numbers" => isReady /\ direct = {}
    /\ part # "index" => law = AnyLaw /\ subject = Bare

ThreadsNext ==
    \/ /\ part = "scheduler" /\ Next
       /\ UNCHANGED <<part, deferredVars, dispatcherVars, castVars, ledgerVars, indexVars>>
    \/ /\ part = "deferred" /\ DeferredNext
       /\ UNCHANGED <<part, vars, dispatcherVars, castVars, ledgerVars, indexVars>>
    \/ /\ part = "dispatcher" /\ DispatcherNext
       /\ UNCHANGED <<part, vars, deferredVars, castVars, ledgerVars, indexVars>>
    \/ /\ part = "casts" /\ CastNext
       /\ UNCHANGED <<part, vars, deferredVars, dispatcherVars, ledgerVars, indexVars>>
    \/ /\ part = "numbers" /\ Next_L
       /\ UNCHANGED <<part, vars, deferredVars, dispatcherVars, castVars, indexVars>>
    \/ /\ part = "index" /\ IndexNext
       /\ UNCHANGED <<part, vars, deferredVars, dispatcherVars, castVars, ledgerVars>>

ThreadsSpec == ThreadsInit /\ [][ThreadsNext]_allVars
=============================================================================
