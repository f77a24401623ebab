-------------------------- MODULE MCRuleActivation --------------------------
(* The instances of RuleActivation that TLC checks: rewards and inventories. *)
EXTENDS RuleActivation

MCReward(r, i, n, p) == [rule |-> r, item |-> i, amount |-> n, persistent |-> p]

\* A rule gives two copies of item 1, of which the actor has one, for a time and
\* two of item 2 for good.
MCRewards == <<MCReward(1, 1, 2, FALSE), MCReward(1, 2, 2, TRUE)>>
MCNative == <<1, 0>>

\* Rule 1 gives a copy of an item for good, rule 2 another for a time.
MCSharedRewards == <<MCReward(1, 1, 1, TRUE), MCReward(2, 1, 1, FALSE)>>
MCNothing == <<0>>
MCBoth == {TRUE, FALSE}
MCHeard == {TRUE}
=============================================================================
