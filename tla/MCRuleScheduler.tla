-------------------------- MODULE MCRuleScheduler --------------------------
(* The instances of RuleScheduler that TLC checks: FormIDs, kinds of change. *)
EXTENDS RuleScheduler

CONSTANT loader

MCPlayer == 1
MCActors == {1, 2}
MCKinds == {"inventory", "other"}
MCInventory == "inventory"
=============================================================================
