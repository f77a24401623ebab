------------------------------ MODULE MCRules ------------------------------
(***************************************************************************)
(* The parts of EDF's rules side by side: where they are kept, how they    *)
(* follow each other for one actor, the items that they give it, and what  *)
(* it wears of them.  They share no variable: a behaviour of this instance *)
(* moves one of them.                                                      *)
(***************************************************************************)
EXTENDS MCRuleActivation, RuleStore, MCRuleCascade, MCEquipmentPlan

VARIABLE part
allVars == <<part, vars, storeVars, cascadeVars, equipmentVars>>

Parts == {"activation", "store", "cascade", "equipment"}

RulesInit ==
    /\ part \in Parts
    /\ Init /\ RuleStoreInit /\ CascadeInit /\ EquipmentInit
    /\ part # "cascade" =>
        rule = CHOOSE d \in MCRuleSets : TRUE
    /\ part # "cascade" => native = {}

RulesNext ==
    \/ /\ part = "activation" /\ Next
       /\ UNCHANGED <<part, storeVars, cascadeVars, equipmentVars>>
    \/ /\ part = "store" /\ RuleStoreNext
       /\ UNCHANGED <<part, vars, cascadeVars, equipmentVars>>
    \/ /\ part = "cascade" /\ CascadeNext
       /\ UNCHANGED <<part, vars, storeVars, equipmentVars>>
    \/ /\ part = "equipment" /\ EquipmentNext
       /\ UNCHANGED <<part, vars, storeVars, cascadeVars>>

RulesSpec == RulesInit /\ [][RulesNext]_allVars
=============================================================================
