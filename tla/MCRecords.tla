----------------------------- MODULE MCRecords -----------------------------
(***************************************************************************)
(* The records that follow the game's own saves and lives, side by side:   *)
(* the history of EDF, the lives of INLOS and the loot of one of them.     *)
(* They share no variable: a behaviour of this instance moves one of them. *)
(***************************************************************************)
EXTENDS MCSaveHistory, MCInlosLifecycle, MCInlosDelivery

VARIABLE part
allVars == <<part, vars, lifecycleVars, deliveryVars>>

RecordsInit ==
    /\ part \in {"history", "lives", "loot"}
    /\ Init /\ LifecycleInit /\ DeliveryInit
    /\ part # "loot" => settings = CHOOSE s \in AllSettings : TRUE
    /\ part # "loot" => known = {}

RecordsNext ==
    \/ part = "history" /\ Next /\ UNCHANGED <<part, lifecycleVars, deliveryVars>>
    \/ part = "lives" /\ LifecycleNext /\ UNCHANGED <<part, vars, deliveryVars>>
    \/ part = "loot" /\ DeliveryNext /\ UNCHANGED <<part, vars, lifecycleVars>>

RecordsSpec == RecordsInit /\ [][RecordsNext]_allVars
=============================================================================
