------------------------------ MODULE MCTitles ------------------------------
(***************************************************************************)
(* The parts of WIYT side by side.  They share no variable, so that their  *)
(* interleavings show nothing that each part does not show by itself: a    *)
(* behaviour of this instance moves one of them.                           *)
(***************************************************************************)
EXTENDS TitleProgress, StatisticFetch, RewardSuppression, TitleGlobals, TitleStore, TLC

VARIABLE part
Parts == {"progress", "fetch", "suppression", "globals", "store"}
allVars == <<part, vars, fetchVars, suppressionVars, globalsVars, storeVars>>

MCDefinition(print, mode, rewards) ==
    [reqs |-> Reqs, rewards |-> rewards, enabled |-> TRUE,
     print |-> print, legacyPrint |-> <<5, 6>>, target |-> <<1, 1>>,
     mode |-> mode, required |-> <<FALSE, TRUE>>, filtered |-> <<FALSE, TRUE>>]
MCDefinitions == {MCDefinition(<<1, 2>>, <<"count", "lifetime">>, {1, 2}),
                  MCDefinition(<<3, 4>>, <<"unique", "sinceActivated">>, {1})}

MCRow(g) == [version |-> 1, content |-> [global |-> g, text |-> 1]]
MCNewDisk == [p \in Packages |-> Absent]
MCDisks == {MCNewDisk,
            [p \in Packages |-> IF p = Local THEN (1 :> MCRow("a")) ELSE EmptyPackage],
            [p \in Packages |-> IF p = Local THEN EmptyPackage
                                ELSE (1 :> MCRow("a") @@ 2 :> MCRow("b"))]}
MCPackageOrder == [p \in Packages |-> IF p = Local THEN 2 ELSE 1]
MCFolded == [g \in Globals |-> IF g = "A" THEN "a" ELSE g]

TitlesInit ==
    /\ part \in Parts
    /\ Init /\ FetchInit /\ SuppressionInit /\ GlobalsInit /\ StoreInit
    /\ part # "progress" => def = MCDefinition(<<1, 2>>, <<"count", "lifetime">>, {1, 2})
    /\ part # "globals" => exists = {}
    /\ part # "store" => disk = MCNewDisk

\* The other parts need not move: their inputs are bounded.
Rest == part # "progress" /\ UNCHANGED allVars

TitlesNext ==
    \/ /\ part = "progress" /\ Next
       /\ UNCHANGED <<part, fetchVars, suppressionVars, globalsVars, storeVars>>
    \/ /\ part = "fetch" /\ FetchNext
       /\ UNCHANGED <<part, vars, suppressionVars, globalsVars, storeVars>>
    \/ /\ part = "suppression" /\ SuppressionNext
       /\ UNCHANGED <<part, vars, fetchVars, globalsVars, storeVars>>
    \/ /\ part = "globals" /\ GlobalsNext
       /\ UNCHANGED <<part, vars, fetchVars, suppressionVars, storeVars>>
    \/ /\ part = "store" /\ StoreNext
       /\ UNCHANGED <<part, vars, fetchVars, suppressionVars, globalsVars>>
    \/ Rest

TitlesSpec == TitlesInit /\ [][TitlesNext]_allVars /\ FetchFairness
=============================================================================
