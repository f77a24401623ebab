-------------------------- MODULE MCInlosDelivery --------------------------
(* The instance of InlosDelivery that TLC checks: who commands whom, the   *)
(* rules and the settings.                                                 *)
EXTENDS InlosDelivery, TLC

CONSTANTS player, friend, foe, pet, wisp, stray

\* The wisp is the pet's, and the pet is the player's; the stray lost its commander.
MCCommander == pet :> player @@ wisp :> pet @@ stray :> stray

MCLootReward(chance, kind) == [chance |-> chance, kind |-> kind]
MCGroup(chance, exclusive, rewards) ==
    [chance |-> chance, exclusive |-> exclusive, rewards |-> rewards]
MCLootRules == <<
    [trigger |-> "both", toBody |-> TRUE, playerKiller |-> FALSE, exclusive |-> FALSE,
     groups |-> <<MCGroup(2, TRUE, <<MCLootReward(1, "item"), MCLootReward(1, "spell")>>)>>],
    [trigger |-> "death", toBody |-> FALSE, playerKiller |-> FALSE, exclusive |-> TRUE,
     groups |->
        <<MCGroup(1, FALSE, <<MCLootReward(1, "spell"), MCLootReward(2, "skillMenu")>>),
          MCGroup(1, FALSE, <<MCLootReward(2, "item"), MCLootReward(1, "experience")>>)>>]>>

\* Whether a follower's loot is the player's says nothing where no loot is moved.
MCSettings ==
    {s \in [recipient : {"playerOnly", "anyActor", "party"},
            vanilla : {"nothing", "autoLoot", "discard"},
            keepQuest : BOOLEAN, followerToPlayer : BOOLEAN, tomes : BOOLEAN] :
        /\ s.tomes = s.keepQuest
        /\ s.followerToPlayer => s.vanilla = "autoLoot"}
=============================================================================
