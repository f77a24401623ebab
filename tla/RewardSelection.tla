-------------------------- MODULE RewardSelection --------------------------
(***************************************************************************)
(* Which groups of a rule, and which rewards of a group, a roll selects    *)
(* (src/DistributionCore/RewardSelector.cpp), for EDF and INLOS alike.     *)
(* Chances and rolls are whole steps of the 100 %.                         *)
(***************************************************************************)
EXTENDS Integers, Sequences, SequencesExt

LOCAL Total(chances, n) == FoldLeft(LAMBDA sum, c : sum + c, 0, SubSeq(chances, 1, n))

\* The first that the running total of the chances reaches: at most one.
Exclusive(chances, roll) ==
    LET reached == {i \in DOMAIN chances : roll <= Total(chances, i)}
    IN {i \in reached : \A j \in reached : i <= j}

\* RollGroupIndices and RollRewardIndices: one roll for all, or one for each.
Selected(chances, isExclusive, rolls) ==
    IF isExclusive THEN Exclusive(chances, rolls[1])
    ELSE {i \in DOMAIN chances : rolls[i] <= chances[i]}

ChancesOfGroups(rule) == [i \in DOMAIN rule.groups |-> rule.groups[i].chance]
ChancesOfRewards(group) == [i \in DOMAIN group.rewards |-> group.rewards[i].chance]

\* RollRuleRewards: the rewards of the groups that the rolls select, as <<group,
\* reward>>; rolls.groups are the rolls of the groups, rolls.rewards those of each.
RollRuleRewards(rule, rolls) ==
    {c \in UNION {{<<g, w>> : w \in DOMAIN rule.groups[g].rewards} :
                     g \in Selected(ChancesOfGroups(rule), rule.exclusive, rolls.groups)} :
        c[2] \in Selected(ChancesOfRewards(rule.groups[c[1]]), rule.groups[c[1]].exclusive,
                          rolls.rewards[c[1]])}
=============================================================================
