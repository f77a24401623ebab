--------------------------- MODULE MCEquipmentPlan ---------------------------
(***************************************************************************)
(* Six items and three rewards for TLC.  The NPC's own armor is on its     *)
(* head (1) and body (2).  An outfit for the night, a robe over both (3)   *)
(* with a staff (5), a lasting reward of better armor for the day (4) with *)
(* a helmet that is the best but made for beasts (6), and the staff again  *)
(* for combat, by a rule that watches the equipment.                       *)
(***************************************************************************)
EXTENDS EquipmentPlan

ArmorOf(slots, rating, race) ==
    [kind |-> "armor", slots |-> slots, rating |-> rating, addons |-> {[races |-> {race}, slots |-> slots]}]
Armor(slots, rating) == ArmorOf(slots, rating, "man")
MCGear == <<Armor({"head"}, 2), Armor({"body"}, 1), Armor({"head", "body"}, 0), Armor({"body"}, 3),
            [kind |-> "staff", slots |-> {"hand"}, rating |-> 0, addons |-> {}],
            ArmorOf({"head"}, 4, "beast")>>
MCGifts == <<[items |-> {3, 5}, outfit |-> TRUE, contexts |-> {"sleep"}, lasting |-> FALSE, watches |-> "facts"],
             [items |-> {4, 6}, outfit |-> FALSE, contexts |-> {"combat", "normal"}, lasting |-> TRUE, watches |-> "facts"],
             [items |-> {5}, outfit |-> FALSE, contexts |-> {"combat"}, lasting |-> FALSE, watches |-> "gear"]>>
=============================================================================
