----------------------------- MODULE RuleLedger -----------------------------
(***************************************************************************)
(* What the store of EDF's rules promises to the saved games, which name   *)
(* the version of a rule that an actor's rewards came from: versions are   *)
(* committed one by one, a committed version keeps its content, and they   *)
(* go only all together: with their whole package, never the local one, or *)
(* for an imported history that is newer, which only the local one takes.  *)
(***************************************************************************)
EXTENDS Integers

CONSTANTS RuleIDs, Packages, Local, Versions, Contents

VARIABLE committed \* per package and rule, its committed versions

Keys == Packages \X RuleIDs

Version == [version : Versions, content : Contents]

\* Version v is newer than all that the package has of the rule.
Newer(k, v) == \A w \in committed[k] : v > w.version

LedgerInit == committed \in [Keys -> SUBSET Version]

\* Another version of a rule.
Commit(k) ==
    \E w \in Version :
        /\ Newer(k, w.version)
        /\ committed' = [committed EXCEPT ![k] = @ \cup {w}]

\* A newer history takes the place of the versions of a local rule.
Supersede(k) ==
    \E w \in Version :
        /\ k[1] = Local /\ Newer(k, w.version)
        /\ committed' = [committed EXCEPT ![k] = {w}]

\* A package goes, with the versions of all its rules.
Withdraw(p) ==
    /\ p # Local
    /\ committed' = [k \in Keys |-> IF k[1] = p THEN {} ELSE committed[k]]

LedgerNext ==
    \/ \E k \in Keys : Commit(k) \/ Supersede(k)
    \/ \E p \in Packages : Withdraw(p)

LedgerSpec == LedgerInit /\ [][LedgerNext]_committed
=============================================================================
