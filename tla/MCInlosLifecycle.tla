-------------------------- MODULE MCInlosLifecycle --------------------------
(* The instance of InlosLifecycle that TLC checks.                         *)
EXTENDS InlosLifecycle

MCActors == {1, 2}
MCRuleTrigger == <<"death", "both", "defeat">>
=============================================================================
