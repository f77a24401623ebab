--------------------------- MODULE MCRuleCascade ---------------------------
(* The rules that TLC checks RuleCascade with.                             *)
EXTENDS RuleCascade

MCAlways == BOOLEAN
MCRule(needs, bans, fight, gives, persistent) ==
    [needs |-> needs, bans |-> bans, combat |-> fight, gives |-> gives,
     persistent |-> persistent]

\* A chain with a cycle that is unstable; three rewards of one tag, one of them
\* for good; an unstable pair with a rule for combat; and a cycle that keeps
\* itself alive.
MCRuleSets ==
   {<<MCRule({}, {}, {TRUE}, {"a"}, FALSE), MCRule({"a", "n"}, {}, MCAlways, {"b"}, FALSE),
      MCRule({"n"}, {"b"}, MCAlways, {"a"}, FALSE)>>,
    <<MCRule({"n"}, {}, MCAlways, {"a"}, TRUE), MCRule({}, {}, {TRUE}, {"a"}, FALSE),
      MCRule({}, {"n"}, MCAlways, {"a"}, FALSE)>>,
    <<MCRule({}, {"b"}, MCAlways, {"a"}, FALSE), MCRule({"a"}, {}, MCAlways, {"b"}, FALSE),
      MCRule({}, {}, {TRUE}, {}, FALSE)>>,
    <<MCRule({"a"}, {}, MCAlways, {"b"}, FALSE), MCRule({"b", "n"}, {}, MCAlways, {"a"}, FALSE),
      MCRule({}, {}, {FALSE}, {"b"}, FALSE)>>}
=============================================================================
