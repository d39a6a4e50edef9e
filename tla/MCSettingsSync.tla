--------------------------- MODULE MCSettingsSync ---------------------------
(***************************************************************************)
(* A small instance of SettingsSync, and the matcher of RuleMatching       *)
(* against what a pattern means, over all short patterns and values.       *)
(***************************************************************************)
EXTENDS SettingsSync

UpTo(n, chars) == UNION {[1..k -> chars] : k \in 0..n}

ASSUME MatcherAgrees ==
    \A pattern \in UpTo(4, {"a", "b", Star}), value \in UpTo(5, {"a", "b"}) :
        WildcardMatches(pattern, value) = Glob(pattern, value)
ASSUME MatcherTakesStars ==
    \A pattern \in UpTo(4, {"a", "b", Star}), value \in UpTo(4, {"a", "b", Star}) :
        WildcardMatches(pattern, value) => Glob(pattern, value)

R(enabled, valid, pattern) == [enabled |-> enabled, valid |-> valid, pattern |-> pattern]
MCNewRule == R(FALSE, TRUE, <<"a">>)
Everything == R(TRUE, TRUE, <<Star, "a", Star, "b">>)
Broken == R(TRUE, FALSE, <<"b">>)
MCRules == {MCNewRule, Everything, Broken}
MCPresets == [status |-> <<Everything>>, none |-> <<>>]
MCCapsules == {[auto |-> <<Broken, Everything>>, rewrite |-> <<>>],
               [auto |-> <<>>, rewrite |-> <<MCNewRule>>]}
MCValues == UpTo(1, {"a", "b"}) \cup
    {<<"a", "b">>, <<"b", "a">>, <<"a", "b", "a">>, <<"b", "a", "a", "b">>}
MCBudget == [edits |-> 2, saves |-> 2, captures |-> 1, faults |-> 1, launches |-> 1]
=============================================================================
