--------------------------- MODULE MCWebSocketStream ---------------------------
(***************************************************************************)
(* Small instances of WebSocketStream.  A rule turns "user" into "token",  *)
(* a secret the guard then finds; "long" is longer than the inflater's     *)
(* buffer.                                                                 *)
(***************************************************************************)
EXTENDS WebSocketStream

CONSTANTS c1, c2

MCTexts == {"hello", "user", "token", "masked", "long"}
MCReplace == [t \in Texts |-> IF t = "user" THEN "token" ELSE t]
MCMask == [t \in Texts |-> IF t = "token" THEN "masked" ELSE t]
MCCut == [t \in Texts |-> IF t = "long" THEN "hello" ELSE t]

\* What the user may switch between: nothing, rules with and without redaction, blocking; and
\* which of the connections is hidden.
Policy(mode, hidden, rewrite) ==
    [mode |-> mode, trusted |-> {}, hidden |-> hidden, rewrite |-> rewrite]
MCPolicies == {
    Policy("warn", {}, {c1}), Policy("redact", {c2}, {c1}), Policy("block", {c2}, {c1})}
MCSent == {
    <<"stream", "hello">>, <<"stream", "user">>, <<"stream", "long">>,
    <<"whole", "token">>}

\* No guard; the rules may come later.
RulesOnly(rewrite) ==
    [mode |-> "off", trusted |-> {}, hidden |-> {}, rewrite |-> rewrite]
PlainSent == {<<"stream", "hello">>, <<"stream", "user">>}

SharedPolicies == {RulesOnly({}), RulesOnly({c1}), RulesOnly({c1, c2})}
=============================================================================
