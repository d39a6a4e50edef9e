---------------------------- MODULE MCHttpTraffic ----------------------------
(***************************************************************************)
(* Small instances of HttpTraffic: the settings differ in everything a     *)
(* handler reads, so that a save between two reads of one handler matters. *)
(***************************************************************************)
EXTENDS HttpTraffic

CONSTANTS api, web

MCHosts == {api, web}
MCHostOf == [r \in Requests |-> IF r = "r1" THEN api ELSE web]
MCContentOf == [r \in Requests |-> IF r = "r1" THEN "secret" ELSE "marker"]

Policy(mode, trusted, hidden, auto, malformed, rewrite) ==
    [mode |-> mode, trusted |-> trusted, hidden |-> hidden, auto |-> auto,
     malformed |-> malformed, rewrite |-> rewrite]
MCPolicies == {
    Policy("warn", {}, {}, {}, {}, {api}),
    Policy("redact", {web}, {web}, {}, {}, {}),
    Policy("block", {}, {web}, {}, {}, {api}),
    Policy("off", {}, {api}, {web}, {}, {}),
    Policy("warn", {}, {}, {api}, {}, {web}),
    Policy("off", {}, {}, {api, web}, {web}, {})}
=============================================================================
