---------------------------- MODULE RuleMatching ----------------------------
(***************************************************************************)
(* What rules.rs makes of a list of rules, and what the rule debugger      *)
(* (rule_debugger.rs) shows of it.  Patterns and values are sequences of   *)
(* characters; a field of a rule stands for its host, path and method,     *)
(* which are matched alike.                                                *)
(***************************************************************************)
EXTENDS Naturals, Sequences

Star == "*"

\* The loop of wildcard_matches: one pass over the value with one place to go back to.  p and v
\* are the positions read next; star is the last star passed, 0 if none; retry is where the value
\* was taken up after it.  A loop that has no star to go back to stays where it is, short of the end.
Reads(pattern, p, character) == p <= Len(pattern) /\ pattern[p] = character
Step(pattern, value, s) ==
    IF s.v > Len(value) THEN s
    ELSE IF Reads(pattern, s.p, value[s.v]) THEN [s EXCEPT !.p = @ + 1, !.v = @ + 1]
    ELSE IF Reads(pattern, s.p, Star) THEN [s EXCEPT !.p = @ + 1, !.star = s.p, !.retry = s.v]
    ELSE IF s.star # 0 THEN [s EXCEPT !.p = s.star + 1, !.v = s.retry + 1, !.retry = @ + 1]
    ELSE s

\* More steps than the loop ever takes.
Steps(pattern, value) == (Len(value) + 1) * (Len(pattern) + Len(value) + 2)

WildcardMatches(pattern, value) ==
    LET state[n \in 0..Steps(pattern, value)] ==
            IF n = 0 THEN [p |-> 1, v |-> 1, star |-> 0, retry |-> 1]
            ELSE Step(pattern, value, state[n - 1])
        last == state[Steps(pattern, value)]
    IN last.v > Len(value) /\ \A i \in last.p..Len(pattern) : pattern[i] = Star

\* What `*` means: any run of characters, the empty one included.  stands[p] are the lengths of
\* the beginnings of the value that the first p characters of the pattern stand for.
Glob(pattern, value) ==
    LET stands[p \in 0..Len(pattern)] ==
            IF p = 0 THEN {0}
            ELSE {w \in 0..Len(value) : \E v \in stands[p - 1] :
                    IF pattern[p] = Star THEN v <= w ELSE w = v + 1 /\ value[w] = pattern[p]}
    IN Len(value) \in stands[Len(pattern)]

\* A regular expression that does not compile (valid = FALSE) matches nothing.
PatternMatches(rule, value) == rule.valid /\ WildcardMatches(rule.pattern, value)

Applies(rule, value) == rule.enabled /\ PatternMatches(rule, value)

\* Mutant, and the first rule that applies: a set of one index or none.
FindLastResponse(rules, value) ==
    {i \in DOMAIN rules : /\ Applies(rules[i], value)
                          /\ \A j \in i + 1..Len(rules) : ~Applies(rules[j], value)}
FindAutoResponse(rules, value) ==
    {i \in DOMAIN rules : /\ Applies(rules[i], value)
                          /\ \A j \in 1..i - 1 : ~Applies(rules[j], value)}

\* simulate: every rule is judged by itself.
Simulate(rules, value) ==
    [i \in DOMAIN rules |-> rules[i].enabled /\ PatternMatches(rules[i], value)]
=============================================================================
