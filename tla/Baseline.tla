------------------------------ MODULE Baseline ------------------------------
(***************************************************************************)
(* Learned normal behavior (baseline.rs): a profile for each process and   *)
(* host it talks to, and the ways in which a later session differs.        *)
(***************************************************************************)
EXTENDS ThreatAnalysis

CONSTANTS
    MaxPaths, MaxTypes,     \* 2000 and 200; 2000 for each of the websocket sets
    MaxSocketTypes,
    BigBody                 \* 64 KiB

ASSUME CapsAssumption == {MaxPaths, MaxTypes, MaxSocketTypes, BigBody} \subseteq Nat \ {0}

\* process_key: the executable, else the name, else the pid.
ProcessKey(r) ==
    IF r.executable # None THEN r.executable
    ELSE IF r.process # None THEN r.process ELSE r.pid

Unknown == [methods |-> {}, paths |-> {}, types |-> {}, socketPaths |-> {}, socketTypes |-> {},
            largest |-> 0]

IsProfile(profile) ==
    /\ DOMAIN profile = DOMAIN Unknown /\ profile.largest \in Nat
    /\ \A set \in DOMAIN Unknown \ {"largest"} : IsFiniteSet(profile[set])
IsBaseline(baseline) ==
    \A process \in DOMAIN baseline :
        \A host \in DOMAIN baseline[process] : IsProfile(baseline[process][host])

Knows(baseline, r) ==
    ProcessKey(r) \in DOMAIN baseline /\ r.host \in DOMAIN baseline[ProcessKey(r)]
ProfileOf(baseline, r) ==
    IF Knows(baseline, r) THEN baseline[ProcessKey(r)][r.host] ELSE Unknown

\* Sets stop growing at their cap.
Capped(set, value, cap) == IF Cardinality(set) < cap THEN set \cup {value} ELSE set
Largest(profile, r) == IF r.size > profile.largest THEN r.size ELSE profile.largest

WithHttp(profile, r) ==
    [profile EXCEPT
        !.methods = @ \cup {r.method},
        !.paths = Capped(@, r.path, MaxPaths),
        !.types = IF r.type = None THEN @ ELSE Capped(@, r.type, MaxTypes),
        !.largest = Largest(profile, r)]

WithWebSocket(profile, r) ==
    [profile EXCEPT
        !.socketPaths = Capped(@, r.path, MaxPaths),
        !.socketTypes = IF r.type = None THEN @ ELSE Capped(@, r.type, MaxSocketTypes),
        !.largest = Largest(profile, r)]

\* Mutant: the profile of the host is that of the last session.
ObserveLast(baseline, r) ==
    LET hosts == IF ProcessKey(r) \in DOMAIN baseline THEN baseline[ProcessKey(r)] ELSE NoFunction
        profile == IF r.kind = "http" THEN WithHttp(Unknown, r) ELSE WithWebSocket(Unknown, r)
    IN Put(baseline, ProcessKey(r), Put(hosts, r.host, profile))

Observe(baseline, r) ==
    LET hosts == IF ProcessKey(r) \in DOMAIN baseline THEN baseline[ProcessKey(r)] ELSE NoFunction
        old == ProfileOf(baseline, r)
        profile == IF r.kind = "http" THEN WithHttp(old, r) ELSE WithWebSocket(old, r)
    IN Put(baseline, ProcessKey(r), Put(hosts, r.host, profile))

\* assess_http and assess_websocket: nothing while learning, and nothing without a baseline.
NewInHttp(profile, r) ==
    LET known == IF 4 * profile.largest > BigBody THEN 4 * profile.largest ELSE BigBody
    IN If(r.method \notin profile.methods, "method")
        \cup If(r.path \notin profile.paths, "path")
        \cup If(r.type # None /\ r.type \notin profile.types, "type")
        \cup If(r.size > known, "size")

NewInWebSocket(profile, r) ==
    If(r.path \notin profile.socketPaths, "path")
        \cup If(r.type # None /\ r.type \notin profile.socketTypes, "type")

Assess(baseline, r, learning) ==
    IF learning \/ DOMAIN baseline = {} THEN {}
    ELSE IF ProcessKey(r) \notin DOMAIN baseline THEN {"process"}
    ELSE IF ~Knows(baseline, r) THEN {"host"}
    ELSE IF r.kind = "http" THEN NewInHttp(ProfileOf(baseline, r), r)
    ELSE NewInWebSocket(ProfileOf(baseline, r), r)

\* What a profile has no room for.
Full(profile, r) ==
    LET paths == IF r.kind = "http" THEN profile.paths ELSE profile.socketPaths
        types == IF r.kind = "http" THEN profile.types ELSE profile.socketTypes
        most == IF r.kind = "http" THEN MaxTypes ELSE MaxSocketTypes
    IN If(Cardinality(paths) >= MaxPaths, "path") \cup If(Cardinality(types) >= most, "type")
=============================================================================
