--------------------------- MODULE ThreatAnalysis ---------------------------
(***************************************************************************)
(* The threat analyzer (threat.rs): the findings one request or message    *)
(* gives rise to, and the histories that findings about several of them    *)
(* rest on.  Texts are abstracted to the classes the checks tell apart;    *)
(* times are in seconds, sizes in the unit of VolumeLimit.                 *)
(***************************************************************************)
EXTENDS Integers, Sequences, FiniteSetsExt, Folds

CONSTANTS
    Minute,         \* 60, the window of encoded uploads, volume and destinations
    FailureWindow,  \* 120
    Fallback,       \* 3 failures elsewhere
    ManyHosts, ManySuspicious,      \* 10 and 3 destinations
    BeaconLeast, BeaconKept,        \* 5 and 8 timestamps
    VolumeLimit                     \* 20 MiB

ASSUME WindowsAssumption == Minute \in Nat /\ FailureWindow \in Nat
ASSUME ThresholdsAssumption ==
    /\ {Fallback, ManyHosts, ManySuspicious, VolumeLimit} \subseteq Nat \ {0}
    /\ BeaconLeast \in Nat /\ BeaconLeast >= 2 /\ BeaconKept \in Nat /\ BeaconKept >= BeaconLeast

None == "none"

----------------------------------------------------------------------------
(* Findings.  A finding is its title; Weight gives its score. *)

Weight ==
    [raw_ip |-> 30, random_domain |-> 20, c2_path |-> 30, hosting |-> 20,
     process |-> 35, temporary |-> 20, no_agent |-> 5, odd_agent |-> 30, tool_agent |-> 15,
     posing_agent |-> 25, no_host |-> 25, duplicates |-> 35, odd_headers |-> 30,
     credentials |-> 60, sensitive |-> 45, file |-> 40, set_cookie |-> 35, connect |-> 35,
     proxied |-> 20, upgrade |-> 25, very_large |-> 45, large |-> 30, encoded |-> 12,
     encoded_often |-> 30, socket_encoded |-> 8, volume |-> 35, repeated |-> 15,
     beacon |-> 40, fallback |-> 35, destinations |-> 30, idle |-> 18, certificate |-> 45,
     long_socket |-> 20,
     changed |-> 30, warned |-> 20, redacted |-> 35, blocked |-> 50, unsigned |-> 12]

\* add_finding adds up to at most 100.
Score(findings) ==
    LET sum == FoldSet(LAMBDA finding, total : Weight[finding] + total, 0, findings)
    IN IF sum > 100 THEN 100 ELSE sum

\* finalize, and add_finding of model.rs.
Level(score) ==
    CASE score = 0 -> "none" [] score < 30 -> "notice" [] score < 60 -> "suspicious"
      [] OTHER -> "high"

IsWarning(findings) == Level(Score(findings)) \in {"suspicious", "high"}

If(condition, finding) == IF condition THEN {finding} ELSE {}

ProcessFindings(r) ==
    If(r.shell, "process") \cup If(r.temporary, "temporary")

\* A request that names no client is not looked at further.
AgentFindings(r) ==
    IF r.agent = {} THEN {"no_agent"}
    ELSE If("odd" \in r.agent, "odd_agent") \cup If("tool" \in r.agent, "tool_agent")
            \cup If("mozilla" \in r.agent /\ r.process # None /\ ~r.browser, "posing_agent")

HeaderFindings(r) ==
    If(r.http11 /\ r.hostHeaders = 0, "no_host")
        \cup If(r.hostHeaders > 1 \/ r.lengthHeaders > 1, "duplicates")
        \cup If(r.oddHeaders, "odd_headers")

PlaintextFindings(r) ==
    IF r.scheme # "http" THEN {}
    ELSE If(r.carries \cap {"authorization", "proxy-authorization", "cookie"} # {}, "credentials")
            \cup If(r.sensitive, "sensitive")
            \cup If(r.size > 0 /\ r.file, "file")
            \cup If(r.setCookie, "set_cookie")

TunnelFindings(r) ==
    If(r.method = "CONNECT", "connect")
        \cup If(r.carries \cap {"via", "forwarded", "proxy-authorization"} # {}, "proxied")
        \cup If(r.upgrade \notin {None, "websocket"}, "upgrade")

HostFindings(r) ==
    If(r.rawIp, "raw_ip") \cup If(r.random, "random_domain") \cup If(r.c2, "c2_path")
        \cup If(r.hosting, "hosting")

IsUpload(r) == r.method \in {"POST", "PUT", "PATCH"}

\* The sizes 5 and 25 MiB, as parts of the 20 MiB of VolumeLimit.
UploadFindings(r) ==
    IF ~IsUpload(r) \/ r.size = 0 THEN {}
    ELSE IF 4 * r.size >= 5 * VolumeLimit THEN {"very_large"}
    ELSE If(4 * r.size >= VolumeLimit, "large")

\* What a session adds that the analyzer does not know of: the baseline, the guard, the signature.
ContextFindings(changes, r) ==
    If(changes # {}, "changed")
        \cup If(r.guard # None, r.guard)
        \cup If(r.signature = "invalid" /\ r.process # None, "unsigned")

----------------------------------------------------------------------------
(* Histories: sequences of records with a time, in the order of arrival. *)

\* Mutant: the entry at the edge of the window goes as well.
PrunedEarly(history, now, window) ==
    LET recent == {i \in DOMAIN history : now - history[i].time < window}
    IN IF recent = {} THEN <<>> ELSE SubSeq(history, Min(recent), Len(history))

\* Entries leave at the front only: the first that is recent enough keeps all behind it.
Pruned(history, now, window) ==
    LET recent == {i \in DOMAIN history : now - history[i].time <= window}
    IN IF recent = {} THEN <<>> ELSE SubSeq(history, Min(recent), Len(history))

At(histories, key) == IF key \in DOMAIN histories THEN histories[key] ELSE <<>>
Put(f, key, value) == [k \in DOMAIN f \cup {key} |-> IF k = key THEN value ELSE f[k]]

\* What some of the entries come to.
TotalSize(entries, some) == FoldSet(LAMBDA i, total : entries[i].size + total, 0, some)
VolumeOf(history) == TotalSize(history, DOMAIN history)

\* Mutant: one more is kept.
LastAndOne(history, n) ==
    IF Len(history) <= n + 1 THEN history ELSE SubSeq(history, Len(history) - n, Len(history))
LastOf(history, n) ==
    IF Len(history) <= n THEN history ELSE SubSeq(history, Len(history) - n + 1, Len(history))

\* fixed_interval: at least a second apart, and within the larger of 12% and 250 ms of the mean,
\* here times a hundred and the number of intervals.
FixedInterval(times) ==
    LET n == Len(times) - 1
        step(i) == times[i + 1].time - times[i].time
        sum == times[n + 1].time - times[1].time
        off(i) == IF n * step(i) >= sum THEN n * step(i) - sum ELSE sum - n * step(i)
    IN /\ n + 1 >= BeaconLeast
       /\ \A i \in 1..n : /\ step(i) >= 1
                          /\ 100 * off(i) <= IF 12 * sum > 25 * n THEN 12 * sum ELSE 25 * n

----------------------------------------------------------------------------
(* The analyzer. *)

NoFunction == [x \in {} |-> x]
Fresh == [seen |-> NoFunction, beacons |-> NoFunction, failures |-> NoFunction,
          destinations |-> NoFunction, encoded |-> NoFunction, volume |-> <<>>]

\* stable_identity_key, identity_key and its websocket form: a process is known by its pid or name.
StableIdentity(r) == IF r.pid # None THEN r.pid ELSE r.process
Identity(r) == IF StableIdentity(r) # None THEN StableIdentity(r) ELSE r.client

RecordEncoded(an, r) ==
    LET key == <<r.kind, Identity(r), r.host>>
        history == Append(At(an.encoded, key), [time |-> r.time])
    IN [an EXCEPT !.encoded = Put(@, key, Pruned(history, r.time, Minute))]
EncodedCount(an, r) == Len(At(an.encoded, <<r.kind, Identity(r), r.host>>))

RecordOutbound(an, r) ==
    [an EXCEPT !.volume = Pruned(Append(@, [time |-> r.time, size |-> r.size]), r.time, Minute)]

Stream(r) == <<r.kind, Identity(r), r.host, r.method, r.path>>
RecordBeacon(an, r) ==
    [an EXCEPT !.beacons =
        Put(@, Stream(r), LastOf(Append(At(@, Stream(r)), [time |-> r.time]), BeaconKept))]

\* When a host, or a socket, was first seen and how often.
HostKey(r) == <<r.host>>
SocketKey(r) == <<Identity(r), r.host, r.path>>
RecordSeen(an, r, key) ==
    LET old == IF key \in DOMAIN an.seen THEN an.seen[key] ELSE [first |-> r.time, count |-> 0]
    IN [an EXCEPT !.seen = Put(@, key, [old EXCEPT !.count = @ + 1])]

FailuresOf(an, r) == Pruned(At(an.failures, StableIdentity(r)), r.time, FailureWindow)
Elsewhere(an, r) == {i \in DOMAIN FailuresOf(an, r) : FailuresOf(an, r)[i].host # r.host}
FellBack(an, r) == ~r.failed /\ Cardinality(Elsewhere(an, r)) >= Fallback

AnalyzeFailover(an, r) ==
    IF StableIdentity(r) = None THEN an
    ELSE [an EXCEPT !.failures = Put(@, StableIdentity(r),
            IF r.failed THEN Append(FailuresOf(an, r), [time |-> r.time, host |-> r.host])
            ELSE IF FellBack(an, r) THEN <<>>
            ELSE FailuresOf(an, r))]

RecordDestination(an, r) ==
    IF StableIdentity(r) = None THEN an
    ELSE LET visit == [time |-> r.time, host |-> r.host, suspicious |-> r.rawIp \/ r.random]
         IN [an EXCEPT !.destinations = Put(@, StableIdentity(r),
                Pruned(Append(At(@, StableIdentity(r)), visit), r.time, Minute))]
DestinationsChange(an, r) ==
    LET visits == At(an.destinations, StableIdentity(r))
        hosts(picked) == {visits[i].host : i \in picked}
    IN /\ StableIdentity(r) # None
       /\ Cardinality(hosts(DOMAIN visits)) >= ManyHosts
       /\ Cardinality(hosts({i \in DOMAIN visits : visits[i].suspicious})) >= ManySuspicious

IdleSuspicious(r) ==
    \/ IsUpload(r) \/ r.size > 0 \/ r.rawIp \/ r.random \/ r.c2 \/ r.shell \/ r.encoded

\* analyze_http: the analyzer after a request, and the findings.
AfterHttp(an, r) ==
    LET encoded == IF IsUpload(r) /\ r.size > 0 /\ r.encoded THEN RecordEncoded(an, r) ELSE an
        sent == IF r.size > 0 THEN RecordOutbound(encoded, r) ELSE encoded
        seen == RecordBeacon(RecordSeen(sent, r, HostKey(r)), r)
    IN RecordDestination(AnalyzeFailover(seen, r), r)

HttpFindings(an, r, idle) ==
    LET after == AfterHttp(an, r)
        known == after.seen[HostKey(r)]
    IN HostFindings(r) \cup ProcessFindings(r) \cup AgentFindings(r) \cup HeaderFindings(r)
        \cup PlaintextFindings(r) \cup TunnelFindings(r) \cup UploadFindings(r)
        \cup (IF IsUpload(r) /\ r.size > 0 /\ r.encoded
              THEN {IF EncodedCount(after, r) >= 3 THEN "encoded_often" ELSE "encoded"} ELSE {})
        \cup If(r.size > 0 /\ VolumeOf(after.volume) >= VolumeLimit, "volume")
        \cup If(known.count >= 5 /\ r.time - known.first < 11 * Minute
                  /\ (r.rawIp \/ r.random \/ r.c2), "repeated")
        \cup If(FixedInterval(At(after.beacons, Stream(r))), "beacon")
        \cup If(StableIdentity(r) # None /\ FellBack(an, r), "fallback")
        \cup If(DestinationsChange(after, r), "destinations")
        \cup If(idle /\ IdleSuspicious(r), "idle")
        \cup If(r.badCertificate, "certificate")

\* analyze_websocket, likewise. An encoded message counts when it has 64 bytes (r.size > 0).
SocketEncoded(r) == r.method = "out" /\ r.encoded
AfterWebSocket(an, r) ==
    LET seen == RecordSeen(an, r, SocketKey(r))
        encoded == IF SocketEncoded(r) /\ r.size > 0 THEN RecordEncoded(seen, r) ELSE seen
        sent == IF r.method = "out" THEN RecordOutbound(encoded, r) ELSE encoded
    IN RecordBeacon(sent, r)

WebSocketFindings(an, r, idle) ==
    LET after == AfterWebSocket(an, r)
        known == after.seen[SocketKey(r)]
    IN HostFindings(r) \cup If(r.shell, "process")
        \cup If(r.time - known.first >= 5 * Minute /\ known.count >= 5, "long_socket")
        \cup (IF SocketEncoded(r) /\ r.size > 0
              THEN {IF EncodedCount(after, r) >= 4 THEN "encoded_often" ELSE "socket_encoded"}
              ELSE {})
        \cup If(r.method = "out" /\ VolumeOf(after.volume) >= VolumeLimit, "volume")
        \cup If(FixedInterval(At(after.beacons, Stream(r))), "beacon")
        \cup If(idle /\ r.method = "out" /\ (r.bulky \/ r.rawIp \/ r.random \/ r.c2 \/ r.shell \/ r.encoded),
                "idle")
=============================================================================
