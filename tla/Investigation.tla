--------------------------- MODULE Investigation ---------------------------
(***************************************************************************)
(* What the window makes of the sessions that reach it (ui.rs): threat     *)
(* analysis, learned behavior, host dossiers, and the pairing of websocket *)
(* requests and replies (protocol.rs).  Sessions get their time and number *)
(* on the tasks of the capture worker and arrive in whatever order these   *)
(* send them; the analyzers take them in the order of arrival.             *)
(***************************************************************************)
EXTENDS Baseline

CONSTANTS
    Traffic,        \* the sessions there are, without time and number
    Foreign,        \* a baseline a capsule may bring
    Idle,           \* whether there was no input for long: the answers the platform may give
    MaxTime, MaxSent,       \* bounds: the clock, and the sessions on their way
    Budgets         \* bound: how often each operation may happen in a behaviour

\* The parts of a session the operators look at.
Fields ==
    {"kind", "host", "path", "method", "size", "type", "process", "executable", "pid", "client",
     "id", "scheme", "rawIp", "random", "c2", "hosting", "shell", "temporary", "browser", "agent",
     "http11", "hostHeaders", "lengthHeaders", "oddHeaders", "carries", "sensitive", "file",
     "setCookie", "upgrade", "encoded", "bulky", "failed", "badCertificate", "guard", "signature",
     "time", "number"}

ASSUME InvestigationAssumption ==
    /\ Traffic # {} /\ IsBaseline(Foreign)
    /\ \A r \in Traffic : /\ r = [f \in Fields |-> r[f]]
                           /\ r.kind \in {"http", "ws"} /\ r.size \in Nat
                           /\ r.time = 0 /\ r.number = 0
    /\ MaxTime \in Nat /\ MaxSent \in Nat /\ Idle \subseteq BOOLEAN
    /\ Budgets \subseteq [{"sessions", "clicks"} -> Nat]

VARIABLES
    clock, numbered,    \* the time of the last session, and the numbers given by the worker
    sent,               \* sessions that have a number and a time and have not arrived
    analyzer,
    pending,            \* ProtocolTracker: the number of the message that waits for a reply
    baseline, learning, detecting,
    dossiers,           \* by host: sessions and warnings
    arrived,            \* history: what arrived since the capture started, with reply_to_sequence
    recorded,           \* history: what the analyzer looked at since, in order
    fallbacks,          \* history: by identity, the fallbacks reported since
    learned,            \* history: what was observed since the baseline was last replaced
    left                \* bound

worker == <<clock, numbered, sent>>
history == <<arrived, recorded, fallbacks>>
vars == <<worker, analyzer, pending, baseline, learned, dossiers, learning, detecting, history, left>>

TypeOK ==
    /\ clock \in 0..MaxTime /\ numbered \in Nat /\ left \in [{"sessions", "clicks"} -> Nat]
    /\ \A r \in sent : r.time \in 0..clock /\ r.number \in Nat \ {0}
    /\ DOMAIN analyzer = DOMAIN Fresh
    /\ \A key \in DOMAIN analyzer.beacons : Len(analyzer.beacons[key]) \in 1..BeaconKept
    /\ \A key \in DOMAIN analyzer.seen : analyzer.seen[key].count \in Nat \ {0}
    /\ \A key \in DOMAIN pending : pending[key] \in Nat \ {0}
    /\ learning \in BOOLEAN /\ detecting \in BOOLEAN
    /\ IsBaseline(baseline) /\ learned \subseteq Traffic
    /\ \A host \in DOMAIN dossiers : dossiers[host] \in [sessions : Nat, warnings : Nat]

\* Detection is on by default, learning as the settings say.
Init ==
    /\ clock = 0 /\ numbered = 0 /\ sent = {}
    /\ analyzer = Fresh /\ pending = NoFunction /\ dossiers = NoFunction
    /\ baseline = NoFunction /\ learned = {} /\ learning \in BOOLEAN /\ detecting = TRUE
    /\ arrived = <<>> /\ recorded = <<>> /\ fallbacks = NoFunction
    /\ left \in Budgets

Spend(operation) == left[operation] > 0 /\ left' = [left EXCEPT ![operation] = @ - 1]

\* A task of the worker stamps a session and sends it, sooner or later than the others.
Stamp ==
    /\ Spend("sessions") /\ numbered' = numbered + 1
    /\ Cardinality(sent) < MaxSent /\ clock' \in clock..MaxTime
    /\ \E r \in Traffic : sent' = sent \cup {[r EXCEPT !.time = clock', !.number = numbered']}
    /\ UNCHANGED <<analyzer, pending, baseline, learned, dossiers, learning, detecting, history>>

----------------------------------------------------------------------------

\* record_analysis, with observe of the dossiers; warnings are counted by host.
Template(r) == [r EXCEPT !.time = 0, !.number = 0]
Record(r, findings) ==
    LET old == IF r.host \in DOMAIN dossiers THEN dossiers[r.host] ELSE [sessions |-> 0, warnings |-> 0]
        warned == IF IsWarning(findings) THEN 1 ELSE 0
    IN /\ baseline' = IF learning THEN Observe(baseline, r) ELSE baseline
       /\ learned' = IF learning THEN learned \cup {Template(r)} ELSE learned
       /\ dossiers' = Put(dossiers, r.host, [sessions |-> old.sessions + 1,
                                             warnings |-> old.warnings + warned])

\* assess_http and assess_websocket: the analyzer is asked only while detection is enabled.
Detected(findings, r) ==
    (IF detecting THEN findings ELSE {}) \cup ContextFindings(Assess(baseline, r, learning), r)
Looked(r) == IF detecting THEN Append(recorded, r) ELSE recorded

\* poll_events: Exchange, and ReplayCompleted.
HandleExchange ==
    \E r \in sent, idle \in Idle :
        /\ r.kind = "http" /\ sent' = sent \ {r}
        /\ analyzer' = IF detecting THEN AfterHttp(analyzer, r) ELSE analyzer
        /\ Record(r, Detected(HttpFindings(analyzer, r, idle), r))
        /\ fallbacks' = IF detecting /\ StableIdentity(r) # None /\ FellBack(analyzer, r)
              THEN Put(fallbacks, StableIdentity(r), 1 +
                       IF StableIdentity(r) \in DOMAIN fallbacks THEN fallbacks[StableIdentity(r)] ELSE 0)
              ELSE fallbacks
        /\ recorded' = Looked(r) /\ arrived' = Append(arrived, [session |-> r, reply |-> 0])
        /\ UNCHANGED <<clock, numbered, pending, learning, detecting, left>>

\* ProtocolTracker::analyze: a message out waits, one in takes the one that waits.
Conversation(r) == <<r.host, r.path, r.id>>
Tracks(r) == r.id # None
\* Mutant: a message stays pending once it is answered.
PendingAfterKeeping(r) ==
    IF Tracks(r) /\ r.method = "out" THEN Put(pending, Conversation(r), r.number) ELSE pending
PendingAfter(r) ==
    IF ~Tracks(r) THEN pending
    ELSE IF r.method = "out" THEN Put(pending, Conversation(r), r.number)
    ELSE [key \in DOMAIN pending \ {Conversation(r)} |-> pending[key]]
ReplyOf(r) ==
    IF Tracks(r) /\ r.method = "in" /\ Conversation(r) \in DOMAIN pending
    THEN pending[Conversation(r)] ELSE 0

\* poll_events: WebSocket.
HandleWebSocket ==
    \E r \in sent, idle \in Idle :
        /\ r.kind = "ws" /\ sent' = sent \ {r}
        /\ pending' = PendingAfter(r)
        /\ analyzer' = IF detecting THEN AfterWebSocket(analyzer, r) ELSE analyzer
        /\ Record(r, Detected(WebSocketFindings(analyzer, r, idle), r))
        /\ recorded' = Looked(r) /\ arrived' = Append(arrived, [session |-> r, reply |-> ReplyOf(r)])
        /\ UNCHANGED <<clock, numbered, fallbacks, learning, detecting, left>>

----------------------------------------------------------------------------

\* start_capture. Sessions sent last by the worker before may still arrive, and numbers start again.
StartCapture ==
    /\ Spend("clicks")
    /\ analyzer' = Fresh /\ pending' = NoFunction
    /\ arrived' = <<>> /\ recorded' = <<>> /\ fallbacks' = NoFunction
    /\ numbered' = 0 /\ \E late \in SUBSET sent : sent' = late
    /\ UNCHANGED <<clock, baseline, learned, dossiers, learning, detecting>>

ToggleLearning ==
    /\ Spend("clicks") /\ learning' = ~learning
    /\ UNCHANGED <<worker, analyzer, pending, baseline, learned, dossiers, detecting, history>>

ToggleDetection ==
    /\ Spend("clicks") /\ detecting' = ~detecting
    /\ UNCHANGED <<worker, analyzer, pending, baseline, learned, dossiers, learning, history>>

ClearBaseline ==
    /\ Spend("clicks") /\ baseline' = NoFunction /\ learned' = {}
    /\ UNCHANGED <<worker, analyzer, pending, dossiers, learning, detecting, history>>

\* The baseline and the dossiers of the capsule take the place of those there are; the analyzer
\* and the tracker go on.
OpenCapsule ==
    /\ Spend("clicks") /\ baseline' = Foreign /\ learned' = {} /\ dossiers' = NoFunction
    /\ UNCHANGED <<worker, analyzer, pending, learning, detecting, history>>

Next ==
    \/ Stamp \/ HandleExchange \/ HandleWebSocket
    \/ StartCapture \/ ToggleLearning \/ ToggleDetection \/ ClearBaseline \/ OpenCapsule

Spec == Init /\ [][Next]_vars

----------------------------------------------------------------------------

(* The evidence texts say "in the last minute" and count entries of a history that is pruned from
   the front only, while sessions arrive out of order. *)

Outbound(r) == IF r.kind = "http" THEN r.size > 0 ELSE r.method = "out"
CountsAsEncoded(r) ==
    r.encoded /\ r.size > 0 /\ IF r.kind = "http" THEN IsUpload(r) ELSE r.method = "out"
EncodedKey(r) == <<r.kind, Identity(r), r.host>>

\* Of some of the sessions looked at: those of the minute before the newest.
Recent(some) ==
    {i \in some : \A j \in some : recorded[j].time - recorded[i].time <= Minute}
InOrder(some) == \A i, j \in some : i < j => recorded[i].time <= recorded[j].time

\* The volume of the last minute misses nothing of that minute, and is exact when sessions arrived
\* in the order of their times (record_outbound).
VolumeIsRecent ==
    LET out == {i \in DOMAIN recorded : Outbound(recorded[i])}
        sum == TotalSize(recorded, Recent(out))
    IN /\ VolumeOf(analyzer.volume) >= sum
       /\ InOrder(out) => VolumeOf(analyzer.volume) = sum

\* The same of the encoded messages of each process and host (record_encoded).
EncodedAreRecent ==
    \A key \in DOMAIN analyzer.encoded :
        LET mine == {i \in DOMAIN recorded :
                        CountsAsEncoded(recorded[i]) /\ EncodedKey(recorded[i]) = key}
        IN /\ Len(analyzer.encoded[key]) >= Cardinality(Recent(mine))
           /\ InOrder(mine) => Len(analyzer.encoded[key]) = Cardinality(Recent(mine))

\* No failure is the evidence of two fallbacks (analyze_failover).
FailuresBlamedOnce ==
    \A key \in DOMAIN analyzer.failures :
        LET failures == {i \in DOMAIN recorded : /\ recorded[i].kind = "http" /\ recorded[i].failed
                                                 /\ StableIdentity(recorded[i]) = key}
            reported == IF key \in DOMAIN fallbacks THEN fallbacks[key] ELSE 0
        IN Fallback * reported + Len(analyzer.failures[key]) <= Cardinality(failures)

\* What a finding counts happened, whatever order the sessions arrived in.
CountsAreEvidence == VolumeIsRecent /\ EncodedAreRecent /\ FailuresBlamedOnce

\* Once learning stops, what was seen while it was on is not reported as a change, whatever else
\* was learned since; only what a full profile had no room for is (assess_http, assess_websocket,
\* observe; README: "Stop learning to turn new behavior into deviations").
LearnedIsNormal ==
    \A r \in learned : Assess(baseline, r, FALSE) \subseteq Full(ProfileOf(baseline, r), r)

\* A reply points to a message of its conversation that went out in this capture, and no message
\* has two replies (ProtocolTracker::analyze).
RepliesMatch ==
    \A i \in DOMAIN arrived : arrived[i].reply # 0 =>
        LET same(j) == Conversation(arrived[j].session) = Conversation(arrived[i].session)
            asked == {j \in DOMAIN arrived :
                        /\ arrived[j].session.kind = "ws" /\ arrived[j].session.method = "out"
                        /\ arrived[j].session.number = arrived[i].reply /\ same(j)}
            answers == {j \in DOMAIN arrived : arrived[j].reply = arrived[i].reply /\ same(j)}
        IN Cardinality(answers) <= Cardinality(asked)
=============================================================================
