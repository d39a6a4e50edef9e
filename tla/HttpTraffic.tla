----------------------------- MODULE HttpTraffic -----------------------------
(***************************************************************************)
(* The HTTP half of the capture worker (TrafficHandler in capture.rs).     *)
(*                                                                         *)
(* The proxy clones the handler for every request, so the handlers of      *)
(* requests in flight run concurrently on the worker's threads.  They      *)
(* share the settings, which the UI thread replaces under a lock while     *)
(* requests are in flight, the sequence counter, and the channel to the    *)
(* UI.  Each read of the settings, each await and each call that another   *)
(* thread can come between is a step of its own.                           *)
(***************************************************************************)
EXTENDS Naturals, Sequences, FiniteSets

CONSTANTS
    Requests,           \* the requests of one capture; each has a handler
    Hosts,
    HostOf,             \* the host of each request
    ContentOf,          \* what its headers and body carry, see Contents
    Policies,           \* the settings the user may save
    MaxSaves            \* bound: how often the user saves

\* A secret that redact_text replaces; one that find_text reports and redact_text leaves
\* ("screenshot", "machine_id"); neither; and a secret after redaction.
Contents == {"plain", "secret", "marker", "masked"}
Sensitive == {"secret", "marker"}
Modes == {"off", "warn", "redact", "block"}
\* "malformed": the hosts whose automatic response has a content type that validate accepts (it is
\* not empty) and that is no header value (a control character).
Settings == [mode : Modes, trusted : SUBSET Hosts, hidden : SUBSET Hosts,
             auto : SUBSET Hosts, malformed : SUBSET Hosts, rewrite : SUBSET Hosts]

ASSUME RequestAssumption ==
    /\ HostOf \in [Requests -> Hosts]
    /\ ContentOf \in [Requests -> Contents]
ASSUME PolicyAssumption == Policies \subseteq Settings /\ Policies # {}
ASSUME SavesAssumption == MaxSaves \in Nat

NotSent == "not sent"
NoReply == "no reply"

VARIABLES
    settings,   \* the worker's settings, behind an RwLock
    readers,    \* handlers that hold the read lock across a step
    wanted,     \* the settings the UI thread waits to write: a set of one or none
    saves,      \* saves so far
    sequence,   \* the shared AtomicU64
    events,     \* what was sent on the channel to the UI
    pc,         \* where each handler stands
    snap,       \* the clone of the settings handle_request works with
    content,    \* the captured request
    draft,      \* the exchange being recorded; from Forward on it stands for handler.pending
    number,     \* the sequence number drawn for it
    sent,       \* what went upstream
    reply,      \* what the client got
    since       \* history: the settings in force since the body was read

handlers == <<pc, snap, content, draft, number, sent, reply, since>>
vars == <<settings, readers, wanted, saves, sequence, events, handlers>>

Labels == {"new", "identify", "decide", "upstream", "rewrite", "record", "number", "publish",
           "done", "gone"}
Kinds == {"auto", "blocked", "answered", "failed"}
Replies == {"ca page", "local", "fallback", "451", "upstream", "rewritten", "error"}
Draft == [kind : Kinds, request : Contents, response : Replies]
Event == [id : Requests, kind : Kinds \cup {"error"}, number : Nat,
          request : Contents, response : Replies]

TypeOK ==
    /\ settings \in Policies
    /\ readers \subseteq Requests
    /\ wanted \subseteq Policies /\ Cardinality(wanted) <= 1
    /\ saves \in 0..MaxSaves
    /\ sequence \in Nat
    /\ events \in Seq(Event)
    /\ pc \in [Requests -> Labels]
    /\ snap \in [Requests -> Policies]
    /\ content \in [Requests -> Contents]
    /\ draft \in [Requests -> Draft]
    /\ number \in [Requests -> Nat]
    /\ sent \in [Requests -> Contents \cup {NotSent}]
    /\ reply \in [Requests -> Replies \cup {NoReply}]
    /\ since \in [Requests -> SUBSET Policies]

Init ==
    /\ settings \in Policies
    /\ readers = {}
    /\ wanted = {}
    /\ saves = 0
    /\ sequence = 0
    /\ events = <<>>
    /\ pc = [r \in Requests |-> "new"]
    /\ snap = [r \in Requests |-> settings]
    /\ content = ContentOf
    /\ draft = [r \in Requests |-> [kind |-> "auto", request |-> ContentOf[r], response |-> "local"]]
    /\ number = [r \in Requests |-> 0]
    /\ sent = [r \in Requests |-> NotSent]
    /\ reply = [r \in Requests |-> NoReply]
    /\ since = [r \in Requests |-> {}]

----------------------------------------------------------------------------
(* What one copy of the settings says about one request.                   *)

Hides(p, r) == HostOf[r] \in p.hidden
Answers(p, r) == HostOf[r] \in p.auto

\* protect_http: what it decides about content c.
GuardAction(p, r, c) ==
    IF p.mode = "off" \/ HostOf[r] \in p.trusted \/ c \notin Sensitive
    THEN "none"
    ELSE CASE p.mode = "warn" -> "warned"
           [] p.mode = "redact" -> "redacted"
           [] p.mode = "block" -> "blocked"

\* Mutant, and what a redacted request carries.
UnredactedBody(action, c) == c
Protected(action, c) == IF action = "redacted" /\ c = "secret" THEN "masked" ELSE c

Goto(r, label) == pc' = [pc EXCEPT ![r] = label]

Send(r, kind, n, request, response) ==
    events' = Append(events, [id |-> r, kind |-> kind, number |-> n,
                              request |-> request, response |-> response])

\* parking_lot's RwLock: a waiting writer keeps new readers out.
MayRead == wanted = {}

----------------------------------------------------------------------------
(* handle_request.                                                         *)

\* A request to mitm.it or httpwhisper.local: the certificate page is served from memory.
ServeCaPage(r) ==
    /\ pc[r] = "new"
    /\ reply' = [reply EXCEPT ![r] = "ca page"]
    /\ Goto(r, "done")
    /\ UNCHANGED <<settings, readers, wanted, saves, sequence, events, snap, content, draft,
                   number, sent, since>>

\* A body that cannot be decoded is refused.
RefuseRequest(r) ==
    /\ pc[r] = "new"
    /\ Send(r, "error", 0, "plain", "error")
    /\ reply' = [reply EXCEPT ![r] = "error"]
    /\ Goto(r, "done")
    /\ UNCHANGED <<settings, readers, wanted, saves, sequence, snap, content, draft, number,
                   sent, since>>

\* The body is collected; one that breaks off is reported and taken as empty.
ReadRequest(r) ==
    /\ pc[r] = "new"
    /\ \/ UNCHANGED <<content, events>>
       \/ /\ content' = [content EXCEPT ![r] = "plain"]
          /\ Send(r, "error", 0, "plain", "error")
    /\ since' = [since EXCEPT ![r] = {settings}]
    /\ Goto(r, "identify")
    /\ UNCHANGED <<settings, readers, wanted, saves, sequence, snap, draft, number, sent,
                   reply>>

\* Mutant: the settings the capture was started with.
StartupSettings(r) == snap[r]
CurrentSettings(r) == settings

\* platform::resolve_client may take long; then the settings are cloned.
ReadSettings(r) ==
    /\ pc[r] = "identify"
    /\ MayRead
    /\ snap' = [snap EXCEPT ![r] = CurrentSettings(r)]
    /\ Goto(r, "decide")
    /\ UNCHANGED <<settings, readers, wanted, saves, sequence, events, content, draft, number,
                   sent, reply, since>>

\* What the client gets of an exchange: Response::builder refuses a content type that is no header
\* value, and the automatic response is then a 200 with a fixed text.
Delivered(r, kind, response) ==
    IF kind = "auto" /\ HostOf[r] \in snap[r].malformed THEN "fallback" ELSE response

\* An answer the worker gives itself is recorded unless the host was hidden, as the rule has it and
\* before it is built.
AnswerLocally(r, kind, response) ==
    /\ draft' = [draft EXCEPT ![r] = [kind |-> kind, request |-> content[r], response |-> response]]
    /\ IF Hides(snap[r], r)
       THEN Goto(r, "done") /\ reply' = [reply EXCEPT ![r] = Delivered(r, kind, response)]
       ELSE Goto(r, "number") /\ UNCHANGED reply

\* find_auto_response comes before the guard.
AutoRespond(r) ==
    /\ pc[r] = "decide"
    /\ Answers(snap[r], r)
    /\ AnswerLocally(r, "auto", "local")
    /\ UNCHANGED <<settings, readers, wanted, saves, sequence, events, snap, content, number,
                   sent, since>>

Block(r) ==
    /\ pc[r] = "decide"
    /\ ~Answers(snap[r], r)
    /\ GuardAction(snap[r], r, content[r]) = "blocked"
    /\ AnswerLocally(r, "blocked", "451")
    /\ UNCHANGED <<settings, readers, wanted, saves, sequence, events, snap, content, number,
                   sent, since>>

\* The captured request is redacted, and the body that goes upstream with it.
Forward(r) ==
    /\ pc[r] = "decide"
    /\ ~Answers(snap[r], r)
    /\ LET action == GuardAction(snap[r], r, content[r])
       IN /\ action # "blocked"
          /\ content' = [content EXCEPT ![r] =
                           IF action = "redacted" /\ @ = "secret" THEN "masked" ELSE @]
          /\ sent' = [sent EXCEPT ![r] = Protected(action, content[r])]
    /\ Goto(r, "upstream")
    /\ UNCHANGED <<settings, readers, wanted, saves, sequence, events, snap, draft, number,
                   reply, since>>

----------------------------------------------------------------------------
(* handle_response and handle_error.                                       *)

\* A CONNECT or a WebSocket upgrade: the upstream's answer bypasses the handler.
OpenTunnel(r) ==
    /\ pc[r] = "upstream"
    /\ Goto(r, "gone")
    /\ UNCHANGED <<settings, readers, wanted, saves, sequence, events, snap, content, draft,
                   number, sent, reply, since>>

\* A response that cannot be decoded: the handler returns early, the request stays pending
\* and is dropped with the handler.
RefuseResponse(r) ==
    /\ pc[r] = "upstream"
    /\ Send(r, "error", 0, "plain", "error")
    /\ reply' = [reply EXCEPT ![r] = "error"]
    /\ Goto(r, "done")
    /\ UNCHANGED <<settings, readers, wanted, saves, sequence, snap, content, draft, number,
                   sent, since>>

\* The response body is collected; one that breaks off is reported and taken as empty.
ReadResponse(r) ==
    /\ pc[r] = "upstream"
    /\ \/ UNCHANGED events
       \/ Send(r, "error", 0, "plain", "error")
    /\ draft' = [draft EXCEPT ![r] = [kind |-> "answered", request |-> content[r],
                                      response |-> "upstream"]]
    /\ Goto(r, "rewrite")
    /\ UNCHANGED <<settings, readers, wanted, saves, sequence, snap, content, number, sent,
                   reply, since>>

UpstreamFails(r) ==
    /\ pc[r] = "upstream"
    /\ draft' = [draft EXCEPT ![r] = [kind |-> "failed", request |-> content[r],
                                      response |-> "error"]]
    /\ Goto(r, "record")
    /\ UNCHANGED <<settings, readers, wanted, saves, sequence, events, snap, content, number,
                   sent, reply, since>>

\* Mutant: the read lock of the rewrites is still held when Record takes it again.
RewriteKeepingLock(r) ==
    /\ pc[r] = "rewrite"
    /\ MayRead
    /\ readers' = readers \cup {r}
    /\ Goto(r, "record")
    /\ UNCHANGED <<settings, wanted, saves, sequence, events, snap, content, draft, number,
                   sent, reply, since>>

\* The rewrites of this moment, under the read lock; a body that is not text stays as it is.
Rewrite(r) ==
    /\ pc[r] = "rewrite"
    /\ MayRead
    /\ \/ UNCHANGED draft
       \/ /\ HostOf[r] \in settings.rewrite
          /\ draft' = [draft EXCEPT ![r].response = "rewritten"]
    /\ Goto(r, "record")
    /\ UNCHANGED <<settings, readers, wanted, saves, sequence, events, snap, content, number,
                   sent, reply, since>>

\* Mutant: the lock is given up once the hidden hosts have been read.
RecordWithoutLock(r) ==
    /\ pc[r] = "record"
    /\ MayRead
    /\ IF Hides(settings, r)
       THEN Goto(r, "done") /\ reply' = [reply EXCEPT ![r] = draft[r].response]
       ELSE Goto(r, "number") /\ UNCHANGED reply
    /\ UNCHANGED <<settings, readers, wanted, saves, sequence, events, snap, content, draft,
                   number, sent, since>>

\* pending.take(), and the hidden hosts of this moment decide; the lock is held until the
\* exchange has been sent.
Record(r) ==
    /\ pc[r] = "record"
    /\ MayRead
    /\ IF Hides(settings, r)
       THEN /\ Goto(r, "done")
            /\ reply' = [reply EXCEPT ![r] = draft[r].response]
            /\ UNCHANGED readers
       ELSE /\ Goto(r, "number")
            /\ readers' = readers \cup {r}
            /\ UNCHANGED reply
    /\ UNCHANGED <<settings, wanted, saves, sequence, events, snap, content, draft, number,
                   sent, since>>

----------------------------------------------------------------------------
(* Recording, the same for every kind of exchange.                         *)

\* Mutant: numbered by what the channel holds, not by the counter.
CountEvents(r) == Len(events)
NextSequence(r) == sequence

\* next_sequence: fetch_add returns the old value.
DrawNumber(r) ==
    /\ pc[r] = "number"
    /\ number' = [number EXCEPT ![r] = NextSequence(r) + 1]
    /\ sequence' = sequence + 1
    /\ Goto(r, "publish")
    /\ UNCHANGED <<settings, readers, wanted, saves, events, snap, content, draft, sent, reply,
                   since>>

\* Mutant: the handler stays where it is and sends the exchange again.
PublishAgain(r) ==
    /\ pc[r] = "publish"
    /\ Len(events) < 6
    /\ Send(r, draft[r].kind, number[r], draft[r].request, draft[r].response)
    /\ reply' = [reply EXCEPT ![r] = draft[r].response]
    /\ UNCHANGED <<settings, readers, wanted, saves, sequence, pc, snap, content, draft, number,
                   sent, since>>

\* The exchange is sent, the lock released, the response returned to the client.
Publish(r) ==
    /\ pc[r] = "publish"
    /\ Send(r, draft[r].kind, number[r], draft[r].request, draft[r].response)
    /\ readers' = readers \ {r}
    /\ reply' = [reply EXCEPT ![r] = Delivered(r, draft[r].kind, draft[r].response)]
    /\ Goto(r, "done")
    /\ UNCHANGED <<settings, wanted, saves, sequence, snap, content, draft, number, sent,
                   since>>

----------------------------------------------------------------------------
(* The client and the UI thread.                                           *)

\* The client gives up, or the runtime is shut down: the handler's future is dropped where it
\* awaits.
Cancel(r) ==
    /\ pc[r] \in {"new", "upstream"}
    /\ Goto(r, "gone")
    /\ UNCHANGED <<settings, readers, wanted, saves, sequence, events, snap, content, draft,
                   number, sent, reply, since>>

\* CaptureWorker::update_settings: settings.write() waits for the readers.
\* The UI thread blocks in the call, so there is one writer at most (and a mutant of that).
RequestSaveAgain ==
    /\ saves < MaxSaves + 1
    /\ saves' = saves + 1
    /\ \E p \in Policies : wanted' = wanted \cup {p}
    /\ UNCHANGED <<settings, readers, sequence, events, handlers>>

RequestSave ==
    /\ wanted = {}
    /\ saves < MaxSaves
    /\ saves' = saves + 1
    /\ \E p \in Policies : wanted' = {p}
    /\ UNCHANGED <<settings, readers, sequence, events, handlers>>

ApplySave ==
    /\ readers = {}
    /\ \E p \in wanted :
         /\ settings' = p
         /\ since' = [r \in Requests |-> IF pc[r] = "identify" THEN since[r] \cup {p} ELSE since[r]]
    /\ wanted' = {}
    /\ UNCHANGED <<readers, saves, sequence, events, pc, snap, content, draft, number, sent,
                   reply>>

\* Steps a handler takes without waiting for client or upstream.
HandlerStep(r) ==
    \/ ReadSettings(r) \/ AutoRespond(r) \/ Block(r) \/ Forward(r)
    \/ Rewrite(r) \/ Record(r) \/ DrawNumber(r) \/ Publish(r)

Next ==
    \/ \E r \in Requests :
         \/ ServeCaPage(r) \/ RefuseRequest(r) \/ ReadRequest(r)
         \/ OpenTunnel(r) \/ RefuseResponse(r) \/ ReadResponse(r) \/ UpstreamFails(r)
         \/ HandlerStep(r) \/ Cancel(r)
    \/ RequestSave \/ ApplySave

\* The worker's threads run every handler, the UI thread gets the lock once it is free.
\* Nothing is assumed of clients and upstreams.
Fairness ==
    /\ \A r \in Requests : WF_vars(HandlerStep(r))
    /\ WF_vars(ApplySave)

Spec == Init /\ [][Next]_vars
FairSpec == Spec /\ Fairness

----------------------------------------------------------------------------
(* Properties.                                                             *)

\* Data Guard (README.md, "Redact before sending", "Block transmission"): a secret reaches the
\* upstream only if, at some moment since the request was read, the settings allowed it.  A save
\* that has completed binds every request read later, whatever was in flight.
GuardInForce ==
    \A r \in Requests :
        /\ sent[r] = "secret" =>
               \E p \in since[r] : GuardAction(p, r, "secret") \in {"none", "warned"}
        /\ sent[r] = "marker" =>
               \E p \in since[r] : GuardAction(p, r, "marker") # "blocked"

\* The client got what the row e shows, or the row is of a rule whose content type is no header value.
ReplyShown(e) ==
    \/ reply[e.id] = e.response
    \/ reply[e.id] = "fallback" /\ e.kind = "auto" /\ HostOf[e.id] \in snap[e.id].malformed

\* The table shows what happened (TrafficHandler records at a later step than it forwards): an
\* exchange answered locally never went upstream, any other holds the request as transmitted,
\* and what the client got is the recorded response, unless it is one that could not be built.
RecordIsTrue ==
    \A i \in 1..Len(events) :
        LET e == events[i]
        IN e.kind # "error" =>
              /\ IF e.kind \in {"auto", "blocked"} THEN sent[e.id] = NotSent
                                                   ELSE sent[e.id] = e.request
              /\ ReplyShown(e)

\* "Matching requests receive the configured local status, content type, and body without contacting
\* the upstream server" (README.md): a request that got an answer and was neither forwarded, refused,
\* blocked nor for the certificate page got what the rule says.
MatchesGetTheRule ==
    \A r \in Requests :
        sent[r] = NotSent /\ reply[r] \notin {NoReply, "ca page", "451", "error"} => reply[r] = "local"

\* next_sequence: no two exchanges of a capture carry the same number, although numbers are drawn
\* and exchanges sent at different steps of concurrent handlers.
DistinctNumbers ==
    \A i, j \in 1..Len(events) :
        i # j /\ events[i].kind # "error" /\ events[j].kind # "error"
            => events[i].number # events[j].number

Exchanges(r) == {i \in 1..Len(events) : events[i].id = r /\ events[i].kind # "error"}

\* No exchange is recorded twice, and none is lost: a handler that comes to its end without having
\* recorded one served the certificate page, reported an error in its stead, or found the host hidden:
\* in its copy of the settings when it answers locally, in those of this moment when it forwarded.
RecordedOnce ==
    /\ [](\A r \in Requests : Cardinality(Exchanges(r)) <= 1)
    /\ [][\A r \in Requests :
             pc[r] # "done" /\ pc'[r] = "done" /\ Exchanges(r)' = {} =>
                \/ reply'[r] = "ca page"
                \/ \E i \in 1..Len(events') : events'[i].id = r /\ events'[i].kind = "error"
                \/ Hides(IF pc[r] = "record" THEN settings ELSE snap[r], r)]_vars

\* handle_response and handle_error hold the read lock from the test of the hidden hosts to the
\* send: a forwarded exchange is never shown once its host has been hidden.
HiddenStaysHidden ==
    [][\A r \in Requests :
          Len(events') > Len(events) /\ events'[Len(events')].id = r
              /\ events'[Len(events')].kind \in {"answered", "failed"}
          => ~Hides(settings, r)]_vars

\* The UI thread is never blocked for good by handlers, nor they by it: the two read locks of
\* handle_response are not nested, so a writer waiting between them is let in.
SaveCompletes == wanted # {} ~> wanted = {}
=============================================================================
