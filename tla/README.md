# HTTP Whisper: TLA+ models, model checking and proofs

HTTP Whisper (`src/`) is a desktop application that runs an intercepting HTTP, HTTPS and
WebSocket proxy, shows what passes through it, rewrites or answers messages by rules, keeps
secrets from leaving (the Data Guard), and configures Windows to use the proxy while a capture
runs. This directory holds TLA+ modules for its core logic, TLC configurations that check them
on small instances, and TLAPS proofs for every value of the constants.

`PROJECT.json` lists components, runs, the source lines of every definition, hazards, findings
and theorems.

## 1. Inventory

### Processes and threads

* The **UI thread** (`ui.rs`) owns the session table, the settings, the drafts in the dialogs and
  all analyzers. Once per frame it drains the channels, then draws.
* The **capture worker** (`CaptureWorker::start`) is one thread with a Tokio runtime of its own.
  It lives from "start capture" to its verdict. Inside it hudsucker runs one task per connection;
  the tasks run in parallel and share `SharedCapture`: the settings behind a read-write lock, the
  sequence counter, and the sending end of the event channel.
* **Background threads** (`spawn_background`): replay, host lookup, bypass poll, capsule work;
  each sends one result over a channel.
* **Outside**: the registry, `proxy-restore.json`, the CA files, the body store, the SQLite
  database, other processes of the same application, and the peers.

The UI talks to the worker through `CaptureWorker::update_settings` (write lock), `stop` and
`join`; the worker talks to the UI through `CaptureEvent` only.

### Components

| component | state | operations | what is hard | what makes it correct |
|---|---|---|---|---|
| System proxy (`windows_proxy.rs`) | five registry values, `proxy-restore.json`, the snapshot in memory, `active` | recover, enable, restore, drop | death or failure between any two writes; a second process | the user's values are always in place or recoverable, and come back |
| Worker lifecycle (`capture.rs`) | worker thread, shutdown channel, verdict | start, serve, stop, fail | a stop during start-up; failure while undoing | a stop ends it; "stopped" means restored |
| HTTP handlers (`capture.rs`) | pending request, shared settings, counter, channel | request, response, error | settings saved between two steps of a handler; cancelled tasks; lock order | the guard binds what goes out; the record is true; numbers are distinct; hidden stays hidden |
| WebSocket handler (`capture.rs`) | inflater and deflater per direction, `reencode_all` | decode, rewrite, guard, encode | stateful compression through a rewriting proxy; shared streams | the receiver can read what was forwarded |
| Data Guard (`guard.rs`) | none | protect_http, protect_websocket_text | what it is applied to, and when | no secret leaves under redact or block |
| Rules (`rules.rs`) | none | host_is_hidden, find_auto_response, matching_rewrites, wildcard_matches | the matcher's backtracking | agrees with the definition of `*` |
| Settings (`config.rs`, `ui.rs`) | `AppSettings`, drafts, `settings.json`, undo slot, the worker's copy | load, migrate, validate, save, undo | four copies, and a save that fails half-way | the copies agree after a save that succeeded and after one that failed |
| Session table (`ui.rs`) | rows, selection, capture state, windows | poll_events, push_session, clear, replay, experiments, on_exit | eviction under stale indexes; late events of an earlier capture | selection and windows point at the rows they were set to |
| Storage (`storage.rs`) | body files, database | BodyStore::put, SessionRepository | two writers of one key; crash between write and rename | a file under its final name is complete |
| Certificate authority (`certificate.rs`) | key, PEM, DER | load or create, install | three writes, two threads, two processes | the three files come from one key pair |
| Platform (`platform.rs`) | identity caches | resolve_client, bypass snapshot | reuse of ports and PIDs within the time to live | traffic is attributed to its process |
| Threat analyzer (`threat.rs`) | per-host history | assess | bounded history | score follows the evidence |
| Baseline (`baseline.rs`) | learned sets, dirty flag | learn, assess, save | saved at most every five seconds | what was learned is not reported as new |
| Protocol tracker (`protocol.rs`) | pending correlations, schemas | inspect | replies without requests, reuse of identifiers | a reply is matched with its own request |
| Host dossiers (`dossier.rs`) | counters, lookup results | observe, merge | late results | counters never shrink |
| Bypass radar (`ui.rs`, `platform.rs`) | connections, one poll in flight | poll, merge | poll racing with frames | limit and order of the list |
| Experiments, replay (`experiment.rs`, `replay.rs`, `websocket_replay.rs`) | window indexes, results | begin, end, compare, send | rows move meanwhile | the windows are the ones recorded |
| Rule debugger (`rule_debugger.rs`) | hit counts | simulate | agreement with the worker | predicts what the worker does |
| Reports, capsules, export, filters | none | conversions | - | - |

### Hard behaviours

Three kinds dominate: a **crash or failure** between the steps of a change that spans registry,
file and memory; **interleavings** of handlers with each other and with the UI thread's saves;
and **long protocols** in which one step out of place only shows much later (compression
windows). `PROJECT.json` lists each hazard at its line with the properties that would catch it.

## 2. Plan

In the order of importance, one module or one group of modules for each way in which the parts
disturb each other:

| module | models | composed with | proofs |
|---|---|---|---|
| `SystemProxy` (implements `ReversibleChange`) | the change made to the user's machine | - | `SystemProxyProofs` |
| `HttpTraffic` | what the proxy sends, answers and records | the settings that `SettingsSync` saves, the events that `Workspace` receives | `HttpTrafficProofs` |
| `WebSocketStream` (implements `RewritingChannels`) | messages through a rewriting proxy | the rules of the settings | `WebSocketStreamProofs` |
| `Workspace` | frames, events, table, selection, pins, replay, experiments, exit | the worker's life cycle as the window sees it | `WorkspaceProofs` |
| `SettingsSync`, which extends `RuleMatching` | the copies of the settings, dialogs, undo; the matcher and the debugger | the worker's copy | `SettingsSyncProofs` |
| `Investigation`, which extends `Baseline`, which extends `ThreatAnalysis` | analysis, learning, dossiers and pairing of replies over the sessions that arrive | the worker's numbering | `InvestigationProofs` |
| `DataFiles` | bodies, key pair and documents on disk | worker and UI threads of several processes | `DataFilesProofs` |
| `BypassRadar` | identity caches and the table of connections | the tasks of the worker, a background thread | `BypassRadarProofs` |

The modules meet at the points where the code does: the event channel (`HttpTraffic` sends,
`Workspace` and `Investigation` receive), the settings (`SettingsSync` saves, `HttpTraffic` and
`WebSocketStream` work with copies), and the files (`Workspace` and `SettingsSync` save,
`DataFiles` says how). Each module takes from the other side of such a point everything the other
side may do: `HttpTraffic` lets any policy be saved at any step, `Workspace` lets the worker send
at any step of a frame, `Investigation` lets sessions arrive in any order.

There is one passing run per module or group, and a violation run for each disagreement between
code and documentation that a run can show.

## 3. The system proxy

`SystemProxy.tla` models `WindowsProxyManager` and the part of `run_capture` that uses it, for a
set of processes (`Instances`) that share the registry (`reg`) and `proxy-restore.json` (`file`).

* A worker (`pc[i]`) goes through `starting` (paths, listener, CA), `recovering`
  (`recover_if_needed`), `enable`, `save`, `saving`, `configure`, `launch`, `serving`, `draining`
  (the stop message has come, clients still have connections), and through `restore`, `read`,
  `write`, `remove` whenever the code calls `restore`. `why[i]` is the caller `restore` returns to:
  recovery, the end of serving, the error path of `enable`, or `Drop`.
* Each registry write is a step of its own, in the code's two orders (`ConfigureOrder`,
  `RestoreOrder`). `fs::write` is two steps, truncation and contents.
* `own` is a history variable: what the user has set.
* Environment actions: `Crash` (the process dies), `UserEdits`, and failures, each of a kind in
  `Faults`; `MaxFaults` bounds how many happen in all.

`ReversibleChange.tla` is the promise: a value that may be changed only while a backup of the
original exists, and that is put back before the backup is dropped. `SystemProxy` implements it
with the registry as the value and the file as the backup.

| run | instance | shows |
|---|---|---|
| `system_proxy` | one process, users with and without a proxy, ten kinds of fault, three faults | `ChangesAreRecoverable`, `CleanStopRestores`, `ServingIsConfigured`, the refinement; under fairness `StopCompletes` and `LaterCaptureRecovers` |
| `proxy_torn_snapshot` | one crash inside `fs::write` | a truncated snapshot makes every later capture fail; `LaterCaptureRecovers` is violated |
| `proxy_two_processes` | two processes, no faults | one takes the other's snapshot for a leftover: `NothingLeftBehind` is violated |

Bounds. Three faults allow a failure, a failure while undoing it, and a crash. The two users
between them make every value occur present and absent, and equal to and different from what a
capture writes. One port is enough: the port is only a value written.

Fairness. The steps a worker takes by itself (`OwnStep`) are weakly fair: a thread and a runtime
that wait for nothing. Three steps may wait for others and are not fair: `Prepare` runs certutil,
which asks the user whether to trust the authority; `Enable`, as long as the Firefox policy is not
written, may have a helper write it that asks for elevation and is waited for; and
`GracefulShutdown` waits for the connections of clients. `StopCompletes` therefore promises that a
stop request ends the worker unless it stays in one of these three places for ever, and
`LaterCaptureRecovers` speaks of a user whose captures keep getting as far as the recovery. Crashes
and faults are never fair, and the bound on them is what makes them stop.

Modelled but left out of the passing run: a registry value that exists but cannot be read
(`"query"`: saved as absent), a delete that fails without a report (`"delete"`), and a user who
edits the settings while an interrupted capture is still to be recovered (`"staleEdit"`). In each
the code cannot know better, and the user's values are lost.

## 4. HTTP traffic

`HttpTraffic.tla` models `handle_request`, `handle_response` and `handle_error` for a set of
requests in flight and the UI thread that saves settings. One action per stretch of code between
two points at which others can act: an `await`, a lock, or an atomic counter.

* `ReadRequest` (body read), `CurrentSettings` (the clone of the settings), then `AutoRespond`,
  `Block` or `Forward`; `ReadResponse`, `Rewrite` (its own look at the settings), `Record` (the
  read lock, the test of hidden hosts), `DrawNumber`, `Publish`. `RefuseRequest`,
  `RefuseResponse` and `UpstreamFails` are the early returns; `Cancel` is a task hudsucker drops.
* The lock is `readers` plus the pending save in `wanted`; as with `parking_lot`, a waiting
  writer keeps new readers out (`MayRead`).
* Bodies are reduced to what the guard tells apart: `"plain"`, `"marker"` (found, not redacted),
  `"secret"`, `"redacted"`.
* What a client gets is `reply`. An automatic response is recorded before it is built, and building
  fails when the rule's content type, of which `validate` asks only that it is not empty, is no
  header value (`malformed` in the settings): the client then gets a 200 with a fixed text
  (`Delivered`).
* History: `sent` (what went upstream), `since` (settings in force since the body was read).

Properties: `GuardInForce` (what went upstream was allowed by settings in force since the request
was read), `RecordIsTrue` (the row shows what was transmitted and answered, except an automatic
response that could not be built), `DistinctNumbers`, `RecordedOnce` (at most one row per request,
none without its end), `HiddenStaysHidden`, and `SaveCompletes` (no deadlock of lock and handlers).

The run `http_traffic` has two requests to two hosts, one with a secret and one with a marker,
six settings that differ in everything a handler reads, and one save at any moment. Two
handlers are enough for each pairwise race; the numbering and the lock are symmetric in them.

The run `http_auto_response` has the same requests, no save, and a rule that cannot be answered
with: `MatchesGetTheRule`, what the README of the program says of a request a rule matches, is
violated.

Fairness: the steps of a handler that wait for neither client nor upstream (`HandlerStep`) are
weakly fair, and so is the pending writer: the runtime's threads run them, and they wait on
nothing but each other. A client or an upstream that never answers is allowed.

## 5. WebSocket messages

`WebSocketStream.tla` models `handle_message`, `decode_message`, `encode_message` and
`ZlibStream`. `Receive` clones the settings and decodes; `PassHidden`, `PassUnread`, `Block`,
`ForwardPiece` and `ForwardWhole` are the ways the handler returns.

A piece of a zlib stream can be read only by an inflater that has read the pieces before it. A
**window** is therefore the sequence of texts seen so far, and there are four of them: of the
sender (`source`), of the proxy's inflater (`dec`) and deflater (`enc`), and of the receiver
(`peer`). The proxy's two belong to a direction, as the map in `WebSocketTrafficHandler` does;
the others belong to a connection. An inflater without the window of a piece fails or yields some
other text.

What the one-shot decoders (`decode_binary_stateless`) make of a piece of a stream depends on how
the library treats input that stops early, which nothing in `src/` shows; `OneShot` says which
answers are possible. The passing run allows both for every piece, and the proofs hold for either;
the violation run takes the answer in the program's favour. `owner` is history: which connection's
stream the `ZlibStream` of a direction follows, or `Mixed` once anything has got it out of step (a
second connection, a hidden or blocked piece, a piece cut off, misread, or taken for a whole).

* `PeerReadsRow`: while a direction is in step, the receiver can read every message, and reads in
  it what the table shows, from whatever piece on the stream is rewritten.
* `Transparent`: however badly the proxy misreads a direction, while it has changed and blocked
  nothing there every receiver can read everything.
* `SecretsGuarded`: a secret that a rewrite rule puts into an outgoing message is caught by the
  guard.
* `ImplementsRewritingChannels`: every message is delivered once, in order, as it is or as rules
  and guard make of it; only one the guard may block is missing. A `Mixed` direction keeps order
  and number, not contents.

| run | instance | shows |
|---|---|---|
| `websocket_stream` | two connections, both directions, three messages, one save; short and overlong pieces and whole messages | the four properties above |
| `websocket_shared` | two connections with a stream each | `PeerReads` is violated: one stream breaks the other |

Three messages let a stream start, change and go on, or a second connection come in between.
There is no fairness: nothing here waits.

## 6. The window

`Workspace.tla` models the UI thread of `ui.rs` and the threads that report to it.

* A **frame** (`phase`) is the order `logic` and `ui` have: the channel is drained event by event
  (`ReceiveState`, `ReceiveOperationError`, `ReceiveRow`, with `Evict` for each row that
  `push_session` removes), then an ended worker is let go (`Reap`), then the next frame is asked
  for (`RequestFrame`), then at most one thing the user did is handled. A row removed and a row
  appended are steps of their own, but nothing of the UI thread comes in between.
* The **worker** (`worker`) is `CaptureWorker::start` and `run_capture` as far as the window sees
  them: the events in their order, the drop of the runtime, and the end of the thread after the
  last event. Replay threads send one row each. They step at any point of a frame.
* `database` is `sessions.db`, `unsaved` a history variable: the rows whose last save failed.
* An experiment's windows are kept as the code keeps them, as lengths of the table; `since` and
  `intact` are history: what was added while the window was open.

`SelectionInTable`: no eviction, clearing or import leaves a selection behind. `SavedAsShown`: a
row is on disk as shown, pin included. `EndedIsShown`: after the last event of an ended worker the
window does not show a capture under way, in whatever order error, stop and start came.
`WindowHoldsItsRows`: what an experiment compares was added while the window was open, although
the index it keeps goes stale. `PinnedRowsStay` (an action property): a pinned row is evicted only
when every row is pinned. `EventsAreNoticed` (liveness): what was sent is received.

The run `workspace` draws one of seven budgets: each is a group of operations that disturb each
other (ends of one capture against starts of the next; rows, pins, a failed save and a new limit;
windows against growth, eviction, clearing and replacement of the table). One budget for
everything is out of reach, and operations of different groups touch no common variable but the
table, whose changes each group has.

Fairness: `WF_vars(Frame)`. The UI thread carries a frame through and paints a frame that was
asked for. There is none for the worker (a client may hold its shutdown up), for a replay, or for
the user. `EventsAreNoticed` speaks of a window with the radar on: without it nothing wakes an idle
window (section 12).

## 7. Settings and rules

`SettingsSync.tla` has the copies of the settings: the window's (`settings`), `settings.json`
(`disk`), the worker's (`worker`), the `draft` a dialog edits, and the startup entry
(`registry`). Opening a dialog copies the settings; `SaveSettings`, `SaveRules`, `ToggleLearning` and
`UndoRules` put their part of the draft into the settings, validate and save, and tell the worker, in
the code's order: what is assigned before the save that may fail stays assigned (`unsaved`).
`OpenCapsule`, `StartCapture`, `Relaunch` and a failed write come at any time between two of them. What
is history: `saved` and `clean` (what the undo slot should hold), `unsaved`, `out`, and `shown` (the
check box Learn Normal when the Settings dialog was opened). Learn Normal is set in two places: the
workbench saves it at once, and the Settings dialog edits it in its draft with everything else.

`CopiesAgree`, `UndoIsLastSave`, `SelectionInRange` (the code removes the selected rule by its
index, which panics past the end) and `SavesDoNotCross` (a dialog saves a whole copy made
earlier, and must not take back what another saved: a rule dialog writes its own list; the Settings
dialog no list, and Learn Normal only when it was changed there; the workbench nothing that the
Settings dialog alone edits). `DebuggerPredicts`: the first rule the
debugger marks is the one the worker answers with.

`RuleMatching.tla` has `wildcard_matches` as the loop it is (`Step` is one turn of it), with its one
place to go back to; `Glob` is what a pattern means. `MatcherAgrees` and `MatcherTakesStars`, ASSUMEs
of `MCSettingsSync`, compare the two for all patterns of up to four characters and values of up to
five: long enough for two stars with text between and after them, where a matcher that goes back to
the last star only could miss a match. Section 11 has the proof for all lengths. A value has no `*`
of its own where the two agree (section 12), and that is what `ValuesAssumption` says of the values
the debugger is asked about.

The run `settings_sync` has three rules, one of them invalid, two capsules, one refused setting,
two edits and two saves: an edit and its failed save, then another dialog's save or an undo.

## 8. Files

`DataFiles.tla` is the directory (`at`: which file is at a path) and the files (`content`), as
several threads of several processes change them. A job (`todo[w]`) is the sequence of steps that
`BodyStore::put`, `load_or_create_ca`, `AppSettings::save` or `persist_analysis_state` takes, with
what they check at their start. `fs::write` is two steps, opening (which empties) and filling; a
thread goes on writing the file it opened although another renamed it. `Crash` ends a process with
its threads anywhere, `WriteFails` is a full disk, `Delete` a user who removes a file of the
authority.

`FilesAreWhole` is the conjunction of three: `BodiesAreWhole` (the file under a body's hash is
that body as soon as nobody has it open, though two threads share `<key>.tmp`),
`AuthorityMatches` (the key and certificate a capture works with belong together) and
`DocumentsAreWhole` (a document holds the last version put in place, and the dossiers are never
newer than the baseline). What they except is named by history variables: a write `cut` short, two
processes at once (`crowded`), two threads in `load_or_create_ca` at once (`overlapped`), a key
that was deleted (`keyless`). Without each of these exceptions TLC finds a counterexample in a few
seconds; the first three are hazards, and all four are in section 12.

The run `data_files` draws one of five budgets: two loads with two faults and three launches,
three loads, three puts, three saves, or one of each. Bodies, key pair and documents share no
path, so that what disturbs a job is another of its kind; the last budget has them together.

## 9. Investigation

`ThreatAnalysis.tla` has the findings of `analyze_http` and `analyze_websocket` with their scores,
and the histories they are taken from; `Baseline.tla` what `observe` learns and `assess` reports,
with the caps; `Investigation.tla` the sessions that are stamped with time and number by
concurrent tasks (`Stamp`) and handled in whatever order they arrive, by analysis, learning,
dossiers and `ProtocolTracker`, between starts of captures, toggles, `ClearBaseline` and
`OpenCapsule`. A session is a record of what the code tells apart, the classes it computes from
texts included.

`CountsAreEvidence`: what a finding says it counted happened (the volume and the encoded messages
of the last minute, and failures, each of which is the evidence of one fallback). `LearnedIsNormal`:
what was learned is not reported afterwards, except what a full profile had no room for.
`RepliesMatch`: a reply points to a message that went out, and no message has two. `MoreIsWorse`,
an ASSUME of `MCInvestigation`: more findings never make a lesser level.

The run `investigation` has four kinds of session over three seconds, four of them in any order or
three with two clicks. Times, caps and thresholds are small (a minute lasts a second, one path per
profile, two failures a fallback), so that every history is pruned, every cap reached and every
threshold crossed within four sessions.

## 10. Bypass radar and process identity

`BypassRadar.tla` has the system and those that ask it. The system is the TCP table (`table`, rows
of a local port, a process number, and whether the connection bypasses the proxy) and what runs
under a process number (`image`); both may change between any two steps.

* A lookup (`resolve_client`) takes the steps the code takes without a lock over them: `Miss` (the
  address cache has no young entry), `FindOwner` (`owning_pid` reads the table; the first row of the
  port counts, whatever its address and state, so any of them may), `Recall` (a young entry of the
  process cache), `OpenProcess`, `InsertPid`, `InsertPort`. `Hit` is an answer from the cache.
* A snapshot of the radar reads the table (`Snapshot`), then for one row after the other opens the
  process (`Inspect`) and takes the time (`Stamp`), on a background thread that may fail to start
  (`SpawnFails`); `Merge` in the UI thread joins it with the rows, by age and by number. `Clear`
  comes at any time.
* Each call may fail (`Reads`, `Opens`). A table that cannot be read, as when it grew between the
  two calls of `tcp_rows`, is an empty one, and the port has no owner then; a process that cannot be
  opened has no name. Both answers are cached like any other.
* `tables`, `images` and `failed` are history: the system at each time, and the calls that failed.

`ObservationsAreTrue`: for an answer, the process number had a row of the port at a time less than
`Ttl + Slack` ago, and a process of that number the name less than twice that ago; where nobody is
named there was none, or the table could not be read. For a row of the radar, the connection was
there at most `Slack` before each of its two times, and a process of its number had the name at most
`Slack` before the first. `Slack` is an assumption about the machine: how long a lookup, or the
taking of a snapshot, lasts from its first call to its last. More does not hold: one cache is filled
from the other, so `CACHE_TTL` bounds neither; and between the table and `OpenProcess` a number may
go to another process, so that the name may be of one that never had the connection.

The run `bypass_radar` has one port, two processes and four seconds (`MaxTime` 3) with a time to
live of two and a slack of one: long enough for an entry of one cache to be filled from an old entry
of the other and to grow old itself. Two changes of the system, one failing call and two lookups or
clicks may come at any step, and answers from the cache as often as there is one; two changes are
what it takes to put another process under a number with a connection of its own. Rows compete for a
table of one.

## 11. Proofs

Every property that a passing run checks is also a theorem, for every value of the constants,
except the four that say that something happens at last. Of each of those the part that needs no
fairness is a theorem (below, "What is left to TLC").

`SystemProxyProofs.tla` proves, for every set of user settings, ports, values and number of
faults, in two groups:

* For any number of processes and every kind of fault: type correctness; `WorkersEnd`, which gives
  every point of a worker a number of steps that are left to it (`StepsLeft`, at most 62) and shows
  that every step of the worker lowers it and that nothing raises it while the worker runs; and
  `RecoveryIsCarriedThrough`: a worker that found a snapshot goes on only when it is gone or
  unreadable, or a call has failed.
* Under assumption `Quiet` (one process, and none of the three kinds of fault named in section 3;
  each has a counterexample): `ChangesAreRecoverable`, `CleanStopRestores`, `ServingIsConfigured`
  and the refinement. The inductive invariant says, at every point of the worker, how much of the
  registry has been written, and that from the moment the snapshot is complete until it is removed
  it holds the user's values; without the part about the values already written (`k < step[i]`),
  removing the snapshot could not be shown to be safe.

`HttpTrafficProofs.tla` proves, for any number of requests, hosts, settings and saves, type
correctness, `GuardInForce`, `RecordIsTrue`, `DistinctNumbers`, `RecordedOnce` and
`HiddenStaysHidden`, rules that cannot be answered with included. The inductive invariant adds: the
clone a handler decides by was in force since the body was read (`GuardInv`); what it is going to
record agrees with what it has sent, and who has recorded is done (`RecordInv`); numbers drawn are below the counter and pairwise different, also
from those published (`NumberInv`); between the test of hidden hosts and the send the handler
holds the read lock (`HiddenInv`), which is why a save cannot come in between; and no two exchanges
on the channel are of one request (`OnceInv`). `WriterIsNext` shows that a save that waits for the
lock waits for a number of handlers that only falls, each with its number or its send before it and
none waiting for the lock itself.

`WebSocketStreamProofs.tla` proves, for any set of connections, texts, rules and settings, any
number of pieces, and whatever the one-shot decoders take and however long a text is, type
correctness, `PeerReadsRow`, `Transparent`, `SecretsGuarded` and the refinement of
`RewritingChannels`. It assumes nothing beyond the ASSUMEs of the modules. The inductive invariant
relates the four windows of a stream: while a direction is in step with one connection, the proxy
inflates with that sender's window and the receiver with the proxy's own, which is the sender's
until a piece is changed (`OwnerInv`); every other connection of the direction has had its pieces
passed on as they came (`OtherInv`); a handler that has read its piece of such a stream has read
it right (`HandlerInv`); and a direction in which nothing was changed or blocked has never started
to re-encode (`UntouchedInv`, without which `Transparent` is not inductive). Where a second
connection or a one-shot decoder takes a piece of the stream the direction is `Mixed`, and the
promise is only that order and number of the messages are kept; the violation run of section 5
shows that with a second connection nothing better holds.

`WorkspaceProofs.tla` proves, for any capacity, any number of rows, replays and captures and
whatever fails, type correctness, `SelectionInTable`, `SavedAsShown`, `EndedIsShown`,
`WindowHoldsItsRows` and `PinnedRowsStay`. The inductive invariant adds that ids are handed out
once, to rows of the table and of the channel (`IdInv`, without which a replaced row could be
taken for another's record), what the channel may still hold at each point of the worker's life
(`SettledInv`: the last event of a worker that was told to stop or failed is one that leaves
"Starting" and "Capturing"), and that the rows at and behind an open window's index were added
since (`OpenInv`). `AnotherFrame` shows, by an invariant of its own (`Awake`), that no frame ends
without another asked for while a worker runs or the radar is on.

`SettingsSyncProofs.tla` proves, for any rules, presets, capsules and numbers of operations, type
correctness, `CopiesAgree`, `UndoIsLastSave`, `SelectionInRange`, `SavesDoNotCross` and
`DebuggerPredicts`. It adds that a draft differs from the settings only in what its own dialog
edits, unless the settings themselves changed by a failed save (`DraftInv`): in the Settings dialog
the draft has the settings' rules, and `shown` is the settings' Learn Normal, the dialog's own may
differ.

The matcher is proved for patterns and values of every length. `MatcherAcceptsNoMore`: whatever
`wildcard_matches` accepts the pattern stands for; at every turn of the loop what was read of the
pattern stands for what was read of the value, and what was read up to the last star for what was
read when the value was taken up. `MatcherIsExact`: with no `*` in the value the converse holds,
though the loop goes back to the last star alone. Take any way to read the value, that is, the places
in the value at which the characters of the pattern begin; then the loop is never past it (`Behind`):
at the last star it has taken the value up no later than that way does, and whenever it meets
something else it has a star to go back to. The loop ends because each turn lowers a ranking that
`Steps` bounds (`RunEnds`). The first result assumes nothing of the value; in the second the
assumption cannot go (section 12). `DebuggerIsRight` rests on the second.

`BypassRadarProofs.tla` proves, for any ports, processes, tasks and times, any number of changes and
failing calls, type correctness and `ObservationsAreTrue`. The histories only grow, and ages add up:
what a lookup has found at one of its calls was so since it began (`TaskTrue`, by stage), an entry
of the process cache is at most a lookup old when it is made (`PidTrue`), an entry of the address
cache at most that, the age of the first and a lookup (`PortTrue`). Of a snapshot, what is still to
be done is from the time its table was read (`TodoInv`) and what is done is true, each row for
itself (`DoneInv`); that no row on the screen is later than the table being worked through
(`RowInv`) is what keeps the first time of a row before its last when they are merged.

`InvestigationProofs.tla` proves, for any sessions, thresholds and caps, type correctness,
`LearnedIsNormal`, `RepliesMatch` and `CountsAreEvidence`. `LearnInv` says of each kind of thing
learned that its profile holds it or is full; `PairInv` that the answers to a number and the request
that still waits under it are no more than the requests that went out with it; `BlameInv` that
failures kept and failures reported add up to no more than failures seen. `CountsInv` says of the
histories of volume and of encoded messages that they mirror the sessions (`Mirrors`): their entries
are different sessions of the kind, in the order of arrival; a session that is missing is more than a
minute older than another of the kind; and if the sessions arrived in the order of their times, none
that is kept is. That gives the count at least the sessions of the last minute, and exactly these if
they arrived in order. `MoreIsWorseAlways` is `MoreIsWorse` for
every set of findings: a score is the sum of its weights, and a sum over more is not less.

`DataFilesProofs.tla` proves, for any processes, threads, bodies, numbers of writes and operations,
type correctness (no two names are of one file) and `FilesAreWhole`. `JobInv` says that what a
thread has left to do is the rest of a job of this code, in its order (a file is emptied, filled,
then renamed; baselines before dossiers; key, PEM, DER, then the three reads); `OpenInv` that a file
a thread has open is under no name but the one it writes, even after another thread renamed it;
`ContentInv` that a short body is still open somewhere unless a write was cut. For the key pair,
`LoadInv` follows one load step by step: it writes because a file was missing, so that key and
certificate never stand next to each other in different generations, at whatever step it is
interrupted. For the documents, `DocInv` says what is under the temporary name when the rename
comes, and that nothing on disk is newer than what the process knows. The three exceptions named in
the property (`cut`, `overlapped` and `keyless`, `crowded`) are assumptions of these parts, each
where it is needed.

### Induction

The library states induction with an operator parameter, which no installed prover instantiates. The
loop of the matcher, the pruning of a history and the sums over it are proved by the same principle
said of sets: a set of natural numbers that holds 0 and with every number the next is all of them
(`AllNumbers`, from `WFMin` and `NatLessThanWellFounded`). What is proved by it is put as the set of
the numbers for which it holds. Where a definition is a recursive function, or one of the community
modules' folds, such a set first shows that there is a function that satisfies its equation
(`SumExists`), then that two of them agree (`SumsAgree`), and then what it yields.

### What is left to TLC

* Liveness: `StopCompletes`, `LaterCaptureRecovers`, `SaveCompletes` and `EventsAreNoticed`. That a
  step that stays enabled is taken at last is reasoning about ENABLED and fairness, which the prover
  does not do. What makes the four true without it are the theorems `WorkersEnd`,
  `RecoveryIsCarriedThrough`, `WriterIsNext` and `AnotherFrame`: a measure that falls with every
  step, and no step that waits for what it holds up. What waits for a user or a client is fair in
  none of them.
* The runs that expect a violation: what they check is false.
* `SystemProxy` with several processes or with the faults `Quiet` excludes: beyond the first group of
  theorems the properties do not hold there.

## 12. Findings

With a run:

* A snapshot truncated by a crash blocks every later capture (`proxy_torn_snapshot`).
* Two processes undo each other's proxy settings (`proxy_two_processes`).
* Two WebSocket connections break each other's rewritten streams (`websocket_shared`).
* A rule with a content type that is no header value passes validation; the client gets a 200 with
  a fixed text while the row shows the rule's answer (`http_auto_response`).

Without a run, each an exception a property names or a hazard no property covers; `PROJECT.json`
has them with their lines:

* Traffic: the Firefox policy keys are never restored; a `*` of a pattern that meets a literal `*`
  is no wildcard; pieces that inflate to more than the buffer are cut off; a blocked piece makes
  the original pieces after it unreadable; a rewritten Close message is sent as text; the reply to
  a request is paired with a later one that was blocked.
* Settings: rules a save refused stay in force in the window and are stored by a later save
  (`unsaved`); the undo slot is filled before the save that may fail (`clean`); a capsule's rules
  are taken before they are validated; the debugger marks every rule that applies, on the original
  text, and splits rule names at commas.
* Window: events of the last capture land in the table of the next; "Stopping" may stay for good;
  an idle window does not notice what is sent; a replayed request gets a number the worker uses
  again; what arrives while the program ends is not saved; an experiment's window misses its own
  rows once rows were evicted (`intact`).
* Analysis: histories are pruned at the front while sessions arrive out of order, so that "the last
  minute" may be longer (`InOrder`); a full profile reports the same thing as new for ever (`Full`).
* Files: two loads at once may leave a key without its certificate (`overlapped`), and so does an
  interrupted repair when the key alone was missing (`keyless`); two processes overwrite each
  other's documents (`crowded`); a body cut short stays under its final name if it was
  renamed by another thread that shares the temporary file (`cut`).

## 13. Not modelled

* egui's painting and layout, the filter box, the inspector, texts of findings and reports,
  exports (HAR, cURL), the comparison of two experiment windows, investigation reports: stateless
  conversions of what the other modules have.
* Encryption, compression and sanitizing of capsules; key generation; the trust store's command.
  What a capsule takes and replaces is in `Workspace`, `SettingsSync` and `Investigation`.
* Host lookups (DNS, RDAP) and protobuf descriptors: one request, one result, put where it belongs
  by its name.
* The regular expressions that recognise secrets and that a `re:` rule has: what they find is a
  class of the text.
* The Windows broadcast of a settings change, the elevated helper, build and release scripts.
