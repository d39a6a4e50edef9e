------------------------------ MODULE Workspace ------------------------------
(***************************************************************************)
(* The window of the program (ui.rs): its frames, the table of sessions,   *)
(* and the threads that report to it.                                      *)
(*                                                                         *)
(* The UI thread works in frames.  A frame first drains the channel the    *)
(* capture worker and the replay threads send to, then looks whether the   *)
(* worker has ended, then decides whether to ask for another frame, and    *)
(* last handles at most one thing the user did.  Other threads send        *)
(* between any two of these steps.                                         *)
(***************************************************************************)
EXTENDS Naturals, Sequences, FiniteSets

CONSTANTS
    Samples,        \* rows the table shows when the program starts
    Limits,         \* the values of max_session_count the user may save
    Budgets         \* bound: how much of each operation a behaviour may have

Operations == {"captures", "traffic", "faults", "replays", "pins", "windows", "capsules", "limits"}

ASSUME SamplesAssumption == Samples \in Nat
ASSUME LimitsAssumption == Limits \subseteq Nat \ {0} /\ Limits # {}
ASSUME BudgetsAssumption == Budgets \subseteq [Operations -> Nat]

VARIABLES
    phase,      \* where the UI thread stands in its frame
    repaint,    \* whether another frame has been asked for
    radar,      \* bypass_radar_enabled: an idle window asks for a frame all the same
    auto,       \* auto_connect_pending
    state,      \* the state the window shows
    worker,     \* the capture worker the window holds, and where its thread stands
    stop,       \* whether the worker has been told to stop
    replaying,  \* replay threads under way
    channel,    \* the events sent and not yet received
    made,       \* ids handed out to rows so far
    sessions,   \* the table, oldest row first
    selected,   \* the selected row: a set of one id or none
    limit,      \* max_session_count
    database,   \* what sessions.db holds of each exchange
    unsaved,    \* history: rows whose last change did not reach the database
    capsule,    \* the rows of the capsule file
    window,     \* the two windows of an experiment, see Windows
    left        \* bound: what is left of the budget

ui == <<phase, repaint, radar, auto, state>>
threads == <<worker, stop, replaying>>
table == <<sessions, selected, limit, database, unsaved, capsule>>
vars == <<ui, threads, channel, made, table, window, left>>

Phases == {"idle", "drain", "evict", "reap", "request", "input", "exiting", "closed"}
States == {"Idle", "Starting", "Capturing", "Stopping", "Failed"}
Workers == {"none", "spawned", "preparing", "serving", "closing", "failing", "returning",
            "finished"}
Row == [id : Nat, ws : BOOLEAN, pinned : BOOLEAN]
StateEvents == {"starting", "started", "stopped", "error"}
RowEvents == {"captured", "replayed"}
Event == [kind : StateEvents \cup RowEvents \cup {"operation error"}, id : Nat, ws : BOOLEAN]
\* start: the length of the table when the window was opened, {} when it is closed;
\* picked: the rows the closed window holds; since and intact are history: the rows added
\* while it was open, and whether the table only grew meanwhile.
Window == [start : SUBSET Nat, picked : SUBSET Nat, since : SUBSET Nat, intact : BOOLEAN]
Windows == {"before", "after"}

Ids(rows) == {rows[i].id : i \in DOMAIN rows}
Plain(kind) == [kind |-> kind, id |-> 0, ws |-> FALSE]
NewRow(id, ws) == [id |-> id, ws |-> ws, pinned |-> FALSE]
Remove(rows, p) == [i \in 1..Len(rows) - 1 |-> IF i < p THEN rows[i] ELSE rows[i + 1]]
Running == worker \notin {"none", "finished"}

TypeOK ==
    /\ phase \in Phases /\ state \in States /\ worker \in Workers
    /\ repaint \in BOOLEAN /\ radar \in BOOLEAN /\ auto \in BOOLEAN /\ stop \in BOOLEAN
    /\ replaying \in Nat /\ made \in Nat /\ limit \in Limits
    /\ channel \in Seq(Event)
    /\ sessions \in Seq(Row) /\ capsule \in Seq(Row)
    /\ selected \subseteq Nat /\ unsaved \subseteq Nat
    /\ database \subseteq [id : Nat, pinned : BOOLEAN]
    /\ window \in [Windows -> Window]
    /\ left \in [Operations -> Nat]

Init ==
    /\ phase = "idle" /\ repaint = TRUE /\ radar \in BOOLEAN /\ auto \in BOOLEAN
    /\ state = "Idle" /\ worker = "none" /\ stop = FALSE /\ replaying = 0
    /\ channel = <<>> /\ made = Samples
    /\ sessions = [i \in 1..Samples |-> NewRow(i, FALSE)]
    /\ selected = {} /\ limit \in Limits
    /\ database = {} /\ unsaved = 1..Samples /\ capsule = sessions
    /\ window = [w \in Windows |-> [start |-> {}, picked |-> {}, since |-> {}, intact |-> TRUE]]
    /\ left \in Budgets

Spend(operation) ==
    /\ left[operation] > 0
    /\ left' = [left EXCEPT ![operation] = @ - 1]
Send(event) == channel' = Append(channel, event)

----------------------------------------------------------------------------
(* The worker's thread, and the tasks of its runtime. *)

WorkerStep(from, to) == worker = from /\ worker' = to

Announce ==
    /\ WorkerStep("spawned", "preparing")
    /\ Send(Plain("starting"))
    /\ UNCHANGED <<ui, stop, replaying, made, table, window, left>>

\* A port in use, a CA that cannot be written, a registry value that cannot be set.
PreparationFails ==
    /\ WorkerStep("preparing", "returning")
    /\ Send(Plain("error"))
    /\ UNCHANGED <<ui, stop, replaying, made, table, window, left>>

Serve ==
    /\ WorkerStep("preparing", "serving")
    /\ Send(Plain("started"))
    /\ UNCHANGED <<ui, stop, replaying, made, table, window, left>>

\* The tasks run until the runtime is dropped, which is after Stopped was sent.
TasksRun == worker \in {"serving", "closing", "failing"}

Capture ==
    /\ TasksRun /\ Spend("traffic")
    /\ made' = made + 1
    /\ \E ws \in BOOLEAN : Send([kind |-> "captured", id |-> made + 1, ws |-> ws])
    /\ UNCHANGED <<ui, threads, table, window>>

\* A handler that cannot decode a body reports it as an Error of the capture.
HandlerFails ==
    /\ TasksRun /\ Spend("faults")
    /\ Send(Plain("error"))
    /\ UNCHANGED <<ui, threads, made, table, window>>

StopsAsAsked ==
    /\ stop /\ WorkerStep("serving", "closing")
    /\ Send(Plain("stopped"))
    /\ UNCHANGED <<ui, stop, replaying, made, table, window, left>>

\* The proxy ended by itself: Stopped is sent, and Error once the runtime is gone.
ProxyFails ==
    /\ Spend("faults") /\ WorkerStep("serving", "failing")
    /\ Send(Plain("stopped"))
    /\ UNCHANGED <<ui, stop, replaying, made, table, window>>

\* restore() failed: the function returns before it sends Stopped.
RestoreFails ==
    /\ stop /\ Spend("faults") /\ WorkerStep("serving", "failing")
    /\ UNCHANGED <<ui, stop, replaying, channel, made, table, window>>

\* Mutant: the error of a failed restore is not reported.
DropRuntimeSilently ==
    /\ \E from \in {"closing", "failing"} : WorkerStep(from, "returning")
    /\ UNCHANGED <<ui, stop, replaying, channel, made, table, window, left>>

DropRuntime ==
    /\ \/ WorkerStep("closing", "returning") /\ UNCHANGED channel
       \/ WorkerStep("failing", "returning") /\ Send(Plain("error"))
    /\ UNCHANGED <<ui, stop, replaying, made, table, window, left>>

Return ==
    /\ WorkerStep("returning", "finished")
    /\ UNCHANGED <<ui, stop, replaying, channel, made, table, window, left>>

ReplayReturns ==
    /\ phase # "closed" /\ replaying > 0 /\ replaying' = replaying - 1
    /\ \/ /\ made' = made + 1
          /\ Send([kind |-> "replayed", id |-> made + 1, ws |-> FALSE])
       \/ Send(Plain("operation error")) /\ UNCHANGED made
    /\ UNCHANGED <<ui, worker, stop, table, window, left>>

----------------------------------------------------------------------------
(* logic(): start if asked to, drain, reap, ask for another frame. *)

\* start_capture, when no worker runs; the thread may fail to start.
StartCapture ==
    /\ ~Running
    /\ sessions' = <<>> /\ selected' = {}
    /\ window' = [w \in Windows |-> [window[w] EXCEPT !.intact = @ /\ window[w].start = {}]]
    /\ \/ worker' = "spawned" /\ stop' = FALSE /\ state' = "Starting"
       \/ state' = "Failed" /\ UNCHANGED <<worker, stop>>
    /\ UNCHANGED <<replaying, channel, made, limit, database, unsaved, capsule>>

\* The first frame.
AutoConnect ==
    /\ phase = "idle" /\ auto
    /\ StartCapture
    /\ phase' = "drain" /\ auto' = FALSE /\ repaint' = FALSE
    /\ UNCHANGED <<radar, left>>

BeginFrame ==
    /\ phase = "idle" /\ ~auto
    /\ phase' = "drain" /\ repaint' = FALSE
    /\ UNCHANGED <<radar, auto, state, threads, channel, made, table, window, left>>

Repaint == repaint /\ BeginFrame
MoveMouse == ~repaint /\ BeginFrame

Receive == phase = "drain" /\ channel # <<>> /\ channel' = Tail(channel)

\* Mutant, and what the window makes of an event.
ShownAsSent == [kind \in StateEvents |-> kind]
ShownAs == [kind \in StateEvents |->
    CASE kind = "starting" -> "Starting"
      [] kind = "started" -> "Capturing"
      [] kind = "stopped" -> "Idle"
      [] OTHER -> "Failed"]

ReceiveState ==
    /\ Receive /\ Head(channel).kind \in StateEvents
    /\ state' = ShownAs[Head(channel).kind]
    /\ UNCHANGED <<phase, repaint, radar, auto, threads, made, table, window, left>>

ReceiveOperationError ==
    /\ Receive /\ Head(channel).kind = "operation error"
    /\ UNCHANGED <<ui, threads, made, table, window, left>>

\* add_exchange replaces the record of the id; it may fail.
Save(row, budget) ==
    \/ /\ database' = {r \in database : r.id # row.id} \cup {[id |-> row.id, pinned |-> row.pinned]}
       /\ unsaved' = unsaved \ {row.id}
       /\ left' = budget
    \/ /\ budget["faults"] > 0 /\ left' = [budget EXCEPT !["faults"] = @ - 1]
       /\ unsaved' = unsaved \cup {row.id} /\ UNCHANGED database

\* A replay is selected before it is pushed. A WebSocket message is not stored.
ReceiveRow ==
    /\ Receive /\ Head(channel).kind \in RowEvents
    /\ LET event == Head(channel)
           row == NewRow(event.id, event.ws)
       IN /\ sessions' = Append(sessions, row)
          /\ selected' = IF event.kind = "replayed" THEN {row.id} ELSE selected
          /\ IF row.ws THEN UNCHANGED <<database, unsaved, left>> ELSE Save(row, left)
          /\ window' = [w \in Windows |-> IF window[w].start = {} THEN window[w]
                          ELSE [window[w] EXCEPT !.since = @ \cup {row.id}]]
    /\ phase' = "evict"
    /\ UNCHANGED <<repaint, radar, auto, state, threads, made, limit, capsule>>

\* Every row but a pinned exchange may go.
Removable(row) == row.ws \/ ~row.pinned
\* Mutant: the oldest row goes, pinned or not.
OldestOfAll(p) == p = 1
Oldest(p) == \/ Removable(sessions[p]) /\ \A q \in 1..p - 1 : ~Removable(sessions[q])
             \/ p = 1 /\ \A q \in DOMAIN sessions : ~Removable(sessions[q])

\* Mutant: the selection is not looked at.
EvictOnly ==
    /\ phase = "evict" /\ Len(sessions) > limit
    /\ \E p \in DOMAIN sessions : Oldest(p) /\ sessions' = Remove(sessions, p)
    /\ window' = [w \in Windows |-> [window[w] EXCEPT !.intact = @ /\ window[w].start = {}]]
    /\ UNCHANGED <<ui, threads, channel, made, selected, limit, database, unsaved, capsule, left>>

Evict ==
    /\ phase = "evict" /\ Len(sessions) > limit
    /\ \E p \in DOMAIN sessions :
          /\ Oldest(p)
          /\ sessions' = Remove(sessions, p)
          /\ selected' = selected \ {sessions[p].id}
    /\ window' = [w \in Windows |-> [window[w] EXCEPT !.intact = @ /\ window[w].start = {}]]
    /\ UNCHANGED <<ui, threads, channel, made, limit, database, unsaved, capsule, left>>

Pushed ==
    /\ phase = "evict" /\ Len(sessions) <= limit
    /\ phase' = "drain"
    /\ UNCHANGED <<repaint, radar, auto, state, threads, channel, made, table, window, left>>

Drained ==
    /\ phase = "drain" /\ channel = <<>>
    /\ phase' = "reap"
    /\ UNCHANGED <<repaint, radar, auto, state, threads, channel, made, table, window, left>>

Reap ==
    /\ phase = "reap"
    /\ worker' = IF worker = "finished" THEN "none" ELSE worker
    /\ phase' = "request"
    /\ UNCHANGED <<repaint, radar, auto, state, stop, replaying, channel, made, table, window,
                   left>>

\* Mutant: a frame is asked for only while a worker runs.
RequestFrameOfWorker ==
    /\ phase = "request"
    /\ repaint' = Running
    /\ phase' = "input"
    /\ UNCHANGED <<radar, auto, state, threads, channel, made, table, window, left>>

RequestFrame ==
    /\ phase = "request"
    /\ repaint' = (Running \/ radar)
    /\ phase' = "input"
    /\ UNCHANGED <<radar, auto, state, threads, channel, made, table, window, left>>

EndFrame ==
    /\ phase = "input" /\ phase' = "idle"
    /\ UNCHANGED <<repaint, radar, auto, state, threads, channel, made, table, window, left>>

----------------------------------------------------------------------------
(* What the user does.  egui paints one more frame after one with input. *)

Handle == phase = "input" /\ phase' = "idle" /\ repaint' = TRUE /\ UNCHANGED <<radar, auto>>

ClickStart ==
    /\ Handle /\ Spend("captures")
    /\ StartCapture

ClickStop ==
    /\ Handle /\ Running
    /\ state' = "Stopping" /\ stop' = TRUE
    /\ UNCHANGED <<worker, replaying, channel, made, table, window, left>>

ClickRow ==
    /\ Handle
    /\ \E p \in DOMAIN sessions : selected' = {sessions[p].id}
    /\ UNCHANGED <<state, threads, channel, made, sessions, limit, database, unsaved, capsule,
                   window, left>>

Replay ==
    /\ Handle /\ Spend("replays")
    /\ \E p \in DOMAIN sessions : sessions[p].id \in selected /\ ~sessions[p].ws
    /\ \/ replaying' = replaying + 1 /\ UNCHANGED channel
       \/ Send(Plain("operation error")) /\ UNCHANGED replaying
    /\ UNCHANGED <<state, worker, stop, made, table, window>>

\* Mutant: the pin is not saved.
TogglePinOnly ==
    /\ Handle /\ Spend("pins")
    /\ \E p \in DOMAIN sessions :
          ~sessions[p].ws /\ sessions' = [sessions EXCEPT ![p].pinned = ~@]
    /\ UNCHANGED <<state, threads, channel, made, selected, limit, database, unsaved, capsule,
                   window>>

TogglePin ==
    /\ Handle /\ left["pins"] > 0
    /\ \E p \in DOMAIN sessions :
          LET row == [sessions[p] EXCEPT !.pinned = ~@]
          IN /\ ~row.ws
             /\ sessions' = [sessions EXCEPT ![p] = row]
             /\ Save(row, [left EXCEPT !["pins"] = @ - 1])
    /\ UNCHANGED <<state, threads, channel, made, selected, limit, capsule, window>>

SaveLimit ==
    /\ Handle /\ Spend("limits")
    /\ limit' \in Limits
    /\ UNCHANGED <<state, threads, channel, made, sessions, selected, database, unsaved, capsule,
                   window>>

ExportCapsule ==
    /\ Handle /\ Spend("capsules")
    /\ capsule' = sessions
    /\ UNCHANGED <<state, threads, channel, made, sessions, selected, limit, database, unsaved,
                   window>>

\* The rows of the capsule replace the table, whatever the limit; none is stored.
OpenCapsule ==
    /\ Handle /\ Spend("capsules")
    /\ sessions' = capsule
    /\ selected' = IF capsule = <<>> THEN {} ELSE {capsule[1].id}
    /\ unsaved' = unsaved \cup Ids(capsule)
    /\ window' = [w \in Windows |-> IF window[w].start = {} THEN window[w]
                    ELSE [window[w] EXCEPT !.intact = FALSE, !.since = @ \cup Ids(capsule)]]
    /\ UNCHANGED <<state, threads, channel, made, limit, database, capsule>>

Opened == [start |-> {Len(sessions)}, picked |-> {}, since |-> {}, intact |-> TRUE]
\* Mutant: off by one.
FromIncluding(n) == {sessions[i].id : i \in {j \in DOMAIN sessions : j >= n}}
From(n) == {sessions[i].id : i \in {j \in DOMAIN sessions : j > n}}
Closed(w) == [w EXCEPT !.start = {}, !.picked = UNION {From(n) : n \in w.start}]

StartWindow(w) ==
    /\ Handle /\ Spend("windows")
    /\ w = "after" => window["before"].picked # {}
    /\ window' = [window EXCEPT ![w] = Opened]
    /\ UNCHANGED <<state, threads, channel, made, table>>

EndWindow(w) ==
    /\ Handle /\ window[w].start # {}
    /\ window' = [window EXCEPT ![w] = Closed(@)]
    /\ UNCHANGED <<state, threads, channel, made, table, left>>

\* on_exit: what the worker sends from here on is received by nobody.
Exit ==
    /\ phase = "input"
    /\ phase' = "exiting" /\ stop' = TRUE
    /\ UNCHANGED <<repaint, radar, auto, state, worker, replaying, channel, made, table, window,
                   left>>

JoinWorker ==
    /\ phase = "exiting" /\ ~Running
    /\ phase' = "closed"
    /\ UNCHANGED <<repaint, radar, auto, state, threads, channel, made, table, window, left>>

----------------------------------------------------------------------------

WorkerThread == \/ Announce \/ Serve \/ StopsAsAsked \/ DropRuntime \/ Return
                \/ PreparationFails \/ ProxyFails \/ RestoreFails \/ Capture \/ HandlerFails

Frame == \/ AutoConnect \/ Repaint \/ ReceiveState \/ ReceiveOperationError \/ ReceiveRow
         \/ Evict \/ Pushed \/ Drained \/ Reap \/ RequestFrame \/ EndFrame \/ JoinWorker

User == \/ MoveMouse \/ ClickStart \/ ClickStop \/ ClickRow \/ Replay \/ TogglePin \/ SaveLimit
        \/ ExportCapsule \/ OpenCapsule \/ Exit
        \/ \E w \in Windows : StartWindow(w) \/ EndWindow(w)

Next == WorkerThread \/ ReplayReturns \/ Frame \/ User

\* The UI thread carries a frame through, and a frame asked for is painted.  No fairness of the
\* worker (a client may hold its shutdown up), of a replay, or of the user.
Spec == Init /\ [][Next]_vars /\ WF_vars(Frame)

----------------------------------------------------------------------------

\* What is selected is in the table: no eviction, clearing or import leaves a selection behind
\* that the inspector, Replay and the rule debugger would look up in vain (push_session,
\* start_capture, open_capsule).
SelectionInTable == selected \subseteq Ids(sessions)

\* An exchange in the table is in sessions.db as it is shown, pin included, and once, unless the
\* last save of it failed or it came from a sample or a capsule (poll_events, session_table).
SavedAsShown ==
    /\ \A r, s \in database : r.id = s.id => r = s
    /\ \A i \in DOMAIN sessions :
          LET row == sessions[i]
          IN row.ws \/ row.id \in unsaved \/ [id |-> row.id, pinned |-> row.pinned] \in database

\* Once the worker has ended and its last event was received, the window does not show a capture
\* under way, whatever the order of an error, a stop and a new start (poll_events against
\* start_capture and the worker's thread).
EndedIsShown ==
    (~Running /\ channel = <<>>) => state \notin {"Starting", "Capturing"}

\* The rows an experiment compares were added while its window was open, although the window is
\* kept as an index into a table that is evicted from, cleared and replaced meanwhile; and they
\* are all of these rows when the table only grew (workbench_experiments).
WindowHoldsItsRows ==
    \A w \in Windows :
        /\ window[w].picked \subseteq window[w].since
        /\ (window[w].start = {} /\ window[w].intact) => window[w].picked = window[w].since

Pinned == {sessions[i].id : i \in {j \in DOMAIN sessions : ~Removable(sessions[j])}}

\* The limit of the table costs a pinned exchange its row only when every row is pinned; and a
\* pinned row is otherwise lost to a new capture or a capsule alone (push_session).
PinnedRowsStay ==
    [][\A id \in Pinned :
          \/ id \in Ids(sessions')
          \/ Len(sessions) > limit /\ Pinned = Ids(sessions) /\ Len(sessions') = Len(sessions) - 1
          \/ worker' = "spawned" \/ state' = "Failed" \/ sessions' = capsule]_sessions

\* With the radar on, what was sent is received, and an ended worker is let go, although no
\* thread wakes the window: a frame is asked for by the frame before (logic).
EventsAreNoticed ==
    /\ (radar /\ channel # <<>>) ~> (channel = <<>> \/ phase \in {"exiting", "closed"})
    /\ (radar /\ worker = "finished") ~> (worker # "finished" \/ phase \in {"exiting", "closed"})

=============================================================================
