----------------------------- MODULE SystemProxy -----------------------------
(***************************************************************************)
(* The reversible system-proxy configuration of a capture.                 *)
(*                                                                         *)
(* A capture worker (run_capture in capture.rs) owns a WindowsProxyManager *)
(* (windows_proxy.rs): it first undoes what an interrupted capture left    *)
(* behind, saves the user's five WinINET values in proxy-restore.json,     *)
(* overwrites them one by one, serves, and puts them back.  Every registry *)
(* write, the two halves of the snapshot's fs::write, and every early      *)
(* return is a step of its own, so that the process may die, a call may    *)
(* fail, or another process of the same application may run, between any   *)
(* two of them.                                                            *)
(***************************************************************************)
EXTENDS Naturals

CONSTANTS
    Instances,      \* processes of the application, sharing registry and data directory
    Ports,          \* ports a capture may be configured to listen on
    NoPort,         \* a worker that holds no listener
    Values,         \* what a registry value may hold, Absent included
    Absent,         \* the registry value does not exist
    UserSettings,   \* the settings a user may choose: functions from Names to Values
    NoFile, Torn,   \* proxy-restore.json is missing; is empty or cut short
    Faults,         \* the kinds of failure the environment may inject
    MaxFaults       \* bound: how many of them one behaviour has

Names == {"ProxyEnable", "ProxyServer", "ProxyOverride", "AutoConfigURL", "AutoDetect"}
Settings == [Names -> Values]

\* The order in which enable() overwrites the values and restore_snapshot() writes them back.
ConfigureOrder == <<"ProxyEnable", "ProxyServer", "ProxyOverride", "AutoDetect", "AutoConfigURL">>
RestoreOrder == <<"ProxyEnable", "ProxyServer", "ProxyOverride", "AutoConfigURL", "AutoDetect">>

\* Both write this many values (and two mutants of that).
LastStepTooFar == 6
LastStepTooEarly == 4
LastStep == 5

\* What the configure closure of enable() writes for a listener on port p.
Captured(p) == [n \in Names |->
    CASE n = "ProxyEnable" -> "on"
      [] n = "ProxyServer" -> p
      [] n = "ProxyOverride" -> "<local>"
      [] n = "AutoDetect" -> "off"
      [] n = "AutoConfigURL" -> Absent]

ASSUME ValuesAssumption ==
    /\ {"on", "off", "<local>", Absent} \cup Ports \subseteq Values
    /\ UserSettings \subseteq Settings
    /\ UserSettings # {}
ASSUME FileAssumption == NoFile # Torn /\ NoFile \notin Settings /\ Torn \notin Settings
ASSUME PortAssumption == NoPort \notin Ports
ASSUME FaultAssumption == MaxFaults \in Nat

VARIABLES
    reg,        \* the five WinINET values in the registry
    own,        \* history: the values the user last chose
    file,       \* proxy-restore.json: NoFile, Torn, or the settings it holds
    firefox,    \* the Firefox policy keys: the user's, or the application's
    pc,         \* where each instance's capture worker stands
    why,        \* who called restore(): recover, undo, stop or drop
    auto,       \* the worker's copy of auto_configure_system_proxy
    port,       \* the listener the worker holds
    active,     \* WindowsProxyManager.active
    mem,        \* the ProxySnapshot in the worker's memory
    step,       \* index of the next value to write
    stop,       \* the oneshot stop message was sent
    verdict,    \* the last outcome the worker reported to the UI
    faults      \* faults injected so far

worker == <<pc, why, auto, port, active, mem, step, stop, verdict>>
vars == <<reg, own, file, firefox, worker, faults>>

Labels == {"idle", "starting", "recovering", "restore", "read", "write", "remove",
           "enable", "save", "saving", "configure", "launch", "serving", "draining"}
Callers == {"recover", "undo", "stop", "drop"}

TypeOK ==
    /\ reg \in Settings
    /\ own \in Settings
    /\ file \in Settings \cup {NoFile, Torn}
    /\ firefox \in {"user", "app"}
    /\ pc \in [Instances -> Labels]
    /\ why \in [Instances -> Callers]
    /\ auto \in [Instances -> BOOLEAN]
    /\ port \in [Instances -> Ports \cup {NoPort}]
    /\ active \in [Instances -> BOOLEAN]
    /\ mem \in [Instances -> Settings]
    /\ step \in [Instances -> 1..5]
    /\ stop \in [Instances -> BOOLEAN]
    /\ verdict \in [Instances -> {"none", "stopped", "error"}]
    /\ faults \in Nat

Init ==
    /\ reg \in UserSettings
    /\ own = reg
    /\ file = NoFile
    /\ firefox = "user"
    /\ pc = [i \in Instances |-> "idle"]
    /\ why = [i \in Instances |-> "recover"]
    /\ auto = [i \in Instances |-> FALSE]
    /\ port = [i \in Instances |-> NoPort]
    /\ active = [i \in Instances |-> FALSE]
    /\ mem = [i \in Instances |-> reg]
    /\ step = [i \in Instances |-> 1]
    /\ stop = [i \in Instances |-> FALSE]
    /\ verdict = [i \in Instances |-> "none"]
    /\ faults = 0

----------------------------------------------------------------------------
(* Failures and control flow.                                              *)

\* A fallible call succeeds, or fails while the budget of faults of its kind lasts.
MayFail(kind) == kind \in Faults /\ faults < MaxFaults
Outcome(kind) == {TRUE} \cup {ok \in {FALSE} : MayFail(kind)}
Spend(ok) == faults' = IF ok THEN faults ELSE faults + 1

\* Mutant, and definition: set_value reports its error; the result of delete_value is dropped (`let _`).
SetErrorIgnored(ok, value) == FALSE
SetError(ok, value) == ~ok /\ value # Absent

Goto(i, label) == pc' = [pc EXCEPT ![i] = label]

\* run_capture returns: every local is dropped, the listener included.
Leave(i, v) ==
    /\ Goto(i, "idle")
    /\ port' = [port EXCEPT ![i] = NoPort]
    /\ active' = [active EXCEPT ![i] = FALSE]
    /\ verdict' = [verdict EXCEPT ![i] = v]
    /\ UNCHANGED why

\* An error is propagated with `?`: dropping the manager restores when it is still active.
Fail(i) ==
    IF active[i] /\ why[i] # "drop"
    THEN /\ Goto(i, "restore")
         /\ why' = [why EXCEPT ![i] = "drop"]
         /\ UNCHANGED <<port, active, verdict>>
    ELSE Leave(i, "error")

\* restore() returns Ok to its caller; it has set active to false.
RestoreReturns(i) ==
    CASE why[i] = "recover" ->
           /\ Goto(i, IF auto[i] THEN "enable" ELSE "launch")
           /\ active' = [active EXCEPT ![i] = FALSE]
           /\ UNCHANGED <<why, port, verdict>>
      [] why[i] = "stop" -> Leave(i, verdict[i])
      [] OTHER -> Leave(i, "error")

----------------------------------------------------------------------------
(* Starting a capture.                                                     *)

StartCapture(i) ==
    /\ pc[i] = "idle"
    /\ \E a \in BOOLEAN : auto' = [auto EXCEPT ![i] = a]
    /\ Goto(i, "starting")
    /\ stop' = [stop EXCEPT ![i] = FALSE]
    /\ verdict' = [verdict EXCEPT ![i] = "none"]
    /\ why' = [why EXCEPT ![i] = "recover"]
    /\ UNCHANGED <<reg, own, file, firefox, port, active, mem, step, faults>>

\* Application paths, capture address, bind, CA files and trust store.
\* A port another instance listens on cannot be bound.
Prepare(i) ==
    /\ pc[i] = "starting"
    /\ \E p \in Ports, ok \in Outcome("prepare") :
         /\ IF ok /\ \A j \in Instances : port[j] # p
            THEN /\ Goto(i, "recovering")
                 /\ port' = [port EXCEPT ![i] = p]
                 /\ UNCHANGED <<why, active, verdict>>
            ELSE Fail(i)
         /\ Spend(ok)
    /\ UNCHANGED <<reg, own, file, firefox, auto, mem, step, stop>>

\* Mutant: a snapshot left behind is not looked for.
RecoverNever(i) ==
    /\ pc[i] = "recovering"
    /\ Goto(i, IF auto[i] THEN "enable" ELSE "launch")
    /\ UNCHANGED <<reg, own, file, firefox, why, auto, port, active, mem, step, stop, verdict, faults>>

RecoverIfNeeded(i) ==
    /\ pc[i] = "recovering"
    /\ Goto(i, IF file # NoFile THEN "restore" ELSE IF auto[i] THEN "enable" ELSE "launch")
    /\ UNCHANGED <<reg, own, file, firefox, why, auto, port, active, mem, step, stop, verdict, faults>>

----------------------------------------------------------------------------
(* WindowsProxyManager::restore and restore_snapshot.                      *)

Restore(i) ==
    /\ pc[i] = "restore"
    /\ \E ok \in Outcome("open") :
         /\ CASE file = NoFile -> ok /\ RestoreReturns(i)
              [] file # NoFile /\ ok -> Goto(i, "read") /\ UNCHANGED <<why, port, active, verdict>>
              [] OTHER -> Fail(i)
         /\ Spend(ok)
    /\ UNCHANGED <<reg, own, file, firefox, auto, mem, step, stop>>

\* fs::read and serde_json::from_slice; after a failed enable() the error is dropped.
ReadSnapshot(i) ==
    /\ pc[i] = "read"
    /\ \E ok \in Outcome("read") :
         /\ IF ok /\ file \in Settings
            THEN /\ Goto(i, "write")
                 /\ mem' = [mem EXCEPT ![i] = file]
                 /\ step' = [step EXCEPT ![i] = 1]
                 /\ UNCHANGED <<why, port, active, verdict>>
            ELSE Fail(i) /\ UNCHANGED <<mem, step>>
         /\ Spend(ok)
    /\ UNCHANGED <<reg, own, file, firefox, auto, stop>>

\* restore_dword and restore_string: a failed set is an error, a failed delete is ignored.
RestoreValue(i) ==
    /\ pc[i] = "write"
    /\ LET name == RestoreOrder[step[i]]
           value == mem[i][name]
       IN \E ok \in Outcome(IF value = Absent THEN "delete" ELSE "set") :
            /\ reg' = IF ok THEN [reg EXCEPT ![name] = value] ELSE reg
            /\ IF SetError(ok, value)
               THEN Fail(i) /\ UNCHANGED step
               ELSE IF step[i] < LastStep
               THEN /\ step' = [step EXCEPT ![i] = @ + 1]
                    /\ UNCHANGED <<pc, why, port, active, verdict>>
               ELSE /\ IF why[i] = "undo"
                       THEN Fail(i)
                       ELSE Goto(i, "remove") /\ UNCHANGED <<why, port, active, verdict>>
                    /\ UNCHANGED step
            /\ Spend(ok)
    /\ UNCHANGED <<own, file, firefox, auto, mem, stop>>

\* notify_settings_changed may take five seconds; then fs::remove_file.
RemoveSnapshot(i) ==
    /\ pc[i] = "remove"
    /\ \E ok \in Outcome("remove") :
         /\ IF ok /\ file # NoFile
            THEN file' = NoFile /\ RestoreReturns(i)
            ELSE Fail(i) /\ UNCHANGED file
         /\ Spend(ok)
    /\ UNCHANGED <<reg, own, firefox, auto, mem, step, stop>>

----------------------------------------------------------------------------
(* WindowsProxyManager::enable.                                            *)

\* ensure_firefox_integration, then open the key and read the five values; a value that
\* cannot be read (.ok()) counts as absent.
Enable(i) ==
    /\ pc[i] = "enable"
    /\ \E ok \in Outcome("enable"),
          unread \in {{}} \cup {{n} : n \in {m \in Names : MayFail("query")}} :
         /\ IF ok
            THEN /\ firefox' = "app"
                 /\ mem' = [mem EXCEPT ![i] = [n \in Names |-> IF n \in unread THEN Absent ELSE reg[n]]]
                 /\ Goto(i, "save")
                 /\ UNCHANGED <<why, port, active, verdict>>
            ELSE /\ firefox' \in {firefox, "app"}
                 /\ Fail(i)
                 /\ UNCHANGED mem
         /\ Spend(ok /\ unread = {})
    /\ UNCHANGED <<reg, own, file, auto, step, stop>>

\* fs::write(snapshot_file) opens the file, which truncates it ...
TruncateSnapshot(i) ==
    /\ pc[i] = "save"
    /\ \E ok \in Outcome("create") :
         /\ IF ok
            THEN file' = Torn /\ Goto(i, "saving") /\ UNCHANGED <<why, port, active, verdict>>
            ELSE Fail(i) /\ UNCHANGED file
         /\ Spend(ok)
    /\ UNCHANGED <<reg, own, firefox, auto, mem, step, stop>>

\* ... and then writes the snapshot; a full disk leaves it cut short.
SaveSnapshot(i) ==
    /\ pc[i] = "saving"
    /\ \E ok \in Outcome("torn") :
         /\ IF ok
            THEN /\ file' = mem[i]
                 /\ Goto(i, "configure")
                 /\ step' = [step EXCEPT ![i] = 1]
                 /\ UNCHANGED <<why, port, active, verdict>>
            ELSE Fail(i) /\ UNCHANGED <<file, step>>
         /\ Spend(ok)
    /\ UNCHANGED <<reg, own, firefox, auto, mem, stop>>

\* The configure closure: a failed set undoes with restore_snapshot, a failed delete is ignored.
Configure(i) ==
    /\ pc[i] = "configure"
    /\ LET name == ConfigureOrder[step[i]]
           value == Captured(port[i])[name]
       IN \E ok \in Outcome(IF value = Absent THEN "delete" ELSE "set") :
            /\ reg' = IF ok THEN [reg EXCEPT ![name] = value] ELSE reg
            /\ IF SetError(ok, value)
               THEN /\ Goto(i, "read")
                    /\ why' = [why EXCEPT ![i] = "undo"]
                    /\ UNCHANGED <<active, step>>
               ELSE IF step[i] < LastStep
               THEN step' = [step EXCEPT ![i] = @ + 1] /\ UNCHANGED <<pc, why, active>>
               ELSE /\ Goto(i, "launch")
                    /\ active' = [active EXCEPT ![i] = TRUE]
                    /\ UNCHANGED <<why, step>>
            /\ Spend(ok)
    /\ UNCHANGED <<own, file, firefox, auto, port, mem, stop, verdict>>

----------------------------------------------------------------------------
(* Serving and stopping.                                                   *)

\* Mutant: a stop request sent during start-up is lost.
LaunchForgettingStop(i) ==
    /\ pc[i] = "launch"
    /\ Goto(i, "serving")
    /\ stop' = [stop EXCEPT ![i] = FALSE]
    /\ UNCHANGED <<reg, own, file, firefox, why, auto, port, active, mem, step, verdict, faults>>

\* summary, BodyStore::new and Proxy::build; then CaptureEvent::Started.
Launch(i) ==
    /\ pc[i] = "launch"
    /\ \E ok \in Outcome("launch") :
         /\ IF ok
            THEN Goto(i, "serving") /\ UNCHANGED <<why, port, active, verdict>>
            ELSE Fail(i)
         /\ Spend(ok)
    /\ UNCHANGED <<reg, own, file, firefox, auto, mem, step, stop>>

\* Mutant: the worker ends without restoring.
EndServingUnrestored(i, v) ==
    /\ port' = [port EXCEPT ![i] = NoPort]
    /\ verdict' = [verdict EXCEPT ![i] = v]
    /\ why' = [why EXCEPT ![i] = "stop"]
    /\ Goto(i, "idle")

\* proxy.start() has returned and the listener with it is gone; then restore(), if this
\* capture configured the proxy, before the outcome v is reported.
EndServing(i, v) ==
    /\ port' = [port EXCEPT ![i] = NoPort]
    /\ verdict' = [verdict EXCEPT ![i] = v]
    /\ why' = [why EXCEPT ![i] = "stop"]
    /\ Goto(i, IF auto[i] THEN "restore" ELSE "idle")

\* The message has come: no more connections are accepted.
BeginShutdown(i) ==
    /\ pc[i] = "serving"
    /\ stop[i]
    /\ Goto(i, "draining")
    /\ UNCHANGED <<reg, own, file, firefox, why, auto, port, active, mem, step, stop, verdict, faults>>

\* proxy.start() returns once the clients have ended the connections they have.
GracefulShutdown(i) ==
    /\ pc[i] = "draining"
    /\ EndServing(i, "stopped")
    /\ UNCHANGED <<reg, own, file, firefox, auto, active, mem, step, stop, faults>>

ProxyFails(i) ==
    /\ pc[i] \in {"serving", "draining"}
    /\ MayFail("serve")
    /\ EndServing(i, "error")
    /\ Spend(FALSE)
    /\ UNCHANGED <<reg, own, file, firefox, auto, active, mem, step, stop>>

\* The Stop button, and on_exit: the message waits in the channel until the worker serves.
RequestStop(i) ==
    /\ pc[i] # "idle"
    /\ stop' = [stop EXCEPT ![i] = TRUE]
    /\ UNCHANGED <<reg, own, file, firefox, pc, why, auto, port, active, mem, step, verdict, faults>>

----------------------------------------------------------------------------
(* The environment.                                                        *)

\* The process is killed; what it kept in memory is gone, registry and file stay.
\* Dying between the halves of fs::write counts as a "torn" fault.
Crash(i) ==
    /\ pc[i] # "idle"
    /\ MayFail(IF pc[i] = "saving" THEN "torn" ELSE "crash")
    /\ Leave(i, "none")
    /\ Spend(FALSE)
    /\ UNCHANGED <<reg, own, file, firefox, auto, mem, step, stop>>

\* The user changes the proxy settings while no capture runs; with "staleEdit" also while an
\* interrupted capture is still to be recovered.
UserEdits ==
    /\ \A i \in Instances : pc[i] = "idle"
    /\ file = NoFile \/ "staleEdit" \in Faults
    /\ reg' \in UserSettings
    /\ own' = reg'
    /\ UNCHANGED <<file, firefox, worker, faults>>

\* What the worker does by itself ...
OwnStep(i) ==
    \/ RecoverIfNeeded(i)
    \/ Restore(i) \/ ReadSnapshot(i) \/ RestoreValue(i) \/ RemoveSnapshot(i)
    \/ firefox = "app" /\ Enable(i)
    \/ TruncateSnapshot(i) \/ SaveSnapshot(i) \/ Configure(i)
    \/ Launch(i) \/ BeginShutdown(i)

\* ... and what may wait for others: certutil asks the user whether to trust the authority, the
\* helper that writes the Firefox policy asks for elevation, and a client may keep its connection.
WorkerStep(i) == Prepare(i) \/ Enable(i) \/ OwnStep(i) \/ GracefulShutdown(i)

Next ==
    \/ \E i \in Instances :
         StartCapture(i) \/ WorkerStep(i) \/ ProxyFails(i) \/ RequestStop(i) \/ Crash(i)
    \/ UserEdits

\* The worker's thread and runtime keep running; nothing obliges a user, a client or the
\* environment to act.
Fairness == \A i \in Instances : WF_vars(OwnStep(i))

Spec == Init /\ [][Next]_vars
FairSpec == Spec /\ Fairness

----------------------------------------------------------------------------
(* Properties.                                                             *)

\* Crash recovery (windows_proxy.rs: the snapshot is written before the first set_value):
\* whenever the registry differs from what the user chose, proxy-restore.json holds what the
\* user chose, so that a later capture can put it back whatever happens in between.
ChangesAreRecoverable == reg # own => file = own

\* A capture that reports Stopped("stopped") has put back the user's settings and dropped the
\* snapshot; every other way out is reported as an error (run_capture: restore()? comes first).
CleanStopRestores ==
    \A i \in Instances : verdict[i] = "stopped" /\ pc[i] = "idle" => reg = own /\ file = NoFile

\* "Restore the previous settings when capture stops or the application closes" (README.md): once
\* no capture runs anywhere and no snapshot is left to recover, the settings are the user's.
NothingLeftBehind ==
    (\A i \in Instances : pc[i] = "idle") /\ file = NoFile => reg = own

\* While a capture that configures the proxy serves, the five values send the user's traffic to
\* its listener: no error inside the configure closure was passed over, no restore undid it.
ServingIsConfigured ==
    \A i \in Instances : pc[i] = "serving" /\ auto[i] => reg = Captured(port[i])

\* A stop request ends the worker, at whatever point of its start-up it arrives (stop_rx is
\* awaited only once the proxy serves, the message waits in the channel): the worker goes on
\* for ever only where the user leaves the question about the authority or about the Firefox
\* policy unanswered, or a client keeps its connection.
StopCompletes ==
    \A i \in Instances :
        [](stop[i] /\ pc[i] # "idle" =>
             \/ <>(pc[i] = "idle")
             \/ <>[](pc[i] = "starting")
             \/ <>[](pc[i] = "enable" /\ firefox = "user")
             \/ <>[](pc[i] = "draining"))

\* The promise: the registry is the settings, a readable proxy-restore.json the backup.
Reversible == INSTANCE ReversibleChange WITH
    Data <- Settings,
    NoBackup <- NoFile,
    data <- reg,
    backup <- IF file \in Settings THEN file ELSE NoFile

\* Every step of the workers is a step of the promise or none: no registry value is written
\* without the snapshot on disk, and the snapshot goes only when it has been put back.
ImplementsReversibleChange == Reversible!Spec

\* "a later capture can recover from an interrupted process" (docs/architecture.md): as long as
\* captures keep getting as far as the recovery, a snapshot left behind is eventually restored and removed.
LaterCaptureRecovers ==
    []<>(\E i \in Instances : pc[i] = "recovering") => []<>(file = NoFile)
=============================================================================
