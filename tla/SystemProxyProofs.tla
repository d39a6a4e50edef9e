-------------------------- MODULE SystemProxyProofs --------------------------
(***************************************************************************)
(* Proofs about SystemProxy, for every set of user settings, ports and     *)
(* values and every number of faults.  The types, the end of every worker  *)
(* and the course of a recovery hold for any number of processes and every *)
(* kind of fault.  What is said of the user's settings holds under Quiet:  *)
(* one process at a time, and every kind of fault but three: a value that  *)
(* cannot be read, a delete that fails (enable and restore pass both       *)
(* over), and a user who edits the settings while an interrupted capture   *)
(* is still to be recovered.                                               *)
(***************************************************************************)
EXTENDS SystemProxy, TLAPS

Quiet ==
    /\ \A i, j \in Instances : i = j
    /\ Faults \cap {"query", "delete", "staleEdit"} = {}

----------------------------------------------------------------------------
(* The inductive invariant.                                                *)

Saved == file = own

\* What holds of the registry and the snapshot at each point of a worker.
WorkerInv(i) ==
    /\ pc[i] \in {"enable", "save", "saving", "configure"} => auto[i]
    /\ pc[i] \in {"enable", "save", "saving"} => file \notin Settings
    /\ pc[i] \in {"save", "saving"} => mem[i] = reg
    /\ pc[i] = "write" =>
         /\ Saved
         /\ mem[i] = own
         /\ \A k \in 1..5 : k < step[i] => reg[RestoreOrder[k]] = own[RestoreOrder[k]]
    /\ pc[i] = "remove" => Saved /\ reg = own
    /\ pc[i] = "configure" =>
         /\ Saved
         /\ \A k \in 1..5 : k < step[i] =>
              reg[ConfigureOrder[k]] = Captured(port[i])[ConfigureOrder[k]]
    /\ pc[i] \in {"launch", "serving", "draining"} =>
         IF auto[i] THEN Saved /\ reg = Captured(port[i]) ELSE file = NoFile

\* A worker that may still write the registry holds its listener.
PortInv(i) ==
    /\ pc[i] \in {"recovering", "enable", "save", "saving", "configure", "launch", "serving", "draining"}
         => port[i] \in Ports
    /\ pc[i] \in {"restore", "read", "write", "remove"} /\ why[i] = "recover"
         => port[i] \in Ports

\* A clean verdict stands only where no snapshot is left, or where it is not yet reported.
VerdictInv(i) == verdict[i] = "stopped" /\ pc[i] = "idle" => file = NoFile

IInv ==
    /\ TypeOK
    /\ ChangesAreRecoverable
    /\ file \in Settings => Saved
    /\ \A i \in Instances : WorkerInv(i) /\ PortInv(i) /\ VerdictInv(i)

----------------------------------------------------------------------------
(* Facts about the constant operators.                                     *)

\* Both orders visit every value, and what a capture writes is a setting.
LEMMA OrderFacts ==
    /\ \A k \in 1..5 : RestoreOrder[k] \in Names /\ ConfigureOrder[k] \in Names
    /\ \A n \in Names : \E k \in 1..5 : RestoreOrder[k] = n
    /\ \A n \in Names : \E k \in 1..5 : ConfigureOrder[k] = n
    /\ \A k, l \in 1..5 : RestoreOrder[k] = RestoreOrder[l] => k = l
    /\ \A k, l \in 1..5 : ConfigureOrder[k] = ConfigureOrder[l] => k = l
<1>1. \A k \in 1..5 : k = 1 \/ k = 2 \/ k = 3 \/ k = 4 \/ k = 5
  OBVIOUS
<1>2. 1 \in 1..5 /\ 2 \in 1..5 /\ 3 \in 1..5 /\ 4 \in 1..5 /\ 5 \in 1..5
  OBVIOUS
<1>3. \A k \in 1..5 : RestoreOrder[k] \in Names /\ ConfigureOrder[k] \in Names
  BY <1>1 DEF RestoreOrder, ConfigureOrder, Names
<1>4. \A n \in Names : \E k \in 1..5 : RestoreOrder[k] = n
  BY <1>2 DEF RestoreOrder, Names
<1>5. \A n \in Names : \E k \in 1..5 : ConfigureOrder[k] = n
  BY <1>2 DEF ConfigureOrder, Names
<1>6. \A k, l \in 1..5 : RestoreOrder[k] = RestoreOrder[l] => k = l
  BY <1>1 DEF RestoreOrder
<1>7. \A k, l \in 1..5 : ConfigureOrder[k] = ConfigureOrder[l] => k = l
  BY <1>1 DEF ConfigureOrder
<1> QED
  BY <1>3, <1>4, <1>5, <1>6, <1>7

LEMMA CapturedType == \A p \in Ports : Captured(p) \in Settings
BY ValuesAssumption DEF Captured, Settings, Names

\* Two settings that agree wherever an order visits them are the same.
LEMMA Agreement ==
    ASSUME NEW f \in Settings, NEW g \in Settings
    PROVE  /\ (\A k \in 1..5 : f[RestoreOrder[k]] = g[RestoreOrder[k]]) => f = g
           /\ (\A k \in 1..5 : f[ConfigureOrder[k]] = g[ConfigureOrder[k]]) => f = g
<1>1. (\A n \in Names : f[n] = g[n]) => f = g
  BY DEF Settings
<1>2. QED
  BY <1>1, OrderFacts

LEMMA OutcomeFacts ==
    ASSUME NEW kind, NEW ok \in Outcome(kind)
    PROVE  /\ ok \in BOOLEAN
           /\ ~ok => kind \in Faults
BY DEF Outcome, MayFail

----------------------------------------------------------------------------
(* Types of the control.                                                   *)

ControlType ==
    /\ pc \in [Instances -> Labels]
    /\ why \in [Instances -> Callers]
    /\ port \in [Instances -> Ports \cup {NoPort}]
    /\ active \in [Instances -> BOOLEAN]
    /\ verdict \in [Instances -> {"none", "stopped", "error"}]

\* The ways a worker's control moves keep its variables' types.
LEMMA ControlTypes ==
    ASSUME TypeOK, NEW i \in Instances
    PROVE  /\ Fail(i) => ControlType'
           /\ RestoreReturns(i) => ControlType'
           /\ \A v \in {"none", "stopped", "error"} : Leave(i, v) => ControlType'
           /\ \A v \in {"none", "stopped", "error"} :
                EndServing(i, v) /\ UNCHANGED active => ControlType'
           /\ \A l \in Labels : Goto(i, l) /\ UNCHANGED <<why, port, active, verdict>> => ControlType'
           /\ UNCHANGED <<pc, why, port, active, verdict>> => ControlType'
<1> USE DEF ControlType, TypeOK, Goto, Leave, Labels, Callers
<1>1. Fail(i) => ControlType'
  BY ZenonT(30) DEF Fail
<1>2. RestoreReturns(i) => ControlType'
  BY ZenonT(30) DEF RestoreReturns
<1>3. \A v \in {"none", "stopped", "error"} : Leave(i, v) => ControlType'
  OBVIOUS
<1>4. \A v \in {"none", "stopped", "error"} : EndServing(i, v) /\ UNCHANGED active => ControlType'
  BY DEF EndServing
<1>5. \A l \in Labels : Goto(i, l) /\ UNCHANGED <<why, port, active, verdict>> => ControlType'
  OBVIOUS
<1>6. UNCHANGED <<pc, why, port, active, verdict>> => ControlType'
  OBVIOUS
<1> QED
  BY <1>1, <1>2, <1>3, <1>4, <1>5, <1>6

----------------------------------------------------------------------------
(* The control of a worker, whatever other processes and the environment do. *)

\* Another worker than i does not move.
Alone(i) ==
    \A j \in Instances \ {i} :
        pc'[j] = pc[j] /\ why'[j] = why[j] /\ port'[j] = port[j] /\ step'[j] = step[j]

Stays(i) == why'[i] = why[i] /\ port'[i] = port[i]
Dropped(i) == \/ pc'[i] = "idle"
              \/ pc'[i] = "restore" /\ why[i] # "drop" /\ why'[i] = "drop"

\* Where a worker goes from where it stands.
Moves(i) ==
    CASE pc[i] = "starting" ->
           Dropped(i) \/ (pc'[i] = "recovering" /\ why'[i] = why[i] /\ port'[i] \in Ports)
      [] pc[i] = "recovering" -> Stays(i) /\ pc'[i] \in {"restore", "enable", "launch"}
      [] pc[i] = "restore" ->
           \/ Dropped(i)
           \/ Stays(i) /\ pc'[i] = "read"
           \/ Stays(i) /\ why[i] = "recover" /\ pc'[i] \in {"enable", "launch"}
      [] pc[i] = "read" -> Dropped(i) \/ (Stays(i) /\ pc'[i] = "write" /\ step'[i] = 1)
      [] pc[i] = "write" ->
           \/ Dropped(i)
           \/ Stays(i) /\ pc'[i] = "write" /\ step'[i] = step[i] + 1
           \/ Stays(i) /\ pc'[i] = "remove"
      [] pc[i] = "remove" ->
           Dropped(i) \/ (Stays(i) /\ why[i] = "recover" /\ pc'[i] \in {"enable", "launch"})
      [] pc[i] = "enable" -> Dropped(i) \/ (Stays(i) /\ pc'[i] = "save")
      [] pc[i] = "save" -> Dropped(i) \/ (Stays(i) /\ pc'[i] = "saving")
      [] pc[i] = "saving" -> Dropped(i) \/ (Stays(i) /\ pc'[i] = "configure" /\ step'[i] = 1)
      [] pc[i] = "configure" ->
           \/ pc'[i] = "read" /\ why'[i] = "undo"
           \/ Stays(i) /\ pc'[i] = "configure" /\ step'[i] = step[i] + 1
           \/ Stays(i) /\ pc'[i] = "launch"
      [] pc[i] = "launch" -> Dropped(i) \/ (Stays(i) /\ pc'[i] = "serving")
      [] pc[i] \in {"serving", "draining"} ->
           \/ pc'[i] = "idle"
           \/ pc'[i] = "restore" /\ why'[i] = "stop"
           \/ pc[i] = "serving" /\ Stays(i) /\ pc'[i] = "draining"
      [] OTHER -> FALSE

\* An error leads out, or to the drop of the manager.
LEMMA FailMoves ==
    ASSUME TypeOK, NEW i \in Instances, Fail(i), UNCHANGED step
    PROVE  Alone(i) /\ Dropped(i)
<1>1. CASE active[i] /\ why[i] # "drop"
  BY <1>1 DEF Fail, Alone, Dropped, Goto, TypeOK
<1>2. CASE ~(active[i] /\ why[i] # "drop")
  BY <1>2 DEF Fail, Leave, Alone, Dropped, Goto, TypeOK
<1> QED
  BY <1>1, <1>2

\* restore() returns.
LEMMA ReturnMoves ==
    ASSUME TypeOK, NEW i \in Instances, RestoreReturns(i), UNCHANGED step
    PROVE  /\ Alone(i)
           /\ Dropped(i) \/ (Stays(i) /\ why[i] = "recover" /\ pc'[i] \in {"enable", "launch"})
<1>1. CASE why[i] = "recover"
  BY <1>1 DEF RestoreReturns, Alone, Stays, Goto, TypeOK
<1>2. CASE why[i] # "recover"
  <2>1. \E v : Leave(i, v)
    BY <1>2 DEF RestoreReturns
  <2> QED
    BY <2>1 DEF Leave, Alone, Dropped, Goto, TypeOK
<1> QED
  BY <1>1, <1>2

\* A step without an error.
LEMMA GotoMoves ==
    ASSUME TypeOK, NEW i \in Instances, NEW l, Goto(i, l), UNCHANGED <<why, port, step>>
    PROVE  Alone(i) /\ Stays(i) /\ pc'[i] = l
  BY DEF Alone, Stays, Goto, TypeOK

\* Each step of the worker's code is one of the moves.
LEMMA WorkerMoves ==
    ASSUME TypeOK, NEW i \in Instances, WorkerStep(i)
    PROVE  Alone(i) /\ Moves(i)
<1>1. CASE Prepare(i)
  <2>1. CASE Fail(i)
    BY <1>1, <2>1, FailMoves DEF Prepare, Moves
  <2>2. CASE ~Fail(i)
    <3>1. PICK p \in Ports : Goto(i, "recovering") /\ port' = [port EXCEPT ![i] = p] /\ UNCHANGED why
      BY <1>1, <2>2 DEF Prepare
    <3>2. pc[i] = "starting" /\ UNCHANGED step
      BY <1>1 DEF Prepare
    <3> QED
      BY <3>1, <3>2 DEF Goto, Alone, Moves, TypeOK
  <2> QED
    BY <2>1, <2>2
<1>2. CASE RecoverIfNeeded(i)
  <2>1. /\ pc[i] = "recovering" /\ UNCHANGED <<why, port, step>>
        /\ \E l \in {"restore", "enable", "launch"} : Goto(i, l)
    BY <1>2 DEF RecoverIfNeeded
  <2> QED
    BY <2>1, GotoMoves DEF Moves
<1>3. CASE Restore(i)
  <2>1. pc[i] = "restore" /\ UNCHANGED step
    BY <1>3 DEF Restore
  <2>2. \/ Fail(i) \/ RestoreReturns(i)
        \/ Goto(i, "read") /\ UNCHANGED <<why, port>>
    BY <1>3 DEF Restore
  <2> QED
    BY <2>1, <2>2, FailMoves, ReturnMoves, GotoMoves DEF Moves
<1>4. CASE ReadSnapshot(i)
  <2>1. pc[i] = "read"
    BY <1>4 DEF ReadSnapshot
  <2>2. \/ Fail(i) /\ UNCHANGED step
        \/ Goto(i, "write") /\ step' = [step EXCEPT ![i] = 1] /\ UNCHANGED <<why, port>>
    BY <1>4 DEF ReadSnapshot
  <2>3. CASE Fail(i) /\ UNCHANGED step
    BY <2>1, <2>3, FailMoves DEF Moves
  <2>4. CASE Goto(i, "write") /\ step' = [step EXCEPT ![i] = 1] /\ UNCHANGED <<why, port>>
    BY <2>1, <2>4 DEF Moves, Alone, Stays, Goto, TypeOK
  <2> QED
    BY <2>2, <2>3, <2>4
<1>5. CASE RestoreValue(i)
  <2>1. pc[i] = "write"
    BY <1>5 DEF RestoreValue
  <2>2. \/ Fail(i) /\ UNCHANGED step
        \/ step' = [step EXCEPT ![i] = @ + 1] /\ UNCHANGED <<pc, why, port>>
        \/ Goto(i, "remove") /\ UNCHANGED <<why, port, step>>
    BY <1>5 DEF RestoreValue
  <2>3. CASE Fail(i) /\ UNCHANGED step
    BY <2>1, <2>3, FailMoves DEF Moves
  <2>4. CASE step' = [step EXCEPT ![i] = @ + 1] /\ UNCHANGED <<pc, why, port>>
    BY <2>1, <2>4 DEF Moves, Alone, Stays, TypeOK
  <2>5. CASE Goto(i, "remove") /\ UNCHANGED <<why, port, step>>
    BY <2>1, <2>5, GotoMoves DEF Moves
  <2> QED
    BY <2>2, <2>3, <2>4, <2>5
<1>6. CASE RemoveSnapshot(i)
  <2>1. pc[i] = "remove" /\ UNCHANGED step /\ (Fail(i) \/ RestoreReturns(i))
    BY <1>6 DEF RemoveSnapshot
  <2> QED
    BY <2>1, FailMoves, ReturnMoves DEF Moves
<1>7. CASE Enable(i)
  <2>1. /\ pc[i] = "enable" /\ UNCHANGED step
        /\ Fail(i) \/ (Goto(i, "save") /\ UNCHANGED <<why, port>>)
    BY <1>7 DEF Enable
  <2> QED
    BY <2>1, FailMoves, GotoMoves DEF Moves
<1>8. CASE TruncateSnapshot(i)
  <2>1. /\ pc[i] = "save" /\ UNCHANGED step
        /\ Fail(i) \/ (Goto(i, "saving") /\ UNCHANGED <<why, port>>)
    BY <1>8 DEF TruncateSnapshot
  <2> QED
    BY <2>1, FailMoves, GotoMoves DEF Moves
<1>9. CASE SaveSnapshot(i)
  <2>1. pc[i] = "saving"
    BY <1>9 DEF SaveSnapshot
  <2>2. \/ Fail(i) /\ UNCHANGED step
        \/ Goto(i, "configure") /\ step' = [step EXCEPT ![i] = 1] /\ UNCHANGED <<why, port>>
    BY <1>9 DEF SaveSnapshot
  <2>3. CASE Fail(i) /\ UNCHANGED step
    BY <2>1, <2>3, FailMoves DEF Moves
  <2>4. CASE Goto(i, "configure") /\ step' = [step EXCEPT ![i] = 1] /\ UNCHANGED <<why, port>>
    BY <2>1, <2>4 DEF Moves, Alone, Stays, Goto, TypeOK
  <2> QED
    BY <2>2, <2>3, <2>4
<1>10. CASE Configure(i)
  <2>1. pc[i] = "configure" /\ UNCHANGED port
    BY <1>10 DEF Configure
  <2>2. \/ Goto(i, "read") /\ why' = [why EXCEPT ![i] = "undo"] /\ UNCHANGED step
        \/ step' = [step EXCEPT ![i] = @ + 1] /\ UNCHANGED <<pc, why>>
        \/ Goto(i, "launch") /\ UNCHANGED <<why, step>>
    BY <1>10 DEF Configure
  <2>3. CASE Goto(i, "read") /\ why' = [why EXCEPT ![i] = "undo"] /\ UNCHANGED step
    BY <2>1, <2>3 DEF Moves, Alone, Goto, TypeOK
  <2>4. CASE step' = [step EXCEPT ![i] = @ + 1] /\ UNCHANGED <<pc, why>>
    BY <2>1, <2>4 DEF Moves, Alone, Stays, TypeOK
  <2>5. CASE Goto(i, "launch") /\ UNCHANGED <<why, step>>
    BY <2>1, <2>5, GotoMoves DEF Moves
  <2> QED
    BY <2>2, <2>3, <2>4, <2>5
<1>11. CASE Launch(i)
  <2>1. /\ pc[i] = "launch" /\ UNCHANGED step
        /\ Fail(i) \/ (Goto(i, "serving") /\ UNCHANGED <<why, port>>)
    BY <1>11 DEF Launch
  <2> QED
    BY <2>1, FailMoves, GotoMoves DEF Moves
<1>12. CASE GracefulShutdown(i)
  BY <1>12 DEF GracefulShutdown, EndServing, Moves, Alone, Goto, TypeOK
<1>13. CASE BeginShutdown(i)
  <2>1. Alone(i) /\ Stays(i) /\ pc'[i] = "draining"
    BY <1>13, GotoMoves DEF BeginShutdown
  <2> QED
    BY <1>13, <2>1 DEF BeginShutdown, Moves
<1> QED
  BY <1>1, <1>2, <1>3, <1>4, <1>5, <1>6, <1>7, <1>8, <1>9, <1>10, <1>11, <1>12, <1>13
     DEF WorkerStep, OwnStep

\* So is the end of a proxy that fails; the rest of what happens moves a worker to its start or
\* end, or not at all.
LEMMA OtherMoves ==
    ASSUME TypeOK, NEW i \in Instances
    PROVE  /\ ProxyFails(i) => Alone(i) /\ Moves(i)
           /\ StartCapture(i) => /\ Alone(i) /\ pc[i] = "idle" /\ pc'[i] = "starting"
           /\ Crash(i) => Alone(i) /\ pc'[i] = "idle"
           /\ RequestStop(i) \/ UserEdits \/ UNCHANGED vars => UNCHANGED <<pc, why, port, step>>
<1>1. ProxyFails(i) => Alone(i) /\ Moves(i)
  BY DEF ProxyFails, EndServing, Moves, Alone, Goto, TypeOK
<1>2. StartCapture(i) => Alone(i) /\ pc[i] = "idle" /\ pc'[i] = "starting"
  BY DEF StartCapture, Alone, Goto, TypeOK
<1>3. Crash(i) => Alone(i) /\ pc'[i] = "idle"
  BY DEF Crash, Leave, Alone, Goto, TypeOK
<1>4. RequestStop(i) \/ UserEdits \/ UNCHANGED vars => UNCHANGED <<pc, why, port, step>>
  BY DEF RequestStop, UserEdits, vars, worker
<1> QED
  BY <1>1, <1>2, <1>3, <1>4

----------------------------------------------------------------------------
(* Type correctness of every step.                                         *)

LEMMA TypeStep ==
    ASSUME TypeOK, \A i \in Instances : PortInv(i), [Next]_vars
    PROVE  TypeOK'
<1> USE DEF TypeOK, Goto, Spend, worker
<1>0. TypeOK
  OBVIOUS
<1>1. ASSUME NEW i \in Instances, StartCapture(i)
      PROVE  TypeOK'
  BY <1>0, <1>1 DEF StartCapture, Labels, Callers
<1>2. ASSUME NEW i \in Instances, Prepare(i)
      PROVE  TypeOK'
  BY <1>0, <1>2, ControlTypes DEF ControlType, Prepare, Labels
<1>3. ASSUME NEW i \in Instances, RecoverIfNeeded(i)
      PROVE  TypeOK'
  BY <1>0, <1>3 DEF RecoverIfNeeded, Labels
<1>4. ASSUME NEW i \in Instances, Restore(i)
      PROVE  TypeOK'
  BY <1>0, <1>4, ControlTypes DEF ControlType, Restore, Labels
<1>5. ASSUME NEW i \in Instances, ReadSnapshot(i)
      PROVE  TypeOK'
  BY <1>0, <1>5, ControlTypes DEF ControlType, ReadSnapshot, Labels
<1>6. ASSUME NEW i \in Instances, RestoreValue(i)
      PROVE  TypeOK'
  <2> DEFINE name == RestoreOrder[step[i]]
             value == mem[i][name]
  <2>1. PICK ok \in Outcome(IF value = Absent THEN "delete" ELSE "set") : RestoreValue(i)!2!1!(ok)
    BY <1>6 DEF RestoreValue
  <2>2. UNCHANGED <<own, file, firefox, auto, mem, stop>>
    BY <1>6 DEF RestoreValue
  <2>3. value \in Values /\ name \in Names
    BY <1>0, OrderFacts, SMTT(20) DEF Settings
  <2>4. reg' \in Settings
    BY <1>0, <2>1, <2>3 DEF Settings
  <2>5. ControlType'
    BY <1>0, <2>1, ControlTypes DEF ControlType, Labels
  <2>6. step' = step \/ (step[i] < 5 /\ step' = [step EXCEPT ![i] = @ + 1])
    BY <2>1 DEF LastStep
  <2>7. step' \in [Instances -> 1..5]
    BY <1>0, <2>6
  <2>8. faults' \in Nat
    BY <1>0, <2>1
  <2> QED
    BY <1>0, <2>2, <2>4, <2>5, <2>7, <2>8 DEF ControlType
<1>7. ASSUME NEW i \in Instances, RemoveSnapshot(i)
      PROVE  TypeOK'
  BY <1>0, <1>7, ControlTypes DEF ControlType, RemoveSnapshot
<1>8. ASSUME NEW i \in Instances, Enable(i)
      PROVE  TypeOK'
  <2>1. \A n \in Names : reg[n] \in Values /\ Absent \in Values
    BY <1>0, ValuesAssumption DEF Settings
  <2>2. \A u : [n \in Names |-> IF n \in u THEN Absent ELSE reg[n]] \in Settings
    BY <2>1 DEF Settings
  <2>3. \/ mem' = mem
        \/ \E u : mem' = [mem EXCEPT ![i] = [n \in Names |-> IF n \in u THEN Absent ELSE reg[n]]]
    BY <1>8 DEF Enable
  <2>4. mem' \in [Instances -> Settings]
    BY <1>0, <2>2, <2>3
  <2>5. ControlType'
    BY <1>0, <1>8, ControlTypes DEF ControlType, Enable, Labels
  <2> QED
    BY <1>0, <1>8, <2>4, <2>5 DEF Enable, ControlType
<1>9. ASSUME NEW i \in Instances, TruncateSnapshot(i)
      PROVE  TypeOK'
  BY <1>0, <1>9, ControlTypes DEF ControlType, TruncateSnapshot, Labels
<1>10. ASSUME NEW i \in Instances, SaveSnapshot(i)
       PROVE  TypeOK'
  BY <1>0, <1>10, ControlTypes DEF ControlType, SaveSnapshot, Labels
<1>11. ASSUME NEW i \in Instances, Configure(i)
       PROVE  TypeOK'
  <2>1. Captured(port[i]) \in Settings
    BY <1>11, CapturedType DEF PortInv, Configure
  <2>2. Captured(port[i])[ConfigureOrder[step[i]]] \in Values
    BY <1>0, <2>1, OrderFacts DEF Settings
  <2>3. PICK ok \in BOOLEAN : Configure(i)!2!1!(ok)
    BY <1>11, OutcomeFacts DEF Configure
  <2>4. reg' \in Settings
    BY <1>0, <2>2, <2>3, OrderFacts DEF Settings
  <2>5. /\ pc' \in [Instances -> Labels]
        /\ why' \in [Instances -> Callers]
        /\ active' \in [Instances -> BOOLEAN]
    BY <1>0, <2>3 DEF Labels, Callers
  <2>6. step' = step \/ (step[i] < 5 /\ step' = [step EXCEPT ![i] = @ + 1])
    BY <2>3 DEF LastStep
  <2>7. step' \in [Instances -> 1..5]
    BY <1>0, <2>6
  <2>8. faults' \in Nat
    BY <1>0, <2>3
  <2> QED
    BY <1>0, <1>11, <2>4, <2>5, <2>7, <2>8 DEF Configure
<1>12. ASSUME NEW i \in Instances, Launch(i)
       PROVE  TypeOK'
  BY <1>0, <1>12, ControlTypes DEF ControlType, Launch, Labels
<1>13. ASSUME NEW i \in Instances, GracefulShutdown(i) \/ ProxyFails(i)
       PROVE  TypeOK'
  BY <1>0, <1>13, ControlTypes DEF ControlType, GracefulShutdown, ProxyFails
<1>14. ASSUME NEW i \in Instances, RequestStop(i)
       PROVE  TypeOK'
  BY <1>0, <1>14 DEF RequestStop
<1>15. ASSUME NEW i \in Instances, Crash(i)
       PROVE  TypeOK'
  <2>1. ControlType'
    BY <1>0, <1>15, ControlTypes DEF ControlType, Crash
  <2> QED
    BY <1>0, <1>15, <2>1 DEF Crash, ControlType
<1>16. CASE UserEdits
  BY <1>0, <1>16, ValuesAssumption DEF UserEdits
<1>17. CASE UNCHANGED vars
  BY <1>0, <1>17 DEF vars
<1>18. ASSUME NEW i \in Instances, BeginShutdown(i)
       PROVE  TypeOK'
  BY <1>0, <1>18 DEF BeginShutdown, Labels
<1> QED
  BY <1>1, <1>2, <1>3, <1>4, <1>5, <1>6, <1>7, <1>8, <1>9, <1>10, <1>11, <1>12, <1>13, <1>14,
     <1>15, <1>16, <1>17, <1>18 DEF Next, WorkerStep, OwnStep

\* A worker keeps its listener while it needs it.
LEMMA PortStep ==
    ASSUME TypeOK, \A i \in Instances : PortInv(i), [Next]_vars
    PROVE  \A i \in Instances : PortInv(i)'
<1>1. ASSUME NEW j \in Instances, Alone(j), PortInv(j)'
      PROVE  \A i \in Instances : PortInv(i)'
  BY <1>1 DEF Alone, PortInv
<1>2. ASSUME NEW j \in Instances, Moves(j)
      PROVE  PortInv(j)'
  BY <1>2 DEF Moves, Stays, Dropped, PortInv
<1>3. ASSUME NEW j \in Instances, pc'[j] \in {"idle", "starting"}
      PROVE  PortInv(j)'
  BY <1>3 DEF PortInv
<1>4. ASSUME NEW j \in Instances, WorkerStep(j) \/ ProxyFails(j)
      PROVE  \A i \in Instances : PortInv(i)'
  BY <1>1, <1>2, <1>4, WorkerMoves, OtherMoves
<1>5. ASSUME NEW j \in Instances, StartCapture(j) \/ Crash(j)
      PROVE  \A i \in Instances : PortInv(i)'
  BY <1>1, <1>3, <1>5, OtherMoves
<1>6. CASE UserEdits \/ UNCHANGED vars \/ \E j \in Instances : RequestStop(j)
  <2> SUFFICES ASSUME NEW i \in Instances PROVE PortInv(i)'
    OBVIOUS
  <2>1. UNCHANGED <<pc, why, port>>
    BY <1>6, OtherMoves
  <2> QED
    BY <2>1 DEF PortInv
<1> QED
  BY <1>4, <1>5, <1>6 DEF Next

\* How many steps a worker can still take: a start, the recovery of what was left, five values
\* saved and configured, and one restore each for an undo, a stop and a drop.
Base == [drop |-> 0, stop |-> 10, undo |-> 20, recover |-> 50]
StepsLeft(i) ==
    CASE pc[i] = "starting" -> 62
      [] pc[i] = "recovering" -> 61
      [] pc[i] = "restore" -> Base[why[i]] + 10
      [] pc[i] = "read" -> Base[why[i]] + 9
      [] pc[i] = "write" -> Base[why[i]] + (9 - step[i])
      [] pc[i] = "remove" -> Base[why[i]] + 3
      [] pc[i] = "enable" -> 43
      [] pc[i] = "save" -> 42
      [] pc[i] = "saving" -> 41
      [] pc[i] = "configure" -> 40 - step[i]
      [] pc[i] = "launch" -> 32
      [] pc[i] = "serving" -> 31
      [] pc[i] = "draining" -> 30
      [] OTHER -> 0

\* The bases of the callers.
LEMMA Bases ==
    ASSUME TypeOK, NEW i \in Instances
    PROVE  /\ step[i] \in 1..5 /\ pc[i] \in Labels
           /\ Base[why[i]] \in Nat /\ Base[why[i]] <= 50
           /\ why[i] # "drop" => Base[why[i]] >= 10
           /\ why[i] = "recover" => Base[why[i]] = 50
           /\ Base["drop"] = 0 /\ Base["stop"] = 10 /\ Base["undo"] = 20
  BY DEF TypeOK, Callers, Base

\* Their number is bounded.
LEMMA StepsBounded ==
    ASSUME TypeOK, NEW i \in Instances
    PROVE  StepsLeft(i) \in 0..62
  BY Bases DEF StepsLeft

\* A running worker has some left.
LEMMA StepsRemain ==
    ASSUME TypeOK, NEW i \in Instances, pc[i] # "idle"
    PROVE  StepsLeft(i) > 0
  BY Bases DEF StepsLeft, Labels

\* Every move takes one, at least.
LEMMA MovesCount ==
    ASSUME TypeOK, TypeOK', NEW i \in Instances, Moves(i)
    PROVE  StepsLeft(i)' < StepsLeft(i)
<1>1. /\ step[i] \in 1..5 /\ pc[i] # "idle"
      /\ Base[why[i]] \in Nat /\ Base[why[i]] <= 50
      /\ why[i] # "drop" => Base[why[i]] >= 10
      /\ why[i] = "recover" => Base[why[i]] = 50
      /\ Base["drop"] = 0 /\ Base["stop"] = 10 /\ Base["undo"] = 20
  BY Bases DEF Moves
<1>2. StepsLeft(i) \in Nat /\ StepsLeft(i) > 0
  BY <1>1, StepsBounded, StepsRemain
<1>3. CASE pc'[i] = "idle"
  <2>1. StepsLeft(i)' = 0
    BY <1>3 DEF StepsLeft
  <2> QED
    BY <1>2, <2>1
<1>4. CASE pc'[i] = "restore" /\ why[i] # "drop" /\ why'[i] = "drop"
  <2>1. StepsLeft(i)' = 10
    BY <1>1, <1>4 DEF StepsLeft
  <2>2. pc[i] \notin {"serving", "draining"} => StepsLeft(i) > 10
    BY <1>1, <1>4 DEF StepsLeft, Moves
  <2> QED
    BY <1>4, <2>1, <2>2 DEF Moves
<1>5. ASSUME ~Dropped(i) PROVE StepsLeft(i)' < StepsLeft(i)
  <2>1. CASE pc[i] \in {"starting", "recovering"}
    BY <1>1, <1>5, <2>1 DEF Moves, Stays, StepsLeft
  <2>2. CASE pc[i] \in {"restore", "read"}
    BY <1>1, <1>5, <2>2 DEF Moves, Stays, StepsLeft
  <2>3. CASE pc[i] \in {"write", "remove"}
    BY <1>1, <1>5, <2>3 DEF Moves, Stays, StepsLeft
  <2>4. CASE pc[i] \in {"enable", "save", "saving"}
    BY <1>1, <1>5, <2>4 DEF Moves, Stays, StepsLeft
  <2>5. CASE pc[i] \in {"configure", "launch", "serving", "draining"}
    BY <1>1, <1>5, <2>5, <1>3 DEF Moves, Stays, StepsLeft
  <2> QED
    BY <2>1, <2>2, <2>3, <2>4, <2>5 DEF Moves
<1> QED
  BY <1>3, <1>4, <1>5 DEF Dropped

\* No step gives a running worker more.
LEMMA StepsCount ==
    ASSUME TypeOK, TypeOK', [Next]_vars, NEW i \in Instances
    PROVE  /\ WorkerStep(i) \/ ProxyFails(i) \/ Crash(i) => StepsLeft(i)' < StepsLeft(i)
           /\ pc[i] # "idle" => StepsLeft(i)' <= StepsLeft(i)
<1>1. ASSUME NEW j \in Instances, Alone(j), i # j
      PROVE  StepsLeft(i)' = StepsLeft(i)
  BY <1>1 DEF Alone, StepsLeft
<1>2. StepsLeft(i) \in Nat /\ StepsLeft(i)' \in Nat
  <2>1. StepsLeft(i)' \in 0..62
    BY StepsBounded, Bases DEF StepsLeft, TypeOK, Callers, Base
  <2> QED
    BY <2>1, StepsBounded
<1>3. WorkerStep(i) \/ ProxyFails(i) => StepsLeft(i)' < StepsLeft(i)
  BY WorkerMoves, OtherMoves, MovesCount
<1>4. Crash(i) => StepsLeft(i)' < StepsLeft(i)
  <2> SUFFICES ASSUME Crash(i) PROVE StepsLeft(i)' < StepsLeft(i)
    OBVIOUS
  <2>1. pc'[i] = "idle" /\ pc[i] # "idle"
    BY OtherMoves DEF Crash
  <2>2. StepsLeft(i)' = 0
    BY <2>1 DEF StepsLeft
  <2> QED
    BY <2>1, <2>2, StepsRemain
<1>5. pc[i] # "idle" => StepsLeft(i)' <= StepsLeft(i)
  <2> SUFFICES ASSUME pc[i] # "idle" PROVE StepsLeft(i)' <= StepsLeft(i)
    OBVIOUS
  <2>1. ASSUME NEW j \in Instances, WorkerStep(j) \/ ProxyFails(j) \/ Crash(j)
        PROVE  StepsLeft(i)' <= StepsLeft(i)
    <3>1. Alone(j)
      BY <2>1, WorkerMoves, OtherMoves
    <3>2. CASE j = i
      BY <1>2, <1>3, <1>4, <2>1, <3>2
    <3>3. CASE j # i
      BY <1>1, <1>2, <3>1, <3>3
    <3> QED
      BY <3>2, <3>3
  <2>2. ASSUME NEW j \in Instances, StartCapture(j)
        PROVE  StepsLeft(i)' <= StepsLeft(i)
    BY <1>1, <1>2, <2>2, OtherMoves
  <2>3. CASE UserEdits \/ UNCHANGED vars \/ \E j \in Instances : RequestStop(j)
    <3>1. UNCHANGED <<pc, why, port, step>>
      BY <2>3, OtherMoves
    <3>2. StepsLeft(i)' = StepsLeft(i)
      BY <3>1 DEF StepsLeft
    <3> QED
      BY <3>2, <1>2
  <2> QED
    BY <2>1, <2>2, <2>3 DEF Next
<1> QED
  BY <1>3, <1>4, <1>5

\* A worker that recovers what an earlier capture left.
Recovering(i) ==
    why[i] = "recover" /\ pc[i] \in {"recovering", "restore", "read", "write", "remove"}

\* It does not give up for nothing.
LEMMA RecoveryEnds ==
    ASSUME TypeOK, [Next]_vars, NEW i \in Instances, Recovering(i), ~Recovering(i)'
    PROVE  file \in {NoFile, Torn} \/ file' = NoFile \/ faults' > faults
<1>1. ASSUME NEW j \in Instances, Alone(j), i # j PROVE FALSE
  BY <1>1 DEF Alone, Recovering
<1>2. CASE RecoverIfNeeded(i)
  BY <1>2 DEF RecoverIfNeeded, Recovering, Goto, TypeOK
<1>3. CASE Restore(i)
  BY <1>3 DEF Restore, Recovering, Goto, Spend, TypeOK, Outcome
<1>4. CASE ReadSnapshot(i)
  BY <1>4 DEF ReadSnapshot, Recovering, Goto, Spend, TypeOK, Outcome
<1>5. CASE RestoreValue(i)
  <2>1. /\ pc[i] = "write" /\ why[i] = "recover" /\ faults \in Nat
        /\ pc \in [Instances -> Labels]
    BY <1>5 DEF RestoreValue, Recovering, TypeOK
  <2>2. PICK ok \in BOOLEAN :
            /\ \/ ~ok
               \/ UNCHANGED <<pc, why>>
               \/ Goto(i, "remove") /\ UNCHANGED why
            /\ faults' = IF ok THEN faults ELSE faults + 1
    BY <1>5, <2>1, OutcomeFacts DEF RestoreValue, SetError, Spend
  <2> QED
    BY <2>1, <2>2 DEF Recovering, Goto
<1>6. CASE RemoveSnapshot(i)
  BY <1>6 DEF RemoveSnapshot, Recovering, Goto, Spend, TypeOK, Outcome
<1>7. CASE Crash(i)
  BY <1>7 DEF Crash, Spend, TypeOK
<1>8. CASE UserEdits \/ UNCHANGED vars \/ \E j \in Instances : RequestStop(j)
  BY <1>8, OtherMoves DEF Recovering
<1>9. ASSUME WorkerStep(i) \/ ProxyFails(i) \/ StartCapture(i),
             ~RecoverIfNeeded(i), ~Restore(i), ~ReadSnapshot(i), ~RestoreValue(i), ~RemoveSnapshot(i)
      PROVE  FALSE
  BY <1>9 DEF WorkerStep, OwnStep, Prepare, Enable, TruncateSnapshot, SaveSnapshot, Configure, Launch,
              BeginShutdown, GracefulShutdown, ProxyFails, StartCapture, Recovering
<1>10. ASSUME NEW j \in Instances,
              WorkerStep(j) \/ ProxyFails(j) \/ StartCapture(j) \/ Crash(j)
       PROVE  Alone(j)
  BY <1>10, WorkerMoves, OtherMoves
<1> QED
  BY <1>1, <1>2, <1>3, <1>4, <1>5, <1>6, <1>7, <1>8, <1>9, <1>10 DEF Next

----------------------------------------------------------------------------
(* The invariant is inductive.                                             *)

\* What a step of worker i can disturb, when i is the only worker.
Core(i) ==
    /\ ChangesAreRecoverable
    /\ file \in Settings => Saved
    /\ WorkerInv(i) /\ PortInv(i) /\ VerdictInv(i)

\* An error leads to the drop of the manager or out of the worker, where nothing is required
\* of the registry but what the global conjuncts say.
LEMMA FailKeeps ==
    ASSUME TypeOK, NEW i \in Instances, Fail(i)
    PROVE  WorkerInv(i)' /\ PortInv(i)' /\ VerdictInv(i)'
<1>1. \/ pc'[i] = "restore" /\ why'[i] = "drop"
      \/ pc'[i] = "idle" /\ verdict'[i] = "error"
  BY DEF Fail, Leave, Goto, TypeOK
<1> QED
  BY <1>1 DEF WorkerInv, PortInv, VerdictInv

\* When restore() returns, the snapshot is gone.
LEMMA ReturnKeeps ==
    ASSUME TypeOK, NEW i \in Instances, PortInv(i), RestoreReturns(i), file' = NoFile, auto' = auto,
           pc[i] \in {"restore", "remove"}
    PROVE  WorkerInv(i)' /\ PortInv(i)' /\ VerdictInv(i)'
<1>1. \/ /\ why[i] = "recover"
         /\ pc'[i] = IF auto[i] THEN "enable" ELSE "launch"
         /\ UNCHANGED port
      \/ pc'[i] = "idle"
  BY DEF RestoreReturns, Leave, Goto, TypeOK
<1>2. pc'[i] = "launch" => ~auto'[i]
  BY <1>1
<1> QED
  BY <1>1, <1>2, FileAssumption DEF WorkerInv, PortInv, VerdictInv

LEMMA InvStep ==
    ASSUME Quiet, IInv, [Next]_vars
    PROVE  IInv'
<1> TypeOK /\ TypeOK'
  BY TypeStep DEF IInv
<1>a. \A i \in Instances : Core(i)
  BY DEF IInv, Core
<1>b. ASSUME NEW i \in Instances, Core(i)'
      PROVE  IInv'
  BY <1>b DEF Quiet, IInv, Core
<1>c. ASSUME NEW kind \in {"query", "delete", "staleEdit"}
      PROVE  ~MayFail(kind) /\ Outcome(kind) = {TRUE}
  BY DEF Quiet, MayFail, Outcome
<1> USE DEF Goto, Core, Saved
<1>1. ASSUME NEW i \in Instances, StartCapture(i)
      PROVE  Core(i)'
  <2>1. pc'[i] = "starting" /\ UNCHANGED <<reg, own, file>>
    BY <1>1 DEF StartCapture, TypeOK
  <2> QED
    BY <1>a, <2>1 DEF ChangesAreRecoverable, WorkerInv, PortInv, VerdictInv
<1>2. ASSUME NEW i \in Instances, Prepare(i)
      PROVE  Core(i)'
  <2>1. UNCHANGED <<reg, own, file>>
    BY <1>2 DEF Prepare
  <2>2. CASE Fail(i)
    BY <1>a, <2>1, <2>2, FailKeeps DEF ChangesAreRecoverable
  <2>3. CASE ~Fail(i)
    <3>1. pc'[i] = "recovering" /\ port'[i] \in Ports
      BY <1>2, <2>3 DEF Prepare, TypeOK
    <3> QED
      BY <1>a, <2>1, <3>1 DEF ChangesAreRecoverable, WorkerInv, PortInv, VerdictInv
  <2> QED
    BY <2>2, <2>3
<1>3. ASSUME NEW i \in Instances, RecoverIfNeeded(i)
      PROVE  Core(i)'
  <2>1. UNCHANGED <<reg, own, file, auto, port, mem, why>> /\ pc[i] = "recovering"
    BY <1>3 DEF RecoverIfNeeded
  <2>2. pc'[i] = IF file # NoFile THEN "restore" ELSE IF auto[i] THEN "enable" ELSE "launch"
    BY <1>3 DEF RecoverIfNeeded, TypeOK
  <2>3. port[i] \in Ports
    BY <1>a, <2>1 DEF PortInv
  <2>4. WorkerInv(i)'
    BY <2>1, <2>2, FileAssumption DEF WorkerInv
  <2> QED
    BY <1>a, <2>1, <2>2, <2>3, <2>4 DEF ChangesAreRecoverable, PortInv, VerdictInv
<1>4. ASSUME NEW i \in Instances, Restore(i)
      PROVE  Core(i)'
  <2>1. UNCHANGED <<reg, own, file, auto, mem>> /\ pc[i] = "restore"
    BY <1>4 DEF Restore
  <2>2. CASE Fail(i)
    BY <1>a, <2>1, <2>2, FailKeeps DEF ChangesAreRecoverable
  <2>3. CASE RestoreReturns(i) /\ file = NoFile
    BY <1>a, <2>1, <2>3, ReturnKeeps DEF ChangesAreRecoverable
  <2>4. CASE Goto(i, "read") /\ UNCHANGED <<why, port, active, verdict>>
    BY <1>a, <2>1, <2>4 DEF ChangesAreRecoverable, WorkerInv, PortInv, VerdictInv, TypeOK
  <2> QED
    BY <1>4, <2>2, <2>3, <2>4 DEF Restore
<1>5. ASSUME NEW i \in Instances, ReadSnapshot(i)
      PROVE  Core(i)'
  <2>1. UNCHANGED <<reg, own, file, auto>> /\ pc[i] = "read"
    BY <1>5 DEF ReadSnapshot
  <2>2. CASE Fail(i)
    BY <1>a, <2>1, <2>2, FailKeeps DEF ChangesAreRecoverable
  <2>3. CASE ~Fail(i)
    <3>1. /\ file \in Settings
          /\ pc'[i] = "write" /\ mem'[i] = file /\ step'[i] = 1
          /\ UNCHANGED <<why, port, verdict>>
      BY <1>5, <2>3 DEF ReadSnapshot, TypeOK
    <3>2. WorkerInv(i)'
      BY <1>a, <2>1, <3>1 DEF WorkerInv
    <3> QED
      BY <1>a, <2>1, <3>1, <3>2 DEF ChangesAreRecoverable, PortInv, VerdictInv
  <2> QED
    BY <2>2, <2>3
<1>6. ASSUME NEW i \in Instances, RestoreValue(i)
      PROVE  Core(i)'
  <2> DEFINE name == RestoreOrder[step[i]]
             value == mem[i][name]
  <2>1. UNCHANGED <<own, file, auto, mem>> /\ pc[i] = "write"
    BY <1>6 DEF RestoreValue
  <2>2. Saved /\ mem[i] = own
    BY <1>a, <2>1 DEF WorkerInv
  <2>3. PICK ok \in Outcome(IF value = Absent THEN "delete" ELSE "set") : RestoreValue(i)!2!1!(ok)
    BY <1>6 DEF RestoreValue
  <2>4. CASE Fail(i)
    BY <1>a, <2>1, <2>2, <2>4, FailKeeps DEF ChangesAreRecoverable
  <2>5. CASE ~Fail(i)
    <3>1. value = Absent => ok
      BY <1>c
    <3>2. ok
      BY <2>3, <2>5, <3>1 DEF SetError
    <3>3. reg' = [reg EXCEPT ![name] = own[name]]
      BY <2>2, <2>3, <3>2
    <3>4. \A k \in 1..5 : k <= step[i] => reg'[RestoreOrder[k]] = own'[RestoreOrder[k]]
      <4>1. \A k \in 1..5 : k < step[i] => reg[RestoreOrder[k]] = own[RestoreOrder[k]]
        BY <1>a, <2>1 DEF WorkerInv
      <4>2. step[i] \in 1..5 /\ name \in Names /\ reg \in [Names -> Values]
        BY OrderFacts DEF TypeOK, Settings
      <4>3. \A k \in 1..5 : RestoreOrder[k] \in Names
        BY OrderFacts
      <4> HIDE DEF name
      <4>4. ASSUME NEW k \in 1..5, k <= step[i]
            PROVE  reg'[RestoreOrder[k]] = own'[RestoreOrder[k]]
        <5>1. CASE k = step[i]
          BY <2>1, <3>3, <4>2, <5>1 DEF name
        <5>2. CASE k < step[i]
          BY <2>1, <3>3, <4>1, <4>2, <4>3, <5>2
        <5> QED
          BY <4>2, <4>4, <5>1, <5>2
      <4> QED
        BY <4>4
    <3>5. CASE step[i] < LastStep
      <4>1. /\ step' = [step EXCEPT ![i] = @ + 1]
            /\ UNCHANGED <<pc, why, port, active, verdict>>
        BY <2>3, <3>2, <3>5 DEF SetError
      <4>2. step'[i] = step[i] + 1 /\ step[i] \in 1..5
        BY <4>1 DEF TypeOK
      <4>3. \A k \in 1..5 : k < step'[i] => reg'[RestoreOrder[k]] = own'[RestoreOrder[k]]
        BY <3>4, <4>2
      <4>4. WorkerInv(i)'
        BY <2>1, <2>2, <4>1, <4>3 DEF WorkerInv
      <4> QED
        BY <1>a, <2>1, <2>2, <4>1, <4>4 DEF ChangesAreRecoverable, PortInv, VerdictInv
    <3>6. CASE ~(step[i] < LastStep)
      <4>1. /\ pc'[i] = "remove"
            /\ UNCHANGED <<why, port, active, verdict>>
        BY <2>3, <2>5, <3>2, <3>6 DEF SetError, TypeOK
      <4>2. step[i] = 5
        BY <3>6 DEF LastStep, TypeOK
      <4>3. reg' = own'
        <5>1. \A k \in 1..5 : reg'[RestoreOrder[k]] = own'[RestoreOrder[k]]
          BY <3>4, <4>2
        <5>2. reg' \in Settings /\ own' \in Settings
          BY DEF TypeOK
        <5> QED
          BY <5>1, <5>2, Agreement
      <4>4. WorkerInv(i)'
        BY <2>1, <2>2, <4>1, <4>3 DEF WorkerInv
      <4> QED
        BY <1>a, <2>1, <2>2, <4>1, <4>3, <4>4 DEF ChangesAreRecoverable, PortInv, VerdictInv
    <3> QED
      BY <3>5, <3>6
  <2> QED
    BY <2>4, <2>5
<1>7. ASSUME NEW i \in Instances, RemoveSnapshot(i)
      PROVE  Core(i)'
  <2>1. UNCHANGED <<reg, own, auto, mem>> /\ pc[i] = "remove"
    BY <1>7 DEF RemoveSnapshot
  <2>2. CASE Fail(i) /\ UNCHANGED file
    BY <1>a, <2>1, <2>2, FailKeeps DEF ChangesAreRecoverable
  <2>3. CASE RestoreReturns(i) /\ file' = NoFile
    <3>1. reg = own
      BY <1>a, <2>1 DEF WorkerInv
    <3> QED
      BY <1>a, <2>1, <2>3, <3>1, ReturnKeeps, FileAssumption DEF ChangesAreRecoverable
  <2> QED
    BY <1>7, <2>2, <2>3 DEF RemoveSnapshot
<1>8. ASSUME NEW i \in Instances, Enable(i)
      PROVE  Core(i)'
  <2>1. UNCHANGED <<reg, own, file, auto>> /\ pc[i] = "enable"
    BY <1>8 DEF Enable
  <2>2. CASE Fail(i)
    BY <1>a, <2>1, <2>2, FailKeeps DEF ChangesAreRecoverable
  <2>3. CASE ~Fail(i)
    <3>1. PICK unread \in {{}} \cup {{n} : n \in {m \in Names : MayFail("query")}} :
            mem' = [mem EXCEPT ![i] = [n \in Names |-> IF n \in unread THEN Absent ELSE reg[n]]]
      BY <1>8, <2>3 DEF Enable
    <3>2. unread = {}
      BY <1>c
    <3>3. mem'[i] = reg
      BY <3>1, <3>2 DEF TypeOK, Settings
    <3>4. pc'[i] = "save" /\ UNCHANGED <<why, port, verdict>>
      BY <1>8, <2>3 DEF Enable, TypeOK
    <3>5. WorkerInv(i)'
      BY <1>a, <2>1, <3>3, <3>4 DEF WorkerInv
    <3> QED
      BY <1>a, <2>1, <3>4, <3>5 DEF ChangesAreRecoverable, PortInv, VerdictInv
  <2> QED
    BY <2>2, <2>3
<1>9. ASSUME NEW i \in Instances, TruncateSnapshot(i)
      PROVE  Core(i)'
  <2>1. UNCHANGED <<reg, own, auto, mem>> /\ pc[i] = "save"
    BY <1>9 DEF TruncateSnapshot
  <2>2. file \notin Settings /\ mem[i] = reg /\ reg = own
    BY <1>a, <2>1 DEF WorkerInv, ChangesAreRecoverable, TypeOK
  <2>3. CASE Fail(i) /\ UNCHANGED file
    BY <1>a, <2>1, <2>3, FailKeeps DEF ChangesAreRecoverable
  <2>4. CASE ~(Fail(i) /\ UNCHANGED file)
    <3>1. file' = Torn /\ pc'[i] = "saving" /\ UNCHANGED <<why, port, verdict>>
      BY <1>9, <2>4 DEF TruncateSnapshot, TypeOK
    <3> QED
      BY <1>a, <2>1, <2>2, <3>1, FileAssumption
         DEF ChangesAreRecoverable, WorkerInv, PortInv, VerdictInv
  <2> QED
    BY <2>3, <2>4
<1>10. ASSUME NEW i \in Instances, SaveSnapshot(i)
       PROVE  Core(i)'
  <2>1. UNCHANGED <<reg, own, auto, mem>> /\ pc[i] = "saving"
    BY <1>10 DEF SaveSnapshot
  <2>2. file \notin Settings /\ mem[i] = reg /\ reg = own
    BY <1>a, <2>1 DEF WorkerInv, ChangesAreRecoverable, TypeOK
  <2>3. CASE Fail(i) /\ UNCHANGED file
    BY <1>a, <2>1, <2>3, FailKeeps DEF ChangesAreRecoverable
  <2>4. CASE ~(Fail(i) /\ UNCHANGED file)
    <3>1. /\ file' = mem[i] /\ pc'[i] = "configure" /\ step'[i] = 1
          /\ UNCHANGED <<why, port, verdict>>
      BY <1>10, <2>4 DEF SaveSnapshot, TypeOK
    <3>2. auto[i]
      BY <1>a, <2>1 DEF WorkerInv
    <3>3. WorkerInv(i)'
      BY <2>1, <2>2, <3>1, <3>2 DEF WorkerInv
    <3> QED
      BY <1>a, <2>1, <2>2, <3>1, <3>3 DEF ChangesAreRecoverable, PortInv, VerdictInv
  <2> QED
    BY <2>3, <2>4
<1>11. ASSUME NEW i \in Instances, Configure(i)
       PROVE  Core(i)'
  <2> DEFINE name == ConfigureOrder[step[i]]
             value == Captured(port[i])[name]
  <2>1. UNCHANGED <<own, file, auto, port, mem, verdict>> /\ pc[i] = "configure"
    BY <1>11 DEF Configure
  <2>2. Saved /\ auto[i] /\ port[i] \in Ports
    BY <1>a, <2>1 DEF WorkerInv, PortInv
  <2>3. PICK ok \in Outcome(IF value = Absent THEN "delete" ELSE "set") : Configure(i)!2!1!(ok)
    BY <1>11 DEF Configure
  <2>4. CASE ~ok
    <3>1. value # Absent
      BY <1>c, <2>4
    <3>2. pc'[i] = "read" /\ why'[i] = "undo"
      BY <2>3, <2>4, <3>1 DEF SetError, TypeOK
    <3> QED
      BY <1>a, <2>1, <2>2, <3>2 DEF ChangesAreRecoverable, WorkerInv, PortInv, VerdictInv
  <2>5. CASE ok
    <3>1. reg' = [reg EXCEPT ![name] = value]
      BY <2>3, <2>5
    <3>2. \A k \in 1..5 : k <= step[i] =>
            reg'[ConfigureOrder[k]] = Captured(port'[i])[ConfigureOrder[k]]
      <4>1. \A k \in 1..5 : k < step[i] =>
              reg[ConfigureOrder[k]] = Captured(port[i])[ConfigureOrder[k]]
        BY <1>a, <2>1 DEF WorkerInv
      <4>2. step[i] \in 1..5 /\ name \in Names /\ reg \in [Names -> Values]
        BY OrderFacts DEF TypeOK, Settings
      <4>3. \A k \in 1..5 : ConfigureOrder[k] \in Names
        BY OrderFacts
      <4>4. ASSUME NEW k \in 1..5, k <= step[i]
            PROVE  reg'[ConfigureOrder[k]] = Captured(port[i])[ConfigureOrder[k]]
        <5>1. CASE k = step[i]
          BY <3>1, <4>2, <5>1
        <5>2. CASE k # step[i]
          <6>1. ConfigureOrder[k] # name /\ k < step[i]
            BY <4>2, <4>4, <5>2, OrderFacts
          <6> QED
            BY <3>1, <4>1, <4>2, <4>3, <6>1
        <5> QED
          BY <5>1, <5>2
      <4> QED
        BY <2>1, <4>4
    <3>3. CASE step[i] < LastStep
      <4>1. step' = [step EXCEPT ![i] = @ + 1] /\ UNCHANGED <<pc, why, active>>
        BY <2>3, <2>5, <3>3 DEF SetError
      <4>2. step'[i] = step[i] + 1 /\ step[i] \in 1..5
        BY <4>1 DEF TypeOK
      <4>3. \A k \in 1..5 : k < step'[i] =>
              reg'[ConfigureOrder[k]] = Captured(port'[i])[ConfigureOrder[k]]
        BY <3>2, <4>2
      <4>4. WorkerInv(i)'
        BY <2>1, <2>2, <4>1, <4>3 DEF WorkerInv
      <4> QED
        BY <1>a, <2>1, <2>2, <4>1, <4>4 DEF ChangesAreRecoverable, PortInv, VerdictInv
    <3>4. CASE ~(step[i] < LastStep)
      <4>1. pc'[i] = "launch" /\ UNCHANGED why
        BY <2>3, <2>5, <3>4 DEF SetError, TypeOK
      <4>2. step[i] = 5
        BY <3>4 DEF LastStep, TypeOK
      <4>3. reg' = Captured(port'[i])
        <5>1. \A k \in 1..5 : reg'[ConfigureOrder[k]] = Captured(port'[i])[ConfigureOrder[k]]
          BY <3>2, <4>2
        <5>2. reg' \in Settings /\ Captured(port'[i]) \in Settings
          BY <2>1, <2>2, CapturedType DEF TypeOK
        <5> QED
          BY <5>1, <5>2, Agreement
      <4>4. WorkerInv(i)'
        BY <1>a, <2>1, <2>2, <4>1, <4>3 DEF WorkerInv
      <4> QED
        BY <1>a, <2>1, <2>2, <4>1, <4>4 DEF ChangesAreRecoverable, PortInv, VerdictInv
    <3> QED
      BY <3>3, <3>4
  <2> QED
    BY <1>c, <2>4, <2>5
<1>12. ASSUME NEW i \in Instances, Launch(i)
       PROVE  Core(i)'
  <2>1. UNCHANGED <<reg, own, file, auto, mem>> /\ pc[i] = "launch"
    BY <1>12 DEF Launch
  <2>2. CASE Fail(i)
    BY <1>a, <2>1, <2>2, FailKeeps DEF ChangesAreRecoverable
  <2>3. CASE ~Fail(i)
    <3>1. pc'[i] = "serving" /\ UNCHANGED <<why, port, verdict>>
      BY <1>12, <2>3 DEF Launch, TypeOK
    <3> QED
      BY <1>a, <2>1, <3>1 DEF ChangesAreRecoverable, WorkerInv, PortInv, VerdictInv
  <2> QED
    BY <2>2, <2>3
<1>13. ASSUME NEW i \in Instances, GracefulShutdown(i) \/ ProxyFails(i)
       PROVE  Core(i)'
  <2>1. UNCHANGED <<reg, own, file, auto, mem>> /\ pc[i] \in {"serving", "draining"}
    BY <1>13 DEF GracefulShutdown, ProxyFails
  <2>2. why'[i] = "stop" /\ pc'[i] = IF auto[i] THEN "restore" ELSE "idle"
    BY <1>13 DEF GracefulShutdown, ProxyFails, EndServing, TypeOK
  <2>3. ~auto[i] => file = NoFile
    BY <1>a, <2>1 DEF WorkerInv
  <2> QED
    BY <1>a, <2>1, <2>2, <2>3 DEF ChangesAreRecoverable, WorkerInv, PortInv, VerdictInv
<1>14. ASSUME NEW i \in Instances, RequestStop(i)
       PROVE  Core(i)'
  BY <1>a, <1>14 DEF RequestStop, ChangesAreRecoverable, WorkerInv, PortInv, VerdictInv
<1>15. ASSUME NEW i \in Instances, Crash(i)
       PROVE  Core(i)'
  <2>1. UNCHANGED <<reg, own, file>> /\ pc'[i] = "idle" /\ verdict'[i] = "none"
    BY <1>15 DEF Crash, Leave, TypeOK
  <2> QED
    BY <1>a, <2>1 DEF ChangesAreRecoverable, WorkerInv, PortInv, VerdictInv
<1>16. CASE UserEdits
  <2>1. file = NoFile /\ UNCHANGED file /\ own' = reg'
    BY <1>16 DEF UserEdits, Quiet
  <2>2. \A i \in Instances : pc'[i] = "idle"
    BY <1>16 DEF UserEdits, worker
  <2>3. \A i \in Instances : WorkerInv(i)' /\ PortInv(i)' /\ VerdictInv(i)'
    BY <2>1, <2>2 DEF WorkerInv, PortInv, VerdictInv
  <2> QED
    BY <2>1, <2>3, FileAssumption DEF IInv, ChangesAreRecoverable
<1>17. CASE UNCHANGED vars
  BY <1>a, <1>17 DEF vars, worker, IInv, ChangesAreRecoverable, WorkerInv, PortInv, VerdictInv
<1>18. ASSUME NEW i \in Instances, BeginShutdown(i)
       PROVE  Core(i)'
  <2>1. /\ UNCHANGED <<reg, own, file, auto, port, verdict>>
        /\ pc[i] = "serving" /\ pc'[i] = "draining"
    BY <1>18 DEF BeginShutdown, TypeOK
  <2> QED
    BY <1>a, <2>1 DEF ChangesAreRecoverable, WorkerInv, PortInv, VerdictInv
<1> QED
  BY <1>1, <1>2, <1>3, <1>4, <1>5, <1>6, <1>7, <1>8, <1>9, <1>10, <1>11, <1>12, <1>13, <1>14,
     <1>15, <1>16, <1>17, <1>18, <1>b DEF Next, WorkerStep, OwnStep

----------------------------------------------------------------------------
(* The theorems.                                                           *)

LEMMA InitIInv == Init => IInv
<1> SUFFICES ASSUME Init
             PROVE  IInv
  OBVIOUS
<1>1. TypeOK
  BY ValuesAssumption DEF Init, TypeOK, Labels, Callers
<1> QED
  BY <1>1, FileAssumption DEF Init, IInv, ChangesAreRecoverable, WorkerInv, PortInv, VerdictInv, Saved

\* Every reachable state of the workers satisfies the inductive invariant.
THEOREM Invariance ==
    ASSUME Quiet
    PROVE  Spec => []IInv
<1>1. IInv /\ [Next]_vars => IInv'
  BY InvStep
<1> QED
  BY InitIInv, <1>1, PTL DEF Spec

\* The variables keep their types, for any number of processes and whatever fails.
THEOREM TypeCorrect == Spec => []TypeOK
<1> DEFINE Ports2 == \A i \in Instances : PortInv(i)
<1>1. Init => TypeOK /\ Ports2
  BY InitIInv DEF IInv
<1>2. TypeOK /\ Ports2 /\ [Next]_vars => TypeOK' /\ Ports2'
  BY TypeStep, PortStep
<1> HIDE DEF Ports2
<1> QED
  BY <1>1, <1>2, PTL DEF Spec

\* No worker goes on taking steps for ever, for any number of processes and whatever fails: each of
\* its steps, and a proxy that fails, takes one of at most 62 steps away, and nothing else gives it
\* more (the `?` of run_capture, restore() within drop, the undo of enable()).  That it takes them
\* is fairness, and where it waits for the user or for clients not even that.
THEOREM WorkersEnd ==
    Spec => /\ [](\A i \in Instances : StepsLeft(i) \in 0..62)
            /\ [][\A i \in Instances :
                    /\ WorkerStep(i) \/ ProxyFails(i) \/ Crash(i) => StepsLeft(i)' < StepsLeft(i)
                    /\ pc[i] # "idle" => StepsLeft(i)' <= StepsLeft(i)]_vars
<1>1. TypeOK => \A i \in Instances : StepsLeft(i) \in 0..62
  BY StepsBounded
<1>2. TypeOK /\ TypeOK' /\ [Next]_vars =>
        [\A i \in Instances :
                    /\ WorkerStep(i) \/ ProxyFails(i) \/ Crash(i) => StepsLeft(i)' < StepsLeft(i)
                    /\ pc[i] # "idle" => StepsLeft(i)' <= StepsLeft(i)]_vars
  BY StepsCount
<1> QED
  BY <1>1, <1>2, TypeCorrect, PTL DEF Spec

\* A worker that finds a snapshot puts it back, for any number of processes: it leaves the recovery
\* only when the snapshot is gone or cannot be read, or when a call failed or the process died
\* (recover_if_needed, restore).
THEOREM RecoveryIsCarriedThrough ==
    Spec => [][\A i \in Instances :
                 Recovering(i) /\ ~Recovering(i)' =>
                    file \in {NoFile, Torn} \/ file' = NoFile \/ faults' > faults]_vars
<1>1. TypeOK /\ [Next]_vars =>
        [\A i \in Instances :
                 Recovering(i) /\ ~Recovering(i)' =>
                    file \in {NoFile, Torn} \/ file' = NoFile \/ faults' > faults]_vars
  BY RecoveryEnds
<1> QED
  BY <1>1, TypeCorrect, PTL DEF Spec

\* Whatever fails and whenever the process dies, the settings of the user that are not in the
\* registry are in proxy-restore.json (WindowsProxyManager::enable and restore).
THEOREM Recoverability ==
    ASSUME Quiet
    PROVE  Spec => []ChangesAreRecoverable
<1>1. IInv => ChangesAreRecoverable
  BY DEF IInv
<1> QED
  BY Invariance, <1>1, PTL

\* A capture that reports a clean stop leaves the user's settings and no snapshot
\* (the end of run_capture).
THEOREM CleanStop ==
    ASSUME Quiet
    PROVE  Spec => []CleanStopRestores
<1>1. IInv => CleanStopRestores
  BY FileAssumption DEF IInv, ChangesAreRecoverable, CleanStopRestores, VerdictInv, TypeOK
<1> QED
  BY Invariance, <1>1, PTL

\* A serving capture that configures the proxy has all five values in place (the configure
\* closure of enable()).
THEOREM Configured ==
    ASSUME Quiet
    PROVE  Spec => []ServingIsConfigured
<1>1. IInv => ServingIsConfigured
  BY DEF IInv, WorkerInv, ServingIsConfigured
<1> QED
  BY Invariance, <1>1, PTL

----------------------------------------------------------------------------
(* The workers implement the promise.                                      *)

LEMMA InitRefines == Init => Reversible!Init
BY ValuesAssumption, FileAssumption DEF Init, Reversible!Init

\* A step that leaves the snapshot readable, or unreadable, and keeps or changes the registry.
LEMMA StepRefines ==
    ASSUME Quiet, IInv, [Next]_vars
    PROVE  [Reversible!Next]_<<reg, IF file \in Settings THEN file ELSE NoFile>>
<1> TypeOK /\ TypeOK' /\ IInv'
  BY TypeStep, InvStep DEF IInv
<1> DEFINE backup == IF file \in Settings THEN file ELSE NoFile
<1> USE DEF Reversible!Next
<1>1. CASE UNCHANGED <<reg, file>>
  BY <1>1
<1>2. CASE UNCHANGED file /\ file \in Settings
  <2>1. backup' = backup /\ backup # NoFile /\ reg' \in Settings
    BY <1>2, FileAssumption DEF TypeOK
  <2> QED
    BY <2>1 DEF Reversible!Change
<1>3. CASE UNCHANGED file /\ file \notin Settings
  <2>1. backup' = backup /\ backup = NoFile /\ reg' \in Settings
    BY <1>3 DEF TypeOK
  <2> QED
    BY <2>1 DEF Reversible!Edit
<1>4. ASSUME NEW i \in Instances, RemoveSnapshot(i)
      PROVE  [Reversible!Next]_<<reg, backup>>
  <2>1. file = own /\ reg = own /\ own \in Settings /\ UNCHANGED reg
    BY <1>4 DEF RemoveSnapshot, IInv, WorkerInv, Saved, TypeOK
  <2>2. file' = NoFile \/ UNCHANGED file
    BY <1>4 DEF RemoveSnapshot
  <2>3. CASE file' = NoFile
    BY <2>1, <2>3, FileAssumption DEF Reversible!Discard
  <2> QED
    BY <1>1, <2>1, <2>2, <2>3
<1>5. ASSUME NEW i \in Instances, TruncateSnapshot(i)
      PROVE  [Reversible!Next]_<<reg, backup>>
  <2>1. file \notin Settings /\ UNCHANGED reg
    BY <1>5 DEF TruncateSnapshot, IInv, WorkerInv
  <2>2. file' \notin Settings
    BY <1>5, <2>1, FileAssumption DEF TruncateSnapshot
  <2> QED
    BY <2>1, <2>2
<1>6. ASSUME NEW i \in Instances, SaveSnapshot(i)
      PROVE  [Reversible!Next]_<<reg, backup>>
  <2>1. file \notin Settings /\ mem[i] = reg /\ UNCHANGED reg /\ reg \in Settings
    BY <1>6 DEF SaveSnapshot, IInv, WorkerInv, TypeOK
  <2>2. file' = reg \/ UNCHANGED file
    BY <1>6, <2>1 DEF SaveSnapshot
  <2>3. CASE file' = reg
    BY <2>1, <2>3 DEF Reversible!Save
  <2> QED
    BY <1>1, <2>1, <2>2, <2>3
<1>7. ASSUME NEW i \in Instances, WorkerStep(i),
             ~RemoveSnapshot(i), ~TruncateSnapshot(i), ~SaveSnapshot(i)
      PROVE  UNCHANGED file
  BY <1>7 DEF WorkerStep, OwnStep, Prepare, RecoverIfNeeded, Restore, ReadSnapshot, RestoreValue,
              Enable, Configure, Launch, BeginShutdown, GracefulShutdown
<1>8. ASSUME NEW i \in Instances,
             StartCapture(i) \/ ProxyFails(i) \/ RequestStop(i) \/ Crash(i)
      PROVE  UNCHANGED file
  BY <1>8 DEF StartCapture, ProxyFails, RequestStop, Crash
<1>9. UserEdits \/ UNCHANGED vars => UNCHANGED file
  BY DEF UserEdits, vars
<1> QED
  BY <1>2, <1>3, <1>4, <1>5, <1>6, <1>7, <1>8, <1>9 DEF Next

\* The workers of capture.rs, step by step, keep the promise of ReversibleChange.
THEOREM Implementation ==
    ASSUME Quiet
    PROVE  Spec => ImplementsReversibleChange
<1>1. IInv /\ [Next]_vars => [Reversible!Next]_<<reg, IF file \in Settings THEN file ELSE NoFile>>
  BY StepRefines
<1> QED
  BY Invariance, InitRefines, <1>1, PTL DEF Spec, ImplementsReversibleChange, Reversible!Spec
=============================================================================
