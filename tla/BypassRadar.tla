---------------------------- MODULE BypassRadar ----------------------------
(***************************************************************************)
(* Who opened a connection: the two caches between a client address and    *)
(* the name of a process (platform.rs), asked by the tasks of the worker;  *)
(* and the table of connections that bypass the proxy, filled by snapshots *)
(* a background thread takes for the UI thread (ui.rs).  Processes come    *)
(* and go, the system uses ports and process numbers again, and each call  *)
(* that asks it for one thing finds it as it is by then, or fails.         *)
(***************************************************************************)
EXTENDS Integers, FiniteSets

CONSTANTS
    Ports, Pids, Names, Tasks,
    Nobody,             \* no process, no name
    Ttl,                \* CACHE_TTL, 60 seconds
    Retention, MaxRows, \* 30 minutes, 5000 rows
    Slack,              \* assumed: how long a lookup or the taking of a snapshot lasts at most
    MaxTime, Budget     \* bounds: the clock; changes of the system, faults, lookups and clicks

Operations == {"changes", "faults", "requests"}
ASSUME TimesAssumption ==
    /\ Ttl \in Nat \ {0} /\ {Retention, Slack, MaxTime} \subseteq Nat
    /\ MaxRows \in Nat \ {0} /\ Budget \in [Operations -> Nat]
ASSUME NobodyAssumption == Nobody \notin Pids /\ Nobody \notin Names

VARIABLES
    clock,
    table, image,       \* the system: its TCP table, and what runs under a pid
    ports, pids,        \* PROCESS_CACHE and PID_CACHE: sets of entries, one per address or pid
    task,               \* a task that looks up a port, and how far it is
    answers,            \* history: the last answer given at this time
    rows,               \* bypass_connections
    polling,            \* bypass_polling
    job,                \* the background thread: rows of the TCP table to inspect, the one whose
                        \* process was opened last, and the rows it made
    tables, images,     \* history: the system as it was at each time
    failed,             \* history: when the table could not be read, or a pid not be opened
    left                \* bound

system == <<table, image, tables, images>>
lookups == <<ports, pids, task>>
caches == <<lookups, answers>>
radar == <<rows, polling, job>>
vars == <<clock, system, caches, radar, failed, left>>

Times == 0..MaxTime
Named == Names \cup {Nobody}
\* A row of the TCP table; it is direct if it is an established connection, of another program than
\* this one, that neither stays on the machine nor goes to the proxy.
Conns == [port : Ports, pid : Pids, direct : BOOLEAN]
PortEntries == [port : Ports, pid : Pids \cup {Nobody}, name : Named, at : Times]
PidEntries == [pid : Pids, name : Named, at : Times]
Rows == [port : Ports, pid : Pids, name : Named, first : Times, last : Times]
NoTask == [stage |-> "none"]
Lookups ==
    [stage : {"asked", "owned", "unknown", "opened", "found"}, port : Ports,
     pid : Pids \cup {Nobody}, name : Named, since : Times]
NoJob == [stage |-> "none", since |-> 0, todo |-> {}, open |-> {}, rows |-> {}]
Jobs ==
    [stage : {"none", "queued", "taken"}, since : Times, todo : SUBSET Conns,
     open : SUBSET [port : Ports, pid : Pids, name : Named], rows : SUBSET Rows]

TypeOK ==
    /\ clock \in Times /\ table \subseteq Conns /\ image \in [Pids -> Named]
    /\ ports \subseteq PortEntries /\ pids \subseteq PidEntries /\ rows \subseteq Rows
    /\ \A e, f \in ports : e.port = f.port => e = f
    /\ \A e, f \in pids : e.pid = f.pid => e = f
    /\ \A r, s \in rows : r.port = s.port /\ r.pid = s.pid => r = s
    /\ Cardinality(rows) <= MaxRows
    /\ task \in [Tasks -> Lookups \cup {NoTask}]
    /\ polling \in BOOLEAN
    /\ job \in Jobs /\ (job.stage # "none" => polling)
    /\ left \in [Operations -> Nat]

Init ==
    /\ clock = 0 /\ table = {} /\ image \in [Pids -> Named]
    /\ ports = {} /\ pids = {} /\ task = [t \in Tasks |-> NoTask] /\ answers = {}
    /\ rows = {} /\ polling = FALSE /\ job = NoJob
    /\ tables = {[at |-> 0, conns |-> table]} /\ images = {[at |-> 0, image |-> image]}
    /\ failed = {} /\ left = Budget

Spend(operation) == left[operation] > 0 /\ left' = [left EXCEPT ![operation] = @ - 1]

----------------------------------------------------------------------------
(* The system. *)

Noted ==
    /\ tables' = tables \cup {[at |-> clock', conns |-> table']}
    /\ images' = images \cup {[at |-> clock', image |-> image']}

\* No lookup, and no taking of a snapshot, lasts longer than Slack.
Tick ==
    /\ clock < MaxTime /\ clock' = clock + 1
    /\ \A t \in Tasks : task[t] # NoTask => clock - task[t].since < Slack
    /\ job.todo \cup job.open # {} => clock - job.since < Slack
    /\ answers' = {}
    /\ UNCHANGED <<table, image, lookups, radar, failed, left>> /\ Noted

\* A connection of a running process opens, or one closes.
TableChanges ==
    /\ Spend("changes")
    /\ \/ \E c \in Conns \ table : image[c.pid] # Nobody /\ table' = table \cup {c}
       \/ \E c \in table : table' = table \ {c}
    /\ UNCHANGED <<clock, image, caches, radar, failed>> /\ Noted

\* A process ends, its connections with it, and its number may go to another.
PidChanges ==
    /\ Spend("changes")
    /\ \E pid \in Pids, name \in Named :
          /\ image[pid] # Nobody \/ name # Nobody
          /\ image' = [image EXCEPT ![pid] = name]
          /\ table' = {c \in table : c.pid # pid}
    /\ UNCHANGED <<clock, caches, radar, failed>> /\ Noted

\* What a call of the program may find: the system as it is now, or nothing when the call fails.
Fault(what) == Spend("faults") /\ failed' = failed \cup {<<clock, what>>}

\* tcp_rows: no rows when either call of GetTcpTable2 fails, as when the table grew in between.
Reads(conns) == \/ conns = table /\ UNCHANGED <<failed, left>>
                \/ conns = {} /\ Fault(Nobody)

\* OpenProcess and the name of its image: there is none when no such process runs, or it may not
\* be opened.
Opens(pid, name) == \/ name = image[pid] /\ UNCHANGED <<failed, left>>
                    \/ name = Nobody /\ Fault(pid)

----------------------------------------------------------------------------
(* resolve_client: each of its calls finds the caches and the system as they are by then. *)

\* Mutant: the entry at the edge is still used.
YoungEnough(e) == clock - e.at <= Ttl
Young(e) == clock - e.at < Ttl

Answer(port, pid, name) == answers' = {[port |-> port, pid |-> pid, name |-> name]}

Hit(t) ==
    /\ task[t] = NoTask
    /\ \E e \in ports : Young(e) /\ Answer(e.port, e.pid, e.name)
    /\ UNCHANGED <<clock, system, lookups, radar, failed, left>>

Miss(t) ==
    /\ task[t] = NoTask /\ Spend("requests")
    /\ \E port \in Ports :
          /\ ~\E e \in ports : e.port = port /\ Young(e)
          /\ task' = [task EXCEPT ![t] = [stage |-> "asked", port |-> port, pid |-> Nobody,
                                         name |-> Nobody, since |-> clock]]
    /\ UNCHANGED <<clock, system, ports, pids, answers, radar, failed>>

\* owning_pid: that of the first row with the local port, whatever its address and state.
Owners(conns, port) ==
    LET of == {c.pid : c \in {d \in conns : d.port = port}} IN IF of = {} THEN {Nobody} ELSE of

FindOwner(t) ==
    /\ task[t].stage = "asked"
    /\ \E conns \in {table, {}} :
          /\ Reads(conns)
          /\ \E pid \in Owners(conns, task[t].port) :
                task' = [task EXCEPT ![t].pid = pid,
                                     ![t].stage = IF pid = Nobody THEN "found" ELSE "owned"]
    /\ UNCHANGED <<clock, system, ports, pids, answers, radar>>

\* cached_process_identity; the cache is not locked while the process is opened.
Recall(t) ==
    /\ task[t].stage = "owned"
    /\ LET known == {e \in pids : e.pid = task[t].pid /\ Young(e)}
       IN \/ \E e \in known : task' = [task EXCEPT ![t].name = e.name, ![t].stage = "found"]
          \/ known = {} /\ task' = [task EXCEPT ![t].stage = "unknown"]
    /\ UNCHANGED <<clock, system, ports, pids, answers, radar, failed, left>>

\* process_identity
OpenProcess(t) ==
    /\ task[t].stage = "unknown"
    /\ \E name \in Named : /\ Opens(task[t].pid, name)
                           /\ task' = [task EXCEPT ![t].name = name, ![t].stage = "opened"]
    /\ UNCHANGED <<clock, system, ports, pids, answers, radar>>

\* The time of an entry is that of its insertion, and what could not be found is remembered too.
\* (Entries leave only when a map is full, which is not a matter of their answers.)
InsertPid(t) ==
    /\ task[t].stage = "opened" /\ task' = [task EXCEPT ![t].stage = "found"]
    /\ pids' = {e \in pids : e.pid # task[t].pid}
                 \cup {[pid |-> task[t].pid, name |-> task[t].name, at |-> clock]}
    /\ UNCHANGED <<clock, system, ports, answers, radar, failed, left>>

InsertPort(t) ==
    /\ task[t].stage = "found" /\ task' = [task EXCEPT ![t] = NoTask]
    /\ ports' = {e \in ports : e.port # task[t].port}
                  \cup {[port |-> task[t].port, pid |-> task[t].pid, name |-> task[t].name,
                         at |-> clock]}
    /\ Answer(task[t].port, task[t].pid, task[t].name)
    /\ UNCHANGED <<clock, system, pids, radar, failed, left>>

----------------------------------------------------------------------------
(* The radar. *)

\* poll_bypass_connections, one snapshot at a time; at intervals, but Refresh asks for it at any
\* time. spawn_background drops its errors: when there is no thread, nothing is sent and polling
\* stays set.
Poll ==
    /\ ~polling /\ polling' = TRUE /\ Spend("requests")
    /\ job' = [NoJob EXCEPT !.stage = "queued"]
    /\ UNCHANGED <<clock, system, caches, rows, failed>>
SpawnFails ==
    /\ ~polling /\ polling' = TRUE /\ Spend("requests")
    /\ UNCHANGED <<clock, system, caches, rows, job, failed>>

\* snapshot_bypass_connections: the table first, then its direct rows one by one.
Snapshot ==
    /\ job.stage = "queued"
    /\ \E conns \in {table, {}} :
          /\ Reads(conns)
          /\ job' = [job EXCEPT !.stage = "taken", !.since = clock,
                                !.todo = {c \in conns : c.direct}]
    /\ UNCHANGED <<clock, system, caches, rows, polling>>

\* basic_process_identity of a row; its names are not cached.
Inspect ==
    /\ job.open = {}
    /\ \E c \in job.todo, name \in Named :
          /\ Opens(c.pid, name)
          /\ job' = [job EXCEPT !.todo = @ \ {c},
                                !.open = {[port |-> c.port, pid |-> c.pid, name |-> name]}]
    /\ UNCHANGED <<clock, system, caches, rows, polling>>

\* The time of a row is taken after its process was opened.
Stamp ==
    /\ \E o \in job.open :
          job' = [job EXCEPT !.open = {},
                             !.rows = @ \cup {[port |-> o.port, pid |-> o.pid, name |-> o.name,
                                               first |-> clock, last |-> clock]}]
    /\ UNCHANGED <<clock, system, caches, rows, polling, failed, left>>

Done == job.stage = "taken" /\ job.todo = {} /\ job.open = {}
Same(r, s) == r.port = s.port /\ r.pid = s.pid

\* merge_bypass_snapshot: a row that is there keeps its name and its first time.
Later(r, s) == [r EXCEPT !.last = s.last]
Merged ==
    {r \in rows : \A s \in job.rows : ~Same(r, s)}
        \cup {s \in job.rows : \A r \in rows : ~Same(r, s)}
        \cup {Later(p[1], p[2]) : p \in {q \in rows \X job.rows : Same(q[1], q[2])}}

\* Mutant: as many rows as there are.
MergeUncapped ==
    /\ Done /\ job' = NoJob /\ polling' = FALSE
    /\ rows' = {r \in Merged : r.last >= clock - Retention}
    /\ UNCHANGED <<clock, system, caches, failed, left>>

\* Rows not seen for long leave, then the oldest of those too many; of rows of one age, which is
\* left open.
Merge ==
    /\ Done /\ job' = NoJob /\ polling' = FALSE
    /\ LET kept == {r \in Merged : r.last >= clock - Retention}
       IN \E some \in SUBSET kept :
             /\ \A r \in some, s \in kept \ some : r.last >= s.last
             /\ IF Cardinality(kept) <= MaxRows THEN some = kept ELSE Cardinality(some) = MaxRows
             /\ rows' = some
    /\ UNCHANGED <<clock, system, caches, failed, left>>

\* The button Clear, and start_capture; a snapshot on its way is not stopped.
Clear ==
    /\ Spend("requests") /\ rows # {} /\ rows' = {}
    /\ UNCHANGED <<clock, system, caches, polling, job, failed>>

Next ==
    \/ Tick \/ TableChanges \/ PidChanges
    \/ \E t \in Tasks :
          \/ Hit(t) \/ Miss(t) \/ FindOwner(t) \/ Recall(t) \/ OpenProcess(t)
          \/ InsertPid(t) \/ InsertPort(t)
    \/ Poll \/ SpawnFails \/ Snapshot \/ Inspect \/ Stamp \/ Merge \/ Clear

Spec == Init /\ [][Next]_vars

----------------------------------------------------------------------------

\* What the history says of a time.
HadPort(t, port, pid) ==
    \E h \in tables : h.at = t /\ \E c \in h.conns : c.port = port /\ c.pid = pid
NobodyHad(t, port) ==
    \/ \E h \in tables : h.at = t /\ \A c \in h.conns : c.port # port
    \/ <<t, Nobody>> \in failed
WasDirect(t, port, pid) ==
    \E h \in tables : h.at = t /\ [port |-> port, pid |-> pid, direct |-> TRUE] \in h.conns
RanAs(t, pid, name) ==
    \/ \E h \in images : h.at = t /\ h.image[pid] = name
    \/ name = Nobody /\ <<t, pid>> \in failed

\* The process number given for a client had a row of its port, and a process of that number had
\* the name, not long ago: the age of an answer is that of two entries and two lookups, one cache
\* being filled from the other, and not CACHE_TTL.  It may have been another process of that
\* number; and where nobody or no name is given, there was none, or a call failed
\* (resolve_client, owning_pid, cached_process_identity, process_identity).
AttributionIsRecent ==
    \A a \in answers :
        /\ \E t \in 0..clock :
              /\ clock - t < Ttl + Slack
              /\ IF a.pid = Nobody THEN NobodyHad(t, a.port) ELSE HadPort(t, a.port, a.pid)
        /\ IF a.pid = Nobody THEN a.name = Nobody
           ELSE \E u \in 0..clock : clock - u < 2 * (Ttl + Slack) /\ RanAs(u, a.pid, a.name)

\* A row of the radar is a connection that was there shortly before each of its two times, and its
\* name that of the process number shortly before the first: as long before as the taking of a
\* snapshot lasts, in which rows, names and times are read one after the other
\* (merge_bypass_snapshot, snapshot_bypass_connections).
RowsAreTrue ==
    \A r \in rows :
        /\ r.first <= r.last
        /\ \A time \in {r.first, r.last} :
              \E t \in 0..time : time - t <= Slack /\ WasDirect(t, r.port, r.pid)
        /\ \E u \in 0..r.first : r.first - u <= Slack /\ RanAs(u, r.pid, r.name)

\* What is shown of processes was true of them not long before it says so.
ObservationsAreTrue == AttributionIsRecent /\ RowsAreTrue
=============================================================================
