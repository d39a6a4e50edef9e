------------------------- MODULE BypassRadarProofs -------------------------
(***************************************************************************)
(* Proofs about BypassRadar, for any ports, processes, names, times and    *)
(* number of tasks: what is shown of processes was true of them, for every *)
(* step at which the system may change and every call that may fail.       *)
(***************************************************************************)
EXTENDS BypassRadar, FiniteSetTheorems, TLAPS

\* The parts of the inductive invariant.

\* The history knows the system as it is.
NowInv == /\ [at |-> clock, conns |-> table] \in tables
          /\ [at |-> clock, image |-> image] \in images

\* Who had a port at a time; nobody, if the table could not be read.
Owned(t, port, pid) == IF pid = Nobody THEN NobodyHad(t, port) ELSE HadPort(t, port, pid)

\* A process of the number had the name less than age before a time; nobody has no name.
NamedWithin(pid, name, time, age) ==
    IF pid = Nobody THEN name = Nobody
    ELSE \E u \in 0..time : time - u < age /\ RanAs(u, pid, name)

\* An entry of PID_CACHE is as old as the lookup that filled it.
PidTrue(e) == \E u \in 0..e.at : e.at - u <= Slack /\ RanAs(u, e.pid, e.name)

\* An entry of PROCESS_CACHE was found at most a lookup before it was inserted, its name perhaps
\* in PID_CACHE.
PortTrue(e) ==
    /\ \E t \in 0..e.at : e.at - t <= Slack /\ Owned(t, e.port, e.pid)
    /\ NamedWithin(e.pid, e.name, e.at, Ttl + Slack + Slack)

AnswerTrue(a) ==
    /\ \E t \in 0..clock : clock - t < Ttl + Slack /\ Owned(t, a.port, a.pid)
    /\ NamedWithin(a.pid, a.name, clock, 2 * (Ttl + Slack))

\* What a task has found so far was so since it began, but for a name from PID_CACHE.
TaskTrue(w) ==
    /\ w.since <= clock /\ clock - w.since <= Slack
    /\ w.stage = "asked" => w.name = Nobody
    /\ w.stage # "asked" => \E t \in w.since..clock : Owned(t, w.port, w.pid)
    /\ w.stage \in {"owned", "unknown", "opened"} => w.pid # Nobody
    /\ w.stage = "opened" => \E u \in w.since..clock : RanAs(u, w.pid, w.name)
    /\ w.stage = "found" =>
          IF w.pid = Nobody THEN w.name = Nobody
          ELSE \E u \in 0..clock : w.since - u < Ttl + Slack /\ RanAs(u, w.pid, w.name)

CacheInv ==
    /\ \A e \in pids : PidTrue(e)
    /\ \A e \in ports : PortTrue(e)
    /\ \A e \in pids \cup ports : e.at <= clock
    /\ \A a \in answers : AnswerTrue(a)
    /\ \A t \in Tasks : task[t] # NoTask => TaskTrue(task[t])

RowTrue(r) ==
    /\ r.first <= r.last
    /\ \A time \in {r.first, r.last} :
          \E t \in 0..time : time - t <= Slack /\ WasDirect(t, r.port, r.pid)
    /\ \E u \in 0..r.first : r.first - u <= Slack /\ RanAs(u, r.pid, r.name)

\* What a snapshot still has to do is from the time it was begun, and not long ago.
TodoInv ==
    /\ job.since <= clock
    /\ job.todo \cup job.open # {} => clock - job.since <= Slack
    /\ job.stage # "taken" => job.todo = {} /\ job.open = {} /\ job.rows = {}
    /\ \A c \in job.todo : c.direct = TRUE /\ WasDirect(job.since, c.port, c.pid)
    /\ \A o \in job.open : /\ WasDirect(job.since, o.port, o.pid)
                           /\ \E u \in job.since..clock : RanAs(u, o.pid, o.name)

\* What it has done is true, and not older.
DoneInv ==
    \A r \in job.rows : RowTrue(r) /\ r.first = r.last /\ job.since <= r.last /\ r.last <= clock

\* It makes one row for a connection.
OnceInv ==
    /\ \A r, s \in job.rows : Same(r, s) => r = s
    /\ \A r \in job.rows : \A c \in job.todo \cup job.open : ~Same(r, c)
    /\ \A o \in job.open : \A c \in job.todo : ~Same(o, c)
    /\ \A o, q \in job.open : o = q

RowInv ==
    /\ \A r \in rows : RowTrue(r) /\ r.last <= clock
    /\ job.stage = "taken" => \A r \in rows : r.last <= job.since

JobInv == TodoInv /\ DoneInv /\ OnceInv
IInv == TypeOK /\ NowInv /\ CacheInv /\ JobInv /\ RowInv

----------------------------------------------------------------------------
(* What was true stays true: the history only grows. *)

Grows == tables \subseteq tables' /\ images \subseteq images' /\ failed \subseteq failed'

LEMMA OwnedStays ==
    ASSUME NEW t, NEW port, NEW pid, Owned(t, port, pid), Grows PROVE Owned(t, port, pid)'
  <1>1. CASE pid = Nobody
    BY <1>1 DEF Owned, NobodyHad, Grows
  <1>2. CASE pid # Nobody
    BY <1>2 DEF Owned, HadPort, Grows
  <1> QED
    BY <1>1, <1>2

LEMMA DirectStays ==
    ASSUME NEW t, NEW port, NEW pid, WasDirect(t, port, pid), Grows PROVE WasDirect(t, port, pid)'
  BY DEF WasDirect, Grows

LEMMA RanStays ==
    ASSUME NEW t, NEW pid, NEW name, RanAs(t, pid, name), Grows PROVE RanAs(t, pid, name)'
  BY DEF RanAs, Grows

LEMMA NameStays ==
    ASSUME NEW pid, NEW name, NEW time, NEW age, NamedWithin(pid, name, time, age), Grows
    PROVE  NamedWithin(pid, name, time, age)'
  BY RanStays DEF NamedWithin

LEMMA PidStays == ASSUME NEW e, PidTrue(e), Grows PROVE PidTrue(e)'
  BY RanStays DEF PidTrue

LEMMA PortStays == ASSUME NEW e, PortTrue(e), Grows PROVE PortTrue(e)'
  BY OwnedStays, NameStays DEF PortTrue

LEMMA RowStays == ASSUME NEW r, RowTrue(r), Grows PROVE RowTrue(r)'
  BY DirectStays, RanStays DEF RowTrue

LEMMA Typed ==
    ASSUME IInv
    PROVE  /\ clock \in Nat /\ Times \subseteq Nat /\ Slack \in Nat /\ Ttl \in Nat \ {0}
           /\ clock \in Times /\ 0 \in Times
  BY TimesAssumption DEF IInv, TypeOK, Times

LEMMA SpendType ==
    ASSUME TypeOK, NEW operation \in Operations, Spend(operation) PROVE left' \in [Operations -> Nat]
  BY DEF TypeOK, Spend

\* A lookup stays true as time passes, as long as it does not take too long.
LEMMA TaskStays ==
    ASSUME NEW w \in Lookups, TaskTrue(w), Grows, clock \in Nat, clock' \in Nat, clock <= clock',
           clock' - w.since <= Slack
    PROVE  TaskTrue(w)'
  <1>1. w.since \in Nat
    BY TimesAssumption DEF Lookups, Times
  <1>2. w.since <= clock' /\ clock' - w.since <= Slack
    BY <1>1 DEF TaskTrue
  <1>3. ASSUME w.stage # "asked" PROVE \E t \in w.since..clock' : Owned(t, w.port, w.pid)'
    <2>1. PICK t \in w.since..clock : Owned(t, w.port, w.pid)
      BY <1>3 DEF TaskTrue
    <2> QED
      BY <1>1, <2>1, OwnedStays
  <1>4. ASSUME w.stage = "opened" PROVE \E u \in w.since..clock' : RanAs(u, w.pid, w.name)'
    <2>1. PICK u \in w.since..clock : RanAs(u, w.pid, w.name)
      BY <1>4 DEF TaskTrue
    <2> QED
      BY <1>1, <2>1, RanStays
  <1>5. ASSUME w.stage = "found", w.pid # Nobody
        PROVE  \E u \in 0..clock' : w.since - u < Ttl + Slack /\ RanAs(u, w.pid, w.name)'
    <2>1. PICK u \in 0..clock : w.since - u < Ttl + Slack /\ RanAs(u, w.pid, w.name)
      BY <1>5 DEF TaskTrue
    <2> QED
      BY <2>1, RanStays
  <1> QED
    BY <1>2, <1>3, <1>4, <1>5 DEF TaskTrue

\* When the caches are left alone they stay true, as long as no task takes too long; the answer is
\* one of this time.
LEMMA LookupsStay ==
    ASSUME TypeOK, CacheInv, UNCHANGED lookups, Grows, clock \in Nat, clock' \in Nat,
           clock <= clock',
           answers' = {} \/ (answers' = answers /\ clock' = clock),
           \A t \in Tasks : task[t] # NoTask => clock' - task[t].since <= Slack
    PROVE  CacheInv'
  <1>1. \A e \in pids' : PidTrue(e)'
    BY PidStays DEF CacheInv, lookups
  <1>2. \A e \in ports' : PortTrue(e)'
    BY PortStays DEF CacheInv, lookups
  <1>3. ASSUME NEW a \in answers' PROVE AnswerTrue(a)'
    <2>1. a \in answers /\ clock' = clock
      BY <1>3
    <2>2. AnswerTrue(a)
      BY <2>1 DEF CacheInv
    <2>3. NamedWithin(a.pid, a.name, clock, 2 * (Ttl + Slack))'
      BY <2>1, <2>2, NameStays DEF AnswerTrue, NamedWithin
    <2>4. \E t \in 0..clock : clock - t < Ttl + Slack /\ Owned(t, a.port, a.pid)'
      BY <2>2, OwnedStays DEF AnswerTrue
    <2> QED
      BY <2>1, <2>3, <2>4 DEF AnswerTrue
  <1>4. ASSUME NEW t \in Tasks, (task[t] # NoTask)' PROVE TaskTrue(task[t])'
    <2>1. task' = task /\ task[t] \in Lookups
      BY <1>4 DEF TypeOK, lookups
    <2>2. TaskTrue(task[t]) /\ clock' - task[t].since <= Slack
      BY <1>4, <2>1 DEF CacheInv
    <2> DEFINE w == task[t]
    <2>3. w \in Lookups /\ TaskTrue(w) /\ clock' - w.since <= Slack /\ task'[t] = w
      BY <2>1, <2>2
    <2> HIDE DEF w
    <2> QED
      BY <2>3, TaskStays
  <1>5. ASSUME NEW e \in pids' \cup ports' PROVE e.at <= clock'
    <2>1. e.at \in Nat /\ e.at <= clock
      BY TimesAssumption DEF TypeOK, CacheInv, PidEntries, PortEntries, Times, lookups
    <2> QED
      BY <2>1
  <1> QED
    BY <1>1, <1>2, <1>3, <1>4, <1>5 DEF CacheInv

\* When the radar is left alone its rows and its snapshot stay true, as long as that does not take
\* too long.
LEMMA RadarStays ==
    ASSUME TypeOK, JobInv, RowInv, UNCHANGED <<rows, job>>, Grows, clock \in Nat, clock' \in Nat,
           clock <= clock',
           job.todo \cup job.open # {} => clock' - job.since <= Slack
    PROVE  JobInv' /\ RowInv'
  <1>0. job.since \in Nat /\ job.rows \subseteq Rows
    BY TimesAssumption DEF TypeOK, Jobs, Times
  <1>1. \A r \in rows : RowTrue(r)' /\ r.last <= clock'
    <2> SUFFICES ASSUME NEW r \in rows PROVE RowTrue(r)' /\ r.last <= clock'
      OBVIOUS
    <2>1. RowTrue(r) /\ r.last <= clock /\ r.last \in Nat
      BY TimesAssumption DEF RowInv, TypeOK, Rows, Times
    <2> QED
      BY <2>1, RowStays
  <1>2. DoneInv'
    <2> SUFFICES ASSUME NEW r \in job.rows PROVE RowTrue(r)' /\ r.last <= clock'
      BY DEF JobInv, DoneInv
    <2>1. RowTrue(r) /\ r.last <= clock /\ r.last \in Nat
      BY <1>0, TimesAssumption DEF JobInv, DoneInv, Rows, Times
    <2> QED
      BY <2>1, RowStays
  <1>3. TodoInv'
    <2>1. job.since <= clock'
      BY <1>0 DEF JobInv, TodoInv
    <2>2. \A c \in job.todo : WasDirect(job.since, c.port, c.pid)'
      BY DirectStays DEF JobInv, TodoInv
    <2>3. ASSUME NEW o \in job.open
          PROVE  /\ WasDirect(job.since, o.port, o.pid)'
                 /\ \E u \in job.since..clock' : RanAs(u, o.pid, o.name)'
      <3>1. PICK u \in job.since..clock : RanAs(u, o.pid, o.name)
        BY DEF JobInv, TodoInv
      <3>2. u \in job.since..clock'
        BY <1>0, <3>1
      <3> QED
        BY <3>1, <3>2, DirectStays, RanStays DEF JobInv, TodoInv
    <2> QED
      BY <2>1, <2>2, <2>3 DEF JobInv, TodoInv
  <1>4. OnceInv' /\ RowInv'
    BY <1>1 DEF JobInv, OnceInv, RowInv, Same
  <1> QED
    BY <1>2, <1>3, <1>4 DEF JobInv

----------------------------------------------------------------------------

LEMMA InitIInv == Init => IInv
  <1> SUFFICES ASSUME Init PROVE IInv
    OBVIOUS
  <1> USE DEF Init
  <1>1. clock \in Times /\ 0 \in Times
    BY TimesAssumption DEF Times
  <1>2. Cardinality(rows) <= MaxRows
    BY FS_EmptySet, TimesAssumption
  <1>3. job \in Jobs
    BY <1>1 DEF NoJob, Jobs
  <1>4. TypeOK
    BY <1>1, <1>2, <1>3, TimesAssumption DEF TypeOK, NoJob
  <1>5. NowInv /\ CacheInv
    BY DEF NowInv, CacheInv
  <1>6. JobInv /\ RowInv
    BY <1>1 DEF JobInv, TodoInv, DoneInv, OnceInv, RowInv, NoJob
  <1> QED
    BY <1>4, <1>5, <1>6 DEF IInv

\* The system's steps: what was true is kept, and what is true now is noted.
LEMMA SystemStep ==
    ASSUME IInv, Noted, UNCHANGED <<lookups, radar, failed>>, clock' \in Times, clock <= clock',
           answers' = {} \/ (answers' = answers /\ clock' = clock),
           table' \subseteq Conns, image' \in [Pids -> Named], left' \in [Operations -> Nat],
           \A t \in Tasks : task[t] # NoTask => clock' - task[t].since <= Slack,
           job.todo \cup job.open # {} => clock' - job.since <= Slack
    PROVE  IInv'
  <1>1. Grows
    BY DEF Noted, Grows
  <1>2. TypeOK'
    BY DEF IInv, TypeOK, lookups, radar
  <1>3. NowInv'
    BY DEF NowInv, Noted
  <1>4. clock \in Nat /\ clock' \in Nat
    BY Typed
  <1>5. CacheInv'
    BY <1>1, <1>4, LookupsStay DEF IInv
  <1>6. JobInv' /\ RowInv'
    BY <1>1, <1>4, RadarStays DEF IInv, radar
  <1> QED
    BY <1>2, <1>3, <1>5, <1>6 DEF IInv

\* A step of the radar: it leaves system and caches alone.
LEMMA RadarStep ==
    ASSUME IInv, UNCHANGED <<clock, system, caches>>, failed \subseteq failed'
    PROVE  NowInv' /\ CacheInv' /\ Grows
  <1>1. NowInv'
    BY DEF IInv, NowInv, system
  <1>2. Grows
    BY DEF Grows, system
  <1>3. clock \in Nat /\ clock' \in Nat /\ clock <= clock'
    BY Typed
  <1>4. \A t \in Tasks : task[t] # NoTask => clock' - task[t].since <= Slack
    BY DEF IInv, CacheInv, TaskTrue
  <1>5. UNCHANGED lookups /\ answers' = answers
    BY DEF caches
  <1> QED
    BY <1>1, <1>2, <1>3, <1>4, <1>5, LookupsStay DEF IInv

\* A step of a lookup: it leaves system and radar alone.
LEMMA LookupStep ==
    ASSUME IInv, UNCHANGED <<clock, system, radar>>, failed \subseteq failed'
    PROVE  NowInv' /\ JobInv' /\ RowInv' /\ Grows
  <1>1. NowInv'
    BY DEF IInv, NowInv, system
  <1>2. Grows
    BY DEF Grows, system
  <1>3. clock \in Nat /\ clock' \in Nat /\ clock <= clock'
    BY Typed
  <1>4. job.todo \cup job.open # {} => clock' - job.since <= Slack
    BY DEF IInv, JobInv, TodoInv
  <1> QED
    BY <1>1, <1>2, <1>3, <1>4, RadarStays DEF IInv, radar

LEMMA TickStep == IInv /\ Tick => IInv'
  <1> SUFFICES ASSUME IInv, Tick PROVE IInv'
    OBVIOUS
  <1>1. clock' = clock + 1 /\ clock' \in Times /\ clock <= clock' /\ clock \in Nat
    BY TimesAssumption DEF Tick, IInv, TypeOK, Times
  <1>2. ASSUME NEW t \in Tasks, task[t] # NoTask PROVE clock' - task[t].since <= Slack
    <2>1. task[t].since \in Nat
      BY <1>2, TimesAssumption DEF IInv, TypeOK, Lookups, Times
    <2>2. clock - task[t].since < Slack
      BY <1>2 DEF Tick
    <2> QED
      BY <1>1, <2>1, <2>2, Typed
  <1>3. ASSUME job.todo \cup job.open # {} PROVE clock' - job.since <= Slack
    <2>1. job.since \in Nat
      BY TimesAssumption DEF IInv, TypeOK, Jobs, Times
    <2>2. clock - job.since < Slack
      BY <1>3 DEF Tick
    <2> QED
      BY <1>1, <2>1, <2>2, Typed
  <1> QED
    BY <1>1, <1>2, <1>3, SystemStep DEF Tick, IInv, TypeOK

LEMMA ChangeStep == IInv /\ (TableChanges \/ PidChanges) => IInv'
  <1> SUFFICES ASSUME IInv, TableChanges \/ PidChanges PROVE IInv'
    OBVIOUS
  <1>1. clock' = clock /\ clock \in Times /\ clock <= clock'
    BY Typed DEF TableChanges, PidChanges
  <1>2. \A t \in Tasks : task[t] # NoTask => clock' - task[t].since <= Slack
    BY <1>1 DEF IInv, CacheInv, TaskTrue
  <1>3. job.todo \cup job.open # {} => clock' - job.since <= Slack
    BY <1>1 DEF IInv, JobInv, TodoInv
  <1>4. left' \in [Operations -> Nat]
    BY SpendType DEF TableChanges, PidChanges, IInv, Operations
  <1>5. table' \subseteq Conns /\ image' \in [Pids -> Named]
    BY DEF TableChanges, PidChanges, IInv, TypeOK
  <1>6. Noted /\ UNCHANGED <<lookups, answers, radar, failed>>
    BY DEF TableChanges, PidChanges, caches
  <1> QED
    BY <1>1, <1>2, <1>3, <1>4, <1>5, <1>6, SystemStep

----------------------------------------------------------------------------
(* What the calls of the program find. *)

\* A table that was read shows who has a port now, or that it could not be read.
LEMMA ReadFacts ==
    ASSUME IInv, NEW conns \in {table, {}}, Reads(conns), UNCHANGED <<clock, system>>
    PROVE  /\ \A port \in Ports : \A pid \in Owners(conns, port) :
                 pid \in Pids \cup {Nobody} /\ Owned(clock, port, pid)'
           /\ \A c \in conns : c.direct => c.direct = TRUE /\ WasDirect(clock, c.port, c.pid)'
           /\ conns \subseteq Conns /\ failed \subseteq failed' /\ left' \in [Operations -> Nat]
  <1>0. left' \in [Operations -> Nat] /\ failed \subseteq failed'
    BY SpendType DEF Reads, Fault, IInv, TypeOK, Operations
  <1>1. tables' = tables /\ [at |-> clock, conns |-> table] \in tables /\ table \subseteq Conns
    BY DEF IInv, NowInv, TypeOK, system
  <1>2. CASE conns = table
    <2>1. ASSUME NEW port \in Ports, NEW pid \in Owners(table, port)
          PROVE  pid \in Pids \cup {Nobody} /\ Owned(clock, port, pid)'
      <3>1. CASE {c.pid : c \in {d \in table : d.port = port}} = {}
        <4>1. pid = Nobody /\ \A c \in table : c.port # port
          BY <2>1, <3>1 DEF Owners
        <4> QED
          BY <1>1, <4>1 DEF Owned, NobodyHad
      <3>2. CASE {c.pid : c \in {d \in table : d.port = port}} # {}
        <4>1. PICK c \in table : c.port = port /\ c.pid = pid
          BY <2>1, <3>2 DEF Owners
        <4>2. pid \in Pids /\ pid # Nobody
          BY <1>1, <4>1, NobodyAssumption DEF Conns
        <4> QED
          BY <1>1, <4>1, <4>2 DEF Owned, HadPort
      <3> QED
        BY <3>1, <3>2
    <2>2. ASSUME NEW c \in table, c.direct PROVE c.direct = TRUE /\ WasDirect(clock, c.port, c.pid)'
      <3>1. c = [port |-> c.port, pid |-> c.pid, direct |-> TRUE]
        BY <1>1, <2>2 DEF Conns
      <3>2. c.direct = TRUE
        <4>1. c.direct \in BOOLEAN
          BY <1>1 DEF Conns
        <4> QED
          BY <2>2, <4>1
      <3>3. [port |-> c.port, pid |-> c.pid, direct |-> TRUE] \in table
        BY <3>1
      <3> QED
        BY <1>1, <3>2, <3>3 DEF WasDirect
    <2> QED
      BY <1>0, <1>1, <1>2, <2>1, <2>2
  <1>3. CASE conns = {} /\ Fault(Nobody)
    <2>1. \A port \in Ports : Owners({}, port) = {Nobody}
      BY DEF Owners
    <2>2. <<clock, Nobody>> \in failed'
      BY <1>3 DEF Fault
    <2>3. \A port \in Ports : Owned(clock, port, Nobody)'
      BY <2>2 DEF Owned, NobodyHad
    <2> QED
      BY <1>0, <1>3, <2>1, <2>3
  <1> QED
    BY <1>2, <1>3 DEF Reads

\* The name of a process that was opened is what runs now, or it could not be opened.
LEMMA OpenFacts ==
    ASSUME IInv, NEW pid \in Pids, NEW name, Opens(pid, name), UNCHANGED <<clock, system>>
    PROVE  /\ name \in Named /\ RanAs(clock, pid, name)'
           /\ failed \subseteq failed' /\ left' \in [Operations -> Nat]
  <1>0. left' \in [Operations -> Nat] /\ failed \subseteq failed'
    BY SpendType DEF Opens, Fault, IInv, TypeOK, Operations
  <1>1. CASE name = image[pid]
    <2>1. [at |-> clock, image |-> image] \in images' /\ name \in Named
      BY <1>1 DEF IInv, NowInv, TypeOK, system
    <2> QED
      BY <1>0, <1>1, <2>1 DEF RanAs
  <1>2. CASE name = Nobody /\ Fault(pid)
    BY <1>0, <1>2 DEF RanAs, Fault, Named
  <1> QED
    BY <1>1, <1>2 DEF Opens

----------------------------------------------------------------------------
(* The lookups. *)

\* A task goes on with what it has found, the caches as they are.
LEMMA MoveStep ==
    ASSUME IInv, NEW t \in Tasks, NEW w \in Lookups, task' = [task EXCEPT ![t] = w],
           UNCHANGED <<clock, system, ports, pids, answers, radar>>, failed \subseteq failed',
           left' \in [Operations -> Nat], TaskTrue(w)'
    PROVE  IInv'
  <1>1. NowInv' /\ JobInv' /\ RowInv' /\ Grows
    BY LookupStep
  <1>2. TypeOK'
    BY DEF IInv, TypeOK, system, radar
  <1>3. \A e \in pids : PidTrue(e)'
    BY <1>1, PidStays DEF IInv, CacheInv
  <1>4. \A e \in ports : PortTrue(e)'
    BY <1>1, PortStays DEF IInv, CacheInv
  <1>5. ASSUME NEW a \in answers PROVE AnswerTrue(a)'
    <2>1. AnswerTrue(a)
      BY DEF IInv, CacheInv
    <2>2. NamedWithin(a.pid, a.name, clock, 2 * (Ttl + Slack))'
      BY <1>1, <2>1, NameStays DEF AnswerTrue, NamedWithin
    <2>3. \E s \in 0..clock : clock - s < Ttl + Slack /\ Owned(s, a.port, a.pid)'
      BY <1>1, <2>1, OwnedStays DEF AnswerTrue
    <2> QED
      BY <2>2, <2>3 DEF AnswerTrue
  <1>6. ASSUME NEW s \in Tasks, (task[s] # NoTask)' PROVE TaskTrue(task[s])'
    <2>0. task' = [x \in Tasks |-> IF x = t THEN w ELSE task[x]]
      BY DEF IInv, TypeOK
    <2>1. CASE s = t
      <3>1. task'[s] = w
        BY <2>0, <2>1
      <3> QED
        BY <3>1
    <2>2. CASE s # t
      <3>1. task'[s] = task[s] /\ task[s] # NoTask
        BY <1>6, <2>0, <2>2 DEF NoTask
      <3>2. PICK v \in Lookups : v = task[s] /\ TaskTrue(v)
        BY <3>1 DEF IInv, TypeOK, CacheInv
      <3>3. clock \in Nat /\ clock' = clock /\ clock' - v.since <= Slack
        BY <3>2, Typed DEF TaskTrue
      <3>4. clock <= clock' /\ clock' \in Nat
        BY <3>3
      <3>5. TaskTrue(v)'
        BY <1>1, <3>2, <3>3, <3>4, TaskStays
      <3> QED
        BY <3>1, <3>2, <3>5
    <2> QED
      BY <2>1, <2>2
  <1>7. CacheInv'
    BY <1>3, <1>4, <1>5, <1>6 DEF CacheInv, IInv
  <1> QED
    BY <1>1, <1>2, <1>7 DEF IInv

\* A task that has begun, and what is known of it.
LEMMA Running ==
    ASSUME IInv, NEW t \in Tasks, task[t].stage # "none"
    PROVE  /\ task[t] \in Lookups /\ TaskTrue(task[t]) /\ task[t].since \in Nat
           /\ task[t].since \in 0..clock
  <1>1. task[t] \in Lookups /\ TaskTrue(task[t])
    BY DEF IInv, TypeOK, CacheInv, NoTask
  <1>2. task[t].since \in Nat
    BY <1>1, TimesAssumption DEF Lookups, Times
  <1> QED
    BY <1>1, <1>2, Typed DEF TaskTrue

LEMMA MissStep == ASSUME NEW t \in Tasks PROVE IInv /\ Miss(t) => IInv'
  <1> SUFFICES ASSUME IInv, Miss(t) PROVE IInv'
    OBVIOUS
  <1>1. PICK port \in Ports :
          task' = [task EXCEPT ![t] = [stage |-> "asked", port |-> port, pid |-> Nobody,
                                       name |-> Nobody, since |-> clock]]
    BY DEF Miss
  <1>2. PICK w \in Lookups :
          w = [stage |-> "asked", port |-> port, pid |-> Nobody, name |-> Nobody, since |-> clock]
    BY Typed DEF Lookups, Named
  <1>3. TaskTrue(w)'
    <2>1. clock' = clock /\ clock - clock <= Slack /\ clock <= clock
      BY Typed DEF Miss
    <2> QED
      BY <1>2, <2>1 DEF TaskTrue
  <1>4. task' = [task EXCEPT ![t] = w]
    BY <1>1, <1>2
  <1>5. left' \in [Operations -> Nat]
    BY SpendType DEF Miss, IInv, Operations
  <1> QED
    BY <1>2, <1>3, <1>4, <1>5, MoveStep DEF Miss

LEMMA FindOwnerStep == ASSUME NEW t \in Tasks PROVE IInv /\ FindOwner(t) => IInv'
  <1> SUFFICES ASSUME IInv, FindOwner(t) PROVE IInv'
    OBVIOUS
  <1>1. PICK conns \in {table, {}} :
          /\ Reads(conns)
          /\ \E pid \in Owners(conns, task[t].port) :
                task' = [task EXCEPT ![t].pid = pid,
                                     ![t].stage = IF pid = Nobody THEN "found" ELSE "owned"]
    BY DEF FindOwner
  <1>2. PICK pid \in Owners(conns, task[t].port) :
          task' = [task EXCEPT ![t].pid = pid,
                               ![t].stage = IF pid = Nobody THEN "found" ELSE "owned"]
    BY <1>1
  <1>3. task[t].stage = "asked" /\ UNCHANGED <<clock, system, ports, pids, answers, radar>>
    BY DEF FindOwner
  <1>4. PICK v \in Lookups : v = task[t]
    BY <1>3, Running
  <1>5. TaskTrue(v) /\ v.since \in 0..clock /\ v.stage = "asked" /\ v.port \in Ports
    BY <1>3, <1>4, Running DEF Lookups
  <1>6. /\ pid \in Pids \cup {Nobody} /\ Owned(clock, v.port, pid)'
        /\ failed \subseteq failed' /\ left' \in [Operations -> Nat]
    BY <1>1, <1>2, <1>3, <1>4, <1>5, ReadFacts
  <1>7. PICK w \in Lookups :
          /\ w.port = v.port /\ w.since = v.since /\ w.pid = pid /\ w.name = Nobody
          /\ w.stage = (IF pid = Nobody THEN "found" ELSE "owned")
          /\ task' = [task EXCEPT ![t] = w]
    <2> DEFINE w == [v EXCEPT !.pid = pid, !.stage = IF pid = Nobody THEN "found" ELSE "owned"]
    <2>1. w \in Lookups
      BY <1>6 DEF Lookups
    <2>2. task' = [task EXCEPT ![t] = w]
      BY <1>2, <1>4 DEF IInv, TypeOK
    <2>3. w.name = Nobody
      BY <1>5 DEF TaskTrue, Lookups
    <2> QED
      BY <2>1, <2>2, <2>3 DEF Lookups
  <1>8. TaskTrue(w)'
    <2>1. clock' = clock /\ clock \in w.since..clock /\ w.since <= clock /\ clock - w.since <= Slack
      BY <1>3, <1>5, <1>7, Typed DEF TaskTrue
    <2>2. Owned(clock, w.port, w.pid)'
      BY <1>6, <1>7
    <2>3. \E s \in w.since..clock : Owned(s, w.port, w.pid)'
      BY <2>1, <2>2
    <2> QED
      BY <1>7, <2>1, <2>3 DEF TaskTrue
  <1> QED
    BY <1>3, <1>6, <1>7, <1>8, MoveStep

LEMMA RecallStep == ASSUME NEW t \in Tasks PROVE IInv /\ Recall(t) => IInv'
  <1> SUFFICES ASSUME IInv, Recall(t) PROVE IInv'
    OBVIOUS
  <1>1. /\ task[t].stage = "owned" /\ UNCHANGED <<clock, system, ports, pids, answers, radar>>
        /\ failed' = failed /\ left' = left /\ left \in [Operations -> Nat]
    BY DEF Recall, IInv, TypeOK
  <1>2. PICK v \in Lookups : v = task[t]
    BY <1>1, Running
  <1>3. TaskTrue(v) /\ v.since \in 0..clock /\ v.stage = "owned"
    BY <1>1, <1>2, Running
  <1>4. /\ v.since <= clock /\ clock - v.since <= Slack /\ v.pid # Nobody
        /\ \E s \in v.since..clock : Owned(s, v.port, v.pid)
    BY <1>3 DEF TaskTrue
  <1>5. CASE \E e \in pids : /\ e.pid = task[t].pid /\ Young(e)
                            /\ task' = [task EXCEPT ![t].name = e.name, ![t].stage = "found"]
    <2>1. PICK e \in pids : /\ e.pid = v.pid /\ Young(e)
                           /\ task' = [task EXCEPT ![t].name = e.name, ![t].stage = "found"]
      BY <1>2, <1>5
    <2>2. /\ PidTrue(e) /\ e.at \in Nat /\ e.name \in Named
      BY Typed DEF IInv, CacheInv, TypeOK, PidEntries
    <2> DEFINE w == [v EXCEPT !.name = e.name, !.stage = "found"]
    <2>3. /\ w \in Lookups /\ task' = [task EXCEPT ![t] = w] /\ w.stage = "found"
          /\ w.port = v.port /\ w.pid = v.pid /\ w.since = v.since /\ w.name = e.name
      BY <1>2, <2>1, <2>2 DEF IInv, TypeOK, Lookups
    <2> HIDE DEF w
    <2>4. PICK u \in 0..e.at : e.at - u <= Slack /\ RanAs(u, e.pid, e.name)
      BY <2>2 DEF PidTrue
    <2>5. clock - e.at < Ttl /\ v.since \in Nat /\ u \in Nat
      BY <1>3, <2>1, <2>2, <2>4 DEF Young
    <2>6. v.since - u < Ttl + Slack
      BY <1>4, <2>2, <2>4, <2>5, Typed
    <2>7. u \in 0..clock
      <3>1. e.at \in Nat /\ e.at <= clock
        BY <2>2 DEF IInv, CacheInv
      <3> QED
        BY <2>4, <3>1, Typed
    <2>8. TaskTrue(w)'
      <3>1. RanAs(u, w.pid, w.name)'
        BY <1>1, <2>1, <2>3, <2>4 DEF RanAs, system
      <3>2. \E s \in w.since..clock : Owned(s, w.port, w.pid)'
        BY <1>1, <1>4, <2>3 DEF Owned, NobodyHad, HadPort, system
      <3> QED
        BY <1>1, <1>4, <2>3, <2>6, <2>7, <3>1, <3>2 DEF TaskTrue
    <2> QED
      BY <1>1, <2>3, <2>8, MoveStep
  <1>6. CASE task' = [task EXCEPT ![t].stage = "unknown"]
    <2> DEFINE w == [v EXCEPT !.stage = "unknown"]
    <2>1. /\ w \in Lookups /\ task' = [task EXCEPT ![t] = w] /\ w.stage = "unknown"
          /\ w.port = v.port /\ w.pid = v.pid /\ w.since = v.since
      BY <1>2, <1>6 DEF IInv, TypeOK, Lookups
    <2> HIDE DEF w
    <2>2. TaskTrue(w)'
      <3>1. \E s \in w.since..clock : Owned(s, w.port, w.pid)'
        BY <1>1, <1>4, <2>1 DEF Owned, NobodyHad, HadPort, system
      <3> QED
        BY <1>1, <1>4, <2>1, <3>1 DEF TaskTrue
    <2> QED
      BY <1>1, <2>1, <2>2, MoveStep
  <1> QED
    BY <1>5, <1>6 DEF Recall

LEMMA OpenProcessStep == ASSUME NEW t \in Tasks PROVE IInv /\ OpenProcess(t) => IInv'
  <1> SUFFICES ASSUME IInv, OpenProcess(t) PROVE IInv'
    OBVIOUS
  <1>1. task[t].stage = "unknown" /\ UNCHANGED <<clock, system, ports, pids, answers, radar>>
    BY DEF OpenProcess
  <1>2. PICK v \in Lookups : v = task[t]
    BY <1>1, Running
  <1>3. TaskTrue(v) /\ v.since \in 0..clock /\ v.stage = "unknown"
    BY <1>1, <1>2, Running
  <1>4. /\ v.since <= clock /\ clock - v.since <= Slack /\ v.pid \in Pids /\ v.pid # Nobody
        /\ \E s \in v.since..clock : Owned(s, v.port, v.pid)
    BY <1>3 DEF TaskTrue, Lookups
  <1>5. PICK name \in Named : /\ Opens(v.pid, name)
                             /\ task' = [task EXCEPT ![t].name = name, ![t].stage = "opened"]
    BY <1>2 DEF OpenProcess
  <1>6. RanAs(clock, v.pid, name)' /\ failed \subseteq failed' /\ left' \in [Operations -> Nat]
    BY <1>1, <1>4, <1>5, OpenFacts
  <1>7. PICK w \in Lookups :
          /\ task' = [task EXCEPT ![t] = w] /\ w.stage = "opened"
          /\ w.port = v.port /\ w.pid = v.pid /\ w.since = v.since /\ w.name = name
    <2> DEFINE w == [v EXCEPT !.name = name, !.stage = "opened"]
    <2>1. w \in Lookups /\ task' = [task EXCEPT ![t] = w]
      BY <1>2, <1>5 DEF IInv, TypeOK, Lookups
    <2> QED
      BY <2>1 DEF Lookups
  <1>8. TaskTrue(w)'
    <2>1. Grows
      BY <1>1, <1>6 DEF Grows, system
    <2>2. \E s \in w.since..clock : Owned(s, w.port, w.pid)'
      BY <1>4, <1>7, <2>1, OwnedStays
    <2>3. clock \in w.since..clock
      BY <1>3, <1>7, Typed
    <2>4. \E u \in w.since..clock : RanAs(u, w.pid, w.name)'
      BY <1>1, <1>6, <1>7, <2>3
    <2> QED
      BY <1>1, <1>4, <1>7, <2>2, <2>4 DEF TaskTrue
  <1> QED
    BY <1>1, <1>6, <1>7, <1>8, MoveStep

\* A step that also fills a cache: the new entry is true, and so is what the task has.
LEMMA FillStep ==
    ASSUME IInv, NEW t \in Tasks, NEW w, task' = [task EXCEPT ![t] = w],
           w = NoTask \/ (w \in Lookups /\ TaskTrue(w)),
           UNCHANGED <<clock, system, radar, failed, left>>,
           pids' \subseteq PidEntries, ports' \subseteq PortEntries,
           \A e, f \in pids' : e.pid = f.pid => e = f,
           \A e, f \in ports' : e.port = f.port => e = f,
           \A e \in pids' \ pids : PidTrue(e) /\ e.at <= clock,
           \A e \in ports' \ ports : PortTrue(e) /\ e.at <= clock,
           \A a \in answers' : AnswerTrue(a)
    PROVE  IInv'
  <1>1. NowInv' /\ JobInv' /\ RowInv' /\ Grows
    BY LookupStep
  <1>2. TypeOK'
    BY DEF IInv, TypeOK, system, radar
  <1>3. /\ tables' = tables /\ images' = images /\ failed' = failed /\ clock' = clock
    BY DEF system
  <1>4. ASSUME NEW e \in pids' PROVE PidTrue(e)' /\ e.at <= clock
    <2>1. PidTrue(e) /\ e.at <= clock
      BY DEF IInv, CacheInv
    <2> QED
      BY <1>1, <2>1, PidStays
  <1>5. ASSUME NEW e \in ports' PROVE PortTrue(e)' /\ e.at <= clock
    <2>1. PortTrue(e) /\ e.at <= clock
      BY DEF IInv, CacheInv
    <2> QED
      BY <1>1, <2>1, PortStays
  <1>6. ASSUME NEW a \in answers' PROVE AnswerTrue(a)'
    <2>1. AnswerTrue(a)
      OBVIOUS
    <2>2. NamedWithin(a.pid, a.name, clock, 2 * (Ttl + Slack))'
      BY <1>1, <1>3, <2>1, NameStays DEF AnswerTrue, NamedWithin
    <2>3. \E s \in 0..clock : clock - s < Ttl + Slack /\ Owned(s, a.port, a.pid)'
      BY <1>1, <2>1, OwnedStays DEF AnswerTrue
    <2> QED
      BY <1>3, <2>2, <2>3 DEF AnswerTrue
  <1>7. ASSUME NEW s \in Tasks, (task[s] # NoTask)' PROVE TaskTrue(task[s])'
    <2>0. task' = [x \in Tasks |-> IF x = t THEN w ELSE task[x]]
      BY DEF IInv, TypeOK
    <2>1. PICK v \in Lookups : v = task'[s] /\ TaskTrue(v)
      BY <1>7, <2>0 DEF IInv, TypeOK, CacheInv
    <2>2. clock \in Nat /\ clock' = clock /\ clock' - v.since <= Slack
      BY <1>3, <2>1, Typed DEF TaskTrue
    <2>3. clock <= clock' /\ clock' \in Nat
      BY <2>2
    <2>4. TaskTrue(v)'
      BY <1>1, <2>1, <2>2, <2>3, TaskStays
    <2> QED
      BY <2>1, <2>4
  <1>8. CacheInv'
    BY <1>3, <1>4, <1>5, <1>6, <1>7 DEF CacheInv
  <1> QED
    BY <1>1, <1>2, <1>8 DEF IInv

LEMMA InsertPidStep == ASSUME NEW t \in Tasks PROVE IInv /\ InsertPid(t) => IInv'
  <1> SUFFICES ASSUME IInv, InsertPid(t) PROVE IInv'
    OBVIOUS
  <1>1. /\ task[t].stage = "opened" /\ task' = [task EXCEPT ![t].stage = "found"]
        /\ UNCHANGED <<clock, system, ports, answers, radar, failed, left>>
    BY DEF InsertPid
  <1>2. PICK v \in Lookups : v = task[t]
    BY <1>1, Running
  <1>3. TaskTrue(v) /\ v.since \in 0..clock /\ v.stage = "opened" /\ clock \in Nat
    BY <1>1, <1>2, Running, Typed
  <1>4. /\ v.since <= clock /\ clock - v.since <= Slack /\ v.pid # Nobody /\ v.pid \in Pids
        /\ \E s \in v.since..clock : Owned(s, v.port, v.pid)
        /\ v.name \in Named
    BY <1>3 DEF TaskTrue, Lookups
  <1>5. PICK u \in v.since..clock : RanAs(u, v.pid, v.name)
    BY <1>3 DEF TaskTrue
  <1>6. PICK e \in PidEntries : e = [pid |-> v.pid, name |-> v.name, at |-> clock]
    BY <1>4, Typed DEF PidEntries
  <1>7. pids' = {f \in pids : f.pid # v.pid} \cup {e}
    BY <1>2, <1>6 DEF InsertPid
  <1>8. PidTrue(e) /\ e.at <= clock
    <2>1. e.at = clock /\ u \in 0..clock /\ clock - u <= Slack
      BY <1>3, <1>4, <1>5, <1>6, Typed
    <2> QED
      BY <1>5, <1>6, <2>1, <1>3 DEF PidTrue
  <1>9. PICK w \in Lookups : /\ task' = [task EXCEPT ![t] = w] /\ TaskTrue(w)
    <2> DEFINE w == [v EXCEPT !.stage = "found"]
    <2>1. /\ w \in Lookups /\ task' = [task EXCEPT ![t] = w] /\ w.stage = "found"
          /\ w.port = v.port /\ w.pid = v.pid /\ w.since = v.since /\ w.name = v.name
      BY <1>1, <1>2 DEF IInv, TypeOK, Lookups
    <2> HIDE DEF w
    <2>2. u \in 0..clock /\ v.since - u < Ttl + Slack
      BY <1>3, <1>5, Typed
    <2>3. TaskTrue(w)
      BY <1>4, <1>5, <2>1, <2>2 DEF TaskTrue
    <2> QED
      BY <2>1, <2>3
  <1>10. /\ pids' \subseteq PidEntries /\ ports' \subseteq PortEntries
         /\ \A x, y \in pids' : x.pid = y.pid => x = y
         /\ \A x, y \in ports' : x.port = y.port => x = y
         /\ \A a \in answers' : AnswerTrue(a)
    BY <1>1, <1>6, <1>7 DEF IInv, TypeOK, CacheInv
  <1>11. \A x \in pids' \ pids : PidTrue(x) /\ x.at <= clock
    BY <1>7, <1>8
  <1>12. ports' \ ports = {}
    BY <1>1
  <1> QED
    BY <1>1, <1>9, <1>10, <1>11, <1>12, FillStep

LEMMA InsertPortStep == ASSUME NEW t \in Tasks PROVE IInv /\ InsertPort(t) => IInv'
  <1> SUFFICES ASSUME IInv, InsertPort(t) PROVE IInv'
    OBVIOUS
  <1>1. /\ task[t].stage = "found" /\ task' = [task EXCEPT ![t] = NoTask]
        /\ UNCHANGED <<clock, system, pids, radar, failed, left>>
    BY DEF InsertPort
  <1>2. PICK v \in Lookups : v = task[t]
    BY <1>1, Running
  <1>3. TaskTrue(v) /\ v.since \in 0..clock /\ v.stage = "found" /\ clock \in Nat
    BY <1>1, <1>2, Running, Typed
  <1>4. PICK s \in v.since..clock : Owned(s, v.port, v.pid)
    BY <1>3 DEF TaskTrue
  <1>5. s \in 0..clock /\ clock - s <= Slack /\ clock - s < Ttl + Slack
    <2>1. clock - v.since <= Slack
      BY <1>3 DEF TaskTrue
    <2> QED
      BY <1>3, <1>4, <2>1, Typed
  <1>6. /\ NamedWithin(v.pid, v.name, clock, Ttl + Slack + Slack)
        /\ NamedWithin(v.pid, v.name, clock, 2 * (Ttl + Slack))
    <2>1. CASE v.pid = Nobody
      BY <1>3, <2>1 DEF TaskTrue, NamedWithin
    <2>2. CASE v.pid # Nobody
      <3>1. PICK u \in 0..clock : v.since - u < Ttl + Slack /\ RanAs(u, v.pid, v.name)
        BY <1>3, <2>2 DEF TaskTrue
      <3>2. clock - v.since <= Slack
        BY <1>3 DEF TaskTrue
      <3>3. clock - u < Ttl + Slack + Slack /\ clock - u < 2 * (Ttl + Slack)
        BY <1>3, <3>1, <3>2, Typed
      <3> QED
        BY <2>2, <3>1, <3>3 DEF NamedWithin
    <2> QED
      BY <2>1, <2>2
  <1>7. PICK e \in PortEntries : e = [port |-> v.port, pid |-> v.pid, name |-> v.name, at |-> clock]
    BY Typed DEF PortEntries, Lookups
  <1>8. ports' = {f \in ports : f.port # v.port} \cup {e}
    BY <1>2, <1>7 DEF InsertPort
  <1>9. PortTrue(e) /\ e.at <= clock
    BY <1>3, <1>4, <1>5, <1>6, <1>7 DEF PortTrue
  <1>10. \A a \in answers' : AnswerTrue(a)
    <2>1. answers' = {[port |-> v.port, pid |-> v.pid, name |-> v.name]}
      BY <1>2 DEF InsertPort, Answer
    <2> QED
      BY <1>4, <1>5, <1>6, <2>1 DEF AnswerTrue
  <1>11. /\ pids' \subseteq PidEntries /\ ports' \subseteq PortEntries
         /\ \A x, y \in pids' : x.pid = y.pid => x = y
         /\ \A x, y \in ports' : x.port = y.port => x = y
    BY <1>1, <1>7, <1>8 DEF IInv, TypeOK
  <1>12. \A x \in ports' \ ports : PortTrue(x) /\ x.at <= clock
    BY <1>8, <1>9
  <1>13. pids' \ pids = {}
    BY <1>1
  <1> QED
    BY <1>1, <1>10, <1>11, <1>12, <1>13, FillStep

LEMMA HitStep == ASSUME NEW t \in Tasks PROVE IInv /\ Hit(t) => IInv'
  <1> SUFFICES ASSUME IInv, Hit(t) PROVE IInv'
    OBVIOUS
  <1>1. task[t] = NoTask /\ UNCHANGED <<clock, system, lookups, radar, failed, left>>
    BY DEF Hit
  <1>2. PICK e \in ports :
          Young(e) /\ answers' = {[port |-> e.port, pid |-> e.pid, name |-> e.name]}
    BY DEF Hit, Answer
  <1>3. PortTrue(e) /\ e.at \in Nat /\ e.at <= clock /\ clock \in Nat
    BY Typed DEF IInv, CacheInv, TypeOK, PortEntries
  <1>4. clock - e.at < Ttl
    BY <1>2 DEF Young
  <1>5. \E s \in 0..clock : clock - s < Ttl + Slack /\ Owned(s, e.port, e.pid)
    <2>1. PICK s \in 0..e.at : e.at - s <= Slack /\ Owned(s, e.port, e.pid)
      BY <1>3 DEF PortTrue
    <2>2. s \in 0..clock /\ clock - s < Ttl + Slack
      BY <1>3, <1>4, <2>1, Typed
    <2> QED
      BY <2>1, <2>2
  <1>6. NamedWithin(e.pid, e.name, clock, 2 * (Ttl + Slack))
    <2>1. NamedWithin(e.pid, e.name, e.at, Ttl + Slack + Slack)
      BY <1>3 DEF PortTrue
    <2>2. CASE e.pid = Nobody
      BY <2>1, <2>2 DEF NamedWithin
    <2>3. CASE e.pid # Nobody
      <3>1. PICK u \in 0..e.at : e.at - u < Ttl + Slack + Slack /\ RanAs(u, e.pid, e.name)
        BY <2>1, <2>3 DEF NamedWithin
      <3>2. u \in 0..clock /\ clock - u < 2 * (Ttl + Slack)
        BY <1>3, <1>4, <3>1, Typed
      <3> QED
        BY <2>3, <3>1, <3>2 DEF NamedWithin
    <2> QED
      BY <2>2, <2>3
  <1>7. \A a \in answers' : AnswerTrue(a)
    BY <1>2, <1>5, <1>6 DEF AnswerTrue
  <1>8. task' = [task EXCEPT ![t] = NoTask] /\ pids' = pids /\ ports' = ports
    BY <1>1 DEF lookups, IInv, TypeOK
  <1>9. /\ pids' \subseteq PidEntries /\ ports' \subseteq PortEntries
        /\ \A x, y \in pids' : x.pid = y.pid => x = y
        /\ \A x, y \in ports' : x.port = y.port => x = y
    BY <1>8 DEF IInv, TypeOK
  <1>10. pids' \ pids = {} /\ ports' \ ports = {}
    BY <1>8
  <1> QED
    BY <1>1, <1>7, <1>8, <1>9, <1>10, FillStep

----------------------------------------------------------------------------
(* The radar. *)

LEMMA PollStep == IInv /\ (Poll \/ SpawnFails) => IInv'
  <1> SUFFICES ASSUME IInv, Poll \/ SpawnFails PROVE IInv'
    OBVIOUS
  <1>1. UNCHANGED <<clock, system, caches, rows, failed>> /\ failed \subseteq failed'
    BY DEF Poll, SpawnFails
  <1>2. NowInv' /\ CacheInv' /\ Grows
    BY <1>1, RadarStep
  <1>3. left' \in [Operations -> Nat] /\ polling' = TRUE
    BY SpendType DEF Poll, SpawnFails, IInv, Operations
  <1>4. job' = job \/ job' = [NoJob EXCEPT !.stage = "queued"]
    BY DEF Poll, SpawnFails
  <1>5. job' \in Jobs
    <2>1. [NoJob EXCEPT !.stage = "queued"] \in Jobs
      BY Typed DEF NoJob, Jobs
    <2> QED
      BY <1>4, <2>1 DEF IInv, TypeOK
  <1>6. TypeOK'
    BY <1>1, <1>3, <1>5 DEF IInv, TypeOK, system, caches, lookups
  <1>7. JobInv' /\ RowInv'
    <2>1. CASE job' = job
      <3>1. clock \in Nat /\ clock' \in Nat /\ clock <= clock'
        BY <1>1, Typed
      <3>2. job.todo \cup job.open # {} => clock' - job.since <= Slack
        BY <1>1 DEF IInv, JobInv, TodoInv
      <3> QED
        BY <1>1, <1>2, <2>1, <3>1, <3>2, RadarStays DEF IInv
    <2>2. CASE job' = [NoJob EXCEPT !.stage = "queued"]
      <3>1. job' = [stage |-> "queued", since |-> 0, todo |-> {}, open |-> {}, rows |-> {}]
        BY <2>2 DEF NoJob
      <3>2. JobInv'
        BY <1>1, <3>1, Typed DEF JobInv, TodoInv, DoneInv, OnceInv
      <3>3. \A r \in rows : RowTrue(r)' /\ r.last <= clock
        BY <1>2, RowStays DEF IInv, RowInv
      <3> QED
        BY <1>1, <3>1, <3>2, <3>3 DEF RowInv
    <2> QED
      BY <1>4, <2>1, <2>2
  <1> QED
    BY <1>2, <1>6, <1>7 DEF IInv

\* A step of the background thread leaves the rows shown alone.
LEMMA JobStep ==
    ASSUME IInv, UNCHANGED <<clock, system, caches, rows, polling>>, failed \subseteq failed',
           left' \in [Operations -> Nat], job.stage # "none", job' \in Jobs, JobInv',
           \A r \in rows : r.last <= job'.since
    PROVE  IInv'
  <1>1. NowInv' /\ CacheInv' /\ Grows
    BY RadarStep
  <1>2. TypeOK'
    BY DEF IInv, TypeOK, system, caches, lookups
  <1>3. \A r \in rows : RowTrue(r)'
    BY <1>1, RowStays DEF IInv, RowInv
  <1>4. RowInv'
    BY <1>3 DEF IInv, RowInv
  <1> QED
    BY <1>1, <1>2, <1>4 DEF IInv

LEMMA SnapshotStep == IInv /\ Snapshot => IInv'
  <1> SUFFICES ASSUME IInv, Snapshot PROVE IInv'
    OBVIOUS
  <1>1. job.stage = "queued" /\ UNCHANGED <<clock, system, caches, rows, polling>>
    BY DEF Snapshot
  <1>2. PICK conns \in {table, {}} :
          /\ Reads(conns)
          /\ job' = [job EXCEPT !.stage = "taken", !.since = clock,
                                !.todo = {c \in conns : c.direct}]
    BY DEF Snapshot
  <1>3. /\ \A c \in conns : c.direct => c.direct = TRUE /\ WasDirect(clock, c.port, c.pid)'
        /\ conns \subseteq Conns /\ failed \subseteq failed' /\ left' \in [Operations -> Nat]
    BY <1>1, <1>2, ReadFacts
  <1>4. job.open = {} /\ job.rows = {}
    BY <1>1 DEF IInv, JobInv, TodoInv
  <1>5. job' = [stage |-> "taken", since |-> clock, todo |-> {c \in conns : c.direct},
                open |-> {}, rows |-> {}]
    BY <1>2, <1>4 DEF IInv, TypeOK, Jobs
  <1>6. job' \in Jobs
    BY <1>3, <1>5, Typed DEF Jobs
  <1>7. JobInv'
    <2>1. TodoInv'
      BY <1>1, <1>3, <1>5, Typed DEF TodoInv
    <2>2. DoneInv' /\ OnceInv'
      BY <1>5 DEF DoneInv, OnceInv
    <2> QED
      BY <2>1, <2>2 DEF JobInv
  <1>8. \A r \in rows : r.last <= job'.since
    BY <1>5 DEF IInv, RowInv
  <1> QED
    BY <1>1, <1>3, <1>6, <1>7, <1>8, JobStep

LEMMA InspectStep == IInv /\ Inspect => IInv'
  <1> SUFFICES ASSUME IInv, Inspect PROVE IInv'
    OBVIOUS
  <1>1. job.open = {} /\ UNCHANGED <<clock, system, caches, rows, polling>>
    BY DEF Inspect
  <1>2. PICK c \in job.todo, name \in Named :
          /\ Opens(c.pid, name)
          /\ job' = [job EXCEPT !.todo = @ \ {c},
                                !.open = {[port |-> c.port, pid |-> c.pid, name |-> name]}]
    BY DEF Inspect
  <1>3. /\ c \in Conns /\ c.direct = TRUE /\ WasDirect(job.since, c.port, c.pid)
        /\ job.stage = "taken" /\ job.since <= clock /\ clock - job.since <= Slack
        /\ job.since \in Nat
    BY <1>2, TimesAssumption DEF IInv, TypeOK, Jobs, Times, JobInv, TodoInv
  <1>4. RanAs(clock, c.pid, name)' /\ failed \subseteq failed' /\ left' \in [Operations -> Nat]
    BY <1>1, <1>2, <1>3, OpenFacts DEF Conns
  <1>5. Grows
    BY <1>1, <1>4 DEF Grows, system
  <1>6. PICK o \in [port : Ports, pid : Pids, name : Named] :
          o = [port |-> c.port, pid |-> c.pid, name |-> name]
    BY <1>3 DEF Conns
  <1>7. /\ job'.stage = "taken" /\ job'.since = job.since /\ job'.rows = job.rows
        /\ job'.todo = job.todo \ {c} /\ job'.open = {o} /\ job' \in Jobs
    BY <1>2, <1>3, <1>6 DEF IInv, TypeOK, Jobs
  <1>8. TodoInv'
    <2>1. \A d \in job.todo : d.direct = TRUE /\ WasDirect(job.since, d.port, d.pid)'
      BY <1>5, <1>7, DirectStays DEF IInv, JobInv, TodoInv
    <2>2. clock \in job.since..clock
      BY <1>3, Typed
    <2>3. WasDirect(job.since, o.port, o.pid)'
      BY <1>3, <1>5, <1>6, <1>7, DirectStays
    <2>4. \E u \in job.since..clock : RanAs(u, o.pid, o.name)'
      BY <1>1, <1>4, <1>6, <2>2
    <2> QED
      BY <1>1, <1>3, <1>7, <2>1, <2>3, <2>4 DEF TodoInv
  <1>9. DoneInv'
    <2>1. \A r \in job.rows : RowTrue(r)'
      BY <1>5, RowStays DEF IInv, JobInv, DoneInv
    <2> QED
      BY <1>1, <1>7, <2>1 DEF IInv, JobInv, DoneInv
  <1>10. OnceInv'
    <2>1. ASSUME NEW d \in job.todo \ {c} PROVE ~Same(o, d)
      <3>1. d \in Conns /\ d.direct = TRUE /\ d # c
        BY DEF IInv, TypeOK, Jobs, JobInv, TodoInv
      <3>2. d = [port |-> d.port, pid |-> d.pid, direct |-> TRUE]
        BY <3>1 DEF Conns
      <3>3. c = [port |-> c.port, pid |-> c.pid, direct |-> TRUE]
        BY <1>3 DEF Conns
      <3>4. d.port # c.port \/ d.pid # c.pid
        BY <3>1, <3>2, <3>3
      <3> QED
        BY <1>6, <3>4 DEF Same
    <2>2. \A r \in job.rows : \A d \in (job.todo \ {c}) \cup {o} : ~Same(r, d)
      BY <1>2, <1>6 DEF IInv, JobInv, OnceInv, Same
    <2> QED
      BY <1>7, <2>1, <2>2 DEF IInv, JobInv, OnceInv, Same
  <1>11. \A r \in rows : r.last <= job'.since
    BY <1>3, <1>7 DEF IInv, RowInv
  <1> QED
    BY <1>1, <1>3, <1>4, <1>7, <1>8, <1>9, <1>10, <1>11, JobStep DEF JobInv

LEMMA StampStep == IInv /\ Stamp => IInv'
  <1> SUFFICES ASSUME IInv, Stamp PROVE IInv'
    OBVIOUS
  <1>1. UNCHANGED <<clock, system, caches, rows, polling, failed, left>>
    BY DEF Stamp
  <1>2. PICK o \in job.open :
          job' = [job EXCEPT !.open = {},
                             !.rows = @ \cup {[port |-> o.port, pid |-> o.pid, name |-> o.name,
                                               first |-> clock, last |-> clock]}]
    BY DEF Stamp
  <1>3. /\ o \in [port : Ports, pid : Pids, name : Named] /\ WasDirect(job.since, o.port, o.pid)
        /\ job.stage = "taken" /\ job.since <= clock /\ clock - job.since <= Slack
        /\ job.since \in 0..clock /\ clock \in Nat
    BY <1>2, Typed, TimesAssumption DEF IInv, TypeOK, Jobs, Times, JobInv, TodoInv
  <1>4. PICK u \in job.since..clock : RanAs(u, o.pid, o.name)
    BY DEF IInv, JobInv, TodoInv
  <1>5. u \in 0..clock /\ clock - u <= Slack
    BY <1>3, <1>4, Typed
  <1>6. Grows
    BY <1>1 DEF Grows, system
  <1>7. PICK r \in Rows : r = [port |-> o.port, pid |-> o.pid, name |-> o.name,
                              first |-> clock, last |-> clock]
    BY <1>3, Typed DEF Rows
  <1>8. /\ job'.stage = "taken" /\ job'.since = job.since /\ job'.rows = job.rows \cup {r}
        /\ job'.todo = job.todo /\ job'.open = {} /\ job' \in Jobs
    BY <1>2, <1>3, <1>7 DEF IInv, TypeOK, Jobs
  <1>9. RowTrue(r)
    BY <1>3, <1>4, <1>5, <1>7 DEF RowTrue
  <1>10. TodoInv'
    <2>1. \A c \in job.todo : c.direct = TRUE /\ WasDirect(job.since, c.port, c.pid)'
      BY <1>6, <1>8, DirectStays DEF IInv, JobInv, TodoInv
    <2> QED
      BY <1>1, <1>3, <1>8, <2>1 DEF TodoInv
  <1>11. DoneInv'
    <2>1. \A x \in job.rows : RowTrue(x)'
      BY <1>6, RowStays DEF IInv, JobInv, DoneInv
    <2>2. RowTrue(r)' /\ r.first = r.last /\ job.since <= r.last /\ r.last <= clock
      BY <1>3, <1>6, <1>7, <1>9, RowStays
    <2> QED
      BY <1>1, <1>8, <2>1, <2>2 DEF IInv, JobInv, DoneInv
  <1>12. OnceInv'
    BY <1>2, <1>7, <1>8 DEF IInv, JobInv, OnceInv, Same
  <1>13. \A x \in rows : x.last <= job'.since
    BY <1>3, <1>8 DEF IInv, RowInv
  <1>14. failed \subseteq failed' /\ left' \in [Operations -> Nat]
    BY <1>1 DEF IInv, TypeOK
  <1> QED
    BY <1>1, <1>3, <1>8, <1>10, <1>11, <1>12, <1>13, <1>14, JobStep DEF JobInv

\* A row that is there and one of the snapshot for the same connection make a true row.
LEMMA LaterFacts ==
    ASSUME IInv, job.stage = "taken", NEW r \in rows, NEW s \in job.rows, Same(r, s)
    PROVE  /\ Later(r, s) \in Rows /\ RowTrue(Later(r, s)) /\ Later(r, s).last <= clock
           /\ Same(Later(r, s), r)
  <1>1. /\ r \in Rows /\ RowTrue(r) /\ r.last <= job.since
    BY DEF IInv, TypeOK, RowInv
  <1>2. /\ s \in Rows /\ RowTrue(s) /\ job.since <= s.last /\ s.last <= clock
        /\ job.since \in Nat
    BY TimesAssumption DEF IInv, TypeOK, Jobs, Times, JobInv, DoneInv
  <1>3. PICK w \in Rows : /\ w = Later(r, s) /\ w.port = r.port /\ w.pid = r.pid
                          /\ w.name = r.name /\ w.first = r.first /\ w.last = s.last
    <2>1. s.last \in Times
      BY <1>2 DEF Rows
    <2>2. [r EXCEPT !.last = s.last] \in Rows
      BY <1>1, <2>1 DEF Rows
    <2> QED
      BY <1>1, <2>2 DEF Later, Rows
  <1>4. w.first <= w.last
    BY <1>1, <1>2, <1>3, Typed DEF RowTrue, Rows
  <1>5. /\ \E t \in 0..w.first : w.first - t <= Slack /\ WasDirect(t, w.port, w.pid)
        /\ \E u \in 0..w.first : w.first - u <= Slack /\ RanAs(u, w.pid, w.name)
    BY <1>1, <1>3 DEF RowTrue
  <1>6. \E t \in 0..w.last : w.last - t <= Slack /\ WasDirect(t, w.port, w.pid)
    BY <1>2, <1>3 DEF RowTrue, Same
  <1>7. RowTrue(w)
    BY <1>4, <1>5, <1>6 DEF RowTrue
  <1> QED
    BY <1>2, <1>3, <1>7 DEF Same

\* What a snapshot makes of the rows: true rows, one for a connection.
LEMMA MergedFacts ==
    ASSUME IInv, job.stage = "taken"
    PROVE  /\ \A r \in Merged : r \in Rows /\ RowTrue(r) /\ r.last <= clock
           /\ \A r, s \in Merged : Same(r, s) => r = s
  <1> DEFINE Kept(x) == x \in rows /\ \A s \in job.rows : ~Same(x, s)
             New(x) == x \in job.rows /\ \A r \in rows : ~Same(r, x)
             Joined(x, r, s) == r \in rows /\ s \in job.rows /\ Same(r, s) /\ x = Later(r, s)
  <1>1. ASSUME NEW x \in Merged PROVE Kept(x) \/ New(x) \/ \E r, s : Joined(x, r, s)
    <2>1. CASE x \in {Later(p[1], p[2]) : p \in {q \in rows \X job.rows : Same(q[1], q[2])}}
      <3>1. PICK p \in rows \X job.rows : Same(p[1], p[2]) /\ x = Later(p[1], p[2])
        BY <2>1
      <3>2. p[1] \in rows /\ p[2] \in job.rows
        BY <3>1
      <3> QED
        BY <3>1, <3>2
    <2> QED
      BY <2>1 DEF Merged
  <1>2. ASSUME NEW x \in Merged PROVE x \in Rows /\ RowTrue(x) /\ x.last <= clock
    <2>1. CASE Kept(x)
      BY <2>1 DEF IInv, TypeOK, RowInv
    <2>2. CASE New(x)
      BY <2>2 DEF IInv, TypeOK, Jobs, JobInv, DoneInv
    <2>3. CASE \E r, s : Joined(x, r, s)
      BY <2>3, LaterFacts
    <2> QED
      BY <1>1, <2>1, <2>2, <2>3
  <1>3. \A x, r, s : Joined(x, r, s) => Same(x, r) /\ Same(r, s)
    BY LaterFacts
  <1>4. /\ \A r, q \in rows : Same(r, q) => r = q
        /\ \A r, q \in job.rows : Same(r, q) => r = q
    BY DEF IInv, TypeOK, JobInv, OnceInv, Same
  <1>5. ASSUME NEW x \in Merged, NEW y \in Merged, Same(x, y) PROVE x = y
    <2> HIDE DEF Kept, New, Joined
    <2>1. ASSUME NEW a, NEW b, Kept(a), Kept(b), Same(a, b) PROVE a = b
      BY <1>4, <2>1 DEF Kept
    <2>2. ASSUME NEW a, NEW b, New(a), New(b), Same(a, b) PROVE a = b
      BY <1>4, <2>2 DEF New
    <2>3. ASSUME NEW a, NEW b, Kept(a), New(b) PROVE ~Same(a, b) /\ ~Same(b, a)
      BY <2>3 DEF Kept, New, Same
    <2>4. ASSUME NEW a, NEW b, NEW r, NEW s, Kept(a), Joined(b, r, s)
          PROVE  ~Same(a, b) /\ ~Same(b, a)
      <3>1. \A q \in job.rows : ~Same(a, q)
        BY <2>4 DEF Kept
      <3>2. s \in job.rows /\ Same(b, r) /\ Same(r, s)
        BY <1>3, <2>4 DEF Joined
      <3> QED
        BY <3>1, <3>2 DEF Same
    <2>5. ASSUME NEW a, NEW b, NEW r, NEW s, New(a), Joined(b, r, s)
          PROVE  ~Same(a, b) /\ ~Same(b, a)
      <3>1. \A q \in rows : ~Same(q, a)
        BY <2>5 DEF New
      <3>2. r \in rows /\ Same(b, r)
        BY <1>3, <2>5 DEF Joined
      <3> QED
        BY <3>1, <3>2 DEF Same
    <2>6. ASSUME NEW a, NEW b, NEW r, NEW s, NEW q, NEW z, Joined(a, r, s), Joined(b, q, z), Same(a, b)
          PROVE  a = b
      <3>1. /\ r \in rows /\ q \in rows /\ s \in job.rows /\ z \in job.rows
            /\ a = Later(r, s) /\ b = Later(q, z)
        BY <2>6 DEF Joined
      <3>2. Same(a, r) /\ Same(r, s) /\ Same(b, q) /\ Same(q, z)
        BY <1>3, <2>6
      <3>3. Same(r, q) /\ Same(s, z)
        BY <2>6, <3>2 DEF Same
      <3>4. r = q /\ s = z
        BY <1>4, <3>1, <3>3
      <3> QED
        BY <3>1, <3>4
    <2>7. Same(y, x)
      BY <1>5 DEF Same
    <2> QED
      BY <1>1, <1>5, <2>1, <2>2, <2>3, <2>4, <2>5, <2>6, <2>7
  <1> QED
    BY <1>2, <1>5

LEMMA MergeStep == IInv /\ Merge => IInv'
  <1> SUFFICES ASSUME IInv, Merge PROVE IInv'
    OBVIOUS
  <1> DEFINE kept == {r \in Merged : r.last >= clock - Retention}
  <1>1. /\ UNCHANGED <<clock, system, caches, failed, left>>
        /\ job.stage = "taken" /\ job' = NoJob /\ polling' = FALSE
    BY DEF Merge, Done
  <1>2. PICK some \in SUBSET kept :
          /\ IF Cardinality(kept) <= MaxRows THEN some = kept ELSE Cardinality(some) = MaxRows
          /\ rows' = some
    BY DEF Merge
  <1>3. rows' \subseteq Merged
    BY <1>2
  <1> HIDE DEF kept
  <1>4. Cardinality(rows') <= MaxRows
    <2>1. CASE Cardinality(kept) <= MaxRows
      BY <1>2, <2>1
    <2>2. CASE ~(Cardinality(kept) <= MaxRows)
      BY <1>2, <2>2, TimesAssumption
    <2> QED
      BY <2>1, <2>2
  <1>5. /\ rows' \subseteq Rows
        /\ \A r, s \in rows' : r.port = s.port /\ r.pid = s.pid => r = s
        /\ \A r \in rows' : RowTrue(r) /\ r.last <= clock
    BY <1>1, <1>3, MergedFacts DEF Same
  <1>6. NowInv' /\ CacheInv' /\ Grows
    BY <1>1, RadarStep
  <1>7. job' = [stage |-> "none", since |-> 0, todo |-> {}, open |-> {}, rows |-> {}]
        /\ job' \in Jobs
    BY <1>1, Typed DEF NoJob, Jobs
  <1>8. TypeOK'
    <2>1. job' \in Jobs /\ job'.stage = "none"
      BY <1>7
    <2>2. polling' \in BOOLEAN
      BY <1>1
    <2>3. UNCHANGED <<clock, table, image, ports, pids, task, left>>
      BY <1>1 DEF system, caches, lookups
    <2> QED
      BY <1>4, <1>5, <2>1, <2>2, <2>3 DEF IInv, TypeOK
  <1>9. RowInv'
    <2>1. \A r \in rows' : RowTrue(r)'
      BY <1>5, <1>6, RowStays
    <2> QED
      BY <1>1, <1>5, <1>7, <2>1 DEF RowInv
  <1>10. JobInv'
    BY <1>1, <1>7, Typed DEF JobInv, TodoInv, DoneInv, OnceInv
  <1> QED
    BY <1>6, <1>8, <1>9, <1>10 DEF IInv

LEMMA ClearStep == IInv /\ Clear => IInv'
  <1> SUFFICES ASSUME IInv, Clear PROVE IInv'
    OBVIOUS
  <1>1. UNCHANGED <<clock, system, caches, polling, job, failed>> /\ rows' = {}
    BY DEF Clear
  <1>2. left' \in [Operations -> Nat]
    BY SpendType DEF Clear, IInv, Operations
  <1>3. Cardinality(rows') <= MaxRows
    BY <1>1, FS_EmptySet, TimesAssumption
  <1>4. TypeOK'
    BY <1>1, <1>2, <1>3 DEF IInv, TypeOK, system, caches, lookups
  <1>5. NowInv' /\ CacheInv' /\ Grows
    BY <1>1, RadarStep
  <1>6. JobInv' /\ RowInv'
    <2>1. TodoInv'
      BY <1>1 DEF IInv, JobInv, TodoInv, WasDirect, RanAs, system
    <2>2. DoneInv'
      BY <1>1, <1>5, RowStays DEF IInv, JobInv, DoneInv
    <2>3. OnceInv'
      BY <1>1 DEF IInv, JobInv, OnceInv, Same
    <2>4. RowInv'
      BY <1>1 DEF RowInv
    <2> QED
      BY <2>1, <2>2, <2>3, <2>4 DEF JobInv
  <1> QED
    BY <1>4, <1>5, <1>6 DEF IInv

LEMMA StutterStep == IInv /\ UNCHANGED vars => IInv'
  <1> SUFFICES ASSUME IInv, UNCHANGED vars PROVE IInv'
    OBVIOUS
  <1>1. TypeOK'
    BY DEF IInv, TypeOK, vars, system, caches, lookups, radar
  <1>2. UNCHANGED <<clock, system, caches>> /\ UNCHANGED <<clock, system, radar>>
        /\ failed \subseteq failed'
    BY DEF vars
  <1> QED
    BY <1>1, <1>2, RadarStep, LookupStep DEF IInv

----------------------------------------------------------------------------

\* What the caches, the lookups, the snapshot and the rows hold was so at the times they are from,
\* whatever the system does between two calls, and whichever of them fail.
THEOREM RadarInvariance == Spec => []IInv
  <1>1. ASSUME NEW t \in Tasks, IInv,
               \/ Hit(t) \/ Miss(t) \/ FindOwner(t) \/ Recall(t) \/ OpenProcess(t)
               \/ InsertPid(t) \/ InsertPort(t)
        PROVE  IInv'
    BY <1>1, HitStep, MissStep, FindOwnerStep, RecallStep, OpenProcessStep, InsertPidStep,
       InsertPortStep
  <1>2. IInv /\ [Next]_vars => IInv'
    BY <1>1, TickStep, ChangeStep, PollStep, SnapshotStep, InspectStep, StampStep, MergeStep,
       ClearStep, StutterStep DEF Next
  <1> QED
    BY <1>2, InitIInv, PTL DEF Spec

\* Every variable keeps its type: one entry for an address, a process number and a connection, and
\* never more rows than the limit (bypass_connections).
THEOREM RadarTypes == Spec => []TypeOK
  <1>1. IInv => TypeOK
    BY DEF IInv
  <1> QED
    BY <1>1, RadarInvariance, PTL

\* What is shown of processes was true of their numbers not long before it says so: an answer of
\* resolve_client at most two times to live and two lookups before, a row of the radar at most the
\* taking of a snapshot before its first and its last time.
THEOREM Observations == Spec => []ObservationsAreTrue
  <1>1. IInv => AttributionIsRecent
    <2> SUFFICES ASSUME IInv, NEW a \in answers
                 PROVE  /\ \E t \in 0..clock :
                              /\ clock - t < Ttl + Slack
                              /\ IF a.pid = Nobody THEN NobodyHad(t, a.port)
                                 ELSE HadPort(t, a.port, a.pid)
                        /\ IF a.pid = Nobody THEN a.name = Nobody
                           ELSE \E u \in 0..clock :
                                   clock - u < 2 * (Ttl + Slack) /\ RanAs(u, a.pid, a.name)
      BY Zenon DEF AttributionIsRecent
    <2>1. AnswerTrue(a)
      BY DEF IInv, CacheInv
    <2> QED
      BY <2>1, Zenon DEF AnswerTrue, Owned, NamedWithin
  <1>2. IInv => RowsAreTrue
    BY Zenon DEF IInv, RowInv, RowTrue, RowsAreTrue
  <1>3. IInv => ObservationsAreTrue
    BY <1>1, <1>2 DEF ObservationsAreTrue
  <1> QED
    BY <1>3, RadarInvariance, PTL
=============================================================================
