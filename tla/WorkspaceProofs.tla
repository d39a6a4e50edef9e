-------------------------- MODULE WorkspaceProofs --------------------------
(***************************************************************************)
(* Proofs about Workspace, for any number of sample rows, any limits of    *)
(* the table and any number of operations: the selection, the database,    *)
(* the state shown, the windows of an experiment, pinned rows, and the     *)
(* frames that are asked for.                                              *)
(***************************************************************************)
EXTENDS Workspace, TLAPS

\* The parts of the inductive invariant.

Unique(rows) == \A i, j \in DOMAIN rows : rows[i].id = rows[j].id => i = j
Below(rows) == \A i \in DOMAIN rows : rows[i].id <= made
IsRow(i) == channel[i].kind \in RowEvents

\* An id is handed out once; what is on its way is neither in the table nor in the capsule.
IdInv ==
    /\ Unique(sessions) /\ Unique(capsule) /\ Below(sessions) /\ Below(capsule)
    /\ \A i \in DOMAIN channel : IsRow(i) =>
          /\ channel[i].id <= made
          /\ channel[i].id \notin Ids(sessions) /\ channel[i].id \notin Ids(capsule)
    /\ \A i, j \in DOMAIN channel : IsRow(i) /\ IsRow(j) /\ channel[i].id = channel[j].id => i = j

\* The last event of a state that is on its way, or the state itself when there is none, does not
\* show a capture under way.
Last(i) == \A j \in DOMAIN channel : j > i => channel[j].kind \notin StateEvents
Settled ==
    /\ (\A i \in DOMAIN channel : channel[i].kind \notin StateEvents)
          => state \notin {"Starting", "Capturing"}
    /\ \A i \in DOMAIN channel : channel[i].kind \in StateEvents /\ Last(i)
          => channel[i].kind \in {"stopped", "error"}

\* The worker has said its last word about its state before it ends.
SettledInv == worker \in {"none", "closing", "returning", "finished"} => Settled

\* The rows after the start of an open window are rows of the window, and all of them while the
\* table only grew.
OpenInv ==
    \A w \in Windows : \A n \in window[w].start :
        /\ window[w].start = {n}
        /\ From(n) \subseteq window[w].since
        /\ window[w].intact => n <= Len(sessions) /\ window[w].since \subseteq From(n)

IInv ==
    /\ TypeOK /\ IdInv /\ SelectionInTable /\ SavedAsShown /\ SettledInv
    /\ OpenInv /\ WindowHoldsItsRows

----------------------------------------------------------------------------
(* Rows, events and budgets. *)

LEMMA RemoveFacts ==
    ASSUME NEW rows \in Seq(Row), NEW p \in DOMAIN rows
    PROVE  /\ Remove(rows, p) \in Seq(Row) /\ Len(Remove(rows, p)) = Len(rows) - 1
           /\ DOMAIN Remove(rows, p) = 1..Len(rows) - 1
           /\ \A i \in 1..Len(rows) - 1 :
                 Remove(rows, p)[i] = IF i < p THEN rows[i] ELSE rows[i + 1]
  <1> DEFINE m == Len(rows) - 1
             rest == [i \in 1..m |-> IF i < p THEN rows[i] ELSE rows[i + 1]]
  <1>1. m \in Nat
    OBVIOUS
  <1>2. \A i \in 1..m : (IF i < p THEN rows[i] ELSE rows[i + 1]) \in Row
    OBVIOUS
  <1>3. rest \in [1..m -> Row] /\ \A i \in 1..m : rest[i] = IF i < p THEN rows[i] ELSE rows[i + 1]
    BY <1>2
  <1>4. Remove(rows, p) = rest
    BY DEF Remove
  <1> HIDE DEF rest, m
  <1>5. rest \in Seq(Row) /\ Len(rest) = m /\ DOMAIN rest = 1..m
    BY <1>1, <1>3
  <1> QED
    BY <1>3, <1>4, <1>5 DEF m

\* A row that is not the one removed is found again, at its place or one before it.
LEMMA RemoveKeeps ==
    ASSUME NEW rows \in Seq(Row), NEW p \in DOMAIN rows, NEW q \in DOMAIN rows, q # p
    PROVE  rows[q].id \in Ids(Remove(rows, p))
  <1> DEFINE i == IF q < p THEN q ELSE q - 1
  <1>1. i \in 1..Len(rows) - 1 /\ (IF i < p THEN rows[i] ELSE rows[i + 1]) = rows[q]
    OBVIOUS
  <1>2. i \in DOMAIN Remove(rows, p) /\ Remove(rows, p)[i] = rows[q]
    BY <1>1, RemoveFacts
  <1> HIDE DEF i
  <1> QED
    BY <1>2 DEF Ids

LEMMA AppendFacts ==
    ASSUME NEW rows \in Seq(Row), NEW row \in Row
    PROVE  /\ Append(rows, row) \in Seq(Row) /\ Len(Append(rows, row)) = Len(rows) + 1
           /\ DOMAIN Append(rows, row) = 1..Len(rows) + 1
           /\ \A i \in 1..Len(rows) : Append(rows, row)[i] = rows[i]
           /\ Append(rows, row)[Len(rows) + 1] = row
           /\ Ids(Append(rows, row)) = Ids(rows) \cup {row.id}
  <1>1. /\ Append(rows, row) \in Seq(Row) /\ Len(Append(rows, row)) = Len(rows) + 1
        /\ DOMAIN Append(rows, row) = 1..Len(rows) + 1
        /\ \A i \in 1..Len(rows) : Append(rows, row)[i] = rows[i]
        /\ Append(rows, row)[Len(rows) + 1] = row
    OBVIOUS
  <1>2. DOMAIN rows = 1..Len(rows) /\ Len(rows) \in Nat
    OBVIOUS
  <1>3. \A i \in 1..Len(rows) + 1 : i \in 1..Len(rows) \/ i = Len(rows) + 1
    BY <1>2
  <1> QED
    BY <1>1, <1>2, <1>3 DEF Ids

LEMMA SendFacts ==
    ASSUME TypeOK, NEW event \in Event, Send(event)
    PROVE  /\ channel' \in Seq(Event) /\ Len(channel) \in Nat
           /\ DOMAIN channel = 1..Len(channel) /\ DOMAIN channel' = 1..Len(channel) + 1
           /\ \A i \in DOMAIN channel : channel'[i] = channel[i]
           /\ channel'[Len(channel) + 1] = event
  BY DEF TypeOK, Send

LEMMA ReceiveFacts ==
    ASSUME TypeOK, Receive
    PROVE  /\ channel' \in Seq(Event) /\ Len(channel) \in Nat \ {0}
           /\ DOMAIN channel = 1..Len(channel) /\ DOMAIN channel' = 1..Len(channel) - 1
           /\ \A i \in DOMAIN channel' : channel'[i] = channel[i + 1]
           /\ Head(channel) = channel[1] /\ Head(channel) \in Event
  BY DEF TypeOK, Receive

LEMMA SpendType ==
    ASSUME TypeOK, NEW operation \in Operations, Spend(operation) PROVE left' \in [Operations -> Nat]
  BY DEF TypeOK, Spend

LEMMA PlainType ==
    ASSUME NEW kind \in StateEvents \cup {"operation error"} PROVE Plain(kind) \in Event
  BY DEF Plain, Event

LEMMA ClearType ==
    ASSUME TypeOK,
           window' = [w \in Windows |-> [window[w] EXCEPT !.intact = @ /\ window[w].start = {}]]
    PROVE  /\ window' \in [Windows -> Window]
           /\ \A w \in Windows :
                 /\ window'[w].start = window[w].start /\ window'[w].picked = window[w].picked
                 /\ window'[w].since = window[w].since
                 /\ window'[w].intact => window[w].intact /\ window[w].start = {}
  <1>1. \A w \in Windows : window[w] \in Window
    BY DEF TypeOK
  <1>2. \A w \in Windows : window'[w] = [window[w] EXCEPT !.intact = @ /\ window[w].start = {}]
    OBVIOUS
  <1>3. ASSUME NEW w \in Windows
        PROVE  /\ window'[w] \in Window
               /\ window'[w].start = window[w].start /\ window'[w].picked = window[w].picked
               /\ window'[w].since = window[w].since
               /\ window'[w].intact => window[w].intact /\ window[w].start = {}
    <2> DEFINE b == window[w].intact /\ window[w].start = {}
    <2>1. window'[w] = [window[w] EXCEPT !.intact = b]
      BY <1>2
    <2>2. b \in BOOLEAN
      BY <1>1 DEF Window
    <2> HIDE DEF b
    <2>3. /\ window'[w] \in Window /\ window'[w].intact = b
          /\ window'[w].start = window[w].start /\ window'[w].picked = window[w].picked
          /\ window'[w].since = window[w].since
      BY <1>1, <2>1, <2>2 DEF Window
    <2> QED
      BY <2>3 DEF b
  <1> QED
    BY <1>3

----------------------------------------------------------------------------
(* The ids, when the channel moves and the table does not. *)

LEMMA IdsStay ==
    ASSUME TypeOK, IdInv, UNCHANGED <<sessions, capsule, channel, made>> PROVE IdInv'
  BY DEF IdInv, Unique, Below, Ids, IsRow

LEMMA IdsSend ==
    ASSUME TypeOK, IdInv, NEW event \in Event, Send(event), UNCHANGED <<sessions, capsule>>,
           \/ UNCHANGED made /\ event.kind \notin RowEvents
           \/ made' = made + 1 /\ event.id = made + 1
    PROVE  IdInv'
  <1>1. made \in Nat /\ made' \in Nat /\ made <= made'
    BY DEF TypeOK
  <1>2. ASSUME NEW rows \in Seq(Row), Below(rows)
        PROVE  Below(rows)' /\ (made' = made + 1 => made + 1 \notin Ids(rows))
    <2>1. \A i \in DOMAIN rows : rows[i] \in Row
      OBVIOUS
    <2>2. \A i \in DOMAIN rows : rows[i].id \in Nat
      BY <2>1 DEF Row
    <2> QED
      BY <1>1, <1>2, <2>2 DEF Below, Ids
  <1>3. Unique(sessions)' /\ Unique(capsule)' /\ Below(sessions)' /\ Below(capsule)'
    BY <1>2 DEF IdInv, Unique, TypeOK
  <1>4. \A i \in DOMAIN channel' : i \in DOMAIN channel \/ i = Len(channel) + 1
    BY SendFacts
  <1>5. \A i \in DOMAIN channel : channel[i].id \in Nat
    <2>1. \A i \in DOMAIN channel : channel[i] \in Event
      BY DEF TypeOK
    <2> QED
      BY <2>1 DEF Event
  <1>6. ASSUME NEW i \in DOMAIN channel', IsRow(i)'
        PROVE  /\ channel'[i].id <= made'
               /\ channel'[i].id \notin Ids(sessions) /\ channel'[i].id \notin Ids(capsule)
    <2>1. CASE i \in DOMAIN channel
      BY <1>1, <1>5, <1>6, <2>1, SendFacts DEF IdInv, IsRow
    <2>2. CASE i = Len(channel) + 1
      BY <1>1, <1>2, <1>6, <2>2, SendFacts DEF IdInv, IsRow, TypeOK
    <2> QED
      BY <1>4, <2>1, <2>2
  <1>7. ASSUME NEW i \in DOMAIN channel', NEW j \in DOMAIN channel', IsRow(i)', IsRow(j)',
               channel'[i].id = channel'[j].id
        PROVE  i = j
    <2>1. CASE i \in DOMAIN channel /\ j \in DOMAIN channel
      BY <1>7, <2>1, SendFacts DEF IdInv, IsRow
    <2>2. ASSUME NEW k \in DOMAIN channel, IsRow(k), event.kind \in RowEvents,
                 channel[k].id = event.id
          PROVE  FALSE
      BY <1>1, <1>5, <2>2 DEF IdInv
    <2> QED
      BY <1>4, <1>7, <2>1, <2>2, SendFacts DEF IsRow
  <1> QED
    BY <1>3, <1>6, <1>7 DEF IdInv, Ids

\* What is received leaves the channel; a row of the channel is new to the table.
LEMMA IdsReceive ==
    ASSUME TypeOK, IdInv, Receive
    PROVE  /\ \A i, j \in DOMAIN channel' :
                 IsRow(i)' /\ IsRow(j)' /\ channel'[i].id = channel'[j].id => i = j
           /\ \A i \in DOMAIN channel' : IsRow(i)' =>
                 /\ channel'[i].id <= made
                 /\ channel'[i].id \notin Ids(sessions) /\ channel'[i].id \notin Ids(capsule)
                 /\ Head(channel).kind \in RowEvents => channel'[i].id # Head(channel).id
  <1>1. \A i \in DOMAIN channel' :
          /\ i + 1 \in DOMAIN channel /\ channel'[i] = channel[i + 1] /\ i + 1 # 1
          /\ IsRow(i)' => IsRow(i + 1)
    BY ReceiveFacts DEF IsRow
  <1>2. 1 \in DOMAIN channel /\ Head(channel) = channel[1]
    BY ReceiveFacts
  <1>3. ASSUME NEW i \in DOMAIN channel', IsRow(i)'
        PROVE  /\ channel'[i].id <= made
               /\ channel'[i].id \notin Ids(sessions) /\ channel'[i].id \notin Ids(capsule)
               /\ Head(channel).kind \in RowEvents => channel'[i].id # Head(channel).id
    BY <1>1, <1>2, <1>3 DEF IdInv, IsRow
  <1>4. ASSUME NEW i \in DOMAIN channel', NEW j \in DOMAIN channel', IsRow(i)', IsRow(j)',
               channel'[i].id = channel'[j].id
        PROVE  i = j
    <2>1. i + 1 = j + 1
      BY <1>1, <1>4 DEF IdInv
    <2> QED
      BY <2>1, ReceiveFacts
  <1> QED
    BY <1>3, <1>4

----------------------------------------------------------------------------
(* The state shown. *)

LEMMA SettledStays ==
    ASSUME Settled, UNCHANGED channel, state' = state \/ state' \in {"Stopping", "Failed"}
    PROVE  Settled'
  BY DEF Settled, Last

\* The worker's last word settles the state, whatever was sent before.
LEMMA SettledByWord ==
    ASSUME TypeOK, NEW event \in Event, Send(event), event.kind \in {"stopped", "error"}
    PROVE  Settled'
  <1>1. Len(channel) + 1 \in DOMAIN channel' /\ channel'[Len(channel) + 1].kind \in StateEvents
    BY SendFacts DEF StateEvents
  <1>2. ASSUME NEW i \in DOMAIN channel', channel'[i].kind \in StateEvents, Last(i)'
        PROVE  i = Len(channel) + 1
    BY <1>1, <1>2, SendFacts DEF Last
  <1> QED
    BY <1>1, <1>2, SendFacts DEF Settled

LEMMA SettledByRow ==
    ASSUME TypeOK, Settled, NEW event \in Event, Send(event), event.kind \notin StateEvents,
           UNCHANGED state
    PROVE  Settled'
  <1>1. DOMAIN channel \subseteq DOMAIN channel'
    BY SendFacts
  <1>2. \A i \in DOMAIN channel' : i \in DOMAIN channel \/ i = Len(channel) + 1
    BY SendFacts
  <1>3. ASSUME NEW i \in DOMAIN channel', channel'[i].kind \in StateEvents, Last(i)'
        PROVE  channel'[i].kind \in {"stopped", "error"}
    <2>1. i \in DOMAIN channel /\ channel[i].kind \in StateEvents
      BY <1>2, <1>3, SendFacts
    <2>2. Last(i)
      BY <1>1, <1>3, SendFacts DEF Last
    <2> QED
      BY <2>1, <2>2, SendFacts DEF Settled
  <1>4. (\A i \in DOMAIN channel' : channel'[i].kind \notin StateEvents)
           => \A i \in DOMAIN channel : channel[i].kind \notin StateEvents
    BY <1>1, SendFacts
  <1> QED
    BY <1>3, <1>4 DEF Settled

\* Receiving an event does not change what will be shown in the end.
LEMMA SettledReceive ==
    ASSUME TypeOK, Settled, Receive,
           state' = IF Head(channel).kind \in StateEvents THEN ShownAs[Head(channel).kind] ELSE state
    PROVE  Settled'
  <1>1. \A i \in DOMAIN channel' : i + 1 \in DOMAIN channel /\ channel'[i] = channel[i + 1]
    BY ReceiveFacts
  <1>2. \A i \in DOMAIN channel : i # 1 => i - 1 \in DOMAIN channel' /\ channel'[i - 1] = channel[i]
    BY ReceiveFacts
  <1>3. ASSUME NEW i \in DOMAIN channel', channel'[i].kind \in StateEvents, Last(i)'
        PROVE  channel'[i].kind \in {"stopped", "error"}
    <2>1. ASSUME NEW j \in DOMAIN channel, j > i + 1 PROVE channel[j].kind \notin StateEvents
      <3>1. j - 1 \in DOMAIN channel' /\ channel'[j - 1] = channel[j] /\ j - 1 > i
        BY <1>2, <2>1, ReceiveFacts
      <3> QED
        BY <1>3, <3>1 DEF Last
    <2>2. Last(i + 1)
      BY <2>1 DEF Last
    <2> QED
      BY <1>1, <1>3, <2>2 DEF Settled
  <1>4. ASSUME \A i \in DOMAIN channel' : channel'[i].kind \notin StateEvents
        PROVE  state' \notin {"Starting", "Capturing"}
    <2>1. \A j \in DOMAIN channel : j > 1 => channel[j].kind \notin StateEvents
      BY <1>2, <1>4
    <2>2. CASE Head(channel).kind \in StateEvents
      <3>1. 1 \in DOMAIN channel /\ channel[1].kind \in StateEvents /\ Last(1)
        BY <2>1, <2>2, ReceiveFacts DEF Last
      <3>2. Head(channel).kind \in {"stopped", "error"}
        BY <3>1, ReceiveFacts DEF Settled
      <3>3. state' \in {"Idle", "Failed"}
        BY <2>2, <3>2 DEF ShownAs
      <3> QED
        BY <3>3
    <2>3. CASE Head(channel).kind \notin StateEvents
      <3>1. \A j \in DOMAIN channel : j = 1 \/ j > 1
        BY ReceiveFacts
      <3>2. \A j \in DOMAIN channel : channel[j].kind \notin StateEvents
        BY <2>1, <2>3, <3>1, ReceiveFacts
      <3> QED
        BY <2>3, <3>2 DEF Settled
    <2> QED
      BY <2>2, <2>3
  <1> QED
    BY <1>3, <1>4 DEF Settled

----------------------------------------------------------------------------
(* Saved rows, and the rows of a window. *)

RowSaved(row, records, lost) ==
    row.ws \/ row.id \in lost \/ [id |-> row.id, pinned |-> row.pinned] \in records

LEMMA SaveFacts ==
    ASSUME TypeOK, SavedAsShown, NEW row \in Row, NEW budget \in [Operations -> Nat],
           Save(row, budget)
    PROVE  /\ database' \subseteq [id : Nat, pinned : BOOLEAN]
           /\ unsaved' \subseteq Nat /\ left' \in [Operations -> Nat]
           /\ \A r, s \in database' : r.id = s.id => r = s
           /\ RowSaved(row, database', unsaved')
           /\ \A other \in Row : RowSaved(other, database, unsaved) /\ other.id # row.id
                 => RowSaved(other, database', unsaved')
  <1> DEFINE record == [id |-> row.id, pinned |-> row.pinned]
  <1>1. record \in [id : Nat, pinned : BOOLEAN] /\ row.id \in Nat
    BY DEF Row
  <1>2. CASE /\ database' = {r \in database : r.id # row.id} \cup {record}
             /\ unsaved' = unsaved \ {row.id} /\ left' = budget
    <2>1. \A r, s \in database' : r.id = s.id => r = s
      BY <1>2 DEF SavedAsShown
    <2>2. \A other \in Row : RowSaved(other, database, unsaved) /\ other.id # row.id
             => RowSaved(other, database', unsaved')
      BY <1>2 DEF RowSaved
    <2> QED
      BY <1>1, <1>2, <2>1, <2>2 DEF TypeOK, RowSaved
  <1>3. CASE /\ budget["faults"] > 0 /\ left' = [budget EXCEPT !["faults"] = @ - 1]
             /\ unsaved' = unsaved \cup {row.id} /\ UNCHANGED database
    <2>1. left' \in [Operations -> Nat]
      BY <1>3 DEF Operations
    <2> QED
      BY <1>1, <1>3, <2>1 DEF TypeOK, RowSaved, SavedAsShown
  <1> QED
    BY <1>2, <1>3 DEF Save

LEMMA FromAppend ==
    ASSUME TypeOK, NEW row \in Row, sessions' = Append(sessions, row), NEW n \in Nat
    PROVE  /\ From(n)' \subseteq From(n) \cup {row.id}
           /\ n <= Len(sessions) => From(n) \cup {row.id} \subseteq From(n)'
           /\ Len(sessions') = Len(sessions) + 1
  <1>1. sessions \in Seq(Row) /\ Len(sessions) \in Nat /\ DOMAIN sessions = 1..Len(sessions)
    BY DEF TypeOK
  <1>2. /\ DOMAIN sessions' = 1..Len(sessions) + 1 /\ Len(sessions') = Len(sessions) + 1
        /\ \A i \in 1..Len(sessions) : sessions'[i] = sessions[i]
        /\ sessions'[Len(sessions) + 1] = row
    BY <1>1, AppendFacts
  <1>3. ASSUME NEW i \in DOMAIN sessions', i > n PROVE sessions'[i].id \in From(n) \cup {row.id}
    BY <1>1, <1>2, <1>3 DEF From
  <1>4. ASSUME n <= Len(sessions), NEW i \in DOMAIN sessions, i > n
        PROVE  sessions[i].id \in From(n)'
    BY <1>1, <1>2, <1>4 DEF From
  <1>5. ASSUME n <= Len(sessions) PROVE row.id \in From(n)'
    <2>1. Len(sessions) + 1 \in DOMAIN sessions' /\ Len(sessions) + 1 > n
      BY <1>1, <1>2, <1>5
    <2> QED
      BY <1>2, <2>1 DEF From
  <1>6. From(n)' \subseteq From(n) \cup {row.id}
    BY <1>3 DEF From
  <1>7. n <= Len(sessions) => From(n) \cup {row.id} \subseteq From(n)'
    BY <1>4, <1>5 DEF From
  <1> QED
    BY <1>2, <1>6, <1>7

LEMMA FromRemove ==
    ASSUME TypeOK, NEW p \in DOMAIN sessions, sessions' = Remove(sessions, p), NEW n \in Nat
    PROVE  From(n)' \subseteq From(n)
  <1>1. sessions \in Seq(Row) /\ Len(sessions) \in Nat /\ DOMAIN sessions = 1..Len(sessions)
    BY DEF TypeOK
  <1>2. /\ DOMAIN sessions' = 1..Len(sessions) - 1
        /\ \A i \in 1..Len(sessions) - 1 :
              sessions'[i] = IF i < p THEN sessions[i] ELSE sessions[i + 1]
    BY <1>1, RemoveFacts
  <1>3. ASSUME NEW i \in DOMAIN sessions', i > n PROVE sessions'[i].id \in From(n)
    <2>1. PICK q \in DOMAIN sessions : q > n /\ sessions'[i] = sessions[q]
      <3>1. CASE i < p
        BY <1>1, <1>2, <1>3, <3>1
      <3>2. CASE ~(i < p)
        <4>1. i + 1 \in DOMAIN sessions /\ i + 1 > n /\ sessions'[i] = sessions[i + 1]
          BY <1>1, <1>2, <1>3, <3>2
        <4> QED
          BY <4>1
      <3> QED
        BY <3>1, <3>2
    <2> QED
      BY <2>1 DEF From
  <1> QED
    BY <1>3 DEF From

LEMMA WindowFacts ==
    ASSUME TypeOK, NEW w \in Windows
    PROVE  /\ window[w] \in Window /\ window[w].start \subseteq Nat /\ window[w].picked \subseteq Nat
           /\ window[w].since \subseteq Nat /\ window[w].intact \in BOOLEAN
  BY DEF TypeOK, Window

\* What an eviction and a new capture do to the windows, when no row is added.
LEMMA WindowsCleared ==
    ASSUME TypeOK, OpenInv, WindowHoldsItsRows,
           window' = [w \in Windows |-> [window[w] EXCEPT !.intact = @ /\ window[w].start = {}]],
           \A n \in Nat : From(n)' \subseteq From(n)
    PROVE  OpenInv' /\ WindowHoldsItsRows'
  <1>1. ASSUME NEW w \in Windows, NEW n \in window'[w].start
        PROVE  /\ window'[w].start = {n}
               /\ From(n)' \subseteq window'[w].since
               /\ window'[w].intact => n <= Len(sessions') /\ window'[w].since \subseteq From(n)'
    <2>1. n \in window[w].start /\ n \in Nat
      BY <1>1, ClearType, WindowFacts
    <2>2. ~window'[w].intact
      BY <2>1, ClearType, WindowFacts
    <2> QED
      BY <1>1, <2>1, <2>2, ClearType DEF OpenInv
  <1>2. OpenInv'
    BY <1>1 DEF OpenInv
  <1>3. ASSUME NEW w \in Windows
        PROVE  /\ window'[w].picked \subseteq window'[w].since
               /\ window'[w].start = {} /\ window'[w].intact => window'[w].picked = window'[w].since
    <2>1. window'[w].intact => window[w].intact
      BY ClearType, WindowFacts
    <2> QED
      BY <2>1, ClearType DEF WindowHoldsItsRows
  <1>4. WindowHoldsItsRows'
    BY <1>3 DEF WindowHoldsItsRows
  <1> QED
    BY <1>2, <1>4

\* A step that leaves table and windows alone.
LEMMA QuietStep ==
    ASSUME IInv, UNCHANGED <<table, window>>, TypeOK', IdInv', SettledInv'
    PROVE  IInv'
  BY DEF IInv, table, SelectionInTable, SavedAsShown, OpenInv, WindowHoldsItsRows, Ids, From

----------------------------------------------------------------------------

LEMMA InitIInv == Init => IInv
  <1> SUFFICES ASSUME Init PROVE IInv
    OBVIOUS
  <1> DEFINE rows == [i \in 1..Samples |-> NewRow(i, FALSE)]
  <1>1. Samples \in Nat /\ \A i \in 1..Samples : NewRow(i, FALSE) \in Row /\ NewRow(i, FALSE).id = i
    BY SamplesAssumption DEF NewRow, Row
  <1>2. rows \in [1..Samples -> Row] /\ \A i \in 1..Samples : rows[i].id = i
    BY <1>1
  <1>3. sessions = rows /\ capsule = rows /\ made = Samples /\ channel = <<>> /\ unsaved = 1..Samples
    BY DEF Init
  <1> HIDE DEF rows
  <1>4. rows \in Seq(Row) /\ DOMAIN rows = 1..Samples /\ Len(rows) = Samples
    BY <1>1, <1>2
  <1> DEFINE none == [start |-> {}, picked |-> {}, since |-> {}, intact |-> TRUE]
  <1>5. none \in Window /\ window = [w \in Windows |-> none]
    <2>1. none \in Window
      BY DEF Window
    <2>2. window = [w \in Windows |-> none]
      BY DEF Init
    <2> QED
      BY <2>1, <2>2
  <1>6. TypeOK
    <2>1. window \in [Windows -> Window]
      BY <1>5
    <2>2. /\ sessions \in Seq(Row) /\ capsule \in Seq(Row) /\ channel \in Seq(Event)
          /\ made \in Nat /\ unsaved \subseteq Nat
      BY <1>1, <1>3, <1>4
    <2>3. /\ phase \in Phases /\ state \in States /\ worker \in Workers
          /\ repaint \in BOOLEAN /\ radar \in BOOLEAN /\ auto \in BOOLEAN /\ stop \in BOOLEAN
          /\ replaying \in Nat /\ limit \in Limits /\ selected \subseteq Nat
          /\ database \subseteq [id : Nat, pinned : BOOLEAN]
      BY DEF Init, Phases, States, Workers
    <2>4. left \in [Operations -> Nat]
      BY BudgetsAssumption DEF Init
    <2> QED
      BY <2>1, <2>2, <2>3, <2>4 DEF TypeOK
  <1>7. IdInv
    <2>1. Unique(rows) /\ Below(rows)
      BY <1>1, <1>2, <1>3, <1>4 DEF Unique, Below
    <2>2. DOMAIN channel = {}
      BY <1>3
    <2> QED
      BY <1>3, <2>1, <2>2 DEF IdInv
  <1>8. SelectionInTable /\ SettledInv
    BY <1>3 DEF Init, SelectionInTable, SettledInv, Settled
  <1>9. SavedAsShown
    BY <1>2, <1>3, <1>4 DEF Init, SavedAsShown
  <1>10. OpenInv /\ WindowHoldsItsRows
    BY <1>5 DEF OpenInv, WindowHoldsItsRows
  <1> QED
    BY <1>6, <1>7, <1>8, <1>9, <1>10 DEF IInv

----------------------------------------------------------------------------
(* The worker's thread and the replay threads: they send, and touch neither table nor windows. *)

LEMMA SpokenStep ==
    ASSUME IInv, NEW kind \in StateEvents \cup {"operation error"}, Send(Plain(kind)),
           UNCHANGED <<sessions, capsule, made>>
    PROVE  /\ IdInv' /\ channel' \in Seq(Event)
           /\ kind \in {"stopped", "error"} => Settled'
           /\ kind \notin StateEvents /\ UNCHANGED state /\ Settled => Settled'
  <1>1. Plain(kind) \in Event /\ Plain(kind).kind = kind /\ kind \notin RowEvents
    BY PlainType DEF Plain, StateEvents, RowEvents
  <1>2. IdInv' /\ channel' \in Seq(Event)
    BY <1>1, IdsSend, SendFacts DEF IInv
  <1> QED
    BY <1>1, <1>2, SettledByWord, SettledByRow DEF IInv

LEMMA RowSent ==
    ASSUME IInv, NEW kind \in RowEvents, NEW ws \in BOOLEAN, made' = made + 1,
           Send([kind |-> kind, id |-> made + 1, ws |-> ws]), UNCHANGED <<sessions, capsule, state>>
    PROVE  IdInv' /\ channel' \in Seq(Event) /\ (Settled => Settled') /\ made' \in Nat
  <1> DEFINE event == [kind |-> kind, id |-> made + 1, ws |-> ws]
  <1>1. made \in Nat /\ made + 1 \in Nat /\ made' \in Nat
    BY DEF IInv, TypeOK
  <1>2. event \in Event /\ event.kind \notin StateEvents /\ event.id = made + 1
    BY <1>1 DEF Event, StateEvents, RowEvents
  <1>3. Send(event)
    OBVIOUS
  <1> HIDE DEF event
  <1> QED
    BY <1>1, <1>2, <1>3, IdsSend, SendFacts, SettledByRow DEF IInv

LEMMA WorkerStepInv == IInv /\ WorkerThread => IInv'
  <1> SUFFICES ASSUME IInv, WorkerThread PROVE IInv'
    OBVIOUS
  <1> USE DEF WorkerStep
  <1>1. CASE Announce \/ Serve
    <2>1. PICK kind \in {"starting", "started"} : Send(Plain(kind))
      BY <1>1 DEF Announce, Serve
    <2>2. /\ UNCHANGED <<ui, stop, replaying, made, table, window, left>>
          /\ worker' \in {"preparing", "serving"}
      BY <1>1 DEF Announce, Serve
    <2>3. IdInv' /\ channel' \in Seq(Event)
      BY <2>1, <2>2, SpokenStep DEF table, StateEvents
    <2>4. TypeOK' /\ SettledInv'
      BY <2>2, <2>3 DEF IInv, TypeOK, ui, table, Workers, SettledInv
    <2> QED
      BY <2>2, <2>3, <2>4, QuietStep
  <1>2. CASE PreparationFails \/ HandlerFails \/ StopsAsAsked \/ ProxyFails
    <2>1. PICK kind \in {"stopped", "error"} : Send(Plain(kind))
      BY <1>2 DEF PreparationFails, HandlerFails, StopsAsAsked, ProxyFails
    <2>2. /\ UNCHANGED <<ui, stop, replaying, made, table, window>> /\ worker' \in Workers
      BY <1>2 DEF PreparationFails, HandlerFails, StopsAsAsked, ProxyFails, Workers, IInv, TypeOK,
                  threads
    <2>3. IdInv' /\ channel' \in Seq(Event) /\ Settled'
      BY <2>1, <2>2, SpokenStep DEF table, StateEvents
    <2>4. left' \in [Operations -> Nat]
      BY <1>2, SpendType
         DEF PreparationFails, HandlerFails, StopsAsAsked, ProxyFails, IInv, TypeOK, Operations
    <2>5. TypeOK' /\ SettledInv'
      BY <2>2, <2>3, <2>4 DEF IInv, TypeOK, ui, table, SettledInv
    <2> QED
      BY <2>2, <2>3, <2>5, QuietStep
  <1>3. CASE Capture
    <2>1. PICK ws \in BOOLEAN : Send([kind |-> "captured", id |-> made + 1, ws |-> ws])
      BY <1>3 DEF Capture
    <2>2. UNCHANGED <<ui, threads, table, window>> /\ made' = made + 1
      BY <1>3 DEF Capture
    <2>3. IdInv' /\ channel' \in Seq(Event) /\ (Settled => Settled') /\ made' \in Nat
      BY <2>1, <2>2, RowSent DEF ui, table, RowEvents
    <2>4. left' \in [Operations -> Nat]
      BY <1>3, SpendType DEF Capture, IInv, Operations
    <2>5. TypeOK' /\ SettledInv'
      BY <2>2, <2>3, <2>4 DEF IInv, TypeOK, ui, threads, table, SettledInv
    <2> QED
      BY <2>2, <2>3, <2>5, QuietStep
  <1>4. CASE RestoreFails \/ Return \/ (DropRuntime /\ worker = "closing")
    <2>1. /\ UNCHANGED <<ui, stop, replaying, channel, made, table, window>>
          /\ worker' = "failing" \/ worker \in {"closing", "returning"}
          /\ worker' \in Workers
      BY <1>4 DEF RestoreFails, Return, DropRuntime, Workers
    <2>2. left' \in [Operations -> Nat]
      BY <1>4, SpendType DEF RestoreFails, Return, DropRuntime, IInv, TypeOK, Operations
    <2>3. IdInv'
      BY <2>1, IdsStay DEF IInv, table
    <2>4. SettledInv'
      BY <2>1, SettledStays DEF IInv, SettledInv, ui
    <2>5. TypeOK'
      BY <2>1, <2>2 DEF IInv, TypeOK, ui, table
    <2> QED
      BY <2>1, <2>3, <2>4, <2>5, QuietStep
  <1>5. CASE DropRuntime /\ worker # "closing"
    <2>1. /\ UNCHANGED <<ui, stop, replaying, made, table, window, left>> /\ worker' = "returning"
          /\ Send(Plain("error"))
      BY <1>5 DEF DropRuntime
    <2>2. IdInv' /\ channel' \in Seq(Event) /\ Settled'
      BY <2>1, SpokenStep DEF table, StateEvents
    <2>3. TypeOK' /\ SettledInv'
      BY <2>1, <2>2 DEF IInv, TypeOK, ui, table, SettledInv, Workers
    <2> QED
      BY <2>1, <2>2, <2>3, QuietStep
  <1> QED
    BY <1>1, <1>2, <1>3, <1>4, <1>5, Zenon DEF WorkerThread

LEMMA ReplayStep == IInv /\ ReplayReturns => IInv'
  <1> SUFFICES ASSUME IInv, ReplayReturns PROVE IInv'
    OBVIOUS
  <1>1. UNCHANGED <<ui, worker, stop, table, window, left>> /\ replaying' \in Nat
    <2>1. replaying \in Nat
      BY DEF IInv, TypeOK
    <2>2. replaying > 0 /\ replaying' = replaying - 1
      BY DEF ReplayReturns
    <2>3. UNCHANGED <<ui, worker, stop, table, window, left>>
      BY DEF ReplayReturns
    <2> QED
      BY <2>1, <2>2, <2>3
  <1>2. IdInv' /\ channel' \in Seq(Event) /\ (Settled => Settled') /\ made' \in Nat
    <2>1. CASE made' = made + 1 /\ Send([kind |-> "replayed", id |-> made + 1, ws |-> FALSE])
      BY <1>1, <2>1, RowSent DEF ui, table, RowEvents
    <2>2. CASE Send(Plain("operation error")) /\ UNCHANGED made
      <3>1. "operation error" \notin StateEvents
        BY DEF StateEvents
      <3> QED
        BY <1>1, <2>2, <3>1, SpokenStep DEF ui, table, IInv, TypeOK
    <2> QED
      BY <2>1, <2>2 DEF ReplayReturns
  <1>3. TypeOK' /\ SettledInv'
    BY <1>1, <1>2 DEF IInv, TypeOK, ui, table, SettledInv
  <1> QED
    BY <1>1, <1>2, <1>3, QuietStep

----------------------------------------------------------------------------
(* The frame. *)

LEMMA RowsTyped ==
    ASSUME IInv
    PROVE  /\ sessions \in Seq(Row) /\ capsule \in Seq(Row) /\ Len(sessions) \in Nat
           /\ DOMAIN sessions = 1..Len(sessions) /\ made \in Nat
           /\ \A i \in DOMAIN sessions : sessions[i] \in Row /\ sessions[i].id \in Nat
           /\ \A i \in DOMAIN capsule : capsule[i] \in Row /\ capsule[i].id \in Nat
  <1>1. /\ sessions \in Seq(Row) /\ capsule \in Seq(Row) /\ Len(sessions) \in Nat /\ made \in Nat
        /\ DOMAIN sessions = 1..Len(sessions)
    BY DEF IInv, TypeOK
  <1>2. /\ \A i \in DOMAIN sessions : sessions[i] \in Row
        /\ \A i \in DOMAIN capsule : capsule[i] \in Row
    BY <1>1
  <1>3. \A row \in Row : row.id \in Nat
    BY DEF Row
  <1> QED
    BY <1>1, <1>2, <1>3

\* A new capture clears the table, or shows that it could not be started.
LEMMA StartFacts ==
    ASSUME IInv, StartCapture, left' \in [Operations -> Nat],
           phase' \in Phases, repaint' \in BOOLEAN, radar' \in BOOLEAN, auto' \in BOOLEAN
    PROVE  IInv'
  <1>1. /\ sessions' = <<>> /\ selected' = {}
        /\ window' = [w \in Windows |-> [window[w] EXCEPT !.intact = @ /\ window[w].start = {}]]
        /\ UNCHANGED <<replaying, channel, made, limit, database, unsaved, capsule>>
        /\ worker \in {"none", "finished"}
    BY DEF StartCapture, Running
  <1>2. \/ worker' = "spawned" /\ stop' = FALSE /\ state' = "Starting"
        \/ state' = "Failed" /\ UNCHANGED <<worker, stop>>
    BY DEF StartCapture
  <1>3. window' \in [Windows -> Window]
    BY <1>1, ClearType DEF IInv
  <1>4. state' \in States /\ worker' \in Workers /\ stop' \in BOOLEAN
    BY <1>2 DEF States, Workers, IInv, TypeOK
  <1>5. TypeOK'
    BY <1>1, <1>3, <1>4 DEF IInv, TypeOK
  <1>6. Ids(<<>>) = {} /\ \A n \in Nat : From(n)' = {}
    BY <1>1 DEF Ids, From
  <1>7. IdInv'
    BY <1>1, <1>6 DEF IInv, IdInv, Unique, Below, Ids, IsRow
  <1>8. SelectionInTable'
    BY <1>1 DEF SelectionInTable
  <1>9. SavedAsShown'
    BY <1>1 DEF IInv, SavedAsShown
  <1>10. SettledInv'
    <2>1. CASE worker' = "spawned"
      BY <2>1 DEF SettledInv
    <2>2. CASE state' = "Failed" /\ UNCHANGED <<worker, stop>>
      BY <1>1, <2>2, SettledStays DEF IInv, SettledInv
    <2> QED
      BY <1>2, <2>1, <2>2
  <1>11. OpenInv' /\ WindowHoldsItsRows'
    BY <1>1, <1>6, WindowsCleared DEF IInv
  <1> QED
    BY <1>5, <1>7, <1>8, <1>9, <1>10, <1>11 DEF IInv

LEMMA AutoConnectStep == IInv /\ AutoConnect => IInv'
  <1> SUFFICES ASSUME IInv, AutoConnect PROVE IInv'
    OBVIOUS
  <1>1. /\ StartCapture /\ phase' = "drain" /\ auto' = FALSE /\ repaint' = FALSE
        /\ UNCHANGED <<radar, left>>
    BY DEF AutoConnect
  <1>2. /\ left' \in [Operations -> Nat] /\ phase' \in Phases /\ radar' \in BOOLEAN
        /\ auto' \in BOOLEAN /\ repaint' \in BOOLEAN
    BY <1>1 DEF IInv, TypeOK, Phases
  <1> QED
    BY <1>1, <1>2, StartFacts

LEMMA ReceiveEventStep == IInv /\ (ReceiveState \/ ReceiveOperationError) => IInv'
  <1> SUFFICES ASSUME IInv, ReceiveState \/ ReceiveOperationError PROVE IInv'
    OBVIOUS
  <1>1. /\ Receive /\ UNCHANGED <<phase, repaint, radar, auto, threads, made, table, window, left>>
        /\ state' = IF Head(channel).kind \in StateEvents THEN ShownAs[Head(channel).kind] ELSE state
    <2>1. "operation error" \notin StateEvents
      BY DEF StateEvents
    <2>2. CASE ReceiveState
      BY <2>2 DEF ReceiveState
    <2>3. CASE ReceiveOperationError
      BY <2>1, <2>3 DEF ReceiveOperationError, ui
    <2> QED
      BY <2>2, <2>3
  <1>2. channel' \in Seq(Event)
    BY <1>1, ReceiveFacts DEF IInv
  <1>3. state' \in States
    BY <1>1 DEF IInv, TypeOK, ShownAs, States
  <1>4. TypeOK'
    BY <1>1, <1>2, <1>3 DEF IInv, TypeOK, threads, table
  <1>5. IdInv'
    BY <1>1, IdsReceive DEF IInv, IdInv, table, Unique, Below, Ids
  <1>6. SettledInv'
    BY <1>1, SettledReceive DEF IInv, SettledInv, threads
  <1> QED
    BY <1>1, <1>4, <1>5, <1>6, QuietStep

\* A row that is pushed is new to the table, is saved unless that fails, and belongs to the
\* windows that are open.
LEMMA ReceiveRowStep == IInv /\ ReceiveRow => IInv'
  <1> SUFFICES ASSUME IInv, ReceiveRow PROVE IInv'
    OBVIOUS
  <1> DEFINE event == Head(channel)
             row == NewRow(event.id, event.ws)
  <1>1. /\ Receive /\ event.kind \in RowEvents
        /\ sessions' = Append(sessions, row)
        /\ selected' = IF event.kind = "replayed" THEN {row.id} ELSE selected
        /\ window' = [w \in Windows |-> IF window[w].start = {} THEN window[w]
                        ELSE [window[w] EXCEPT !.since = @ \cup {row.id}]]
        /\ phase' = "evict"
        /\ UNCHANGED <<repaint, radar, auto, state, threads, made, limit, capsule>>
    BY DEF ReceiveRow
  <1>2. IF row.ws THEN UNCHANGED <<database, unsaved, left>> ELSE Save(row, left)
    BY DEF ReceiveRow
  <1>3. event \in Event /\ 1 \in DOMAIN channel /\ event = channel[1]
    BY <1>1, ReceiveFacts DEF IInv
  <1>4. row \in Row /\ row.id = event.id
    BY <1>3 DEF Event, Row, NewRow
  <1>5. row.id <= made /\ row.id \notin Ids(sessions) /\ row.id \notin Ids(capsule) /\ row.id \in Nat
    <2>1. IsRow(1)
      BY <1>1, <1>3 DEF IsRow
    <2>2. row.id \in Nat
      BY <1>4 DEF Row
    <2> QED
      BY <1>3, <1>4, <2>1, <2>2 DEF IInv, IdInv
  <1> HIDE DEF row
  <1>6. /\ sessions' \in Seq(Row) /\ DOMAIN sessions' = 1..Len(sessions) + 1
        /\ \A i \in DOMAIN sessions : sessions'[i] = sessions[i]
        /\ sessions'[Len(sessions) + 1] = row /\ Ids(sessions)' = Ids(sessions) \cup {row.id}
        /\ \A i \in DOMAIN sessions' : i \in DOMAIN sessions \/ i = Len(sessions) + 1
    <2>1. /\ sessions' \in Seq(Row) /\ DOMAIN sessions' = 1..Len(sessions) + 1
          /\ \A i \in 1..Len(sessions) : sessions'[i] = sessions[i]
          /\ sessions'[Len(sessions) + 1] = row /\ Ids(sessions') = Ids(sessions) \cup {row.id}
      BY <1>1, <1>4, AppendFacts, RowsTyped
    <2>2. Ids(sessions)' = Ids(sessions')
      BY DEF Ids
    <2> QED
      BY <2>1, <2>2, RowsTyped
  <1>7. \A i \in DOMAIN sessions : sessions[i].id \in Ids(sessions) /\ sessions[i].id # row.id
    BY <1>5 DEF Ids
  <1>8. IdInv'
    <2>1. Unique(sessions)'
      BY <1>6, <1>7 DEF IInv, IdInv, Unique
    <2>2. Below(sessions)' /\ Unique(capsule)' /\ Below(capsule)'
      BY <1>1, <1>5, <1>6 DEF IInv, IdInv, Unique, Below
    <2>3. \A i, j \in DOMAIN channel' :
            IsRow(i)' /\ IsRow(j)' /\ channel'[i].id = channel'[j].id => i = j
      BY <1>1, IdsReceive DEF IInv
    <2>4. Ids(capsule)' = Ids(capsule) /\ made' = made
      BY <1>1 DEF Ids
    <2>5. ASSUME NEW i \in DOMAIN channel', IsRow(i)'
          PROVE  /\ channel'[i].id <= made'
                 /\ channel'[i].id \notin Ids(sessions)' /\ channel'[i].id \notin Ids(capsule)'
      BY <1>1, <1>4, <1>6, <2>4, <2>5, IdsReceive DEF IInv
    <2> QED
      BY <2>1, <2>2, <2>3, <2>5 DEF IdInv
  <1>9. SelectionInTable'
    BY <1>1, <1>6 DEF IInv, SelectionInTable, Ids
  <1>10. /\ database' \subseteq [id : Nat, pinned : BOOLEAN] /\ unsaved' \subseteq Nat
         /\ left' \in [Operations -> Nat] /\ \A r, s \in database' : r.id = s.id => r = s
         /\ RowSaved(row, database', unsaved')
         /\ \A other \in Row : RowSaved(other, database, unsaved) /\ other.id # row.id
               => RowSaved(other, database', unsaved')
    <2>1. TypeOK /\ SavedAsShown /\ left \in [Operations -> Nat]
      BY DEF IInv, TypeOK
    <2>2. CASE row.ws
      BY <1>2, <2>1, <2>2 DEF SavedAsShown, RowSaved, TypeOK
    <2>3. CASE ~row.ws
      <3>1. Save(row, left)
        BY <1>2, <2>3
      <3> QED
        BY <1>4, <2>1, <3>1, SaveFacts
    <2> QED
      BY <2>2, <2>3
  <1>11. SavedAsShown'
    <2>1. ASSUME NEW i \in DOMAIN sessions' PROVE RowSaved(sessions'[i], database', unsaved')
      <3>1. CASE i \in DOMAIN sessions
        <4>1. RowSaved(sessions[i], database, unsaved)
          BY <3>1 DEF IInv, SavedAsShown, RowSaved
        <4>2. sessions[i] \in Row /\ sessions[i].id # row.id
          BY <1>7, <3>1, RowsTyped
        <4> QED
          BY <1>6, <1>10, <3>1, <4>1, <4>2
      <3>2. CASE i = Len(sessions) + 1
        BY <1>6, <1>10, <3>2
      <3> QED
        BY <1>6, <3>1, <3>2
    <2> QED
      BY <1>10, <2>1 DEF SavedAsShown, RowSaved
  <1>12. SettledInv'
    <2>1. event.kind \notin StateEvents
      BY <1>1 DEF RowEvents, StateEvents
    <2> QED
      BY <1>1, <2>1, SettledReceive DEF IInv, SettledInv, threads
  <1>13. ASSUME NEW w \in Windows
         PROVE  /\ window'[w] \in Window
                /\ window'[w].start = window[w].start /\ window'[w].picked = window[w].picked
                /\ window'[w].intact = window[w].intact
                /\ window'[w].since = IF window[w].start = {} THEN window[w].since
                                      ELSE window[w].since \cup {row.id}
    <2>1. window'[w] = IF window[w].start = {} THEN window[w]
                       ELSE [window[w] EXCEPT !.since = @ \cup {row.id}]
      BY <1>1
    <2>2. window[w] \in Window
      BY WindowFacts DEF IInv
    <2> QED
      BY <1>5, <2>1, <2>2 DEF Window
  <1>14. OpenInv'
    <2>1. ASSUME NEW w \in Windows, NEW n \in window'[w].start
          PROVE  /\ window'[w].start = {n}
                 /\ From(n)' \subseteq window'[w].since
                 /\ window'[w].intact => n <= Len(sessions') /\ window'[w].since \subseteq From(n)'
      <3>1. n \in window[w].start /\ n \in Nat /\ window'[w].since = window[w].since \cup {row.id}
        BY <1>13, <2>1, WindowFacts DEF IInv
      <3>2. /\ From(n)' \subseteq From(n) \cup {row.id}
            /\ n <= Len(sessions) => From(n) \cup {row.id} \subseteq From(n)'
            /\ Len(sessions') = Len(sessions) + 1
        BY <1>1, <1>4, <3>1, FromAppend DEF IInv
      <3>3. /\ window[w].start = {n} /\ From(n) \subseteq window[w].since
            /\ window[w].intact => n <= Len(sessions) /\ window[w].since \subseteq From(n)
        BY <3>1 DEF IInv, OpenInv
      <3>4. window'[w].intact => window[w].intact
        BY <1>13
      <3>5. n <= Len(sessions) => n <= Len(sessions) + 1
        BY <3>1, RowsTyped
      <3>6. window'[w].start = {n}
        BY <1>13, <3>3
      <3> QED
        BY <3>1, <3>2, <3>3, <3>4, <3>5, <3>6
    <2> QED
      BY <2>1 DEF OpenInv
  <1>15. WindowHoldsItsRows'
    BY <1>13 DEF IInv, WindowHoldsItsRows
  <1>16. TypeOK'
    <2>1. window' \in [Windows -> Window]
      BY <1>1, <1>13
    <2>2. channel' \in Seq(Event)
      BY <1>1, ReceiveFacts DEF IInv
    <2>3. selected' \subseteq Nat
      BY <1>1, <1>5 DEF IInv, TypeOK
    <2> QED
      BY <1>1, <1>6, <1>10, <2>1, <2>2, <2>3 DEF IInv, TypeOK, threads, Phases
  <1> QED
    BY <1>8, <1>9, <1>11, <1>12, <1>14, <1>15, <1>16 DEF IInv

LEMMA EvictStep == IInv /\ Evict => IInv'
  <1> SUFFICES ASSUME IInv, Evict PROVE IInv'
    OBVIOUS
  <1>1. PICK p \in DOMAIN sessions :
          sessions' = Remove(sessions, p) /\ selected' = selected \ {sessions[p].id}
    BY DEF Evict
  <1>2. /\ window' = [w \in Windows |-> [window[w] EXCEPT !.intact = @ /\ window[w].start = {}]]
        /\ UNCHANGED <<ui, threads, channel, made, limit, database, unsaved, capsule, left>>
    BY DEF Evict
  <1>3. /\ sessions' \in Seq(Row) /\ DOMAIN sessions' = 1..Len(sessions) - 1
        /\ \A i \in 1..Len(sessions) - 1 :
              sessions'[i] = IF i < p THEN sessions[i] ELSE sessions[i + 1]
    BY <1>1, RowsTyped, RemoveFacts
  <1>4. ASSUME NEW i \in DOMAIN sessions'
        PROVE  /\ i \in DOMAIN sessions /\ i + 1 \in DOMAIN sessions
               /\ sessions'[i] = sessions[IF i < p THEN i ELSE i + 1]
    BY <1>3, RowsTyped
  <1>5. TypeOK'
    <2>1. window' \in [Windows -> Window]
      BY <1>2, ClearType DEF IInv
    <2> QED
      BY <1>1, <1>2, <1>3, <2>1 DEF IInv, TypeOK, ui, threads
  <1>6. IdInv'
    <2>1. Unique(sessions)'
      <3>1. ASSUME NEW i \in DOMAIN sessions', NEW j \in DOMAIN sessions',
                   sessions'[i].id = sessions'[j].id
            PROVE  i = j
        <4>1. (IF i < p THEN i ELSE i + 1) = (IF j < p THEN j ELSE j + 1)
          BY <1>4, <3>1 DEF IInv, IdInv, Unique
        <4> QED
          BY <1>3, <4>1, RowsTyped
      <3> QED
        BY <3>1 DEF Unique
    <2>2. Below(sessions)'
      BY <1>2, <1>4 DEF IInv, IdInv, Below
    <2>3. Ids(sessions)' \subseteq Ids(sessions)
      BY <1>4 DEF Ids
    <2>4. Unique(capsule)' /\ Below(capsule)' /\ Ids(capsule)' = Ids(capsule)
      BY <1>2 DEF IInv, IdInv, Unique, Below, Ids
    <2> QED
      BY <1>2, <2>1, <2>2, <2>3, <2>4 DEF IInv, IdInv, IsRow
  <1>7. SelectionInTable'
    <2>1. ASSUME NEW id \in selected' PROVE id \in Ids(sessions')
      <3>1. PICK q \in DOMAIN sessions : id = sessions[q].id
        BY <1>1, <2>1 DEF IInv, SelectionInTable, Ids
      <3>2. q # p
        BY <1>1, <2>1, <3>1
      <3> QED
        BY <1>1, <3>1, <3>2, RemoveKeeps, RowsTyped
    <2> QED
      BY <2>1 DEF SelectionInTable, Ids
  <1>8. SavedAsShown'
    BY <1>2, <1>4 DEF IInv, SavedAsShown
  <1>9. SettledInv'
    BY <1>2 DEF IInv, SettledInv, Settled, Last, ui, threads
  <1>10. OpenInv' /\ WindowHoldsItsRows'
    BY <1>1, <1>2, FromRemove, WindowsCleared DEF IInv
  <1> QED
    BY <1>5, <1>6, <1>7, <1>8, <1>9, <1>10 DEF IInv

\* Steps of the frame that only count where it stands.
LEMMA IdleSteps ==
    IInv /\ (Pushed \/ Drained \/ Reap \/ RequestFrame \/ EndFrame \/ BeginFrame \/ Exit \/ JoinWorker)
        => IInv'
  <1> SUFFICES ASSUME IInv,
                      Pushed \/ Drained \/ Reap \/ RequestFrame \/ EndFrame \/ BeginFrame \/ Exit
                      \/ JoinWorker
               PROVE  IInv'
    OBVIOUS
  <1>1. /\ UNCHANGED <<radar, auto, state, replaying, channel, made, table, window, left>>
        /\ phase' \in Phases
    BY DEF Pushed, Drained, Reap, RequestFrame, EndFrame, BeginFrame, Exit, JoinWorker, threads, Phases
  <1>2. \/ worker' = worker
        \/ worker = "finished" /\ worker' = "none"
    BY DEF Pushed, Drained, Reap, RequestFrame, EndFrame, BeginFrame, Exit, JoinWorker, threads
  <1>3. repaint' \in BOOLEAN
    <2>1. repaint \in BOOLEAN /\ radar \in BOOLEAN
      BY DEF IInv, TypeOK
    <2>2. CASE RequestFrame
      BY <2>2 DEF RequestFrame
    <2>3. CASE ~RequestFrame
      BY <2>1, <2>3 DEF Pushed, Drained, Reap, EndFrame, BeginFrame, Exit, JoinWorker
    <2> QED
      BY <2>2, <2>3
  <1>4. stop' \in BOOLEAN
    <2>1. stop \in BOOLEAN
      BY DEF IInv, TypeOK
    <2> QED
      BY <2>1
         DEF Pushed, Drained, Reap, RequestFrame, EndFrame, BeginFrame, Exit, JoinWorker, threads
  <1>5. TypeOK'
    BY <1>1, <1>2, <1>3, <1>4 DEF IInv, TypeOK, table, Workers
  <1>6. IdInv'
    BY <1>1, IdsStay DEF IInv, table
  <1>7. SettledInv'
    BY <1>1, <1>2, SettledStays DEF IInv, SettledInv
  <1> QED
    BY <1>1, <1>5, <1>6, <1>7, QuietStep

----------------------------------------------------------------------------
(* What the user does. *)

LEMMA HandleType ==
    ASSUME IInv, Handle
    PROVE  /\ phase' \in Phases /\ repaint' \in BOOLEAN /\ radar' \in BOOLEAN /\ auto' \in BOOLEAN
           /\ UNCHANGED <<radar, auto>>
  BY DEF Handle, IInv, TypeOK, Phases

LEMMA ClickStartStep == IInv /\ ClickStart => IInv'
  <1> SUFFICES ASSUME IInv, ClickStart PROVE IInv'
    OBVIOUS
  <1>1. left' \in [Operations -> Nat]
    BY SpendType DEF ClickStart, IInv, Operations
  <1> QED
    BY <1>1, HandleType, StartFacts DEF ClickStart

LEMMA ClickStopStep == IInv /\ ClickStop => IInv'
  <1> SUFFICES ASSUME IInv, ClickStop PROVE IInv'
    OBVIOUS
  <1>1. /\ Handle /\ state' = "Stopping" /\ stop' = TRUE
        /\ UNCHANGED <<worker, replaying, channel, made, table, window, left>>
    BY DEF ClickStop
  <1>2. TypeOK'
    BY <1>1, HandleType DEF IInv, TypeOK, table, States
  <1>3. IdInv' /\ SettledInv'
    BY <1>1, IdsStay, SettledStays DEF IInv, SettledInv, table
  <1> QED
    BY <1>1, <1>2, <1>3, QuietStep

LEMMA ReplayClickStep == IInv /\ Replay => IInv'
  <1> SUFFICES ASSUME IInv, Replay PROVE IInv'
    OBVIOUS
  <1>1. Handle /\ UNCHANGED <<state, worker, stop, made, table, window>>
    BY DEF Replay
  <1>2. replaying' \in Nat /\ left' \in [Operations -> Nat]
    <2>1. replaying \in Nat
      BY DEF IInv, TypeOK
    <2>2. replaying' = replaying + 1 \/ replaying' = replaying
      BY DEF Replay
    <2>3. Spend("replays")
      BY DEF Replay
    <2>4. left' \in [Operations -> Nat]
      BY <2>3, SpendType DEF IInv, Operations
    <2> QED
      BY <2>1, <2>2, <2>4
  <1>3. IdInv' /\ channel' \in Seq(Event) /\ (Settled => Settled')
    <2>1. CASE UNCHANGED channel
      BY <1>1, <2>1, IdsStay, SettledStays DEF IInv, TypeOK, table
    <2>2. CASE Send(Plain("operation error"))
      <3>1. "operation error" \notin StateEvents
        BY DEF StateEvents
      <3> QED
        BY <1>1, <2>2, <3>1, SpokenStep DEF table
    <2> QED
      BY <2>1, <2>2 DEF Replay
  <1>4. TypeOK' /\ SettledInv'
    BY <1>1, <1>2, <1>3, HandleType DEF IInv, TypeOK, table, SettledInv
  <1> QED
    BY <1>1, <1>3, <1>4, QuietStep

\* A click on a row, a new limit, and an export: the table keeps its rows.
LEMMA RowsStayStep == IInv /\ (ClickRow \/ SaveLimit \/ ExportCapsule) => IInv'
  <1> SUFFICES ASSUME IInv, ClickRow \/ SaveLimit \/ ExportCapsule PROVE IInv'
    OBVIOUS
  <1>1. /\ Handle
        /\ UNCHANGED <<state, threads, channel, made, sessions, database, unsaved, window>>
    BY DEF ClickRow, SaveLimit, ExportCapsule
  <1>2. \/ selected' = selected
        \/ \E p \in DOMAIN sessions : selected' = {sessions[p].id}
    BY DEF ClickRow, SaveLimit, ExportCapsule
  <1>3. limit' \in Limits
    BY DEF ClickRow, SaveLimit, ExportCapsule, IInv, TypeOK
  <1>4. capsule' = capsule \/ capsule' = sessions
    BY DEF ClickRow, SaveLimit, ExportCapsule
  <1>5. left' \in [Operations -> Nat]
    <2>1. UNCHANGED left \/ Spend("limits") \/ Spend("capsules")
      BY DEF ClickRow, SaveLimit, ExportCapsule
    <2> QED
      BY <2>1, SpendType DEF IInv, TypeOK, Operations
  <1>6. selected' \subseteq Nat
    <2>1. CASE selected' = selected
      BY <2>1 DEF IInv, TypeOK
    <2>2. ASSUME NEW p \in DOMAIN sessions, selected' = {sessions[p].id} PROVE selected' \subseteq Nat
      <3>1. sessions[p].id \in Nat
        BY RowsTyped
      <3> QED
        BY <2>2, <3>1
    <2> QED
      BY <1>2, <2>1, <2>2
  <1>7. TypeOK'
    BY <1>1, <1>3, <1>4, <1>5, <1>6, HandleType DEF IInv, TypeOK, threads
  <1>8. IdInv'
    <2>1. CASE capsule' = capsule
      BY <1>1, <2>1, IdsStay DEF IInv
    <2>2. CASE capsule' = sessions
      BY <1>1, <2>2 DEF IInv, IdInv, Unique, Below, Ids, IsRow
    <2> QED
      BY <1>4, <2>1, <2>2
  <1>9. SelectionInTable'
    BY <1>1, <1>2 DEF IInv, SelectionInTable, Ids
  <1>10. SavedAsShown'
    BY <1>1 DEF IInv, SavedAsShown
  <1>11. SettledInv'
    BY <1>1, SettledStays DEF IInv, SettledInv, threads
  <1>12. OpenInv' /\ WindowHoldsItsRows'
    BY <1>1 DEF IInv, OpenInv, WindowHoldsItsRows, From
  <1> QED
    BY <1>7, <1>8, <1>9, <1>10, <1>11, <1>12 DEF IInv

LEMMA TogglePinStep == IInv /\ TogglePin => IInv'
  <1> SUFFICES ASSUME IInv, TogglePin PROVE IInv'
    OBVIOUS
  <1>1. PICK p \in DOMAIN sessions :
          /\ sessions' = [sessions EXCEPT ![p] = [sessions[p] EXCEPT !.pinned = ~@]]
          /\ Save([sessions[p] EXCEPT !.pinned = ~@], [left EXCEPT !["pins"] = @ - 1])
    BY DEF TogglePin
  <1>2. /\ Handle /\ left["pins"] > 0
        /\ UNCHANGED <<state, threads, channel, made, selected, limit, capsule, window>>
    BY DEF TogglePin
  <1>3. PICK row \in Row :
          /\ row.id = sessions[p].id /\ row.ws = sessions[p].ws
          /\ sessions' = [sessions EXCEPT ![p] = row]
          /\ Save(row, [left EXCEPT !["pins"] = @ - 1])
    <2> DEFINE r == [sessions[p] EXCEPT !.pinned = ~@]
    <2>1. sessions[p] \in Row
      BY RowsTyped
    <2>2. r \in Row /\ r.id = sessions[p].id /\ r.ws = sessions[p].ws
      BY <2>1 DEF Row
    <2> QED
      BY <1>1, <2>2
  <1>4. /\ sessions' \in Seq(Row) /\ DOMAIN sessions' = DOMAIN sessions
        /\ Len(sessions') = Len(sessions)
        /\ \A i \in DOMAIN sessions : sessions'[i] = IF i = p THEN row ELSE sessions[i]
    BY <1>3, RowsTyped
  <1>5. \A i \in DOMAIN sessions : sessions'[i].id = sessions[i].id
    BY <1>3, <1>4
  <1>6. [left EXCEPT !["pins"] = @ - 1] \in [Operations -> Nat]
    BY <1>2 DEF IInv, TypeOK, Operations
  <1>7. /\ database' \subseteq [id : Nat, pinned : BOOLEAN] /\ unsaved' \subseteq Nat
        /\ left' \in [Operations -> Nat] /\ \A r, s \in database' : r.id = s.id => r = s
        /\ RowSaved(row, database', unsaved')
        /\ \A other \in Row : RowSaved(other, database, unsaved) /\ other.id # row.id
              => RowSaved(other, database', unsaved')
    BY <1>3, <1>6, SaveFacts DEF IInv
  <1>8. TypeOK'
    BY <1>2, <1>4, <1>7, HandleType DEF IInv, TypeOK, threads
  <1>9. IdInv'
    <2>1. Unique(sessions)' /\ Below(sessions)'
      BY <1>2, <1>4, <1>5 DEF IInv, IdInv, Unique, Below
    <2>2. Unique(capsule)' /\ Below(capsule)' /\ Ids(capsule)' = Ids(capsule)
      BY <1>2 DEF IInv, IdInv, Unique, Below, Ids
    <2>3. Ids(sessions)' = Ids(sessions)
      BY <1>4, <1>5 DEF Ids
    <2> QED
      BY <1>2, <2>1, <2>2, <2>3 DEF IInv, IdInv, IsRow
  <1>10. SelectionInTable'
    BY <1>2, <1>4, <1>5 DEF IInv, SelectionInTable, Ids
  <1>11. SavedAsShown'
    <2>1. ASSUME NEW i \in DOMAIN sessions PROVE RowSaved(sessions'[i], database', unsaved')
      <3>1. CASE i = p
        BY <1>4, <1>7, <3>1
      <3>2. CASE i # p
        <4>1. RowSaved(sessions[i], database, unsaved)
          BY DEF IInv, SavedAsShown, RowSaved
        <4>2. sessions[i] \in Row /\ sessions[i].id # row.id
          BY <1>3, <3>2, RowsTyped DEF IInv, IdInv, Unique
        <4> QED
          BY <1>4, <1>7, <3>2, <4>1, <4>2
      <3> QED
        BY <3>1, <3>2
    <2> QED
      BY <1>4, <1>7, <2>1 DEF SavedAsShown, RowSaved
  <1>12. SettledInv'
    BY <1>2, SettledStays DEF IInv, SettledInv, threads
  <1>13. \A n \in Nat : From(n)' = From(n)
    BY <1>4, <1>5 DEF From
  <1>14. OpenInv' /\ WindowHoldsItsRows'
    <2>1. \A w \in Windows : \A n \in window[w].start : n \in Nat
      BY WindowFacts DEF IInv
    <2> QED
      BY <1>2, <1>4, <1>13, <2>1 DEF IInv, OpenInv, WindowHoldsItsRows
  <1> QED
    BY <1>8, <1>9, <1>10, <1>11, <1>12, <1>14 DEF IInv

LEMMA OpenCapsuleStep == IInv /\ OpenCapsule => IInv'
  <1> SUFFICES ASSUME IInv, OpenCapsule PROVE IInv'
    OBVIOUS
  <1>1. /\ Handle /\ sessions' = capsule
        /\ selected' = IF capsule = <<>> THEN {} ELSE {capsule[1].id}
        /\ unsaved' = unsaved \cup Ids(capsule)
        /\ window' = [w \in Windows |-> IF window[w].start = {} THEN window[w]
               ELSE [window[w] EXCEPT !.intact = FALSE, !.since = @ \cup Ids(capsule)]]
        /\ UNCHANGED <<state, threads, channel, made, limit, database, capsule>>
    BY DEF OpenCapsule
  <1>2. left' \in [Operations -> Nat]
    BY SpendType DEF OpenCapsule, IInv, Operations
  <1>3. Ids(capsule) \subseteq Nat /\ \A i \in DOMAIN capsule : capsule[i].id \in Ids(capsule)
    BY RowsTyped DEF Ids
  <1>4. capsule = <<>> \/ 1 \in DOMAIN capsule
    BY RowsTyped
  <1>5. ASSUME NEW w \in Windows
        PROVE  /\ window'[w] \in Window
               /\ window'[w].start = window[w].start /\ window'[w].picked = window[w].picked
               /\ window[w].start = {} => window'[w] = window[w]
               /\ window[w].start # {} => /\ ~window'[w].intact
                                          /\ window'[w].since = window[w].since \cup Ids(capsule)
    <2>1. window'[w] = IF window[w].start = {} THEN window[w]
               ELSE [window[w] EXCEPT !.intact = FALSE, !.since = @ \cup Ids(capsule)]
      BY <1>1
    <2>2. window[w] \in Window
      BY WindowFacts DEF IInv
    <2> QED
      BY <1>3, <2>1, <2>2 DEF Window
  <1>6. TypeOK'
    <2>1. window' \in [Windows -> Window]
      BY <1>1, <1>5
    <2>2. selected' \subseteq Nat /\ unsaved' \subseteq Nat
      BY <1>1, <1>3, <1>4 DEF IInv, TypeOK
    <2> QED
      BY <1>1, <1>2, <2>1, <2>2, HandleType DEF IInv, TypeOK, threads
  <1>7. IdInv'
    <2>1. Ids(sessions)' = Ids(capsule) /\ Ids(capsule)' = Ids(capsule)
      BY <1>1 DEF Ids
    <2>2. Unique(sessions)' /\ Unique(capsule)' /\ Below(sessions)' /\ Below(capsule)'
      BY <1>1 DEF IInv, IdInv, Unique, Below
    <2> QED
      BY <1>1, <2>1, <2>2 DEF IInv, IdInv, IsRow
  <1>8. SelectionInTable'
    BY <1>1, <1>3, <1>4 DEF SelectionInTable, Ids
  <1>9. SavedAsShown'
    BY <1>1, <1>3 DEF IInv, SavedAsShown
  <1>10. SettledInv'
    BY <1>1, SettledStays DEF IInv, SettledInv, threads
  <1>11. \A n \in Nat : From(n)' \subseteq Ids(capsule)
    BY <1>1, <1>3 DEF From
  <1>12. OpenInv'
    <2>1. ASSUME NEW w \in Windows, NEW n \in window'[w].start
          PROVE  /\ window'[w].start = {n}
                 /\ From(n)' \subseteq window'[w].since
                 /\ window'[w].intact => n <= Len(sessions') /\ window'[w].since \subseteq From(n)'
      <3>1. n \in window[w].start /\ n \in Nat
        BY <1>5, <2>1, WindowFacts DEF IInv
      <3>2. window[w].start = {n}
        BY <3>1 DEF IInv, OpenInv
      <3>3. From(n)' \subseteq Ids(capsule)
        BY <1>11, <3>1
      <3> QED
        BY <1>5, <3>1, <3>2, <3>3
    <2> QED
      BY <2>1 DEF OpenInv
  <1>13. WindowHoldsItsRows'
    <2>1. ASSUME NEW w \in Windows
          PROVE  /\ window'[w].picked \subseteq window'[w].since
                 /\ window'[w].start = {} /\ window'[w].intact
                       => window'[w].picked = window'[w].since
      BY <1>5 DEF IInv, WindowHoldsItsRows
    <2> QED
      BY <2>1 DEF WindowHoldsItsRows
  <1> QED
    BY <1>6, <1>7, <1>8, <1>9, <1>10, <1>12, <1>13 DEF IInv

LEMMA WindowStep == ASSUME NEW w \in Windows PROVE IInv /\ (StartWindow(w) \/ EndWindow(w)) => IInv'
  <1> SUFFICES ASSUME IInv, StartWindow(w) \/ EndWindow(w) PROVE IInv'
    OBVIOUS
  <1>1. Handle /\ UNCHANGED <<state, threads, channel, made, table>>
    BY DEF StartWindow, EndWindow
  <1>2. left' \in [Operations -> Nat]
    BY SpendType DEF StartWindow, EndWindow, IInv, TypeOK, Operations
  <1>3. PICK new : 
          /\ window' = [window EXCEPT ![w] = new] /\ new \in Window
          /\ new.picked \subseteq new.since
          /\ new.start = {} /\ new.intact => new.picked = new.since
          /\ \A n \in new.start : /\ new.start = {n} /\ From(n) \subseteq new.since
                                  /\ n <= Len(sessions) /\ new.since \subseteq From(n)
    <2>1. CASE StartWindow(w)
      <3>1. Len(sessions) \in Nat /\ From(Len(sessions)) = {}
        BY RowsTyped DEF From
      <3>2. /\ Opened \in Window /\ Opened.start = {Len(sessions)} /\ Opened.picked = {}
            /\ Opened.since = {} /\ Opened.intact = TRUE
        BY <3>1 DEF Opened, Window
      <3>3. window' = [window EXCEPT ![w] = Opened]
        BY <2>1 DEF StartWindow
      <3> DEFINE n == Len(sessions)
                 new == Opened
      <3>4. /\ window' = [window EXCEPT ![w] = new] /\ new \in Window
            /\ new.picked \subseteq new.since /\ new.picked = new.since
            /\ new.start = {n} /\ From(n) \subseteq new.since /\ new.since \subseteq From(n)
            /\ n <= Len(sessions)
        BY <3>1, <3>2, <3>3
      <3> HIDE DEF new, n
      <3>5. \A m \in new.start : m = n
        BY <3>4
      <3> QED
        BY <3>4, <3>5
    <2>2. CASE EndWindow(w)
      <3> DEFINE old == window[w]
                 picked == UNION {From(n) : n \in old.start}
      <3>1. old \in Window /\ old.start # {} /\ window' = [window EXCEPT ![w] = Closed(old)]
        BY <2>2, WindowFacts DEF EndWindow, IInv
      <3>2. Closed(old) = [old EXCEPT !.start = {}, !.picked = picked]
        BY DEF Closed
      <3>3. PICK n \in old.start : TRUE
        BY <3>1
      <3>4. /\ old.start = {n} /\ From(n) \subseteq old.since
            /\ old.intact => old.since \subseteq From(n)
        BY <3>3 DEF IInv, OpenInv
      <3>5. picked = From(n) /\ picked \subseteq Nat
        BY <3>1, <3>4 DEF Window
      <3> HIDE DEF picked, old
      <3>6. /\ Closed(old) \in Window /\ Closed(old).start = {} /\ Closed(old).picked = picked
            /\ Closed(old).since = old.since /\ Closed(old).intact = old.intact
        BY <3>1, <3>2, <3>5 DEF Window
      <3>7. old.intact => old.since = picked
        BY <3>4, <3>5
      <3>8. picked \subseteq old.since
        BY <3>4, <3>5
      <3> DEFINE new == Closed(old)
      <3>9. /\ window' = [window EXCEPT ![w] = new] /\ new \in Window
            /\ new.picked \subseteq new.since /\ new.start = {}
            /\ new.intact => new.picked = new.since
        BY <3>1, <3>6, <3>7, <3>8
      <3> HIDE DEF new
      <3> QED
        BY <3>9
    <2> QED
      BY <2>1, <2>2
  <1>4. TypeOK'
    BY <1>1, <1>2, <1>3, HandleType DEF IInv, TypeOK, threads, table
  <1>5. IdInv'
    BY <1>1, IdsStay DEF IInv, table
  <1>6. SettledInv'
    BY <1>1, SettledStays DEF IInv, SettledInv, threads
  <1>7. SelectionInTable' /\ SavedAsShown'
    BY <1>1 DEF IInv, SelectionInTable, SavedAsShown, Ids, table
  <1>8. \A v \in Windows : window'[v] = IF v = w THEN new ELSE window[v]
    BY <1>3 DEF IInv, TypeOK
  <1>9. sessions' = sessions /\ \A n : From(n)' = From(n)
    BY <1>1 DEF From, table
  <1>10. OpenInv'
    BY <1>3, <1>8, <1>9 DEF IInv, OpenInv
  <1>11. WindowHoldsItsRows'
    BY <1>3, <1>8 DEF IInv, WindowHoldsItsRows
  <1> QED
    BY <1>4, <1>5, <1>6, <1>7, <1>10, <1>11 DEF IInv

LEMMA StutterStep == IInv /\ UNCHANGED vars => IInv'
  <1> SUFFICES ASSUME IInv, UNCHANGED vars PROVE IInv'
    OBVIOUS
  <1>1. TypeOK'
    BY DEF IInv, TypeOK, vars, ui, threads, table
  <1>2. IdInv' /\ SettledInv'
    BY IdsStay, SettledStays DEF IInv, SettledInv, vars, ui, threads, table
  <1> QED
    BY <1>1, <1>2, QuietStep DEF vars

----------------------------------------------------------------------------

\* Ids, events on their way, database, windows and selection fit together in every state of a
\* frame and of the threads.
THEOREM WorkspaceInvariance == Spec => []IInv
  <1>1. IInv /\ [Next]_vars => IInv'
    <2> SUFFICES ASSUME IInv, [Next]_vars PROVE IInv'
      OBVIOUS
    <2>1. CASE WorkerThread \/ ReplayReturns
      BY <2>1, WorkerStepInv, ReplayStep
    <2>2. CASE Frame
      BY <2>2, AutoConnectStep, ReceiveEventStep, ReceiveRowStep, EvictStep, IdleSteps, Zenon
         DEF Frame, Repaint
    <2>3. CASE User
      BY <2>3, ClickStartStep, ClickStopStep, ReplayClickStep, RowsStayStep, TogglePinStep,
         OpenCapsuleStep, WindowStep, IdleSteps, Zenon DEF User, MoveMouse
    <2> QED
      BY <2>1, <2>2, <2>3, StutterStep DEF Next
  <1> QED
    BY <1>1, InitIInv, PTL DEF Spec

\* Every variable keeps its type.
THEOREM WorkspaceTypes == Spec => []TypeOK
  <1>1. IInv => TypeOK
    BY DEF IInv
  <1> QED
    BY <1>1, WorkspaceInvariance, PTL

\* What is selected is in the table, whatever is evicted, cleared, replayed or imported
\* (push_session, start_capture, open_capsule).
THEOREM Selection == Spec => []SelectionInTable
  <1>1. IInv => SelectionInTable
    BY DEF IInv
  <1> QED
    BY <1>1, WorkspaceInvariance, PTL

\* An exchange in the table is in the database as it is shown, unless its last save failed or it
\* was never to be saved (poll_events, session_table).
THEOREM Saved == Spec => []SavedAsShown
  <1>1. IInv => SavedAsShown
    BY DEF IInv
  <1> QED
    BY <1>1, WorkspaceInvariance, PTL

\* A worker that has ended and was heard to the end is not shown as capturing (poll_events).
THEOREM Ended == Spec => []EndedIsShown
  <1>1. IInv => EndedIsShown
    <2> SUFFICES ASSUME IInv, ~Running, channel = <<>> PROVE state \notin {"Starting", "Capturing"}
      BY DEF EndedIsShown
    <2>1. Settled
      BY DEF IInv, SettledInv, Running
    <2> QED
      BY <2>1 DEF Settled
  <1> QED
    BY <1>1, WorkspaceInvariance, PTL

\* An experiment compares rows of its windows, and all of them while the table only grew
\* (workbench_experiments).
THEOREM WindowRows == Spec => []WindowHoldsItsRows
  <1>1. IInv => WindowHoldsItsRows
    BY DEF IInv
  <1> QED
    BY <1>1, WorkspaceInvariance, PTL

----------------------------------------------------------------------------
(* Pinned rows. *)

PinnedStay ==
    \A id \in Pinned :
        \/ id \in Ids(sessions')
        \/ Len(sessions) > limit /\ Pinned = Ids(sessions) /\ Len(sessions') = Len(sessions) - 1
        \/ worker' = "spawned" \/ state' = "Failed" \/ sessions' = capsule

LEMMA EvictPinned == IInv /\ Evict => PinnedStay
  <1> SUFFICES ASSUME IInv, Evict PROVE PinnedStay
    OBVIOUS
  <1>1. PICK p \in DOMAIN sessions : Oldest(p) /\ sessions' = Remove(sessions, p)
    BY DEF Evict
  <1>2. Len(sessions') = Len(sessions) - 1 /\ Len(sessions) > limit
    BY <1>1, RowsTyped, RemoveFacts DEF Evict
  <1>3. CASE Removable(sessions[p])
    <2>1. ASSUME NEW id \in Pinned PROVE id \in Ids(sessions')
      <3>1. PICK q \in DOMAIN sessions : ~Removable(sessions[q]) /\ id = sessions[q].id
        BY <2>1 DEF Pinned
      <3>2. q # p
        BY <1>3, <3>1
      <3> QED
        BY <1>1, <3>1, <3>2, RemoveKeeps, RowsTyped
    <2> QED
      BY <2>1 DEF PinnedStay
  <1>4. CASE \A q \in DOMAIN sessions : ~Removable(sessions[q])
    <2>1. Pinned = Ids(sessions)
      BY <1>4 DEF Pinned, Ids
    <2> QED
      BY <1>2, <2>1 DEF PinnedStay
  <1> QED
    BY <1>1, <1>3, <1>4 DEF Oldest

LEMMA StepPinned == IInv /\ [Next]_vars => [PinnedStay]_sessions
  <1> SUFFICES ASSUME IInv, [Next]_vars PROVE PinnedStay \/ UNCHANGED sessions
    OBVIOUS
  <1>0. Pinned \subseteq Ids(sessions)
    BY DEF Pinned, Ids
  <1>1. CASE AutoConnect \/ ClickStart
    BY <1>1 DEF AutoConnect, ClickStart, StartCapture, PinnedStay
  <1>2. CASE ReceiveRow
    <2> DEFINE row == NewRow(Head(channel).id, Head(channel).ws)
    <2>1. sessions' = Append(sessions, row)
      BY <1>2 DEF ReceiveRow
    <2>2. row \in Row
      <3>1. Head(channel) \in Event
        BY <1>2, ReceiveFacts DEF ReceiveRow, IInv
      <3> QED
        BY <3>1 DEF NewRow, Row, Event
    <2> HIDE DEF row
    <2>3. Ids(sessions) \subseteq Ids(sessions')
      BY <2>1, <2>2, AppendFacts, RowsTyped
    <2> QED
      BY <1>0, <2>3 DEF PinnedStay
  <1>3. CASE TogglePin
    <2>1. PICK p \in DOMAIN sessions :
            sessions' = [sessions EXCEPT ![p] = [sessions[p] EXCEPT !.pinned = ~@]]
      BY <1>3 DEF TogglePin
    <2>2. DOMAIN sessions' = DOMAIN sessions
      BY <2>1
    <2>3. ASSUME NEW i \in DOMAIN sessions PROVE sessions'[i].id = sessions[i].id
      <3>1. sessions[i] \in Row /\ sessions[p] \in Row
        BY RowsTyped
      <3> QED
        BY <2>1, <3>1 DEF Row
    <2>4. Ids(sessions') = Ids(sessions)
      BY <2>2, <2>3 DEF Ids
    <2> QED
      BY <1>0, <2>4 DEF PinnedStay
  <1>4. CASE OpenCapsule
    BY <1>4 DEF OpenCapsule, PinnedStay
  <1>5. CASE Evict
    BY <1>5, EvictPinned
  <1>6. WorkerThread \/ ReplayReturns => UNCHANGED sessions
    BY DEF WorkerThread, Announce, Serve, StopsAsAsked, DropRuntime, Return, PreparationFails,
       ProxyFails, RestoreFails, Capture, HandlerFails, ReplayReturns, table
  <1>7. Frame => AutoConnect \/ ReceiveRow \/ Evict \/ UNCHANGED sessions
    BY DEF Frame, Repaint, BeginFrame, ReceiveState, ReceiveOperationError, Pushed, Drained, Reap,
       RequestFrame, EndFrame, JoinWorker, table
  <1>8. User => ClickStart \/ TogglePin \/ OpenCapsule \/ UNCHANGED sessions
    BY DEF User, MoveMouse, BeginFrame, ClickStop, ClickRow, Replay, SaveLimit, ExportCapsule, Exit,
       StartWindow, EndWindow, table
  <1>9. UNCHANGED vars => UNCHANGED sessions
    BY DEF vars, table
  <1> QED
    BY <1>1, <1>2, <1>3, <1>4, <1>5, <1>6, <1>7, <1>8, <1>9 DEF Next

\* The limit of the table costs a pinned exchange its row only when every row is pinned
\* (push_session).
THEOREM PinsHold == Spec => PinnedRowsStay
  <1>1. Spec => [][PinnedStay]_sessions
    BY WorkspaceInvariance, StepPinned, PTL DEF Spec
  <1> QED
    BY <1>1 DEF PinnedRowsStay, PinnedStay

----------------------------------------------------------------------------
(* What wakes the window.  That it is awake again and again takes the      *)
(* fairness of its frames and is left to TLC (EventsAreNoticed); that no   *)
(* frame ends without another being asked for needs none.                  *)

\* A window that waits has asked for a frame, if it is to look after a worker or the radar.
Awake == phase \in {"idle", "input"} /\ (Running \/ radar) => repaint

LEMMA AwakeStep == Awake /\ [Next]_vars => Awake'
  <1> SUFFICES ASSUME Awake, [Next]_vars PROVE Awake'
    OBVIOUS
  <1> USE DEF Awake, Running
  <1>1. CASE WorkerThread
    <2>1. UNCHANGED ui /\ (Running' => Running)
      BY <1>1 DEF WorkerThread, Announce, Serve, StopsAsAsked, DropRuntime, Return, PreparationFails,
         ProxyFails, RestoreFails, Capture, HandlerFails, WorkerStep, threads
    <2> QED
      BY <2>1 DEF ui
  <1>2. CASE ReplayReturns
    BY <1>2 DEF ReplayReturns, ui
  <1>3. CASE Frame
    <2>1. CASE phase' \notin {"idle", "input"}
      BY <2>1
    <2>2. CASE RequestFrame
      BY <2>2 DEF RequestFrame, threads
    <2>3. CASE EndFrame
      BY <2>3 DEF EndFrame, threads
    <2>4. CASE ReceiveState \/ ReceiveOperationError \/ Evict
      BY <2>4 DEF ReceiveState, ReceiveOperationError, Receive, Evict, ui
    <2> QED
      BY <1>3, <2>1, <2>2, <2>3, <2>4
      DEF Frame, AutoConnect, Repaint, BeginFrame, ReceiveRow, Pushed, Drained, Reap, JoinWorker
  <1>4. CASE User
    <2>1. CASE Handle
      BY <2>1 DEF Handle
    <2>2. CASE MoveMouse \/ Exit
      BY <2>2 DEF MoveMouse, BeginFrame, Exit
    <2> QED
      BY <1>4, <2>1, <2>2
      DEF User, ClickStart, ClickStop, ClickRow, Replay, TogglePin, SaveLimit, ExportCapsule, OpenCapsule,
          StartWindow, EndWindow
  <1>5. CASE UNCHANGED vars
    BY <1>5 DEF vars, ui, threads
  <1> QED
    BY <1>1, <1>2, <1>3, <1>4, <1>5 DEF Next

\* No frame ends without another being asked for while a worker is held that has not ended or the radar
\* is on: neither thread wakes the window, so a frame that forgot to ask would be the last (logic).
THEOREM AnotherFrame == Spec => []Awake
  <1>1. Init => Awake
    BY DEF Init, Awake
  <1> QED
    BY <1>1, AwakeStep, PTL DEF Spec
=============================================================================
