-------------------------- MODULE HttpTrafficProofs --------------------------
(***************************************************************************)
(* Proofs about HttpTraffic, for any set of requests, hosts and settings:  *)
(* the guard, the record and the numbering are right whatever the handlers *)
(* and the UI thread do between each other's steps, and a save that waits  *)
(* for the lock waits for no handler that waits for it.                    *)
(***************************************************************************)
EXTENDS HttpTraffic, FiniteSetTheorems, TLAPS

\* The parts of the inductive invariant.

\* A handler that is about to decide does so by settings in force since the body was read, and
\* nothing has gone upstream before.
GuardInv ==
    \A r \in Requests :
        /\ pc[r] \in {"new", "identify", "decide"} => sent[r] = NotSent
        /\ pc[r] = "identify" => settings \in since[r]
        /\ pc[r] = "decide" => snap[r] \in since[r]

\* What a handler is going to record agrees with what it has transmitted, what is recorded also
\* with what the client got.
RecordInv ==
    /\ \A r \in Requests :
         /\ pc[r] = "upstream" => sent[r] = content[r]
         /\ pc[r] \in {"rewrite", "record"} =>
               draft[r].kind \in {"answered", "failed"} /\ sent[r] = draft[r].request
         /\ pc[r] \in {"number", "publish"} =>
               IF draft[r].kind \in {"auto", "blocked"} THEN sent[r] = NotSent
                                                       ELSE sent[r] = draft[r].request
    /\ \A i \in 1..Len(events) : events[i].kind # "error" => pc[events[i].id] = "done"

\* Numbers come from below the counter, one handler each.
NumberInv ==
    /\ \A r \in Requests : pc[r] = "publish" => number[r] <= sequence
    /\ \A r, q \in Requests :
         pc[r] = "publish" /\ pc[q] = "publish" /\ r # q => number[r] # number[q]
    /\ \A i \in 1..Len(events) :
         events[i].kind # "error" =>
            /\ events[i].number <= sequence
            /\ \A r \in Requests : pc[r] = "publish" => events[i].number # number[r]

\* Between the test of the hidden hosts and the send a handler holds the read lock, so the test
\* still tells the truth.
HiddenInv ==
    \A r \in Requests :
        pc[r] \in {"number", "publish"} /\ draft[r].kind \in {"answered", "failed"} =>
            r \in readers /\ ~Hides(settings, r)

\* A request has one exchange at most.
OnceInv ==
    \A i, j \in 1..Len(events) :
        events[i].kind # "error" /\ events[j].kind # "error" /\ events[i].id = events[j].id => i = j

IInv ==
    /\ TypeOK
    /\ GuardInv /\ GuardInForce
    /\ RecordInv /\ RecordIsTrue
    /\ NumberInv /\ DistinctNumbers
    /\ HiddenInv /\ OnceInv

----------------------------------------------------------------------------
(* Sequences and types.                                                    *)

\* Appending an event keeps the ones before it.
LEMMA AppendFacts ==
    ASSUME NEW s \in Seq(Event), NEW e \in Event
    PROVE  /\ Append(s, e) \in Seq(Event)
           /\ Len(Append(s, e)) = Len(s) + 1
           /\ \A i \in 1..Len(s) : Append(s, e)[i] = s[i]
           /\ Append(s, e)[Len(s) + 1] = e
  OBVIOUS

\* What a handler may send is an event.
LEMMA EventType ==
    ASSUME NEW r \in Requests, NEW kind \in Kinds \cup {"error"}, NEW n \in Nat,
           NEW request \in Contents, NEW response \in Replies
    PROVE  [id |-> r, kind |-> kind, number |-> n, request |-> request, response |-> response]
              \in Event
  BY DEF Event

\* An error event, or none: exchanges stay where they are and no exchange is added.
LEMMA ErrorSent ==
    ASSUME NEW r \in Requests, TypeOK,
           UNCHANGED events \/ Send(r, "error", 0, "plain", "error")
    PROVE  /\ events' \in Seq(Event)
           /\ \A i \in 1..Len(events') : events'[i].kind # "error" =>
                 i \in 1..Len(events) /\ events'[i] = events[i]
           /\ Len(events') > Len(events) => events'[Len(events')].kind = "error"
  <1>1. CASE UNCHANGED events
    BY <1>1 DEF TypeOK
  <1>2. CASE Send(r, "error", 0, "plain", "error")
    <2> DEFINE e == [id |-> r, kind |-> "error", number |-> 0,
                     request |-> "plain", response |-> "error"]
    <2>1. e \in Event
      BY EventType DEF Contents, Replies
    <2>2. events' = Append(events, e) /\ events \in Seq(Event)
      BY <1>2 DEF Send, TypeOK
    <2>3. e.kind = "error"
      OBVIOUS
    <2> HIDE DEF e
    <2> QED
      BY <2>1, <2>2, <2>3, AppendFacts
  <1> QED
    BY <1>1, <1>2

LEMMA InitType == Init => TypeOK
  <1> SUFFICES ASSUME Init PROVE TypeOK
    OBVIOUS
  <1>1. wanted \subseteq Policies /\ Cardinality(wanted) <= 1
    BY FS_EmptySet DEF Init
  <1>2. draft \in [Requests -> Draft]
    BY RequestAssumption DEF Init, Draft, Kinds, Replies
  <1> QED
    BY <1>1, <1>2, RequestAssumption, SavesAssumption
    DEF Init, TypeOK, Labels, Event

\* Every action keeps the types.
LEMMA TypeStep == TypeOK /\ [Next]_vars => TypeOK'
  <1> SUFFICES ASSUME TypeOK, [Next]_vars PROVE TypeOK'
    OBVIOUS
  <1> USE DEF TypeOK, Goto
  <1>1. ASSUME NEW r \in Requests, ServeCaPage(r) PROVE TypeOK'
    BY <1>1 DEF ServeCaPage, Labels, Replies
  <1>2. ASSUME NEW r \in Requests, RefuseRequest(r) PROVE TypeOK'
    <2>1. events' \in Seq(Event)
      BY <1>2, ErrorSent DEF RefuseRequest
    <2> QED
      BY <1>2, <2>1 DEF RefuseRequest, Labels, Replies
  <1>3. ASSUME NEW r \in Requests, ReadRequest(r) PROVE TypeOK'
    <2>1. events' \in Seq(Event)
      BY <1>3, ErrorSent DEF ReadRequest
    <2>2. content' \in [Requests -> Contents]
      BY <1>3 DEF ReadRequest, Contents
    <2> QED
      BY <1>3, <2>1, <2>2, ZenonT(30) DEF ReadRequest, Labels
  <1>4. ASSUME NEW r \in Requests, ReadSettings(r) PROVE TypeOK'
    BY <1>4 DEF ReadSettings, CurrentSettings, Labels
  <1>5. ASSUME NEW r \in Requests, AutoRespond(r) \/ Block(r) PROVE TypeOK'
    <2>1. \E kind \in Kinds, response \in Replies : AnswerLocally(r, kind, response)
      BY <1>5 DEF AutoRespond, Block, Kinds, Replies
    <2>2. PICK kind \in Kinds, response \in Replies : AnswerLocally(r, kind, response)
      BY <2>1
    <2>3. draft' \in [Requests -> Draft]
      BY <2>2 DEF AnswerLocally, Draft
    <2>4. pc' \in [Requests -> Labels] /\ reply' \in [Requests -> Replies \cup {NoReply}]
      BY <2>2 DEF AnswerLocally, Delivered, Labels, Replies
    <2> QED
      BY <1>5, <2>3, <2>4 DEF AutoRespond, Block
  <1>6. ASSUME NEW r \in Requests, Forward(r) PROVE TypeOK'
    <2>1. content' \in [Requests -> Contents] /\ sent' \in [Requests -> Contents \cup {NotSent}]
      BY <1>6 DEF Forward, Protected, Contents
    <2> QED
      BY <1>6, <2>1 DEF Forward, Labels
  <1>7. ASSUME NEW r \in Requests, OpenTunnel(r) \/ Cancel(r) PROVE TypeOK'
    BY <1>7 DEF OpenTunnel, Cancel, Labels
  <1>8. ASSUME NEW r \in Requests, RefuseResponse(r) PROVE TypeOK'
    <2>1. events' \in Seq(Event)
      BY <1>8, ErrorSent DEF RefuseResponse
    <2> QED
      BY <1>8, <2>1 DEF RefuseResponse, Labels, Replies
  <1>9. ASSUME NEW r \in Requests, ReadResponse(r) PROVE TypeOK'
    <2>1. events' \in Seq(Event)
      BY <1>9, ErrorSent DEF ReadResponse
    <2>2. draft' \in [Requests -> Draft]
      BY <1>9 DEF ReadResponse, Draft, Kinds, Replies
    <2> QED
      BY <1>9, <2>1, <2>2 DEF ReadResponse, Labels
  <1>10. ASSUME NEW r \in Requests, UpstreamFails(r) PROVE TypeOK'
    <2>1. draft' \in [Requests -> Draft]
      BY <1>10 DEF UpstreamFails, Draft, Kinds, Replies
    <2> QED
      BY <1>10, <2>1 DEF UpstreamFails, Labels
  <1>11. ASSUME NEW r \in Requests, Rewrite(r) PROVE TypeOK'
    <2>1. draft' \in [Requests -> Draft]
      <3>1. CASE draft' = draft
        BY <3>1
      <3>2. CASE draft' = [draft EXCEPT ![r].response = "rewritten"]
        <4>1. [draft[r] EXCEPT !.response = "rewritten"] \in Draft
          BY DEF Draft, Replies
        <4> QED
          BY <3>2, <4>1
      <3> QED
        BY <1>11, <3>1, <3>2 DEF Rewrite
    <2> QED
      BY <1>11, <2>1 DEF Rewrite, Labels
  <1>12. ASSUME NEW r \in Requests, Record(r) PROVE TypeOK'
    <2>1. draft[r].response \in Replies
      BY DEF Draft
    <2> QED
      BY <1>12, <2>1 DEF Record, Labels
  <1>13. ASSUME NEW r \in Requests, DrawNumber(r) PROVE TypeOK'
    BY <1>13 DEF DrawNumber, NextSequence, Labels
  <1>14. ASSUME NEW r \in Requests, Publish(r) PROVE TypeOK'
    <2>1. /\ draft[r].kind \in Kinds \cup {"error"} /\ draft[r].request \in Contents
          /\ draft[r].response \in Replies /\ number[r] \in Nat
      BY DEF Draft
    <2>2. events' \in Seq(Event)
      BY <1>14, <2>1, AppendFacts, EventType DEF Publish, Send
    <2>3. Delivered(r, draft[r].kind, draft[r].response) \in Replies
      BY <2>1 DEF Delivered, Replies
    <2> QED
      BY <1>14, <2>1, <2>2, <2>3 DEF Publish, Labels
  <1>15. ASSUME RequestSave PROVE TypeOK'
    <2>1. PICK p \in Policies : wanted' = {p}
      BY <1>15 DEF RequestSave
    <2>2. Cardinality({p}) = 1
      BY FS_Singleton
    <2>3. Cardinality(wanted') <= 1
      BY <2>1, <2>2
    <2> QED
      BY <1>15, <2>1, <2>3, SavesAssumption DEF RequestSave, handlers
  <1>16. ASSUME ApplySave PROVE TypeOK'
    <2>1. PICK p \in wanted :
             /\ settings' = p
             /\ since' = [q \in Requests |->
                            IF pc[q] = "identify" THEN since[q] \cup {p} ELSE since[q]]
      BY <1>16 DEF ApplySave
    <2>2. Cardinality(wanted') <= 1 /\ wanted' \subseteq Policies
      BY <1>16, FS_EmptySet DEF ApplySave
    <2> QED
      BY <1>16, <2>1, <2>2 DEF ApplySave
  <1>17. CASE UNCHANGED vars
    BY <1>17 DEF vars, handlers
  <1> QED
    BY <1>1, <1>2, <1>3, <1>4, <1>5, <1>6, <1>7, <1>8, <1>9, <1>10, <1>11, <1>12, <1>13, <1>14,
       <1>15, <1>16, <1>17 DEF Next, HandlerStep

----------------------------------------------------------------------------
(* The guard.                                                              *)

LEMMA GuardStep ==
    TypeOK /\ GuardInv /\ GuardInForce /\ [Next]_vars => GuardInv' /\ GuardInForce'
  <1> SUFFICES ASSUME TypeOK, GuardInv, GuardInForce, [Next]_vars
               PROVE  GuardInv' /\ GuardInForce'
    OBVIOUS
  <1> USE DEF TypeOK, GuardInv, GuardInForce, Goto
  <1>1. ASSUME NEW r \in Requests, ServeCaPage(r) PROVE GuardInv' /\ GuardInForce'
    BY <1>1 DEF ServeCaPage
  <1>2. ASSUME NEW r \in Requests, RefuseRequest(r) PROVE GuardInv' /\ GuardInForce'
    BY <1>2 DEF RefuseRequest
  <1>3. ASSUME NEW r \in Requests, ReadRequest(r) PROVE GuardInv' /\ GuardInForce'
    BY <1>3 DEF ReadRequest, NotSent
  <1>4. ASSUME NEW r \in Requests, ReadSettings(r) PROVE GuardInv' /\ GuardInForce'
    BY <1>4 DEF ReadSettings, CurrentSettings
  <1>5. ASSUME NEW r \in Requests, AutoRespond(r) PROVE GuardInv' /\ GuardInForce'
    BY <1>5 DEF AutoRespond, AnswerLocally
  <1>6. ASSUME NEW r \in Requests, Block(r) PROVE GuardInv' /\ GuardInForce'
    BY <1>6 DEF Block, AnswerLocally
  <1>7. ASSUME NEW r \in Requests, Forward(r) PROVE GuardInv' /\ GuardInForce'
    <2> DEFINE action == GuardAction(snap[r], r, content[r])
    <2>1. /\ pc[r] = "decide" /\ pc' = [pc EXCEPT ![r] = "upstream"]
          /\ sent' = [sent EXCEPT ![r] = Protected(action, content[r])]
          /\ action # "blocked"
          /\ UNCHANGED <<settings, snap, since>>
      BY <1>7 DEF Forward
    <2>2. snap[r].mode \in Modes
      BY PolicyAssumption DEF Settings
    <2>3. sent'[r] = "secret" =>
             content[r] = "secret" /\ GuardAction(snap[r], r, "secret") \in {"none", "warned"}
      BY <2>1, <2>2 DEF Protected, GuardAction, Modes
    <2>4. sent'[r] = "marker" => content[r] = "marker" /\ GuardAction(snap[r], r, "marker") # "blocked"
      BY <2>1 DEF Protected
    <2> HIDE DEF action
    <2> QED
      BY <2>1, <2>3, <2>4
  <1>8. ASSUME NEW r \in Requests, OpenTunnel(r) PROVE GuardInv' /\ GuardInForce'
    BY <1>8 DEF OpenTunnel
  <1>9. ASSUME NEW r \in Requests, RefuseResponse(r) PROVE GuardInv' /\ GuardInForce'
    BY <1>9 DEF RefuseResponse
  <1>10. ASSUME NEW r \in Requests, ReadResponse(r) PROVE GuardInv' /\ GuardInForce'
    BY <1>10 DEF ReadResponse
  <1>11. ASSUME NEW r \in Requests, UpstreamFails(r) PROVE GuardInv' /\ GuardInForce'
    BY <1>11 DEF UpstreamFails
  <1>12. ASSUME NEW r \in Requests, Rewrite(r) PROVE GuardInv' /\ GuardInForce'
    BY <1>12 DEF Rewrite
  <1>13. ASSUME NEW r \in Requests, Record(r) PROVE GuardInv' /\ GuardInForce'
    BY <1>13 DEF Record
  <1>14. ASSUME NEW r \in Requests, DrawNumber(r) PROVE GuardInv' /\ GuardInForce'
    BY <1>14 DEF DrawNumber
  <1>15. ASSUME NEW r \in Requests, Publish(r) PROVE GuardInv' /\ GuardInForce'
    BY <1>15 DEF Publish
  <1>16. ASSUME NEW r \in Requests, Cancel(r) PROVE GuardInv' /\ GuardInForce'
    BY <1>16 DEF Cancel
  <1>17. CASE RequestSave
    BY <1>17 DEF RequestSave, handlers
  <1>18. CASE ApplySave
    BY <1>18 DEF ApplySave
  <1>19. CASE UNCHANGED vars
    BY <1>19 DEF vars, handlers
  <1> QED
    BY <1>1, <1>2, <1>3, <1>4, <1>5, <1>6, <1>7, <1>8, <1>9, <1>10, <1>11, <1>12, <1>13, <1>14,
       <1>15, <1>16, <1>17, <1>18, <1>19 DEF Next, HandlerStep

----------------------------------------------------------------------------
(* The record.                                                             *)

\* What a row shows stays true while its request's reply and settings stay.
LEMMA ShownStays ==
    ASSUME NEW e, ReplyShown(e), UNCHANGED snap, reply'[e.id] = reply[e.id]
    PROVE  ReplyShown(e)'
  BY DEF ReplyShown

LEMMA RecordStep ==
    TypeOK /\ GuardInv /\ RecordInv /\ RecordIsTrue /\ [Next]_vars => RecordInv' /\ RecordIsTrue'
  <1> SUFFICES ASSUME TypeOK, GuardInv, RecordInv, RecordIsTrue, [Next]_vars
               PROVE  RecordInv' /\ RecordIsTrue'
    OBVIOUS
  <1>a. \A i \in 1..Len(events) : events[i].id \in Requests
    <2>1. \A i \in 1..Len(events) : events[i] \in Event
      BY DEF TypeOK
    <2> QED
      BY <2>1 DEF Event
  <1> USE DEF TypeOK, RecordInv, RecordIsTrue, ReplyShown, Goto
  <1>1. ASSUME NEW r \in Requests, ServeCaPage(r) PROVE RecordInv' /\ RecordIsTrue'
    <2>1. RecordInv'
      BY <1>1, <1>a DEF ServeCaPage
    <2>2. \A i \in 1..Len(events) : events[i].kind # "error" => events[i].id # r
      BY <1>1 DEF ServeCaPage
    <2>3. RecordIsTrue'
      BY <1>1, <1>a, <2>2 DEF ServeCaPage
    <2> QED
      BY <2>1, <2>3
  <1>2. ASSUME NEW r \in Requests, RefuseRequest(r) PROVE RecordInv' /\ RecordIsTrue'
    <2>1. \A i \in 1..Len(events') : events'[i].kind # "error" =>
             i \in 1..Len(events) /\ events'[i] = events[i]
      BY <1>2, ErrorSent DEF RefuseRequest
    <2> QED
      <3>1. RecordInv'
        BY <1>2, <2>1, <1>a DEF RefuseRequest
      <3>2. RecordIsTrue'
        <4> SUFFICES ASSUME NEW i \in 1..Len(events), events[i].kind # "error"
                     PROVE  \A e : e = events[i] =>
                              /\ IF e.kind \in {"auto", "blocked"}
                                 THEN sent'[e.id] = NotSent
                                 ELSE sent'[e.id] = e.request
                              /\ ReplyShown(e)'
          BY <2>1
        <4>1. events[i].id # r /\ events[i].id \in Requests
          BY <1>2, <1>a DEF RefuseRequest
        <4>2. UNCHANGED <<sent, snap>> /\ reply'[events[i].id] = reply[events[i].id]
          BY <1>2, <4>1 DEF RefuseRequest
        <4>3. ReplyShown(events[i])
          OBVIOUS
        <4> QED
          BY <4>2, <4>3, ShownStays
      <3> QED
        BY <3>1, <3>2
  <1>3. ASSUME NEW r \in Requests, ReadRequest(r) PROVE RecordInv' /\ RecordIsTrue'
    <2>1. \A i \in 1..Len(events') : events'[i].kind # "error" =>
             i \in 1..Len(events) /\ events'[i] = events[i]
      BY <1>3, ErrorSent DEF ReadRequest
    <2>2. RecordInv'
      BY <1>3, <2>1, <1>a DEF ReadRequest, Kinds
    <2>3. RecordIsTrue'
      BY <1>3, <2>1 DEF ReadRequest
    <2> QED
      BY <2>2, <2>3
  <1>4. ASSUME NEW r \in Requests, ReadSettings(r) PROVE RecordInv' /\ RecordIsTrue'
    BY <1>4, <1>a DEF ReadSettings
  <1>5. ASSUME NEW r \in Requests, AutoRespond(r) PROVE RecordInv' /\ RecordIsTrue'
    BY <1>5, <1>a DEF AutoRespond, AnswerLocally, GuardInv
  <1>6. ASSUME NEW r \in Requests, Block(r) PROVE RecordInv' /\ RecordIsTrue'
    BY <1>6, <1>a DEF Block, AnswerLocally, GuardInv
  <1>7. ASSUME NEW r \in Requests, Forward(r) PROVE RecordInv' /\ RecordIsTrue'
    BY <1>7, <1>a DEF Forward, Protected
  <1>8. ASSUME NEW r \in Requests, OpenTunnel(r) PROVE RecordInv' /\ RecordIsTrue'
    BY <1>8, <1>a DEF OpenTunnel
  <1>9. ASSUME NEW r \in Requests, RefuseResponse(r) PROVE RecordInv' /\ RecordIsTrue'
    <2>1. \A i \in 1..Len(events') : events'[i].kind # "error" =>
             i \in 1..Len(events) /\ events'[i] = events[i]
      BY <1>9, ErrorSent DEF RefuseResponse
    <2> QED
      <3>1. RecordInv'
        BY <1>9, <2>1, <1>a DEF RefuseResponse
      <3>2. RecordIsTrue'
        <4> SUFFICES ASSUME NEW i \in 1..Len(events), events[i].kind # "error"
                     PROVE  \A e : e = events[i] =>
                              /\ IF e.kind \in {"auto", "blocked"}
                                 THEN sent'[e.id] = NotSent
                                 ELSE sent'[e.id] = e.request
                              /\ ReplyShown(e)'
          BY <2>1
        <4>1. events[i].id # r /\ events[i].id \in Requests
          BY <1>9, <1>a DEF RefuseResponse
        <4>2. UNCHANGED <<sent, snap>> /\ reply'[events[i].id] = reply[events[i].id]
          BY <1>9, <4>1 DEF RefuseResponse
        <4>3. ReplyShown(events[i])
          OBVIOUS
        <4> QED
          BY <4>2, <4>3, ShownStays
      <3> QED
        BY <3>1, <3>2
  <1>10. ASSUME NEW r \in Requests, ReadResponse(r) PROVE RecordInv' /\ RecordIsTrue'
    <2>1. \A i \in 1..Len(events') : events'[i].kind # "error" =>
             i \in 1..Len(events) /\ events'[i] = events[i]
      BY <1>10, ErrorSent DEF ReadResponse
    <2> QED
      BY <1>10, <2>1, <1>a DEF ReadResponse, Kinds
  <1>11. ASSUME NEW r \in Requests, UpstreamFails(r) PROVE RecordInv' /\ RecordIsTrue'
    BY <1>11, <1>a DEF UpstreamFails
  <1>12. ASSUME NEW r \in Requests, Rewrite(r) PROVE RecordInv' /\ RecordIsTrue'
    <2>1. \A q \in Requests : draft'[q].kind = draft[q].kind /\ draft'[q].request = draft[q].request
      <3>1. CASE UNCHANGED draft
        BY <3>1
      <3>2. CASE draft' = [draft EXCEPT ![r].response = "rewritten"]
        BY <3>2 DEF Draft
      <3> QED
        BY <1>12, <3>1, <3>2 DEF Rewrite
    <2> QED
      BY <1>12, <2>1, <1>a DEF Rewrite
  <1>13. ASSUME NEW r \in Requests, Record(r) PROVE RecordInv' /\ RecordIsTrue'
    BY <1>13, <1>a DEF Record
  <1>14. ASSUME NEW r \in Requests, DrawNumber(r) PROVE RecordInv' /\ RecordIsTrue'
    BY <1>14, <1>a DEF DrawNumber
  <1>15. ASSUME NEW r \in Requests, Publish(r) PROVE RecordInv' /\ RecordIsTrue'
    <2> DEFINE e == [id |-> r, kind |-> draft[r].kind, number |-> number[r],
                     request |-> draft[r].request, response |-> draft[r].response]
    <2>1. e \in Event
      BY EventType DEF Draft
    <2>2. events' = Append(events, e)
      BY <1>15 DEF Publish, Send
    <2>3. /\ pc[r] = "publish" /\ pc' = [pc EXCEPT ![r] = "done"]
          /\ reply' = [reply EXCEPT ![r] = Delivered(r, draft[r].kind, draft[r].response)]
          /\ UNCHANGED <<content, draft, sent, snap>>
      BY <1>15 DEF Publish
    <2>4. e.id = r /\ e.kind = draft[r].kind /\ e.request = draft[r].request
             /\ e.response = draft[r].response
      OBVIOUS
    <2> HIDE DEF e
    <2>5. Len(events') = Len(events) + 1 /\ events'[Len(events) + 1] = e
             /\ \A i \in 1..Len(events) : events'[i] = events[i]
      BY <2>1, <2>2, AppendFacts
    <2>6. RecordInv'
      <3>1. \A i \in 1..Len(events') : events'[i].kind # "error" => pc'[events'[i].id] = "done"
        <4> SUFFICES ASSUME NEW i \in 1..Len(events'), events'[i].kind # "error"
                     PROVE  pc'[events'[i].id] = "done"
          OBVIOUS
        <4>1. CASE i \in 1..Len(events)
          BY <4>1, <2>3, <2>5, <1>a
        <4>2. CASE i = Len(events) + 1
          BY <4>2, <2>3, <2>4, <2>5
        <4> QED
          BY <4>1, <4>2, <2>5
      <3> QED
        BY <3>1, <2>3
    <2>7. ASSUME NEW i \in 1..Len(events'), events'[i].kind # "error"
          PROVE  /\ IF events'[i].kind \in {"auto", "blocked"}
                    THEN sent'[events'[i].id] = NotSent
                    ELSE sent'[events'[i].id] = events'[i].request
                 /\ ReplyShown(events[i])'
      <3>1. CASE i \in 1..Len(events)
        <4>1. events'[i] = events[i] /\ events[i].id # r /\ events[i].id \in Requests
          BY <3>1, <2>3, <2>5, <2>7, <1>a
        <4>2. UNCHANGED <<sent, snap>> /\ reply'[events[i].id] = reply[events[i].id]
          BY <2>3, <4>1
        <4> QED
          BY <3>1, <2>7, <4>1, <4>2
      <3>2. CASE i = Len(events) + 1
        <4>1. events'[i] = e /\ reply'[r] = Delivered(r, draft[r].kind, draft[r].response)
          BY <3>2, <2>3, <2>5
        <4> QED
          BY <4>1, <2>3, <2>4 DEF Delivered
      <3> QED
        BY <3>1, <3>2, <2>5
    <2> QED
      BY <2>6, <2>7
  <1>16. ASSUME NEW r \in Requests, Cancel(r) PROVE RecordInv' /\ RecordIsTrue'
    BY <1>16, <1>a DEF Cancel
  <1>17. CASE RequestSave
    BY <1>17 DEF RequestSave, handlers
  <1>18. CASE ApplySave
    BY <1>18 DEF ApplySave
  <1>19. CASE UNCHANGED vars
    BY <1>19 DEF vars, handlers
  <1> QED
    BY <1>1, <1>2, <1>3, <1>4, <1>5, <1>6, <1>7, <1>8, <1>9, <1>10, <1>11, <1>12, <1>13, <1>14,
       <1>15, <1>16, <1>17, <1>18, <1>19 DEF Next, HandlerStep

----------------------------------------------------------------------------
(* The numbers.                                                            *)

\* A step that draws no number and adds no exchange.
LEMMA NumberFrame ==
    ASSUME TypeOK, NumberInv, DistinctNumbers,
           UNCHANGED <<number, sequence>>,
           \A q \in Requests : pc'[q] = "publish" => pc[q] = "publish",
           \A i \in 1..Len(events') : events'[i].kind # "error" =>
              i \in 1..Len(events) /\ events'[i] = events[i]
    PROVE  NumberInv' /\ DistinctNumbers'
  <1>1. NumberInv'
    BY DEF NumberInv
  <1>2. DistinctNumbers'
    BY DEF DistinctNumbers
  <1> QED
    BY <1>1, <1>2

LEMMA NumberStep ==
    TypeOK /\ NumberInv /\ DistinctNumbers /\ [Next]_vars => NumberInv' /\ DistinctNumbers'
  <1> SUFFICES ASSUME TypeOK, NumberInv, DistinctNumbers, [Next]_vars
               PROVE  NumberInv' /\ DistinctNumbers'
    OBVIOUS
  <1>a. \A i \in 1..Len(events) : events[i].number \in Nat
    <2>1. \A i \in 1..Len(events) : events[i] \in Event
      BY DEF TypeOK
    <2> QED
      BY <2>1 DEF Event
  <1>1. ASSUME NEW r \in Requests, ServeCaPage(r) PROVE NumberInv' /\ DistinctNumbers'
    <2>1. /\ UNCHANGED <<number, sequence, events>>
          /\ \A q \in Requests : pc'[q] = "publish" => pc[q] = "publish"
      BY <1>1 DEF ServeCaPage, TypeOK, Goto
    <2> QED
      BY <2>1, NumberFrame
  <1>2. ASSUME NEW r \in Requests, RefuseRequest(r) PROVE NumberInv' /\ DistinctNumbers'
    <2>1. \A i \in 1..Len(events') : events'[i].kind # "error" =>
             i \in 1..Len(events) /\ events'[i] = events[i]
      BY <1>2, ErrorSent DEF RefuseRequest
    <2>2. /\ UNCHANGED <<number, sequence>>
          /\ \A q \in Requests : pc'[q] = "publish" => pc[q] = "publish"
      BY <1>2 DEF RefuseRequest, TypeOK, Goto
    <2> QED
      BY <2>1, <2>2, NumberFrame
  <1>3. ASSUME NEW r \in Requests, ReadRequest(r) PROVE NumberInv' /\ DistinctNumbers'
    <2>1. \A i \in 1..Len(events') : events'[i].kind # "error" =>
             i \in 1..Len(events) /\ events'[i] = events[i]
      BY <1>3, ErrorSent DEF ReadRequest
    <2>2. /\ UNCHANGED <<number, sequence>>
          /\ \A q \in Requests : pc'[q] = "publish" => pc[q] = "publish"
      BY <1>3 DEF ReadRequest, TypeOK, Goto
    <2> QED
      BY <2>1, <2>2, NumberFrame
  <1>4. ASSUME NEW r \in Requests, ReadSettings(r) PROVE NumberInv' /\ DistinctNumbers'
    <2>1. /\ UNCHANGED <<number, sequence, events>>
          /\ \A q \in Requests : pc'[q] = "publish" => pc[q] = "publish"
      BY <1>4 DEF ReadSettings, TypeOK, Goto
    <2> QED
      BY <2>1, NumberFrame
  <1>5. ASSUME NEW r \in Requests, AutoRespond(r) PROVE NumberInv' /\ DistinctNumbers'
    <2>1. /\ UNCHANGED <<number, sequence, events>>
          /\ \A q \in Requests : pc'[q] = "publish" => pc[q] = "publish"
      BY <1>5 DEF AutoRespond, AnswerLocally, TypeOK, Goto
    <2> QED
      BY <2>1, NumberFrame
  <1>6. ASSUME NEW r \in Requests, Block(r) PROVE NumberInv' /\ DistinctNumbers'
    <2>1. /\ UNCHANGED <<number, sequence, events>>
          /\ \A q \in Requests : pc'[q] = "publish" => pc[q] = "publish"
      BY <1>6 DEF Block, AnswerLocally, TypeOK, Goto
    <2> QED
      BY <2>1, NumberFrame
  <1>7. ASSUME NEW r \in Requests, Forward(r) PROVE NumberInv' /\ DistinctNumbers'
    <2>1. /\ UNCHANGED <<number, sequence, events>>
          /\ \A q \in Requests : pc'[q] = "publish" => pc[q] = "publish"
      BY <1>7 DEF Forward, TypeOK, Goto
    <2> QED
      BY <2>1, NumberFrame
  <1>8. ASSUME NEW r \in Requests, OpenTunnel(r) PROVE NumberInv' /\ DistinctNumbers'
    <2>1. /\ UNCHANGED <<number, sequence, events>>
          /\ \A q \in Requests : pc'[q] = "publish" => pc[q] = "publish"
      BY <1>8 DEF OpenTunnel, TypeOK, Goto
    <2> QED
      BY <2>1, NumberFrame
  <1>9. ASSUME NEW r \in Requests, RefuseResponse(r) PROVE NumberInv' /\ DistinctNumbers'
    <2>1. \A i \in 1..Len(events') : events'[i].kind # "error" =>
             i \in 1..Len(events) /\ events'[i] = events[i]
      BY <1>9, ErrorSent DEF RefuseResponse
    <2>2. /\ UNCHANGED <<number, sequence>>
          /\ \A q \in Requests : pc'[q] = "publish" => pc[q] = "publish"
      BY <1>9 DEF RefuseResponse, TypeOK, Goto
    <2> QED
      BY <2>1, <2>2, NumberFrame
  <1>10. ASSUME NEW r \in Requests, ReadResponse(r) PROVE NumberInv' /\ DistinctNumbers'
    <2>1. \A i \in 1..Len(events') : events'[i].kind # "error" =>
             i \in 1..Len(events) /\ events'[i] = events[i]
      BY <1>10, ErrorSent DEF ReadResponse
    <2>2. /\ UNCHANGED <<number, sequence>>
          /\ \A q \in Requests : pc'[q] = "publish" => pc[q] = "publish"
      BY <1>10 DEF ReadResponse, TypeOK, Goto
    <2> QED
      BY <2>1, <2>2, NumberFrame
  <1>11. ASSUME NEW r \in Requests, UpstreamFails(r) PROVE NumberInv' /\ DistinctNumbers'
    <2>1. /\ UNCHANGED <<number, sequence, events>>
          /\ \A q \in Requests : pc'[q] = "publish" => pc[q] = "publish"
      BY <1>11 DEF UpstreamFails, TypeOK, Goto
    <2> QED
      BY <2>1, NumberFrame
  <1>12. ASSUME NEW r \in Requests, Rewrite(r) PROVE NumberInv' /\ DistinctNumbers'
    <2>1. /\ UNCHANGED <<number, sequence, events>>
          /\ \A q \in Requests : pc'[q] = "publish" => pc[q] = "publish"
      BY <1>12 DEF Rewrite, TypeOK, Goto
    <2> QED
      BY <2>1, NumberFrame
  <1>13. ASSUME NEW r \in Requests, Record(r) PROVE NumberInv' /\ DistinctNumbers'
    <2>1. /\ UNCHANGED <<number, sequence, events>>
          /\ \A q \in Requests : pc'[q] = "publish" => pc[q] = "publish"
      BY <1>13 DEF Record, TypeOK, Goto
    <2> QED
      BY <2>1, NumberFrame
  <1>14. ASSUME NEW r \in Requests, DrawNumber(r) PROVE NumberInv' /\ DistinctNumbers'
    <2>1. /\ pc[r] = "number" /\ pc' = [pc EXCEPT ![r] = "publish"]
          /\ number' = [number EXCEPT ![r] = sequence + 1]
          /\ sequence' = sequence + 1
          /\ events' = events
          /\ sequence \in Nat /\ number \in [Requests -> Nat] /\ pc \in [Requests -> Labels]
      BY <1>14 DEF DrawNumber, NextSequence, Goto, TypeOK
    <2>2. NumberInv'
      <3>1. \A q \in Requests : pc'[q] = "publish" => number'[q] <= sequence'
        BY <2>1 DEF NumberInv
      <3>2. \A p, q \in Requests :
               pc'[p] = "publish" /\ pc'[q] = "publish" /\ p # q => number'[p] # number'[q]
        BY <2>1 DEF NumberInv
      <3>3. \A i \in 1..Len(events) : events[i].kind # "error" =>
               /\ events[i].number <= sequence'
               /\ \A q \in Requests : pc'[q] = "publish" => events[i].number # number'[q]
        BY <2>1, <1>a DEF NumberInv
      <3> QED
        BY <2>1, <3>1, <3>2, <3>3 DEF NumberInv
    <2>3. DistinctNumbers'
      BY <2>1 DEF DistinctNumbers
    <2> QED
      BY <2>2, <2>3
  <1>15. ASSUME NEW r \in Requests, Publish(r) PROVE NumberInv' /\ DistinctNumbers'
    <2> DEFINE e == [id |-> r, kind |-> draft[r].kind, number |-> number[r],
                     request |-> draft[r].request, response |-> draft[r].response]
    <2>1. e \in Event
      BY EventType DEF Draft, TypeOK
    <2>2. events' = Append(events, e)
      BY <1>15 DEF Publish, Send
    <2>3. pc[r] = "publish" /\ pc' = [pc EXCEPT ![r] = "done"] /\ UNCHANGED <<sequence, number>>
             /\ pc \in [Requests -> Labels] /\ events \in Seq(Event)
      BY <1>15 DEF Publish, Goto, TypeOK
    <2>4. e.number = number[r]
      OBVIOUS
    <2> HIDE DEF e
    <2>5. Len(events') = Len(events) + 1 /\ events'[Len(events) + 1] = e
             /\ \A i \in 1..Len(events) : events'[i] = events[i]
      BY <2>1, <2>2, <2>3, AppendFacts
    <2>6. ASSUME NEW i \in 1..Len(events'), events'[i].kind # "error"
          PROVE  /\ events'[i].number <= sequence'
                 /\ \A q \in Requests : pc'[q] = "publish" => events'[i].number # number'[q]
      <3>1. CASE i \in 1..Len(events)
        BY <3>1, <2>3, <2>5, <2>6 DEF NumberInv
      <3>2. CASE i = Len(events) + 1
        BY <3>2, <2>3, <2>4, <2>5 DEF NumberInv
      <3> QED
        BY <3>1, <3>2, <2>5
    <2>7. \A i \in 1..Len(events) : events'[i].kind # "error" => events'[i].number # number[r]
      BY <2>3, <2>5 DEF NumberInv
    <2>8. DistinctNumbers'
      <3> SUFFICES ASSUME NEW i \in 1..Len(events'), NEW j \in 1..Len(events'), i # j,
                          events'[i].kind # "error", events'[j].kind # "error"
                   PROVE  events'[i].number # events'[j].number
        BY DEF DistinctNumbers
      <3>1. CASE i \in 1..Len(events) /\ j \in 1..Len(events)
        BY <3>1, <2>5 DEF DistinctNumbers
      <3>2. CASE i = Len(events) + 1 /\ j \in 1..Len(events)
        BY <3>2, <2>4, <2>5, <2>7
      <3>3. CASE i \in 1..Len(events) /\ j = Len(events) + 1
        BY <3>3, <2>4, <2>5, <2>7
      <3> QED
        BY <3>1, <3>2, <3>3, <2>5
    <2>9. NumberInv'
      <3>1. \A p, q \in Requests :
               pc'[p] = "publish" /\ pc'[q] = "publish" /\ p # q => number'[p] # number'[q]
        BY <2>3 DEF NumberInv
      <3> QED
        BY <2>3, <2>6, <3>1 DEF NumberInv
    <2> QED
      BY <2>8, <2>9
  <1>16. ASSUME NEW r \in Requests, Cancel(r) PROVE NumberInv' /\ DistinctNumbers'
    <2>1. /\ UNCHANGED <<number, sequence, events>>
          /\ \A q \in Requests : pc'[q] = "publish" => pc[q] = "publish"
      BY <1>16 DEF Cancel, TypeOK, Goto
    <2> QED
      BY <2>1, NumberFrame
  <1>17. CASE RequestSave
    BY <1>17 DEF RequestSave, handlers, NumberInv, DistinctNumbers
  <1>18. CASE ApplySave
    BY <1>18 DEF ApplySave, NumberInv, DistinctNumbers
  <1>19. CASE UNCHANGED vars
    BY <1>19 DEF vars, handlers, NumberInv, DistinctNumbers
  <1> QED
    BY <1>1, <1>2, <1>3, <1>4, <1>5, <1>6, <1>7, <1>8, <1>9, <1>10, <1>11, <1>12, <1>13, <1>14,
       <1>15, <1>16, <1>17, <1>18, <1>19 DEF Next, HandlerStep

----------------------------------------------------------------------------
(* The hidden hosts.                                                       *)

LEMMA HiddenStep == TypeOK /\ HiddenInv /\ [Next]_vars => HiddenInv'
  <1> SUFFICES ASSUME TypeOK, HiddenInv, [Next]_vars PROVE HiddenInv'
    OBVIOUS
  <1> USE DEF TypeOK, HiddenInv, Goto
  <1>1. ASSUME NEW r \in Requests, ServeCaPage(r) PROVE HiddenInv'
    BY <1>1 DEF ServeCaPage, Hides
  <1>2. ASSUME NEW r \in Requests, RefuseRequest(r) PROVE HiddenInv'
    BY <1>2 DEF RefuseRequest, Hides
  <1>3. ASSUME NEW r \in Requests, ReadRequest(r) PROVE HiddenInv'
    BY <1>3 DEF ReadRequest, Hides
  <1>4. ASSUME NEW r \in Requests, ReadSettings(r) PROVE HiddenInv'
    BY <1>4 DEF ReadSettings, Hides
  <1>5. ASSUME NEW r \in Requests, AutoRespond(r) PROVE HiddenInv'
    BY <1>5 DEF AutoRespond, AnswerLocally, Hides
  <1>6. ASSUME NEW r \in Requests, Block(r) PROVE HiddenInv'
    BY <1>6 DEF Block, AnswerLocally, Hides
  <1>7. ASSUME NEW r \in Requests, Forward(r) PROVE HiddenInv'
    BY <1>7 DEF Forward, Hides
  <1>8. ASSUME NEW r \in Requests, OpenTunnel(r) PROVE HiddenInv'
    BY <1>8 DEF OpenTunnel, Hides
  <1>9. ASSUME NEW r \in Requests, RefuseResponse(r) PROVE HiddenInv'
    BY <1>9 DEF RefuseResponse, Hides
  <1>10. ASSUME NEW r \in Requests, ReadResponse(r) PROVE HiddenInv'
    BY <1>10 DEF ReadResponse, Hides
  <1>11. ASSUME NEW r \in Requests, UpstreamFails(r) PROVE HiddenInv'
    BY <1>11 DEF UpstreamFails, Hides
  <1>12. ASSUME NEW r \in Requests, Rewrite(r) PROVE HiddenInv'
    BY <1>12 DEF Rewrite, Draft
  <1>13. ASSUME NEW r \in Requests, Record(r) PROVE HiddenInv'
    BY <1>13 DEF Record, Hides
  <1>14. ASSUME NEW r \in Requests, DrawNumber(r) PROVE HiddenInv'
    BY <1>14 DEF DrawNumber, Hides
  <1>15. ASSUME NEW r \in Requests, Publish(r) PROVE HiddenInv'
    BY <1>15 DEF Publish, Hides
  <1>16. ASSUME NEW r \in Requests, Cancel(r) PROVE HiddenInv'
    BY <1>16 DEF Cancel, Hides
  <1>17. CASE RequestSave
    BY <1>17 DEF RequestSave, handlers, Hides
  <1>18. CASE ApplySave
    BY <1>18 DEF ApplySave
  <1>19. CASE UNCHANGED vars
    BY <1>19 DEF vars, handlers, Hides
  <1> QED
    BY <1>1, <1>2, <1>3, <1>4, <1>5, <1>6, <1>7, <1>8, <1>9, <1>10, <1>11, <1>12, <1>13, <1>14,
       <1>15, <1>16, <1>17, <1>18, <1>19 DEF Next, HandlerStep

\* Only Publish adds an exchange, and what it adds is the handler's own.
LEMMA HiddenAction ==
    TypeOK /\ HiddenInv /\ [Next]_vars =>
      \A r \in Requests :
         Len(events') > Len(events) /\ events'[Len(events')].id = r
            /\ events'[Len(events')].kind \in {"answered", "failed"}
         => ~Hides(settings, r)
  <1> SUFFICES ASSUME TypeOK, HiddenInv, [Next]_vars,
                      Len(events') > Len(events),
                      events'[Len(events')].kind \in {"answered", "failed"},
                      events'[Len(events')].id \in Requests
               PROVE  ~Hides(settings, events'[Len(events')].id)
    OBVIOUS
  <1>1. ASSUME NEW r \in Requests,
               RefuseRequest(r) \/ ReadRequest(r) \/ RefuseResponse(r) \/ ReadResponse(r)
        PROVE  FALSE
    <2>1. UNCHANGED events \/ Send(r, "error", 0, "plain", "error")
      BY <1>1 DEF RefuseRequest, ReadRequest, RefuseResponse, ReadResponse
    <2> QED
      BY <2>1, ErrorSent
  <1>2. ASSUME NEW r \in Requests, Publish(r)
        PROVE  ~Hides(settings, events'[Len(events')].id)
    <2> DEFINE e == [id |-> r, kind |-> draft[r].kind, number |-> number[r],
                     request |-> draft[r].request, response |-> draft[r].response]
    <2>1. e \in Event
      BY EventType DEF Draft, TypeOK
    <2>2. events' = Append(events, e) /\ events \in Seq(Event) /\ pc[r] = "publish"
      BY <1>2 DEF Publish, Send, TypeOK
    <2>3. e.id = r /\ e.kind = draft[r].kind
      OBVIOUS
    <2> HIDE DEF e
    <2>4. events'[Len(events')] = e
      BY <2>1, <2>2, AppendFacts
    <2> QED
      BY <2>2, <2>3, <2>4 DEF HiddenInv
  <1>3. ASSUME NEW r \in Requests,
               \/ ServeCaPage(r) \/ OpenTunnel(r) \/ UpstreamFails(r) \/ ReadSettings(r)
               \/ AutoRespond(r) \/ Block(r) \/ Forward(r) \/ Rewrite(r) \/ Record(r)
               \/ DrawNumber(r) \/ Cancel(r)
        PROVE  FALSE
    <2>1. events' = events
      BY <1>3 DEF ServeCaPage, OpenTunnel, UpstreamFails, ReadSettings, AutoRespond, Block, Forward,
                  Rewrite, Record, DrawNumber, Cancel
    <2> QED
      BY <2>1 DEF TypeOK
  <1>4. CASE RequestSave \/ ApplySave \/ UNCHANGED vars
    <2>1. events' = events
      BY <1>4 DEF RequestSave, ApplySave, vars
    <2> QED
      BY <2>1 DEF TypeOK
  <1> QED
    BY <1>1, <1>2, <1>3, <1>4 DEF Next, HandlerStep

----------------------------------------------------------------------------
(* One exchange for each request.                                          *)

\* No exchange is added.
NoneAdded ==
    \A i \in 1..Len(events') : events'[i].kind # "error" =>
        i \in 1..Len(events) /\ events'[i] = events[i]

\* Only Publish adds an exchange.
LEMMA OthersAddNone ==
    ASSUME TypeOK, [Next]_vars, \A r \in Requests : ~Publish(r)
    PROVE  NoneAdded
  <1>1. ASSUME NEW r \in Requests,
               RefuseRequest(r) \/ ReadRequest(r) \/ RefuseResponse(r) \/ ReadResponse(r)
        PROVE  NoneAdded
    <2>1. UNCHANGED events \/ Send(r, "error", 0, "plain", "error")
      BY <1>1 DEF RefuseRequest, ReadRequest, RefuseResponse, ReadResponse
    <2> QED
      BY <2>1, ErrorSent DEF NoneAdded
  <1>2. ASSUME NEW r \in Requests,
               \/ ServeCaPage(r) \/ OpenTunnel(r) \/ UpstreamFails(r) \/ ReadSettings(r)
               \/ AutoRespond(r) \/ Block(r) \/ Forward(r) \/ Rewrite(r) \/ Record(r)
               \/ DrawNumber(r) \/ Cancel(r)
        PROVE  NoneAdded
    <2>1. events' = events
      BY <1>2 DEF ServeCaPage, OpenTunnel, UpstreamFails, ReadSettings, AutoRespond, Block, Forward,
                  Rewrite, Record, DrawNumber, Cancel
    <2> QED
      BY <2>1 DEF NoneAdded
  <1>3. CASE RequestSave \/ ApplySave \/ UNCHANGED vars
    <2>1. events' = events
      BY <1>3 DEF RequestSave, ApplySave, vars
    <2> QED
      BY <2>1 DEF NoneAdded
  <1> QED
    BY <1>1, <1>2, <1>3 DEF Next, HandlerStep

\* What Publish adds is the handler's own exchange, at the end.
LEMMA PublishAdds ==
    ASSUME TypeOK, NEW r \in Requests, Publish(r)
    PROVE  /\ Len(events) \in Nat /\ Len(events') = Len(events) + 1
           /\ \A i \in 1..Len(events) : events'[i] = events[i]
           /\ events'[Len(events) + 1].id = r /\ events'[Len(events) + 1].kind # "error"
  <1> DEFINE e == [id |-> r, kind |-> draft[r].kind, number |-> number[r],
                   request |-> draft[r].request, response |-> draft[r].response]
  <1>1. e \in Event
    BY EventType DEF Draft, TypeOK
  <1>2. events' = Append(events, e) /\ events \in Seq(Event)
    BY DEF Publish, Send, TypeOK
  <1>3. e.id = r /\ e.kind # "error"
    BY DEF TypeOK, Draft, Kinds
  <1> HIDE DEF e
  <1> QED
    BY <1>1, <1>2, <1>3, AppendFacts

LEMMA OnceStep == TypeOK /\ RecordInv /\ OnceInv /\ [Next]_vars => OnceInv'
  <1> SUFFICES ASSUME TypeOK, RecordInv, OnceInv, [Next]_vars PROVE OnceInv'
    OBVIOUS
  <1>1. ASSUME NEW r \in Requests, Publish(r) PROVE OnceInv'
    <2>1. /\ Len(events) \in Nat /\ Len(events') = Len(events) + 1
          /\ \A i \in 1..Len(events) : events'[i] = events[i]
          /\ events'[Len(events) + 1].id = r
      BY <1>1, PublishAdds
    <2>2. \A i \in 1..Len(events) : events[i].kind # "error" => events[i].id # r
      BY <1>1 DEF Publish, RecordInv
    <2>3. \A i \in 1..Len(events') : i \in 1..Len(events) \/ i = Len(events) + 1
      BY <2>1
    <2> QED
      BY <2>1, <2>2, <2>3 DEF OnceInv
  <1>2. CASE \A r \in Requests : ~Publish(r)
    BY <1>2, OthersAddNone DEF NoneAdded, OnceInv
  <1> QED
    BY <1>1, <1>2

\* So there is one at most.
LEMMA OneExchange ==
    ASSUME OnceInv, NEW r \in Requests
    PROVE  Cardinality(Exchanges(r)) <= 1
  <1>1. CASE Exchanges(r) = {}
    BY <1>1, FS_EmptySet
  <1>2. CASE Exchanges(r) # {}
    <2>1. PICK i : i \in Exchanges(r)
      BY <1>2
    <2>2. \A j \in Exchanges(r) : j = i
      BY <2>1 DEF Exchanges, OnceInv
    <2>3. Exchanges(r) = {i}
      BY <2>1, <2>2
    <2>4. Cardinality({i}) = 1
      BY FS_Singleton
    <2> QED
      BY <2>3, <2>4
  <1> QED
    BY <1>1, <1>2

\* Handlers that come to their end, one by one.
LEMMA EndAccounted ==
    ASSUME TypeOK, [Next]_vars, NEW q \in Requests,
           pc[q] # "done", pc'[q] = "done", Exchanges(q)' = {}
    PROVE  \/ reply'[q] = "ca page"
           \/ \E i \in 1..Len(events') : events'[i].id = q /\ events'[i].kind = "error"
           \/ Hides(IF pc[q] = "record" THEN settings ELSE snap[q], q)
  <1> USE DEF Goto
  <1>a. pc \in [Requests -> Labels] /\ reply \in [Requests -> Replies \cup {NoReply}]
    BY DEF TypeOK
  <1>1. ASSUME NEW r \in Requests, ServeCaPage(r) PROVE reply'[q] = "ca page"
    BY <1>1, <1>a DEF ServeCaPage
  <1>2. ASSUME NEW r \in Requests, RefuseRequest(r) \/ RefuseResponse(r)
        PROVE  \E i \in 1..Len(events') : events'[i].id = q /\ events'[i].kind = "error"
    <2> DEFINE e == [id |-> r, kind |-> "error", number |-> 0,
                     request |-> "plain", response |-> "error"]
    <2>1. e \in Event
      BY EventType DEF Contents, Replies
    <2>2. r = q
      BY <1>2, <1>a DEF RefuseRequest, RefuseResponse
    <2>3. e.id = q /\ e.kind = "error"
      BY <2>2
    <2>4. events' = Append(events, e) /\ events \in Seq(Event)
      BY <1>2 DEF RefuseRequest, RefuseResponse, Send, TypeOK
    <2> HIDE DEF e
    <2>5. Len(events') = Len(events) + 1 /\ events'[Len(events) + 1] = e /\ Len(events) \in Nat
      BY <2>1, <2>4, AppendFacts
    <2>6. Len(events) + 1 \in 1..Len(events')
      BY <2>5
    <2> QED
      BY <2>3, <2>5, <2>6
  <1>3. ASSUME NEW r \in Requests, AutoRespond(r) \/ Block(r) PROVE pc[q] = "decide" /\ Hides(snap[q], q)
    <2>1. PICK kind, response : AnswerLocally(r, kind, response)
      BY <1>3 DEF AutoRespond, Block
    <2>2. pc[r] = "decide"
      BY <1>3 DEF AutoRespond, Block
    <2> QED
      BY <2>1, <2>2, <1>a DEF AnswerLocally
  <1>4. ASSUME NEW r \in Requests, Record(r) PROVE pc[q] = "record" /\ Hides(settings, q)
    BY <1>4, <1>a DEF Record
  <1>5. ASSUME NEW r \in Requests, Publish(r) PROVE FALSE
    <2>1. r = q
      BY <1>5, <1>a DEF Publish
    <2>2. /\ Len(events) \in Nat /\ Len(events') = Len(events) + 1
          /\ events'[Len(events) + 1].id = q /\ events'[Len(events) + 1].kind # "error"
      BY <1>5, <2>1, PublishAdds
    <2>3. Len(events) + 1 \in Exchanges(q)'
      BY <2>2 DEF Exchanges
    <2> QED
      BY <2>3
  <1>6. ASSUME NEW r \in Requests,
               \/ ReadRequest(r) \/ OpenTunnel(r) \/ ReadResponse(r) \/ UpstreamFails(r) \/ ReadSettings(r)
               \/ Forward(r) \/ Rewrite(r) \/ DrawNumber(r) \/ Cancel(r)
        PROVE  FALSE
    <2>1. \E label \in Labels \ {"done"} : Goto(r, label)
      BY <1>6 DEF ReadRequest, OpenTunnel, ReadResponse, UpstreamFails, ReadSettings, Forward, Rewrite,
                  DrawNumber, Cancel, Labels
    <2> QED
      BY <2>1, <1>a
  <1>7. CASE RequestSave \/ ApplySave \/ UNCHANGED vars
    <2>1. pc' = pc
      BY <1>7 DEF RequestSave, ApplySave, vars, handlers
    <2> QED
      BY <2>1
  <1> QED
    BY <1>1, <1>2, <1>3, <1>4, <1>5, <1>6, <1>7 DEF Next, HandlerStep

----------------------------------------------------------------------------
(* The theorems.                                                           *)

LEMMA InitIInv == Init => IInv
  <1> SUFFICES ASSUME Init PROVE IInv
    OBVIOUS
  <1>1. TypeOK
    BY InitType
  <1>2. GuardInv /\ GuardInForce
    BY DEF Init, GuardInv, GuardInForce, NotSent
  <1>3. RecordInv /\ RecordIsTrue
    BY DEF Init, RecordInv, RecordIsTrue
  <1>4. NumberInv /\ DistinctNumbers
    BY DEF Init, NumberInv, DistinctNumbers
  <1>5. HiddenInv
    BY DEF Init, HiddenInv
  <1>6. OnceInv
    BY DEF Init, OnceInv
  <1> QED
    BY <1>1, <1>2, <1>3, <1>4, <1>5, <1>6 DEF IInv

LEMMA StepIInv == IInv /\ [Next]_vars => IInv'
  BY TypeStep, GuardStep, RecordStep, NumberStep, HiddenStep, OnceStep DEF IInv

\* The strengthening of the safety properties is an invariant.
THEOREM TrafficInvariance == Spec => []IInv
  BY InitIInv, StepIInv, PTL DEF Spec

\* Type correctness of the capture worker's handlers.
THEOREM TrafficTypes == Spec => []TypeOK
  <1>1. IInv => TypeOK
    BY DEF IInv
  <1> QED
    BY <1>1, TrafficInvariance, PTL

\* protect_http holds the line for any number of concurrent requests and any sequence of saves.
THEOREM DataGuard == Spec => []GuardInForce
  <1>1. IInv => GuardInForce
    BY DEF IInv
  <1> QED
    BY <1>1, TrafficInvariance, PTL

\* An exchange shows what was transmitted and what the client got, unless a rule's content type is
\* no header value and the client got a fixed text.
THEOREM TrueRecord == Spec => []RecordIsTrue
  <1>1. IInv => RecordIsTrue
    BY DEF IInv
  <1> QED
    BY <1>1, TrafficInvariance, PTL

\* next_sequence hands out every number once.
THEOREM Numbering == Spec => []DistinctNumbers
  <1>1. IInv => DistinctNumbers
    BY DEF IInv
  <1> QED
    BY <1>1, TrafficInvariance, PTL

\* A forwarded exchange is not shown once its host has been hidden.
THEOREM Hiding == Spec => HiddenStaysHidden
  <1>1. IInv /\ [Next]_vars =>
          [\A r \in Requests :
             Len(events') > Len(events) /\ events'[Len(events')].id = r
                /\ events'[Len(events')].kind \in {"answered", "failed"}
             => ~Hides(settings, r)]_vars
    BY HiddenAction DEF IInv
  <1> QED
    BY <1>1, TrafficInvariance, PTL DEF Spec, HiddenStaysHidden

\* A request is recorded once, or there is a reason why it is not: the certificate page, an error
\* reported in its stead, or a host that is hidden (handle_request, handle_response, handle_error).
THEOREM Recording == Spec => RecordedOnce
  <1>1. IInv => \A r \in Requests : Cardinality(Exchanges(r)) <= 1
    BY OneExchange DEF IInv
  <1>2. IInv /\ [Next]_vars =>
          [\A r \in Requests :
             pc[r] # "done" /\ pc'[r] = "done" /\ Exchanges(r)' = {} =>
                \/ reply'[r] = "ca page"
                \/ \E i \in 1..Len(events') : events'[i].id = r /\ events'[i].kind = "error"
                \/ Hides(IF pc[r] = "record" THEN settings ELSE snap[r], r)]_vars
    BY EndAccounted DEF IInv
  <1> QED
    BY <1>1, <1>2, TrafficInvariance, PTL DEF Spec, RecordedOnce

----------------------------------------------------------------------------
(* What a save that waits for the lock waits for.  That the lock is given  *)
(* up at last takes fairness and is left to TLC (SaveCompletes); that no   *)
(* holder of it waits for it in turn, and that their number only falls,    *)
(* needs none.                                                             *)

\* Whoever holds the read lock has its number or its send before it, neither of which takes the lock.
HoldersRun == \A r \in readers : pc[r] \in {"number", "publish"}

\* While a save waits, no handler joins the holders, every holder only moves towards its send, which
\* releases the lock, and the save ends by being applied, once there is no holder.
LockDrains ==
    wanted # {} =>
        /\ readers' \subseteq readers
        /\ \A r \in readers :
              \/ pc'[r] = pc[r] /\ r \in readers'
              \/ pc[r] = "number" /\ pc'[r] = "publish" /\ r \in readers'
              \/ pc[r] = "publish" /\ r \notin readers'
        /\ \/ wanted' = wanted /\ settings' = settings
           \/ readers = {} /\ wanted' = {} /\ settings' \in wanted

LEMMA HoldersStep == TypeOK /\ HoldersRun /\ [Next]_vars => HoldersRun' /\ LockDrains
  <1> SUFFICES ASSUME TypeOK, HoldersRun, [Next]_vars PROVE HoldersRun' /\ LockDrains
    OBVIOUS
  <1> USE DEF HoldersRun, LockDrains, MayRead, Goto
  <1>0. readers \subseteq Requests /\ pc \in [Requests -> Labels]
    BY DEF TypeOK
  <1>1. ASSUME NEW r \in Requests, pc[r] \notin {"number", "publish"}, NEW l, pc' = [pc EXCEPT ![r] = l],
               UNCHANGED <<readers, wanted, settings>>
        PROVE  HoldersRun' /\ LockDrains
    <2>1. \A q \in readers : pc'[q] = pc[q]
      BY <1>0, <1>1
    <2> QED
      BY <1>1, <2>1
  <1>2. ASSUME NEW r \in Requests,
               \/ ServeCaPage(r) \/ RefuseRequest(r) \/ ReadRequest(r) \/ OpenTunnel(r)
               \/ RefuseResponse(r) \/ ReadResponse(r) \/ UpstreamFails(r) \/ Cancel(r)
               \/ ReadSettings(r) \/ Forward(r) \/ Rewrite(r)
        PROVE  HoldersRun' /\ LockDrains
    <2>1. pc[r] \notin {"number", "publish"} /\ (\E l \in Labels : pc' = [pc EXCEPT ![r] = l])
          /\ UNCHANGED <<readers, wanted, settings>>
      BY <1>2 DEF ServeCaPage, RefuseRequest, ReadRequest, OpenTunnel, RefuseResponse, ReadResponse,
         UpstreamFails, Cancel, ReadSettings, Forward, Rewrite, Labels
    <2> QED
      BY <1>1, <2>1
  <1>3. ASSUME NEW r \in Requests, AutoRespond(r) \/ Block(r) PROVE HoldersRun' /\ LockDrains
    <2>1. pc[r] \notin {"number", "publish"} /\ (\E l \in Labels : pc' = [pc EXCEPT ![r] = l])
          /\ UNCHANGED <<readers, wanted, settings>>
      BY <1>3 DEF AutoRespond, Block, AnswerLocally, Labels
    <2> QED
      BY <1>1, <2>1
  <1>4. ASSUME NEW r \in Requests, Record(r) PROVE HoldersRun' /\ LockDrains
    <2>1. pc[r] = "record" /\ wanted = {} /\ wanted' = {} /\ readers' \subseteq readers \cup {r}
      BY <1>4 DEF Record
    <2>2. \A q \in readers : pc'[q] = pc[q]
      BY <1>0, <1>4, <2>1 DEF Record
    <2>3. r \in readers' => pc'[r] = "number"
      BY <1>0, <1>4, <2>1 DEF Record
    <2> QED
      BY <2>1, <2>2, <2>3
  <1>5. ASSUME NEW r \in Requests, DrawNumber(r) PROVE HoldersRun' /\ LockDrains
    <2>1. UNCHANGED <<readers, wanted, settings>> /\ pc[r] = "number" /\ pc'[r] = "publish"
      BY <1>0, <1>5 DEF DrawNumber
    <2>2. \A q \in readers : q # r => pc'[q] = pc[q]
      BY <1>0, <1>5 DEF DrawNumber
    <2> QED
      BY <2>1, <2>2
  <1>6. ASSUME NEW r \in Requests, Publish(r) PROVE HoldersRun' /\ LockDrains
    <2>1. UNCHANGED <<wanted, settings>> /\ pc[r] = "publish" /\ readers' = readers \ {r}
      BY <1>6 DEF Publish
    <2>2. \A q \in readers : q # r => pc'[q] = pc[q]
      BY <1>0, <1>6 DEF Publish
    <2> QED
      BY <2>1, <2>2
  <1>7. CASE RequestSave
    BY <1>0, <1>7 DEF RequestSave, handlers
  <1>8. CASE ApplySave
    BY <1>0, <1>8 DEF ApplySave
  <1>9. CASE UNCHANGED vars
    BY <1>0, <1>9 DEF vars, handlers
  <1> QED
    BY <1>2, <1>3, <1>4, <1>5, <1>6, <1>7, <1>8, <1>9 DEF Next, HandlerStep

\* A save waits for nothing but the sends of the exchanges whose hosts were just tested, and no handler
\* that holds the lock waits for it (update_settings against handle_response and handle_error).
THEOREM WriterIsNext == Spec => []HoldersRun /\ [][LockDrains]_vars
  <1>1. Init => HoldersRun
    BY DEF Init, HoldersRun
  <1>2. TypeOK /\ HoldersRun /\ [Next]_vars => [LockDrains]_vars
    BY HoldersStep
  <1> QED
    BY <1>1, <1>2, HoldersStep, TrafficTypes, PTL DEF Spec
=============================================================================
