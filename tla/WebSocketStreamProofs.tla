------------------------ MODULE WebSocketStreamProofs ------------------------
(***************************************************************************)
(* Proofs about WebSocketStream, for any set of connections, texts, rules, *)
(* and settings, whatever the one-shot decoders take and however long a    *)
(* text is.                                                                *)
(***************************************************************************)
EXTENDS WebSocketStream, TLAPS

----------------------------------------------------------------------------
(* The inductive invariant.                                                *)

\* The window of the sender before the piece that is being handled.
Before(ch) == IF pc[ch] # "idle" /\ msg[ch].kind = "stream" THEN msg[ch].window ELSE source[ch]

\* What a handler has made of its message.
HandlerInv(ch) ==
    /\ pc[ch] # "idle" =>
         /\ msg[ch].kind # "ended"
         /\ msg[ch].kind = "stream" => source[ch] = Append(msg[ch].window, msg[ch].text)
    /\ pc[ch] = "hidden" => ch[1] \in snap[ch].hidden
    /\ pc[ch] # "decoded" => ~zstream[ch]
    /\ pc[ch] = "decoded" =>
         /\ msg[ch].kind \in {"whole", "close"} => text[ch] = msg[ch].text
         /\ msg[ch].kind \in {"control", "binary"} => text[ch] = NoText
         /\ msg[ch].kind \notin {"stream", "binary"} => ~zstream[ch]
         /\ msg[ch].kind = "stream" /\ owner[ch[2]] # Mixed =>
              owner[ch[2]] = ch[1] /\ zstream[ch] /\ text[ch] = msg[ch].text

\* The connection a direction is in step with: the proxy's inflater has the sender's window, the
\* receiver has the window of the proxy's deflater, and that is the sender's until a piece changes.
OwnerInv(ch) ==
    owner[ch[2]] = ch[1] =>
        /\ dec[ch[2]] = source[ch]
        /\ peer[ch] = enc[ch[2]]
        /\ ~reencode[ch[2]] => enc[ch[2]] = Before(ch)
        /\ pc[ch] = "hidden" => msg[ch].kind # "stream"

\* Any other connection of such a direction has had its pieces passed on as they came.
OtherInv(ch) ==
    owner[ch[2]] \notin {ch[1], Mixed} => peer[ch] = Before(ch)

\* No piece has been decoded yet.
FreshInv ==
    \A d \in Directions :
        owner[d] = NoOwner => dec[d] = <<>> /\ enc[d] = <<>> /\ ~reencode[d]

\* While nothing has been changed or blocked, every piece is passed on as it came.
UntouchedInv ==
    \A ch \in Channels : Untouched(ch[2]) => ~reencode[ch[2]] /\ peer[ch] = Before(ch)

ChannelInv(ch) == HandlerInv(ch) /\ OwnerInv(ch) /\ OtherInv(ch)

IInv ==
    /\ TypeOK
    /\ \A ch \in Channels : ChannelInv(ch)
    /\ FreshInv
    /\ UntouchedInv
    /\ PeerReadsRow
    /\ Transparent

----------------------------------------------------------------------------
(* Facts about the constants and the operators.                            *)

LEMMA ChannelFacts ==
    /\ \A ch \in Channels : ch[1] \in Connections /\ ch[2] \in Directions
    /\ \A ch, x \in Channels : ch[1] = x[1] /\ ch[2] = x[2] => ch = x
BY DEF Channels

LEMMA SettingsFacts ==
    /\ NoSettings \in Policies
    /\ \A p \in Policies : p.mode \in Modes
BY PolicyAssumption DEF NoSettings, Settings

LEMMA FrameFacts ==
    /\ NoFrame \in Frame
    /\ NoFrame.kind = "control"
<1>1. (CHOOSE t \in Texts : TRUE) \in Texts
  BY TextAssumption
<1>2. <<>> \in Seq(Texts)
  OBVIOUS
<1> QED
  BY <1>1, <1>2 DEF NoFrame, Frame, Kinds

LEMMA BrokenFacts == Broken \notin Seq(Texts) /\ Broken \in Windows
<1>1. SUFFICES ASSUME Broken \in Seq(Texts) PROVE FALSE
  BY DEF Windows
<1>2. Broken[1] = Garbled /\ Len(Broken) = 1
  BY DEF Broken
<1>3. Broken[1] \in Texts
  BY <1>1, <1>2
<1> QED
  BY <1>2, <1>3, TextAssumption

\* Appending keeps what is there.
LEMMA AppendFacts ==
    ASSUME NEW S, NEW s \in Seq(S), NEW e \in S
    PROVE  /\ Append(s, e) \in Seq(S)
           /\ Len(Append(s, e)) = Len(s) + 1
           /\ \A i \in 1..Len(s) : Append(s, e)[i] = s[i]
           /\ Append(s, e)[Len(s) + 1] = e
           /\ Append(s, e) # s
OBVIOUS

\* A message the peer may send.
LEMMA MessageFacts ==
    ASSUME TypeOK, NEW ch \in Channels, NEW f \in Messages(ch)
    PROVE  /\ f \in Frame
           /\ f.kind \in Kinds
           /\ f.kind = "stream" => f.window = source[ch]
<1>1. PICK m \in Sent : f = [kind |-> m[1],
                             window |-> IF m[1] = "stream" THEN source[ch] ELSE <<>>,
                             text |-> m[2]]
  BY DEF Messages
<1>2. m[1] \in Kinds /\ m[2] \in Texts
  BY SentAssumption
<1>3. source[ch] \in Seq(Texts) /\ <<>> \in Seq(Texts)
  BY DEF TypeOK
<1> QED
  BY <1>1, <1>2, <1>3 DEF Frame

\* What rules and guard make of a text.
LEMMA ProtectedFacts ==
    ASSUME TypeOK, NEW ch \in Channels, text[ch] # NoText
    PROVE  /\ Protected(ch) \in Texts
           /\ Protected(ch) \in {text[ch], Replace[text[ch]], Mask[text[ch]], Mask[Replace[text[ch]]]}
           /\ ~Changed(ch) => Protected(ch) = text[ch]
           /\ text[ch] \in Texts
<1>1. text[ch] \in Texts
  BY DEF TypeOK
<1>2. Rewritten(ch) \in {text[ch], Replace[text[ch]]}
  BY DEF Rewritten
<1>3. Replace[text[ch]] \in Texts
  BY <1>1, TextAssumption
<1>4. Rewritten(ch) \in Texts
  BY <1>1, <1>2, <1>3
<1>5. Mask[Rewritten(ch)] \in Texts
  BY <1>4, TextAssumption
<1> QED
  BY <1>1, <1>2, <1>4, <1>5 DEF Protected, Changed

\* What a receiver makes of a frame.
LEMMA PeerFacts ==
    ASSUME TypeOK, NEW ch \in Channels, NEW f \in Frame
    PROVE  /\ PeerText(ch, f) \in Texts \cup {Garbled}
           /\ PeerWindow(ch, f) \in Windows
           /\ f.kind \notin {"stream", "ended"} =>
                PeerText(ch, f) = f.text /\ PeerWindow(ch, f) = peer[ch]
           /\ f.kind = "stream" /\ peer[ch] = f.window =>
                PeerText(ch, f) = f.text /\ PeerWindow(ch, f) = Append(f.window, f.text)
<1>1. f.kind \in Kinds \cup {"ended"} /\ f.window \in Seq(Texts) /\ f.text \in Texts
  BY DEF Frame
<1>2. peer[ch] \in Windows
  BY DEF TypeOK
<1>3. Append(f.window, f.text) \in Windows /\ Broken \in Windows
  BY <1>1, BrokenFacts DEF Windows
<1>4. PeerText(ch, f) \in Texts \cup {Garbled}
  BY <1>1 DEF PeerText
<1>5. CASE f.kind = "stream"
  BY <1>2, <1>3, <1>4, <1>5 DEF PeerText, PeerWindow
<1>6. CASE f.kind # "stream"
  BY <1>2, <1>3, <1>4, <1>6 DEF PeerText, PeerWindow
<1> QED
  BY <1>5, <1>6

\* A row has a row's type, and is added to its own channel.
LEMMA RowFacts ==
    ASSUME TypeOK, NEW ch \in Channels, NEW shown \in Texts \cup {NoText},
           NEW what \in {"passed", "changed", "blocked"},
           NEW got \in Texts \cup {NoText, Garbled}, AddRow(ch, shown, what, got)
    PROVE  /\ rows' \in [Channels -> Seq(Row)]
           /\ \A x \in Channels : x # ch => rows'[x] = rows[x]
           /\ Len(rows'[ch]) = Len(rows[ch]) + 1
           /\ \A i \in 1..Len(rows[ch]) : rows'[ch][i] = rows[ch][i]
           /\ rows'[ch][Len(rows'[ch])] =
                [shown |-> shown, what |-> what, sure |-> Sure(ch), got |-> got]
<1> DEFINE row == [shown |-> shown, what |-> what, sure |-> Sure(ch), got |-> got]
<1>1. row \in Row
  BY DEF Row, Sure
<1>2. rows' = [rows EXCEPT ![ch] = Append(@, row)]
  BY DEF AddRow
<1>3. rows \in [Channels -> Seq(Row)] /\ rows[ch] \in Seq(Row)
  BY DEF TypeOK
<1>4. rows'[ch] = Append(rows[ch], row) /\ \A x \in Channels : x # ch => rows'[x] = rows[x]
  BY <1>2, <1>3
<1> HIDE DEF row
<1>5. Len(rows[ch]) \in Nat
  BY <1>3
<1>6. /\ Append(rows[ch], row) \in Seq(Row)
      /\ Len(Append(rows[ch], row)) = Len(rows[ch]) + 1
      /\ \A i \in 1..Len(rows[ch]) : Append(rows[ch], row)[i] = rows[ch][i]
      /\ Append(rows[ch], row)[Len(rows[ch]) + 1] = row
  BY <1>1, <1>3, AppendFacts
<1>7. rows' \in [Channels -> Seq(Row)]
  BY <1>2, <1>3, <1>6
<1>8. rows'[ch][Len(rows'[ch])] = row
  BY <1>4, <1>6
<1> QED
  BY <1>4, <1>6, <1>7, <1>8 DEF row

\* What passing a frame on does to its own channel, and to no other.
LEMMA PassFacts ==
    ASSUME TypeOK, NEW ch \in Channels, NEW f \in Frame, PassOn(ch, f)
    PROVE  /\ peer' \in [Channels -> Windows]
           /\ read' \in [Channels -> Seq(Texts \cup {Garbled})]
           /\ \A x \in Channels : x # ch => peer'[x] = peer[x] /\ read'[x] = read[x]
           /\ peer'[ch] = PeerWindow(ch, f)
           /\ read'[ch] = Append(read[ch], PeerText(ch, f))
           /\ Len(read'[ch]) = Len(read[ch]) + 1
           /\ \A i \in 1..Len(read[ch]) : read'[ch][i] = read[ch][i]
           /\ read'[ch][Len(read'[ch])] = PeerText(ch, f)
<1>1. PeerText(ch, f) \in Texts \cup {Garbled} /\ PeerWindow(ch, f) \in Windows
  BY PeerFacts
<1>2. /\ peer' = [peer EXCEPT ![ch] = PeerWindow(ch, f)]
      /\ read' = [read EXCEPT ![ch] = Append(@, PeerText(ch, f))]
  BY DEF PassOn
<1>3. /\ peer \in [Channels -> Windows]
      /\ read \in [Channels -> Seq(Texts \cup {Garbled})]
      /\ read[ch] \in Seq(Texts \cup {Garbled})
  BY DEF TypeOK
<1>4. read'[ch] = Append(read[ch], PeerText(ch, f))
  BY <1>2, <1>3
<1>5. /\ Append(read[ch], PeerText(ch, f)) \in Seq(Texts \cup {Garbled})
      /\ Len(Append(read[ch], PeerText(ch, f))) = Len(read[ch]) + 1
      /\ \A i \in 1..Len(read[ch]) : Append(read[ch], PeerText(ch, f))[i] = read[ch][i]
      /\ Append(read[ch], PeerText(ch, f))[Len(read[ch]) + 1] = PeerText(ch, f)
  BY <1>1, <1>3, AppendFacts
<1>6. read' \in [Channels -> Seq(Texts \cup {Garbled})]
  BY <1>2, <1>3, <1>5
<1>7. peer' \in [Channels -> Windows] /\ peer'[ch] = PeerWindow(ch, f)
  BY <1>1, <1>2, <1>3
<1>8. \A x \in Channels : x # ch => peer'[x] = peer[x] /\ read'[x] = read[x]
  BY <1>2, <1>3
<1>9. read'[ch][Len(read'[ch])] = PeerText(ch, f)
  BY <1>4, <1>5
<1> QED
  BY <1>4, <1>5, <1>6, <1>7, <1>8, <1>9

LEMMA FinishFacts ==
    ASSUME TypeOK, NEW ch \in Channels, Finish(ch)
    PROVE  /\ pc' \in [Channels -> {"idle", "hidden", "decoded"}]
           /\ msg' \in [Channels -> Frame]
           /\ snap' \in [Channels -> Policies]
           /\ text' \in [Channels -> Texts \cup {NoText}]
           /\ zstream' \in [Channels -> BOOLEAN]
           /\ pc'[ch] = "idle" /\ msg'[ch] = NoFrame
           /\ \A x \in Channels : x # ch =>
                /\ pc'[x] = pc[x] /\ msg'[x] = msg[x] /\ snap'[x] = snap[x]
                /\ text'[x] = text[x] /\ zstream'[x] = zstream[x]
BY FrameFacts, SettingsFacts DEF Finish, TypeOK

----------------------------------------------------------------------------
(* Types.                                                                  *)

LEMMA InitType == Init => TypeOK
<1> SUFFICES ASSUME Init PROVE TypeOK
  OBVIOUS
<1>1. <<>> \in Seq(Texts) /\ <<>> \in Windows /\ <<>> \in Seq(Row)
      /\ <<>> \in Seq(Texts \cup {Garbled})
  BY DEF Windows
<1>2. saves \in 0..MaxSaves /\ messages \in 0..MaxMessages
  BY BoundAssumption DEF Init
<1> QED
  BY <1>1, <1>2, FrameFacts, SettingsFacts DEF Init, TypeOK

\* The ways decode_message ends.
LEMMA DecodeType ==
    ASSUME TypeOK, NEW ch \in Channels, NEW f \in Frame, DecodeMessage(ch, f)
    PROVE  /\ dec' \in [Directions -> Windows]
           /\ text' \in [Channels -> Texts \cup {NoText}]
           /\ zstream' \in [Channels -> BOOLEAN]
           /\ owner' \in [Directions -> Connections \cup {NoOwner, Mixed}]
           /\ \A x \in Channels : x # ch => text'[x] = text[x] /\ zstream'[x] = zstream[x]
<1> USE ChannelFacts DEF TypeOK, Follow
<1>1. f.text \in Texts /\ f.window \in Seq(Texts)
  BY DEF Frame
<1>2. CASE DecodeWhole(ch, f) /\ UNCHANGED zstream
  BY <1>1, <1>2 DEF DecodeWhole
<1>3. CASE DecodeOneShot(ch, f) /\ UNCHANGED zstream
  BY <1>1, <1>3 DEF DecodeOneShot
<1>4. CASE DecodePiece(ch, f) /\ zstream' = [zstream EXCEPT ![ch] = TRUE]
  <2>1. Readable(Inflated(f.text)) \in Texts \cup {NoText}
    BY <1>1, TextAssumption DEF Readable, Inflated
  <2>2. dec[ch[2]] \in Seq(Texts)
    BY <1>1, <1>4 DEF DecodePiece
  <2>3. Append(dec[ch[2]], f.text) \in Windows /\ Broken \in Windows
    BY <1>1, <2>2, BrokenFacts DEF Windows
  <2>4. dec' \in [Directions -> Windows]
    BY <1>4, <2>3 DEF DecodePiece
  <2> QED
    BY <1>4, <2>1, <2>4 DEF DecodePiece
<1>5. CASE DecodeForeign(ch, f) /\ zstream' = [zstream EXCEPT ![ch] = TRUE]
  BY <1>5, BrokenFacts DEF DecodeForeign
<1> QED
  BY <1>2, <1>3, <1>4, <1>5 DEF DecodeMessage

\* What encode_message returns.
Forwarded(ch) ==
    IF reencode'[ch[2]]
    THEN [kind |-> "stream", window |-> enc[ch[2]], text |-> Protected(ch)]
    ELSE msg[ch]
Returned(ch) ==
    IF ~Changed(ch) THEN msg[ch]
    ELSE [kind |-> IF msg[ch].kind = "stream" THEN "ended" ELSE "whole",
          window |-> <<>>, text |-> Protected(ch)]

LEMMA ForwardFacts ==
    ASSUME TypeOK, NEW ch \in Channels, text[ch] # NoText
    PROVE  Forwarded(ch) \in Frame /\ Returned(ch) \in Frame
<1>1. Protected(ch) \in Texts
  BY ProtectedFacts
<1>2. msg[ch] \in Frame /\ enc[ch[2]] \in Seq(Texts) /\ <<>> \in Seq(Texts)
  BY ChannelFacts DEF TypeOK
<1> QED
  BY <1>1, <1>2 DEF Forwarded, Returned, Frame, Kinds

LEMMA ForwardPieceSteps ==
    ASSUME TypeOK, NEW ch \in Channels, ForwardPiece(ch)
    PROVE  /\ PassOn(ch, Forwarded(ch))
           /\ AddRow(ch, Protected(ch), What(ch), PeerText(ch, Forwarded(ch)))
           /\ Forwarded(ch) \in Frame
           /\ PeerText(ch, Forwarded(ch)) \in Texts \cup {NoText, Garbled}
           /\ Protected(ch) \in Texts \cup {NoText}
           /\ What(ch) \in {"passed", "changed", "blocked"}
<1>1. text[ch] # NoText
  BY DEF ForwardPiece
<1>2. Forwarded(ch) \in Frame /\ Protected(ch) \in Texts
  BY <1>1, ForwardFacts, ProtectedFacts
<1>3. PeerText(ch, Forwarded(ch)) \in Texts \cup {Garbled}
  BY <1>2, PeerFacts
<1> QED
  BY <1>2, <1>3 DEF ForwardPiece, Forwarded, What

LEMMA ForwardWholeSteps ==
    ASSUME TypeOK, NEW ch \in Channels, ForwardWhole(ch)
    PROVE  /\ PassOn(ch, Returned(ch))
           /\ AddRow(ch, Protected(ch), What(ch), PeerText(ch, Returned(ch)))
           /\ Returned(ch) \in Frame
           /\ PeerText(ch, Returned(ch)) \in Texts \cup {NoText, Garbled}
           /\ Protected(ch) \in Texts \cup {NoText}
           /\ What(ch) \in {"passed", "changed", "blocked"}
<1>1. text[ch] # NoText
  BY DEF ForwardWhole
<1>2. Returned(ch) \in Frame /\ Protected(ch) \in Texts
  BY <1>1, ForwardFacts, ProtectedFacts
<1>3. PeerText(ch, Returned(ch)) \in Texts \cup {Garbled}
  BY <1>2, PeerFacts
<1> QED
  BY <1>2, <1>3 DEF ForwardWhole, Returned, What

\* Every action keeps the types.
LEMMA TypeStep == TypeOK /\ [Next]_vars => TypeOK'
<1> SUFFICES ASSUME TypeOK, [Next]_vars PROVE TypeOK'
  OBVIOUS
<1>1. ASSUME NEW ch \in Channels, Receive(ch) PROVE TypeOK'
  <2>1. PICK f \in Messages(ch) :
          /\ msg' = [msg EXCEPT ![ch] = f]
          /\ source' = [source EXCEPT ![ch] = IF f.kind = "stream" THEN Append(@, f.text) ELSE @]
          /\ snap' = [snap EXCEPT ![ch] = settings]
          /\ \/ /\ ch[1] \in settings.hidden
                /\ pc' = [pc EXCEPT ![ch] = "hidden"]
                /\ IF f.kind = "stream" /\ owner[ch[2]] = ch[1] THEN Follow(ch[2], Mixed)
                                                                ELSE UNCHANGED owner
                /\ UNCHANGED <<dec, text, zstream>>
             \/ /\ ch[1] \notin settings.hidden
                /\ pc' = [pc EXCEPT ![ch] = "decoded"]
                /\ DecodeMessage(ch, f)
    BY <1>1 DEF Receive
  <2>2. f \in Frame
    BY MessageFacts
  <2>3. messages' \in 0..MaxMessages
    BY <1>1, BoundAssumption DEF Receive, TypeOK
  <2>4. source' \in [Channels -> Seq(Texts)]
    BY <2>1, <2>2 DEF Frame, TypeOK
  <2>5. msg' \in [Channels -> Frame] /\ snap' \in [Channels -> Policies]
        /\ pc' \in [Channels -> {"idle", "hidden", "decoded"}]
    BY <2>1, <2>2 DEF TypeOK
  <2>6. /\ dec' \in [Directions -> Windows]
        /\ text' \in [Channels -> Texts \cup {NoText}]
        /\ zstream' \in [Channels -> BOOLEAN]
        /\ owner' \in [Directions -> Connections \cup {NoOwner, Mixed}]
    <3>1. CASE DecodeMessage(ch, f)
      BY <2>2, <3>1, DecodeType
    <3>2. CASE ~DecodeMessage(ch, f)
      BY <2>1, <3>2, ChannelFacts DEF Follow, TypeOK
    <3> QED
      BY <3>1, <3>2
  <2> QED
    BY <1>1, <2>3, <2>4, <2>5, <2>6 DEF Receive, TypeOK
<1>2. ASSUME NEW ch \in Channels, PassHidden(ch) PROVE TypeOK'
  <2>1. msg[ch] \in Frame
    BY DEF TypeOK
  <2>2. /\ peer' \in [Channels -> Windows]
        /\ read' \in [Channels -> Seq(Texts \cup {Garbled})]
    BY <1>2, <2>1, PassFacts DEF PassHidden
  <2> QED
    BY <1>2, <2>2, FinishFacts DEF PassHidden, TypeOK, streams
<1>3. ASSUME NEW ch \in Channels, PassUnread(ch) PROVE TypeOK'
  <2>1. msg[ch] \in Frame
    BY DEF TypeOK
  <2>2. /\ peer' \in [Channels -> Windows]
        /\ read' \in [Channels -> Seq(Texts \cup {Garbled})]
    BY <1>3, <2>1, PassFacts DEF PassUnread
  <2>3. PeerText(ch, msg[ch]) \in Texts \cup {NoText, Garbled}
    BY <2>1, PeerFacts
  <2>4. rows' \in [Channels -> Seq(Row)]
    BY <1>3, <2>3, RowFacts DEF PassUnread
  <2> QED
    BY <1>3, <2>2, <2>4, FinishFacts DEF PassUnread, TypeOK, streams
<1>4. ASSUME NEW ch \in Channels, Block(ch) PROVE TypeOK'
  <2>1. rows' \in [Channels -> Seq(Row)]
    BY <1>4, ProtectedFacts, RowFacts DEF Block
  <2>2. owner' \in [Directions -> Connections \cup {NoOwner, Mixed}]
    BY <1>4, ChannelFacts DEF Block, Follow, TypeOK
  <2> QED
    BY <1>4, <2>1, <2>2, FinishFacts DEF Block, TypeOK, streams
<1>5. ASSUME NEW ch \in Channels, ForwardPiece(ch) PROVE TypeOK'
  <2>1. /\ peer' \in [Channels -> Windows]
        /\ read' \in [Channels -> Seq(Texts \cup {Garbled})]
        /\ rows' \in [Channels -> Seq(Row)]
    BY <1>5, ForwardPieceSteps, PassFacts, RowFacts
  <2>2. /\ enc' \in [Directions -> Seq(Texts)]
        /\ reencode' \in [Directions -> BOOLEAN]
    <3>1. Protected(ch) \in Texts /\ Changed(ch) \in BOOLEAN
      BY <1>5, ProtectedFacts DEF ForwardPiece, Changed
    <3>2. enc[ch[2]] \in Seq(Texts) /\ reencode[ch[2]] \in BOOLEAN
      BY ChannelFacts DEF TypeOK
    <3>3. Append(enc[ch[2]], Protected(ch)) \in Seq(Texts)
      BY <3>1, <3>2
    <3>4. /\ reencode' = [reencode EXCEPT ![ch[2]] = @ \/ Changed(ch)]
          /\ enc' = [enc EXCEPT ![ch[2]] = Append(@, Protected(ch))]
      BY <1>5 DEF ForwardPiece, Encode
    <3>5. enc' \in [Directions -> Seq(Texts)]
      BY <3>3, <3>4 DEF TypeOK
    <3>6. reencode' \in [Directions -> BOOLEAN]
      BY <3>1, <3>4 DEF TypeOK
    <3> QED
      BY <3>5, <3>6
  <2> QED
    BY <1>5, <2>1, <2>2, FinishFacts DEF ForwardPiece, TypeOK
<1>6. ASSUME NEW ch \in Channels, ForwardWhole(ch) PROVE TypeOK'
  <2>1. /\ peer' \in [Channels -> Windows]
        /\ read' \in [Channels -> Seq(Texts \cup {Garbled})]
        /\ rows' \in [Channels -> Seq(Row)]
    BY <1>6, ForwardWholeSteps, PassFacts, RowFacts
  <2> QED
    BY <1>6, <2>1, FinishFacts DEF ForwardWhole, TypeOK, streams
<1>7. CASE Save
  BY <1>7, BoundAssumption DEF Save, TypeOK, streams
<1>8. CASE UNCHANGED vars
  BY <1>8 DEF vars, streams, TypeOK
<1> QED
  BY <1>1, <1>2, <1>3, <1>4, <1>5, <1>6, <1>7, <1>8 DEF Next, Handle

----------------------------------------------------------------------------
(* The invariant: a message is received.                                   *)

LEMMA InitInv == Init => IInv
<1> SUFFICES ASSUME Init PROVE IInv
  OBVIOUS
<1>1. TypeOK
  BY InitType
<1>2. \A ch \in Channels : ChannelInv(ch)
  BY ChannelFacts, OwnerAssumption
  DEF Init, ChannelInv, HandlerInv, OwnerInv, OtherInv, Before
<1>3. FreshInv
  BY DEF Init, FreshInv
<1>4. UntouchedInv
  BY ChannelFacts DEF Init, UntouchedInv, Before
<1>5. PeerReadsRow /\ Transparent
  BY DEF Init, PeerReadsRow, Transparent
<1> QED
  BY <1>1, <1>2, <1>3, <1>4, <1>5 DEF IInv

\* decode_message leaves a direction in step only if ZlibStream has read the piece, and only with
\* the connection it was in step with.
LEMMA DecodeFacts ==
    ASSUME TypeOK, NEW ch \in Channels, NEW f \in Frame, DecodeMessage(ch, f)
    PROVE  /\ \A d \in Directions : d # ch[2] => owner'[d] = owner[d] /\ dec'[d] = dec[d]
           /\ \/ owner'[ch[2]] = Mixed
              \/ owner'[ch[2]] = owner[ch[2]] /\ dec'[ch[2]] = dec[ch[2]] /\ f.kind # "stream"
              \/ /\ owner[ch[2]] \in {NoOwner, ch[1]} /\ owner'[ch[2]] = ch[1]
                 /\ f.kind = "stream" /\ dec[ch[2]] = f.window
                 /\ dec'[ch[2]] = Append(f.window, f.text)
                 /\ text'[ch] = f.text /\ zstream'[ch]
           /\ owner[ch[2]] = Mixed => owner'[ch[2]] = Mixed
           /\ f.kind \in {"whole", "close"} => text'[ch] = f.text
           /\ f.kind \in {"control", "binary"} => text'[ch] = NoText
           /\ f.kind \notin {"stream", "binary"} => zstream'[ch] = zstream[ch]
<1> USE ChannelFacts, OwnerAssumption DEF TypeOK, Follow
<1>1. CASE DecodeWhole(ch, f) /\ UNCHANGED zstream
  BY <1>1 DEF DecodeWhole
<1>2. CASE DecodeOneShot(ch, f) /\ UNCHANGED zstream
  <2>1. owner'[ch[2]] = Mixed /\ f.kind = "stream"
    BY <1>2 DEF DecodeOneShot
  <2>2. \A d \in Directions : d # ch[2] => owner'[d] = owner[d] /\ dec'[d] = dec[d]
    BY <1>2 DEF DecodeOneShot
  <2> QED
    BY <2>1, <2>2
<1>3. CASE DecodePiece(ch, f) /\ zstream' = [zstream EXCEPT ![ch] = TRUE]
  <2>1. /\ f.kind = "stream" /\ dec[ch[2]] = f.window /\ zstream'[ch]
        /\ \A d \in Directions : d # ch[2] => owner'[d] = owner[d] /\ dec'[d] = dec[d]
        /\ text'[ch] = Readable(Inflated(f.text))
    BY <1>3 DEF DecodePiece
  <2>2. CASE f.text \in Large \cup NotUtf8 \/ owner[ch[2]] \notin {NoOwner, ch[1]}
    <3>1. owner'[ch[2]] = Mixed
      BY <1>3, <2>2 DEF DecodePiece
    <3> QED
      BY <2>1, <3>1
  <2>3. CASE ~(f.text \in Large \cup NotUtf8 \/ owner[ch[2]] \notin {NoOwner, ch[1]})
    <3>1. text'[ch] = f.text
      BY <2>1, <2>3 DEF Readable, Inflated
    <3>2. owner'[ch[2]] = ch[1] /\ dec'[ch[2]] = Append(f.window, f.text)
      BY <1>3, <2>1, <2>3 DEF DecodePiece
    <3> QED
      BY <2>1, <2>3, <3>1, <3>2
  <2> QED
    BY <2>2, <2>3
<1>4. CASE DecodeForeign(ch, f) /\ zstream' = [zstream EXCEPT ![ch] = TRUE]
  <2>1. owner'[ch[2]] = Mixed /\ f.kind \in {"stream", "binary"}
    BY <1>4 DEF DecodeForeign
  <2>2. \A d \in Directions : d # ch[2] => owner'[d] = owner[d] /\ dec'[d] = dec[d]
    BY <1>4 DEF DecodeForeign
  <2>3. f.kind = "binary" => text'[ch] = NoText
    BY <1>4 DEF DecodeForeign
  <2> QED
    BY <2>1, <2>2, <2>3
<1> QED
  BY <1>1, <1>2, <1>3, <1>4 DEF DecodeMessage

LEMMA ReceiveInv ==
    ASSUME IInv, NEW ch \in Channels, Receive(ch)
    PROVE  (\A x \in Channels : ChannelInv(x)') /\ FreshInv' /\ UntouchedInv'
<1>0. TypeOK
  BY DEF IInv
<1>1. PICK f \in Messages(ch) :
        /\ msg' = [msg EXCEPT ![ch] = f]
        /\ source' = [source EXCEPT ![ch] = IF f.kind = "stream" THEN Append(@, f.text) ELSE @]
        /\ snap' = [snap EXCEPT ![ch] = settings]
        /\ \/ /\ ch[1] \in settings.hidden
              /\ pc' = [pc EXCEPT ![ch] = "hidden"]
              /\ IF f.kind = "stream" /\ owner[ch[2]] = ch[1] THEN Follow(ch[2], Mixed)
                                                              ELSE UNCHANGED owner
              /\ UNCHANGED <<dec, text, zstream>>
           \/ /\ ch[1] \notin settings.hidden
              /\ pc' = [pc EXCEPT ![ch] = "decoded"]
              /\ DecodeMessage(ch, f)
  BY DEF Receive
<1>2. f \in Frame /\ f.kind \in Kinds /\ (f.kind = "stream" => f.window = source[ch])
  BY <1>0, MessageFacts
<1>3. /\ pc[ch] = "idle" /\ ~zstream[ch]
      /\ UNCHANGED <<peer, enc, reencode, rows>>
  BY DEF Receive, IInv, ChannelInv, HandlerInv
<1>4. /\ msg'[ch] = f /\ snap'[ch] = settings
      /\ f.kind = "stream" => source'[ch] = Append(f.window, f.text)
      /\ f.kind # "stream" => source'[ch] = source[ch]
      /\ \/ pc'[ch] = "hidden" /\ ch[1] \in settings.hidden
         \/ pc'[ch] = "decoded" /\ DecodeMessage(ch, f)
  BY <1>0, <1>1, <1>2 DEF TypeOK
<1>5. \A x \in Channels : x # ch =>
        /\ msg'[x] = msg[x] /\ source'[x] = source[x] /\ snap'[x] = snap[x] /\ pc'[x] = pc[x]
        /\ text'[x] = text[x] /\ zstream'[x] = zstream[x] /\ Before(x)' = Before(x)
  <2>1. \A x \in Channels : x # ch => text'[x] = text[x] /\ zstream'[x] = zstream[x]
    BY <1>0, <1>1, <1>2, DecodeType
  <2> QED
    BY <1>0, <1>1, <2>1 DEF TypeOK, Before
<1>6. /\ \A d \in Directions : d # ch[2] => owner'[d] = owner[d] /\ dec'[d] = dec[d]
      /\ \/ owner'[ch[2]] = Mixed
         \/ owner'[ch[2]] = owner[ch[2]] /\ dec'[ch[2]] = dec[ch[2]]
              /\ ~(f.kind = "stream" /\ (owner[ch[2]] = ch[1] \/ pc'[ch] = "decoded"))
         \/ /\ owner[ch[2]] \in {NoOwner, ch[1]} /\ owner'[ch[2]] = ch[1] /\ f.kind = "stream"
            /\ dec[ch[2]] = f.window /\ dec'[ch[2]] = Append(f.window, f.text)
            /\ text'[ch] = f.text /\ zstream'[ch] /\ pc'[ch] = "decoded"
      /\ owner[ch[2]] = Mixed => owner'[ch[2]] = Mixed
  <2>1. CASE pc'[ch] = "decoded" /\ DecodeMessage(ch, f)
    BY <1>0, <1>2, <2>1, DecodeFacts
  <2>2. CASE ~(pc'[ch] = "decoded" /\ DecodeMessage(ch, f))
    BY <1>0, <1>1, <1>4, <2>2, ChannelFacts, OwnerAssumption DEF Follow, TypeOK
  <2> QED
    BY <2>1, <2>2
<1>7. Before(ch)' = Before(ch)
  BY <1>2, <1>3, <1>4 DEF Before
<1>8. \A x \in Channels : HandlerInv(x)'
  <2>1. HandlerInv(ch)'
    <3>1. CASE pc'[ch] = "hidden" /\ ch[1] \in settings.hidden /\ UNCHANGED <<text, zstream>>
      BY <1>2, <1>3, <1>4, <3>1 DEF HandlerInv, Kinds
    <3>2. CASE pc'[ch] = "decoded" /\ DecodeMessage(ch, f)
      BY <1>0, <1>2, <1>3, <1>4, <1>6, <3>2, DecodeFacts, ChannelFacts, OwnerAssumption
      DEF HandlerInv, Kinds
    <3> QED
      BY <1>0, <1>1, <1>4, <3>1, <3>2 DEF TypeOK
  <2>2. ASSUME NEW x \in Channels, x # ch PROVE HandlerInv(x)'
    <3>1. HandlerInv(x)
      BY DEF IInv, ChannelInv
    <3>2. owner'[x[2]] # Mixed /\ owner[x[2]] = x[1] => owner'[x[2]] = owner[x[2]]
      BY <1>6, <2>2, ChannelFacts, OwnerAssumption
    <3>3. owner'[x[2]] # Mixed => owner[x[2]] # Mixed
      BY <1>6, ChannelFacts
    <3> QED
      BY <1>5, <2>2, <3>1, <3>2, <3>3 DEF HandlerInv
  <2> QED
    BY <2>1, <2>2
<1>9. \A x \in Channels : OwnerInv(x)'
  <2>1. OwnerInv(ch)'
    <3>0. SUFFICES ASSUME owner'[ch[2]] = ch[1] PROVE OwnerInv(ch)'
      BY DEF OwnerInv
    <3>1. OwnerInv(ch) /\ OtherInv(ch) /\ FreshInv
      BY DEF IInv, ChannelInv
    <3>2. ch[1] # Mixed /\ ch[1] # NoOwner /\ ch[2] \in Directions
      BY ChannelFacts, OwnerAssumption
    <3>3. CASE owner[ch[2]] = ch[1] /\ dec'[ch[2]] = dec[ch[2]] /\ f.kind # "stream"
      BY <1>3, <1>4, <1>7, <3>1, <3>3 DEF OwnerInv
    <3>4. CASE /\ owner[ch[2]] \in {NoOwner, ch[1]} /\ f.kind = "stream"
               /\ dec[ch[2]] = f.window /\ dec'[ch[2]] = Append(f.window, f.text)
               /\ pc'[ch] = "decoded"
      <4>1. dec'[ch[2]] = source'[ch]
        BY <1>4, <3>4
      <4>2. CASE owner[ch[2]] = ch[1]
        BY <1>3, <1>7, <3>1, <3>4, <4>1, <4>2 DEF OwnerInv
      <4>3. CASE owner[ch[2]] = NoOwner
        <5>1. dec[ch[2]] = <<>> /\ enc[ch[2]] = <<>> /\ ~reencode[ch[2]]
          BY <3>1, <3>2, <4>3 DEF FreshInv
        <5>2. peer[ch] = Before(ch)
          BY <3>1, <3>2, <4>3, OwnerAssumption DEF OtherInv
        <5>3. Before(ch) = <<>>
          BY <1>2, <1>3, <3>4, <5>1 DEF Before
        <5> QED
          BY <1>3, <1>7, <3>4, <4>1, <5>1, <5>2, <5>3 DEF OwnerInv
      <4> QED
        BY <3>4, <4>2, <4>3
    <3> QED
      BY <1>6, <3>0, <3>2, <3>3, <3>4
  <2>2. ASSUME NEW x \in Channels, x # ch PROVE OwnerInv(x)'
    <3>1. OwnerInv(x)
      BY DEF IInv, ChannelInv
    <3>2. owner'[x[2]] = x[1] => owner[x[2]] = x[1] /\ dec'[x[2]] = dec[x[2]]
      BY <1>6, <2>2, ChannelFacts, OwnerAssumption
    <3> QED
      BY <1>3, <1>5, <2>2, <3>1, <3>2 DEF OwnerInv
  <2> QED
    BY <2>1, <2>2
<1>10. \A x \in Channels : OtherInv(x)'
  <2>1. ASSUME NEW x \in Channels PROVE OtherInv(x)'
    <3>1. OtherInv(x) /\ Before(x)' = Before(x)
      BY <1>5, <1>7 DEF IInv, ChannelInv
    <3>2. owner'[x[2]] \notin {x[1], Mixed} => owner[x[2]] \notin {x[1], Mixed}
      BY <1>6, ChannelFacts, OwnerAssumption
    <3> QED
      BY <1>3, <3>1, <3>2 DEF OtherInv
  <2> QED
    BY <2>1
<1>11. FreshInv'
  <2>1. \A d \in Directions :
          owner'[d] = NoOwner => owner[d] = NoOwner /\ dec'[d] = dec[d]
    BY <1>6, ChannelFacts, OwnerAssumption
  <2> QED
    BY <1>3, <2>1 DEF IInv, FreshInv
<1>12. UntouchedInv'
  <2>1. \A x \in Channels : Before(x)' = Before(x)
    BY <1>5, <1>7
  <2> QED
    BY <1>3, <2>1 DEF IInv, UntouchedInv, Untouched
<1> QED
  BY <1>8, <1>9, <1>10, <1>11, <1>12 DEF ChannelInv

----------------------------------------------------------------------------
(* The invariant: a handler returns.                                       *)

\* A frame passed on as it came, to a receiver that has the sender's window.
LEMMA PassAsItCame ==
    ASSUME IInv, NEW ch \in Channels, pc[ch] # "idle", peer[ch] = Before(ch)
    PROVE  /\ PeerText(ch, msg[ch]) = msg[ch].text
           /\ PeerWindow(ch, msg[ch]) = source[ch]
<1>1. TypeOK /\ HandlerInv(ch)
  BY DEF IInv, ChannelInv
<1>2. msg[ch] \in Frame
  BY <1>1 DEF TypeOK
<1>3. CASE msg[ch].kind = "stream"
  BY <1>1, <1>2, <1>3, PeerFacts DEF HandlerInv, Before
<1>4. CASE msg[ch].kind # "stream"
  BY <1>1, <1>2, <1>4, PeerFacts DEF HandlerInv, Before
<1> QED
  BY <1>3, <1>4

\* What a return must do to keep the channels' invariants: the receiver of ch stays with the
\* deflater, or with the sender, as before; the other channels are left alone.
LEMMA ReturnInv ==
    ASSUME IInv, NEW ch \in Channels, Finish(ch),
           source' = source, dec' = dec,
           \A d \in Directions : owner'[d] = owner[d] \/ owner'[d] = Mixed,
           \A x \in Channels : x # ch => peer'[x] = peer[x],
           \A d \in Directions :
               d # ch[2] \/ owner'[d] \notin {ch[1], Mixed} =>
                  enc'[d] = enc[d] /\ reencode'[d] = reencode[d],
           owner'[ch[2]] = ch[1] =>
               peer'[ch] = enc'[ch[2]] /\ (~reencode'[ch[2]] => enc'[ch[2]] = source[ch]),
           owner'[ch[2]] \notin {ch[1], Mixed} => peer'[ch] = source[ch]
    PROVE  (\A x \in Channels : ChannelInv(x)') /\ FreshInv'
<1>0. TypeOK
  BY DEF IInv
<1>1. /\ pc'[ch] = "idle" /\ ~zstream'[ch]
      /\ \A x \in Channels : x # ch =>
           /\ pc'[x] = pc[x] /\ msg'[x] = msg[x] /\ snap'[x] = snap[x]
           /\ text'[x] = text[x] /\ zstream'[x] = zstream[x]
  BY <1>0, FinishFacts DEF Finish, TypeOK
<1>2. \A x \in Channels : x # ch => Before(x)' = Before(x)
  BY <1>1 DEF Before
<1>3. Before(ch)' = source[ch]
  BY <1>1 DEF Before
<1>4. \A x \in Channels : HandlerInv(x)'
  <2>1. HandlerInv(ch)'
    BY <1>1 DEF HandlerInv
  <2>2. ASSUME NEW x \in Channels, x # ch PROVE HandlerInv(x)'
    <3>1. HandlerInv(x) /\ (owner'[x[2]] = owner[x[2]] \/ owner'[x[2]] = Mixed)
      BY ChannelFacts DEF IInv, ChannelInv
    <3> QED
      BY <1>1, <2>2, <3>1 DEF HandlerInv
  <2> QED
    BY <2>1, <2>2
<1>5. \A x \in Channels : OwnerInv(x)'
  <2>1. ASSUME NEW x \in Channels, owner'[x[2]] = x[1] PROVE OwnerInv(x)'
    <3>1. owner[x[2]] = x[1] /\ x[1] # Mixed
      BY <2>1, ChannelFacts, OwnerAssumption
    <3>2. OwnerInv(x)
      BY DEF IInv, ChannelInv
    <3>3. CASE x = ch
      BY <1>1, <1>3, <3>1, <3>2, <3>3 DEF OwnerInv
    <3>4. CASE x # ch
      <4>1. x[2] # ch[2] \/ owner'[x[2]] \notin {ch[1], Mixed}
        BY <2>1, <3>1, <3>4, ChannelFacts
      <4>2. enc'[x[2]] = enc[x[2]] /\ reencode'[x[2]] = reencode[x[2]]
        BY <4>1, ChannelFacts
      <4> QED
        BY <1>1, <1>2, <3>1, <3>2, <3>4, <4>2 DEF OwnerInv
    <3> QED
      BY <3>3, <3>4
  <2> QED
    BY <2>1 DEF OwnerInv
<1>6. \A x \in Channels : OtherInv(x)'
  <2>1. ASSUME NEW x \in Channels PROVE OtherInv(x)'
    <3>1. OtherInv(x) /\ (owner'[x[2]] = owner[x[2]] \/ owner'[x[2]] = Mixed)
      BY ChannelFacts DEF IInv, ChannelInv
    <3>2. CASE x = ch
      BY <1>3, <3>2 DEF OtherInv
    <3>3. CASE x # ch
      BY <1>2, <3>1, <3>3 DEF OtherInv
    <3> QED
      BY <3>2, <3>3
  <2> QED
    BY <2>1
<1>7. FreshInv'
  <2>1. ASSUME NEW d \in Directions, owner'[d] = NoOwner
        PROVE  dec'[d] = <<>> /\ enc'[d] = <<>> /\ ~reencode'[d]
    <3>1. owner[d] = NoOwner /\ owner'[d] \notin {ch[1], Mixed}
      BY <2>1, ChannelFacts, OwnerAssumption
    <3> QED
      BY <3>1 DEF IInv, FreshInv
  <2> QED
    BY <2>1 DEF FreshInv
<1> QED
  BY <1>4, <1>5, <1>6, <1>7 DEF ChannelInv

\* What a return must do to the table and to the receiver.
LEMMA ReturnRows ==
    ASSUME IInv, NEW ch \in Channels, Finish(ch), source' = source,
           NEW shown, NEW what, NEW sure, NEW got, rows' # rows \/ what = "passed",
           \A x \in Channels : x # ch =>
               peer'[x] = peer[x] /\ read'[x] = read[x] /\ rows'[x] = rows[x],
           \/ rows' = rows
           \/ /\ Len(rows'[ch]) = Len(rows[ch]) + 1
              /\ \A i \in 1..Len(rows[ch]) : rows'[ch][i] = rows[ch][i]
              /\ rows'[ch][Len(rows'[ch])] =
                   [shown |-> shown, what |-> what, sure |-> sure, got |-> got]
              /\ sure /\ what # "blocked" => got # Garbled /\ shown \in {got, NoText},
           \A d \in Directions : d # ch[2] => reencode'[d] = reencode[d],
           Untouched(ch[2]) /\ what = "passed" => ~reencode'[ch[2]] /\ peer'[ch] = source[ch],
           \/ read' = read
           \/ /\ Len(read'[ch]) = Len(read[ch]) + 1
              /\ \A i \in 1..Len(read[ch]) : read'[ch][i] = read[ch][i]
              /\ Untouched(ch[2]) /\ what = "passed" => read'[ch][Len(read'[ch])] # Garbled
    PROVE  UntouchedInv' /\ PeerReadsRow' /\ Transparent'
<1>0. TypeOK
  BY DEF IInv
<1>1. /\ \A x \in Channels : Len(rows[x]) \in Nat /\ Len(read[x]) \in Nat
      /\ \A x \in Channels : Len(rows[x]) <= Len(rows'[x])
      /\ \A x \in Channels : \A i \in 1..Len(rows[x]) : rows'[x][i] = rows[x][i]
  <2>1. ASSUME NEW x \in Channels PROVE Len(rows[x]) \in Nat /\ Len(read[x]) \in Nat
    <3>1. rows[x] \in Seq(Row) /\ read[x] \in Seq(Texts \cup {Garbled})
      BY <1>0 DEF TypeOK
    <3> QED
      BY <3>1
  <2>2. ASSUME NEW x \in Channels
        PROVE  /\ Len(rows[x]) <= Len(rows'[x])
               /\ \A i \in 1..Len(rows[x]) : rows'[x][i] = rows[x][i]
    <3>1. CASE rows'[x] = rows[x]
      BY <2>1, <3>1
    <3>2. CASE rows'[x] # rows[x]
      <4>1. x = ch /\ rows' # rows
        BY <3>2
      <4>2. Len(rows'[ch]) = Len(rows[ch]) + 1
        BY <4>1
      <4>3. \A i \in 1..Len(rows[ch]) : rows'[ch][i] = rows[ch][i]
        BY <4>1
      <4> QED
        BY <2>1, <4>1, <4>2, <4>3
    <3> QED
      BY <3>1, <3>2
  <2> QED
    BY <2>1, <2>2
<1>2. /\ pc'[ch] = "idle"
      /\ \A x \in Channels : x # ch => pc'[x] = pc[x] /\ msg'[x] = msg[x]
  BY <1>0, FinishFacts
<1>3. Before(ch)' = source[ch] /\ \A x \in Channels : x # ch => Before(x)' = Before(x)
  BY <1>2 DEF Before
<1>4. ASSUME NEW d \in Directions, Untouched(d)'
      PROVE  Untouched(d) /\ (d = ch[2] => what = "passed")
  <2>1. Untouched(d)
    <3>1. ASSUME NEW x \in Channels, x[2] = d, NEW i \in 1..Len(rows[x])
          PROVE  rows[x][i].what = "passed"
      <4>1. i \in 1..Len(rows'[x]) /\ rows'[x][i] = rows[x][i]
        BY <1>1
      <4> QED
        BY <1>4, <3>1, <4>1 DEF Untouched
    <3> QED
      BY <3>1 DEF Untouched
  <2>2. ASSUME d = ch[2] PROVE what = "passed"
    <3>1. CASE rows' = rows
      BY <3>1
    <3>2. CASE rows' # rows
      <4>1. Len(rows'[ch]) \in 1..Len(rows'[ch])
        BY <1>1, <3>2
      <4>2. rows'[ch][Len(rows'[ch])].what = "passed"
        BY <1>4, <2>2, <4>1 DEF Untouched
      <4> QED
        BY <3>2, <4>2
    <3> QED
      BY <3>1, <3>2
  <2> QED
    BY <2>1, <2>2
<1>5. UntouchedInv'
  <2>1. ASSUME NEW x \in Channels, Untouched(x[2])'
        PROVE  ~reencode'[x[2]] /\ peer'[x] = Before(x)'
    <3>1. Untouched(x[2]) /\ (x[2] = ch[2] => what = "passed")
      BY <1>4, <2>1, ChannelFacts
    <3>2. ~reencode[x[2]] /\ peer[x] = Before(x)
      BY <3>1 DEF IInv, UntouchedInv
    <3>3. CASE x[2] # ch[2]
      BY <1>3, <3>2, <3>3, ChannelFacts
    <3>4. CASE x[2] = ch[2]
      BY <1>3, <3>1, <3>2, <3>4
    <3> QED
      BY <3>3, <3>4
  <2> QED
    BY <2>1 DEF UntouchedInv
<1>6. PeerReadsRow'
  <2>1. ASSUME NEW x \in Channels, NEW i \in 1..Len(rows'[x]),
               rows'[x][i].sure, rows'[x][i].what # "blocked"
        PROVE  /\ rows'[x][i].got # Garbled
               /\ rows'[x][i].shown \in {rows'[x][i].got, NoText}
    <3>1. CASE i \in 1..Len(rows[x])
      BY <1>1, <2>1, <3>1 DEF IInv, PeerReadsRow
    <3>2. CASE i \notin 1..Len(rows[x])
      <4>1. x = ch /\ rows' # rows
        BY <2>1, <3>2
      <4>2. i = Len(rows'[ch])
        BY <1>1, <3>2, <4>1
      <4> QED
        BY <2>1, <4>1, <4>2
    <3> QED
      BY <3>1, <3>2
  <2> QED
    BY <2>1 DEF PeerReadsRow
<1>7. Transparent'
  <2>1. ASSUME NEW d \in Directions, Untouched(d)', NEW x \in Channels, x[2] = d,
               NEW i \in 1..Len(read'[x])
        PROVE  read'[x][i] # Garbled
    <3>1. Untouched(d) /\ (d = ch[2] => what = "passed")
      BY <1>4, <2>1
    <3>2. \A j \in 1..Len(read[x]) : read[x][j] # Garbled
      BY <2>1, <3>1 DEF IInv, Transparent
    <3>3. CASE read'[x] = read[x]
      BY <2>1, <3>2, <3>3
    <3>4. CASE read'[x] # read[x]
      <4>1. x = ch /\ read' # read
        BY <3>4
      <4>2. CASE i \in 1..Len(read[x])
        BY <3>2, <4>1, <4>2
      <4>3. CASE i \notin 1..Len(read[x])
        <5>1. i = Len(read'[ch])
          BY <1>1, <2>1, <4>1, <4>3
        <5> QED
          BY <2>1, <3>1, <4>1, <5>1
      <4> QED
        BY <4>2, <4>3
    <3> QED
      BY <3>3, <3>4
  <2> QED
    BY <2>1 DEF Transparent
<1> QED
  BY <1>5, <1>6, <1>7

\* A text the proxy has is the message's, unless its direction is out of step.
LEMMA ReadRight ==
    ASSUME IInv, NEW ch \in Channels, pc[ch] = "decoded", text[ch] # NoText,
           msg[ch].kind # "stream" \/ owner[ch[2]] # Mixed
    PROVE  text[ch] = msg[ch].text
<1>1. msg[ch].kind \in Kinds
  BY DEF IInv, TypeOK, ChannelInv, HandlerInv, Frame
<1>2. HandlerInv(ch)
  BY DEF IInv, ChannelInv
<1> QED
  BY <1>1, <1>2 DEF HandlerInv, Kinds

LEMMA PassHiddenInv ==
    ASSUME IInv, NEW ch \in Channels, PassHidden(ch)
    PROVE  /\ \A x \in Channels : ChannelInv(x)'
           /\ FreshInv' /\ UntouchedInv' /\ PeerReadsRow' /\ Transparent'
<1>0. TypeOK /\ HandlerInv(ch) /\ OwnerInv(ch) /\ OtherInv(ch) /\ msg[ch] \in Frame
  BY DEF IInv, ChannelInv, TypeOK
<1>1. /\ pc[ch] = "hidden" /\ Finish(ch) /\ PassOn(ch, msg[ch])
      /\ UNCHANGED <<source, dec, enc, reencode, rows, owner>>
  BY DEF PassHidden, streams
<1>2. /\ \A x \in Channels : x # ch => peer'[x] = peer[x] /\ read'[x] = read[x]
      /\ peer'[ch] = PeerWindow(ch, msg[ch])
      /\ Len(read'[ch]) = Len(read[ch]) + 1
      /\ \A i \in 1..Len(read[ch]) : read'[ch][i] = read[ch][i]
      /\ read'[ch][Len(read'[ch])] = PeerText(ch, msg[ch])
  BY <1>0, <1>1, PassFacts
<1>3. owner[ch[2]] # Mixed /\ owner[ch[2]] # ch[1] => peer'[ch] = source[ch]
  BY <1>0, <1>1, <1>2, PassAsItCame DEF OtherInv
<1>4. owner[ch[2]] = ch[1] =>
        peer'[ch] = enc[ch[2]] /\ (~reencode[ch[2]] => enc[ch[2]] = source[ch])
  <2>1. SUFFICES ASSUME owner[ch[2]] = ch[1]
                 PROVE  peer'[ch] = enc[ch[2]] /\ (~reencode[ch[2]] => enc[ch[2]] = source[ch])
    OBVIOUS
  <2>2. msg[ch].kind \notin {"stream", "ended"}
    BY <1>0, <1>1, <2>1 DEF OwnerInv, HandlerInv
  <2>3. peer'[ch] = peer[ch] /\ Before(ch) = source[ch]
    BY <1>0, <1>2, <2>2, PeerFacts DEF Before
  <2> QED
    BY <1>0, <2>1, <2>3 DEF OwnerInv
<1>5. (\A x \in Channels : ChannelInv(x)') /\ FreshInv'
  BY <1>1, <1>2, <1>3, <1>4, ReturnInv
<1>6. Untouched(ch[2]) =>
        ~reencode[ch[2]] /\ peer'[ch] = source[ch] /\ PeerText(ch, msg[ch]) = msg[ch].text
  BY <1>1, <1>2, PassAsItCame DEF IInv, UntouchedInv
<1>7. msg[ch].text # Garbled
  BY <1>0, TextAssumption DEF Frame
<1>8. UntouchedInv' /\ PeerReadsRow' /\ Transparent'
  BY <1>1, <1>2, <1>6, <1>7, ReturnRows
<1> QED
  BY <1>5, <1>8

LEMMA PassUnreadInv ==
    ASSUME IInv, NEW ch \in Channels, PassUnread(ch)
    PROVE  /\ \A x \in Channels : ChannelInv(x)'
           /\ FreshInv' /\ UntouchedInv' /\ PeerReadsRow' /\ Transparent'
<1>0. TypeOK /\ HandlerInv(ch) /\ OwnerInv(ch) /\ OtherInv(ch) /\ msg[ch] \in Frame
  BY DEF IInv, ChannelInv, TypeOK
<1>1. /\ pc[ch] = "decoded" /\ text[ch] = NoText /\ Finish(ch) /\ PassOn(ch, msg[ch])
      /\ AddRow(ch, NoText, "passed", PeerText(ch, msg[ch]))
      /\ UNCHANGED <<source, dec, enc, reencode, owner>>
  BY DEF PassUnread, streams
<1>2. /\ \A x \in Channels : x # ch => peer'[x] = peer[x] /\ read'[x] = read[x]
      /\ peer'[ch] = PeerWindow(ch, msg[ch])
      /\ Len(read'[ch]) = Len(read[ch]) + 1
      /\ \A i \in 1..Len(read[ch]) : read'[ch][i] = read[ch][i]
      /\ read'[ch][Len(read'[ch])] = PeerText(ch, msg[ch])
  BY <1>0, <1>1, PassFacts
<1>3. PeerText(ch, msg[ch]) \in Texts \cup {NoText, Garbled}
  BY <1>0, PeerFacts
<1>4. /\ \A x \in Channels : x # ch => rows'[x] = rows[x]
      /\ Len(rows'[ch]) = Len(rows[ch]) + 1
      /\ \A i \in 1..Len(rows[ch]) : rows'[ch][i] = rows[ch][i]
      /\ rows'[ch][Len(rows'[ch])] =
           [shown |-> NoText, what |-> "passed", sure |-> Sure(ch),
            got |-> PeerText(ch, msg[ch])]
  BY <1>0, <1>1, <1>3, RowFacts
<1>5. msg[ch].text # Garbled /\ msg[ch].text # NoText /\ ch[1] # Mixed
  BY <1>0, ChannelFacts, OwnerAssumption, TextAssumption DEF Frame
\* A piece in step is never unread.
<1>6. msg[ch].kind = "stream" => owner[ch[2]] = Mixed
  BY <1>0, <1>1, <1>5 DEF HandlerInv
<1>7. msg[ch].kind # "stream" =>
        /\ PeerText(ch, msg[ch]) = msg[ch].text
        /\ peer'[ch] = peer[ch] /\ Before(ch) = source[ch]
  BY <1>0, <1>1, <1>2, PeerFacts DEF HandlerInv, Before
<1>8. /\ owner[ch[2]] = ch[1] =>
           peer'[ch] = enc[ch[2]] /\ (~reencode[ch[2]] => enc[ch[2]] = source[ch])
      /\ owner[ch[2]] \notin {ch[1], Mixed} => peer'[ch] = source[ch]
  BY <1>0, <1>5, <1>6, <1>7 DEF OwnerInv, OtherInv
<1>9. (\A x \in Channels : ChannelInv(x)') /\ FreshInv'
  BY <1>1, <1>2, <1>8, ReturnInv
<1>10. Untouched(ch[2]) =>
         ~reencode[ch[2]] /\ peer'[ch] = source[ch] /\ PeerText(ch, msg[ch]) = msg[ch].text
  BY <1>1, <1>2, PassAsItCame DEF IInv, UntouchedInv
<1>11. Sure(ch) => PeerText(ch, msg[ch]) # Garbled
  BY <1>5, <1>6, <1>7 DEF Sure
<1>12. UntouchedInv' /\ PeerReadsRow' /\ Transparent'
  BY <1>1, <1>2, <1>4, <1>5, <1>10, <1>11, ReturnRows
<1> QED
  BY <1>9, <1>12

LEMMA BlockInv ==
    ASSUME IInv, NEW ch \in Channels, Block(ch)
    PROVE  /\ \A x \in Channels : ChannelInv(x)'
           /\ FreshInv' /\ UntouchedInv' /\ PeerReadsRow' /\ Transparent'
<1>0. TypeOK /\ HandlerInv(ch) /\ OwnerInv(ch) /\ OtherInv(ch) /\ msg[ch] \in Frame
  BY DEF IInv, ChannelInv, TypeOK
<1>1. /\ pc[ch] = "decoded" /\ text[ch] # NoText /\ Finish(ch)
      /\ AddRow(ch, Protected(ch), "blocked", NoText)
      /\ UNCHANGED <<source, peer, dec, enc, reencode, read>>
  BY DEF Block, streams
<1>2. /\ \A d \in Directions : owner'[d] = owner[d] \/ owner'[d] = Mixed
      /\ owner'[ch[2]] = owner[ch[2]] \/ owner'[ch[2]] = Mixed
      /\ msg[ch].kind = "stream" /\ owner[ch[2]] = ch[1] /\ ~reencode[ch[2]] =>
           owner'[ch[2]] = Mixed
  BY <1>0, ChannelFacts DEF Block, Follow, TypeOK
<1>3. Protected(ch) \in Texts \cup {NoText}
  BY <1>0, <1>1, ProtectedFacts
<1>4. /\ \A x \in Channels : x # ch => rows'[x] = rows[x]
      /\ Len(rows'[ch]) = Len(rows[ch]) + 1
      /\ \A i \in 1..Len(rows[ch]) : rows'[ch][i] = rows[ch][i]
      /\ rows'[ch][Len(rows'[ch])] =
           [shown |-> Protected(ch), what |-> "blocked", sure |-> Sure(ch), got |-> NoText]
  BY <1>0, <1>1, <1>3, RowFacts
<1>5. /\ owner'[ch[2]] = ch[1] =>
           peer'[ch] = enc[ch[2]] /\ (~reencode[ch[2]] => enc[ch[2]] = source[ch])
      /\ owner'[ch[2]] \notin {ch[1], Mixed} => peer'[ch] = source[ch]
  <2>1. ch[1] # Mixed
    BY ChannelFacts, OwnerAssumption
  <2>2. ASSUME owner'[ch[2]] = ch[1]
        PROVE  peer'[ch] = enc[ch[2]] /\ (~reencode[ch[2]] => enc[ch[2]] = source[ch])
    BY <1>0, <1>1, <1>2, <2>1, <2>2 DEF OwnerInv, Before
  <2>3. ASSUME owner'[ch[2]] \notin {ch[1], Mixed} PROVE peer'[ch] = source[ch]
    <3>1. owner[ch[2]] \notin {ch[1], Mixed}
      BY <1>2, <2>3
    <3>2. msg[ch].kind # "stream"
      BY <1>0, <1>1, <3>1 DEF HandlerInv
    <3> QED
      BY <1>0, <1>1, <3>1, <3>2 DEF OtherInv, Before
  <2> QED
    BY <2>2, <2>3
<1>6. (\A x \in Channels : ChannelInv(x)') /\ FreshInv'
  BY <1>1, <1>2, <1>5, ReturnInv
<1>7. UntouchedInv' /\ PeerReadsRow' /\ Transparent'
  <2>1. rows' # rows
    BY <1>4, <1>0 DEF TypeOK
  <2> QED
    BY <1>1, <1>4, <2>1, ReturnRows
<1> QED
  BY <1>6, <1>7

\* A piece of a stream that is in step leaves it in step: the receiver reads what the proxy made of
\* the text, and has the deflater's window afterwards.
LEMMA PieceInStep ==
    ASSUME IInv, NEW ch \in Channels, ForwardPiece(ch), owner[ch[2]] = ch[1]
    PROVE  /\ PeerText(ch, Forwarded(ch)) = Protected(ch)
           /\ PeerWindow(ch, Forwarded(ch)) = enc'[ch[2]]
           /\ ~reencode'[ch[2]] => enc'[ch[2]] = source[ch]
<1>0. TypeOK /\ HandlerInv(ch) /\ OwnerInv(ch) /\ msg[ch] \in Frame
  BY DEF IInv, ChannelInv, TypeOK
<1>1. /\ pc[ch] = "decoded" /\ text[ch] # NoText /\ zstream[ch] /\ Encode(ch)
      /\ Forwarded(ch) \in Frame
  BY <1>0, ForwardFacts DEF ForwardPiece
<1>2. msg[ch].kind = "stream" /\ owner[ch[2]] # Mixed
  BY <1>0, <1>1, ChannelFacts, OwnerAssumption DEF HandlerInv, Frame, Kinds
<1>3. /\ reencode'[ch[2]] = (reencode[ch[2]] \/ Changed(ch))
      /\ enc'[ch[2]] = Append(enc[ch[2]], Protected(ch))
  BY <1>0, <1>1, ChannelFacts DEF Encode, TypeOK
<1>4. peer[ch] = enc[ch[2]]
  BY <1>0 DEF OwnerInv
<1>5. CASE reencode'[ch[2]]
  <2>1. /\ Forwarded(ch).kind = "stream"
        /\ Forwarded(ch).window = enc[ch[2]] /\ Forwarded(ch).text = Protected(ch)
    BY <1>5 DEF Forwarded
  <2> QED
    BY <1>0, <1>1, <1>3, <1>4, <1>5, <2>1, PeerFacts
<1>6. CASE ~reencode'[ch[2]]
  <2>1. ~reencode[ch[2]] /\ ~Changed(ch)
    BY <1>3, <1>6
  <2>2. Protected(ch) = msg[ch].text
    BY <1>0, <1>1, <1>2, <2>1, ProtectedFacts, ReadRight
  <2>3. enc[ch[2]] = msg[ch].window /\ source[ch] = Append(msg[ch].window, msg[ch].text)
    BY <1>0, <1>1, <1>2, <2>1 DEF OwnerInv, HandlerInv, Before
  <2>4. Forwarded(ch) = msg[ch]
    BY <1>6 DEF Forwarded
  <2> QED
    BY <1>0, <1>2, <1>3, <1>4, <2>2, <2>3, <2>4, PeerFacts
<1> QED
  BY <1>5, <1>6

LEMMA ForwardPieceInv ==
    ASSUME IInv, NEW ch \in Channels, ForwardPiece(ch)
    PROVE  /\ \A x \in Channels : ChannelInv(x)'
           /\ FreshInv' /\ UntouchedInv' /\ PeerReadsRow' /\ Transparent'
<1>0. TypeOK /\ HandlerInv(ch) /\ msg[ch] \in Frame
  BY DEF IInv, ChannelInv, TypeOK
<1>1. /\ pc[ch] = "decoded" /\ text[ch] # NoText /\ zstream[ch] /\ Encode(ch) /\ Finish(ch)
      /\ UNCHANGED <<source, dec, owner>>
  BY DEF ForwardPiece
<1>2. /\ PassOn(ch, Forwarded(ch)) /\ Forwarded(ch) \in Frame
      /\ AddRow(ch, Protected(ch), What(ch), PeerText(ch, Forwarded(ch)))
      /\ PeerText(ch, Forwarded(ch)) \in Texts \cup {NoText, Garbled}
      /\ Protected(ch) \in Texts \cup {NoText}
      /\ What(ch) \in {"passed", "changed", "blocked"}
  BY <1>0, ForwardPieceSteps
<1>3. /\ \A x \in Channels : x # ch => peer'[x] = peer[x] /\ read'[x] = read[x]
      /\ peer'[ch] = PeerWindow(ch, Forwarded(ch))
      /\ Len(read'[ch]) = Len(read[ch]) + 1
      /\ \A i \in 1..Len(read[ch]) : read'[ch][i] = read[ch][i]
      /\ read'[ch][Len(read'[ch])] = PeerText(ch, Forwarded(ch))
  BY <1>0, <1>2, PassFacts
<1>4. /\ \A x \in Channels : x # ch => rows'[x] = rows[x]
      /\ Len(rows'[ch]) = Len(rows[ch]) + 1
      /\ \A i \in 1..Len(rows[ch]) : rows'[ch][i] = rows[ch][i]
      /\ rows'[ch][Len(rows'[ch])] =
           [shown |-> Protected(ch), what |-> What(ch), sure |-> Sure(ch),
            got |-> PeerText(ch, Forwarded(ch))]
  BY <1>0, <1>2, RowFacts
<1>5. msg[ch].kind = "stream" /\ owner[ch[2]] \in {ch[1], Mixed}
  BY <1>0, <1>1 DEF HandlerInv, Frame, Kinds
<1>6. /\ \A d \in Directions : d # ch[2] => enc'[d] = enc[d] /\ reencode'[d] = reencode[d]
      /\ reencode'[ch[2]] = (reencode[ch[2]] \/ Changed(ch))
  BY <1>0, <1>1, ChannelFacts DEF Encode, TypeOK
<1>7. Protected(ch) # Garbled
  BY <1>0, <1>1, ProtectedFacts, TextAssumption
<1>8. (\A x \in Channels : ChannelInv(x)') /\ FreshInv'
  <2>1. /\ owner'[ch[2]] = ch[1] =>
             peer'[ch] = enc'[ch[2]] /\ (~reencode'[ch[2]] => enc'[ch[2]] = source[ch])
        /\ owner'[ch[2]] \in {ch[1], Mixed}
    BY <1>1, <1>3, <1>5, PieceInStep
  <2>2. \A d \in Directions :
           d # ch[2] \/ owner'[d] \notin {ch[1], Mixed} =>
              enc'[d] = enc[d] /\ reencode'[d] = reencode[d]
    BY <1>6, <2>1
  <2> QED
    BY <1>1, <1>3, <2>1, <2>2, ReturnInv
\* Nothing changed here before or now: the piece is the sender's.
<1>9. Untouched(ch[2]) /\ What(ch) = "passed" =>
        /\ ~reencode'[ch[2]] /\ peer'[ch] = source[ch]
        /\ PeerText(ch, Forwarded(ch)) # Garbled
  <2>1. SUFFICES ASSUME Untouched(ch[2]), What(ch) = "passed"
                 PROVE  /\ ~reencode'[ch[2]] /\ peer'[ch] = source[ch]
                        /\ PeerText(ch, Forwarded(ch)) # Garbled
    OBVIOUS
  <2>2. ~reencode[ch[2]] /\ peer[ch] = Before(ch)
    BY <2>1 DEF IInv, UntouchedInv
  <2>3. ~reencode'[ch[2]]
    BY <1>6, <2>1, <2>2 DEF What
  <2>4. Forwarded(ch) = msg[ch]
    BY <2>3 DEF Forwarded
  <2>5. PeerText(ch, msg[ch]) = msg[ch].text /\ PeerWindow(ch, msg[ch]) = source[ch]
    BY <1>1, <2>2, PassAsItCame
  <2>6. msg[ch].text # Garbled
    BY <1>0, TextAssumption DEF Frame
  <2> QED
    BY <1>3, <2>3, <2>4, <2>5, <2>6
<1>10. Sure(ch) => PeerText(ch, Forwarded(ch)) = Protected(ch)
  BY <1>5, PieceInStep DEF Sure
<1>11. rows' # rows
  BY <1>4, <1>0 DEF TypeOK
<1>12. UntouchedInv' /\ PeerReadsRow' /\ Transparent'
  BY <1>1, <1>3, <1>4, <1>6, <1>7, <1>9, <1>10, <1>11, ReturnRows, SMTT(20)
<1> QED
  BY <1>8, <1>12

\* A message that is no piece of a stream is read as the proxy has made it.
LEMMA WholeRead ==
    ASSUME IInv, NEW ch \in Channels, ForwardWhole(ch), msg[ch].kind # "stream"
    PROVE  /\ PeerText(ch, Returned(ch)) = Protected(ch)
           /\ PeerWindow(ch, Returned(ch)) = peer[ch]
<1>0. TypeOK /\ HandlerInv(ch) /\ msg[ch] \in Frame
  BY DEF IInv, ChannelInv, TypeOK
<1>1. pc[ch] = "decoded" /\ text[ch] # NoText /\ Returned(ch) \in Frame
  BY <1>0, ForwardFacts DEF ForwardWhole
<1>2. Returned(ch).kind \notin {"stream", "ended"}
  BY <1>0, <1>1 DEF Returned, HandlerInv
<1>3. Returned(ch).text = Protected(ch)
  <2>1. CASE Changed(ch)
    BY <2>1 DEF Returned
  <2>2. CASE ~Changed(ch)
    BY <1>0, <1>1, <2>2, ProtectedFacts, ReadRight DEF Returned
  <2> QED
    BY <2>1, <2>2
<1> QED
  BY <1>0, <1>1, <1>2, <1>3, PeerFacts

LEMMA ForwardWholeInv ==
    ASSUME IInv, NEW ch \in Channels, ForwardWhole(ch)
    PROVE  /\ \A x \in Channels : ChannelInv(x)'
           /\ FreshInv' /\ UntouchedInv' /\ PeerReadsRow' /\ Transparent'
<1>0. TypeOK /\ HandlerInv(ch) /\ OwnerInv(ch) /\ OtherInv(ch) /\ msg[ch] \in Frame
  BY DEF IInv, ChannelInv, TypeOK
<1>1. /\ pc[ch] = "decoded" /\ text[ch] # NoText /\ ~zstream[ch] /\ Finish(ch)
      /\ UNCHANGED <<source, dec, enc, reencode, owner>>
  BY DEF ForwardWhole, streams
<1>2. /\ PassOn(ch, Returned(ch)) /\ Returned(ch) \in Frame
      /\ AddRow(ch, Protected(ch), What(ch), PeerText(ch, Returned(ch)))
      /\ PeerText(ch, Returned(ch)) \in Texts \cup {NoText, Garbled}
      /\ Protected(ch) \in Texts \cup {NoText}
      /\ What(ch) \in {"passed", "changed", "blocked"}
  BY <1>0, ForwardWholeSteps
<1>3. /\ \A x \in Channels : x # ch => peer'[x] = peer[x] /\ read'[x] = read[x]
      /\ peer'[ch] = PeerWindow(ch, Returned(ch))
      /\ Len(read'[ch]) = Len(read[ch]) + 1
      /\ \A i \in 1..Len(read[ch]) : read'[ch][i] = read[ch][i]
      /\ read'[ch][Len(read'[ch])] = PeerText(ch, Returned(ch))
  BY <1>0, <1>2, PassFacts
<1>4. /\ \A x \in Channels : x # ch => rows'[x] = rows[x]
      /\ Len(rows'[ch]) = Len(rows[ch]) + 1
      /\ \A i \in 1..Len(rows[ch]) : rows'[ch][i] = rows[ch][i]
      /\ rows'[ch][Len(rows'[ch])] =
           [shown |-> Protected(ch), what |-> What(ch), sure |-> Sure(ch),
            got |-> PeerText(ch, Returned(ch))]
  BY <1>0, <1>2, RowFacts
\* Only a piece of a direction out of step is taken for a whole.
<1>5. msg[ch].kind = "stream" => owner[ch[2]] = Mixed
  BY <1>0, <1>1 DEF HandlerInv
<1>6. msg[ch].kind # "stream" =>
        peer'[ch] = peer[ch] /\ PeerText(ch, Returned(ch)) = Protected(ch)
  BY <1>3, WholeRead
<1>7. Protected(ch) # Garbled /\ ch[1] # Mixed
  BY <1>0, <1>1, ProtectedFacts, ChannelFacts, OwnerAssumption, TextAssumption
<1>8. (\A x \in Channels : ChannelInv(x)') /\ FreshInv'
  <2>1. /\ owner[ch[2]] = ch[1] =>
             peer'[ch] = enc[ch[2]] /\ (~reencode[ch[2]] => enc[ch[2]] = source[ch])
        /\ owner[ch[2]] \notin {ch[1], Mixed} => peer'[ch] = source[ch]
    BY <1>0, <1>5, <1>6, <1>7 DEF OwnerInv, OtherInv, Before
  <2> QED
    BY <1>1, <1>3, <2>1, ReturnInv
<1>9. Untouched(ch[2]) /\ What(ch) = "passed" =>
        /\ ~reencode[ch[2]] /\ peer'[ch] = source[ch]
        /\ PeerText(ch, Returned(ch)) # Garbled
  <2>1. SUFFICES ASSUME Untouched(ch[2]), What(ch) = "passed"
                 PROVE  /\ ~reencode[ch[2]] /\ peer'[ch] = source[ch]
                        /\ PeerText(ch, Returned(ch)) # Garbled
    OBVIOUS
  <2>2. ~reencode[ch[2]] /\ peer[ch] = Before(ch)
    BY <2>1 DEF IInv, UntouchedInv
  <2>3. Returned(ch) = msg[ch]
    BY <2>1 DEF Returned, What
  <2>4. PeerText(ch, msg[ch]) = msg[ch].text /\ PeerWindow(ch, msg[ch]) = source[ch]
    BY <1>1, <2>2, PassAsItCame
  <2>5. msg[ch].text # Garbled
    BY <1>0, TextAssumption DEF Frame
  <2> QED
    BY <1>3, <2>2, <2>3, <2>4, <2>5
<1>10. Sure(ch) => PeerText(ch, Returned(ch)) = Protected(ch)
  BY <1>5, <1>6, <1>7 DEF Sure
<1>11. rows' # rows
  BY <1>4, <1>0 DEF TypeOK
<1>12. UntouchedInv' /\ PeerReadsRow' /\ Transparent'
  BY <1>1, <1>3, <1>4, <1>7, <1>9, <1>10, <1>11, ReturnRows, SMTT(20)
<1> QED
  BY <1>8, <1>12

\* The invariant is inductive.
LEMMA InvStep == IInv /\ [Next]_vars => IInv'
<1> SUFFICES ASSUME IInv, [Next]_vars PROVE IInv'
  OBVIOUS
<1>0. TypeOK'
  BY TypeStep DEF IInv
<1>1. ASSUME NEW ch \in Channels, Receive(ch) PROVE IInv'
  <2>1. PeerReadsRow' /\ Transparent'
    BY <1>1 DEF Receive, IInv, PeerReadsRow, Transparent, Untouched
  <2> QED
    BY <1>0, <1>1, <2>1, ReceiveInv DEF IInv
<1>2. ASSUME NEW ch \in Channels, PassHidden(ch) PROVE IInv'
  BY <1>0, <1>2, PassHiddenInv DEF IInv
<1>3. ASSUME NEW ch \in Channels, PassUnread(ch) PROVE IInv'
  BY <1>0, <1>3, PassUnreadInv DEF IInv
<1>4. ASSUME NEW ch \in Channels, Block(ch) PROVE IInv'
  BY <1>0, <1>4, BlockInv DEF IInv
<1>5. ASSUME NEW ch \in Channels, ForwardPiece(ch) PROVE IInv'
  BY <1>0, <1>5, ForwardPieceInv DEF IInv
<1>6. ASSUME NEW ch \in Channels, ForwardWhole(ch) PROVE IInv'
  BY <1>0, <1>6, ForwardWholeInv DEF IInv
<1>7. CASE Save \/ UNCHANGED vars
  <2>1. UNCHANGED <<messages, source, peer, dec, enc, reencode, pc, msg, snap, text, zstream,
                    rows, read, owner>>
    BY <1>7 DEF Save, vars, streams
  <2> QED
    BY <1>0, <2>1 DEF IInv, ChannelInv, HandlerInv, OwnerInv, OtherInv, Before, FreshInv,
                      UntouchedInv, Untouched, PeerReadsRow, Transparent
<1> QED
  BY <1>1, <1>2, <1>3, <1>4, <1>5, <1>6, <1>7 DEF Next, Handle

\* The inductive invariant holds throughout.
THEOREM StreamInvariance == Spec => []IInv
BY InitInv, InvStep, PTL DEF Spec

\* Every variable keeps its type.
THEOREM StreamTypes == Spec => []TypeOK
<1>1. IInv => TypeOK
  BY DEF IInv
<1> QED
  BY <1>1, StreamInvariance, PTL

\* While a direction is in step, the receiver reads what the table shows, from whatever piece on
\* the stream is rewritten.
THEOREM InStep == Spec => []PeerReadsRow
<1>1. IInv => PeerReadsRow
  BY DEF IInv
<1> QED
  BY <1>1, StreamInvariance, PTL

\* In a direction in which nothing has been changed or blocked, a receiver can read all it is sent.
THEOREM Transparency == Spec => []Transparent
<1>1. IInv => Transparent
  BY DEF IInv
<1> QED
  BY <1>1, StreamInvariance, PTL

----------------------------------------------------------------------------
(* The guard.                                                              *)

LEMMA GuardedText ==
    ASSUME TypeOK, NEW ch \in Channels, text[ch] # NoText, ch[2] = "out",
           GuardAction(ch) # "block", Protected(ch) \in Secrets
    PROVE  snap[ch].mode \in {"off", "warn"} \/ ch[1] \in snap[ch].trusted
<1>1. SUFFICES ASSUME snap[ch].mode \notin {"off", "warn"}, ch[1] \notin snap[ch].trusted
               PROVE  FALSE
  OBVIOUS
<1>2. snap[ch].mode \in Modes
  BY SettingsFacts DEF TypeOK
<1>3. text[ch] \in Texts /\ Rewritten(ch) \in {text[ch], Replace[text[ch]]}
  BY ProtectedFacts DEF Rewritten
<1>4. Rewritten(ch) \in Texts
  BY <1>3, TextAssumption
<1>5. CASE GuardAction(ch) = "redact"
  BY <1>4, <1>5, TextAssumption DEF Protected
<1>6. CASE GuardAction(ch) # "redact"
  <2>1. Rewritten(ch) \in Sensitive
    BY <1>6 DEF Protected, Sensitive
  <2>2. GuardAction(ch) = snap[ch].mode
    BY <1>1, <2>1 DEF GuardAction
  <2> QED
    BY <1>1, <1>2, <1>6, <2>2 DEF Modes
<1> QED
  BY <1>5, <1>6

\* What a step adds to what a receiver has read: nothing, or one text, on the channel it handles.
LEMMA GuardStep ==
    ASSUME IInv, [Next]_vars, NEW ch \in Channels, ch[2] = "out", read'[ch] # read[ch],
           read'[ch][Len(read'[ch])] \in Secrets, Sure(ch)
    PROVE  \/ snap[ch].mode \in {"off", "warn"}
           \/ ch[1] \in snap[ch].trusted \cup snap[ch].hidden
           \/ text[ch] = NoText
<1>0. TypeOK /\ HandlerInv(ch) /\ ch[1] # Mixed
  BY ChannelFacts, OwnerAssumption DEF IInv, ChannelInv
<1>1. ASSUME NEW x \in Channels, Handle(x) PROVE x = ch
  <2>1. CASE Receive(x) \/ Block(x)
    BY <2>1 DEF Receive, Block
  <2>2. CASE PassHidden(x) \/ PassUnread(x)
    <3>1. PassOn(x, msg[x]) /\ msg[x] \in Frame
      BY <1>0, <2>2 DEF PassHidden, PassUnread, TypeOK
    <3> QED
      BY <1>0, <3>1, PassFacts
  <2>3. CASE ForwardPiece(x)
    BY <1>0, <2>3, ForwardPieceSteps, PassFacts
  <2>4. CASE ForwardWhole(x)
    BY <1>0, <2>4, ForwardWholeSteps, PassFacts
  <2> QED
    BY <1>1, <2>1, <2>2, <2>3, <2>4 DEF Handle
<1>2. Handle(ch)
  BY <1>1 DEF Next, Save, vars
<1>3. CASE Receive(ch) \/ Block(ch)
  BY <1>3 DEF Receive, Block
<1>4. CASE PassHidden(ch)
  BY <1>0, <1>4 DEF PassHidden, HandlerInv
<1>5. CASE PassUnread(ch)
  BY <1>5 DEF PassUnread
<1>6. CASE ForwardPiece(ch)
  <2>1. text[ch] # NoText /\ zstream[ch] /\ pc[ch] = "decoded" /\ GuardAction(ch) # "block"
    BY <1>6 DEF ForwardPiece
  <2>2. msg[ch].kind = "stream"
    BY <1>0, <2>1 DEF HandlerInv, TypeOK, Frame, Kinds
  <2>3. PeerText(ch, Forwarded(ch)) = Protected(ch)
    BY <1>6, <2>2, PieceInStep DEF Sure
  <2>4. read'[ch][Len(read'[ch])] = PeerText(ch, Forwarded(ch))
    BY <1>0, <1>6, ForwardPieceSteps, PassFacts
  <2> QED
    BY <1>0, <2>1, <2>3, <2>4, GuardedText
<1>7. CASE ForwardWhole(ch)
  <2>1. text[ch] # NoText /\ ~zstream[ch] /\ pc[ch] = "decoded" /\ GuardAction(ch) # "block"
    BY <1>7 DEF ForwardWhole
  <2>2. msg[ch].kind # "stream"
    BY <1>0, <2>1 DEF HandlerInv, Sure
  <2>3. PeerText(ch, Returned(ch)) = Protected(ch)
    BY <1>7, <2>2, WholeRead
  <2>4. read'[ch][Len(read'[ch])] = PeerText(ch, Returned(ch))
    BY <1>0, <1>7, ForwardWholeSteps, PassFacts
  <2> QED
    BY <1>0, <2>1, <2>3, <2>4, GuardedText
<1> QED
  BY <1>2, <1>3, <1>4, <1>5, <1>6, <1>7 DEF Handle

\* A secret a rule puts into an outgoing message the proxy can read does not pass the guard.
THEOREM GuardAfterRules == Spec => SecretsGuarded
<1>1. IInv /\ [Next]_vars =>
        [\A ch \in Channels :
            /\ ch[2] = "out" /\ read'[ch] # read[ch]
            /\ read'[ch][Len(read'[ch])] \in Secrets /\ Sure(ch)
            => \/ snap[ch].mode \in {"off", "warn"}
               \/ ch[1] \in snap[ch].trusted \cup snap[ch].hidden
               \/ text[ch] = NoText]_vars
  BY GuardStep
<1> QED
  BY <1>1, StreamInvariance, PTL DEF Spec, SecretsGuarded

----------------------------------------------------------------------------
(* The refinement.                                                         *)

Pending == [ch \in Channels |-> IF pc[ch] = "idle" THEN NoText ELSE msg[ch].text]
Spoilt == {ch \in Channels : owner[ch[2]] = Mixed}
BecomesOf == [t \in Texts |-> {Replace[t], Mask[t], Mask[Replace[t]]}]
DroppableOf == [ch \in Channels |->
    {t \in Texts : ch[2] = "out" /\ (t \in Sensitive \/ Replace[t] \in Sensitive)}]

\* What is on its way when a handler returns.
LEMMA PendingEnds ==
    ASSUME TypeOK, NEW ch \in Channels, pc[ch] # "idle", Finish(ch)
    PROVE  /\ Pending[ch] = msg[ch].text /\ Pending[ch] \in Texts /\ Pending[ch] # NoText
           /\ Pending' = [Pending EXCEPT ![ch] = NoText]
<1>1. msg[ch].text \in Texts
  BY DEF TypeOK, Frame
<1>2. /\ pc'[ch] = "idle"
      /\ \A x \in Channels : x # ch => pc'[x] = pc[x] /\ msg'[x] = msg[x]
  BY FinishFacts
<1> QED
  BY <1>1, <1>2, TextAssumption DEF Pending

\* What a receiver reads of a message is a delivery of it.
LEMMA Delivers ==
    ASSUME TypeOK, NEW ch \in Channels, pc[ch] # "idle", Finish(ch), NEW t,
           read' = [read EXCEPT ![ch] = Append(@, t)], UNCHANGED owner,
           t \in {msg[ch].text} \cup BecomesOf[msg[ch].text]
                 \cup (IF ch \in Spoilt THEN Texts \cup {Garbled} ELSE {})
    PROVE  Rewriting!Deliver(ch)
<1>1. Spoilt' = Spoilt
  BY DEF Spoilt
<1>2. Pending[ch] = msg[ch].text /\ Pending[ch] # NoText
      /\ Pending' = [Pending EXCEPT ![ch] = NoText]
  BY PendingEnds
<1> QED
  BY <1>1, <1>2 DEF Rewriting!Deliver, Pending, Spoilt, BecomesOf

LEMMA InitRefines == Init => Rewriting!Init
<1> SUFFICES ASSUME Init PROVE Rewriting!Init
  OBVIOUS
<1>1. Pending = [ch \in Channels |-> NoText]
  BY DEF Init, Pending
<1>2. Spoilt = {}
  BY ChannelFacts, OwnerAssumption DEF Init, Spoilt
<1> QED
  BY <1>1, <1>2 DEF Init, Rewriting!Init, Pending, Spoilt

\* Receiving is accepting: a direction that is out of step stays so.
LEMMA ReceiveAccepts ==
    ASSUME IInv, NEW ch \in Channels, Receive(ch)
    PROVE  Rewriting!Accept(ch)
<1>0. TypeOK
  BY DEF IInv
<1>1. PICK f \in Messages(ch) :
        /\ msg' = [msg EXCEPT ![ch] = f]
        /\ \/ /\ pc' = [pc EXCEPT ![ch] = "hidden"]
              /\ IF f.kind = "stream" /\ owner[ch[2]] = ch[1] THEN Follow(ch[2], Mixed)
                                                              ELSE UNCHANGED owner
           \/ /\ pc' = [pc EXCEPT ![ch] = "decoded"]
              /\ DecodeMessage(ch, f)
  BY DEF Receive
<1>2. f \in Frame /\ f.text \in Texts
  BY <1>0, MessageFacts DEF Frame
<1>3. Pending[ch] = NoText /\ Pending' = [Pending EXCEPT ![ch] = f.text]
  <2>1. pc[ch] = "idle"
    BY DEF Receive
  <2>2. /\ msg' = [msg EXCEPT ![ch] = f]
        /\ \/ pc' = [pc EXCEPT ![ch] = "hidden"]
           \/ pc' = [pc EXCEPT ![ch] = "decoded"]
    BY <1>1
  <2> QED
    BY <1>0, <2>1, <2>2 DEF Pending, TypeOK
<1>4. \A d \in Directions : owner[d] = Mixed => owner'[d] = Mixed
  <2>1. CASE DecodeMessage(ch, f)
    BY <1>0, <1>2, <2>1, DecodeFacts
  <2>2. CASE ~DecodeMessage(ch, f)
    BY <1>0, <1>1, <2>2, ChannelFacts DEF Follow, TypeOK
  <2> QED
    BY <2>1, <2>2
<1>5. Spoilt \subseteq Spoilt' /\ Spoilt' \subseteq Channels
  BY <1>4, ChannelFacts DEF Spoilt
<1>6. UNCHANGED read
  BY DEF Receive
<1> QED
  BY <1>2, <1>3, <1>5, <1>6 DEF Rewriting!Accept, Rewriting!Spoil, Pending, Spoilt

LEMMA PassHiddenDelivers ==
    ASSUME IInv, NEW ch \in Channels, PassHidden(ch)
    PROVE  Rewriting!Deliver(ch)
<1>0. TypeOK /\ HandlerInv(ch) /\ OwnerInv(ch) /\ OtherInv(ch) /\ msg[ch] \in Frame
  BY DEF IInv, ChannelInv, TypeOK
<1>1. /\ pc[ch] = "hidden" /\ Finish(ch) /\ UNCHANGED owner
      /\ read' = [read EXCEPT ![ch] = Append(@, PeerText(ch, msg[ch]))]
  BY DEF PassHidden, PassOn
<1>2. CASE msg[ch].kind # "stream"
  <2>1. PeerText(ch, msg[ch]) = msg[ch].text
    BY <1>0, <1>1, <1>2, PeerFacts DEF HandlerInv
  <2> QED
    BY <1>0, <1>1, <2>1, Delivers
<1>3. CASE msg[ch].kind = "stream" /\ owner[ch[2]] # Mixed
  <2>1. peer[ch] = Before(ch)
    BY <1>0, <1>1, <1>3 DEF OwnerInv, OtherInv
  <2>2. PeerText(ch, msg[ch]) = msg[ch].text
    BY <1>1, <2>1, PassAsItCame
  <2> QED
    BY <1>0, <1>1, <2>2, Delivers
<1>4. CASE owner[ch[2]] = Mixed
  <2>1. PeerText(ch, msg[ch]) \in Texts \cup {Garbled} /\ ch \in Spoilt
    BY <1>0, <1>4, PeerFacts DEF Spoilt
  <2> QED
    BY <1>0, <1>1, <2>1, Delivers
<1> QED
  BY <1>2, <1>3, <1>4

LEMMA PassUnreadDelivers ==
    ASSUME IInv, NEW ch \in Channels, PassUnread(ch)
    PROVE  Rewriting!Deliver(ch)
<1>0. TypeOK /\ HandlerInv(ch) /\ msg[ch] \in Frame
  BY DEF IInv, ChannelInv, TypeOK
<1>1. /\ pc[ch] = "decoded" /\ text[ch] = NoText /\ Finish(ch) /\ UNCHANGED owner
      /\ read' = [read EXCEPT ![ch] = Append(@, PeerText(ch, msg[ch]))]
  BY DEF PassUnread, PassOn
<1>2. CASE msg[ch].kind # "stream"
  <2>1. PeerText(ch, msg[ch]) = msg[ch].text
    BY <1>0, <1>1, <1>2, PeerFacts DEF HandlerInv
  <2> QED
    BY <1>0, <1>1, <2>1, Delivers
<1>3. CASE msg[ch].kind = "stream"
  <2>1. owner[ch[2]] = Mixed
    BY <1>0, <1>1, <1>3, TextAssumption DEF HandlerInv, Frame
  <2>2. PeerText(ch, msg[ch]) \in Texts \cup {Garbled} /\ ch \in Spoilt
    BY <1>0, <2>1, PeerFacts DEF Spoilt
  <2> QED
    BY <1>0, <1>1, <2>2, Delivers
<1> QED
  BY <1>2, <1>3

\* What rules and guard make of a text that was read right.
LEMMA ProtectedBecomes ==
    ASSUME IInv, NEW ch \in Channels, pc[ch] = "decoded", text[ch] # NoText,
           msg[ch].kind # "stream" \/ owner[ch[2]] # Mixed
    PROVE  Protected(ch) \in {msg[ch].text} \cup BecomesOf[msg[ch].text]
<1>1. text[ch] = msg[ch].text
  BY ReadRight
<1>2. Protected(ch) \in {text[ch], Replace[text[ch]], Mask[text[ch]], Mask[Replace[text[ch]]]}
      /\ text[ch] \in Texts
  BY ProtectedFacts DEF IInv
<1> QED
  BY <1>1, <1>2 DEF BecomesOf

LEMMA ForwardPieceDelivers ==
    ASSUME IInv, NEW ch \in Channels, ForwardPiece(ch)
    PROVE  Rewriting!Deliver(ch)
<1>0. TypeOK /\ HandlerInv(ch)
  BY DEF IInv, ChannelInv
<1>1. /\ pc[ch] = "decoded" /\ text[ch] # NoText /\ zstream[ch] /\ Finish(ch)
      /\ UNCHANGED owner /\ Forwarded(ch) \in Frame
      /\ read' = [read EXCEPT ![ch] = Append(@, PeerText(ch, Forwarded(ch)))]
  BY <1>0, ForwardPieceSteps DEF ForwardPiece, PassOn
<1>2. msg[ch].kind = "stream"
  BY <1>0, <1>1 DEF HandlerInv, TypeOK, Frame, Kinds
<1>3. CASE owner[ch[2]] # Mixed
  <2>1. owner[ch[2]] = ch[1]
    BY <1>0, <1>1, <1>2, <1>3 DEF HandlerInv
  <2>2. PeerText(ch, Forwarded(ch)) = Protected(ch)
    BY <2>1, PieceInStep
  <2>3. Protected(ch) \in {msg[ch].text} \cup BecomesOf[msg[ch].text]
    BY <1>1, <1>3, ProtectedBecomes
  <2> QED
    BY <1>0, <1>1, <2>2, <2>3, Delivers
<1>4. CASE owner[ch[2]] = Mixed
  <2>1. PeerText(ch, Forwarded(ch)) \in Texts \cup {Garbled} /\ ch \in Spoilt
    BY <1>0, <1>1, <1>4, PeerFacts DEF Spoilt
  <2> QED
    BY <1>0, <1>1, <2>1, Delivers
<1> QED
  BY <1>3, <1>4

LEMMA ForwardWholeDelivers ==
    ASSUME IInv, NEW ch \in Channels, ForwardWhole(ch)
    PROVE  Rewriting!Deliver(ch)
<1>0. TypeOK /\ HandlerInv(ch)
  BY DEF IInv, ChannelInv
<1>1. /\ pc[ch] = "decoded" /\ text[ch] # NoText /\ ~zstream[ch] /\ Finish(ch)
      /\ UNCHANGED owner /\ Returned(ch) \in Frame
      /\ read' = [read EXCEPT ![ch] = Append(@, PeerText(ch, Returned(ch)))]
  BY <1>0, ForwardWholeSteps DEF ForwardWhole, PassOn
<1>2. CASE msg[ch].kind # "stream"
  <2>1. PeerText(ch, Returned(ch)) = Protected(ch)
    BY <1>2, WholeRead
  <2>2. Protected(ch) \in {msg[ch].text} \cup BecomesOf[msg[ch].text]
    BY <1>1, <1>2, ProtectedBecomes
  <2> QED
    BY <1>0, <1>1, <2>1, <2>2, Delivers
<1>3. CASE msg[ch].kind = "stream"
  <2>1. owner[ch[2]] = Mixed
    BY <1>0, <1>1, <1>3 DEF HandlerInv
  <2>2. PeerText(ch, Returned(ch)) \in Texts \cup {Garbled} /\ ch \in Spoilt
    BY <1>0, <1>1, <2>1, PeerFacts DEF Spoilt
  <2> QED
    BY <1>0, <1>1, <2>2, Delivers
<1> QED
  BY <1>2, <1>3

\* Only a message in which the guard finds something, as it is or as the rules make it, is dropped.
LEMMA BlockDrops ==
    ASSUME IInv, NEW ch \in Channels, Block(ch)
    PROVE  Rewriting!Drop(ch)
<1>0. TypeOK
  BY DEF IInv
<1>1. /\ pc[ch] = "decoded" /\ text[ch] # NoText /\ Finish(ch) /\ UNCHANGED read
      /\ GuardAction(ch) = "block"
  BY DEF Block
<1>2. Pending[ch] = msg[ch].text /\ Pending[ch] \in Texts
      /\ Pending' = [Pending EXCEPT ![ch] = NoText]
  BY <1>0, <1>1, PendingEnds
<1>3. Spoilt \subseteq Spoilt' /\ Spoilt' \subseteq Channels
  BY <1>0, ChannelFacts DEF Block, Follow, TypeOK, Spoilt
<1>4. Pending[ch] \in DroppableOf[ch] \cup (IF ch \in Spoilt THEN Texts ELSE {})
  <2>1. CASE owner[ch[2]] = Mixed
    BY <1>2, <2>1 DEF Spoilt
  <2>2. CASE owner[ch[2]] # Mixed
    <3>1. text[ch] = msg[ch].text
      BY <1>1, <2>2, ReadRight
    <3>2. ch[2] # "in" /\ Rewritten(ch) \in Sensitive
      BY <1>1 DEF GuardAction
    <3>3. ch[2] = "out"
      BY <3>2, ChannelFacts DEF Directions
    <3>4. text[ch] \in Sensitive \/ Replace[text[ch]] \in Sensitive
      BY <3>2 DEF Rewritten
    <3> QED
      BY <1>2, <3>1, <3>3, <3>4 DEF DroppableOf
  <2> QED
    BY <2>1, <2>2
<1> QED
  BY <1>1, <1>2, <1>3, <1>4
  DEF Rewriting!Drop, Rewriting!Spoil, Pending, Spoilt, DroppableOf

LEMMA StepRefines ==
    ASSUME IInv, [Next]_vars
    PROVE  [Rewriting!Next]_<<Pending, read, Spoilt>>
<1>1. ASSUME NEW ch \in Channels, Handle(ch) PROVE Rewriting!Next
  <2>1. Rewriting!Accept(ch) \/ Rewriting!Deliver(ch) \/ Rewriting!Drop(ch)
    BY <1>1, ReceiveAccepts, PassHiddenDelivers, PassUnreadDelivers, BlockDrops,
       ForwardPieceDelivers, ForwardWholeDelivers DEF Handle
  <2> QED
    BY <2>1 DEF Rewriting!Next
<1>2. ASSUME Save \/ UNCHANGED vars PROVE UNCHANGED <<Pending, read, Spoilt>>
  BY <1>2 DEF Save, vars, Pending, Spoilt
<1>3. CASE \E ch \in Channels : Handle(ch)
  BY <1>1, <1>3
<1>4. CASE Save \/ UNCHANGED vars
  BY <1>2, <1>4
<1> QED
  BY <1>3, <1>4 DEF Next

\* WebSocketStream implements RewritingChannels.
THEOREM StreamImplementation == Spec => ImplementsRewritingChannels
<1>1. IInv /\ [Next]_vars => [Rewriting!Next]_<<Pending, read, Spoilt>>
  BY StepRefines
<1> QED
  BY <1>1, InitRefines, StreamInvariance, PTL
  DEF Spec, ImplementsRewritingChannels, Rewriting!Spec, Pending, Spoilt
=============================================================================
