--------------------------- MODULE WebSocketStream ---------------------------
(***************************************************************************)
(* WebSocketTrafficHandler (capture.rs): messages pass through the proxy,  *)
(* which decodes them, applies the rewrite rules and the Data Guard, and   *)
(* encodes what changed.                                                   *)
(*                                                                         *)
(* Binary messages may be pieces of one zlib stream per direction.  Such a *)
(* piece refers back to the pieces before it, so there are four windows to *)
(* keep in step: the sender's, the proxy's inflater, the proxy's deflater  *)
(* and the receiver's.  A window is the sequence of texts it has seen.     *)
(* The proxy's two belong to a direction, not to a connection.             *)
(***************************************************************************)
EXTENDS Naturals, Sequences

CONSTANTS
    Connections,
    Texts,
    Sent,           \* the messages peers send: pairs of a kind and a text
    NoText,         \* a message the proxy cannot read
    Garbled,        \* a piece whose window the reader does not have
    Replace,        \* what the rewrite rules make of a text
    Mask,           \* what redact_text makes of it
    Secrets,        \* texts redact_text changes
    Markers,        \* texts find_text reports and redact_text leaves
    NotUtf8,        \* contents of a piece that are no UTF-8
    Large, Cut,     \* texts longer than the inflater's buffer, and what fits in
    OneShot,        \* may a one-shot inflater take a piece of a stream for a whole? {FALSE}: never
    NoOwner, Mixed, \* of a stream: no piece yet; out of step with some peer
    Policies,       \* the settings the user may save
    MaxMessages,    \* bound: messages in all
    MaxSaves        \* bound: saves

\* "whole": text, or binary that is complete in itself; "stream": a piece of a zlib stream;
\* "binary": bytes no decoder knows; "control": ping and pong; "close".
Kinds == {"whole", "stream", "binary", "control", "close"}
Directions == {"out", "in"}
Channels == Connections \X Directions
Modes == {"off", "warn", "redact", "block"}
Settings == [mode : Modes, trusted : SUBSET Connections, hidden : SUBSET Connections,
             rewrite : SUBSET Connections]
Sensitive == Secrets \cup Markers

ASSUME SentAssumption == Sent \subseteq Kinds \X Texts
ASSUME TextAssumption ==
    /\ Texts # {} /\ NoText \notin Texts /\ Garbled \notin Texts /\ NoText # Garbled
    /\ Replace \in [Texts -> Texts] /\ Mask \in [Texts -> Texts]
    /\ Secrets \subseteq Texts /\ Markers \subseteq Texts /\ NotUtf8 \subseteq Texts
    /\ Large \subseteq Texts /\ Cut \in [Texts -> Texts]
    /\ \A t \in Texts : Mask[t] \notin Secrets
ASSUME OwnerAssumption ==
    NoOwner \notin Connections /\ Mixed \notin Connections /\ NoOwner # Mixed
ASSUME PolicyAssumption == Policies \subseteq Settings /\ Policies # {}
ASSUME BoundAssumption == MaxMessages \in Nat /\ MaxSaves \in Nat /\ OneShot \subseteq BOOLEAN

\* No window the model can follow: the inflater has failed, or has seen pieces of another stream.
Broken == <<Garbled>>
Windows == Seq(Texts) \cup {Broken}

VARIABLES
    settings,   \* the worker's settings
    saves,      \* saves so far
    messages,   \* messages so far
    source,     \* window of each sender's deflater
    peer,       \* window of each receiver's inflater
    dec, enc,   \* windows of ZlibStream.decoder and ZlibStream.encoder
    reencode,   \* ZlibStream.reencode_all
    pc,         \* where each handle_message stands
    msg,        \* the message it handles
    snap,       \* its clone of the settings
    text,       \* what decode_message made of it
    zstream,    \* whether ZlibStream decoded it (DecodeKind::ZlibStream)
    rows,       \* rows of the table, with what the receiver made of the message
    read,       \* history: what each receiver read
    owner       \* history: the connection whose stream a direction's ZlibStream follows

streams == <<dec, enc, reencode>>
vars == <<settings, saves, messages, source, peer, streams, pc, msg, snap, text,
          zstream, rows, read, owner>>

Frame == [kind : Kinds \cup {"ended"}, window : Seq(Texts), text : Texts]
Row == [shown : Texts \cup {NoText}, what : {"passed", "changed", "blocked"}, sure : BOOLEAN,
        got : Texts \cup {NoText, Garbled}]

TypeOK ==
    /\ settings \in Policies
    /\ saves \in 0..MaxSaves
    /\ messages \in 0..MaxMessages
    /\ source \in [Channels -> Seq(Texts)]
    /\ peer \in [Channels -> Windows]
    /\ dec \in [Directions -> Windows]
    /\ enc \in [Directions -> Seq(Texts)]
    /\ reencode \in [Directions -> BOOLEAN]
    /\ pc \in [Channels -> {"idle", "hidden", "decoded"}]
    /\ msg \in [Channels -> Frame]
    /\ snap \in [Channels -> Policies]
    /\ text \in [Channels -> Texts \cup {NoText}]
    /\ zstream \in [Channels -> BOOLEAN]
    /\ rows \in [Channels -> Seq(Row)]
    /\ read \in [Channels -> Seq(Texts \cup {Garbled})]
    /\ owner \in [Directions -> Connections \cup {NoOwner, Mixed}]

NoFrame == [kind |-> "control", window |-> <<>>, text |-> CHOOSE t \in Texts : TRUE]
NoSettings == CHOOSE p \in Policies : TRUE

Init ==
    /\ settings \in Policies
    /\ saves = 0
    /\ messages = 0
    /\ source = [ch \in Channels |-> <<>>]
    /\ peer = [ch \in Channels |-> <<>>]
    /\ dec = [d \in Directions |-> <<>>]
    /\ enc = [d \in Directions |-> <<>>]
    /\ reencode = [d \in Directions |-> FALSE]
    /\ pc = [ch \in Channels |-> "idle"]
    /\ msg = [ch \in Channels |-> NoFrame]
    /\ snap = [ch \in Channels |-> NoSettings]
    /\ text = [ch \in Channels |-> NoText]
    /\ zstream = [ch \in Channels |-> FALSE]
    /\ rows = [ch \in Channels |-> <<>>]
    /\ read = [ch \in Channels |-> <<>>]
    /\ owner = [d \in Directions |-> NoOwner]

----------------------------------------------------------------------------
(* Frames and windows.                                                     *)

\* A message the peer of ch may send next.
Messages(ch) ==
    {[kind |-> m[1], window |-> IF m[1] = "stream" THEN source[ch] ELSE <<>>, text |-> m[2]] :
        m \in Sent}

\* The receiver inflates a piece with the window it has; a complete stream ends its inflater.
PeerText(ch, f) ==
    IF (f.kind = "stream" /\ peer[ch] # f.window) \/ (f.kind = "ended" /\ peer[ch] = Broken)
    THEN Garbled ELSE f.text
PeerWindow(ch, f) ==
    CASE f.kind = "stream" -> IF peer[ch] = f.window THEN Append(peer[ch], f.text) ELSE Broken
      [] f.kind = "ended" -> Broken
      [] OTHER -> peer[ch]

PassOn(ch, f) ==
    /\ peer' = [peer EXCEPT ![ch] = PeerWindow(ch, f)]
    /\ read' = [read EXCEPT ![ch] = Append(@, PeerText(ch, f))]

\* A message of its own, or a piece of the stream the direction is in step with.
Sure(ch) == msg[ch].kind = "stream" => owner[ch[2]] = ch[1]

AddRow(ch, shown, what, got) ==
    LET row == [shown |-> shown, what |-> what, sure |-> Sure(ch), got |-> got]
    IN rows' = [rows EXCEPT ![ch] = Append(@, row)]

\* The handler returns; its variables are gone.
Finish(ch) ==
    /\ pc' = [pc EXCEPT ![ch] = "idle"]
    /\ msg' = [msg EXCEPT ![ch] = NoFrame]
    /\ text' = [text EXCEPT ![ch] = NoText]
    /\ zstream' = [zstream EXCEPT ![ch] = FALSE]
    /\ snap' = [snap EXCEPT ![ch] = NoSettings]

----------------------------------------------------------------------------
(* decode_message.                                                         *)

\* ZlibStream::decode: a buffer of four times the piece and 256 bytes; what does not fit is cut
\* off, and the inflater stops in the middle of the piece.
Inflated(t) == IF t \in Large THEN Cut[t] ELSE t
Readable(t) == IF t \in NotUtf8 THEN NoText ELSE t

Follow(d, o) == owner' = [owner EXCEPT ![d] = o]

\* A message that is complete in itself does not touch the streams.
DecodeWhole(ch, f) ==
    /\ f.kind \in {"whole", "close", "control"}
    /\ text' = [text EXCEPT ![ch] = IF f.kind = "control" THEN NoText ELSE f.text]
    /\ UNCHANGED <<dec, owner>>

\* decode_binary_stateless takes a piece for a whole: the first for a zlib stream that ends
\* early, a later one for raw deflate, whose references back come out as anything.
DecodeOneShot(ch, f) ==
    /\ f.kind = "stream" /\ f.text \notin NotUtf8
    /\ \E t \in IF f.window = <<>> THEN {f.text} ELSE Texts : text' = [text EXCEPT ![ch] = t]
    /\ Follow(ch[2], Mixed)
    /\ UNCHANGED dec

\* ZlibStream has the window of the piece.
DecodePiece(ch, f) ==
    LET d == ch[2]
    IN /\ f.kind = "stream" /\ dec[d] = f.window
       /\ text' = [text EXCEPT ![ch] = Readable(Inflated(f.text))]
       /\ dec' = [dec EXCEPT ![d] = IF f.text \in Large THEN Broken ELSE Append(@, f.text)]
       /\ Follow(d, IF f.text \in Large \cup NotUtf8 \/ owner[d] \notin {NoOwner, ch[1]} THEN Mixed
                    ELSE ch[1])

\* ZlibStream has another window, or the bytes are none of a stream: it fails, or yields some other
\* text.  A header in mid-stream, or none at the start, makes it fail.
DecodeForeign(ch, f) ==
    LET d == ch[2]
    IN /\ f.kind = "binary" \/ (f.kind = "stream" /\ dec[d] # f.window)
       /\ \E t \in {NoText} \cup
                   (IF f.kind = "binary" \/ f.window = <<>> \/ dec[d] = <<>> THEN {} ELSE Texts) :
            text' = [text EXCEPT ![ch] = t]
       /\ dec' = [dec EXCEPT ![d] = Broken]
       /\ Follow(d, Mixed)

DecodeMessage(ch, f) ==
    \/ /\ DecodeWhole(ch, f)
       /\ UNCHANGED zstream
    \/ /\ TRUE \in OneShot
       /\ DecodeOneShot(ch, f)
       /\ UNCHANGED zstream
    \/ /\ FALSE \in OneShot \/ f.text \in NotUtf8 \/ f.kind = "binary"
       /\ DecodePiece(ch, f) \/ DecodeForeign(ch, f)
       /\ zstream' = [zstream EXCEPT ![ch] = TRUE]

----------------------------------------------------------------------------
(* handle_message.                                                         *)

\* The settings are cloned; a message of a hidden host is returned untouched.
Receive(ch) ==
    /\ pc[ch] = "idle"
    /\ messages < MaxMessages
    /\ messages' = messages + 1
    /\ \E f \in Messages(ch) :
         /\ msg' = [msg EXCEPT ![ch] = f]
         /\ source' = [source EXCEPT ![ch] = IF f.kind = "stream" THEN Append(@, f.text) ELSE @]
         /\ snap' = [snap EXCEPT ![ch] = settings]
         /\ \/ /\ ch[1] \in settings.hidden
               /\ pc' = [pc EXCEPT ![ch] = "hidden"]
               /\ IF f.kind = "stream" /\ owner[ch[2]] = ch[1] THEN Follow(ch[2], Mixed)
                                                               ELSE UNCHANGED owner
               /\ UNCHANGED <<dec, text, zstream>>
            \/ /\ ch[1] \notin settings.hidden
               /\ pc' = [pc EXCEPT ![ch] = "decoded"]
               /\ DecodeMessage(ch, f)
    /\ UNCHANGED <<settings, saves, peer, enc, reencode, rows, read>>

PassHidden(ch) ==
    /\ pc[ch] = "hidden"
    /\ PassOn(ch, msg[ch])
    /\ Finish(ch)
    /\ UNCHANGED <<settings, saves, messages, source, streams, rows, owner>>

\* The rules, and after them the guard, as the clone of the settings says.
Rewritten(ch) == IF ch[1] \in snap[ch].rewrite THEN Replace[text[ch]] ELSE text[ch]

\* Mutant, and definition: protect_websocket_text looks at the text the rules have made.
GuardOriginal(ch) ==
    IF ch[2] = "in" \/ snap[ch].mode = "off" \/ ch[1] \in snap[ch].trusted
         \/ text[ch] \notin Sensitive
    THEN "none"
    ELSE snap[ch].mode
GuardAction(ch) ==
    IF ch[2] = "in" \/ snap[ch].mode = "off" \/ ch[1] \in snap[ch].trusted
         \/ Rewritten(ch) \notin Sensitive
    THEN "none"
    ELSE snap[ch].mode

Protected(ch) == IF GuardAction(ch) = "redact" THEN Mask[Rewritten(ch)] ELSE Rewritten(ch)
Changed(ch) == Rewritten(ch) # text[ch] \/ GuardAction(ch) = "redact"

\* Mutant: the deflater is fed although there is no text.
PassUnreadEncoded(ch) ==
    /\ pc[ch] = "decoded"
    /\ text[ch] = NoText
    /\ enc' = [enc EXCEPT ![ch[2]] = Append(@, text[ch])]
    /\ AddRow(ch, NoText, "passed", PeerText(ch, msg[ch]))
    /\ PassOn(ch, msg[ch])
    /\ Finish(ch)
    /\ UNCHANGED <<settings, saves, messages, source, dec, reencode, owner>>

\* A message the proxy could not read is returned as it came.
PassUnread(ch) ==
    /\ pc[ch] = "decoded"
    /\ text[ch] = NoText
    /\ AddRow(ch, NoText, "passed", PeerText(ch, msg[ch]))
    /\ PassOn(ch, msg[ch])
    /\ Finish(ch)
    /\ UNCHANGED <<settings, saves, messages, source, streams, owner>>

\* The row is sent, the message is not.  The deflater does not see a piece that is dropped: the
\* receiver keeps up only if it is already fed by the deflater.
Block(ch) ==
    /\ pc[ch] = "decoded"
    /\ text[ch] # NoText
    /\ GuardAction(ch) = "block"
    /\ AddRow(ch, Protected(ch), "blocked", NoText)
    /\ IF msg[ch].kind = "stream" /\ owner[ch[2]] = ch[1] /\ ~reencode[ch[2]]
       THEN Follow(ch[2], Mixed) ELSE UNCHANGED owner
    /\ Finish(ch)
    /\ UNCHANGED <<settings, saves, messages, source, peer, streams, read>>

\* Mutant: the deflater starts with the first message it changes.
EncodeLate(ch) ==
    LET d == ch[2]
    IN /\ reencode' = [reencode EXCEPT ![d] = @ \/ Changed(ch)]
       /\ enc' = [enc EXCEPT ![d] = IF reencode'[d] THEN Append(@, Protected(ch)) ELSE @]

\* Mutant: only the messages that changed are sent re-encoded.
EncodeOnce(ch) ==
    LET d == ch[2]
    IN /\ reencode' = [reencode EXCEPT ![d] = Changed(ch)]
       /\ enc' = [enc EXCEPT ![d] = Append(@, Protected(ch))]

\* Mutant: every piece is sent re-encoded.
EncodeAlways(ch) ==
    LET d == ch[2]
    IN /\ reencode' = [reencode EXCEPT ![d] = TRUE]
       /\ enc' = [enc EXCEPT ![d] = Append(@, Protected(ch))]

\* ZlibStream::encode: the deflater sees every text of the stream, from the first message on.
Encode(ch) ==
    LET d == ch[2]
    IN /\ reencode' = [reencode EXCEPT ![d] = @ \/ Changed(ch)]
       /\ enc' = [enc EXCEPT ![d] = Append(@, Protected(ch))]

What(ch) == IF Changed(ch) THEN "changed" ELSE "passed"

\* encode_message for a piece ZlibStream decoded.
ForwardPiece(ch) ==
    /\ pc[ch] = "decoded"
    /\ text[ch] # NoText
    /\ GuardAction(ch) # "block"
    /\ zstream[ch]
    /\ Encode(ch)
    /\ LET d == ch[2]
           f == IF reencode'[d]
                THEN [kind |-> "stream", window |-> enc[d], text |-> Protected(ch)]
                ELSE msg[ch]
       IN /\ AddRow(ch, Protected(ch), What(ch), PeerText(ch, f))
          /\ PassOn(ch, f)
    /\ Finish(ch)
    /\ UNCHANGED <<settings, saves, messages, source, dec, owner>>

\* encode_message for a message that is complete in itself, or was taken for one.  A changed close
\* message is sent as a text message, a changed piece as a stream that ends.
ForwardWhole(ch) ==
    /\ pc[ch] = "decoded"
    /\ text[ch] # NoText
    /\ GuardAction(ch) # "block"
    /\ ~zstream[ch]
    /\ LET f == IF ~Changed(ch) THEN msg[ch]
                ELSE [kind |-> IF msg[ch].kind = "stream" THEN "ended" ELSE "whole",
                      window |-> <<>>, text |-> Protected(ch)]
       IN /\ AddRow(ch, Protected(ch), What(ch), PeerText(ch, f))
          /\ PassOn(ch, f)
    /\ Finish(ch)
    /\ UNCHANGED <<settings, saves, messages, source, streams, owner>>

----------------------------------------------------------------------------
\* CaptureWorker::update_settings; no handler of this module holds the lock across a step.
Save ==
    /\ saves < MaxSaves
    /\ saves' = saves + 1
    /\ settings' \in Policies
    /\ UNCHANGED <<messages, source, peer, streams, pc, msg, snap, text, zstream, rows, read, owner>>

Handle(ch) ==
    Receive(ch) \/ PassHidden(ch) \/ PassUnread(ch) \/ Block(ch) \/ ForwardPiece(ch)
        \/ ForwardWhole(ch)

Next == (\E ch \in Channels : Handle(ch)) \/ Save

Spec == Init /\ [][Next]_vars

----------------------------------------------------------------------------
(* Properties.                                                             *)

\* The four windows in step (ZlibStream): as long as the pieces of one connection, all read by
\* ZlibStream, make up a direction's stream, the receiver can read every message the proxy
\* forwards, and reads in it what the table shows, from whatever piece on the stream is rewritten.
PeerReadsRow ==
    \A ch \in Channels : \A i \in 1..Len(rows[ch]) :
        LET row == rows[ch][i]
        IN row.sure /\ row.what # "blocked" => row.got # Garbled /\ row.shown \in {row.got, NoText}

Untouched(d) ==
    \A ch \in Channels : ch[2] = d => \A i \in 1..Len(rows[ch]) : rows[ch][i].what = "passed"

\* However badly the proxy reads a direction (encode_message returns "original"): while it has
\* changed and blocked nothing there, no receiver is sent anything it cannot read.
Transparent ==
    \A d \in Directions :
        Untouched(d) => \A ch \in Channels : ch[2] = d =>
                            \A i \in 1..Len(read[ch]) : read[ch][i] # Garbled

\* "WebSocket binary messages are re-encoded in their original format after replacement"
\* (README.md): no receiver is sent a piece it cannot read.
PeerReads == \A ch \in Channels : \A i \in 1..Len(read[ch]) : read[ch][i] # Garbled

\* The guard comes after the rules (handle_message): a secret the rules put into an outgoing
\* message is redacted or blocked like one the application sent, if the proxy could read it.
SecretsGuarded ==
    [][\A ch \in Channels :
          /\ ch[2] = "out" /\ read'[ch] # read[ch]
          /\ read'[ch][Len(read'[ch])] \in Secrets /\ Sure(ch)
          => \/ snap[ch].mode \in {"off", "warn"}
             \/ ch[1] \in snap[ch].trusted \cup snap[ch].hidden
             \/ text[ch] = NoText]_vars

\* The promise, channel by channel: the receiver's texts are the sender's, each as it is or as the
\* rules and the guard make it, in order and complete but for blocked ones.
Rewriting == INSTANCE RewritingChannels WITH
    Becomes <- [t \in Texts |-> {Replace[t], Mask[t], Mask[Replace[t]]}],
    Droppable <- [ch \in Channels |->
        {t \in Texts : ch[2] = "out" /\ (t \in Sensitive \/ Replace[t] \in Sensitive)}],
    pending <- [ch \in Channels |-> IF pc[ch] = "idle" THEN NoText ELSE msg[ch].text],
    received <- read,
    spoilt <- {ch \in Channels : owner[ch[2]] = Mixed}

ImplementsRewritingChannels == Rewriting!Spec
=============================================================================
