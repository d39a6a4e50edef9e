--------------------------- MODULE RewritingChannels ---------------------------
(***************************************************************************)
(* What channels that rewrite their messages promise: every message is     *)
(* delivered once, in order, as it is or as a rule makes of it; only a     *)
(* message that may be dropped is ever missing.  A channel may be spoilt:  *)
(* it keeps the order and the number of its messages, not their contents.  *)
(***************************************************************************)
EXTENDS Sequences

CONSTANTS
    Channels,
    Texts,
    NoText,         \* no message is on its way
    Garbled,        \* what a receiver makes of a message it cannot read
    Becomes,        \* what a message may be changed into
    Droppable       \* messages each channel may drop

VARIABLES
    pending,        \* the message on its way, for each channel
    received,       \* what has been delivered
    spoilt          \* channels that no longer keep the contents

Init ==
    /\ pending = [ch \in Channels |-> NoText]
    /\ received = [ch \in Channels |-> <<>>]
    /\ spoilt = {}

Spoil == spoilt \subseteq spoilt' /\ spoilt' \subseteq Channels

Accept(ch) ==
    /\ pending[ch] = NoText
    /\ \E t \in Texts : pending' = [pending EXCEPT ![ch] = t]
    /\ Spoil
    /\ UNCHANGED received

Deliver(ch) ==
    /\ pending[ch] # NoText
    /\ \E t \in {pending[ch]} \cup Becomes[pending[ch]]
                 \cup (IF ch \in spoilt THEN Texts \cup {Garbled} ELSE {}) :
          received' = [received EXCEPT ![ch] = Append(@, t)]
    /\ pending' = [pending EXCEPT ![ch] = NoText]
    /\ UNCHANGED spoilt

Drop(ch) ==
    /\ pending[ch] \in Droppable[ch] \cup (IF ch \in spoilt THEN Texts ELSE {})
    /\ pending' = [pending EXCEPT ![ch] = NoText]
    /\ Spoil
    /\ UNCHANGED received

Next == \E ch \in Channels : Accept(ch) \/ Deliver(ch) \/ Drop(ch)

Spec == Init /\ [][Next]_<<pending, received, spoilt>>
=============================================================================
