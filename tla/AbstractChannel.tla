--------------------------- MODULE AbstractChannel ---------------------------
(***************************************************************************)
(* What WebSocketConnection::receive() promises to its caller: the         *)
(* messages of the client, each one whole, once and in order, and all of   *)
(* them as long as the connection is up.  Frames, fragments and control    *)
(* frames are not visible here.                                            *)
(***************************************************************************)
EXTENDS Sequences, Naturals

CONSTANT Messages

VARIABLES
    sent,       \* messages the client has finished sending
    received,   \* messages receive() has returned
    up          \* the connection carries messages

channelVars == <<sent, received, up>>

ChannelInit == sent = <<>> /\ received = <<>> /\ up = TRUE

Send ==
    /\ \E m \in Messages : sent' = Append(sent, m)
    /\ UNCHANGED <<received, up>>

Receive ==
    /\ Len(received) < Len(sent)
    /\ received' = Append(received, sent[Len(received) + 1])
    /\ UNCHANGED <<sent, up>>

GoDown ==
    /\ up' = FALSE
    /\ UNCHANGED <<sent, received>>

ChannelNext == Send \/ Receive \/ GoDown

ChannelSafety == ChannelInit /\ [][ChannelNext]_channelVars

ChannelSpec == ChannelSafety /\ WF_channelVars(up /\ Receive)
=============================================================================
