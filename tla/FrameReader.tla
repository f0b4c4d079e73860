----------------------------- MODULE FrameReader ----------------------------
(***************************************************************************)
(* How frames are found in what a socket delivers: the loop of             *)
(* Http2Connection::run() after receive_preface() (src/http2/connection.cpp)*)
(* and that of WebSocketConnectionImpl::receive() (src/net/websocket.cpp). *)
(* Both append what they read to read_buffer_ and take a frame from its    *)
(* front when all of it is there.                                          *)
(***************************************************************************)
EXTENDS Frames, SequencesExt

CONSTANTS
    Clients,        \* what a client sends: [protocol, preface, frames]
    MaxFrameSize,   \* local_settings_.max_frame_size
    MaxRead         \* a bound: the octets that the socket delivers at once

FrameReaderAssumption == MaxFrameSize \in Nat /\ MaxRead \in Nat \ {0}

VARIABLES
    client,         \* what is sent on this connection
    stream,         \* the octets of it that have not been read
    read_buffer_,
    stage,          \* "preface", "frames", or "failed", "closed"
    received        \* the frames that were handed on

vars == <<client, stream, read_buffer_, stage, received>>

(* "PRI * HTTP/2.0", two ends of line, "SM" and two ends of line.          *)
Preface == <<80, 82, 73, 32, 42, 32, 72, 84, 84, 80, 47, 50, 46, 48, 13, 10, 13, 10,
             83, 77, 13, 10, 13, 10>>

Octets(protocol, f) ==
    IF protocol = "h2" THEN serialize(f.header) \o f.payload
    ELSE serialize_frame_header(f.header)
         \o (IF f.header.masked THEN apply_mask(f.payload, f.header.mask_key) ELSE f.payload)

Sent(c) ==
    (IF c.protocol = "h2" THEN c.preface ELSE <<>>)
    \o FlattenSeq([i \in DOMAIN c.frames |-> Octets(c.protocol, c.frames[i])])

Init ==
    /\ client \in Clients
    /\ stream = Sent(client) /\ read_buffer_ = <<>> /\ received = <<>>
    /\ stage = IF client.protocol = "h2" THEN "preface" ELSE "frames"

-----------------------------------------------------------------------------
Drop(n) == read_buffer_' = SubSeq(read_buffer_, n + 1, Len(read_buffer_))
Fail == stage' = "failed" /\ UNCHANGED <<client, stream, read_buffer_, received>>

(* receive_preface().                                                      *)
PrefaceComplete == stage = "preface" /\ Len(read_buffer_) >= Len(Preface)
TakePreface ==
    /\ PrefaceComplete /\ IsPrefix(Preface, read_buffer_)
    /\ Drop(Len(Preface)) /\ stage' = "frames"
    /\ UNCHANGED <<client, stream, received>>
RefusePreface == PrefaceComplete /\ ~IsPrefix(Preface, read_buffer_) /\ Fail

(* run(): a header, then the frame it announces.                           *)
H2Header ==
    stage = "frames" /\ client.protocol = "h2" /\ Len(read_buffer_) >= FrameHeaderSize
TooLarge == parse(read_buffer_).length > MaxFrameSize
H2Complete ==
    H2Header /\ ~TooLarge
             /\ Len(read_buffer_) >= FrameHeaderSize + parse(read_buffer_).length
TakeH2Frame ==
    /\ H2Complete
    /\ LET header == parse(read_buffer_)
           size == FrameHeaderSize + header.length
       IN  /\ received' = Append(received, [header |-> header,
                              payload |-> SubSeq(read_buffer_, FrameHeaderSize + 1, size)])
           /\ Drop(size)
    /\ UNCHANGED <<client, stream, stage>>
RefuseFrame == H2Header /\ TooLarge /\ Fail

(* receive(): header and payload are looked for together.                  *)
WsComplete ==
    /\ stage = "frames" /\ client.protocol = "websocket" /\ HeaderComplete(read_buffer_)
    /\ Len(read_buffer_) >= HeaderSize(read_buffer_[2])
                            + parse_frame_header(read_buffer_).payload_length
TakeWsFrame ==
    /\ WsComplete
    /\ LET header == parse_frame_header(read_buffer_)
           first == HeaderSize(read_buffer_[2])
           size == first + header.payload_length
           payload == SubSeq(read_buffer_, first + 1, size)
       IN  /\ received' = Append(received, [header |-> header,
                              payload |-> IF header.masked THEN apply_mask(payload, header.mask_key)
                                          ELSE payload])
           /\ Drop(size)
    /\ UNCHANGED <<client, stream, stage>>

(* read_more(), the read of receive(): some of what the socket has ...     *)
Reading ==
    stage \in {"preface", "frames"} /\ ~PrefaceComplete /\ ~H2Complete /\ ~WsComplete
    /\ ~(H2Header /\ TooLarge)
Read ==
    /\ Reading
    /\ \E n \in 1 .. MaxRead :
        /\ n <= Len(stream)
        /\ read_buffer_' = read_buffer_ \o SubSeq(stream, 1, n)
        /\ stream' = SubSeq(stream, n + 1, Len(stream))
    /\ UNCHANGED <<client, stage, received>>

(* ... or nothing, because the client has gone.                            *)
ReadFails == Reading /\ stage' = "closed" /\ UNCHANGED <<client, stream, read_buffer_, received>>

Reader == TakePreface \/ RefusePreface \/ TakeH2Frame \/ RefuseFrame \/ TakeWsFrame \/ Read

Next == Reader \/ ReadFails

Spec == Init /\ [][Next]_vars

-----------------------------------------------------------------------------
(* The frames that are handed on are those that were sent, in their order  *)
(* and with their payloads unmasked, wherever the socket cuts the octets;  *)
(* when there is nothing left to read all have been, and nothing remains.  *)
(* A connection is given up only for its preface or a frame too large.     *)
FramesReadAsSent ==
    /\ IsPrefix(received, client.frames)
    /\ stage \in {"preface", "frames"} /\ ~ENABLED Reader =>
           received = client.frames /\ read_buffer_ = <<>>
    /\ stage = "failed" =>
           \/ client.preface # Preface
           \/ client.frames[Len(received) + 1].header.length > MaxFrameSize
=============================================================================
