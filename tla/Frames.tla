------------------------------- MODULE Frames -------------------------------
(***************************************************************************)
(* The octets of frames: HTTP/2's (src/http2/frame.cpp and what            *)
(* src/http2/connection.cpp makes of payloads) and WebSocket's             *)
(* (src/net/websocket.cpp).  All numbers are sent with their most          *)
(* significant octet first.                                                *)
(***************************************************************************)
EXTENDS Integers, Sequences

Octet == 0 .. 255

Big2(v) == <<(v \div 256) % 256, v % 256>>
Big3(v) == <<(v \div 65536) % 256, (v \div 256) % 256, v % 256>>
Big4(v) == <<(v \div 16777216) % 256, (v \div 65536) % 256, (v \div 256) % 256, v % 256>>
Big8(v) == Big4((v \div 65536) \div 65536) \o Big4(v)

(* A number of 31 bits, the most significant bit of its octets being 0.    *)
Big31(v) == <<(v \div 16777216) % 128, (v \div 65536) % 256, (v \div 256) % 256, v % 256>>

(* The number in the octets of "data" from the i-th.                       *)
Num2(data, i) == data[i] * 256 + data[i + 1]
Num3(data, i) == data[i] * 65536 + Num2(data, i + 1)
Num4(data, i) == data[i] * 16777216 + Num3(data, i + 1)
Num8(data, i) == (Num4(data, i) * 65536) * 65536 + Num4(data, i + 4)
Num31(data, i) == (data[i] % 128) * 16777216 + Num3(data, i + 1)

-----------------------------------------------------------------------------
(* HTTP/2.                                                                 *)

FrameHeaderSize == 9

Bits24 == {n \in Nat : n < 16777216}
Bits31 == {n \in Nat : n <= 2147483647}
Header == [length : Bits24, type : Octet, flags : Octet, stream_id : Bits31]

serialize(h) == Big3(h.length) \o <<h.type, h.flags>> \o Big31(h.stream_id)

(* For at least FrameHeaderSize octets; the reserved bit is ignored.       *)
parse(data) ==
    [length |-> Num3(data, 1), type |-> data[4], flags |-> data[5],
     stream_id |-> Num31(data, 6)]

Frame(type, flags, stream_id, payload) ==
    [header |-> [length |-> Len(payload), type |-> type, flags |-> flags, stream_id |-> stream_id],
     payload |-> payload]

EndStream == 1
EndHeaders == 4
Ack == 1

(* A setting is an identifier of two octets and a value of four.           *)
Setting == [id : {n \in Nat : n < 65536}, value : {n \in Nat : n \div 65536 < 65536}]
SettingOctets(setting) == Big2(setting.id) \o Big4(setting.value)
settings_payload(settings) ==
    [k \in 1 .. 6 * Len(settings) |->
        SettingOctets(settings[((k - 1) \div 6) + 1])[((k - 1) % 6) + 1]]
parse_settings(payload) ==
    [i \in 1 .. Len(payload) \div 6 |->
        [id |-> Num2(payload, 6 * (i - 1) + 1), value |-> Num4(payload, 6 * (i - 1) + 3)]]

settings_frame(settings, ack) ==
    Frame(4, IF ack THEN Ack ELSE 0, 0, IF ack THEN <<>> ELSE settings_payload(settings))
ping_frame(opaque_data, ack) == Frame(6, IF ack THEN Ack ELSE 0, 0, opaque_data)
goaway_frame(last_stream_id, error, debug_data) ==
    Frame(7, 0, 0, Big31(last_stream_id) \o Big4(error) \o debug_data)
window_update_frame(stream_id, increment) == Frame(8, 0, stream_id, Big31(increment))
rst_stream_frame(stream_id, error) == Frame(3, 0, stream_id, Big4(error))
data_frame(stream_id, data, end_stream) ==
    Frame(0, IF end_stream THEN EndStream ELSE 0, stream_id, data)
headers_frame(stream_id, block, end_stream, end_headers) ==
    Frame(1, (IF end_stream THEN EndStream ELSE 0) + (IF end_headers THEN EndHeaders ELSE 0),
          stream_id, block)

parse_window_update(payload) == Num31(payload, 1)
parse_goaway(payload) == [last_stream |-> Num31(payload, 1), error |-> Num4(payload, 5)]

-----------------------------------------------------------------------------
(* WebSocket.  A header has fin, the three reserved bits, the opcode and,  *)
(* for a masked payload, the key.  Lengths are below 2^63, as the protocol *)
(* demands.                                                                *)

NoKey == <<0, 0, 0, 0>>
Bits63 == {n \in Nat : (n \div 65536) \div 65536 <= 2147483647}
WsHeader ==
    {h \in [fin : BOOLEAN, rsv : 0 .. 7, opcode : 0 .. 15, masked : BOOLEAN,
            payload_length : Bits63, mask_key : Octet \X Octet \X Octet \X Octet] :
        h.masked \/ h.mask_key = NoKey}

LengthCode(length) == IF length <= 125 THEN length ELSE IF length <= 65535 THEN 126 ELSE 127
LengthOctets(length) ==
    IF length <= 125 THEN <<>> ELSE IF length <= 65535 THEN Big2(length) ELSE Big8(length)

serialize_frame_header(h) ==
    <<(IF h.fin THEN 128 ELSE 0) + 16 * h.rsv + h.opcode,
      (IF h.masked THEN 128 ELSE 0) + LengthCode(h.payload_length)>>
    \o LengthOctets(h.payload_length)
    \o (IF h.masked THEN h.mask_key ELSE <<>>)

(* How many octets the second one says the header has.                     *)
MaskAt(second) == IF second % 128 <= 125 THEN 2 ELSE IF second % 128 = 126 THEN 4 ELSE 10
HeaderSize(second) == MaskAt(second) + (IF second >= 128 THEN 4 ELSE 0)

(* Whether parse_frame_header() has enough octets, and what it finds.      *)
HeaderComplete(data) == Len(data) >= 2 /\ Len(data) >= HeaderSize(data[2])
parse_frame_header(data) ==
    LET code == data[2] % 128
        mask == MaskAt(data[2])
    IN  [fin |-> data[1] >= 128, rsv |-> (data[1] \div 16) % 8, opcode |-> data[1] % 16,
         masked |-> data[2] >= 128,
         payload_length |-> IF code <= 125 THEN code
                            ELSE IF code = 126 THEN Num2(data, 3) ELSE Num8(data, 3),
         mask_key |-> IF data[2] >= 128
                      THEN <<data[mask + 1], data[mask + 2], data[mask + 3], data[mask + 4]>>
                      ELSE NoKey]

(* Exclusive or, bit by bit.                                               *)
Bit(a, i) == (a \div i) % 2
BitXor(a, b, i) == (Bit(a, i) + Bit(b, i)) % 2
Xor(a, b) ==
    BitXor(a, b, 1) + 2 * BitXor(a, b, 2) + 4 * BitXor(a, b, 4) + 8 * BitXor(a, b, 8)
    + 16 * BitXor(a, b, 16) + 32 * BitXor(a, b, 32) + 64 * BitXor(a, b, 64)
    + 128 * BitXor(a, b, 128)

apply_mask(data, key) == [i \in 1 .. Len(data) |-> Xor(data[i], key[((i - 1) % 4) + 1])]
=============================================================================
