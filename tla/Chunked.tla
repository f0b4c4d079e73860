------------------------------- MODULE Chunked ------------------------------
(***************************************************************************)
(* Chunked transfer coding (src/core/chunked.cpp): a body that one side    *)
(* writes chunk by chunk, as ChunkedResponse does, and that the other side *)
(* reads with ChunkedBodyReader, from a stream that is cut anywhere.       *)
(*                                                                         *)
(* A byte is a string of one character, or "CR" or "LF".                   *)
(***************************************************************************)
EXTENDS Integers, Sequences

CONSTANTS
    Data,       \* what the writer may write in one call: sequences of bytes
    MaxCalls,   \* a bound: calls of write()
    MaxSize,    \* read_all()'s limit
    MaxLine,    \* read_line()'s
    LineRead,   \* the size of its reads
    Width       \* the bits of the integer that holds a chunk's size

ChunkedAssumption ==
    /\ {MaxCalls, MaxSize, MaxLine} \subseteq Nat
    /\ LineRead \in Nat \ {0} /\ Width \in Nat \ {0}

VARIABLES
    headers_sent, finished,     \* the ChunkedResponse
    trailer,                    \* whether it has one
    call,                       \* what it writes, or "idle"
    data,                       \* the argument of write()
    headers,                    \* header sections on the wire
    wire, lost,                 \* the stream, and whether it has broken
    buffer_, at, need, got,     \* the ChunkedBodyReader
    chunk,                      \* the data of the chunk it is in
    trailers,                   \* the trailers it has found
    sent, received,             \* chunks written and returned
    conforming,                 \* the writer announced sizes that fit
    calls

writer == <<headers_sent, finished, trailer, call, data, headers, sent, conforming, calls>>
reader == <<buffer_, at, need, got, chunk, trailers, received>>
vars == <<writer, wire, lost, reader>>

CRLF == <<"CR", "LF">>

Init ==
    /\ headers_sent = FALSE /\ finished = FALSE /\ trailer \in BOOLEAN
    /\ call = "idle" /\ data = <<>> /\ headers = 0
    /\ wire = <<>> /\ lost = FALSE
    /\ buffer_ = <<>> /\ at = "size" /\ need = 0 /\ got = <<>> /\ chunk = <<>>
    /\ trailers = 0
    /\ sent = <<>> /\ received = <<>> /\ conforming = TRUE /\ calls = 0

-----------------------------------------------------------------------------
(* ChunkedResponse.                                                        *)

Hex(n) == <<"0", "1", "2", "3">>[n + 1]

encode_chunk(d) == <<Hex(Len(d))>> \o CRLF \o d \o CRLF
encode_final_chunk == <<"0">> \o CRLF \o (IF trailer THEN <<"t">> \o CRLF ELSE <<>>) \o CRLF

(* Mutant: an empty chunk is written like any other.                       *)
AfterHeadersAlways(d) == "chunk"

(* write() and finish() begin with the headers, if they have to; an empty  *)
(* chunk would be the last one and is not written.                         *)
AfterHeaders(d) == IF d = <<>> THEN "idle" ELSE "chunk"

Write(d) ==
    /\ call = "idle" /\ ~finished /\ calls < MaxCalls
    /\ calls' = calls + 1 /\ data' = d
    /\ call' = IF headers_sent THEN AfterHeaders(d) ELSE "headers"
    /\ UNCHANGED <<headers_sent, finished, trailer, headers, sent, conforming, wire, lost, reader>>

Finish ==
    /\ call = "idle" /\ ~finished
    /\ call' = IF headers_sent THEN "final" ELSE "headers, final"
    /\ UNCHANGED <<headers_sent, finished, trailer, data, headers, sent, conforming, calls, wire,
                   lost, reader>>

send_headers ==
    /\ call \in {"headers", "headers, final"} /\ ~lost
    /\ headers' = headers + 1 /\ headers_sent' = TRUE
    /\ call' = IF call = "headers" THEN AfterHeaders(data) ELSE "final"
    /\ UNCHANGED <<finished, trailer, data, sent, conforming, calls, wire, lost, reader>>

WriteChunk ==
    /\ call = "chunk" /\ ~lost
    /\ wire' = wire \o encode_chunk(data) /\ sent' = Append(sent, data)
    /\ call' = "idle"
    /\ UNCHANGED <<headers_sent, finished, trailer, data, headers, conforming, calls, lost, reader>>

WriteFinal ==
    /\ call = "final" /\ ~lost
    /\ wire' = wire \o encode_final_chunk
    /\ finished' = TRUE /\ call' = "idle"
    /\ UNCHANGED <<headers_sent, trailer, data, headers, sent, conforming, calls, lost, reader>>

(* Other writers pad the size or add an extension, or announce what does   *)
(* not fit an int64_t.                                                     *)
ForeignLine(d) == { <<"0", Hex(Len(d))>>, <<Hex(Len(d)), ";", "x">> }
HugeLine == <<"1", "0", "0">>

ForeignChunk ==
    /\ call = "chunk" /\ ~lost
    /\ \/ /\ \E line \in ForeignLine(data) : wire' = wire \o line \o CRLF \o data \o CRLF
          /\ sent' = Append(sent, data) /\ UNCHANGED conforming
       \/ /\ wire' = wire \o HugeLine \o CRLF \o data
          /\ conforming' = FALSE /\ UNCHANGED sent
    /\ call' = "idle"
    /\ UNCHANGED <<headers_sent, finished, trailer, data, headers, calls, lost, reader>>

(* The connection breaks, in the middle of a chunk perhaps: the write      *)
(* fails and leaves the flags as they are.                                 *)
Break ==
    /\ ~lost /\ lost' = TRUE
    /\ \/ UNCHANGED wire
       \/ /\ call = "chunk"
          /\ \E n \in 1 .. Len(encode_chunk(data)) - 1 :
                wire' = wire \o SubSeq(encode_chunk(data), 1, n)
    /\ UNCHANGED <<writer, reader>>

WriteFails ==
    /\ call # "idle" /\ lost /\ call' = "idle"
    /\ UNCHANGED <<headers_sent, finished, trailer, data, headers, sent, conforming, calls, wire,
                   lost, reader>>

-----------------------------------------------------------------------------
(* ChunkedBodyReader.                                                      *)

Smaller(m, n) == IF m < n THEN m ELSE n
First(s, n) == SubSeq(s, 1, Smaller(n, Len(s)))
Rest(s, n) == SubSeq(s, n + 1, Len(s))

Digit == [d \in {"0", "1", "2", "3"} |->
            CASE d = "0" -> 0 [] d = "1" -> 1 [] d = "2" -> 2 [] d = "3" -> 3]

(* Mutant: extensions are part of the size.                                *)
WholeLine(line) == line

UpToSemicolon(line) ==
    First(line, CHOOSE n \in 0..Len(line) :
                    /\ \A i \in 1..n : line[i] # ";"
                    /\ n = Len(line) \/ line[n + 1] = ";")

(* parse_chunk_size(): hexadecimal digits up to a semicolon, in two's      *)
(* complement; -1 for anything else.                                       *)
parse_chunk_size(line) ==
    LET digits == UpToSemicolon(line)
        value[i \in 0..Len(digits)] ==
            IF i = 0 THEN 0 ELSE (16 * value[i - 1] + Digit[digits[i]]) % 2^Width
        result == value[Len(digits)]
    IN IF digits = <<>> \/ \E i \in DOMAIN digits : digits[i] \notin DOMAIN Digit THEN -1
       ELSE IF result < 2^(Width - 1) THEN result
       ELSE result - 2^Width

(* Where the first line that is in the buffer ends, or 0.                  *)
LineEnd(bytes) ==
    LET ends == { i \in 1 .. Len(bytes) - 1 : SubSeq(bytes, i, i + 1) = CRLF }
    IN IF ends = {} THEN 0 ELSE CHOOSE i \in ends : \A j \in ends : i <= j

Fail == at' = "failed" /\ UNCHANGED <<need, got>>

(* read_line() reads only when no line is left of what was read before.    *)
ReadLine ==
    /\ at \in {"size", "trailers"} /\ LineEnd(buffer_) = 0 /\ wire # <<>>
    /\ \E n \in 1 .. Smaller(Len(wire), LineRead) :
          buffer_' = buffer_ \o First(wire, n) /\ wire' = Rest(wire, n)
    /\ IF LineEnd(buffer_') = 0 /\ Len(buffer_') > MaxLine THEN Fail
       ELSE UNCHANGED <<at, need, got>>
    /\ UNCHANGED <<writer, lost, chunk, trailers, received>>

Line == First(buffer_, LineEnd(buffer_) - 1)
AfterLine == Rest(buffer_, LineEnd(buffer_) + 1)

(* read_bytes() begins with what the buffer has.                           *)
StartBytes(bytes, n) ==
    /\ need' = n /\ got' = First(bytes, n) /\ buffer_' = Rest(bytes, Smaller(n, Len(bytes)))

SizeLine ==
    /\ at = "size" /\ LineEnd(buffer_) # 0
    /\ LET size == parse_chunk_size(Line)
       IN IF size < 0 THEN Fail /\ buffer_' = AfterLine
          ELSE IF size = 0 THEN at' = "trailers" /\ buffer_' = AfterLine /\ UNCHANGED <<need, got>>
          ELSE at' = "data" /\ StartBytes(AfterLine, size)
    /\ UNCHANGED <<writer, wire, lost, chunk, trailers, received>>

TrailerLine ==
    /\ at = "trailers" /\ LineEnd(buffer_) # 0
    /\ buffer_' = AfterLine
    /\ IF Line = <<>> THEN at' = "finished" /\ UNCHANGED trailers
       ELSE trailers' = trailers + 1 /\ UNCHANGED at
    /\ UNCHANGED <<writer, wire, lost, need, got, chunk, received>>

ReadBytes ==
    /\ at \in {"data", "crlf"} /\ Len(got) < need /\ wire # <<>>
    /\ \E n \in 1 .. Smaller(Len(wire), need - Len(got)) :
          got' = got \o First(wire, n) /\ wire' = Rest(wire, n)
    /\ UNCHANGED <<writer, lost, buffer_, at, need, chunk, trailers, received>>

EndOfData ==
    /\ at = "data" /\ Len(got) = need
    /\ chunk' = got /\ at' = "crlf" /\ StartBytes(buffer_, 2)
    /\ UNCHANGED <<writer, wire, lost, trailers, received>>

Total == LET total[i \in 0..Len(received)] ==
                 IF i = 0 THEN 0 ELSE total[i - 1] + Len(received[i])
         IN total[Len(received)]

EndOfChunk ==
    /\ at = "crlf" /\ Len(got) = need
    /\ IF got # CRLF \/ Total + Len(chunk) > MaxSize
       THEN at' = "failed" /\ UNCHANGED received
       ELSE at' = "size" /\ received' = Append(received, chunk)
    /\ got' = <<>> /\ need' = 0 /\ chunk' = <<>>
    /\ UNCHANGED <<writer, wire, lost, buffer_, trailers>>

EndOfStream ==
    /\ at \notin {"finished", "failed"} /\ wire = <<>> /\ lost
    /\ at \in {"data", "crlf"} => Len(got) < need
    /\ at \in {"size", "trailers"} => LineEnd(buffer_) = 0
    /\ Fail
    /\ UNCHANGED <<writer, wire, lost, buffer_, chunk, trailers, received>>

read_all ==
    \/ ReadLine \/ SizeLine \/ TrailerLine \/ ReadBytes \/ EndOfData \/ EndOfChunk \/ EndOfStream

Next ==
    \/ \E d \in Data : Write(d)
    \/ Finish \/ send_headers \/ WriteChunk \/ WriteFinal \/ ForeignChunk \/ Break \/ WriteFails
    \/ read_all

Spec == Init /\ [][Next]_vars

-----------------------------------------------------------------------------
(* The reader implements the channel that carries the writer's chunks:     *)
(* each one whole, once and in order, however the stream is cut and        *)
(* whatever bytes they consist of.                                         *)
Channel == INSTANCE AbstractChannel WITH
    Messages <- Data \ {<<>>},
    up <- ~lost /\ conforming /\ at # "failed"

ChunksKept == Channel!ChannelSafety

(* When the reader cannot go on it has returned all the chunks, it         *)
(* finishes only when the writer has, with all the chunks and the          *)
(* trailers, and fails only for a reason; there is one header section.     *)
Reason == lost \/ ~conforming \/ Total + Len(sent[Len(received) + 1]) > MaxSize
EndsTogether ==
    /\ ~ENABLED read_all /\ at # "failed" /\ conforming => received = sent
    /\ at = "finished" /\ conforming => finished /\ trailers = IF trailer THEN 1 ELSE 0
    /\ at = "failed" => Reason
    /\ headers <= 1 /\ (wire # <<>> => headers = 1)
=============================================================================
