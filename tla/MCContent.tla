----------------------------- MODULE MCContent ------------------------------
(***************************************************************************)
(* What a request meets between its connection and its handler, and what   *)
(* the answer meets on its way back: the parser of HTTP/1.1, the readers   *)
(* of frames, TLS, the way through the App, sessions, files, chunked       *)
(* bodies, metrics and logs; and the pools and the completion port they    *)
(* use.  A behaviour is one of a single component; the others stay as they *)
(* are initially.                                                          *)
(*                                                                         *)
(* Sessions: three requests, of which the first creates the session the    *)
(* two others share; time for it to expire while they have it.             *)
(* Files: two versions of a file, two requests; ranges at both ends, two   *)
(* at once, none that fits; a file clock of two ticks a second.            *)
(* Pools: two threads, a pool for one object, three objects, with and      *)
(* without a reset function; counters modulo 4, so that they wrap around.  *)
(* Iocp: two workers, one connection with one operation, one callback.     *)
(* Http1: three requests, two per connection; reads of at most three       *)
(* bytes, headers of at most seven.                                        *)
(* Frames: plans with each kind of HTTP/2 frame and each form of a         *)
(* WebSocket length that fits, a frame that is too large, a wrong preface; *)
(* reads of at most three octets.                                          *)
(* Chunked: two chunks, of at most three bytes together.                   *)
(* Tls: two clients with two requests each.                                *)
(* Metrics: two threads with a request each, two buckets.                  *)
(* Dispatch: paths that match no route, one, two and a wildcard; chains of *)
(* three with compression twice, around static files and around a retry.   *)
(* What bodies say is a matter of operators alone: see MCBodies.           *)
(***************************************************************************)
EXTENDS Sessions, Ranges, Sequences, TLC

CONSTANTS
    Nothing, NoCallback, Never, NoClient, NoThread   \* what is in none of the sets

VARIABLES
    component,
    pool, held, pcs, calls, active_count, dirty, enable_reuse, resets, counted, skew,
    phase, stopped, stopping, port, callbacks, posting, timers, noting, due, deadline,
    tm, wk, inKernel, ops, clock, expiry, runs,
    options, f_clock, versions, file, copy, req, at, size, mtime, parts, resp, disturbed, served,
    plan, pipelines, h_sent, h_left, socket, h_at, buffer, body, current, request_count,
    keep_alive, handled, replies,
    headers_sent, finished, trailer, call, data, headers, wire, lost, buffer_, c_at, need, got,
    chunk, trailers, sent, received, conforming, c_calls,
    version, client, requests, answered, toServer, toClient, rbio, wbio, ssl, backlog, serving,
    loop, handler,
    initialized, sinks, enabled, mutex, lines, m_pc, m_requests, duration, left, registered,
    requests_total, requests_in_flight, count_, sum_, bucket_counts_, export, thrown, logged,
    d_req, d_sent, chain, stage, d_handler, d_calls, d_resp, ran, d_wire,
    w_client, stream, read_buffer_, w_stage, w_received

poolVars == <<pool, held, pcs, calls, active_count, dirty, enable_reuse, resets, counted, skew>>
iocpVars == <<phase, stopped, stopping, port, callbacks, posting, timers, noting, due, deadline,
    tm, wk, inKernel, ops, clock, expiry, runs>>
fileVars == <<options, f_clock, versions, file, copy, req, at, size, mtime, parts, resp, disturbed,
    served>>
http1Vars == <<plan, pipelines, h_sent, h_left, socket, h_at, buffer, body, current,
    request_count, keep_alive, handled, replies>>
chunkedVars == <<headers_sent, finished, trailer, call, data, headers, wire, lost, buffer_, c_at,
    need, got, chunk, trailers, sent, received, conforming, c_calls>>
tlsVars == <<version, client, requests, answered, toServer, toClient, rbio, wbio, ssl, backlog,
    serving, loop, handler>>
metricVars == <<initialized, sinks, enabled, mutex, lines, m_pc, m_requests, duration, left,
    registered, requests_total, requests_in_flight, count_, sum_, bucket_counts_, export, thrown,
    logged>>
dispatchVars == <<d_req, d_sent, chain, stage, d_handler, d_calls, d_resp, ran, d_wire>>
frameVars == <<w_client, stream, read_buffer_, w_stage, w_received>>

-----------------------------------------------------------------------------
P == INSTANCE Pools WITH Users <- {"u1", "u2"}, Objects <- {"o1", "o2", "o3"}, MaxSize <- 1,
        Modulus <- 4, MaxCalls <- 2
I == INSTANCE Iocp WITH Workers <- {"w1", "w2"}, Coros <- {"conn"}, Callbacks <- {"f"},
        MaxClock <- 1, MaxOps <- 1

Range(first, last) == [start |-> first, end |-> last]
F == INSTANCE StaticFiles WITH
        Options <- {{"etag", "last_modified", "range_requests"}},
        Sizes <- {0, 1, 2}, TicksPerSecond <- 2, MaxClock <- 6, MaxVersions <- 2, MaxRequests <- 2,
        Specs <- {<<Range(0, 0), Malformed>>, <<Range(0, 7), Range(None, 1)>>},
        clock <- f_clock

Plans ==
    { <<a, b, c>> : a \in {"plain", "body", "unread"}, b \in {"plain", "body", "last"},
                    c \in {"plain", "body"} }
    \cup { <<"body", k, "plain">> : k \in {"short", "large", "long", "malformed", "upgrade"} }
H == INSTANCE Http1 WITH MaxHeaderSize <- 7, ReadChunkSize <- 3, MaxRequestsPerConnection <- 2,
        sent <- h_sent, left <- h_left, at <- h_at

C == INSTANCE Chunked WITH Data <- {<<>>, <<"a">>, <<"CR", "LF">>}, MaxCalls <- 2, MaxSize <- 3,
        MaxLine <- 6, LineRead <- 3, Width <- 8, at <- c_at, calls <- c_calls

T == INSTANCE Tls WITH Clients <- {"a", "b"}, MaxRequests <- 2

M == INSTANCE Metrics WITH Threads <- {"t1", "t2"}, Buckets <- 2, MaxRequests <- 1,
        pc <- m_pc, requests <- m_requests

Rt(method, pattern, types) == [method |-> method, pattern |-> pattern, types |-> types]
Routes ==
    << Rt("GET", <<"**", "*">>, <<"text">>), Rt("GET", <<"users", "{}">>, <<"number">>),
       Rt("GET", <<"users", "me">>, <<>>), Rt("GET", <<"{}", "x", "{}">>, <<"text", "number">>),
       Rt("POST", <<"{}", "**">>, <<"text">>), Rt("POST", <<"**", "{}">>, <<"text">>) >>
Content(what, codings, type) == [data |-> what, codings |-> codings, type |-> type]
Coding(name, q) == [name |-> name, q |-> q]
Asked ==
    [protocol : {"http1", "h2"}, method : {"GET", "POST", "HEAD"},
     path : {<<"users">>, <<"users", "7">>, <<"users", "me">>, <<"users", "%20">>,
             <<"7", "x", "7">>, <<"", "7">>, <<"files", "x">>},
     accepts : {None, {Coding("gzip", 2), Coding("br", 2)}, {Coding("gzip", 0)}},
     range : BOOLEAN, lowercase : BOOLEAN]
    \cup [protocol : {"http1"}, method : {"TRACE"}, path : {<<"users", "me">>}, accepts : {None},
          range : {FALSE}, lowercase : {FALSE}]
D == INSTANCE Dispatch WITH
        Segment <- {"users", "files", "7", "me", "%20"}, Number <- {"7"},
        Decode <- [s \in {"%20"} |-> " "],
        Views <- << <<"users">>, <<"users", "{}">> >>,
        Chains <- {<<>>, <<"compression", "static", "compression">>,
                   <<"guard", "retry", "compression">>},
        Requests <- Asked,
        Bodies <- {Content("nothing", <<>>, "text"), Content("large", <<>>, "text"),
                   Content("large", <<"br">>, "text"), Content("large", <<>>, "image")},
        Brotli <- TRUE, MaxTries <- 2,
        req <- d_req, sent <- d_sent, handler <- d_handler, calls <- d_calls, resp <- d_resp,
        wire <- d_wire

R == INSTANCE Frames
ClientPlan(protocol, preface, frames) ==
    [protocol |-> protocol, preface |-> preface, frames |-> frames]
Payload(n) == [i \in 1 .. n |-> (7 * i) % 256]
WsFrame(masked, payload) ==
    [header |-> [fin |-> masked, rsv |-> 0, opcode |-> 2, masked |-> masked,
                 payload_length |-> Len(payload),
                 mask_key |-> IF masked THEN <<3, 200, 0, 255>> ELSE R!NoKey],
     payload |-> payload]
HttpPreface == <<80, 82, 73, 32, 42, 32, 72, 84, 84, 80, 47, 50, 46, 48, 13, 10, 13, 10,
                 83, 77, 13, 10, 13, 10>>
Settings == <<[id |-> 4, value |-> 300], [id |-> 65535, value |-> 2147483647]>>
FramePlans ==
    { ClientPlan("websocket", <<>>,
          <<WsFrame(TRUE, <<>>), WsFrame(TRUE, Payload(126)), WsFrame(FALSE, Payload(5))>>),
      ClientPlan("h2", HttpPreface,
          <<R!settings_frame(Settings, FALSE), R!settings_frame(Settings, TRUE),
            R!data_frame(3, <<>>, TRUE), R!window_update_frame(2147483647, 65536),
            R!rst_stream_frame(5, 8), R!data_frame(1, Payload(17), TRUE)>>),
      ClientPlan("h2", HttpPreface,
          <<R!goaway_frame(0, 1, Payload(8)), R!ping_frame(Payload(8), TRUE),
            R!headers_frame(70000, Payload(3), TRUE, TRUE)>>),
      ClientPlan("h2", [HttpPreface EXCEPT ![24] = 11], <<>>) }
W == INSTANCE FrameReader WITH Clients <- FramePlans, MaxFrameSize <- 16, MaxRead <- 3,
        client <- w_client, stage <- w_stage, received <- w_received

(* What the codecs read is what was written, at the bounds of each field.  *)
Numbers == {0, 1, 125, 126, 127, 255, 256, 65535, 65536, 16777215, 16777216, 2147483647}
CodecsAgree ==
    /\ \A v \in Numbers, masked \in BOOLEAN :
        LET h == [fin |-> v > 255, rsv |-> v % 8, opcode |-> v % 16, masked |-> masked,
                  payload_length |-> v,
                  mask_key |-> IF masked THEN <<1, 2, 3, 255>> ELSE R!NoKey]
            octets == R!serialize_frame_header(h)
        IN  /\ R!parse_frame_header(octets \o <<1, 2>>) = h
            /\ R!HeaderSize(octets[2]) = Len(octets)
    /\ \A v \in Numbers :
        LET h == [length |-> v % 16777216, type |-> 3, flags |-> 255, stream_id |-> v]
        IN  R!parse(R!serialize(h) \o <<4>>) = h
    /\ \A a, b \in R!Octet : R!Xor(a, b) \in R!Octet /\ R!Xor(R!Xor(a, b), b) = a
    /\ R!parse_settings(R!settings_frame(Settings, FALSE).payload) = Settings
    /\ R!parse_window_update(R!window_update_frame(1, 2147483647).payload) = 2147483647
    /\ R!parse_goaway(R!goaway_frame(70000, 1, <<7>>).payload)
       = [last_stream |-> 70000, error |-> 1]

B == INSTANCE MCBodies

ASSUME ContentAssumption ==
    /\ CodecsAgree /\ W!FrameReaderAssumption
    /\ B!UrlAgrees /\ B!MultipartAgrees /\ B!CookiesAgree /\ B!JsonAgrees
    /\ P!PoolsAssumption /\ I!IocpAssumption /\ F!StaticFilesAssumption /\ H!Http1Assumption
    /\ C!ChunkedAssumption /\ T!TlsAssumption /\ M!MetricsAssumption /\ D!DispatchAssumption

-----------------------------------------------------------------------------
MCInit ==
    /\ component \in {"sessions", "pools", "iocp", "files", "http1", "chunked", "tls", "metrics",
                      "dispatch", "frames"}
    /\ component = "pools" \/ enable_reuse = TRUE
    /\ component = "pools" \/ resets = TRUE
    /\ component = "files" \/ file = [id |-> 1, size |-> 0, mtime |-> 2]
    /\ component = "http1" \/ plan = <<"body", "short", "plain">>
    /\ component = "http1" \/ pipelines = TRUE
    /\ component = "chunked" \/ trailer = FALSE
    /\ component = "tls" \/ version = [c \in {"a", "b"} |-> "1.3"]
    /\ component = "dispatch" \/ d_sent = CHOOSE q \in Asked : q.method = "TRACE"
    /\ component = "dispatch" \/ chain = <<>>
    /\ component = "frames" \/ w_client = CHOOSE c \in FramePlans : c.frames = <<>>
    /\ Init /\ P!Init /\ I!Init /\ F!Init /\ H!Init /\ C!Init /\ T!Init /\ M!Init /\ D!Init /\ W!Init

Only(c) == component = c /\ component' = c
most == <<poolVars, iocpVars, fileVars, http1Vars>>
rest == <<chunkedVars, tlsVars, metricVars, dispatchVars, frameVars>>

MCNext ==
    \/ Only("sessions") /\ Next /\ UNCHANGED <<most, rest>>
    \/ Only("pools") /\ P!Next /\ UNCHANGED <<vars, iocpVars, fileVars, http1Vars, rest>>
    \/ Only("iocp") /\ I!Next /\ UNCHANGED <<vars, poolVars, fileVars, http1Vars, rest>>
    \/ Only("files") /\ F!Next /\ UNCHANGED <<vars, poolVars, iocpVars, http1Vars, rest>>
    \/ Only("http1") /\ H!Next /\ UNCHANGED <<vars, poolVars, iocpVars, fileVars, rest>>
    \/ Only("chunked") /\ C!Next
        /\ UNCHANGED <<vars, most, tlsVars, metricVars, dispatchVars, frameVars>>
    \/ Only("tls") /\ T!Next
        /\ UNCHANGED <<vars, most, chunkedVars, metricVars, dispatchVars, frameVars>>
    \/ Only("metrics") /\ M!Next
        /\ UNCHANGED <<vars, most, chunkedVars, tlsVars, dispatchVars, frameVars>>
    \/ Only("dispatch") /\ D!Next
        /\ UNCHANGED <<vars, most, chunkedVars, tlsVars, metricVars, frameVars>>
    \/ Only("frames") /\ W!Next
        /\ UNCHANGED <<vars, most, chunkedVars, tlsVars, metricVars, dispatchVars>>

MCSpec == MCInit /\ [][MCNext]_<<component, vars, most, rest>>

Symmetry == Permutations(Requests)

-----------------------------------------------------------------------------
(* The properties of the instances; their modules say what they mean.      *)

(* Pools: what waits in the pool is nobody else's, and clean if the pool   *)
(* resets; active_count() is what was counted, in its width.               *)
PoolsHold == component = "pools" => P!TypeOK /\ P!CleanInPool /\ P!OnePlace /\ P!ActiveCountsOut

(* IOCP: each callback has its wake-up.                                    *)
EachCallbackWoken == component = "iocp" => I!TypeOK /\ I!EachCallbackWoken

(* IOCP: a callback runs once, and not before it is due.                   *)
RunsOnceWhenDue == I!RunsOnceWhenDue

(* Files: a response is as long as announced.                              *)
FramingKept == component = "files" => F!FramingKept

(* Files: a 304 and a 206 are about the version the client has.            *)
ConditionsHold == component = "files" => F!NotModifiedWithinASecond /\ F!RangesServed

(* HTTP/1.1: requests are handled as sent, and answered; HTTP/2 and        *)
(* WebSocket: frames are read as sent, wherever the socket cuts them.      *)
RequestsHandled ==
    /\ component = "http1" => H!HandledAsSent /\ H!Http1Answers /\ H!IdleIsStuck
    /\ component = "frames" => W!FramesReadAsSent

(* Chunked: reader and writer end together ...                             *)
EndsTogether == component = "chunked" => C!EndsTogether

(* ... and the reader implements the channel that carries the chunks.      *)
ChunksKept == C!ChunksKept

(* TLS: requests are answered and handshakes begun, and Idle is what it    *)
(* says.                                                                   *)
TlsServes ==
    component = "tls" =>
        /\ T!TypeOK /\ T!IdleIsStuck
        /\ T!TlsAnswered /\ T!HandshakeReached /\ T!HelloAnswered


(* Dispatch: the right handler with the right arguments.                   *)
RoutedAsRegistered == component = "dispatch" => D!TypeOK /\ D!RoutedAsRegistered

(* Dispatch: the client can decode what it is sent.                        *)
AnswerFits == component = "dispatch" => D!AnswerFits

(* Dispatch: a file that is served is sent.                                *)
FilesReachClient == component = "dispatch" => D!FilesReachClient
=============================================================================
