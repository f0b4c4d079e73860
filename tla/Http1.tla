-------------------------------- MODULE Http1 -------------------------------
(***************************************************************************)
(* One HTTP/1.1 connection (src/core/app.cpp): the keep-alive loop of      *)
(* handle_connection() and parse_request(), which reads the header section *)
(* in pieces, as the socket delivers them, and then the body.              *)
(*                                                                         *)
(* A message is the bytes of a header section and of a body.  A byte       *)
(* carries the number of its request and the way it looks to the parser:   *)
(* CR, LF or another.  Header sections have one line; their fields, which  *)
(* header() looks up by their exact spelling, are in the request's kind:   *)
(*   plain       no body                                                   *)
(*   body        with Content-Length                                       *)
(*   unread      a body that is chunked, or whose content-length is not    *)
(*               spelled that way: nothing is read                         *)
(*   short       a body the client breaks off, leaving                     *)
(*   large       one above MAX_BODY_SIZE                                   *)
(*   long        a header section above MAX_HEADER_SIZE                    *)
(*   malformed   a request line without two blanks                         *)
(*   last        Connection: close, or HTTP/1.0                            *)
(*   upgrade     the connection goes to a WebSocket or HTTP/2 handler      *)
(***************************************************************************)
EXTENDS Naturals, Sequences

CONSTANTS
    Plans,            \* what clients send: sequences of kinds
    MaxHeaderSize,
    ReadChunkSize,
    MaxRequestsPerConnection

Kinds == { "plain", "body", "unread", "short", "large", "long", "malformed", "last", "upgrade" }

Http1Assumption ==
    /\ Plans \subseteq Seq(Kinds)
    /\ {MaxHeaderSize, ReadChunkSize, MaxRequestsPerConnection} \subseteq Nat \ {0}

VARIABLES
    plan,      \* the kinds of the client's requests
    pipelines, \* whether it sends them without waiting
    sent,      \* how many it has sent
    left,      \* whether it has left
    socket,    \* the bytes on their way to the server
    at,        \* where handle_connection() is
    buffer,    \* what parse_request() has read
    body,      \* the part of the body it has
    current,   \* the request it has parsed: its number, or 0 for none of them
    request_count,
    keep_alive,
    handled,   \* what handlers have been given: requests with bodies
    replies    \* what the client has been sent

vars == <<plan, pipelines, sent, left, socket, at, buffer, body, current,
          request_count, keep_alive, handled, replies>>

-----------------------------------------------------------------------------
(* Messages.                                                               *)

Byte(k, look) == [req |-> k, look |-> look]
Bytes(k, looks) == [i \in 1..Len(looks) |-> Byte(k, looks[i])]

EndOfHeaders == <<"CR", "LF", "CR", "LF">>
Header(k) ==
    Bytes(k, (IF plan[k] = "long" THEN [i \in 1..MaxHeaderSize |-> "x"] ELSE <<"x">>)
             \o EndOfHeaders)
ContentLength(k) == IF plan[k] \in {"body", "short"} THEN 2 ELSE 0
Body(k) ==
    CASE plan[k] \in {"body", "unread", "large"} -> Bytes(k, <<"LF", "x">>)
      [] plan[k] = "short" -> Bytes(k, <<"x">>)
      [] OTHER -> <<>>

Init ==
    /\ plan \in Plans /\ pipelines \in BOOLEAN
    /\ sent = 0 /\ left = FALSE /\ socket = <<>>
    /\ at = "headers" /\ buffer = <<>> /\ body = <<>> /\ current = 0
    /\ request_count = 1 /\ keep_alive = TRUE
    /\ handled = <<>> /\ replies = <<>>

-----------------------------------------------------------------------------
(* The client sends its requests, one after the answer to the other unless *)
(* it pipelines, and stops once it is told that the connection closes.     *)

clientVars == <<sent, left, socket>>
parserVars == <<buffer, body, current>>

Told == \E i \in DOMAIN replies : ~replies[i].keep_alive

SendRequest ==
    /\ ~left /\ sent < Len(plan) /\ ~Told
    /\ pipelines \/ sent = Len(replies)
    /\ sent' = sent + 1
    /\ socket' = socket \o Header(sent') \o Body(sent')
    /\ left' = (plan[sent'] = "short")
    /\ UNCHANGED <<plan, pipelines, at, parserVars, request_count, keep_alive, handled, replies>>

Leave ==
    /\ ~left /\ (sent = Len(plan) \/ Told) /\ sent <= Len(replies)
    /\ left' = TRUE
    /\ UNCHANGED <<plan, pipelines, sent, socket, at, parserVars, request_count, keep_alive,
                   handled, replies>>

-----------------------------------------------------------------------------
(* parse_request().                                                        *)

Smaller(m, n) == IF m < n THEN m ELSE n
First(s, n) == SubSeq(s, 1, Smaller(n, Len(s)))
Rest(s, n) == SubSeq(s, n + 1, Len(s))

(* Mutant: two bytes before it.                                            *)
SearchLate(total_read) == IF total_read >= 2 THEN total_read - 2 ELSE 0

(* The search starts three bytes before the piece that was just read, in   *)
(* case the end of the header section is spread over two or more.          *)
SearchStart(total_read) == IF total_read >= 3 THEN total_read - 3 ELSE 0
Ends(bytes, from) ==
    { i \in from + 1 .. Len(bytes) - 3 : \A j \in 0..3 : bytes[i + j].look = EndOfHeaders[j + 1] }
header_end_pos(bytes, from) ==
    LET first == CHOOSE i \in Ends(bytes, from) : \A j \in Ends(bytes, from) : i <= j
    IN first + 3

Refuse == at' = "refuse"

ReadHeaders ==
    /\ at = "headers" /\ socket # <<>>
    /\ \E n \in 1 .. Smaller(Len(socket), Smaller(ReadChunkSize, MaxHeaderSize - Len(buffer))) :
          /\ buffer' = buffer \o First(socket, n)
          /\ socket' = Rest(socket, n)
    /\ IF Ends(buffer', SearchStart(Len(buffer))) # {} THEN at' = "parse"
       ELSE IF Len(buffer') = MaxHeaderSize THEN Refuse
       ELSE UNCHANGED at
    /\ UNCHANGED <<plan, pipelines, sent, left, body, current, request_count, keep_alive,
                   handled, replies>>

(* What the buffer holds, when it starts with a request.                   *)
AtRequest(k) == First(buffer, Len(Header(k))) = Header(k)

(* Otherwise the parser is in the middle of something: it may find a       *)
(* request line there all the same, whose method it does not know.         *)
Misparse == \/ current' = 0 /\ at' = "handle"
            \/ Refuse /\ UNCHANGED current

(* The body begins with the bytes that were read along with the header     *)
(* section; more of them than it has are forgotten.                        *)
TakeBody(k, end) ==
    /\ current' = k
    /\ body' = First(Rest(buffer, end), ContentLength(k))
    /\ at' = IF Len(body') < ContentLength(k) THEN "body" ELSE "handle"

Parse ==
    /\ at = "parse"
    /\ LET end == header_end_pos(buffer, 0)
           k == buffer[1].req
       IN IF ~AtRequest(k) THEN Misparse /\ UNCHANGED body
          ELSE IF plan[k] \in {"malformed", "large"} THEN Refuse /\ UNCHANGED <<current, body>>
          ELSE TakeBody(k, end)
    /\ buffer' = <<>>
    /\ UNCHANGED <<plan, pipelines, clientVars, request_count, keep_alive, handled, replies>>

ReadBody ==
    /\ at = "body" /\ socket # <<>>
    /\ \E n \in 1 .. Smaller(Len(socket), ContentLength(current) - Len(body)) :
          /\ body' = body \o First(socket, n)
          /\ socket' = Rest(socket, n)
    /\ at' = IF Len(body') < ContentLength(current) THEN "body" ELSE "handle"
    /\ UNCHANGED <<plan, pipelines, sent, left, buffer, current, request_count, keep_alive,
                   handled, replies>>

(* async_read() fails: the end of the stream closes the connection.        *)
ReadFails ==
    /\ at \in {"headers", "body"} /\ socket = <<>> /\ left
    /\ at' = "closed"
    /\ UNCHANGED <<plan, pipelines, clientVars, parserVars, request_count, keep_alive, handled,
                   replies>>

-----------------------------------------------------------------------------
(* handle_connection().                                                    *)

Reply(status, alive, max) ==
    replies' = Append(replies, [req |-> current, status |-> status, keep_alive |-> alive, max |-> max])

(* What was misparsed is taken for a plain request.                        *)
Kind == IF current = 0 THEN "plain" ELSE plan[current]

(* A bad request is answered, and ends the connection.                     *)
SendError ==
    /\ at = "refuse"
    /\ replies' = Append(replies, [req |-> sent, status |-> 400, keep_alive |-> FALSE, max |-> 0])
    /\ at' = "closed"
    /\ UNCHANGED <<plan, pipelines, clientVars, parserVars, request_count, keep_alive, handled>>

Upgrade ==
    /\ at = "handle" /\ Kind = "upgrade"
    /\ at' = "upgraded"
    /\ UNCHANGED <<plan, pipelines, clientVars, parserVars, request_count, keep_alive, handled,
                   replies>>

(* The view's handler or the route's, behind the middleware, or "not       *)
(* found"; whatever they throw becomes a 500.                              *)
should_close == Kind = "last" \/ request_count >= MaxRequestsPerConnection

Handle ==
    /\ at = "handle" /\ Kind # "upgrade"
    /\ handled' = Append(handled, [req |-> current, body |-> body])
    /\ \E status \in {200, 404, 500} :
          Reply(status, ~should_close,
                IF should_close THEN 0 ELSE MaxRequestsPerConnection - request_count)
    /\ keep_alive' = ~should_close
    /\ at' = "sent"
    /\ UNCHANGED <<plan, pipelines, clientVars, parserVars, request_count>>

WriteFails ==
    /\ at = "sent" /\ left /\ at' = "closed"
    /\ UNCHANGED <<plan, pipelines, clientVars, parserVars, request_count, keep_alive, handled,
                   replies>>

NextRequest ==
    /\ at = "sent"
    /\ request_count' = request_count + 1
    /\ at' = IF ~keep_alive \/ request_count' > MaxRequestsPerConnection THEN "closed"
             ELSE "headers"
    /\ buffer' = <<>> /\ body' = <<>> /\ current' = 0
    /\ UNCHANGED <<plan, pipelines, clientVars, keep_alive, handled, replies>>

Server ==
    \/ ReadHeaders \/ Parse \/ ReadBody \/ ReadFails
    \/ SendError \/ Upgrade \/ Handle \/ WriteFails \/ NextRequest

Next == SendRequest \/ Leave \/ Server

Spec == Init /\ [][Next]_vars

-----------------------------------------------------------------------------
(* What reaches a handler under a request's name is that request: handlers *)
(* get the requests in the order they were sent, none twice, each with the *)
(* body its Content-Length announces, all of it, and nothing else, however *)
(* the socket cuts the stream into pieces and whatever stands between the  *)
(* requests.  (A body that no Content-Length announces is not given to the *)
(* handler; its bytes are left in the stream, where the parser may find a  *)
(* request of its own making, which has no number.)                        *)
HandledAsSent ==
    /\ \A i \in DOMAIN handled :
          handled[i].req # 0 => handled[i].body = First(Body(handled[i].req),
                                                         ContentLength(handled[i].req))
    /\ \A i, j \in DOMAIN handled :
          i < j /\ handled[i].req # 0 /\ handled[j].req # 0 => handled[i].req < handled[j].req

(* The server has nothing to do: it has closed the connection or handed it *)
(* on, or waits for a client that is still there.                          *)
Idle ==
    \/ at \in {"closed", "upgraded"}
    \/ at \in {"headers", "body"} /\ socket = <<>> /\ ~left
IdleIsStuck == Idle <=> ~ENABLED Server

(* A client that waits for its answers, and whose bodies the parser knows  *)
(* how to read, gets one to every request, and one of its own, unless the  *)
(* connection is upgraded: the server never waits, or closes the           *)
(* connection, while it owes one.                                          *)
Waits == ~pipelines /\ \A k \in DOMAIN plan : plan[k] # "unread"
InStep == \A i \in DOMAIN replies : replies[i].req = i
Http1Answers ==
    Waits =>
        /\ InStep
        /\ Idle => Len(replies) = sent \/ left \/ at = "upgraded"
=============================================================================
