------------------------------ MODULE Dispatch ------------------------------
(***************************************************************************)
(* The way of a request through an App, over HTTP/1.1 or HTTP/2: views and *)
(* the router (src/core/router.cpp), the middleware chain                  *)
(* (include/coroute/core/app.hpp), compression (src/core/compression.cpp)  *)
(* and the sending of what comes back (src/core/app.cpp,                   *)
(* src/http2/stream.cpp).                                                  *)
(*                                                                         *)
(* A path is a sequence of segments; a pattern is one of literal segments, *)
(* "{}", "*" and at most one "**".  A body is its contents and the codings *)
(* applied to them, the outermost last.                                    *)
(***************************************************************************)
EXTENDS Naturals, Sequences, FiniteSets

CONSTANTS
    None,       \* no header, no handler
    Segment,    \* the segments made of the characters of PATH_SEGMENT_CLASS
    Decode,     \* url_decode(), for the segments it changes
    Number,     \* the segments that are numbers
    Views,      \* the patterns of the views
    Routes,     \* the routes in the order of their registration
    Chains,     \* middleware_, the outermost first
    Requests,   \* the requests clients send
    Bodies,     \* the bodies handlers return
    Brotli,     \* brotli_available()
    MaxTries    \* a bound: how often a middleware calls next

Algorithms == {"gzip", "deflate", "br"}
Contents == [data : {"nothing", "small", "large", "file"}, codings : Seq(Algorithms),
             type : {"text", "image"}]

(* A handler compresses what it returns once at most, and says so: one     *)
(* Content-Encoding is all a response has.                                 *)
DispatchAssumption ==
    /\ \A q \in Requests :
          /\ q \in [protocol : {"http1", "h2"}, method : STRING, path : Seq(STRING),
                    accepts : {None} \cup SUBSET [name : STRING, q : Nat],
                    range : BOOLEAN, lowercase : BOOLEAN]
          /\ q.accepts # None => IsFiniteSet(q.accepts)
    /\ Decode \in [DOMAIN Decode -> STRING]
    /\ Routes \in Seq([method : STRING, pattern : Seq(STRING), types : Seq(STRING)])
    /\ \A c \in Chains : c \in Seq({"compression", "static", "guard", "retry"})
    /\ \A b \in Bodies : b \in Contents /\ Len(b.codings) <= 1
    /\ None \notin Nat \cup Algorithms \cup Contents
    /\ Brotli \in BOOLEAN /\ MaxTries \in Nat \ {0}

VARIABLES
    req,        \* the request, as the parser makes it of what was sent
    sent,       \* the request, as the client sent it
    chain,      \* middleware_
    stage,      \* where the request is
    handler,    \* MatchResult: the route and its parameters
    calls,      \* the middleware that has called next and waits for it
    resp,       \* the response on its way back, or "exception"
    ran,        \* (ghost) the handlers that have run, with their arguments
    wire        \* what was sent: headers and body

vars == <<req, sent, chain, stage, handler, calls, resp, ran, wire>>
configVars == <<req, sent, chain>>

-----------------------------------------------------------------------------
(* The router.                                                             *)

(* The segments that part i of a pattern stands for, once it is known how  *)
(* many its "**" takes.                                                    *)
Wide(pattern) == {i \in DOMAIN pattern : pattern[i] = "**"}
Extra(pattern, path) == Len(path) - Len(pattern)
First(pattern, path, i) == IF \E j \in Wide(pattern) : j < i THEN i + Extra(pattern, path) ELSE i
Last(pattern, path, i) ==
    IF \E j \in Wide(pattern) : j <= i THEN i + Extra(pattern, path) ELSE i
Part(pattern, path, i) == SubSeq(path, First(pattern, path, i), Last(pattern, path, i))

(* convert_pattern() and the regular expression it makes.                  *)
Fits(part, text) ==
    CASE part = "{}" -> text[1] \in Segment
      [] part = "*" -> text[1] \in Segment \cup {""}
      [] part = "**" -> text # <<"">> /\ \A k \in DOMAIN text : text[k] \in Segment \cup {""}
      [] OTHER -> text = <<part>>

Matches(pattern, path) ==
    /\ IF Wide(pattern) = {} THEN Len(path) = Len(pattern) ELSE Len(path) >= Len(pattern)
    /\ \A i \in DOMAIN pattern : Fits(pattern[i], Part(pattern, path, i))

(* match_with_groups(): the captures, wildcards among them, in order.      *)
Nth(set, n) == CHOOSE i \in set : Cardinality({j \in set : j <= i}) = n
Captures(pattern) == {i \in DOMAIN pattern : pattern[i] \in {"{}", "*", "**"}}
Groups(pattern, path) ==
    [n \in 1..Cardinality(Captures(pattern)) |-> Part(pattern, path, Nth(Captures(pattern), n))]

(* get_matcher_for(): GET's for every method without one.                  *)
Table(method) ==
    IF method \in {"GET", "POST", "PUT", "DELETE", "PATCH", "HEAD", "OPTIONS"} THEN method ELSE "GET"

NoMatch == [route |-> None, params |-> <<>>]

(* Mutant: the first of the matches.                                       *)
FirstMatch(patterns, path) ==
    LET found == {i \in DOMAIN patterns : Matches(patterns[i], path)}
    IN  IF found = {} THEN NoMatch
        ELSE LET first == CHOOSE i \in found : \A j \in found : i <= j
             IN  [route |-> first, params |-> Groups(patterns[first], path)]

(* The last of the matches, which is that of the last registration.        *)
LastMatch(patterns, path) ==
    LET found == {i \in DOMAIN patterns : Matches(patterns[i], path)}
    IN  IF found = {} THEN NoMatch
        ELSE LET last == CHOOSE i \in found : \A j \in found : j <= i
             IN  [route |-> last, params |-> Groups(patterns[last], path)]

Registered(method) == {i \in DOMAIN Routes : Routes[i].method = Table(method)}
match(method, path) == LastMatch([i \in Registered(method) |-> Routes[i].pattern], path)
match_view(path) == LastMatch(Views, path)

(* extract_param<T>() of each argument.                                    *)
IsNumber(text) == Len(text) = 1 /\ text[1] \in Number
ParamsValid(types, params) ==
    \A i \in DOMAIN types :
        i \in DOMAIN params /\ (types[i] = "number" => IsNumber(params[i]))

-----------------------------------------------------------------------------
(* Responses.  set_header() is done by name: of Content-Length and         *)
(* Content-Encoding there is one each.                                     *)

Body(data) == [data |-> data, codings |-> <<>>, type |-> "text"]
Empty == Body("nothing")
Response(status, body) ==
    [status |-> status, body |-> body, encoding |-> None, length |-> body, file |-> None]
Exception == Response(0, Empty)
InternalError == Response(500, Body("small"))
NotFound == Response(404, Body("small"))
FileResponse(f) ==
    [status |-> 200, body |-> Empty, encoding |-> None, length |-> f, file |-> f]
HeadResponse(f) ==
    [status |-> 200, body |-> Empty, encoding |-> None, length |-> f, file |-> None]
PartResponse(part) == Response(206, part)
HandlerResponse(b) ==
    [status |-> 200, body |-> b,
     encoding |-> IF b.codings = <<>> THEN None ELSE b.codings[Len(b.codings)],
     length |-> IF b = Empty THEN None ELSE b,
     file |-> None]

-----------------------------------------------------------------------------
(* parse_accept_encoding(): the best quality, then the order of the enum.  *)

Enabled == IF Brotli THEN Algorithms ELSE Algorithms \ {"br"}
Rank == [a \in Algorithms |-> CASE a = "gzip" -> 0 [] a = "deflate" -> 1 [] a = "br" -> 2]
Better(c, d) == c.q > d.q \/ (c.q = d.q /\ Rank[c.name] <= Rank[d.name])
parse_accept_encoding(accepts) ==
    LET candidates == {c \in accepts : c.q > 0 /\ c.name \in Enabled}
    IN  IF candidates = {} THEN None
        ELSE (CHOOSE c \in candidates : \A d \in candidates : Better(c, d)).name

(* Mutant: what is compressed already is compressed again.                 *)
SkipsUnfitting(r) ==
    r.body.data # "large" \/ r.body.type # "text" \/ req.accepts = None

(* CompressionMiddleware::operator(), once next has returned.              *)
SkipsCompression(r) ==
    r.encoding # None \/ r.body.data # "large" \/ r.body.type # "text" \/ req.accepts = None

(* The body stays as it is if compressing it fails or does not help.       *)
Compressions(r) ==
    LET algo == IF SkipsCompression(r) THEN None ELSE parse_accept_encoding(req.accepts)
        b == [r.body EXCEPT !.codings = Append(@, algo)]
    IN  {r} \cup (IF algo = None THEN {}
                 ELSE {[r EXCEPT !.body = b, !.encoding = algo, !.length = b]})

-----------------------------------------------------------------------------
(* parse_request() decodes the path and keeps the names of headers as they *)
(* are; build_request() does neither, and in HTTP/2 names are lower case.  *)
(* Lookups are by exact name.                                              *)
Parsed(q) ==
    IF q.protocol = "http1"
    THEN [q EXCEPT !.path = [i \in DOMAIN @ |-> IF @[i] \in DOMAIN Decode THEN Decode[@[i]] ELSE @[i]],
                   !.accepts = IF q.lowercase THEN None ELSE @,
                   !.range = @ /\ ~q.lowercase]
    ELSE [q EXCEPT !.accepts = None, !.range = FALSE]

Init ==
    /\ sent \in Requests /\ req = Parsed(sent)
    /\ chain \in Chains
    /\ stage = "view"
    /\ handler = NoMatch /\ calls = <<>> /\ resp = Exception
    /\ ran = <<>> /\ wire = None

(* A view answers a GET of HTTP/1.1 before the chain is asked.             *)
View ==
    /\ stage = "view"
    /\ IF req.protocol = "http1" /\ req.method = "GET" /\ match_view(req.path) # NoMatch
       THEN /\ resp' \in {Response(200, Body("large")), InternalError}
            /\ stage' = "send"
       ELSE stage' = "route" /\ UNCHANGED resp
    /\ UNCHANGED <<configVars, handler, calls, ran, wire>>

Route ==
    /\ stage = "route"
    /\ handler' = match(req.method, req.path)
    /\ stage' = "next"
    /\ UNCHANGED <<configVars, calls, resp, ran, wire>>

(* execute_at_or_not_found(idx), for the middleware next in line.          *)
Idx == IF calls = <<>> THEN 1 ELSE calls[Len(calls)].idx + 1

CallHandler ==
    /\ stage = "next" /\ Idx > Len(chain)
    /\ stage' = "return"
    /\ IF handler.route = None THEN resp' = NotFound /\ UNCHANGED ran
       ELSE LET types == Routes[handler.route].types
            IN  IF ~ParamsValid(types, handler.params)
                THEN resp' = Response(400, Body("small")) /\ UNCHANGED ran
                ELSE /\ resp' \in {HandlerResponse(b) : b \in Bodies} \cup {Exception}
                     /\ ran' = Append(ran, [route |-> handler.route,
                                            args |-> SubSeq(handler.params, 1, Len(types))])
    /\ UNCHANGED <<configVars, handler, calls, wire>>

(* The file server has a file for the path and is asked to GET it.         *)
Serves ==
    chain[Idx] = "static" /\ Head(req.path) = "files" /\ req.method \in {"GET", "HEAD"}

(* A middleware calls next ...                                             *)
CallNext ==
    /\ stage = "next" /\ Idx <= Len(chain)
    /\ ~Serves
    /\ calls' = Append(calls, [idx |-> Idx, tries |-> 1])
    /\ UNCHANGED <<configVars, stage, handler, resp, ran, wire>>

(* ... or answers itself: static files, of HTTP/1.1's HEAD the headers.    *)
ServeFile ==
    /\ stage = "next" /\ Idx <= Len(chain) /\ Serves
    /\ resp' = IF req.range THEN PartResponse(Body("large"))
               ELSE IF req.method = "HEAD" THEN HeadResponse(Body("file"))
               ELSE FileResponse(Body("file"))
    /\ stage' = "return"
    /\ UNCHANGED <<configVars, handler, calls, ran, wire>>

Refuse ==
    /\ stage = "next" /\ Idx <= Len(chain) /\ chain[Idx] = "guard"
    /\ resp' \in {Response(401, Body("small")), Exception}
    /\ stage' = "return"
    /\ UNCHANGED <<configVars, handler, calls, ran, wire>>

(* next returns, or throws, to the middleware that called it.              *)
Return ==
    /\ stage = "return" /\ calls # <<>>
    /\ LET top == calls[Len(calls)]
       IN  IF chain[top.idx] = "retry" /\ resp.status \in {0, 500} /\ top.tries < MaxTries
           THEN /\ calls' = [calls EXCEPT ![Len(calls)].tries = @ + 1]
                /\ stage' = "next" /\ UNCHANGED resp
           ELSE /\ calls' = SubSeq(calls, 1, Len(calls) - 1)
                /\ resp' \in IF chain[top.idx] = "compression" /\ resp # Exception
                             THEN Compressions(resp) ELSE {resp}
                /\ UNCHANGED stage
    /\ UNCHANGED <<configVars, handler, ran, wire>>

Leave ==
    /\ stage = "return" /\ calls = <<>>
    /\ resp' = IF resp = Exception THEN InternalError ELSE resp
    /\ stage' = "send"
    /\ UNCHANGED <<configVars, handler, calls, ran, wire>>

(* handle_connection() sends a response's file after its headers;          *)
(* send_response() sends its body, and a Content-Length if there is none.  *)
SentBody ==
    IF req.protocol = "http1" /\ resp.file # None /\ req.method # "HEAD" THEN resp.file ELSE resp.body

Send ==
    /\ stage = "send"
    /\ wire' = [status |-> resp.status, encoding |-> resp.encoding, length |-> resp.length,
                body |-> SentBody]
    /\ stage' = "sent"
    /\ UNCHANGED <<configVars, handler, calls, resp, ran>>

Next ==
    \/ View \/ Route \/ CallHandler \/ CallNext \/ ServeFile \/ Refuse \/ Return \/ Leave \/ Send

Spec == Init /\ [][Next]_vars

-----------------------------------------------------------------------------
TypeOK ==
    /\ sent \in Requests /\ chain \in Chains
    /\ stage \in {"view", "route", "next", "return", "send", "sent"}
    /\ handler.route \in DOMAIN Routes \cup {None}
    /\ Len(calls) <= Len(chain) /\ \A k \in DOMAIN calls : calls[k].idx = k
    /\ resp.status \in {0, 200, 206, 400, 401, 404, 500}

(* A handler runs for the last route that was registered for the request's *)
(* method and path, and gets what each brace of its pattern stands for,    *)
(* decoded: as long as no wildcard is before a brace, and over HTTP/1.1.   *)
Braces(pattern) == {i \in DOMAIN pattern : pattern[i] = "{}"}
PlainRoute(r) ==
    /\ \A i \in Braces(r.pattern), j \in DOMAIN r.pattern : r.pattern[j] \in {"*", "**"} => i < j
    /\ Len(r.types) <= Cardinality(Braces(r.pattern))
RoutedAsRegistered ==
    \A k \in DOMAIN ran :
        LET r == Routes[ran[k].route]
            text(i) == IF sent.path[i] \in DOMAIN Decode THEN Decode[sent.path[i]] ELSE sent.path[i]
        IN  /\ Matches(r.pattern, req.path)
            /\ \A later \in DOMAIN Routes :
                 later > ran[k].route /\ Routes[later].method = r.method
                   => ~Matches(Routes[later].pattern, req.path)
            /\ sent.protocol = "http1" /\ PlainRoute(r) =>
                 \A n \in DOMAIN ran[k].args :
                    /\ ran[k].args[n] = <<text(Nth(Braces(r.pattern), n))>>
                    /\ r.types[n] = "number" => IsNumber(ran[k].args[n])

(* What a client receives it can decode: Content-Encoding names every      *)
(* coding the body has had, the middleware's in one the client accepts,    *)
(* and Content-Length is its length: of bodies held in memory, and of      *)
(* files over HTTP/1.1; the answers to HEAD are left out.                  *)
AnswerFits ==
    wire # None =>
        /\ IF wire.encoding = None THEN wire.body.codings = <<>>
           ELSE /\ wire.body.codings = <<wire.encoding>>
                /\ \/ wire.body \in Bodies
                   \/ \E c \in sent.accepts : c.name = wire.encoding /\ c.q > 0
        /\ sent.method # "HEAD" /\ (resp.file = None \/ sent.protocol = "http1") =>
             wire.body = (IF wire.length = None THEN Empty ELSE wire.length)

(* A response with a file has the file's bytes sent.                       *)
FilesReachClient ==
    wire # None /\ resp.file # None => wire.body = resp.file
=============================================================================
