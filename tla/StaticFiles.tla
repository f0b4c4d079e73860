----------------------------- MODULE StaticFiles ----------------------------
(***************************************************************************)
(* A file served over one keep-alive connection, and replaced meanwhile:   *)
(* StaticFileServer (src/core/static_files.cpp), RangeResponseBuilder      *)
(* (src/core/range.cpp) and the end of handle_connection(), which sends    *)
(* what they return.  Size, time and contents of the file are read in      *)
(* steps of their own, the contents after every decision has been made.    *)
(*                                                                         *)
(* A version of the file is a number, a size and a time in ticks;          *)
(* "disturbed" is bookkeeping: the file has changed during the response.   *)
(***************************************************************************)
EXTENDS Ranges, Sequences, FiniteSets

CONSTANTS
    Options,          \* the sets of StaticFileOptions' flags that are looked at
    Sizes,            \* the sizes of versions
    Specs,            \* the Range headers clients send, as sequences of ranges
    TicksPerSecond,
    MaxClock,         \* a bound on the clock
    MaxVersions,      \* a bound: versions of the file
    MaxRequests       \* a bound: requests on the connection

StaticFilesAssumption ==
    /\ Options \subseteq SUBSET {"etag", "last_modified", "range_requests"}
    /\ Sizes \subseteq Nat
    /\ Specs \subseteq Seq(ByteRange)
    /\ TicksPerSecond \in Nat \ {0}
    /\ {MaxClock, MaxVersions, MaxRequests} \subseteq Nat

VARIABLES
    options,    \* StaticFileOptions: those of its flags that are set
    clock,
    versions,   \* every version so far
    file,       \* the version on disk, or None
    copy,       \* the client's copy of it with its validators, or None
    req,        \* the request being served
    at,         \* where its handler is
    size, mtime,\* what serve_file() has read
    parts,      \* the ranges build() has still to read, and their number
    resp,       \* the response
    disturbed,
    served      \* requests so far

vars == <<options, clock, versions, file, copy, req, at, size, mtime, parts, resp, disturbed, served>>

Second(t) == t \div TicksPerSecond

(* generate_etag() for the only path.  The file clock's time is converted  *)
(* with two readings of now(), which may put it on either side of the      *)
(* second it is in.                                                        *)
generate_etag(s, t) == IF "etag" \in options THEN [size |-> s, mtime |-> t] ELSE None
Converted(t) == { Second(t - 1), Second(t), Second(t + 1) }
LastModified(t) == IF "last_modified" \in options THEN Converted(t) ELSE {None}

NoResponse == [status |-> 0, length |-> 0, body |-> <<>>, file |-> FALSE,
               etag |-> None, modified |-> None]
NoParts == [todo |-> {}, all |-> <<>>]
NoRequest == [method |-> "GET", target |-> "file", ifNoneMatch |-> None,
              ifModifiedSince |-> None, range |-> None,
              ifRange |-> [kind |-> "none", etag |-> None, date |-> None]]

(* Bytes of a version, in the order they are sent.                         *)
Piece(v, first, last) == [version |-> v, first |-> first, last |-> last]
Cut(v, n) == IF n = 0 THEN <<>> ELSE <<Piece(v, 0, n - 1)>>
Size(body) == Cardinality(UNION { {i} \X Bytes([start |-> body[i].first, end |-> body[i].last])
                                  : i \in DOMAIN body })

Init ==
    /\ options \in Options
    /\ clock = TicksPerSecond
    /\ \E s \in Sizes : file = [id |-> 1, size |-> s, mtime |-> TicksPerSecond]
    /\ versions = {file}
    /\ copy = None /\ req = NoRequest /\ at = "idle"
    /\ size = 0 /\ mtime = 0 /\ parts = NoParts
    /\ resp = NoResponse /\ disturbed = FALSE /\ served = 0

-----------------------------------------------------------------------------
(* Whoever maintains the file.  A new version gets the time of its writing *)
(* or brings an older one along, never that of another version; the clock   *)
(* matters to it alone.                                                    *)

fileVars == <<clock, versions, file>>
serverVars == <<req, at, size, mtime, parts, resp, served>>

Tick ==
    /\ clock < MaxClock /\ Cardinality(versions) < MaxVersions
    /\ clock' = clock + 1
    /\ UNCHANGED <<options, versions, file, copy, disturbed, serverVars>>

Replace ==
    /\ Cardinality(versions) < MaxVersions
    /\ \E s \in Sizes, t \in 1..clock :
          /\ \A v \in versions : v.mtime # t
          /\ file' = [id |-> Cardinality(versions) + 1, size |-> s, mtime |-> t]
    /\ versions' = versions \cup {file'}
    /\ disturbed' = (at # "idle")
    /\ UNCHANGED <<options, clock, copy, serverVars>>

Remove ==
    /\ file # None /\ Cardinality(versions) < MaxVersions
    /\ file' = None /\ disturbed' = (at # "idle")
    /\ UNCHANGED <<options, clock, versions, copy, serverVars>>

-----------------------------------------------------------------------------
(* The client.                                                             *)

IfRanges ==
    LET tag == [kind |-> "etag", etag |-> copy.etag, date |-> None]
        date == [kind |-> "date", etag |-> None, date |-> copy.modified]
    IN  { NoRequest.ifRange }
        \cup (IF copy = None \/ copy.etag = None THEN {} ELSE { tag })
        \cup (IF copy = None \/ copy.modified = None THEN {} ELSE { date })

Plain(method, target) == [NoRequest EXCEPT !.method = method, !.target = target]

FileRequests ==
    { Plain("POST", "file"), Plain("GET", "directory"), Plain("GET", "refused") }
    \cup (IF copy = None THEN { NoRequest }
          ELSE { [NoRequest EXCEPT !.ifNoneMatch = n, !.ifModifiedSince = m] :
                   n \in {None, copy.etag}, m \in {None, copy.modified} })
    \cup [method : {"GET", "HEAD"}, target : {"file"}, ifNoneMatch : {None},
          ifModifiedSince : {None}, range : Specs \cup {None}, ifRange : IfRanges]

Request ==
    /\ at = "idle" /\ served < MaxRequests
    /\ req' \in FileRequests
    /\ at' = "serve" /\ served' = served + 1
    /\ UNCHANGED <<options, fileVars, copy, size, mtime, parts, resp, disturbed>>

-----------------------------------------------------------------------------
(* StaticFileServer.  "directory" is the file's directory and "refused"    *)
(* what the prefix, is_path_allowed() or is_extension_allowed() keep out;  *)
(* whatever serve() declines goes on to the router, which finds nothing.   *)

Respond(r) == resp' = r /\ at' = "send"
NotFound == [NoResponse EXCEPT !.status = 404, !.length = 1, !.body = <<Piece(0, 0, 0)>>]

Declines == req.method = "POST" \/ req.target = "refused" \/ file = None

serve ==
    /\ at = "serve"
    /\ IF Declines THEN Respond(NotFound) ELSE at' = "size" /\ UNCHANGED resp
    /\ UNCHANGED <<options, fileVars, copy, req, size, mtime, parts, disturbed, served>>

file_size ==
    /\ at = "size"
    /\ IF file = None THEN Respond(NotFound) /\ UNCHANGED size
       ELSE size' = file.size /\ at' = "mtime" /\ UNCHANGED resp
    /\ UNCHANGED <<options, fileVars, copy, req, mtime, parts, disturbed, served>>

last_write_time ==
    /\ at = "mtime"
    /\ IF file = None THEN Respond(NotFound) /\ UNCHANGED mtime
       ELSE mtime' = file.mtime /\ at' = "decide" /\ UNCHANGED resp
    /\ UNCHANGED <<options, fileVars, copy, req, size, parts, disturbed, served>>

(* check_not_modified(): an ETag that differs does not settle the matter,  *)
(* the date is looked at all the same.                                     *)
check_not_modified(s) ==
    \/ req.ifNoneMatch # None /\ "etag" \in options /\ req.ifNoneMatch = generate_etag(size, mtime)
    \/ req.ifModifiedSince # None /\ "last_modified" \in options /\ s <= req.ifModifiedSince

serve_file ==
    /\ at = "decide"
    /\ \E s \in Converted(mtime), modified \in LastModified(mtime) :
         LET with == [NoResponse EXCEPT !.etag = generate_etag(size, mtime), !.modified = modified]
         IN IF check_not_modified(s) THEN Respond([with EXCEPT !.status = 304])
            ELSE IF req.range # None /\ "range_requests" \in options THEN resp' = with /\ at' = "build"
            ELSE Respond([with EXCEPT !.status = 200, !.length = size,
                                      !.file = req.method # "HEAD"])
    /\ UNCHANGED <<options, fileVars, copy, req, size, mtime, parts, disturbed, served>>

-----------------------------------------------------------------------------
(* RangeResponseBuilder::build(), which opens the file for its size and    *)
(* once more for each part, or for all of it.                              *)

build ==
    /\ at = "build"
    /\ IF file = None THEN Respond(NotFound) /\ UNCHANGED parts
       ELSE LET status == Status("bytes", req.range,
                              CheckIfRange(req.ifRange, resp.etag, resp.modified), file.size)
                all == [i \in Parts(req.range, file.size) |->
                          Normalized(req.range[i], file.size)]
            IN /\ parts' = [todo |-> IF status = 206 THEN DOMAIN all ELSE {}, all |-> all]
               /\ IF status = 416
                  THEN Respond([NoResponse EXCEPT !.status = 416])
                  ELSE resp' = [resp EXCEPT !.status = status] /\ at' = "read"
    /\ UNCHANGED <<options, fileVars, copy, req, size, mtime, disturbed, served>>

build_full ==
    /\ at = "read" /\ resp.status = 200
    /\ LET body == IF file = None THEN <<>> ELSE Cut(file.id, file.size)
       IN Respond([resp EXCEPT !.body = body, !.length = Size(body)])
    /\ UNCHANGED <<options, fileVars, copy, req, size, mtime, parts, disturbed, served>>

(* Mutant: the end of a range is taken for the byte after it.              *)
ReadShort(range) ==
    IF file = None \/ range.start >= file.size THEN <<>>
    ELSE <<Piece(file.id, range.start, range.end - 1)>>

(* read_file_range(): what there is of the range, when it is read.         *)
read_file_range(range) ==
    IF file = None \/ range.start >= file.size THEN <<>>
    ELSE <<Piece(file.id, range.start, IF range.end < file.size THEN range.end ELSE file.size - 1)>>

build_range ==
    /\ at = "read" /\ resp.status = 206
    /\ LET i == CHOOSE k \in parts.todo : \A j \in parts.todo : k <= j
           body == resp.body \o read_file_range(parts.all[i])
       IN /\ parts' = [parts EXCEPT !.todo = @ \ {i}]
          /\ resp' = [resp EXCEPT !.body = body, !.length = Size(body)]
          /\ at' = IF parts.todo = {i} THEN "send" ELSE "read"
    /\ UNCHANGED <<options, fileVars, copy, req, size, mtime, disturbed, served>>

-----------------------------------------------------------------------------
(* The connection: headers and file, or all in one piece.                  *)

(* Mutant: always the whole file.                                          *)
TransmittedWhole == Cut(file.id, file.size)

(* send_file_zero_copy(): a length of 0 stands for the whole file, and     *)
(* where the file ends sendfile() does too, without an error.              *)
Transmitted ==
    LET length == IF resp.length = 0 THEN file.size ELSE resp.length
    IN Cut(file.id, IF length < file.size THEN length ELSE file.size)

ZeroCopy == resp.file /\ req.method # "HEAD"

send_file_zero_copy ==
    /\ at = "send" /\ ZeroCopy
    /\ IF file = None THEN at' = "closed" /\ UNCHANGED resp
       ELSE resp' = [resp EXCEPT !.body = Transmitted] /\ at' = "sent"
    /\ UNCHANGED <<options, fileVars, copy, req, size, mtime, parts, disturbed, served>>

async_write_all ==
    /\ at = "send" /\ ~ZeroCopy
    /\ at' = "sent"
    /\ UNCHANGED <<options, fileVars, copy, req, size, mtime, parts, resp, disturbed, served>>

(* The client keeps a full response, with its validators; the loop of      *)
(* handle_connection() goes round.                                         *)
Receive ==
    /\ at = "sent"
    /\ copy' = IF resp.status = 200 /\ req.method = "GET"
               THEN [etag |-> resp.etag, modified |-> resp.modified, body |-> resp.body,
                     disturbed |-> disturbed]
               ELSE copy
    /\ at' = "idle" /\ req' = NoRequest /\ resp' = NoResponse
    /\ size' = 0 /\ mtime' = 0 /\ parts' = NoParts /\ disturbed' = FALSE
    /\ UNCHANGED <<options, fileVars, served>>

Next ==
    \/ Tick \/ Replace \/ Remove
    \/ Request \/ Receive
    \/ serve \/ file_size \/ last_write_time \/ serve_file
    \/ build \/ build_full \/ build_range
    \/ send_file_zero_copy \/ async_write_all

Spec == Init /\ [][Next]_vars

-----------------------------------------------------------------------------
VersionOf(id) == CHOOSE v \in versions : v.id = id

(* What a 304 confirms: the client's copy, when the response that brought  *)
(* it was undisturbed, is not older than the file that was looked at by    *)
(* more than a second and what two readings of the clocks are apart.  Not  *)
(* more is true: the date settles what the ETag would have told apart, so  *)
(* a second write in the same second, or an older version put back, stays  *)
(* unnoticed.                                                              *)
NotModifiedWithinASecond ==
    at \in {"send", "sent"} /\ resp.status = 304 /\ ~copy.disturbed /\ copy.body # <<>> =>
        mtime < VersionOf(copy.body[1].version).mtime + TicksPerSecond + 2

(* A response leaves the connection where the client expects the next one: *)
(* as many bytes as were announced, none after HEAD or 304.  The code has  *)
(* three exceptions: a file that was shortened since its size was read     *)
(* leaves bytes owing, one that was empty then is sent as it is now, and a *)
(* HEAD that falls to the router or asks for ranges is sent a body.        *)
Announced == IF req.method = "HEAD" \/ resp.status = 304 THEN 0 ELSE resp.length
FramingKept ==
    at = "sent" =>
        \/ Size(resp.body) = Announced
        \/ resp.file /\ disturbed /\ (Size(resp.body) < Announced \/ Announced = 0)
        \/ req.method = "HEAD" /\ (resp.status = 404 \/ req.range # None)

(* An undisturbed 206 holds the bytes of the file that each valid range    *)
(* requested, and with an If-Range they continue the client's copy: the    *)
(* same version, or by date one of the same second, give or take a tick.   *)
RangesServed ==
    at = "sent" /\ resp.status = 206 /\ ~disturbed =>
        /\ { Bytes([start |-> resp.body[i].first, end |-> resp.body[i].last]) :
               i \in DOMAIN resp.body }
           = { Requested(req.range[i], file.size) :
                 i \in { k \in WellFormed(req.range) : Valid(req.range[k]) } } \ {{}}
        /\ req.ifRange.kind # "none" /\ ~copy.disturbed /\ copy.body # <<>> =>
               LET v == VersionOf(copy.body[1].version)
               IN IF req.ifRange.kind = "etag" THEN file = v
                  ELSE file.mtime < v.mtime + TicksPerSecond + 2
                       /\ v.mtime < file.mtime + TicksPerSecond + 2
=============================================================================
