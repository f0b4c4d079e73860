------------------------------- MODULE Forms --------------------------------
(***************************************************************************)
(* The bodies of forms (src/core/form.cpp) and the Cookie header           *)
(* (src/core/cookie.cpp): what the parsers make of them.                   *)
(*                                                                         *)
(* A url-encoded text is a sequence of octets.  A multipart body and a     *)
(* header are sequences of tokens: the strings that the parsers look for,  *)
(* cut where one is part of another, and any others.  What may be missing  *)
(* is a sequence of at most one element; the position npos is 0.           *)
(***************************************************************************)
EXTENDS Integers, Sequences, SequencesExt

-----------------------------------------------------------------------------
(* Searching.                                                              *)

Found(text, what, i) ==
    i + Len(what) - 1 <= Len(text) /\ SubSeq(text, i, i + Len(what) - 1) = what
Find(text, what, start) ==
    LET at == {i \in start .. Len(text) - Len(what) + 1 : Found(text, what, i)}
    IN  IF at = {} THEN 0 ELSE CHOOSE i \in at : \A j \in at : i <= j

(* Where what comes before a separator ends.                               *)
EndAt(text, separator, start) ==
    LET found == Find(text, separator, start) IN IF found = 0 THEN Len(text) + 1 ELSE found

(* The pieces between separators; none follows a separator at the end.     *)
Pieces(text, separator) ==
    LET from[start \in 1 .. Len(text) + Len(separator) + 1] ==
            IF start > Len(text) THEN <<>>
            ELSE LET end == EndAt(text, separator, start)
                 IN  <<SubSeq(text, start, end - 1)>> \o from[end + Len(separator)]
    IN  from[1]

(* A piece up to the first separator, and what follows it.                 *)
Before(piece, separator) == SubSeq(piece, 1, EndAt(piece, separator, 1) - 1)
After(piece, separator) == SubSeq(piece, EndAt(piece, separator, 1) + 1, Len(piece))

Blank == {" ", "TAB", "CR", "LF"}
trim(text) ==
    LET ink == {i \in DOMAIN text : text[i] \notin Blank}
    IN  IF ink = {} THEN <<>>
        ELSE SubSeq(text, CHOOSE i \in ink : \A j \in ink : i <= j,
                          CHOOSE i \in ink : \A j \in ink : i >= j)

-----------------------------------------------------------------------------
(* URL encoding.                                                           *)

Digit == 48 .. 57
Upper == 65 .. 90
Lower == 97 .. 122
Space == 32
Plus == 43
Percent == 37
Ampersand == 38
Equals == 61

HexDigit == Digit \cup 65 .. 70 \cup 97 .. 102
hex_digit(c) == IF c \in Digit THEN c - 48 ELSE IF c \in Lower THEN c - 87 ELSE c - 55

Escapes(text, i) ==
    /\ text[i] = Percent /\ i + 2 <= Len(text)
    /\ text[i + 1] \in HexDigit /\ text[i + 2] \in HexDigit

url_decode(encoded) ==
    LET from[i \in 1 .. Len(encoded) + 1] ==
            IF i > Len(encoded) THEN <<>>
            ELSE IF Escapes(encoded, i)
            THEN <<16 * hex_digit(encoded[i + 1]) + hex_digit(encoded[i + 2])>> \o from[i + 3]
            ELSE <<IF encoded[i] = Plus THEN Space ELSE encoded[i]>> \o from[i + 1]
    IN  from[1]

(* '-', '.', '_' and '~' and what isalnum() accepts in the C locale.       *)
Unreserved == Digit \cup Upper \cup Lower \cup {45, 46, 95, 126}
AsHex(v) == IF v < 10 THEN 48 + v ELSE 55 + v
EncodeOctet(c) ==
    IF c \in Unreserved THEN <<c>>
    ELSE IF c = Space THEN <<Plus>> ELSE <<Percent, AsHex(c \div 16), AsHex(c % 16)>>
url_encode(decoded) == FlattenSeq([i \in DOMAIN decoded |-> EncodeOctet(decoded[i])])

-----------------------------------------------------------------------------
(* The fields of a form in their order, and by their names.                *)

NoData == [fields |-> <<>>, index |-> <<>>]

add(data, field) ==
    LET names == DOMAIN data.index \cup {field.name}
        places(name) == IF name \in DOMAIN data.index THEN data.index[name] ELSE <<>>
    IN  [fields |-> Append(data.fields, field),
         index |-> [name \in names |->
            IF name = field.name THEN Append(places(name), Len(data.fields) + 1)
            ELSE places(name)]]

has(data, name) == name \in DOMAIN data.index
get_fields(data, name) ==
    IF has(data, name)
    THEN [i \in DOMAIN data.index[name] |-> data.fields[data.index[name][i]]] ELSE <<>>
get_all(data, name) ==
    LET fields == get_fields(data, name) IN [i \in DOMAIN fields |-> fields[i].value]

(* Fields without a name are dropped.                                      *)
AddNamed(data, field) == IF field.name = <<>> THEN data ELSE add(data, field)
Collect(fields) == FoldLeft(AddNamed, NoData, fields)

Plain(name, value) ==
    [name |-> name, value |-> value, filename |-> <<>>, content_type |-> <<>>, is_file |-> FALSE]

parse_urlencoded(body) ==
    LET pairs == Pieces(body, <<Ampersand>>)
    IN  Collect([i \in DOMAIN pairs |->
            Plain(url_decode(Before(pairs[i], <<Equals>>)),
                  url_decode(After(pairs[i], <<Equals>>)))])

-----------------------------------------------------------------------------
(* Multipart bodies.                                                       *)

CRLF == <<"CR", "LF">>
Dashes == <<"--">>

(* What stands between quotes after a key, wherever the key is found.      *)
Quoted(header, key) ==
    LET at == Find(header, key, 1)
        start == at + Len(key)
        end == IF at = 0 THEN 0 ELSE Find(header, <<"quote">>, start)
    IN  IF end = 0 THEN <<>> ELSE SubSeq(header, start, end - 1)
NameKey == <<"name=", "quote">>
FilenameKey == <<"file", "name=", "quote">>

(* The value of the last header with this name; names are compared without *)
(* regard to case: a token is a name in lower case, whatever was sent.     *)
HeaderValue(lines, name) ==
    LET with == SelectSeq(lines, LAMBDA line :
                    Find(line, <<":">>, 1) # 0 /\ trim(Before(line, <<":">>)) = <<name>>)
    IN  IF with = <<>> THEN <<>> ELSE trim(After(Last(with), <<":">>))

Field(section, value) ==
    LET lines == Pieces(section, CRLF)
        disposition == HeaderValue(lines, "content-disposition")
        filename == Quoted(disposition, FilenameKey)
    IN  [name |-> Quoted(disposition, NameKey), value |-> value, filename |-> filename,
         content_type |-> HeaderValue(lines, "content-type"), is_file |-> filename # <<>>]

(* The contents of a part are what stands before the end of line before    *)
(* the next delimiter; where that is the end of the headers' last line,    *)
(* the length is negative, which stands for all of the body.               *)
Contents(body, start, next) ==
    LET end == IF Found(body, CRLF, next - 2) THEN next - 2 ELSE next
    IN  SubSeq(body, start, IF end < start THEN Len(body) ELSE end - 1)

(* The fields of the parts from "pos" on, which follows a delimiter.  A    *)
(* part that is not complete ends the body.                                *)
Parts(body, delimiter) ==
    LET from[pos \in 1 .. Len(body) + 1] ==
            LET first == IF Found(body, CRLF, pos) THEN pos + 2 ELSE pos
                headers_end == Find(body, CRLF \o CRLF, first)
                start == headers_end + 4
                next == IF headers_end = 0 THEN 0 ELSE Find(body, delimiter, start)
            IN  IF pos > Len(body) \/ Found(body, Dashes, pos) \/ next = 0 THEN <<>>
                ELSE <<Field(SubSeq(body, first, headers_end - 1), Contents(body, start, next))>>
                     \o from[next + Len(delimiter)]
    IN  from

Error(status) == [error |-> status]
BadRequest == Error(400)
UnsupportedMediaType == Error(415)

parse_multipart(body, boundary) ==
    LET delimiter == Dashes \o boundary
        first == Find(body, delimiter, 1)
    IN  IF body = <<>> \/ boundary = <<>> THEN NoData
        ELSE IF first = 0 THEN BadRequest
        ELSE Collect(Parts(body, delimiter)[first + Len(delimiter)])

(* A boundary may be quoted, or ends with the parameter.                   *)
extract_boundary(content_type) ==
    LET at == Find(content_type, <<"boundary=">>, 1)
        rest == SubSeq(content_type, at + 1, Len(content_type))
        quoted == rest # <<>> /\ Head(rest) = "quote"
    IN  IF at = 0 \/ (quoted /\ Find(rest, <<"quote">>, 2) = 0) THEN <<>>
        ELSE IF quoted THEN <<SubSeq(rest, 2, Find(rest, <<"quote">>, 2) - 1)>>
        ELSE <<trim(Before(rest, <<";">>))>>

parse(content_type, body) ==
    IF content_type = <<>> THEN BadRequest
    ELSE IF IsPrefix(<<"application/x-www-form-urlencoded">>, content_type[1])
    THEN parse_urlencoded(body)
    ELSE IF ~IsPrefix(<<"multipart/form-data">>, content_type[1]) THEN UnsupportedMediaType
    ELSE IF extract_boundary(content_type[1]) = <<>> THEN BadRequest
    ELSE parse_multipart(body, extract_boundary(content_type[1])[1])

-----------------------------------------------------------------------------
(* Cookies: the last of a name counts.                                     *)

Unquote(value) ==
    IF Len(value) >= 2 /\ Head(value) = "quote" /\ Last(value) = "quote"
    THEN SubSeq(value, 2, Len(value) - 1) ELSE value

Cookies(header) ==
    LET pieces == Pieces(header, <<";">>)
    IN  SelectSeq([i \in DOMAIN pieces |-> trim(pieces[i])],
                  LAMBDA pair : Find(pair, <<"=">>, 1) # 0 /\ trim(Before(pair, <<"=">>)) # <<>>)

parse_cookies(header) ==
    LET pairs == Cookies(header)
        name(i) == trim(Before(pairs[i], <<"=">>))
    IN  [n \in {name(i) : i \in DOMAIN pairs} |->
            LET last == CHOOSE i \in DOMAIN pairs :
                            name(i) = n /\ \A j \in DOMAIN pairs : j > i => name(j) # n
            IN  Unquote(trim(After(pairs[last], <<"=">>)))]

(* What Set-Cookie says; an attribute is a sequence of at most one value.  *)
Attribute(name, value) == IF value = <<>> THEN <<>> ELSE <<";", " ", name, "=">> \o value[1]
Flag(name, on) == IF on THEN <<";", " ", name>> ELSE <<>>
to_header(c) ==
    c.name \o <<"=">> \o c.value
    \o Attribute("Domain", c.domain) \o Attribute("Path", c.path)
    \o Attribute("Max-Age", c.max_age) \o Attribute("Expires", c.expires)
    \o Flag("Secure", c.secure) \o Flag("HttpOnly", c.http_only)
    \o Attribute("SameSite", <<<<c.same_site>>>>)

expired(name) ==
    [name |-> name, value |-> <<>>, domain |-> <<>>, path |-> <<>>, max_age |-> <<<<"0">>>>,
     expires |-> <<<<"epoch">>>>, secure |-> FALSE, http_only |-> FALSE, same_site |-> "Lax"]
=============================================================================
