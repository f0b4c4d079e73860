------------------------------ MODULE MCBodies -------------------------------
(***************************************************************************)
(* Forms and JsonText against what clients write into bodies and headers:  *)
(* small forms, cookies and documents, and all short texts against the     *)
(* grammar of JSON.                                                        *)
(***************************************************************************)
EXTENDS Integers, Sequences, SequencesExt

F == INSTANCE Forms
J == INSTANCE JsonText

-----------------------------------------------------------------------------
(* Forms.                                                                  *)

Named(fields) == SelectSeq(fields, LAMBDA field : field.name # <<>>)

(* A url-encoded form; with an empty pair at its end or not.               *)
UrlBody(fields, more) ==
    FlattenSeq([i \in DOMAIN fields |->
        (IF i = 1 THEN <<>> ELSE <<F!Ampersand>>)
        \o F!url_encode(fields[i].name) \o <<F!Equals>> \o F!url_encode(fields[i].value)])
    \o (IF more THEN <<F!Ampersand>> ELSE <<>>)

(* A multipart form, each part between delimiters on lines of their own;   *)
(* no delimiter stands in a value.                                         *)
Quoted(text) == <<"quote">> \o text \o <<"quote">>
PartBody(field) ==
    F!CRLF \o <<"content-disposition", ":", " ", "form-data", ";", " ", "name=">>
    \o Quoted(field.name)
    \o (IF field.is_file THEN <<";", " ", "file", "name=">> \o Quoted(field.filename) ELSE <<>>)
    \o (IF field.content_type = <<>> THEN <<>>
        ELSE F!CRLF \o <<"content-type", ":">> \o field.content_type)
    \o F!CRLF \o F!CRLF \o field.value \o F!CRLF
MultipartBody(fields, boundary) ==
    FlattenSeq([i \in DOMAIN fields |-> <<"--">> \o boundary \o PartBody(fields[i])])
    \o <<"--">> \o boundary \o <<"--">> \o F!CRLF

(* What was parsed is what was written, and is found by its names.         *)
ReadAs(data, fields) ==
    /\ data.fields = Named(fields)
    /\ \A field \in Range(fields) :
        F!get_fields(data, field.name) = SelectSeq(data.fields, LAMBDA f : f.name = field.name)
    /\ DOMAIN data.index = {field.name : field \in Range(data.fields)}

Words == {<<>>, <<37>>, <<61, 38>>, <<43, 32>>, <<52, 49>>, <<37, 52, 49>>}
UrlAgrees ==
    /\ \A c \in 0 .. 255, d \in {0, 32, 37, 43, 52, 65, 255} :
        F!url_decode(F!url_encode(<<c, d>>)) = <<c, d>>
    /\ \A fields \in BoundedSeq({F!Plain(n, v) : n, v \in Words}, 2), more \in BOOLEAN :
        ReadAs(F!parse(<<<<"application/x-www-form-urlencoded">>>>, UrlBody(fields, more)), fields)

FieldValues ==
    {v \in BoundedSeq({"x", "CR", "LF", "--", "b"}, 3) : F!Find(v, <<"--", "b">>, 1) = 0}
File(name, value, type) ==
    [F!Plain(name, value) EXCEPT !.filename = <<"x", " ">>, !.content_type = type, !.is_file = TRUE]
FieldsToSend ==
    {F!Plain(<<"n">>, v) : v \in FieldValues}
    \cup {File(n, v, type) : n \in {<<>>, <<"n">>, <<"m", " ">>}, v \in {<<>>, F!CRLF},
                             type \in {<<>>, <<"text">>}}
FewFields == {f \in FieldsToSend : f.value \in {<<>>, F!CRLF}}
BoundaryForms(boundary) == {boundary, Quoted(boundary), boundary \o <<";", "charset">>}

(* A form is read as it was written; one that breaks off gives the first   *)
(* of its fields, each of them whole.                                      *)
MultipartAgrees ==
    LET forms == {<<f>> : f \in FieldsToSend} \cup [1 .. 2 -> FewFields]
        Type(b) == <<<<"multipart/form-data", ";", " ", "boundary=">> \o b>>
    IN  /\ \A fields \in forms :
            ReadAs(F!parse_multipart(MultipartBody(fields, <<"b">>), <<"b">>), fields)
        /\ \A b \in BoundaryForms(<<"b">>), fields \in [1 .. 1 -> FewFields] :
            ReadAs(F!parse(Type(b), MultipartBody(fields, <<"b">>)), fields)
        /\ \A fields \in [1 .. 2 -> FewFields] :
            LET body == MultipartBody(fields, <<"b">>)
            IN  \A k \in 2 .. Len(body) :
                    IsPrefix(F!parse_multipart(SubSeq(body, 1, k), <<"b">>).fields, Named(fields))
        /\ F!parse(<<>>, <<"x">>) = F!BadRequest
        /\ F!parse_multipart(<<"x">>, <<"b">>) = F!BadRequest

-----------------------------------------------------------------------------
(* Cookies.  A client keeps what stands before the first semicolon of      *)
(* Set-Cookie, and sends the cookies it has, in some order.                *)

CookieHeader(cookies) ==
    FlattenSeq([i \in DOMAIN cookies |->
        (IF i = 1 THEN <<>> ELSE <<";", " ">>) \o cookies[i].name \o <<"=">> \o cookies[i].value])
Kept(header) ==
    LET pair == F!Before(header, <<";">>)
    IN  [name |-> F!Before(pair, <<"=">>), value |-> F!After(pair, <<"=">>)]

CookieValues == {<<>>, <<"a">>, <<"a", "=", "b">>, <<"=">>, <<"quote">>, <<"quote", "a">>}
CookiesToSet ==
    {[F!expired(n) EXCEPT !.value = v, !.domain = d, !.secure = flag, !.http_only = flag] :
        n \in {<<"n">>, <<"m">>}, v \in CookieValues, d \in {<<>>, <<<<"d">>>>}, flag \in BOOLEAN}

CookiesAgree ==
    /\ \A a, b \in CookiesToSet :
        LET jar == F!parse_cookies(CookieHeader(<<Kept(F!to_header(a)), Kept(F!to_header(b))>>))
        IN  /\ DOMAIN jar = {a.name, b.name}
            /\ jar[b.name] = b.value
            /\ a.name # b.name => jar[a.name] = a.value
    /\ \A v \in CookieValues : F!parse_cookies(<<"n", "=">> \o Quoted(v)) = <<"n">> :> v

-----------------------------------------------------------------------------
(* JSON.  What comes back of a value: a number that is not finite is null. *)

RECURSIVE Returned(_)
Returned(value) ==
    IF J!Is("array", value)
    THEN J!Array([i \in DOMAIN value.array |-> Returned(value.array[i])])
    ELSE IF J!Is("object", value)
    THEN J!Object([i \in DOMAIN value.object |->
                    <<value.object[i][1], Returned(value.object[i][2])>>])
    ELSE IF J!Is("infinite", value) THEN J!Null ELSE value

(* Strings and numbers of a value in the order they are written.           *)
RECURSIVE Scalars(_)
Scalars(value) ==
    IF J!Is("array", value)
    THEN FlattenSeq([i \in DOMAIN value.array |-> Scalars(value.array[i])])
    ELSE IF J!Is("object", value)
    THEN FlattenSeq([i \in DOMAIN value.object |->
            <<J!String(value.object[i][1])>> \o Scalars(value.object[i][2])])
    ELSE <<value>>

(* A number of more than one digit, or a negative one, behind a control    *)
(* character without an escape of its own is written in base sixteen.      *)
Control == 0 .. 31 \ {8, 9, 10, 12, 13}
WrittenInHex(value) ==
    LET scalars == Scalars(value)
    IN  \E j \in DOMAIN scalars : \E i \in 1 .. j - 1 :
            /\ J!Is("string", scalars[i]) /\ Range(scalars[i].string) \cap Control # {}
            /\ J!Is("number", scalars[j]) /\ J!Whole(scalars[j].number) \notin 0 .. 9

Leaves ==
    {J!Null, J!Bool(TRUE), J!Bool(FALSE), J!Infinite, J!Number(0, 0), J!Number(3, 0),
     J!Number(-17, 0), J!Number(25, 1), J!String(<<>>), J!String(<<31, 65, 1>>),
     J!String(<<34, 92, 47, 8, 9, 10, 12, 13, 200>>)}
Keys == {<<>>, <<34>>, <<2>>}
Branches ==
    {J!Array(items) : items \in BoundedSeq(Leaves, 2)}
    \cup {J!Object(<<<<k, v>>, <<l, w>>>>) : k \in Keys, l \in {<<97>>}, v, w \in Leaves}
Values ==
    Leaves \cup Branches
    \cup {J!Array(<<b, v>>) : b \in {J!Array(<<>>), J!Object(<<>>), J!Array(<<J!String(<<7>>)>>)},
                              v \in Leaves}

(* A document that was written is read as the value it was written for.    *)
ReadsBack(value, indent) ==
    LET result == J!parse(J!dump(value, indent))
    IN  result.pos # 0 /\ result.value = Returned(value)
DocumentsAgree ==
    \A value \in Values, indent \in {-1, 2} : WrittenInHex(value) \/ ReadsBack(value, indent)

(* The same without the exception, which does not hold: [U+0001, 10] is    *)
(* written as ["\u0001",a].                                               *)
AllDocumentsAgree == \A value \in Values : ReadsBack(value, -1)

(* The grammar of JSON, for texts of the characters below.                 *)
Sub(text, i, j) == SubSeq(text, i, j)
DigitsAt(text, i, j) == i <= j /\ \A k \in i .. j : text[k] \in J!Digit
IsExponent(text) ==
    \/ text = <<>>
    \/ Head(text) \in {69, 101} /\ DigitsAt(text, 2, Len(text))
    \/ Len(text) > 2 /\ Head(text) \in {69, 101} /\ text[2] \in {43, 45}
       /\ DigitsAt(text, 3, Len(text))
IsFraction(text) == text = <<>> \/ (Head(text) = 46 /\ DigitsAt(text, 2, Len(text)))
IsInteger(text) == DigitsAt(text, 1, Len(text)) /\ (Head(text) = J!Zero => Len(text) = 1)
IsUnsigned(text) ==
    \E i \in 1 .. Len(text), j \in 1 .. Len(text) :
        /\ i <= j /\ IsInteger(Sub(text, 1, i))
        /\ IsFraction(Sub(text, i + 1, j)) /\ IsExponent(Sub(text, j + 1, Len(text)))
IsNumber(text) == IsUnsigned(text) \/ (text[1] = J!Minus /\ IsUnsigned(Tail(text)))
IsString(text) ==
    /\ Len(text) >= 2 /\ text[1] = J!Quote /\ Last(text) = J!Quote
    /\ J!Quote \notin Range(Sub(text, 2, Len(text) - 1))

Trimmed(text) ==
    LET ink == {i \in DOMAIN text : text[i] # 32}
    IN  IF ink = {} THEN <<>>
        ELSE Sub(text, CHOOSE i \in ink : \A k \in ink : i <= k,
                       CHOOSE i \in ink : \A k \in ink : i >= k)

RECURSIVE IsValue(_), IsList(_, _)
IsMember(text) ==
    \E i \in DOMAIN text : text[i] = J!Colon /\ IsString(Trimmed(Sub(text, 1, i - 1)))
                           /\ IsValue(Sub(text, i + 1, Len(text)))
IsList(text, members) ==
    \/ IF members THEN IsMember(text) ELSE IsValue(text)
    \/ \E i \in DOMAIN text :
        /\ text[i] = J!Comma /\ IsList(Sub(text, i + 1, Len(text)), members)
        /\ LET first == Sub(text, 1, i - 1) IN IF members THEN IsMember(first) ELSE IsValue(first)
IsValue(text) ==
    LET t == Trimmed(text)
        inner == Sub(t, 2, Len(t) - 1)
        Between(open, close) == Len(t) >= 2 /\ t[1] = open /\ Last(t) = close
    IN  t # <<>> /\
        \/ t \in {J!NullText, J!TrueText, J!FalseText}
        \/ IsNumber(t) \/ IsString(t)
        \/ Between(J!OpenBracket, J!CloseBracket) /\ (Trimmed(inner) = <<>> \/ IsList(inner, FALSE))
        \/ Between(J!OpenBrace, J!CloseBrace) /\ (Trimmed(inner) = <<>> \/ IsList(inner, TRUE))

(* All short texts of brackets, strings and numbers, of blanks and of      *)
(* literals, and all that may stand between braces.                        *)
Braced(text) == <<J!OpenBrace>> \o text \o <<J!CloseBrace>>
ShortTexts ==
    BoundedSeq({91, 93, 44, 34, 48, 49, 45}, 4) \cup BoundedSeq({48, 49, 45, 46, 101, 43}, 5)
    \cup BoundedSeq({91, 93, 44, 32, 48, 123, 125}, 4)
    \cup {Braced(t) : t \in BoundedSeq({58, 34, 44, 48, 32}, 5)}
    \cup {J!NullText, J!TrueText \o <<32>>, J!FalseText, Tail(J!NullText), Front(J!TrueText)}

(* The parser accepts exactly what the grammar allows.                     *)
GrammarAgrees == \A text \in ShortTexts : J!parse(text).pos # 0 <=> IsValue(text)

(* Escapes by code point, in both cases; a string ends at its quote.       *)
EscapesAgree ==
    LET Escape(a, b, c, d) == <<J!Quote, J!Backslash, 117, a, b, c, d, J!Quote>>
    IN  /\ \A c \in J!Digit \cup J!Upper \cup J!Lower :
            J!parse(Escape(48, 48, 52, c)).value = J!String(<<64 + J!DigitValue(c)>>)
        /\ J!parse(Escape(48, 48, 101, 57)).value = J!String(<<195, 169>>)
        /\ J!parse(Escape(50, 48, 65, 67)).value = J!String(<<226, 130, 172>>)
        /\ J!parse(Escape(48, 48, 48, 120)).pos # 0 /\ J!parse(Escape(120, 48, 48, 48)).pos = 0

JsonAgrees == DocumentsAgree /\ GrammarAgrees /\ EscapesAgree
=============================================================================
