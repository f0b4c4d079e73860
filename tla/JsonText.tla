------------------------------ MODULE JsonText ------------------------------
(***************************************************************************)
(* JSON documents (src/core/json.cpp): how values are written and how the  *)
(* library's own parser, the one used without simdjson, reads them.  Texts *)
(* are sequences of octets.                                                *)
(*                                                                         *)
(* A value is a record with one field, its kind.  A number is m * 10^e, m  *)
(* not being a multiple of ten unless both are 0; only whole numbers (e >= *)
(* 0) are written, the digits of the others being the library's.  An       *)
(* object is the sequence of its members in the order the map is iterated. *)
(***************************************************************************)
EXTENDS Integers, Sequences, SequencesExt

Quote == 34
Backslash == 92
Comma == 44
Colon == 58
OpenBracket == 91
CloseBracket == 93
OpenBrace == 123
CloseBrace == 125
Minus == 45
Zero == 48
Digit == 48 .. 57
Blank == 9 .. 13 \cup {32}
NullText == <<110, 117, 108, 108>>
TrueText == <<116, 114, 117, 101>>
FalseText == <<102, 97, 108, 115, 101>>

Null == [null |-> TRUE]
Bool(b) == [bool |-> b]
Number(m, e) == [number |-> <<m, e>>]
String(s) == [string |-> s]
Array(items) == [array |-> items]
Object(members) == [object |-> members]
Infinite == [infinite |-> TRUE]
Is(kind, value) == kind \in DOMAIN value

-----------------------------------------------------------------------------
(* Writing.  A stream keeps the base of numbers it was last told: the      *)
(* escape of a control character sets it to sixteen, for good.             *)

Stream == [text : Seq(0 .. 255), base : {10, 16}]
Write(os, text) == [os EXCEPT !.text = @ \o text]

HexDigit(v) == IF v < 10 THEN 48 + v ELSE 87 + v
ShortEscape == [c \in {8, 9, 10, 12, 13, 34, 92} |->
    CASE c = 8 -> 98 [] c = 9 -> 116 [] c = 10 -> 110 [] c = 12 -> 102 [] c = 13 -> 114
      [] OTHER -> c]

EscapeOctet(os, c) ==
    IF c \in DOMAIN ShortEscape THEN Write(os, <<Backslash, ShortEscape[c]>>)
    ELSE IF c < 32
    THEN [Write(os, <<Backslash, 117, 48, 48, HexDigit(c \div 16), HexDigit(c % 16)>>)
            EXCEPT !.base = 16]
    ELSE Write(os, <<c>>)
escape_string(os, s) == Write(FoldLeft(EscapeOctet, Write(os, <<Quote>>), s), <<Quote>>)

(* The digits of n >= 0.                                                   *)
Digits(n, base) ==
    LET f[k \in 0 .. n] ==
            (IF k < base THEN <<>> ELSE f[k \div base]) \o <<HexDigit(k % base)>>
    IN  f[n]

(* In base sixteen a negative number is written as its 64-bit complement.  *)
Complement(n) ==
    LET digits == Digits(-n - 1, 16)
    IN  [i \in 1 .. 16 - Len(digits) |-> HexDigit(15)]
        \o [i \in DOMAIN digits |->
                LET v == CHOOSE v \in 0 .. 15 : HexDigit(v) = digits[i] IN HexDigit(15 - v)]
write_integer(os, n) ==
    Write(os, IF n >= 0 THEN Digits(n, os.base)
              ELSE IF os.base = 16 THEN Complement(n) ELSE <<Minus>> \o Digits(-n, 10))

Whole(number) == number[1] * 10 ^ number[2]

Newline(os, indent, depth) ==
    IF indent < 0 THEN os ELSE Write(os, <<10>> \o [i \in 1 .. depth * indent |-> 32])

RECURSIVE dump_impl(_, _, _, _)

(* The elements of an array or an object follow each other between its     *)
(* brackets, those of an object behind their keys.                         *)
dump_impl(os, value, indent, depth) ==
    LET members == Is("object", value)
        elements == IF members THEN value.object ELSE value.array
        Key(o, i) == Write(escape_string(o, elements[i][1]),
                           IF indent >= 0 THEN <<Colon, 32>> ELSE <<Colon>>)
        Element(o, i) ==
            IF members THEN dump_impl(Key(o, i), elements[i][2], indent, depth + 1)
            ELSE dump_impl(o, elements[i], indent, depth + 1)
        WriteNext(o, i) ==
            LET next == Element(Newline(o, indent, depth + 1), i)
            IN  IF i < Len(elements) THEN Write(next, <<Comma>>) ELSE next
        open == IF members THEN OpenBrace ELSE OpenBracket
        close == IF members THEN CloseBrace ELSE CloseBracket
    IN  IF Is("bool", value) THEN Write(os, IF value.bool THEN TrueText ELSE FalseText)
        ELSE IF Is("number", value) THEN write_integer(os, Whole(value.number))
        ELSE IF Is("string", value) THEN escape_string(os, value.string)
        ELSE IF ~members /\ ~Is("array", value) THEN Write(os, NullText)
        ELSE IF elements = <<>> THEN Write(os, <<open, close>>)
        ELSE LET all == FoldLeft(WriteNext, Write(os, <<open>>), [i \in DOMAIN elements |-> i])
             IN  Write(Newline(all, indent, depth), <<close>>)

dump(value, indent) == dump_impl([text |-> <<>>, base |-> 10], value, indent, 0).text

-----------------------------------------------------------------------------
(* Reading.  A position behind the end shows as the octet 0.  A result is  *)
(* a value and the position behind it; the position of an error is 0.      *)

peek(text, pos) == IF pos <= Len(text) THEN text[pos] ELSE 0
Result(pos, value) == [pos |-> pos, value |-> value]
Failed == Result(0, Null)

(* Behind the longest run of octets of a set.                              *)
RunEnd(text, pos, octets) ==
    CHOOSE end \in pos .. Len(text) + pos :
        /\ peek(text, end) \notin octets
        /\ \A i \in pos .. end - 1 : peek(text, i) \in octets
skip_whitespace(text, pos) == RunEnd(text, pos, Blank)

Literal(text, pos, word, value) ==
    IF IsPrefix(word, SubSeq(text, pos, Len(text))) THEN Result(pos + Len(word), value) ELSE Failed

(* The number in digits of a base; hexadecimal ones in either case.        *)
Upper == 65 .. 70
Lower == 97 .. 102
DigitValue(c) == IF c \in Digit THEN c - 48 ELSE IF c \in Lower THEN c - 87 ELSE c - 55
Numeral(digits, base) == FoldLeft(LAMBDA n, c : base * n + DigitValue(c), 0, digits)

RECURSIVE Normal(_, _)
Normal(m, e) ==
    IF m = 0 THEN Number(0, 0)
    ELSE IF m % 10 = 0 THEN Normal(m \div 10, e + 1) ELSE Number(m, e)

(* A number ends where each part it begins ends; the value is within the   *)
(* range and the precision of a double.                                    *)
parse_number(text, pos) ==
    LET minus == peek(text, pos) = Minus
        start == IF minus THEN pos + 1 ELSE pos
        int == IF peek(text, start) = Zero THEN start + 1 ELSE RunEnd(text, start, Digit)
        point == peek(text, int) = 46
        frac == IF point THEN RunEnd(text, int + 1, Digit) ELSE int
        power == peek(text, frac) \in {69, 101}
        sign == IF power /\ peek(text, frac + 1) \in {43, Minus} THEN frac + 2 ELSE frac + 1
        end == IF power THEN RunEnd(text, sign, Digit) ELSE frac
        m == Numeral(SubSeq(text, start, int - 1) \o SubSeq(text, int + 1, frac - 1), 10)
        e == IF power THEN Numeral(SubSeq(text, sign, end - 1), 10) ELSE 0
    IN  IF int = start \/ (point /\ frac = int + 1) \/ (power /\ end = sign) THEN Failed
        ELSE Result(end, Normal(IF minus THEN -m ELSE m,
                     (IF power /\ peek(text, frac + 1) = Minus THEN -e ELSE e)
                     - (IF point THEN frac - int - 1 ELSE 0)))

(* std::stoi() with base 16 takes as many digits as there are, after       *)
(* blanks, a sign and "0x"; none where there is no digit.                  *)
stoi(hex) ==
    LET digits == Digit \cup Upper \cup Lower
        first == skip_whitespace(hex, 1)
        sign == IF peek(hex, first) \in {43, Minus} THEN first + 1 ELSE first
        start == IF /\ peek(hex, sign) = Zero /\ peek(hex, sign + 1) \in {88, 120}
                    /\ peek(hex, sign + 2) \in digits
                 THEN sign + 2 ELSE sign
        n == Numeral(SubSeq(hex, start, RunEnd(hex, start, digits) - 1), 16)
    IN  IF peek(hex, start) \notin digits THEN <<>>
        ELSE <<IF peek(hex, first) = Minus THEN -n ELSE n>>

(* A code point of sixteen bits, surrogates alone; below 128 it is cast.   *)
Utf8(cp) ==
    IF cp < 128 THEN <<cp % 256>>
    ELSE IF cp < 2048 THEN <<192 + (cp \div 64), 128 + (cp % 64)>>
    ELSE <<224 + (cp \div 4096), 128 + ((cp \div 64) % 64), 128 + (cp % 64)>>

Unescape == [c \in {34, 92, 47, 98, 102, 110, 114, 116} |->
    CASE c = 98 -> 8 [] c = 102 -> 12 [] c = 110 -> 10 [] c = 114 -> 13 [] c = 116 -> 9
      [] OTHER -> c]

(* One octet of a string or one escape: how long it is and what it stands  *)
(* for; no length for an error.                                            *)
Unit(text, pos) ==
    LET c == peek(text, pos)
        esc == peek(text, pos + 1)
        code == stoi(SubSeq(text, pos + 2, pos + 5))
    IN  IF c # 0 /\ c # Backslash THEN [length |-> 1, octets |-> <<c>>]
        ELSE IF c = Backslash /\ esc \in DOMAIN Unescape
        THEN [length |-> 2, octets |-> <<Unescape[esc]>>]
        ELSE IF c = Backslash /\ esc = 117 /\ pos + 5 <= Len(text) /\ code # <<>>
        THEN [length |-> 6, octets |-> Utf8(code[1])]
        ELSE [length |-> 0, octets |-> <<>>]

parse_string(text, pos) ==
    LET from[p \in pos .. Len(text) + 1] ==
            LET unit == Unit(text, p)
                rest == from[p + unit.length]
            IN  IF peek(text, p) = Quote THEN Result(p + 1, <<>>)
                ELSE IF unit.length = 0 \/ rest.pos = 0 THEN Result(0, <<>>)
                ELSE Result(rest.pos, unit.octets \o rest.value)
    IN  IF peek(text, pos) # Quote THEN Result(0, <<>>)
        ELSE from[pos + 1]

RECURSIVE parse_value(_, _), parse_items(_, _), parse_members(_, _)

(* The rest of an array or an object, from an element to the bracket.      *)
parse_items(text, pos) ==
    LET item == parse_value(text, pos)
        next == skip_whitespace(text, item.pos)
        rest == parse_items(text, next + 1)
    IN  IF item.pos = 0 THEN Result(0, <<>>)
        ELSE IF peek(text, next) = CloseBracket THEN Result(next + 1, <<item.value>>)
        ELSE IF peek(text, next) # Comma \/ rest.pos = 0 THEN Result(0, <<>>)
        ELSE Result(rest.pos, <<item.value>> \o rest.value)

(* The last member of a name counts.                                       *)
WithMember(key, value, members) ==
    IF \E i \in DOMAIN members : members[i][1] = key THEN members
    ELSE <<<<key, value>>>> \o members

parse_members(text, pos) ==
    LET key == parse_string(text, skip_whitespace(text, pos))
        colon == skip_whitespace(text, key.pos)
        item == parse_value(text, colon + 1)
        next == skip_whitespace(text, item.pos)
        rest == parse_members(text, next + 1)
    IN  IF key.pos = 0 \/ peek(text, colon) # Colon \/ item.pos = 0 THEN Result(0, <<>>)
        ELSE IF peek(text, next) = CloseBrace
        THEN Result(next + 1, <<<<key.value, item.value>>>>)
        ELSE IF peek(text, next) # Comma \/ rest.pos = 0 THEN Result(0, <<>>)
        ELSE Result(rest.pos, WithMember(key.value, item.value, rest.value))

parse_array(text, pos) ==
    LET first == skip_whitespace(text, pos + 1)
        all == parse_items(text, first)
    IN  IF peek(text, first) = CloseBracket THEN Result(first + 1, Array(<<>>))
        ELSE IF all.pos = 0 THEN Failed ELSE Result(all.pos, Array(all.value))

parse_object(text, pos) ==
    LET first == skip_whitespace(text, pos + 1)
        all == parse_members(text, first)
    IN  IF peek(text, first) = CloseBrace THEN Result(first + 1, Object(<<>>))
        ELSE IF all.pos = 0 THEN Failed ELSE Result(all.pos, Object(all.value))

parse_value(text, before) ==
    LET pos == skip_whitespace(text, before)
        c == peek(text, pos)
        string == parse_string(text, pos)
    IN  IF c = NullText[1] THEN Literal(text, pos, NullText, Null)
        ELSE IF c = TrueText[1] THEN Literal(text, pos, TrueText, Bool(TRUE))
        ELSE IF c = FalseText[1] THEN Literal(text, pos, FalseText, Bool(FALSE))
        ELSE IF c = Quote
        THEN IF string.pos = 0 THEN Failed ELSE Result(string.pos, String(string.value))
        ELSE IF c = OpenBracket THEN parse_array(text, pos)
        ELSE IF c = OpenBrace THEN parse_object(text, pos)
        ELSE IF c = Minus \/ c \in Digit THEN parse_number(text, pos)
        ELSE Failed

(* Whether a text is accepted, and its value.  An empty one is an error    *)
(* and so is what follows a value.                                         *)
parse(text) ==
    LET result == parse_value(text, 1)
    IN  IF result.pos > 0 /\ skip_whitespace(text, result.pos) > Len(text)
        THEN result ELSE Failed

(* A request may leave its content type out.                               *)
parse_request(content_type, body) ==
    IF content_type # <<>> /\ ~IsPrefix(<<"application/json">>, content_type[1])
    THEN Failed ELSE parse(body)
=============================================================================
