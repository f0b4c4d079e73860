-------------------------------- MODULE Ranges ------------------------------
(***************************************************************************)
(* Byte ranges (src/core/range.cpp): which bytes of a content a Range      *)
(* header gets.  A specification of the header is either malformed or a    *)
(* record whose absent ends are None; stoll() is so lenient ("+5", "12x")  *)
(* that any integer may come out of one.                                   *)
(***************************************************************************)
EXTENDS Integers

CONSTANT None

ASSUME RangesAssumption == None \notin Int

Malformed == [start |-> None, end |-> None]

ByteRange == [start : Int \cup {None}, end : Int \cup {None}]

-----------------------------------------------------------------------------
(* ByteRange::normalize(): FALSE when it cannot be satisfied ...           *)
Satisfiable(range, total) ==
    /\ total > 0
    /\ \/ range.start = None /\ range.end # None /\ range.end > 0
       \/ /\ range.start # None
          /\ range.start >= 0 /\ range.start < total
          /\ range.end = None \/ range.end >= range.start

(* ... or else the first and the last byte.                                *)
Normalized(range, total) ==
    [start |-> IF range.start # None THEN range.start
               ELSE IF range.end >= total THEN 0
               ELSE total - range.end,
     end   |-> IF range.start = None \/ range.end = None \/ range.end >= total
               THEN total - 1
               ELSE range.end]

Bytes(range) == range.start .. range.end
Length(range) == range.end - range.start + 1

-----------------------------------------------------------------------------
(* range::parse(): "specs" is what stands between the commas; malformed    *)
(* ones are dropped, and without any that is left the header is ignored.   *)
WellFormed(specs) == { i \in DOMAIN specs : specs[i] # Malformed }
Parses(unit, specs) == unit = "bytes" /\ WellFormed(specs) # {}

(* RangeResponseBuilder::build(): the parts it sends.                      *)
Parts(specs, total) == { i \in WellFormed(specs) : Satisfiable(specs[i], total) }

Status(unit, specs, ifRange, total) ==
    IF ~Parses(unit, specs) \/ ~ifRange THEN 200
    ELSE IF Parts(specs, total) = {} THEN 416
    ELSE 206

(* check_if_range(): no If-Range, an ETag or a date, to the second.        *)
CheckIfRange(ifRange, etag, lastModified) ==
    \/ ifRange.kind = "none"
    \/ ifRange.kind = "etag" /\ ifRange.etag = etag
    \/ ifRange.kind = "date" /\ ifRange.date = lastModified

-----------------------------------------------------------------------------
(* What RFC 9110 asks of a range: the bytes from the first to the last     *)
(* position it names, or the last ones of the content.                     *)
Valid(range) ==
    \/ range.start = None /\ range.end # None
    \/ range.start # None /\ range.start >= 0 /\ (range.end = None \/ range.end >= range.start)

Requested(range, total) ==
    { i \in 0 .. total - 1 :
        IF range.start = None THEN i >= total - range.end
        ELSE i >= range.start /\ (range.end = None \/ i <= range.end) }

(* normalize() accepts exactly the valid ranges that reach a byte of the   *)
(* content, and what it makes of one are the bytes that were requested.    *)
NormalizeCorrect(range, total) ==
    /\ Satisfiable(range, total) <=> Valid(range) /\ Requested(range, total) # {}
    /\ Satisfiable(range, total) =>
           Bytes(Normalized(range, total)) = Requested(range, total)
=============================================================================
