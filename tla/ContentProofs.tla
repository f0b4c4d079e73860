--------------------------- MODULE ContentProofs ----------------------------
(***************************************************************************)
(* Operators for every input.  Ranges: normalize() for every range and     *)
(* every size.  Frames: what is written is what is read, for every number  *)
(* that has the width of its field.                                        *)
(*                                                                         *)
(* Pools, for every set of threads and of objects: no object is in two     *)
(* places, nor, where the pool resets, handed out as its last user left    *)
(* it; and the count is what was counted, in its width.                    *)
(*                                                                         *)
(* Metrics, for every set of threads and number of buckets: exports are    *)
(* consistent, and what is counted and logged adds up.                     *)
(*                                                                         *)
(* Static files, for every set of sizes, ranges and options: framing, what *)
(* a 304 confirms and what a 206 holds while the file is being replaced.   *)
(*                                                                         *)
(* Dispatch, for every set of routes, chains, requests and bodies: which   *)
(* handler runs and with what, and that the answer can be decoded.         *)
(***************************************************************************)
EXTENDS Frames, StaticFiles, SequenceTheorems, FiniteSetTheorems, WellFoundedInduction, TLAPS

CONSTANTS Users, Objects, Nothing, MaxSize, Modulus, MaxCalls      \* of Pools

VARIABLES pool, held, pcs, calls, active_count, dirty, enable_reuse, resets, counted, skew

CONSTANTS Threads, NoThread, Buckets                                \* of Metrics

VARIABLES initialized, sinks, enabled, mutex, lines, pc, requests, duration, left, registered,
          requests_total, requests_in_flight, count_, sum_, bucket_counts_, export, thrown, logged

CONSTANTS Segment, Decode, Number, Views, Routes, Chains, Requests, Bodies, Brotli,
          MaxTries                                                  \* of Dispatch

VARIABLES sent, chain, stage, handler, ran, wire

P == INSTANCE Pools
M == INSTANCE Metrics
R == INSTANCE Dispatch

-----------------------------------------------------------------------------
(* Byte ranges.                                                            *)

(* The first byte of a satisfiable range and its last one are bytes of the *)
(* content, in this order: neither substr() nor seekg() leaves it.         *)
LEMMA NormalizedInside ==
    ASSUME NEW range \in ByteRange, NEW total \in Int, Satisfiable(range, total)
    PROVE  /\ Normalized(range, total).start \in 0 .. total - 1
           /\ Normalized(range, total).end \in 0 .. total - 1
           /\ Length(Normalized(range, total)) \in 1 .. total
  BY RangesAssumption DEF ByteRange, Satisfiable, Normalized, Length

(* The bytes a satisfiable range gets are the ones it requested.           *)
LEMMA NormalizedIsRequested ==
    ASSUME NEW range \in ByteRange, NEW total \in Int, Satisfiable(range, total)
    PROVE  Bytes(Normalized(range, total)) = Requested(range, total)
<1>1. CASE range.start = None
  BY <1>1, RangesAssumption DEF ByteRange, Satisfiable, Normalized, Bytes, Requested
<1>2. CASE range.start # None
  BY <1>2, RangesAssumption DEF ByteRange, Satisfiable, Normalized, Bytes, Requested
<1>3. QED BY <1>1, <1>2

(* A range is refused exactly when it is invalid or requests nothing.      *)
LEMMA SatisfiableIsReachable ==
    ASSUME NEW range \in ByteRange, NEW total \in Int
    PROVE  Satisfiable(range, total) <=> Valid(range) /\ Requested(range, total) # {}
<1>1. Satisfiable(range, total) => Valid(range) /\ Requested(range, total) # {}
  <2> SUFFICES ASSUME Satisfiable(range, total)
               PROVE  Valid(range) /\ Requested(range, total) # {}
    OBVIOUS
  <2>1. Valid(range)
    BY RangesAssumption DEF ByteRange, Satisfiable, Valid
  <2>2. Normalized(range, total).start \in Bytes(Normalized(range, total))
    BY NormalizedInside DEF Bytes, Length
  <2>3. QED BY <2>1, <2>2, NormalizedIsRequested
<1>2. ASSUME Valid(range), NEW i \in Requested(range, total)
      PROVE  Satisfiable(range, total)
  BY <1>2, RangesAssumption DEF ByteRange, Satisfiable, Valid, Requested
<1>3. QED BY <1>1, <1>2

(* ByteRange::normalize() is right for every range and every size.         *)
THEOREM NormalizeIsCorrect ==
    \A range \in ByteRange, total \in Int : NormalizeCorrect(range, total)
  BY NormalizedIsRequested, SatisfiableIsReachable DEF NormalizeCorrect

-----------------------------------------------------------------------------
(* Numbers of two, four and eight octets.                                  *)

LEMMA Big2Octets ==
    ASSUME NEW v \in Nat, v < 65536
    PROVE  Big2(v) \in Octet \X Octet /\ Num2(Big2(v), 1) = v
  BY SMT DEF Big2, Num2, Octet

LEMMA Big3Octets ==
    ASSUME NEW v \in Nat, v < 16777216
    PROVE  Big3(v) \in Octet \X Octet \X Octet /\ Num3(Big3(v), 1) = v
<1>1. Num3(Big3(v), 1) = v
  BY SMTT(30) DEF Big3, Num3, Num2
<1>2. Big3(v) \in Octet \X Octet \X Octet
  BY SMT DEF Big3, Octet
<1>3. QED BY <1>1, <1>2, SMT

LEMMA Big4Octets ==
    ASSUME NEW v \in Nat, v < 4294967296
    PROVE  Big4(v) \in Octet \X Octet \X Octet \X Octet /\ Num4(Big4(v), 1) = v
<1>1. Num4(Big4(v), 1) = v
  BY SMTT(30) DEF Big4, Num4, Num3, Num2
<1>2. Big4(v) \in Octet \X Octet \X Octet \X Octet
  BY SMT DEF Big4, Octet
<1>3. QED BY <1>1, <1>2, SMT

LEMMA Big31Octets ==
    ASSUME NEW v \in Nat, v < 2147483648
    PROVE  /\ Big31(v) \in Octet \X Octet \X Octet \X Octet
           /\ Num31(Big31(v), 1) = v
<1>1. Num31(Big31(v), 1) = v
  BY SMTT(30) DEF Big31, Num31, Num3, Num2, Octet
<1>2. Big31(v) \in Octet \X Octet \X Octet \X Octet
  BY SMT DEF Big31, Octet
<1>3. QED BY <1>1, <1>2, SMT

LEMMA EightOctets ==
    ASSUME NEW S, NEW a1 \in S, NEW a2 \in S, NEW a3 \in S, NEW a4 \in S,
           NEW b1 \in S, NEW b2 \in S, NEW b3 \in S, NEW b4 \in S
    PROVE  LET octets == <<a1, a2, a3, a4>> \o <<b1, b2, b3, b4>>
           IN  /\ octets \in Seq(S) /\ Len(octets) = 8
               /\ octets[1] = a1 /\ octets[2] = a2 /\ octets[3] = a3 /\ octets[4] = a4
               /\ octets[5] = b1 /\ octets[6] = b2 /\ octets[7] = b3 /\ octets[8] = b4
  BY SMT

LEMMA Big8Octets ==
    ASSUME NEW v \in Bits63
    PROVE  /\ Big8(v) = Big4((v \div 65536) \div 65536) \o Big4(v)
           /\ (v \div 65536) \div 65536 \in Nat
           /\ (v \div 65536) \div 65536 < 4294967296
           /\ Big8(v) \in Seq(Octet) /\ Len(Big8(v)) = 8
           /\ Num8(Big8(v), 1) = v
<1> DEFINE high == (v \div 65536) \div 65536
           low == v % 4294967296
           a == Big4(high)
           b == Big4(v)
<1>1. v \in Nat /\ high \in Nat /\ high < 4294967296
  BY SMT DEF Bits63
<1>2. low \in Nat /\ low < 4294967296 /\ v = (high * 65536) * 65536 + low
  BY <1>1, SMTT(30)
<1>3. b = Big4(low)
  <2>1. /\ (v \div 16777216) % 256 = (low \div 16777216) % 256
        /\ (v \div 65536) % 256 = (low \div 65536) % 256
    BY <1>1, SMTT(30)
  <2>2. (v \div 256) % 256 = (low \div 256) % 256 /\ v % 256 = low % 256
    BY <1>1, SMTT(30)
  <2>3. QED BY <2>1, <2>2, SMT DEF Big4
<1>4. a \in Octet \X Octet \X Octet \X Octet /\ Num4(a, 1) = high
  BY <1>1, Big4Octets, SMT
<1>5. b \in Octet \X Octet \X Octet \X Octet /\ Num4(b, 1) = low
  BY <1>2, <1>3, Big4Octets, SMT
<1>6. Big8(v) = a \o b
  BY SMT DEF Big8
<1> HIDE DEF a, b, high, low
<1>7. /\ a \o b \in Seq(Octet) /\ Len(a \o b) = 8
      /\ (a \o b)[1] = a[1] /\ (a \o b)[2] = a[2] /\ (a \o b)[3] = a[3] /\ (a \o b)[4] = a[4]
      /\ (a \o b)[5] = b[1] /\ (a \o b)[6] = b[2] /\ (a \o b)[7] = b[3] /\ (a \o b)[8] = b[4]
  <2>1. /\ a = <<a[1], a[2], a[3], a[4]>> /\ b = <<b[1], b[2], b[3], b[4]>>
        /\ a[1] \in Octet /\ a[2] \in Octet /\ a[3] \in Octet /\ a[4] \in Octet
        /\ b[1] \in Octet /\ b[2] \in Octet /\ b[3] \in Octet /\ b[4] \in Octet
    BY <1>4, <1>5, SMT
  <2>2. a \o b = <<a[1], a[2], a[3], a[4]>> \o <<b[1], b[2], b[3], b[4]>>
    BY <2>1, Zenon
  <2>3. QED BY <2>1, <2>2, EightOctets, SMT
<1>8. Num4(a \o b, 1) = high /\ Num4(a \o b, 5) = low
  BY <1>4, <1>5, <1>7, SMT DEF Num4, Num3, Num2
<1>9. Num8(Big8(v), 1) = v
  <2>1. Num8(Big8(v), 1) = (Num4(a \o b, 1) * 65536) * 65536 + Num4(a \o b, 5)
    BY <1>6, SMT DEF Num8
  <2>2. QED BY <1>1, <1>2, <1>8, <2>1, SMT
<1>10. QED BY <1>1, <1>6, <1>7, <1>9, SMT DEF a, b, high

-----------------------------------------------------------------------------
(* HTTP/2.                                                                 *)

(* A header has a value in each field, and nothing else.                   *)
LEMMA HeaderFields ==
    ASSUME NEW h \in Header
    PROVE  /\ h.length \in Nat /\ h.length < 16777216
           /\ h.stream_id \in Nat /\ h.stream_id < 2147483648
           /\ h.type \in Octet /\ h.flags \in Octet
           /\ h = [length |-> h.length, type |-> h.type, flags |-> h.flags,
                   stream_id |-> h.stream_id]
<1>1. /\ h.length \in Bits24 /\ h.stream_id \in Bits31
      /\ h.type \in Octet /\ h.flags \in Octet
  BY SMT DEF Header
<1>2. h = [length |-> h.length, type |-> h.type, flags |-> h.flags, stream_id |-> h.stream_id]
  BY SMT DEF Header
<1>3. h.length \in Nat /\ h.length < 16777216
  BY <1>1, SMT DEF Bits24
<1>4. h.stream_id \in Nat /\ h.stream_id < 2147483648
  BY <1>1, SMT DEF Bits31
<1>5. QED BY <1>1, <1>2, <1>3, <1>4, SMT

(* What follows a sequence leaves it as it is.                             *)
LEMMA FrontKept ==
    ASSUME NEW S, NEW s \in Seq(S), NEW rest \in Seq(S), NEW i \in 1 .. Len(s)
    PROVE  (s \o rest)[i] = s[i]
  BY SMT

(* The octets of a header.                                                 *)
LEMMA NineOctets ==
    ASSUME NEW S, NEW a1 \in S, NEW a2 \in S, NEW a3 \in S, NEW t \in S, NEW f \in S,
           NEW b1 \in S, NEW b2 \in S, NEW b3 \in S, NEW b4 \in S
    PROVE  LET octets == <<a1, a2, a3>> \o <<t, f>> \o <<b1, b2, b3, b4>>
           IN  /\ octets \in Seq(S) /\ Len(octets) = 9
               /\ octets[1] = a1 /\ octets[2] = a2 /\ octets[3] = a3
               /\ octets[4] = t /\ octets[5] = f
               /\ octets[6] = b1 /\ octets[7] = b2 /\ octets[8] = b3 /\ octets[9] = b4
  BY SMT

(* FrameHeader::parse() undoes FrameHeader::serialize(), whatever follows  *)
(* the header, for lengths of 24 bits and stream identifiers of 31.        *)
THEOREM HeaderRoundTrip ==
    ASSUME NEW h \in Header, NEW rest \in Seq(Octet)
    PROVE  /\ Len(serialize(h)) = FrameHeaderSize
           /\ parse(serialize(h) \o rest) = h
<1> DEFINE a == Big3(h.length)
           b == Big31(h.stream_id)
           data == serialize(h) \o rest
<1>1. a \in Octet \X Octet \X Octet /\ Num3(a, 1) = h.length
  BY HeaderFields, Big3Octets, SMT
<1>2. b \in Octet \X Octet \X Octet \X Octet /\ Num31(b, 1) = h.stream_id
  BY HeaderFields, Big31Octets, SMT
<1>3. serialize(h) = a \o <<h.type, h.flags>> \o b
  BY SMT DEF serialize
<1> HIDE DEF a, b
<1>4. a = <<a[1], a[2], a[3]>> /\ a[1] \in Octet /\ a[2] \in Octet /\ a[3] \in Octet
  BY <1>1, SMT
<1>5. /\ b = <<b[1], b[2], b[3], b[4]>>
      /\ b[1] \in Octet /\ b[2] \in Octet /\ b[3] \in Octet /\ b[4] \in Octet
  BY <1>2, SMT
<1>6. h.type \in Octet /\ h.flags \in Octet
  BY HeaderFields, SMT
<1>7. /\ serialize(h) \in Seq(Octet) /\ Len(serialize(h)) = 9
      /\ serialize(h)[1] = a[1] /\ serialize(h)[2] = a[2] /\ serialize(h)[3] = a[3]
      /\ serialize(h)[4] = h.type /\ serialize(h)[5] = h.flags
      /\ serialize(h)[6] = b[1] /\ serialize(h)[7] = b[2]
      /\ serialize(h)[8] = b[3] /\ serialize(h)[9] = b[4]
  <2>1. serialize(h) = <<a[1], a[2], a[3]>> \o <<h.type, h.flags>> \o <<b[1], b[2], b[3], b[4]>>
    BY <1>3, <1>4, <1>5, Zenon
  <2>2. QED BY <2>1, <1>4, <1>5, <1>6, NineOctets, SMT
<1>8. \A i \in 1 .. 9 : data[i] = serialize(h)[i]
  <2>1. 1 .. 9 = 1 .. Len(serialize(h)) /\ serialize(h) \in Seq(Octet)
    BY <1>7, Zenon
  <2>2. SUFFICES ASSUME NEW i \in 1 .. 9
                 PROVE  data[i] = serialize(h)[i]
    OBVIOUS
  <2>3. i \in 1 .. Len(serialize(h))
    BY <2>1, Zenon
  <2>4. QED BY <2>1, <2>3, FrontKept, Zenon
<1> HIDE DEF data
<1>9. Num3(data, 1) = h.length
  BY <1>1, <1>7, <1>8, SMT DEF Num3, Num2
<1>10. Num31(data, 6) = h.stream_id
  BY <1>2, <1>7, <1>8, SMT DEF Num31, Num3, Num2
<1>11. parse(data) = h
  BY HeaderFields, <1>7, <1>8, <1>9, <1>10, SMT DEF parse
<1>12. QED BY <1>7, <1>11, SMT DEF data, FrameHeaderSize

LEMMA SettingFields ==
    ASSUME NEW setting \in Setting
    PROVE  /\ setting.id \in Nat /\ setting.id < 65536
           /\ setting.value \in Nat /\ setting.value < 4294967296
           /\ setting = [id |-> setting.id, value |-> setting.value]
  BY SMT DEF Setting

LEMMA SixOctets ==
    ASSUME NEW S, NEW a1 \in S, NEW a2 \in S,
           NEW b1 \in S, NEW b2 \in S, NEW b3 \in S, NEW b4 \in S
    PROVE  LET octets == <<a1, a2>> \o <<b1, b2, b3, b4>>
           IN  /\ octets[1] = a1 /\ octets[2] = a2
               /\ octets[3] = b1 /\ octets[4] = b2 /\ octets[5] = b3 /\ octets[6] = b4
  BY SMT

(* process_settings_frame() reads the settings that were put into the      *)
(* payload by serialize_settings_frame(), in their order.                  *)
THEOREM SettingsRoundTrip ==
    ASSUME NEW settings \in Seq(Setting)
    PROVE  parse_settings(settings_payload(settings)) = settings
<1> DEFINE payload == settings_payload(settings)
           n == Len(settings)
<1>1. n \in Nat /\ Len(payload) = 6 * n /\ Len(payload) \div 6 = n
  BY SMT DEF settings_payload
<1>2. ASSUME NEW i \in 1 .. n
      PROVE  /\ Num2(payload, 6 * (i - 1) + 1) = settings[i].id
             /\ Num4(payload, 6 * (i - 1) + 3) = settings[i].value
  <2> DEFINE id == settings[i].id
             value == settings[i].value
  <2>1. settings[i] \in Setting
    BY SMT
  <2>2. id \in Nat /\ id < 65536 /\ value \in Nat /\ value < 4294967296
    BY <2>1, SettingFields, SMT
  <2>3. Big2(id) \in Octet \X Octet /\ Num2(Big2(id), 1) = id
    BY <2>2, Big2Octets, SMT
  <2>4. Big4(value) \in Octet \X Octet \X Octet \X Octet /\ Num4(Big4(value), 1) = value
    BY <2>2, Big4Octets, SMT
  <2>5. ASSUME NEW j \in 1 .. 6
        PROVE  payload[6 * (i - 1) + j] = SettingOctets(settings[i])[j]
    <3>1. /\ 6 * (i - 1) + j \in 1 .. 6 * n
          /\ ((6 * (i - 1) + j - 1) \div 6) + 1 = i
          /\ ((6 * (i - 1) + j - 1) % 6) + 1 = j
      BY <1>1, SMT
    <3>2. QED BY <3>1, SMT DEF settings_payload
  <2>6. SettingOctets(settings[i]) = Big2(id) \o Big4(value)
    BY SMT DEF SettingOctets
  <2> HIDE DEF payload, id, value
  <2>7. /\ SettingOctets(settings[i])[1] = Big2(id)[1]
        /\ SettingOctets(settings[i])[2] = Big2(id)[2]
        /\ SettingOctets(settings[i])[3] = Big4(value)[1]
        /\ SettingOctets(settings[i])[4] = Big4(value)[2]
        /\ SettingOctets(settings[i])[5] = Big4(value)[3]
        /\ SettingOctets(settings[i])[6] = Big4(value)[4]
    <3> DEFINE a == Big2(id)
               b == Big4(value)
    <3>1. /\ a = <<a[1], a[2]>> /\ a[1] \in Octet /\ a[2] \in Octet
          /\ b = <<b[1], b[2], b[3], b[4]>>
          /\ b[1] \in Octet /\ b[2] \in Octet /\ b[3] \in Octet /\ b[4] \in Octet
      BY <2>3, <2>4, SMT
    <3>2. SettingOctets(settings[i]) = a \o b
      BY <2>6, SMT
    <3> HIDE DEF a, b
    <3>3. SettingOctets(settings[i]) = <<a[1], a[2]>> \o <<b[1], b[2], b[3], b[4]>>
      BY <3>1, <3>2, Zenon
    <3>4. QED BY <3>1, <3>3, SixOctets, SMT DEF a, b
  <2>8. /\ payload[6 * (i - 1) + 1] = Big2(id)[1] /\ payload[6 * (i - 1) + 2] = Big2(id)[2]
        /\ payload[6 * (i - 1) + 3] = Big4(value)[1] /\ payload[6 * (i - 1) + 4] = Big4(value)[2]
        /\ payload[6 * (i - 1) + 5] = Big4(value)[3] /\ payload[6 * (i - 1) + 6] = Big4(value)[4]
    BY <2>5, <2>7, SMT
  <2>9. Num2(payload, 6 * (i - 1) + 1) = id
    BY <2>3, <2>8, SMT DEF Num2
  <2>10. Num4(payload, 6 * (i - 1) + 3) = value
    BY <2>4, <2>8, SMT DEF Num4, Num3, Num2
  <2>11. QED BY <2>9, <2>10, SMT DEF id, value
<1>3. ASSUME NEW i \in 1 .. n
      PROVE  [id |-> Num2(payload, 6 * (i - 1) + 1), value |-> Num4(payload, 6 * (i - 1) + 3)]
             = settings[i]
  <2>1. settings[i] \in Setting
    BY SMT
  <2>2. settings[i] = [id |-> settings[i].id, value |-> settings[i].value]
    BY <2>1, SettingFields, SMT
  <2>3. QED BY <1>2, <2>2, SMT
<1> HIDE DEF payload
<1>4. parse_settings(payload)
      = [i \in 1 .. n |->
            [id |-> Num2(payload, 6 * (i - 1) + 1), value |-> Num4(payload, 6 * (i - 1) + 3)]]
  BY <1>1, Zenon DEF parse_settings
<1>5. parse_settings(payload) = [i \in 1 .. n |-> settings[i]]
  BY <1>3, <1>4, Zenon
<1>6. settings = [i \in 1 .. n |-> settings[i]]
  BY SMT
<1>7. QED BY <1>5, <1>6, Zenon DEF payload

-----------------------------------------------------------------------------
(* WebSocket.                                                              *)

(* Where three sequences are in the octets that begin with them.           *)
LEMMA HeaderParts ==
    ASSUME NEW S, NEW x \in S, NEW y \in S, NEW l \in Seq(S), NEW k \in Seq(S), NEW rest \in Seq(S)
    PROVE  LET octets == <<x, y>> \o l \o k
               data == octets \o rest
           IN  /\ octets \in Seq(S) /\ Len(octets) = 2 + Len(l) + Len(k)
               /\ data \in Seq(S) /\ Len(data) = Len(octets) + Len(rest)
               /\ data[1] = x /\ data[2] = y /\ octets[2] = y
               /\ \A i \in 3 .. 2 + Len(l) : data[i] = l[i - 2]
               /\ \A i \in 3 + Len(l) .. 2 + Len(l) + Len(k) : data[i] = k[i - 2 - Len(l)]
  BY SMT

(* A comparison of integers is a Boolean value.                            *)
LEMMA ComparisonIsBoolean ==
    ASSUME NEW m \in Int
    PROVE  (m >= 128) \in BOOLEAN
  BY SMT

(* Two values in a tuple are a sequence of length two.                     *)
LEMMA PairIsSequence ==
    ASSUME NEW S, NEW p \in S \X S
    PROVE  p \in Seq(S) /\ Len(p) = 2
<1>1. PICK a \in S, b \in S : p = <<a, b>>
  OBVIOUS
<1>2. <<a, b>> \in Seq(S) /\ Len(<<a, b>>) = 2
  BY SMT
<1>3. QED BY <1>1, <1>2, Zenon

(* The second octet of a header says how long the header is.               *)
LEMMA LengthCodes ==
    ASSUME NEW h \in WsHeader
    PROVE  LET v == h.payload_length
               second == (IF h.masked THEN 128 ELSE 0) + LengthCode(v)
           IN  /\ v \in Nat /\ LengthCode(v) \in 0 .. 127 /\ second \in Octet
               /\ second % 128 = LengthCode(v) /\ (second >= 128 <=> h.masked)
               /\ LengthOctets(v) \in Seq(Octet)
               /\ MaskAt(second) = 2 + Len(LengthOctets(v))
               /\ LengthCode(v) <= 125 => v = LengthCode(v)
               /\ LengthCode(v) = 126 => /\ Len(LengthOctets(v)) = 2
                                         /\ Num2(LengthOctets(v), 1) = v
               /\ LengthCode(v) = 127 => /\ Len(LengthOctets(v)) = 8
                                         /\ Num8(LengthOctets(v), 1) = v
<1> DEFINE v == h.payload_length
           second == (IF h.masked THEN 128 ELSE 0) + LengthCode(v)
<1>1. h.masked \in BOOLEAN /\ v \in Bits63
  BY SMT DEF WsHeader
<1> HIDE DEF v
<1>2. v \in Nat
  BY <1>1, SMT DEF Bits63
<1>3. LengthCode(v) \in 0 .. 127
  BY <1>2, SMT DEF LengthCode
<1>4. second \in Octet /\ second % 128 = LengthCode(v) /\ (second >= 128 <=> h.masked)
  BY <1>1, <1>3, SMT DEF Octet
<1> HIDE DEF second
<1> DEFINE Faithful ==
             /\ LengthOctets(v) \in Seq(Octet)
             /\ MaskAt(second) = 2 + Len(LengthOctets(v))
             /\ LengthCode(v) <= 125 => v = LengthCode(v)
             /\ LengthCode(v) = 126 => /\ Len(LengthOctets(v)) = 2
                                       /\ Num2(LengthOctets(v), 1) = v
             /\ LengthCode(v) = 127 => /\ Len(LengthOctets(v)) = 8
                                       /\ Num8(LengthOctets(v), 1) = v
<1>5. ASSUME v <= 125 PROVE Faithful
  <2>1. LengthCode(v) = v /\ LengthOctets(v) = <<>>
    BY <1>5, SMT DEF LengthCode, LengthOctets
  <2>2. LengthOctets(v) \in Seq(Octet) /\ Len(LengthOctets(v)) = 0
    BY <2>1, SMT
  <2>3. MaskAt(second) = 2
    BY <1>2, <1>4, <1>5, <2>1, SMT DEF MaskAt
  <2>4. LengthCode(v) # 126 /\ LengthCode(v) # 127
    BY <1>2, <1>5, <2>1, SMT
  <2>5. MaskAt(second) = 2 + Len(LengthOctets(v))
    BY <2>2, <2>3, SMT
  <2> QED
    BY <2>1, <2>2, <2>4, <2>5, Zenon
<1>6. ASSUME 125 < v, v <= 65535 PROVE Faithful
  <2>1. LengthCode(v) = 126 /\ LengthOctets(v) = Big2(v)
    BY <1>2, <1>6, SMT DEF LengthCode, LengthOctets
  <2>2. Big2(v) \in Octet \X Octet /\ Num2(Big2(v), 1) = v
    BY <1>2, <1>6, Big2Octets, SMT
  <2>3. Big2(v) \in Seq(Octet) /\ Len(Big2(v)) = 2
    BY <2>2, PairIsSequence, Zenon
  <2>4. MaskAt(second) = 4
    BY <1>4, <2>1, SMT DEF MaskAt
  <2>5. MaskAt(second) = 2 + Len(LengthOctets(v)) /\ ~(LengthCode(v) <= 125) /\ LengthCode(v) # 127
    BY <2>1, <2>3, <2>4, SMT
  <2>6. Len(LengthOctets(v)) = 2 /\ Num2(LengthOctets(v), 1) = v
    BY <2>1, <2>2, <2>3, Zenon
  <2>7. LengthOctets(v) \in Seq(Octet)
    BY <2>1, <2>3, Zenon
  <2> QED
    BY <2>5, <2>6, <2>7, Zenon
<1>7. ASSUME 65535 < v PROVE Faithful
  <2>1. LengthCode(v) = 127 /\ LengthOctets(v) = Big8(v)
    BY <1>2, <1>7, SMT DEF LengthCode, LengthOctets
  <2>2. Big8(v) \in Seq(Octet) /\ Len(Big8(v)) = 8 /\ Num8(Big8(v), 1) = v
    BY <1>1, Big8Octets, SMT
  <2>3. MaskAt(second) = 10
    BY <1>4, <2>1, SMT DEF MaskAt
  <2>4. MaskAt(second) = 2 + Len(LengthOctets(v)) /\ ~(LengthCode(v) <= 125) /\ LengthCode(v) # 126
    BY <2>1, <2>2, <2>3, SMT
  <2>5. Len(LengthOctets(v)) = 8 /\ Num8(LengthOctets(v), 1) = v
    BY <2>1, <2>2, Zenon
  <2>6. LengthOctets(v) \in Seq(Octet)
    BY <2>1, <2>2, Zenon
  <2> QED
    BY <2>4, <2>5, <2>6, Zenon
<1> HIDE DEF Faithful
<1>8. Faithful
  <2>1. v <= 125 \/ (125 < v /\ v <= 65535) \/ 65535 < v
    BY <1>2, SMT
  <2>2. QED BY <1>5, <1>6, <1>7, <2>1
<1>9. QED BY <1>2, <1>3, <1>4, <1>8, Zenon DEF Faithful, v, second

(* The first octet of a header, and its key.                               *)
LEMMA FirstOctet ==
    ASSUME NEW h \in WsHeader
    PROVE  LET first == (IF h.fin THEN 128 ELSE 0) + 16 * h.rsv + h.opcode
           IN  /\ h.fin \in BOOLEAN /\ first \in Octet /\ (first >= 128 <=> h.fin)
               /\ (first \div 16) % 8 = h.rsv /\ first % 16 = h.opcode
<1>1. h.fin \in BOOLEAN /\ h.rsv \in 0 .. 7 /\ h.opcode \in 0 .. 15
  BY SMT DEF WsHeader
<1> DEFINE first == (IF h.fin THEN 128 ELSE 0) + 16 * h.rsv + h.opcode
<1>2. CASE h.fin
  <2>1. first = 128 + 16 * h.rsv + h.opcode
    BY <1>2, SMT
  <2>2. QED BY <1>1, <1>2, <2>1, SMT DEF Octet
<1>3. CASE ~h.fin
  <2>1. first = 16 * h.rsv + h.opcode
    BY <1>1, <1>3, SMT
  <2>2. QED BY <1>1, <1>3, <2>1, SMT DEF Octet
<1>4. QED BY <1>2, <1>3, Zenon

LEMMA FourOctets ==
    ASSUME NEW S, NEW q \in S \X S \X S \X S
    PROVE  q \in Seq(S) /\ Len(q) = 4 /\ q = <<q[1], q[2], q[3], q[4]>>
<1>1. q = <<q[1], q[2], q[3], q[4]>>
  BY SMT
<1>2. q[1] \in S /\ q[2] \in S /\ q[3] \in S /\ q[4] \in S
  BY SMT
<1>3. <<q[1], q[2], q[3], q[4]>> \in Seq(S) /\ Len(<<q[1], q[2], q[3], q[4]>>) = 4
  BY <1>2, SMT
<1>4. QED BY <1>1, <1>3, Zenon

LEMMA WsHeaderFields ==
    ASSUME NEW h \in WsHeader
    PROVE  /\ h.masked \in BOOLEAN
           /\ h.mask_key \in Seq(Octet) /\ Len(h.mask_key) = 4
           /\ h.mask_key = <<h.mask_key[1], h.mask_key[2], h.mask_key[3], h.mask_key[4]>>
           /\ ~h.masked => h.mask_key = NoKey
           /\ h = [fin |-> h.fin, rsv |-> h.rsv, opcode |-> h.opcode, masked |-> h.masked,
                   payload_length |-> h.payload_length, mask_key |-> h.mask_key]
<1>1. h.masked \in BOOLEAN /\ h.mask_key \in Octet \X Octet \X Octet \X Octet
  BY SMT DEF WsHeader
<1>2. ~h.masked => h.mask_key = NoKey
  BY SMT DEF WsHeader
<1>3. h = [fin |-> h.fin, rsv |-> h.rsv, opcode |-> h.opcode, masked |-> h.masked,
           payload_length |-> h.payload_length, mask_key |-> h.mask_key]
  BY SMT DEF WsHeader
<1>4. /\ h.mask_key \in Seq(Octet) /\ Len(h.mask_key) = 4
      /\ h.mask_key = <<h.mask_key[1], h.mask_key[2], h.mask_key[3], h.mask_key[4]>>
  BY <1>1, FourOctets, Zenon
<1>5. QED BY <1>1, <1>2, <1>3, <1>4, Zenon

(* parse_frame_header() of websocket.cpp undoes serialize_frame_header()   *)
(* in each form of the length, masked or not, whatever follows; and it     *)
(* asks for more as long as the header is not all there.                   *)
THEOREM WsHeaderRoundTrip ==
    ASSUME NEW h \in WsHeader, NEW rest \in Seq(Octet)
    PROVE  LET octets == serialize_frame_header(h)
           IN  /\ HeaderSize(octets[2]) = Len(octets)
               /\ HeaderComplete(octets \o rest)
               /\ parse_frame_header(octets \o rest) = h
               /\ \A n \in 0 .. Len(octets) - 1 : ~HeaderComplete(SubSeq(octets, 1, n))
<1> DEFINE v == h.payload_length
           x == (IF h.fin THEN 128 ELSE 0) + 16 * h.rsv + h.opcode
           y == (IF h.masked THEN 128 ELSE 0) + LengthCode(v)
           l == LengthOctets(v)
           k == IF h.masked THEN h.mask_key ELSE <<>>
           octets == serialize_frame_header(h)
           data == octets \o rest
<1>1. octets = <<x, y>> \o l \o k
  BY SMT DEF serialize_frame_header
<1>2. /\ h.fin \in BOOLEAN /\ x \in Octet /\ (x >= 128 <=> h.fin)
      /\ (x \div 16) % 8 = h.rsv /\ x % 16 = h.opcode
  BY FirstOctet, Zenon
<1>3. /\ v \in Nat /\ LengthCode(v) \in 0 .. 127 /\ y \in Octet
      /\ y % 128 = LengthCode(v) /\ (y >= 128 <=> h.masked)
      /\ l \in Seq(Octet) /\ MaskAt(y) = 2 + Len(l)
  BY LengthCodes
<1>4. /\ LengthCode(v) <= 125 => v = LengthCode(v)
      /\ LengthCode(v) = 126 => Len(l) = 2 /\ Num2(l, 1) = v
      /\ LengthCode(v) = 127 => Len(l) = 8 /\ Num8(l, 1) = v
  BY LengthCodes
<1>5. /\ h.masked \in BOOLEAN /\ k \in Seq(Octet)
      /\ Len(k) = IF h.masked THEN 4 ELSE 0
  <2>1. /\ h.masked \in BOOLEAN /\ h.mask_key \in Seq(Octet) /\ Len(h.mask_key) = 4
    BY WsHeaderFields, Zenon
  <2>2. <<>> \in Seq(Octet) /\ Len(<<>>) = 0
    BY SMT
  <2>3. CASE h.masked
    <3>1. k = h.mask_key
      BY <2>3, Zenon
    <3> HIDE DEF k
    <3>2. QED BY <2>1, <2>3, <3>1, SMT
  <2>4. CASE ~h.masked
    <3>1. k = <<>>
      BY <2>4, Zenon
    <3> HIDE DEF k
    <3>2. QED BY <2>1, <2>2, <2>4, <3>1, SMT
  <2>5. QED BY <2>3, <2>4, Zenon
<1> HIDE DEF v, x, y, l, k
<1> DEFINE c == LengthCode(v)
<1>6. c \in 0 .. 127 /\ y % 128 = c
  BY <1>3, Zenon
<1>7. MaskAt(y) = 2 + Len(l) /\ l \in Seq(Octet) /\ k \in Seq(Octet)
  BY <1>3, <1>5, Zenon
<1>8. /\ c <= 125 => v = c
      /\ c = 126 => Len(l) = 2 /\ Num2(l, 1) = v
      /\ c = 127 => Len(l) = 8 /\ Num8(l, 1) = v
  BY <1>4, Zenon
<1> HIDE DEF c
<1>9. /\ octets \in Seq(Octet) /\ Len(octets) = 2 + Len(l) + Len(k)
      /\ data \in Seq(Octet) /\ Len(data) = Len(octets) + Len(rest)
      /\ data[1] = x /\ data[2] = y /\ octets[2] = y
      /\ \A i \in 3 .. 2 + Len(l) : data[i] = l[i - 2]
      /\ \A i \in 3 + Len(l) .. 2 + Len(l) + Len(k) : data[i] = k[i - 2 - Len(l)]
  <2>1. x \in Octet /\ y \in Octet /\ l \in Seq(Octet) /\ k \in Seq(Octet)
    BY <1>2, <1>3, <1>5, Zenon
  <2>2. QED BY <1>1, <2>1, HeaderParts, SMT
<1> HIDE DEF octets, data
<1>10. /\ \A i \in 3 .. 2 + Len(l) : data[i] = l[i - 2]
       /\ \A i \in 3 + Len(l) .. 2 + Len(l) + Len(k) : data[i] = k[i - 2 - Len(l)]
  BY <1>9, Zenon
<1>11. HeaderSize(y) = Len(octets)
  BY <1>3, <1>5, <1>9, SMT DEF HeaderSize
<1>12. HeaderComplete(data)
  BY <1>3, <1>5, <1>9, <1>11, SMT DEF HeaderComplete
<1>13. ASSUME NEW n \in 0 .. Len(octets) - 1
       PROVE  ~HeaderComplete(SubSeq(octets, 1, n))
  <2>1. Len(octets) \in Nat /\ n \in Nat /\ n < Len(octets)
    BY <1>9, SMT
  <2>2. Len(SubSeq(octets, 1, n)) = n /\ (n >= 2 => SubSeq(octets, 1, n)[2] = y)
    BY <1>9, <2>1, SMT
  <2>3. QED BY <1>11, <2>1, <2>2, SMT DEF HeaderComplete
<1>14. v = IF y % 128 <= 125 THEN y % 128
           ELSE IF y % 128 = 126 THEN Num2(data, 3) ELSE Num8(data, 3)
  <2>1. CASE c <= 125
    BY <1>6, <1>8, <2>1, SMT
  <2>2. CASE c = 126
    <3>1. data[3] = l[1] /\ data[4] = l[2]
      <4>1. Len(l) = 2
        BY <1>8, <2>2, Zenon
      <4>2. \A i \in 3 .. 4 : data[i] = l[i - 2]
        BY <1>10, <4>1, SMT
      <4>3. QED BY <4>2, SMT
    <3>2. Num2(data, 3) = v
      BY <1>8, <2>2, <3>1, SMT DEF Num2
    <3>3. QED BY <1>6, <2>2, <3>2, SMT
  <2>3. CASE c = 127
    <3>1. /\ data[3] = l[1] /\ data[4] = l[2] /\ data[5] = l[3] /\ data[6] = l[4]
          /\ data[7] = l[5] /\ data[8] = l[6] /\ data[9] = l[7] /\ data[10] = l[8]
      <4>1. Len(l) = 8
        BY <1>8, <2>3, Zenon
      <4>2. \A i \in 3 .. 10 : data[i] = l[i - 2]
        BY <1>10, <4>1, SMT
      <4>3. QED BY <4>2, SMT
    <3>2. Num4(data, 3) = Num4(l, 1) /\ Num4(data, 7) = Num4(l, 5)
      BY <3>1, SMT DEF Num4, Num3, Num2
    <3>3. Num8(data, 3) = v
      BY <1>8, <2>3, <3>2, SMT DEF Num8
    <3>4. QED BY <1>6, <2>3, <3>3, SMT
  <2>4. c <= 125 \/ c = 126 \/ c = 127
    BY <1>6, SMT
  <2>5. QED BY <2>1, <2>2, <2>3, <2>4, Zenon
<1>15. h.mask_key = IF y >= 128 THEN <<data[MaskAt(y) + 1], data[MaskAt(y) + 2],
                                       data[MaskAt(y) + 3], data[MaskAt(y) + 4]>>
                    ELSE NoKey
  <2>1. CASE h.masked
    <3>1. k = h.mask_key /\ Len(k) = 4
      BY <1>5, <2>1, SMT DEF k
    <3>2. /\ data[MaskAt(y) + 1] = k[1] /\ data[MaskAt(y) + 2] = k[2]
          /\ data[MaskAt(y) + 3] = k[3] /\ data[MaskAt(y) + 4] = k[4]
      <4>1. Len(l) \in Nat /\ MaskAt(y) = 2 + Len(l)
        BY <1>7, SMT
      <4>2. \A i \in 3 + Len(l) .. 6 + Len(l) : data[i] = k[i - 2 - Len(l)]
        BY <1>10, <3>1, <4>1, SMT
      <4>3. /\ data[3 + Len(l)] = k[1] /\ data[4 + Len(l)] = k[2]
            /\ data[5 + Len(l)] = k[3] /\ data[6 + Len(l)] = k[4]
        <5>1. /\ 3 + Len(l) \in 3 + Len(l) .. 6 + Len(l) /\ 4 + Len(l) \in 3 + Len(l) .. 6 + Len(l)
              /\ 5 + Len(l) \in 3 + Len(l) .. 6 + Len(l) /\ 6 + Len(l) \in 3 + Len(l) .. 6 + Len(l)
          BY <4>1, SMT
        <5>2. /\ (3 + Len(l)) - 2 - Len(l) = 1 /\ (4 + Len(l)) - 2 - Len(l) = 2
              /\ (5 + Len(l)) - 2 - Len(l) = 3 /\ (6 + Len(l)) - 2 - Len(l) = 4
          BY <4>1, SMT
        <5>3. QED BY <4>2, <5>1, <5>2, Zenon
      <4>4. QED BY <4>1, <4>3, SMT
    <3>3. QED BY <1>3, <2>1, <3>1, <3>2, WsHeaderFields, SMT
  <2>2. CASE ~h.masked
    BY <1>3, <2>2, WsHeaderFields, Zenon
  <2>3. QED BY <2>1, <2>2
<1>16. parse_frame_header(data)
       = [fin |-> h.fin, rsv |-> h.rsv, opcode |-> h.opcode, masked |-> h.masked,
          payload_length |-> v, mask_key |-> h.mask_key]
  <2>1. (x >= 128) \in BOOLEAN /\ (y >= 128) \in BOOLEAN
    <3>1. x \in Int /\ y \in Int
      BY <1>2, <1>3, SMT DEF Octet
    <3>2. QED BY <3>1, ComparisonIsBoolean
  <2>2. (x >= 128) = h.fin /\ (y >= 128) = h.masked
    BY <1>2, <1>3, <1>5, <2>1, Zenon
  <2>3. data[1] = x /\ data[2] = y
    BY <1>9, Zenon
  <2>4. (data[1] >= 128) = h.fin /\ (data[2] >= 128) = h.masked
    BY <2>2, <2>3, Zenon
  <2>5. (data[1] \div 16) % 8 = h.rsv /\ data[1] % 16 = h.opcode
    BY <1>2, <2>3, Zenon
  <2>6. v = IF data[2] % 128 <= 125 THEN data[2] % 128
            ELSE IF data[2] % 128 = 126 THEN Num2(data, 3) ELSE Num8(data, 3)
    BY <1>14, <2>3, Zenon
  <2>7. h.mask_key = IF data[2] >= 128
                     THEN <<data[MaskAt(data[2]) + 1], data[MaskAt(data[2]) + 2],
                            data[MaskAt(data[2]) + 3], data[MaskAt(data[2]) + 4]>>
                     ELSE NoKey
    BY <1>15, <2>3, Zenon
  <2>8. QED BY <2>4, <2>5, <2>6, <2>7, Zenon DEF parse_frame_header
<1>17. parse_frame_header(data) = h
  BY <1>16, WsHeaderFields, Zenon DEF v
<1>18. QED BY <1>9, <1>11, <1>12, <1>13, <1>17, Zenon DEF octets, data

-----------------------------------------------------------------------------
(* Pools.  What release() does outside the lock is done by the one thread  *)
(* that still has the object.                                              *)

(* The operators of FiniteSets are the same wherever they are taken from.  *)
LEMMA PFinite ==
    /\ \A S : P!IsFiniteSet(S) = IsFiniteSet(S)
    /\ \A S : P!Cardinality(S) = Cardinality(S)
<1>1. ASSUME NEW S PROVE P!IsFiniteSet(S) = IsFiniteSet(S)
  BY Zenon DEF P!IsFiniteSet, IsFiniteSet
<1>2. ASSUME NEW S PROVE P!Cardinality(S) = Cardinality(S)
  BY Zenon DEF P!Cardinality, Cardinality
<1> QED
  BY <1>1, <1>2

(* A thread that releases holds the object, cleans it before it pushes it, *)
(* and has it counted no longer.                                           *)
Releasing ==
    \A u \in Users :
        /\ pcs[u] # "idle" => held[u] # Nothing
        /\ pcs[u] \in {"reset", "push"} => held[u] \notin counted
        /\ pcs[u] = "push" /\ resets => held[u] \notin dirty

PoolIInv ==
    /\ P!TypeOK
    /\ P!CleanInPool
    /\ P!OnePlace
    /\ Releasing
    /\ counted \subseteq P!Out
    /\ P!ActiveCountsOut

(* Objects that threads hold are finite, as the threads are.               *)
LEMMA CountedFinite ==
    ASSUME P!PoolsAssumption, NEW h \in [Users -> Objects \cup {Nothing}],
           NEW C \in SUBSET {h[u] : u \in Users}
    PROVE  IsFiniteSet(C) /\ Cardinality(C) \in Nat
<1> DEFINE S == {u \in Users : h[u] \in C}
           f == [u \in S |-> h[u]]
<1>1. IsFiniteSet(S) /\ Cardinality(S) <= Cardinality(Users)
  BY PFinite, FS_Subset DEF P!PoolsAssumption
<1>2. f \in Surjection(S, C)
  <2>1. f \in [S -> C]
    OBVIOUS
  <2>2. \A o \in C : \E u \in S : f[u] = o
    OBVIOUS
  <2> QED
    BY <2>1, <2>2 DEF Surjection
<1> HIDE DEF S, f
<1>3. IsFiniteSet(C) /\ Cardinality(C) <= Cardinality(S)
  BY <1>1, <1>2, FS_Surjection
<1> QED
  BY <1>3, FS_CardinalityType

(* What % leaves.                                                          *)
LEMMA Divided ==
    ASSUME NEW a \in Int, NEW m \in Nat \ {0}
    PROVE  \E q \in Int, r \in 0 .. m - 1 : a = q * m + r /\ a % m = r
<1>1. a % m \in 0 .. m - 1 /\ a \div m \in Int /\ a = (a \div m) * m + (a % m)
  OBVIOUS
<1> QED
  BY <1>1

(* There is one remainder.                                                 *)
LEMMA OneRemainder ==
    ASSUME NEW m \in Nat \ {0}, NEW q \in Int, NEW p \in Int,
           NEW r \in 0 .. m - 1, NEW s \in 0 .. m - 1, q * m + r = p * m + s
    PROVE  r = s
<1>1. (q - p) * m = s - r
  OBVIOUS
<1>2. CASE q - p >= 1
  <2>1. (q - p) * m >= m
    BY <1>2
  <2> QED BY <1>1, <2>1
<1>3. CASE q - p <= -1
  <2>1. (q - p) * m <= -m
    BY <1>3
  <2> QED BY <1>1, <2>1
<1>4. CASE q = p
  BY <1>1, <1>4
<1> QED BY <1>2, <1>3, <1>4

(* A counter counts modulo its width.                                      *)
LEMMA CountsModulo ==
    ASSUME NEW a \in Int, NEW d \in Int, NEW m \in Nat \ {0}
    PROVE  ((a % m) + d) % m = (a + d) % m
<1>1. PICK q \in Int, r \in 0 .. m - 1 : a = q * m + r /\ a % m = r
  BY Divided
<1>2. PICK b \in Int : b = r + d
  OBVIOUS
<1>3. PICK c \in Int : c = a + d
  OBVIOUS
<1>4. PICK p \in Int, s \in 0 .. m - 1 : b = p * m + s /\ b % m = s
  BY Divided
<1>5. PICK t \in Int, u \in 0 .. m - 1 : c = t * m + u /\ c % m = u
  BY Divided
<1>6. (q + p) * m + s = t * m + u
  BY <1>1, <1>2, <1>3, <1>4, <1>5
<1>7. s = u
  <2>1. q + p \in Int
    OBVIOUS
  <2> QED
    BY <1>6, <2>1, OneRemainder
<1> QED
  BY <1>1, <1>2, <1>3, <1>4, <1>5, <1>7

(* The counter and what it should be move together.                        *)
LEMMA CounterMoves ==
    ASSUME P!PoolsAssumption, P!ActiveCountsOut, skew \in Int,
           Cardinality(counted) \in Nat, NEW d \in Int,
           active_count' = (active_count + d) % Modulus,
           Cardinality(counted') + skew' = (Cardinality(counted) + skew) + d
    PROVE  P!ActiveCountsOut'
<1>1. PICK n \in Int : n = Cardinality(counted) + skew
  OBVIOUS
<1>2. Modulus \in Nat \ {0}
  BY DEF P!PoolsAssumption
<1>3. active_count = n % Modulus
  BY PFinite, <1>1 DEF P!ActiveCountsOut
<1>4. active_count' = (n + d) % Modulus
  BY <1>2, <1>3, CountsModulo
<1>5. P!Cardinality(counted') + skew' = n + d
  BY PFinite, <1>1
<1> QED
  BY <1>4, <1>5 DEF P!ActiveCountsOut

Elements(s) == {s[i] : i \in DOMAIN s}
Distinct(s) == \A i, j \in DOMAIN s : i # j => s[i] # s[j]

(* The objects of the pool, as a sequence grows and shrinks at its back.   *)
LEMMA PoolGrows ==
    ASSUME NEW s \in Seq(Objects), NEW o \in Objects
    PROVE  LET t == Append(s, o)
           IN  /\ t \in Seq(Objects) /\ Len(t) = Len(s) + 1
               /\ Elements(t) = Elements(s) \cup {o}
               /\ Distinct(s) /\ o \notin Elements(s) => Distinct(t)
<1>1. PICK n \in Nat : n = Len(s)
  BY LenProperties
<1> DEFINE t == Append(s, o)
<1>2. /\ t \in Seq(Objects) /\ Len(t) = n + 1 /\ t[n + 1] = o
      /\ \A i \in 1 .. n : t[i] = s[i]
  BY <1>1, AppendProperties
<1>3. DOMAIN s = 1 .. n /\ DOMAIN t = 1 .. n + 1
  BY <1>1, <1>2, LenProperties
<1> HIDE DEF t
<1>4. \A i \in 1 .. n + 1 : i \in 1 .. n \/ i = n + 1
  OBVIOUS
<1>5. n + 1 \in 1 .. n + 1 /\ 1 .. n \subseteq 1 .. n + 1
  OBVIOUS
<1>6. Elements(t) = Elements(s) \cup {o}
  BY <1>2, <1>3, <1>4, <1>5 DEF Elements
<1>7. ASSUME Distinct(s), o \notin Elements(s),
             NEW i \in DOMAIN t, NEW j \in DOMAIN t, i # j
      PROVE  t[i] # t[j]
  BY <1>2, <1>3, <1>4, <1>7 DEF Distinct, Elements
<1> QED
  BY <1>1, <1>2, <1>6, <1>7 DEF t, Distinct

LEMMA PoolShrinks ==
    ASSUME NEW s \in Seq(Objects), s # <<>>, Distinct(s)
    PROVE  LET o == s[Len(s)]
               t == SubSeq(s, 1, Len(s) - 1)
           IN  /\ o \in Objects /\ o \in Elements(s)
               /\ t \in Seq(Objects) /\ Len(t) <= Len(s)
               /\ Elements(t) = Elements(s) \ {o}
               /\ Distinct(t)
<1>1. PICK n \in Nat : n = Len(s)
  BY LenProperties
<1>2. n > 0 /\ DOMAIN s = 1 .. n /\ \A i \in 1 .. n : s[i] \in Objects
  BY <1>1, EmptySeq, LenProperties, ElementOfSeq
<1> DEFINE t == SubSeq(s, 1, Len(s) - 1)
<1>3. /\ t \in Seq(Objects) /\ Len(t) = n - 1 /\ DOMAIN t = 1 .. n - 1
      /\ \A i \in 1 .. n - 1 : t[i] = s[i]
  <2>1. 1 \in 1 .. n /\ n - 1 \in 0 .. n
    BY <1>2
  <2>2. t \in Seq(Objects)
    BY <1>1, <1>2, SubSeqProperties
  <2>3. Len(t) = n - 1
    BY <1>1, <1>2, SubSeqProperties
  <2>4. \A i \in 1 .. n - 1 : t[i] = s[i]
    BY <1>1, <1>2, SubSeqProperties
  <2> HIDE DEF t
  <2> QED
    BY <2>2, <2>3, <2>4, LenProperties
<1> HIDE DEF t
<1>4. 1 .. n = (1 .. n - 1) \cup {n} /\ n \notin 1 .. n - 1
  BY <1>2
<1>5. Elements(t) = Elements(s) \ {s[n]}
  BY <1>2, <1>3, <1>4 DEF Elements, Distinct
<1>6. Distinct(t)
  BY <1>2, <1>3, <1>4 DEF Distinct
<1>7. s[n] \in Objects /\ s[n] \in Elements(s)
  BY <1>2 DEF Elements
<1>8. Len(t) <= n
  BY <1>3
<1> QED
  BY <1>1, <1>3, <1>5, <1>6, <1>7, <1>8, Zenon DEF t

-----------------------------------------------------------------------------
LEMMA PoolInitInv ==
    ASSUME P!PoolsAssumption
    PROVE  P!Init => PoolIInv
<1> SUFFICES ASSUME P!Init PROVE PoolIInv
  OBVIOUS
<1> USE DEF P!Init, P!PoolsAssumption
<1>1. P!InPool = {} /\ P!Out = {} /\ Len(pool) = 0
  BY DEF P!InPool, P!Out
<1>2. P!TypeOK
  <2>1. pool \in Seq(Objects) /\ Len(pool) <= MaxSize
    BY <1>1
  <2>2. /\ held \in [Users -> Objects \cup {Nothing}]
        /\ pcs \in [Users -> {"idle", "count", "reset", "push"}]
        /\ calls \in [Users -> 0..MaxCalls]
    OBVIOUS
  <2>3. active_count \in 0..(Modulus - 1)
    OBVIOUS
  <2> QED
    BY <2>1, <2>2, <2>3 DEF P!TypeOK
<1>3. P!CleanInPool /\ P!OnePlace /\ Releasing /\ counted \subseteq P!Out
  BY <1>1 DEF P!CleanInPool, P!OnePlace, Releasing
<1>4. P!ActiveCountsOut
  <2>1. P!Cardinality(counted) = 0 /\ 0 + skew = 0 /\ 0 % Modulus = 0
    BY PFinite, FS_EmptySet
  <2> QED
    BY <2>1 DEF P!ActiveCountsOut
<1> QED
  BY <1>2, <1>3, <1>4 DEF PoolIInv

(* The counter does not change while the objects that count stay the same. *)
LEMMA PoolAcquirePooledInv ==
    ASSUME P!PoolsAssumption, PoolIInv, NEW u \in Users, P!AcquirePooled(u)
    PROVE  PoolIInv'
<1> DEFINE o == pool[Len(pool)]
<1>0. /\ P!TypeOK /\ P!CleanInPool /\ P!OnePlace /\ Releasing
      /\ counted \subseteq P!Out /\ P!ActiveCountsOut
  BY DEF PoolIInv
<1>1. /\ pcs[u] = "idle" /\ held[u] = Nothing /\ calls[u] < MaxCalls /\ pool # <<>>
      /\ held' = [held EXCEPT ![u] = o] /\ counted' = counted \cup {o}
      /\ pool' = SubSeq(pool, 1, Len(pool) - 1)
      /\ active_count' = (active_count + 1) % Modulus
      /\ calls' = [calls EXCEPT ![u] = @ + 1]
      /\ UNCHANGED <<pcs, dirty, skew, enable_reuse, resets>>
  BY DEF P!AcquirePooled, P!config, P!CanAcquire
<1>2. /\ o \in Objects /\ o \in P!InPool
      /\ pool' \in Seq(Objects) /\ Len(pool') <= Len(pool)
      /\ P!InPool' = P!InPool \ {o}
      /\ Distinct(pool')
  <2>1. P!InPool = Elements(pool) /\ P!InPool' = Elements(pool')
    BY DEF P!InPool, Elements
  <2>2. pool \in Seq(Objects) /\ Distinct(pool)
    BY <1>0 DEF P!TypeOK, P!OnePlace, Distinct
  <2> QED
    BY <1>1, <2>1, <2>2, PoolShrinks, Zenon
<1> HIDE DEF o
<1>3. /\ held'[u] = o /\ \A v \in Users \ {u} : held'[v] = held[v]
      /\ o # Nothing
  BY <1>0, <1>1, <1>2 DEF P!TypeOK, P!PoolsAssumption
<1>4. o \notin P!Out /\ P!Out' = P!Out \cup {o}
  <2>1. o \notin P!Out
    BY <1>0, <1>2 DEF P!OnePlace
  <2>2. P!Out' = P!Out \cup {o}
    BY <1>1, <1>3 DEF P!Out
  <2> QED
    BY <2>1, <2>2
<1>5. P!TypeOK'
  <2>1. (active_count + 1) % Modulus \in 0 .. Modulus - 1
    BY <1>0 DEF P!TypeOK, P!PoolsAssumption
  <2>2. Len(pool') <= MaxSize
    BY <1>0, <1>2, LenProperties DEF P!TypeOK, P!PoolsAssumption
  <2>3. calls' \in [Users -> 0 .. MaxCalls]
    BY <1>0, <1>1 DEF P!TypeOK, P!PoolsAssumption
  <2> QED
    BY <1>0, <1>1, <1>2, <2>1, <2>2, <2>3 DEF P!TypeOK
<1>6. P!CleanInPool'
  BY <1>0, <1>1, <1>2 DEF P!CleanInPool
<1>7. P!OnePlace'
  <2>1. ASSUME NEW v \in Users, NEW w \in Users, v # w, held'[v] # Nothing
        PROVE  held'[v] # held'[w]
    BY <1>0, <1>3, <1>4, <2>1 DEF P!OnePlace, P!Out
  <2>2. P!InPool' \cap P!Out' = {}
    BY <1>0, <1>2, <1>4 DEF P!OnePlace
  <2> QED
    BY <1>2, <2>1, <2>2 DEF P!OnePlace, Distinct
<1>8. Releasing'
  <2>1. ASSUME NEW v \in Users, pcs[v] # "idle"
        PROVE  held'[v] = held[v] /\ held[v] # Nothing /\ held[v] # o
    BY <1>0, <1>1, <1>3, <1>4, <2>1 DEF Releasing, P!Out
  <2> QED
    BY <1>0, <1>1, <2>1 DEF Releasing
<1>9. P!ActiveCountsOut'
  <2>1. o \notin counted
    BY <1>0, <1>4
  <2>2. IsFiniteSet(counted) /\ Cardinality(counted) \in Nat
    BY <1>0, CountedFinite DEF P!TypeOK, P!Out
  <2>3. Cardinality(counted') = Cardinality(counted) + 1
    BY <1>1, <2>1, <2>2, FS_AddElement
  <2>4. skew \in Int /\ skew' = skew
    BY <1>0, <1>1 DEF P!TypeOK
  <2>5. Cardinality(counted') + skew' = (Cardinality(counted) + skew) + 1
    BY <2>2, <2>3, <2>4
  <2>6. active_count' = (active_count + 1) % Modulus
    BY <1>1
  <2> QED
    BY <1>0, <2>2, <2>4, <2>5, <2>6, CounterMoves
<1> QED
  BY <1>0, <1>1, <1>4, <1>5, <1>6, <1>7, <1>8, <1>9 DEF PoolIInv

(* A new object is nowhere else.                                           *)
LEMMA PoolAcquireNewInv ==
    ASSUME P!PoolsAssumption, PoolIInv, NEW u \in Users, P!AcquireNew(u)
    PROVE  PoolIInv'
<1>0. /\ P!TypeOK /\ P!CleanInPool /\ P!OnePlace /\ Releasing
      /\ counted \subseteq P!Out /\ P!ActiveCountsOut
  BY DEF PoolIInv
<1>1. PICK o \in P!Fresh : held' = [held EXCEPT ![u] = o] /\ dirty' = dirty \ {o}
  BY DEF P!AcquireNew, P!config
<1>2. /\ pcs[u] = "idle" /\ held[u] = Nothing /\ calls[u] < MaxCalls
      /\ calls' = [calls EXCEPT ![u] = @ + 1]
      /\ UNCHANGED <<pool, pcs, active_count, enable_reuse, resets, counted, skew>>
  BY DEF P!AcquireNew, P!config, P!CanAcquire
<1>3. o \in Objects /\ o \notin P!Out /\ o \notin P!InPool /\ o # Nothing
  BY DEF P!Fresh, P!PoolsAssumption
<1>4. held'[u] = o /\ \A v \in Users \ {u} : held'[v] = held[v]
  BY <1>0, <1>1 DEF P!TypeOK
<1>5. P!Out' = P!Out \cup {o} /\ P!InPool' = P!InPool
  BY <1>2, <1>3, <1>4 DEF P!Out, P!InPool
<1>6. P!TypeOK'
  <2>1. calls' \in [Users -> 0 .. MaxCalls]
    BY <1>0, <1>2 DEF P!TypeOK, P!PoolsAssumption
  <2> QED
    BY <1>0, <1>1, <1>2, <1>3, <2>1 DEF P!TypeOK
<1>7. P!CleanInPool'
  <2>1. resets' = resets /\ P!InPool' = P!InPool /\ dirty' \subseteq dirty
    BY <1>1, <1>2, <1>5
  <2> QED
    BY <1>0, <2>1, Zenon DEF P!CleanInPool
<1>8. P!OnePlace'
  <2>1. ASSUME NEW v \in Users, NEW w \in Users, v # w, held'[v] # Nothing
        PROVE  held'[v] # held'[w]
    BY <1>0, <1>3, <1>4, <2>1 DEF P!OnePlace, P!Out
  <2>2. P!InPool' \cap P!Out' = {}
    BY <1>0, <1>3, <1>5 DEF P!OnePlace
  <2> QED
    BY <1>0, <1>2, <2>1, <2>2 DEF P!OnePlace
<1>9. Releasing'
  <2>1. ASSUME NEW v \in Users, pcs[v] # "idle"
        PROVE  held'[v] = held[v] /\ held[v] # Nothing
    BY <1>0, <1>2, <1>4, <2>1 DEF Releasing
  <2> QED
    BY <1>0, <1>1, <1>2, <2>1 DEF Releasing
<1>10. P!ActiveCountsOut'
  BY <1>0, <1>2 DEF P!ActiveCountsOut
<1> QED
  BY <1>0, <1>2, <1>5, <1>6, <1>7, <1>8, <1>9, <1>10 DEF PoolIInv

(* A handle that lets go of its object makes place for nothing else.       *)
LEMMA LetGo ==
    ASSUME P!PoolsAssumption, PoolIInv, NEW u \in Users, held[u] # Nothing,
           held' = [held EXCEPT ![u] = Nothing], UNCHANGED pool
    PROVE  /\ held' \in [Users -> Objects \cup {Nothing}]
           /\ P!Out' = P!Out \ {held[u]} /\ P!InPool' = P!InPool
           /\ \A v \in Users \ {u} : held'[v] = held[v] /\ held[v] # held[u]
           /\ held'[u] = Nothing
           /\ P!OnePlace'
<1>0. P!TypeOK /\ P!OnePlace
  BY DEF PoolIInv
<1>1. /\ held' \in [Users -> Objects \cup {Nothing}] /\ held'[u] = Nothing
      /\ \A v \in Users \ {u} : held'[v] = held[v] /\ held[v] # held[u]
  BY <1>0 DEF P!TypeOK, P!OnePlace
<1>2. P!Out' = P!Out \ {held[u]} /\ P!InPool' = P!InPool
  BY <1>1 DEF P!Out, P!InPool
<1>3. P!OnePlace'
  BY <1>0, <1>1, <1>2 DEF P!OnePlace
<1> QED
  BY <1>1, <1>2, <1>3

LEMMA PoolDiscardInv ==
    ASSUME P!PoolsAssumption, PoolIInv, NEW u \in Users, pcs[u] = "idle", held[u] # Nothing,
           held' = [held EXCEPT ![u] = Nothing],
           dirty' = dirty \ {held[u]},
           counted' = counted \ {held[u]},
           skew' = skew + P!One(held[u] \in counted),
           UNCHANGED <<pool, pcs, calls, active_count, enable_reuse, resets>>
    PROVE  PoolIInv'
<1>0. /\ P!TypeOK /\ P!CleanInPool /\ P!OnePlace /\ Releasing
      /\ counted \subseteq P!Out /\ P!ActiveCountsOut
  BY DEF PoolIInv
<1>1. /\ held' \in [Users -> Objects \cup {Nothing}]
      /\ P!Out' = P!Out \ {held[u]} /\ P!InPool' = P!InPool
      /\ \A v \in Users \ {u} : held'[v] = held[v] /\ held[v] # held[u]
      /\ held'[u] = Nothing
      /\ P!OnePlace'
  BY LetGo
<1>2. P!TypeOK'
  <2>1. skew' \in Int
    BY <1>0 DEF P!TypeOK, P!One
  <2> QED
    BY <1>0, <1>1, <2>1 DEF P!TypeOK
<1>3. P!CleanInPool'
  BY <1>0, <1>1 DEF P!CleanInPool
<1>4. Releasing'
  BY <1>0, <1>1 DEF Releasing
<1>5. counted' \subseteq P!Out'
  BY <1>0, <1>1
<1>6. P!ActiveCountsOut'
  <2>1. IsFiniteSet(counted) /\ Cardinality(counted) \in Nat /\ skew \in Int
    BY <1>0, CountedFinite DEF P!TypeOK, P!Out
  <2>2. CASE held[u] \in counted
    <3>1. Cardinality(counted') = Cardinality(counted) - 1
      BY <2>1, <2>2, FS_RemoveElement
    <3>2. skew' = skew + 1
      BY <2>2 DEF P!One
    <3>3. P!Cardinality(counted') + skew' = P!Cardinality(counted) + skew
      BY PFinite, <2>1, <3>1, <3>2
    <3> QED
      BY <1>0, <3>3 DEF P!ActiveCountsOut
  <2>3. CASE held[u] \notin counted
    <3>1. counted' = counted /\ skew' = skew
      BY <2>1, <2>3 DEF P!One
    <3> QED
      BY <1>0, <3>1 DEF P!ActiveCountsOut
  <2> QED
    BY <2>2, <2>3
<1> QED
  BY <1>1, <1>2, <1>3, <1>4, <1>5, <1>6 DEF PoolIInv

LEMMA PoolReleaseInv ==
    ASSUME P!PoolsAssumption, PoolIInv, NEW u \in Users, P!Release(u)
    PROVE  PoolIInv'
<1>0. /\ P!TypeOK /\ P!CleanInPool /\ P!OnePlace /\ Releasing
      /\ counted \subseteq P!Out /\ P!ActiveCountsOut
  BY DEF PoolIInv
<1>1. CASE enable_reuse
  <2>1. /\ pcs[u] = "idle" /\ held[u] # Nothing /\ pcs' = [pcs EXCEPT ![u] = "count"]
        /\ UNCHANGED <<pool, held, dirty, counted, skew, calls, active_count, enable_reuse, resets>>
    BY <1>1 DEF P!Release, P!config
  <2>2. P!InPool' = P!InPool /\ P!Out' = P!Out
    BY <2>1 DEF P!InPool, P!Out
  <2>3. P!TypeOK'
    BY <1>0, <2>1 DEF P!TypeOK
  <2>4. P!CleanInPool' /\ P!OnePlace' /\ counted' \subseteq P!Out'
    BY <1>0, <2>1, <2>2 DEF P!CleanInPool, P!OnePlace
  <2>5. Releasing'
    BY <1>0, <2>1 DEF Releasing, P!TypeOK
  <2>6. P!ActiveCountsOut'
    BY <1>0, <2>1 DEF P!ActiveCountsOut
  <2> QED
    BY <2>3, <2>4, <2>5, <2>6 DEF PoolIInv
<1>2. CASE ~enable_reuse
  BY <1>2, PoolDiscardInv DEF P!Release, P!config
<1> QED
  BY <1>1, <1>2

LEMMA PoolCountReleaseInv ==
    ASSUME P!PoolsAssumption, PoolIInv, NEW u \in Users, P!CountRelease(u)
    PROVE  PoolIInv'
<1>0. /\ P!TypeOK /\ P!CleanInPool /\ P!OnePlace /\ Releasing
      /\ counted \subseteq P!Out /\ P!ActiveCountsOut
  BY DEF PoolIInv
<1>1. /\ pcs[u] = "count" /\ pcs' = [pcs EXCEPT ![u] = "reset"]
      /\ active_count' = (active_count - 1) % Modulus
      /\ counted' = counted \ {held[u]}
      /\ skew' = skew - P!One(held[u] \notin counted)
      /\ UNCHANGED <<pool, held, calls, dirty, enable_reuse, resets>>
  BY DEF P!CountRelease, P!config
<1>2. P!InPool' = P!InPool /\ P!Out' = P!Out
  BY <1>1 DEF P!InPool, P!Out
<1>3. P!TypeOK'
  <2>1. active_count' \in 0 .. Modulus - 1
    BY <1>0, <1>1 DEF P!TypeOK, P!PoolsAssumption
  <2>2. pcs' \in [Users -> {"idle", "count", "reset", "push"}]
    BY <1>0, <1>1 DEF P!TypeOK
  <2>3. skew' \in Int
    BY <1>0, <1>1 DEF P!TypeOK, P!One
  <2> QED
    BY <1>0, <1>1, <2>1, <2>2, <2>3 DEF P!TypeOK
<1>4. P!CleanInPool' /\ P!OnePlace' /\ counted' \subseteq P!Out'
  BY <1>0, <1>1, <1>2 DEF P!CleanInPool, P!OnePlace
<1>5. Releasing'
  BY <1>0, <1>1 DEF Releasing, P!TypeOK
<1>6. P!ActiveCountsOut'
  <2>1. IsFiniteSet(counted) /\ Cardinality(counted) \in Nat /\ skew \in Int
    BY <1>0, CountedFinite DEF P!TypeOK, P!Out
  <2>2. Cardinality(counted') + skew' = (Cardinality(counted) + skew) + (-1)
    <3>1. CASE held[u] \in counted
      <4>1. Cardinality(counted') = Cardinality(counted) - 1
        BY <1>1, <2>1, <3>1, FS_RemoveElement
      <4>2. skew' = skew
        BY <1>1, <2>1, <3>1 DEF P!One
      <4> QED
        BY <2>1, <4>1, <4>2
    <3>2. CASE held[u] \notin counted
      <4>1. counted' = counted /\ skew' = skew - 1
        BY <1>1, <3>2 DEF P!One
      <4> QED
        BY <2>1, <4>1
    <3> QED
      BY <3>1, <3>2
  <2>3. active_count' = (active_count + (-1)) % Modulus
    BY <1>0, <1>1 DEF P!TypeOK
  <2> QED
    BY <1>0, <2>1, <2>2, <2>3, CounterMoves
<1> QED
  BY <1>3, <1>4, <1>5, <1>6 DEF PoolIInv

LEMMA PoolResetInv ==
    ASSUME P!PoolsAssumption, PoolIInv, NEW u \in Users, P!Reset(u)
    PROVE  PoolIInv'
<1>0. /\ P!TypeOK /\ P!CleanInPool /\ P!OnePlace /\ Releasing
      /\ counted \subseteq P!Out /\ P!ActiveCountsOut
  BY DEF PoolIInv
<1>1. /\ pcs[u] = "reset" /\ pcs' = [pcs EXCEPT ![u] = "push"]
      /\ dirty' = IF resets THEN dirty \ {held[u]} ELSE dirty
      /\ UNCHANGED <<pool, held, calls, active_count, enable_reuse, resets, counted, skew>>
  BY DEF P!Reset, P!config
<1>2. P!InPool' = P!InPool /\ P!Out' = P!Out
  BY <1>1 DEF P!InPool, P!Out
<1>3. P!TypeOK'
  BY <1>0, <1>1 DEF P!TypeOK
<1>4. P!CleanInPool' /\ P!OnePlace' /\ counted' \subseteq P!Out'
  BY <1>0, <1>1, <1>2 DEF P!CleanInPool, P!OnePlace
<1>5. Releasing'
  BY <1>0, <1>1 DEF Releasing, P!TypeOK
<1>6. P!ActiveCountsOut'
  BY <1>0, <1>1 DEF P!ActiveCountsOut
<1> QED
  BY <1>3, <1>4, <1>5, <1>6 DEF PoolIInv

(* The object that is pushed was reset, and no other thread has it.        *)
LEMMA PoolPushInv ==
    ASSUME P!PoolsAssumption, PoolIInv, NEW u \in Users, P!Push(u)
    PROVE  PoolIInv'
<1>0. /\ P!TypeOK /\ P!CleanInPool /\ P!OnePlace /\ Releasing
      /\ counted \subseteq P!Out /\ P!ActiveCountsOut
  BY DEF PoolIInv
<1> DEFINE o == held[u]
<1>1. /\ pcs[u] = "push" /\ held' = [held EXCEPT ![u] = Nothing]
      /\ pcs' = [pcs EXCEPT ![u] = "idle"]
      /\ UNCHANGED <<calls, active_count, dirty, enable_reuse, resets, counted, skew>>
  BY DEF P!Push, P!config
<1>2. /\ o \in Objects /\ o # Nothing /\ o \notin counted
      /\ resets => o \notin dirty
      /\ o \in P!Out /\ o \notin P!InPool
  BY <1>0, <1>1 DEF P!TypeOK, Releasing, P!Out, P!OnePlace
<1>3. /\ held' \in [Users -> Objects \cup {Nothing}] /\ held'[u] = Nothing
      /\ \A v \in Users \ {u} : held'[v] = held[v] /\ held[v] # o
  BY <1>0, <1>1, <1>2 DEF P!TypeOK, P!OnePlace
<1>4. P!Out' = P!Out \ {o}
  BY <1>2, <1>3 DEF P!Out
<1>5. /\ pool' \in Seq(Objects) /\ Len(pool') <= MaxSize
      /\ P!InPool' \subseteq P!InPool \cup {o} /\ Distinct(pool')
  <2>1. pool \in Seq(Objects) /\ Len(pool) <= MaxSize /\ Distinct(pool) /\ P!InPool = Elements(pool)
    BY <1>0 DEF P!TypeOK, P!OnePlace, Distinct, P!InPool, Elements
  <2>2. P!InPool' = Elements(pool')
    BY DEF P!InPool, Elements
  <2>3. CASE Len(pool) < MaxSize
    <3>1. pool' = Append(pool, o)
      BY <2>3 DEF P!Push, P!config
    <3>2. /\ pool' \in Seq(Objects) /\ Len(pool') = Len(pool) + 1
          /\ Elements(pool') = Elements(pool) \cup {o} /\ Distinct(pool')
      BY <1>2, <2>1, <3>1, PoolGrows, Zenon
    <3>3. Len(pool') <= MaxSize
      BY <2>1, <2>3, <3>2, LenProperties DEF P!PoolsAssumption
    <3> QED
      BY <2>1, <2>2, <3>2, <3>3
  <2>4. CASE ~(Len(pool) < MaxSize)
    BY <2>1, <2>2, <2>4 DEF P!Push, P!config
  <2> QED
    BY <2>3, <2>4
<1>6. P!TypeOK'
  BY <1>0, <1>1, <1>3, <1>5 DEF P!TypeOK
<1>7. P!CleanInPool'
  <2>1. resets' = resets /\ dirty' = dirty
    BY <1>1
  <2>2. ASSUME resets PROVE P!InPool' \cap dirty = {}
    <3>1. P!InPool \cap dirty = {} /\ o \notin dirty
      BY <1>0, <1>2, <2>2 DEF P!CleanInPool
    <3> QED
      BY <1>5, <3>1
  <2> QED
    BY <2>1, <2>2 DEF P!CleanInPool
<1>8. P!OnePlace'
  <2>1. ASSUME NEW v \in Users, NEW w \in Users, v # w, held'[v] # Nothing
        PROVE  held'[v] # held'[w]
    BY <1>0, <1>3, <2>1 DEF P!OnePlace
  <2>2. P!InPool' \cap P!Out' = {}
    BY <1>0, <1>4, <1>5 DEF P!OnePlace
  <2> QED
    BY <1>5, <2>1, <2>2 DEF P!OnePlace, Distinct
<1>9. Releasing'
  BY <1>0, <1>1, <1>3 DEF Releasing, P!TypeOK
<1>10. counted' \subseteq P!Out'
  BY <1>0, <1>1, <1>2, <1>4
<1>11. P!ActiveCountsOut'
  BY <1>0, <1>1 DEF P!ActiveCountsOut
<1> QED
  BY <1>6, <1>7, <1>8, <1>9, <1>10, <1>11 DEF PoolIInv

LEMMA PoolUseInv ==
    ASSUME P!PoolsAssumption, PoolIInv, NEW u \in Users, P!Use(u)
    PROVE  PoolIInv'
<1>0. /\ P!TypeOK /\ P!CleanInPool /\ P!OnePlace /\ Releasing
      /\ counted \subseteq P!Out /\ P!ActiveCountsOut
  BY DEF PoolIInv
<1>1. /\ pcs[u] = "idle" /\ held[u] # Nothing /\ dirty' = dirty \cup {held[u]}
      /\ UNCHANGED <<pool, held, pcs, calls, active_count, enable_reuse, resets, counted, skew>>
  BY DEF P!Use, P!config
<1>2. P!InPool' = P!InPool /\ P!Out' = P!Out /\ held[u] \in P!Out /\ held[u] \in Objects
  BY <1>0, <1>1 DEF P!InPool, P!Out, P!TypeOK
<1>3. P!TypeOK'
  BY <1>0, <1>1, <1>2 DEF P!TypeOK
<1>4. P!CleanInPool' /\ P!OnePlace' /\ counted' \subseteq P!Out'
  BY <1>0, <1>1, <1>2 DEF P!CleanInPool, P!OnePlace
<1>5. Releasing'
  <2>1. ASSUME NEW v \in Users, pcs[v] # "idle"
        PROVE  held[v] # held[u]
    BY <1>0, <1>1, <2>1 DEF P!OnePlace
  <2> QED
    BY <1>0, <1>1, <2>1 DEF Releasing
<1>6. P!ActiveCountsOut'
  BY <1>0, <1>1 DEF P!ActiveCountsOut
<1> QED
  BY <1>3, <1>4, <1>5, <1>6 DEF PoolIInv

LEMMA PoolPopulateInv ==
    ASSUME P!PoolsAssumption, PoolIInv, P!Populate
    PROVE  PoolIInv'
<1>0. /\ P!TypeOK /\ P!CleanInPool /\ P!OnePlace /\ Releasing
      /\ counted \subseteq P!Out /\ P!ActiveCountsOut
  BY DEF PoolIInv
<1>1. PICK o \in P!Fresh : pool' = <<o>> /\ dirty' = dirty \ {o}
  BY DEF P!Populate, P!config
<1>2. /\ MaxSize > 0
      /\ UNCHANGED <<held, pcs, calls, active_count, enable_reuse, resets, counted, skew>>
  BY DEF P!Populate, P!config
<1>3. o \in Objects /\ o \notin P!Out
  BY DEF P!Fresh
<1>4. /\ pool' \in Seq(Objects) /\ Len(pool') = 1 /\ DOMAIN pool' = {1}
      /\ P!InPool' = {o} /\ P!Out' = P!Out
  BY <1>1, <1>2, <1>3 DEF P!InPool, P!Out
<1>5. P!TypeOK'
  BY <1>0, <1>1, <1>2, <1>4 DEF P!TypeOK, P!PoolsAssumption
<1>6. P!CleanInPool' /\ P!OnePlace' /\ counted' \subseteq P!Out'
  BY <1>0, <1>1, <1>2, <1>3, <1>4 DEF P!CleanInPool, P!OnePlace
<1>7. Releasing'
  BY <1>0, <1>1, <1>2 DEF Releasing
<1>8. P!ActiveCountsOut'
  BY <1>0, <1>2 DEF P!ActiveCountsOut
<1> QED
  BY <1>5, <1>6, <1>7, <1>8 DEF PoolIInv

LEMMA PoolClearInv ==
    ASSUME P!PoolsAssumption, PoolIInv, P!Clear
    PROVE  PoolIInv'
<1>0. /\ P!TypeOK /\ P!CleanInPool /\ P!OnePlace /\ Releasing
      /\ counted \subseteq P!Out /\ P!ActiveCountsOut
  BY DEF PoolIInv
<1>1. /\ pool' = <<>>
      /\ UNCHANGED <<held, pcs, calls, active_count, dirty, enable_reuse, resets, counted, skew>>
  BY DEF P!Clear, P!config
<1>2. /\ pool' \in Seq(Objects) /\ Len(pool') = 0 /\ DOMAIN pool' = {}
      /\ P!InPool' = {} /\ P!Out' = P!Out
  BY <1>1 DEF P!InPool, P!Out
<1>3. P!TypeOK'
  BY <1>0, <1>1, <1>2 DEF P!TypeOK, P!PoolsAssumption
<1>4. P!CleanInPool' /\ P!OnePlace' /\ counted' \subseteq P!Out'
  BY <1>0, <1>1, <1>2 DEF P!CleanInPool, P!OnePlace
<1>5. Releasing' /\ P!ActiveCountsOut'
  BY <1>0, <1>1 DEF Releasing, P!ActiveCountsOut
<1> QED
  BY <1>3, <1>4, <1>5 DEF PoolIInv

LEMMA PoolNextInv ==
    ASSUME P!PoolsAssumption, PoolIInv, [P!Next]_(P!vars)
    PROVE  PoolIInv'
<1>1. CASE UNCHANGED P!vars
  <2>1. P!InPool' = P!InPool /\ P!Out' = P!Out
    BY <1>1 DEF P!vars, P!config, P!InPool, P!Out
  <2>2. P!TypeOK'
    BY <1>1 DEF P!vars, P!config, PoolIInv, P!TypeOK
  <2>3. P!OnePlace' /\ counted' \subseteq P!Out'
    BY <1>1, <2>1 DEF P!vars, P!config, PoolIInv, P!OnePlace
  <2>a. resets' = resets /\ dirty' = dirty
    BY <1>1 DEF P!vars, P!config
  <2>b. P!CleanInPool'
    BY <2>1, <2>a DEF PoolIInv, P!CleanInPool
  <2>4. Releasing' /\ P!ActiveCountsOut'
    BY <1>1 DEF P!vars, P!config, PoolIInv, Releasing, P!ActiveCountsOut
  <2> QED
    BY <2>2, <2>3, <2>b, <2>4 DEF PoolIInv
<1>2. ASSUME NEW u \in Users,
             \/ P!AcquirePooled(u) \/ P!AcquireNew(u) \/ P!Use(u) \/ P!Release(u) \/ P!Detach(u)
             \/ P!CountRelease(u) \/ P!Reset(u) \/ P!Push(u)
      PROVE  PoolIInv'
  BY <1>2, PoolAcquirePooledInv, PoolAcquireNewInv, PoolUseInv, PoolReleaseInv,
     PoolDiscardInv, PoolCountReleaseInv,
     PoolResetInv, PoolPushInv DEF P!Detach, P!config
<1>3. CASE P!Populate \/ P!Clear
  BY <1>3, PoolPopulateInv, PoolClearInv
<1> QED
  BY <1>1, <1>2, <1>3 DEF P!Next

(* acquire() and release() of ObjectPool and ConnectionPool, whatever the  *)
(* threads do between the steps of a release: an object is in the pool or  *)
(* with one thread, an object in the pool has been reset if the pool has a *)
(* function for it, and active_count() differs from the counted objects    *)
(* out by those that never came back and those that came uncounted, also   *)
(* when it wraps around.                                                   *)
THEOREM PoolsSafe ==
    ASSUME P!PoolsAssumption
    PROVE  P!Spec => [](P!TypeOK /\ P!CleanInPool /\ P!OnePlace /\ P!ActiveCountsOut)
<1>1. P!Init => PoolIInv
  BY PoolInitInv
<1>2. PoolIInv /\ [P!Next]_(P!vars) => PoolIInv'
  BY PoolNextInv
<1>3. PoolIInv => P!TypeOK /\ P!CleanInPool /\ P!OnePlace /\ P!ActiveCountsOut
  BY DEF PoolIInv
<1> QED
  BY <1>1, <1>2, <1>3, PTL DEF P!Spec

-----------------------------------------------------------------------------
(* Metrics: the counters differ by the requests that are between them, and *)
(* what an export has added up is bounded by the observations in the       *)
(* buckets it has read.  A log entry is written by every sink while the    *)
(* lock is held, so the lines come in blocks.                              *)

(* Finite sets, as Metrics takes them.                                     *)
LEMMA MFinite ==
    /\ \A S : M!IsFiniteSet(S) = IsFiniteSet(S)
    /\ \A S : M!Cardinality(S) = Cardinality(S)
<1>1. ASSUME NEW S PROVE M!IsFiniteSet(S) = IsFiniteSet(S)
  BY Zenon DEF M!IsFiniteSet, IsFiniteSet
<1>2. ASSUME NEW S PROVE M!Cardinality(S) = Cardinality(S)
  BY Zenon DEF M!Cardinality, Cardinality
<1> QED
  BY <1>1, <1>2

(* How many threads are at one of the labels.                              *)
At(l, S) == IF l \in S THEN 1 ELSE 0
Count(f, S) == Cardinality({t \in Threads : f[t] \in S})

Begun == {"in_flight", "handler", "count"}
Inside == {"handler", "count", "sum", "bucket", "leave"}
Passed == {"lock", "write"}

(* The observations in the first n buckets.                                *)
Dots(f, n) == UNION {{b} \X (1 .. f[b]) : b \in 1 .. n}

(* Until every thread is set up none has begun a request.                  *)
NotYet ==
    ~M!SetUp =>
        /\ logged = 0 /\ lines = <<>> /\ mutex = NoThread
        /\ \A t \in Threads : pc[t] \in {"setup", "add_sink", "initialized", "idle"}

(* The counters differ by the requests that are between them.              *)
Counted ==
    /\ requests_total = thrown + count_ + Count(pc, Begun)
    /\ requests_in_flight = thrown + Count(pc, Inside)
    /\ count_ = sum_ + Count(pc, {"sum"})
    /\ sum_ = Cardinality(Dots(bucket_counts_, Buckets)) + Count(pc, {"bucket"})
    /\ IsFiniteSet(Dots(bucket_counts_, Buckets))

(* How far an export is.                                                   *)
ExportedBy(t) ==
    /\ pc[t] = "buckets" =>
         /\ left[t] \in 1 .. Buckets
         /\ export[t].cumulative <= Cardinality(Dots(bucket_counts_, Buckets - left[t]))
    /\ pc[t] = "read_sum" => export[t].cumulative <= Cardinality(Dots(bucket_counts_, Buckets))
    /\ pc[t] = "read_count" => export[t].cumulative <= export[t].sum /\ export[t].sum <= sum_
    /\ ~M!Exporting(t) => export[t].cumulative <= export[t].sum /\ export[t].sum <= export[t].count

Exported == \A t \in Threads : ExportedBy(t)

(* The entries written; the rest are before or under the lock.             *)
Blocks(n, s) == \A i \in Nat : \A j \in 1 .. s : i < n => lines[i * s + j] = lines[i * s + 1]

Entries(n) ==
    /\ logged = n + Count(pc, Passed)
    /\ Blocks(n, sinks)
    /\ mutex = NoThread => Len(lines) = n * sinks
    /\ mutex # NoThread =>
         \E k \in 0 .. sinks :
           /\ k + left[mutex] = sinks /\ Len(lines) = n * sinks + k
           /\ \A j \in 1 .. k : lines[n * sinks + j] = <<mutex, requests[mutex]>>

WrittenByAll ==
    /\ \A t \in Threads : mutex = t <=> pc[t] = "write"
    /\ \E n \in Nat : Entries(n)

MetricsIInv == M!TypeOK /\ NotYet /\ Counted /\ Exported /\ WrittenByAll

-----------------------------------------------------------------------------
(* A thread that goes on is counted where it comes to, no longer where it  *)
(* was.                                                                    *)
LEMMA Moved ==
    ASSUME M!MetricsAssumption, NEW f, NEW g, NEW t \in Threads, NEW S,
           \A u \in Threads \ {t} : g[u] = f[u]
    PROVE  /\ Count(f, S) \in Nat /\ Count(g, S) \in Nat
           /\ Count(g, S) + At(f[t], S) = Count(f, S) + At(g[t], S)
<1> DEFINE F == {u \in Threads : f[u] \in S}
           G == {u \in Threads : g[u] \in S}
<1>2. IsFiniteSet(F) /\ IsFiniteSet(G) /\ Cardinality(F) \in Nat /\ Cardinality(G) \in Nat
  <2>1. IsFiniteSet(F) /\ IsFiniteSet(G)
    BY MFinite, FS_Subset DEF M!MetricsAssumption
  <2> QED
    BY <2>1, FS_CardinalityType
<1>3. f[t] \in S <=> t \in F
  OBVIOUS
<1>4. g[t] \in S <=> t \in G
  OBVIOUS
<1>5. CASE f[t] \in S /\ g[t] \in S
  <2>1. F = G
    BY <1>5
  <2> QED
    BY <1>2, <1>5, <2>1 DEF Count, At
<1>6. CASE f[t] \notin S /\ g[t] \notin S
  <2>1. F = G
    BY <1>6
  <2> QED
    BY <1>2, <1>6, <2>1 DEF Count, At
<1>7. CASE f[t] \in S /\ g[t] \notin S
  <2>1. F = G \cup {t} /\ t \notin G
    BY <1>7
  <2>2. Cardinality(F) = Cardinality(G) + 1
    BY <1>2, <2>1, FS_AddElement
  <2> QED
    BY <1>2, <1>7, <2>2 DEF Count, At
<1>8. CASE f[t] \notin S /\ g[t] \in S
  <2>1. G = F \cup {t} /\ t \notin F
    BY <1>8
  <2>2. Cardinality(G) = Cardinality(F) + 1
    BY <1>2, <2>1, FS_AddElement
  <2> QED
    BY <1>2, <1>8, <2>2 DEF Count, At
<1> QED
  BY <1>5, <1>6, <1>7, <1>8

(* No thread is counted where none is.                                     *)
LEMMA NoneThere ==
    ASSUME NEW f, NEW S, \A t \in Threads : f[t] \notin S
    PROVE  Count(f, S) = 0
<1>1. {t \in Threads : f[t] \in S} = {}
  OBVIOUS
<1> QED
  BY <1>1, FS_EmptySet DEF Count

(* An observation is a dot more in its bucket.                             *)
LEMMA DotAdded ==
    ASSUME NEW B \in Nat, NEW f \in [1 .. B -> Nat], NEW b \in 1 .. B,
           IsFiniteSet(Dots(f, B)), NEW n \in 0 .. B
    PROVE  LET g == [f EXCEPT ![b] = @ + 1]
           IN  /\ IsFiniteSet(Dots(f, n)) /\ IsFiniteSet(Dots(g, n))
               /\ Cardinality(Dots(f, n)) \in Nat /\ Cardinality(Dots(g, n)) \in Nat
               /\ Cardinality(Dots(f, n)) <= Cardinality(Dots(g, n))
               /\ b <= n => Cardinality(Dots(g, n)) = Cardinality(Dots(f, n)) + 1
<1> DEFINE g == [f EXCEPT ![b] = @ + 1]
           d == <<b, f[b] + 1>>
<1>1. PICK k \in Nat : k = f[b]
  OBVIOUS
<1>2. /\ 1 .. k + 1 = (1 .. k) \cup {k + 1} /\ k + 1 \notin 1 .. k
  OBVIOUS
<1>3. g[b] = k + 1 /\ \A c \in 1 .. B \ {b} : g[c] = f[c]
  BY <1>1
<1>4. 1 .. n \subseteq 1 .. B /\ (b \in 1 .. n <=> b <= n)
  OBVIOUS
<1>5. Dots(f, n) \subseteq Dots(f, B)
  BY <1>4 DEF Dots
<1>6. IsFiniteSet(Dots(f, n)) /\ Cardinality(Dots(f, n)) \in Nat
  BY <1>5, FS_Subset, FS_CardinalityType
<1>7. CASE b <= n
  <2>1. d \notin Dots(f, n)
    <3>1. SUFFICES ASSUME d \in Dots(f, n) PROVE FALSE
      OBVIOUS
    <3>2. PICK c \in 1 .. n : d \in {c} \X (1 .. f[c])
      BY <3>1 DEF Dots
    <3>3. c = b /\ f[b] + 1 \in 1 .. f[c]
      BY <3>2
    <3> QED
      BY <1>1, <1>2, <3>3
  <2>2. Dots(g, n) = Dots(f, n) \cup {d}
    <3>1. ASSUME NEW x \in Dots(g, n) PROVE x \in Dots(f, n) \cup {d}
      <4>1. PICK c \in 1 .. n : x \in {c} \X (1 .. g[c])
        BY DEF Dots
      <4>2. CASE c = b
        BY <1>1, <1>2, <1>3, <4>1, <4>2 DEF Dots
      <4>3. CASE c # b
        BY <1>3, <1>4, <4>1, <4>3 DEF Dots
      <4> QED
        BY <4>2, <4>3
    <3>2. ASSUME NEW x \in Dots(f, n) PROVE x \in Dots(g, n)
      <4>1. PICK c \in 1 .. n : x \in {c} \X (1 .. f[c])
        BY DEF Dots
      <4>2. CASE c = b
        BY <1>1, <1>2, <1>3, <4>1, <4>2 DEF Dots
      <4>3. CASE c # b
        BY <1>3, <1>4, <4>1, <4>3 DEF Dots
      <4> QED
        BY <4>2, <4>3
    <3>3. d \in Dots(g, n)
      BY <1>1, <1>2, <1>3, <1>4, <1>7 DEF Dots
    <3> QED
      BY <3>1, <3>2, <3>3
  <2> HIDE DEF d, g
  <2>3. /\ IsFiniteSet(Dots(f, n) \cup {d})
        /\ Cardinality(Dots(f, n) \cup {d}) = Cardinality(Dots(f, n)) + 1
    BY <1>6, <2>1, FS_AddElement
  <2>4. IsFiniteSet(Dots(g, n)) /\ Cardinality(Dots(g, n)) = Cardinality(Dots(f, n)) + 1
    BY <2>2, <2>3, Zenon
  <2>5. PICK c \in Nat : c = Cardinality(Dots(f, n))
    BY <1>6
  <2> QED
    BY <1>6, <2>4, <2>5 DEF g
<1>8. CASE ~(b <= n)
  <2>1. \A c \in 1 .. n : g[c] = f[c]
    BY <1>3, <1>4, <1>8
  <2>2. Dots(g, n) = Dots(f, n)
    BY <2>1 DEF Dots
  <2> QED
    BY <1>6, <1>8, <2>2
<1> QED
  BY <1>7, <1>8

(* An export adds up the dots bucket by bucket.                            *)
LEMMA NextBucket ==
    ASSUME NEW B \in Nat, NEW f \in [1 .. B -> Nat], NEW n \in Nat, n + 1 <= B,
           IsFiniteSet(Dots(f, B))
    PROVE  /\ Cardinality(Dots(f, n)) \in Nat
           /\ Cardinality(Dots(f, n + 1)) = Cardinality(Dots(f, n)) + f[n + 1]
<1>1. /\ 1 .. n + 1 = (1 .. n) \cup {n + 1} /\ n + 1 \notin 1 .. n
      /\ 1 .. n \subseteq 1 .. B /\ n + 1 \in 1 .. B
  OBVIOUS
<1> DEFINE D == {n + 1} \X (1 .. f[n + 1])
<1>2. Dots(f, n + 1) = Dots(f, n) \cup D
  BY <1>1 DEF Dots
<1>3. Dots(f, n) \cap D = {}
  <2>1. SUFFICES ASSUME NEW x \in Dots(f, n), x \in D PROVE FALSE
    OBVIOUS
  <2>2. PICK c \in 1 .. n : x \in {c} \X (1 .. f[c])
    BY DEF Dots
  <2>3. x[1] = c /\ x[1] = n + 1
    BY <2>1, <2>2
  <2> QED
    BY <1>1, <2>3
<1>4. Dots(f, n) \subseteq Dots(f, B)
  BY <1>1 DEF Dots
<1>5. IsFiniteSet(Dots(f, n)) /\ Cardinality(Dots(f, n)) \in Nat
  BY <1>4, FS_Subset, FS_CardinalityType
<1>6. PICK k \in Nat : k = f[n + 1]
  BY <1>1
<1>7. IsFiniteSet(D) /\ Cardinality(D) = k
  <2>1. IsFiniteSet(1 .. k) /\ Cardinality(1 .. k) = k
    BY FS_Interval
  <2>2. IsFiniteSet({n + 1}) /\ Cardinality({n + 1}) = 1
    BY FS_Singleton
  <2>3. IsFiniteSet(D) /\ Cardinality(D) = Cardinality({n + 1}) * Cardinality(1 .. k)
    BY <1>6, <2>1, <2>2, FS_Product
  <2> QED
    BY <2>1, <2>2, <2>3
<1>8. Cardinality(Dots(f, n) \cap D) = 0
  BY <1>3, FS_EmptySet
<1> HIDE DEF D
<1>9. Cardinality(Dots(f, n) \cup D)
      = Cardinality(Dots(f, n)) + Cardinality(D) - Cardinality(Dots(f, n) \cap D)
  BY <1>5, <1>7, FS_Union
<1>10. PICK c \in Nat : c = Cardinality(Dots(f, n))
  BY <1>5
<1>11. Cardinality(Dots(f, n + 1)) = c + k - 0
  BY <1>2, <1>7, <1>8, <1>9, <1>10, Zenon
<1> QED
  BY <1>6, <1>10, <1>11


(* The lines of a whole entry precede the ones of the next.                *)
LEMMA BlockBefore ==
    ASSUME NEW i \in Nat, NEW n \in Nat, NEW s \in Nat, i < n
    PROVE  /\ n * s \in Nat /\ i * s \in Nat /\ (n + 1) * s = n * s + s
           /\ i * s + s <= n * s
<1>1. PICK k \in Nat : n = i + 1 + k
  <2>1. n - i - 1 \in Nat /\ n = i + 1 + (n - i - 1)
    OBVIOUS
  <2> QED
    BY <2>1
<1>2. n * s = i * s + s + k * s /\ k * s \in Nat /\ i * s \in Nat
  BY <1>1
<1>3. (n + 1) * s = n * s + s
  OBVIOUS
<1> QED
  BY <1>2, <1>3

(* The types of what the tuples of variables hold.                         *)
Labels ==
    {"setup", "add_sink", "initialized", "idle", "total", "in_flight", "handler", "count",
       "sum",
     "bucket", "leave", "log", "lock", "write", "export", "buckets", "read_sum", "read_count"}
LogTypes ==
    /\ initialized \in BOOLEAN /\ enabled \in BOOLEAN /\ sinks \in Nat /\ logged \in Nat
    /\ mutex \in Threads \cup {NoThread}
    /\ lines \in Seq(Threads \X (0 .. MaxRequests))
MetricTypes ==
    /\ registered \in BOOLEAN /\ thrown \in Nat
    /\ requests_total \in Nat /\ requests_in_flight \in Nat /\ count_ \in Nat /\ sum_ \in Nat
    /\ bucket_counts_ \in [1 .. Buckets -> Nat]
RequestTypes ==
    /\ requests \in [Threads -> 0 .. MaxRequests]
    /\ duration \in [Threads -> 1 .. Buckets]
    /\ left \in [Threads -> Nat]
    /\ export \in [Threads -> [cumulative : Nat, sum : Nat, count : Nat]]

LEMMA TypeGroups ==
    M!TypeOK <=> pc \in [Threads -> Labels] /\ LogTypes /\ MetricTypes /\ RequestTypes
  BY Zenon DEF M!TypeOK, Labels, LogTypes, MetricTypes, RequestTypes

LEMMA GoesOn ==
    ASSUME pc \in [Threads -> Labels], NEW t \in Threads, NEW l \in Labels, M!Goto(t, l)
    PROVE  pc' \in [Threads -> Labels]
  BY DEF M!Goto

LEMMA Kept ==
    /\ LogTypes /\ UNCHANGED M!logVars => LogTypes'
    /\ MetricTypes /\ UNCHANGED M!metricVars => MetricTypes'
    /\ RequestTypes /\ UNCHANGED M!requestVars => RequestTypes'
<1>1. LogTypes /\ UNCHANGED M!logVars => LogTypes'
  BY DEF LogTypes, M!logVars
<1>2. MetricTypes /\ UNCHANGED M!metricVars => MetricTypes'
  BY DEF MetricTypes, M!metricVars
<1>3. RequestTypes /\ UNCHANGED M!requestVars => RequestTypes'
  BY DEF RequestTypes, M!requestVars
<1> QED
  BY <1>1, <1>2, <1>3

LEMMA CountsMove ==
    ASSUME M!MetricsAssumption, M!TypeOK, NEW t \in Threads, NEW l, pc' = [pc EXCEPT ![t] = l]
    PROVE  \A S : /\ Count(pc, S) \in Nat /\ Count(pc, S)' \in Nat
                  /\ Count(pc, S)' + At(pc[t], S) = Count(pc, S) + At(l, S)
                  /\ At(pc[t], S) = At(l, S) => Count(pc, S)' = Count(pc, S)
<1> SUFFICES ASSUME NEW S
             PROVE  /\ Count(pc, S) \in Nat /\ Count(pc, S)' \in Nat
                    /\ Count(pc, S)' + At(pc[t], S) = Count(pc, S) + At(l, S)
                    /\ At(pc[t], S) = At(l, S) => Count(pc, S)' = Count(pc, S)
  OBVIOUS
<1> DEFINE g == pc'
<1>1. g[t] = l /\ \A u \in Threads \ {t} : g[u] = pc[u]
  BY TypeGroups
<1> HIDE DEF g
<1>6. /\ Count(pc, S) \in Nat /\ Count(g, S) \in Nat
      /\ Count(g, S) + At(pc[t], S) = Count(pc, S) + At(g[t], S)
  BY <1>1, Moved
<1>2. /\ Count(pc, S) \in Nat /\ Count(pc', S) \in Nat
      /\ Count(pc', S) + At(pc[t], S) = Count(pc, S) + At(l, S)
  BY <1>1, <1>6, Zenon DEF g
<1>3. Count(pc, S)' = Count(pc', S)
  BY DEF Count
<1>4. At(pc[t], S) \in Nat /\ At(l, S) \in Nat
  BY DEF At
<1>5. PICK c \in Nat, d \in Nat, a \in Nat, b \in Nat :
        c = Count(pc, S) /\ d = Count(pc', S) /\ a = At(pc[t], S) /\ b = At(l, S)
  BY <1>2, <1>4
<1>7. a = b => d = c
  BY <1>2, <1>5
<1> QED
  BY <1>2, <1>3, <1>5, <1>7, Zenon

LEMMA MetricsInitInv ==
    ASSUME M!MetricsAssumption
    PROVE  M!Init => MetricsIInv
<1> SUFFICES ASSUME M!Init PROVE MetricsIInv
  OBVIOUS
<1>1. /\ pc = [t \in Threads |-> "setup"] /\ requests = [t \in Threads |-> 0]
      /\ duration = [t \in Threads |-> 1] /\ left = [t \in Threads |-> 0]
      /\ bucket_counts_ = [b \in 1 .. Buckets |-> 0] /\ export = [t \in Threads |-> M!NoExport]
  BY DEF M!Init
<1>2. /\ sinks = 0 /\ requests_total = 0 /\ requests_in_flight = 0 /\ count_ = 0 /\ sum_ = 0
      /\ thrown = 0 /\ logged = 0
  BY DEF M!Init
<1>3. initialized = FALSE /\ enabled = TRUE /\ registered = TRUE
  BY DEF M!Init
<1>4. mutex = NoThread /\ lines = <<>>
  BY DEF M!Init
<1>5. LogTypes
  <2>1. initialized \in BOOLEAN /\ enabled \in BOOLEAN
    BY <1>3
  <2>2. sinks \in Nat /\ logged \in Nat /\ lines \in Seq(Threads \X (0 .. MaxRequests))
    BY <1>2, <1>4
  <2> QED
    BY <1>4, <2>1, <2>2 DEF LogTypes
<1>6. MetricTypes
  <2>1. registered \in BOOLEAN
    BY <1>3
  <2>2. bucket_counts_ \in [1 .. Buckets -> Nat]
    BY <1>1
  <2> QED
    BY <1>2, <2>1, <2>2 DEF MetricTypes
<1>7. RequestTypes
  <2>1. requests \in [Threads -> 0 .. MaxRequests] /\ duration \in [Threads -> 1 .. Buckets]
    BY <1>1 DEF M!MetricsAssumption
  <2>2. left \in [Threads -> Nat] /\ export \in [Threads -> [cumulative : Nat, sum : Nat,
     count : Nat]]
    BY <1>1 DEF M!NoExport
  <2> QED
    BY <2>1, <2>2 DEF RequestTypes
<1>8. M!TypeOK
  BY <1>1, <1>5, <1>6, <1>7, TypeGroups DEF Labels
<1>9. NotYet
  BY <1>1, <1>2, <1>4 DEF NotYet
<1>10. Counted
  <2>1. Dots(bucket_counts_, Buckets) = {}
    BY <1>1 DEF Dots
  <2>2. IsFiniteSet(Dots(bucket_counts_, Buckets)) /\ Cardinality(Dots(bucket_counts_,
     Buckets)) = 0
    BY <2>1, FS_EmptySet
  <2>3. /\ Count(pc, Begun) = 0 /\ Count(pc, Inside) = 0 /\ Count(pc, {"sum"}) = 0
        /\ Count(pc, {"bucket"}) = 0
    BY <1>1, NoneThere DEF Begun, Inside
  <2> QED
    BY <1>2, <2>2, <2>3 DEF Counted
<1>11. Exported
  BY <1>1 DEF Exported, ExportedBy, M!NoExport
<1>12. WrittenByAll
  <2>1. Count(pc, Passed) = 0
    BY <1>1, NoneThere DEF Passed
  <2>2. Blocks(0, sinks)
    BY DEF Blocks
  <2>3. \A t \in Threads : ~(mutex = t) /\ ~(pc[t] = "write")
    BY <1>1, <1>4 DEF M!MetricsAssumption
  <2>4. Len(lines) = 0 * sinks
    BY <1>2, <1>4
  <2>5. Entries(0)
    BY <1>2, <1>4, <2>1, <2>2, <2>4 DEF Entries
  <2> QED
    BY <1>4, <2>3, <2>5 DEF WrittenByAll
<1> QED
  BY <1>8, <1>9, <1>10, <1>11, <1>12 DEF MetricsIInv

(* LeaveMetrics() finds the gauge above zero.                              *)
LEMMA GaugeAbove ==
    ASSUME M!MetricsAssumption, M!TypeOK, Counted, NEW t \in Threads, pc[t] = "leave"
    PROVE  requests_in_flight \in Nat \ {0}
<1>1. thrown \in Nat /\ requests_in_flight \in Nat
  BY DEF M!TypeOK
<1> DEFINE F == {u \in Threads : pc[u] \in Inside}
<1>2. t \in F
  BY DEF Inside
<1>3. IsFiniteSet(F)
  BY MFinite, FS_Subset DEF M!MetricsAssumption
<1>4. Cardinality(F) \in Nat /\ Cardinality(F) # 0
  BY <1>2, <1>3, FS_CardinalityType, FS_EmptySet
<1>5. requests_in_flight = thrown + Cardinality(F)
  BY DEF Counted, Count
<1> QED
  BY <1>1, <1>4, <1>5

LEMMA MetricTypesInductive ==
    ASSUME M!MetricsAssumption, M!TypeOK, Counted, Exported, M!Next
    PROVE  M!TypeOK'
<1> DEFINE Typed == pc \in [Threads -> Labels] /\ LogTypes /\ MetricTypes /\ RequestTypes
<1>0. /\ pc \in [Threads -> Labels] /\ LogTypes /\ MetricTypes /\ RequestTypes
  BY TypeGroups
<1>1. ASSUME NEW t \in Threads, M!CheckInitialized(t) \/ M!add_sink(t) \/ M!SetInitialized(t)
      PROVE  Typed'
  <2>1. pc' \in [Threads -> Labels]
    BY <1>0, <1>1, GoesOn DEF M!CheckInitialized, M!add_sink, M!SetInitialized, Labels
  <2>2. LogTypes'
    <3>1. initialized' \in BOOLEAN /\ enabled' = enabled
      BY <1>0, <1>1 DEF LogTypes, M!CheckInitialized, M!add_sink, M!SetInitialized, M!logVars
    <3>2. sinks' \in Nat
      BY <1>0, <1>1 DEF LogTypes, M!CheckInitialized, M!add_sink, M!SetInitialized, M!logVars
    <3>3. logged' = logged /\ mutex' = mutex /\ lines' = lines
      BY <1>1 DEF M!CheckInitialized, M!add_sink, M!SetInitialized, M!logVars
    <3> QED
      BY <1>0, <3>1, <3>2, <3>3, Zenon DEF LogTypes
  <2>3. MetricTypes' /\ RequestTypes'
    BY <1>0, <1>1, Kept DEF M!CheckInitialized, M!add_sink, M!SetInitialized
  <2> QED
    BY <2>1, <2>2, <2>3
<1>2. ASSUME NEW t \in Threads, M!Begin(t) \/ M!HandlerReturns(t)
      PROVE  Typed'
  <2>1. pc' \in [Threads -> Labels]
    BY <1>0, <1>2, GoesOn DEF M!Begin, M!HandlerReturns, Labels
  <2>2. LogTypes' /\ MetricTypes'
    BY <1>0, <1>2, Kept DEF M!Begin, M!HandlerReturns
  <2>3. duration' \in [Threads -> 1 .. Buckets] /\ requests' \in [Threads -> 0 .. MaxRequests]
    <3>1. duration \in [Threads -> 1 .. Buckets] /\ requests \in [Threads -> 0 .. MaxRequests]
      BY <1>0 DEF RequestTypes
    <3>2. requests[t] < MaxRequests => requests[t] + 1 \in 0 .. MaxRequests
      BY <3>1 DEF M!MetricsAssumption
    <3> QED
      BY <1>2, <3>1, <3>2 DEF M!Begin, M!HandlerReturns
  <2>4. left' = left /\ export' = export
    BY <1>2 DEF M!Begin, M!HandlerReturns
  <2>5. RequestTypes'
    BY <1>0, <2>3, <2>4, Zenon DEF RequestTypes
  <2> QED
    BY <2>1, <2>2, <2>5
<1>3. ASSUME NEW t \in Threads,
             M!CountRequest(t) \/ M!EnterHandler(t) \/ M!HandlerThrows(t) \/ M!LeaveMetrics(t)
             \/ M!ObserveCount(t) \/ M!ObserveSum(t)
      PROVE  Typed'
  <2>1. pc' \in [Threads -> Labels]
    BY <1>0, <1>3, GoesOn DEF M!CountRequest, M!EnterHandler, M!HandlerThrows, M!LeaveMetrics,
       M!ObserveCount, M!ObserveSum, Labels
  <2>2. LogTypes' /\ RequestTypes'
    BY <1>0, <1>3, Kept DEF M!CountRequest, M!EnterHandler, M!HandlerThrows, M!LeaveMetrics,
       M!ObserveCount, M!ObserveSum
  <2>3. M!LeaveMetrics(t) => requests_in_flight - 1 \in Nat
    BY GaugeAbove DEF M!LeaveMetrics
  <2>4. MetricTypes'
    BY <1>0, <1>3, <2>3 DEF MetricTypes, M!CountRequest, M!EnterHandler, M!HandlerThrows,
       M!LeaveMetrics,
       M!ObserveCount, M!ObserveSum
  <2> QED
    BY <2>1, <2>2, <2>4
<1>4. ASSUME NEW t \in Threads, M!ObserveBucket(t)
      PROVE  Typed'
  <2>1. pc' \in [Threads -> Labels]
    BY <1>0, <1>4, GoesOn DEF M!ObserveBucket, Labels
  <2>2. LogTypes' /\ RequestTypes'
    BY <1>0, <1>4, Kept DEF M!ObserveBucket
  <2>3. bucket_counts_' \in [1 .. Buckets -> Nat]
    <3>1. bucket_counts_ \in [1 .. Buckets -> Nat]
      BY <1>0 DEF MetricTypes
    <3>2. PICK b \in 1 .. Buckets : b = duration[t]
      BY <1>0 DEF RequestTypes
    <3> QED
      BY <1>4, <3>1, <3>2 DEF M!ObserveBucket
  <2>4. MetricTypes'
    <3>1. /\ registered' = registered /\ thrown' = thrown /\ requests_total' = requests_total
          /\ requests_in_flight' = requests_in_flight /\ count_' = count_ /\ sum_' = sum_
      BY <1>4 DEF M!ObserveBucket
    <3> QED
      BY <1>0, <2>3, <3>1, Zenon DEF MetricTypes
  <2> QED
    BY <2>1, <2>2, <2>4
<1>5. ASSUME NEW t \in Threads, M!Log(t) \/ M!LockLogger(t) \/ M!WriteSink(t)
      PROVE  Typed'
  <2>1. pc' \in [Threads -> Labels]
    BY <1>0, <1>5, GoesOn DEF M!Log, M!LockLogger, M!WriteSink, Labels
  <2>2. MetricTypes'
    BY <1>0, <1>5, Kept DEF M!Log, M!LockLogger, M!WriteSink
  <2>3. Append(lines, <<t, requests[t]>>) \in Seq(Threads \X (0 .. MaxRequests))
    <3>1. <<t, requests[t]>> \in Threads \X (0 .. MaxRequests)
      BY <1>0 DEF RequestTypes
    <3>2. lines \in Seq(Threads \X (0 .. MaxRequests))
      BY <1>0 DEF LogTypes
    <3> QED
      BY <3>1, <3>2, AppendProperties
  <2>4. LogTypes'
    <3>1. initialized' = initialized /\ enabled' = enabled /\ sinks' = sinks
      BY <1>5 DEF M!Log, M!LockLogger, M!WriteSink
    <3>2. logged' \in Nat
      <4>1. logged \in Nat
        BY <1>0 DEF LogTypes
      <4> QED
        BY <1>5, <4>1 DEF M!Log, M!LockLogger, M!WriteSink
    <3>3. mutex' \in Threads \cup {NoThread}
      BY <1>0, <1>5 DEF LogTypes, M!Log, M!LockLogger, M!WriteSink
    <3>4. lines' = lines \/ lines' = Append(lines, <<t, requests[t]>>)
      BY <1>5 DEF M!Log, M!LockLogger, M!WriteSink
    <3>5. lines' \in Seq(Threads \X (0 .. MaxRequests))
      BY <1>0, <2>3, <3>4, Zenon DEF LogTypes
    <3> QED
      BY <1>0, <3>1, <3>2, <3>3, <3>5, Zenon DEF LogTypes
  <2>5. left' \in [Threads -> Nat]
    <3>1. left \in [Threads -> Nat] /\ sinks \in Nat
      BY <1>0 DEF RequestTypes, LogTypes
    <3> QED
      BY <1>5, <3>1 DEF M!Log, M!LockLogger, M!WriteSink, M!requestVars
  <2>6. requests' = requests /\ duration' = duration /\ export' = export
    BY <1>5 DEF M!Log, M!LockLogger, M!WriteSink, M!requestVars
  <2>7. RequestTypes'
    BY <1>0, <2>5, <2>6, Zenon DEF RequestTypes
  <2> QED
    BY <2>1, <2>2, <2>4, <2>7
<1>6. ASSUME NEW t \in Threads,
   M!StartExport(t) \/ M!ExportBucket(t) \/ M!ExportSum(t) \/ M!ExportCount(t)
      PROVE  Typed'
  <2>1. pc' \in [Threads -> Labels]
    BY <1>0, <1>6, GoesOn DEF M!StartExport, M!ExportBucket, M!ExportSum, M!ExportCount, Labels
  <2>2. LogTypes' /\ MetricTypes'
    BY <1>0, <1>6, Kept DEF M!StartExport, M!ExportBucket, M!ExportSum, M!ExportCount
  <2>3. M!ExportBucket(t) => left[t] \in 1 .. Buckets
    BY DEF Exported, ExportedBy, M!ExportBucket
  <2>4. left' \in [Threads -> Nat]
    <3>1. left \in [Threads -> Nat]
      BY <1>0 DEF RequestTypes
    <3> QED
      BY <1>6, <2>3, <3>1 DEF M!StartExport, M!ExportBucket, M!ExportSum, M!ExportCount,
         M!MetricsAssumption
  <2>5. export' \in [Threads -> [cumulative : Nat, sum : Nat, count : Nat]]
    <3>1. export \in [Threads -> [cumulative : Nat, sum : Nat, count : Nat]]
      BY <1>0 DEF RequestTypes
    <3>2. CASE M!StartExport(t)
      BY <3>1, <3>2 DEF M!StartExport, M!NoExport
    <3>3. CASE M!ExportBucket(t)
      <4>1. bucket_counts_ \in [1 .. Buckets -> Nat]
        BY <1>0 DEF MetricTypes
      <4>2. Buckets + 1 - left[t] \in 1 .. Buckets
        BY <2>3, <3>3 DEF M!MetricsAssumption
      <4>3. PICK n \in Nat : n = bucket_counts_[Buckets + 1 - left[t]]
        BY <4>1, <4>2
      <4>4. export' = [export EXCEPT ![t].cumulative = @ + n]
        BY <3>3, <4>3, Zenon DEF M!ExportBucket
      <4> QED
        BY <3>1, <4>4
    <3>4. CASE M!ExportSum(t) \/ M!ExportCount(t)
      <4>1. sum_ \in Nat /\ count_ \in Nat
        BY <1>0 DEF MetricTypes
      <4> QED
        BY <3>1, <3>4, <4>1 DEF M!ExportSum, M!ExportCount
    <3> QED
      BY <1>6, <3>2, <3>3, <3>4
  <2>6. requests' = requests /\ duration' = duration
    BY <1>6 DEF M!StartExport, M!ExportBucket, M!ExportSum, M!ExportCount
  <2>7. RequestTypes'
    BY <1>0, <2>4, <2>5, <2>6, Zenon DEF RequestTypes
  <2> QED
    BY <2>1, <2>2, <2>7
<1>7. ASSUME M!set_level \/ M!clear PROVE Typed'
  <2>1. pc' = pc /\ RequestTypes'
    BY <1>0, <1>7, Kept DEF M!set_level, M!clear
  <2>2. LogTypes' /\ MetricTypes'
    BY <1>0, <1>7, Kept DEF M!set_level, M!clear, LogTypes, MetricTypes
  <2> QED
    BY <1>0, <2>1, <2>2
<1>8. pc' \in [Threads -> Labels] /\ LogTypes' /\ MetricTypes' /\ RequestTypes'
  BY <1>1, <1>2, <1>3, <1>4, <1>5, <1>6, <1>7 DEF M!Next
<1> QED
  BY <1>8, Zenon DEF M!TypeOK, Labels, LogTypes, MetricTypes, RequestTypes

LEMMA NotYetInductive ==
    ASSUME M!MetricsAssumption, M!TypeOK, NotYet, M!Next
    PROVE  NotYet'
<1>1. CASE \E t \in Threads : M!CheckInitialized(t) \/ M!add_sink(t) \/ M!SetInitialized(t)
  BY <1>1 DEF M!TypeOK, NotYet, M!SetUp, M!CheckInitialized, M!add_sink, M!SetInitialized,
     M!Goto, M!logVars, M!metricVars, M!requestVars
<1>2. CASE M!set_level \/ M!clear
  BY <1>2 DEF NotYet, M!SetUp, M!set_level, M!clear, M!logVars
<1>3. ASSUME NEW t \in Threads,
             \/ M!Begin(t)
             \/ /\ pc[t] \notin {"setup", "add_sink", "initialized", "idle"}
                /\ \/ UNCHANGED pc
                   \/ \E l \in {"in_flight", "handler", "idle", "count", "sum", "bucket",
                      "leave",
                                "log", "lock", "write", "buckets", "read_sum", "read_count"} :
                        M!Goto(t, l)
      PROVE  NotYet'
  <2>1. M!SetUp
    BY <1>3 DEF NotYet, M!Begin
  <2>2. M!SetUp'
    BY <1>3, <2>1 DEF M!TypeOK, M!SetUp, M!Goto, M!Begin
  <2> QED
    BY <2>2 DEF NotYet
<1>4. ASSUME NEW t \in Threads,
             \/ M!CountRequest(t) \/ M!EnterHandler(t) \/ M!HandlerReturns(t) \/ M!HandlerThrows(t)
             \/ M!ObserveCount(t) \/ M!ObserveSum(t) \/ M!ObserveBucket(t) \/ M!LeaveMetrics(t)
      PROVE  NotYet'
  BY <1>3, <1>4 DEF M!CountRequest, M!EnterHandler, M!HandlerReturns, M!HandlerThrows,
     M!ObserveCount,
     M!ObserveSum, M!ObserveBucket, M!LeaveMetrics
<1>5. ASSUME NEW t \in Threads,
             \/ M!Log(t) \/ M!LockLogger(t) \/ M!WriteSink(t)
             \/ M!StartExport(t) \/ M!ExportBucket(t) \/ M!ExportSum(t) \/ M!ExportCount(t)
      PROVE  NotYet'
  BY <1>3, <1>5 DEF M!Log, M!LockLogger, M!WriteSink, M!StartExport, M!ExportBucket,
     M!ExportSum, M!ExportCount
<1> QED
  BY <1>1, <1>2, <1>3, <1>4, <1>5 DEF M!Next

LEMMA CountsGo ==
    ASSUME M!MetricsAssumption, M!TypeOK, NEW t \in Threads, NEW l, M!Goto(t, l)
    PROVE  \A S : /\ Count(pc, S) \in Nat /\ Count(pc, S)' \in Nat
                  /\ Count(pc, S)' + At(pc[t], S) = Count(pc, S) + At(l, S)
                  /\ At(pc[t], S) = At(l, S) => Count(pc, S)' = Count(pc, S)
  BY CountsMove DEF M!Goto

(* The counters are changed by threads that change sides with them.        *)
LEMMA CountedInductive ==
    ASSUME M!MetricsAssumption, M!TypeOK, Counted, M!Next
    PROVE  Counted'
<1>0. /\ pc \in [Threads -> Labels] /\ LogTypes /\ MetricTypes /\ RequestTypes
  BY TypeGroups
<1> DEFINE D == Cardinality(Dots(bucket_counts_, Buckets))
<1>a. /\ requests_total \in Nat /\ requests_in_flight \in Nat /\ count_ \in Nat /\ sum_ \in Nat
      /\ thrown \in Nat
  BY <1>0 DEF MetricTypes
<1>b. /\ requests_total = thrown + count_ + Count(pc, Begun)
      /\ requests_in_flight = thrown + Count(pc, Inside)
      /\ count_ = sum_ + Count(pc, {"sum"})
      /\ sum_ = D + Count(pc, {"bucket"})
      /\ IsFiniteSet(Dots(bucket_counts_, Buckets)) /\ D \in Nat
  BY FS_CardinalityType DEF Counted
<1>1. ASSUME NEW t \in Threads, M!CountRequest(t) PROVE Counted'
  <2>1. M!Goto(t, "in_flight") /\ pc[t] = "total"
    BY <1>1 DEF M!CountRequest
  <2>2. /\ At(pc[t], Begun) = 0 /\ At("in_flight", Begun) = 1
        /\ At(pc[t], Inside) = 0 /\ At("in_flight", Inside) = 0
        /\ At(pc[t], {"sum"}) = 0 /\ At("in_flight", {"sum"}) = 0
        /\ At(pc[t], {"bucket"}) = 0 /\ At("in_flight", {"bucket"}) = 0
    BY <2>1 DEF At, Begun, Inside
  <2>3. /\ Count(pc, Begun)' = Count(pc, Begun) + 1
        /\ Count(pc, Inside)' = Count(pc, Inside)
        /\ Count(pc, {"sum"})' = Count(pc, {"sum"})
        /\ Count(pc, {"bucket"})' = Count(pc, {"bucket"})
        /\ Count(pc, Begun) \in Nat /\ Count(pc, Begun)' \in Nat
        /\ Count(pc, Inside) \in Nat /\ Count(pc, Inside)' \in Nat
        /\ Count(pc, {"sum"}) \in Nat /\ Count(pc, {"sum"})' \in Nat
        /\ Count(pc, {"bucket"}) \in Nat /\ Count(pc, {"bucket"})' \in Nat
    BY <2>1, <2>2, CountsGo
  <2>4. /\ requests_total' = requests_total + 1
        /\ requests_in_flight' = requests_in_flight /\ count_' = count_ /\ sum_' = sum_
        /\ bucket_counts_' = bucket_counts_ /\ thrown' = thrown
    BY <1>1 DEF M!CountRequest
  <2>5. Dots(bucket_counts_, Buckets)' = Dots(bucket_counts_, Buckets)
    BY <2>4 DEF Dots
  <2>6. requests_total' = thrown' + count_' + Count(pc, Begun)'
    BY <1>a, <1>b, <2>3, <2>4
  <2>7. requests_in_flight' = thrown' + Count(pc, Inside)'
    BY <1>a, <1>b, <2>3, <2>4
  <2>8. count_' = sum_' + Count(pc, {"sum"})'
    BY <1>a, <1>b, <2>3, <2>4
  <2>9. sum_' = D + Count(pc, {"bucket"})'
    BY <1>a, <1>b, <2>3, <2>4
  <2> QED
    BY <1>b, <2>5, <2>6, <2>7, <2>8, <2>9, Zenon DEF Counted
<1>2. ASSUME NEW t \in Threads, M!EnterHandler(t) PROVE Counted'
  <2>1. M!Goto(t, "handler") /\ pc[t] = "in_flight"
    BY <1>2 DEF M!EnterHandler
  <2>2. /\ At(pc[t], Begun) = 1 /\ At("handler", Begun) = 1
        /\ At(pc[t], Inside) = 0 /\ At("handler", Inside) = 1
        /\ At(pc[t], {"sum"}) = 0 /\ At("handler", {"sum"}) = 0
        /\ At(pc[t], {"bucket"}) = 0 /\ At("handler", {"bucket"}) = 0
    BY <2>1 DEF At, Begun, Inside
  <2>3. /\ Count(pc, Begun)' = Count(pc, Begun)
        /\ Count(pc, Inside)' = Count(pc, Inside) + 1
        /\ Count(pc, {"sum"})' = Count(pc, {"sum"})
        /\ Count(pc, {"bucket"})' = Count(pc, {"bucket"})
        /\ Count(pc, Begun) \in Nat /\ Count(pc, Begun)' \in Nat
        /\ Count(pc, Inside) \in Nat /\ Count(pc, Inside)' \in Nat
        /\ Count(pc, {"sum"}) \in Nat /\ Count(pc, {"sum"})' \in Nat
        /\ Count(pc, {"bucket"}) \in Nat /\ Count(pc, {"bucket"})' \in Nat
    BY <2>1, <2>2, CountsGo
  <2>4. /\ requests_in_flight' = requests_in_flight + 1
        /\ requests_total' = requests_total /\ count_' = count_ /\ sum_' = sum_
        /\ bucket_counts_' = bucket_counts_ /\ thrown' = thrown
    BY <1>2 DEF M!EnterHandler
  <2>5. Dots(bucket_counts_, Buckets)' = Dots(bucket_counts_, Buckets)
    BY <2>4 DEF Dots
  <2>6. requests_total' = thrown' + count_' + Count(pc, Begun)'
    BY <1>a, <1>b, <2>3, <2>4
  <2>7. requests_in_flight' = thrown' + Count(pc, Inside)'
    BY <1>a, <1>b, <2>3, <2>4
  <2>8. count_' = sum_' + Count(pc, {"sum"})'
    BY <1>a, <1>b, <2>3, <2>4
  <2>9. sum_' = D + Count(pc, {"bucket"})'
    BY <1>a, <1>b, <2>3, <2>4
  <2> QED
    BY <1>b, <2>5, <2>6, <2>7, <2>8, <2>9, Zenon DEF Counted
<1>3. ASSUME NEW t \in Threads, M!HandlerThrows(t) PROVE Counted'
  <2>1. M!Goto(t, "idle") /\ pc[t] = "handler"
    BY <1>3 DEF M!HandlerThrows
  <2>2. /\ At(pc[t], Begun) = 1 /\ At("idle", Begun) = 0
        /\ At(pc[t], Inside) = 1 /\ At("idle", Inside) = 0
        /\ At(pc[t], {"sum"}) = 0 /\ At("idle", {"sum"}) = 0
        /\ At(pc[t], {"bucket"}) = 0 /\ At("idle", {"bucket"}) = 0
    BY <2>1 DEF At, Begun, Inside
  <2>3. /\ Count(pc, Begun) = Count(pc, Begun)' + 1
        /\ Count(pc, Inside) = Count(pc, Inside)' + 1
        /\ Count(pc, {"sum"})' = Count(pc, {"sum"})
        /\ Count(pc, {"bucket"})' = Count(pc, {"bucket"})
        /\ Count(pc, Begun) \in Nat /\ Count(pc, Begun)' \in Nat
        /\ Count(pc, Inside) \in Nat /\ Count(pc, Inside)' \in Nat
        /\ Count(pc, {"sum"}) \in Nat /\ Count(pc, {"sum"})' \in Nat
        /\ Count(pc, {"bucket"}) \in Nat /\ Count(pc, {"bucket"})' \in Nat
    BY <2>1, <2>2, CountsGo
  <2>4. /\ thrown' = thrown + 1
        /\ requests_total' = requests_total /\ requests_in_flight' = requests_in_flight
        /\ count_' = count_ /\ sum_' = sum_ /\ bucket_counts_' = bucket_counts_
    BY <1>3 DEF M!HandlerThrows
  <2>5. Dots(bucket_counts_, Buckets)' = Dots(bucket_counts_, Buckets)
    BY <2>4 DEF Dots
  <2>6. requests_total' = thrown' + count_' + Count(pc, Begun)'
    BY <1>a, <1>b, <2>3, <2>4
  <2>7. requests_in_flight' = thrown' + Count(pc, Inside)'
    BY <1>a, <1>b, <2>3, <2>4
  <2>8. count_' = sum_' + Count(pc, {"sum"})'
    BY <1>a, <1>b, <2>3, <2>4
  <2>9. sum_' = D + Count(pc, {"bucket"})'
    BY <1>a, <1>b, <2>3, <2>4
  <2> QED
    BY <1>b, <2>5, <2>6, <2>7, <2>8, <2>9, Zenon DEF Counted
<1>4. ASSUME NEW t \in Threads, M!ObserveCount(t) PROVE Counted'
  <2>1. M!Goto(t, "sum") /\ pc[t] = "count"
    BY <1>4 DEF M!ObserveCount
  <2>2. /\ At(pc[t], Begun) = 1 /\ At("sum", Begun) = 0
        /\ At(pc[t], Inside) = 1 /\ At("sum", Inside) = 1
        /\ At(pc[t], {"sum"}) = 0 /\ At("sum", {"sum"}) = 1
        /\ At(pc[t], {"bucket"}) = 0 /\ At("sum", {"bucket"}) = 0
    BY <2>1 DEF At, Begun, Inside
  <2>3. /\ Count(pc, Begun) = Count(pc, Begun)' + 1
        /\ Count(pc, Inside)' = Count(pc, Inside)
        /\ Count(pc, {"sum"})' = Count(pc, {"sum"}) + 1
        /\ Count(pc, {"bucket"})' = Count(pc, {"bucket"})
        /\ Count(pc, Begun) \in Nat /\ Count(pc, Begun)' \in Nat
        /\ Count(pc, Inside) \in Nat /\ Count(pc, Inside)' \in Nat
        /\ Count(pc, {"sum"}) \in Nat /\ Count(pc, {"sum"})' \in Nat
        /\ Count(pc, {"bucket"}) \in Nat /\ Count(pc, {"bucket"})' \in Nat
    BY <2>1, <2>2, CountsGo
  <2>4. /\ count_' = count_ + 1
        /\ requests_total' = requests_total /\ requests_in_flight' = requests_in_flight
        /\ sum_' = sum_ /\ bucket_counts_' = bucket_counts_ /\ thrown' = thrown
    BY <1>4 DEF M!ObserveCount
  <2>5. Dots(bucket_counts_, Buckets)' = Dots(bucket_counts_, Buckets)
    BY <2>4 DEF Dots
  <2>6. requests_total' = thrown' + count_' + Count(pc, Begun)'
    BY <1>a, <1>b, <2>3, <2>4
  <2>7. requests_in_flight' = thrown' + Count(pc, Inside)'
    BY <1>a, <1>b, <2>3, <2>4
  <2>8. count_' = sum_' + Count(pc, {"sum"})'
    BY <1>a, <1>b, <2>3, <2>4
  <2>9. sum_' = D + Count(pc, {"bucket"})'
    BY <1>a, <1>b, <2>3, <2>4
  <2> QED
    BY <1>b, <2>5, <2>6, <2>7, <2>8, <2>9, Zenon DEF Counted
<1>5. ASSUME NEW t \in Threads, M!ObserveSum(t) PROVE Counted'
  <2>1. M!Goto(t, "bucket") /\ pc[t] = "sum"
    BY <1>5 DEF M!ObserveSum
  <2>2. /\ At(pc[t], Begun) = 0 /\ At("bucket", Begun) = 0
        /\ At(pc[t], Inside) = 1 /\ At("bucket", Inside) = 1
        /\ At(pc[t], {"sum"}) = 1 /\ At("bucket", {"sum"}) = 0
        /\ At(pc[t], {"bucket"}) = 0 /\ At("bucket", {"bucket"}) = 1
    BY <2>1 DEF At, Begun, Inside
  <2>3. /\ Count(pc, Begun)' = Count(pc, Begun)
        /\ Count(pc, Inside)' = Count(pc, Inside)
        /\ Count(pc, {"sum"}) = Count(pc, {"sum"})' + 1
        /\ Count(pc, {"bucket"})' = Count(pc, {"bucket"}) + 1
        /\ Count(pc, Begun) \in Nat /\ Count(pc, Begun)' \in Nat
        /\ Count(pc, Inside) \in Nat /\ Count(pc, Inside)' \in Nat
        /\ Count(pc, {"sum"}) \in Nat /\ Count(pc, {"sum"})' \in Nat
        /\ Count(pc, {"bucket"}) \in Nat /\ Count(pc, {"bucket"})' \in Nat
    BY <2>1, <2>2, CountsGo
  <2>4. /\ sum_' = sum_ + 1
        /\ requests_total' = requests_total /\ requests_in_flight' = requests_in_flight
        /\ count_' = count_ /\ bucket_counts_' = bucket_counts_ /\ thrown' = thrown
    BY <1>5 DEF M!ObserveSum
  <2>5. Dots(bucket_counts_, Buckets)' = Dots(bucket_counts_, Buckets)
    BY <2>4 DEF Dots
  <2>6. requests_total' = thrown' + count_' + Count(pc, Begun)'
    BY <1>a, <1>b, <2>3, <2>4
  <2>7. requests_in_flight' = thrown' + Count(pc, Inside)'
    BY <1>a, <1>b, <2>3, <2>4
  <2>8. count_' = sum_' + Count(pc, {"sum"})'
    BY <1>a, <1>b, <2>3, <2>4
  <2>9. sum_' = D + Count(pc, {"bucket"})'
    BY <1>a, <1>b, <2>3, <2>4
  <2> QED
    BY <1>b, <2>5, <2>6, <2>7, <2>8, <2>9, Zenon DEF Counted
<1>6. ASSUME NEW t \in Threads, M!LeaveMetrics(t) PROVE Counted'
  <2>1. M!Goto(t, "log") /\ pc[t] = "leave"
    BY <1>6 DEF M!LeaveMetrics
  <2>2. /\ At(pc[t], Begun) = 0 /\ At("log", Begun) = 0
        /\ At(pc[t], Inside) = 1 /\ At("log", Inside) = 0
        /\ At(pc[t], {"sum"}) = 0 /\ At("log", {"sum"}) = 0
        /\ At(pc[t], {"bucket"}) = 0 /\ At("log", {"bucket"}) = 0
    BY <2>1 DEF At, Begun, Inside
  <2>3. /\ Count(pc, Begun)' = Count(pc, Begun)
        /\ Count(pc, Inside) = Count(pc, Inside)' + 1
        /\ Count(pc, {"sum"})' = Count(pc, {"sum"})
        /\ Count(pc, {"bucket"})' = Count(pc, {"bucket"})
        /\ Count(pc, Begun) \in Nat /\ Count(pc, Begun)' \in Nat
        /\ Count(pc, Inside) \in Nat /\ Count(pc, Inside)' \in Nat
        /\ Count(pc, {"sum"}) \in Nat /\ Count(pc, {"sum"})' \in Nat
        /\ Count(pc, {"bucket"}) \in Nat /\ Count(pc, {"bucket"})' \in Nat
    BY <2>1, <2>2, CountsGo
  <2>4. /\ requests_in_flight' = requests_in_flight - 1
        /\ requests_total' = requests_total /\ count_' = count_ /\ sum_' = sum_
        /\ bucket_counts_' = bucket_counts_ /\ thrown' = thrown
    BY <1>6 DEF M!LeaveMetrics
  <2>5. Dots(bucket_counts_, Buckets)' = Dots(bucket_counts_, Buckets)
    BY <2>4 DEF Dots
  <2>6. requests_total' = thrown' + count_' + Count(pc, Begun)'
    BY <1>a, <1>b, <2>3, <2>4
  <2>7. requests_in_flight' = thrown' + Count(pc, Inside)'
    BY <1>a, <1>b, <2>3, <2>4
  <2>8. count_' = sum_' + Count(pc, {"sum"})'
    BY <1>a, <1>b, <2>3, <2>4
  <2>9. sum_' = D + Count(pc, {"bucket"})'
    BY <1>a, <1>b, <2>3, <2>4
  <2> QED
    BY <1>b, <2>5, <2>6, <2>7, <2>8, <2>9, Zenon DEF Counted
<1>7. ASSUME NEW t \in Threads, M!ObserveBucket(t) PROVE Counted'
  <2>1. M!Goto(t, "leave") /\ pc[t] = "bucket"
    BY <1>7 DEF M!ObserveBucket
  <2>2. /\ At(pc[t], Begun) = 0 /\ At("leave", Begun) = 0
        /\ At(pc[t], Inside) = 1 /\ At("leave", Inside) = 1
        /\ At(pc[t], {"sum"}) = 0 /\ At("leave", {"sum"}) = 0
        /\ At(pc[t], {"bucket"}) = 1 /\ At("leave", {"bucket"}) = 0
    BY <2>1 DEF At, Begun, Inside
  <2>3. /\ Count(pc, Begun)' = Count(pc, Begun)
        /\ Count(pc, Inside)' = Count(pc, Inside)
        /\ Count(pc, {"sum"})' = Count(pc, {"sum"})
        /\ Count(pc, {"bucket"}) = Count(pc, {"bucket"})' + 1
        /\ Count(pc, Begun) \in Nat /\ Count(pc, Begun)' \in Nat
        /\ Count(pc, Inside) \in Nat /\ Count(pc, Inside)' \in Nat
        /\ Count(pc, {"sum"}) \in Nat /\ Count(pc, {"sum"})' \in Nat
        /\ Count(pc, {"bucket"}) \in Nat /\ Count(pc, {"bucket"})' \in Nat
    BY <2>1, <2>2, CountsGo
  <2>4. /\ bucket_counts_' = [bucket_counts_ EXCEPT ![duration[t]] = @ + 1]
        /\ requests_total' = requests_total /\ requests_in_flight' = requests_in_flight
        /\ count_' = count_ /\ sum_' = sum_ /\ thrown' = thrown
    BY <1>7 DEF M!ObserveBucket
  <2>5. duration[t] \in 1 .. Buckets /\ bucket_counts_ \in [1 .. Buckets -> Nat] /\ Buckets \in Nat
    BY <1>0 DEF RequestTypes, MetricTypes, M!MetricsAssumption
  <2>6. /\ IsFiniteSet(Dots(bucket_counts_', Buckets))
        /\ Cardinality(Dots(bucket_counts_, Buckets)) \in Nat
        /\ Cardinality(Dots(bucket_counts_', Buckets)) = Cardinality(Dots(bucket_counts_,
           Buckets)) + 1
    <3>1. IsFiniteSet(Dots(bucket_counts_, Buckets)) /\ Buckets \in 0 .. Buckets
      BY <2>5 DEF Counted
    <3>2. duration[t] <= Buckets
      BY <2>5
    <3> QED
      BY <2>4, <2>5, <3>1, <3>2, DotAdded
  <2>7. Dots(bucket_counts_, Buckets)' = Dots(bucket_counts_', Buckets)
    BY DEF Dots
  <2>8. requests_total' = thrown' + count_' + Count(pc, Begun)'
    BY <1>a, <1>b, <2>3, <2>4
  <2>9. requests_in_flight' = thrown' + Count(pc, Inside)'
    BY <1>a, <1>b, <2>3, <2>4
  <2>10. count_' = sum_' + Count(pc, {"sum"})'
    BY <1>a, <1>b, <2>3, <2>4
  <2>11. sum_' = Cardinality(Dots(bucket_counts_', Buckets)) + Count(pc, {"bucket"})'
    BY <1>a, <1>b, <2>3, <2>4, <2>6
  <2> QED
    BY <2>6, <2>7, <2>8, <2>9, <2>10, <2>11, Zenon DEF Counted
<1>8. ASSUME UNCHANGED <<requests_total, requests_in_flight, count_, sum_, bucket_counts_,
                         thrown>>,
             \/ UNCHANGED pc
             \/ \E t \in Threads, l \in Labels :
                  /\ M!Goto(t, l)
                  /\ At(pc[t], Begun) = At(l, Begun) /\ At(pc[t], Inside) = At(l, Inside)
                  /\ At(pc[t], {"sum"}) = At(l, {"sum"}) /\ At(pc[t], {"bucket"}) = At(l,
                     {"bucket"})
      PROVE  Counted'
  <2>1. /\ Count(pc, Begun)' = Count(pc, Begun) /\ Count(pc, Inside)' = Count(pc, Inside)
        /\ Count(pc, {"sum"})' = Count(pc, {"sum"}) /\ Count(pc, {"bucket"})' = Count(pc,
           {"bucket"})
    <3>1. CASE UNCHANGED pc
      BY <3>1 DEF Count
    <3>2. CASE ~UNCHANGED pc
      BY <1>8, <3>2, CountsGo
    <3> QED
      BY <3>1, <3>2
  <2>2. Dots(bucket_counts_, Buckets)' = Dots(bucket_counts_, Buckets)
    BY <1>8 DEF Dots
  <2> QED
    BY <1>8, <2>1, <2>2, Zenon DEF Counted
<1>9. ASSUME NEW t \in Threads,
             \/ M!CheckInitialized(t) \/ M!add_sink(t) \/ M!SetInitialized(t) \/ M!Begin(t)
             \/ M!HandlerReturns(t) \/ M!Log(t) \/ M!LockLogger(t)
      PROVE  Counted'
  BY <1>8, <1>9 DEF M!CheckInitialized, M!add_sink, M!SetInitialized, M!Begin,
     M!HandlerReturns, M!Log, M!LockLogger,
     M!metricVars, At, Begun, Inside, Labels
<1>10. ASSUME NEW t \in Threads,
              \/ M!WriteSink(t) \/ M!StartExport(t) \/ M!ExportBucket(t) \/ M!ExportSum(t)
              \/ M!ExportCount(t)
       PROVE  Counted'
  BY <1>8, <1>10 DEF M!WriteSink, M!StartExport, M!ExportBucket, M!ExportSum, M!ExportCount,
     M!metricVars, At,
     Begun, Inside, Labels
<1>11. CASE M!set_level \/ M!clear
  BY <1>8, <1>11 DEF M!set_level, M!clear, M!metricVars
<1> QED
  BY <1>1, <1>2, <1>3, <1>4, <1>5, <1>6, <1>7, <1>9, <1>10, <1>11 DEF M!Next

(* What an export has read only grows.                                     *)
Grows ==
    /\ sum_ \in Nat /\ sum_' \in Nat /\ sum_ <= sum_'
    /\ \A n \in 0 .. Buckets :
         /\ Cardinality(Dots(bucket_counts_, n)) \in Nat
         /\ Cardinality(Dots(bucket_counts_', n)) \in Nat
         /\ Cardinality(Dots(bucket_counts_, n)) <= Cardinality(Dots(bucket_counts_', n))

LEMMA StepGrows ==
    ASSUME M!MetricsAssumption, M!TypeOK, Counted, M!TypeOK', M!Next
    PROVE  Grows
<1>0. /\ MetricTypes /\ RequestTypes /\ Buckets \in Nat /\ Buckets \in 0 .. Buckets
  BY TypeGroups DEF M!MetricsAssumption
<1>1. /\ sum_ \in Nat /\ bucket_counts_ \in [1 .. Buckets -> Nat]
      /\ IsFiniteSet(Dots(bucket_counts_, Buckets))
  BY <1>0 DEF MetricTypes, Counted
<1>2. /\ sum_' = sum_ \/ sum_' = sum_ + 1
      /\ \/ bucket_counts_' = bucket_counts_
         \/ \E t \in Threads : bucket_counts_' = [bucket_counts_ EXCEPT ![duration[t]] = @ + 1]
  <2>1. ASSUME NEW t \in Threads,
               \/ M!CheckInitialized(t) \/ M!add_sink(t) \/ M!SetInitialized(t) \/ M!Begin(t)
               \/ M!HandlerReturns(t) \/ M!Log(t) \/ M!LockLogger(t) \/ M!WriteSink(t)
               \/ M!StartExport(t) \/ M!ExportBucket(t) \/ M!ExportSum(t) \/ M!ExportCount(t)
        PROVE  sum_' = sum_ /\ bucket_counts_' = bucket_counts_
    BY <2>1 DEF M!CheckInitialized, M!add_sink, M!SetInitialized, M!Begin, M!HandlerReturns,
       M!Log, M!LockLogger,
       M!WriteSink, M!StartExport, M!ExportBucket, M!ExportSum, M!ExportCount, M!metricVars
  <2>2. ASSUME NEW t \in Threads,
               \/ M!CountRequest(t) \/ M!EnterHandler(t) \/ M!HandlerThrows(t) \/ M!ObserveCount(t)
               \/ M!LeaveMetrics(t)
        PROVE  sum_' = sum_ /\ bucket_counts_' = bucket_counts_
    BY <2>2 DEF M!CountRequest, M!EnterHandler, M!HandlerThrows, M!ObserveCount, M!LeaveMetrics
  <2>3. ASSUME NEW t \in Threads, M!ObserveSum(t)
        PROVE  sum_' = sum_ + 1 /\ bucket_counts_' = bucket_counts_
    BY <2>3 DEF M!ObserveSum
  <2>4. ASSUME NEW t \in Threads, M!ObserveBucket(t)
        PROVE  sum_' = sum_ /\ bucket_counts_' = [bucket_counts_ EXCEPT ![duration[t]] = @ + 1]
    BY <2>4 DEF M!ObserveBucket
  <2>5. CASE M!set_level \/ M!clear
    BY <2>5 DEF M!set_level, M!clear, M!metricVars
  <2> QED
    BY <2>1, <2>2, <2>3, <2>4, <2>5, Zenon DEF M!Next
<1>3. ASSUME NEW n \in 0 .. Buckets
      PROVE  /\ Cardinality(Dots(bucket_counts_, n)) \in Nat
             /\ Cardinality(Dots(bucket_counts_', n)) \in Nat
             /\ Cardinality(Dots(bucket_counts_, n)) <= Cardinality(Dots(bucket_counts_', n))
  <2>1. CASE bucket_counts_' = bucket_counts_
    <3>1. 1 .. n \subseteq 1 .. Buckets
      BY <1>0
    <3>2. Dots(bucket_counts_, n) \subseteq Dots(bucket_counts_, Buckets)
      BY <3>1 DEF Dots
    <3>3. Cardinality(Dots(bucket_counts_, n)) \in Nat
      BY <1>1, <3>2, FS_Subset, FS_CardinalityType
    <3> QED
      BY <2>1, <3>3
  <2>2. ASSUME NEW t \in Threads,
     bucket_counts_' = [bucket_counts_ EXCEPT ![duration[t]] = @ + 1]
        PROVE  /\ Cardinality(Dots(bucket_counts_, n)) \in Nat
               /\ Cardinality(Dots(bucket_counts_', n)) \in Nat
               /\ Cardinality(Dots(bucket_counts_, n)) <= Cardinality(Dots(bucket_counts_', n))
    <3>1. PICK b \in 1 .. Buckets : b = duration[t]
      BY <1>0 DEF RequestTypes
    <3>2. bucket_counts_' = [bucket_counts_ EXCEPT ![b] = @ + 1]
      BY <2>2, <3>1
    <3> QED
      BY <1>0, <1>1, <3>2, DotAdded
  <2> QED
    BY <1>2, <2>1, <2>2
<1>4. sum_' \in Nat /\ sum_ <= sum_'
  BY <1>1, <1>2
<1> QED
  BY <1>1, <1>3, <1>4 DEF Grows

(* A thread that does not move has exported what it had.                   *)
LEMMA OthersExported ==
    ASSUME M!MetricsAssumption, M!TypeOK, Grows, NEW u \in Threads, ExportedBy(u),
           pc'[u] = pc[u], left'[u] = left[u], export'[u] = export[u]
    PROVE  ExportedBy(u)'
<1>0. /\ left[u] \in Nat /\ Buckets \in Nat
      /\ export[u].cumulative \in Nat /\ export[u].sum \in Nat /\ export[u].count \in Nat
  BY TypeGroups DEF RequestTypes, M!MetricsAssumption
<1> DEFINE d(n) == Cardinality(Dots(bucket_counts_, n))
           e(n) == Cardinality(Dots(bucket_counts_', n))
<1>1. ASSUME pc[u] = "buckets"
      PROVE  left[u] \in 1 .. Buckets /\ export[u].cumulative <= e(Buckets - left[u])
  <2>1. left[u] \in 1 .. Buckets /\ export[u].cumulative <= d(Buckets - left[u])
    BY <1>1 DEF ExportedBy
  <2>2. Buckets - left[u] \in 0 .. Buckets
    BY <1>0, <2>1
  <2>3. d(Buckets - left[u]) \in Nat /\ e(Buckets - left[u]) \in Nat
        /\ d(Buckets - left[u]) <= e(Buckets - left[u])
    BY <2>2 DEF Grows
  <2> HIDE DEF d, e
  <2> QED
    BY <1>0, <2>1, <2>3
<1>2. ASSUME pc[u] = "read_sum" PROVE export[u].cumulative <= e(Buckets)
  <2>1. export[u].cumulative <= d(Buckets)
    BY <1>2 DEF ExportedBy
  <2>2. d(Buckets) \in Nat /\ e(Buckets) \in Nat /\ d(Buckets) <= e(Buckets)
    BY <1>0 DEF Grows
  <2> HIDE DEF d, e
  <2> QED
    BY <1>0, <2>1, <2>2
<1>3. ASSUME pc[u] = "read_count"
      PROVE  export[u].cumulative <= export[u].sum /\ export[u].sum <= sum_'
  <2>1. export[u].cumulative <= export[u].sum /\ export[u].sum <= sum_
    BY <1>3 DEF ExportedBy
  <2> QED
    BY <1>0, <2>1 DEF Grows
<1>4. \A n : Dots(bucket_counts_, n)' = Dots(bucket_counts_', n)
  BY DEF Dots
<1>5. (pc[u] = "buckets" =>
         left[u] \in 1 .. Buckets /\ export[u].cumulative <= d(Buckets - left[u]))'
  BY <1>1
<1>6. (pc[u] = "read_sum" => export[u].cumulative <= d(Buckets))'
  BY <1>2
<1>7. (pc[u] = "read_count" => export[u].cumulative <= export[u].sum /\ export[u].sum <= sum_)'
  BY <1>3
<1>8. (~M!Exporting(u) =>
         export[u].cumulative <= export[u].sum /\ export[u].sum <= export[u].count)'
  BY DEF ExportedBy, M!Exporting
<1> HIDE DEF d, e
<1> QED
  BY <1>5, <1>6, <1>7, <1>8, Zenon DEF ExportedBy, d

(* Outside its export a thread keeps what it has exported.                 *)
LEMMA ElsewhereExported ==
    ASSUME M!TypeOK, NEW t \in Threads, ExportedBy(t), ~M!Exporting(t), ~M!Exporting(t)',
           export'[t] = export[t]
    PROVE  ExportedBy(t)'
<1>1. export[t].cumulative <= export[t].sum /\ export[t].sum <= export[t].count
  BY DEF ExportedBy
<1>2. pc'[t] \notin {"buckets", "read_sum", "read_count"}
  BY DEF M!Exporting
<1> QED
  BY <1>1, <1>2 DEF ExportedBy, M!Exporting

LEMMA ExportStep ==
    ASSUME M!MetricsAssumption, M!TypeOK, Counted, Exported, NEW t \in Threads,
           M!StartExport(t) \/ M!ExportBucket(t) \/ M!ExportSum(t) \/ M!ExportCount(t)
    PROVE  ExportedBy(t)'
<1>0. /\ pc \in [Threads -> Labels] /\ MetricTypes /\ RequestTypes /\ Buckets \in Nat \ {0}
      /\ ExportedBy(t)
  BY TypeGroups DEF M!MetricsAssumption, Exported
<1>1. /\ bucket_counts_ \in [1 .. Buckets -> Nat] /\ sum_ \in Nat /\ count_ \in Nat
      /\ left[t] \in Nat
      /\ export[t].cumulative \in Nat /\ export[t].sum \in Nat /\ export[t].count \in Nat
      /\ export \in [Threads -> [cumulative : Nat, sum : Nat, count : Nat]]
      /\ left \in [Threads -> Nat]
  BY <1>0 DEF MetricTypes, RequestTypes
<1> DEFINE d(n) == Cardinality(Dots(bucket_counts_, n))
<1>2. \A n : Dots(bucket_counts_, n)' = Dots(bucket_counts_, n) /\ sum_' = sum_
  <2>1. bucket_counts_' = bucket_counts_ /\ sum_' = sum_
    BY DEF M!StartExport, M!ExportBucket, M!ExportSum, M!ExportCount, M!metricVars
  <2> QED
    BY <2>1 DEF Dots
<1>3. IsFiniteSet(Dots(bucket_counts_, Buckets)) /\ \A n \in 0 .. Buckets : d(n) \in Nat
  <2>1. IsFiniteSet(Dots(bucket_counts_, Buckets))
    BY DEF Counted
  <2>2. ASSUME NEW n \in 0 .. Buckets PROVE d(n) \in Nat
    <3>1. 1 .. n \subseteq 1 .. Buckets
      BY <1>0
    <3>2. Dots(bucket_counts_, n) \subseteq Dots(bucket_counts_, Buckets)
      BY <3>1 DEF Dots
    <3> QED
      BY <2>1, <3>2, FS_Subset, FS_CardinalityType
  <2> QED
    BY <2>1, <2>2
<1>4. CASE M!StartExport(t)
  <2>1. /\ export'[t] = M!NoExport /\ M!NoExport.cumulative = 0 /\ M!NoExport.sum = 0
        /\ M!NoExport.count = 0
    BY <1>1, <1>4 DEF M!StartExport, M!NoExport
  <2>2. \/ pc'[t] = "buckets" /\ left'[t] = Buckets
        \/ pc'[t] = "log"
    BY <1>0, <1>1, <1>4 DEF M!StartExport, M!Goto
  <2>3. CASE pc'[t] = "log"
    BY <2>1, <2>3 DEF ExportedBy, M!Exporting
  <2>4. CASE pc'[t] = "buckets" /\ left'[t] = Buckets
    <3>1. Buckets \in 1 .. Buckets /\ Buckets - Buckets = 0 /\ 0 \in 0 .. Buckets
      BY <1>0
    <3>2. 0 <= d(Buckets - Buckets)
      BY <1>3, <3>1
    <3>3. left'[t] \in 1 .. Buckets /\ export'[t].cumulative <= d(Buckets - left'[t])
      BY <2>1, <2>4, <3>1, <3>2
    <3>4. export'[t].cumulative <= Cardinality(Dots(bucket_counts_, Buckets - left[t]))'
      BY <1>2, <3>3
    <3> HIDE DEF d
    <3> QED
      BY <2>4, <3>3, <3>4 DEF ExportedBy, M!Exporting
  <2> QED
    BY <2>2, <2>3, <2>4
<1>5. CASE M!ExportBucket(t)
  <2>1. /\ pc[t] = "buckets" /\ left[t] \in 1 .. Buckets
        /\ export[t].cumulative <= d(Buckets - left[t])
    BY <1>0, <1>5 DEF M!ExportBucket, ExportedBy
  <2>2. PICK n \in Nat : n = Buckets - left[t]
    BY <1>0, <2>1
  <2>3. /\ n + 1 <= Buckets /\ n \in 0 .. Buckets /\ n + 1 \in 1 .. Buckets
        /\ Buckets + 1 - left[t] = n + 1
    BY <1>0, <2>1, <2>2
  <2>4. PICK b \in Nat : b = bucket_counts_[n + 1]
    BY <1>1, <2>3
  <2>5. export'[t].cumulative = export[t].cumulative + b
    <3>1. export' = [export EXCEPT ![t].cumulative = @ + b]
      BY <1>5, <2>3, <2>4 DEF M!ExportBucket
    <3> QED
      BY <1>1, <3>1
  <2>6. d(n) \in Nat /\ d(n + 1) = d(n) + b /\ export[t].cumulative <= d(n)
    <3>1. d(n) \in Nat /\ d(n + 1) = d(n) + bucket_counts_[n + 1]
      <4>1. Buckets \in Nat /\ n + 1 <= Buckets
        BY <1>0, <2>3
      <4> QED
        BY <1>1, <1>3, <4>1, NextBucket, Zenon
    <3> QED
      BY <2>1, <2>2, <2>4, <3>1
  <2> HIDE DEF d
  <2>7. export'[t].cumulative <= d(n + 1)
    BY <1>1, <2>4, <2>5, <2>6
  <2>8. left'[t] = left[t] - 1 /\ pc'[t] = IF left[t] = 1 THEN "read_sum" ELSE "buckets"
    BY <1>0, <1>1, <1>5 DEF M!ExportBucket, M!Goto
  <2>9. CASE left[t] = 1
    <3>1. n + 1 = Buckets /\ pc'[t] = "read_sum"
      BY <1>0, <2>2, <2>8, <2>9
    <3>2. export'[t].cumulative <= Cardinality(Dots(bucket_counts_, Buckets))'
      BY <1>2, <2>7, <3>1 DEF d
    <3> QED
      BY <3>1, <3>2 DEF ExportedBy, M!Exporting
  <2>10. CASE left[t] # 1
    <3>1. pc'[t] = "buckets" /\ left'[t] \in 1 .. Buckets /\ Buckets - left'[t] = n + 1
      BY <1>0, <2>1, <2>2, <2>8, <2>10
    <3>2. export'[t].cumulative <= Cardinality(Dots(bucket_counts_, Buckets - left[t]))'
      BY <1>2, <2>7, <3>1 DEF d
    <3> QED
      BY <3>1, <3>2 DEF ExportedBy, M!Exporting
  <2> QED
    BY <2>9, <2>10
<1>6. CASE M!ExportSum(t)
  <2>1. export[t].cumulative <= d(Buckets) /\ d(Buckets) \in Nat
    BY <1>0, <1>3, <1>6 DEF M!ExportSum, ExportedBy
  <2>2. d(Buckets) <= sum_
    <3>1. Count(pc, {"bucket"}) \in Nat
      <4>1. IsFiniteSet({u \in Threads : pc[u] \in {"bucket"}})
        BY MFinite, FS_Subset DEF M!MetricsAssumption
      <4> QED
        BY <4>1, FS_CardinalityType DEF Count
    <3>2. sum_ = d(Buckets) + Count(pc, {"bucket"})
      BY DEF Counted
    <3> QED
      BY <2>1, <3>1, <3>2
  <2>3. /\ pc'[t] = "read_count" /\ export'[t].cumulative = export[t].cumulative
        /\ export'[t].sum = sum_
    BY <1>0, <1>1, <1>6 DEF M!ExportSum, M!Goto
  <2>4. export[t].cumulative <= sum_
    <3> HIDE DEF d
    <3> QED
      BY <1>1, <2>1, <2>2
  <2> QED
    BY <1>1, <1>2, <2>3, <2>4 DEF ExportedBy, M!Exporting
<1>7. CASE M!ExportCount(t)
  <2>1. export[t].cumulative <= export[t].sum /\ export[t].sum <= sum_
    BY <1>0, <1>7 DEF M!ExportCount, ExportedBy
  <2>2. sum_ <= count_
    <3>1. Count(pc, {"sum"}) \in Nat
      <4>1. IsFiniteSet({u \in Threads : pc[u] \in {"sum"}})
        BY MFinite, FS_Subset DEF M!MetricsAssumption
      <4> QED
        BY <4>1, FS_CardinalityType DEF Count
    <3>2. count_ = sum_ + Count(pc, {"sum"})
      BY DEF Counted
    <3> QED
      BY <1>1, <3>1, <3>2
  <2>3. /\ pc'[t] = "log" /\ export'[t].count = count_
        /\ export'[t].cumulative = export[t].cumulative /\ export'[t].sum = export[t].sum
    BY <1>0, <1>1, <1>7 DEF M!ExportCount, M!Goto
  <2>4. export[t].sum <= count_
    BY <1>1, <2>1, <2>2
  <2> QED
    BY <2>1, <2>3, <2>4 DEF ExportedBy, M!Exporting
<1> QED
  BY <1>4, <1>5, <1>6, <1>7

LEMMA ExportedInductive ==
    ASSUME M!MetricsAssumption, M!TypeOK, Counted, Exported, M!Next, M!TypeOK'
    PROVE  Exported'
<1>0. /\ pc \in [Threads -> Labels] /\ RequestTypes /\ Grows /\ \A u \in Threads : ExportedBy(u)
  BY TypeGroups, StepGrows DEF Exported
<1>1. /\ left \in [Threads -> Nat]
      /\ export \in [Threads -> [cumulative : Nat, sum : Nat, count : Nat]]
  BY <1>0 DEF RequestTypes
<1>2. ASSUME NEW t \in Threads,
             \/ M!CheckInitialized(t) \/ M!add_sink(t) \/ M!SetInitialized(t) \/ M!Begin(t)
             \/ M!CountRequest(t) \/ M!EnterHandler(t) \/ M!HandlerReturns(t) \/ M!HandlerThrows(t)
             \/ M!ObserveCount(t) \/ M!ObserveSum(t) \/ M!ObserveBucket(t) \/ M!LeaveMetrics(t)
             \/ M!Log(t) \/ M!LockLogger(t) \/ M!WriteSink(t)
      PROVE  /\ ~M!Exporting(t) /\ ~M!Exporting(t)' /\ export' = export
             /\ \A u \in Threads \ {t} : pc'[u] = pc[u] /\ left'[u] = left[u]
  <2>1. ~M!Exporting(t) /\ ~M!Exporting(t)'
    BY <1>0, <1>2 DEF M!Exporting, M!Goto, M!CheckInitialized, M!add_sink, M!SetInitialized,
       M!Begin,
       M!CountRequest, M!EnterHandler, M!HandlerReturns, M!HandlerThrows, M!ObserveCount,
          M!ObserveSum,
       M!ObserveBucket, M!LeaveMetrics, M!Log, M!LockLogger, M!WriteSink
  <2>2. export' = export
    BY <1>2 DEF M!CheckInitialized, M!add_sink, M!SetInitialized, M!Begin,
       M!CountRequest, M!EnterHandler, M!HandlerReturns, M!HandlerThrows, M!ObserveCount,
          M!ObserveSum,
       M!ObserveBucket, M!LeaveMetrics, M!Log, M!LockLogger, M!WriteSink, M!requestVars
  <2>3. \A u \in Threads \ {t} : pc'[u] = pc[u]
    BY <1>0, <1>2 DEF M!Goto, M!CheckInitialized, M!add_sink, M!SetInitialized, M!Begin,
       M!CountRequest, M!EnterHandler, M!HandlerReturns, M!HandlerThrows, M!ObserveCount,
          M!ObserveSum,
       M!ObserveBucket, M!LeaveMetrics, M!Log, M!LockLogger, M!WriteSink
  <2>4. \A u \in Threads \ {t} : left'[u] = left[u]
    BY <1>1, <1>2 DEF M!CheckInitialized, M!add_sink, M!SetInitialized, M!Begin,
       M!CountRequest, M!EnterHandler, M!HandlerReturns, M!HandlerThrows, M!ObserveCount,
          M!ObserveSum,
       M!ObserveBucket, M!LeaveMetrics, M!Log, M!LockLogger, M!WriteSink, M!requestVars
  <2> QED
    BY <2>1, <2>2, <2>3, <2>4
<1>3. ASSUME NEW t \in Threads,
             \/ M!CheckInitialized(t) \/ M!add_sink(t) \/ M!SetInitialized(t) \/ M!Begin(t)
             \/ M!CountRequest(t) \/ M!EnterHandler(t) \/ M!HandlerReturns(t) \/ M!HandlerThrows(t)
             \/ M!ObserveCount(t) \/ M!ObserveSum(t) \/ M!ObserveBucket(t) \/ M!LeaveMetrics(t)
             \/ M!Log(t) \/ M!LockLogger(t) \/ M!WriteSink(t)
      PROVE  Exported'
  <2>1. \A u \in Threads \ {t} : ExportedBy(u)'
    BY <1>0, <1>2, <1>3, OthersExported
  <2>2. ExportedBy(t)'
    BY <1>0, <1>2, <1>3, ElsewhereExported
  <2> QED
    BY <2>1, <2>2 DEF Exported
<1>4. ASSUME NEW t \in Threads,
             M!StartExport(t) \/ M!ExportBucket(t) \/ M!ExportSum(t) \/ M!ExportCount(t)
      PROVE  Exported'
  <2>1. ExportedBy(t)'
    BY <1>4, ExportStep
  <2>2. \A u \in Threads \ {t} : pc'[u] = pc[u] /\ left'[u] = left[u] /\ export'[u] = export[u]
    BY <1>0, <1>1, <1>4 DEF M!StartExport, M!ExportBucket, M!ExportSum, M!ExportCount, M!Goto
  <2>3. \A u \in Threads \ {t} : ExportedBy(u)'
    BY <1>0, <2>2, OthersExported
  <2> QED
    BY <2>1, <2>3 DEF Exported
<1>5. CASE M!set_level \/ M!clear
  <2>1. pc' = pc /\ left' = left /\ export' = export
    BY <1>5 DEF M!set_level, M!clear, M!requestVars
  <2>2. \A u \in Threads : ExportedBy(u)'
    BY <1>0, <2>1, OthersExported
  <2> QED
    BY <2>2 DEF Exported
<1> QED
  BY <1>3, <1>4, <1>5 DEF M!Next

(* Steps that neither log nor write: the thread with the lock is another.  *)
LEMMA QuietWritten ==
    ASSUME M!MetricsAssumption, M!TypeOK, WrittenByAll,
           UNCHANGED <<mutex, lines, sinks, logged>>,
           Count(pc, Passed)' = Count(pc, Passed),
           \A u \in Threads : /\ pc'[u] = "write" <=> pc[u] = "write"
                              /\ pc[u] = "write" => left'[u] = left[u] /\ requests'[u] = requests[u]
    PROVE  WrittenByAll'
<1>1. PICK n \in Nat : Entries(n)
  BY DEF WrittenByAll
<1>2. \A t \in Threads : mutex' = t <=> pc'[t] = "write"
  BY DEF WrittenByAll
<1>3. mutex # NoThread => left'[mutex] = left[mutex] /\ requests'[mutex] = requests[mutex]
  BY DEF WrittenByAll, M!TypeOK
<1>4. (logged = n + Count(pc, Passed))' /\ Blocks(n, sinks)'
  BY <1>1 DEF Entries, Blocks
<1>5. (mutex = NoThread => Len(lines) = n * sinks)'
  BY <1>1 DEF Entries
<1>6. (mutex # NoThread =>
         \E k \in 0 .. sinks :
           /\ k + left[mutex] = sinks /\ Len(lines) = n * sinks + k
           /\ \A j \in 1 .. k : lines[n * sinks + j] = <<mutex, requests[mutex]>>)'
  <2>1. CASE mutex = NoThread
    BY <2>1
  <2>2. CASE mutex # NoThread
    <3>1. PICK k \in 0 .. sinks :
             /\ k + left[mutex] = sinks /\ Len(lines) = n * sinks + k
             /\ \A j \in 1 .. k : lines[n * sinks + j] = <<mutex, requests[mutex]>>
      BY <1>1, <2>2 DEF Entries
    <3>2. /\ k + left'[mutex'] = sinks' /\ Len(lines') = n * sinks' + k
          /\ \A j \in 1 .. k : lines'[n * sinks' + j] = <<mutex', requests'[mutex']>>
      BY <1>3, <2>2, <3>1, Zenon
    <3>3. k \in 0 .. sinks'
      OBVIOUS
    <3> QED
      BY <3>2, <3>3, Zenon
  <2> QED
    BY <2>1, <2>2
<1>7. Entries(n)'
  BY <1>4, <1>5, <1>6, Zenon DEF Entries
<1> QED
  BY <1>2, <1>7 DEF WrittenByAll

(* A line after the whole entries changes none of them.                    *)
LEMMA BlocksKept ==
    ASSUME NEW n \in Nat, sinks \in Nat, NEW X, lines \in Seq(X), NEW x \in X,
           Blocks(n, sinks), n * sinks <= Len(lines), lines' = Append(lines, x), sinks' = sinks
    PROVE  Blocks(n, sinks)'
<1>1. PICK l \in Nat : l = Len(lines)
  BY LenProperties
<1>2. \A q \in 1 .. l : lines'[q] = lines[q]
  BY <1>1, AppendProperties
<1>3. ASSUME NEW i \in Nat, NEW j \in 1 .. sinks, i < n
      PROVE  lines'[i * sinks + j] = lines'[i * sinks + 1]
  <2>1. /\ n * sinks \in Nat /\ i * sinks \in Nat /\ i * sinks + sinks <= n * sinks
    BY <1>3, BlockBefore
  <2>2. PICK p \in Nat, q \in Nat : p = n * sinks /\ q = i * sinks
    BY <2>1
  <2>3. q + sinks <= p /\ p <= l
    BY <1>1, <2>1, <2>2
  <2>4. q + j \in 1 .. l /\ q + 1 \in 1 .. l
    BY <2>2, <2>3
  <2>5. lines[q + j] = lines[q + 1]
    BY <1>3, <2>2 DEF Blocks
  <2>6. lines'[q + j] = lines'[q + 1]
    BY <1>2, <2>4, <2>5
  <2> QED
    BY <2>2, <2>6
<1> QED
  BY <1>3 DEF Blocks

LEMMA WriteWritten ==
    ASSUME M!MetricsAssumption, M!TypeOK, WrittenByAll, NEW t \in Threads, M!WriteSink(t)
    PROVE  WrittenByAll'
<1>0. /\ pc \in [Threads -> Labels] /\ LogTypes /\ RequestTypes
  BY TypeGroups
<1>1. /\ pc[t] = "write" /\ mutex = t /\ t # NoThread
      /\ left \in [Threads -> Nat] /\ requests \in [Threads -> 0 .. MaxRequests]
      /\ sinks \in Nat /\ logged \in Nat /\ lines \in Seq(Threads \X (0 .. MaxRequests))
      /\ sinks' = sinks /\ logged' = logged /\ requests' = requests
  BY <1>0 DEF M!WriteSink, WrittenByAll, LogTypes, RequestTypes, M!MetricsAssumption
<1>2. PICK n \in Nat : Entries(n)
  BY DEF WrittenByAll
<1>3. PICK k \in 0 .. sinks :
         /\ k + left[t] = sinks /\ Len(lines) = n * sinks + k
         /\ \A j \in 1 .. k : lines[n * sinks + j] = <<t, requests[t]>>
  BY <1>1, <1>2 DEF Entries
<1>4. PICK p \in Nat : p = n * sinks
  BY <1>1
<1>5. CASE left[t] > 0
  <2>1. /\ lines' = Append(lines, <<t, requests[t]>>) /\ left' = [left EXCEPT ![t] = @ - 1]
        /\ mutex' = mutex /\ pc' = pc
    BY <1>5 DEF M!WriteSink
  <2>2. <<t, requests[t]>> \in Threads \X (0 .. MaxRequests)
    BY <1>1
  <2>3. left'[t] = left[t] - 1 /\ k + 1 \in 0 .. sinks /\ (k + 1) + left'[t] = sinks'
    BY <1>1, <1>3, <1>5, <2>1
  <2>4. Len(lines) = p + k /\ p + k \in Nat /\ p <= p + k
    BY <1>1, <1>3, <1>4
  <2>5. /\ Len(lines') = p + (k + 1)
        /\ \A q \in 1 .. p + k : lines'[q] = lines[q]
        /\ lines'[p + k + 1] = <<t, requests[t]>>
    BY <1>1, <2>1, <2>2, <2>4, AppendProperties
  <2>6. ASSUME NEW j \in 1 .. k + 1 PROVE lines'[p + j] = <<t, requests[t]>>
    <3>1. CASE j = k + 1
      BY <2>5, <3>1
    <3>2. CASE j # k + 1
      <4>1. j \in 1 .. k /\ p + j \in 1 .. p + k
        BY <3>2
      <4>2. lines[p + j] = <<t, requests[t]>>
        BY <1>3, <1>4, <4>1
      <4> QED
        BY <2>5, <4>1, <4>2
    <3> QED
      BY <3>1, <3>2
  <2>7. Blocks(n, sinks)'
    <3>1. n * sinks <= Len(lines)
      BY <1>4, <2>4
    <3>2. Blocks(n, sinks)
      BY <1>2 DEF Entries
    <3> QED
      BY <1>1, <2>1, <2>2, <3>1, <3>2, BlocksKept
  <2>8. Count(pc, Passed)' = Count(pc, Passed)
    BY <2>1 DEF Count
  <2>9. logged' = n + Count(pc, Passed)'
    BY <1>1, <1>2, <2>8 DEF Entries
  <2>10. (mutex # NoThread =>
         \E m \in 0 .. sinks :
           /\ m + left[mutex] = sinks /\ Len(lines) = n * sinks + m
           /\ \A j \in 1 .. m : lines[n * sinks + j] = <<mutex, requests[mutex]>>)'
    <3>1. /\ (k + 1) + left'[mutex'] = sinks' /\ Len(lines') = n * sinks' + (k + 1)
          /\ \A j \in 1 .. k + 1 : lines'[n * sinks' + j] = <<mutex', requests'[mutex']>>
      BY <1>1, <1>4, <2>1, <2>3, <2>5, <2>6, Zenon
    <3>2. k + 1 \in 0 .. sinks'
      BY <1>1, <2>3
    <3> QED
      BY <3>1, <3>2, Zenon
  <2>11. Entries(n)'
    BY <1>1, <2>1, <2>7, <2>9, <2>10, Zenon DEF Entries
  <2> QED
    BY <2>1, <2>11 DEF WrittenByAll
<1>6. CASE ~(left[t] > 0)
  <2>1. mutex' = NoThread /\ M!Goto(t, "idle") /\ lines' = lines
    BY <1>6 DEF M!WriteSink
  <2>2. left[t] = 0 /\ k = sinks
    BY <1>1, <1>3, <1>6
  <2>3. Count(pc, Passed)' + 1 = Count(pc, Passed) /\ Count(pc, Passed)' \in Nat
    <3>1. At(pc[t], Passed) = 1 /\ At("idle", Passed) = 0
      BY <1>1 DEF At, Passed
    <3> QED
      BY <2>1, <3>1, CountsGo
  <2>4. logged' = (n + 1) + Count(pc, Passed)'
    <3>1. logged = n + Count(pc, Passed)
      BY <1>2 DEF Entries
    <3> QED
      BY <1>1, <2>3, <3>1
  <2>5. (n + 1) * sinks = p + sinks
    BY <1>1, <1>4
  <2>6. Len(lines') = (n + 1) * sinks'
    BY <1>1, <1>3, <1>4, <2>1, <2>2, <2>5
  <2>7. Blocks(n + 1, sinks)'
    <3>1. ASSUME NEW i \in Nat, NEW j \in 1 .. sinks, i < n + 1
          PROVE  lines[i * sinks + j] = lines[i * sinks + 1]
      <4>1. CASE i = n
        <5>1. 1 \in 1 .. k /\ j \in 1 .. k
          BY <1>1, <2>2
        <5>2. lines[n * sinks + j] = <<t, requests[t]>> /\ lines[n * sinks + 1] = <<t,
           requests[t]>>
          BY <1>3, <5>1
        <5> QED
          BY <4>1, <5>2
      <4>2. CASE i # n
        <5>1. i < n
          BY <3>1, <4>2
        <5> QED
          BY <1>2, <5>1 DEF Entries, Blocks
      <4> QED
        BY <4>1, <4>2
    <3> QED
      BY <1>1, <2>1, <3>1 DEF Blocks
  <2>8. Entries(n + 1)'
    BY <2>1, <2>4, <2>6, <2>7, Zenon DEF Entries
  <2>9. \A u \in Threads : mutex' = u <=> pc'[u] = "write"
    <3>1. pc'[t] = "idle" /\ \A u \in Threads \ {t} : pc'[u] = pc[u]
      BY <1>0, <2>1 DEF M!Goto
    <3>2. \A u \in Threads \ {t} : pc[u] # "write"
      BY <1>1 DEF WrittenByAll
    <3> QED
      BY <2>1, <3>1, <3>2 DEF M!MetricsAssumption
  <2>10. n + 1 \in Nat
    OBVIOUS
  <2> QED
    BY <2>8, <2>9, <2>10 DEF WrittenByAll
<1> QED
  BY <1>5, <1>6

LEMMA LockWritten ==
    ASSUME M!MetricsAssumption, M!TypeOK, WrittenByAll, NEW t \in Threads, M!LockLogger(t)
    PROVE  WrittenByAll'
<1>0. /\ pc \in [Threads -> Labels] /\ LogTypes /\ RequestTypes
  BY TypeGroups
<1>1. /\ pc[t] = "lock" /\ mutex = NoThread /\ mutex' = t /\ t # NoThread /\ M!Goto(t, "write")
      /\ lines' = lines /\ sinks' = sinks /\ logged' = logged /\ requests' = requests
  BY DEF M!LockLogger, M!MetricsAssumption
<1>2. left'[t] = sinks /\ sinks \in Nat
  BY <1>0 DEF M!LockLogger, LogTypes, RequestTypes
<1>3. PICK n \in Nat : Entries(n)
  BY DEF WrittenByAll
<1>4. Count(pc, Passed)' = Count(pc, Passed)
  <2>1. At(pc[t], Passed) = 1 /\ At("write", Passed) = 1
    BY <1>1 DEF At, Passed
  <2> QED
    BY <1>1, <2>1, CountsGo
<1>5. logged' = n + Count(pc, Passed)' /\ Blocks(n, sinks)'
  BY <1>1, <1>3, <1>4 DEF Entries, Blocks
<1>6. Len(lines) = n * sinks /\ n * sinks \in Nat
  BY <1>1, <1>2, <1>3 DEF Entries
<1>7. 0 + left'[mutex'] = sinks' /\ Len(lines') = n * sinks' + 0
  <2>1. PICK p \in Nat : p = n * sinks
    BY <1>6
  <2>2. Len(lines') = p + 0 /\ 0 + left'[t] = sinks
    BY <1>1, <1>2, <1>6, <2>1
  <2> QED
    BY <1>1, <2>1, <2>2, Zenon
<1>8. 0 \in 0 .. sinks' /\ \A j \in 1 .. 0 : lines'[n * sinks' + j] = <<mutex',
   requests'[mutex']>>
  BY <1>1, <1>2
<1>9. Entries(n)'
  BY <1>1, <1>5, <1>7, <1>8, Zenon DEF Entries
<1>10. \A u \in Threads : mutex' = u <=> pc'[u] = "write"
  <2>1. pc'[t] = "write" /\ \A u \in Threads \ {t} : pc'[u] = pc[u]
    BY <1>0, <1>1 DEF M!Goto
  <2>2. \A u \in Threads : pc[u] # "write"
    BY <1>1 DEF WrittenByAll, M!MetricsAssumption
  <2> QED
    BY <1>1, <2>1, <2>2
<1> QED
  BY <1>9, <1>10 DEF WrittenByAll

LEMMA LogWritten ==
    ASSUME M!MetricsAssumption, M!TypeOK, WrittenByAll, NEW t \in Threads, pc[t] = "log",
       M!Goto(t, "lock"),
           logged' = logged + 1, UNCHANGED <<mutex, lines, sinks, left, requests>>
    PROVE  WrittenByAll'
<1>0. /\ pc \in [Threads -> Labels] /\ LogTypes /\ RequestTypes
  BY TypeGroups
<1>1. PICK n \in Nat : Entries(n)
  BY DEF WrittenByAll
<1>2. Count(pc, Passed)' = Count(pc, Passed) + 1 /\ Count(pc, Passed) \in Nat
  <2>1. At(pc[t], Passed) = 0 /\ At("lock", Passed) = 1
    BY DEF At, Passed
  <2> QED
    BY <2>1, CountsGo
<1>3. (logged = n + Count(pc, Passed))'
  <2>1. logged \in Nat /\ logged = n + Count(pc, Passed)
    BY <1>0, <1>1 DEF LogTypes, Entries
  <2> QED
    BY <1>2, <2>1
<1>4. Blocks(n, sinks)'
  BY <1>1 DEF Entries, Blocks
<1>5. Entries(n)'
  BY <1>1, <1>3, <1>4, Zenon DEF Entries
<1>6. pc'[t] = "lock" /\ \A u \in Threads \ {t} : pc'[u] = pc[u]
  BY <1>0 DEF M!Goto
<1>7. \A u \in Threads : mutex' = u <=> pc'[u] = "write"
  BY <1>6 DEF WrittenByAll
<1> QED
  BY <1>5, <1>7 DEF WrittenByAll

(* A sink is added before there is anything to write.                      *)
LEMMA SinkWritten ==
    ASSUME M!MetricsAssumption, M!TypeOK, NotYet, WrittenByAll, NEW t \in Threads, M!add_sink(t)
    PROVE  WrittenByAll'
<1>0. /\ pc \in [Threads -> Labels] /\ LogTypes
  BY TypeGroups
<1>1. /\ logged = 0 /\ lines = <<>> /\ mutex = NoThread
      /\ \A u \in Threads : pc[u] \in {"setup", "add_sink", "initialized", "idle"}
  BY DEF NotYet, M!SetUp, M!add_sink
<1>2. /\ logged' = 0 /\ lines' = <<>> /\ mutex' = NoThread /\ sinks' \in Nat
      /\ \A u \in Threads : pc'[u] \in {"setup", "add_sink", "initialized", "idle"}
  BY <1>0, <1>1 DEF M!add_sink, M!Goto, LogTypes
<1>3. Count(pc, Passed)' = 0
  <2>1. {u \in Threads : pc'[u] \in Passed} = {}
    BY <1>2 DEF Passed
  <2> QED
    BY <2>1, FS_EmptySet DEF Count
<1>4. Len(lines') = 0 * sinks'
  <2>1. PICK s \in Nat : s = sinks'
    BY <1>2
  <2>2. 0 * s = 0
    OBVIOUS
  <2>3. 0 * sinks' = 0
    BY <2>1, <2>2, Zenon
  <2>4. \A l : l = <<>> => Len(l) = 0
    OBVIOUS
  <2>5. Len(lines') = 0
    BY <1>2, <2>4, Zenon
  <2> QED
    BY <2>3, <2>5, Zenon
<1>5. (logged = 0 + Count(pc, Passed))'
  BY <1>2, <1>3
<1>6. Blocks(0, sinks)'
  BY DEF Blocks
<1>7. Entries(0)'
  BY <1>2, <1>4, <1>5, <1>6, Zenon DEF Entries
<1>8. \A u \in Threads : mutex' = u <=> pc'[u] = "write"
  BY <1>2 DEF M!MetricsAssumption
<1> QED
  BY <1>7, <1>8 DEF WrittenByAll

LEMMA WrittenInductive ==
    ASSUME M!MetricsAssumption, M!TypeOK, NotYet, WrittenByAll, M!Next
    PROVE  WrittenByAll'
<1>0. /\ pc \in [Threads -> Labels] /\ RequestTypes
  BY TypeGroups
<1>1. left \in [Threads -> Nat] /\ requests \in [Threads -> 0 .. MaxRequests]
  BY <1>0 DEF RequestTypes
<1>2. ASSUME UNCHANGED <<mutex, lines, sinks, logged>>, NEW t \in Threads, pc[t] # "write",
             \E l \in Labels \ {"write"} : M!Goto(t, l) /\ At(pc[t], Passed) = At(l, Passed),
             \A u \in Threads \ {t} : left'[u] = left[u] /\ requests'[u] = requests[u]
      PROVE  WrittenByAll'
  <2>1. Count(pc, Passed)' = Count(pc, Passed)
    BY <1>2, CountsGo
  <2>2. \A u \in Threads : /\ pc'[u] = "write" <=> pc[u] = "write"
                           /\ pc[u] = "write" => left'[u] = left[u] /\ requests'[u] = requests[u]
    BY <1>0, <1>2 DEF M!Goto
  <2> QED
    BY <1>2, <2>1, <2>2, QuietWritten
<1>3. ASSUME NEW t \in Threads,
             \/ M!CheckInitialized(t) \/ M!SetInitialized(t) \/ M!Begin(t)
             \/ M!CountRequest(t) \/ M!EnterHandler(t) \/ M!HandlerReturns(t) \/ M!HandlerThrows(t)
             \/ M!ObserveCount(t) \/ M!ObserveSum(t) \/ M!ObserveBucket(t) \/ M!LeaveMetrics(t)
      PROVE  WrittenByAll'
  <2>1. UNCHANGED <<mutex, lines, sinks, logged>> /\ pc[t] # "write"
    BY <1>3 DEF M!CheckInitialized, M!SetInitialized, M!Begin, M!CountRequest,
       M!EnterHandler, M!HandlerReturns,
       M!HandlerThrows, M!ObserveCount, M!ObserveSum, M!ObserveBucket, M!LeaveMetrics, M!logVars
  <2>2. \E l \in Labels \ {"write"} : M!Goto(t, l) /\ At(pc[t], Passed) = At(l, Passed)
    BY <1>3 DEF M!CheckInitialized, M!SetInitialized, M!Begin, M!CountRequest,
       M!EnterHandler, M!HandlerReturns,
       M!HandlerThrows, M!ObserveCount, M!ObserveSum, M!ObserveBucket, M!LeaveMetrics,
          Labels, At, Passed
  <2>3. \A u \in Threads \ {t} : left'[u] = left[u] /\ requests'[u] = requests[u]
    BY <1>1, <1>3 DEF M!CheckInitialized, M!SetInitialized, M!Begin, M!CountRequest,
       M!EnterHandler, M!HandlerReturns,
       M!HandlerThrows, M!ObserveCount, M!ObserveSum, M!ObserveBucket, M!LeaveMetrics,
          M!requestVars
  <2> QED
    BY <1>2, <2>1, <2>2, <2>3
<1>4. ASSUME NEW t \in Threads,
             M!StartExport(t) \/ M!ExportBucket(t) \/ M!ExportSum(t) \/ M!ExportCount(t)
      PROVE  WrittenByAll'
  <2>1. UNCHANGED <<mutex, lines, sinks, logged>> /\ pc[t] # "write"
    BY <1>4 DEF M!StartExport, M!ExportBucket, M!ExportSum, M!ExportCount, M!logVars
  <2>2. \E l \in Labels \ {"write"} : M!Goto(t, l) /\ At(pc[t], Passed) = At(l, Passed)
    BY <1>4 DEF M!StartExport, M!ExportBucket, M!ExportSum, M!ExportCount, Labels, At, Passed
  <2>3. \A u \in Threads \ {t} : left'[u] = left[u] /\ requests'[u] = requests[u]
    BY <1>1, <1>4 DEF M!StartExport, M!ExportBucket, M!ExportSum, M!ExportCount
  <2> QED
    BY <1>2, <2>1, <2>2, <2>3
<1>5. ASSUME NEW t \in Threads, M!Log(t) PROVE WrittenByAll'
  <2>1. /\ pc[t] = "log" /\ UNCHANGED <<mutex, lines, sinks, left, requests>>
        /\ \/ M!Goto(t, "lock") /\ logged' = logged + 1
           \/ M!Goto(t, "idle") /\ logged' = logged
    BY <1>5 DEF M!Log, M!requestVars
  <2>2. CASE M!Goto(t, "lock") /\ logged' = logged + 1
    BY <2>1, <2>2, LogWritten
  <2>3. CASE M!Goto(t, "idle") /\ logged' = logged
    <3>1. "idle" \in Labels \ {"write"} /\ At(pc[t], Passed) = At("idle", Passed)
      BY <2>1 DEF Labels, At, Passed
    <3> QED
      BY <1>2, <2>1, <2>3, <3>1
  <2> QED
    BY <2>1, <2>2, <2>3
<1>6. CASE M!set_level \/ M!clear
  <2>1. UNCHANGED <<mutex, lines, sinks, logged, pc, left, requests>>
    BY <1>6 DEF M!set_level, M!clear, M!logVars, M!requestVars
  <2>2. Count(pc, Passed)' = Count(pc, Passed)
    BY <2>1 DEF Count
  <2> QED
    BY <2>1, <2>2, QuietWritten
<1> QED
  BY <1>3, <1>4, <1>5, <1>6, LockWritten, WriteWritten, SinkWritten DEF M!Next

LEMMA MetricsNextInv ==
    ASSUME M!MetricsAssumption, MetricsIInv, [M!Next]_(M!vars)
    PROVE  MetricsIInv'
<1>0. M!TypeOK /\ NotYet /\ Counted /\ Exported /\ WrittenByAll
  BY DEF MetricsIInv
<1>1. CASE M!Next
  <2>1. M!TypeOK'
    BY <1>0, <1>1, MetricTypesInductive
  <2>2. NotYet'
    BY <1>0, <1>1, NotYetInductive
  <2>3. Counted'
    BY <1>0, <1>1, CountedInductive
  <2>4. Exported'
    BY <1>0, <1>1, <2>1, ExportedInductive
  <2>5. WrittenByAll'
    BY <1>0, <1>1, WrittenInductive
  <2> QED
    BY <2>1, <2>2, <2>3, <2>4, <2>5 DEF MetricsIInv
<1>2. CASE UNCHANGED M!vars
  <2>1. UNCHANGED <<initialized, sinks, enabled, mutex, lines, pc, requests, duration, left,
                    registered,
                    requests_total, requests_in_flight, count_, sum_, bucket_counts_, export,
                       thrown,
                    logged>>
    BY <1>2 DEF M!vars, M!logVars, M!metricVars, M!requestVars
  <2>2. \A S : Count(pc, S)' = Count(pc, S)
    BY <2>1 DEF Count
  <2>3. \A n : Dots(bucket_counts_, n)' = Dots(bucket_counts_, n)
    BY <2>1 DEF Dots
  <2>4. M!TypeOK'
    BY <1>0, <2>1, Zenon DEF M!TypeOK
  <2>5. NotYet'
    BY <1>0, <2>1 DEF NotYet, M!SetUp
  <2>6. Counted'
    BY <1>0, <2>1, <2>2, <2>3, Zenon DEF Counted
  <2>7. Exported'
    BY <1>0, <2>1, <2>3, Zenon DEF Exported, ExportedBy, M!Exporting
  <2>8. WrittenByAll'
    BY <1>0, <2>1, <2>2, QuietWritten
  <2> QED
    BY <2>4, <2>5, <2>6, <2>7, <2>8 DEF MetricsIInv
<1> QED
  BY <1>1, <1>2

(* The metrics settle and the log is whole.                                *)
LEMMA InvSettles ==
    ASSUME M!MetricsAssumption, MetricsIInv
    PROVE  M!ExportsConsistent /\ M!Settles /\ M!InFlightUnlessThrown
<1>0. M!TypeOK /\ Counted /\ Exported /\ WrittenByAll
  BY DEF MetricsIInv
<1>1. M!ExportsConsistent
  BY <1>0 DEF Exported, ExportedBy, M!Exporting, M!ExportsConsistent
<1>2. ASSUME \A t \in Threads : pc[t] = "idle"
      PROVE  /\ count_ = requests_total - thrown /\ sum_ = count_
             /\ Cardinality(M!Observed(Buckets)) = count_
             /\ Len(lines) = logged * sinks
             /\ \A i \in 0 .. logged - 1, j \in 1 .. sinks :
                  lines[i * sinks + j] = lines[i * sinks + 1]
  <2>1. /\ Count(pc, Begun) = 0 /\ Count(pc, {"sum"}) = 0
        /\ Count(pc, {"bucket"}) = 0 /\ Count(pc, Passed) = 0
    BY <1>2, NoneThere DEF Begun, Passed
  <2>2. /\ sinks \in Nat /\ logged \in Nat /\ thrown \in Nat /\ requests_total \in Nat
        /\ count_ \in Nat /\ sum_ \in Nat
    BY <1>0 DEF M!TypeOK
  <2>3. Cardinality(Dots(bucket_counts_, Buckets)) \in Nat
    BY <1>0, FS_CardinalityType DEF Counted
  <2>4. /\ count_ = requests_total - thrown /\ sum_ = count_
        /\ Cardinality(Dots(bucket_counts_, Buckets)) = count_
    BY <1>0, <2>1, <2>2, <2>3 DEF Counted
  <2>5. M!Observed(Buckets) = Dots(bucket_counts_, Buckets)
    BY DEF M!Observed, Dots
  <2>6. PICK n \in Nat : Entries(n)
    BY <1>0 DEF WrittenByAll
  <2>7. n = logged
    BY <2>1, <2>2, <2>6 DEF Entries
  <2>8. mutex = NoThread
    BY <1>0, <1>2 DEF WrittenByAll, M!TypeOK
  <2>9. Len(lines) = logged * sinks
    BY <2>6, <2>7, <2>8 DEF Entries
  <2>10. \A i \in 0 .. logged - 1,
     j \in 1 .. sinks : lines[i * sinks + j] = lines[i * sinks + 1]
    <3>1. \A i \in 0 .. logged - 1 : i \in Nat /\ i < n
      BY <2>2, <2>7
    <3> QED
      BY <2>6, <3>1 DEF Entries, Blocks
  <2> QED
    BY <2>4, <2>5, <2>9, <2>10
<1>3. M!Settles
  BY MFinite, <1>2, Zenon DEF M!Settles
<1>4. ASSUME thrown = 0
      PROVE  requests_in_flight = M!Cardinality(M!InFlight)
  <2>1. requests_in_flight = 0 + Count(pc, Inside) /\ requests_in_flight \in Nat
    BY <1>0, <1>4 DEF Counted, M!TypeOK
  <2>2. M!InFlight = {t \in Threads : pc[t] \in Inside}
    BY DEF M!InFlight, Inside
  <2>3. Count(pc, Inside) = M!Cardinality(M!InFlight)
    BY MFinite, <2>2 DEF Count
  <2>4. IsFiniteSet({t \in Threads : pc[t] \in Inside})
    BY MFinite, FS_Subset DEF M!MetricsAssumption
  <2>5. Count(pc, Inside) \in Nat
    BY <2>4, FS_CardinalityType DEF Count
  <2> QED
    BY <2>1, <2>3, <2>5
<1>5. M!InFlightUnlessThrown
  BY <1>4 DEF M!InFlightUnlessThrown, M!InFlightIsCurrent
<1> QED
  BY <1>1, <1>3, <1>5

(* For any number of threads, buckets and requests: an export is consistent *)
(* although it reads the histogram in pieces while requests change it, and *)
(* whenever no request is under way every one has been accounted for and   *)
(* every log entry has been written whole; and the gauge is the number of  *)
(* requests in flight, until a handler throws.                             *)
THEOREM AlwaysAddsUp ==
    ASSUME M!MetricsAssumption
    PROVE  M!Spec => [](/\ M!TypeOK /\ M!ExportsConsistent /\ M!Settles
                        /\ M!InFlightUnlessThrown)
<1>1. M!Init => MetricsIInv
  BY MetricsInitInv
<1>2. MetricsIInv /\ [M!Next]_(M!vars) => MetricsIInv'
  BY MetricsNextInv
<1>3. MetricsIInv =>
         /\ M!TypeOK /\ M!ExportsConsistent /\ M!Settles
         /\ M!InFlightUnlessThrown
  BY InvSettles DEF MetricsIInv
<1> QED
  BY <1>1, <1>2, <1>3, PTL DEF M!Spec

-----------------------------------------------------------------------------
(* Static files: what has been read of a file that is not disturbed is     *)
(* still so, and the client's conditions are the validators of its copy.   *)

AnyPiece == [version : Int, first : Int, last : Int]

(* Versions are told apart by their numbers, and by their times.           *)
Versions ==
    /\ IsFiniteSet(versions) /\ clock \in Nat
    /\ \A v \in versions :
         v.id \in 1 .. Cardinality(versions) /\ v.size \in Nat /\ v.mtime \in Nat
    /\ \A v, w \in versions : v.id = w.id \/ v.mtime = w.mtime => v = w
    /\ file # None => file \in versions

(* A copy that came undisturbed has the validators of its version.         *)
CopyKnown ==
    copy # None /\ ~copy.disturbed /\ copy.body # <<>> =>
        \E v \in versions :
            /\ copy.body[1].version = v.id
            /\ copy.etag = generate_etag(v.size, v.mtime)
            /\ copy.modified \in LastModified(v.mtime)

(* Conditions are the validators of the copy.                              *)
AsksOfCopy ==
    /\ req.range = None \/ req.range \in Specs
    /\ req.ifNoneMatch # None => copy # None /\ req.ifNoneMatch = copy.etag
    /\ req.ifModifiedSince # None => copy # None /\ req.ifModifiedSince = copy.modified
    /\ req.ifRange.kind # "none" =>
         /\ copy # None
         /\ \/ /\ req.ifRange.kind = "etag"
               /\ req.ifRange.etag = copy.etag /\ copy.etag # None
            \/ /\ req.ifRange.kind = "date"
               /\ req.ifRange.date = copy.modified /\ copy.modified # None

Answering == at \in {"send", "sent"}
Looking == at \in {"build", "read"} \/ (Answering /\ resp.status \in {200, 206})

(* What has been read of an undisturbed file is still so.                  *)
Seen ==
    /\ size \in Nat /\ mtime \in Nat
    /\ ~disturbed /\ at = "mtime" => file # None /\ size = file.size
    /\ ~disturbed /\ (at = "decide" \/ Looking) =>
         file # None /\ size = file.size /\ mtime = file.mtime

Looked ==
    Looking => resp.etag = generate_etag(size, mtime) /\ resp.modified \in LastModified(mtime)

Confirms ==
    Answering /\ resp.status = 304 =>
        /\ copy # None
        /\ ~copy.disturbed /\ copy.body # <<>> =>
             \A v \in versions :
                 v.id = copy.body[1].version => mtime < v.mtime + TicksPerSecond + 2

(* How far the response is.                                                *)
Shape ==
    /\ at \in {"idle", "serve", "size", "mtime", "decide", "build", "read", "send", "sent",
              "closed"}
    /\ at \in {"idle", "serve", "size", "mtime", "decide"} => resp = NoResponse /\ parts = NoParts
    /\ at \in {"build", "read"} => ~resp.file /\ resp.body \in Seq(AnyPiece) /\ req.range # None
    /\ at = "build" => resp.body = <<>> /\ resp.length = 0 /\ resp.status = 0
    /\ at = "read" => resp.status \in {200, 206}
    /\ at = "send" /\ resp.file =>
         resp.status = 200 /\ req.method # "HEAD" /\ resp.length = size
    /\ at = "send" /\ ~resp.file =>
         \/ Size(resp.body) = Announced
         \/ req.method = "HEAD" /\ (resp.status = 404 \/ req.range # None)
    /\ FramingKept

(* A full response is of the version that was looked at.                   *)
Delivered ==
    Answering /\ resp.status = 200 /\ ~disturbed =>
        \/ at = "send" /\ resp.file
        \/ resp.body \in {<<>>, Cut(file.id, file.size)}

Pieces(body) == { Bytes([start |-> body[i].first, end |-> body[i].last]) : i \in DOMAIN body }

(* A partial one has the parts that have been read so far.                 *)
Partial ==
    resp.status = 206 =>
        /\ req.range # None /\ CheckIfRange(req.ifRange, resp.etag, resp.modified)
        /\ DOMAIN parts.all \subseteq Nat /\ parts.todo \subseteq DOMAIN parts.all
        /\ \A i \in DOMAIN parts.all : parts.all[i] \in [start : Int, end : Int]
        /\ at = "read" <=> parts.todo # {}
        /\ ~disturbed =>
             /\ parts.all = [i \in Parts(req.range, file.size) |->
                               Normalized(req.range[i], file.size)]
             /\ Pieces(resp.body)
                = { Bytes(parts.all[i]) : i \in (DOMAIN parts.all) \ parts.todo }

Fields ==
    /\ DOMAIN resp = {"status", "length", "body", "file", "etag", "modified"}
    /\ DOMAIN parts = {"todo", "all"}

FileIInv ==
    /\ Versions /\ CopyKnown /\ AsksOfCopy /\ Seen /\ Looked /\ Confirms /\ Shape /\ Delivered
    /\ Partial /\ Fields

-----------------------------------------------------------------------------
(* Every set of numbers has a least one.                                   *)
LEMMA LeastNumber ==
    ASSUME NEW S \in SUBSET Nat, S # {}
    PROVE  \E m \in S : \A k \in S : m <= k
<1> DEFINE Less == {p \in Nat \X Nat : p[1] < p[2]}
<1>1. IsWellFoundedOn(Less, Nat)
  <2>1. OpToRel(<, Nat) = Less
    BY DEF OpToRel
  <2> QED
    BY <2>1, NatLessThanWellFounded
<1>2. PICK m \in S : \A k \in S : ~(<<k, m>> \in Less)
  BY <1>1, WFMin
<1>3. ASSUME NEW k \in S PROVE m <= k
  <2>1. k \in Nat /\ m \in Nat /\ ~(<<k, m>> \in Less)
    BY <1>2
  <2>2. ~(k < m)
    BY <2>1
  <2> QED
    BY <2>1, <2>2
<1> QED
  BY <1>3

(* A second has TicksPerSecond ticks.                                      *)
LEMMA SecondBounds ==
    ASSUME StaticFilesAssumption, NEW t \in Int
    PROVE  /\ Second(t) \in Int
           /\ Second(t) * TicksPerSecond <= t
           /\ t < Second(t) * TicksPerSecond + TicksPerSecond
  BY DEF StaticFilesAssumption, Second

(* Of two times of which the first is in an earlier second, or in the same *)
(* one, the first is less than a second later.                             *)
LEMMA EarlierSecond ==
    ASSUME StaticFilesAssumption, NEW s \in Int, NEW t \in Int, Second(s) <= Second(t)
    PROVE  s < t + TicksPerSecond
<1>1. TicksPerSecond \in Nat \ {0}
  BY DEF StaticFilesAssumption
<1>2. PICK a \in Int : a = Second(s)
  BY SecondBounds
<1>3. PICK b \in Int : b = Second(t)
  BY SecondBounds
<1>4. a * TicksPerSecond <= b * TicksPerSecond
  BY <1>1, <1>2, <1>3
<1>5. PICK x \in Int : x = a * TicksPerSecond
  BY <1>1
<1>6. PICK y \in Int : y = b * TicksPerSecond
  BY <1>1
<1>7. s < x + TicksPerSecond /\ y <= t
  BY <1>2, <1>3, <1>5, <1>6, SecondBounds
<1> QED
  BY <1>1, <1>4, <1>5, <1>6, <1>7

(* What the two readings of the clocks make of a time tells it to within a *)
(* second and two ticks.                                                   *)
LEMMA ConvertedClose ==
    ASSUME StaticFilesAssumption, NEW s \in Int, NEW t \in Int,
           NEW a \in Converted(s), NEW b \in Converted(t), a <= b
    PROVE  s < t + TicksPerSecond + 2
<1>1. TicksPerSecond \in Nat \ {0}
  BY DEF StaticFilesAssumption
<1>2. PICK i \in {s - 1, s, s + 1} : a = Second(i)
  BY DEF Converted
<1>3. PICK j \in {t - 1, t, t + 1} : b = Second(j)
  BY DEF Converted
<1>4. i < j + TicksPerSecond
  BY <1>2, <1>3, EarlierSecond
<1> QED
  BY <1>1, <1>4

(* The size of a body of one piece, and of none.                           *)
LEMMA SizeOfPiece ==
    ASSUME NEW v, NEW n \in Nat
    PROVE  Size(Cut(v, n)) = n
<1>1. CASE n = 0
  <2>1. Cut(v, n) = <<>> /\ DOMAIN <<>> = {}
    BY <1>1 DEF Cut
  <2>2. UNION { {i} \X Bytes([start |-> Cut(v, n)[i].first, end |-> Cut(v, n)[i].last])
                 : i \in DOMAIN Cut(v, n) } = {}
    BY <2>1
  <2> QED
    BY <1>1, <2>2, FS_EmptySet DEF Size
<1>2. CASE n # 0
  <2>1. /\ DOMAIN Cut(v, n) = {1} /\ Cut(v, n)[1].first = 0 /\ Cut(v, n)[1].last = n - 1
    BY <1>2 DEF Cut, Piece
  <2>2. UNION { {i} \X Bytes([start |-> Cut(v, n)[i].first, end |-> Cut(v, n)[i].last])
                 : i \in DOMAIN Cut(v, n) } = {1} \X (0 .. n - 1)
    BY <2>1 DEF Bytes
  <2>3. IsFiniteSet(0 .. n - 1) /\ Cardinality(0 .. n - 1) = n
    BY FS_Interval
  <2>4. IsFiniteSet({1}) /\ Cardinality({1}) = 1
    BY FS_Singleton
  <2>5. Cardinality({1} \X (0 .. n - 1)) = Cardinality({1}) * Cardinality(0 .. n - 1)
    BY <2>3, <2>4, FS_Product
  <2>6. 1 * n = n
    OBVIOUS
  <2> QED
    BY <2>2, <2>3, <2>4, <2>5, <2>6, Zenon DEF Size
<1> QED
  BY <1>1, <1>2

LEMMA SizeOfNothing == Size(<<>>) = 0
  BY SizeOfPiece DEF Cut

-----------------------------------------------------------------------------
(* What an action leaves alone.                                            *)
LEMMA KeepsVersions ==
    ASSUME Versions, UNCHANGED fileVars
    PROVE  Versions'
  BY DEF Versions, fileVars

LEMMA KeepsCopy ==
    ASSUME CopyKnown, UNCHANGED <<options, versions, copy>>
    PROVE  CopyKnown'
  BY DEF CopyKnown, generate_etag, LastModified

LEMMA KeepsConditions ==
    ASSUME AsksOfCopy, UNCHANGED <<req, copy>>
    PROVE  AsksOfCopy'
  BY DEF AsksOfCopy

LEMMA KeepsPartial ==
    ASSUME Partial, resp'.status # 206 \/ UNCHANGED <<file, req, at, parts, resp, disturbed>>
    PROVE  Partial'
  BY DEF Partial

LEMMA KeepsFields ==
    ASSUME Fields, UNCHANGED parts,
           \/ UNCHANGED resp \/ resp' = NoResponse \/ resp' = NotFound
           \/ \E f, l : resp' = [resp EXCEPT !.body = f, !.length = l]
           \/ \E f : resp' = [resp EXCEPT !.body = f]
    PROVE  Fields'
  BY DEF Fields, NoResponse, NotFound

LEMMA FileInitInv ==
    ASSUME StaticFilesAssumption, Init
    PROVE  FileIInv
<1>1. /\ at = "idle" /\ copy = None /\ req = NoRequest /\ size = 0 /\ mtime = 0
      /\ parts = NoParts /\ resp = NoResponse /\ resp.status = 0
  BY DEF Init, NoResponse
<1>2. Versions
  <2>1. PICK s \in Sizes : file = [id |-> 1, size |-> s, mtime |-> TicksPerSecond]
    BY DEF Init
  <2>2. /\ versions = {file} /\ clock = TicksPerSecond
        /\ TicksPerSecond \in Nat /\ s \in Nat
    BY <2>1 DEF Init, StaticFilesAssumption
  <2>3. IsFiniteSet({file}) /\ Cardinality({file}) = 1
    BY FS_Singleton
  <2>4. file.id = 1 /\ file.size \in Nat /\ file.mtime \in Nat
    BY <2>1, <2>2
  <2> QED
    BY <2>2, <2>3, <2>4 DEF Versions
<1>3. CopyKnown /\ AsksOfCopy
  BY <1>1 DEF CopyKnown, AsksOfCopy, NoRequest
<1>4. Seen /\ Looked /\ Confirms /\ Delivered
  BY <1>1 DEF Seen, Looked, Confirms, Delivered, Looking, Answering
<1>5. Shape
  BY <1>1 DEF Shape, FramingKept
<1>6. Partial
  BY <1>1 DEF Partial
<1>7. Fields
  BY <1>1 DEF Fields, NoResponse, NoParts
<1> QED
  BY <1>2, <1>3, <1>4, <1>5, <1>6, <1>7 DEF FileIInv

LEMMA TickInv ==
    ASSUME StaticFilesAssumption, FileIInv, Tick
    PROVE  FileIInv'
<1>1. /\ clock' = clock + 1
      /\ UNCHANGED <<options, versions, file, copy, disturbed, req, at, size, mtime, parts, resp>>
  BY DEF Tick, serverVars
<1>2. Versions'
  BY <1>1 DEF FileIInv, Versions
<1>3. CopyKnown' /\ AsksOfCopy' /\ Partial' /\ Fields'
  BY <1>1, KeepsCopy, KeepsConditions, KeepsPartial, KeepsFields DEF FileIInv
<1>4. Seen' /\ Delivered' /\ Confirms'
  BY <1>1 DEF FileIInv, Seen, Delivered, Confirms, Looking, Answering
<1>5. Looked'
  BY <1>1 DEF FileIInv, Looked, Looking, Answering, generate_etag, LastModified
<1>6. Shape'
  BY <1>1 DEF FileIInv, Shape, FramingKept, Announced
<1> QED
  BY <1>2, <1>3, <1>4, <1>5, <1>6 DEF FileIInv

(* A change of the file disturbs the response under way.                   *)
LEMMA Disturbs ==
    ASSUME FileIInv, Replace \/ Remove
    PROVE  /\ UNCHANGED <<options, copy, req, at, size, mtime, parts, resp>>
           /\ at # "idle" => disturbed'
           /\ Looked' /\ Shape' /\ AsksOfCopy' /\ Seen' /\ Delivered' /\ Partial' /\ Fields'
<1>1. UNCHANGED <<options, copy, req, at, size, mtime, parts, resp>>
  BY DEF Replace, Remove, serverVars
<1>2. at # "idle" => disturbed'
  BY Zenon DEF Replace, Remove
<1>3. Looked'
  BY <1>1 DEF FileIInv, Looked, Looking, Answering, generate_etag, LastModified
<1>4. at = "idle" => resp.status = 0
  BY DEF FileIInv, Shape, NoResponse
<1>5. Seen' /\ Delivered' /\ AsksOfCopy' /\ Fields'
  BY <1>1, <1>2, KeepsConditions, KeepsFields DEF FileIInv, Seen, Delivered, Looking, Answering
<1>6. Partial'
  BY <1>1, <1>2, <1>4 DEF FileIInv, Partial
<1>7. Shape'
  <2>1. FramingKept'
    BY <1>1, <1>2 DEF FileIInv, Shape, FramingKept, Announced
  <2> QED
    BY <1>1, <2>1 DEF FileIInv, Shape, Announced
<1> QED
  BY <1>1, <1>2, <1>3, <1>5, <1>6, <1>7

LEMMA ReplaceInv ==
    ASSUME StaticFilesAssumption, FileIInv, Replace
    PROVE  FileIInv'
<1>1. /\ UNCHANGED <<options, copy, req, at, size, mtime, parts, resp>>
      /\ Looked' /\ Shape' /\ AsksOfCopy' /\ Seen' /\ Delivered' /\ Partial' /\ Fields'
  BY Disturbs
<1>2. PICK s \in Sizes, t \in 1 .. clock :
          /\ \A v \in versions : v.mtime # t
          /\ file' = [id |-> Cardinality(versions) + 1, size |-> s, mtime |-> t]
  BY DEF Replace
<1>3. versions' = versions \cup {file'} /\ clock' = clock
  BY DEF Replace
<1>4. PICK n \in Nat : n = Cardinality(versions)
  BY FS_CardinalityType DEF FileIInv, Versions
<1>5. /\ file'.id = n + 1 /\ file'.size \in Nat /\ file'.mtime = t /\ t \in Nat
  BY <1>2, <1>4 DEF FileIInv, Versions, StaticFilesAssumption
<1>6. \A v \in versions : v.id \in 1 .. n /\ v.size \in Nat /\ v.mtime \in Nat
  BY <1>4 DEF FileIInv, Versions
<1>7. file' \notin versions
  BY <1>5, <1>6
<1>8. IsFiniteSet(versions') /\ Cardinality(versions') = n + 1
  BY <1>3, <1>4, <1>7, FS_AddElement DEF FileIInv, Versions
<1>9. Versions'
  <2>1. \A v \in versions' : v.id \in 1 .. n + 1 /\ v.size \in Nat /\ v.mtime \in Nat
    BY <1>3, <1>5, <1>6
  <2>2. \A v \in versions : v.id # file'.id /\ v.mtime # file'.mtime
    BY <1>2, <1>5, <1>6
  <2>3. \A v, w \in versions' : v.id = w.id \/ v.mtime = w.mtime => v = w
    BY <1>3, <2>2 DEF FileIInv, Versions
  <2> QED
    BY <1>3, <1>8, <2>1, <2>3 DEF FileIInv, Versions
<1>10. CopyKnown'
  BY <1>1, <1>3 DEF FileIInv, CopyKnown, generate_etag, LastModified
<1>11. Confirms'
  BY <1>1, <1>3, <1>5, <1>6 DEF FileIInv, Confirms, CopyKnown, Answering
<1> QED
  BY <1>1, <1>9, <1>10, <1>11 DEF FileIInv

LEMMA RemoveInv ==
    ASSUME StaticFilesAssumption, FileIInv, Remove
    PROVE  FileIInv'
<1>1. /\ UNCHANGED <<options, copy, req, at, size, mtime, parts, resp>>
      /\ Looked' /\ Shape' /\ AsksOfCopy' /\ Seen' /\ Delivered' /\ Partial' /\ Fields'
  BY Disturbs
<1>2. /\ file' = None /\ UNCHANGED <<versions, clock>>
  BY DEF Remove
<1>3. Versions'
  BY <1>2 DEF FileIInv, Versions
<1>4. CopyKnown' /\ Confirms'
  BY <1>1, <1>2, KeepsCopy DEF FileIInv, Confirms, Answering
<1> QED
  BY <1>1, <1>3, <1>4 DEF FileIInv

-----------------------------------------------------------------------------
LEMMA RequestInv ==
    ASSUME StaticFilesAssumption, FileIInv, Request
    PROVE  FileIInv'
<1>1. /\ at = "idle" /\ at' = "serve" /\ req' \in FileRequests
      /\ UNCHANGED <<options, clock, versions, file, copy, size, mtime, parts, resp, disturbed>>
  BY DEF Request, fileVars
<1>2. resp = NoResponse /\ parts = NoParts /\ resp.status = 0
  BY <1>1 DEF FileIInv, Shape, NoResponse
<1>3. Versions' /\ CopyKnown' /\ Partial' /\ Fields'
  BY <1>1, <1>2, KeepsVersions, KeepsCopy, KeepsPartial, KeepsFields DEF FileIInv, fileVars
<1>4. AsksOfCopy'
  <2>1. CASE \E m, t : req' = Plain(m, t)
    BY <1>1, <2>1 DEF AsksOfCopy, Plain, NoRequest
  <2>2. CASE req' = NoRequest
    BY <1>1, <2>2 DEF AsksOfCopy, NoRequest
  <2>3. CASE copy # None /\ \E n \in {None, copy.etag}, m \in {None, copy.modified} :
               req' = [NoRequest EXCEPT !.ifNoneMatch = n, !.ifModifiedSince = m]
    BY <1>1, <2>3 DEF AsksOfCopy, NoRequest
  <2>4. CASE req' \in [method : {"GET", "HEAD"}, target : {"file"}, ifNoneMatch : {None},
                      ifModifiedSince : {None}, range : Specs \cup {None}, ifRange : IfRanges]
    <3>1. /\ req'.range \in Specs \cup {None} /\ req'.ifNoneMatch = None
          /\ req'.ifModifiedSince = None /\ req'.ifRange \in IfRanges
      BY <2>4
    <3>2. \A f \in IfRanges : f.kind # "none" =>
            /\ copy # None
            /\ \/ f.kind = "etag" /\ f.etag = copy.etag /\ copy.etag # None
               \/ f.kind = "date" /\ f.date = copy.modified /\ copy.modified # None
      BY DEF IfRanges, NoRequest
    <3> QED
      BY <1>1, <3>1, <3>2 DEF AsksOfCopy
  <2>5. \/ req' \in { Plain("POST", "file"), Plain("GET", "directory"), Plain("GET", "refused") }
        \/ req' = NoRequest
        \/ copy # None /\ \E n \in {None, copy.etag}, m \in {None, copy.modified} :
             req' = [NoRequest EXCEPT !.ifNoneMatch = n, !.ifModifiedSince = m]
        \/ req' \in [method : {"GET", "HEAD"}, target : {"file"}, ifNoneMatch : {None},
                     ifModifiedSince : {None}, range : Specs \cup {None}, ifRange : IfRanges]
    BY <1>1 DEF FileRequests
  <2> QED
    BY <2>1, <2>2, <2>3, <2>4, <2>5
<1>5. Seen' /\ Looked' /\ Confirms' /\ Delivered'
  BY <1>1, <1>2 DEF FileIInv, Seen, Looked, Confirms, Delivered, Looking, Answering
<1>6. Shape'
  BY <1>1, <1>2 DEF Shape, FramingKept
<1> QED
  BY <1>3, <1>4, <1>5, <1>6 DEF FileIInv

LEMMA ReceiveInv ==
    ASSUME StaticFilesAssumption, FileIInv, Receive
    PROVE  FileIInv'
<1>1. /\ at = "sent" /\ at' = "idle" /\ req' = NoRequest /\ resp' = NoResponse
      /\ size' = 0 /\ mtime' = 0 /\ parts' = NoParts
      /\ UNCHANGED <<options, clock, versions, file>>
  BY DEF Receive, fileVars
<1>2. resp'.status = 0
  BY <1>1 DEF NoResponse
<1>3. Versions' /\ Partial' /\ Fields'
  BY <1>1, <1>2, KeepsVersions, KeepsPartial DEF FileIInv, fileVars, Fields, NoResponse, NoParts
<1>4. AsksOfCopy'
  BY <1>1 DEF AsksOfCopy, NoRequest
<1>5. CopyKnown'
  <2>1. CASE copy' = copy
    BY <1>1, <2>1, KeepsCopy DEF FileIInv
  <2>2. ASSUME copy' = [etag |-> resp.etag, modified |-> resp.modified, body |-> resp.body,
                        disturbed |-> disturbed],
               resp.status = 200
        PROVE  CopyKnown'
    <3>1. SUFFICES ASSUME ~disturbed, resp.body # <<>>
                   PROVE  \E v \in versions :
                            /\ resp.body[1].version = v.id
                            /\ resp.etag = generate_etag(v.size, v.mtime)
                            /\ resp.modified \in LastModified(v.mtime)
      BY <1>1, <2>2 DEF CopyKnown, generate_etag, LastModified
    <3>2. /\ file # None /\ size = file.size /\ mtime = file.mtime
          /\ resp.etag = generate_etag(size, mtime) /\ resp.modified \in LastModified(mtime)
      BY <1>1, <2>2, <3>1 DEF FileIInv, Seen, Looked, Looking, Answering
    <3>3. file \in versions
      BY <3>2 DEF FileIInv, Versions
    <3>4. resp.body = Cut(file.id, file.size)
      BY <1>1, <2>2, <3>1 DEF FileIInv, Delivered, Answering
    <3>5. resp.body[1].version = file.id
      BY <3>1, <3>4 DEF Cut, Piece
    <3> QED
      BY <3>2, <3>3, <3>5
  <2> QED
    BY <2>1, <2>2 DEF Receive
<1>6. Seen' /\ Looked' /\ Confirms' /\ Delivered'
  BY <1>1, <1>2 DEF Seen, Looked, Confirms, Delivered, Looking, Answering
<1>7. Shape'
  BY <1>1, <1>2 DEF Shape, FramingKept
<1> QED
  BY <1>3, <1>4, <1>5, <1>6, <1>7 DEF FileIInv

-----------------------------------------------------------------------------
(* A response that is made out of the file's reach.                        *)
LEMMA Answers ==
    /\ NotFound.status = 404 /\ NotFound.length = 1 /\ ~NotFound.file
    /\ Size(NotFound.body) = 1
<1>1. /\ NotFound.status = 404 /\ NotFound.length = 1 /\ ~NotFound.file
      /\ NotFound.body = <<Piece(0, 0, 0)>>
  BY DEF NotFound, NoResponse
<1>2. NotFound.body = Cut(0, 1)
  BY <1>1 DEF Cut
<1> QED
  BY <1>1, <1>2, SizeOfPiece

LEMMA NotFoundInv ==
    ASSUME FileIInv, Respond(NotFound), UNCHANGED <<options, fileVars, copy, req, parts, disturbed>>,
           size' \in Nat, mtime' \in Nat
    PROVE  FileIInv'
<1>1. /\ at' = "send" /\ resp'.status = 404 /\ resp'.length = 1 /\ ~resp'.file
      /\ Size(resp'.body) = 1
  BY Answers DEF Respond
<1>2. /\ Versions' /\ CopyKnown' /\ AsksOfCopy' /\ Partial' /\ Fields'
  BY <1>1, KeepsVersions, KeepsCopy, KeepsConditions, KeepsPartial, KeepsFields
     DEF FileIInv, fileVars, Respond
<1>3. Seen' /\ Looked' /\ Confirms' /\ Delivered'
  BY <1>1 DEF Seen, Looked, Confirms, Delivered, Looking, Answering
<1>4. Shape'
  BY <1>1 DEF Shape, FramingKept, Announced
<1> QED
  BY <1>2, <1>3, <1>4 DEF FileIInv

(* As long as nothing has been answered only what has been read matters.   *)
LEMMA GoesOnInv ==
    ASSUME FileIInv, at \in {"serve", "size", "mtime"}, at' \in {"size", "mtime", "decide"}, Seen',
           UNCHANGED <<options, fileVars, copy, req, parts, resp, disturbed>>
    PROVE  FileIInv'
<1>1. resp = NoResponse /\ parts = NoParts /\ resp.status = 0
  BY DEF FileIInv, Shape, NoResponse
<1>2. /\ Versions' /\ CopyKnown' /\ AsksOfCopy' /\ Partial' /\ Fields'
  BY <1>1, KeepsVersions, KeepsCopy, KeepsConditions, KeepsPartial, KeepsFields
     DEF FileIInv, fileVars, Respond
<1>3. Looked' /\ Confirms' /\ Delivered'
  BY DEF Looked, Confirms, Delivered, Looking, Answering
<1>4. Shape'
  BY <1>1 DEF Shape, FramingKept
<1> QED
  BY <1>2, <1>3, <1>4 DEF FileIInv

LEMMA ServeInv ==
    ASSUME StaticFilesAssumption, FileIInv, serve
    PROVE  FileIInv'
<1>1. /\ at = "serve"
      /\ UNCHANGED <<options, fileVars, copy, req, size, mtime, parts, disturbed>>
      /\ size \in Nat /\ mtime \in Nat
  BY DEF serve, FileIInv, Seen
<1>2. CASE Respond(NotFound)
  BY <1>1, <1>2, NotFoundInv
<1>3. CASE at' = "size" /\ UNCHANGED resp
  <2>1. Seen'
    BY <1>1, <1>3 DEF Seen, Looking, Answering
  <2> QED
    BY <1>1, <1>3, <2>1, GoesOnInv
<1> QED
  BY <1>2, <1>3 DEF serve

LEMMA FileSizeInv ==
    ASSUME StaticFilesAssumption, FileIInv, file_size
    PROVE  FileIInv'
<1>1. /\ at = "size"
      /\ UNCHANGED <<options, fileVars, copy, req, mtime, parts, disturbed>>
      /\ size \in Nat /\ mtime \in Nat
  BY DEF file_size, FileIInv, Seen
<1>2. CASE Respond(NotFound) /\ UNCHANGED size
  BY <1>1, <1>2, NotFoundInv
<1>3. CASE file # None /\ size' = file.size /\ at' = "mtime" /\ UNCHANGED resp
  <2>1. size' \in Nat
    BY <1>3 DEF FileIInv, Versions
  <2>2. Seen'
    BY <1>1, <1>3, <2>1 DEF Seen, Looking, Answering, fileVars
  <2> QED
    BY <1>1, <1>3, <2>2, GoesOnInv
<1> QED
  BY <1>2, <1>3 DEF file_size

LEMMA LastWriteTimeInv ==
    ASSUME StaticFilesAssumption, FileIInv, last_write_time
    PROVE  FileIInv'
<1>1. /\ at = "mtime"
      /\ UNCHANGED <<options, fileVars, copy, req, size, parts, disturbed>>
      /\ size \in Nat /\ mtime \in Nat
  BY DEF last_write_time, FileIInv, Seen
<1>2. CASE Respond(NotFound) /\ UNCHANGED mtime
  BY <1>1, <1>2, NotFoundInv
<1>3. CASE file # None /\ mtime' = file.mtime /\ at' = "decide" /\ UNCHANGED resp
  <2>1. mtime' \in Nat
    BY <1>3 DEF FileIInv, Versions
  <2>2. Seen'
    BY <1>1, <1>3, <2>1 DEF FileIInv, Seen, Looking, Answering, fileVars
  <2> QED
    BY <1>1, <1>3, <2>2, GoesOnInv
<1> QED
  BY <1>2, <1>3 DEF last_write_time

-----------------------------------------------------------------------------
(* A condition that holds is about the client's version, or by date about  *)
(* one written at most a second and two ticks later.                       *)
LEMMA ConditionHolds ==
    ASSUME StaticFilesAssumption, Versions, CopyKnown, AsksOfCopy, mtime \in Nat,
           NEW s \in Converted(mtime), check_not_modified(s),
           ~copy.disturbed, copy.body # <<>>,
           NEW v \in versions, v.id = copy.body[1].version
    PROVE  mtime < v.mtime + TicksPerSecond + 2
<1>1. copy # None
  BY DEF AsksOfCopy, check_not_modified
<1>2. PICK w \in versions :
         /\ copy.body[1].version = w.id
         /\ copy.etag = generate_etag(w.size, w.mtime)
         /\ copy.modified \in LastModified(w.mtime)
  BY <1>1 DEF CopyKnown
<1>3. w = v /\ v.mtime \in Nat /\ TicksPerSecond \in Nat
  BY <1>2 DEF Versions, StaticFilesAssumption
<1>4. CASE /\ req.ifNoneMatch # None /\ "etag" \in options
           /\ req.ifNoneMatch = generate_etag(size, mtime)
  <2>1. [size |-> size, mtime |-> mtime] = [size |-> v.size, mtime |-> v.mtime]
    BY <1>2, <1>3, <1>4 DEF AsksOfCopy, generate_etag
  <2>2. mtime = v.mtime
    BY <2>1
  <2> QED
    BY <1>3, <2>2
<1>5. CASE /\ req.ifModifiedSince # None /\ "last_modified" \in options
           /\ s <= req.ifModifiedSince
  <2>1. req.ifModifiedSince \in Converted(v.mtime)
    BY <1>2, <1>3, <1>5 DEF AsksOfCopy, LastModified
  <2>2. mtime \in Int /\ v.mtime \in Int
    BY <1>3
  <2> QED
    BY <1>5, <2>1, <2>2, ConvertedClose
<1> QED
  BY <1>4, <1>5 DEF check_not_modified

LEMMA ServeFileInv ==
    ASSUME StaticFilesAssumption, FileIInv, serve_file
    PROVE  FileIInv'
<1>0. /\ Versions /\ CopyKnown /\ AsksOfCopy /\ Seen /\ Shape
      /\ at = "decide" /\ size \in Nat /\ mtime \in Nat
  BY DEF FileIInv, Seen, serve_file
<1>1. UNCHANGED <<options, fileVars, copy, req, size, mtime, parts, disturbed>>
  BY DEF serve_file
<1>2. PICK s \in Converted(mtime), modified \in LastModified(mtime) :
         LET with == [NoResponse EXCEPT !.etag = generate_etag(size, mtime), !.modified = modified]
         IN IF check_not_modified(s) THEN Respond([with EXCEPT !.status = 304])
            ELSE IF req.range # None /\ "range_requests" \in options THEN resp' = with /\ at' = "build"
            ELSE Respond([with EXCEPT !.status = 200, !.length = size,
                                      !.file = req.method # "HEAD"])
  BY DEF serve_file
<1> DEFINE with == [NoResponse EXCEPT !.etag = generate_etag(size, mtime), !.modified = modified]
<1>3. \/ /\ check_not_modified(s)
         /\ resp' = [with EXCEPT !.status = 304] /\ at' = "send"
      \/ /\ req.range # None
         /\ resp' = with /\ at' = "build"
      \/ /\ resp' = [with EXCEPT !.status = 200, !.length = size, !.file = req.method # "HEAD"]
         /\ at' = "send"
  BY <1>2, Zenon DEF Respond
<1>4. \/ /\ check_not_modified(s)
         /\ at' = "send" /\ resp'.status = 304 /\ ~resp'.file
      \/ /\ req.range # None
         /\ at' = "build" /\ resp'.status = 0 /\ ~resp'.file /\ resp'.length = 0
      \/ /\ at' = "send" /\ resp'.status = 200 /\ resp'.length = size
         /\ resp'.file <=> req.method # "HEAD"
  <2>1. ASSUME resp' = [with EXCEPT !.status = 304]
        PROVE  resp'.status = 304 /\ resp'.file = FALSE
    BY <2>1, Zenon DEF NoResponse
  <2>2. ASSUME resp' = with
        PROVE  resp'.status = 0 /\ resp'.file = FALSE /\ resp'.length = 0
    BY <2>2, Zenon DEF NoResponse
  <2>3. ASSUME resp' = [with EXCEPT !.status = 200, !.length = size, !.file = req.method # "HEAD"]
        PROVE  resp'.status = 200 /\ resp'.length = size /\ (resp'.file <=> req.method # "HEAD")
    BY <2>3, Zenon DEF NoResponse
  <2> HIDE DEF with
  <2>4. CASE check_not_modified(s) /\ resp' = [with EXCEPT !.status = 304] /\ at' = "send"
    BY <2>1, <2>4, Zenon
  <2>5. CASE req.range # None /\ resp' = with /\ at' = "build"
    BY <2>2, <2>5, Zenon
  <2>6. CASE /\ resp' = [with EXCEPT !.status = 200, !.length = size,
                                    !.file = req.method # "HEAD"]
             /\ at' = "send"
    BY <2>3, <2>6, Zenon
  <2> QED
    BY <1>3, <2>4, <2>5, <2>6, Zenon
<1>5. /\ resp'.body = <<>>
      /\ resp'.etag = generate_etag(size, mtime) /\ resp'.modified = modified
  <2>1. CASE resp' = [with EXCEPT !.status = 304]
    BY <2>1, Zenon DEF NoResponse
  <2>2. CASE resp' = with
    BY <2>2, Zenon DEF NoResponse
  <2>3. CASE resp' = [with EXCEPT !.status = 200, !.length = size, !.file = req.method # "HEAD"]
    BY <2>3, Zenon DEF NoResponse
  <2> HIDE DEF with
  <2> QED
    BY <1>3, <2>1, <2>2, <2>3, Zenon
<1>6. Versions' /\ CopyKnown' /\ AsksOfCopy' /\ Partial' /\ Fields'
  <2>1. Fields'
    BY <1>1, <1>3 DEF FileIInv, Fields, NoResponse
  <2> QED
    BY <1>0, <1>1, <1>4, <2>1, KeepsVersions, KeepsCopy, KeepsConditions, KeepsPartial
       DEF FileIInv, fileVars
<1>7. Seen' /\ Delivered'
  BY <1>0, <1>1, <1>5 DEF Seen, Delivered, fileVars
<1>8. Looked'
  BY <1>1, <1>5 DEF Looked, generate_etag, LastModified
<1>9. Confirms'
  <2>1. SUFFICES ASSUME resp'.status = 304
                 PROVE  /\ copy # None
                        /\ ~copy.disturbed /\ copy.body # <<>> =>
                             \A v \in versions :
                               v.id = copy.body[1].version =>
                                   mtime < v.mtime + TicksPerSecond + 2
    BY <1>1 DEF Confirms, fileVars
  <2>2. check_not_modified(s)
    BY <1>4, <2>1
  <2>3. copy # None
    BY <1>0, <2>2 DEF AsksOfCopy, check_not_modified
  <2> QED
    BY <1>0, <2>2, <2>3, ConditionHolds
<1>10. Shape'
  BY <1>1, <1>4, <1>5, SizeOfNothing DEF Shape, FramingKept, Announced
<1> QED
  BY <1>6, <1>7, <1>8, <1>9, <1>10 DEF FileIInv

-----------------------------------------------------------------------------
LEMMA AsyncWriteAllInv ==
    ASSUME StaticFilesAssumption, FileIInv, async_write_all
    PROVE  FileIInv'
<1>1. /\ at = "send" /\ at' = "sent"
      /\ UNCHANGED <<options, fileVars, copy, req, size, mtime, parts, resp, disturbed>>
      /\ resp.file => req.method = "HEAD"
  BY DEF async_write_all, ZeroCopy
<1>2. ~resp.file
  BY <1>1 DEF FileIInv, Shape
<1>3. Versions' /\ CopyKnown' /\ AsksOfCopy' /\ Fields'
  BY <1>1, KeepsVersions, KeepsCopy, KeepsConditions, KeepsFields DEF FileIInv, fileVars
<1>4. Seen' /\ Looked' /\ Confirms' /\ Delivered'
  BY <1>1, <1>2 DEF FileIInv, Seen, Looked, Confirms, Delivered, Looking, Answering, fileVars,
     generate_etag, LastModified
<1>5. Shape'
  BY <1>1, <1>2 DEF FileIInv, Shape, FramingKept, Announced
<1>6. Partial'
  BY <1>1 DEF FileIInv, Partial, fileVars
<1> QED
  BY <1>3, <1>4, <1>5, <1>6 DEF FileIInv

LEMMA SendFileInv ==
    ASSUME StaticFilesAssumption, FileIInv, send_file_zero_copy
    PROVE  FileIInv'
<1>1. /\ at = "send" /\ resp.file /\ req.method # "HEAD"
      /\ UNCHANGED <<options, fileVars, copy, req, size, mtime, parts, disturbed>>
      /\ resp.status = 200 /\ resp.length = size /\ size \in Nat
  BY DEF send_file_zero_copy, ZeroCopy, FileIInv, Shape, Seen
<1>2. Versions' /\ CopyKnown' /\ AsksOfCopy'
  BY <1>1, KeepsVersions, KeepsCopy, KeepsConditions DEF FileIInv, fileVars
<1>3. CASE file = None /\ at' = "closed" /\ UNCHANGED resp
  <2>1. Seen' /\ Looked' /\ Confirms' /\ Delivered' /\ Fields'
    BY <1>1, <1>3, KeepsFields DEF FileIInv, Seen, Looked, Confirms, Delivered, Looking, Answering
  <2>2. Shape' /\ Partial'
    BY <1>1, <1>3 DEF Shape, FramingKept, Partial
  <2> QED
    BY <1>2, <2>1, <2>2 DEF FileIInv
<1>4. CASE file # None /\ resp' = [resp EXCEPT !.body = Transmitted] /\ at' = "sent"
  <2>1. /\ resp'.body = Transmitted /\ resp'.status = 200 /\ resp'.length = size
        /\ resp'.file /\ resp'.etag = resp.etag /\ resp'.modified = resp.modified
    BY <1>1, <1>4 DEF FileIInv, Fields
  <2>2. file.size \in Nat
    BY <1>4 DEF FileIInv, Versions
  <2>3. PICK n \in Nat :
          /\ Transmitted = Cut(file.id, n)
          /\ size # 0 => n <= size /\ (n < size => n = file.size)
          /\ size = 0 \/ size = file.size => n = file.size
    BY <1>1, <2>2 DEF Transmitted
  <2>4. Size(resp'.body) = n
    BY <2>1, <2>3, SizeOfPiece
  <2>5. ~disturbed => size = file.size
    BY <1>1 DEF FileIInv, Seen, Looking, Answering
  <2>6. Seen' /\ Looked' /\ Confirms'
    BY <1>1, <1>4, <2>1 DEF FileIInv, Seen, Looked, Confirms, Looking, Answering, fileVars,
       generate_etag, LastModified
  <2>7. Delivered'
    BY <1>1, <2>1, <2>3, <2>5 DEF Delivered, fileVars
  <2>8. Shape'
    <3>1. \/ Size(resp'.body) = size
          \/ disturbed /\ (Size(resp'.body) < size \/ size = 0)
      BY <1>1, <2>2, <2>3, <2>4, <2>5
    <3>2. Announced' = size
      BY <1>1, <2>1 DEF Announced
    <3>3. FramingKept'
      BY <1>1, <2>1, <3>1, <3>2 DEF FramingKept
    <3> QED
      BY <1>4, <3>3 DEF Shape
  <2>9. Partial'
    BY <2>1 DEF Partial
  <2>10. Fields'
    BY <1>1, <1>4, KeepsFields, Zenon DEF FileIInv
  <2> QED
    BY <1>2, <2>6, <2>7, <2>8, <2>9, <2>10 DEF FileIInv
<1> QED
  BY <1>3, <1>4 DEF send_file_zero_copy

-----------------------------------------------------------------------------
(* The parts of a Range header are what its valid ranges request.          *)
PartBytes(specs, total) == { Bytes(Normalized(specs[i], total)) : i \in Parts(specs, total) }
AskedBytes(specs, total) ==
    { Requested(specs[i], total) : i \in { k \in WellFormed(specs) : Valid(specs[k]) } } \ {{}}

LEMMA PartsAreRequested ==
    ASSUME NEW specs \in Seq(ByteRange), NEW total \in Int
    PROVE  PartBytes(specs, total) = AskedBytes(specs, total)
<1>1. \A i \in DOMAIN specs : specs[i] \in ByteRange
  OBVIOUS
<1>2. \A i \in DOMAIN specs :
         /\ Satisfiable(specs[i], total) <=> Valid(specs[i]) /\ Requested(specs[i], total) # {}
         /\ Satisfiable(specs[i], total) =>
              Bytes(Normalized(specs[i], total)) = Requested(specs[i], total)
  BY <1>1, SatisfiableIsReachable, NormalizedIsRequested
<1>3. \A i \in WellFormed(specs) : i \in DOMAIN specs
  BY DEF WellFormed
<1> QED
  BY <1>2, <1>3 DEF Parts, PartBytes, AskedBytes

LEMMA BuildInv ==
    ASSUME StaticFilesAssumption, FileIInv, build
    PROVE  FileIInv'
<1>1. /\ at = "build" /\ ~resp.file /\ resp.body = <<>> /\ resp.length = 0 /\ req.range # None
      /\ UNCHANGED <<options, fileVars, copy, req, size, mtime, disturbed>>
      /\ size \in Nat /\ mtime \in Nat /\ resp.status = 0
  BY DEF build, FileIInv, Shape, Seen
<1>2. CASE file = None
  BY <1>1, <1>2, NotFoundInv DEF build
<1> DEFINE status == Status("bytes", req.range,
                            CheckIfRange(req.ifRange, resp.etag, resp.modified), file.size)
           all == [i \in Parts(req.range, file.size) |-> Normalized(req.range[i], file.size)]
<1>3. CASE file # None
  <2>1. /\ parts' = [todo |-> IF status = 206 THEN DOMAIN all ELSE {}, all |-> all]
        /\ IF status = 416
           THEN Respond([NoResponse EXCEPT !.status = 416])
           ELSE resp' = [resp EXCEPT !.status = status] /\ at' = "read"
    BY <1>3 DEF build
  <2>2. Versions' /\ CopyKnown' /\ AsksOfCopy'
    BY <1>1, KeepsVersions, KeepsCopy, KeepsConditions DEF FileIInv, fileVars
  <2>3. status \in {200, 206, 416}
    BY DEF Status
  <2>4. CASE status = 416
    <3>1. /\ at' = "send" /\ resp' = [NoResponse EXCEPT !.status = 416]
      BY <2>1, <2>4, Zenon DEF Respond
    <3>2. /\ resp'.status = 416 /\ ~resp'.file /\ resp'.length = 0 /\ resp'.body = <<>>
      BY <3>1 DEF NoResponse
    <3>3. Seen' /\ Looked' /\ Confirms' /\ Delivered' /\ Partial'
      BY <1>1, <3>1, <3>2 DEF Seen, Looked, Confirms, Delivered, Partial, Looking, Answering
    <3>4. Shape'
      BY <3>1, <3>2, SizeOfNothing DEF Shape, FramingKept, Announced
    <3>5. Fields'
      BY <2>1, <3>1 DEF Fields, NoResponse
    <3> QED
      BY <2>2, <3>3, <3>4, <3>5 DEF FileIInv
  <2>5. CASE status # 416
    <3>1. at' = "read" /\ resp' = [resp EXCEPT !.status = status]
      BY <2>1, <2>5
    <3>2. /\ resp'.status = status /\ ~resp'.file /\ resp'.length = 0 /\ resp'.body = <<>>
          /\ resp'.etag = resp.etag /\ resp'.modified = resp.modified
      BY <1>1, <3>1 DEF FileIInv, Fields
    <3>3. Seen' /\ Looked' /\ Confirms' /\ Delivered'
      BY <1>1, <3>1, <3>2 DEF FileIInv, Seen, Looked, Confirms, Delivered, Looking, Answering, fileVars,
         generate_etag, LastModified
    <3>4. Shape'
      <4>1. resp'.status \in {200, 206} /\ req'.range # None
        BY <1>1, <2>3, <2>5, <3>2
      <4>2. resp'.body \in Seq(AnyPiece)
        BY <3>2
      <4>3. FramingKept'
        BY <3>1 DEF FramingKept
      <4> QED
        BY <3>1, <3>2, <4>1, <4>2, <4>3, Zenon DEF Shape
    <3>5. Fields'
      BY <2>1, <3>1 DEF FileIInv, Fields
    <3>6. Partial'
      <4>1. SUFFICES ASSUME status = 206 PROVE Partial'
        BY <3>2 DEF Partial
      <4>2. CheckIfRange(req.ifRange, resp.etag, resp.modified) /\ Parts(req.range, file.size) # {}
        BY <4>1 DEF Status
      <4>3. parts'.all = all /\ parts'.todo = DOMAIN all
        BY <2>1, <4>1
      <4>4. req.range \in Seq(ByteRange) /\ file.size \in Int
        BY <1>1, <1>3 DEF FileIInv, AsksOfCopy, StaticFilesAssumption, Versions
      <4>5. \A i \in Parts(req.range, file.size) :
              /\ i \in Nat /\ req.range[i] \in ByteRange
              /\ Satisfiable(req.range[i], file.size)
        BY <4>4 DEF Parts, WellFormed
      <4>6. \A i \in Parts(req.range, file.size) :
              Normalized(req.range[i], file.size) \in [start : Int, end : Int]
        <5> SUFFICES ASSUME NEW i \in Parts(req.range, file.size)
                     PROVE  Normalized(req.range[i], file.size) \in [start : Int, end : Int]
          OBVIOUS
        <5>1. /\ Normalized(req.range[i], file.size).start \in Int
              /\ Normalized(req.range[i], file.size).end \in Int
          BY <4>4, <4>5, NormalizedInside
        <5>2. \E a, b : Normalized(req.range[i], file.size) = [start |-> a, end |-> b]
          BY DEF Normalized
        <5> QED
          BY <5>1, <5>2
      <4>7. Pieces(resp'.body) = {}
        BY <3>2 DEF Pieces
      <4>8. { Bytes(parts'.all[i]) : i \in (DOMAIN parts'.all) \ parts'.todo } = {}
        BY <4>3
      <4> QED
        BY <1>1, <3>1, <3>2, <4>2, <4>3, <4>5, <4>6, <4>7, <4>8 DEF Partial, fileVars
    <3> QED
      BY <2>2, <3>3, <3>4, <3>5, <3>6 DEF FileIInv
  <2> QED
    BY <2>4, <2>5
<1> QED
  BY <1>2, <1>3

LEMMA BuildFullInv ==
    ASSUME StaticFilesAssumption, FileIInv, build_full
    PROVE  FileIInv'
<1> DEFINE body == IF file = None THEN <<>> ELSE Cut(file.id, file.size)
<1>1. /\ at = "read" /\ resp.status = 200 /\ ~resp.file
      /\ UNCHANGED <<options, fileVars, copy, req, size, mtime, parts, disturbed>>
      /\ resp' = [resp EXCEPT !.body = body, !.length = Size(body)] /\ at' = "send"
  BY DEF build_full, Respond, FileIInv, Shape
<1>2. /\ resp'.body = body /\ resp'.length = Size(body) /\ resp'.status = 200 /\ ~resp'.file
      /\ resp'.etag = resp.etag /\ resp'.modified = resp.modified
  BY <1>1 DEF FileIInv, Fields
<1>3. Versions' /\ CopyKnown' /\ AsksOfCopy' /\ Partial' /\ Fields'
  <2>1. Fields'
    BY <1>1, KeepsFields, Zenon DEF FileIInv
  <2> QED
    BY <1>1, <1>2, <2>1, KeepsVersions, KeepsCopy, KeepsConditions, KeepsPartial DEF FileIInv, fileVars
<1>4. Seen' /\ Looked' /\ Confirms'
  BY <1>1, <1>2 DEF FileIInv, Seen, Looked, Confirms, Looking, Answering, fileVars,
     generate_etag, LastModified
<1>5. Delivered'
  BY <1>1, <1>2 DEF Delivered, fileVars
<1>6. Shape'
  <2>1. req.range # None
    BY <1>1 DEF FileIInv, Shape
  <2>2. Size(resp'.body) = Announced' \/ req'.method = "HEAD"
    BY <1>1, <1>2 DEF Announced
  <2> QED
    BY <1>1, <1>2, <2>1, <2>2 DEF Shape, FramingKept
<1> QED
  BY <1>3, <1>4, <1>5, <1>6 DEF FileIInv

(* What is read of a part that was not cut is the part.                    *)
LEMMA ReadPart ==
    ASSUME Versions, NEW range \in [start : Int, end : Int]
    PROVE  /\ read_file_range(range) \in Seq(AnyPiece)
           /\ file # None /\ range.start < file.size /\ range.end < file.size =>
                \E v \in Int : read_file_range(range) = <<Piece(v, range.start, range.end)>>
<1>1. CASE file = None \/ range.start >= file.size
  BY <1>1 DEF read_file_range, Versions
<1>2. CASE file # None /\ ~(range.start >= file.size)
  <2>1. PICK e \in Int :
          /\ e = IF range.end < file.size THEN range.end ELSE file.size - 1
          /\ range.end < file.size => e = range.end
    BY <1>2 DEF Versions
  <2>2. read_file_range(range) = <<Piece(file.id, range.start, e)>>
    BY <1>2, <2>1, Zenon DEF read_file_range
  <2>3. file.id \in Int
    BY <1>2 DEF Versions
  <2>4. Piece(file.id, range.start, e) \in AnyPiece
    BY <2>1, <2>3 DEF Piece, AnyPiece
  <2> QED
    BY <2>1, <2>2, <2>3, <2>4
<1> QED
  BY <1>1, <1>2

(* The parts are read in order, each when its turn comes.                  *)
LEMMA BuildRangeInv ==
    ASSUME StaticFilesAssumption, FileIInv, build_range
    PROVE  FileIInv'
<1> DEFINE i == CHOOSE k \in parts.todo : \A j \in parts.todo : k <= j
           body == resp.body \o read_file_range(parts.all[i])
<1>1. /\ at = "read" /\ resp.status = 206 /\ ~resp.file /\ req.range # None
      /\ resp.body \in Seq(AnyPiece)
      /\ UNCHANGED <<options, fileVars, copy, req, size, mtime, disturbed>>
      /\ parts' = [parts EXCEPT !.todo = @ \ {i}]
      /\ resp' = [resp EXCEPT !.body = body, !.length = Size(body)]
      /\ at' = IF parts.todo = {i} THEN "send" ELSE "read"
  BY DEF build_range, FileIInv, Shape
<1>2. /\ resp'.body = body /\ resp'.length = Size(body) /\ resp'.status = 206 /\ ~resp'.file
      /\ resp'.etag = resp.etag /\ resp'.modified = resp.modified
      /\ parts'.todo = parts.todo \ {i} /\ parts'.all = parts.all
      /\ Fields'
  BY <1>1 DEF FileIInv, Fields
<1>3. at' \in {"read", "send"}
  BY <1>1
<1>4. i \in parts.todo
  <2>1. parts.todo \in SUBSET Nat /\ parts.todo # {}
    BY <1>1 DEF FileIInv, Partial
  <2> QED
    BY <2>1, LeastNumber
<1>5. parts.all[i] \in [start : Int, end : Int] /\ i \in DOMAIN parts.all
  BY <1>1, <1>4 DEF FileIInv, Partial
<1>6. Versions' /\ CopyKnown' /\ AsksOfCopy'
  BY <1>1, KeepsVersions, KeepsCopy, KeepsConditions DEF FileIInv, fileVars
<1>7. Seen' /\ Looked' /\ Confirms' /\ Delivered'
  <2> HIDE DEF body, i
  <2>1. /\ size' \in Nat /\ mtime' \in Nat
        /\ ~disturbed => file # None /\ size = file.size /\ mtime = file.mtime
        /\ resp.etag = generate_etag(size, mtime) /\ resp.modified \in LastModified(mtime)
    BY <1>1 DEF FileIInv, Seen, Looked, Looking
  <2>2. Seen'
    BY <1>1, <1>3, <2>1 DEF Seen, fileVars
  <2>3. Looked'
    BY <1>1, <1>2, <2>1 DEF Looked, generate_etag, LastModified
  <2>4. Confirms' /\ Delivered'
    BY <1>2 DEF Confirms, Delivered
  <2> QED
    BY <2>2, <2>3, <2>4
<1>8. body \in Seq(AnyPiece)
  BY <1>1, <1>5, ReadPart DEF FileIInv
<1>9. Shape'
  <2>1. FramingKept'
    BY <1>3 DEF FramingKept
  <2>2. req'.range # None
    BY <1>1
  <2>3. Size(resp'.body) = Announced' \/ req'.method = "HEAD"
    BY <1>1, <1>2 DEF Announced
  <2> QED
    BY <1>2, <1>3, <1>8, <2>1, <2>2, <2>3, Zenon DEF Shape
<1>10. Partial'
  <2>1. /\ req.range # None /\ CheckIfRange(req.ifRange, resp.etag, resp.modified)
        /\ DOMAIN parts.all \subseteq Nat /\ parts.todo \subseteq DOMAIN parts.all
        /\ \A k \in DOMAIN parts.all : parts.all[k] \in [start : Int, end : Int]
    BY <1>1 DEF FileIInv, Partial
  <2>2. at' = "read" <=> parts'.todo # {}
    <3> HIDE DEF body, i
    <3>1. CASE parts.todo = {i}
      <4>1. at' = "send" /\ parts'.todo = {}
        BY <1>1, <1>2, <3>1
      <4> QED
        BY <4>1
    <3>2. CASE parts.todo # {i}
      <4>1. at' = "read" /\ parts'.todo # {}
        BY <1>1, <1>2, <1>4, <3>2
      <4> QED
        BY <4>1
    <3> QED
      BY <3>1, <3>2
  <2>3. ASSUME ~disturbed
        PROVE  /\ parts.all = [k \in Parts(req.range, file.size) |->
                                 Normalized(req.range[k], file.size)]
               /\ Pieces(resp.body) = { Bytes(parts.all[k]) : k \in (DOMAIN parts.all) \ parts.todo }
    BY <1>1, <2>3 DEF FileIInv, Partial
  <2>4. ASSUME ~disturbed
        PROVE  Pieces(body) = Pieces(resp.body) \cup {Bytes(parts.all[i])}
    <3>1. file # None /\ file.size \in Int
      BY <1>1, <2>4 DEF FileIInv, Seen, Looking, Versions
    <3>2. i \in Parts(req.range, file.size) /\ parts.all[i] = Normalized(req.range[i], file.size)
      BY <1>5, <2>3, <2>4
    <3>3. req.range[i] \in ByteRange /\ Satisfiable(req.range[i], file.size)
      <4>1. req.range \in Seq(ByteRange)
        BY <1>1 DEF FileIInv, AsksOfCopy, StaticFilesAssumption
      <4> QED
        BY <3>2, <4>1 DEF Parts, WellFormed
    <3>4. parts.all[i].start < file.size /\ parts.all[i].end < file.size
      BY <3>1, <3>2, <3>3, NormalizedInside
    <3>5. PICK v \in Int :
            read_file_range(parts.all[i]) = <<Piece(v, parts.all[i].start, parts.all[i].end)>>
      BY <1>5, <3>1, <3>4, ReadPart DEF FileIInv
    <3>6. Piece(v, parts.all[i].start, parts.all[i].end) \in AnyPiece
      BY <1>5 DEF Piece, AnyPiece
    <3> DEFINE p == Piece(v, parts.all[i].start, parts.all[i].end)
    <3>7. /\ DOMAIN body = DOMAIN resp.body \cup {Len(resp.body) + 1}
          /\ body[Len(resp.body) + 1] = p
          /\ \A k \in DOMAIN resp.body : body[k] = resp.body[k]
      <4>1. body = resp.body \o <<p>>
        BY <3>5, Zenon
      <4>6. p \in AnyPiece
        BY <3>6, Zenon
      <4> HIDE DEF i, p, body
      <4>2. Append(resp.body, p) = resp.body \o <<p>>
        BY <1>1, <4>6
      <4>3. body = Append(resp.body, p)
        BY <4>1, <4>2, Zenon
      <4>4. \A q \in Seq(AnyPiece), a \in AnyPiece :
              /\ DOMAIN Append(q, a) = DOMAIN q \cup {Len(q) + 1}
              /\ Append(q, a)[Len(q) + 1] = a
              /\ \A k \in DOMAIN q : Append(q, a)[k] = q[k]
        OBVIOUS
      <4>5. /\ DOMAIN Append(resp.body, p) = DOMAIN resp.body \cup {Len(resp.body) + 1}
            /\ Append(resp.body, p)[Len(resp.body) + 1] = p
            /\ \A k \in DOMAIN resp.body : Append(resp.body, p)[k] = resp.body[k]
        <5>1. resp.body \in Seq(AnyPiece) /\ p \in AnyPiece
          BY <1>1, <4>6
        <5> QED
          BY <4>4, <5>1, Zenon
      <4> QED
        BY <4>3, <4>5, Zenon
    <3>8. Bytes([start |-> p.first, end |-> p.last]) = Bytes(parts.all[i])
      BY <1>5 DEF Piece, Bytes
    <3> HIDE DEF body, p, i
    <3> QED
      BY <3>7, <3>8, Zenon DEF Pieces
  <2>5. ASSUME ~disturbed
        PROVE  Pieces(resp'.body)
               = { Bytes(parts.all[k]) : k \in (DOMAIN parts.all) \ (parts.todo \ {i}) }
    <3>1. (DOMAIN parts.all) \ (parts.todo \ {i}) = ((DOMAIN parts.all) \ parts.todo) \cup {i}
      BY <1>5
    <3> HIDE DEF body, i
    <3> QED
      BY <1>2, <2>3, <2>4, <2>5, <3>1
  <2>6. parts'.todo \subseteq DOMAIN parts'.all
    BY <1>2, <2>1
  <2> HIDE DEF body, i
  <2> QED
    BY <1>1, <1>2, <2>1, <2>2, <2>3, <2>5, <2>6 DEF Partial, fileVars
<1> QED
  BY <1>2, <1>6, <1>7, <1>9, <1>10 DEF FileIInv

-----------------------------------------------------------------------------
LEMMA FileNextInv ==
    ASSUME StaticFilesAssumption, FileIInv, [Next]_vars
    PROVE  FileIInv'
<1>1. CASE UNCHANGED vars
  <2>1. /\ UNCHANGED <<options, fileVars, copy, req, at, size, mtime, parts, resp, disturbed>>
    BY <1>1 DEF vars, fileVars
  <2>2. Versions' /\ CopyKnown' /\ AsksOfCopy' /\ Partial' /\ Fields'
    BY <2>1, KeepsVersions, KeepsCopy, KeepsConditions, KeepsPartial, KeepsFields DEF FileIInv, fileVars
  <2>3. Seen' /\ Looked' /\ Confirms' /\ Delivered'
    BY <2>1 DEF FileIInv, Seen, Looked, Confirms, Delivered, Looking, Answering, fileVars,
       generate_etag, LastModified
  <2>4. Shape'
    BY <2>1 DEF FileIInv, Shape, FramingKept, Announced
  <2> QED
    BY <2>2, <2>3, <2>4 DEF FileIInv
<1> QED
  BY <1>1, TickInv, ReplaceInv, RemoveInv, RequestInv, ReceiveInv, ServeInv, FileSizeInv,
     LastWriteTimeInv, ServeFileInv, BuildInv, BuildFullInv, BuildRangeInv, SendFileInv,
     AsyncWriteAllInv DEF Next

(* The version whose number is known is the only one.                      *)
LEMMA TheVersion ==
    ASSUME Versions, NEW v \in versions
    PROVE  VersionOf(v.id) = v
  BY DEF Versions, VersionOf

LEMMA SameTime ==
    ASSUME Versions, NEW v \in versions, NEW w \in versions, v.mtime = w.mtime
    PROVE  v = w
  BY DEF Versions

LEMMA FileInvHolds ==
    ASSUME StaticFilesAssumption, FileIInv
    PROVE  FramingKept /\ NotModifiedWithinASecond /\ RangesServed
<1>1. FramingKept
  BY DEF FileIInv, Shape
<1>2. NotModifiedWithinASecond
  <2> SUFFICES ASSUME at \in {"send", "sent"}, resp.status = 304, ~copy.disturbed, copy.body # <<>>
               PROVE  mtime < VersionOf(copy.body[1].version).mtime + TicksPerSecond + 2
    BY DEF NotModifiedWithinASecond
  <2>1. /\ copy # None
        /\ \A v \in versions :
              v.id = copy.body[1].version => mtime < v.mtime + TicksPerSecond + 2
    BY DEF FileIInv, Confirms, Answering
  <2>2. PICK v \in versions : copy.body[1].version = v.id
    BY <2>1 DEF FileIInv, CopyKnown
  <2>3. VersionOf(copy.body[1].version) = v
    BY <2>2, TheVersion DEF FileIInv
  <2> QED
    BY <2>1, <2>2, <2>3
<1>3. RangesServed
  <2> SUFFICES ASSUME at = "sent", resp.status = 206, ~disturbed
               PROVE  RangesServed
    BY DEF RangesServed
  <2>1. /\ file # None /\ size = file.size /\ mtime = file.mtime
        /\ resp.etag = generate_etag(size, mtime) /\ resp.modified \in LastModified(mtime)
        /\ file \in versions /\ file.size \in Nat /\ file.mtime \in Nat
    BY DEF FileIInv, Seen, Looked, Looking, Answering, Versions
  <2>2. /\ CheckIfRange(req.ifRange, resp.etag, resp.modified)
        /\ Pieces(resp.body) = { Bytes(parts.all[i]) : i \in DOMAIN parts.all }
        /\ parts.all = [i \in Parts(req.range, file.size) |-> Normalized(req.range[i], file.size)]
    BY DEF FileIInv, Partial
  <2>3. Pieces(resp.body)
        = { Bytes(Normalized(req.range[i], file.size)) : i \in Parts(req.range, file.size) }
    BY <2>2
  <2>4. req.range # None /\ req.range \in Seq(ByteRange)
    BY DEF FileIInv, Partial, AsksOfCopy, StaticFilesAssumption
  <2>5. Pieces(resp.body)
        = { Requested(req.range[i], file.size) :
              i \in { k \in WellFormed(req.range) : Valid(req.range[k]) } } \ {{}}
    <3>1. file.size \in Int
      BY <2>1
    <3>2. PartBytes(req.range, file.size) = AskedBytes(req.range, file.size)
      BY <2>4, <3>1, PartsAreRequested
    <3> QED
      BY <2>3, <3>2, Zenon DEF PartBytes, AskedBytes
  <2>6. ASSUME req.ifRange.kind # "none", ~copy.disturbed, copy.body # <<>>,
               NEW v, v = VersionOf(copy.body[1].version)
        PROVE  IF req.ifRange.kind = "etag" THEN file = v
               ELSE /\ file.mtime < v.mtime + TicksPerSecond + 2
                    /\ v.mtime < file.mtime + TicksPerSecond + 2
    <3>1. copy # None
      BY <2>6 DEF FileIInv, AsksOfCopy
    <3>2. PICK w \in versions :
            /\ copy.body[1].version = w.id
            /\ copy.etag = generate_etag(w.size, w.mtime)
            /\ copy.modified \in LastModified(w.mtime)
      BY <2>6, <3>1 DEF FileIInv, CopyKnown
    <3>3. v = w
      BY <2>6, <3>2, TheVersion DEF FileIInv
    <3>4. w.mtime \in Nat
      BY DEF FileIInv, Versions
    <3>5. CASE req.ifRange.kind = "etag"
      <4>1. /\ req.ifRange.etag = copy.etag /\ copy.etag # None
            /\ req.ifRange.etag = resp.etag
        BY <2>2, <2>6, <3>5 DEF FileIInv, AsksOfCopy, CheckIfRange
      <4>2. generate_etag(size, mtime) = generate_etag(w.size, w.mtime)
        BY <2>1, <3>2, <4>1
      <4>3. mtime = w.mtime
        BY <3>2, <4>1, <4>2 DEF generate_etag
      <4> QED
        <5>1. file.mtime = w.mtime /\ file \in versions
          BY <2>1, <4>3
        <5>2. file = w
          BY <5>1, SameTime DEF FileIInv
        <5> QED
          BY <3>3, <3>5, <5>2
    <3>6. CASE req.ifRange.kind # "etag"
      <4>1. /\ req.ifRange.date = copy.modified /\ copy.modified # None
            /\ req.ifRange.date = resp.modified
        BY <2>2, <2>6, <3>6 DEF FileIInv, AsksOfCopy, CheckIfRange
      <4>2. resp.modified \in Converted(mtime) /\ resp.modified \in Converted(w.mtime)
        BY <2>1, <3>2, <4>1 DEF LastModified
      <4>3. resp.modified <= resp.modified
        <5>1. PICK k \in Int : resp.modified = Second(k)
          BY <2>1, <4>2 DEF Converted
        <5>2. Second(k) \in Int
          BY SecondBounds
        <5> QED
          BY <5>1, <5>2
      <4>4. mtime \in Int /\ w.mtime \in Int
        BY <2>1, <3>4
      <4>5. mtime < w.mtime + TicksPerSecond + 2 /\ w.mtime < mtime + TicksPerSecond + 2
        BY <4>2, <4>3, <4>4, ConvertedClose
      <4> QED
        BY <2>1, <3>3, <3>6, <4>5
    <3> QED
      BY <3>5, <3>6
  <2> QED
    BY <2>5, <2>6 DEF RangesServed, Pieces
<1> QED
  BY <1>1, <1>2, <1>3

(* However the file is replaced or removed while it is served: a response  *)
(* has the length it announces but for the exceptions FramingKept names; a *)
(* 304 confirms no copy that is older than the file by more than a second; *)
(* and an undisturbed 206 has the bytes that were requested, of the        *)
(* version that If-Range asked for or of one of the same second.           *)
THEOREM ResponsesHold ==
    ASSUME StaticFilesAssumption
    PROVE  Spec => [](FramingKept /\ NotModifiedWithinASecond /\ RangesServed)
<1>1. Init => FileIInv
  BY FileInitInv
<1>2. FileIInv /\ [Next]_vars => FileIInv'
  BY FileNextInv
<1>3. FileIInv => FramingKept /\ NotModifiedWithinASecond /\ RangesServed
  BY FileInvHolds
<1> QED
  BY <1>1, <1>2, <1>3, PTL DEF Spec

-----------------------------------------------------------------------------
(* Dispatch.                                                               *)

(* The operators of FiniteSets are the same wherever they are taken from.  *)
LEMMA RFinite ==
    /\ \A S : R!IsFiniteSet(S) = IsFiniteSet(S)
    /\ \A S : R!Cardinality(S) = Cardinality(S)
<1>1. ASSUME NEW S PROVE R!IsFiniteSet(S) = IsFiniteSet(S)
  BY Zenon DEF R!IsFiniteSet, IsFiniteSet
<1>2. ASSUME NEW S PROVE R!Cardinality(S) = Cardinality(S)
  BY Zenon DEF R!Cardinality, Cardinality
<1> QED
  BY <1>1, <1>2

(* What a handler is called with.                                          *)
Called == [route |-> handler.route,
           args |-> SubSeq(handler.params, 1, Len(Routes[handler.route].types))]

Asking ==
    /\ sent \in Requests /\ req = R!Parsed(sent) /\ chain \in Chains
    /\ stage \in {"view", "route", "next", "return", "send", "sent"}

Calling ==
    /\ calls \in Seq([idx : Nat, tries : Nat])
    /\ Len(calls) <= Len(chain)
    /\ \A k \in DOMAIN calls : calls[k].idx = k

(* The route is chosen once, and nothing has run before.                   *)
Chosen ==
    /\ stage \in {"view", "route"} => ran = <<>> /\ handler = R!NoMatch
    /\ handler = R!NoMatch \/ handler = R!match(req.method, req.path)
    /\ ran # <<>> =>
         /\ handler.route # None /\ ran \in Seq({Called})
         /\ R!ParamsValid(Routes[handler.route].types, handler.params)

Responses == [status : {0, 200, 206, 400, 401, 404, 500}, body : R!Contents,
              encoding : {None} \cup R!Algorithms, length : {None} \cup R!Contents,
              file : {None} \cup R!Contents]

(* A response that the client can decode.                                  *)
Decodable(r) ==
    /\ IF r.encoding = None THEN r.body.codings = <<>>
       ELSE /\ r.body.codings = <<r.encoding>>
            /\ \/ r.body \in Bodies
               \/ sent.accepts # None /\ \E c \in sent.accepts : c.name = r.encoding /\ c.q > 0
    /\ r.file # None =>
         r.body = R!Empty /\ r.encoding = None /\ r.file.codings = <<>> /\ r.length = r.file
    /\ r.file = None /\ sent.method # "HEAD" =>
         r.body = IF r.length = None THEN R!Empty ELSE r.length

Fitting ==
    /\ resp \in Responses /\ Decodable(resp)
    /\ wire # None =>
         /\ stage = "sent"
         /\ wire = [status |-> resp.status, encoding |-> resp.encoding, length |-> resp.length,
                    body |-> R!SentBody]

DispatchInv == Asking /\ Calling /\ Chosen /\ Fitting

-----------------------------------------------------------------------------
(* A bounded set of numbers has a greatest one.                            *)
LEMMA GreatestNumber ==
    ASSUME NEW n \in Nat, NEW S \in SUBSET (1 .. n), S # {}
    PROVE  \E m \in S : \A k \in S : k <= m
<1> DEFINE Bounds == {b \in Nat : \A k \in S : k <= b}
<1>1. n \in Bounds /\ Bounds \in SUBSET Nat
  OBVIOUS
<1>2. PICK m \in Bounds : \A b \in Bounds : m <= b
  BY <1>1, LeastNumber
<1>3. m \in Nat /\ \A k \in S : k <= m
  BY <1>2
<1>4. m \in S
  <2> SUFFICES ASSUME m \notin S PROVE FALSE
    OBVIOUS
  <2>1. \A k \in S : k <= m - 1
    BY <1>3
  <2>2. m - 1 \in Nat
    <3>1. PICK k \in S : k \in 1 .. n
      OBVIOUS
    <3>2. k <= m - 1 /\ k >= 1
      BY <2>1, <3>1
    <3> QED
      BY <1>3, <3>1, <3>2
  <2>3. m - 1 \in Bounds
    BY <2>1, <2>2
  <2> QED
    BY <1>2, <1>3, <2>3
<1> QED
  BY <1>3, <1>4

-----------------------------------------------------------------------------
(* The n-th member of a set of positions.                                  *)
UpToOf(S, k) == {j \in S : j <= k}

(* How many members there are up to a position ...                         *)
LEMMA UpToCounts ==
    ASSUME NEW top \in Nat, NEW S \in SUBSET (1 .. top), NEW k \in Nat
    PROVE  IsFiniteSet(UpToOf(S, k)) /\ Cardinality(UpToOf(S, k)) \in Nat
<1>1. IsFiniteSet(1 .. top)
  BY FS_Interval
<1>2. UpToOf(S, k) \in SUBSET (1 .. top)
  BY DEF UpToOf
<1> QED
  BY <1>1, <1>2, FS_Subset, FS_CardinalityType

(* ... and up to the next.                                                 *)
LEMMA UpToNext ==
    ASSUME NEW top \in Nat, NEW S \in SUBSET (1 .. top), NEW k \in Nat
    PROVE  Cardinality(UpToOf(S, k + 1))
           = IF k + 1 \in S THEN Cardinality(UpToOf(S, k)) + 1 ELSE Cardinality(UpToOf(S, k))
<1>1. CASE k + 1 \in S
  <2>1. UpToOf(S, k + 1) = UpToOf(S, k) \cup {k + 1} /\ k + 1 \notin UpToOf(S, k)
    <3>1. \A j \in S : j \in Nat
      OBVIOUS
    <3>2. \A j \in S : j <= k + 1 <=> j <= k \/ j = k + 1
      BY <3>1
    <3>3. ~(k + 1 <= k)
      OBVIOUS
    <3> QED
      BY <1>1, <3>2, <3>3 DEF UpToOf
  <2>2. IsFiniteSet(UpToOf(S, k))
    BY UpToCounts
  <2> QED
    BY <1>1, <2>1, <2>2, FS_AddElement
<1>2. CASE k + 1 \notin S
  <2>1. UpToOf(S, k + 1) = UpToOf(S, k)
    <3>1. \A j \in S : j \in Nat
      OBVIOUS
    <3>2. \A j \in S : j <= k + 1 <=> j <= k
      BY <1>2, <3>1
    <3> QED
      BY <3>2 DEF UpToOf
  <2> QED
    BY <1>2, <2>1
<1> QED
  BY <1>1, <1>2

(* Every count up to the size of the set is that of some member ...        *)
LEMMA NthExists ==
    ASSUME NEW top \in Nat, NEW S \in SUBSET (1 .. top), NEW n \in 1 .. Cardinality(S)
    PROVE  \E i \in S : Cardinality(UpToOf(S, i)) = n
<1> DEFINE Enough == {k \in Nat : n <= Cardinality(UpToOf(S, k))}
<1>1. UpToOf(S, top) = S /\ UpToOf(S, 0) = {}
  <2>1. \A j \in S : j <= top /\ ~(j <= 0)
    OBVIOUS
  <2> QED
    BY <2>1, Zenon DEF UpToOf
<1>2. top \in Enough /\ 0 \notin Enough
  <2>1. n \in Nat /\ n <= Cardinality(S) /\ n > 0
    <3>1. Cardinality(S) \in Nat
      BY <1>1, UpToCounts
    <3> QED
      BY <3>1
  <2>2. Cardinality(UpToOf(S, 0)) = 0
    BY <1>1, FS_EmptySet
  <2> QED
    BY <1>1, <2>1, <2>2
<1>3. PICK k \in Enough : \A j \in Enough : k <= j
  BY <1>2, LeastNumber
<1>4. k \in Nat /\ k # 0 /\ n <= Cardinality(UpToOf(S, k))
  BY <1>2, <1>3
<1>5. PICK j \in Nat : k = j + 1
  BY <1>4
<1>6. ~(n <= Cardinality(UpToOf(S, j)))
  BY <1>3, <1>5
<1>7. PICK c \in Nat : c = Cardinality(UpToOf(S, j))
  BY UpToCounts
<1>8. Cardinality(UpToOf(S, k)) = IF k \in S THEN c + 1 ELSE c
  BY <1>5, <1>7, UpToNext
<1>9. n \in Nat
  <2>1. Cardinality(S) \in Nat
    BY <1>1, UpToCounts
  <2> QED
    BY <2>1
<1>10. k \in S /\ Cardinality(UpToOf(S, k)) = n
  BY <1>4, <1>6, <1>7, <1>8, <1>9
<1> QED
  BY <1>10

(* ... and of only one, ...                                                *)
LEMMA NthUnique ==
    ASSUME NEW top \in Nat, NEW S \in SUBSET (1 .. top), NEW i \in S
    PROVE  R!Nth(S, Cardinality(UpToOf(S, i))) = i
<1> DEFINE n == Cardinality(UpToOf(S, i))
<1>1. R!Nth(S, n) = CHOOSE k \in S : Cardinality(UpToOf(S, k)) = n
  BY RFinite, Zenon DEF R!Nth, UpToOf
<1>2. ASSUME NEW a \in S, NEW b \in S, a < b,
             Cardinality(UpToOf(S, a)) = Cardinality(UpToOf(S, b))
      PROVE  FALSE
  <2>1. a \in Nat /\ b \in Nat
    OBVIOUS
  <2>2. UpToOf(S, a) \in SUBSET UpToOf(S, b) /\ b \in UpToOf(S, b) /\ b \notin UpToOf(S, a)
    <3>1. \A j \in S : j <= a => j <= b
      BY <1>2, <2>1
    <3>2. b <= b /\ ~(b <= a)
      BY <1>2, <2>1
    <3> QED
      BY <3>1, <3>2, Zenon DEF UpToOf
  <2>3. IsFiniteSet(UpToOf(S, b))
    BY <2>1, UpToCounts
  <2>4. UpToOf(S, b) = UpToOf(S, a)
    BY <1>2, <2>2, <2>3, FS_Subset
  <2> QED
    BY <2>2, <2>4
<1>3. \A k \in S : Cardinality(UpToOf(S, k)) = n => k = i
  <2> SUFFICES ASSUME NEW k \in S, Cardinality(UpToOf(S, k)) = n, k # i PROVE FALSE
    OBVIOUS
  <2>1. k < i \/ i < k
    OBVIOUS
  <2> QED
    BY <1>2, <2>1
<1> HIDE DEF n
<1>4. Cardinality(UpToOf(S, i)) = n
  BY DEF n
<1>5. R!Nth(S, n) = i
  BY <1>1, <1>3, <1>4, Zenon
<1> QED
  BY <1>5 DEF n

(* ... so Nth() finds a member, and the right one.                         *)
LEMMA NthIsThere ==
    ASSUME NEW top \in Nat, NEW S \in SUBSET (1 .. top), NEW n \in 1 .. Cardinality(S)
    PROVE  R!Nth(S, n) \in S /\ Cardinality(UpToOf(S, R!Nth(S, n))) = n
<1>1. PICK i \in S : Cardinality(UpToOf(S, i)) = n
  BY NthExists
<1>2. R!Nth(S, n) = i
  BY <1>1, NthUnique
<1> QED
  BY <1>1, <1>2

(* Braces that come before all wildcards are the first captures.           *)
LEMMA BracesFirst ==
    ASSUME NEW pattern \in Seq(STRING),
           \A i \in R!Braces(pattern), j \in DOMAIN pattern :
              pattern[j] \in {"*", "**"} => i < j,
           NEW n \in 1 .. Cardinality(R!Braces(pattern))
    PROVE  /\ R!Nth(R!Captures(pattern), n) = R!Nth(R!Braces(pattern), n)
           /\ R!Nth(R!Braces(pattern), n) \in R!Braces(pattern)
           /\ n \in 1 .. Cardinality(R!Captures(pattern))
<1>1. PICK top \in Nat : top = Len(pattern) /\ DOMAIN pattern = 1 .. top
  OBVIOUS
<1>2. R!Braces(pattern) \in SUBSET (1 .. top) /\ R!Captures(pattern) \in SUBSET (1 .. top)
  <2>1. /\ R!Braces(pattern) \in SUBSET DOMAIN pattern
        /\ R!Captures(pattern) \in SUBSET DOMAIN pattern
    BY Zenon DEF R!Braces, R!Captures
  <2> QED
    BY <1>1, <2>1
<1>3. PICK i \in R!Braces(pattern) :
         i = R!Nth(R!Braces(pattern), n) /\ Cardinality(UpToOf(R!Braces(pattern), i)) = n
  BY <1>2, NthIsThere
<1>4. UpToOf(R!Captures(pattern), i) = UpToOf(R!Braces(pattern), i)
  <2>1. \A j \in R!Captures(pattern) : j <= i => j \in R!Braces(pattern)
    <3> SUFFICES ASSUME NEW j \in R!Captures(pattern), j <= i, j \notin R!Braces(pattern)
                 PROVE  FALSE
      OBVIOUS
    <3>1. j \in DOMAIN pattern /\ pattern[j] \in {"*", "**"}
      BY Zenon DEF R!Braces, R!Captures
    <3>2. i < j
      BY <3>1, Zenon
    <3>3. i \in 1 .. top /\ j \in 1 .. top
      BY <1>2
    <3> HIDE DEF R!Braces, R!Captures
    <3> QED
      BY <3>2, <3>3
  <2>2. R!Braces(pattern) \subseteq R!Captures(pattern)
    BY Zenon DEF R!Braces, R!Captures
  <2> QED
    BY <2>1, <2>2 DEF UpToOf
<1>5. i \in R!Captures(pattern)
  BY Zenon DEF R!Braces, R!Captures
<1>6. R!Nth(R!Captures(pattern), n) = i
  BY <1>2, <1>3, <1>4, <1>5, NthUnique
<1>7. n \in 1 .. Cardinality(R!Captures(pattern))
  <2>1. R!Braces(pattern) \in SUBSET R!Captures(pattern)
    BY Zenon DEF R!Braces, R!Captures
  <2>2. IsFiniteSet(1 .. top)
    BY FS_Interval
  <2>3. IsFiniteSet(R!Captures(pattern)) /\ Cardinality(R!Captures(pattern)) \in Nat
    BY <1>2, <2>2, FS_Subset, FS_CardinalityType
  <2>4. /\ Cardinality(R!Braces(pattern)) <= Cardinality(R!Captures(pattern))
        /\ Cardinality(R!Braces(pattern)) \in Nat
    BY <2>1, <2>3, FS_Subset, FS_CardinalityType
  <2> QED
    BY <2>3, <2>4
<1> QED
  BY <1>3, <1>6, <1>7

(* What such a brace stands for is the segment at its place.               *)
LEMMA BraceText ==
    ASSUME NEW pattern \in Seq(STRING), NEW path \in Seq(STRING), R!Matches(pattern, path),
           \A i \in R!Braces(pattern), j \in DOMAIN pattern :
              pattern[j] \in {"*", "**"} => i < j,
           NEW n \in 1 .. Cardinality(R!Braces(pattern))
    PROVE  /\ n \in DOMAIN R!Groups(pattern, path)
           /\ R!Nth(R!Braces(pattern), n) \in DOMAIN path
           /\ R!Groups(pattern, path)[n] = <<path[R!Nth(R!Braces(pattern), n)]>>
<1>1. PICK i \in R!Braces(pattern) :
        /\ i = R!Nth(R!Braces(pattern), n) /\ i = R!Nth(R!Captures(pattern), n)
        /\ n \in 1 .. Cardinality(R!Captures(pattern))
  BY BracesFirst
<1>2. /\ R!Groups(pattern, path)[n] = R!Part(pattern, path, i)
      /\ n \in DOMAIN R!Groups(pattern, path)
  BY <1>1, RFinite DEF R!Groups
<1>3. PICK p \in Nat : p = Len(pattern) /\ DOMAIN pattern = 1 .. p
  OBVIOUS
<1>4. PICK q \in Nat : q = Len(path) /\ DOMAIN path = 1 .. q
  OBVIOUS
<1>5. i \in 1 .. p
  <2>1. i \in DOMAIN pattern
    BY Zenon DEF R!Braces
  <2> QED
    BY <1>3, <2>1
<1>6. q >= p
  <2>1. IF R!Wide(pattern) = {} THEN Len(path) = Len(pattern) ELSE Len(path) >= Len(pattern)
    BY Zenon DEF R!Matches
  <2>2. Len(path) = Len(pattern) \/ Len(path) >= Len(pattern)
    BY <2>1, Zenon
  <2> QED
    BY <1>3, <1>4, <2>2
<1>7. \A j \in R!Wide(pattern) : j \in 1 .. p /\ i < j
  <2> TAKE j \in R!Wide(pattern)
  <2>1. j \in DOMAIN pattern /\ pattern[j] \in {"*", "**"}
    BY Zenon DEF R!Wide
  <2> QED
    BY <1>3, <2>1, Zenon
<1>8. \A j \in R!Wide(pattern) : ~(j < i) /\ ~(j <= i)
  BY <1>5, <1>7
<1>9. R!First(pattern, path, i) = i /\ R!Last(pattern, path, i) = i
  BY <1>8, Zenon DEF R!First, R!Last
<1>10. R!Part(pattern, path, i) = SubSeq(path, i, i)
  BY <1>9, Zenon DEF R!Part
<1>11. i \in DOMAIN path
  BY <1>4, <1>5, <1>6
<1>12. SubSeq(path, i, i) = <<path[i]>>
  <2>1. \A s \in Seq(STRING) : \A k \in 1 .. Len(s) : SubSeq(s, k, k) = <<s[k]>>
    <3> TAKE s \in Seq(STRING)
    <3> TAKE k \in 1 .. Len(s)
    <3>1. /\ SubSeq(s, k, k) \in Seq(STRING) /\ Len(SubSeq(s, k, k)) = 1
          /\ SubSeq(s, k, k)[1] = s[k]
      OBVIOUS
    <3>2. \A t \in Seq(STRING) : Len(t) = 1 => t = <<t[1]>>
      OBVIOUS
    <3> QED
      BY <3>1, <3>2, Zenon
  <2>2. i \in 1 .. Len(path)
    BY <1>4, <1>11
  <2> QED
    BY <2>1, <2>2, Zenon
<1> QED
  BY <1>1, <1>2, <1>10, <1>11, <1>12, Zenon

-----------------------------------------------------------------------------
(* The codings a client accepts are ordered, so there is a best one.       *)
LEMMA BetterOrder ==
    ASSUME NEW c, NEW d, NEW e,
           c.name \in R!Algorithms, d.name \in R!Algorithms, e.name \in R!Algorithms,
           c.q \in Nat, d.q \in Nat, e.q \in Nat
    PROVE  /\ R!Better(c, c)
           /\ R!Better(c, d) \/ R!Better(d, c)
           /\ R!Better(c, d) /\ R!Better(d, e) => R!Better(c, e)
<1>1. R!Rank[c.name] \in Nat /\ R!Rank[d.name] \in Nat /\ R!Rank[e.name] \in Nat
  BY DEF R!Rank, R!Algorithms
<1> QED
  BY <1>1 DEF R!Better

LEMMA BestExists ==
    ASSUME NEW C, IsFiniteSet(C), C # {}, \A c \in C : c.name \in R!Algorithms /\ c.q \in Nat
    PROVE  \E c \in C : \A d \in C : R!Better(c, d)
<1> DEFINE Best(S) == \E c \in S : \A d \in S : R!Better(c, d)
           Bad == {n \in Nat : \E S \in SUBSET C : S # {} /\ Cardinality(S) = n /\ ~Best(S)}
<1> SUFFICES ASSUME ~Best(C) PROVE FALSE
  OBVIOUS
<1>1. Cardinality(C) \in Bad
  <2>1. Cardinality(C) \in Nat
    BY FS_CardinalityType
  <2> QED
    BY <2>1
<1>2. PICK n \in Bad : \A m \in Bad : n <= m
  <2>1. Bad \in SUBSET Nat /\ Bad # {}
    BY <1>1
  <2> HIDE DEF Bad
  <2> QED
    BY <2>1, LeastNumber
<1>3. PICK S \in SUBSET C : S # {} /\ Cardinality(S) = n /\ ~Best(S)
  BY <1>2
<1>4. PICK x \in S : TRUE
  BY <1>3
<1>5. IsFiniteSet(S)
  BY FS_Subset
<1>6. Cardinality(S \ {x}) = n - 1 /\ Cardinality(S \ {x}) \in Nat /\ n \in Nat
  <2>1. IsFiniteSet(S \ {x}) /\ Cardinality(S \ {x}) = Cardinality(S) - 1
    BY <1>4, <1>5, FS_RemoveElement
  <2> QED
    BY <1>2, <1>3, <2>1, FS_CardinalityType
<1>7. \A c \in S : c.name \in R!Algorithms /\ c.q \in Nat
  OBVIOUS
<1>8. CASE S \ {x} = {}
  <2>1. R!Better(x, x)
    BY <1>4, <1>7, BetterOrder
  <2>2. \A d \in S : d = x
    BY <1>8
  <2>3. Best(S)
    BY <1>4, <2>1, <2>2
  <2> QED
    BY <1>3, <2>3
<1>9. CASE S \ {x} # {}
  <2>1. n - 1 \notin Bad
    <3> HIDE DEF Bad
    <3>1. ~(n <= n - 1)
      BY <1>6
    <3> QED
      BY <1>2, <3>1
  <2>2. Best(S \ {x})
    BY <1>6, <1>9, <2>1
  <2>3. PICK y \in S \ {x} : \A d \in S \ {x} : R!Better(y, d)
    BY <2>2
  <2>4. CASE R!Better(y, x)
    <3>1. \A d \in S : R!Better(y, d)
      BY <2>3, <2>4
    <3> QED
      BY <1>3, <3>1
  <2>5. CASE ~R!Better(y, x)
    <3>1. R!Better(x, y)
      BY <1>4, <1>7, <2>5, BetterOrder
    <3>2. \A d \in S \ {x} : R!Better(x, d)
      BY <1>4, <1>7, <2>3, <3>1, BetterOrder
    <3>3. R!Better(x, x)
      BY <1>4, <1>7, BetterOrder
    <3>4. \A d \in S : R!Better(x, d)
      BY <3>2, <3>3
    <3> QED
      BY <1>3, <1>4, <3>4
  <2> QED
    BY <2>4, <2>5
<1> QED
  BY <1>8, <1>9

(* So what is chosen is acceptable.                                        *)
LEMMA ChosenIsAccepted ==
    ASSUME NEW accepts \in SUBSET [name : STRING, q : Nat], IsFiniteSet(accepts),
           R!parse_accept_encoding(accepts) # None
    PROVE  /\ R!parse_accept_encoding(accepts) \in R!Algorithms
           /\ \E c \in accepts : c.name = R!parse_accept_encoding(accepts) /\ c.q > 0
<1> DEFINE C == {c \in accepts : c.q > 0 /\ c.name \in R!Enabled}
           best == CHOOSE c \in C : \A d \in C : R!Better(c, d)
<1>1. C # {} /\ R!parse_accept_encoding(accepts) = best.name
  BY Zenon DEF R!parse_accept_encoding
<1>2. IsFiniteSet(C)
  <2>1. C \in SUBSET accepts
    OBVIOUS
  <2> QED
    BY <2>1, FS_Subset
<1>3. \A c \in C : c.name \in R!Algorithms /\ c.q \in Nat /\ c.q > 0
  BY DEF R!Enabled
<1>4. best \in C
  <2> HIDE DEF C
  <2>1. \E c \in C : \A d \in C : R!Better(c, d)
    BY <1>1, <1>2, <1>3, BestExists
  <2> QED
    BY <2>1, Zenon
<1> HIDE DEF best
<1> QED
  BY <1>1, <1>3, <1>4

-----------------------------------------------------------------------------
(* The last of the patterns that match.                                    *)
LEMMA LastMatchIsLast ==
    ASSUME NEW top \in Nat, NEW patterns, DOMAIN patterns \in SUBSET (1 .. top), NEW path,
           NEW m, m = R!LastMatch(patterns, path)
    PROVE  \/ m = R!NoMatch
           \/ /\ m.route \in DOMAIN patterns /\ R!Matches(patterns[m.route], path)
              /\ \A later \in DOMAIN patterns :
                   later > m.route => ~R!Matches(patterns[later], path)
              /\ m.params = R!Groups(patterns[m.route], path)
<1> DEFINE found == {i \in DOMAIN patterns : R!Matches(patterns[i], path)}
           last == CHOOSE i \in found : \A j \in found : j <= i
<1>1. CASE found = {}
  BY <1>1, Zenon DEF R!LastMatch
<1>2. CASE found # {}
  <2>1. m = [route |-> last, params |-> R!Groups(patterns[last], path)]
    BY <1>2, Zenon DEF R!LastMatch
  <2>2. found \in SUBSET (1 .. top)
    BY Zenon
  <2>3. last \in found /\ \A j \in found : j <= last
    <3> HIDE DEF found
    <3>1. \E i \in found : \A j \in found : j <= i
      BY <1>2, <2>2, GreatestNumber
    <3> QED
      BY <3>1, Zenon
  <2> HIDE DEF last
  <2>4. m.route = last /\ m.params = R!Groups(patterns[last], path)
    BY <2>1
  <2>5. last \in DOMAIN patterns /\ R!Matches(patterns[last], path)
    BY <2>3, Zenon
  <2>6. ASSUME NEW later \in DOMAIN patterns, later > last, R!Matches(patterns[later], path)
        PROVE  FALSE
    <3>1. later \in found
      BY <2>6, Zenon
    <3> HIDE DEF found
    <3>2. later \in 1 .. top /\ last \in 1 .. top /\ later <= last
      BY <2>2, <2>3, <3>1
    <3> QED
      BY <2>6, <3>2
  <2> QED
    BY <2>4, <2>5, <2>6, Zenon
<1> QED
  BY <1>1, <1>2

(* What match() finds is the last registered for the method and path.      *)
LEMMA MatchIsLast ==
    ASSUME R!DispatchAssumption, NEW method, NEW path, R!match(method, path) # R!NoMatch,
           NEW r, r = R!match(method, path).route
    PROVE  /\ r \in DOMAIN Routes /\ Routes[r].method = R!Table(method)
           /\ R!Matches(Routes[r].pattern, path)
           /\ \A later \in DOMAIN Routes :
                 later > r /\ Routes[later].method = Routes[r].method
                   => ~R!Matches(Routes[later].pattern, path)
           /\ R!match(method, path).params = R!Groups(Routes[r].pattern, path)
<1> DEFINE patterns == [i \in R!Registered(method) |-> Routes[i].pattern]
<1>1. PICK top \in Nat : DOMAIN Routes = 1 .. top
  BY DEF R!DispatchAssumption
<1>2. /\ DOMAIN patterns = R!Registered(method)
      /\ \A i \in DOMAIN patterns : patterns[i] = Routes[i].pattern
  BY Zenon
<1>3. /\ R!Registered(method) \in SUBSET DOMAIN Routes
      /\ \A i \in DOMAIN Routes :
            i \in R!Registered(method) <=> Routes[i].method = R!Table(method)
  BY Zenon DEF R!Registered
<1>4. R!match(method, path) = R!LastMatch(patterns, path)
  BY Zenon DEF R!match
<1> HIDE DEF patterns
<1>5. DOMAIN patterns \in SUBSET (1 .. top)
  BY <1>1, <1>2, <1>3
<1>6. /\ r \in DOMAIN patterns /\ R!Matches(patterns[r], path)
      /\ \A later \in DOMAIN patterns : later > r => ~R!Matches(patterns[later], path)
      /\ R!match(method, path).params = R!Groups(patterns[r], path)
  BY <1>4, <1>5, LastMatchIsLast
<1> QED
  BY <1>2, <1>3, <1>6, Zenon

-----------------------------------------------------------------------------
(* What the parsers make of a request.                                     *)
LEMMA ParsedRequest ==
    ASSUME R!DispatchAssumption, Asking
    PROVE  /\ sent.path \in Seq(STRING) /\ req.path \in Seq(STRING)
           /\ req.protocol = sent.protocol /\ req.method = sent.method
           /\ req.protocol = "http1" =>
                req.path = [k \in DOMAIN sent.path |->
                              IF sent.path[k] \in DOMAIN Decode THEN Decode[sent.path[k]]
                              ELSE sent.path[k]]
           /\ req.accepts # None =>
                /\ req.accepts = sent.accepts
                /\ req.accepts \in SUBSET [name : STRING, q : Nat] /\ IsFiniteSet(req.accepts)
<1>1. /\ sent \in [protocol : {"http1", "h2"}, method : STRING, path : Seq(STRING),
                   accepts : {None} \cup SUBSET [name : STRING, q : Nat],
                   range : BOOLEAN, lowercase : BOOLEAN]
      /\ sent.accepts # None => IsFiniteSet(sent.accepts)
      /\ req = R!Parsed(sent)
      /\ Decode \in [DOMAIN Decode -> STRING]
  BY RFinite, Zenon DEF R!DispatchAssumption, Asking
<1> DEFINE decoded == [k \in DOMAIN sent.path |->
                         IF sent.path[k] \in DOMAIN Decode THEN Decode[sent.path[k]]
                         ELSE sent.path[k]]
<1>2. CASE sent.protocol = "http1"
  <2>1. req = [sent EXCEPT !.path = decoded,
                           !.accepts = IF sent.lowercase THEN None ELSE sent.accepts,
                           !.range = sent.range /\ ~sent.lowercase]
    BY <1>1, <1>2, Zenon DEF R!Parsed
  <2>2. decoded \in Seq(STRING)
    <3>1. PICK p \in Nat : DOMAIN sent.path = 1 .. p
      BY <1>1
    <3>2. decoded \in [1 .. p -> STRING]
      BY <1>1, <3>1
    <3> HIDE DEF decoded
    <3> QED
      BY <3>2
  <2> HIDE DEF decoded
  <2>3. /\ req.path = decoded /\ req.protocol = "http1" /\ req.method = sent.method
        /\ req.accepts = IF sent.lowercase THEN None ELSE sent.accepts
    BY <1>1, <1>2, <2>1
  <2>4. req.accepts # None => req.accepts = sent.accepts
    BY <2>3
  <2> QED
    BY <1>1, <1>2, <2>2, <2>3, <2>4 DEF decoded
<1>3. CASE sent.protocol # "http1"
  <2>1. req = [sent EXCEPT !.accepts = None, !.range = FALSE]
    BY <1>1, <1>3, Zenon DEF R!Parsed
  <2>2. /\ req.path = sent.path /\ req.protocol = sent.protocol /\ req.method = sent.method
        /\ req.accepts = None
    BY <1>1, <2>1
  <2> QED
    BY <1>1, <1>3, <2>2
<1> QED
  BY <1>2, <1>3

-----------------------------------------------------------------------------
(* The responses that are made on the way.                                 *)
Data == {"nothing", "small", "large", "file"}
Fit(r) == r \in Responses /\ Decodable(r)
Statuses == {0, 200, 206, 400, 401, 404, 500}

(* None is neither a body nor a coding.                                    *)
LEMMA NoneApart ==
    ASSUME R!DispatchAssumption
    PROVE  None \notin R!Contents /\ None \notin R!Algorithms
  BY Zenon DEF R!DispatchAssumption

(* What Body() makes is a body that nothing was applied to ...             *)
LEMMA BodyContents ==
    ASSUME R!DispatchAssumption, NEW data \in Data
    PROVE  R!Body(data) \in R!Contents /\ R!Body(data) # None /\ R!Body(data).codings = <<>>
<1>1. \A S : <<>> \in Seq(S)
  OBVIOUS
<1>2. <<>> \in Seq(R!Algorithms)
  BY <1>1, Zenon
<1> HIDE DEF R!Algorithms
<1>3. R!Body(data) \in R!Contents /\ R!Body(data).codings = <<>>
  BY <1>2 DEF R!Body, R!Contents, Data
<1> QED
  BY <1>3, NoneApart

(* ... and so is the empty one.                                            *)
LEMMA EmptyContents ==
    ASSUME R!DispatchAssumption
    PROVE  /\ R!Empty \in R!Contents /\ R!Empty # None
           /\ R!Empty.codings = <<>> /\ R!Empty.data = "nothing"
<1>1. "nothing" \in Data
  BY DEF Data
<1>2. R!Empty.data = "nothing"
  BY DEF R!Empty, R!Body
<1> QED
  BY <1>1, <1>2, BodyContents, Zenon DEF R!Empty

(* What is put together of these parts is a response.                      *)
LEMMA ResponseType ==
    ASSUME NEW status \in Statuses, NEW body \in R!Contents,
           NEW encoding \in {None} \cup R!Algorithms,
           NEW length \in {None} \cup R!Contents, NEW f \in {None} \cup R!Contents,
           NEW r, r = [status |-> status, body |-> body, encoding |-> encoding,
                       length |-> length, file |-> f]
    PROVE  /\ r \in Responses
           /\ r.status = status /\ r.body = body /\ r.encoding = encoding /\ r.length = length
           /\ r.file = f
  BY DEF Responses, Statuses

(* A response with a body in memory, uncompressed.                         *)
LEMMA PlainFits ==
    ASSUME R!DispatchAssumption, NEW data \in Data, NEW status \in Statuses
    PROVE  Fit(R!Response(status, R!Body(data)))
<1> DEFINE r == R!Response(status, R!Body(data))
<1>1. /\ r.status = status /\ r.body = R!Body(data) /\ r.encoding = None
      /\ r.length = R!Body(data) /\ r.file = None
  BY DEF R!Response
<1>2. r \in Responses
  BY BodyContents DEF R!Response, Responses, Statuses
<1>3. Decodable(r)
  BY <1>1, BodyContents, Zenon DEF Decodable
<1> QED
  BY <1>2, <1>3 DEF Fit

(* A response with a file ...                                              *)
LEMMA FileFits ==
    ASSUME R!DispatchAssumption
    PROVE  Fit(R!FileResponse(R!Body("file")))
<1> DEFINE r == R!FileResponse(R!Body("file"))
<1>1. R!Body("file") \in R!Contents /\ R!Body("file") # None /\ R!Body("file").codings = <<>>
  <2>1. "file" \in Data
    BY DEF Data
  <2> QED
    BY <2>1, BodyContents
<1>2. r = [status |-> 200, body |-> R!Empty, encoding |-> None, length |-> R!Body("file"),
           file |-> R!Body("file")]
  BY Zenon DEF R!FileResponse
<1>3. 200 \in Statuses
  BY DEF Statuses
<1>4. /\ r \in Responses
      /\ r.body = R!Empty /\ r.encoding = None
      /\ r.length = R!Body("file") /\ r.file = R!Body("file")
  BY <1>1, <1>2, <1>3, EmptyContents, ResponseType
<1>5. Decodable(r)
  BY <1>1, <1>4, EmptyContents, Zenon DEF Decodable
<1> QED
  BY <1>4, <1>5 DEF Fit

(* ... and the one of HEAD, with its headers alone.                        *)
LEMMA HeadFits ==
    ASSUME R!DispatchAssumption, sent.method = "HEAD"
    PROVE  Fit(R!HeadResponse(R!Body("file")))
<1> DEFINE r == R!HeadResponse(R!Body("file"))
<1>1. R!Body("file") \in R!Contents
  <2>1. "file" \in Data
    BY DEF Data
  <2> QED
    BY <2>1, BodyContents
<1>2. r = [status |-> 200, body |-> R!Empty, encoding |-> None, length |-> R!Body("file"),
           file |-> None]
  BY Zenon DEF R!HeadResponse
<1>3. 200 \in Statuses
  BY DEF Statuses
<1>4. r \in Responses /\ r.body = R!Empty /\ r.encoding = None /\ r.file = None
  BY <1>1, <1>2, <1>3, EmptyContents, ResponseType
<1>5. Decodable(r)
  BY <1>4, EmptyContents, Zenon DEF Decodable
<1> QED
  BY <1>4, <1>5 DEF Fit

(* A sequence of at most one member.                                       *)
LEMMA OneAtMost ==
    ASSUME NEW S, NEW q \in Seq(S), q # <<>>, Len(q) <= 1
    PROVE  Len(q) = 1 /\ q[1] \in S /\ q = <<q[1]>>
<1>1. Len(q) \in Nat /\ Len(q) # 0
  OBVIOUS
<1>2. Len(q) = 1
  BY <1>1
<1>3. q[1] \in S
  BY <1>2
<1>4. <<q[1]>> \in Seq(S) /\ Len(<<q[1]>>) = 1 /\ <<q[1]>>[1] = q[1]
  BY <1>3
<1> QED
  BY <1>2, <1>3, <1>4

(* A response of a handler, which may have compressed its body.            *)
LEMMA HandlerFits ==
    ASSUME R!DispatchAssumption, NEW b \in Bodies
    PROVE  Fit(R!HandlerResponse(b))
<1> DEFINE r == R!HandlerResponse(b)
           coding == IF b.codings = <<>> THEN None ELSE b.codings[Len(b.codings)]
           length == IF b = R!Empty THEN None ELSE b
<1>1. /\ b \in R!Contents /\ b # None /\ Len(b.codings) <= 1 /\ b.codings \in Seq(R!Algorithms)
  <2>1. b \in R!Contents /\ Len(b.codings) <= 1 /\ None \notin R!Contents
    BY Zenon DEF R!DispatchAssumption
  <2> QED
    BY <2>1 DEF R!Contents
<1>2. /\ b.codings = <<>> => coding = None
      /\ b.codings # <<>> => coding \in R!Algorithms /\ b.codings = <<coding>>
  <2>1. ASSUME b.codings # <<>>
        PROVE  /\ b.codings[Len(b.codings)] \in R!Algorithms
               /\ b.codings = <<b.codings[Len(b.codings)]>>
    <3>1. Len(b.codings) = 1 /\ b.codings[1] \in R!Algorithms /\ b.codings = <<b.codings[1]>>
      BY <1>1, <2>1, OneAtMost
    <3> QED
      BY <3>1, Zenon
  <2> QED
    BY <2>1
<1> HIDE DEF coding, length
<1>3. /\ r.body = b /\ r.encoding = coding /\ r.length = length /\ r.file = None
  BY DEF R!HandlerResponse, coding, length
<1>4. /\ length \in {None} \cup R!Contents /\ coding \in {None} \cup R!Algorithms
      /\ b = IF length = None THEN R!Empty ELSE length
  BY <1>1, <1>2 DEF length
<1>5. r \in Responses
  <2>1. r = [status |-> 200, body |-> b, encoding |-> coding, length |-> length, file |-> None]
    BY Zenon DEF R!HandlerResponse, coding, length
  <2>2. 200 \in Statuses
    BY DEF Statuses
  <2>3. b \in R!Contents
    BY <1>1, Zenon
  <2> HIDE DEF r, R!Algorithms
  <2> QED
    BY <1>4, <2>1, <2>2, <2>3, ResponseType
<1>6. None \notin R!Algorithms
  BY NoneApart
<1>7. Decodable(r)
  BY <1>2, <1>3, <1>4, <1>6, Zenon DEF Decodable
<1> QED
  BY <1>5, <1>7 DEF Fit

(* Compression leaves or makes a response that can be decoded.             *)
LEMMA CompressedFits ==
    ASSUME R!DispatchAssumption, Asking, NEW r, Fit(r), NEW c \in R!Compressions(r)
    PROVE  Fit(c)
<1> DEFINE algo == IF R!SkipsCompression(r) THEN None ELSE R!parse_accept_encoding(req.accepts)
           b == [r.body EXCEPT !.codings = Append(@, algo)]
<1>1. CASE c = r
  BY <1>1
<1>2. CASE c # r
  <2>1. algo # None /\ c = [r EXCEPT !.body = b, !.encoding = algo, !.length = b]
    BY <1>2, Zenon DEF R!Compressions
  <2>2. /\ r.encoding = None /\ r.body.data = "large" /\ req.accepts # None
        /\ algo = R!parse_accept_encoding(req.accepts)
    BY <2>1, Zenon DEF R!SkipsCompression
  <2>3. /\ algo \in R!Algorithms /\ sent.accepts # None
        /\ \E a \in sent.accepts : a.name = algo /\ a.q > 0
    BY <2>1, <2>2, ParsedRequest, ChosenIsAccepted
  <2>4. r.body.codings = <<>> /\ r \in Responses /\ r.body \in R!Contents
    BY <2>2 DEF Fit, Decodable, Responses
  <2>5. r.file = None
    <3>1. r.file # None => r.body = R!Empty
      BY Zenon DEF Fit, Decodable
    <3>2. R!Empty.data = "nothing"
      BY DEF R!Empty, R!Body
    <3> QED
      BY <2>2, <3>1, <3>2
  <2> HIDE DEF algo
  <2>6. b.codings = <<algo>> /\ b \in R!Contents
    <3>1. \A q \in Seq(R!Algorithms) : q = <<>> => Append(q, algo) = <<algo>>
      OBVIOUS
    <3>2. r.body \in [data : Data, codings : Seq(R!Algorithms), type : {"text", "image"}]
      BY <2>4, Zenon DEF R!Contents, Data
    <3>3. <<algo>> \in Seq(R!Algorithms) /\ <<>> \in Seq(R!Algorithms)
      BY <2>3
    <3>4. b = [r.body EXCEPT !.codings = <<algo>>]
      BY <2>4, <3>1, <3>3
    <3> HIDE DEF b, R!Algorithms
    <3> QED
      BY <3>2, <3>3, <3>4 DEF R!Contents, Data
  <2> HIDE DEF b
  <2>7. /\ c.body = b /\ c.encoding = algo /\ c.length = b /\ c.file = None /\ c \in Responses
    <3> HIDE DEF R!Contents, R!Algorithms
    <3>1. r \in [status : Statuses, body : R!Contents, encoding : {None} \cup R!Algorithms,
                 length : {None} \cup R!Contents, file : {None} \cup R!Contents]
      BY <2>4, Zenon DEF Responses, Statuses
    <3>2. /\ c.body = b /\ c.encoding = algo /\ c.length = b /\ c.file = None
          /\ c = [status |-> r.status, body |-> b, encoding |-> algo, length |-> b,
                   file |-> None]
      BY <2>1, <2>5, <3>1
    <3> QED
      BY <2>3, <2>6, <3>1, <3>2, ResponseType
  <2>8. None \notin R!Contents /\ None \notin R!Algorithms
    BY NoneApart
  <2>9. Decodable(c)
    BY <2>3, <2>6, <2>7, <2>8, Zenon DEF Decodable
  <2> QED
    BY <2>7, <2>9 DEF Fit
<1> QED
  BY <1>1, <1>2

-----------------------------------------------------------------------------
(* The steps.                                                              *)
(* The members of a sequence.                                              *)
LEMMA Member ==
    ASSUME NEW T, NEW s \in Seq(T), NEW i \in DOMAIN s
    PROVE  s[i] \in T
  OBVIOUS

(* What a step does not touch, it keeps.                                   *)
LEMMA AskingKept ==
    ASSUME Asking, UNCHANGED R!configVars,
           stage' \in {"view", "route", "next", "return", "send", "sent"}
    PROVE  Asking'
  BY Zenon DEF Asking, R!configVars

LEMMA CallingKept ==
    ASSUME Calling, UNCHANGED <<chain, calls>>
    PROVE  Calling'
  BY Zenon DEF Calling

LEMMA ChosenKept ==
    ASSUME Chosen, UNCHANGED <<req, handler, ran>>,
           stage' \notin {"view", "route"} \/ UNCHANGED stage
    PROVE  Chosen'
  BY Zenon DEF Chosen, Called

LEMMA FittingKept ==
    ASSUME Fitting, stage # "sent", UNCHANGED <<sent, wire>>, Fit(resp')
    PROVE  Fitting'
<1>1. wire = None
  BY Zenon DEF Fitting
<1> QED
  BY <1>1, Zenon DEF Fitting, Fit, Decodable

(* The first state.                                                        *)
LEMMA InitOK ==
    ASSUME R!DispatchAssumption, R!Init
    PROVE  DispatchInv
<1>1. Asking
  BY Zenon DEF R!Init, Asking
<1>2. Calling
  <2>1. calls = <<>> /\ chain \in Chains
    BY Zenon DEF R!Init
  <2>2. chain \in Seq({"compression", "static", "guard", "retry"})
    BY <2>1, Zenon DEF R!DispatchAssumption
  <2>3. Len(chain) \in Nat
    BY <2>2
  <2> QED
    BY <2>1, <2>3 DEF Calling
<1>3. Chosen
  BY Zenon DEF R!Init, Chosen
<1>4. Fitting
  <2>1. "nothing" \in Data /\ 0 \in Statuses
    BY DEF Data, Statuses
  <2>2. Fit(resp) /\ wire = None
    BY <2>1, PlainFits, Zenon DEF R!Init, R!Exception, R!Empty
  <2> QED
    BY <2>2, Zenon DEF Fitting, Fit
<1> QED
  BY <1>1, <1>2, <1>3, <1>4 DEF DispatchInv

(* What the program makes itself, an exception included.                   *)
LEMMA OwnResponsesFit ==
    ASSUME R!DispatchAssumption
    PROVE  /\ Fit(R!Response(200, R!Body("large"))) /\ Fit(R!Response(206, R!Body("large")))
           /\ Fit(R!Response(400, R!Body("small"))) /\ Fit(R!Response(401, R!Body("small")))
           /\ Fit(R!InternalError) /\ Fit(R!NotFound) /\ Fit(R!Exception)
<1>1. "nothing" \in Data /\ "small" \in Data /\ "large" \in Data
  BY DEF Data
<1>2. /\ 0 \in Statuses /\ 200 \in Statuses /\ 206 \in Statuses /\ 400 \in Statuses
      /\ 401 \in Statuses /\ 404 \in Statuses /\ 500 \in Statuses
  BY DEF Statuses
<1>3. \A n \in Statuses :
         /\ Fit(R!Response(n, R!Body("nothing"))) /\ Fit(R!Response(n, R!Body("small")))
         /\ Fit(R!Response(n, R!Body("large")))
  BY <1>1, PlainFits, Zenon
<1>4. Fit(R!Response(200, R!Body("large"))) /\ Fit(R!Response(206, R!Body("large")))
  BY <1>2, <1>3, Zenon
<1>5. Fit(R!Response(400, R!Body("small"))) /\ Fit(R!Response(401, R!Body("small")))
  <2>1. 400 \in Statuses /\ 401 \in Statuses
    BY <1>2
  <2> QED
    BY <1>3, <2>1
<1>6. Fit(R!InternalError) /\ Fit(R!NotFound)
  <2>1. 500 \in Statuses /\ 404 \in Statuses
    BY <1>2
  <2> QED
    BY <1>3, <2>1 DEF R!InternalError, R!NotFound
<1>7. Fit(R!Exception)
  BY <1>2, <1>3, Zenon DEF R!Exception, R!Empty
<1> QED
  BY <1>4, <1>5, <1>6, <1>7, Zenon

LEMMA ViewOK ==
    ASSUME R!DispatchAssumption, DispatchInv, R!View
    PROVE  DispatchInv'
<1>1. /\ stage = "view" /\ stage' \in {"send", "route"}
      /\ UNCHANGED <<R!configVars, handler, calls, ran, wire>>
      /\ resp' = resp \/ resp' = R!Response(200, R!Body("large")) \/ resp' = R!InternalError
  BY Zenon DEF R!View
<1>2. Asking' /\ Calling'
  BY <1>1, AskingKept, CallingKept, Zenon DEF DispatchInv, R!configVars
<1>3. Chosen'
  BY <1>1, Zenon DEF DispatchInv, Chosen, Called, R!configVars
<1>4. Fit(resp')
  <2>1. Fit(resp)
    BY Zenon DEF DispatchInv, Fitting, Fit
  <2>2. Fit(R!Response(200, R!Body("large"))) /\ Fit(R!InternalError)
    BY OwnResponsesFit, Zenon
  <2>3. \/ resp' = resp
        \/ resp' = R!Response(200, R!Body("large")) \/ resp' = R!InternalError
    BY <1>1, Zenon
  <2> QED
    BY <2>1, <2>2, <2>3, Zenon
<1>5. Fitting'
  <2>1. stage # "sent"
    BY <1>1
  <2> QED
    BY <1>1, <1>4, <2>1, FittingKept, Zenon DEF DispatchInv, R!configVars
<1> QED
  BY <1>2, <1>3, <1>5 DEF DispatchInv

LEMMA RouteOK ==
    ASSUME R!DispatchAssumption, DispatchInv, R!Route
    PROVE  DispatchInv'
<1>1. /\ stage = "route" /\ stage' = "next" /\ handler' = R!match(req.method, req.path)
      /\ UNCHANGED <<R!configVars, calls, resp, ran, wire>>
  BY Zenon DEF R!Route
<1>2. Asking' /\ Calling'
  BY <1>1, AskingKept, CallingKept, Zenon DEF DispatchInv, R!configVars
<1>3. Chosen'
  <2>1. ran = <<>>
    BY <1>1, Zenon DEF DispatchInv, Chosen
  <2>2. /\ stage' \notin {"view", "route"} /\ ran' = <<>>
        /\ handler' = R!match(req.method, req.path)
    BY <1>1, <2>1
  <2>3. req' = req
    BY <1>1 DEF R!configVars
  <2> QED
    BY <2>2, <2>3, Zenon DEF Chosen
<1>4. Fitting'
  <2>1. stage # "sent" /\ resp' = resp
    BY <1>1
  <2>2. Fit(resp')
    BY <2>1, Zenon DEF DispatchInv, Fitting, Fit
  <2> QED
    BY <1>1, <2>1, <2>2, FittingKept, Zenon DEF DispatchInv, R!configVars
<1> QED
  BY <1>2, <1>3, <1>4 DEF DispatchInv

LEMMA CallHandlerOK ==
    ASSUME R!DispatchAssumption, DispatchInv, R!CallHandler
    PROVE  DispatchInv'
<1>1. /\ stage = "next" /\ stage' = "return"
      /\ UNCHANGED <<R!configVars, handler, calls, wire>>
  BY Zenon DEF R!CallHandler
<1>2. Asking' /\ Calling'
  BY <1>1, AskingKept, CallingKept, Zenon DEF DispatchInv, R!configVars
<1>3. \/ ran' = ran /\ (resp' = R!NotFound \/ resp' = R!Response(400, R!Body("small")))
      \/ /\ handler.route # None /\ R!ParamsValid(Routes[handler.route].types, handler.params)
         /\ (\E b \in Bodies : resp' = R!HandlerResponse(b)) \/ resp' = R!Exception
         /\ ran' = Append(ran, Called)
  BY Zenon DEF R!CallHandler, Called
<1>4. Chosen'
  <2>1. CASE ran' = ran
    <3>1. stage' \notin {"view", "route"}
      BY <1>1
    <3> QED
      BY <1>1, <2>1, <3>1, ChosenKept, Zenon DEF DispatchInv, R!configVars
  <2>2. CASE /\ handler.route # None
             /\ R!ParamsValid(Routes[handler.route].types, handler.params)
             /\ ran' = Append(ran, Called)
    <3>1. ran \in Seq({Called})
      <4>1. <<>> \in Seq({Called})
        OBVIOUS
      <4> QED
        BY <4>1, Zenon DEF DispatchInv, Chosen
    <3>2. ran' \in Seq({Called})
      BY <2>2, <3>1
    <3>3. Called' = Called /\ UNCHANGED <<req, handler>>
      BY <1>1, Zenon DEF Called, R!configVars
    <3>4. stage' \notin {"view", "route"}
      BY <1>1
    <3>5. handler = R!NoMatch \/ handler = R!match(req.method, req.path)
      BY Zenon DEF DispatchInv, Chosen
    <3> QED
      BY <2>2, <3>2, <3>3, <3>4, <3>5, Zenon DEF Chosen
  <2> QED
    BY <1>3, <2>1, <2>2, Zenon
<1>5. Fit(resp')
  <2>1. /\ Fit(R!NotFound) /\ Fit(R!Response(400, R!Body("small"))) /\ Fit(R!Exception)
        /\ \A b \in Bodies : Fit(R!HandlerResponse(b))
    BY OwnResponsesFit, HandlerFits, Zenon
  <2>2. \/ resp' = R!NotFound \/ resp' = R!Response(400, R!Body("small")) \/ resp' = R!Exception
        \/ \E b \in Bodies : resp' = R!HandlerResponse(b)
    BY <1>3, Zenon
  <2> QED
    BY <2>1, <2>2, Zenon
<1>6. Fitting'
  <2>1. stage # "sent"
    BY <1>1
  <2> QED
    BY <1>1, <1>5, <2>1, FittingKept, Zenon DEF DispatchInv, R!configVars
<1> QED
  BY <1>2, <1>4, <1>6 DEF DispatchInv

(* The middleware next in line is the one after the calls.                 *)
LEMMA IdxIsNext ==
    ASSUME Calling
    PROVE  R!Idx = Len(calls) + 1
<1>1. calls \in Seq([idx : Nat, tries : Nat]) /\ \A k \in DOMAIN calls : calls[k].idx = k
  BY DEF Calling
<1>2. CASE calls = <<>>
  BY <1>2 DEF R!Idx
<1>3. CASE calls # <<>>
  <2>1. Len(calls) \in DOMAIN calls
    BY <1>1, <1>3
  <2>2. calls[Len(calls)].idx = Len(calls)
    BY <1>1, <2>1
  <2> QED
    BY <1>3, <2>2 DEF R!Idx
<1> QED
  BY <1>2, <1>3

LEMMA CallNextOK ==
    ASSUME R!DispatchAssumption, DispatchInv, R!CallNext
    PROVE  DispatchInv'
<1>1. /\ stage = "next" /\ R!Idx <= Len(chain)
      /\ calls' = Append(calls, [idx |-> R!Idx, tries |-> 1])
      /\ UNCHANGED <<R!configVars, stage, handler, resp, ran, wire>>
  BY Zenon DEF R!CallNext
<1>2. Asking'
  <2>1. stage' \in {"view", "route", "next", "return", "send", "sent"}
    BY <1>1
  <2> QED
    BY <1>1, <2>1, AskingKept, Zenon DEF DispatchInv, R!configVars
<1>3. Calling'
  <2>1. calls \in Seq([idx : Nat, tries : Nat]) /\ \A k \in DOMAIN calls : calls[k].idx = k
    BY DEF DispatchInv, Calling
  <2>2. PICK n \in Nat : n = Len(calls) /\ DOMAIN calls = 1 .. n
    BY <2>1
  <2>3. R!Idx = n + 1
    BY <2>2, IdxIsNext DEF DispatchInv
  <2>4. [idx |-> R!Idx, tries |-> 1] \in [idx : Nat, tries : Nat]
    BY <2>3
  <2>5. /\ calls' \in Seq([idx : Nat, tries : Nat]) /\ Len(calls') = n + 1
        /\ DOMAIN calls' = 1 .. (n + 1) /\ calls'[n + 1] = [idx |-> R!Idx, tries |-> 1]
        /\ \A k \in 1 .. n : calls'[k] = calls[k]
    BY <1>1, <2>1, <2>2, <2>4, AppendProperties
  <2>6. ASSUME NEW k \in 1 .. (n + 1) PROVE calls'[k].idx = k
    <3>1. k \in 1 .. n \/ k = n + 1
      OBVIOUS
    <3>2. CASE k \in 1 .. n
      BY <2>1, <2>2, <2>5, <3>2, Zenon
    <3>3. CASE k = n + 1
      BY <2>3, <2>5, <3>3
    <3> QED
      BY <3>1, <3>2, <3>3
  <2>7. Len(calls') <= Len(chain') /\ DOMAIN calls' = 1 .. (n + 1)
    BY <1>1, <2>3, <2>5 DEF R!configVars
  <2> QED
    BY <2>5, <2>6, <2>7, Zenon DEF Calling
<1>4. Chosen'
  BY <1>1, ChosenKept, Zenon DEF DispatchInv, R!configVars
<1>5. Fitting'
  <2>1. stage # "sent" /\ resp' = resp
    BY <1>1
  <2>2. Fit(resp')
    BY <2>1, Zenon DEF DispatchInv, Fitting, Fit
  <2> QED
    BY <1>1, <2>1, <2>2, FittingKept, Zenon DEF DispatchInv, R!configVars
<1> QED
  BY <1>2, <1>3, <1>4, <1>5 DEF DispatchInv

LEMMA ServeFileOK ==
    ASSUME R!DispatchAssumption, DispatchInv, R!ServeFile
    PROVE  DispatchInv'
<1>1. /\ stage = "next" /\ stage' = "return"
      /\ UNCHANGED <<R!configVars, handler, calls, ran, wire>>
      /\ \/ resp' = R!Response(206, R!Body("large"))
         \/ req.method = "HEAD" /\ resp' = R!HeadResponse(R!Body("file"))
         \/ resp' = R!FileResponse(R!Body("file"))
  BY Zenon DEF R!ServeFile, R!PartResponse
<1>2. Asking' /\ Calling'
  BY <1>1, AskingKept, CallingKept, Zenon DEF DispatchInv, R!configVars
<1>3. Chosen' /\ stage # "sent"
  <2>1. stage' \notin {"view", "route"} /\ stage # "sent"
    BY <1>1
  <2> QED
    BY <1>1, <2>1, ChosenKept, Zenon DEF DispatchInv, R!configVars
<1>4. Fit(resp')
  <2>1. req.method = sent.method
    BY ParsedRequest DEF DispatchInv
  <2>2. Fit(R!Response(206, R!Body("large"))) /\ Fit(R!FileResponse(R!Body("file")))
    BY OwnResponsesFit, FileFits, Zenon
  <2>3. req.method = "HEAD" => Fit(R!HeadResponse(R!Body("file")))
    BY <2>1, HeadFits, Zenon
  <2>4. \/ resp' = R!Response(206, R!Body("large"))
        \/ req.method = "HEAD" /\ resp' = R!HeadResponse(R!Body("file"))
        \/ resp' = R!FileResponse(R!Body("file"))
    BY <1>1, Zenon
  <2> QED
    BY <2>2, <2>3, <2>4, Zenon
<1>5. Fitting'
  BY <1>1, <1>3, <1>4, FittingKept, Zenon DEF DispatchInv, R!configVars
<1> QED
  BY <1>2, <1>3, <1>5 DEF DispatchInv

LEMMA RefuseOK ==
    ASSUME R!DispatchAssumption, DispatchInv, R!Refuse
    PROVE  DispatchInv'
<1>1. /\ stage = "next" /\ stage' = "return"
      /\ UNCHANGED <<R!configVars, handler, calls, ran, wire>>
      /\ resp' = R!Response(401, R!Body("small")) \/ resp' = R!Exception
  BY Zenon DEF R!Refuse
<1>2. Asking' /\ Calling'
  BY <1>1, AskingKept, CallingKept, Zenon DEF DispatchInv, R!configVars
<1>3. Chosen' /\ stage # "sent"
  <2>1. stage' \notin {"view", "route"} /\ stage # "sent"
    BY <1>1
  <2> QED
    BY <1>1, <2>1, ChosenKept, Zenon DEF DispatchInv, R!configVars
<1>4. Fit(resp')
  BY <1>1, OwnResponsesFit, Zenon
<1>5. Fitting'
  BY <1>1, <1>3, <1>4, FittingKept, Zenon DEF DispatchInv, R!configVars
<1> QED
  BY <1>2, <1>3, <1>5 DEF DispatchInv

LEMMA ReturnOK ==
    ASSUME R!DispatchAssumption, DispatchInv, R!Return
    PROVE  DispatchInv'
<1> DEFINE n == Len(calls)
<1>1. /\ stage = "return" /\ calls # <<>>
      /\ UNCHANGED <<R!configVars, handler, ran, wire>>
      /\ \/ /\ calls' = [calls EXCEPT ![n].tries = @ + 1]
            /\ stage' = "next" /\ resp' = resp
         \/ /\ calls' = SubSeq(calls, 1, n - 1)
            /\ resp' \in R!Compressions(resp) \/ resp' = resp
            /\ stage' = "return"
  BY Zenon DEF R!Return
<1>2. Asking'
  BY <1>1, AskingKept, Zenon DEF DispatchInv
<1>3. Calling'
  <2>1. /\ calls \in Seq([idx : Nat, tries : Nat]) /\ \A k \in DOMAIN calls : calls[k].idx = k
        /\ Len(calls) <= Len(chain)
    BY DEF DispatchInv, Calling
  <2>2. n \in Nat /\ n # 0 /\ DOMAIN calls = 1 .. n
    BY <1>1, <2>1
  <2>3. chain' = chain
    BY <1>1, Zenon DEF R!configVars
  <2>4. Len(chain) \in Nat
    <3>1. chain \in Seq({"compression", "static", "guard", "retry"})
      BY Zenon DEF DispatchInv, Asking, R!DispatchAssumption
    <3> QED
      BY <3>1
  <2>5. CASE calls' = [calls EXCEPT ![n].tries = @ + 1]
    <3>1. calls[n] \in [idx : Nat, tries : Nat]
      <4>1. n \in DOMAIN calls
        BY <2>2
      <4> HIDE DEF n
      <4> QED
        BY <2>1, <4>1, Member, Zenon
    <3> DEFINE c == [calls[n] EXCEPT !.tries = @ + 1]
    <3>2. c \in [idx : Nat, tries : Nat] /\ c.idx = calls[n].idx
      BY <3>1
    <3>3. calls' = [calls EXCEPT ![n] = c]
      BY <2>5, Zenon
    <3> HIDE DEF c
    <3> HIDE DEF n
    <3>4. /\ calls' \in Seq([idx : Nat, tries : Nat]) /\ Len(calls') = Len(calls)
          /\ DOMAIN calls' = DOMAIN calls
          /\ \A k \in DOMAIN calls : calls'[k] = IF k = n THEN c ELSE calls[k]
      BY <2>1, <2>2, <3>2, <3>3
    <3>5. \A k \in DOMAIN calls : calls'[k].idx = calls[k].idx
      BY <3>2, <3>4, Zenon
    <3> QED
      BY <2>1, <2>3, <3>4, <3>5, Zenon DEF Calling
  <2>6. CASE calls' = SubSeq(calls, 1, n - 1)
    <3>1. /\ calls' \in Seq([idx : Nat, tries : Nat]) /\ Len(calls') = n - 1
          /\ \A k \in 1 .. (n - 1) : calls'[k] = calls[k]
      <4>1. 1 \in 1 .. Len(calls) + 1 /\ n - 1 \in (1 - 1) .. Len(calls)
        BY <2>2
      <4> HIDE DEF n
      <4>2. /\ calls' \in Seq([idx : Nat, tries : Nat]) /\ Len(calls') = (n - 1) - 1 + 1
            /\ \A k \in 1 .. ((n - 1) - 1 + 1) : calls'[k] = calls[1 + k - 1]
        <5> DEFINE T == [idx : Nat, tries : Nat]
                   s == SubSeq(calls, 1, n - 1)
        <5> HIDE DEF T
        <5>1. calls \in Seq(T)
          BY <2>1 DEF T
        <5>2. /\ s \in Seq(T) /\ Len(s) = (n - 1) - 1 + 1
              /\ \A k \in 1 .. ((n - 1) - 1 + 1) : s[k] = calls[1 + k - 1]
          BY <4>1, <5>1, SubSeqProperties
        <5>3. calls' = s
          BY <2>6
        <5> HIDE DEF s
        <5> QED
          BY <5>2, <5>3, Zenon DEF T
      <4>3. (n - 1) - 1 + 1 = n - 1 /\ \A k \in 1 .. (n - 1) : 1 + k - 1 = k
        BY <2>2
      <4> QED
        BY <4>2, <4>3
    <3>2. DOMAIN calls' = 1 .. (n - 1) /\ \A k \in 1 .. (n - 1) : k \in DOMAIN calls
      BY <2>2, <3>1
    <3>3. \A k \in DOMAIN calls' : calls'[k].idx = k
      BY <2>1, <3>1, <3>2, Zenon
    <3>4. Len(calls') <= Len(chain)
      BY <2>1, <2>2, <2>4, <3>1
    <3> QED
      BY <2>3, <3>1, <3>3, <3>4, Zenon DEF Calling
  <2> QED
    BY <1>1, <2>5, <2>6, Zenon
<1>4. Chosen' /\ stage # "sent"
  <2>1. stage' \notin {"view", "route"} /\ stage # "sent"
    BY <1>1
  <2> QED
    BY <1>1, <2>1, ChosenKept, Zenon DEF DispatchInv, R!configVars
<1>5. Fit(resp')
  <2>1. Fit(resp)
    BY Zenon DEF DispatchInv, Fitting, Fit
  <2> QED
    BY <1>1, <2>1, CompressedFits, Zenon DEF DispatchInv
<1>6. Fitting'
  BY <1>1, <1>4, <1>5, FittingKept, Zenon DEF DispatchInv, R!configVars
<1> QED
  BY <1>2, <1>3, <1>4, <1>6 DEF DispatchInv

LEMMA LeaveOK ==
    ASSUME R!DispatchAssumption, DispatchInv, R!Leave
    PROVE  DispatchInv'
<1>1. /\ stage = "return" /\ stage' = "send"
      /\ UNCHANGED <<R!configVars, handler, calls, ran, wire>>
      /\ resp' = R!InternalError \/ resp' = resp
  BY Zenon DEF R!Leave
<1>2. Asking' /\ Calling'
  BY <1>1, AskingKept, CallingKept, Zenon DEF DispatchInv, R!configVars
<1>3. Chosen' /\ stage # "sent"
  <2>1. stage' \notin {"view", "route"} /\ stage # "sent"
    BY <1>1
  <2> QED
    BY <1>1, <2>1, ChosenKept, Zenon DEF DispatchInv, R!configVars
<1>4. Fit(resp')
  <2>1. Fit(resp)
    BY Zenon DEF DispatchInv, Fitting, Fit
  <2>2. Fit(R!InternalError)
    BY OwnResponsesFit, Zenon
  <2>3. resp' = resp \/ resp' = R!InternalError
    BY <1>1, Zenon
  <2> QED
    BY <2>1, <2>2, <2>3, Zenon
<1>5. Fitting'
  BY <1>1, <1>3, <1>4, FittingKept, Zenon DEF DispatchInv, R!configVars
<1> QED
  BY <1>2, <1>3, <1>5 DEF DispatchInv

LEMMA SendOK ==
    ASSUME R!DispatchAssumption, DispatchInv, R!Send
    PROVE  DispatchInv'
<1>1. /\ stage = "send" /\ stage' = "sent"
      /\ UNCHANGED <<R!configVars, handler, calls, resp, ran>>
      /\ wire' = [status |-> resp.status, encoding |-> resp.encoding, length |-> resp.length,
                  body |-> R!SentBody]
  BY Zenon DEF R!Send
<1>2. Asking' /\ Calling'
  BY <1>1, AskingKept, CallingKept, Zenon DEF DispatchInv, R!configVars
<1>3. Chosen'
  <2>1. stage' \notin {"view", "route"}
    BY <1>1
  <2> QED
    BY <1>1, <2>1, ChosenKept, Zenon DEF DispatchInv, R!configVars
<1>4. Fitting'
  <2>1. UNCHANGED <<req, sent, resp>>
    BY <1>1, Zenon DEF R!configVars
  <2>2. R!SentBody' = R!SentBody
    BY <2>1, Zenon DEF R!SentBody
  <2>3. (resp \in Responses /\ Decodable(resp))'
    BY <2>1, Zenon DEF DispatchInv, Fitting, Decodable
  <2> QED
    BY <1>1, <2>1, <2>2, <2>3, Zenon DEF Fitting
<1> QED
  BY <1>2, <1>3, <1>4 DEF DispatchInv

LEMMA NextOK ==
    ASSUME R!DispatchAssumption, DispatchInv, [R!Next]_(R!vars)
    PROVE  DispatchInv'
<1>1. CASE UNCHANGED R!vars
  BY <1>1, Zenon DEF R!vars, DispatchInv, Asking, Calling, Chosen, Called, Fitting,
                     Decodable, R!SentBody
<1> QED
  BY <1>1, ViewOK, RouteOK, CallHandlerOK, CallNextOK, ServeFileOK, RefuseOK, ReturnOK, LeaveOK,
     SendOK, Zenon DEF R!Next

-----------------------------------------------------------------------------
(* What the invariant says of the properties.                              *)
(* A route that was chosen is the last registered that matches.            *)
LEMMA HandlerIsLast ==
    ASSUME R!DispatchAssumption, DispatchInv, handler # R!NoMatch
    PROVE  /\ handler.route \in DOMAIN Routes
           /\ R!Matches(Routes[handler.route].pattern, req.path)
           /\ \A later \in DOMAIN Routes :
                 later > handler.route /\ Routes[later].method = Routes[handler.route].method
                   => ~R!Matches(Routes[later].pattern, req.path)
           /\ handler.params = R!Groups(Routes[handler.route].pattern, req.path)
<1>1. PICK method, path, route :
         method = req.method /\ path = req.path /\ route = handler.route
  OBVIOUS
<1>2. handler = R!match(method, path)
  BY <1>1, Zenon DEF DispatchInv, Chosen
<1>3. R!match(method, path) # R!NoMatch /\ route = R!match(method, path).route
  BY <1>1, <1>2, Zenon
<1>4. /\ route \in DOMAIN Routes
      /\ R!Matches(Routes[route].pattern, path)
      /\ \A later \in DOMAIN Routes :
           later > route /\ Routes[later].method = Routes[route].method
             => ~R!Matches(Routes[later].pattern, path)
      /\ R!match(method, path).params = R!Groups(Routes[route].pattern, path)
  BY <1>3, MatchIsLast, Zenon
<1> QED
  BY <1>1, <1>2, <1>4, Zenon

LEMMA TypeHolds ==
    ASSUME R!DispatchAssumption, DispatchInv
    PROVE  R!TypeOK
<1>1. handler.route \in DOMAIN Routes \cup {None}
  <2>1. CASE handler = R!NoMatch
    BY <2>1 DEF R!NoMatch
  <2>2. CASE handler # R!NoMatch
    BY <2>2, HandlerIsLast, Zenon
  <2> QED
    BY <2>1, <2>2
<1>2. resp.status \in {0, 200, 206, 400, 401, 404, 500}
  BY DEF DispatchInv, Fitting, Responses
<1> QED
  BY <1>1, <1>2, Zenon DEF DispatchInv, Asking, Calling, R!TypeOK

(* What was sent is what the response said, and that can be decoded.       *)
LEMMA Answered ==
    ASSUME R!DispatchAssumption, DispatchInv
    PROVE  R!AnswerFits
<1> SUFFICES ASSUME wire # None
             PROVE  /\ IF wire.encoding = None THEN wire.body.codings = <<>>
                       ELSE /\ wire.body.codings = <<wire.encoding>>
                            /\ \/ wire.body \in Bodies
                               \/ \E c \in sent.accepts : c.name = wire.encoding /\ c.q > 0
                    /\ sent.method # "HEAD" /\ (resp.file = None \/ sent.protocol = "http1") =>
                         wire.body = IF wire.length = None THEN R!Empty ELSE wire.length
  BY Zenon DEF R!AnswerFits
<1>1. wire.encoding = resp.encoding /\ wire.length = resp.length /\ wire.body = R!SentBody
  BY DEF DispatchInv, Fitting
<1>2. Decodable(resp)
  BY DEF DispatchInv, Fitting
<1>3. req.protocol = sent.protocol /\ req.method = sent.method
  BY ParsedRequest DEF DispatchInv
<1>4. CASE req.protocol = "http1" /\ resp.file # None /\ req.method # "HEAD"
  <2>1. wire.body = resp.file
    BY <1>1, <1>4, Zenon DEF R!SentBody
  <2>2. resp.encoding = None /\ resp.file.codings = <<>> /\ resp.length = resp.file
    BY <1>2, <1>4, Zenon DEF Decodable
  <2> QED
    BY <1>1, <1>4, <2>1, <2>2, Zenon
<1>5. CASE ~(req.protocol = "http1" /\ resp.file # None /\ req.method # "HEAD")
  <2>1. wire.body = resp.body
    BY <1>1, <1>5, Zenon DEF R!SentBody
  <2>2. /\ IF resp.encoding = None THEN resp.body.codings = <<>>
           ELSE /\ resp.body.codings = <<resp.encoding>>
                /\ \/ resp.body \in Bodies
                   \/ \E c \in sent.accepts : c.name = resp.encoding /\ c.q > 0
        /\ resp.file = None /\ sent.method # "HEAD" =>
             resp.body = IF resp.length = None THEN R!Empty ELSE resp.length
    BY <1>2, Zenon DEF Decodable
  <2>3. sent.method # "HEAD" /\ (resp.file = None \/ sent.protocol = "http1")
          => resp.file = None /\ sent.method # "HEAD"
    BY <1>3, <1>5, Zenon
  <2> QED
    BY <1>1, <2>1, <2>2, <2>3, Zenon
<1> QED
  BY <1>4, <1>5

(* A handler has run only for the last match, with what its braces are.    *)
LEMMA Routed ==
    ASSUME R!DispatchAssumption, DispatchInv
    PROVE  R!RoutedAsRegistered
<1> DEFINE text(i) ==
             IF sent.path[i] \in DOMAIN Decode THEN Decode[sent.path[i]] ELSE sent.path[i]
<1> SUFFICES ASSUME NEW k \in DOMAIN ran, NEW r, r = Routes[ran[k].route]
             PROVE  /\ R!Matches(r.pattern, req.path)
                    /\ \A later \in DOMAIN Routes :
                         later > ran[k].route /\ Routes[later].method = r.method
                           => ~R!Matches(Routes[later].pattern, req.path)
                    /\ sent.protocol = "http1" /\ R!PlainRoute(r) =>
                         \A n \in DOMAIN ran[k].args :
                            /\ ran[k].args[n] = <<text(R!Nth(R!Braces(r.pattern), n))>>
                            /\ r.types[n] = "number" => R!IsNumber(ran[k].args[n])
  BY Zenon DEF R!RoutedAsRegistered
<1>1. /\ handler.route # None /\ ran \in Seq({Called})
      /\ R!ParamsValid(Routes[handler.route].types, handler.params)
  <2>1. ran # <<>>
    OBVIOUS
  <2> QED
    BY <2>1, Zenon DEF DispatchInv, Chosen
<1>2. ran[k] = Called
  <2>1. ran[k] \in {Called}
    BY <1>1
  <2> QED
    BY <2>1
<1>3. ran[k].route = handler.route /\ ran[k].args = SubSeq(handler.params, 1, Len(r.types))
  <2>1. Called.route = handler.route
        /\ Called.args = SubSeq(handler.params, 1, Len(Routes[handler.route].types))
    BY DEF Called
  <2> QED
    BY <1>2, <2>1
<1>4. handler # R!NoMatch /\ handler = R!match(req.method, req.path)
  <2>1. R!NoMatch.route = None
    BY DEF R!NoMatch
  <2>2. handler # R!NoMatch
    BY <1>1, <2>1, Zenon
  <2> QED
    BY <2>2, Zenon DEF DispatchInv, Chosen
<1>5. /\ handler.route \in DOMAIN Routes
      /\ R!Matches(r.pattern, req.path)
      /\ \A later \in DOMAIN Routes :
            later > handler.route /\ Routes[later].method = r.method
              => ~R!Matches(Routes[later].pattern, req.path)
      /\ handler.params = R!Groups(r.pattern, req.path)
  BY <1>3, <1>4, HandlerIsLast, Zenon
<1>6. ASSUME sent.protocol = "http1", R!PlainRoute(r), NEW n \in DOMAIN ran[k].args
      PROVE  /\ ran[k].args[n] = <<text(R!Nth(R!Braces(r.pattern), n))>>
             /\ r.types[n] = "number" => R!IsNumber(ran[k].args[n])
  <2>1. r \in [method : STRING, pattern : Seq(STRING), types : Seq(STRING)]
    <3>1. Routes \in Seq([method : STRING, pattern : Seq(STRING), types : Seq(STRING)])
      BY Zenon DEF R!DispatchAssumption
    <3>2. Routes[handler.route]
            \in [method : STRING, pattern : Seq(STRING), types : Seq(STRING)]
      BY <1>5, <3>1, Member, Zenon
    <3> QED
      BY <1>3, <3>2, Zenon
  <2>2. r.pattern \in Seq(STRING) /\ r.types \in Seq(STRING)
    BY <2>1
  <2>3. PICK t \in Nat : t = Len(r.types) /\ DOMAIN r.types = 1 .. t
    BY <2>2
  <2> DEFINE groups == R!Groups(r.pattern, req.path)
             S == {groups[i] : i \in DOMAIN groups}
             c == Cardinality(R!Captures(r.pattern))
  <2>4. DOMAIN groups = 1 .. c
    BY RFinite, Zenon DEF R!Groups
  <2>5. c \in Nat
    <3>1. PICK top \in Nat : DOMAIN r.pattern = 1 .. top
      BY <2>2
    <3>2. R!Captures(r.pattern) \in SUBSET DOMAIN r.pattern
      BY Zenon DEF R!Captures
    <3> HIDE DEF c
    <3>3. IsFiniteSet(R!Captures(r.pattern))
      BY <3>1, <3>2, FS_Interval, FS_Subset
    <3> QED
      BY <3>3, FS_CardinalityType DEF c
  <2>6. \A i \in DOMAIN r.types :
          i \in DOMAIN groups /\ (r.types[i] = "number" => R!IsNumber(groups[i]))
    BY <1>1, <1>3, <1>5, Zenon DEF R!ParamsValid
  <2> HIDE DEF c
  <2>7. t <= c
    <3>1. t = 0 \/ t \in 1 .. t
      OBVIOUS
    <3>2. t = 0 \/ t \in 1 .. c
      BY <2>3, <2>4, <2>6, <3>1, Zenon
    <3> QED
      BY <2>5, <3>2
  <2>8. /\ DOMAIN ran[k].args = 1 .. t
        /\ \A i \in 1 .. t : ran[k].args[i] = groups[i]
    <3>1. groups \in Seq(S) /\ Len(groups) = c
      <4>1. groups \in [1 .. c -> S]
        BY <2>4 DEF R!Groups
      <4> HIDE DEF groups, S
      <4> QED
        BY <2>5, <4>1
    <3>2. ran[k].args = SubSeq(groups, 1, t)
      BY <1>3, <1>5, <2>3, Zenon
    <3>3. 1 \in 1 .. Len(groups) + 1 /\ t \in (1 - 1) .. Len(groups)
      BY <2>5, <2>7, <3>1
    <3> HIDE DEF groups, S
    <3>4. /\ SubSeq(groups, 1, t) \in Seq(S) /\ Len(SubSeq(groups, 1, t)) = t - 1 + 1
          /\ \A i \in 1 .. (t - 1 + 1) : SubSeq(groups, 1, t)[i] = groups[1 + i - 1]
      BY <3>1, <3>3, SubSeqProperties
    <3>5. t - 1 + 1 = t /\ \A i \in 1 .. t : 1 + i - 1 = i
      OBVIOUS
    <3>6. /\ DOMAIN SubSeq(groups, 1, t) = 1 .. t
          /\ \A i \in 1 .. t : SubSeq(groups, 1, t)[i] = groups[i]
      BY <3>4, <3>5
    <3> QED
      BY <3>2, <3>6, Zenon
  <2>9. n \in 1 .. t /\ ran[k].args[n] = groups[n]
    BY <1>6, <2>8
  <2>10. r.types[n] = "number" => R!IsNumber(ran[k].args[n])
    BY <2>3, <2>6, <2>9, Zenon
  <2>11. PICK b \in Nat : b = Cardinality(R!Braces(r.pattern))
    <3>1. PICK top \in Nat : DOMAIN r.pattern = 1 .. top
      BY <2>2
    <3>2. R!Braces(r.pattern) \in SUBSET DOMAIN r.pattern
      BY Zenon DEF R!Braces
    <3>3. IsFiniteSet(R!Braces(r.pattern))
      BY <3>1, <3>2, FS_Interval, FS_Subset
    <3> QED
      BY <3>3, FS_CardinalityType
  <2>12. n \in 1 .. Cardinality(R!Braces(r.pattern))
    <3>1. Len(r.types) <= Cardinality(R!Braces(r.pattern))
      BY <1>6, RFinite, Zenon DEF R!PlainRoute
    <3>2. t <= b
      BY <2>3, <2>11, <3>1, Zenon
    <3>3. n \in 1 .. b
      BY <2>9, <3>2
    <3> QED
      BY <2>11, <3>3
  <2>13. \A i \in R!Braces(r.pattern), j \in DOMAIN r.pattern :
            r.pattern[j] \in {"*", "**"} => i < j
    BY <1>6, Zenon DEF R!PlainRoute
  <2>14. /\ sent.path \in Seq(STRING) /\ req.path \in Seq(STRING)
         /\ req.path = [i \in DOMAIN sent.path |-> text(i)]
    BY <1>6, ParsedRequest, Zenon DEF DispatchInv
  <2> DEFINE i == R!Nth(R!Braces(r.pattern), n)
  <2> HIDE DEF text
  <2>15. i \in DOMAIN req.path /\ groups[n] = <<req.path[i]>>
    <3>1. r.pattern \in Seq(STRING) /\ req.path \in Seq(STRING) /\ R!Matches(r.pattern,
       req.path)
      BY <1>5, <2>2, <2>14, Zenon
    <3>2. /\ R!Nth(R!Braces(r.pattern), n) \in DOMAIN req.path
          /\ R!Groups(r.pattern, req.path)[n] = <<req.path[R!Nth(R!Braces(r.pattern), n)]>>
      BY <2>12, <2>13, <3>1, BraceText, Zenon
    <3> QED
      BY <3>2, Zenon
  <2>16. req.path[i] = text(i)
    BY <2>14, <2>15, Zenon
  <2> QED
    BY <2>9, <2>10, <2>15, <2>16, Zenon
<1> QED
  BY <1>3, <1>5, <1>6, Zenon

(* A handler runs for the last route that was registered for the method    *)
(* and path, with the segments its braces stand for: whatever routes,      *)
(* chains and requests there are.                                          *)
THEOREM RoutingHolds ==
    ASSUME R!DispatchAssumption
    PROVE  R!Spec => [](R!TypeOK /\ R!RoutedAsRegistered)
<1>1. R!Init => DispatchInv
  BY InitOK
<1>2. DispatchInv /\ [R!Next]_(R!vars) => DispatchInv'
  BY NextOK
<1>3. DispatchInv => R!TypeOK /\ R!RoutedAsRegistered
  BY TypeHolds, Routed
<1> QED
  BY <1>1, <1>2, <1>3, PTL DEF R!Spec

(* What a client receives it can decode, and its length is the announced   *)
(* one: however often compression is in the chain and whatever bodies the  *)
(* handlers return.                                                        *)
THEOREM AnswersHold ==
    ASSUME R!DispatchAssumption
    PROVE  R!Spec => []R!AnswerFits
<1>1. R!Init => DispatchInv
  BY InitOK
<1>2. DispatchInv /\ [R!Next]_(R!vars) => DispatchInv'
  BY NextOK
<1>3. DispatchInv => R!AnswerFits
  BY Answered
<1> QED
  BY <1>1, <1>2, <1>3, PTL DEF R!Spec
=============================================================================
