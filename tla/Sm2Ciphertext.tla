--------------------------- MODULE Sm2Ciphertext ---------------------------
(***************************************************************************)
(* The five layouts of an SM2 ciphertext and the conversions between them  *)
(* (crypto/sm2_ciphertext.py).                                             *)
(*                                                                         *)
(* A ciphertext is a sequence of bytes.  A byte is a number below 2 * Half *)
(* and its top bit is set from Half on: Half is 128 in the code.  The      *)
(* widths of a coordinate and of the digest are 32 there, and parameters   *)
(* here.  An operation that raises returns Failure(which), a record, where *)
(* the other outcome is [kind |-> "ok", ...].                              *)
(***************************************************************************)
EXTENDS Integers, Sequences, SequencesExt, FiniteSetsExt

CONSTANTS
  Half,              \* 0x80, the value of a byte's top bit
  CoordLen, C3Len,   \* _COORD_LEN and C3_LEN, 32 both
  SequenceTag,       \* _TAG_SEQUENCE, 0x30
  IntegerTag,        \* _TAG_INTEGER, 0x02
  OctetTag           \* _TAG_OCTET_STRING, 0x04, and the mark of a point

ASSUME WidthsOK ==
  /\ Half \in Nat /\ CoordLen \in Nat \ {0} /\ C3Len \in Nat \ {0}
  /\ {SequenceTag, IntegerTag, OctetTag} \subseteq 0..(Half - 1)
  /\ Cardinality({SequenceTag, IntegerTag, OctetTag}) = 3

C1Len == 2 * CoordLen
MinLen == C1Len + C3Len + 1

\* FMT_*: the order of C2 and C3, and whether the point carries its mark.
BareFormats == {"C1C2C3", "C1C3C2"}
MarkedFormats == {"C1C2C3+04", "C1C3C2+04"}
Formats == BareFormats \cup MarkedFormats \cup {"DER"}

Failure(which) == [kind |-> which]
FormatError == Failure("format")
Ok(r) == r.kind = "ok"
Components(c1, c2, c3) ==
  [kind |-> "ok", c1 |-> c1, c2 |-> c2, c3 |-> c3]

\* What follows a step that may raise.
Then(r, next(_)) == IF Ok(r) THEN next(r) ELSE r

From(s, n) == SubSeq(s, n, Len(s))

-----------------------------------------------------------------------------
(* Bare layouts *)

\* _split_raw
SplitRaw(ct, c3First) ==
  LET c1 == SubSeq(ct, 1, C1Len)
      n  == Len(ct)
  IN  IF n < MinLen THEN FormatError
      ELSE IF c3First
      THEN Components(c1, From(ct, C1Len + C3Len + 1),
                      SubSeq(ct, C1Len + 1, C1Len + C3Len))
      ELSE Components(c1, SubSeq(ct, C1Len + 1, n - C3Len),
                      From(ct, n - C3Len + 1))

C3First(fmt) == fmt \in {"C1C3C2", "C1C3C2+04"}

-----------------------------------------------------------------------------
(* DER *)

\* The big-endian value of a sequence of bytes.
Value(bytes) == FoldLeft(LAMBDA acc, b : acc * 2 * Half + b, 0, bytes)

\* Mutant of EncodeLength: the long form always has one length byte.
EncodeLength_OneByte(n) == IF n < Half THEN <<n>> ELSE <<Half + 1, n>>

\* _der_encode_length: the short form below Half, else the number of length
\* bytes and these.  Two are enough for every file of the model.
EncodeLength(n) ==
  IF n < Half THEN <<n>>
  ELSE IF n < 2 * Half THEN <<Half + 1, n>>
  ELSE <<Half + 2, n \div (2 * Half), n % (2 * Half)>>

\* _der_tlv
Tlv(tag, value) == <<tag>> \o EncodeLength(Len(value)) \o value

\* Leading zeros off, one byte at least left.
Stripped(coord) ==
  LET nonzero == {n \in DOMAIN coord : coord[n] # 0}
  IN  From(coord, IF nonzero = {} THEN Len(coord) ELSE Min(nonzero))

\* _der_encode_coordinate
EncodeCoordinate(coord) ==
  LET minimal == Stripped(coord)
  IN  Tlv(IntegerTag, IF minimal[1] >= Half THEN <<0>> \o minimal ELSE minimal)

\* _der_encode
DerEncode(c1, c2, c3) ==
  Tlv(SequenceTag,
      EncodeCoordinate(SubSeq(c1, 1, CoordLen))
      \o EncodeCoordinate(From(c1, CoordLen + 1))
      \o Tlv(OctetTag, c3) \o Tlv(OctetTag, c2))

\* The long form of _der_decode_length: size bytes from position at.
LongLength(data, at, size, n) ==
  IF size = 0 \/ at + size - 1 > Len(data) \/ n < Half THEN FormatError
  ELSE [kind |-> "ok", length |-> n, value |-> at + size]

\* _der_decode_length at position at: the length and where the value begins.
DecodeLength(data, at) ==
  IF at > Len(data) THEN FormatError
  ELSE IF data[at] < Half
  THEN [kind |-> "ok", length |-> data[at], value |-> at + 1]
  ELSE LongLength(data, at + 1, data[at] - Half,
                  Value(SubSeq(data, at + 1, at + data[at] - Half)))

\* _der_decode_tlv at position at: the value, and where the next element is.
DecodeTlv(data, at, tag) ==
  IF at > Len(data) \/ data[at] # tag THEN FormatError
  ELSE Then(DecodeLength(data, at + 1), LAMBDA l :
         IF l.value + l.length - 1 > Len(data) THEN FormatError
         ELSE [kind |-> "ok", next |-> l.value + l.length,
               bytes |-> SubSeq(data, l.value, l.value + l.length - 1)])

\* Mutant of DecodeCoordinate: zeros are put behind, not before.
DecodeCoordinate_PadsRight(value) ==
  LET n == Len(value)
  IN  IF n > CoordLen + 1 THEN FormatError
      ELSE IF n > 1 /\ value[1] = 0 /\ value[2] < Half THEN FormatError
      ELSE IF n = CoordLen + 1 /\ value[1] # 0 THEN Failure("overflow")
      ELSE IF n = CoordLen + 1
      THEN [kind |-> "ok", bytes |-> From(value, 2)]
      ELSE [kind |-> "ok",
            bytes |-> value \o [k \in 1..(CoordLen - n) |-> 0]]

\* _der_decode_coordinate: a value one byte too wide whose first byte is not
\* zero passes both checks, and to_bytes raises OverflowError on it.
DecodeCoordinate(value) ==
  LET n == Len(value)
  IN  IF n > CoordLen + 1 THEN FormatError
      ELSE IF n > 1 /\ value[1] = 0 /\ value[2] < Half THEN FormatError
      ELSE IF n = CoordLen + 1 /\ value[1] # 0 THEN Failure("overflow")
      ELSE IF n = CoordLen + 1
      THEN [kind |-> "ok", bytes |-> From(value, 2)]
      ELSE [kind |-> "ok",
            bytes |-> [k \in 1..(CoordLen - n) |-> 0] \o value]

\* The C1 of two coordinates.
DecodePoint(x, y) ==
  Then(DecodeCoordinate(x), LAMBDA first :
    Then(DecodeCoordinate(y), LAMBDA second :
      [kind |-> "ok", bytes |-> first.bytes \o second.bytes]))

\* The components of the four elements.
OfElements(x, y, c3, c2) ==
  IF Len(c3) # C3Len \/ c2 = <<>> THEN FormatError
  ELSE Then(DecodePoint(x, y), LAMBDA c1 : Components(c1.bytes, c2, c3))

\* The body SEQUENCE{x, y, C3, C2}, to its end.
DecodeBody(body) ==
  Then(DecodeTlv(body, 1, IntegerTag), LAMBDA x :
  Then(DecodeTlv(body, x.next, IntegerTag), LAMBDA y :
  Then(DecodeTlv(body, y.next, OctetTag), LAMBDA c3 :
  Then(DecodeTlv(body, c3.next, OctetTag), LAMBDA c2 :
    IF c2.next # Len(body) + 1 THEN FormatError
    ELSE OfElements(x.bytes, y.bytes, c3.bytes, c2.bytes)))))

\* _der_decode
DerDecode(ct) ==
  Then(DecodeTlv(ct, 1, SequenceTag), LAMBDA outer :
    IF outer.next # Len(ct) + 1 THEN FormatError ELSE DecodeBody(outer.bytes))

-----------------------------------------------------------------------------
(* The public operations *)

\* Mutant of ToComponents: the mark is checked and not taken off.
ToComponents_KeepsMark(ct, fmt) ==
  IF fmt = "DER" THEN DerDecode(ct)
  ELSE IF fmt \in BareFormats THEN SplitRaw(ct, C3First(fmt))
  ELSE IF ct = <<>> \/ ct[1] # OctetTag THEN FormatError
  ELSE SplitRaw(ct, C3First(fmt))

\* _to_components with _strip_prefix
ToComponents(ct, fmt) ==
  IF fmt = "DER" THEN DerDecode(ct)
  ELSE IF fmt \in BareFormats THEN SplitRaw(ct, C3First(fmt))
  ELSE IF ct = <<>> \/ ct[1] # OctetTag THEN FormatError
  ELSE SplitRaw(Tail(ct), C3First(fmt))

\* _from_components with _c1c2c3_to_bytes
FromComponents(c, fmt) ==
  LET bare == c.c1 \o (IF C3First(fmt) THEN c.c3 \o c.c2 ELSE c.c2 \o c.c3)
  IN  IF fmt = "DER" THEN DerEncode(c.c1, c.c2, c.c3)
      ELSE IF fmt \in MarkedFormats THEN <<OctetTag>> \o bare ELSE bare

\* convert
Convert(ct, from, to) ==
  Then(ToComponents(ct, from), LAMBDA c :
    [kind |-> "ok", bytes |-> FromComponents(c, to)])

\* Mutant of DetectBare: a length of MinLen with the mark is enough.
DetectBare_OffByOne(ct) ==
  IF ct # <<>> /\ ct[1] = OctetTag /\ Len(ct) >= MinLen
  THEN [kind |-> "ok", format |-> "C1C2C3+04"]
  ELSE IF Len(ct) >= MinLen THEN [kind |-> "ok", format |-> "C1C2C3"]
  ELSE FormatError

\* Without a structure: the first byte and the length.  The order of C2 and C3
\* is a guess.
DetectBare(ct) ==
  IF ct # <<>> /\ ct[1] = OctetTag /\ Len(ct) - 1 >= MinLen
  THEN [kind |-> "ok", format |-> "C1C2C3+04"]
  ELSE IF Len(ct) >= MinLen THEN [kind |-> "ok", format |-> "C1C2C3"]
  ELSE FormatError

\* A file that begins with the tag of a SEQUENCE: DER if all of it parses; only
\* a format error of the parser is caught.
DetectStructure(ct, parsed) ==
  IF parsed.kind = "format" THEN DetectBare(ct)
  ELSE Then(parsed, LAMBDA c : [kind |-> "ok", format |-> "DER"])

\* detect_format
DetectFormat(ct) ==
  IF ct # <<>> /\ ct[1] = SequenceTag THEN DetectStructure(ct, DerDecode(ct))
  ELSE DetectBare(ct)
=============================================================================
