---------------------------- MODULE Sm2cvtProofs ----------------------------
(***************************************************************************)
(* What the layouts of an SM2 ciphertext and the converter promise, for    *)
(* any width of bytes, coordinates and digests, any ciphertexts and any    *)
(* conversions: DER decoding undoes DER encoding, and no conversion loses  *)
(* anything.                                                               *)
(***************************************************************************)
EXTENDS Sm2cvt, TLAPS, FiniteSetTheorems, SequenceTheorems,
        WellFoundedInduction

-----------------------------------------------------------------------------
(* Arithmetic, and the value of bytes *)

\* A set of numbers has a smallest one.
LEMMA Least ==
  ASSUME NEW S \in SUBSET Nat, S # {}
  PROVE  \E s \in S : \A m \in S : s <= m
<1>1. PICK R : R = OpToRel(<, Nat) /\ IsWellFoundedOn(R, Nat)
  BY NatLessThanWellFounded, Zenon
<1>2. PICK s \in S : \A m \in S : ~(<<m, s>> \in R)
  BY <1>1, WFMin
<1>3. ASSUME NEW m \in S
      PROVE  s <= m
  <2>1. m \in Nat /\ s \in Nat
    OBVIOUS
  <2>2. ~(m < s)
    BY <1>1, <1>2, <2>1, Zenon DEF OpToRel
  <2> QED
    BY <2>1, <2>2
<1> QED
  BY <1>3

\* Induction, over the set of the numbers something holds of.
LEMMA ByInduction ==
  ASSUME NEW S, 0 \in S, \A n \in Nat : n \in S => n + 1 \in S
  PROVE  Nat \subseteq S
<1> SUFFICES ASSUME Nat \ S # {}
             PROVE  FALSE
  OBVIOUS
<1>1. PICK m \in Nat \ S : \A k \in Nat \ S : m <= k
  BY Least
<1>2. m - 1 \in Nat /\ (m - 1) + 1 = m /\ ~(m <= m - 1)
  BY <1>1
<1>3. m - 1 \in S
  BY <1>1, <1>2
<1> QED
  BY <1>1, <1>2, <1>3

\* The last position of one.
LEMMA MaxOf1 == ASSUME NEW n \in Int PROVE Max({n}) = n
  BY DEF Max

\* The last position of two.
LEMMA MaxOf2 == Max({1, 2}) = 2
  BY DEF Max

\* One byte is its own value: the length in the long form with one byte.
LEMMA ValueOf1 ==
  ASSUME NEW a \in Int PROVE Value(<<a>>) = a
<1> DEFINE F == [s \in SUBSET {1} |-> IF s = {} THEN 0 ELSE a]
           Step(f) == [s \in SUBSET {1} |->
                         IF s = {} THEN 0
                         ELSE f[s \ {Max(s)}] * 2 * Half + <<a>>[Max(s)]]
<1>0. /\ {} \in SUBSET {1} /\ {1} \in SUBSET {1} /\ {1} # {}
      /\ {1} \ {Max({1})} = {} /\ <<a>>[Max({1})] = a
      /\ 0 * 2 * Half + a = a
  BY MaxOf1, WidthsOK
<1>1. F = Step(F)
  <2> SUFFICES ASSUME NEW s \in SUBSET {1}
               PROVE  F[s] = Step(F)[s]
    BY Zenon
  <2>1. s = {} \/ s = {1}
    OBVIOUS
  <2> QED
    BY <1>0, <2>1
<1>2. PICK f : f = Step(f) /\ f = CHOOSE g : g = Step(g)
  BY <1>1
<1>3. DOMAIN <<a>> = {1}
  OBVIOUS
<1>4. Value(<<a>>) = f[{1}]
  BY <1>2, <1>3 DEF Value, FoldLeft, MapThenFoldSet
<1>5. f[{}] = 0
  BY <1>0, <1>2, Zenon
<1>6. f[{1}] = f[{1} \ {Max({1})}] * 2 * Half + <<a>>[Max({1})]
  BY <1>0, <1>2, Zenon
<1> QED
  BY <1>0, <1>4, <1>5, <1>6

\* Two bytes, the first one counted in bases of 2 * Half.
LEMMA ValueOf2 ==
  ASSUME NEW a \in Int, NEW b \in Int PROVE Value(<<a, b>>) = a * 2 * Half + b
<1> DEFINE D == SUBSET {1, 2}
           F == [s \in D |-> IF s = {} THEN 0 ELSE IF s = {1} THEN a
                             ELSE IF s = {2} THEN b ELSE a * 2 * Half + b]
           Step(f) == [s \in D |->
                         IF s = {} THEN 0
                         ELSE f[s \ {Max(s)}] * 2 * Half + <<a, b>>[Max(s)]]
<1>0. /\ {} \in D /\ {1} \in D /\ {2} \in D /\ {1, 2} \in D
      /\ {1} # {} /\ {2} # {} /\ {1, 2} # {}
      /\ {1} # {2} /\ {1, 2} # {1} /\ {1, 2} # {2}
  OBVIOUS
<1>1. /\ Max({1}) = 1 /\ Max({2}) = 2 /\ Max({1, 2}) = 2
      /\ <<a, b>>[1] = a /\ <<a, b>>[2] = b
  BY MaxOf1, MaxOf2
<1>2. /\ {1} \ {Max({1})} = {} /\ {2} \ {Max({2})} = {}
      /\ {1, 2} \ {Max({1, 2})} = {1}
  BY <1>1
<1>3. 0 * 2 * Half + a = a /\ 0 * 2 * Half + b = b
  BY WidthsOK
<1>4. F = Step(F)
  <2> SUFFICES ASSUME NEW s \in D
               PROVE  F[s] = Step(F)[s]
    BY Zenon
  <2>1. s = {} \/ s = {1} \/ s = {2} \/ s = {1, 2}
    OBVIOUS
  <2> QED
    BY <1>0, <1>1, <1>2, <1>3, <2>1
<1>5. PICK f : f = Step(f) /\ f = CHOOSE g : g = Step(g)
  BY <1>4
<1>6. DOMAIN <<a, b>> = {1, 2}
  OBVIOUS
<1>7. Value(<<a, b>>) = f[{1, 2}]
  BY <1>5, <1>6 DEF Value, FoldLeft, MapThenFoldSet
<1>8. f[{}] = 0
  BY <1>0, <1>5, Zenon
<1>9. f[{1}] = f[{1} \ {Max({1})}] * 2 * Half + <<a, b>>[Max({1})]
  BY <1>0, <1>5, Zenon
<1>10. f[{1, 2}] = f[{1, 2} \ {Max({1, 2})}] * 2 * Half + <<a, b>>[Max({1, 2})]
  BY <1>0, <1>5, Zenon
<1>11. f[{1}] = a
  BY <1>1, <1>2, <1>3, <1>8, <1>9, Zenon
<1>12. f[{1, 2}] = a * 2 * Half + b
  BY <1>1, <1>2, <1>10, <1>11, Zenon
<1> QED
  BY <1>7, <1>12

\* The types of the widths; and the three tags differ.
LEMMA Widths ==
  /\ Half \in Nat /\ Half > 2 /\ CoordLen \in Nat \ {0} /\ C3Len \in Nat \ {0}
  /\ SequenceTag \in 0..(Half - 1) /\ IntegerTag \in 0..(Half - 1)
  /\ OctetTag \in 0..(Half - 1)
  /\ SequenceTag # IntegerTag /\ SequenceTag # OctetTag /\ IntegerTag # OctetTag
<1>1. ASSUME NEW p, NEW q, {SequenceTag, IntegerTag, OctetTag} = {p} \cup {q}
      PROVE  FALSE
  <2>1. IsFiniteSet({p}) /\ Cardinality({p}) = 1
    BY FS_Singleton
  <2>2. Cardinality({p} \cup {q}) = 1 \/ Cardinality({p} \cup {q}) = 1 + 1
    BY <2>1, FS_AddElement
  <2>3. Cardinality({p} \cup {q}) = 3
    BY <1>1, WidthsOK, Zenon
  <2> QED
    BY <2>2, <2>3
<1>2. SequenceTag # IntegerTag
  <2> SUFFICES ASSUME SequenceTag = IntegerTag
               PROVE  {SequenceTag, IntegerTag, OctetTag} = {SequenceTag} \cup {OctetTag}
    BY <1>1
  <2> QED
    OBVIOUS
<1>3. OctetTag \notin {SequenceTag, IntegerTag}
  <2> SUFFICES ASSUME OctetTag \in {SequenceTag, IntegerTag}
               PROVE  {SequenceTag, IntegerTag, OctetTag} = {SequenceTag} \cup {IntegerTag}
    BY <1>1
  <2> QED
    OBVIOUS
<1> QED
  BY <1>2, <1>3, WidthsOK

\* A fold over bytes exists, and gives a number.
LEMMA ValueType ==
  ASSUME NEW bytes \in Seq(Bytes)
  PROVE  Value(bytes) \in Nat
<1> DEFINE D(n) == SUBSET (1..n)
           Step(f, n) == [s \in D(n) |->
                            IF s = {} THEN 0
                            ELSE f[s \ {Max(s)}] * 2 * Half + bytes[Max(s)]]
<1>1. ASSUME NEW n \in Nat, NEW s \in D(n + 1)
      PROVE  \/ s \in D(n)
             \/ /\ n + 1 \in s /\ s # {} /\ s \ {n + 1} \in D(n)
                /\ Max(s) = n + 1
  <2>1. CASE n + 1 \notin s
    BY <2>1
  <2>2. CASE n + 1 \in s
    <3>1. Max(s) = n + 1
      <4>1. \A k \in s : n + 1 >= k /\ k \in Int
        OBVIOUS
      <4>2. PICK x : x = Max(s) /\ x \in s /\ \A y \in s : x >= y
        <5>1. \E x \in s : \A y \in s : x >= y
          BY <2>2, <4>1
        <5> QED
          BY <5>1, Zenon DEF Max
      <4>3. x >= n + 1 /\ n + 1 >= x /\ x \in Int
        BY <2>2, <4>1, <4>2
      <4> QED
        BY <4>2, <4>3
    <3> QED
      BY <2>2, <3>1
  <2> QED
    BY <2>1, <2>2
<1>2. ASSUME NEW n \in Nat, NEW s \in D(n), s # {}
      PROVE  Max(s) \in s /\ s \ {Max(s)} \in D(n)
  <2> DEFINE Has == {m \in Nat : \A t \in D(m) : t # {} => Max(t) \in t}
  <2>1. 0 \in Has
    <3>1. \A r \in D(0) : r = {}
      OBVIOUS
    <3> HIDE DEF D
    <3> QED
      BY <3>1
  <2>2. ASSUME NEW m \in Nat, m \in Has
        PROVE  m + 1 \in Has
    <3>1. ASSUME NEW r \in D(m + 1), r # {}
          PROVE  Max(r) \in r
      <4>1. CASE r \in D(m)
        BY <2>2, <3>1, <4>1
      <4>2. CASE r \notin D(m)
        <5> HIDE DEF D
        <5> QED
          BY <1>1, <4>2
      <4> QED
        BY <4>1, <4>2
    <3> HIDE DEF D
    <3> QED
      BY <2>2, <3>1
  <2>3. n \in Has
    <3> HIDE DEF Has
    <3> QED
      BY <2>1, <2>2, ByInduction
  <2> QED
    BY <1>2, <2>3
<1> DEFINE N == Len(bytes)
<1>3. N \in Nat /\ DOMAIN bytes = 1..N /\ \A k \in 1..N : bytes[k] \in Nat
  BY Widths DEF Bytes
<1> HIDE DEF N
<1>4. \E f : f = Step(f, N)
  <2> DEFINE Some == {n \in Nat : \E f : f = Step(f, n)}
  <2>1. 0 \in Some
    <3> DEFINE f == [s \in D(0) |-> 0]
    <3>1. \A s \in D(0) : s = {}
      OBVIOUS
    <3>2. f = Step(f, 0)
      BY <3>1
    <3> QED
      BY <3>2
  <2>2. ASSUME NEW n \in Nat, n \in Some
        PROVE  n + 1 \in Some
    <3>1. PICK f : f = Step(f, n)
      BY <2>2
    <3> DEFINE g == [s \in D(n + 1) |->
                       IF s \in D(n) THEN f[s]
                       ELSE f[s \ {n + 1}] * 2 * Half + bytes[n + 1]]
    <3>2. ASSUME NEW s \in D(n + 1)
          PROVE  g[s] = Step(g, n + 1)[s]
      <4>1. CASE s \in D(n)
        <5>1. g[s] = f[s] /\ f[s] = Step(f, n)[s]
          BY <3>1, <4>1
        <5>2. CASE s = {}
          BY <4>1, <5>1, <5>2
        <5>3. CASE s # {}
          <6>1. s \ {Max(s)} \in D(n) /\ s \ {Max(s)} \in D(n + 1)
            BY <1>2, <4>1, <5>3
          <6>2. g[s \ {Max(s)}] = f[s \ {Max(s)}]
            BY <6>1
          <6> QED
            BY <4>1, <5>1, <5>3, <6>2
        <5> QED
          BY <5>2, <5>3
      <4>2. CASE s \notin D(n)
        <5>1. /\ s # {} /\ s \ {n + 1} \in D(n) /\ Max(s) = n + 1
          BY <1>1, <4>2
        <5>2. s \ {n + 1} \in D(n + 1)
          BY <5>1
        <5>3. g[s \ {n + 1}] = f[s \ {n + 1}]
          BY <5>1, <5>2
        <5> QED
          BY <4>2, <5>1, <5>3
      <4> QED
        BY <4>1, <4>2
    <3>3. g = Step(g, n + 1)
      <4> HIDE DEF D
      <4> QED
        BY <3>2
    <3> HIDE DEF g, Step
    <3> QED
      BY <3>3
  <2> HIDE DEF Some
  <2>3. N \in Some
    BY <1>3, <2>1, <2>2, ByInduction
  <2> QED
    BY <2>3 DEF Some
<1>5. PICK f : f = Step(f, N) /\ f = CHOOSE g : g = Step(g, N)
  BY <1>4
<1>6. Value(bytes) = f[1..N]
  BY <1>3, <1>5 DEF Value, FoldLeft, MapThenFoldSet
<1>7. \A s \in D(N) : f[s] \in Nat
  <2> DEFINE Typed == {n \in Nat : n <= N => \A s \in D(n) : f[s] \in Nat}
  <2>1. 0 \in Typed
    BY <1>3, <1>5
  <2>2. ASSUME NEW n \in Nat, n \in Typed
        PROVE  n + 1 \in Typed
    <3> SUFFICES ASSUME n + 1 <= N, NEW s \in D(n + 1)
                 PROVE  f[s] \in Nat
      <4> HIDE DEF D
      <4> QED
        OBVIOUS
    <3>0. n <= N /\ \A r \in D(n) : f[r] \in Nat
      <4>1. n <= N
        BY <1>3
      <4> HIDE DEF D
      <4> QED
        BY <2>2, <4>1
    <3>1. CASE s \in D(n)
      BY <3>0, <3>1
    <3>2. CASE s \notin D(n)
      <4>1. s # {} /\ s \ {n + 1} \in D(n) /\ Max(s) = n + 1
        BY <1>1, <3>2
      <4>2. s \in D(N)
        BY <1>3
      <4>3. f[s] = f[s \ {n + 1}] * 2 * Half + bytes[n + 1]
        BY <1>5, <4>1, <4>2
      <4>4. f[s \ {n + 1}] \in Nat /\ bytes[n + 1] \in Nat
        BY <1>3, <3>0, <4>1
      <4> QED
        BY <4>3, <4>4, Widths
    <3> QED
      BY <3>1, <3>2
  <2> HIDE DEF Typed
  <2>3. N \in Typed
    BY <1>3, <2>1, <2>2, ByInduction
  <2> QED
    BY <1>3, <2>3 DEF Typed
<1> QED
  BY <1>3, <1>6, <1>7

\* Quotient and remainder.
LEMMA Division ==
  ASSUME NEW n \in Nat, NEW b \in Nat \ {0}
  PROVE  n \div b \in Nat /\ n % b \in 0..(b - 1) /\ n = (n \div b) * b + (n % b)
  OBVIOUS

\* The quotient of what is below the square of the base is a byte.
LEMMA Less ==
  ASSUME NEW q \in Nat, NEW r \in Nat, NEW b \in Nat, q * b + r < b * b
  PROVE  q < b
<1> SUFFICES ASSUME q >= b
             PROVE  FALSE
  OBVIOUS
<1> DEFINE d == q - b
<1>1. d \in Nat /\ q = b + d
  OBVIOUS
<1> HIDE DEF d
<1>2. q * b = b * b + d * b /\ d * b \in Nat /\ b * b \in Nat
  BY <1>1
<1> QED
  BY <1>2

-----------------------------------------------------------------------------
(* DER *)

\* Lengths the model writes.
Short(n) == n \in Nat /\ n < 4 * Half * Half

\* _der_encode_length: at most three bytes for lengths of the model.
LEMMA LengthType ==
  ASSUME NEW n, Short(n)
  PROVE  /\ EncodeLength(n) \in Seq(Bytes)
         /\ Len(EncodeLength(n)) \in 1..3
<1> DEFINE B == 2 * Half
<1>1. B \in Nat \ {0} /\ Half + 2 < B /\ n \in Nat
  BY Widths DEF Short
<1>2. n \div B \in Nat /\ n % B \in 0..(B - 1) /\ n = (n \div B) * B + (n % B)
  BY <1>1, Division
<1>3. n < B * B
  BY Widths DEF Short
<1> HIDE DEF B
<1>4. n \div B < B
  BY <1>1, <1>2, <1>3, Less
<1>5. Bytes = 0..(B - 1)
  BY DEF Bytes, B
<1>6. EncodeLength(n) = IF n < Half THEN <<n>> ELSE IF n < B THEN <<Half + 1, n>>
                        ELSE <<Half + 2, n \div B, n % B>>
  BY DEF EncodeLength, B
<1> HIDE DEF B
<1>7. Half + 1 \in Bytes /\ Half + 2 \in Bytes /\ n \div B \in Bytes /\ n % B \in Bytes
  BY <1>1, <1>2, <1>4, <1>5, Widths
<1>8. CASE n < Half
  <2>1. n \in Bytes
    BY <1>1, <1>5, <1>8, Widths
  <2> QED
    BY <1>6, <1>8, <2>1
<1>9. CASE ~(n < Half) /\ n < B
  <2>1. n \in Bytes
    BY <1>1, <1>5, <1>9, Widths
  <2>2. EncodeLength(n) = <<Half + 1, n>>
    BY <1>6, <1>9, Zenon
  <2> QED
    BY <1>7, <2>1, <2>2
<1>10. CASE ~(n < Half) /\ ~(n < B)
  <2>1. EncodeLength(n) = <<Half + 2, n \div B, n % B>>
    BY <1>6, <1>10, Zenon
  <2> QED
    BY <1>7, <2>1
<1> QED
  BY <1>8, <1>9, <1>10, Zenon

\* The piece lies in the data, from position at.
Lies(data, at, piece) ==
  /\ at + Len(piece) - 1 <= Len(data)
  /\ \A k \in 1..Len(piece) : data[at + k - 1] = piece[k]

\* Where a concatenation lies, its parts lie one behind the other.
LEMMA PartsLie ==
  ASSUME NEW S, NEW data \in Seq(S), NEW at \in Nat \ {0},
         NEW a \in Seq(S), NEW b \in Seq(S), Lies(data, at, a \o b)
  PROVE  Lies(data, at, a) /\ Lies(data, at + Len(a), b)
<1>1. Len(a \o b) = Len(a) + Len(b) /\ Len(a) \in Nat /\ Len(b) \in Nat
  OBVIOUS
<1>2. Lies(data, at, a)
  BY <1>1 DEF Lies
<1>3. ASSUME NEW k \in 1..Len(b)
      PROVE  data[at + Len(a) + k - 1] = b[k]
  <2>1. Len(a) + k \in 1..Len(a \o b) /\ (a \o b)[Len(a) + k] = b[k]
    BY <1>1
  <2>2. data[at + (Len(a) + k) - 1] = b[k]
    BY <2>1 DEF Lies
  <2> QED
    BY <1>1, <2>2
<1> QED
  BY <1>1, <1>2, <1>3 DEF Lies

\* A piece that lies in the data is what is cut out there.
LEMMA CutOut ==
  ASSUME NEW S, NEW data \in Seq(S), NEW at \in Nat \ {0},
         NEW piece \in Seq(S), Lies(data, at, piece)
  PROVE  SubSeq(data, at, at + Len(piece) - 1) = piece
<1>1. Len(piece) \in Nat /\ at + Len(piece) - 1 <= Len(data)
  BY DEF Lies
<1>2. /\ SubSeq(data, at, at + Len(piece) - 1) \in Seq(S)
      /\ Len(SubSeq(data, at, at + Len(piece) - 1)) = Len(piece)
  BY <1>1
<1>3. ASSUME NEW k \in 1..Len(piece)
      PROVE  SubSeq(data, at, at + Len(piece) - 1)[k] = piece[k]
  BY <1>1, <1>2 DEF Lies
<1> QED
  BY <1>2, <1>3, SeqEqual

\* All of the data lies at its first position.
LEMMA WholeLies ==
  ASSUME NEW S, NEW data \in Seq(S)
  PROVE  Lies(data, 1, data)
  BY DEF Lies

\* _der_decode_length undoes _der_encode_length, in each of its forms.
LEMMA LengthDecodes ==
  ASSUME NEW data \in Seq(Bytes), NEW at \in Nat \ {0}, NEW n, Short(n),
         Lies(data, at, EncodeLength(n))
  PROVE  DecodeLength(data, at) =
           [kind |-> "ok", length |-> n, value |-> at + Len(EncodeLength(n))]
<1> DEFINE B == 2 * Half
<1>1. B \in Nat \ {0} /\ n \in Nat /\ Half \in Nat /\ Half > 2
  BY Widths DEF Short
<1>3. EncodeLength(n) = IF n < Half THEN <<n>> ELSE IF n < B THEN <<Half + 1, n>>
                        ELSE <<Half + 2, n \div B, n % B>>
  BY DEF EncodeLength
<1> HIDE DEF B
<1>2. n \div B \in Nat /\ n % B \in 0..(B - 1) /\ n = (n \div B) * B + (n % B)
  BY <1>1, Division
<1>4. CASE n < Half
  <2>1. EncodeLength(n) = <<n>>
    BY <1>3, <1>4
  <2>2. at <= Len(data) /\ data[at] = n
    BY <2>1 DEF Lies
  <2> QED
    BY <1>1, <1>4, <2>1, <2>2 DEF DecodeLength
<1>5. CASE ~(n < Half) /\ n < B
  <2>1. EncodeLength(n) = <<Half + 1, n>>
    BY <1>3, <1>5, Zenon
  <2>2. at + 1 <= Len(data) /\ data[at] = Half + 1 /\ data[at + 1] = n
    BY <2>1 DEF Lies
  <2>3. SubSeq(data, at + 1, at + data[at] - Half) = <<n>>
    <3>1. <<n>> \in Seq(Bytes) /\ Len(<<n>>) = 1 /\ at + 1 \in Nat \ {0}
      BY <2>1, LengthType, <2>2, <1>1
    <3>2. Lies(data, at + 1, <<n>>)
      BY <1>1, <2>2 DEF Lies
    <3>3. at + data[at] - Half = (at + 1) + Len(<<n>>) - 1
      BY <1>1, <2>2, <3>1
    <3> QED
      BY <3>1, <3>2, <3>3, CutOut
  <2>4. Value(SubSeq(data, at + 1, at + data[at] - Half)) = n
    <3>1. n \in Int
      BY <1>1
    <3> QED
      BY <2>3, <3>1, ValueOf1, Zenon
  <2> QED
    BY <1>1, <1>5, <2>1, <2>2, <2>4 DEF DecodeLength, LongLength
<1>6. CASE ~(n < Half) /\ ~(n < B)
  <2>1. EncodeLength(n) = <<Half + 2, n \div B, n % B>>
    BY <1>3, <1>6, Zenon
  <2>2. PICK q \in Nat : q = n \div B
    BY <1>2
  <2>3. PICK r \in Nat : r = n % B
    BY <1>2
  <2>4. EncodeLength(n) = <<Half + 2, q, r>>
    BY <2>1, <2>2, <2>3
  <2>5. /\ at + 2 <= Len(data) /\ data[at] = Half + 2
        /\ data[at + 1] = q /\ data[at + 2] = r
    BY <2>4 DEF Lies
  <2>6. SubSeq(data, at + 1, at + data[at] - Half) = <<q, r>>
    <3>1. <<q, r>> \in Seq(Bytes) /\ Len(<<q, r>>) = 2 /\ at + 1 \in Nat \ {0}
      BY <1>1, <2>5
    <3>2. Lies(data, at + 1, <<q, r>>)
      BY <1>1, <2>5 DEF Lies
    <3>3. at + data[at] - Half = (at + 1) + Len(<<q, r>>) - 1
      BY <1>1, <2>5, <3>1
    <3>4. SubSeq(data, at + 1, (at + 1) + Len(<<q, r>>) - 1) = <<q, r>>
      BY <3>1, <3>2, CutOut
    <3> QED
      BY <3>3, <3>4, Zenon
  <2>7. Value(<<q, r>>) = n
    <3>1. Value(<<q, r>>) = q * 2 * Half + r
      BY ValueOf2
    <3>2. q * 2 * Half = q * B
      BY <1>1 DEF B
    <3> QED
      BY <1>2, <2>2, <2>3, <3>1, <3>2
  <2>8. LongLength(data, at + 1, 2, n) =
          [kind |-> "ok", length |-> n, value |-> (at + 1) + 2]
    BY <1>1, <1>6, <2>5 DEF LongLength
  <2>9. /\ ~(at > Len(data)) /\ ~(data[at] < Half) /\ data[at] - Half = 2
        /\ (at + 1) + 2 = at + Len(EncodeLength(n))
    BY <1>1, <2>4, <2>5
  <2>10. DecodeLength(data, at) = LongLength(data, at + 1, 2, n)
    BY <2>6, <2>7, <2>9, Zenon DEF DecodeLength
  <2> QED
    BY <2>8, <2>9, <2>10, Zenon
<1> QED
  BY <1>4, <1>5, <1>6, Zenon

\* _der_tlv yields bytes that begin with the tag.
LEMMA TlvType ==
  ASSUME NEW tag \in Bytes, NEW v \in Seq(Bytes), Short(Len(v))
  PROVE  /\ Tlv(tag, v) \in Seq(Bytes)
         /\ Len(Tlv(tag, v)) = 1 + Len(EncodeLength(Len(v))) + Len(v)
         /\ Tlv(tag, v)[1] = tag
<1>1. EncodeLength(Len(v)) \in Seq(Bytes)
  BY LengthType
<1>2. PICK e \in Seq(Bytes) : e = EncodeLength(Len(v))
  BY <1>1
<1>3. Tlv(tag, v) = <<tag>> \o e \o v
  BY <1>2 DEF Tlv
<1> QED
  BY <1>2, <1>3

\* _der_decode_tlv undoes _der_tlv.
LEMMA TlvDecodes ==
  ASSUME NEW data \in Seq(Bytes), NEW at \in Nat \ {0}, NEW tag \in Bytes,
         NEW v \in Seq(Bytes), Short(Len(v)), Lies(data, at, Tlv(tag, v))
  PROVE  DecodeTlv(data, at, tag) =
           [kind |-> "ok", next |-> at + Len(Tlv(tag, v)), bytes |-> v]
<1>1. PICK e \in Seq(Bytes) : e = EncodeLength(Len(v)) /\ Len(e) \in 1..3
  BY LengthType
<1>2. Tlv(tag, v) = (<<tag>> \o e) \o v
  BY <1>1 DEF Tlv
<1>3. <<tag>> \in Seq(Bytes) /\ <<tag>> \o e \in Seq(Bytes)
      /\ Len(<<tag>>) = 1 /\ Len(<<tag>> \o e) = 1 + Len(e)
  OBVIOUS
<1>4. Lies(data, at, <<tag>> \o e) /\ Lies(data, at + Len(<<tag>> \o e), v)
  BY <1>2, <1>3, PartsLie
<1>5. Lies(data, at, <<tag>>) /\ Lies(data, at + 1, e)
  BY <1>3, <1>4, PartsLie
<1>6. at <= Len(data) /\ data[at] = tag
  BY <1>5 DEF Lies
<1>7. DecodeLength(data, at + 1) =
        [kind |-> "ok", length |-> Len(v), value |-> (at + 1) + Len(e)]
  <2>1. at + 1 \in Nat \ {0} /\ Lies(data, at + 1, EncodeLength(Len(v)))
    BY <1>1, <1>5
  <2> QED
    BY <1>1, <2>1, LengthDecodes
<1>8. SubSeq(data, (at + 1) + Len(e), (at + 1) + Len(e) + Len(v) - 1) = v
  <2>1. (at + 1) + Len(e) \in Nat \ {0} /\ Lies(data, (at + 1) + Len(e), v)
    BY <1>3, <1>4
  <2> QED
    BY <2>1, CutOut
<1>9. (at + 1) + Len(e) + Len(v) - 1 <= Len(data)
  BY <1>1, <1>3, <1>4 DEF Lies
<1>10. Len(Tlv(tag, v)) = 1 + Len(e) + Len(v)
  BY <1>2
<1> DEFINE l == DecodeLength(data, at + 1)
<1>11. /\ l.kind = "ok" /\ l.value + l.length = at + Len(Tlv(tag, v))
       /\ l.value + l.length - 1 <= Len(data)
       /\ SubSeq(data, l.value, l.value + l.length - 1) = v
  <2>1. /\ l.kind = "ok" /\ l.value = (at + 1) + Len(e) /\ l.length = Len(v)
    BY <1>7
  <2> HIDE DEF l
  <2> QED
    BY <1>1, <1>8, <1>9, <1>10, <2>1
<1>12. DecodeTlv(data, at, tag) =
        IF l.kind = "ok"
        THEN IF l.value + l.length - 1 > Len(data) THEN FormatError
             ELSE [kind |-> "ok", next |-> l.value + l.length,
                   bytes |-> SubSeq(data, l.value, l.value + l.length - 1)]
        ELSE l
  BY <1>6 DEF DecodeTlv, Then, Ok
<1>13. ~(l.value + l.length - 1 > Len(data))
  BY <1>1, <1>7, <1>11
<1> HIDE DEF l
<1> QED
  BY <1>11, <1>12, <1>13

\* Leading zeros go, and the last byte stays.
LEMMA StrippedAt ==
  ASSUME NEW coord \in Seq(Bytes), Len(coord) = CoordLen
  PROVE  \E s \in 1..CoordLen :
           /\ Stripped(coord) = SubSeq(coord, s, CoordLen)
           /\ \A k \in 1..(s - 1) : coord[k] = 0
           /\ s < CoordLen => coord[s] # 0
<1> DEFINE nonzero == {n \in DOMAIN coord : coord[n] # 0}
<1>1. DOMAIN coord = 1..CoordLen /\ CoordLen \in Nat \ {0}
  BY Widths
<1>2. CASE nonzero = {}
  <2>1. Stripped(coord) = SubSeq(coord, CoordLen, CoordLen)
    BY <1>2 DEF Stripped, From
  <2>2. \A k \in 1..(CoordLen - 1) : coord[k] = 0
    BY <1>1, <1>2
  <2> QED
    BY <1>1, <2>1, <2>2
<1>3. CASE nonzero # {}
  <2>1. nonzero \in SUBSET Nat
    BY <1>1
  <2>2. PICK s \in nonzero : \A m \in nonzero : s <= m
    BY <1>3, <2>1, Least
  <2>3. Min(nonzero) = s
    <3> HIDE DEF nonzero
    <3>1. \A m \in nonzero : m \in Int
      BY <2>1
    <3> QED
      BY <2>2, <3>1 DEF Min
  <2>4. Stripped(coord) = SubSeq(coord, s, CoordLen)
    BY <1>3, <2>3 DEF Stripped, From
  <2>5. \A k \in 1..(s - 1) : coord[k] = 0
    <3> SUFFICES ASSUME NEW k \in 1..(s - 1), coord[k] # 0
                 PROVE  FALSE
      OBVIOUS
    <3>1. k \in nonzero
      BY <1>1, <2>2
    <3> QED
      BY <1>1, <2>2, <3>1
  <2> QED
    BY <1>1, <2>2, <2>4, <2>5
<1> QED
  BY <1>2, <1>3

\* _der_decode_coordinate undoes _der_encode_coordinate: the zeros that were
\* taken off are put back, and the zero that was put before is taken off.
LEMMA CoordinateDecodes ==
  ASSUME NEW coord \in Seq(Bytes), Len(coord) = CoordLen
  PROVE  \E v \in Seq(Bytes) :
           /\ EncodeCoordinate(coord) = Tlv(IntegerTag, v)
           /\ Len(v) \in 1..(CoordLen + 1)
           /\ DecodeCoordinate(v) = [kind |-> "ok", bytes |-> coord]
<1>1. PICK s \in 1..CoordLen :
        /\ Stripped(coord) = SubSeq(coord, s, CoordLen)
        /\ \A k \in 1..(s - 1) : coord[k] = 0
        /\ s < CoordLen => coord[s] # 0
  BY StrippedAt
<1>2. CoordLen \in Nat \ {0} /\ Half \in Nat /\ Half > 2
      /\ Bytes = 0..(2 * Half - 1)
  BY Widths DEF Bytes
<1>3. PICK w \in Seq(Bytes) : w = SubSeq(coord, s, CoordLen)
  <2>1. SubSeq(coord, s, CoordLen) \in Seq(Bytes)
    BY <1>2, SubSeqProperties
  <2> QED
    BY <2>1
<1>4. /\ Len(w) = CoordLen - s + 1
      /\ \A k \in 1..Len(w) : w[k] = coord[s + k - 1]
  BY <1>2, <1>3
<1>5. Len(w) \in 1..CoordLen /\ w[1] \in Bytes /\ w[1] = coord[s]
  BY <1>2, <1>4
<1>6. Len(w) > 1 => w[1] # 0
  BY <1>1, <1>2, <1>4, <1>5
<1> DEFINE pad == [k \in 1..(CoordLen - Len(w)) |-> 0]
<1>7. pad \in Seq(Bytes) /\ Len(pad) = CoordLen - Len(w)
  BY <1>2, <1>5
<1>8. pad \o w = coord
  <2>1. pad \o w \in Seq(Bytes) /\ Len(pad \o w) = CoordLen
    BY <1>2, <1>5, <1>7
  <2>2. ASSUME NEW k \in 1..CoordLen
        PROVE  (pad \o w)[k] = coord[k]
    <3>1. CASE k <= CoordLen - Len(w)
      <4>1. (pad \o w)[k] = pad[k] /\ pad[k] = 0
        BY <1>2, <1>5, <1>7, <3>1
      <4>2. k \in 1..(s - 1)
        BY <1>2, <1>4, <3>1
      <4> QED
        BY <1>1, <4>1, <4>2
    <3>2. CASE k > CoordLen - Len(w)
      <4>1. (pad \o w)[k] = w[k - (CoordLen - Len(w))]
        BY <1>2, <1>5, <1>7, <3>2
      <4>2. k - (CoordLen - Len(w)) \in 1..Len(w)
        BY <1>2, <1>5, <3>2
      <4> QED
        BY <1>2, <1>4, <4>1, <4>2
    <3> QED
      BY <1>2, <1>5, <3>1, <3>2
  <2> QED
    BY <2>1, <2>2, SeqEqual
<1> HIDE DEF pad
<1>9. CASE w[1] >= Half
  <2> DEFINE v == <<0>> \o w
  <2>1. /\ v \in Seq(Bytes) /\ Len(v) = Len(w) + 1
        /\ v[1] = 0 /\ v[2] = w[1] /\ SubSeq(v, 2, Len(v)) = w
    BY <1>2, <1>5
  <2>2. EncodeCoordinate(coord) = Tlv(IntegerTag, v)
    BY <1>1, <1>3, <1>9 DEF EncodeCoordinate
  <2> HIDE DEF v
  <2>3. CASE Len(w) = CoordLen
    <3>1. DecodeCoordinate(v) = [kind |-> "ok", bytes |-> SubSeq(v, 2, Len(v))]
      BY <1>2, <1>5, <1>9, <2>1, <2>3 DEF DecodeCoordinate, From
    <3>2. w = coord
      BY <1>2, <1>4, <1>5, <2>3, SeqEqual
    <3>3. DecodeCoordinate(v) = [kind |-> "ok", bytes |-> coord]
      BY <2>1, <3>1, <3>2, Zenon
    <3>4. Len(v) \in 1..(CoordLen + 1)
      BY <1>2, <1>5, <2>1
    <3> QED
      BY <2>1, <2>2, <3>3, <3>4
  <2>4. CASE Len(w) < CoordLen
    (* The zero before it counts as one of the zeros that are put back. *)
    <3> DEFINE less == [k \in 1..(CoordLen - Len(v)) |-> 0]
    <3>1. /\ less \in Seq(Bytes) /\ Len(less) = CoordLen - Len(v)
          /\ \A k \in 1..(CoordLen - Len(v)) : less[k] = 0
      BY <1>2, <1>5, <2>1, <2>4
    <3>2. DecodeCoordinate(v) = [kind |-> "ok", bytes |-> less \o v]
      <4>1. /\ ~(Len(v) > CoordLen + 1) /\ ~(Len(v) = CoordLen + 1)
            /\ ~(v[2] < Half)
        BY <1>2, <1>5, <1>9, <2>1, <2>4
      <4> QED
        BY <4>1, Zenon DEF DecodeCoordinate
    <3> HIDE DEF less
    <3>5. less \in Seq(Bytes) /\ Len(less) \in Nat /\ Len(less) + 1 = CoordLen - Len(w)
      <4>1. Len(less) = CoordLen - (Len(w) + 1) /\ less \in Seq(Bytes)
        BY <2>1, <3>1, Zenon
      <4> QED
        BY <1>2, <1>5, <2>4, <4>1
    <3>6. <<0>> \in Seq(Bytes) /\ Len(<<0>>) = 1 /\ <<0>>[1] = 0
      BY <1>2
    <3>3. less \o v = coord
      <4>1. pad = less \o <<0>>
        <5>1. <<0>> \in Seq(Bytes) /\ Len(<<0>>) = 1 /\ <<0>>[1] = 0
          BY <1>2
        <5>2. /\ less \o <<0>> \in Seq(Bytes)
              /\ Len(less \o <<0>>) = CoordLen - Len(w)
          BY <1>2, <1>5, <2>1, <2>4, <3>1, <5>1
        <5>3. ASSUME NEW k \in 1..(CoordLen - Len(w))
              PROVE  pad[k] = (less \o <<0>>)[k]
          <6>1. pad[k] = 0
            BY DEF pad
          <6>2. CASE k <= Len(less)
            <7>1. k \in 1..Len(less)
              BY <1>2, <1>5, <2>1, <3>1, <6>2
            <7>2. (less \o <<0>>)[k] = less[k] /\ less[k] = 0
              BY <3>1, <5>1, <7>1
            <7> QED
              BY <6>1, <7>2
          <6>3. CASE ~(k <= Len(less))
            <7>1. k = Len(less) + 1
              BY <3>5, <6>3
            <7>2. (less \o <<0>>)[Len(less) + 1] = <<0>>[1]
              BY <3>5
            <7> QED
              BY <5>1, <6>1, <7>1, <7>2, Zenon
          <6> QED
            BY <6>2, <6>3
        <5> QED
          BY <1>7, <5>2, <5>3, SeqEqual
      <4>2. less \o (<<0>> \o w) = (less \o <<0>>) \o w
        BY <3>5, <3>6, ConcatAssociative
      <4> QED
        BY <1>8, <4>1, <4>2, Zenon DEF v
    <3>4. Len(v) \in 1..(CoordLen + 1)
      BY <1>2, <1>5, <2>1
    <3>7. DecodeCoordinate(v) = [kind |-> "ok", bytes |-> coord]
      BY <3>2, <3>3, Zenon
    <3> QED
      BY <2>1, <2>2, <3>4, <3>7
  <2> QED
    BY <1>2, <1>5, <2>3, <2>4
<1>10. CASE w[1] < Half
  <2>1. EncodeCoordinate(coord) = Tlv(IntegerTag, w)
    BY <1>1, <1>2, <1>3, <1>5, <1>10 DEF EncodeCoordinate
  <2>2. DecodeCoordinate(w) = [kind |-> "ok", bytes |-> pad \o w]
    BY <1>2, <1>5, <1>6, <1>10 DEF DecodeCoordinate, From, pad
  <2> QED
    BY <1>2, <1>5, <1>8, <2>1, <2>2
<1> QED
  BY <1>2, <1>5, <1>9, <1>10

-----------------------------------------------------------------------------
(* What decoding accepts *)

\* The components of a ciphertext.
WellFormed(c) ==
  /\ c \in [kind : {"ok"}, c1 : Seq(Bytes), c2 : Seq(Bytes), c3 : Seq(Bytes)]
  /\ Len(c.c1) = C1Len /\ Len(c.c3) = C3Len /\ c.c2 # <<>>

\* A length that decodes is a number, and the value begins behind it.
LEMMA LengthDecoded ==
  ASSUME NEW data \in Seq(Bytes), NEW at \in Nat \ {0}, Ok(DecodeLength(data, at))
  PROVE  /\ DecodeLength(data, at).length \in Nat
         /\ DecodeLength(data, at).value \in Nat
         /\ DecodeLength(data, at).value > at
<1>1. at <= Len(data) /\ Half \in Nat
  BY Widths DEF DecodeLength, Ok, FormatError, Failure
<1>2. data[at] \in Nat /\ data[at] \in Bytes
  BY <1>1, Widths DEF Bytes
<1>3. CASE data[at] < Half
  BY <1>1, <1>2, <1>3 DEF DecodeLength
<1>4. CASE ~(data[at] < Half)
  <2>1. PICK size \in Nat : size = data[at] - Half
    <3>1. data[at] - Half \in Nat
      BY <1>1, <1>2, <1>4
    <3> QED
      BY <3>1
  <2> DEFINE number == SubSeq(data, at + 1, at + data[at] - Half)
             r == LongLength(data, at + 1, size, Value(number))
  <2>2. DecodeLength(data, at) = r
    BY <1>1, <1>4, <2>1 DEF DecodeLength
  <2>3. /\ ~(at + 1 + size - 1 > Len(data))
        /\ r = [kind |-> "ok", length |-> Value(number), value |-> at + 1 + size]
    <3> HIDE DEF number
    <3> QED
      BY <2>2 DEF LongLength, Ok, FormatError, Failure
  <2>4. number \in Seq(Bytes)
    <3>1. \A k \in (at + 1)..(at + data[at] - Half) : data[k] \in Bytes
      BY <1>1, <1>2, <2>1, <2>3
    <3>2. at + 1 \in Int /\ at + data[at] - Half \in Int
      BY <1>1, <1>2
    <3> QED
      BY <3>1, <3>2, SubSeqProperties
  <2>5. Value(number) \in Nat
    <3> HIDE DEF number
    <3> QED
      BY <2>4, ValueType
  <2> HIDE DEF number, r
  <2> QED
    BY <2>2, <2>3, <2>5
<1> QED
  BY <1>3, <1>4

\* An element that decodes is bytes of the data, at least two bytes shorter than
\* what was read, and what follows it is still in the data.
LEMMA TlvDecoded ==
  ASSUME NEW data \in Seq(Bytes), NEW at \in Nat \ {0}, NEW tag,
         Ok(DecodeTlv(data, at, tag))
  PROVE  LET e == DecodeTlv(data, at, tag)
         IN  /\ e.bytes \in Seq(Bytes) /\ e.next \in Nat \ {0}
             /\ e.next >= at + 2 + Len(e.bytes) /\ e.next <= Len(data) + 1
<1> DEFINE l == DecodeLength(data, at + 1)
           e == DecodeTlv(data, at, tag)
<1>1. /\ ~(at > Len(data) \/ data[at] # tag)
      /\ e = IF Ok(l)
             THEN IF l.value + l.length - 1 > Len(data) THEN FormatError
                  ELSE [kind |-> "ok", next |-> l.value + l.length,
                        bytes |-> SubSeq(data, l.value, l.value + l.length - 1)]
             ELSE l
  BY DEF DecodeTlv, Then, Ok, FormatError, Failure
<1>2. Ok(l)
  BY <1>1 DEF Ok
<1>3. at + 1 \in Nat \ {0}
  OBVIOUS
<1>4. l.length \in Nat /\ l.value \in Nat /\ l.value > at + 1
  BY <1>2, <1>3, LengthDecoded
<1> HIDE DEF l
<1>5. /\ ~(l.value + l.length - 1 > Len(data))
      /\ e = [kind |-> "ok", next |-> l.value + l.length,
              bytes |-> SubSeq(data, l.value, l.value + l.length - 1)]
  BY <1>1, <1>2 DEF Ok, FormatError, Failure
<1>6. PICK m \in Nat, n \in Nat : m = l.value /\ n = l.length
  BY <1>4
<1>7. /\ m > at + 1 /\ m + n - 1 <= Len(data)
      /\ e.next = m + n /\ e.bytes = SubSeq(data, m, m + n - 1)
  <2>1. ~(m + n - 1 > Len(data))
    BY <1>5, <1>6
  <2>2. m > at + 1
    BY <1>4, <1>6
  <2> HIDE DEF e
  <2>3. e.next = m + n /\ e.bytes = SubSeq(data, m, m + n - 1)
    BY <1>5, <1>6
  <2> QED
    BY <2>1, <2>2, <2>3
<1> HIDE DEF e
<1>8. /\ SubSeq(data, m, m + n - 1) \in Seq(Bytes)
      /\ Len(SubSeq(data, m, m + n - 1)) = n
  <2>1. \A k \in m..(m + n - 1) : data[k] \in Bytes
    BY <1>7
  <2>2. PICK z \in Int : z = m + n - 1
    OBVIOUS
  <2>3. /\ SubSeq(data, m, z) \in Seq(Bytes)
        /\ Len(SubSeq(data, m, z)) = IF m <= z THEN z - m + 1 ELSE 0
    BY <2>1, <2>2, SubSeqProperties
  <2> QED
    BY <2>2, <2>3
<1>9. /\ e.bytes \in Seq(Bytes) /\ e.next \in Nat \ {0}
      /\ e.next >= at + 2 + Len(e.bytes) /\ e.next <= Len(data) + 1
  BY <1>7, <1>8
<1> QED
  BY <1>9 DEF e

\* A coordinate that decodes has its full width.
LEMMA CoordinateDecoded ==
  ASSUME NEW v \in Seq(Bytes), Ok(DecodeCoordinate(v))
  PROVE  /\ DecodeCoordinate(v).bytes \in Seq(Bytes)
         /\ Len(DecodeCoordinate(v).bytes) = CoordLen
<1>1. CoordLen \in Nat \ {0} /\ Len(v) \in Nat /\ 0 \in Bytes
  BY Widths DEF Bytes
<1>2. ~(Len(v) > CoordLen + 1)
  BY DEF DecodeCoordinate, Ok, FormatError, Failure
<1>3. CASE Len(v) = CoordLen + 1
  <2>1. DecodeCoordinate(v).bytes = SubSeq(v, 2, Len(v))
    BY <1>1, <1>2, <1>3 DEF DecodeCoordinate, Ok, FormatError, Failure, From
  <2>2. SubSeq(v, 2, Len(v)) \in Seq(Bytes) /\ Len(SubSeq(v, 2, Len(v))) = CoordLen
    BY <1>1, <1>3, SubSeqProperties
  <2> QED
    BY <2>1, <2>2
<1>4. CASE Len(v) # CoordLen + 1
  <2> DEFINE pad == [k \in 1..(CoordLen - Len(v)) |-> 0]
  <2>1. DecodeCoordinate(v).bytes = pad \o v
    BY <1>1, <1>2, <1>4 DEF DecodeCoordinate, Ok, FormatError, Failure, From
  <2>2. pad \in Seq(Bytes) /\ Len(pad) = CoordLen - Len(v)
    BY <1>1, <1>2, <1>4
  <2> HIDE DEF pad
  <2> QED
    BY <1>1, <2>1, <2>2
<1> QED
  BY <1>3, <1>4

\* What _der_decode accepts are components, C2 and C3 within the file.
LEMMA DerDecoded ==
  ASSUME NEW ct \in Seq(Bytes), Ok(DerDecode(ct))
  PROVE  /\ WellFormed(DerDecode(ct))
         /\ Len(DerDecode(ct).c2) + C3Len <= Len(ct)
<1> DEFINE outer == DecodeTlv(ct, 1, SequenceTag)
           body == outer.bytes
           x == DecodeTlv(body, 1, IntegerTag)
           y == DecodeTlv(body, x.next, IntegerTag)
           c3 == DecodeTlv(body, y.next, OctetTag)
           c2 == DecodeTlv(body, c3.next, OctetTag)
           px == DecodeCoordinate(x.bytes)
           py == DecodeCoordinate(y.bytes)
<1>1. Ok(outer) /\ DerDecode(ct) = DecodeBody(body)
  BY DEF DerDecode, Then, Ok, FormatError, Failure
<1>2. body \in Seq(Bytes) /\ Len(body) <= Len(ct)
  <2>1. /\ body \in Seq(Bytes) /\ outer.next \in Nat
        /\ outer.next >= 1 + 2 + Len(body) /\ outer.next <= Len(ct) + 1
    <3>1. 1 \in Nat \ {0}
      OBVIOUS
    <3> QED
      BY <1>1, <3>1, TlvDecoded
  <2> QED
    BY <2>1
<1> HIDE DEF outer, body
<1>3. DecodeBody(body) =
        IF ~Ok(x) THEN x ELSE IF ~Ok(y) THEN y ELSE IF ~Ok(c3) THEN c3
        ELSE IF ~Ok(c2) THEN c2 ELSE IF c2.next # Len(body) + 1 THEN FormatError
        ELSE OfElements(x.bytes, y.bytes, c3.bytes, c2.bytes)
  BY DEF DecodeBody, Then
<1>4. Ok(DecodeBody(body))
  BY <1>1
<1> HIDE DEF x, y, c3, c2
<1>5. /\ Ok(x) /\ Ok(y) /\ Ok(c3) /\ Ok(c2) /\ c2.next = Len(body) + 1
      /\ DecodeBody(body) = OfElements(x.bytes, y.bytes, c3.bytes, c2.bytes)
  BY <1>3, <1>4 DEF Ok, FormatError, Failure
<1>6. x.bytes \in Seq(Bytes) /\ x.next \in Nat \ {0} /\ x.next >= 1 + 2 + Len(x.bytes)
  <2>1. 1 \in Nat \ {0}
    OBVIOUS
  <2> QED
    BY <1>2, <1>5, <2>1, TlvDecoded DEF x
<1>7. /\ y.bytes \in Seq(Bytes) /\ y.next \in Nat \ {0}
      /\ y.next >= x.next + 2 + Len(y.bytes)
  BY <1>2, <1>5, <1>6, TlvDecoded DEF y
<1>8. /\ c3.bytes \in Seq(Bytes) /\ c3.next \in Nat \ {0}
      /\ c3.next >= y.next + 2 + Len(c3.bytes)
  BY <1>2, <1>5, <1>7, TlvDecoded DEF c3
<1>9. /\ c2.bytes \in Seq(Bytes) /\ c2.next \in Nat \ {0}
      /\ c2.next >= c3.next + 2 + Len(c2.bytes)
  BY <1>2, <1>5, <1>8, TlvDecoded DEF c2
<1>10. Len(c3.bytes) + Len(c2.bytes) <= Len(ct)
  <2>1. y.next >= 1
    BY <1>7
  <2>2. PICK n2 \in Nat, n3 \in Nat : n2 = Len(c2.bytes) /\ n3 = Len(c3.bytes)
    BY <1>8, <1>9
  <2>3. c3.next >= y.next + 2 + n3 /\ c2.next >= c3.next + 2 + n2
    BY <1>8, <1>9, <2>2
  <2>4. n3 + n2 <= Len(body)
    BY <1>2, <1>5, <1>7, <1>8, <1>9, <2>1, <2>3
  <2>5. Len(body) <= Len(ct) /\ Len(body) \in Nat /\ Len(ct) \in Nat
    BY <1>2
  <2>6. n3 + n2 <= Len(ct)
    BY <2>4, <2>5
  <2> QED
    BY <2>2, <2>6, Zenon
<1>11. OfElements(x.bytes, y.bytes, c3.bytes, c2.bytes) =
        IF Len(c3.bytes) # C3Len \/ c2.bytes = <<>> THEN FormatError
        ELSE IF ~Ok(px) THEN px ELSE IF ~Ok(py) THEN py
        ELSE Components(px.bytes \o py.bytes, c2.bytes, c3.bytes)
  BY DEF OfElements, DecodePoint, Then, Ok
<1>12. Ok(OfElements(x.bytes, y.bytes, c3.bytes, c2.bytes))
  BY <1>4, <1>5
<1> HIDE DEF px, py
<1>13. /\ Len(c3.bytes) = C3Len /\ c2.bytes # <<>> /\ Ok(px) /\ Ok(py)
       /\ OfElements(x.bytes, y.bytes, c3.bytes, c2.bytes) =
            Components(px.bytes \o py.bytes, c2.bytes, c3.bytes)
  BY <1>11, <1>12 DEF Ok, FormatError, Failure
<1>14. /\ px.bytes \in Seq(Bytes) /\ Len(px.bytes) = CoordLen
       /\ py.bytes \in Seq(Bytes) /\ Len(py.bytes) = CoordLen
  BY <1>6, <1>7, <1>13, CoordinateDecoded DEF px, py
<1>15. px.bytes \o py.bytes \in Seq(Bytes) /\ Len(px.bytes \o py.bytes) = C1Len
  <2>1. PICK p \in Seq(Bytes), q \in Seq(Bytes) : p = px.bytes /\ q = py.bytes
    BY <1>14
  <2>3. Len(p) = CoordLen /\ Len(q) = CoordLen
    BY <1>14, <2>1
  <2>2. p \o q \in Seq(Bytes) /\ Len(p \o q) = CoordLen + CoordLen
    BY <2>3, ConcatProperties
  <2> QED
    BY <2>1, <2>2, Widths DEF C1Len
<1>16. DerDecode(ct) = Components(px.bytes \o py.bytes, c2.bytes, c3.bytes)
  BY <1>1, <1>5, <1>13, Zenon
<1>17. /\ DerDecode(ct).c2 = c2.bytes
       /\ WellFormed(Components(px.bytes \o py.bytes, c2.bytes, c3.bytes))
  <2>1. PICK c1 \in Seq(Bytes) : c1 = px.bytes \o py.bytes
    BY <1>15
  <2>2. Len(c1) = C1Len
    BY <1>15, <2>1
  <2>3. WellFormed(Components(c1, c2.bytes, c3.bytes))
    BY <1>8, <1>9, <1>13, <2>2 DEF WellFormed, Components
  <2> QED
    BY <1>16, <2>1, <2>3 DEF Components
<1>18. Len(c2.bytes) + C3Len <= Len(ct)
  BY <1>8, <1>9, <1>10, <1>13, Widths
<1> QED
  BY <1>16, <1>17, <1>18

\* Cut in two, and joined again.
LEMMA Rejoined ==
  ASSUME NEW s \in Seq(Bytes), NEW m \in Nat \ {0}, NEW n \in Nat,
         m <= n + 1, n <= Len(s)
  PROVE  /\ SubSeq(s, m, n) \in Seq(Bytes)
         /\ Len(SubSeq(s, m, n)) = n + 1 - m
         /\ SubSeq(s, m, n) \o SubSeq(s, n + 1, Len(s)) = SubSeq(s, m, Len(s))
<1>1. \A k \in m..n : s[k] \in Bytes
  OBVIOUS
<1>2. /\ SubSeq(s, m, n) \in Seq(Bytes)
      /\ Len(SubSeq(s, m, n)) = IF m <= n THEN n - m + 1 ELSE 0
  BY <1>1, SubSeqProperties
<1>3. SubSeq(s, m, n) \o SubSeq(s, n + 1, Len(s)) = SubSeq(s, m, Len(s))
  <2>1. m \in 1..(Len(s) + 1) /\ n \in (m - 1)..Len(s) /\ Len(s) \in n..Len(s)
    OBVIOUS
  <2> QED
    BY <2>1, ConcatAdjacentSubSeq
<1>4. PICK r : r = SubSeq(s, m, n)
  OBVIOUS
<1>5. r \in Seq(Bytes) /\ Len(r) = IF m <= n THEN n - m + 1 ELSE 0
  BY <1>2, <1>4, Zenon
<1>6. Len(r) = n + 1 - m
  BY <1>5
<1> QED
  BY <1>3, <1>4, <1>5, <1>6, Zenon

\* What may be written in any layout within the lengths of the model.
Fits(c) == WellFormed(c) /\ Short(C1Len + C3Len + Len(c.c2) + 22)

\* The widths of a point and of the shortest bare ciphertext.
LEMMA Sizes ==
  /\ C1Len \in Nat \ {0} /\ C1Len = CoordLen + CoordLen
  /\ MinLen = C1Len + C3Len + 1
  BY Widths DEF C1Len, MinLen

\* The two bare layouts, put together from their parts and cut apart again.
Bare(c, c3First) == c.c1 \o (IF c3First THEN c.c3 \o c.c2 ELSE c.c2 \o c.c3)

\* Three pieces put together, and cut apart.
LEMMA ThreePieces ==
  ASSUME NEW a \in Seq(Bytes), NEW b \in Seq(Bytes), NEW d \in Seq(Bytes)
  PROVE  LET la == Len(a)
             lb == Len(b)
             ld == Len(d)
             ct == a \o (b \o d)
         IN  /\ ct \in Seq(Bytes) /\ Len(ct) = la + lb + ld
             /\ SubSeq(ct, 1, la) = a
             /\ SubSeq(ct, la + 1, la + lb) = b
             /\ SubSeq(ct, la + lb + 1, la + lb + ld) = d
<1>0. PICK la \in Nat, lb \in Nat, ld \in Nat :
        Len(a) = la /\ Len(b) = lb /\ Len(d) = ld
  OBVIOUS
<1>1. b \o d \in Seq(Bytes) /\ Len(b \o d) = lb + ld
  BY <1>0, ConcatProperties
<1>2. PICK ct : ct = a \o (b \o d)
  OBVIOUS
<1>3. ct \in Seq(Bytes) /\ Len(ct) = la + (lb + ld)
  BY <1>0, <1>1, <1>2, ConcatProperties
<1>4. 1 \in Nat \ {0}
  OBVIOUS
<1>5. Lies(ct, 1, ct)
  BY <1>3, WholeLies
<1>6. Lies(ct, 1, a \o (b \o d))
  BY <1>2, <1>5, Zenon
<1>7. PICK p \in Nat \ {0} : p = 1 + la
  OBVIOUS
<1>8. PICK q \in Nat \ {0} : q = p + lb
  OBVIOUS
<1>9. Lies(ct, 1, a) /\ Lies(ct, p, b \o d)
  BY <1>0, <1>1, <1>3, <1>4, <1>6, <1>7, PartsLie
<1>10. Lies(ct, p, b) /\ Lies(ct, q, d)
  BY <1>0, <1>3, <1>8, <1>9, PartsLie
<1>11. SubSeq(ct, 1, 1 + Len(a) - 1) = a
  BY <1>3, <1>4, <1>9, CutOut
<1>12. SubSeq(ct, p, p + Len(b) - 1) = b
  BY <1>3, <1>10, CutOut
<1>13. SubSeq(ct, q, q + Len(d) - 1) = d
  BY <1>3, <1>10, CutOut
<1>14. /\ 1 + Len(a) - 1 = la /\ p = la + 1 /\ p + Len(b) - 1 = la + lb
       /\ q = la + lb + 1 /\ q + Len(d) - 1 = la + lb + ld
       /\ la + (lb + ld) = la + lb + ld
  BY <1>0, <1>7, <1>8
<1> QED
  BY <1>0, <1>2, <1>3, <1>11, <1>12, <1>13, <1>14, Zenon

\* _split_raw undoes the writing of a bare layout.
LEMMA BareSplits ==
  ASSUME NEW c, WellFormed(c), NEW c3First \in BOOLEAN
  PROVE  /\ Bare(c, c3First) \in Seq(Bytes)
         /\ Len(Bare(c, c3First)) = C1Len + C3Len + Len(c.c2)
         /\ Len(Bare(c, c3First)) >= MinLen
         /\ SplitRaw(Bare(c, c3First), c3First) = c
<1>1. PICK c1 \in Seq(Bytes), c2 \in Seq(Bytes), c3 \in Seq(Bytes) :
        /\ c = Components(c1, c2, c3) /\ c1 = c.c1 /\ c2 = c.c2 /\ c3 = c.c3
        /\ Len(c1) = C1Len /\ Len(c3) = C3Len /\ c2 # <<>>
  BY DEF WellFormed, Components
<1>2. PICK L1 \in Nat, L2 \in Nat \ {0}, L3 \in Nat :
        /\ Len(c1) = L1 /\ Len(c2) = L2 /\ Len(c3) = L3 /\ L1 = C1Len /\ L3 = C3Len
        /\ MinLen = L1 + L3 + 1
  BY <1>1, Sizes, Widths
<1>3. CASE c3First = TRUE
  <2>1. PICK ct : ct = c1 \o (c3 \o c2)
    OBVIOUS
  <2>2. Bare(c, c3First) = ct
    BY <1>1, <1>3, <2>1, Zenon DEF Bare
  <2>3. /\ ct \in Seq(Bytes) /\ Len(ct) = L1 + L3 + L2
        /\ SubSeq(ct, 1, L1) = c1
        /\ SubSeq(ct, L1 + 1, L1 + L3) = c3
        /\ SubSeq(ct, L1 + L3 + 1, L1 + L3 + L2) = c2
    <3>1. /\ c1 \o (c3 \o c2) \in Seq(Bytes)
          /\ Len(c1 \o (c3 \o c2)) = Len(c1) + Len(c3) + Len(c2)
          /\ SubSeq(c1 \o (c3 \o c2), 1, Len(c1)) = c1
          /\ SubSeq(c1 \o (c3 \o c2), Len(c1) + 1, Len(c1) + Len(c3)) = c3
          /\ SubSeq(c1 \o (c3 \o c2), Len(c1) + Len(c3) + 1,
                    Len(c1) + Len(c3) + Len(c2)) = c2
      BY ThreePieces
    <3> QED
      BY <1>2, <2>1, <3>1, Zenon
  <2>4. ~(Len(ct) < MinLen) /\ Len(ct) >= MinLen
    BY <1>2, <2>3
  <2>5. SplitRaw(ct, TRUE) = Components(c1, c2, c3)
    BY <1>2, <2>3, <2>4, Zenon DEF SplitRaw, From
  <2>6. Len(ct) = C1Len + C3Len + Len(c.c2)
    BY <1>1, <1>2, <2>3, Zenon
  <2> QED
    BY <1>1, <1>3, <2>2, <2>3, <2>4, <2>5, <2>6, Zenon
<1>4. CASE c3First = FALSE
  <2>1. PICK ct : ct = c1 \o (c2 \o c3)
    OBVIOUS
  <2>2. Bare(c, c3First) = ct
    BY <1>1, <1>4, <2>1, Zenon DEF Bare
  <2>3. /\ ct \in Seq(Bytes) /\ Len(ct) = L1 + L2 + L3
        /\ SubSeq(ct, 1, L1) = c1
        /\ SubSeq(ct, L1 + 1, L1 + L2) = c2
        /\ SubSeq(ct, L1 + L2 + 1, L1 + L2 + L3) = c3
    <3>1. /\ c1 \o (c2 \o c3) \in Seq(Bytes)
          /\ Len(c1 \o (c2 \o c3)) = Len(c1) + Len(c2) + Len(c3)
          /\ SubSeq(c1 \o (c2 \o c3), 1, Len(c1)) = c1
          /\ SubSeq(c1 \o (c2 \o c3), Len(c1) + 1, Len(c1) + Len(c2)) = c2
          /\ SubSeq(c1 \o (c2 \o c3), Len(c1) + Len(c2) + 1,
                    Len(c1) + Len(c2) + Len(c3)) = c3
      BY ThreePieces
    <3> QED
      BY <1>2, <2>1, <3>1, Zenon
  <2>4. /\ ~(Len(ct) < MinLen) /\ Len(ct) >= MinLen
        /\ Len(ct) - L3 = L1 + L2 /\ L1 + L2 + L3 = L1 + L3 + L2
    BY <1>2, <2>3
  <2>5. SplitRaw(ct, FALSE) = Components(c1, c2, c3)
    BY <1>2, <2>3, <2>4, Zenon DEF SplitRaw, From
  <2>6. Len(ct) = C1Len + C3Len + Len(c.c2)
    BY <1>1, <1>2, <2>3, <2>4, Zenon
  <2> QED
    BY <1>1, <1>4, <2>2, <2>3, <2>4, <2>5, <2>6, Zenon
<1> QED
  BY <1>3, <1>4

\* What _split_raw accepts are components, and the bytes are nothing else.
LEMMA SplitJoins ==
  ASSUME NEW ct \in Seq(Bytes), NEW c3First \in BOOLEAN, Ok(SplitRaw(ct, c3First))
  PROVE  /\ WellFormed(SplitRaw(ct, c3First))
         /\ Len(SplitRaw(ct, c3First).c2) = Len(ct) - C1Len - C3Len
         /\ Bare(SplitRaw(ct, c3First), c3First) = ct
<1>1. ~(Len(ct) < MinLen)
  BY DEF SplitRaw, Ok, FormatError, Failure
<1>2. PICK L \in Nat, L1 \in Nat \ {0}, L3 \in Nat \ {0} :
        L = Len(ct) /\ L1 = C1Len /\ L3 = C3Len /\ L >= L1 + L3 + 1
  BY <1>1, Sizes, Widths
<1>3. /\ SubSeq(ct, 1, L1) \in Seq(Bytes) /\ Len(SubSeq(ct, 1, L1)) = L1
      /\ SubSeq(ct, 1, L1) \o SubSeq(ct, L1 + 1, L) = ct
  <2>1. /\ SubSeq(ct, 1, L1) \in Seq(Bytes) /\ Len(SubSeq(ct, 1, L1)) = L1 + 1 - 1
        /\ SubSeq(ct, 1, L1) \o SubSeq(ct, L1 + 1, L) = SubSeq(ct, 1, L)
    <3>1. 1 \in Nat \ {0} /\ L1 \in Nat /\ 1 <= L1 + 1 /\ L1 <= Len(ct)
      BY <1>2
    <3> QED
      BY <1>2, <3>1, Rejoined
  <2>2. SubSeq(ct, 1, L) = ct /\ L1 + 1 - 1 = L1
    BY <1>2, SubSeqFull
  <2> QED
    BY <2>1, <2>2, Zenon
<1>4. ASSUME NEW k \in L1..L
      PROVE  /\ SubSeq(ct, L1 + 1, k) \in Seq(Bytes)
             /\ Len(SubSeq(ct, L1 + 1, k)) = k + 1 - (L1 + 1)
             /\ SubSeq(ct, L1 + 1, k) \o SubSeq(ct, k + 1, L) = SubSeq(ct, L1 + 1, L)
  <2>1. /\ L1 + 1 \in Nat \ {0} /\ k \in Nat /\ L1 + 1 <= k + 1 /\ k <= Len(ct)
    BY <1>2
  <2> QED
    BY <1>2, <2>1, Rejoined
<1>5. ASSUME NEW k \in L1..L
      PROVE  /\ SubSeq(ct, k + 1, L) \in Seq(Bytes)
             /\ Len(SubSeq(ct, k + 1, L)) = L + 1 - (k + 1)
  <2>1. /\ k + 1 \in Nat \ {0} /\ L \in Nat /\ k + 1 <= L + 1 /\ L <= Len(ct)
    BY <1>2
  <2> QED
    BY <1>2, <2>1, Rejoined
<1>6. CASE c3First = TRUE
  <2>1. PICK k \in L1..L : k = L1 + L3
    BY <1>2
  <2>2. /\ k + 1 - (L1 + 1) = L3 /\ L + 1 - (k + 1) = L - L1 - L3
        /\ L - L1 - L3 > 0
    BY <1>2, <2>1
  <2>3. PICK a, b, d : a = SubSeq(ct, 1, L1) /\ b = SubSeq(ct, L1 + 1, k)
                       /\ d = SubSeq(ct, k + 1, L)
    OBVIOUS
  <2>4. /\ a \in Seq(Bytes) /\ b \in Seq(Bytes) /\ d \in Seq(Bytes)
        /\ Len(a) = L1 /\ Len(b) = L3 /\ Len(d) = L - L1 - L3
        /\ a \o (b \o d) = ct
    BY <1>3, <1>4, <1>5, <2>2, <2>3, Zenon
  <2>5. d # <<>>
    BY <2>2, <2>4
  <2>6. SplitRaw(ct, TRUE) = Components(a, d, b)
    BY <1>1, <1>2, <2>1, <2>3, Zenon DEF SplitRaw, From
  <2>7. WellFormed(Components(a, d, b)) /\ Bare(Components(a, d, b), TRUE) = ct
    BY <1>2, <2>4, <2>5 DEF WellFormed, Components, Bare
  <2>8. Components(a, d, b).c2 = d
    BY DEF Components
  <2> QED
    BY <1>2, <1>6, <2>4, <2>6, <2>7, <2>8, Zenon
<1>7. CASE c3First = FALSE
  <2>1. PICK k \in L1..L : k = L - L3
    BY <1>2
  <2>2. /\ k + 1 - (L1 + 1) = L - L1 - L3 /\ L + 1 - (k + 1) = L3
        /\ L - L1 - L3 > 0
    BY <1>2, <2>1
  <2>3. PICK a, b, d : a = SubSeq(ct, 1, L1) /\ d = SubSeq(ct, L1 + 1, k)
                       /\ b = SubSeq(ct, k + 1, L)
    OBVIOUS
  <2>4. /\ a \in Seq(Bytes) /\ b \in Seq(Bytes) /\ d \in Seq(Bytes)
        /\ Len(a) = L1 /\ Len(b) = L3 /\ Len(d) = L - L1 - L3
        /\ a \o (d \o b) = ct
    BY <1>3, <1>4, <1>5, <2>2, <2>3, Zenon
  <2>5. d # <<>>
    BY <2>2, <2>4
  <2>6. SplitRaw(ct, FALSE) = Components(a, d, b)
    BY <1>1, <1>2, <2>1, <2>3, Zenon DEF SplitRaw, From
  <2>7. WellFormed(Components(a, d, b)) /\ Bare(Components(a, d, b), FALSE) = ct
    BY <1>2, <2>4, <2>5 DEF WellFormed, Components, Bare
  <2>8. Components(a, d, b).c2 = d
    BY DEF Components
  <2> QED
    BY <1>2, <1>7, <2>4, <2>6, <2>7, <2>8, Zenon
<1> QED
  BY <1>6, <1>7

-----------------------------------------------------------------------------
(* Decoding undoes encoding *)

\* An element adds its tag and one to three bytes of length.
LEMMA TlvSize ==
  ASSUME NEW tag \in Bytes, NEW v \in Seq(Bytes), Short(Len(v))
  PROVE  \E t \in Seq(Bytes) :
           /\ t = Tlv(tag, v) /\ t[1] = tag
           /\ Len(t) \in (Len(v) + 2)..(Len(v) + 4)
<1>1. PICK t \in Seq(Bytes) : t = Tlv(tag, v)
  BY TlvType
<1>2. PICK n \in 1..3 : n = Len(EncodeLength(Len(v)))
  BY LengthType
<1>3. t[1] = tag /\ Len(t) = 1 + n + Len(v)
  BY <1>1, <1>2, TlvType
<1> QED
  BY <1>1, <1>3

\* Where each of four elements lies in the body they make.
LEMMA FourLie ==
  ASSUME NEW a \in Seq(Bytes), NEW b \in Seq(Bytes), NEW d \in Seq(Bytes),
         NEW e \in Seq(Bytes)
  PROVE  \E body \in Seq(Bytes) :
           /\ body = a \o b \o d \o e
           /\ Len(body) = Len(a) + Len(b) + Len(d) + Len(e)
           /\ Lies(body, 1, a) /\ Lies(body, 1 + Len(a), b)
           /\ Lies(body, 1 + Len(a) + Len(b), d)
           /\ Lies(body, 1 + Len(a) + Len(b) + Len(d), e)
<1>1. PICK la \in Nat, lb \in Nat, ld \in Nat, le \in Nat :
        la = Len(a) /\ lb = Len(b) /\ ld = Len(d) /\ le = Len(e)
  OBVIOUS
<1>2. PICK ab \in Seq(Bytes) : ab = a \o b /\ Len(ab) = Len(a) + Len(b)
  BY ConcatProperties
<1>3. PICK abd \in Seq(Bytes) : abd = ab \o d /\ Len(abd) = Len(ab) + Len(d)
  BY ConcatProperties
<1>4. PICK body \in Seq(Bytes) : body = abd \o e /\ Len(body) = Len(abd) + Len(e)
  BY ConcatProperties
<1>5. 1 \in Nat \ {0} /\ Lies(body, 1, body)
  BY WholeLies
<1>6. Lies(body, 1, abd) /\ Lies(body, 1 + Len(abd), e)
  BY <1>4, <1>5, PartsLie
<1>7. Lies(body, 1, ab) /\ Lies(body, 1 + Len(ab), d)
  BY <1>3, <1>5, <1>6, PartsLie
<1>8. Lies(body, 1, a) /\ Lies(body, 1 + Len(a), b)
  BY <1>2, <1>5, <1>7, PartsLie
<1>9. /\ body = a \o b \o d \o e
      /\ Len(body) = Len(a) + Len(b) + Len(d) + Len(e)
  BY <1>2, <1>3, <1>4, Zenon
<1>10. /\ 1 + (la + lb) = 1 + la + lb /\ 1 + ((la + lb) + ld) = 1 + la + lb + ld
  OBVIOUS
<1>11. /\ Lies(body, 1 + Len(a) + Len(b), d)
       /\ Lies(body, 1 + Len(a) + Len(b) + Len(d), e)
  BY <1>1, <1>2, <1>3, <1>6, <1>7, <1>10, Zenon
<1> QED
  BY <1>8, <1>9, <1>11

\* _der_decode undoes _der_encode, for components of any size that fits; and the
\* encoding adds 22 bytes at most.
THEOREM DerUndone ==
  ASSUME NEW c, Fits(c)
  PROVE  LET ct == DerEncode(c.c1, c.c2, c.c3)
         IN  /\ ct \in Seq(Bytes) /\ ct # <<>> /\ ct[1] = SequenceTag
             /\ Len(ct) <= C1Len + C3Len + Len(c.c2) + 22
             /\ DerDecode(ct) = c
<1>1. PICK c1 \in Seq(Bytes), c2 \in Seq(Bytes), c3 \in Seq(Bytes) :
        /\ c = Components(c1, c2, c3) /\ c1 = c.c1 /\ c2 = c.c2 /\ c3 = c.c3
        /\ Len(c1) = C1Len /\ Len(c3) = C3Len /\ c2 # <<>>
  BY DEF Fits, WellFormed, Components
<1>2. PICK L2 \in Nat \ {0}, L3 \in Nat \ {0}, W \in Nat \ {0} :
        /\ Len(c2) = L2 /\ Len(c3) = L3 /\ L3 = C3Len /\ W = CoordLen
        /\ C1Len = W + W
  BY <1>1, Sizes, Widths
<1>3. PICK first \in Seq(Bytes), second \in Seq(Bytes) :
        /\ first = SubSeq(c1, 1, CoordLen) /\ second = From(c1, CoordLen + 1)
        /\ Len(first) = CoordLen /\ Len(second) = CoordLen
        /\ first \o second = c1
  <2>1. 1 \in Nat \ {0} /\ W \in Nat /\ 1 <= W + 1 /\ W <= Len(c1)
    BY <1>1, <1>2
  <2>2. /\ SubSeq(c1, 1, W) \in Seq(Bytes) /\ Len(SubSeq(c1, 1, W)) = W + 1 - 1
        /\ SubSeq(c1, 1, W) \o SubSeq(c1, W + 1, Len(c1)) = SubSeq(c1, 1, Len(c1))
    BY <2>1, Rejoined
  <2>3. W + 1 \in Nat \ {0} /\ W + W \in Nat /\ W + 1 <= (W + W) + 1 /\ W + W <= Len(c1)
    BY <1>1, <1>2
  <2>4. /\ SubSeq(c1, W + 1, W + W) \in Seq(Bytes)
        /\ Len(SubSeq(c1, W + 1, W + W)) = (W + W) + 1 - (W + 1)
    BY <2>3, Rejoined
  <2>5. /\ SubSeq(c1, 1, Len(c1)) = c1 /\ Len(c1) = W + W
        /\ W + 1 - 1 = W /\ (W + W) + 1 - (W + 1) = W
    BY <1>1, <1>2, SubSeqFull
  <2>6. /\ SubSeq(c1, 1, W) \in Seq(Bytes) /\ Len(SubSeq(c1, 1, W)) = W
        /\ From(c1, W + 1) \in Seq(Bytes) /\ Len(From(c1, W + 1)) = W
        /\ SubSeq(c1, 1, W) \o From(c1, W + 1) = c1
    BY <2>2, <2>4, <2>5, Zenon DEF From
  <2> QED
    BY <1>2, <2>6, Zenon
<1>4. PICK x \in Seq(Bytes) :
        /\ EncodeCoordinate(first) = Tlv(IntegerTag, x)
        /\ Len(x) \in 1..(CoordLen + 1)
        /\ DecodeCoordinate(x) = [kind |-> "ok", bytes |-> first]
  BY <1>3, CoordinateDecodes
<1>5. PICK y \in Seq(Bytes) :
        /\ EncodeCoordinate(second) = Tlv(IntegerTag, y)
        /\ Len(y) \in 1..(CoordLen + 1)
        /\ DecodeCoordinate(y) = [kind |-> "ok", bytes |-> second]
  BY <1>3, CoordinateDecodes
<1>6. IntegerTag \in Bytes /\ OctetTag \in Bytes /\ SequenceTag \in Bytes
  BY Widths DEF Bytes
<1>7. PICK most \in Nat : most = 4 * Half * Half
  BY Widths
<1>8. W + W + L3 + L2 + 22 < most
  BY <1>1, <1>2, <1>7 DEF Fits, Short
<1>9. /\ Short(Len(x)) /\ Short(Len(y)) /\ Short(Len(c3)) /\ Short(Len(c2))
  BY <1>2, <1>4, <1>5, <1>7, <1>8 DEF Short
<1>10. PICK tx \in Seq(Bytes) :
         tx = Tlv(IntegerTag, x) /\ Len(tx) \in (Len(x) + 2)..(Len(x) + 4)
  BY <1>6, <1>9, TlvSize
<1>11. PICK ty \in Seq(Bytes) :
         ty = Tlv(IntegerTag, y) /\ Len(ty) \in (Len(y) + 2)..(Len(y) + 4)
  BY <1>6, <1>9, TlvSize
<1>12. PICK t3 \in Seq(Bytes) :
         t3 = Tlv(OctetTag, c3) /\ Len(t3) \in (Len(c3) + 2)..(Len(c3) + 4)
  BY <1>6, <1>9, TlvSize
<1>13. PICK t2 \in Seq(Bytes) :
         t2 = Tlv(OctetTag, c2) /\ Len(t2) \in (Len(c2) + 2)..(Len(c2) + 4)
  BY <1>6, <1>9, TlvSize
<1>14. PICK body \in Seq(Bytes) :
         /\ body = tx \o ty \o t3 \o t2
         /\ Len(body) = Len(tx) + Len(ty) + Len(t3) + Len(t2)
         /\ Lies(body, 1, tx) /\ Lies(body, 1 + Len(tx), ty)
         /\ Lies(body, 1 + Len(tx) + Len(ty), t3)
         /\ Lies(body, 1 + Len(tx) + Len(ty) + Len(t3), t2)
  BY FourLie
<1>15. Len(body) + 4 <= W + W + L3 + L2 + 22 /\ Short(Len(body))
  <2>1. PICK k1 \in Nat, k2 \in Nat, k3 \in Nat, k4 \in Nat :
          k1 = Len(tx) /\ k2 = Len(ty) /\ k3 = Len(t3) /\ k4 = Len(t2)
    OBVIOUS
  <2>2. /\ k1 <= W + 5 /\ k2 <= W + 5 /\ k3 <= L3 + 4 /\ k4 <= L2 + 4
    <3>1. k1 <= W + 5
      BY <1>2, <1>4, <1>10, <2>1
    <3>2. k2 <= W + 5
      BY <1>2, <1>5, <1>11, <2>1
    <3>3. k3 <= L3 + 4
      BY <1>2, <1>12, <2>1
    <3>4. k4 <= L2 + 4
      BY <1>2, <1>13, <2>1
    <3> QED
      BY <3>1, <3>2, <3>3, <3>4
  <2>3. Len(body) = k1 + k2 + k3 + k4
    BY <1>14, <2>1, Zenon
  <2>4. PICK k \in Nat : k = Len(body)
    OBVIOUS
  <2>5. k + 4 <= W + W + L3 + L2 + 22 /\ k < most
    BY <1>8, <2>2, <2>3, <2>4
  <2> QED
    BY <1>7, <2>4, <2>5, Zenon DEF Short
<1>16. PICK ct \in Seq(Bytes) :
         /\ ct = Tlv(SequenceTag, body) /\ ct[1] = SequenceTag
         /\ Len(ct) \in (Len(body) + 2)..(Len(body) + 4)
  BY <1>6, <1>15, TlvSize
<1>17. ct = DerEncode(c.c1, c.c2, c.c3)
  <2>1. body = EncodeCoordinate(first) \o EncodeCoordinate(second)
               \o Tlv(OctetTag, c3) \o Tlv(OctetTag, c2)
    BY <1>4, <1>5, <1>10, <1>11, <1>12, <1>13, <1>14, Zenon
  <2>2. DerEncode(c1, c2, c3) = Tlv(SequenceTag, body)
    BY <1>3, <2>1, Zenon DEF DerEncode
  <2> QED
    BY <1>1, <1>16, <2>2, Zenon
<1>18. ct # <<>> /\ Len(ct) <= C1Len + C3Len + Len(c.c2) + 22
  <2>1. PICK k \in Nat, n \in Nat : k = Len(body) /\ n = Len(ct)
    OBVIOUS
  <2>2. n > 0 /\ n <= W + W + L3 + L2 + 22
    BY <1>15, <1>16, <2>1
  <2>3. W + W + L3 + L2 + 22 = C1Len + C3Len + Len(c.c2) + 22
    BY <1>1, <1>2, Zenon
  <2> QED
    BY <2>1, <2>2, <2>3
<1>19. DecodeTlv(ct, 1, SequenceTag) =
         [kind |-> "ok", next |-> 1 + Len(ct), bytes |-> body]
  <2>1. Lies(ct, 1, Tlv(SequenceTag, body)) /\ 1 \in Nat \ {0}
    BY <1>16, WholeLies
  <2>2. DecodeTlv(ct, 1, SequenceTag) =
          [kind |-> "ok", next |-> 1 + Len(Tlv(SequenceTag, body)), bytes |-> body]
    BY <1>6, <1>15, <2>1, TlvDecodes
  <2> QED
    BY <1>16, <2>2, Zenon
<1>20. PICK n1 \in Nat \ {0}, n2 \in Nat \ {0}, n3 \in Nat \ {0}, n4 \in Nat \ {0} :
         /\ n1 = 1 + Len(tx) /\ n2 = 1 + Len(tx) + Len(ty)
         /\ n3 = 1 + Len(tx) + Len(ty) + Len(t3) /\ n4 = Len(body) + 1
         /\ n2 = n1 + Len(ty) /\ n3 = n2 + Len(t3) /\ n4 = n3 + Len(t2)
  <2>1. PICK k1 \in Nat, k2 \in Nat, k3 \in Nat, k4 \in Nat :
          k1 = Len(tx) /\ k2 = Len(ty) /\ k3 = Len(t3) /\ k4 = Len(t2)
    OBVIOUS
  <2>2. Len(body) = k1 + k2 + k3 + k4
    BY <1>14, <2>1, Zenon
  <2>3. PICK n1 \in Nat \ {0}, n2 \in Nat \ {0}, n3 \in Nat \ {0},
             n4 \in Nat \ {0} :
          /\ n1 = 1 + k1 /\ n2 = 1 + k1 + k2 /\ n3 = 1 + k1 + k2 + k3
          /\ n4 = (k1 + k2 + k3 + k4) + 1
    OBVIOUS
  <2>4. n2 = n1 + k2 /\ n3 = n2 + k3 /\ n4 = n3 + k4
    BY <2>3
  <2>5. /\ n1 = 1 + Len(tx) /\ n2 = 1 + Len(tx) + Len(ty)
        /\ n3 = 1 + Len(tx) + Len(ty) + Len(t3) /\ n4 = Len(body) + 1
        /\ n2 = n1 + Len(ty) /\ n3 = n2 + Len(t3) /\ n4 = n3 + Len(t2)
    BY <2>1, <2>2, <2>3, <2>4, Zenon
  <2> QED
    BY <2>5
<1>21. DecodeTlv(body, 1, IntegerTag) = [kind |-> "ok", next |-> n1, bytes |-> x]
  <2>1. Lies(body, 1, Tlv(IntegerTag, x)) /\ 1 \in Nat \ {0}
    BY <1>10, <1>14
  <2>2. DecodeTlv(body, 1, IntegerTag) =
          [kind |-> "ok", next |-> 1 + Len(Tlv(IntegerTag, x)), bytes |-> x]
    BY <1>6, <1>9, <2>1, TlvDecodes
  <2> QED
    BY <1>10, <1>20, <2>2, Zenon
<1>22. DecodeTlv(body, n1, IntegerTag) = [kind |-> "ok", next |-> n2, bytes |-> y]
  <2>1. Lies(body, n1, Tlv(IntegerTag, y))
    BY <1>11, <1>14, <1>20, Zenon
  <2>2. DecodeTlv(body, n1, IntegerTag) =
          [kind |-> "ok", next |-> n1 + Len(Tlv(IntegerTag, y)), bytes |-> y]
    BY <1>6, <1>9, <2>1, TlvDecodes
  <2> QED
    BY <1>11, <1>20, <2>2, Zenon
<1>23. DecodeTlv(body, n2, OctetTag) = [kind |-> "ok", next |-> n3, bytes |-> c3]
  <2>1. Lies(body, n2, Tlv(OctetTag, c3))
    BY <1>12, <1>14, <1>20, Zenon
  <2>2. DecodeTlv(body, n2, OctetTag) =
          [kind |-> "ok", next |-> n2 + Len(Tlv(OctetTag, c3)), bytes |-> c3]
    BY <1>6, <1>9, <2>1, TlvDecodes
  <2> QED
    BY <1>12, <1>20, <2>2, Zenon
<1>24. DecodeTlv(body, n3, OctetTag) = [kind |-> "ok", next |-> n4, bytes |-> c2]
  <2>1. Lies(body, n3, Tlv(OctetTag, c2))
    BY <1>13, <1>14, <1>20, Zenon
  <2>2. DecodeTlv(body, n3, OctetTag) =
          [kind |-> "ok", next |-> n3 + Len(Tlv(OctetTag, c2)), bytes |-> c2]
    BY <1>6, <1>9, <2>1, TlvDecodes
  <2> QED
    BY <1>13, <1>20, <2>2, Zenon
<1>25. DecodeBody(body) = OfElements(x, y, c3, c2)
  <2> DEFINE ex == DecodeTlv(body, 1, IntegerTag)
             ey == DecodeTlv(body, ex.next, IntegerTag)
             e3 == DecodeTlv(body, ey.next, OctetTag)
             e2 == DecodeTlv(body, e3.next, OctetTag)
  <2>1. DecodeBody(body) =
          IF ~Ok(ex) THEN ex ELSE IF ~Ok(ey) THEN ey ELSE IF ~Ok(e3) THEN e3
          ELSE IF ~Ok(e2) THEN e2 ELSE IF e2.next # Len(body) + 1 THEN FormatError
          ELSE OfElements(ex.bytes, ey.bytes, e3.bytes, e2.bytes)
    BY DEF DecodeBody, Then
  <2>2. ex.next = n1 /\ ex.bytes = x /\ Ok(ex)
    BY <1>21 DEF Ok
  <2>3. ey.next = n2 /\ ey.bytes = y /\ Ok(ey)
    BY <1>22, <2>2 DEF Ok
  <2>4. e3.next = n3 /\ e3.bytes = c3 /\ Ok(e3)
    BY <1>23, <2>3 DEF Ok
  <2>5. e2.next = n4 /\ e2.bytes = c2 /\ Ok(e2)
    BY <1>24, <2>4 DEF Ok
  <2> HIDE DEF ex, ey, e3, e2
  <2> QED
    BY <1>20, <2>1, <2>2, <2>3, <2>4, <2>5, Zenon
<1>26. OfElements(x, y, c3, c2) = Components(first \o second, c2, c3)
  BY <1>1, <1>4, <1>5 DEF OfElements, DecodePoint, Then, Ok
<1>27. DerDecode(ct) = DecodeBody(body)
  <2>1. 1 + Len(ct) = Len(ct) + 1
    OBVIOUS
  <2> QED
    BY <1>19, <2>1 DEF DerDecode, Then, Ok
<1>28. DerDecode(ct) = c
  BY <1>1, <1>3, <1>25, <1>26, <1>27, Zenon
<1> QED
  BY <1>16, <1>17, <1>18, <1>28, Zenon

-----------------------------------------------------------------------------
(* Every layout *)

\* The mark before a sequence, and off again.
LEMMA Marks ==
  ASSUME NEW s \in Seq(Bytes)
  PROVE  /\ <<OctetTag>> \o s \in Seq(Bytes)
         /\ Len(<<OctetTag>> \o s) = 1 + Len(s)
         /\ <<OctetTag>> \o s # <<>> /\ (<<OctetTag>> \o s)[1] = OctetTag
         /\ Tail(<<OctetTag>> \o s) = s
<1>1. OctetTag \in Bytes
  BY Widths DEF Bytes
<1>2. <<OctetTag>> \in Seq(Bytes) /\ Len(<<OctetTag>>) = 1 /\ <<OctetTag>>[1] = OctetTag
  BY <1>1
<1>3. PICK t \in Seq(Bytes) : t = <<OctetTag>> \o s /\ Len(t) = 1 + Len(s)
  <2>1. PICK a \in Seq(Bytes) : a = <<OctetTag>> /\ Len(a) = 1
    BY <1>2
  <2>2. a \o s \in Seq(Bytes) /\ Len(a \o s) = Len(a) + Len(s)
    BY ConcatProperties
  <2> QED
    BY <2>1, <2>2, Zenon
<1>4. t[1] = OctetTag /\ \A k \in 1..Len(s) : t[1 + k] = s[k]
  BY <1>2, <1>3
<1>5. t # <<>>
  BY <1>3
<1>6. Tail(t) = s
  <2>1. Tail(t) \in Seq(Bytes) /\ Len(Tail(t)) = Len(s)
    BY <1>3, <1>5
  <2>2. \A k \in 1..Len(s) : Tail(t)[k] = s[k]
    BY <1>3, <1>4, <1>5
  <2> QED
    BY <2>1, <2>2, SeqEqual
<1> QED
  BY <1>3, <1>4, <1>5, <1>6, Zenon

\* A byte and the sequence behind it.
LEMMA Unmarks ==
  ASSUME NEW s \in Seq(Bytes), s # <<>>, s[1] = OctetTag
  PROVE  Tail(s) \in Seq(Bytes) /\ Len(Tail(s)) = Len(s) - 1 /\ <<OctetTag>> \o Tail(s) = s
<1>1. PICK t \in Seq(Bytes) : /\ t = Tail(s) /\ Len(t) = Len(s) - 1
                              /\ \A k \in 1..Len(t) : t[k] = s[k + 1]
  BY HeadTailProperties
<1>2. PICK m \in Seq(Bytes) : m = <<OctetTag>> \o t /\ Len(m) = 1 + Len(t) /\ m[1] = OctetTag
  BY Marks
<1>3. \A k \in 1..Len(t) : m[1 + k] = t[k]
  BY <1>2
<1>4. Len(m) = Len(s) /\ Len(s) > 0
  BY <1>1, <1>2
<1>5. ASSUME NEW k \in 1..Len(s)
      PROVE  m[k] = s[k]
  <2>1. CASE k = 1
    BY <1>2, <2>1
  <2>2. CASE k # 1
    <3>1. PICK j \in 1..Len(t) : j = k - 1
      BY <1>1, <2>2
    <3>2. m[1 + j] = s[j + 1]
      BY <1>1, <1>3, Zenon
    <3>3. 1 + j = k /\ j + 1 = k
      BY <1>1, <3>1
    <3> QED
      BY <3>2, <3>3, Zenon
  <2> QED
    BY <2>1, <2>2
<1>6. m = s
  BY <1>4, <1>5, SeqEqual
<1> QED
  BY <1>1, <1>2, <1>6, Zenon

\* The layouts, one by one.
LEMMA FormatCases ==
  ASSUME NEW f \in Formats
  PROVE  /\ C3First(f) \in BOOLEAN
         /\ \/ f = "DER" /\ f \notin BareFormats /\ f \notin MarkedFormats
            \/ f \in BareFormats /\ f # "DER" /\ f \notin MarkedFormats
            \/ f \in MarkedFormats /\ f # "DER" /\ f \notin BareFormats
  BY DEF Formats, BareFormats, MarkedFormats, C3First

\* _to_components undoes _from_components, in every layout.
LEMMA LayoutUndone ==
  ASSUME NEW c, Fits(c), NEW f \in Formats
  PROVE  /\ FromComponents(c, f) \in Seq(Bytes)
         /\ Len(FromComponents(c, f)) <= C1Len + C3Len + Len(c.c2) + 22
         /\ ToComponents(FromComponents(c, f), f) = c
<1>1. PICK b \in Seq(Bytes) :
        /\ b = Bare(c, C3First(f)) /\ Len(b) = C1Len + C3Len + Len(c.c2)
        /\ SplitRaw(b, C3First(f)) = c
  BY FormatCases, BareSplits DEF Fits
<1>5. /\ Len(b) <= C1Len + C3Len + Len(c.c2) + 22
      /\ 1 + Len(b) <= C1Len + C3Len + Len(c.c2) + 22
  <2>1. PICK n \in Nat : n = Len(b)
    OBVIOUS
  <2>2. n <= n + 22 /\ 1 + n <= n + 22
    OBVIOUS
  <2> QED
    BY <1>1, <2>1, <2>2, Zenon
<1>2. CASE f = "DER"
  <2>1. FromComponents(c, f) = DerEncode(c.c1, c.c2, c.c3)
    BY <1>2, Zenon DEF FromComponents
  <2>2. ToComponents(FromComponents(c, f), f) = DerDecode(FromComponents(c, f))
    BY <1>2, Zenon DEF ToComponents
  <2> QED
    BY <2>1, <2>2, DerUndone
<1>3. CASE f \in BareFormats
  <2>1. FromComponents(c, f) = b
    BY <1>1, <1>3, FormatCases, Zenon DEF FromComponents, Bare
  <2>2. ToComponents(b, f) = c
    BY <1>1, <1>3, FormatCases, Zenon DEF ToComponents
  <2> QED
    BY <1>5, <2>1, <2>2, Zenon
<1>4. CASE f \in MarkedFormats
  <2>1. FromComponents(c, f) = <<OctetTag>> \o b
    BY <1>1, <1>4, FormatCases, Zenon DEF FromComponents, Bare
  <2>2. PICK m \in Seq(Bytes) :
          /\ m = <<OctetTag>> \o b /\ Len(m) = 1 + Len(b)
          /\ m # <<>> /\ m[1] = OctetTag /\ Tail(m) = b
    BY Marks
  <2>3. ToComponents(m, f) = c
    BY <1>1, <1>4, <2>2, FormatCases, Zenon DEF ToComponents
  <2>4. Len(m) <= C1Len + C3Len + Len(c.c2) + 22
    BY <1>5, <2>2, Zenon
  <2> QED
    BY <2>1, <2>2, <2>3, <2>4, Zenon
<1> QED
  BY <1>2, <1>3, <1>4, FormatCases

\* What a layout's reader accepts are components that fit in the file, and
\* _from_components writes the very bytes again, unless they are DER.
LEMMA LayoutRedone ==
  ASSUME NEW ct \in Seq(Bytes), NEW f \in Formats, Ok(ToComponents(ct, f))
  PROVE  /\ WellFormed(ToComponents(ct, f))
         /\ Len(ToComponents(ct, f).c2) + C3Len <= Len(ct)
         /\ f # "DER" => FromComponents(ToComponents(ct, f), f) = ct
<1>1. CASE f = "DER"
  <2>1. ToComponents(ct, f) = DerDecode(ct)
    BY <1>1, Zenon DEF ToComponents
  <2> QED
    BY <1>1, <2>1, DerDecoded
<1>2. CASE f \in BareFormats
  <2>1. PICK c : c = SplitRaw(ct, C3First(f))
    OBVIOUS
  <2>2. ToComponents(ct, f) = c
    BY <1>2, <2>1, FormatCases, Zenon DEF ToComponents
  <2>3. /\ WellFormed(c) /\ Len(c.c2) = Len(ct) - C1Len - C3Len
        /\ Bare(c, C3First(f)) = ct
    BY <2>1, <2>2, FormatCases, SplitJoins
  <2>4. FromComponents(c, f) = ct
    BY <1>2, <2>3, FormatCases, Zenon DEF FromComponents, Bare
  <2>5. Len(c.c2) + C3Len <= Len(ct)
    BY <2>3, Sizes, Widths
  <2> QED
    BY <2>2, <2>3, <2>4, <2>5, Zenon
<1>3. CASE f \in MarkedFormats
  <2>1. ct # <<>> /\ ct[1] = OctetTag
    BY <1>3, FormatCases DEF ToComponents, Ok, FormatError, Failure
  <2>2. PICK t \in Seq(Bytes) :
          t = Tail(ct) /\ Len(t) = Len(ct) - 1 /\ <<OctetTag>> \o t = ct
    BY <2>1, Unmarks
  <2>3. PICK c : c = SplitRaw(t, C3First(f))
    OBVIOUS
  <2>4. ToComponents(ct, f) = c
    BY <1>3, <2>1, <2>2, <2>3, FormatCases, Zenon DEF ToComponents
  <2>5. /\ WellFormed(c) /\ Len(c.c2) = Len(t) - C1Len - C3Len
        /\ Bare(c, C3First(f)) = t
    BY <2>3, <2>4, FormatCases, SplitJoins
  <2>6. FromComponents(c, f) = ct
    BY <1>3, <2>2, <2>5, FormatCases, Zenon DEF FromComponents, Bare
  <2>7. Len(c.c2) + C3Len <= Len(ct)
    <3>1. PICK n \in Nat, k \in Nat : n = Len(t) /\ k = Len(c.c2)
      BY <2>5 DEF WellFormed
    <3>2. k = n - C1Len - C3Len /\ n = Len(ct) - 1
      BY <2>2, <2>5, <3>1, Zenon
    <3> QED
      BY <3>1, <3>2, Sizes, Widths
  <2> QED
    BY <2>4, <2>5, <2>6, <2>7, Zenon
<1> QED
  BY <1>1, <1>2, <1>3, FormatCases

-----------------------------------------------------------------------------
(* The converter *)

\* The bytes a conversion may add.
Growth == C1Len + 22

\* A conversion reads components, writes them, and the file grows by no more.
LEMMA Converted ==
  ASSUME NEW ct \in Seq(Bytes), NEW f \in Formats, NEW g \in Formats,
         Len(ct) + Growth < 4 * Half * Half, Ok(Convert(ct, f, g))
  PROVE  \E c :
           /\ c = ToComponents(ct, f) /\ Ok(c) /\ Fits(c)
           /\ Convert(ct, f, g) = [kind |-> "ok", bytes |-> FromComponents(c, g)]
           /\ FromComponents(c, g) \in Seq(Bytes)
           /\ Len(FromComponents(c, g)) <= Len(ct) + Growth
<1>1. PICK c : c = ToComponents(ct, f)
  OBVIOUS
<1>2. Ok(c) /\ Convert(ct, f, g) = [kind |-> "ok", bytes |-> FromComponents(c, g)]
  BY <1>1 DEF Convert, Then
<1>3. WellFormed(c) /\ Len(c.c2) + C3Len <= Len(ct)
  BY <1>1, <1>2, LayoutRedone
<1>4. PICK n \in Nat, k \in Nat, most \in Nat :
        n = Len(ct) /\ k = Len(c.c2) /\ most = 4 * Half * Half
  BY <1>3, Widths DEF WellFormed
<1>5. C1Len + C3Len + k + 22 \in Nat /\ C1Len + C3Len + k + 22 <= n + Growth
      /\ n + Growth < most
  <2>1. PICK a \in Nat, b \in Nat, G \in Nat :
          a = C1Len /\ b = C3Len /\ G = Growth /\ G = a + 22
    BY Sizes, Widths DEF Growth
  <2>2. k + b <= n /\ n + G < most
    BY <1>3, <1>4, <2>1, Zenon
  <2>3. a + b + k + 22 \in Nat /\ a + b + k + 22 <= n + G
    BY <2>1, <2>2
  <2> QED
    BY <2>1, <2>2, <2>3, Zenon
<1>6. Fits(c)
  <2>1. C1Len + C3Len + k + 22 < most
    BY <1>4, <1>5, Sizes DEF Growth
  <2> QED
    BY <1>3, <1>4, <1>5, <2>1, Zenon DEF Fits, Short
<1>7. /\ FromComponents(c, g) \in Seq(Bytes)
      /\ Len(FromComponents(c, g)) <= C1Len + C3Len + Len(c.c2) + 22
  BY <1>6, LayoutUndone
<1>8. Len(FromComponents(c, g)) <= Len(ct) + Growth
  <2>1. PICK z \in Nat : z = Len(FromComponents(c, g))
    BY <1>7
  <2>2. z <= C1Len + C3Len + k + 22
    BY <1>4, <1>7, <2>1, Zenon
  <2>3. z <= n + Growth
    BY <1>5, <2>1, <2>2, Sizes DEF Growth
  <2> QED
    BY <1>4, <2>1, <2>3, Zenon
<1> QED
  BY <1>1, <1>2, <1>6, <1>7, <1>8

\* What the encryptor may make.
Origins == [kind : {"ok"}, c1 : Points, c2 : Bodies, c3 : Digests]

\* There is room for the conversions that are left, and one more.
Room ==
  Len(file) + (MaxConversions - conversions + 1) * Growth < 4 * Half * Half

CvtInv ==
  /\ TypeOK
  /\ origin \in Origins
  /\ Room
  /\ truth # "unknown" => file = FromComponents(origin, truth)
  /\ OnlyAuthenticPlaintext

\* What the encryptor makes fits in every layout, with room for conversions.
LEMMA OriginFits ==
  ASSUME NEW c \in Origins
  PROVE  /\ Fits(c)
         /\ \A f \in Formats :
              Len(FromComponents(c, f)) + (MaxConversions + 1) * Growth
                < 4 * Half * Half
<1>1. /\ c.kind = "ok" /\ c.c1 \in Seq(Bytes) /\ c.c2 \in Seq(Bytes)
      /\ c.c3 \in Seq(Bytes) /\ Len(c.c1) = C1Len /\ Len(c.c3) = C3Len
      /\ c.c2 # <<>> /\ c.c2 \in Bodies
      /\ c \in [kind : {"ok"}, c1 : Seq(Bytes), c2 : Seq(Bytes), c3 : Seq(Bytes)]
  BY InputsOK DEF Origins
<1>2. PICK k \in Nat, most \in Nat, G \in Nat, M \in Nat :
        /\ k = Len(c.c2) /\ most = 4 * Half * Half /\ G = Growth
        /\ M = MaxConversions /\ G = C1Len + 22
  BY <1>1, InputsOK, Sizes, Widths DEF Growth
<1>3. k + (M + 2) * G + C3Len < most
  BY <1>1, <1>2, LengthsFit DEF Growth
<1>4. (M + 2) * G = (M + 1) * G + G /\ (M + 1) * G \in Nat
  BY <1>2
<1>5. C1Len + C3Len + k + 22 \in Nat /\ C1Len + C3Len + k + 22 + (M + 1) * G < most
  <2>1. PICK a \in Nat, b \in Nat, p \in Nat :
          a = C1Len /\ b = C3Len /\ p = (M + 1) * G /\ G = a + 22
    BY <1>2, <1>4, Sizes, Widths
  <2>2. k + (p + G) + b < most
    BY <1>3, <1>4, <2>1, Zenon
  <2>3. a + b + k + 22 \in Nat /\ a + b + k + 22 + p < most
    BY <2>1, <2>2
  <2> QED
    BY <2>1, <2>3, Zenon
<1>6. Fits(c)
  <2>1. C1Len + C3Len + k + 22 < most
    BY <1>4, <1>5
  <2> QED
    BY <1>1, <1>2, <1>5, <2>1, Zenon DEF Fits, WellFormed, Short
<1>7. ASSUME NEW f \in Formats
      PROVE  Len(FromComponents(c, f)) + (MaxConversions + 1) * Growth
               < 4 * Half * Half
  <2>1. PICK z \in Nat : z = Len(FromComponents(c, f))
    BY <1>6, LayoutUndone
  <2>2. z <= C1Len + C3Len + k + 22
    <3>1. Len(FromComponents(c, f)) <= C1Len + C3Len + Len(c.c2) + 22
      BY <1>6, LayoutUndone
    <3> QED
      BY <1>2, <2>1, <3>1, Zenon
  <2>3. z + (M + 1) * G < most
    <3>1. PICK p \in Nat : p = (M + 1) * G
      BY <1>4
    <3> QED
      BY <1>5, <2>2, <3>1
  <2> QED
    BY <1>2, <2>1, <2>3, Zenon
<1> QED
  BY <1>6, <1>7

\* The file stays bytes with room to grow, and a file in a known layout holds
\* what the encryptor made; what was printed as plaintext is the plaintext.
LEMMA CvtInvariant == Spec => []CvtInv
<1> USE DEF OnlyAuthenticPlaintext
<1>1. Init => CvtInv
  <2> SUFFICES ASSUME Init
               PROVE  CvtInv
    OBVIOUS
  <2>1. /\ origin \in Origins /\ conversions = 0 /\ exit = 0
        /\ ~(printed.is = "plaintext")
    BY DEF Init, Origins, Nothing
  <2>2. MaxConversions - conversions + 1 = MaxConversions + 1
        /\ conversions \in 0..MaxConversions /\ exit \in {0, 1, 2}
    BY <2>1, InputsOK
  <2>3. CASE \E f \in Formats : file = FromComponents(origin, f) /\ truth = f
    <3>1. PICK f \in Formats : file = FromComponents(origin, f) /\ truth = f
      BY <2>3
    <3>2. Fits(origin) /\ Len(file) + (MaxConversions + 1) * Growth < 4 * Half * Half
      BY <2>1, <3>1, OriginFits
    <3>3. file \in Seq(Bytes)
      BY <3>1, <3>2, LayoutUndone
    <3>4. Room
      BY <2>2, <3>2, Zenon DEF Room
    <3> QED
      BY <2>1, <2>2, <3>1, <3>3, <3>4 DEF CvtInv, TypeOK
  <2>4. CASE file \in Foreign /\ truth = "unknown"
    <3>1. file \in Seq(Bytes)
      BY <2>4, InputsOK
    <3>2. Len(file) + (MaxConversions + 2) * Growth + C3Len < 4 * Half * Half
      BY <2>4, LengthsFit DEF Growth
    <3>3. PICK n \in Nat, b \in Nat, G \in Nat, M \in Nat, most \in Nat :
            /\ n = Len(file) /\ b = C3Len /\ G = Growth /\ M = MaxConversions
            /\ most = 4 * Half * Half
      BY <3>1, InputsOK, Sizes, Widths DEF Growth
    <3>4. (M + 2) * G = (M + 1) * G + G /\ (M + 1) * G \in Nat
      BY <3>3
    <3>5. PICK p \in Nat : p = (M + 1) * G
      BY <3>4
    <3>6. n + (p + G) + b < most
      BY <3>2, <3>3, <3>4, <3>5, Zenon
    <3>7. n + p < most
      BY <3>6
    <3>8. Room
      BY <2>2, <3>3, <3>5, <3>7, Zenon DEF Room
    <3> QED
      BY <2>1, <2>2, <2>4, <3>1, <3>8 DEF CvtInv, TypeOK
  <2> QED
    BY <2>3, <2>4 DEF Init
<1>2. CvtInv /\ [Next]_cvtVars => CvtInv'
  <2> SUFFICES ASSUME CvtInv, [Next]_cvtVars
               PROVE  CvtInv'
    OBVIOUS
  <2>1. ASSUME UNCHANGED <<origin, file, truth, conversions>>,
               exit' \in {0, 1, 2},
               printed'.is = "plaintext" => printed' = Plaintext(origin)
        PROVE  CvtInv'
    BY <2>1 DEF CvtInv, TypeOK, Room, Plaintext
  <2>2. ASSUME NEW r, Raised(r)
        PROVE  exit' \in {0, 1, 2} /\ printed'.is # "plaintext"
    BY <2>2 DEF Raised, Nothing
  <2>3. ASSUME Detect
        PROVE  CvtInv'
    <3>1. exit' \in {0, 1, 2} /\ printed'.is # "plaintext"
      BY <2>2, <2>3 DEF Detect, Output, FormatName
    <3> QED
      BY <2>1, <2>3, <3>1 DEF Detect
  <2>4. ASSUME NEW f \in Formats, Verify(f)
        PROVE  CvtInv'
    <3>1. exit' \in {0, 1, 2} /\ printed'.is # "plaintext"
      BY <2>2, <2>4 DEF Verify, Concluded, Output, Verdict
    <3> QED
      BY <2>1, <2>4, <3>1 DEF Verify
  <2>5. ASSUME NEW f \in Formats, Decrypt(f)
        PROVE  CvtInv'
    (* What opens has the digest of the encryptor's own C1 and C2. *)
    <3>1. PICK c : c = ToComponents(file, f)
      OBVIOUS
    <3>2. Opened(f) = IF ~Ok(c) THEN c
                      ELSE IF c.c1 \notin Curve THEN Failure("value")
                      ELSE IF Digest(c) # c.c3 THEN Failure("digest") ELSE c
      BY <3>1 DEF Opened, Then, Authentic
    <3>3. ASSUME Ok(Opened(f))
          PROVE  Plaintext(Opened(f)) = Plaintext(origin)
      <4>1. Ok(c) /\ Opened(f) = c /\ Digest(c) = c.c3
        BY <3>2, <3>3 DEF Ok, Failure
      <4>2. WellFormed(c)
        BY <3>1, <4>1, LayoutRedone DEF CvtInv, TypeOK
      <4>3. Len(c.c3) # 0
        BY <4>2, Widths DEF WellFormed
      <4>4. c.c3 # <<>>
        BY <4>3
      <4>5. <<c.c1, c.c2>> = <<origin.c1, origin.c2>>
        BY <4>1, <4>4, Zenon DEF Digest
      <4> QED
        BY <4>1, <4>5, Zenon DEF Plaintext
    <3>4. Concluded(Opened(f), Plaintext(Opened(f)))
          /\ UNCHANGED <<origin, file, truth, conversions>>
      BY <2>5 DEF Decrypt
    <3>5. CASE Ok(Opened(f)) /\ Output(0, Plaintext(Opened(f)))
      <4>1. exit' = 0 /\ printed' = Plaintext(origin)
        BY <3>3, <3>5 DEF Output
      <4> QED
        BY <2>1, <3>4, <4>1
    <3>6. CASE Output(1, Verdict)
      <4>1. exit' = 1 /\ printed'.is # "plaintext"
        BY <3>6 DEF Output, Verdict
      <4> QED
        BY <2>1, <3>4, <4>1
    <3>7. CASE Raised(Opened(f))
      BY <2>1, <2>2, <3>4, <3>7
    <3> QED
      BY <3>4, <3>5, <3>6, <3>7 DEF Concluded
  <2>6. ASSUME NEW f \in Formats, NEW g \in Formats, ConvertFile(f, g)
        PROVE  CvtInv'
    <3>1. PICK r : r = Convert(file, f, g)
      OBVIOUS
    <3>2. /\ conversions < MaxConversions /\ origin' = origin
          /\ \/ /\ Ok(r) /\ file' = r.bytes
                /\ truth' = IF f = truth THEN g ELSE "unknown"
                /\ conversions' = conversions + 1 /\ Output(0, Nothing)
             \/ ~Ok(r) /\ Raised(r) /\ UNCHANGED <<file, truth, conversions>>
      BY <2>6, <3>1 DEF ConvertFile
    <3>3. CASE ~Ok(r) /\ Raised(r) /\ UNCHANGED <<file, truth, conversions>>
      BY <2>1, <2>2, <3>2, <3>3
    <3>4. CASE /\ Ok(r) /\ file' = r.bytes
               /\ truth' = IF f = truth THEN g ELSE "unknown"
               /\ conversions' = conversions + 1 /\ Output(0, Nothing)
      <4>1. /\ file \in Seq(Bytes) /\ origin \in Origins
            /\ conversions \in 0..MaxConversions /\ MaxConversions \in Nat
        BY InputsOK DEF CvtInv, TypeOK
      <4>2. PICK k \in Nat, n \in Nat, G \in Nat, most \in Nat :
              /\ k = MaxConversions - conversions - 1 /\ n = Len(file)
              /\ G = Growth /\ most = 4 * Half * Half
              /\ MaxConversions - conversions + 1 = k + 2
              /\ MaxConversions - conversions' + 1 = k + 1
        <5>1. PICK k \in Nat :
                /\ k = MaxConversions - conversions - 1
                /\ MaxConversions - conversions + 1 = k + 2
                /\ MaxConversions - conversions' + 1 = k + 1
          <6>1. MaxConversions - conversions - 1 \in Nat
            BY <3>2, <4>1
          <6> QED
            BY <3>4, <4>1, <6>1
        <5>2. Len(file) \in Nat /\ Growth \in Nat /\ 4 * Half * Half \in Nat
          BY <4>1, Sizes, Widths DEF Growth
        <5> QED
          BY <5>1, <5>2
      <4>3. n + (k + 2) * G < most
        BY <4>2, Zenon DEF CvtInv, Room
      <4>4. (k + 2) * G = (k + 1) * G + G /\ (k + 1) * G \in Nat
        BY <4>2
      <4>5. PICK p \in Nat : p = (k + 1) * G
        BY <4>4
      <4>6. n + (p + G) < most
        BY <4>3, <4>4, <4>5, Zenon
      <4>7. n + G < most
        BY <4>6
      <4>8. Len(file) + Growth < 4 * Half * Half
        BY <4>2, <4>7, Zenon
      <4>9. PICK c : /\ c = ToComponents(file, f)
                     /\ r = [kind |-> "ok", bytes |-> FromComponents(c, g)]
                     /\ FromComponents(c, g) \in Seq(Bytes)
                     /\ Len(FromComponents(c, g)) <= Len(file) + Growth
        BY <3>1, <3>4, <4>1, <4>8, Converted
      <4>10. file' = FromComponents(c, g)
        BY <3>4, <4>9
      <4>11. Room'
        <5>1. PICK z \in Nat : z = Len(FromComponents(c, g))
          BY <4>9
        <5>2. z <= n + G
          BY <4>2, <4>9, <5>1, Zenon
        <5>3. z + p < most
          BY <4>6, <5>2
        <5> QED
          BY <4>2, <4>5, <4>10, <5>1, <5>3, Zenon DEF Room
      <4>12. TypeOK'
        <5>1. conversions' \in 0..MaxConversions
          BY <3>2, <3>4, <4>1
        <5> QED
          BY <3>4, <4>9, <4>10, <5>1 DEF CvtInv, TypeOK, Output
      <4>13. ASSUME truth' # "unknown"
             PROVE  file' = FromComponents(origin', truth')
        <5>1. f = truth /\ truth' = g
          BY <3>4, <4>13
        <5>2. truth # "unknown"
          BY <5>1 DEF Formats, BareFormats, MarkedFormats
        <5>3. c = origin
          <6>1. file = FromComponents(origin, f) /\ Fits(origin)
            BY <4>1, <5>1, <5>2, OriginFits DEF CvtInv
          <6> QED
            BY <4>9, <6>1, LayoutUndone
        <5> QED
          BY <3>2, <4>10, <5>1, <5>3, Zenon
      <4>14. origin' \in Origins /\ ~(printed'.is = "plaintext")
        BY <3>2, <3>4, <4>1 DEF Output, Nothing
      <4> QED
        BY <4>11, <4>12, <4>13, <4>14 DEF CvtInv
    <3> QED
      BY <3>2, <3>3, <3>4
  <2>7. CASE UNCHANGED cvtVars
    BY <2>7 DEF cvtVars, CvtInv, TypeOK, Room, Plaintext
  <2> QED
    BY <2>3, <2>4, <2>5, <2>6, <2>7 DEF Next
<1> QED
  BY <1>1, <1>2, PTL DEF Spec

\* Types: the file is a sequence of bytes whatever is converted, as no length
\* the encoder writes needs more than two bytes.
THEOREM FileTyped == Spec => []TypeOK
  BY CvtInvariant, PTL DEF CvtInv

\* Conversions declared right lose nothing, in any order, over every layout and
\* for every ciphertext: the components stay what the encryptor made.
THEOREM Lossless == Spec => []DeclaredIsLossless
<1>1. CvtInv => DeclaredIsLossless
  <2> SUFFICES ASSUME CvtInv, truth # "unknown"
               PROVE  ToComponents(file, truth) = origin
    BY DEF DeclaredIsLossless
  <2>1. /\ truth \in Formats /\ file = FromComponents(origin, truth)
        /\ Fits(origin)
    BY OriginFits DEF CvtInv, TypeOK
  <2> QED
    BY <2>1, LayoutUndone
<1> QED
  BY <1>1, CvtInvariant, PTL

\* A conversion declared wrong is undone by the opposite one, up to the
\* canonical form of DER.
THEOREM ConversionsAreUndone == Spec => []ConversionsUndo
<1>1. CvtInv => ConversionsUndo
  <2> SUFFICES ASSUME CvtInv, NEW f \in Formats, NEW g \in Formats,
                      Ok(Convert(file, f, g))
               PROVE  LET there == Convert(file, f, g)
                          back == Then(there, LAMBDA r : Convert(r.bytes, g, f))
                      IN  /\ Ok(back)
                          /\ ToComponents(back.bytes, f) = ToComponents(file, f)
                          /\ f # "DER" => back.bytes = file
    BY DEF ConversionsUndo
  <2>1. file \in Seq(Bytes) /\ Len(file) + Growth < 4 * Half * Half
    <3>1. PICK n \in Nat, k \in Nat, G \in Nat :
            /\ n = Len(file) /\ k = MaxConversions - conversions /\ G = Growth
      <4>1. Len(file) \in Nat /\ MaxConversions - conversions \in Nat /\ Growth \in Nat
        BY InputsOK, Sizes DEF CvtInv, TypeOK, Growth
      <4> QED
        BY <4>1
    <3>2. PICK most \in Nat : most = 4 * Half * Half
      BY Widths
    <3>3. n + (k + 1) * G < most
      BY <3>1, <3>2, Zenon DEF CvtInv, Room
    <3>4. (k + 1) * G = k * G + G /\ k * G \in Nat
      BY <3>1
    <3>5. n + G < most
      BY <3>3, <3>4
    <3> QED
      BY <3>1, <3>2, <3>5, Zenon DEF CvtInv, TypeOK
  <2>2. PICK c : /\ c = ToComponents(file, f) /\ Ok(c) /\ Fits(c)
                 /\ Convert(file, f, g) = [kind |-> "ok", bytes |-> FromComponents(c, g)]
    BY <2>1, Converted
  <2>3. ToComponents(FromComponents(c, g), g) = c /\ ToComponents(FromComponents(c, f), f) = c
    BY <2>2, LayoutUndone
  <2>4. Then(Convert(file, f, g), LAMBDA r : Convert(r.bytes, g, f)) =
          [kind |-> "ok", bytes |-> FromComponents(c, f)]
    BY <2>2, <2>3 DEF Then, Ok, Convert
  <2>5. f # "DER" => FromComponents(c, f) = file
    BY <2>1, <2>2, LayoutRedone
  <2> QED
    BY <2>2, <2>3, <2>4, <2>5 DEF Ok
<1> QED
  BY <1>1, CvtInvariant, PTL

\* decrypt prints the encryptor's plaintext or none, whatever was declared and
\* whatever the file was converted through.
THEOREM PlaintextIsAuthentic == Spec => []OnlyAuthenticPlaintext
  BY CvtInvariant, PTL DEF CvtInv

\* No bare layout of what the encryptor makes reads as DER: detect_format takes
\* whatever parses as DER, and only a format error sends it on.
NoneParses ==
  \A c \in Origins, f \in BareFormats :
    LET ct == FromComponents(c, f)
    IN  ct[1] = SequenceTag => DerDecode(ct) = FormatError

\* Then detect tells DER, marked and bare layouts from each other.
THEOREM DetectTells == ASSUME NoneParses PROVE Spec => []DetectTellsTheFamily
<1>1. CvtInv => DetectTellsTheFamily
  <2> SUFFICES ASSUME CvtInv, truth # "unknown"
               PROVE  DetectTellsTheFamily
    BY DEF DetectTellsTheFamily
  <2>1. /\ truth \in Formats /\ file = FromComponents(origin, truth)
        /\ origin \in Origins /\ Fits(origin) /\ file \in Seq(Bytes)
    BY OriginFits DEF CvtInv, TypeOK
  <2>2. PICK b \in Seq(Bytes) :
          /\ b = Bare(origin, C3First(truth)) /\ Len(b) >= MinLen
    BY <2>1, FormatCases, BareSplits DEF Fits
  <2>3. MinLen \in Nat \ {0} /\ SequenceTag # OctetTag
    BY Sizes, Widths
  <2>4. PICK r : r = DetectFormat(file)
    OBVIOUS
  <2>5. CASE truth = "DER"
    <3>1. file = DerEncode(origin.c1, origin.c2, origin.c3)
      BY <2>1, <2>5, Zenon DEF FromComponents
    <3>2. file # <<>> /\ file[1] = SequenceTag /\ DerDecode(file) = origin
      BY <2>1, <3>1, DerUndone
    <3>3. origin.kind = "ok"
      BY <2>1 DEF Origins
    <3>4. r = [kind |-> "ok", format |-> "DER"]
      BY <2>4, <3>2, <3>3 DEF DetectFormat, DetectStructure, Then, Ok
    <3> QED
      BY <2>4, <2>5, <3>4 DEF DetectTellsTheFamily, MarkedFormats, BareFormats
  <2>6. CASE truth \in MarkedFormats
    <3>1. file = <<OctetTag>> \o b
      BY <2>1, <2>2, <2>6, FormatCases, Zenon DEF FromComponents, Bare
    <3>2. file # <<>> /\ file[1] = OctetTag /\ Len(file) - 1 >= MinLen
      <4>1. Len(file) = 1 + Len(b)
        BY <3>1, Marks
      <4>2. Len(file) - 1 >= MinLen
        BY <2>2, <2>3, <4>1
      <4> QED
        BY <3>1, <4>2, Marks
    <3>3. r = [kind |-> "ok", format |-> "C1C2C3+04"]
      BY <2>3, <2>4, <3>2, Zenon DEF DetectFormat, DetectBare
    <3> QED
      BY <2>1, <2>4, <2>6, <3>3, FormatCases DEF DetectTellsTheFamily
  <2>7. CASE truth \in BareFormats
    <3>1. file = b
      BY <2>1, <2>2, <2>7, FormatCases, Zenon DEF FromComponents, Bare
    <3>2. file # <<>> /\ Len(file) >= MinLen
      BY <2>2, <2>3, <3>1
    <3>3. r = DetectBare(file)
      <4>1. CASE file[1] = SequenceTag
        <5>1. DerDecode(file) = FormatError
          BY <2>1, <2>7, <4>1 DEF NoneParses
        <5>2. DerDecode(file).kind = "format"
          BY <5>1 DEF FormatError, Failure
        <5> QED
          BY <2>4, <3>2, <4>1, <5>2, Zenon DEF DetectFormat, DetectStructure
      <4>2. CASE file[1] # SequenceTag
        BY <2>4, <4>2, Zenon DEF DetectFormat
      <4> QED
        BY <4>1, <4>2
    <3>4. Len(file) - 1 >= MinLen <=> Len(file) > MinLen
      BY <2>1, <2>3
    <3>5. r.format = IF file[1] = OctetTag /\ Len(file) > MinLen
                     THEN "C1C2C3+04" ELSE "C1C2C3"
      <4>1. CASE file[1] = OctetTag /\ Len(file) > MinLen
        BY <3>2, <3>3, <3>4, <4>1 DEF DetectBare
      <4>2. CASE ~(file[1] = OctetTag /\ Len(file) > MinLen)
        BY <3>2, <3>3, <3>4, <4>2 DEF DetectBare
      <4> QED
        BY <4>1, <4>2
    <3> QED
      BY <2>1, <2>4, <2>7, <3>5, FormatCases DEF DetectTellsTheFamily
  <2> QED
    BY <2>1, <2>5, <2>6, <2>7, FormatCases
<1> QED
  BY <1>1, CvtInvariant, PTL
=============================================================================
