------------------------------ MODULE MCSm2cvt ------------------------------
(***************************************************************************)
(* Sm2cvt for TLC: bytes of four bits, coordinates of two bytes and        *)
(* digests of one.  The values include the tags, zeros, and bytes with the *)
(* top bit set; the lengths reach both long forms of DER.                  *)
(***************************************************************************)
EXTENDS Sm2cvt

SomePoints == {<<0, 9, 3, 4>>, <<3, 4, 0, 1>>, <<4, 8, 0, 0>>}
SomeDigests == {<<5>>, <<4>>}
SomeBodies == {<<1>>, <<4, 9>>, <<3, 2, 8>>}
CurvePoints == SomePoints \cup {<<9, 3, 4, 1>>, <<8, 9, 1, 5>>}
\* DER of other encoders: coordinates with the top bit set and no zero before
\* them; one a byte too wide; an empty one; a length in a longer form than
\* needed; and a file that is too short.
ForeignFiles ==
  { <<3, 9, 14, 2, 2, 9, 3, 2, 2, 8, 1, 4, 1, 5, 4, 1, 1>>,
    <<3, 9, 13, 2, 3, 1, 0, 9, 2, 0, 4, 1, 5, 4, 1, 1>>,
    <<3, 9, 10, 2, 0, 2, 0, 4, 1, 5, 4, 1, 1>>,
    <<3, 10, 0, 12, 2, 1, 3, 2, 1, 4, 4, 1, 5, 4, 1, 1>>,
    <<4, 3, 5>> }
=============================================================================
