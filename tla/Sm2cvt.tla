------------------------------- MODULE Sm2cvt -------------------------------
(***************************************************************************)
(* The converter sip-sm2cvt (tools/sm2cvt.py) used again and again on one  *)
(* file: detect, convert --out onto the file itself, verify and decrypt,   *)
(* with whatever format the user declares, right or wrong.                 *)
(*                                                                         *)
(* Hexadecimal and base64 are left out: the file holds the bytes.  The     *)
(* curve and SM3 are external: a point is on the curve when it is in       *)
(* Curve, the plaintext is named by what it is computed from, C1 and C2,   *)
(* and no two inputs of SM3 have one digest.                               *)
(***************************************************************************)
EXTENDS Sm2Ciphertext

CONSTANTS
  Points, Digests, Bodies,   \* the C1, C3 and C2 the encryptor may make
  Curve,                     \* the C1 that are points of the curve
  Foreign,                   \* files of other encoders, of no known layout
  MaxConversions             \* bound: conversions of the file

Bytes == 0..(2 * Half - 1)

ASSUME InputsOK ==
  /\ Points \subseteq Curve
  /\ Points \cup Digests \cup Bodies \cup Foreign \subseteq Seq(Bytes)
  /\ \A p \in Points : Len(p) = C1Len
  /\ \A d \in Digests : Len(d) = C3Len
  /\ <<>> \notin Bodies
  /\ MaxConversions \in Nat

\* No file grows beyond what two length bytes can say: a conversion to DER
\* adds 22 bytes at most, and one from DER at most the zeros of a point.
ASSUME LengthsFit ==
  \A f \in Bodies \cup Foreign :
    Len(f) + (MaxConversions + 2) * (C1Len + 22) + C3Len
      < 4 * Half * Half

VARIABLES
  origin,        \* the components the encryptor made
  file,          \* the bytes of the file
  truth,         \* the format the file is really in, or "unknown"
  conversions,   \* conversions made
  exit,          \* the exit status of the last command
  printed        \* what it wrote to stdout

cvtVars == <<origin, file, truth, conversions, exit, printed>>

Nothing == [is |-> "nothing"]
FormatName(f) == [is |-> "format", format |-> f]
Verdict == [is |-> "verdict"]
Plaintext(c) == [is |-> "plaintext", of |-> <<c.c1, c.c2>>]

Init ==
  /\ origin \in [kind : {"ok"}, c1 : Points, c2 : Bodies, c3 : Digests]
  /\ \/ \E f \in Formats : file = FromComponents(origin, f) /\ truth = f
     \/ file \in Foreign /\ truth = "unknown"
  /\ conversions = 0
  /\ exit = 0
  /\ printed = Nothing

\* SM3 over the shared point and the plaintext.
Digest(c) ==
  IF <<c.c1, c.c2>> = <<origin.c1, origin.c2>> THEN origin.c3 ELSE <<>>

\* main(): the errors it catches exit with 2.  It does not catch an
\* OverflowError: the interpreter exits with 1, after a traceback.
Raised(failure) ==
  /\ exit' = IF failure.kind = "overflow" THEN 1 ELSE 2
  /\ printed' = Nothing

Output(status, what) == exit' = status /\ printed' = what

\* _cmd_detect
Detect ==
  /\ LET ended(r) == IF Ok(r) THEN Output(0, FormatName(r.format))
                              ELSE Raised(r)
     IN  ended(DetectFormat(file))
  /\ UNCHANGED <<origin, file, truth, conversions>>

\* _cmd_convert with --out: the file is opened after the conversion.
ConvertFile(from, to) ==
  LET written(r) ==
        \/ /\ Ok(r)
           /\ file' = r.bytes
           /\ truth' = IF from = truth THEN to ELSE "unknown"
           /\ conversions' = conversions + 1
           /\ Output(0, Nothing)
        \/ /\ ~Ok(r)
           /\ Raised(r)
           /\ UNCHANGED <<file, truth, conversions>>
  IN  /\ conversions < MaxConversions
      /\ written(Convert(file, from, to))
      /\ UNCHANGED origin

\* Mutant of Authentic: C3 is not compared.
Authentic_NoC3(c) ==
  IF c.c1 \notin Curve THEN Failure("value") ELSE c

\* A point of the curve, and the digest.
Authentic(c) ==
  IF c.c1 \notin Curve THEN Failure("value")
  ELSE IF Digest(c) # c.c3 THEN Failure("digest") ELSE c

\* verify_c3, and decrypt_ciphertext with sm2_decrypt.
Opened(fmt) == Then(ToComponents(file, fmt), Authentic)

\* The status of a digest that differs is 1, and stdout says so.
Concluded(r, what) ==
  \/ Ok(r) /\ Output(0, what)
  \/ r.kind = "digest" /\ Output(1, Verdict)
  \/ r.kind \notin {"ok", "digest"} /\ Raised(r)

\* _cmd_verify
Verify(fmt) ==
  /\ Concluded(Opened(fmt), Verdict)
  /\ UNCHANGED <<origin, file, truth, conversions>>

\* _cmd_decrypt
Decrypt(fmt) ==
  /\ Concluded(Opened(fmt), Plaintext(Opened(fmt)))
  /\ UNCHANGED <<origin, file, truth, conversions>>

Next ==
  \/ Detect
  \/ \E f \in Formats : Verify(f) \/ Decrypt(f)
  \/ \E f, g \in Formats : ConvertFile(f, g)

Spec == Init /\ [][Next]_cvtVars

-----------------------------------------------------------------------------
(* Properties *)

\* The file is a sequence of bytes, whatever lengths the encoder writes.
TypeOK ==
  /\ file \in Seq(Bytes)
  /\ truth \in Formats \cup {"unknown"}
  /\ exit \in {0, 1, 2}
  /\ conversions \in 0..MaxConversions

\* "lossless": through any number of conversions that were declared right,
\* over DER and over marked and bare layouts, the components stay what the
\* encryptor made.
DeclaredIsLossless ==
  truth # "unknown" => ToComponents(file, truth) = origin

\* A conversion that was declared wrong loses nothing either: the opposite
\* conversion gives the bytes back, unless they were not canonical DER, and
\* then it gives the canonical ones.
ConversionsUndo ==
  LET undone(f, there, back) ==
        Ok(there) => /\ Ok(back)
                     /\ ToComponents(back.bytes, f) = ToComponents(file, f)
                     /\ f # "DER" => back.bytes = file
      reversed(f, g, there) ==
        undone(f, there,
               Then(there, LAMBDA r : Convert(r.bytes, g, f)))
  IN  \A f, g \in Formats : reversed(f, g, Convert(file, f, g))

\* Whatever was declared, in any order of conversions, what decrypt prints is
\* the plaintext the encryptor encrypted.
OnlyAuthenticPlaintext ==
  printed.is = "plaintext" => printed = Plaintext(origin)

\* detect tells DER by its structure and a mark by its byte: DER is reported as
\* DER, a marked layout as marked, and a bare one as bare unless the point
\* happens to begin like a mark.
DetectTellsTheFamily ==
  LET told(r) ==
        /\ truth = "DER" => r.format = "DER"
        /\ truth \in MarkedFormats => r.format = "C1C2C3+04"
        /\ truth \in BareFormats =>
             r.format = IF file[1] = OctetTag /\ Len(file) > MinLen
                        THEN "C1C2C3+04" ELSE "C1C2C3"
  IN  truth # "unknown" => told(DetectFormat(file))
=============================================================================
