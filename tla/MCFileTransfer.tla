---------------------------- MODULE MCFileTransfer ----------------------------
(***************************************************************************)
(* FileTransfer for TLC: chunks of two bytes, or of four, and files of up   *)
(* to four.                                                                *)
(***************************************************************************)
EXTENDS FileTransfer

CONSTANTS p1, p2, u1, u2, x, y, Nothing

OnePacker == {p1}
TwoPackers == {p1, p2}
TwoUnpackers == {u1, u2}
SameSecret == [q \in Packers \cup Unpackers |-> "secret"]
ChunksOfTwo == [p \in Packers |-> 2]
\* p1 makes two chunks of a file that p2 packs into one.
ChunksOfTwoAndFour == [p \in Packers |-> IF p = p1 THEN 2 ELSE 4]

ThreeBytes == <<x, y, x>>
FourBytes == <<x, y, y, x>>
EditsUpToThree == {<<>>, <<x, y, x>>}
EditsUpToFour == {<<>>, <<x, y, x, y>>}

\* The file under each output name.
Delivered ==
  [n \in 1..Outputs |->
     IF dir[Output(n)] = NoFile THEN Nothing ELSE data[dir[Output(n)]]]

Delivery == INSTANCE AtomicDelivery WITH
  Outputs <- 1..Outputs, output <- Delivered,
  Contents <- UNION {[1..n -> Bytes] : n \in 0..MaxFileSize}

\* The output names go through what AtomicDelivery allows: a file appears
\* there whole, with a content that was packed, and is then left alone.
DeliveryIsAtomic == Delivery!Spec
=============================================================================
