-------------------------- MODULE OrderedDelivery ---------------------------
(***************************************************************************)
(* What one direction of a channel promises its user: the receiver gets    *)
(* messages the sender sent, each at most once, in the order they were     *)
(* sent.  Messages may be lost; none is invented.                          *)
(***************************************************************************)
EXTENDS Integers, Sequences

VARIABLES
  sent,   \* how many messages were sent; the n-th is called n
  got     \* the messages received, in order

Init == sent = 0 /\ got = <<>>

Send == sent' = sent + 1 /\ UNCHANGED got

Deliver ==
  /\ \E n \in 1 .. sent :
       /\ \A i \in DOMAIN got : got[i] < n
       /\ got' = Append(got, n)
  /\ UNCHANGED sent

Next == Send \/ Deliver

Spec == Init /\ [][Next]_<<sent, got>>
=============================================================================
