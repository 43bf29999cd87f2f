------------------------- MODULE MCEncryptedChannel -------------------------
(***************************************************************************)
(* EncryptedChannel for TLC: channels a1, a2, ... belong to agent A, b1    *)
(* to agent B, and so on.                                                  *)
(***************************************************************************)
EXTENDS EncryptedChannel, TLC

CONSTANTS a1, a2, b1, b2, A, B, psk, otherPsk, EN, ZH

Never == 1000

\* One channel of A and one of B, same pre-shared key and suite.
TwoChannels == {a1, b1}
AgentOfTwo == (a1 :> A) @@ (b1 :> B)
SamePsk == [c \in Channels |-> psk]
SameSuite == [c \in Channels |-> EN]

\* Only a1 ever finds a rekey due.
OneSidedMessages == (a1 :> 1) @@ (b1 :> Never)
OneSidedSeconds == (a1 :> 1) @@ (b1 :> Never)
\* Both do.
BothSidesMessages == [c \in Channels |-> 1]
NeverMessages == [c \in Channels |-> Never]
NeverSeconds == [c \in Channels |-> Never]

\* Two attempts of A towards two channels of B: a1 and b1 fit together, a2 and
\* b2 have a suite in common but not the pre-shared key.
FourChannels == {a1, a2, b1, b2}
AgentOfFour == (a1 :> A) @@ (a2 :> A) @@ (b1 :> B) @@ (b2 :> B)
MixedPsk == (a1 :> psk) @@ (a2 :> psk) @@ (b1 :> psk) @@ (b2 :> otherPsk)
MixedSuite == (a1 :> EN) @@ (a2 :> ZH) @@ (b1 :> EN) @@ (b2 :> ZH)
-----------------------------------------------------------------------------
(* Refinement mappings of a session between a1 and b1 *)

CountersOf(c) == [n \in DOMAIN delivered[c] |-> delivered[c][n][2]]
AtoB == INSTANCE OrderedDelivery WITH sent <- sendCounter[a1], got <- CountersOf(b1)
BtoA == INSTANCE OrderedDelivery WITH sent <- sendCounter[b1], got <- CountersOf(a1)

\* Each direction of a channel implements ordered delivery at most once, with
\* every interleaving of handshake, rekeys of both ends and closing.
DeliveryRefined == AtoB!Spec /\ BtoA!Spec

Agreement ==
  INSTANCE KeyAgreement WITH
    requesterKey <- keys[a1], responderKey <- keys[b1],
    responderGone <- state[b1] = "CLOSED",
    asking <- handshake[a1].role = "rekey", None <- NoKeys

\* With one end requesting, the rekeys of a channel implement key agreement:
\* the responder is never more than one answered request ahead.
AgreementRefined == Agreement!Spec
=============================================================================
