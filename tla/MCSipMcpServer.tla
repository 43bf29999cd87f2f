--------------------------- MODULE MCSipMcpServer ---------------------------
(***************************************************************************)
(* SipMcpServer for TLC: two agents, each with two processes in turn.  The *)
(* first processes run with the EN suite, the second ones with ZH.         *)
(***************************************************************************)
EXTENDS SipMcpServer, FiniteSets, TLC

CONSTANTS a1, a2, b1, b2, A, B, psk, EN, ZH

FourChannels == {a1, a2, b1, b2}
AgentOfFour == (a1 :> A) @@ (a2 :> A) @@ (b1 :> B) @@ (b2 :> B)
TwoEach == (A :> <<a1, a2>>) @@ (B :> <<b1, b2>>)
OneEach == (A :> <<a1>>) @@ (B :> <<b1>>)
TwoChannels == {a1, b1}
AgentOfTwo == (a1 :> A) @@ (b1 :> B)
SamePsk == [c \in Channels |-> psk]
SameSuite == [c \in Channels |-> EN]
MixedSuite == (a1 :> EN) @@ (a2 :> ZH) @@ (b1 :> EN) @@ (b2 :> ZH)
SecondMessage == [c \in Channels |-> 1]
NeverSeconds == [c \in Channels |-> 1000]

\* A bound: time passes only while at most three messages have been made.
FewMessagesAge == now = 0 \/ Cardinality({m \in wire : m.time = 0}) <= 3
=============================================================================
