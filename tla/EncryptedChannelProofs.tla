---------------------- MODULE EncryptedChannelProofs -----------------------
(***************************************************************************)
(* Theorems about EncryptedChannel, for any number of channels, agents,    *)
(* suites and pre-shared keys, any rekey thresholds and any bounds: types, *)
(* the states a channel may be in with its keys, the agreement of the      *)
(* handshake, and delivery at most once and in order.                      *)
(***************************************************************************)
EXTENDS EncryptedChannel, TLAPS

-----------------------------------------------------------------------------
(* The key schedule *)

\* What one end of a handshake contributes.
LEMMA ShareType ==
  ASSUME NEW c \in Channels, NEW n \in Nat
  PROVE  Share(c, n) \in Shares
BY DEF Share, Shares, KeyPairs

\* Both views of the handshake derivation yield key triples.
LEMMA HandshakeKeysType ==
  ASSUME NEW own \in Shares, NEW peer \in Shares, NEW p \in Psks, NEW s \in Suites
  PROVE  /\ InitiatorKeys(own, peer, p, s) \in Keys
         /\ ResponderKeys(own, peer, p, s) \in Keys
BY DEF InitiatorKeys, ResponderKeys, DeriveTripleDH, DH, Keys, Shares, Secrets

\* So does the rekey derivation.
LEMMA RekeyKeysType ==
  ASSUME NEW old \in Keys, NEW x \in KeyPairs, NEW y \in KeyPairs,
         NEW i \in KeyPairs, NEW r \in KeyPairs, NEW s \in Suites
  PROVE  RekeyKeys(old, DH(x, y), i, r, s) \in Keys
<1> DEFINE Step == [shared : Secrets, nonces : KeyPairs \X KeyPairs, suite : Suites]
           new == [shared |-> DH(x, y), nonces |-> <<i, r>>, suite |-> s]
<1>1. new \in Step
  BY DEF DH, Secrets
<1>2. old.chain \in Seq(Step)
  BY DEF Keys
<1>3. Append(old.chain, new) \in Seq(Step)
  BY <1>1, <1>2
<1> QED
  BY <1>3 DEF RekeyKeys, Keys

\* The two ends of a handshake that see each other's shares, with the same
\* pre-shared key and suite, derive the same keys: exchanging the first two
\* secrets on the responder's side is what makes it so.
THEOREM HandshakeSymmetric ==
  \A i, r, p, s : InitiatorKeys(i, r, p, s) = ResponderKeys(r, i, p, s)
<1> SUFFICES ASSUME NEW i, NEW r, NEW p, NEW s
             PROVE  InitiatorKeys(i, r, p, s) = ResponderKeys(r, i, p, s)
  OBVIOUS
<1>1. \A x, y : DH(x, y) = DH(y, x)
  BY DEF DH
<1> QED
  BY <1>1 DEF InitiatorKeys, ResponderKeys, DeriveTripleDH

-----------------------------------------------------------------------------
(* Type correctness *)

\* A message that arrives as one of a type is a message of that type.
LEMMA MessageTypes ==
  ASSUME NEW m \in Messages
  PROVE  /\ m.type = "hello" => m \in Hellos
         /\ m.type = "auth" => m \in Auths
         /\ m.type = "encrypted" => m \in Encrypteds
         /\ m.type = "disconnect" => m \in Disconnects
         /\ m.type = "rekey_request" => m \in RekeyRequests
         /\ m.type = "rekey_response" => m \in RekeyResponses
BY DEF Messages, Hellos, Auths, Encrypteds, Disconnects, RekeyRequests,
       RekeyResponses

\* What the constructors of messages build.
LEMMA MessagesBuilt ==
  ASSUME TypeOK, NEW c \in Channels
  PROVE  /\ \A n \in Nat : HelloMsg(c, n) \in Hellos
         /\ \A n \in Nat, to \in Agents, k \in Keys : AuthMsg(c, n, to, k) \in Auths
         /\ \A k \in Keys, n \in Nat :
              EncryptedMsg(c, remote[c], k, n) \in Encrypteds
         /\ DisconnectMsg(c) \in Disconnects
         /\ \A k \in Keys, e \in KeyPairs, n \in Nat :
              /\ RekeyMsg("rekey_request", c, k, e, n) \in RekeyRequests
              /\ RekeyMsg("rekey_response", c, k, e, n) \in RekeyResponses
<1> USE ConstantsOK DEF TypeOK, RecipientIds
<1>1. \A n \in Nat : HelloMsg(c, n) \in Hellos
  BY ShareType DEF HelloMsg, Hellos
<1>2. \A n \in Nat, to \in Agents, k \in Keys : AuthMsg(c, n, to, k) \in Auths
  BY ShareType DEF AuthMsg, Auths, Mac, Macs
<1>3. \A k \in Keys, n \in Nat : EncryptedMsg(c, remote[c], k, n) \in Encrypteds
  BY DEF EncryptedMsg, Encrypteds
<1>4. DisconnectMsg(c) \in Disconnects
  BY DEF DisconnectMsg, Disconnects
<1>5. \A k \in Keys, e \in KeyPairs, n \in Nat :
         /\ RekeyMsg("rekey_request", c, k, e, n) \in RekeyRequests
         /\ RekeyMsg("rekey_response", c, k, e, n) \in RekeyResponses
  BY DEF RekeyMsg, RekeyRequests, RekeyResponses, Mac, Macs
<1> QED
  BY <1>1, <1>2, <1>3, <1>4, <1>5

\* What the handshake state of each role holds.
LEMMA HandshakeTypes ==
  ASSUME NEW h \in HandshakeStates
  PROVE  /\ h.role = "rekey" => h.old \in Keys /\ h.ephemeral \in KeyPairs
         /\ h.role = "initiator" => h.share \in Shares
<1>1. CASE h = NoHandshake
  BY <1>1 DEF NoHandshake
<1>2. CASE h \in [role : {"initiator", "responder"}, share : Shares]
  BY <1>2
<1>3. CASE h \in [role : {"rekey"}, old : Keys, ephemeral : KeyPairs, sequence : Nat]
  BY <1>3
<1> QED
  BY <1>1, <1>2, <1>3 DEF HandshakeStates

\* An ephemeral key pair about to be drawn is one.
LEMMA NextEphemeralType ==
  ASSUME TypeOK, NEW c \in Channels
  PROVE  NextEphemeral(c) \in KeyPairs
BY DEF TypeOK, NextEphemeral, KeyPairs

-----------------------------------------------------------------------------
(* Type correctness and the keys each state has.  TypeOK is not inductive by *)
(* itself: that the keys a message is made with are keys, and not None, is   *)
(* what KeysMatchState says; so the two are proved together.                 *)

ChannelInv == TypeOK /\ KeysMatchState

\* A new channel is IDLE, without keys, handshake state or messages.
LEMMA ChannelInvInit == Init => ChannelInv
<1> SUFFICES ASSUME Init PROVE ChannelInv
  OBVIOUS
<1>1. TypeOK
  BY ConstantsOK DEF Init, TypeOK, States, RecipientIds, HandshakeStates, Messages
<1>2. KeysMatchState
  BY DEF Init, KeysMatchState, HasKeys, NoHandshake
<1> QED
  BY <1>1, <1>2 DEF ChannelInv

\* The actions that take no message from the wire.
LEMMA LocalStep ==
  ASSUME ChannelInv, NEW c \in Channels,
         \/ Initiate(c) \/ InitiateFails(c) \/ Send(c) \/ SendFails(c)
         \/ TransmitPending(c) \/ Close(c) \/ SendDisconnect(c)
  PROVE  ChannelInv'
<1> USE DEF ChannelInv, HasKeys
<1>0. TypeOK /\ KeysMatchState
  OBVIOUS
<1>1. CASE Initiate(c)
  <2>1. HelloMsg(c, draws[c] + 1) \in Messages /\ Share(c, draws[c] + 1) \in Shares
    BY MessagesBuilt, ShareType DEF TypeOK, Messages
  <2>2. TypeOK'
    BY <1>1, <2>1 DEF Initiate, TypeOK, States, HandshakeStates, Transmit
  <2>3. KeysMatchState'
    BY <1>1 DEF Initiate, TypeOK, KeysMatchState
  <2> QED
    BY <2>2, <2>3
<1>2. CASE InitiateFails(c)
  <2>1. TypeOK'
    BY <1>2 DEF InitiateFails, TypeOK, States
  <2>2. KeysMatchState'
    BY <1>2 DEF InitiateFails, TypeOK, KeysMatchState
  <2> QED
    BY <2>1, <2>2
<1>3. CASE Send(c)
  <2>1. keys[c] \in Keys
    BY <1>3 DEF Send, KeysMatchState, TypeOK
  <2>2. EncryptedMsg(c, remote[c], keys[c], sendCounter[c] + 1) \in Messages
    BY <2>1, MessagesBuilt DEF TypeOK, Messages
  <2>3. CASE ~RekeyDue(c)
    <3>1. TypeOK'
      BY <1>3, <2>2, <2>3 DEF Send, TypeOK, Transmit
    <3>2. KeysMatchState'
      BY <1>3, <2>3 DEF Send, KeysMatchState
    <3> QED
      BY <3>1, <3>2
  <2>4. CASE RekeyDue(c)
    <3>1. InitiateRekey(c)
      BY <1>3, <2>4 DEF Send
    <3>2. RekeyMsg("rekey_request", c, keys[c], NextEphemeral(c), 0) \in RekeyRequests
      BY <2>1, MessagesBuilt, NextEphemeralType
    <3>3. RekeyManager(keys[c], NextEphemeral(c), 1) \in HandshakeStates
      BY <2>1, NextEphemeralType DEF RekeyManager, HandshakeStates
    <3>4. TypeOK'
      BY <1>3, <2>2, <3>1, <3>2, <3>3
      DEF Send, InitiateRekey, TypeOK, States, Transmit
    <3>5. KeysMatchState'
      BY <1>3, <3>1
      DEF Send, InitiateRekey, TypeOK, KeysMatchState, RekeyManager
    <3> QED
      BY <3>4, <3>5
  <2> QED
    BY <2>3, <2>4
<1>4. CASE SendFails(c)
  <2>1. TypeOK'
    BY <1>4 DEF SendFails, TypeOK, States
  <2>2. KeysMatchState'
    BY <1>4 DEF SendFails, TypeOK, KeysMatchState
  <2> QED
    BY <2>1, <2>2
<1>5. CASE TransmitPending(c)
  <2>1. pending[c] \in Messages
    BY <1>5 DEF TransmitPending, TypeOK, Messages
  <2>2. TypeOK'
    BY <1>5, <2>1 DEF TransmitPending, TypeOK, Transmit
  <2>3. KeysMatchState'
    BY <1>5 DEF TransmitPending, KeysMatchState
  <2> QED
    BY <2>2, <2>3
<1>6. CASE Close(c)
  <2>1. TypeOK'
    BY <1>6 DEF Close, TypeOK, States, HandshakeStates
  <2>2. KeysMatchState'
    BY <1>6 DEF Close, TypeOK, KeysMatchState, NoHandshake
  <2> QED
    BY <2>1, <2>2
<1>7. CASE SendDisconnect(c)
  <2>1. DisconnectMsg(c) \in Messages
    BY MessagesBuilt DEF Messages
  <2>2. TypeOK'
    BY <1>7, <2>1 DEF SendDisconnect, TypeOK, Transmit
  <2>3. KeysMatchState'
    BY <1>7 DEF SendDisconnect, KeysMatchState
  <2> QED
    BY <2>2, <2>3
<1> QED
  BY <1>1, <1>2, <1>3, <1>4, <1>5, <1>6, <1>7

\* The actions that take a message from the wire.
LEMMA MessageStep ==
  ASSUME ChannelInv, NEW c \in Channels, NEW m \in wire,
         \/ RespondToHandshake(c, m) \/ RespondFails(c, m)
         \/ CompleteHandshake(c, m) \/ CompleteFails(c, m)
         \/ Receive(c, m) \/ ReceiveDisconnect(c, m)
         \/ HandleRekeyRequest(c, m) \/ ProcessRekeyResponse(c, m)
  PROVE  ChannelInv'
<1> USE DEF ChannelInv, HasKeys
<1>0. TypeOK /\ KeysMatchState /\ m \in Messages
  BY DEF TypeOK
<1>1. CASE RespondToHandshake(c, m)
  <2> DEFINE own == Share(c, draws[c] + 1)
             key == ResponderKeys(own, m.share, Psk[c], Suite[c])
  <2>1. m \in Hellos
    BY <1>0, <1>1, MessageTypes DEF RespondToHandshake, Arrives
  <2>2. own \in Shares
    BY ShareType DEF TypeOK
  <2>3. key \in Keys
    BY <2>1, <2>2, HandshakeKeysType, ConstantsOK DEF Hellos
  <2> HIDE DEF own, key
  <2>a. draws[c] + 1 \in Nat /\ m.from \in Agents
    BY <2>1 DEF TypeOK, Hellos
  <2>4. AuthMsg(c, draws[c] + 1, m.from, key) \in Messages
    BY <2>a, <2>3, MessagesBuilt DEF Messages
  <2>5. m.from \in RecipientIds
    BY <2>a DEF RecipientIds
  <2>6. /\ keys' = [keys EXCEPT ![c] = key]
        /\ handshake' = [handshake EXCEPT ![c] = [role |-> "responder", share |-> own]]
        /\ wire' = wire \cup {AuthMsg(c, draws[c] + 1, m.from, key)}
    BY <1>1 DEF RespondToHandshake, own, key, Transmit
  <2>7. TypeOK'
    BY <1>1, <2>2, <2>3, <2>4, <2>5, <2>6
    DEF RespondToHandshake, TypeOK, States, HandshakeStates
  <2>8. KeysMatchState'
    BY <1>1, <2>3, <2>6, NoneIsNoValue DEF RespondToHandshake, TypeOK, KeysMatchState
  <2> QED
    BY <2>7, <2>8
<1>2. CASE RespondFails(c, m)
  <2>1. m.from \in RecipientIds
    BY <1>0, <1>2, MessageTypes DEF RespondFails, Arrives, Hellos, RecipientIds
  <2>2. TypeOK'
    BY <1>2, <2>1 DEF RespondFails, TypeOK, States
  <2>3. KeysMatchState'
    BY <1>2 DEF RespondFails, TypeOK, KeysMatchState
  <2> QED
    BY <2>2, <2>3
<1>3. CASE CompleteHandshake(c, m)
  <2>1. m \in Auths
    BY <1>0, <1>3, MessageTypes DEF CompleteHandshake, Arrives
  <2>2. handshake[c].role = "initiator"
    BY <1>3 DEF CompleteHandshake, KeysMatchState
  <2>3. handshake[c].share \in Shares
    BY <2>2, HandshakeTypes DEF TypeOK
  <2>4. KeysFromAuth(c, m) \in Keys
    BY <2>1, <2>3, HandshakeKeysType, ConstantsOK DEF KeysFromAuth, Auths
  <2>5. TypeOK'
    BY <1>3, <2>1, <2>4
    DEF CompleteHandshake, TypeOK, States, HandshakeStates, Auths, RecipientIds
  <2>6. KeysMatchState'
    BY <1>3, <2>4, NoneIsNoValue
    DEF CompleteHandshake, TypeOK, KeysMatchState, NoHandshake
  <2> QED
    BY <2>5, <2>6
<1>4. CASE CompleteFails(c, m)
  <2>1. TypeOK'
    BY <1>4 DEF CompleteFails, TypeOK, States
  <2>2. KeysMatchState'
    BY <1>4 DEF CompleteFails, TypeOK, KeysMatchState
  <2> QED
    BY <2>1, <2>2
<1>5. CASE Receive(c, m)
  <2>1. m \in Encrypteds
    BY <1>0, <1>5, MessageTypes DEF Receive, Arrives
  <2>2. m.counter \in Nat /\ <<m.from, m.counter>> \in Agents \X Nat
    BY <2>1 DEF Encrypteds
  <2>3. Append(delivered[c], <<m.from, m.counter>>) \in Seq(Agents \X Nat)
    BY <2>2 DEF TypeOK
  <2>4. TypeOK'
    BY <1>5, <2>2, <2>3 DEF Receive, TypeOK
  <2>5. KeysMatchState'
    BY <1>5 DEF Receive, KeysMatchState
  <2> QED
    BY <2>4, <2>5
<1>6. CASE ReceiveDisconnect(c, m)
  BY <1>6, LocalStep DEF ReceiveDisconnect
<1>7. CASE HandleRekeyRequest(c, m)
  <2>1. m \in RekeyRequests
    BY <1>0, <1>7, MessageTypes DEF HandleRekeyRequest, Arrives
  <2>2. keys[c] \in Keys /\ Suite[c] \in Suites /\ m.ephemeral \in KeyPairs
    BY <1>7, <2>1, ConstantsOK DEF HandleRekeyRequest, TypeOK, RekeyRequests
  <2> DEFINE new == RequestKeys(c, m, Suite[c])
             response == RekeyResponse(c, m)
  <2>3. new \in Keys
    BY <2>2, NextEphemeralType, RekeyKeysType DEF RequestKeys
  <2>4. response \in Messages
    BY <2>1, <2>2, NextEphemeralType, MessagesBuilt
    DEF RekeyResponse, RekeyRequests, Messages
  <2> HIDE DEF new, response
  <2>5. keys' = [keys EXCEPT ![c] = new] /\ wire' = wire \cup {response}
    BY <1>7 DEF HandleRekeyRequest, ApplyNewKeys, Transmit, new, response
  <2>6. TypeOK'
    BY <1>7, <2>3, <2>4, <2>5 DEF HandleRekeyRequest, TypeOK
  <2>7. KeysMatchState'
    BY <1>7, <2>3, <2>5, NoneIsNoValue DEF HandleRekeyRequest, TypeOK, KeysMatchState
  <2> QED
    BY <2>6, <2>7
<1>8. CASE ProcessRekeyResponse(c, m)
  <2>1. m \in RekeyResponses
    BY <1>0, <1>8, MessageTypes DEF ProcessRekeyResponse, Arrives
  <2>2. /\ handshake[c].old \in Keys /\ handshake[c].ephemeral \in KeyPairs
        /\ Suite[c] \in Suites /\ m.ephemeral \in KeyPairs
    BY <1>8, <2>1, HandshakeTypes, ConstantsOK
    DEF ProcessRekeyResponse, TypeOK, RekeyResponses
  <2> DEFINE new == ResponseKeys(c, m)
  <2>3. new \in Keys
    BY <2>2, RekeyKeysType DEF ResponseKeys
  <2> HIDE DEF new
  <2>4. keys' = [keys EXCEPT ![c] = new]
    BY <1>8 DEF ProcessRekeyResponse, ApplyNewKeys, new
  <2>5. TypeOK'
    BY <1>8, <2>3, <2>4 DEF ProcessRekeyResponse, TypeOK, States, HandshakeStates
  <2>6. KeysMatchState'
    BY <1>8, <2>3, <2>4, NoneIsNoValue
    DEF ProcessRekeyResponse, TypeOK, KeysMatchState, NoHandshake
  <2> QED
    BY <2>5, <2>6
<1> QED
  BY <1>1, <1>2, <1>3, <1>4, <1>5, <1>6, <1>7, <1>8

\* Every action of a channel, and of the clock, preserves both.
LEMMA ChannelInvStep == ChannelInv /\ [Next]_vars => ChannelInv'
<1> SUFFICES ASSUME ChannelInv, [Next]_vars PROVE ChannelInv'
  OBVIOUS
<1>1. CASE Tick
  BY <1>1 DEF Tick, ChannelInv, TypeOK, KeysMatchState, HasKeys
<1>2. CASE UNCHANGED vars
  BY <1>2 DEF vars, ChannelInv, TypeOK, KeysMatchState, HasKeys
<1> QED
  BY <1>1, <1>2, LocalStep, MessageStep DEF Next

\* Every reachable state is well typed: the library builds only messages of
\* the protocol, out of keys it has.
THEOREM TypeCorrect == Spec => []TypeOK
<1>1. ChannelInv => TypeOK
  BY DEF ChannelInv
<1> QED
  BY <1>1, ChannelInvInit, ChannelInvStep, PTL DEF Spec

\* The assertions on session keys and handshake state never fire.
THEOREM StatesMatchKeys == Spec => []KeysMatchState
<1>1. ChannelInv => KeysMatchState
  BY DEF ChannelInv
<1> QED
  BY <1>1, ChannelInvInit, ChannelInvStep, PTL DEF Spec

\* What TerminalStatesStay says of one channel.
Stays(c) == state[c] \in {"CLOSED", "ERROR"} =>
              state'[c] \in {state[c], "CLOSED"} /\ keys'[c] = NoKeys

\* No step gives keys to a closed or failed channel: every method checks a
\* state, a key or a RekeyManager that such a channel does not have.
LEMMA TerminalStep ==
  ChannelInv /\ [Next]_vars => \A c \in Channels : Stays(c)
<1> USE DEF Stays
<1>1. ASSUME ChannelInv, NEW c \in Channels, NEW d \in Channels,
             \/ Initiate(d) \/ InitiateFails(d) \/ Send(d) \/ SendFails(d)
             \/ TransmitPending(d) \/ Close(d) \/ SendDisconnect(d)
      PROVE  Stays(c)
  <2> USE <1>1 DEF ChannelInv, TypeOK, KeysMatchState, HasKeys
  <2>1. CASE Initiate(d)
    BY <2>1 DEF Initiate
  <2>2. CASE InitiateFails(d)
    BY <2>2 DEF InitiateFails
  <2>3. CASE Send(d)
    BY <2>3 DEF Send, InitiateRekey
  <2>4. CASE SendFails(d)
    BY <2>4 DEF SendFails
  <2>5. CASE TransmitPending(d) \/ SendDisconnect(d)
    BY <2>5 DEF TransmitPending, SendDisconnect
  <2>6. CASE Close(d)
    BY <2>6 DEF Close
  <2> QED
    BY <1>1, <2>1, <2>2, <2>3, <2>4, <2>5, <2>6
<1>2. ASSUME ChannelInv, NEW c \in Channels, NEW d \in Channels, NEW m \in wire,
             \/ RespondToHandshake(d, m) \/ RespondFails(d, m)
             \/ CompleteHandshake(d, m) \/ CompleteFails(d, m)
             \/ Receive(d, m) \/ ReceiveDisconnect(d, m)
             \/ HandleRekeyRequest(d, m) \/ ProcessRekeyResponse(d, m)
      PROVE  Stays(c)
  <2> USE <1>2 DEF ChannelInv, TypeOK, KeysMatchState, HasKeys
  <2>1. CASE RespondToHandshake(d, m)
    BY <2>1 DEF RespondToHandshake
  <2>2. CASE RespondFails(d, m)
    BY <2>2 DEF RespondFails
  <2>3. CASE CompleteHandshake(d, m)
    BY <2>3 DEF CompleteHandshake
  <2>4. CASE CompleteFails(d, m)
    BY <2>4 DEF CompleteFails
  <2>5. CASE Receive(d, m)
    BY <2>5 DEF Receive
  <2>6. CASE ReceiveDisconnect(d, m)
    BY <2>6 DEF ReceiveDisconnect, Close
  <2>7. CASE HandleRekeyRequest(d, m)
    BY <2>7 DEF HandleRekeyRequest, ApplyNewKeys
  <2>8. CASE ProcessRekeyResponse(d, m)
    BY <2>8 DEF ProcessRekeyResponse, ApplyNewKeys
  <2> QED
    BY <1>2, <2>1, <2>2, <2>3, <2>4, <2>5, <2>6, <2>7, <2>8
<1>3. ASSUME ChannelInv, NEW c \in Channels, Tick \/ UNCHANGED vars
      PROVE  Stays(c)
  BY <1>3 DEF ChannelInv, KeysMatchState, HasKeys, Tick, vars
<1> QED
  BY <1>1, <1>2, <1>3 DEF Next

\* A closed or failed channel never gets keys again, whatever arrives late.
THEOREM TerminalIsFinal == Spec => TerminalStatesStay
<1>1. ChannelInv /\ [Next]_vars =>
        [\A c \in Channels :
           state[c] \in {"CLOSED", "ERROR"} =>
             state'[c] \in {state[c], "CLOSED"} /\ keys'[c] = NoKeys]_vars
  BY TerminalStep DEF Stays
<1> QED
  BY <1>1, ChannelInvInit, ChannelInvStep, PTL DEF Spec, TerminalStatesStay

-----------------------------------------------------------------------------
(* The agreement of the handshake: an invariant that relates the Hellos     *)
(* and Auths on the wire to the channels that made them.                    *)

\* A Hello names its agent, and carries a share of one of its channels.
HelloMade(m) == m.type = "hello" => m.from = AgentOf[m.share.ephemeral[1]]

\* An Auth is signed under the keys of the channel that made it, which took a
\* Hello of another agent, and holds keys of that handshake until it is closed.
AuthMade(m) ==
  m.type = "auth" =>
    LET i == InitiatorOf(m.mac.key)
        r == ResponderOf(m.mac.key)
    IN  /\ AgentOf[i] # AgentOf[r]
        /\ m.from = AgentOf[r] /\ remote[r] = AgentOf[i]
        /\ m.mac.key.base.psk = Psk[r] /\ m.mac.key.base.suite = Suite[r]
        /\ \/ HasKeys(r) /\ keys[r].base = m.mac.key.base
           \/ state[r] = "CLOSED"

\* An initiator waits for the answer to its own share; a RekeyManager has
\* copied keys of the handshake the channel still has keys of.
OwnHandshake(c) ==
  /\ handshake[c].role = "initiator" => handshake[c].share.ephemeral[1] = c
  /\ handshake[c].role = "rekey" => handshake[c].old.base = keys[c].base

\* The inductive invariant of the handshake.
AgreementInv ==
  /\ \A m \in wire : HelloMade(m) /\ AuthMade(m)
  /\ \A c \in Channels : OwnHandshake(c)
  /\ HandshakeAgreement

\* A channel that has keys stays with its handshake until it is closed, and a
\* closed one stays closed; neither changes its remote.
SessionKept(c) ==
  /\ HasKeys(c) => \/ HasKeys(c)' /\ keys'[c].base = keys[c].base
                   \/ state'[c] = "CLOSED"
  /\ state[c] = "CLOSED" => state'[c] = "CLOSED"
  /\ HasKeys(c) \/ state[c] = "CLOSED" => remote'[c] = remote[c]

-----------------------------------------------------------------------------
\* The two ends of a handshake are channels.
LEMMA EndsAreChannels ==
  ASSUME NEW key \in Keys
  PROVE  InitiatorOf(key) \in Channels /\ ResponderOf(key) \in Channels
BY DEF Keys, KeyPairs, InitiatorOf, ResponderOf

\* The ends of a handshake are those of its base, whatever rekeys added.
LEMMA EndsOfBase ==
  ASSUME NEW k1, NEW k2, k1.base = k2.base
  PROVE  InitiatorOf(k1) = InitiatorOf(k2) /\ ResponderOf(k1) = ResponderOf(k2)
BY DEF InitiatorOf, ResponderOf

\* A step that keeps the sessions keeps what is said of the Auths already made
\* and of the channels that had keys and still have them.
LEMMA KeptSessions ==
  ASSUME ChannelInv, AgreementInv, ChannelInv',
         \A c \in Channels : SessionKept(c)
  PROVE  /\ \A m \in wire : AuthMade(m)'
         /\ \A c \in Channels : HasKeys(c) /\ HasKeys(c)' =>
              Agreed(c, InitiatorOf(keys[c]), ResponderOf(keys[c]))'
<1>1. ASSUME NEW m \in wire, m.type = "auth" PROVE AuthMade(m)'
  <2>1. m \in Auths
    BY <1>1, MessageTypes DEF ChannelInv, TypeOK
  <2>2. PICK i \in Channels, r \in Channels :
          i = InitiatorOf(m.mac.key) /\ r = ResponderOf(m.mac.key)
    BY <2>1, EndsAreChannels DEF Auths, Macs
  <2>3. AuthMade(m) /\ SessionKept(r)
    BY <1>1 DEF AgreementInv
  <2> QED
    BY <1>1, <2>2, <2>3 DEF AuthMade, SessionKept, HasKeys
<1>2. ASSUME NEW c \in Channels, HasKeys(c), HasKeys(c)'
      PROVE  Agreed(c, InitiatorOf(keys[c]), ResponderOf(keys[c]))'
  <2>1. keys'[c].base = keys[c].base
    BY <1>2 DEF SessionKept, ChannelInv, KeysMatchState
  <2>2. PICK i \in Channels, r \in Channels :
          i = InitiatorOf(keys[c]) /\ r = ResponderOf(keys[c])
    BY <1>2, EndsAreChannels DEF ChannelInv, TypeOK, HasKeys
  <2>3. i = InitiatorOf(keys'[c]) /\ r = ResponderOf(keys'[c])
    BY <2>1, <2>2 DEF InitiatorOf, ResponderOf
  <2>4. Agreed(c, i, r)
    BY <1>2, <2>2 DEF AgreementInv, HandshakeAgreement
  <2>5. SessionKept(c) /\ SessionKept(r)
    OBVIOUS
  <2>6. c = i /\ Paired(i, r) => Paired(i, r)' \/ state'[r] = "CLOSED"
    BY <1>2, <2>1, <2>5 DEF SessionKept, Paired, HasKeys
  <2>7. Agreed(c, i, r)'
    BY <1>2, <2>4, <2>5, <2>6 DEF Agreed, SessionKept, Paired
  <2> QED
    BY <2>3, <2>7
<1> QED
  BY <1>1, <1>2 DEF AuthMade

-----------------------------------------------------------------------------
(* The steps *)

\* Every step keeps the sessions: only a channel without keys that is not
\* closed takes part in a handshake, and rekeys extend the chain of one base.
LEMMA StepKeepsSessions ==
  ASSUME ChannelInv, AgreementInv, [Next]_vars, NEW d \in Channels
  PROVE  SessionKept(d)
<1> USE DEF SessionKept, HasKeys, ChannelInv, TypeOK, KeysMatchState
<1>1. ASSUME NEW c \in Channels,
             \/ Initiate(c) \/ InitiateFails(c) \/ Send(c) \/ SendFails(c)
             \/ TransmitPending(c) \/ Close(c) \/ SendDisconnect(c)
      PROVE  SessionKept(d)
  <2>1. CASE Initiate(c) \/ InitiateFails(c)
    BY <2>1 DEF Initiate, InitiateFails
  <2>2. CASE Send(c) \/ SendFails(c)
    BY <2>2 DEF Send, InitiateRekey, SendFails
  <2>3. CASE TransmitPending(c) \/ SendDisconnect(c)
    BY <2>3 DEF TransmitPending, SendDisconnect
  <2>4. CASE Close(c)
    BY <2>4 DEF Close
  <2> QED
    BY <1>1, <2>1, <2>2, <2>3, <2>4
<1>2. ASSUME NEW c \in Channels, NEW m \in wire,
             \/ RespondToHandshake(c, m) \/ RespondFails(c, m)
             \/ CompleteHandshake(c, m) \/ CompleteFails(c, m)
             \/ Receive(c, m) \/ ReceiveDisconnect(c, m)
             \/ HandleRekeyRequest(c, m) \/ ProcessRekeyResponse(c, m)
      PROVE  SessionKept(d)
  <2>1. CASE RespondToHandshake(c, m) \/ RespondFails(c, m)
    BY <2>1 DEF RespondToHandshake, RespondFails
  <2>2. CASE CompleteHandshake(c, m) \/ CompleteFails(c, m)
    BY <2>2 DEF CompleteHandshake, CompleteFails
  <2>3. CASE Receive(c, m) \/ ReceiveDisconnect(c, m)
    BY <2>3 DEF Receive, ReceiveDisconnect, Close
  <2>4. CASE HandleRekeyRequest(c, m)
    <3>1. keys'[c] \in Keys /\ keys'[c].base = keys[c].base
      BY <2>4, ChannelInvStep, NoneIsNoValue
      DEF Next, HandleRekeyRequest, ApplyNewKeys, RequestKeys, RekeyKeys
    <3> QED
      BY <2>4, <3>1, NoneIsNoValue DEF HandleRekeyRequest, ApplyNewKeys
  <2>5. CASE ProcessRekeyResponse(c, m)
    <3>1. keys'[c].base = handshake[c].old.base
      BY <2>5 DEF ProcessRekeyResponse, ApplyNewKeys, ResponseKeys, RekeyKeys
    <3>2. keys'[c].base = keys[c].base
      BY <2>5, <3>1 DEF ProcessRekeyResponse, AgreementInv, OwnHandshake
    <3> QED
      BY <2>5, <3>2, ChannelInvStep DEF Next, ProcessRekeyResponse, ApplyNewKeys
  <2> QED
    BY <1>2, <2>1, <2>2, <2>3, <2>4, <2>5
<1>3. CASE Tick \/ UNCHANGED vars
  BY <1>3 DEF Tick, vars
<1> QED
  BY <1>1, <1>2, <1>3 DEF Next

\* The Hello and the Auth are the only new messages the invariant is about;
\* both are made as it says.
LEMMA StepMakesMessages ==
  ASSUME ChannelInv, AgreementInv, [Next]_vars, NEW m \in wire'
  PROVE  m \in wire \/ (HelloMade(m) /\ AuthMade(m)')
<1> USE DEF ChannelInv, TypeOK, HelloMade, AuthMade, Transmit
<1>1. ASSUME NEW c \in Channels,
             \/ Initiate(c) \/ InitiateFails(c) \/ Send(c) \/ SendFails(c)
             \/ TransmitPending(c) \/ Close(c) \/ SendDisconnect(c)
      PROVE  m \in wire \/ (HelloMade(m) /\ AuthMade(m)')
  <2>1. CASE Initiate(c)
    BY <2>1 DEF Initiate, HelloMsg, Share
  <2>2. CASE Send(c)
    BY <2>2 DEF Send, EncryptedMsg
  <2>3. CASE TransmitPending(c)
    BY <2>3 DEF TransmitPending, RekeyRequests
  <2>4. CASE SendDisconnect(c)
    BY <2>4 DEF SendDisconnect, DisconnectMsg
  <2>5. CASE InitiateFails(c) \/ SendFails(c) \/ Close(c)
    BY <2>5 DEF InitiateFails, SendFails, Close
  <2> QED
    BY <1>1, <2>1, <2>2, <2>3, <2>4, <2>5
<1>2. ASSUME NEW c \in Channels, NEW h \in wire,
             \/ RespondToHandshake(c, h) \/ RespondFails(c, h)
             \/ CompleteHandshake(c, h) \/ CompleteFails(c, h)
             \/ Receive(c, h) \/ ReceiveDisconnect(c, h)
             \/ HandleRekeyRequest(c, h) \/ ProcessRekeyResponse(c, h)
      PROVE  m \in wire \/ (HelloMade(m) /\ AuthMade(m)')
  <2>1. CASE RespondToHandshake(c, h)
    <3> DEFINE own == Share(c, draws[c] + 1)
               key == ResponderKeys(own, h.share, Psk[c], Suite[c])
    <3>1. h.type = "hello" /\ h.from # AgentOf[c] /\ h \in Hellos
      BY <2>1, MessageTypes DEF RespondToHandshake, Arrives
    <3>2. h.from = AgentOf[h.share.ephemeral[1]]
      BY <3>1 DEF AgreementInv
    <3>3. /\ InitiatorOf(key) = h.share.ephemeral[1]
          /\ ResponderOf(key) = c
          /\ key.base.psk = Psk[c] /\ key.base.suite = Suite[c]
      BY DEF ResponderKeys, DeriveTripleDH, InitiatorOf, ResponderOf, Share
    <3>4. key \in Keys
      BY <3>1, ShareType, HandshakeKeysType, ConstantsOK DEF Hellos
    <3> HIDE DEF key
    <3>5. /\ keys'[c] = key /\ keys'[c] # NoKeys
          /\ remote'[c] = h.from
          /\ wire' = wire \cup {AuthMsg(c, draws[c] + 1, h.from, key)}
      BY <2>1, <3>4, NoneIsNoValue DEF RespondToHandshake, key
    <3> QED
      BY <3>1, <3>2, <3>3, <3>5 DEF AuthMsg, Mac, HasKeys
  <2>2. CASE HandleRekeyRequest(c, h)
    BY <2>2 DEF HandleRekeyRequest, RekeyResponse, RekeyMsg
  <2>3. CASE RespondFails(c, h) \/ CompleteHandshake(c, h) \/ CompleteFails(c, h)
    BY <2>3 DEF RespondFails, CompleteHandshake, CompleteFails
  <2>4. CASE Receive(c, h) \/ ReceiveDisconnect(c, h) \/ ProcessRekeyResponse(c, h)
    BY <2>4 DEF Receive, ReceiveDisconnect, Close, ProcessRekeyResponse
  <2> QED
    BY <1>2, <2>1, <2>2, <2>3, <2>4
<1>3. CASE Tick \/ UNCHANGED vars
  BY <1>3 DEF Tick, vars
<1> QED
  BY <1>1, <1>2, <1>3 DEF Next

\* An initiator keeps its own share, and a RekeyManager copies the keys the
\* channel has; a rekey handled meanwhile leaves their base.
LEMMA StepOwnHandshake ==
  ASSUME ChannelInv, AgreementInv, [Next]_vars, NEW d \in Channels
  PROVE  OwnHandshake(d)'
<1> USE DEF ChannelInv, TypeOK, KeysMatchState, HasKeys, NoHandshake
<1>0. OwnHandshake(d) /\ SessionKept(d) /\ ChannelInv'
  BY StepKeepsSessions, ChannelInvStep DEF AgreementInv
<1>1. CASE handshake'[d] = handshake[d]
  BY <1>0, <1>1 DEF OwnHandshake, SessionKept
<1>2. ASSUME NEW c \in Channels,
             \/ Initiate(c) \/ InitiateFails(c) \/ Send(c) \/ SendFails(c)
             \/ TransmitPending(c) \/ Close(c) \/ SendDisconnect(c)
      PROVE  OwnHandshake(d)' \/ handshake'[d] = handshake[d]
  <2>1. CASE Initiate(c)
    BY <2>1 DEF Initiate, Share, OwnHandshake
  <2>2. CASE Send(c)
    BY <2>2 DEF Send, InitiateRekey, RekeyManager, OwnHandshake
  <2>3. CASE Close(c)
    BY <2>3 DEF Close, OwnHandshake
  <2>4. CASE InitiateFails(c) \/ SendFails(c) \/ TransmitPending(c) \/ SendDisconnect(c)
    BY <2>4 DEF InitiateFails, SendFails, TransmitPending, SendDisconnect
  <2> QED
    BY <1>2, <2>1, <2>2, <2>3, <2>4
<1>3. ASSUME NEW c \in Channels, NEW m \in wire,
             \/ RespondToHandshake(c, m) \/ RespondFails(c, m)
             \/ CompleteHandshake(c, m) \/ CompleteFails(c, m)
             \/ Receive(c, m) \/ ReceiveDisconnect(c, m)
             \/ HandleRekeyRequest(c, m) \/ ProcessRekeyResponse(c, m)
      PROVE  OwnHandshake(d)' \/ handshake'[d] = handshake[d]
  <2>1. CASE RespondToHandshake(c, m)
    BY <2>1 DEF RespondToHandshake, OwnHandshake
  <2>2. CASE CompleteHandshake(c, m)
    BY <2>2 DEF CompleteHandshake, OwnHandshake
  <2>3. CASE ReceiveDisconnect(c, m)
    BY <2>3 DEF ReceiveDisconnect, Close, OwnHandshake
  <2>4. CASE ProcessRekeyResponse(c, m)
    BY <2>4 DEF ProcessRekeyResponse, OwnHandshake
  <2>5. CASE RespondFails(c, m) \/ CompleteFails(c, m) \/ Receive(c, m)
    BY <2>5 DEF RespondFails, CompleteFails, Receive
  <2>6. CASE HandleRekeyRequest(c, m)
    BY <2>6 DEF HandleRekeyRequest
  <2> QED
    BY <1>3, <2>1, <2>2, <2>3, <2>4, <2>5, <2>6
<1>4. CASE Tick \/ UNCHANGED vars
  BY <1>1, <1>4 DEF Tick, vars
<1> QED
  BY <1>1, <1>2, <1>3, <1>4 DEF Next

\* A responder that gets keys answers a Hello of the agent it notes as remote.
LEMMA ResponderAgrees ==
  ASSUME ChannelInv, AgreementInv, NEW c \in Channels, NEW m \in wire,
         RespondToHandshake(c, m)
  PROVE  Agreed(c, InitiatorOf(keys[c]), ResponderOf(keys[c]))'
<1> USE DEF ChannelInv, TypeOK
<1> DEFINE own == Share(c, draws[c] + 1)
           i == m.share.ephemeral[1]
<1>1. m.type = "hello" /\ m.from # AgentOf[c] /\ m \in Hellos
  BY MessageTypes DEF RespondToHandshake, Arrives
<1>2. m.from = AgentOf[i] /\ i \in Channels
  BY <1>1 DEF AgreementInv, HelloMade, Hellos, Shares, KeyPairs
<1>3. keys'[c] = ResponderKeys(own, m.share, Psk[c], Suite[c]) /\ remote'[c] = m.from
  BY DEF RespondToHandshake
<1>4. InitiatorOf(keys'[c]) = i /\ ResponderOf(keys'[c]) = c
  BY <1>3 DEF ResponderKeys, DeriveTripleDH, InitiatorOf, ResponderOf, Share
<1>5. Agreed(c, i, c)'
  BY <1>1, <1>2, <1>3 DEF Agreed
<1> QED
  BY <1>4, <1>5

\* An initiator that gets keys took the Auth of the channel its keys name: they
\* are the ones the Auth was signed under, and the share it answers is its own.
LEMMA InitiatorAgrees ==
  ASSUME ChannelInv, AgreementInv, NEW c \in Channels, NEW m \in wire,
         CompleteHandshake(c, m)
  PROVE  Agreed(c, InitiatorOf(keys[c]), ResponderOf(keys[c]))'
<1> USE DEF ChannelInv, TypeOK
<1> DEFINE key == m.mac.key
<1>1. m.type = "auth" /\ m \in Auths /\ key \in Keys
  BY MessageTypes DEF CompleteHandshake, Arrives, Auths, Macs
<1>2. PICK i \in Channels, r \in Channels :
        i = InitiatorOf(key) /\ r = ResponderOf(key)
  BY <1>1, EndsAreChannels
<1>3. /\ AgentOf[i] # AgentOf[r]
      /\ m.from = AgentOf[r] /\ remote[r] = AgentOf[i]
      /\ key.base.psk = Psk[r] /\ key.base.suite = Suite[r]
      /\ \/ HasKeys(r) /\ keys[r].base = key.base
         \/ state[r] = "CLOSED"
  BY <1>1, <1>2 DEF AgreementInv, AuthMade
<1>4. key = KeysFromAuth(c, m)
  BY DEF CompleteHandshake, AuthAcceptable, Mac
<1>5. handshake[c].share.ephemeral[1] = c
  BY DEF CompleteHandshake, KeysMatchState, AgreementInv, OwnHandshake
<1>6. i = c /\ key.base.psk = Psk[c] /\ key.base.suite = Suite[c]
  BY <1>2, <1>4, <1>5 DEF KeysFromAuth, InitiatorKeys, DeriveTripleDH, InitiatorOf
<1>7. /\ keys' = [keys EXCEPT ![c] = key] /\ remote' = [remote EXCEPT ![c] = m.from]
      /\ state' = [state EXCEPT ![c] = "ESTABLISHED"]
  BY <1>4 DEF CompleteHandshake
<1> HIDE DEF key
<1>8. c # r /\ state'[r] = state[r] /\ keys'[r] = keys[r] /\ keys'[c] = key
  BY <1>3, <1>6, <1>7
<1>9. Agreed(c, c, r)'
  BY <1>1, <1>3, <1>6, <1>7, <1>8, NoneIsNoValue DEF Agreed, Paired, HasKeys
<1> QED
  BY <1>2, <1>6, <1>8, <1>9

\* Only these two actions give keys to a channel without.
LEMMA NewKeysAgreed ==
  ASSUME ChannelInv, AgreementInv, [Next]_vars, NEW d \in Channels,
         ~HasKeys(d), HasKeys(d)'
  PROVE  Agreed(d, InitiatorOf(keys[d]), ResponderOf(keys[d]))'
<1> USE DEF ChannelInv, TypeOK, KeysMatchState, HasKeys
<1>1. CASE \E m \in wire : RespondToHandshake(d, m)
  BY <1>1, ResponderAgrees
<1>2. CASE \E m \in wire : CompleteHandshake(d, m)
  BY <1>2, InitiatorAgrees
<1>3. ASSUME NEW c \in Channels,
             \/ Initiate(c) \/ InitiateFails(c) \/ Send(c) \/ SendFails(c)
             \/ TransmitPending(c) \/ Close(c) \/ SendDisconnect(c)
      PROVE  FALSE
  BY <1>3 DEF Initiate, InitiateFails, Send, SendFails, TransmitPending, Close,
              SendDisconnect
<1>4. ASSUME NEW c \in Channels, NEW m \in wire,
             \/ c # d /\ (RespondToHandshake(c, m) \/ CompleteHandshake(c, m))
             \/ RespondFails(c, m) \/ CompleteFails(c, m)
             \/ Receive(c, m) \/ ReceiveDisconnect(c, m)
      PROVE  FALSE
  BY <1>4 DEF RespondToHandshake, CompleteHandshake, RespondFails, CompleteFails,
              Receive, ReceiveDisconnect, Close
<1>5. ASSUME NEW c \in Channels, NEW m \in wire,
             HandleRekeyRequest(c, m) \/ ProcessRekeyResponse(c, m)
      PROVE  FALSE
  BY <1>5 DEF HandleRekeyRequest, ProcessRekeyResponse, ApplyNewKeys
<1>6. CASE Tick \/ UNCHANGED vars
  BY <1>6 DEF Tick, vars
<1> QED
  BY <1>1, <1>2, <1>3, <1>4, <1>5, <1>6 DEF Next

-----------------------------------------------------------------------------
\* Initially there are no messages and no keys; a step keeps the sessions that
\* exist, and adds messages, handshake states and keys as the lemmas say.
LEMMA AgreementInductive ==
  /\ Init => AgreementInv
  /\ ChannelInv /\ AgreementInv /\ [Next]_vars => AgreementInv'
<1>1. Init => AgreementInv
  BY DEF Init, AgreementInv, OwnHandshake, NoHandshake, HandshakeAgreement, HasKeys
<1>2. ASSUME ChannelInv, AgreementInv, [Next]_vars PROVE AgreementInv'
  <2>1. /\ \A m \in wire : AuthMade(m)'
        /\ \A c \in Channels : HasKeys(c) /\ HasKeys(c)' =>
             Agreed(c, InitiatorOf(keys[c]), ResponderOf(keys[c]))'
    BY <1>2, KeptSessions, StepKeepsSessions, ChannelInvStep
  <2>2. \A m \in wire' : HelloMade(m)' /\ AuthMade(m)'
    BY <1>2, <2>1, StepMakesMessages DEF AgreementInv, HelloMade
  <2>3. HandshakeAgreement'
    BY <1>2, <2>1, NewKeysAgreed DEF HandshakeAgreement
  <2> QED
    BY <1>2, <2>2, <2>3, StepOwnHandshake DEF AgreementInv
<1> QED
  BY <1>1, <1>2

\* An initiator with keys has the responder it believes it has, with the same
\* pre-shared key, suite and handshake keys: complete_handshake accepts no
\* other Auth, whatever the transport repeats, delays or misroutes.
THEOREM HandshakeAgrees == Spec => []HandshakeAgreement
<1>1. AgreementInv => HandshakeAgreement
  BY DEF AgreementInv
<1> QED
  BY <1>1, ChannelInvInit, ChannelInvStep, AgreementInductive, PTL DEF Spec

-----------------------------------------------------------------------------
(* Delivery *)

\* A channel that has not had keys yet.
Early(c) == state[c] \in {"IDLE", "HANDSHAKING"}

\* An encrypted message goes from one end of the handshake its keys come from
\* to the other, and its number is one the sender has reached.
EncryptedMade(m) ==
  m.type = "encrypted" =>
    LET i == InitiatorOf(m.key)
        r == ResponderOf(m.key)
    IN  \/ m.from = AgentOf[i] /\ m.to = AgentOf[r] /\ m.counter <= sendCounter[i]
        \/ m.from = AgentOf[r] /\ m.to = AgentOf[i] /\ m.counter <= sendCounter[r]

\* A channel has received nothing before it has keys, and nothing beyond its
\* counter.
ReceivedUpTo(c) ==
  /\ Early(c) => recvCounter[c] = 0 /\ delivered[c] = <<>>
  /\ \A n \in DOMAIN delivered[c] : delivered[c][n][2] <= recvCounter[c]

\* What DeliveredInOrderOnce says of the messages received, and of the counters.
InOrder(c) ==
  \A n \in DOMAIN delivered[c] :
    /\ delivered[c][n][1] = remote[c]
    /\ n > 1 => delivered[c][n - 1][2] < delivered[c][n][2]
NoneInvented(c) == HasKeys(c) => recvCounter[c] <= sendCounter[PeerOf(c)]

DeliveryInv ==
  /\ \A m \in wire : EncryptedMade(m)
  /\ \A c \in Channels : ReceivedUpTo(c) /\ InOrder(c) /\ NoneInvented(c)

-----------------------------------------------------------------------------
\* What a step may do to what a channel has sent and received.
LEMMA StepCounters ==
  ASSUME ChannelInv, [Next]_vars, NEW d \in Channels
  PROVE  /\ sendCounter'[d] >= sendCounter[d]
         /\ Early(d)' => Early(d)
         /\ Early(d) \/ remote'[d] = remote[d]
         /\ \/ recvCounter'[d] = recvCounter[d] /\ delivered'[d] = delivered[d]
            \/ \E m \in wire : Receive(d, m)
<1> USE DEF ChannelInv, TypeOK, KeysMatchState, Early
<1>1. ASSUME NEW c \in Channels,
             \/ Initiate(c) \/ InitiateFails(c) \/ Send(c) \/ SendFails(c)
             \/ TransmitPending(c) \/ Close(c) \/ SendDisconnect(c)
      PROVE  /\ sendCounter'[d] >= sendCounter[d]
             /\ Early(d)' => Early(d)
             /\ remote' = remote
             /\ recvCounter' = recvCounter /\ delivered' = delivered
  <2>1. CASE Initiate(c) \/ InitiateFails(c)
    BY <2>1 DEF Initiate, InitiateFails
  <2>2. CASE Send(c)
    BY <2>2 DEF Send, InitiateRekey
  <2>3. CASE SendFails(c) \/ TransmitPending(c) \/ Close(c) \/ SendDisconnect(c)
    BY <2>3 DEF SendFails, TransmitPending, Close, SendDisconnect
  <2> QED
    BY <1>1, <2>1, <2>2, <2>3
<1>2. ASSUME NEW c \in Channels, NEW m \in wire,
             \/ RespondToHandshake(c, m) \/ RespondFails(c, m)
             \/ CompleteHandshake(c, m) \/ CompleteFails(c, m)
             \/ ReceiveDisconnect(c, m)
             \/ HandleRekeyRequest(c, m) \/ ProcessRekeyResponse(c, m)
      PROVE  /\ sendCounter' = sendCounter
             /\ Early(d)' => Early(d)
             /\ Early(d) \/ remote'[d] = remote[d]
             /\ recvCounter' = recvCounter /\ delivered' = delivered
  <2>1. CASE RespondToHandshake(c, m) \/ RespondFails(c, m)
    BY <2>1 DEF RespondToHandshake, RespondFails
  <2>2. CASE CompleteHandshake(c, m) \/ CompleteFails(c, m)
    BY <2>2 DEF CompleteHandshake, CompleteFails
  <2>3. CASE ReceiveDisconnect(c, m)
    BY <2>3 DEF ReceiveDisconnect, Close
  <2>4. CASE HandleRekeyRequest(c, m) \/ ProcessRekeyResponse(c, m)
    BY <2>4 DEF HandleRekeyRequest, ProcessRekeyResponse
  <2> QED
    BY <1>2, <2>1, <2>2, <2>3, <2>4
<1>3. ASSUME NEW c \in Channels, NEW m \in wire, Receive(c, m)
      PROVE  /\ sendCounter' = sendCounter /\ state' = state /\ remote' = remote
             /\ c = d \/ (recvCounter'[d] = recvCounter[d] /\ delivered'[d] = delivered[d])
  BY <1>3 DEF Receive
<1>4. CASE Tick \/ UNCHANGED vars
  BY <1>4 DEF Tick, vars
<1>5. /\ sendCounter'[d] >= sendCounter[d]
      /\ Early(d)' => Early(d)
      /\ Early(d) \/ remote'[d] = remote[d]
  BY <1>1, <1>2, <1>3, <1>4 DEF Next
<1>6. \/ recvCounter'[d] = recvCounter[d] /\ delivered'[d] = delivered[d]
      \/ \E m \in wire : Receive(d, m)
  BY <1>1, <1>2, <1>3, <1>4 DEF Next
<1> QED
  BY <1>5, <1>6

\* A channel with keys is one end of its handshake, its peer is the other, and
\* its remote is the peer's agent.
LEMMA PeerIsOtherEnd ==
  ASSUME ChannelInv, AgreementInv, NEW c \in Channels, HasKeys(c)
  PROVE  /\ PeerOf(c) \in Channels
         /\ remote[c] = AgentOf[PeerOf(c)] /\ AgentOf[c] # AgentOf[PeerOf(c)]
         /\ \/ c = InitiatorOf(keys[c]) /\ PeerOf(c) = ResponderOf(keys[c])
            \/ c = ResponderOf(keys[c]) /\ PeerOf(c) = InitiatorOf(keys[c])
<1>1. PICK i \in Channels, r \in Channels :
        i = InitiatorOf(keys[c]) /\ r = ResponderOf(keys[c])
  BY EndsAreChannels DEF ChannelInv, TypeOK, HasKeys
<1>2. Agreed(c, i, r)
  BY <1>1 DEF AgreementInv, HandshakeAgreement
<1> QED
  BY <1>1, <1>2 DEF Agreed, PeerOf

\* Every encrypted message is made as the invariant says, and stays so, because
\* send counters only grow.
LEMMA StepMakesEncrypted ==
  ASSUME ChannelInv, AgreementInv, DeliveryInv, [Next]_vars, NEW m \in wire'
  PROVE  EncryptedMade(m)'
<1> USE DEF ChannelInv, TypeOK
<1>0. m \in Messages
  BY ChannelInvStep
<1>1. CASE m \in wire
  <2>1. CASE m.type = "encrypted"
    <3>1. m \in Encrypteds
      BY <1>0, <2>1, MessageTypes
    <3>2. PICK i \in Channels, r \in Channels :
            i = InitiatorOf(m.key) /\ r = ResponderOf(m.key)
      BY <3>1, EndsAreChannels DEF Encrypteds
    <3>3. /\ sendCounter'[i] >= sendCounter[i] /\ sendCounter'[r] >= sendCounter[r]
          /\ sendCounter[i] \in Nat /\ sendCounter'[i] \in Nat
          /\ sendCounter[r] \in Nat /\ sendCounter'[r] \in Nat /\ m.counter \in Nat
      BY <3>1, StepCounters, ChannelInvStep DEF Encrypteds
    <3>4. EncryptedMade(m)
      BY <1>1 DEF DeliveryInv
    <3> QED
      BY <2>1, <3>2, <3>3, <3>4 DEF EncryptedMade
  <2> QED
    BY <2>1 DEF EncryptedMade
<1>2. CASE m \notin wire /\ m.type = "encrypted"
  <2>1. PICK c \in Channels : Send(c)
    <3>1. ASSUME NEW c \in Channels, NEW h \in wire,
                 \/ RespondToHandshake(c, h) \/ HandleRekeyRequest(c, h)
          PROVE  FALSE
      BY <1>2, <3>1
      DEF RespondToHandshake, HandleRekeyRequest, RekeyResponse, Transmit,
          AuthMsg, RekeyMsg
    <3>2. ASSUME NEW c \in Channels, NEW h \in wire,
                 \/ RespondFails(c, h) \/ CompleteHandshake(c, h)
                 \/ CompleteFails(c, h) \/ Receive(c, h)
                 \/ ReceiveDisconnect(c, h) \/ ProcessRekeyResponse(c, h)
          PROVE  FALSE
      BY <1>2, <3>2
      DEF RespondFails, CompleteHandshake, CompleteFails, Receive,
          ReceiveDisconnect, Close, ProcessRekeyResponse
    <3>3. ASSUME NEW c \in Channels,
                 Initiate(c) \/ TransmitPending(c) \/ SendDisconnect(c)
          PROVE  FALSE
      BY <1>2, <3>3
      DEF Initiate, TransmitPending, SendDisconnect, Transmit, HelloMsg,
          DisconnectMsg, RekeyRequests
    <3>4. ASSUME NEW c \in Channels, InitiateFails(c) \/ SendFails(c) \/ Close(c)
          PROVE  FALSE
      BY <1>2, <3>4 DEF InitiateFails, SendFails, Close
    <3>5. ~(Tick \/ UNCHANGED vars)
      BY <1>2 DEF Tick, vars
    <3> QED
      BY <3>1, <3>2, <3>3, <3>4, <3>5 DEF Next
  <2>2. m = EncryptedMsg(c, remote[c], keys[c], sendCounter[c] + 1) /\ HasKeys(c)
    BY <1>2, <2>1 DEF Send, Transmit, KeysMatchState
  <2>3. /\ m.key = keys[c] /\ m.from = AgentOf[c] /\ m.to = AgentOf[PeerOf(c)]
        /\ m.counter = sendCounter'[c]
    BY <2>1, <2>2, PeerIsOtherEnd DEF EncryptedMsg, Send
  <2>4. m.counter <= sendCounter'[c]
    BY <2>3, ChannelInvStep
  <2> QED
    BY <2>2, <2>3, <2>4, PeerIsOtherEnd DEF EncryptedMade
<1> QED
  BY <1>1, <1>2 DEF EncryptedMade

\* A message that receive() accepts was sent by the peer channel, is newer than
\* everything received before, and counts no further than the peer has sent.
LEMMA ReceiveKeepsOrder ==
  ASSUME ChannelInv, AgreementInv, DeliveryInv,
         NEW c \in Channels, NEW m \in wire, Receive(c, m)
  PROVE  ReceivedUpTo(c)' /\ InOrder(c)' /\ NoneInvented(c)'
<1> USE DEF ChannelInv, TypeOK
<1>1. m.type = "encrypted" /\ m \in Encrypteds /\ m.to = AgentOf[c] /\ m.key = keys[c]
  BY MessageTypes DEF Receive, Arrives, Accepts, Opens
<1>2. HasKeys(c) /\ ~Early(c)
  BY DEF Receive, KeysMatchState, Early
<1>3. PICK p \in Channels : p = PeerOf(c)
  BY <1>2, PeerIsOtherEnd
<1>4. m.from = AgentOf[p] /\ m.counter <= sendCounter[p]
  <2>1. EncryptedMade(m)
    BY DEF DeliveryInv
  <2> QED
    BY <1>1, <1>2, <1>3, <2>1, PeerIsOtherEnd DEF EncryptedMade
<1>5. /\ recvCounter'[c] = m.counter /\ m.counter > recvCounter[c]
      /\ delivered'[c] = Append(delivered[c], <<m.from, m.counter>>)
      /\ UNCHANGED <<state, remote, keys, sendCounter>>
  BY DEF Receive, Accepts, Opens
<1>6. /\ delivered[c] \in Seq(Agents \X Nat) /\ <<m.from, m.counter>> \in Agents \X Nat
      /\ m.counter \in Nat /\ recvCounter[c] \in Nat /\ sendCounter[p] \in Nat
  BY <1>1 DEF Encrypteds
<1>7. ReceivedUpTo(c) /\ InOrder(c)
  BY DEF DeliveryInv
<1>8. remote[c] = m.from
  BY <1>2, <1>3, <1>4, PeerIsOtherEnd
<1> DEFINE old == delivered[c]
           new == Append(old, <<m.from, m.counter>>)
<1>9. PICK k \in Nat :
        /\ k = Len(old) /\ DOMAIN old = 1 .. k /\ DOMAIN new = 1 .. (k + 1)
        /\ \A n \in 1 .. k : new[n] = old[n] /\ old[n] \in Agents \X Nat
        /\ new[k + 1] = <<m.from, m.counter>>
  <2>1. Len(old) \in Nat /\ DOMAIN old = 1 .. Len(old)
    BY <1>6
  <2>2. DOMAIN new = 1 .. (Len(old) + 1)
    BY <1>6
  <2>3. \A n \in 1 .. Len(old) : new[n] = old[n] /\ old[n] \in Agents \X Nat
    BY <1>6
  <2>4. new[Len(old) + 1] = <<m.from, m.counter>>
    BY <1>6
  <2> QED
    BY <2>1, <2>2, <2>3, <2>4
<1>10. delivered'[c] = new
  BY <1>5
<1> HIDE DEF old, new
<1>11. \A n \in 1 .. k :
         /\ old[n][2] <= recvCounter[c] /\ old[n][1] = remote[c]
         /\ n > 1 => old[n - 1][2] < old[n][2]
  BY <1>7, <1>9 DEF ReceivedUpTo, InOrder, old
<1>12. ASSUME NEW n \in 1 .. k PROVE new[n][2] < m.counter
  <2>1. old[n] \in Agents \X Nat /\ new[n] = old[n]
    BY <1>9
  <2>2. old[n][2] \in Nat
    BY <2>1
  <2>3. old[n][2] <= recvCounter[c]
    BY <1>11
  <2>4. recvCounter[c] < m.counter
    BY <1>5, <1>6
  <2>5. old[n][2] < m.counter
    BY <1>6, <2>2, <2>3, <2>4
  <2> QED
    BY <2>1, <2>5
<1>13. \A n \in 1 .. (k + 1) : n \in 1 .. k \/ n = k + 1
  OBVIOUS
<1>14. ReceivedUpTo(c)'
  <2>1. \A n \in 1 .. (k + 1) : new[n][2] <= m.counter
    <3>1. new[k + 1][2] <= m.counter
      BY <1>6, <1>9
    <3>2. \A n \in 1 .. k : new[n][2] <= m.counter
      <4>1. \A n \in 1 .. k : new[n][2] \in Nat
        BY <1>9
      <4> QED
        BY <1>6, <1>12, <4>1
    <3> QED
      BY <1>13, <3>1, <3>2
  <2> QED
    BY <1>2, <1>5, <1>9, <1>10, <2>1 DEF ReceivedUpTo, Early
<1>15. InOrder(c)'
  <2>1. \A n \in 1 .. (k + 1) : new[n][1] = remote[c]
    <3>1. \A n \in 1 .. k : new[n][1] = remote[c]
      BY <1>9, <1>11
    <3>2. new[k + 1][1] = remote[c]
      BY <1>8, <1>9
    <3> QED
      BY <1>13, <3>1, <3>2
  <2>2. ASSUME NEW n \in 1 .. k, n > 1 PROVE new[n - 1][2] < new[n][2]
    <3>1. n - 1 \in 1 .. k
      BY <2>2
    <3>2. new[n - 1] = old[n - 1] /\ new[n] = old[n]
      BY <1>9, <3>1
    <3> QED
      BY <1>11, <2>2, <3>2
  <2>3. k + 1 > 1 => new[(k + 1) - 1][2] < new[k + 1][2]
    <3>1. (k + 1) - 1 = k /\ (k + 1 > 1 => k \in 1 .. k)
      OBVIOUS
    <3>2. new[k + 1][2] = m.counter
      BY <1>9
    <3> QED
      BY <1>12, <3>1, <3>2
  <2>4. \A n \in 1 .. (k + 1) : n > 1 => new[n - 1][2] < new[n][2]
    BY <1>13, <2>2, <2>3
  <2>5. DOMAIN delivered'[c] = 1 .. (k + 1) /\ remote'[c] = remote[c]
    BY <1>5, <1>9, <1>10
  <2> QED
    BY <1>10, <2>1, <2>4, <2>5 DEF InOrder
<1>16. NoneInvented(c)'
  BY <1>3, <1>4, <1>5 DEF NoneInvented, PeerOf, HasKeys
<1> QED
  BY <1>14, <1>15, <1>16

\* A step that does not receive leaves what was received; the peer's counter
\* may grow, and a channel that gets keys has received nothing yet.
LEMMA OtherStepKeepsOrder ==
  ASSUME ChannelInv, AgreementInv, DeliveryInv, [Next]_vars, NEW c \in Channels,
         recvCounter'[c] = recvCounter[c], delivered'[c] = delivered[c]
  PROVE  ReceivedUpTo(c)' /\ InOrder(c)' /\ NoneInvented(c)'
<1>0. /\ ReceivedUpTo(c) /\ InOrder(c) /\ NoneInvented(c)
      /\ Early(c)' => Early(c)
      /\ Early(c) \/ remote'[c] = remote[c]
  BY StepCounters DEF DeliveryInv
<1>1. ReceivedUpTo(c)'
  BY <1>0 DEF ReceivedUpTo
<1>2. InOrder(c)'
  BY <1>0 DEF InOrder, ReceivedUpTo
<1>3. ASSUME HasKeys(c)' PROVE recvCounter'[c] <= (sendCounter[PeerOf(c)])'
  <2>1. ChannelInv' /\ AgreementInv' /\ SessionKept(c) /\ Stays(c)
    BY ChannelInvStep, AgreementInductive, StepKeepsSessions, TerminalStep
  <2>2. CASE HasKeys(c)
    <3>1. keys'[c].base = keys[c].base
      BY <1>3, <2>1, <2>2 DEF SessionKept, ChannelInv, KeysMatchState
    <3>2. PICK p \in Channels : p = PeerOf(c)
      BY <2>2, PeerIsOtherEnd
    <3>3. p = PeerOf(c)'
      BY <3>1, <3>2 DEF PeerOf, InitiatorOf, ResponderOf
    <3>4. /\ recvCounter[c] <= sendCounter[p] /\ sendCounter'[p] >= sendCounter[p]
          /\ recvCounter[c] \in Nat /\ sendCounter[p] \in Nat /\ sendCounter'[p] \in Nat
      BY <1>0, <2>1, <2>2, <3>2, StepCounters DEF NoneInvented, ChannelInv, TypeOK
    <3>5. recvCounter'[c] <= sendCounter'[p]
      BY <3>4
    <3> QED
      BY <3>3, <3>5
  <2>3. CASE ~HasKeys(c)
    <3>1. recvCounter'[c] = 0
      BY <1>0, <1>3, <2>1, <2>3
      DEF Stays, HasKeys, ReceivedUpTo, Early, ChannelInv, TypeOK, States, KeysMatchState
    <3>2. PICK i \in Channels, r \in Channels :
            i = InitiatorOf(keys'[c]) /\ r = ResponderOf(keys'[c])
      BY <1>3, <2>1, EndsAreChannels DEF ChannelInv, TypeOK, HasKeys
    <3>3. PeerOf(c)' = i \/ PeerOf(c)' = r
      BY <3>2 DEF PeerOf
    <3>4. sendCounter'[i] >= 0 /\ sendCounter'[r] >= 0
      BY <2>1 DEF ChannelInv, TypeOK
    <3> QED
      BY <3>1, <3>3, <3>4
  <2> QED
    BY <2>2, <2>3
<1> QED
  BY <1>1, <1>2, <1>3 DEF NoneInvented

-----------------------------------------------------------------------------
\* Nothing is sent or received initially, and every step keeps the invariant.
LEMMA DeliveryInductive ==
  /\ Init => DeliveryInv
  /\ ChannelInv /\ AgreementInv /\ DeliveryInv /\ [Next]_vars => DeliveryInv'
<1>1. Init => DeliveryInv
  BY DEF Init, DeliveryInv, ReceivedUpTo, InOrder, NoneInvented, HasKeys
<1>2. ASSUME ChannelInv, AgreementInv, DeliveryInv, [Next]_vars PROVE DeliveryInv'
  <2>1. \A m \in wire' : EncryptedMade(m)'
    BY <1>2, StepMakesEncrypted
  <2>2. \A c \in Channels : ReceivedUpTo(c)' /\ InOrder(c)' /\ NoneInvented(c)'
    BY <1>2, StepCounters, ReceiveKeepsOrder, OtherStepKeepsOrder
  <2> QED
    BY <2>1, <2>2 DEF DeliveryInv
<1> QED
  BY <1>1, <1>2

\* Each message that receive() returns was sent by the remote agent, once and in
\* sending order, across rekeys of either end and over any transport.
THEOREM DeliversInOrderOnce == Spec => []DeliveredInOrderOnce
<1>1. DeliveryInv => DeliveredInOrderOnce
  BY DEF DeliveryInv, InOrder, NoneInvented, DeliveredInOrderOnce
<1> QED
  BY <1>1, ChannelInvInit, ChannelInvStep, AgreementInductive, DeliveryInductive,
     PTL DEF Spec
=============================================================================
