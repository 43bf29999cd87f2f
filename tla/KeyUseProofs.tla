---------------------------- MODULE KeyUseProofs ----------------------------
(***************************************************************************)
(* How long keys are in use, for any number of channels, any thresholds,   *)
(* and rekeys of both ends that cross, repeat or come late.  A change of   *)
(* keys always mixes in one ephemeral key pair of the channel's own that   *)
(* no earlier keys of it had last: by that stamp, keys it has left can be  *)
(* told from all it will have.                                             *)
(***************************************************************************)
EXTENDS EncryptedChannelProofs, FiniteSetTheorems, FunctionTheorems

\* The nonces that were mixed into a key triple last.
LastNonces(key) ==
  IF key.chain = <<>> THEN key.base.nonces ELSE key.chain[Len(key.chain)].nonces

\* The number of the key pair of c among them.
Stamp(c, key) ==
  IF LastNonces(key)[1][1] = c THEN LastNonces(key)[1][2] ELSE LastNonces(key)[2][2]

\* The number of the key pair that c has sent and waits for an answer to, or 0.
Awaited(c) ==
  CASE handshake[c].role = "initiator" -> handshake[c].share.ephemeral[2]
    [] handshake[c].role = "rekey" -> handshake[c].ephemeral[2]
    [] OTHER -> 0

\* Keys c has held, does not hold, and will not hold again.
Spent(c, key) ==
  /\ Stamp(c, key) \in 1 .. draws[c]
  /\ Stamp(c, key) # Awaited(c)
  /\ HasKeys(c) => Stamp(c, keys[c]) # Stamp(c, key)

\* A channel waits with a key pair it has drawn, and its keys have another one.
OwnEphemeral(c) ==
  /\ handshake[c].role = "rekey" => handshake[c].ephemeral[1] = c
  /\ handshake[c].role \in {"initiator", "rekey"} => Awaited(c) # 0
FreshKeys(c) ==
  /\ Awaited(c) \in 0 .. draws[c]
  /\ HasKeys(c) => /\ Stamp(c, keys[c]) \in 1 .. draws[c]
                   /\ Stamp(c, keys[c]) # Awaited(c)

\* A rekey message carries a key pair of its sender, and goes to another agent.
SentToOther(m) ==
  m.type \in {"rekey_request", "rekey_response"} =>
    m.from = AgentOf[m.ephemeral[1]] /\ m.from # m.to

FreshInv ==
  /\ \A m \in wire : SentToOther(m)
  /\ \A c \in Channels : /\ OwnEphemeral(c) /\ FreshKeys(c)
                         /\ pending[c] # NoRequest => SentToOther(pending[c])

\* What a step may do to the keys of a channel and to what it waits for:
\* nothing; forget both; draw a key pair to wait with; draw one and have keys
\* with it; have keys with the one it waited with.
KeyStep(c) ==
  \/ /\ keys'[c] = keys[c] /\ Awaited(c)' = Awaited(c)
     /\ draws'[c] = draws[c]
  \/ keys'[c] = NoKeys /\ Awaited(c)' = 0 /\ draws'[c] = draws[c]
  \/ /\ keys'[c] = keys[c] /\ Awaited(c)' = draws[c] + 1
     /\ draws'[c] = draws[c] + 1
  \/ /\ keys'[c] # NoKeys /\ Stamp(c, keys'[c]) = draws[c] + 1
     /\ Awaited(c)' \in {0, Awaited(c)} /\ draws'[c] = draws[c] + 1
  \/ /\ keys'[c] # NoKeys /\ Stamp(c, keys'[c]) = Awaited(c) /\ Awaited(c) # 0
     /\ Awaited(c)' = 0 /\ draws'[c] = draws[c]

-----------------------------------------------------------------------------
(* Stamps *)

\* Keys of a rekey end with its two nonces.
LEMMA LastOfRekey ==
  ASSUME NEW old \in Keys, NEW x \in KeyPairs, NEW y \in KeyPairs,
         NEW i \in KeyPairs, NEW r \in KeyPairs, NEW s \in Suites
  PROVE  LastNonces(RekeyKeys(old, DH(x, y), i, r, s)) = <<i, r>>
<1> DEFINE Step == [shared : Secrets, nonces : KeyPairs \X KeyPairs, suite : Suites]
           new == [shared |-> DH(x, y), nonces |-> <<i, r>>, suite |-> s]
           chain == Append(old.chain, new)
<1>1. old.chain \in Seq(Step) /\ new \in Step
  BY DEF Keys, DH, Secrets
<1>2. chain # <<>> /\ chain[Len(chain)] = new
  BY <1>1
<1>3. RekeyKeys(old, DH(x, y), i, r, s).chain = chain
  BY DEF RekeyKeys
<1> QED
  BY <1>2, <1>3 DEF LastNonces

\* The new keys of a handshake end with its nonces, the initiator's first.
LEMMA LastOfHandshake ==
  ASSUME NEW own, NEW peer, NEW p, NEW s
  PROVE  /\ LastNonces(InitiatorKeys(own, peer, p, s)) = <<own.ephemeral, peer.ephemeral>>
         /\ LastNonces(ResponderKeys(own, peer, p, s)) = <<peer.ephemeral, own.ephemeral>>
BY DEF LastNonces, InitiatorKeys, ResponderKeys, DeriveTripleDH

-----------------------------------------------------------------------------
(* The steps *)

\* A channel that a step leaves alone is left with its keys.
LEMMA Untouched ==
  ASSUME NEW d \in Channels, OwnEphemeral(d),
         keys'[d] = keys[d], handshake'[d] = handshake[d], draws'[d] = draws[d]
  PROVE  KeyStep(d) /\ OwnEphemeral(d)'
BY DEF KeyStep, OwnEphemeral, Awaited

\* Drawing a key pair to wait with: initiate, and a rekey that begins.
LEMMA DrawToWait ==
  ASSUME ChannelInv, NEW c \in Channels,
         keys'[c] = keys[c], draws' = [draws EXCEPT ![c] = @ + 1],
         \/ handshake'[c] = [role |-> "initiator", share |-> Share(c, draws[c] + 1)]
         \/ handshake'[c] = RekeyManager(keys[c], NextEphemeral(c), 1)
  PROVE  KeyStep(c) /\ OwnEphemeral(c)'
<1>1. draws[c] \in Nat /\ draws'[c] = draws[c] + 1
  BY DEF ChannelInv, TypeOK
<1>2. Awaited(c)' = draws[c] + 1
  BY DEF Awaited, Share, RekeyManager, NextEphemeral
<1>3. handshake'[c].role = "rekey" => handshake'[c].ephemeral[1] = c
  BY DEF RekeyManager, NextEphemeral
<1> QED
  BY <1>1, <1>2, <1>3 DEF KeyStep, OwnEphemeral

\* Each method that gives keys to a channel draws a key pair for them, or takes
\* the one the channel waited with; the nonce of the peer is never its own.  The
\* responder's keys end with the key pair it draws.
LEMMA RespondDraws ==
  ASSUME ChannelInv, AgreementInv, FreshInv, NEW c \in Channels, NEW m \in wire,
         RespondToHandshake(c, m)
  PROVE  KeyStep(c) /\ OwnEphemeral(c)'
<1> USE DEF ChannelInv, TypeOK
<1> DEFINE own == Share(c, draws[c] + 1)
           new == ResponderKeys(own, m.share, Psk[c], Suite[c])
<1>1. m \in Hellos /\ m.from # AgentOf[c] /\ m.from = AgentOf[m.share.ephemeral[1]]
  BY MessageTypes DEF RespondToHandshake, Arrives, AgreementInv, HelloMade
<1>2. LastNonces(new) = <<m.share.ephemeral, own.ephemeral>>
  BY LastOfHandshake
<1>3. Stamp(c, new) = draws[c] + 1
  BY <1>1, <1>2 DEF Stamp, Share
<1>4. new \in Keys
  <2>1. own \in Shares
    BY ShareType
  <2> HIDE DEF own
  <2> QED
    BY <1>1, <2>1, HandshakeKeysType, ConstantsOK DEF Hellos
<1>5. /\ keys'[c] = new /\ draws'[c] = draws[c] + 1
      /\ handshake'[c].role = "responder"
  BY DEF RespondToHandshake
<1> HIDE DEF new
<1>6. Awaited(c)' = 0
  BY <1>5 DEF Awaited
<1> QED
  BY <1>3, <1>4, <1>5, <1>6, NoneIsNoValue DEF KeyStep, OwnEphemeral

\* The initiator's keys end with the key pair of its Hello.
LEMMA CompleteTakesAwaited ==
  ASSUME ChannelInv, AgreementInv, FreshInv, NEW c \in Channels, NEW m \in wire,
         CompleteHandshake(c, m)
  PROVE  KeyStep(c) /\ OwnEphemeral(c)'
<1> USE DEF ChannelInv, TypeOK
<1> DEFINE own == handshake[c].share
           new == InitiatorKeys(own, m.share, Psk[c], Suite[c])
<1>1. handshake[c].role = "initiator" /\ own.ephemeral[1] = c
  BY DEF CompleteHandshake, KeysMatchState, AgreementInv, OwnHandshake
<1>2. LastNonces(new) = <<own.ephemeral, m.share.ephemeral>>
  BY LastOfHandshake
<1>3. Stamp(c, new) = Awaited(c)
  BY <1>1, <1>2 DEF Stamp, Awaited
<1>4. m \in Auths /\ own \in Shares
  BY <1>1, MessageTypes, HandshakeTypes DEF CompleteHandshake, Arrives
<1>5. new \in Keys
  BY <1>4, HandshakeKeysType, ConstantsOK DEF Auths
<1>6. /\ keys'[c] = new /\ draws'[c] = draws[c]
      /\ handshake'[c] = NoHandshake
  BY DEF CompleteHandshake, KeysFromAuth
<1>7. Awaited(c) # 0
  BY <1>1 DEF FreshInv, OwnEphemeral
<1> HIDE DEF new
<1>8. Awaited(c)' = 0
  BY <1>6 DEF Awaited, NoHandshake
<1> QED
  BY <1>3, <1>5, <1>6, <1>7, <1>8, NoneIsNoValue DEF KeyStep, OwnEphemeral, NoHandshake

\* An answer to a request ends with the key pair it draws.
LEMMA AnswerDraws ==
  ASSUME ChannelInv, AgreementInv, FreshInv, NEW c \in Channels, NEW m \in wire,
         HandleRekeyRequest(c, m)
  PROVE  KeyStep(c) /\ OwnEphemeral(c)' /\ Stamp(c, keys'[c]) = draws[c] + 1
<1> USE DEF ChannelInv, TypeOK
<1> DEFINE new == RequestKeys(c, m, Suite[c])
<1>1. m \in RekeyRequests /\ m.type = "rekey_request" /\ m.to = AgentOf[c]
  BY MessageTypes DEF HandleRekeyRequest, Arrives
<1>2. m.ephemeral[1] # c
  BY <1>1 DEF FreshInv, SentToOther
<1>3. keys[c] \in Keys /\ Suite[c] \in Suites /\ m.ephemeral \in KeyPairs
  BY <1>1, ConstantsOK DEF HandleRekeyRequest, RekeyRequests
<1>4. LastNonces(new) = <<m.ephemeral, NextEphemeral(c)>> /\ new \in Keys
  BY <1>3, LastOfRekey, RekeyKeysType, NextEphemeralType DEF RequestKeys
<1>5. /\ keys'[c] = new /\ draws'[c] = draws[c] + 1
      /\ handshake' = handshake
  BY DEF HandleRekeyRequest, ApplyNewKeys
<1> HIDE DEF new
<1>6. Stamp(c, new) = draws[c] + 1
  BY <1>2, <1>4 DEF Stamp, NextEphemeral
<1>7. Awaited(c)' = Awaited(c) /\ OwnEphemeral(c)
  BY <1>5 DEF Awaited, FreshInv
<1> QED
  BY <1>4, <1>5, <1>6, <1>7, NoneIsNoValue DEF KeyStep, OwnEphemeral

\* The keys of a response end with the key pair of the request it answers.
LEMMA AdoptTakesAwaited ==
  ASSUME ChannelInv, AgreementInv, FreshInv, NEW c \in Channels, NEW m \in wire,
         ProcessRekeyResponse(c, m)
  PROVE  KeyStep(c) /\ OwnEphemeral(c)' /\ Stamp(c, keys'[c]) = Awaited(c)
<1> USE DEF ChannelInv, TypeOK
<1> DEFINE new == ResponseKeys(c, m)
<1>1. m \in RekeyResponses /\ handshake[c].role = "rekey"
  BY MessageTypes DEF ProcessRekeyResponse, Arrives
<1>2. handshake[c].ephemeral[1] = c /\ Awaited(c) # 0
  BY <1>1 DEF FreshInv, OwnEphemeral
<1>3. /\ handshake[c].old \in Keys /\ handshake[c].ephemeral \in KeyPairs
      /\ Suite[c] \in Suites /\ m.ephemeral \in KeyPairs
  BY <1>1, HandshakeTypes, ConstantsOK DEF RekeyResponses
<1>4. LastNonces(new) = <<handshake[c].ephemeral, m.ephemeral>> /\ new \in Keys
  BY <1>3, LastOfRekey, RekeyKeysType DEF ResponseKeys
<1>5. /\ keys'[c] = new /\ draws'[c] = draws[c]
      /\ handshake'[c] = NoHandshake
  BY DEF ProcessRekeyResponse, ApplyNewKeys
<1> HIDE DEF new
<1>6. Stamp(c, new) = Awaited(c)
  BY <1>1, <1>2, <1>4 DEF Stamp, Awaited
<1>7. Awaited(c)' = 0
  BY <1>5 DEF Awaited, NoHandshake
<1> QED
  BY <1>2, <1>4, <1>5, <1>6, <1>7, NoneIsNoValue DEF KeyStep, OwnEphemeral, NoHandshake

\* So every step treats the keys of every channel in one of the five ways.
LEMMA StepKeys ==
  ASSUME ChannelInv, AgreementInv, FreshInv, [Next]_vars, NEW d \in Channels
  PROVE  KeyStep(d) /\ OwnEphemeral(d)'
<1>0. OwnEphemeral(d)
  BY DEF FreshInv
<1>1. ASSUME NEW c \in Channels,
             \/ Initiate(c) \/ InitiateFails(c) \/ Send(c) \/ SendFails(c)
             \/ TransmitPending(c) \/ Close(c) \/ SendDisconnect(c)
      PROVE  KeyStep(d) /\ OwnEphemeral(d)'
  <2> USE DEF ChannelInv, TypeOK
  <2>1. CASE Initiate(c)
    BY <1>0, <2>1, Untouched, DrawToWait DEF Initiate
  <2>2. CASE Send(c) /\ RekeyDue(c)
    <3>1. /\ handshake' = [handshake EXCEPT ![c] =
                             RekeyManager(keys[c], NextEphemeral(c), 1)]
          /\ draws' = [draws EXCEPT ![c] = @ + 1] /\ keys' = keys
      BY <2>2 DEF Send, InitiateRekey
    <3>2. CASE c = d
      BY <3>1, <3>2, DrawToWait
    <3>3. CASE c # d
      BY <1>0, <3>1, <3>3, Untouched
    <3> QED
      BY <3>2, <3>3
  <2>3. CASE Send(c) /\ ~RekeyDue(c)
    BY <1>0, <2>3, Untouched DEF Send
  <2>4. CASE Close(c)
    <3>1. CASE c = d
      BY <2>4, <3>1 DEF Close, NoHandshake, KeyStep, OwnEphemeral, Awaited
    <3>2. CASE c # d
      BY <1>0, <2>4, <3>2, Untouched DEF Close
    <3> QED
      BY <3>1, <3>2
  <2>5. CASE InitiateFails(c) \/ SendFails(c)
    BY <1>0, <2>5, Untouched DEF InitiateFails, SendFails
  <2>6. CASE TransmitPending(c) \/ SendDisconnect(c)
    BY <1>0, <2>6, Untouched DEF TransmitPending, SendDisconnect
  <2> QED
    BY <1>1, <2>1, <2>2, <2>3, <2>4, <2>5, <2>6
<1>2. ASSUME NEW c \in Channels, NEW m \in wire,
             \/ RespondToHandshake(c, m) \/ RespondFails(c, m)
             \/ CompleteHandshake(c, m) \/ CompleteFails(c, m)
             \/ Receive(c, m)
             \/ HandleRekeyRequest(c, m) \/ ProcessRekeyResponse(c, m)
      PROVE  KeyStep(d) /\ OwnEphemeral(d)'
  <2>1. CASE c # d
    <3> USE DEF ChannelInv, TypeOK
    <3>1. CASE RespondToHandshake(c, m) \/ RespondFails(c, m)
      BY <1>0, <2>1, <3>1, Untouched DEF RespondToHandshake, RespondFails
    <3>2. CASE CompleteHandshake(c, m) \/ CompleteFails(c, m)
      BY <1>0, <2>1, <3>2, Untouched DEF CompleteHandshake, CompleteFails
    <3>3. CASE Receive(c, m)
      BY <1>0, <3>3, Untouched DEF Receive
    <3>4. CASE HandleRekeyRequest(c, m) \/ ProcessRekeyResponse(c, m)
      BY <1>0, <2>1, <3>4, Untouched
      DEF HandleRekeyRequest, ProcessRekeyResponse, ApplyNewKeys
    <3> QED
      BY <1>2, <3>1, <3>2, <3>3, <3>4
  <2>2. CASE c = d
    <3>1. CASE RespondFails(c, m) \/ CompleteFails(c, m) \/ Receive(c, m)
      BY <1>0, <3>1, Untouched DEF RespondFails, CompleteFails, Receive
    <3> QED
      BY <1>2, <2>2, <3>1, RespondDraws, CompleteTakesAwaited, AnswerDraws,
         AdoptTakesAwaited
  <2> QED
    BY <2>1, <2>2
<1>3. ASSUME NEW c \in Channels, NEW m \in wire, ReceiveDisconnect(c, m)
      PROVE  KeyStep(d) /\ OwnEphemeral(d)'
  BY <1>1, <1>3 DEF ReceiveDisconnect
<1>4. CASE Tick \/ UNCHANGED vars
  BY <1>0, <1>4, Untouched DEF Tick, vars
<1> QED
  BY <1>1, <1>2, <1>3, <1>4 DEF Next

\* What the five ways have in common: spent keys stay spent, keys that are
\* replaced become spent, and the new ones are fresh.
LEMMA KeysMoveOn ==
  ASSUME NEW c \in Channels, draws[c] \in Nat, FreshKeys(c), KeyStep(c)
  PROVE  /\ FreshKeys(c)'
         /\ \A key : Spent(c, key) => Spent(c, key)'
         /\ \A key : HasKeys(c) /\ keys[c] = key /\ keys'[c] # key => Spent(c, key)'
<1> DEFINE S(key) == Stamp(c, key)
           w == Awaited(c)
           w1 == Awaited(c)'
           k == keys[c]
           k1 == keys'[c]
           n == draws[c]
           n1 == draws'[c]
<1>1. n \in Nat /\ w \in 0 .. n /\ (k # NoKeys => S(k) \in 1 .. n /\ S(k) # w)
  BY DEF FreshKeys, HasKeys
<1>2. \/ k1 = k /\ w1 = w /\ n1 = n
      \/ k1 = NoKeys /\ w1 = 0 /\ n1 = n
      \/ k1 = k /\ w1 = n + 1 /\ n1 = n + 1
      \/ k1 # NoKeys /\ S(k1) = n + 1 /\ w1 \in {0, w} /\ n1 = n + 1
      \/ k1 # NoKeys /\ S(k1) = w /\ w # 0 /\ w1 = 0 /\ n1 = n
  BY DEF KeyStep
<1>3. FreshKeys(c)' <=> w1 \in 0 .. n1 /\ (k1 # NoKeys => S(k1) \in 1 .. n1 /\ S(k1) # w1)
  BY DEF FreshKeys, HasKeys, Stamp
<1>4. \A key : /\ Spent(c, key) <=>
                    S(key) \in 1 .. n /\ S(key) # w /\ (k # NoKeys => S(k) # S(key))
               /\ Spent(c, key)' <=>
                    S(key) \in 1 .. n1 /\ S(key) # w1 /\ (k1 # NoKeys => S(k1) # S(key))
  BY DEF Spent, HasKeys, Stamp
<1> HIDE DEF S, w, w1, k, k1, n, n1
<1>5. FreshKeys(c)'
  BY <1>1, <1>2, <1>3
<1>6. \A key : Spent(c, key) => Spent(c, key)'
  BY <1>1, <1>2, <1>4
<1>7. \A key : k # NoKeys /\ k = key /\ k1 # key => Spent(c, key)'
  BY <1>1, <1>2, <1>4
<1> QED
  BY <1>5, <1>6, <1>7 DEF k, k1, HasKeys

\* A rekey message that a channel makes carries its own key pair, to its peer.
LEMMA MadeForOther ==
  ASSUME ChannelInv, AgreementInv, NEW c \in Channels, HasKeys(c),
         NEW step, NEW key, NEW n
  PROVE  SentToOther(RekeyMsg(step, c, key, NextEphemeral(c), n))
BY PeerIsOtherEnd DEF SentToOther, RekeyMsg, NextEphemeral

\* Requests come from a rekey that begins, and responses from an answer; a
\* pending request goes out as it is.
LEMMA StepSendsToOther ==
  ASSUME ChannelInv, AgreementInv, FreshInv, [Next]_vars
  PROVE  /\ \A m \in wire' : SentToOther(m)
         /\ \A d \in Channels : pending'[d] # NoRequest => SentToOther(pending'[d])
<1> USE DEF ChannelInv, TypeOK, FreshInv, Transmit
<1>1. ASSUME NEW c \in Channels,
             \/ Initiate(c) \/ InitiateFails(c) \/ Send(c) \/ SendFails(c)
             \/ TransmitPending(c) \/ Close(c) \/ SendDisconnect(c)
      PROVE  /\ \A m \in wire' : SentToOther(m)
             /\ \A d \in Channels : pending'[d] # NoRequest => SentToOther(pending'[d])
  <2>1. CASE Initiate(c)
    BY <2>1 DEF Initiate, HelloMsg, SentToOther
  <2>2. CASE Send(c)
    <3>1. \A m \in wire' : SentToOther(m)
      BY <2>2 DEF Send, EncryptedMsg, SentToOther
    <3>2. HasKeys(c)
      BY <2>2 DEF Send, KeysMatchState
    <3>3. \/ pending' = pending
          \/ pending' = [pending EXCEPT ![c] =
                           RekeyMsg("rekey_request", c, keys[c], NextEphemeral(c), 0)]
      BY <2>2 DEF Send, InitiateRekey
    <3>4. SentToOther(RekeyMsg("rekey_request", c, keys[c], NextEphemeral(c), 0))
      BY <3>2, MadeForOther
    <3> QED
      BY <3>1, <3>3, <3>4
  <2>3. CASE TransmitPending(c)
    BY <2>3 DEF TransmitPending
  <2>4. CASE SendDisconnect(c)
    BY <2>4 DEF SendDisconnect, DisconnectMsg, SentToOther
  <2>5. CASE InitiateFails(c) \/ SendFails(c) \/ Close(c)
    BY <2>5 DEF InitiateFails, SendFails, Close
  <2> QED
    BY <1>1, <2>1, <2>2, <2>3, <2>4, <2>5
<1>2. ASSUME NEW c \in Channels, NEW h \in wire,
             \/ RespondToHandshake(c, h) \/ RespondFails(c, h)
             \/ CompleteHandshake(c, h) \/ CompleteFails(c, h)
             \/ Receive(c, h) \/ ReceiveDisconnect(c, h)
             \/ HandleRekeyRequest(c, h) \/ ProcessRekeyResponse(c, h)
      PROVE  /\ \A m \in wire' : SentToOther(m)
             /\ \A d \in Channels : pending'[d] # NoRequest => SentToOther(pending'[d])
  <2>1. CASE RespondToHandshake(c, h)
    BY <2>1 DEF RespondToHandshake, AuthMsg, SentToOther
  <2>2. CASE HandleRekeyRequest(c, h)
    <3>1. HasKeys(c) /\ wire' = wire \cup {RekeyResponse(c, h)} /\ pending' = pending
      BY <2>2 DEF HandleRekeyRequest, HasKeys
    <3>2. SentToOther(RekeyResponse(c, h))
      BY <3>1, MadeForOther DEF RekeyResponse
    <3> QED
      BY <3>1, <3>2
  <2>3. CASE ProcessRekeyResponse(c, h)
    BY <2>3 DEF ProcessRekeyResponse
  <2>4. CASE RespondFails(c, h) \/ CompleteHandshake(c, h) \/ CompleteFails(c, h)
    BY <2>4 DEF RespondFails, CompleteHandshake, CompleteFails
  <2>5. CASE Receive(c, h) \/ ReceiveDisconnect(c, h)
    BY <2>5 DEF Receive, ReceiveDisconnect, Close
  <2> QED
    BY <1>2, <2>1, <2>2, <2>3, <2>4, <2>5
<1>3. CASE Tick \/ UNCHANGED vars
  BY <1>3 DEF Tick, vars
<1> QED
  BY <1>1, <1>2, <1>3 DEF Next

\* No keys, nothing drawn and nothing sent initially; the steps do the rest.
LEMMA FreshInductive ==
  /\ Init => FreshInv
  /\ ChannelInv /\ AgreementInv /\ FreshInv /\ [Next]_vars => FreshInv'
<1>1. Init => FreshInv
  BY DEF Init, FreshInv, OwnEphemeral, FreshKeys, Awaited, NoHandshake, HasKeys
<1>2. ASSUME ChannelInv, AgreementInv, FreshInv, [Next]_vars PROVE FreshInv'
  <2>1. ASSUME NEW c \in Channels PROVE FreshKeys(c)' /\ OwnEphemeral(c)'
    <3>1. draws[c] \in Nat /\ FreshKeys(c)
      BY <1>2 DEF ChannelInv, TypeOK, FreshInv
    <3> QED
      BY <1>2, <3>1, StepKeys, KeysMoveOn
  <2> QED
    BY <1>2, <2>1, StepSendsToOther DEF FreshInv, SentToOther
<1> QED
  BY <1>1, <1>2

\* Spent keys stay spent, and keys that a step replaces become spent.
LEMMA SpentForEver ==
  ASSUME ChannelInv, AgreementInv, FreshInv, [Next]_vars, NEW c \in Channels
  PROVE  \A key : (\/ Spent(c, key)
                   \/ HasKeys(c) /\ keys[c] = key /\ keys'[c] # key) => Spent(c, key)'
<1>1. draws[c] \in Nat /\ FreshKeys(c)
  BY DEF ChannelInv, TypeOK, FreshInv
<1> QED
  BY <1>1, StepKeys, KeysMoveOn

-----------------------------------------------------------------------------
(* Responses *)

\* What a response was signed with is spent: the answer replaced it.
ResponseInv ==
  /\ \A m \in wire : m.type = "rekey_response" => Spent(m.ephemeral[1], m.mac.key)
  /\ OneResponsePerKey

\* Only an answer to a request puts a response on the wire, and only the one.
LEMMA StepMakesResponse ==
  ASSUME ChannelInv, [Next]_vars, NEW m \in wire', m \notin wire,
         m.type = "rekey_response"
  PROVE  \E c \in Channels, h \in wire :
           HandleRekeyRequest(c, h) /\ m = RekeyResponse(c, h) /\ wire' = wire \cup {m}
<1> USE DEF ChannelInv, TypeOK, Transmit
<1>1. ASSUME NEW c \in Channels,
             \/ Initiate(c) \/ InitiateFails(c) \/ Send(c) \/ SendFails(c)
             \/ TransmitPending(c) \/ Close(c) \/ SendDisconnect(c)
      PROVE  FALSE
  <2>1. CASE Initiate(c) \/ SendDisconnect(c)
    BY <2>1 DEF Initiate, HelloMsg, SendDisconnect, DisconnectMsg
  <2>2. CASE Send(c)
    BY <2>2 DEF Send, EncryptedMsg
  <2>3. CASE TransmitPending(c)
    BY <2>3 DEF TransmitPending, RekeyRequests
  <2>4. CASE InitiateFails(c) \/ SendFails(c) \/ Close(c)
    BY <2>4 DEF InitiateFails, SendFails, Close
  <2> QED
    BY <1>1, <2>1, <2>2, <2>3, <2>4
<1>2. ASSUME NEW c \in Channels, NEW h \in wire,
             \/ RespondToHandshake(c, h) \/ RespondFails(c, h)
             \/ CompleteHandshake(c, h) \/ CompleteFails(c, h)
             \/ Receive(c, h) \/ ReceiveDisconnect(c, h)
             \/ ProcessRekeyResponse(c, h)
      PROVE  FALSE
  <2>1. CASE RespondToHandshake(c, h)
    BY <2>1 DEF RespondToHandshake, AuthMsg
  <2>2. CASE RespondFails(c, h) \/ CompleteHandshake(c, h) \/ CompleteFails(c, h)
    BY <2>2 DEF RespondFails, CompleteHandshake, CompleteFails
  <2>3. CASE Receive(c, h) \/ ReceiveDisconnect(c, h) \/ ProcessRekeyResponse(c, h)
    BY <2>3 DEF Receive, ReceiveDisconnect, Close, ProcessRekeyResponse
  <2> QED
    BY <1>2, <2>1, <2>2, <2>3
<1>3. ~(Tick \/ UNCHANGED vars)
  BY DEF Tick, vars
<1>4. PICK c \in Channels, h \in wire : HandleRekeyRequest(c, h)
  BY <1>1, <1>2, <1>3 DEF Next
<1>5. wire' = wire \cup {RekeyResponse(c, h)}
  BY <1>4 DEF HandleRekeyRequest
<1> QED
  BY <1>4, <1>5

\* An answer replaces the keys it is signed with.
LEMMA AnswerSpends ==
  ASSUME ChannelInv, AgreementInv, FreshInv, NEW c \in Channels, NEW m \in wire,
         HandleRekeyRequest(c, m)
  PROVE  \A key : key = keys[c] => Spent(c, key)'
<1>1. [Next]_vars
  BY DEF Next
<1>2. keys'[c] # keys[c]
  <2>1. Stamp(c, keys'[c]) = draws[c] + 1
    BY AnswerDraws
  <2>2. Stamp(c, keys[c]) \in 1 .. draws[c] /\ draws[c] \in Nat
    BY DEF HandleRekeyRequest, HasKeys, FreshInv, FreshKeys, ChannelInv, TypeOK
  <2> QED
    BY <2>1, <2>2
<1>3. HasKeys(c)
  BY DEF HandleRekeyRequest, HasKeys
<1> QED
  BY <1>1, <1>2, <1>3, SpentForEver

\* The key of a response is the one its signer had and left; older responses of
\* that signer were signed with keys it does not have, so with other ones.
LEMMA ResponseInductive ==
  /\ Init => ResponseInv
  /\ ChannelInv /\ AgreementInv /\ FreshInv /\ ResponseInv /\ [Next]_vars
       => ResponseInv'
<1>1. Init => ResponseInv
  BY DEF Init, ResponseInv, OneResponsePerKey
<1>2. ASSUME ChannelInv, AgreementInv, FreshInv, ResponseInv, [Next]_vars
      PROVE  ResponseInv'
  <2> DEFINE Response(m) == m.type = "rekey_response"
             Signer(m) == m.ephemeral[1]
             Key(m) == m.mac.key
  <2>1. \A m \in wire : Response(m) => Signer(m) \in Channels
    BY <1>2, MessageTypes DEF ChannelInv, TypeOK, RekeyResponses, KeyPairs
  <2>2. \A m \in wire : Response(m) => Spent(Signer(m), Key(m))'
    BY <1>2, <2>1, SpentForEver DEF ResponseInv
  <2>3. ASSUME NEW n \in wire', n \notin wire, Response(n)
        PROVE  /\ \A key : key = Key(n) => Spent(Signer(n), key)'
               /\ wire' = wire \cup {n}
               /\ \A m \in wire : ~(Response(m) /\ Signer(m) = Signer(n) /\ Key(m) = Key(n))
    <3>1. PICK c \in Channels, h \in wire :
            HandleRekeyRequest(c, h) /\ n = RekeyResponse(c, h) /\ wire' = wire \cup {n}
      BY <1>2, <2>3, StepMakesResponse
    <3>2. Signer(n) = c /\ Key(n) = keys[c]
      BY <3>1 DEF RekeyResponse, RekeyMsg, Mac, NextEphemeral
    <3>3. HasKeys(c)
      BY <3>1 DEF HandleRekeyRequest, HasKeys
    <3>4. ~Spent(c, keys[c])
      BY <3>3 DEF Spent
    <3>5. \A key : key = keys[c] => Spent(c, key)'
      BY <1>2, <3>1, AnswerSpends
    <3> QED
      BY <1>2, <3>1, <3>2, <3>4, <3>5 DEF ResponseInv
  <2>4. ASSUME NEW m \in wire', Response(m) PROVE Spent(Signer(m), Key(m))'
    BY <2>2, <2>3, <2>4
  <2>5. OneResponsePerKey'
    <3> SUFFICES ASSUME NEW m1 \in wire', NEW m2 \in wire',
                        Response(m1), Response(m2),
                        Signer(m1) = Signer(m2), m1.mac = m2.mac
                 PROVE  m1 = m2
      BY DEF OneResponsePerKey
    <3>1. CASE m1 \in wire /\ m2 \in wire
      BY <1>2, <3>1 DEF ResponseInv, OneResponsePerKey
    <3>2. CASE m1 \notin wire
      BY <2>3, <3>2
    <3>3. CASE m2 \notin wire
      BY <2>3, <3>3
    <3> QED
      BY <3>1, <3>2, <3>3
  <2> QED
    BY <2>4, <2>5 DEF ResponseInv
<1> QED
  BY <1>1, <1>2

\* No authentication key signs two responses, whatever requests come twice, late
\* or from both ends at once.
THEOREM RespondsOnce == Spec => []OneResponsePerKey
<1>1. ResponseInv => OneResponsePerKey
  BY DEF ResponseInv
<1> QED
  BY <1>1, ChannelInvInit, ChannelInvStep, AgreementInductive, FreshInductive,
     ResponseInductive, PTL DEF Spec

-----------------------------------------------------------------------------
(* Messages under one key *)

\* A message that channel c encrypted.
UsedBy(c, m) ==
  /\ m.type = "encrypted" /\ c \in {InitiatorOf(m.key), ResponderOf(m.key)}
  /\ m.from = AgentOf[c]

\* What was encrypted under a key counts at most up to the limit, or is the
\* message that began a rekey, after which no more is sent until the key is spent.
Within(c, m) == m.counter <= RekeyAfterMessages[c]
Last(c, m) == Spent(c, m.key) \/ (keys[c] = m.key /\ state[c] = "REKEYING")
Use(c, m) ==
  /\ m.counter \in 1 .. sendCounter[c]
  /\ Spent(c, m.key) \/ (HasKeys(c) /\ keys[c] = m.key)
  /\ Within(c, m) \/ Last(c, m)
UseInv ==
  /\ \A c \in Channels, m \in wire : UsedBy(c, m) => Use(c, m)
  /\ \A c \in Channels, m1, m2 \in wire :
       /\ UsedBy(c, m1) /\ UsedBy(c, m2) /\ m1.key = m2.key
       /\ m1.counter = m2.counter \/ ~(Within(c, m1) \/ Within(c, m2))
       => m1 = m2

\* Only send puts an encrypted message on the wire.
LEMMA StepMakesUse ==
  ASSUME ChannelInv, [Next]_vars, NEW m \in wire', m \notin wire,
         m.type = "encrypted"
  PROVE  \E c \in Channels :
           /\ Send(c) /\ wire' = wire \cup {m}
           /\ m = EncryptedMsg(c, remote[c], keys[c], sendCounter[c] + 1)
<1> USE DEF ChannelInv, TypeOK, Transmit
<1>1. ASSUME NEW c \in Channels,
             \/ Initiate(c) \/ InitiateFails(c) \/ SendFails(c)
             \/ TransmitPending(c) \/ Close(c) \/ SendDisconnect(c)
      PROVE  FALSE
  <2>1. CASE Initiate(c) \/ SendDisconnect(c)
    BY <2>1 DEF Initiate, HelloMsg, SendDisconnect, DisconnectMsg
  <2>2. CASE TransmitPending(c)
    BY <2>2 DEF TransmitPending, RekeyRequests
  <2>3. CASE InitiateFails(c) \/ SendFails(c) \/ Close(c)
    BY <2>3 DEF InitiateFails, SendFails, Close
  <2> QED
    BY <1>1, <2>1, <2>2, <2>3
<1>2. ASSUME NEW c \in Channels, NEW h \in wire,
             \/ RespondToHandshake(c, h) \/ RespondFails(c, h)
             \/ CompleteHandshake(c, h) \/ CompleteFails(c, h)
             \/ Receive(c, h) \/ ReceiveDisconnect(c, h)
             \/ HandleRekeyRequest(c, h) \/ ProcessRekeyResponse(c, h)
      PROVE  FALSE
  <2>1. CASE RespondToHandshake(c, h) \/ HandleRekeyRequest(c, h)
    BY <2>1 DEF RespondToHandshake, AuthMsg, HandleRekeyRequest, RekeyResponse, RekeyMsg
  <2>2. CASE RespondFails(c, h) \/ CompleteHandshake(c, h) \/ CompleteFails(c, h)
    BY <2>2 DEF RespondFails, CompleteHandshake, CompleteFails
  <2>3. CASE Receive(c, h) \/ ReceiveDisconnect(c, h) \/ ProcessRekeyResponse(c, h)
    BY <2>3 DEF Receive, ReceiveDisconnect, Close, ProcessRekeyResponse
  <2> QED
    BY <1>2, <2>1, <2>2, <2>3
<1>3. ~(Tick \/ UNCHANGED vars)
  BY DEF Tick, vars
<1>4. PICK c \in Channels : Send(c)
  BY <1>1, <1>2, <1>3 DEF Next
<1>5. wire' = wire \cup {EncryptedMsg(c, remote[c], keys[c], sendCounter[c] + 1)}
  BY <1>4 DEF Send
<1> QED
  BY <1>4, <1>5

\* A REKEYING channel stays so until its keys change.
LEMMA RekeyingUntilNewKeys ==
  ASSUME ChannelInv, AgreementInv, FreshInv, [Next]_vars, NEW d \in Channels,
         state[d] = "REKEYING", keys'[d] = keys[d]
  PROVE  state'[d] = "REKEYING"
<1> USE DEF ChannelInv, TypeOK, KeysMatchState, HasKeys
<1>1. ASSUME NEW c \in Channels,
             \/ Initiate(c) \/ InitiateFails(c) \/ Send(c) \/ SendFails(c)
             \/ TransmitPending(c) \/ Close(c) \/ SendDisconnect(c)
      PROVE  state'[d] = "REKEYING"
  <2>1. CASE Initiate(c) \/ InitiateFails(c)
    BY <2>1 DEF Initiate, InitiateFails
  <2>2. CASE Send(c) \/ SendFails(c)
    BY <2>2 DEF Send, InitiateRekey, SendFails
  <2>3. CASE TransmitPending(c) \/ SendDisconnect(c) \/ Close(c)
    BY <2>3 DEF TransmitPending, SendDisconnect, Close
  <2> QED
    BY <1>1, <2>1, <2>2, <2>3
<1>2. ASSUME NEW c \in Channels, NEW m \in wire,
             \/ RespondToHandshake(c, m) \/ RespondFails(c, m)
             \/ CompleteHandshake(c, m) \/ CompleteFails(c, m)
             \/ Receive(c, m) \/ ReceiveDisconnect(c, m)
             \/ HandleRekeyRequest(c, m)
      PROVE  state'[d] = "REKEYING"
  <2>1. CASE RespondToHandshake(c, m) \/ RespondFails(c, m)
    BY <2>1 DEF RespondToHandshake, RespondFails
  <2>2. CASE CompleteHandshake(c, m) \/ CompleteFails(c, m)
    BY <2>2 DEF CompleteHandshake, CompleteFails
  <2>3. CASE Receive(c, m) \/ ReceiveDisconnect(c, m) \/ HandleRekeyRequest(c, m)
    BY <2>3 DEF Receive, ReceiveDisconnect, Close, HandleRekeyRequest
  <2> QED
    BY <1>2, <2>1, <2>2, <2>3
<1>3. ASSUME NEW c \in Channels, NEW m \in wire, ProcessRekeyResponse(c, m)
      PROVE  state'[d] = "REKEYING"
  <2>1. CASE c = d
    <3>1. Stamp(c, keys'[c]) = Awaited(c)
      BY <1>3, AdoptTakesAwaited
    <3> QED
      BY <2>1, <3>1 DEF FreshInv, FreshKeys
  <2>2. CASE c # d
    BY <1>3, <2>2 DEF ProcessRekeyResponse
  <2> QED
    BY <2>1, <2>2
<1>4. CASE Tick \/ UNCHANGED vars
  BY <1>4 DEF Tick, vars
<1> QED
  BY <1>1, <1>2, <1>3, <1>4 DEF Next

\* A message already sent keeps its place.
LEMMA UseKept ==
  ASSUME ChannelInv, AgreementInv, FreshInv, UseInv, [Next]_vars,
         NEW c \in Channels, NEW m \in wire, UsedBy(c, m)
  PROVE  Use(c, m)'
<1>1. Use(c, m)
  BY DEF UseInv, Use
<1>2. m.counter \in 1 .. sendCounter'[c]
  <2>1. /\ sendCounter[c] \in Nat /\ sendCounter'[c] \in Nat
        /\ sendCounter'[c] >= sendCounter[c]
    BY StepCounters, ChannelInvStep DEF ChannelInv, TypeOK
  <2> QED
    BY <1>1, <2>1 DEF Use
<1>3. HasKeys(c) /\ keys[c] = m.key => Spent(c, m.key)' \/ (HasKeys(c)' /\ keys'[c] = m.key)
  BY SpentForEver DEF HasKeys
<1>4. Spent(c, m.key) => Spent(c, m.key)'
  BY SpentForEver
<1>5. Last(c, m) => Last(c, m)'
  <2>1. ASSUME keys[c] = m.key, state[c] = "REKEYING" PROVE Last(c, m)'
    <3>1. HasKeys(c)
      BY <2>1 DEF ChannelInv, KeysMatchState
    <3>2. CASE keys'[c] = keys[c]
      BY <2>1, <3>2, RekeyingUntilNewKeys DEF Last
    <3>3. CASE keys'[c] # keys[c]
      BY <2>1, <3>1, <3>3, SpentForEver DEF Last
    <3> QED
      BY <3>2, <3>3
  <2> QED
    BY <1>4, <2>1 DEF Last
<1> QED
  BY <1>1, <1>2, <1>3, <1>4, <1>5 DEF Use, Within

\* A new message is sent with the next number under the keys of now; when it is
\* past the limit it begins a rekey, and no message under these keys was before.
LEMMA UseAdded ==
  ASSUME ChannelInv, AgreementInv, FreshInv, UseInv, [Next]_vars,
         NEW c \in Channels, NEW n \in wire', n \notin wire, UsedBy(c, n)
  PROVE  /\ Use(c, n)' /\ wire' = wire \cup {n}
         /\ \A m \in wire : UsedBy(c, m) /\ m.key = n.key =>
              m.counter # n.counter /\ (Within(c, m) \/ Within(c, n))
<1> USE DEF ChannelInv, TypeOK
<1>1. PICK s \in Channels :
        /\ Send(s) /\ wire' = wire \cup {n}
        /\ n = EncryptedMsg(s, remote[s], keys[s], sendCounter[s] + 1)
  BY StepMakesUse DEF UsedBy
<1>2. n.key = keys[s] /\ n.from = AgentOf[s] /\ n.counter = sendCounter[s] + 1
  BY <1>1 DEF EncryptedMsg
<1>3. HasKeys(s) /\ state[s] = "ESTABLISHED"
  BY <1>1 DEF Send, KeysMatchState
<1>4. c = s
  <2>1. /\ AgentOf[s] # AgentOf[PeerOf(s)]
        /\ {InitiatorOf(keys[s]), ResponderOf(keys[s])} = {s, PeerOf(s)}
    BY <1>3, PeerIsOtherEnd
  <2>2. AgentOf[c] = AgentOf[s] /\ c \in {InitiatorOf(keys[s]), ResponderOf(keys[s])}
    BY <1>2 DEF UsedBy
  <2> QED
    BY <2>1, <2>2
<1>5. /\ sendCounter[c] \in Nat /\ sendCounter'[c] = sendCounter[c] + 1
      /\ keys' = keys /\ RekeyAfterMessages[c] \in Nat
  BY <1>1, <1>4, ConstantsOK DEF Send
<1>6. n.counter > RekeyAfterMessages[c] => state'[c] = "REKEYING"
  <2>1. n.counter > RekeyAfterMessages[c] => RekeyDue(c)
    BY <1>2, <1>4, <1>5 DEF RekeyDue
  <2> QED
    BY <1>1, <1>4, <2>1 DEF Send, InitiateRekey
<1>7. Use(c, n)'
  <2>1. n.counter \in 1 .. sendCounter'[c]
    BY <1>2, <1>4, <1>5
  <2>2. HasKeys(c)' /\ keys'[c] = n.key
    BY <1>2, <1>3, <1>4, <1>5 DEF HasKeys
  <2>3. Within(c, n) \/ Last(c, n)'
    BY <1>2, <1>4, <1>5, <1>6, <2>2 DEF Within, Last
  <2> QED
    BY <2>1, <2>2, <2>3 DEF Use, Within
<1>8. ASSUME NEW m \in wire, UsedBy(c, m), m.key = n.key
      PROVE  m.counter # n.counter /\ Within(c, m)
  <2>1. m.counter \in 1 .. sendCounter[c] /\ (Within(c, m) \/ Last(c, m))
    BY <1>8 DEF UseInv, Use
  <2>2. ~Spent(c, m.key) /\ state[c] # "REKEYING"
    BY <1>2, <1>3, <1>4, <1>8 DEF Spent
  <2> QED
    BY <1>2, <1>4, <1>5, <2>1, <2>2 DEF Last
<1> QED
  BY <1>1, <1>7, <1>8

\* Nothing is on the wire initially; messages keep their place, and a new one
\* is unlike the older ones under its key.
LEMMA UseInductive ==
  /\ Init => UseInv
  /\ ChannelInv /\ AgreementInv /\ FreshInv /\ UseInv /\ [Next]_vars => UseInv'
<1>1. Init => UseInv
  BY DEF Init, UseInv
<1>2. ASSUME ChannelInv, AgreementInv, FreshInv, UseInv, [Next]_vars PROVE UseInv'
  <2>1. ASSUME NEW c \in Channels, NEW m \in wire', UsedBy(c, m) PROVE Use(c, m)'
    BY <1>2, <2>1, UseKept, UseAdded
  <2>2. ASSUME NEW c \in Channels, NEW m1 \in wire', NEW m2 \in wire',
               UsedBy(c, m1), UsedBy(c, m2), m1.key = m2.key,
               m1.counter = m2.counter \/ ~(Within(c, m1) \/ Within(c, m2))
        PROVE  m1 = m2
    <3>1. CASE m1 \in wire /\ m2 \in wire
      BY <1>2, <2>2, <3>1 DEF UseInv
    <3>2. CASE m1 \notin wire
      BY <1>2, <2>2, <3>2, UseAdded
    <3>3. CASE m2 \notin wire
      BY <1>2, <2>2, <3>3, UseAdded
    <3> QED
      BY <3>1, <3>2, <3>3
  <2> QED
    BY <2>1, <2>2 DEF UseInv, Use, UsedBy, Within
<1> QED
  BY <1>1, <1>2

\* Numbering the messages of a key by their counters, and the one past the limit
\* by the next number, counts them.
LEMMA UseCounted ==
  ASSUME ChannelInv, UseInv, NEW c \in Channels, NEW key,
         c \in {InitiatorOf(key), ResponderOf(key)}
  PROVE  Cardinality({m \in wire : /\ m.type = "encrypted" /\ m.key = key
                                   /\ m.from = AgentOf[c]})
           <= RekeyAfterMessages[c] + 1
<1> DEFINE U == {m \in wire : m.type = "encrypted" /\ m.key = key /\ m.from = AgentOf[c]}
           r == RekeyAfterMessages[c]
           number == [m \in U |-> IF Within(c, m) THEN m.counter ELSE r + 1]
<1>1. r \in Nat
  BY ConstantsOK
<1>2. \A m \in U : UsedBy(c, m) /\ m \in wire /\ m.key = key
  BY DEF UsedBy
<1>3. \A m \in U : /\ number[m] \in 1 .. r + 1
                   /\ Within(c, m) => number[m] = m.counter /\ number[m] <= r
                   /\ ~Within(c, m) => number[m] = r + 1
  <2> SUFFICES ASSUME NEW m \in U
               PROVE  /\ number[m] \in 1 .. r + 1
                      /\ Within(c, m) => number[m] = m.counter /\ number[m] <= r
                      /\ ~Within(c, m) => number[m] = r + 1
    OBVIOUS
  <2>1. m.counter \in 1 .. sendCounter[c]
    BY <1>2 DEF UseInv, Use
  <2>2. number[m] = IF Within(c, m) THEN m.counter ELSE r + 1
    OBVIOUS
  <2> HIDE DEF number
  <2> QED
    BY <1>1, <2>1, <2>2 DEF Within
<1> HIDE DEF number
<1>4. \A m1, m2 \in U : number[m1] = number[m2] => m1 = m2
  <2> SUFFICES ASSUME NEW m1 \in U, NEW m2 \in U, number[m1] = number[m2]
               PROVE  m1 = m2
    OBVIOUS
  <2>1. m1.counter = m2.counter \/ ~(Within(c, m1) \/ Within(c, m2))
    BY <1>1, <1>3
  <2> QED
    BY <1>2, <2>1 DEF UseInv
<1>5. number \in Injection(U, 1 .. r + 1)
  <2>1. number \in [U -> 1 .. r + 1]
    BY <1>3 DEF number
  <2> QED
    BY <1>4, <2>1, Fun_IsInj
<1>6. IsFiniteSet(1 .. r + 1) /\ Cardinality(1 .. r + 1) = r + 1
  BY <1>1, FS_Interval
<1>7. Cardinality(U) <= r + 1
  BY <1>5, <1>6, FS_Injection
<1> QED
  BY <1>7

\* An end encrypts at most its rekey_after_messages and one more messages under
\* a key, in its life, however rekeys cross and whatever repeats.
THEOREM KeyUseIsBounded == Spec => []KeyUseBounded
<1>1. ChannelInv /\ UseInv => KeyUseBounded
  <2> SUFFICES ASSUME ChannelInv, UseInv, NEW n \in wire, n.type = "encrypted",
                      NEW c \in {InitiatorOf(n.key), ResponderOf(n.key)}
               PROVE  Cardinality({m \in wire : /\ m.type = "encrypted" /\ m.key = n.key
                                                /\ m.from = AgentOf[c]})
                        <= RekeyAfterMessages[c] + 1
    BY DEF KeyUseBounded
  <2>1. c \in Channels
    BY MessageTypes, EndsAreChannels DEF ChannelInv, TypeOK, Encrypteds
  <2> QED
    BY <2>1, UseCounted
<1> QED
  BY <1>1, ChannelInvInit, ChannelInvStep, AgreementInductive, FreshInductive,
     UseInductive, PTL DEF Spec
=============================================================================
