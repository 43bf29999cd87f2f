--------------------------- MODULE AgreementProofs --------------------------
(***************************************************************************)
(* Rekeys that only the channels of one agent begin, for any number of     *)
(* channels and any other constants: the two ends of a session never       *)
(* diverge.  When both ends may begin, they can (run CrossedRekey).        *)
(***************************************************************************)
EXTENDS KeyUseProofs

\* A channel whose thresholds lie beyond everything it and its peer do.
NeverDue(c) == MaxSends < RekeyAfterMessages[c] /\ MaxClock < RekeyAfterSeconds[c]

\* Of two agents, the channels of one never find a rekey due.
OneSided ==
  \A c, d \in Channels : AgentOf[c] # AgentOf[d] => NeverDue(c) \/ NeverDue(d)

\* The bounds of the model hold.
WithinBounds ==
  now <= MaxClock /\ \A c \in Channels : sendCounter[c] <= MaxSends

\* A request is signed with the keys of the handshake of a channel that finds
\* rekeys due: it has left them, or its RekeyManager still waits for the answer.
Waiting(c, m) ==
  /\ handshake[c].role = "rekey"
  /\ handshake[c].ephemeral = m.ephemeral /\ handshake[c].old = m.mac.key
RequestMade(m) ==
  m.type = "rekey_request" =>
    LET e == m.ephemeral[1]
    IN  /\ e \in {InitiatorOf(m.mac.key), ResponderOf(m.mac.key)}
        /\ ~Early(e) /\ ~NeverDue(e) /\ m.sequence = 0
        /\ Spent(e, m.mac.key) \/ Waiting(e, m)

\* A response is signed by an end of the handshake its key comes from.
ResponseMade(m) ==
  m.type = "rekey_response" =>
    LET e == m.ephemeral[1]
    IN  e \in {InitiatorOf(m.mac.key), ResponderOf(m.mac.key)} /\ ~Early(e)

\* A RekeyManager belongs to a channel that finds rekeys due, and the keys it
\* copied are still the keys of the channel.
ManagerCurrent(c) ==
  handshake[c].role = "rekey" =>
    ~NeverDue(c) /\ handshake[c].old = keys[c] /\ handshake[c].sequence = 1

\* There is no rekey before both ends have had keys.
PeerHadKeys(c) == HasKeys(c) /\ keys[c].chain # <<>> => ~Early(PeerOf(c))

\* The response that brings c to the keys of d is with the transport.
CatchesUp(c, d) ==
  /\ handshake[c].role = "rekey"
  /\ \E m \in wire :
       /\ Arrives(m, c, "rekey_response")
       /\ m.mac = Mac(handshake[c].old, Suite[c])
       /\ m.sequence = handshake[c].sequence - 1
       /\ keys[d] = ResponseKeys(c, m)
Together(c, d) == keys[c] = keys[d] \/ CatchesUp(c, d) \/ CatchesUp(d, c)

ManagersInv ==
  /\ \A m \in wire : RequestMade(m) /\ ResponseMade(m)
  /\ \A c \in Channels : /\ ManagerCurrent(c) /\ PeerHadKeys(c)
                         /\ pending[c] # NoRequest => RequestMade(pending[c])
TogetherInv == \A c, d \in Channels : Paired(c, d) => Together(c, d)

-----------------------------------------------------------------------------
(* Which channels ask, and with which keys *)

\* Everything proved of channels so far.
SessionInv ==
  ChannelInv /\ AgreementInv /\ DeliveryInv /\ FreshInv /\ ResponseInv

\* The invariants of the earlier modules hold together.
LEMMA SessionInductive ==
  /\ Init => SessionInv
  /\ SessionInv /\ [Next]_vars => SessionInv'
BY ChannelInvInit, ChannelInvStep, AgreementInductive, DeliveryInductive,
   FreshInductive, ResponseInductive DEF SessionInv

\* Sending and the clock stop at the bounds.
LEMMA BoundsInductive ==
  /\ Init => WithinBounds
  /\ ChannelInv /\ WithinBounds /\ [Next]_vars => WithinBounds'
<1>1. Init => WithinBounds
  BY ConstantsOK DEF Init, WithinBounds
<1>2. ASSUME ChannelInv, WithinBounds, [Next]_vars PROVE WithinBounds'
  <2> USE <1>2, ConstantsOK DEF ChannelInv, TypeOK, WithinBounds
  <2>1. ASSUME NEW c \in Channels,
               \/ Initiate(c) \/ InitiateFails(c) \/ SendFails(c)
               \/ TransmitPending(c) \/ Close(c) \/ SendDisconnect(c)
        PROVE  WithinBounds'
    BY <2>1 DEF Initiate, InitiateFails, SendFails, TransmitPending, Close, SendDisconnect
  <2>2. ASSUME NEW c \in Channels, Send(c) PROVE WithinBounds'
    BY <2>2 DEF Send
  <2>3. ASSUME NEW c \in Channels, NEW m \in wire,
               \/ RespondToHandshake(c, m) \/ RespondFails(c, m)
               \/ CompleteHandshake(c, m) \/ CompleteFails(c, m)
        PROVE  WithinBounds'
    BY <2>3 DEF RespondToHandshake, RespondFails, CompleteHandshake, CompleteFails
  <2>4. ASSUME NEW c \in Channels, NEW m \in wire,
               \/ Receive(c, m) \/ ReceiveDisconnect(c, m)
               \/ HandleRekeyRequest(c, m) \/ ProcessRekeyResponse(c, m)
        PROVE  WithinBounds'
    BY <2>4 DEF Receive, ReceiveDisconnect, Close, HandleRekeyRequest, ProcessRekeyResponse
  <2>5. CASE Tick
    BY <2>5 DEF Tick
  <2>6. CASE UNCHANGED vars
    BY <2>6 DEF vars
  <2> QED
    BY <2>1, <2>2, <2>3, <2>4, <2>5, <2>6 DEF Next
<1> QED
  BY <1>1, <1>2

\* What a channel has received its peer has sent, so a channel that is never due
\* by its thresholds is never due.
LEMMA DueIsNotNever ==
  ASSUME SessionInv, WithinBounds, NEW c \in Channels, HasKeys(c), RekeyDue(c)
  PROVE  ~NeverDue(c)
<1> SUFFICES ASSUME NeverDue(c) PROVE FALSE
  OBVIOUS
<1>1. PICK p \in Channels : p = PeerOf(c)
  BY PeerIsOtherEnd DEF SessionInv
<1>2. recvCounter[c] <= sendCounter[p]
  BY <1>1 DEF SessionInv, DeliveryInv, NoneInvented
<1>3. /\ sendCounter[c] \in Nat /\ recvCounter[c] \in Nat /\ sendCounter[p] \in Nat
      /\ establishedAt[c] \in Nat /\ now \in Nat /\ now <= MaxClock
      /\ sendCounter[c] <= MaxSends /\ sendCounter[p] <= MaxSends
  BY DEF SessionInv, ChannelInv, TypeOK, WithinBounds
<1>4. /\ RekeyAfterMessages[c] \in Nat /\ RekeyAfterSeconds[c] \in Nat
      /\ MaxSends \in Nat /\ MaxClock \in Nat
  BY ConstantsOK
<1> QED
  BY <1>2, <1>3, <1>4 DEF NeverDue, RekeyDue

\* A channel with keys is an end of the handshake they come from.
LEMMA IsAnEnd ==
  ASSUME SessionInv, NEW c \in Channels, HasKeys(c)
  PROVE  /\ PeerOf(c) \in Channels /\ AgentOf[c] # AgentOf[PeerOf(c)]
         /\ {InitiatorOf(keys[c]), ResponderOf(keys[c])} = {c, PeerOf(c)}
         /\ remote[c] = AgentOf[PeerOf(c)] /\ ~Early(c)
<1>1. ~Early(c)
  BY DEF SessionInv, ChannelInv, KeysMatchState, Early
<1> QED
  BY <1>1, PeerIsOtherEnd DEF SessionInv

\* The request a channel answers comes from its peer, which does not answer
\* requests of this channel.
LEMMA RequestIsFromPeer ==
  ASSUME OneSided, SessionInv, ManagersInv, NEW c \in Channels, NEW m \in wire,
         HandleRekeyRequest(c, m)
  PROVE  /\ m.type = "rekey_request" /\ m.mac.key = keys[c] /\ HasKeys(c)
         /\ m.ephemeral[1] = PeerOf(c) /\ ~Early(PeerOf(c))
         /\ handshake[c].role # "rekey"
<1>1. m.type = "rekey_request" /\ m.to = AgentOf[c] /\ m.mac.key = keys[c] /\ HasKeys(c)
  BY DEF HandleRekeyRequest, Arrives, RequestValid, Mac, HasKeys
<1>2. m.from = AgentOf[m.ephemeral[1]] /\ m.from # m.to
  BY <1>1 DEF SessionInv, FreshInv, SentToOther
<1>3. /\ m.ephemeral[1] \in {InitiatorOf(keys[c]), ResponderOf(keys[c])}
      /\ ~Early(m.ephemeral[1]) /\ ~NeverDue(m.ephemeral[1])
  BY <1>1 DEF ManagersInv, RequestMade
<1>4. m.ephemeral[1] = PeerOf(c)
  BY <1>1, <1>2, <1>3, IsAnEnd
<1>5. handshake[c].role # "rekey"
  BY <1>1, <1>3, <1>4, IsAnEnd DEF OneSided, ManagersInv, ManagerCurrent
<1> QED
  BY <1>1, <1>3, <1>4, <1>5

\* The response a channel takes is signed by its peer, with the keys it has.
LEMMA ResponseIsFromPeer ==
  ASSUME SessionInv, ManagersInv, NEW c \in Channels, NEW m \in wire,
         handshake[c].role = "rekey", Arrives(m, c, "rekey_response"),
         m.mac = Mac(handshake[c].old, Suite[c])
  PROVE  /\ m.type = "rekey_response" /\ m.mac.key = keys[c] /\ HasKeys(c)
         /\ m.ephemeral[1] = PeerOf(c) /\ ~Early(PeerOf(c))
<1>1. m.type = "rekey_response" /\ m.to = AgentOf[c]
  BY DEF Arrives
<1>2. m.mac.key = keys[c]
  BY DEF ManagersInv, ManagerCurrent, Mac
<1>3. HasKeys(c)
  BY DEF SessionInv, ChannelInv, KeysMatchState
<1>4. m.from = AgentOf[m.ephemeral[1]] /\ m.from # m.to
  BY <1>1 DEF SessionInv, FreshInv, SentToOther
<1>5. m.ephemeral[1] \in {InitiatorOf(keys[c]), ResponderOf(keys[c])} /\ ~Early(m.ephemeral[1])
  BY <1>1, <1>2 DEF ManagersInv, ResponseMade
<1> QED
  BY <1>1, <1>2, <1>3, <1>4, <1>5, IsAnEnd

-----------------------------------------------------------------------------
(* RekeyManagers *)

\* What a step does to the RekeyManager of a channel: nothing, and the keys it
\* copied stay; remove it, and then these keys are gone too; or make one.
ManagerStep(c) ==
  \/ /\ handshake'[c] = handshake[c] /\ pending'[c] = pending[c]
     /\ handshake[c].role = "rekey" => keys'[c] = keys[c]
  \/ /\ handshake'[c].role # "rekey" /\ pending'[c] \in {pending[c], NoRequest}
     /\ handshake[c].role = "rekey" => keys'[c] # keys[c]
  \/ Send(c) /\ RekeyDue(c)

\* Taking the response changes the keys: the old ones do not end with the key
\* pair that was awaited.
LEMMA AdoptionChangesKeys ==
  ASSUME SessionInv, NEW c \in Channels, NEW m \in wire, ProcessRekeyResponse(c, m)
  PROVE  keys'[c] # keys[c] /\ HasKeys(c)
<1>1. Stamp(c, keys'[c]) = Awaited(c)
  BY AdoptTakesAwaited DEF SessionInv
<1>2. HasKeys(c)
  BY DEF SessionInv, ChannelInv, KeysMatchState, ProcessRekeyResponse
<1> QED
  BY <1>1, <1>2 DEF SessionInv, FreshInv, FreshKeys

\* Only a due rekey makes a RekeyManager, and a channel that has one answers no
\* request, so its keys change only with the response or when it is closed.
LEMMA StepManager ==
  ASSUME OneSided, SessionInv, ManagersInv, [Next]_vars, NEW d \in Channels
  PROVE  ManagerStep(d)
<1> DEFINE Same == handshake'[d] = handshake[d] /\ pending'[d] = pending[d]
<1>0. /\ ChannelInv /\ TypeOK
      /\ handshake[d].role = "rekey" => HasKeys(d) /\ state[d] = "REKEYING"
  BY DEF SessionInv, ChannelInv, KeysMatchState
<1>1. ASSUME NEW c \in Channels,
             \/ Initiate(c) \/ InitiateFails(c) \/ Send(c) \/ SendFails(c)
             \/ TransmitPending(c) \/ Close(c) \/ SendDisconnect(c)
      PROVE  ManagerStep(d)
  <2> USE <1>0 DEF TypeOK, ManagerStep
  <2>1. CASE Initiate(c)
    BY <2>1 DEF Initiate
  <2>2. CASE Send(c) /\ (RekeyDue(c) => c # d)
    BY <2>2 DEF Send, InitiateRekey
  <2>3. CASE Send(c) /\ RekeyDue(c) /\ c = d
    BY <2>3
  <2>4. CASE Close(c)
    BY <2>4 DEF Close, NoHandshake, HasKeys
  <2>5. CASE InitiateFails(c) \/ SendFails(c) \/ TransmitPending(c) \/ SendDisconnect(c)
    BY <2>5 DEF InitiateFails, SendFails, TransmitPending, SendDisconnect
  <2> QED
    BY <1>1, <2>1, <2>2, <2>3, <2>4, <2>5
<1>2. ASSUME NEW c \in Channels, NEW m \in wire,
             \/ RespondToHandshake(c, m) \/ RespondFails(c, m)
             \/ CompleteHandshake(c, m) \/ CompleteFails(c, m)
             \/ Receive(c, m)
             \/ HandleRekeyRequest(c, m) \/ ProcessRekeyResponse(c, m)
      PROVE  ManagerStep(d)
  <2>1. CASE RespondToHandshake(c, m)
    BY <1>0, <2>1 DEF RespondToHandshake, TypeOK, ManagerStep
  <2>2. CASE CompleteHandshake(c, m)
    BY <1>0, <2>2 DEF CompleteHandshake, NoHandshake, TypeOK, ManagerStep
  <2>3. CASE RespondFails(c, m) \/ CompleteFails(c, m) \/ Receive(c, m)
    BY <2>3 DEF RespondFails, CompleteFails, Receive, ManagerStep
  <2>4. CASE HandleRekeyRequest(c, m)
    <3>1. handshake[c].role # "rekey"
      BY <2>4, RequestIsFromPeer
    <3> QED
      BY <1>0, <2>4, <3>1 DEF HandleRekeyRequest, ApplyNewKeys, TypeOK, ManagerStep
  <2>5. CASE ProcessRekeyResponse(c, m)
    <3>1. keys'[c] # keys[c]
      BY <2>5, AdoptionChangesKeys
    <3> QED
      BY <1>0, <2>5, <3>1
      DEF ProcessRekeyResponse, ApplyNewKeys, NoHandshake, TypeOK, ManagerStep
  <2> QED
    BY <1>2, <2>1, <2>2, <2>3, <2>4, <2>5
<1>3. ASSUME NEW c \in Channels, NEW m \in wire, ReceiveDisconnect(c, m)
      PROVE  ManagerStep(d)
  BY <1>1, <1>3 DEF ReceiveDisconnect
<1>4. CASE Tick \/ UNCHANGED vars
  BY <1>4 DEF Tick, vars, ManagerStep
<1> QED
  BY <1>1, <1>2, <1>3, <1>4 DEF Next

\* The rekey that begins in send: the manager copies the keys of now, and the
\* request is signed with them.
LEMMA RekeyBegins ==
  ASSUME SessionInv, WithinBounds, NEW c \in Channels, Send(c), RekeyDue(c)
  PROVE  ManagerCurrent(c)' /\ RequestMade(pending[c])'
<1>1. HasKeys(c)
  BY DEF Send, SessionInv, ChannelInv, KeysMatchState
<1>2. c \in {InitiatorOf(keys[c]), ResponderOf(keys[c])} /\ ~NeverDue(c)
  BY <1>1, IsAnEnd, DueIsNotNever
<1>3. /\ handshake'[c] = RekeyManager(keys[c], NextEphemeral(c), 1)
      /\ pending'[c] = RekeyMsg("rekey_request", c, keys[c], NextEphemeral(c), 0)
      /\ keys' = keys /\ state'[c] = "REKEYING"
  BY DEF Send, InitiateRekey, SessionInv, ChannelInv, TypeOK
<1>4. ManagerCurrent(c)'
  BY <1>2, <1>3 DEF ManagerCurrent, RekeyManager, NeverDue
<1>5. /\ pending'[c].ephemeral[1] = c /\ pending'[c].ephemeral = NextEphemeral(c)
      /\ pending'[c].mac.key = keys[c] /\ pending'[c].sequence = 0
  BY <1>3 DEF RekeyMsg, Mac, NextEphemeral
<1>6. /\ ~Early(c)' /\ Waiting(c, pending[c])'
  BY <1>3, <1>5 DEF Waiting, RekeyManager, Early
<1>7. RequestMade(pending[c])'
  BY <1>2, <1>5, <1>6 DEF RequestMade, NeverDue
<1> QED
  BY <1>4, <1>7

\* A request already made stays as the invariant says: when the manager that
\* waits for its answer goes, the keys it is signed with are left for ever.
LEMMA RequestKept ==
  ASSUME OneSided, SessionInv, ManagersInv, [Next]_vars,
         NEW m \in RekeyRequests, RequestMade(m)
  PROVE  RequestMade(m)'
<1>1. PICK e \in Channels : e = m.ephemeral[1]
  BY DEF RekeyRequests, KeyPairs
<1>2. /\ e \in {InitiatorOf(m.mac.key), ResponderOf(m.mac.key)}
      /\ ~Early(e) /\ ~NeverDue(e) /\ m.sequence = 0
      /\ Spent(e, m.mac.key) \/ Waiting(e, m)
  BY <1>1 DEF RequestMade, RekeyRequests
<1>3. ~Early(e)'
  BY <1>2, StepCounters DEF SessionInv
<1>4. Spent(e, m.mac.key)' \/ Waiting(e, m)'
  <2>1. CASE Spent(e, m.mac.key)
    BY <2>1, SpentForEver DEF SessionInv
  <2>2. CASE Waiting(e, m) /\ handshake'[e] = handshake[e]
    BY <2>2 DEF Waiting
  <2>3. CASE Waiting(e, m) /\ handshake'[e] # handshake[e]
    <3>1. handshake[e].role = "rekey" /\ m.mac.key = keys[e]
      BY <2>3 DEF Waiting, ManagersInv, ManagerCurrent
    <3>2. HasKeys(e) /\ state[e] = "REKEYING"
      BY <3>1 DEF SessionInv, ChannelInv, KeysMatchState
    <3>3. keys'[e] # keys[e]
      BY <2>3, <3>1, <3>2, StepManager DEF ManagerStep, Send
    <3> QED
      BY <3>1, <3>2, <3>3, SpentForEver DEF SessionInv
  <2> QED
    BY <1>2, <2>1, <2>2, <2>3
<1> QED
  BY <1>1, <1>2, <1>3, <1>4 DEF RequestMade, NeverDue

\* Every request on the wire was pending.
LEMMA StepMakesRequest ==
  ASSUME ChannelInv, [Next]_vars, NEW m \in wire', m \notin wire,
         m.type = "rekey_request"
  PROVE  \E c \in Channels : pending[c] # NoRequest /\ m = pending[c]
<1> USE DEF ChannelInv, TypeOK, Transmit
<1>1. ASSUME NEW c \in Channels,
             \/ Initiate(c) \/ InitiateFails(c) \/ Send(c) \/ SendFails(c)
             \/ Close(c) \/ SendDisconnect(c)
      PROVE  FALSE
  <2>1. CASE Initiate(c) \/ SendDisconnect(c)
    BY <2>1 DEF Initiate, HelloMsg, SendDisconnect, DisconnectMsg
  <2>2. CASE Send(c)
    BY <2>2 DEF Send, EncryptedMsg
  <2>3. CASE InitiateFails(c) \/ SendFails(c) \/ Close(c)
    BY <2>3 DEF InitiateFails, SendFails, Close
  <2> QED
    BY <1>1, <2>1, <2>2, <2>3
<1>2. ASSUME NEW c \in Channels, NEW h \in wire,
             \/ RespondToHandshake(c, h) \/ RespondFails(c, h)
             \/ CompleteHandshake(c, h) \/ CompleteFails(c, h)
             \/ Receive(c, h) \/ ReceiveDisconnect(c, h)
             \/ HandleRekeyRequest(c, h) \/ ProcessRekeyResponse(c, h)
      PROVE  FALSE
  <2>1. CASE RespondToHandshake(c, h) \/ HandleRekeyRequest(c, h)
    BY <2>1 DEF RespondToHandshake, AuthMsg, HandleRekeyRequest, RekeyResponse, RekeyMsg
  <2>2. CASE RespondFails(c, h) \/ CompleteHandshake(c, h) \/ CompleteFails(c, h)
    BY <2>2 DEF RespondFails, CompleteHandshake, CompleteFails
  <2>3. CASE Receive(c, h) \/ ReceiveDisconnect(c, h) \/ ProcessRekeyResponse(c, h)
    BY <2>3 DEF Receive, ReceiveDisconnect, Close, ProcessRekeyResponse
  <2> QED
    BY <1>2, <2>1, <2>2, <2>3
<1>3. ~(Tick \/ UNCHANGED vars)
  BY DEF Tick, vars
<1> QED
  BY <1>1, <1>2, <1>3 DEF Next, TransmitPending

-----------------------------------------------------------------------------
(* The steps that change keys *)

\* A handshake that x ends, and a rekey in which x takes new keys, over m.
Handshakes(x, m) == RespondToHandshake(x, m) \/ CompleteHandshake(x, m)
Rekeys(x, m) == HandleRekeyRequest(x, m) \/ ProcessRekeyResponse(x, m)

\* A step gives new keys to one channel at most, in one of these four ways.
LEMMA KeyChange ==
  ASSUME ChannelInv, [Next]_vars, NEW d \in Channels, keys'[d] # keys[d], HasKeys(d)'
  PROVE  \E m \in wire : /\ Handshakes(d, m) \/ Rekeys(d, m)
                         /\ \A c \in Channels \ {d} : keys'[c] = keys[c]
<1> USE DEF ChannelInv, TypeOK, HasKeys
<1>1. ASSUME NEW c \in Channels,
             \/ Initiate(c) \/ InitiateFails(c) \/ Send(c) \/ SendFails(c)
             \/ TransmitPending(c) \/ Close(c) \/ SendDisconnect(c)
      PROVE  FALSE
  <2>1. CASE Initiate(c) \/ InitiateFails(c)
    BY <2>1 DEF Initiate, InitiateFails
  <2>2. CASE Send(c) \/ SendFails(c)
    BY <2>2 DEF Send, SendFails
  <2>3. CASE TransmitPending(c) \/ SendDisconnect(c) \/ Close(c)
    BY <2>3 DEF TransmitPending, SendDisconnect, Close
  <2> QED
    BY <1>1, <2>1, <2>2, <2>3
<1>2. ASSUME NEW c \in Channels, NEW m \in wire,
             \/ RespondFails(c, m) \/ CompleteFails(c, m)
             \/ Receive(c, m) \/ ReceiveDisconnect(c, m)
      PROVE  FALSE
  BY <1>2 DEF RespondFails, CompleteFails, Receive, ReceiveDisconnect, Close
<1>3. ASSUME NEW c \in Channels, NEW m \in wire, Handshakes(c, m) \/ Rekeys(c, m)
      PROVE  d = c /\ \A e \in Channels \ {d} : keys'[e] = keys[e]
  <2>1. PICK k : keys' = [keys EXCEPT ![c] = k]
    BY <1>3 DEF Handshakes, RespondToHandshake, CompleteHandshake, Rekeys,
                HandleRekeyRequest, ProcessRekeyResponse, ApplyNewKeys
  <2> QED
    BY <2>1
<1>4. ~(Tick \/ UNCHANGED vars)
  BY DEF Tick, vars
<1> QED
  BY <1>1, <1>2, <1>3, <1>4 DEF Next, Handshakes, Rekeys

\* A handshake ends with keys that no rekey has touched, of a channel without.
LEMMA HandshakeKeys ==
  ASSUME ChannelInv, NEW x \in Channels, NEW m \in wire, Handshakes(x, m)
  PROVE  ~HasKeys(x) /\ keys'[x].chain = <<>>
<1> USE DEF ChannelInv, TypeOK, KeysMatchState
<1>1. CASE RespondToHandshake(x, m)
  BY <1>1 DEF RespondToHandshake, ResponderKeys, DeriveTripleDH
<1>2. CASE CompleteHandshake(x, m)
  BY <1>2 DEF CompleteHandshake, KeysFromAuth, InitiatorKeys, DeriveTripleDH
<1> QED
  BY <1>1, <1>2 DEF Handshakes

\* A rekey adds one exchange to the keys the channel has.
LEMMA RekeyExtends ==
  ASSUME SessionInv, ManagersInv, NEW x \in Channels, NEW m \in wire, Rekeys(x, m)
  PROVE  /\ HasKeys(x) /\ keys[x] \in Keys
         /\ \E shared \in Secrets, i, r \in KeyPairs :
              keys'[x] = RekeyKeys(keys[x], shared, i, r, Suite[x])
<1> USE DEF SessionInv, ChannelInv, TypeOK
<1>1. CASE HandleRekeyRequest(x, m)
  <2>1. m \in RekeyRequests /\ HasKeys(x)
    BY <1>1, MessageTypes DEF HandleRekeyRequest, Arrives, HasKeys
  <2>2. /\ DH(NextEphemeral(x), m.ephemeral) \in Secrets
        /\ m.ephemeral \in KeyPairs /\ NextEphemeral(x) \in KeyPairs
    BY <2>1, NextEphemeralType DEF RekeyRequests, DH, Secrets
  <2>3. keys'[x] = RekeyKeys(keys[x], DH(NextEphemeral(x), m.ephemeral),
                             m.ephemeral, NextEphemeral(x), Suite[x])
    BY <1>1 DEF HandleRekeyRequest, ApplyNewKeys, RequestKeys
  <2> QED
    BY <2>1, <2>2, <2>3 DEF HasKeys
<1>2. CASE ProcessRekeyResponse(x, m)
  <2>1. m \in RekeyResponses /\ HasKeys(x) /\ handshake[x].role = "rekey"
    BY <1>2, MessageTypes DEF ProcessRekeyResponse, Arrives, KeysMatchState
  <2>2. handshake[x].old = keys[x] /\ handshake[x].ephemeral \in KeyPairs
    BY <2>1, HandshakeTypes DEF ManagersInv, ManagerCurrent
  <2>3. DH(handshake[x].ephemeral, m.ephemeral) \in Secrets /\ m.ephemeral \in KeyPairs
    BY <2>1, <2>2 DEF RekeyResponses, DH, Secrets
  <2>4. keys'[x] = RekeyKeys(keys[x], DH(handshake[x].ephemeral, m.ephemeral),
                             handshake[x].ephemeral, m.ephemeral, Suite[x])
    BY <1>2, <2>2 DEF ProcessRekeyResponse, ApplyNewKeys, ResponseKeys
  <2> QED
    BY <2>1, <2>2, <2>3, <2>4 DEF HasKeys
<1> QED
  BY <1>1, <1>2 DEF Rekeys

\* Requests and responses prove that the other end has had keys.
LEMMA StepPeerHadKeys ==
  ASSUME OneSided, SessionInv, ManagersInv, [Next]_vars, NEW d \in Channels
  PROVE  PeerHadKeys(d)'
<1> SUFFICES ASSUME HasKeys(d)', keys'[d].chain # <<>> PROVE ~Early(PeerOf(d))'
  BY DEF PeerHadKeys
<1>1. CASE keys'[d] = keys[d]
  <2>1. HasKeys(d) /\ PeerOf(d)' = PeerOf(d) /\ ~Early(PeerOf(d))
    BY <1>1 DEF HasKeys, PeerOf, ManagersInv, PeerHadKeys
  <2>2. PICK p \in Channels : p = PeerOf(d)
    BY <2>1, IsAnEnd
  <2>3. ~Early(p)'
    BY <2>1, <2>2, StepCounters DEF SessionInv
  <2> QED
    BY <2>1, <2>2, <2>3
<1>2. CASE keys'[d] # keys[d]
  <2>1. PICK m \in wire : Rekeys(d, m)
    BY <1>2, KeyChange, HandshakeKeys DEF SessionInv
  <2>2. HasKeys(d) /\ ~Early(PeerOf(d))
    BY <2>1, RequestIsFromPeer, ResponseIsFromPeer
    DEF Rekeys, ProcessRekeyResponse, ResponseValid
  <2>3. keys'[d].base = keys[d].base
    <3>1. PICK shared, i, r : keys'[d] = RekeyKeys(keys[d], shared, i, r, Suite[d])
      BY <2>1, RekeyExtends
    <3> QED
      BY <3>1 DEF RekeyKeys
  <2>4. PICK p \in Channels : p = PeerOf(d)
    BY <2>2, IsAnEnd
  <2>5. p = PeerOf(d)'
    BY <2>3, <2>4 DEF PeerOf, InitiatorOf, ResponderOf
  <2>6. ~Early(p)'
    BY <2>2, <2>4, StepCounters DEF SessionInv
  <2> QED
    BY <2>5, <2>6
<1> QED
  BY <1>1, <1>2

\* No message, no manager and no keys initially.
LEMMA ManagersInductive ==
  ASSUME OneSided
  PROVE  /\ Init => ManagersInv
         /\ SessionInv /\ WithinBounds /\ ManagersInv /\ [Next]_vars => ManagersInv'
<1>1. Init => ManagersInv
  BY DEF Init, ManagersInv, ManagerCurrent, PeerHadKeys, HasKeys, NoHandshake
<1>2. ASSUME SessionInv, WithinBounds, ManagersInv, [Next]_vars PROVE ManagersInv'
  <2>0. SessionInv' /\ ChannelInv
    BY <1>2, SessionInductive DEF SessionInv
  <2>1. ASSUME NEW c \in Channels, pending'[c] # NoRequest PROVE RequestMade(pending[c])'
    <3>1. CASE pending'[c] = pending[c]
      <4>1. pending[c] \in RekeyRequests /\ RequestMade(pending[c])
        BY <1>2, <2>1, <3>1 DEF SessionInv, ChannelInv, TypeOK, ManagersInv
      <4>2. \A m \in RekeyRequests : m = pending[c] => RequestMade(m)'
        BY <1>2, <4>1, RequestKept
      <4> QED
        BY <3>1, <4>1, <4>2
    <3>2. CASE pending'[c] # pending[c]
      BY <1>2, <2>1, <3>2, StepManager, RekeyBegins DEF ManagerStep
    <3> QED
      BY <3>1, <3>2
  <2>2. ASSUME NEW c \in Channels PROVE ManagerCurrent(c)'
    <3>1. ManagerStep(c) /\ ManagerCurrent(c)
      BY <1>2, StepManager DEF ManagersInv
    <3>2. CASE Send(c) /\ RekeyDue(c)
      BY <1>2, <3>2, RekeyBegins
    <3>3. CASE ~(Send(c) /\ RekeyDue(c))
      BY <3>1, <3>3 DEF ManagerStep, ManagerCurrent, NeverDue
    <3> QED
      BY <3>2, <3>3
  <2>3. ASSUME NEW m \in wire', m.type = "rekey_request" PROVE RequestMade(m)'
    <3>1. m \in RekeyRequests
      BY <2>0, <2>3, MessageTypes DEF SessionInv, ChannelInv, TypeOK
    <3>2. RequestMade(m)
      <4>1. CASE m \in wire
        BY <1>2, <4>1 DEF ManagersInv
      <4>2. CASE m \notin wire
        BY <1>2, <2>0, <2>3, <4>2, StepMakesRequest DEF ManagersInv
      <4> QED
        BY <4>1, <4>2
    <3> QED
      BY <1>2, <3>1, <3>2, RequestKept
  <2>4. ASSUME NEW m \in wire', m.type = "rekey_response" PROVE ResponseMade(m)'
    <3>1. m.ephemeral[1] \in Channels
      BY <2>0, <2>4, MessageTypes DEF SessionInv, ChannelInv, TypeOK, RekeyResponses, KeyPairs
    <3>2. ResponseMade(m)
      <4>1. CASE m \in wire
        BY <1>2, <4>1 DEF ManagersInv
      <4>2. CASE m \notin wire
        <5>1. PICK c \in Channels, h \in wire :
                HandleRekeyRequest(c, h) /\ m = RekeyResponse(c, h)
          BY <1>2, <2>0, <2>4, <4>2, StepMakesResponse
        <5>2. m.ephemeral[1] = c /\ m.mac.key = keys[c] /\ HasKeys(c)
          BY <5>1 DEF RekeyResponse, RekeyMsg, Mac, NextEphemeral, HandleRekeyRequest, HasKeys
        <5> QED
          BY <1>2, <5>2, IsAnEnd DEF ResponseMade
      <4> QED
        BY <4>1, <4>2
    <3>3. Early(m.ephemeral[1])' => Early(m.ephemeral[1])
      BY <1>2, <2>0, <3>1, StepCounters
    <3> QED
      BY <3>2, <3>3 DEF ResponseMade
  <2>5. \A c \in Channels : PeerHadKeys(c)'
    BY <1>2, StepPeerHadKeys
  <2> QED
    BY <2>1, <2>2, <2>3, <2>4, <2>5 DEF ManagersInv, RequestMade, ResponseMade
<1> QED
  BY <1>1, <1>2

-----------------------------------------------------------------------------
(* The two ends of a session *)

\* Channels with the same handshake keys are each other's peer, with one suite.
LEMMA PairedArePeers ==
  ASSUME SessionInv, NEW c \in Channels, NEW d \in Channels, Paired(c, d)
  PROVE  /\ d = PeerOf(c) /\ c = PeerOf(d) /\ AgentOf[c] # AgentOf[d]
         /\ Suite[c] = Suite[d]
<1>1. HasKeys(c) /\ HasKeys(d) /\ c # d /\ keys[c].base = keys[d].base
  BY DEF Paired
<1>2. PICK i \in Channels, r \in Channels :
        /\ i = InitiatorOf(keys[c]) /\ r = ResponderOf(keys[c])
        /\ i = InitiatorOf(keys[d]) /\ r = ResponderOf(keys[d])
  BY <1>1, EndsAreChannels, EndsOfBase DEF SessionInv, ChannelInv, TypeOK, HasKeys
<1>3. /\ {i, r} = {c, PeerOf(c)} /\ {i, r} = {d, PeerOf(d)}
      /\ AgentOf[c] # AgentOf[PeerOf(c)]
  BY <1>1, <1>2, IsAnEnd
<1>4. d = PeerOf(c) /\ c = PeerOf(d)
  BY <1>1, <1>3
<1>5. Agreed(i, i, r)
  BY <1>1, <1>2, <1>3, <1>4 DEF SessionInv, AgreementInv, HandshakeAgreement
<1> QED
  BY <1>1, <1>3, <1>4, <1>5 DEF Agreed

\* A key triple is its base and its chain.
LEMMA SameTriple ==
  ASSUME NEW k1 \in Keys, NEW k2 \in Keys, k1.base = k2.base, k1.chain = k2.chain
  PROVE  k1 = k2
<1> DEFINE S == [shared : Secrets \X Secrets \X Secrets, psk : Psks,
                 nonces : KeyPairs \X KeyPairs, suite : Suites]
           T == Seq([shared : Secrets, nonces : KeyPairs \X KeyPairs, suite : Suites])
<1>1. k1 \in [base : S, chain : T] /\ k2 \in [base : S, chain : T]
  BY DEF Keys
<1> HIDE DEF S, T
<1>2. /\ k1 = [base |-> k1.base, chain |-> k1.chain]
      /\ k2 = [base |-> k2.base, chain |-> k2.chain]
  BY <1>1
<1> QED
  BY <1>2

\* No channel has keys of a handshake before its responder has, and when the
\* initiator gets them the responder still has the same: it cannot have been
\* sent a request.
LEMMA HandshakeTogether ==
  ASSUME SessionInv, ManagersInv, [Next]_vars,
         NEW x \in Channels, NEW m \in wire, Handshakes(x, m),
         NEW y \in Channels, Paired(x, y)', keys'[y] = keys[y]
  PROVE  keys'[x] = keys'[y]
<1> USE DEF SessionInv, ChannelInv, TypeOK
<1>1. /\ HasKeys(y) /\ x # y /\ keys'[x].base = keys[y].base
      /\ keys[y] \in Keys /\ keys'[x] \in Keys
  BY SessionInductive DEF Paired, HasKeys
<1>2. InitiatorOf(keys'[x]) = InitiatorOf(keys[y]) /\ ResponderOf(keys'[x]) = ResponderOf(keys[y])
  BY <1>1 DEF InitiatorOf, ResponderOf
<1>3. CASE RespondToHandshake(x, m)
  <2>1. ResponderOf(keys'[x]) = x
    BY <1>3 DEF RespondToHandshake, ResponderKeys, DeriveTripleDH, ResponderOf, Share
  <2>2. Agreed(y, InitiatorOf(keys[y]), x)
    BY <1>1, <1>2, <2>1 DEF AgreementInv, HandshakeAgreement
  <2>3. HasKeys(x) \/ state[x] = "CLOSED"
    BY <1>1, <2>2 DEF Agreed, Paired
  <2> QED
    BY <1>3, <2>3 DEF RespondToHandshake, KeysMatchState
<1>4. CASE CompleteHandshake(x, m)
  <2>1. handshake[x].share.ephemeral[1] = x
    BY <1>4 DEF CompleteHandshake, KeysMatchState, AgreementInv, OwnHandshake
  <2>2. InitiatorOf(keys'[x]) = x
    BY <1>4, <2>1
    DEF CompleteHandshake, KeysFromAuth, InitiatorKeys, DeriveTripleDH, InitiatorOf
  <2>3. x = PeerOf(y)
    BY <1>1, <1>2, <2>2, IsAnEnd
  <2>4. Early(x)
    BY <1>4 DEF CompleteHandshake, Early
  <2>5. keys[y].chain = <<>>
    BY <1>1, <2>3, <2>4 DEF ManagersInv, PeerHadKeys
  <2>6. keys'[x].chain = <<>>
    BY HandshakeKeys
  <2> QED
    BY <1>1, <2>5, <2>6, SameTriple
<1> QED
  BY <1>3, <1>4 DEF Handshakes

\* The last nonces of keys that a channel takes from a response begin with the
\* key pair it waited with.
LEMMA CaughtUpStamp ==
  ASSUME SessionInv, NEW c \in Channels, NEW d \in Channels, CatchesUp(c, d)
  PROVE  Stamp(c, keys[d]) = Awaited(c)
<1> USE DEF SessionInv, ChannelInv, TypeOK
<1>1. PICK m \in wire : /\ Arrives(m, c, "rekey_response")
                        /\ keys[d] = ResponseKeys(c, m)
  BY DEF CatchesUp
<1>2. m \in RekeyResponses /\ handshake[c].role = "rekey"
  BY <1>1, MessageTypes DEF Arrives, CatchesUp
<1>3. /\ handshake[c].old \in Keys /\ handshake[c].ephemeral \in KeyPairs
      /\ Suite[c] \in Suites /\ m.ephemeral \in KeyPairs
  BY <1>2, HandshakeTypes, ConstantsOK DEF RekeyResponses
<1>4. LastNonces(keys[d]) = <<handshake[c].ephemeral, m.ephemeral>>
  BY <1>1, <1>3, LastOfRekey DEF ResponseKeys
<1>5. handshake[c].ephemeral[1] = c
  BY <1>2 DEF FreshInv, OwnEphemeral
<1> QED
  BY <1>2, <1>4, <1>5 DEF Stamp, Awaited

\* A request that is answered is one its sender still waits with: had it left
\* the keys of the request, the ends would differ, and only a channel that asks
\* can be behind; it would have caught up with keys that end with its key pair,
\* and have left exactly these.
LEMMA AnswersWaiting ==
  ASSUME OneSided, SessionInv, ManagersInv, TogetherInv,
         NEW x \in Channels, NEW m \in wire, HandleRekeyRequest(x, m),
         NEW y \in Channels, Paired(x, y)
  PROVE  m.ephemeral[1] = y /\ m.sequence = 0 /\ Waiting(y, m)
<1>1. /\ m.type = "rekey_request" /\ m.mac.key = keys[x]
      /\ m.ephemeral[1] = y /\ handshake[x].role # "rekey"
  BY RequestIsFromPeer, PairedArePeers
<1>2. m.sequence = 0 /\ (Spent(y, keys[x]) \/ Waiting(y, m))
  BY <1>1 DEF ManagersInv, RequestMade
<1>3. ASSUME Spent(y, keys[x]) PROVE FALSE
  <2>1. keys[x] # keys[y]
    BY <1>3 DEF Spent, Paired
  <2>2. CatchesUp(y, x)
    BY <1>1, <2>1 DEF TogetherInv, Together, CatchesUp
  <2>3. Stamp(y, keys[x]) = Awaited(y)
    BY <2>2, CaughtUpStamp
  <2> QED
    BY <1>3, <2>3 DEF Spent
<1> QED
  BY <1>1, <1>2, <1>3

\* An answer leaves its end one step ahead, and is itself what brings the other
\* end there: both derive the new keys from the same exchange and nonces.
LEMMA AnswerTogether ==
  ASSUME OneSided, SessionInv, ManagersInv, TogetherInv,
         NEW x \in Channels, NEW m \in wire, HandleRekeyRequest(x, m),
         NEW y \in Channels, Paired(x, y)
  PROVE  CatchesUp(y, x)'
<1>0. PICK n : n = RekeyResponse(x, m)
  OBVIOUS
<1>1. m.ephemeral[1] = y /\ m.sequence = 0 /\ Waiting(y, m)
  BY AnswersWaiting
<1>2. m.mac.key = keys[x] /\ HasKeys(x)
  BY RequestIsFromPeer
<1>3. Suite[x] = Suite[y] /\ remote[x] = AgentOf[y] /\ x # y
  BY <1>2, PairedArePeers, IsAnEnd DEF Paired
<1>4. /\ handshake[y].role = "rekey" /\ handshake[y].old = keys[x]
      /\ handshake[y].ephemeral = m.ephemeral /\ handshake[y].sequence = 1
  BY <1>1, <1>2 DEF Waiting, ManagersInv, ManagerCurrent
<1>5. n \in wire' /\ handshake' = handshake
  BY <1>0 DEF HandleRekeyRequest, Transmit
<1>6. Arrives(n, y, "rekey_response")
  BY <1>0, <1>3 DEF RekeyResponse, RekeyMsg, Arrives
<1>7. n.mac = Mac(handshake[y].old, Suite[y]) /\ n.sequence = handshake[y].sequence - 1
  BY <1>0, <1>1, <1>3, <1>4 DEF RekeyResponse, RekeyMsg
<1>8. keys'[x] = ResponseKeys(y, n)
  <2>1. keys'[x] = RequestKeys(x, m, Suite[x])
    BY DEF HandleRekeyRequest, ApplyNewKeys, SessionInv, ChannelInv, TypeOK
  <2>2. n.ephemeral = NextEphemeral(x)
    BY <1>0 DEF RekeyResponse, RekeyMsg
  <2>3. DH(NextEphemeral(x), m.ephemeral) = DH(m.ephemeral, NextEphemeral(x))
    BY DEF DH
  <2> QED
    BY <1>3, <1>4, <2>1, <2>2, <2>3 DEF RequestKeys, ResponseKeys
<1>9. keys'[x] = ResponseKeys(y, n)'
  BY <1>5, <1>8 DEF ResponseKeys
<1> QED
  BY <1>4, <1>5, <1>6, <1>7, <1>9 DEF CatchesUp, Arrives

\* The response a channel takes is the one that brings it to the keys of its
\* peer: its signer has left the keys it is signed with, so the peer is ahead,
\* and no other response is signed with them.
LEMMA AdoptTogether ==
  ASSUME OneSided, SessionInv, ManagersInv, TogetherInv,
         NEW x \in Channels, NEW m \in wire, ProcessRekeyResponse(x, m),
         NEW y \in Channels, Paired(x, y)
  PROVE  keys'[x] = keys[y]
<1>1. /\ handshake[x].role = "rekey" /\ Arrives(m, x, "rekey_response")
      /\ m.mac = Mac(handshake[x].old, Suite[x])
      /\ keys'[x] = ResponseKeys(x, m)
  BY DEF ProcessRekeyResponse, ResponseValid, ApplyNewKeys, SessionInv, ChannelInv, TypeOK
<1>2. m.type = "rekey_response" /\ m.mac.key = keys[x] /\ m.ephemeral[1] = y
  BY <1>1, ResponseIsFromPeer, PairedArePeers
<1>3. keys[x] # keys[y]
  BY <1>2 DEF SessionInv, ResponseInv, Spent, Paired
<1>4. ~CatchesUp(y, x)
  BY <1>1, PairedArePeers DEF CatchesUp, ManagersInv, ManagerCurrent, OneSided
<1>5. CatchesUp(x, y)
  BY <1>3, <1>4 DEF TogetherInv, Together
<1>6. PICK m2 \in wire : /\ Arrives(m2, x, "rekey_response")
                         /\ m2.mac = Mac(handshake[x].old, Suite[x])
                         /\ keys[y] = ResponseKeys(x, m2)
  BY <1>5 DEF CatchesUp
<1>7. m2.type = "rekey_response" /\ m2.ephemeral[1] = y
  BY <1>1, <1>6, ResponseIsFromPeer, PairedArePeers
<1>8. m = m2
  BY <1>1, <1>2, <1>6, <1>7 DEF SessionInv, ResponseInv, OneResponsePerKey
<1> QED
  BY <1>1, <1>6, <1>8

\* What was handed to the transport stays with it.
LEMMA WireGrows == ChannelInv /\ [Next]_vars => wire \subseteq wire'
<1> SUFFICES ASSUME ChannelInv, [Next]_vars PROVE wire \subseteq wire'
  OBVIOUS
<1>1. ASSUME NEW c \in Channels,
             \/ Initiate(c) \/ InitiateFails(c) \/ Send(c) \/ SendFails(c)
             \/ TransmitPending(c) \/ Close(c) \/ SendDisconnect(c)
      PROVE  wire \subseteq wire'
  BY <1>1 DEF Initiate, InitiateFails, Send, SendFails, TransmitPending, Close,
              SendDisconnect, Transmit
<1>2. ASSUME NEW c \in Channels, NEW m \in wire,
             \/ RespondToHandshake(c, m) \/ RespondFails(c, m)
             \/ CompleteHandshake(c, m) \/ CompleteFails(c, m)
             \/ Receive(c, m) \/ ReceiveDisconnect(c, m)
             \/ HandleRekeyRequest(c, m) \/ ProcessRekeyResponse(c, m)
      PROVE  wire \subseteq wire'
  BY <1>2 DEF RespondToHandshake, RespondFails, CompleteHandshake, CompleteFails,
              Receive, ReceiveDisconnect, Close, HandleRekeyRequest,
              ProcessRekeyResponse, Transmit
<1>3. CASE Tick \/ UNCHANGED vars
  BY <1>3 DEF Tick, vars
<1> QED
  BY <1>1, <1>2, <1>3 DEF Next

\* An end that is behind stays so, with the response it needs, as long as no end
\* changes keys.
LEMMA CatchesUpKept ==
  ASSUME OneSided, SessionInv, ManagersInv, [Next]_vars,
         NEW c \in Channels, NEW d \in Channels, CatchesUp(c, d),
         keys'[c] = keys[c], keys'[d] = keys[d]
  PROVE  CatchesUp(c, d)'
<1>1. state[c] = "REKEYING"
  BY DEF CatchesUp, SessionInv, ChannelInv, KeysMatchState
<1>2. handshake'[c] = handshake[c] /\ handshake[c].role = "rekey"
  BY <1>1, StepManager DEF ManagerStep, Send, CatchesUp
<1>3. PICK m \in wire :
        /\ Arrives(m, c, "rekey_response")
        /\ m.mac = Mac(handshake[c].old, Suite[c])
        /\ m.sequence = handshake[c].sequence - 1
        /\ keys[d] = ResponseKeys(c, m)
  BY DEF CatchesUp
<1>4. m \in wire' /\ keys'[d] = ResponseKeys(c, m)'
  BY <1>2, <1>3, WireGrows DEF SessionInv, ResponseKeys
<1> QED
  BY <1>2, <1>3, <1>4 DEF CatchesUp, Arrives

\* An end that changes keys stays together with its peer.
LEMMA ChangeTogether ==
  ASSUME OneSided, SessionInv, ManagersInv, TogetherInv, [Next]_vars,
         NEW c \in Channels, NEW d \in Channels, Paired(c, d)', keys'[c] # keys[c]
  PROVE  keys'[c] = keys'[d] \/ CatchesUp(d, c)'
<1>1. PICK m \in wire : /\ Handshakes(c, m) \/ Rekeys(c, m)
                        /\ keys'[d] = keys[d]
  BY KeyChange DEF Paired, SessionInv
<1>2. CASE Handshakes(c, m)
  BY <1>1, <1>2, HandshakeTogether
<1>3. CASE Rekeys(c, m)
  <2>1. PICK shared, i, r : /\ keys'[c] = RekeyKeys(keys[c], shared, i, r, Suite[c])
                            /\ HasKeys(c)
    BY <1>3, RekeyExtends
  <2>2. Paired(c, d)
    BY <1>1, <2>1 DEF Paired, HasKeys, RekeyKeys
  <2> QED
    BY <1>1, <1>3, <2>2, AnswerTogether, AdoptTogether DEF Rekeys
<1> QED
  BY <1>1, <1>2, <1>3

\* No keys initially; a step changes the keys of neither end, or of one.
LEMMA TogetherInductive ==
  ASSUME OneSided
  PROVE  /\ Init => TogetherInv
         /\ SessionInv /\ ManagersInv /\ TogetherInv /\ [Next]_vars => TogetherInv'
<1>1. Init => TogetherInv
  BY DEF Init, TogetherInv, Paired, HasKeys
<1>2. ASSUME SessionInv, ManagersInv, TogetherInv, [Next]_vars,
             NEW c \in Channels, NEW d \in Channels, Paired(c, d)'
      PROVE  Together(c, d)'
  <2>1. CASE keys'[c] # keys[c]
    BY <1>2, <2>1, ChangeTogether DEF Together
  <2>2. CASE keys'[d] # keys[d]
    <3>1. Paired(d, c)'
      BY <1>2 DEF Paired
    <3> QED
      BY <1>2, <2>2, <3>1, ChangeTogether DEF Together
  <2>3. CASE keys'[c] = keys[c] /\ keys'[d] = keys[d]
    <3>1. Together(c, d)
      BY <1>2, <2>3 DEF TogetherInv, Paired, HasKeys
    <3> QED
      BY <1>2, <2>3, <3>1, CatchesUpKept DEF Together
  <2> QED
    BY <2>1, <2>2, <2>3
<1> QED
  BY <1>1, <1>2 DEF TogetherInv

-----------------------------------------------------------------------------
\* Everything above, of every reachable state.
LEMMA AgreementHolds ==
  ASSUME OneSided
  PROVE  Spec => [](SessionInv /\ ManagersInv /\ TogetherInv)
<1>1. SessionInv => ChannelInv
  BY DEF SessionInv
<1> QED
  BY <1>1, SessionInductive, BoundsInductive, ManagersInductive, TogetherInductive,
     PTL DEF Spec

\* While one agent's channels begin all rekeys, the ends of a session have the
\* same keys, or one is REKEYING and the response that brings it to the keys of
\* the other is with the transport.
THEOREM RecoverablyAgree == ASSUME OneSided PROVE Spec => []KeysAgreeOrRecoverable
<1>1. TogetherInv => KeysAgreeOrRecoverable
  BY DEF TogetherInv, Together, CatchesUp, KeysAgreeOrRecoverable
<1> QED
  BY <1>1, AgreementHolds, PTL

\* So two ESTABLISHED ends of a session hold the same keys.
THEOREM EstablishedAgree == ASSUME OneSided PROVE Spec => []EstablishedPeersAgree
<1>1. SessionInv /\ TogetherInv => EstablishedPeersAgree
  BY DEF SessionInv, ChannelInv, KeysMatchState, TogetherInv, Together, CatchesUp,
         EstablishedPeersAgree
<1> QED
  BY <1>1, AgreementHolds, PTL

\* And no rekey loses one before it: keys that change gain exactly one exchange.
THEOREM KeysOnlyExtend == ASSUME OneSided PROVE Spec => KeyChainOnlyExtends
<1> DEFINE Extends(c) ==
             (HasKeys(c) /\ keys'[c] # NoKeys /\ keys'[c] # keys[c]) =>
               /\ keys'[c].base = keys[c].base
               /\ Len(keys'[c].chain) = Len(keys[c].chain) + 1
               /\ SubSeq(keys'[c].chain, 1, Len(keys[c].chain)) = keys[c].chain
<1>1. SessionInv /\ ManagersInv /\ [Next]_vars => [\A c \in Channels : Extends(c)]_vars
  <2> SUFFICES ASSUME SessionInv, ManagersInv, [Next]_vars, NEW c \in Channels,
                      HasKeys(c), keys'[c] # NoKeys, keys'[c] # keys[c]
               PROVE  Extends(c)
    OBVIOUS
  <2>1. PICK m \in wire : Rekeys(c, m)
    BY KeyChange, HandshakeKeys DEF SessionInv, HasKeys
  <2>2. PICK shared \in Secrets, i \in KeyPairs, r \in KeyPairs :
          keys'[c] = RekeyKeys(keys[c], shared, i, r, Suite[c])
    BY <2>1, RekeyExtends
  <2> DEFINE S == [shared : Secrets, nonces : KeyPairs \X KeyPairs, suite : Suites]
             new == [shared |-> shared, nonces |-> <<i, r>>, suite |-> Suite[c]]
             old == keys[c].chain
  <2>3. new \in S /\ old \in Seq(S)
    BY <2>1, RekeyExtends, ConstantsOK DEF Keys
  <2>4. keys'[c].base = keys[c].base /\ keys'[c].chain = Append(old, new)
    BY <2>2 DEF RekeyKeys
  <2> HIDE DEF S, new, old
  <2>5. Len(Append(old, new)) = Len(old) + 1 /\ SubSeq(Append(old, new), 1, Len(old)) = old
    BY <2>3
  <2> QED
    BY <2>4, <2>5 DEF old
<1> QED
  BY <1>1, AgreementHolds, PTL DEF Spec, KeyChainOnlyExtends
=============================================================================
