-------------------------- MODULE RefinementProofs --------------------------
(***************************************************************************)
(* That a session implements what it promises: the refinements that the    *)
(* runs AnyRekey and OneSidedRekey check on small bounds, for any rekey    *)
(* thresholds, bounds, tolerances, suites and pre-shared keys.             *)
(***************************************************************************)
EXTENDS MCEncryptedChannel, AgreementProofs

\* The mappings are about one channel of each of two agents.
TwoEnds == Channels = {a1, b1} /\ a1 # b1 /\ AgentOf[a1] # AgentOf[b1]

-----------------------------------------------------------------------------
(* Ordered delivery *)

\* What was proved of channels, without what is known of rekeys.
DeliveringInv == ChannelInv /\ AgreementInv /\ DeliveryInv

\* Only send counts a message, one at a time, and it delivers none.
LEMMA StepSends ==
  ASSUME ChannelInv, [Next]_vars, NEW s \in Channels, NEW r \in Channels
  PROVE  \/ sendCounter'[s] = sendCounter[s]
         \/ sendCounter'[s] = sendCounter[s] + 1 /\ delivered'[r] = delivered[r]
<1> USE DEF ChannelInv, TypeOK
<1>1. ASSUME NEW c \in Channels,
             \/ Initiate(c) \/ InitiateFails(c) \/ Send(c) \/ SendFails(c)
             \/ TransmitPending(c) \/ Close(c) \/ SendDisconnect(c)
      PROVE  \/ sendCounter'[s] = sendCounter[s]
             \/ sendCounter'[s] = sendCounter[s] + 1 /\ delivered'[r] = delivered[r]
  <2>1. CASE Send(c)
    BY <2>1 DEF Send
  <2>2. CASE ~Send(c)
    BY <1>1, <2>2
    DEF Initiate, InitiateFails, SendFails, TransmitPending, Close, SendDisconnect
  <2> QED
    BY <2>1, <2>2
<1>2. ASSUME NEW c \in Channels, NEW m \in wire,
             \/ RespondToHandshake(c, m) \/ RespondFails(c, m)
             \/ CompleteHandshake(c, m) \/ CompleteFails(c, m)
             \/ Receive(c, m) \/ ReceiveDisconnect(c, m)
             \/ HandleRekeyRequest(c, m) \/ ProcessRekeyResponse(c, m)
      PROVE  sendCounter' = sendCounter
  BY <1>2 DEF RespondToHandshake, RespondFails, CompleteHandshake, CompleteFails,
              Receive, ReceiveDisconnect, Close, HandleRekeyRequest, ProcessRekeyResponse
<1>3. CASE Tick \/ UNCHANGED vars
  BY <1>3 DEF Tick, vars
<1> QED
  BY <1>1, <1>2, <1>3 DEF Next

\* A message that is received has a number its sender has reached, above all
\* received before.
LEMMA ReceiveDelivers ==
  ASSUME DeliveringInv, NEW s \in Channels, NEW r \in Channels, Channels = {s, r},
         NEW m \in wire, Receive(r, m)
  PROVE  /\ m.counter \in 1 .. sendCounter[s]
         /\ \A i \in DOMAIN CountersOf(r) : CountersOf(r)[i] < m.counter
         /\ CountersOf(r)' = Append(CountersOf(r), m.counter)
         /\ sendCounter'[s] = sendCounter[s]
<1> USE DEF DeliveringInv, ChannelInv, TypeOK
<1>1. m \in Encrypteds /\ m.type = "encrypted" /\ m.key = keys[r] /\ m.to = AgentOf[r]
  BY MessageTypes DEF Receive, Arrives, Accepts, Opens
<1>2. HasKeys(r)
  BY DEF Receive, KeysMatchState
<1>3. /\ PeerOf(r) = s /\ AgentOf[r] # AgentOf[s]
      /\ {InitiatorOf(keys[r]), ResponderOf(keys[r])} = {r, s}
  BY <1>2, PeerIsOtherEnd
<1>4. m.counter <= sendCounter[s]
  BY <1>1, <1>3 DEF DeliveryInv, EncryptedMade
<1>5. /\ m.counter > recvCounter[r] /\ sendCounter' = sendCounter
      /\ delivered'[r] = Append(delivered[r], <<m.from, m.counter>>)
  BY DEF Receive, Accepts
<1>6. m.counter \in Nat /\ recvCounter[r] \in Nat /\ sendCounter[s] \in Nat
  BY <1>1 DEF Encrypteds
<1>7. \A i \in DOMAIN delivered[r] : delivered[r][i][2] <= recvCounter[r]
  BY DEF DeliveryInv, ReceivedUpTo
<1> DEFINE old == delivered[r]
           e == <<m.from, m.counter>>
<1>8. old \in Seq(Agents \X Nat) /\ e \in Agents \X Nat /\ e[2] = m.counter
  BY <1>1 DEF Encrypteds
<1>9. \A i \in DOMAIN old : old[i][2] \in Nat
  <2>1. \A i \in DOMAIN old : old[i] \in Agents \X Nat
    BY <1>8
  <2> QED
    BY <2>1
<1>10. CountersOf(r) = [i \in DOMAIN old |-> old[i][2]]
  BY DEF CountersOf
<1>11. CountersOf(r)' = [i \in DOMAIN Append(old, e) |-> Append(old, e)[i][2]]
  BY <1>5 DEF CountersOf
<1> HIDE DEF old, e
<1>12. [i \in DOMAIN Append(old, e) |-> Append(old, e)[i][2]]
         = Append([i \in DOMAIN old |-> old[i][2]], m.counter)
  <2> DEFINE got == [i \in DOMAIN old |-> old[i][2]]
             got1 == [i \in DOMAIN Append(old, e) |-> Append(old, e)[i][2]]
  <2>1. PICK k \in Nat : k = Len(old) /\ DOMAIN old = 1 .. k
    BY <1>8
  <2>2. got \in Seq(Nat) /\ Len(got) = k /\ DOMAIN got = 1 .. k
    BY <1>9, <2>1
  <2>3. DOMAIN Append(old, e) = 1 .. (k + 1) /\ Append(old, e)[k + 1] = e
    BY <1>8, <2>1
  <2>4. \A i \in 1 .. k : Append(old, e)[i] = old[i]
    BY <1>8, <2>1
  <2>5. /\ DOMAIN Append(got, m.counter) = 1 .. (k + 1)
        /\ Append(got, m.counter)[k + 1] = m.counter
        /\ \A i \in 1 .. k : Append(got, m.counter)[i] = got[i]
    BY <1>6, <2>2
  <2>6. \A i \in 1 .. (k + 1) : got1[i] = Append(got, m.counter)[i]
    <3>1. \A i \in 1 .. (k + 1) : i \in 1 .. k \/ i = k + 1
      OBVIOUS
    <3>2. got1[k + 1] = m.counter
      BY <1>8, <2>3
    <3>3. \A i \in 1 .. k : got1[i] = old[i][2] /\ got[i] = old[i][2]
      BY <2>1, <2>3, <2>4
    <3> QED
      BY <2>5, <3>1, <3>2, <3>3
  <2>7. /\ got1 = [i \in 1 .. (k + 1) |-> got1[i]]
        /\ Append(got, m.counter) = [i \in 1 .. (k + 1) |-> Append(got, m.counter)[i]]
    BY <1>6, <2>2, <2>3
  <2> QED
    BY <2>6, <2>7
<1>13. \A i \in DOMAIN CountersOf(r) : CountersOf(r)[i] < m.counter
  BY <1>5, <1>6, <1>7, <1>9, <1>10 DEF old
<1> QED
  BY <1>4, <1>5, <1>6, <1>10, <1>11, <1>12, <1>13

\* One step of a channel is a step of ordered delivery from s to r.
LEMMA DeliveryStep ==
  ASSUME DeliveringInv, [Next]_vars,
         NEW s \in Channels, NEW r \in Channels, Channels = {s, r}
  PROVE  \/ sendCounter'[s] = sendCounter[s] + 1 /\ CountersOf(r)' = CountersOf(r)
         \/ /\ \E n \in 1 .. sendCounter[s] :
                 /\ \A i \in DOMAIN CountersOf(r) : CountersOf(r)[i] < n
                 /\ CountersOf(r)' = Append(CountersOf(r), n)
            /\ sendCounter'[s] = sendCounter[s]
         \/ sendCounter'[s] = sendCounter[s] /\ CountersOf(r)' = CountersOf(r)
<1>1. delivered'[r] = delivered[r] => CountersOf(r)' = CountersOf(r)
  BY DEF CountersOf
<1>2. CASE delivered'[r] = delivered[r]
  BY <1>1, <1>2, StepSends DEF DeliveringInv
<1>3. CASE delivered'[r] # delivered[r]
  <2>1. PICK m \in wire : Receive(r, m)
    BY <1>3, StepCounters DEF DeliveringInv
  <2> QED
    BY <2>1, ReceiveDelivers
<1> QED
  BY <1>2, <1>3

\* Each direction of a session delivers what was sent, at most once and in
\* order: handshakes, rekeys of either end, closing and the transport do not
\* show, they only lose.
THEOREM SessionDelivers == ASSUME TwoEnds PROVE Spec => DeliveryRefined
<1>1. Init => AtoB!Init /\ BtoA!Init
  BY DEF Init, TwoEnds, AtoB!Init, BtoA!Init, CountersOf
<1>2. DeliveringInv /\ [Next]_vars => [AtoB!Next]_<<sendCounter[a1], CountersOf(b1)>>
  <2> SUFFICES ASSUME DeliveringInv, [Next]_vars
               PROVE  [AtoB!Next]_<<sendCounter[a1], CountersOf(b1)>>
    OBVIOUS
  <2> QED
    BY DeliveryStep DEF TwoEnds, AtoB!Next, AtoB!Send, AtoB!Deliver
<1>3. DeliveringInv /\ [Next]_vars => [BtoA!Next]_<<sendCounter[b1], CountersOf(a1)>>
  <2> SUFFICES ASSUME DeliveringInv, [Next]_vars
               PROVE  [BtoA!Next]_<<sendCounter[b1], CountersOf(a1)>>
    OBVIOUS
  <2> QED
    BY DeliveryStep DEF TwoEnds, BtoA!Next, BtoA!Send, BtoA!Deliver
<1>4. Spec => []DeliveringInv
  <2>1. /\ Init => DeliveringInv
        /\ DeliveringInv /\ [Next]_vars => DeliveringInv'
    BY ChannelInvInit, ChannelInvStep, AgreementInductive, DeliveryInductive
    DEF DeliveringInv
  <2> QED
    BY <2>1, PTL DEF Spec
<1> QED
  BY <1>1, <1>2, <1>3, <1>4, PTL DEF Spec, DeliveryRefined, AtoB!Spec, BtoA!Spec

-----------------------------------------------------------------------------
(* Key agreement *)

\* Of the two ends, a1 calls initiate and only a1 finds rekeys due.
OneAsks == TwoEnds /\ Initiators = {a1} /\ NeverDue(b1)

\* Handshakes begin at Initiators.
BegunInv ==
  /\ \A m \in wire : m.type = "hello" => m.share.ephemeral[1] \in Initiators
  /\ \A c \in Channels :
       /\ state[c] = "HANDSHAKING" => c \in Initiators
       /\ HasKeys(c) => InitiatorOf(keys[c]) \in Initiators

\* Everything the mapping of key agreement rests on.
RefinementInv == SessionInv /\ ManagersInv /\ TogetherInv /\ BegunInv

\* Only initiate makes a Hello or begins to handshake.
LEMMA StepBegins ==
  ASSUME ChannelInv, BegunInv, [Next]_vars
  PROVE  /\ \A m \in wire' : m.type = "hello" => m.share.ephemeral[1] \in Initiators
         /\ \A d \in Channels : state'[d] = "HANDSHAKING" => d \in Initiators
<1> USE DEF ChannelInv, TypeOK, BegunInv, Transmit
<1>1. ASSUME NEW c \in Channels,
             \/ Initiate(c) \/ InitiateFails(c) \/ Send(c) \/ SendFails(c)
             \/ TransmitPending(c) \/ Close(c) \/ SendDisconnect(c)
      PROVE  /\ \A m \in wire' : m.type = "hello" => m.share.ephemeral[1] \in Initiators
             /\ \A d \in Channels : state'[d] = "HANDSHAKING" => d \in Initiators
  <2>1. CASE Initiate(c)
    BY <2>1 DEF Initiate, HelloMsg, Share
  <2>2. CASE Send(c)
    BY <2>2 DEF Send, InitiateRekey, EncryptedMsg
  <2>3. CASE TransmitPending(c) \/ SendDisconnect(c)
    BY <2>3 DEF TransmitPending, RekeyRequests, SendDisconnect, DisconnectMsg
  <2>4. CASE InitiateFails(c) \/ SendFails(c) \/ Close(c)
    BY <2>4 DEF InitiateFails, SendFails, Close
  <2> QED
    BY <1>1, <2>1, <2>2, <2>3, <2>4
<1>2. ASSUME NEW c \in Channels, NEW h \in wire,
             \/ RespondToHandshake(c, h) \/ RespondFails(c, h)
             \/ CompleteHandshake(c, h) \/ CompleteFails(c, h)
             \/ Receive(c, h) \/ ReceiveDisconnect(c, h)
             \/ HandleRekeyRequest(c, h) \/ ProcessRekeyResponse(c, h)
      PROVE  /\ \A m \in wire' : m.type = "hello" => m.share.ephemeral[1] \in Initiators
             /\ \A d \in Channels : state'[d] = "HANDSHAKING" => d \in Initiators
  <2>1. CASE RespondToHandshake(c, h)
    BY <2>1 DEF RespondToHandshake, AuthMsg
  <2>2. CASE HandleRekeyRequest(c, h)
    BY <2>2 DEF HandleRekeyRequest, RekeyResponse, RekeyMsg
  <2>3. CASE RespondFails(c, h) \/ CompleteHandshake(c, h) \/ CompleteFails(c, h)
    BY <2>3 DEF RespondFails, CompleteHandshake, CompleteFails
  <2>4. CASE Receive(c, h) \/ ReceiveDisconnect(c, h) \/ ProcessRekeyResponse(c, h)
    BY <2>4 DEF Receive, ReceiveDisconnect, Close, ProcessRekeyResponse
  <2> QED
    BY <1>2, <2>1, <2>2, <2>3, <2>4
<1>3. CASE Tick \/ UNCHANGED vars
  BY <1>3 DEF Tick, vars
<1> QED
  BY <1>1, <1>2, <1>3 DEF Next

\* The initiator of keys that a handshake ends with is the one of its Hello, or
\* the channel that was HANDSHAKING; rekeys keep it.
LEMMA BegunInductive ==
  /\ Init => BegunInv
  /\ SessionInv /\ ManagersInv /\ BegunInv /\ [Next]_vars => BegunInv'
<1>1. Init => BegunInv
  BY DEF Init, BegunInv, HasKeys
<1>2. ASSUME SessionInv, ManagersInv, BegunInv, [Next]_vars PROVE BegunInv'
  <2> USE <1>2 DEF SessionInv
  <2>1. ASSUME NEW c \in Channels, HasKeys(c)' PROVE InitiatorOf(keys'[c]) \in Initiators
    <3>1. CASE keys'[c] = keys[c]
      BY <2>1, <3>1 DEF BegunInv, HasKeys
    <3>2. CASE keys'[c] # keys[c]
      <4>1. PICK m \in wire : Handshakes(c, m) \/ Rekeys(c, m)
        BY <2>1, <3>2, KeyChange
      <4>2. CASE RespondToHandshake(c, m)
        <5>1. keys'[c].base.nonces[1] = m.share.ephemeral
          BY <4>2 DEF RespondToHandshake, ResponderKeys, DeriveTripleDH, ChannelInv, TypeOK
        <5>2. m.type = "hello"
          BY <4>2 DEF RespondToHandshake, Arrives
        <5> QED
          BY <5>1, <5>2 DEF BegunInv, InitiatorOf
      <4>3. CASE CompleteHandshake(c, m)
        <5>1. keys'[c].base.nonces[1] = handshake[c].share.ephemeral
          BY <4>3 DEF CompleteHandshake, KeysFromAuth, InitiatorKeys, DeriveTripleDH,
                      ChannelInv, TypeOK
        <5>2. handshake[c].share.ephemeral[1] = c /\ state[c] = "HANDSHAKING"
          BY <4>3 DEF CompleteHandshake, ChannelInv, KeysMatchState, AgreementInv, OwnHandshake
        <5> QED
          BY <5>1, <5>2 DEF BegunInv, InitiatorOf
      <4>4. CASE Rekeys(c, m)
        <5>1. PICK shared, i, r : /\ keys'[c] = RekeyKeys(keys[c], shared, i, r, Suite[c])
                                  /\ HasKeys(c)
          BY <4>4, RekeyExtends
        <5> QED
          BY <5>1 DEF BegunInv, InitiatorOf, RekeyKeys
      <4> QED
        BY <4>1, <4>2, <4>3, <4>4 DEF Handshakes
    <3> QED
      BY <3>1, <3>2
  <2> QED
    BY <2>1, StepBegins DEF BegunInv
<1> QED
  BY <1>1, <1>2

\* When a1 has keys, b1 has keys of the same handshake or was closed, and it
\* never waits for a response.
LEMMA RequesterAgreed ==
  ASSUME OneAsks, RefinementInv
  PROVE  /\ HasKeys(a1) => Paired(a1, b1) \/ state[b1] = "CLOSED"
         /\ handshake[b1].role # "rekey"
         /\ HasKeys(a1) /\ handshake[a1].role # "rekey" =>
              state[b1] = "CLOSED" \/ keys[a1] = keys[b1]
<1>1. a1 \in Channels /\ b1 \in Channels /\ a1 # b1
  BY DEF OneAsks, TwoEnds
<1>2. handshake[b1].role # "rekey"
  BY <1>1 DEF OneAsks, RefinementInv, ManagersInv, ManagerCurrent
<1>3. ASSUME HasKeys(a1) PROVE Paired(a1, b1) \/ state[b1] = "CLOSED"
  <2>1. InitiatorOf(keys[a1]) = a1
    BY <1>1, <1>3 DEF OneAsks, RefinementInv, BegunInv
  <2>2. ResponderOf(keys[a1]) = b1
    <3>1. PeerOf(a1) \in {a1, b1} /\ {InitiatorOf(keys[a1]), ResponderOf(keys[a1])} = {a1, PeerOf(a1)}
      BY <1>1, <1>3, IsAnEnd DEF OneAsks, TwoEnds, RefinementInv
    <3>2. PeerOf(a1) # a1
      BY <1>1, <1>3, IsAnEnd DEF RefinementInv
    <3> QED
      BY <2>1, <3>1, <3>2
  <2>3. Agreed(a1, a1, b1)
    BY <1>1, <1>3, <2>1, <2>2
    DEF RefinementInv, SessionInv, AgreementInv, HandshakeAgreement
  <2> QED
    BY <2>3 DEF Agreed
<1>4. ASSUME Paired(a1, b1), handshake[a1].role # "rekey" PROVE keys[a1] = keys[b1]
  BY <1>1, <1>2, <1>4 DEF RefinementInv, TogetherInv, Together, CatchesUp
<1> QED
  BY <1>2, <1>3, <1>4

\* Channels of two agents of which one never finds rekeys due are one-sided.
LEMMA AsksOneSided == OneAsks => OneSided
BY DEF OneAsks, TwoEnds, OneSided

\* The keys of the two ends, and what else the mapping shows of them.
Shown == <<keys[a1], keys[b1], state[b1] = "CLOSED", handshake[a1].role = "rekey">>

\* The steps that change no keys and no RekeyManager do not show.
LEMMA QuietStep ==
  ASSUME OneAsks, ChannelInv, NEW c \in Channels,
         \/ Initiate(c) \/ InitiateFails(c) \/ (Send(c) /\ ~RekeyDue(c)) \/ SendFails(c)
         \/ TransmitPending(c) \/ SendDisconnect(c)
         \/ \E m \in wire : RespondFails(c, m) \/ CompleteFails(c, m) \/ Receive(c, m)
  PROVE  UNCHANGED Shown
<1> USE DEF OneAsks, TwoEnds, ChannelInv, TypeOK, KeysMatchState
<1>1. keys' = keys
  BY DEF Initiate, InitiateFails, Send, SendFails, TransmitPending, SendDisconnect,
         RespondFails, CompleteFails, Receive
<1>2. (handshake'[a1].role = "rekey") = (handshake[a1].role = "rekey")
  <2>1. CASE Initiate(c)
    BY <2>1 DEF Initiate
  <2>2. CASE ~Initiate(c)
    BY <2>2 DEF InitiateFails, Send, SendFails, TransmitPending, SendDisconnect,
                RespondFails, CompleteFails, Receive
  <2> QED
    BY <2>1, <2>2
<1>3. (state'[b1] = "CLOSED") = (state[b1] = "CLOSED")
  <2>1. CASE Initiate(c) \/ InitiateFails(c)
    BY <2>1 DEF Initiate, InitiateFails
  <2>2. CASE (Send(c) /\ ~RekeyDue(c)) \/ SendFails(c) \/ TransmitPending(c) \/ SendDisconnect(c)
    BY <2>2 DEF Send, SendFails, TransmitPending, SendDisconnect
  <2>3. CASE \E m \in wire : RespondFails(c, m) \/ CompleteFails(c, m) \/ Receive(c, m)
    BY <2>3 DEF RespondFails, CompleteFails, Receive
  <2> QED
    BY <2>1, <2>2, <2>3
<1> QED
  BY <1>1, <1>2, <1>3 DEF Shown

\* The channel that answers the Hello is b1, before a1 has keys.
LEMMA RespondOpens ==
  ASSUME OneAsks, RefinementInv, NEW c \in Channels, NEW m \in wire,
         RespondToHandshake(c, m)
  PROVE  Agreement!Open
<1> USE DEF OneAsks, TwoEnds, RefinementInv, SessionInv, ChannelInv, TypeOK
<1>1. m.type = "hello" /\ m.from # AgentOf[c] /\ m.from = AgentOf[m.share.ephemeral[1]]
  BY DEF RespondToHandshake, Arrives, AgreementInv, HelloMade
<1>2. c = b1
  BY <1>1 DEF BegunInv
<1>3. state[b1] = "IDLE" /\ keys[b1] = NoKeys
  BY <1>2 DEF RespondToHandshake, KeysMatchState, HasKeys
<1>4. keys[a1] = NoKeys
  BY <1>3, RequesterAgreed DEF Paired, HasKeys
<1>5. keys'[b1] # NoKeys
  BY <1>2, ChannelInvStep DEF Next, RespondToHandshake, KeysMatchState, HasKeys
<1>6. /\ keys'[a1] = keys[a1] /\ handshake'[a1] = handshake[a1]
      /\ state'[b1] = "ESTABLISHED"
  BY <1>2 DEF RespondToHandshake
<1> QED
  BY <1>3, <1>4, <1>5, <1>6 DEF Agreement!Open

\* The channel that completes the handshake is a1.
LEMMA CompleteJoins ==
  ASSUME OneAsks, RefinementInv, NEW c \in Channels, NEW m \in wire,
         CompleteHandshake(c, m), RefinementInv'
  PROVE  Agreement!Join
<1> USE DEF OneAsks, TwoEnds, RefinementInv, SessionInv, ChannelInv, TypeOK
<1>1. c = a1
  BY DEF CompleteHandshake, BegunInv
<1>2. keys[a1] = NoKeys /\ handshake[a1].role # "rekey"
  BY <1>1 DEF CompleteHandshake, KeysMatchState, HasKeys
<1>3. /\ keys'[b1] = keys[b1] /\ state'[b1] = state[b1]
      /\ handshake'[a1].role # "rekey"
  BY <1>1 DEF CompleteHandshake, NoHandshake
<1>4. keys'[a1] # NoKeys
  BY <1>1, ChannelInvStep DEF Next, CompleteHandshake, KeysMatchState, HasKeys
<1>5. state'[b1] = "CLOSED" \/ keys'[a1] = keys'[b1]
  <2>1. (HasKeys(a1) /\ handshake[a1].role # "rekey" =>
           state[b1] = "CLOSED" \/ keys[a1] = keys[b1])'
    BY RequesterAgreed, PTL
  <2> QED
    BY <1>3, <1>4, <2>1 DEF HasKeys
<1> QED
  BY <1>2, <1>3, <1>4, <1>5 DEF Agreement!Join

\* The channel whose rekey is due is a1, and then the keys are the same.
LEMMA SendAsks ==
  ASSUME OneAsks, RefinementInv, WithinBounds, NEW c \in Channels,
         Send(c), RekeyDue(c)
  PROVE  Agreement!Ask
<1> USE DEF OneAsks, TwoEnds, RefinementInv, SessionInv, ChannelInv, TypeOK
<1>1. HasKeys(c) /\ state[c] = "ESTABLISHED"
  BY DEF Send, KeysMatchState
<1>2. c = a1
  BY <1>1, DueIsNotNever
<1>3. HasKeys(a1) /\ handshake[a1].role # "rekey"
  BY <1>1, <1>2 DEF KeysMatchState
<1>4. state[b1] = "CLOSED" \/ keys[a1] = keys[b1]
  BY <1>3, RequesterAgreed
<1>5. /\ keys' = keys /\ state'[b1] = state[b1]
      /\ handshake'[a1] = RekeyManager(keys[a1], NextEphemeral(a1), 1)
  BY <1>2 DEF Send, InitiateRekey
<1>6. handshake'[a1].role = "rekey"
  BY <1>5 DEF RekeyManager
<1> QED
  BY <1>3, <1>4, <1>5, <1>6 DEF Agreement!Ask, HasKeys

\* The channel that answers a request is b1, and a1 waits with the same keys.
LEMMA HandleAnswers ==
  ASSUME OneAsks, RefinementInv, NEW c \in Channels, NEW m \in wire,
         HandleRekeyRequest(c, m)
  PROVE  Agreement!Answer
<1> USE DEF OneAsks, TwoEnds, RefinementInv, SessionInv, ChannelInv, TypeOK
<1>1. OneSided
  BY AsksOneSided
<1>2. m.type = "rekey_request" /\ m.ephemeral[1] = PeerOf(c) /\ HasKeys(c)
  BY <1>1, RequestIsFromPeer
<1>3. ~NeverDue(PeerOf(c)) /\ PeerOf(c) \in Channels /\ PeerOf(c) # c
  BY <1>2, IsAnEnd DEF ManagersInv, RequestMade
<1>4. c = b1
  BY <1>3
<1>5. keys[b1] # NoKeys /\ state[b1] # "CLOSED"
  BY <1>2, <1>4 DEF HasKeys, KeysMatchState
<1>6. keys[a1] # NoKeys => handshake[a1].role = "rekey" /\ keys[a1] = keys[b1]
  <2> SUFFICES ASSUME keys[a1] # NoKeys
               PROVE  handshake[a1].role = "rekey" /\ keys[a1] = keys[b1]
    OBVIOUS
  <2>1. Paired(b1, a1)
    BY <1>5, RequesterAgreed DEF HasKeys, Paired
  <2>2. Waiting(a1, m) /\ m.mac.key = keys[b1]
    BY <1>1, <1>4, <2>1, AnswersWaiting, RequestIsFromPeer
  <2> QED
    BY <2>2 DEF Waiting, ManagersInv, ManagerCurrent
<1>7. keys'[b1] # keys[b1] /\ keys'[b1] # NoKeys
  <2>1. keys'[b1] # keys[b1]
    <3>1. Stamp(c, keys'[c]) = draws[c] + 1
      BY AnswerDraws
    <3>2. Stamp(c, keys[c]) \in 1 .. draws[c] /\ draws[c] \in Nat
      BY <1>2 DEF FreshInv, FreshKeys
    <3> QED
      BY <1>4, <3>1, <3>2
  <2>2. keys'[b1] # NoKeys
    BY <1>2, <1>4, ChannelInvStep DEF Next, HandleRekeyRequest, KeysMatchState, HasKeys
  <2> QED
    BY <2>1, <2>2
<1>8. keys'[a1] = keys[a1] /\ handshake' = handshake /\ state' = state
  BY <1>4 DEF HandleRekeyRequest, ApplyNewKeys
<1> QED
  BY <1>5, <1>6, <1>7, <1>8 DEF Agreement!Answer

\* The channel that takes a response is a1, and comes to the keys of b1.
LEMMA ProcessAdopts ==
  ASSUME OneAsks, RefinementInv, NEW c \in Channels, NEW m \in wire,
         ProcessRekeyResponse(c, m)
  PROVE  Agreement!Adopt
<1> USE DEF OneAsks, TwoEnds, RefinementInv, SessionInv, ChannelInv, TypeOK
<1>1. handshake[c].role = "rekey"
  BY DEF ProcessRekeyResponse
<1>2. c = a1
  BY <1>1, RequesterAgreed
<1>3. keys'[a1] # keys[a1] /\ HasKeys(a1)
  BY <1>2, AdoptionChangesKeys
<1>4. keys'[a1] # NoKeys
  BY <1>2, ChannelInvStep DEF Next, ProcessRekeyResponse, KeysMatchState, HasKeys
<1>5. state[b1] = "CLOSED" \/ keys'[a1] = keys[b1]
  BY <1>2, <1>3, RequesterAgreed, AsksOneSided, AdoptTogether
<1>6. /\ keys'[b1] = keys[b1] /\ state'[b1] = state[b1]
      /\ handshake'[a1].role # "rekey"
  BY <1>2 DEF ProcessRekeyResponse, ApplyNewKeys, NoHandshake
<1> QED
  BY <1>1, <1>2, <1>3, <1>4, <1>5, <1>6 DEF Agreement!Adopt

\* Closing an end is closing it.
LEMMA CloseCloses ==
  ASSUME OneAsks, ChannelInv, NEW c \in Channels, Close(c)
  PROVE  Agreement!CloseRequester \/ Agreement!CloseResponder
<1> USE DEF OneAsks, TwoEnds, ChannelInv, TypeOK
<1>1. CASE c = a1
  <2>1. /\ keys'[a1] = NoKeys /\ keys'[b1] = keys[b1] /\ state'[b1] = state[b1]
        /\ handshake'[a1].role # "rekey"
    BY <1>1 DEF Close, NoHandshake
  <2> QED
    BY <2>1 DEF Agreement!CloseRequester
<1>2. CASE c = b1
  <2>1. /\ keys'[b1] = NoKeys /\ keys'[a1] = keys[a1] /\ state'[b1] = "CLOSED"
        /\ handshake'[a1] = handshake[a1]
    BY <1>2 DEF Close
  <2> QED
    BY <2>1 DEF Agreement!CloseResponder
<1> QED
  BY <1>1, <1>2

\* Each step of the session is a step of key agreement, or does not show.
LEMMA AgreementStep ==
  ASSUME OneAsks, RefinementInv, WithinBounds, [Next]_vars, RefinementInv'
  PROVE  Agreement!Next \/ UNCHANGED Shown
<1>0. ChannelInv
  BY DEF RefinementInv, SessionInv
<1>1. ASSUME NEW c \in Channels,
             \/ Initiate(c) \/ InitiateFails(c) \/ Send(c) \/ SendFails(c)
             \/ TransmitPending(c) \/ Close(c) \/ SendDisconnect(c)
      PROVE  Agreement!Next \/ UNCHANGED Shown
  <2>1. CASE Send(c) /\ RekeyDue(c)
    BY <2>1, SendAsks DEF Agreement!Next
  <2>2. CASE Close(c)
    BY <1>0, <2>2, CloseCloses DEF Agreement!Next
  <2>3. CASE ~(Send(c) /\ RekeyDue(c)) /\ ~Close(c)
    <3>1. \/ Initiate(c) \/ InitiateFails(c) \/ (Send(c) /\ ~RekeyDue(c)) \/ SendFails(c)
          \/ TransmitPending(c) \/ SendDisconnect(c)
      BY <1>1, <2>3
    <3> QED
      BY <1>0, <3>1, QuietStep
  <2> QED
    BY <2>1, <2>2, <2>3
<1>2. ASSUME NEW c \in Channels, NEW m \in wire,
             \/ RespondToHandshake(c, m) \/ RespondFails(c, m)
             \/ CompleteHandshake(c, m) \/ CompleteFails(c, m)
             \/ Receive(c, m) \/ ReceiveDisconnect(c, m)
             \/ HandleRekeyRequest(c, m) \/ ProcessRekeyResponse(c, m)
      PROVE  Agreement!Next \/ UNCHANGED Shown
  <2>1. CASE RespondToHandshake(c, m)
    BY <2>1, RespondOpens DEF Agreement!Next
  <2>2. CASE CompleteHandshake(c, m)
    BY <2>2, CompleteJoins DEF Agreement!Next
  <2>3. CASE ReceiveDisconnect(c, m)
    BY <1>0, <2>3, CloseCloses DEF ReceiveDisconnect, Agreement!Next
  <2>4. CASE HandleRekeyRequest(c, m)
    BY <2>4, HandleAnswers DEF Agreement!Next
  <2>5. CASE ProcessRekeyResponse(c, m)
    BY <2>5, ProcessAdopts DEF Agreement!Next
  <2>6. CASE RespondFails(c, m) \/ CompleteFails(c, m) \/ Receive(c, m)
    BY <1>0, <2>6, QuietStep
  <2> QED
    BY <1>2, <2>1, <2>2, <2>3, <2>4, <2>5, <2>6
<1>3. CASE Tick \/ UNCHANGED vars
  BY <1>3 DEF Tick, vars, Shown
<1> QED
  BY <1>1, <1>2, <1>3 DEF Next

\* With one end requesting, the two ends of a session move through the same
\* keys: the responding end is at most one answered request ahead, and the
\* requesting end takes no other keys than it holds.
THEOREM SessionAgrees == ASSUME OneAsks PROVE Spec => AgreementRefined
<1>1. Init => Agreement!Init
  BY DEF Init, OneAsks, TwoEnds, Agreement!Init, NoHandshake
<1>2. /\ Init => RefinementInv /\ WithinBounds
      /\ RefinementInv /\ WithinBounds /\ [Next]_vars => RefinementInv' /\ WithinBounds'
  BY AsksOneSided, SessionInductive, BoundsInductive, ManagersInductive,
     TogetherInductive, BegunInductive DEF RefinementInv, SessionInv
<1>3. RefinementInv /\ WithinBounds /\ [Next]_vars /\ RefinementInv'
        => [Agreement!Next]_Shown
  BY AgreementStep
<1>4. Agreement!vars = Shown
  BY DEF Agreement!vars, Shown
<1>5. Spec => [][Agreement!Next]_Shown
  BY <1>2, <1>3, PTL DEF Spec
<1> QED
  BY <1>1, <1>4, <1>5, PTL DEF Spec, AgreementRefined, Agreement!Spec, Agreement!vars, Shown
=============================================================================
