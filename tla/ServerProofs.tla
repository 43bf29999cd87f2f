---------------------------- MODULE ServerProofs ----------------------------
(***************************************************************************)
(* Theorems about the MCP servers, for any number of agents, processes and *)
(* cipher suites, any thresholds and any bounds: type correctness, and     *)
(* what becomes of a session whose keys sip_rekey rotates.                 *)
(***************************************************************************)
EXTENDS SipMcpServer, EncryptedChannelProofs

-----------------------------------------------------------------------------
(* Type correctness *)

ServerInv == ServersTypeOK /\ KeysMatchState

\* The channel of the process that runs is one of the agent's.
LEMMA ChannelType ==
  ASSUME ServersTypeOK, NEW s \in Agents
  PROVE  Channel(s) \in Channels /\ AgentOf[Channel(s)] = s
BY ProcessesOK DEF ServersTypeOK, Channel

\* What the three channel tools do is a step of the channel.
ChannelCall(c) ==
  \/ Initiate(c) \/ InitiateFails(c) \/ Send(c)
  \/ \E m \in wire :
       \/ RespondToHandshake(c, m) \/ RespondFails(c, m)
       \/ CompleteHandshake(c, m) \/ CompleteFails(c, m)
       \/ Receive(c, m)

\* The steps of the servers, told by what they do to a channel.
LEMMA StepCases ==
  ASSUME ServersTypeOK, [ServerNext]_serverVars
  PROVE  \/ \E c \in Channels :
              ChannelCall(c) /\ UNCHANGED <<running, rekeyManager>>
         \/ \E s \in Agents : EncryptFails(s)
         \/ \E s \in Agents :
              state[Channel(s)] = "ESTABLISHED" /\ RekeyInitiator(s)
         \/ \E s \in Agents, m \in wire :
              state[Channel(s)] = "ESTABLISHED" /\ RekeyResponder(s, m)
         \/ \E s \in Agents : Restart(s)
         \/ TimePasses
         \/ UNCHANGED serverVars
<1>1. ASSUME NEW s \in Agents, SipHandshake(s)
      PROVE  \E c \in Channels :
               ChannelCall(c) /\ UNCHANGED <<running, rekeyManager>>
  BY <1>1, ChannelType
  DEF SipHandshake, HandshakeInitiator, HandshakeResponder, HandshakeComplete,
      ChannelCall
<1>2. ASSUME NEW s \in Agents, Encrypt(s) \/ \E m \in wire : Decrypt(s, m)
      PROVE  \E c \in Channels :
               ChannelCall(c) /\ UNCHANGED <<running, rekeyManager>>
  BY <1>2, ChannelType DEF Encrypt, Decrypt, ChannelCall
<1> QED
  BY <1>1, <1>2 DEF ServerNext, ToolsCall, SipRekey

\* The messages of sip_rekey have the types of the library's.
LEMMA ToolMessagesBuilt ==
  ASSUME TypeOK, NEW c \in Channels, keys[c] \in Keys,
         NEW e \in KeyPairs, NEW n \in Nat
  PROVE  /\ ToolRekeyMsg("rekey_request", c, e, n) \in RekeyRequests
         /\ ToolRekeyMsg("rekey_response", c, e, n) \in RekeyResponses
<1>1. Mac(keys[c], DefaultSuite) \in Macs
  BY ProcessesOK DEF Mac, Macs
<1>2. /\ RekeyMsg("rekey_request", c, keys[c], e, n) \in RekeyRequests
      /\ RekeyMsg("rekey_response", c, keys[c], e, n) \in RekeyResponses
  BY MessagesBuilt
<1> QED
  BY <1>1, <1>2 DEF ToolRekeyMsg, RekeyRequests, RekeyResponses

\* sip_encrypt with keys of the wrong length.
LEMMA EncryptFailsStep ==
  ASSUME ServerInv, NEW s \in Agents, EncryptFails(s)
  PROVE  ChannelInv'
<1> DEFINE c == Channel(s)
<1>0. c \in Channels /\ TypeOK /\ KeysMatchState /\ keys[c] \in Keys
  BY ChannelType
  DEF ServerInv, ServersTypeOK, EncryptFails, KeysMatchState, HasKeys, TypeOK
<1>1. /\ IF RekeyDue(c) THEN InitiateRekey(c)
                        ELSE UNCHANGED <<state, handshake, pending, draws>>
      /\ state[c] = "ESTABLISHED"
      /\ sendCounter' = [sendCounter EXCEPT ![c] = @ + 1]
      /\ UNCHANGED <<remote, keys, recvCounter, establishedAt, delivered, wire, now>>
  BY DEF EncryptFails
<1>2. RekeyMsg("rekey_request", c, keys[c], NextEphemeral(c), 0) \in RekeyRequests
  BY <1>0, MessagesBuilt, NextEphemeralType
<1>3. RekeyManager(keys[c], NextEphemeral(c), 1) \in HandshakeStates
  BY <1>0, NextEphemeralType DEF RekeyManager, HandshakeStates
<1> HIDE DEF c
<1>4. CASE RekeyDue(c)
  <2>1. InitiateRekey(c)
    BY <1>1, <1>4
  <2>2. TypeOK'
    BY <1>0, <1>1, <1>2, <1>3, <2>1 DEF InitiateRekey, TypeOK, States
  <2>3. KeysMatchState'
    BY <1>0, <1>1, <2>1
    DEF InitiateRekey, TypeOK, KeysMatchState, HasKeys, RekeyManager
  <2> QED
    BY <2>2, <2>3 DEF ChannelInv
<1>5. CASE ~RekeyDue(c)
  <2>1. UNCHANGED <<state, handshake, pending, draws>>
    BY <1>1, <1>5
  <2>2. TypeOK'
    BY <1>0, <1>1, <2>1 DEF TypeOK
  <2>3. KeysMatchState'
    BY <1>0, <1>1, <2>1 DEF KeysMatchState, HasKeys
  <2> QED
    BY <2>2, <2>3 DEF ChannelInv
<1> QED
  BY <1>4, <1>5

\* sip_rekey as initiator.
LEMMA RekeyInitiatorStep ==
  ASSUME ServerInv, NEW s \in Agents,
         state[Channel(s)] = "ESTABLISHED", RekeyInitiator(s)
  PROVE  ChannelInv' /\ rekeyManager' \in [Channels -> HandshakeStates]
<1> DEFINE c == Channel(s)
<1>0. c \in Channels /\ TypeOK /\ KeysMatchState /\ keys[c] \in Keys
  BY ChannelType DEF ServerInv, ServersTypeOK, KeysMatchState, HasKeys, TypeOK
<1>1. RekeyManager(keys[c], NextEphemeral(c), 1) \in HandshakeStates
  BY <1>0, NextEphemeralType DEF RekeyManager, HandshakeStates
<1>2. ToolRekeyMsg("rekey_request", c, NextEphemeral(c), 0) \in Messages
  BY <1>0, ToolMessagesBuilt, NextEphemeralType DEF Messages
<1>3. /\ rekeyManager' = [rekeyManager EXCEPT ![c] =
                            RekeyManager(keys[c], NextEphemeral(c), 1)]
      /\ draws' = [draws EXCEPT ![c] = @ + 1]
      /\ wire' = wire \cup {ToolRekeyMsg("rekey_request", c, NextEphemeral(c), 0)}
      /\ UNCHANGED <<state, remote, keys, handshake, sendCounter, recvCounter,
                     establishedAt, pending, delivered, now>>
  BY DEF RekeyInitiator, Transmit
<1> HIDE DEF c
<1>4. TypeOK'
  BY <1>0, <1>2, <1>3 DEF TypeOK
<1>5. KeysMatchState'
  BY <1>0, <1>3 DEF KeysMatchState, HasKeys
<1> QED
  BY <1>1, <1>3, <1>4, <1>5 DEF ChannelInv, ServerInv, ServersTypeOK

\* sip_rekey as responder.
LEMMA RekeyResponderStep ==
  ASSUME ServerInv, NEW s \in Agents, NEW m \in wire,
         state[Channel(s)] = "ESTABLISHED", RekeyResponder(s, m)
  PROVE  /\ ChannelInv'
         /\ keys' = [keys EXCEPT ![Channel(s)] =
                       RequestKeys(Channel(s), m, DefaultSuite)]
         /\ RequestKeys(Channel(s), m, DefaultSuite) \in Keys
<1> DEFINE c == Channel(s)
           new == RequestKeys(c, m, DefaultSuite)
           response == ToolRekeyMsg("rekey_response", c, NextEphemeral(c), m.sequence)
<1>0. c \in Channels /\ TypeOK /\ KeysMatchState /\ keys[c] \in Keys /\ HasKeys(c)
  BY ChannelType DEF ServerInv, ServersTypeOK, KeysMatchState, HasKeys, TypeOK
<1>1. m \in RekeyRequests
  BY <1>0, MessageTypes DEF RekeyResponder, Arrives, TypeOK
<1>2. new \in Keys
  BY <1>0, <1>1, ProcessesOK, NextEphemeralType, RekeyKeysType
  DEF RequestKeys, RekeyRequests
<1>3. response \in Messages
  BY <1>0, <1>1, ToolMessagesBuilt, NextEphemeralType DEF Messages, RekeyRequests
<1>4. /\ keys' = [keys EXCEPT ![c] = new]
      /\ draws' = [draws EXCEPT ![c] = @ + 1]
      /\ wire' = wire \cup {response}
      /\ UNCHANGED <<state, remote, handshake, sendCounter, recvCounter,
                     establishedAt, pending, delivered, now>>
  BY <1>0 DEF RekeyResponder, UpdateSessionKeys, Transmit, HasKeys
<1> HIDE DEF c, new, response
<1>5. TypeOK'
  BY <1>0, <1>2, <1>3, <1>4 DEF TypeOK
<1>6. KeysMatchState'
  BY <1>0, <1>2, <1>4, NoneIsNoValue DEF TypeOK, KeysMatchState, HasKeys
<1> QED
  BY <1>2, <1>4, <1>5, <1>6 DEF ChannelInv, c, new

\* The servers start without a channel.
LEMMA ServerInvInit == ServerInit => ServerInv
<1> SUFFICES ASSUME ServerInit PROVE ServerInv
  OBVIOUS
<1>1. ChannelInv
  BY ChannelInvInit DEF ServerInit
<1>2. \A s \in Agents : 1 \in DOMAIN Processes[s]
  <2> SUFFICES ASSUME NEW s \in Agents PROVE 1 \in DOMAIN Processes[s]
    OBVIOUS
  <2>1. Processes[s] \in Seq(Channels) /\ Processes[s] # <<>>
    BY ProcessesOK
  <2> QED
    BY <2>1
<1>3. /\ running \in [Agents -> Nat]
      /\ \A s \in Agents : running[s] \in DOMAIN Processes[s]
      /\ rekeyManager \in [Channels -> HandshakeStates]
  BY <1>2 DEF ServerInit, HandshakeStates
<1> QED
  BY <1>1, <1>3 DEF ServerInv, ServersTypeOK, ChannelInv

\* Every tool call, and the loss of a server, keeps the types.
LEMMA ServerInvStep == ServerInv /\ [ServerNext]_serverVars => ServerInv'
<1> SUFFICES ASSUME ServerInv, [ServerNext]_serverVars PROVE ServerInv'
  OBVIOUS
<1> USE DEF ServerInv, ServersTypeOK
<1>0. ChannelInv
  BY DEF ChannelInv
<1>1. ASSUME NEW c \in Channels, ChannelCall(c), UNCHANGED <<running, rekeyManager>>
      PROVE  ServerInv'
  <2>1. ChannelInv'
    BY <1>0, <1>1, LocalStep, MessageStep DEF ChannelCall
  <2> QED
    BY <1>1, <2>1 DEF ChannelInv
<1>2. ASSUME NEW s \in Agents, EncryptFails(s) PROVE ServerInv'
  BY <1>2, EncryptFailsStep DEF EncryptFails, ChannelInv
<1>3. ASSUME NEW s \in Agents, state[Channel(s)] = "ESTABLISHED", RekeyInitiator(s)
      PROVE  ServerInv'
  BY <1>3, RekeyInitiatorStep DEF RekeyInitiator, ChannelInv
<1>4. ASSUME NEW s \in Agents, NEW m \in wire,
             state[Channel(s)] = "ESTABLISHED", RekeyResponder(s, m)
      PROVE  ServerInv'
  BY <1>4, RekeyResponderStep DEF RekeyResponder, ChannelInv
<1>5. ASSUME NEW s \in Agents, Restart(s) PROVE ServerInv'
  <2>1. Processes[s] \in Seq(Channels) /\ running[s] \in 1..Len(Processes[s])
    BY ProcessesOK
  <2>2. running'[s] \in DOMAIN Processes[s]
    BY <1>5, <2>1 DEF Restart
  <2>3. ChannelInv' /\ rekeyManager' = rekeyManager
    BY <1>0, <1>5, ChannelInvStep DEF Restart, vars
  <2>4. /\ running' \in [Agents -> Nat]
        /\ \A t \in Agents : running'[t] \in DOMAIN Processes[t]
    BY <1>5, <2>2 DEF Restart
  <2> QED
    BY <2>3, <2>4 DEF ChannelInv
<1>6. CASE TimePasses
  BY <1>0, <1>6, ChannelInvStep DEF TimePasses, Next, ChannelInv
<1>7. CASE UNCHANGED serverVars
  BY <1>0, <1>7, ChannelInvStep DEF serverVars, ChannelInv
<1> QED
  BY <1>1, <1>2, <1>3, <1>4, <1>5, <1>6, <1>7, StepCases

\* Every reachable state of the servers is well typed.
THEOREM ServersTyped == ServerSpec => []ServersTypeOK
<1>1. ServerInv => ServersTypeOK
  BY DEF ServerInv
<1> QED
  BY <1>1, ServerInvInit, ServerInvStep, PTL DEF ServerSpec

-----------------------------------------------------------------------------
(* Processes that are of no more use *)

\* What StuckUntilRestart says of one channel.
Stuck(c) == state[c] \in {"REKEYING", "ERROR"} =>
              /\ state'[c] = state[c] /\ keys'[c] = keys[c]
              /\ sendCounter'[c] = sendCounter[c]
              /\ delivered'[c] = delivered[c]

\* Each tool needs another state of the channel it works on, and touches no
\* other channel.
LEMMA StuckStep ==
  ServerInv /\ [ServerNext]_serverVars => \A c \in Channels : Stuck(c)
<1> SUFFICES ASSUME ServerInv, [ServerNext]_serverVars, NEW c \in Channels
             PROVE  Stuck(c)
  OBVIOUS
<1> USE DEF Stuck
<1>0. /\ state \in [Channels -> States] /\ ServersTypeOK
      /\ keys \in [Channels -> Keys \cup {NoKeys}]
      /\ sendCounter \in [Channels -> Nat]
      /\ delivered \in [Channels -> Seq(Agents \X Nat)]
  BY DEF ServerInv, ServersTypeOK, TypeOK
<1>1. ASSUME NEW d \in Channels, ChannelCall(d) PROVE Stuck(c)
  <2>1. CASE Initiate(d) \/ InitiateFails(d)
    BY <1>0, <2>1 DEF Initiate, InitiateFails
  <2>2. CASE Send(d)
    BY <1>0, <2>2 DEF Send, InitiateRekey
  <2>3. ASSUME NEW m \in wire, RespondToHandshake(d, m) \/ RespondFails(d, m)
        PROVE  Stuck(c)
    BY <1>0, <2>3 DEF RespondToHandshake, RespondFails
  <2>4. ASSUME NEW m \in wire, CompleteHandshake(d, m) \/ CompleteFails(d, m)
        PROVE  Stuck(c)
    BY <1>0, <2>4 DEF CompleteHandshake, CompleteFails
  <2>5. ASSUME NEW m \in wire, Receive(d, m)
        PROVE  Stuck(c)
    BY <1>0, <2>5 DEF Receive
  <2> QED
    BY <1>1, <2>1, <2>2, <2>3, <2>4, <2>5 DEF ChannelCall
<1>2. ASSUME NEW s \in Agents, EncryptFails(s) PROVE Stuck(c)
  BY <1>0, <1>2, ChannelType DEF EncryptFails, InitiateRekey
<1>3. ASSUME NEW s \in Agents, RekeyInitiator(s) PROVE Stuck(c)
  BY <1>3 DEF RekeyInitiator
<1>4. ASSUME NEW s \in Agents, NEW m \in wire,
             state[Channel(s)] = "ESTABLISHED", RekeyResponder(s, m)
      PROVE  Stuck(c)
  BY <1>0, <1>4, ChannelType DEF RekeyResponder, UpdateSessionKeys
<1>5. CASE \/ \E s \in Agents : Restart(s)
           \/ TimePasses \/ UNCHANGED serverVars
  BY <1>5 DEF Restart, TimePasses, Tick, serverVars, vars
<1> QED
  BY <1>0, <1>1, <1>2, <1>3, <1>4, <1>5, StepCases

\* No tool brings a process back whose channel a due rekey or a failed
\* handshake has stopped.
THEOREM StuckServers == ServerSpec => StuckUntilRestart
<1>1. ServerInv /\ [ServerNext]_serverVars =>
        [\A c \in Channels :
           state[c] \in {"REKEYING", "ERROR"} =>
             /\ state'[c] = state[c] /\ keys'[c] = keys[c]
             /\ sendCounter'[c] = sendCounter[c]
             /\ delivered'[c] = delivered[c]]_serverVars
  BY StuckStep DEF Stuck
<1> QED
  BY <1>1, ServerInvInit, ServerInvStep, PTL DEF ServerSpec, StuckUntilRestart

-----------------------------------------------------------------------------
(* What becomes of keys that sip_rekey rotates.  The responder mixes a key   *)
(* pair of its own into them, so that only its agent can make messages under *)
(* the result, and an agent takes no message of its own.                     *)

\* Only d can have these keys: they were not rotated, or once, by d.
OwnRotation(key, d) ==
  \/ key.chain = <<>>
  \/ Len(key.chain) = 1 /\ key.chain[1].nonces[2][1] = d

\* Messages go to another agent, under keys one of the sender's channels had.
SentToOther(m) ==
  /\ m.type \in {"auth", "encrypted", "rekey_request"} => m.from # m.to
  /\ m.type = "encrypted" =>
       \E d \in Channels : AgentOf[d] = m.from /\ OwnRotation(m.key, d)
  /\ m.type = "rekey_request" =>
       \E d \in Channels : AgentOf[d] = m.from /\ OwnRotation(m.mac.key, d)

EndInv(c) ==
  HasKeys(c) => OwnRotation(keys[c], c) /\ remote[c] # AgentOf[c]

RotationInv ==
  /\ \A c \in Channels : EndInv(c)
  /\ \A m \in wire : SentToOther(m)

\* Keys two channels can have were not rotated.
LEMMA SharedKeysFresh ==
  ASSUME NEW key, NEW c \in Channels, NEW d \in Channels, c # d,
         OwnRotation(key, c), OwnRotation(key, d)
  PROVE  key.chain = <<>>
BY DEF OwnRotation

\* So what a channel with rotated keys is handed never fits them.
LEMMA RotatedTakesNothing ==
  ASSUME ServerInv, RotationInv, NEW c \in Channels, NEW m \in wire, HasKeys(c)
  PROVE  /\ Arrives(m, c, "encrypted") /\ m.key = keys[c]
              => keys[c].chain = <<>>
         /\ Arrives(m, c, "rekey_request") /\ m.mac = Mac(keys[c], DefaultSuite)
              => keys[c].chain = <<>>
<1>1. EndInv(c) /\ SentToOther(m)
  BY DEF RotationInv
<1>2. CASE Arrives(m, c, "encrypted") /\ m.key = keys[c]
  BY <1>1, <1>2, SharedKeysFresh DEF EndInv, SentToOther, Arrives
<1>3. CASE Arrives(m, c, "rekey_request") /\ m.mac = Mac(keys[c], DefaultSuite)
  BY <1>1, <1>3, SharedKeysFresh DEF EndInv, SentToOther, Arrives, Mac
<1> QED
  BY <1>2, <1>3 DEF Arrives

\* What a step does to the keys of a channel.
KeysKept(c) ==
  keys'[c] = keys[c] /\ (HasKeys(c) => remote'[c] = remote[c])
KeysAgreed(c) ==
  /\ ~HasKeys(c)
  /\ keys'[c] \in Keys /\ keys'[c].chain = <<>>
  /\ remote'[c] # AgentOf[c]
KeysRotated(c) ==
  /\ HasKeys(c) /\ keys[c].chain = <<>>
  /\ keys'[c] \in Keys
  /\ Len(keys'[c].chain) = 1 /\ keys'[c].chain[1].nonces[2][1] = c
  /\ remote'[c] = remote[c]

\* Only the channel that answers a rekey request gets rotated keys.
LEMMA ResponderRotates ==
  ASSUME ServerInv, RotationInv, NEW s \in Agents, NEW m \in wire,
         state[Channel(s)] = "ESTABLISHED", RekeyResponder(s, m)
  PROVE  KeysRotated(Channel(s))
<1> DEFINE c == Channel(s)
           new == RequestKeys(c, m, DefaultSuite)
<1>1. c \in Channels /\ HasKeys(c) /\ keys[c] \in Keys
  BY ChannelType DEF ServerInv, ServersTypeOK, TypeOK, KeysMatchState, HasKeys
<1>2. keys[c].chain = <<>>
  BY <1>1, RotatedTakesNothing DEF RekeyResponder, ToolRequestValid
<1>3. keys' = [keys EXCEPT ![c] = new] /\ new \in Keys
  BY RekeyResponderStep
<1>4. new.chain = <<[shared |-> DH(NextEphemeral(c), m.ephemeral),
                     nonces |-> <<m.ephemeral, NextEphemeral(c)>>,
                     suite  |-> DefaultSuite]>>
  BY <1>2 DEF RequestKeys, RekeyKeys
<1>5. Len(new.chain) = 1 /\ new.chain[1].nonces[2][1] = c
  BY <1>4 DEF NextEphemeral
<1> HIDE DEF c, new
<1>6. keys'[c] = new /\ remote' = remote
  BY <1>1, <1>3 DEF RekeyResponder, ServerInv, ServersTypeOK, TypeOK
<1> QED
  BY <1>1, <1>2, <1>3, <1>5, <1>6 DEF KeysRotated, c

\* What a step of the servers does to the keys of the channels.
LEMMA KeysStep ==
  ASSUME ServerInv, RotationInv, [ServerNext]_serverVars, NEW c \in Channels
  PROVE  KeysKept(c) \/ KeysAgreed(c) \/ KeysRotated(c)
<1>0. /\ keys \in [Channels -> Keys \cup {NoKeys}]
      /\ remote \in [Channels -> RecipientIds]
      /\ ChannelInv /\ ServersTypeOK /\ KeysMatchState
  BY DEF ServerInv, ServersTypeOK, TypeOK, ChannelInv
<1>1. ASSUME NEW d \in Channels, ChannelCall(d)
      PROVE  KeysKept(c) \/ KeysAgreed(c)
  <2>1. CASE Initiate(d) \/ InitiateFails(d) \/ Send(d)
    BY <2>1 DEF Initiate, InitiateFails, Send, KeysKept
  <2>2. ASSUME NEW m \in wire, RespondToHandshake(d, m)
        PROVE  KeysKept(c) \/ KeysAgreed(c)
    <3>1. keys'[d].chain = <<>> /\ ~HasKeys(d) /\ remote'[d] # AgentOf[d]
      BY <1>0, <2>2
      DEF RespondToHandshake, Arrives, KeysMatchState, ResponderKeys,
          DeriveTripleDH
    <3>2. ChannelInv' /\ HasKeys(d)'
      BY <1>0, <2>2, MessageStep
      DEF RespondToHandshake, ChannelInv, TypeOK, KeysMatchState
    <3>3. keys'[d] \in Keys
      BY <3>2 DEF ChannelInv, TypeOK, HasKeys
    <3> QED
      BY <1>0, <2>2, <3>1, <3>3 DEF RespondToHandshake, KeysKept, KeysAgreed
  <2>3. ASSUME NEW m \in wire, CompleteHandshake(d, m)
        PROVE  KeysKept(c) \/ KeysAgreed(c)
    <3>1. keys'[d].chain = <<>> /\ ~HasKeys(d)
      BY <1>0, <2>3
      DEF CompleteHandshake, KeysFromAuth, KeysMatchState, InitiatorKeys,
          DeriveTripleDH
    <3>2. m.from # m.to /\ m.to = AgentOf[d]
      BY <2>3 DEF CompleteHandshake, Arrives, RotationInv, SentToOther
    <3>3. ChannelInv' /\ HasKeys(d)'
      BY <1>0, <2>3, MessageStep
      DEF CompleteHandshake, ChannelInv, TypeOK, KeysMatchState
    <3>4. keys'[d] \in Keys
      BY <3>3 DEF ChannelInv, TypeOK, HasKeys
    <3> QED
      BY <1>0, <2>3, <3>1, <3>2, <3>4 DEF CompleteHandshake, KeysKept, KeysAgreed
  <2>4. ASSUME NEW m \in wire, RespondFails(d, m)
        PROVE  KeysKept(c)
    BY <1>0, <2>4 DEF RespondFails, KeysMatchState, KeysKept
  <2>5. ASSUME NEW m \in wire, CompleteFails(d, m) \/ Receive(d, m)
        PROVE  KeysKept(c)
    BY <2>5 DEF CompleteFails, Receive, KeysKept
  <2> QED
    BY <1>1, <2>1, <2>2, <2>3, <2>4, <2>5 DEF ChannelCall
<1>2. ASSUME NEW s \in Agents, EncryptFails(s) \/ RekeyInitiator(s)
      PROVE  KeysKept(c)
  BY <1>2 DEF EncryptFails, RekeyInitiator, KeysKept
<1>3. ASSUME NEW s \in Agents, NEW m \in wire,
             state[Channel(s)] = "ESTABLISHED", RekeyResponder(s, m)
      PROVE  KeysKept(c) \/ KeysRotated(c)
  <2>1. KeysRotated(Channel(s))
    BY <1>3, ResponderRotates
  <2>2. c = Channel(s) \/ KeysKept(c)
    BY <1>0, <1>3, RekeyResponderStep DEF RekeyResponder, KeysKept
  <2> QED
    BY <2>1, <2>2
<1>4. CASE \/ \E s \in Agents : Restart(s)
           \/ TimePasses \/ UNCHANGED serverVars
  BY <1>4 DEF Restart, TimePasses, Tick, serverVars, vars, KeysKept
<1> QED
  BY <1>0, <1>1, <1>2, <1>3, <1>4, StepCases

\* An Auth answers the Hello of another agent; everything later goes to the
\* remote agent, under the keys of the channel.
LEMMA MessagesStep ==
  ASSUME ServerInv, RotationInv, [ServerNext]_serverVars, NEW m \in wire'
  PROVE  SentToOther(m)
<1>0. /\ ChannelInv /\ ServersTypeOK /\ KeysMatchState
      /\ \A c \in Channels : EndInv(c)
  BY DEF ServerInv, ServersTypeOK, ChannelInv, RotationInv
<1>1. CASE m \in wire
  BY <1>1 DEF RotationInv
<1>2. ASSUME NEW d \in Channels, ChannelCall(d), m \notin wire
      PROVE  SentToOther(m)
  <2>1. CASE Initiate(d)
    BY <1>2, <2>1 DEF Initiate, Transmit, HelloMsg, SentToOther
  <2>2. CASE Send(d)
    <3>1. m = EncryptedMsg(d, remote[d], keys[d], sendCounter[d] + 1)
      BY <1>2, <2>2 DEF Send, Transmit
    <3>2. HasKeys(d)
      BY <1>0, <2>2 DEF Send, KeysMatchState
    <3> QED
      BY <1>0, <3>1, <3>2 DEF EncryptedMsg, SentToOther, EndInv
  <2>3. ASSUME NEW h \in wire, RespondToHandshake(d, h)
        PROVE  SentToOther(m)
    BY <1>2, <2>3
    DEF RespondToHandshake, Transmit, AuthMsg, Arrives, SentToOther
  <2>4. CASE \/ InitiateFails(d)
             \/ \E h \in wire : \/ RespondFails(d, h) \/ CompleteHandshake(d, h)
                                \/ CompleteFails(d, h) \/ Receive(d, h)
    BY <1>2, <2>4
    DEF InitiateFails, RespondFails, CompleteHandshake, CompleteFails, Receive
  <2> QED
    BY <1>2, <2>1, <2>2, <2>3, <2>4 DEF ChannelCall
<1>3. ASSUME NEW s \in Agents, EncryptFails(s) PROVE m \in wire
  BY <1>3 DEF EncryptFails
<1>4. ASSUME NEW s \in Agents, m \notin wire,
             state[Channel(s)] = "ESTABLISHED", RekeyInitiator(s)
      PROVE  SentToOther(m)
  <2> DEFINE c == Channel(s)
  <2>1. c \in Channels /\ HasKeys(c)
    BY <1>0, <1>4, ChannelType DEF KeysMatchState
  <2>2. m = ToolRekeyMsg("rekey_request", c, NextEphemeral(c), 0)
    BY <1>4 DEF RekeyInitiator, Transmit
  <2> HIDE DEF c
  <2>3. /\ m.type = "rekey_request" /\ m.from = AgentOf[c] /\ m.to = remote[c]
        /\ m.mac = Mac(keys[c], DefaultSuite)
    BY <2>2 DEF ToolRekeyMsg, RekeyMsg
  <2> QED
    BY <1>0, <2>1, <2>3 DEF SentToOther, EndInv, Mac
<1>5. ASSUME NEW s \in Agents, NEW h \in wire, m \notin wire, RekeyResponder(s, h)
      PROVE  SentToOther(m)
  <2>1. m.type = "rekey_response"
    BY <1>5 DEF RekeyResponder, Transmit, ToolRekeyMsg, RekeyMsg
  <2> QED
    BY <2>1 DEF SentToOther
<1>6. CASE \/ \E s \in Agents : Restart(s)
           \/ TimePasses \/ UNCHANGED serverVars
  BY <1>1, <1>6 DEF Restart, TimePasses, Tick, serverVars, vars
<1> QED
  BY <1>0, <1>1, <1>2, <1>3, <1>4, <1>5, <1>6, StepCases

\* No key has been rotated at the start.
LEMMA RotationInvInit == ServerInit => RotationInv
BY DEF ServerInit, Init, RotationInv, EndInv, HasKeys

\* Every step keeps what each end knows of its own rotation.
LEMMA RotationInvStep ==
  ServerInv /\ RotationInv /\ [ServerNext]_serverVars => RotationInv'
<1> SUFFICES ASSUME ServerInv, RotationInv, [ServerNext]_serverVars
             PROVE  RotationInv'
  OBVIOUS
<1>1. ASSUME NEW c \in Channels PROVE EndInv(c)'
  <2>1. EndInv(c)
    BY DEF RotationInv
  <2>2. CASE KeysKept(c)
    BY <2>1, <2>2 DEF KeysKept, EndInv, HasKeys
  <2>3. CASE KeysAgreed(c)
    BY <2>3 DEF KeysAgreed, EndInv, OwnRotation
  <2>4. CASE KeysRotated(c)
    BY <2>1, <2>4 DEF KeysRotated, EndInv, OwnRotation
  <2> QED
    BY <2>2, <2>3, <2>4, KeysStep
<1>2. \A m \in wire' : SentToOther(m)
  BY MessagesStep
<1>3. \A m \in wire' : SentToOther(m)'
  BY <1>2 DEF SentToOther
<1> QED
  BY <1>1, <1>3 DEF RotationInv

\* Each end of a session rotates its keys once at most, however often the
\* hosts call sip_rekey and whatever they repeat.
THEOREM RotatesOnce == ServerSpec => []EachEndRotatesOnce
<1>1. ServerInv /\ RotationInv => EachEndRotatesOnce
  <2> SUFFICES ASSUME RotationInv, NEW c \in Channels, HasKeys(c)
               PROVE  Len(keys[c].chain) <= 1
    BY DEF EachEndRotatesOnce
  <2>1. OwnRotation(keys[c], c)
    BY DEF RotationInv, EndInv
  <2>2. Len(<<>>) = 0
    OBVIOUS
  <2>3. CASE keys[c].chain = <<>>
    BY <2>2, <2>3
  <2> QED
    BY <2>1, <2>3 DEF OwnRotation
<1> QED
  BY <1>1, ServerInvInit, ServerInvStep, RotationInvInit, RotationInvStep, PTL
  DEF ServerSpec

\* What SplitIsSilent says of one channel and of two.
Silent(c) == Rotated(c) => delivered'[c] = delivered[c]
StaysSplit(c, d) ==
  Paired(c, d) /\ keys[c] # keys[d] => keys'[c] # keys'[d]

\* A channel whose keys were rotated by the tool delivers nothing in a step.
LEMMA SilentStep ==
  ASSUME ServerInv, RotationInv, [ServerNext]_serverVars, NEW c \in Channels
  PROVE  Silent(c)
<1>0. /\ delivered \in [Channels -> Seq(Agents \X Nat)] /\ ServersTypeOK
  BY DEF ServerInv, ServersTypeOK, TypeOK
<1>1. ASSUME NEW d \in Channels, ChannelCall(d)
      PROVE  Silent(c)
  <2>1. ASSUME NEW m \in wire, Receive(d, m)
        PROVE  Silent(c)
    <3>1. CASE c = d
      BY <2>1, <3>1, RotatedTakesNothing
      DEF Receive, Accepts, Opens, Silent, Rotated
    <3>2. CASE c # d
      BY <1>0, <2>1, <3>2 DEF Receive, Silent
    <3> QED
      BY <3>1, <3>2
  <2>2. CASE \/ Initiate(d) \/ InitiateFails(d) \/ Send(d)
             \/ \E m \in wire :
                  \/ RespondToHandshake(d, m) \/ RespondFails(d, m)
                  \/ CompleteHandshake(d, m) \/ CompleteFails(d, m)
    BY <2>2
    DEF Initiate, InitiateFails, Send, RespondToHandshake, RespondFails,
        CompleteHandshake, CompleteFails, Silent
  <2> QED
    BY <1>1, <2>1, <2>2 DEF ChannelCall
<1>2. ASSUME \/ \E s \in Agents : EncryptFails(s) \/ RekeyInitiator(s)
             \/ \E s \in Agents, m \in wire : RekeyResponder(s, m)
      PROVE  Silent(c)
  BY <1>2 DEF EncryptFails, RekeyInitiator, RekeyResponder, Silent
<1>3. CASE \/ \E s \in Agents : Restart(s)
           \/ TimePasses \/ UNCHANGED serverVars
  BY <1>3 DEF Restart, TimePasses, Tick, serverVars, vars, Silent
<1> QED
  BY <1>0, <1>1, <1>2, <1>3, StepCases

\* Ends whose keys differ keep different keys in a step.
LEMMA StaysSplitStep ==
  ASSUME ServerInv, RotationInv, [ServerNext]_serverVars,
         NEW c \in Channels, NEW d \in Channels
  PROVE  StaysSplit(c, d)
<1> SUFFICES ASSUME c # d, HasKeys(c), HasKeys(d), keys[c] # keys[d]
             PROVE  keys'[c] # keys'[d]
  BY DEF StaysSplit, Paired
<1>1. /\ keys'[c] = keys[c] \/ KeysRotated(c)
      /\ keys'[d] = keys[d] \/ KeysRotated(d)
  BY KeysStep DEF KeysKept, KeysAgreed
<1>2. OwnRotation(keys[c], c) /\ OwnRotation(keys[d], d)
  BY DEF RotationInv, EndInv
<1>3. CASE KeysRotated(c)
  BY <1>1, <1>2, <1>3 DEF KeysRotated, OwnRotation
<1>4. CASE KeysRotated(d)
  BY <1>1, <1>2, <1>4 DEF KeysRotated, OwnRotation
<1> QED
  BY <1>1, <1>3, <1>4

\* Rotated keys open no message, and keys that differ stay different.
THEOREM SplitStaysSilent == ServerSpec => SplitIsSilent
<1>1. ServerInv /\ RotationInv /\ [ServerNext]_serverVars =>
        [\A c \in Channels :
           /\ Rotated(c) => delivered'[c] = delivered[c]
           /\ \A d \in Channels :
                Paired(c, d) /\ keys[c] # keys[d] => keys'[c] # keys'[d]]_serverVars
  BY SilentStep, StaysSplitStep DEF Silent, StaysSplit
<1> QED
  BY <1>1, ServerInvInit, ServerInvStep, RotationInvInit, RotationInvStep, PTL
  DEF ServerSpec, SplitIsSilent

-----------------------------------------------------------------------------
(* Delivery.  The tools bypass the channel's own rotation and can leave the  *)
(* ends of a session with different keys; what receive() returns is still    *)
(* the peer's, once and in order.                                            *)

\* What the channel allows itself and the tools do around it: no channel gets
\* or loses keys, or keys of another handshake; nothing is received; only rekey
\* messages are sent.
ToolKeeps ==
  /\ UNCHANGED <<remote, recvCounter, delivered>>
  /\ \A c \in Channels :
       /\ sendCounter'[c] >= sendCounter[c]
       /\ HasKeys(c)' <=> HasKeys(c)
       /\ HasKeys(c) => keys'[c].base = keys[c].base
       /\ \/ state'[c] = state[c]
          \/ state[c] = "ESTABLISHED" /\ state'[c] = "REKEYING"
       /\ \/ handshake'[c] = handshake[c]
          \/ handshake'[c].role = "rekey" /\ handshake'[c].old.base = keys'[c].base
  /\ \A m \in wire' : m \in wire \/ m.type \in {"rekey_request", "rekey_response"}

\* A failing sip_encrypt, and sip_rekey in both its roles, are such steps.
LEMMA ToolStep ==
  ASSUME ServerInv,
         \/ \E s \in Agents : EncryptFails(s)
         \/ \E s \in Agents :
              state[Channel(s)] = "ESTABLISHED" /\ RekeyInitiator(s)
         \/ \E s \in Agents, m \in wire :
              state[Channel(s)] = "ESTABLISHED" /\ RekeyResponder(s, m)
  PROVE  ToolKeeps
<1> USE DEF ToolKeeps, HasKeys
<1>0. TypeOK /\ KeysMatchState /\ ServersTypeOK
  BY DEF ServerInv, ServersTypeOK
<1>1. ASSUME NEW s \in Agents, EncryptFails(s) PROVE ToolKeeps
  <2> DEFINE d == Channel(s)
  <2>1. /\ d \in Channels /\ state[d] = "ESTABLISHED"
        /\ \/ InitiateRekey(d)
           \/ UNCHANGED <<state, handshake, pending, draws>>
        /\ sendCounter' = [sendCounter EXCEPT ![d] = @ + 1]
        /\ UNCHANGED <<remote, keys, recvCounter, delivered, wire>>
    BY <1>0, <1>1, ChannelType DEF EncryptFails
  <2> HIDE DEF d
  <2>2. \A c \in Channels : sendCounter'[c] >= sendCounter[c]
    BY <1>0, <2>1 DEF TypeOK
  <2>3. \A c \in Channels :
          /\ \/ state'[c] = state[c]
             \/ state[c] = "ESTABLISHED" /\ state'[c] = "REKEYING"
          /\ \/ handshake'[c] = handshake[c]
             \/ handshake'[c].role = "rekey" /\ handshake'[c].old.base = keys'[c].base
    BY <1>0, <2>1 DEF TypeOK, InitiateRekey, RekeyManager
  <2> QED
    BY <2>1, <2>2, <2>3
<1>2. ASSUME NEW s \in Agents, RekeyInitiator(s) PROVE ToolKeeps
  <2>1. \A m \in wire' : m \in wire \/ m.type = "rekey_request"
    BY <1>2 DEF RekeyInitiator, Transmit, ToolRekeyMsg, RekeyMsg
  <2>2. UNCHANGED <<state, remote, keys, handshake, sendCounter, recvCounter, delivered>>
    BY <1>2 DEF RekeyInitiator
  <2> QED
    BY <1>0, <2>1, <2>2 DEF TypeOK
<1>3. ASSUME NEW s \in Agents, NEW m \in wire,
             state[Channel(s)] = "ESTABLISHED", RekeyResponder(s, m)
      PROVE  ToolKeeps
  <2> DEFINE d == Channel(s)
             new == RequestKeys(d, m, DefaultSuite)
  <2>1. \A h \in wire' : h \in wire \/ h.type = "rekey_response"
    BY <1>3 DEF RekeyResponder, Transmit, ToolRekeyMsg, RekeyMsg
  <2>2. /\ UNCHANGED <<state, remote, handshake, sendCounter, recvCounter, delivered>>
        /\ keys' = [keys EXCEPT ![d] = new] /\ new \in Keys
    BY <1>3, RekeyResponderStep DEF RekeyResponder
  <2>3. d \in Channels /\ keys[d] # NoKeys /\ new.base = keys[d].base
    BY <1>0, <1>3, ChannelType DEF KeysMatchState, RequestKeys, RekeyKeys
  <2> HIDE DEF d, new
  <2>4. \A c \in Channels :
          /\ keys'[c] # NoKeys <=> keys[c] # NoKeys
          /\ keys[c] # NoKeys => keys'[c].base = keys[c].base
    BY <1>0, <2>2, <2>3, NoneIsNoValue DEF TypeOK
  <2> QED
    BY <1>0, <2>1, <2>2, <2>4 DEF TypeOK
<1> QED
  BY <1>1, <1>2, <1>3

\* They keep the agreement of the handshake.
LEMMA ToolKeepsAgreement ==
  ASSUME ChannelInv, ChannelInv', AgreementInv, ToolKeeps
  PROVE  AgreementInv'
<1>1. \A c \in Channels : SessionKept(c)
  BY DEF ToolKeeps, SessionKept
<1>2. \A m \in wire' : HelloMade(m)' /\ AuthMade(m)'
  BY <1>1, KeptSessions DEF AgreementInv, ToolKeeps, HelloMade, AuthMade
<1>3. \A c \in Channels : OwnHandshake(c)'
  <2> SUFFICES ASSUME NEW c \in Channels PROVE OwnHandshake(c)'
    OBVIOUS
  <2>1. OwnHandshake(c)
    BY DEF AgreementInv
  <2>2. CASE handshake'[c] = handshake[c]
    <3>1. handshake[c].role = "rekey" => HasKeys(c)
      BY DEF ChannelInv, KeysMatchState
    <3> QED
      BY <2>1, <2>2, <3>1 DEF ToolKeeps, OwnHandshake
  <2>3. CASE handshake'[c].role = "rekey" /\ handshake'[c].old.base = keys'[c].base
    BY <2>3 DEF OwnHandshake
  <2> QED
    BY <2>2, <2>3 DEF ToolKeeps
<1>4. ASSUME NEW c \in Channels, HasKeys(c)'
      PROVE  Agreed(c, InitiatorOf(keys[c]), ResponderOf(keys[c]))'
  BY <1>1, <1>4, KeptSessions DEF ToolKeeps
<1> QED
  BY <1>2, <1>3, <1>4 DEF AgreementInv, HandshakeAgreement

\* And the order of delivery.
LEMMA ToolKeepsDelivery ==
  ASSUME ChannelInv, ChannelInv', AgreementInv, DeliveryInv, ToolKeeps
  PROVE  DeliveryInv'
<1>1. ASSUME NEW m \in wire' PROVE EncryptedMade(m)'
  <2>1. CASE m \in wire /\ m.type = "encrypted"
    <3>1. m \in Encrypteds
      BY <2>1, MessageTypes DEF ChannelInv, TypeOK
    <3>2. PICK i \in Channels, r \in Channels :
            i = InitiatorOf(m.key) /\ r = ResponderOf(m.key)
      BY <3>1, EndsAreChannels DEF Encrypteds
    <3>3. /\ sendCounter'[i] >= sendCounter[i] /\ sendCounter'[r] >= sendCounter[r]
          /\ sendCounter[i] \in Nat /\ sendCounter'[i] \in Nat
          /\ sendCounter[r] \in Nat /\ sendCounter'[r] \in Nat /\ m.counter \in Nat
      BY <3>1 DEF Encrypteds, ToolKeeps, ChannelInv, TypeOK
    <3>4. EncryptedMade(m)
      BY <2>1 DEF DeliveryInv
    <3> QED
      BY <2>1, <3>2, <3>3, <3>4 DEF EncryptedMade
  <2>2. CASE m.type # "encrypted"
    BY <2>2 DEF EncryptedMade
  <2> QED
    BY <2>1, <2>2 DEF ToolKeeps
<1>2. ASSUME NEW c \in Channels
      PROVE  ReceivedUpTo(c)' /\ InOrder(c)' /\ NoneInvented(c)'
  <2>1. /\ ReceivedUpTo(c) /\ InOrder(c) /\ NoneInvented(c)
        /\ Early(c)' => Early(c)
    BY DEF DeliveryInv, ToolKeeps, Early
  <2>2. ReceivedUpTo(c)' /\ InOrder(c)'
    BY <2>1 DEF ReceivedUpTo, InOrder, ToolKeeps
  <2>3. ASSUME HasKeys(c)' PROVE recvCounter'[c] <= (sendCounter[PeerOf(c)])'
    <3>1. HasKeys(c) /\ keys'[c].base = keys[c].base
      BY <2>3 DEF ToolKeeps
    <3>2. PICK p \in Channels : p = PeerOf(c)
      BY <3>1, PeerIsOtherEnd
    <3>3. p = PeerOf(c)'
      BY <3>1, <3>2 DEF PeerOf, InitiatorOf, ResponderOf
    <3>4. /\ recvCounter[c] <= sendCounter[p] /\ sendCounter'[p] >= sendCounter[p]
          /\ recvCounter'[c] = recvCounter[c] /\ recvCounter[c] \in Nat
          /\ sendCounter[p] \in Nat /\ sendCounter'[p] \in Nat
      BY <2>1, <3>1, <3>2 DEF NoneInvented, ToolKeeps, ChannelInv, TypeOK
    <3>5. recvCounter'[c] <= sendCounter'[p]
      BY <3>4
    <3> QED
      BY <3>3, <3>5
  <2> QED
    BY <2>2, <2>3 DEF NoneInvented
<1> QED
  BY <1>1, <1>2 DEF DeliveryInv

\* Every step of the servers keeps both invariants.
LEMMA ServerSessionsStep ==
  ASSUME ServerInv, AgreementInv, DeliveryInv, [ServerNext]_serverVars
  PROVE  AgreementInv' /\ DeliveryInv'
<1>0. ChannelInv /\ ChannelInv' /\ ServersTypeOK
  BY ServerInvStep DEF ServerInv, ServersTypeOK, ChannelInv
<1>1. CASE [Next]_vars
  BY <1>0, <1>1, AgreementInductive, DeliveryInductive
<1>2. CASE ToolKeeps
  BY <1>0, <1>2, ToolKeepsAgreement, ToolKeepsDelivery
<1>3. ASSUME NEW c \in Channels, ChannelCall(c) PROVE Next
  BY <1>3 DEF ChannelCall, Next
<1>4. CASE (\E s \in Agents : Restart(s)) \/ TimePasses \/ UNCHANGED serverVars
  BY <1>1, <1>4 DEF Restart, TimePasses, Next, serverVars
<1> QED
  BY <1>0, <1>1, <1>2, <1>3, <1>4, StepCases, ToolStep

\* What sip_decrypt returns was sent by the remote agent, once and in sending
\* order: also after sip_rekey has rotated one end, and across restarts.
THEOREM ServersDeliverInOrder == ServerSpec => []DeliveredInOrderOnce
<1>1. DeliveryInv => DeliveredInOrderOnce
  BY DEF DeliveryInv, InOrder, NoneInvented, DeliveredInOrderOnce
<1>2. ServerInit => AgreementInv /\ DeliveryInv
  BY AgreementInductive, DeliveryInductive DEF ServerInit
<1>3. ServerInv /\ AgreementInv /\ DeliveryInv /\ [ServerNext]_serverVars
        => AgreementInv' /\ DeliveryInv'
  BY ServerSessionsStep
<1> QED
  BY <1>1, <1>2, <1>3, ServerInvInit, ServerInvStep, PTL DEF ServerSpec
=============================================================================
