---------------------------- MODULE SipMcpServer ----------------------------
(***************************************************************************)
(* MCP servers (transport/sip_mcp_server.py): one process per agent, which *)
(* owns one EncryptedChannel and offers it to a host as four tools.  The   *)
(* host carries what a tool returns to the other server, in any order, any *)
(* number of times or never, and may restart a process at any time: the    *)
(* new process has a new channel, and the old one is gone with its keys.   *)
(*                                                                         *)
(* Of the channel's methods the tools call initiate, respond_to_handshake, *)
(* complete_handshake, send, receive and update_session_keys.  sip_rekey   *)
(* does not use the channel's own key rotation: it builds RekeyManagers    *)
(* itself, and has a role for making a request and one for answering it.   *)
(* A tool call that ends in a JSON-RPC error and changes nothing is not an *)
(* action.                                                                 *)
(***************************************************************************)
EXTENDS EncryptedChannel

CONSTANTS
  Processes,       \* the channels of the successive processes of each agent
  DefaultSuite     \* SUITE_EN: the suite of a RekeyManager that is told none

ASSUME ProcessesOK ==
  /\ Processes \in [Agents -> Seq(Channels) \ {<<>>}]
  /\ \A s \in Agents : \A n \in DOMAIN Processes[s] :
       AgentOf[Processes[s][n]] = s
  /\ DefaultSuite \in Suites

VARIABLES
  running,         \* the number of the process each server runs now
  rekeyManager     \* self._rekey_manager, which no tool reads

serverVars == <<vars, running, rekeyManager>>

\* self._channel of the process that runs now.
Channel(s) == Processes[s][running[s]]

ServerInit ==
  /\ Init
  /\ running = [s \in Agents |-> 1]
  /\ rekeyManager = [c \in Channels |-> NoHandshake]

-----------------------------------------------------------------------------
(* sip_handshake *)

HandshakeInitiator(s) ==
  /\ Initiate(Channel(s)) \/ InitiateFails(Channel(s))
  /\ UNCHANGED <<running, rekeyManager>>

HandshakeResponder(s, m) ==
  /\ RespondToHandshake(Channel(s), m) \/ RespondFails(Channel(s), m)
  /\ UNCHANGED <<running, rekeyManager>>

HandshakeComplete(s, m) ==
  /\ CompleteHandshake(Channel(s), m) \/ CompleteFails(Channel(s), m)
  /\ UNCHANGED <<running, rekeyManager>>

\* The host chooses the role; all but the initiator take a message.
SipHandshake(s) ==
  \/ HandshakeInitiator(s)
  \/ \E m \in wire : HandshakeResponder(s, m) \/ HandshakeComplete(s, m)

-----------------------------------------------------------------------------
(* sip_encrypt and sip_decrypt *)

\* SM4 takes a 16 byte key and ChaCha20 one of 32: a key fits the suite it was
\* derived for.
KeysFit(c) ==
  LET chain == keys[c].chain
  IN  chain # <<>> => chain[Len(chain)].suite = Suite[c]

\* A rekey that falls due inside send() leaves the channel REKEYING, and no
\* tool fetches the request that is then pending.
Encrypt(s) ==
  /\ state[Channel(s)] = "ESTABLISHED"
  /\ KeysFit(Channel(s))
  /\ Send(Channel(s))
  /\ UNCHANGED <<running, rekeyManager>>

\* With keys of the wrong length the cipher raises, after send() has begun a
\* due rekey and counted the message.
EncryptFails(s) ==
  LET c == Channel(s)
  IN  /\ state[c] = "ESTABLISHED"
      /\ ~KeysFit(c)
      /\ sendCounter[c] < MaxSends
      /\ IF RekeyDue(c) THEN InitiateRekey(c)
                        ELSE UNCHANGED <<state, handshake, pending, draws>>
      /\ sendCounter' = [sendCounter EXCEPT ![c] = @ + 1]
      /\ UNCHANGED <<remote, keys, recvCounter, establishedAt, delivered,
                     wire, now, running, rekeyManager>>

Decrypt(s, m) ==
  /\ Receive(Channel(s), m)
  /\ UNCHANGED <<running, rekeyManager>>

-----------------------------------------------------------------------------
(* sip_rekey *)

\* create_rekey_request and process_rekey_request of a manager that was given
\* the three keys and no suite.
ToolRekeyMsg(step, c, ephemeral, sequence) ==
  [RekeyMsg(step, c, keys[c], ephemeral, sequence)
     EXCEPT !.mac = Mac(keys[c], DefaultSuite)]

\* role initiator: the manager that could process the answer is kept, and
\* never used.  The channel keeps its state and its keys.
RekeyInitiator(s) ==
  LET c == Channel(s)
  IN  /\ draws[c] < MaxDraws
      /\ rekeyManager' = [rekeyManager EXCEPT ![c] =
                            RekeyManager(keys[c], NextEphemeral(c), 1)]
      /\ draws' = [draws EXCEPT ![c] = @ + 1]
      /\ Transmit(ToolRekeyMsg("rekey_request", c, NextEphemeral(c), 0))
      /\ UNCHANGED <<state, remote, keys, handshake, sendCounter, recvCounter,
                     establishedAt, pending, delivered, now, running>>

\* EncryptedChannel.update_session_keys
UpdateSessionKeys(c, new) ==
  keys' = IF keys[c] # NoKeys THEN [keys EXCEPT ![c] = new] ELSE keys

\* Mutant of ToolRequestValid: the signature is not verified.
ToolRequestValid_Unsigned(c, m) == InWindow(m.time)

\* validate_rekey_request of a new manager.
ToolRequestValid(c, m) ==
  InWindow(m.time) /\ m.mac = Mac(keys[c], DefaultSuite)

\* role responder: validate, process, apply, and the new keys into the
\* channel.  No tool of the other server takes the response.
RekeyResponder(s, m) ==
  LET c == Channel(s)
  IN  /\ Arrives(m, c, "rekey_request")
      /\ ToolRequestValid(c, m)
      /\ draws[c] < MaxDraws
      /\ UpdateSessionKeys(c, RequestKeys(c, m, DefaultSuite))
      /\ draws' = [draws EXCEPT ![c] = @ + 1]
      /\ Transmit(ToolRekeyMsg("rekey_response", c, NextEphemeral(c),
                               m.sequence))
      /\ UNCHANGED <<state, remote, handshake, sendCounter, recvCounter,
                     establishedAt, pending, delivered, now, running,
                     rekeyManager>>

\* Mutant of SipRekey: the channel need not be ESTABLISHED.
SipRekey_AnyState(s) ==
  RekeyInitiator(s) \/ \E m \in wire : RekeyResponder(s, m)

\* Both roles need an ESTABLISHED channel.
SipRekey(s) ==
  /\ state[Channel(s)] = "ESTABLISHED"
  /\ RekeyInitiator(s) \/ \E m \in wire : RekeyResponder(s, m)

-----------------------------------------------------------------------------
(* Processes *)

\* The process ends, or is killed, and the host starts the next one.
Restart(s) ==
  /\ running[s] < Len(Processes[s])
  /\ running' = [running EXCEPT ![s] = @ + 1]
  /\ UNCHANGED <<vars, rekeyManager>>

TimePasses == Tick /\ UNCHANGED <<running, rekeyManager>>

\* tools/call: one of the four tools.
ToolsCall(s) ==
  \/ SipHandshake(s)
  \/ Encrypt(s) \/ EncryptFails(s)
  \/ \E m \in wire : Decrypt(s, m)
  \/ SipRekey(s)

ServerNext ==
  \/ \E s \in Agents : ToolsCall(s) \/ Restart(s)
  \/ TimePasses

ServerSpec == ServerInit /\ [][ServerNext]_serverVars

\* A host that carries messages to their end: what a tool can take is given
\* to it.
ToolsCalled ==
  \A s \in Agents :
    /\ WF_serverVars(\E m \in wire : HandshakeComplete(s, m))
    /\ WF_serverVars(\E m \in wire : Decrypt(s, m))
    /\ WF_serverVars(/\ state[Channel(s)] = "ESTABLISHED"
                     /\ \E m \in wire : RekeyResponder(s, m))

FairServerSpec == ServerSpec /\ ToolsCalled

-----------------------------------------------------------------------------
(* Properties *)

\* The channels keep their types, and the servers' own variables theirs.
ServersTypeOK ==
  /\ TypeOK
  /\ running \in [Agents -> Nat]
  /\ \A s \in Agents : running[s] \in DOMAIN Processes[s]
  /\ rekeyManager \in [Channels -> HandshakeStates]

Rotated(c) == HasKeys(c) /\ keys[c].chain # <<>>

\* A request of sip_rekey is answered under the keys it was signed with, and
\* the answer is lost on the requester: each end of a session can rotate once
\* at most, however often the tools are called, and requests repeated.
EachEndRotatesOnce ==
  \A c \in Channels : HasKeys(c) => Len(keys[c].chain) <= 1

\* Keys that differ are never brought together again and cost messages, never
\* more: once an end has rotated it returns no plaintext, whoever sends what,
\* and two ends that differ stay so.  Only new processes, and a new handshake,
\* give the agents a channel again.
SplitIsSilent ==
  [][\A c \in Channels :
       /\ Rotated(c) => delivered'[c] = delivered[c]
       /\ \A d \in Channels :
            Paired(c, d) /\ keys[c] # keys[d] => keys'[c] # keys'[d]]_serverVars

\* A rekey that send() begins at a threshold, or an error of the handshake,
\* ends the usefulness of a process: no tool call changes anything of its
\* channel again.
StuckUntilRestart ==
  [][\A c \in Channels :
       state[c] \in {"REKEYING", "ERROR"} =>
         /\ state'[c] = state[c] /\ keys'[c] = keys[c]
         /\ sendCounter'[c] = sendCounter[c]
         /\ delivered'[c] = delivered[c]]_serverVars

\* SPEC 7.5: the initiator of a rekey applies the keys of the responder's
\* answer.  Stated of the tools: after the peer has rotated on a request of
\* sip_rekey, the two servers come to hold the same keys, unless one of them
\* is restarted.
RekeyToolFinishes ==
  \A s, t \in Agents :
    (/\ state[Channel(s)] = "ESTABLISHED" /\ state[Channel(t)] = "ESTABLISHED"
     /\ Paired(Channel(s), Channel(t)) /\ Rotated(Channel(t)))
    ~> \/ keys[Channel(s)] = keys[Channel(t)]
       \/ ~Paired(Channel(s), Channel(t))
=============================================================================
