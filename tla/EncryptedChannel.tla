-------------------------- MODULE EncryptedChannel --------------------------
(***************************************************************************)
(* EncryptedChannel objects of several agents, their hosts and the         *)
(* transport between them (transport/encrypted_channel.py with the         *)
(* protocol functions it calls).                                           *)
(*                                                                         *)
(* The library does no I/O: every method returns the message it made and   *)
(* takes the message it is given.  A host moves messages; the transport    *)
(* may lose, delay, reorder and duplicate them.  wire is therefore the set *)
(* of everything ever handed to the transport: a message that is lost is   *)
(* never taken from it, a duplicate is taken twice.  Methods run to        *)
(* completion (the code is synchronous), so each is one action.  A call    *)
(* that raises without changing anything is not an action.                 *)
(***************************************************************************)
EXTENDS Integers, Sequences, FiniteSets, KeySchedule

CONSTANTS
  Channels,            \* channel objects; an agent may own several
  Agents,              \* agent identifiers
  AgentOf,             \* the agent_id a channel was built with
  Initiators,          \* the channels whose host calls initiate()
  Faulty,              \* channels whose handshake crypto may raise
  Psks, Psk,           \* pre-shared keys, and the one of each channel
  Suites, Suite,       \* cipher suites, and the one of each channel
  RekeyAfterMessages,  \* ChannelConfig.rekey_after_messages per channel
  RekeyAfterSeconds,   \* ChannelConfig.rekey_after_seconds per channel
  MessageTTL,          \* ChannelConfig.message_ttl_ms
  Window,              \* the 300000 ms tolerance on protocol timestamps
  NoAgent, NoKeys, NoRequest,   \* None
  MaxSends,            \* bound: messages a channel sends
  MaxDraws,            \* bound: ephemeral key pairs a channel draws
  MaxClock             \* bound: clock ticks

ASSUME ConstantsOK ==
  /\ AgentOf \in [Channels -> Agents]
  /\ Initiators \subseteq Channels
  /\ Faulty \subseteq Channels
  /\ Psk \in [Channels -> Psks]
  /\ Suite \in [Channels -> Suites]
  /\ RekeyAfterMessages \in [Channels -> Nat \ {0}]
  /\ RekeyAfterSeconds \in [Channels -> Nat]
  /\ MessageTTL \in Nat /\ Window \in Nat
  /\ MaxSends \in Nat /\ MaxDraws \in Nat /\ MaxClock \in Nat
  /\ NoAgent \notin Agents

VARIABLES
  state,          \* self.state
  remote,         \* self.remote_agent_id
  keys,           \* self._session_keys
  handshake,      \* self._handshake_state
  sendCounter,    \* self._send_counter
  recvCounter,    \* self._recv_counter
  establishedAt,  \* self._stats["established_at"]
  pending,        \* self._stats["pending_rekey_request"]
  delivered,      \* the plaintexts receive() has returned, as <<sender, counter>>
  draws,          \* ephemeral key pairs drawn so far
  wire,           \* every message handed to the transport
  now             \* the hosts' synchronised clock

vars == <<state, remote, keys, handshake, sendCounter, recvCounter,
          establishedAt, pending, delivered, draws, wire, now>>

-----------------------------------------------------------------------------
(* Key material and messages *)

States == {"IDLE", "HANDSHAKING", "ESTABLISHED", "REKEYING", "CLOSED", "ERROR"}

\* A channel's key pairs: number 0 is its identity, the others are ephemeral.
KeyPairs == Channels \X Nat
Share(c, n) == [identity |-> <<c, 0>>, ephemeral |-> <<c, n>>]
NextEphemeral(c) == <<c, draws[c] + 1>>

NoHandshake == [role |-> "none"]
\* What a RekeyManager keeps: a copy of the keys it was built from, its fresh
\* ephemeral key pair and its rekey_sequence.
RekeyManager(old, ephemeral, sequence) ==
  [role |-> "rekey", old |-> old, ephemeral |-> ephemeral,
   sequence |-> sequence]

\* Mutant of AuthMsg: the recipient is read from self.remote_agent_id before it
\* is set.
AuthMsg_Unaddressed(c, n, to, key) ==
  [type |-> "auth", from |-> AgentOf[c], to |-> remote[c], suite |-> Suite[c],
   share |-> Share(c, n), time |-> now, mac |-> Mac(key, Suite[c])]

HelloMsg(c, n) ==
  [type |-> "hello", from |-> AgentOf[c], to |-> NoAgent, suite |-> Suite[c],
   share |-> Share(c, n), time |-> now]
AuthMsg(c, n, to, key) ==
  [type |-> "auth", from |-> AgentOf[c], to |-> to, suite |-> Suite[c],
   share |-> Share(c, n), time |-> now, mac |-> Mac(key, Suite[c])]
EncryptedMsg(c, to, key, counter) ==
  [type |-> "encrypted", from |-> AgentOf[c], to |-> to, key |-> key,
   counter |-> counter, time |-> now]
DisconnectMsg(c) ==
  [type |-> "disconnect", from |-> AgentOf[c], to |-> remote[c]]
RekeyMsg(step, c, key, ephemeral, sequence) ==
  [type |-> step, from |-> AgentOf[c], to |-> remote[c],
   ephemeral |-> ephemeral, sequence |-> sequence, time |-> now,
   mac |-> Mac(key, Suite[c])]

Transmit(m) == wire' = wire \cup {m}

\* The host hands a channel the messages addressed to its agent; a Hello names
\* no recipient and reaches every other agent.
Arrives(m, c, type) ==
  /\ m.type = type
  /\ IF type = "hello" THEN m.from # AgentOf[c] ELSE m.to = AgentOf[c]

\* abs(now - timestamp) > 5 min is refused.
InWindow(time) == now - time <= Window

-----------------------------------------------------------------------------
(* Initial state: __init__ *)

Init ==
  /\ state = [c \in Channels |-> "IDLE"]
  /\ remote = [c \in Channels |-> NoAgent]
  /\ keys = [c \in Channels |-> NoKeys]
  /\ handshake = [c \in Channels |-> NoHandshake]
  /\ sendCounter = [c \in Channels |-> 0]
  /\ recvCounter = [c \in Channels |-> 0]
  /\ establishedAt = [c \in Channels |-> 0]
  /\ pending = [c \in Channels |-> NoRequest]
  /\ delivered = [c \in Channels |-> <<>>]
  /\ draws = [c \in Channels |-> 0]
  /\ wire = {}
  /\ now = 0

-----------------------------------------------------------------------------
(* Handshake *)

\* initiate(): draw the ephemeral key pair and send Hello.
Initiate(c) ==
  /\ c \in Initiators
  /\ state[c] = "IDLE"
  /\ draws[c] < MaxDraws
  /\ state' = [state EXCEPT ![c] = "HANDSHAKING"]
  /\ handshake' = [handshake EXCEPT ![c] =
                     [role |-> "initiator", share |-> Share(c, draws[c] + 1)]]
  /\ draws' = [draws EXCEPT ![c] = @ + 1]
  /\ Transmit(HelloMsg(c, draws[c] + 1))
  /\ UNCHANGED <<remote, keys, sendCounter, recvCounter, establishedAt,
                 pending, delivered, now>>

\* initiate() when a crypto primitive raises.
InitiateFails(c) ==
  /\ c \in Initiators \cap Faulty
  /\ state[c] = "IDLE"
  /\ state' = [state EXCEPT ![c] = "ERROR"]
  /\ UNCHANGED <<remote, keys, handshake, sendCounter, recvCounter,
                 establishedAt, pending, delivered, draws, wire, now>>

\* negotiate_suite and the timestamp window: what a responder checks.
HelloAcceptable(c, m) == m.suite = Suite[c] /\ InWindow(m.time)

\* respond_to_handshake(): the responder has its keys, and is ESTABLISHED,
\* as soon as it has made the Auth.
RespondToHandshake(c, m) ==
  /\ state[c] = "IDLE"
  /\ Arrives(m, c, "hello")
  /\ HelloAcceptable(c, m)
  /\ draws[c] < MaxDraws
  /\ LET own == Share(c, draws[c] + 1)
         key == ResponderKeys(own, m.share, Psk[c], Suite[c])
     IN  /\ keys' = [keys EXCEPT ![c] = key]
         /\ handshake' = [handshake EXCEPT ![c] =
                            [role |-> "responder", share |-> own]]
         /\ Transmit(AuthMsg(c, draws[c] + 1, m.from, key))
  /\ remote' = [remote EXCEPT ![c] = m.from]
  /\ state' = [state EXCEPT ![c] = "ESTABLISHED"]
  /\ establishedAt' = [establishedAt EXCEPT ![c] = now]
  /\ draws' = [draws EXCEPT ![c] = @ + 1]
  /\ UNCHANGED <<sendCounter, recvCounter, pending, delivered, now>>

\* respond_to_handshake() when the Hello is refused or crypto raises: the
\* channel has already noted the sender, and ends in ERROR.
RespondFails(c, m) ==
  /\ state[c] = "IDLE"
  /\ Arrives(m, c, "hello")
  /\ ~HelloAcceptable(c, m) \/ c \in Faulty
  /\ remote' = [remote EXCEPT ![c] = m.from]
  /\ state' = [state EXCEPT ![c] = "ERROR"]
  /\ UNCHANGED <<keys, handshake, sendCounter, recvCounter, establishedAt,
                 pending, delivered, draws, wire, now>>

\* Mutant of AuthAcceptable: the HMAC is not verified.
AuthAcceptable_NoHmac(c, m) == m.suite = Suite[c] /\ InWindow(m.time)

\* The keys an initiator derives from an Auth, and the checks on it: suite,
\* timestamp, and the HMAC under the derived authentication key.
KeysFromAuth(c, m) ==
  InitiatorKeys(handshake[c].share, m.share, Psk[c], Suite[c])
AuthAcceptable(c, m) ==
  /\ m.suite = Suite[c]
  /\ InWindow(m.time)
  /\ m.mac = Mac(KeysFromAuth(c, m), Suite[c])

\* complete_handshake()
CompleteHandshake(c, m) ==
  /\ state[c] = "HANDSHAKING"
  /\ Arrives(m, c, "auth")
  /\ AuthAcceptable(c, m)
  /\ keys' = [keys EXCEPT ![c] = KeysFromAuth(c, m)]
  /\ remote' = [remote EXCEPT ![c] = m.from]
  /\ state' = [state EXCEPT ![c] = "ESTABLISHED"]
  /\ establishedAt' = [establishedAt EXCEPT ![c] = now]
  /\ handshake' = [handshake EXCEPT ![c] = NoHandshake]
  /\ UNCHANGED <<sendCounter, recvCounter, pending, delivered, draws, wire,
                 now>>

\* complete_handshake() when a check fails: the attempt is over, whichever
\* Auth it was.
CompleteFails(c, m) ==
  /\ state[c] = "HANDSHAKING"
  /\ Arrives(m, c, "auth")
  /\ ~AuthAcceptable(c, m) \/ c \in Faulty
  /\ state' = [state EXCEPT ![c] = "ERROR"]
  /\ UNCHANGED <<remote, keys, handshake, sendCounter, recvCounter,
                 establishedAt, pending, delivered, draws, wire, now>>

-----------------------------------------------------------------------------
(* Messages *)

\* Mutant of RekeyDue: the limit may be passed before it counts as reached.
RekeyDue_Later(c) ==
  \/ sendCounter[c] > RekeyAfterMessages[c]
  \/ recvCounter[c] > RekeyAfterMessages[c]
  \/ now - establishedAt[c] > RekeyAfterSeconds[c]

\* _check_rekey_needed(): the counters and the age of the channel count from
\* its establishment; a rekey resets none of them.
RekeyDue(c) ==
  \/ sendCounter[c] >= RekeyAfterMessages[c]
  \/ recvCounter[c] >= RekeyAfterMessages[c]
  \/ now - establishedAt[c] >= RekeyAfterSeconds[c]

\* _initiate_rekey(): a new RekeyManager over a copy of the current keys,
\* whose sequence therefore starts again at 0; the request waits in the
\* statistics for the host to fetch it.
InitiateRekey(c) ==
  /\ draws[c] < MaxDraws
  /\ state' = [state EXCEPT ![c] = "REKEYING"]
  /\ handshake' = [handshake EXCEPT ![c] =
                     RekeyManager(keys[c], NextEphemeral(c), 1)]
  /\ pending' = [pending EXCEPT ![c] =
                   RekeyMsg("rekey_request", c, keys[c], NextEphemeral(c), 0)]
  /\ draws' = [draws EXCEPT ![c] = @ + 1]

\* send(): a due rekey starts inside the call, and the message still goes out
\* in the same call, under the keys of before the rekey.
Send(c) ==
  /\ state[c] = "ESTABLISHED"
  /\ sendCounter[c] < MaxSends
  /\ IF RekeyDue(c) THEN InitiateRekey(c)
                    ELSE UNCHANGED <<state, handshake, pending, draws>>
  /\ sendCounter' = [sendCounter EXCEPT ![c] = @ + 1]
  /\ Transmit(EncryptedMsg(c, remote[c], keys[c], sendCounter[c] + 1))
  /\ UNCHANGED <<remote, keys, recvCounter, establishedAt, delivered, now>>

\* send() when making a due rekey request raises: the state was set first, so
\* the channel is left REKEYING without a RekeyManager and sends nothing.
SendFails(c) ==
  /\ c \in Faulty
  /\ state[c] = "ESTABLISHED"
  /\ RekeyDue(c)
  /\ state' = [state EXCEPT ![c] = "REKEYING"]
  /\ UNCHANGED <<remote, keys, handshake, sendCounter, recvCounter,
                 establishedAt, pending, delivered, draws, wire, now>>

\* Mutants of Accepts: the replay tag is trusted to stop repeats; the counter
\* is trusted to stop strangers.
Accepts_NoCounter(c, m) == now - m.time <= MessageTTL /\ m.key = keys[c]
Accepts_AnyKey(c, m) ==
  now - m.time <= MessageTTL /\ m.counter > recvCounter[c]

\* decrypt_message() and verify_replay_tag(): the AEAD tag and the replay tag
\* verify exactly under the keys the message was made with.
Opens(c, m) == m.key = keys[c]

\* The checks of receive() on an encrypted message: its age; the replay tag and
\* the decryption; the counter.
Accepts(c, m) ==
  /\ now - m.time <= MessageTTL
  /\ Opens(c, m)
  /\ m.counter > recvCounter[c]

\* receive() of an encrypted message; one that is refused changes nothing.
Receive(c, m) ==
  /\ state[c] = "ESTABLISHED"
  /\ Arrives(m, c, "encrypted")
  /\ Accepts(c, m)
  /\ recvCounter' = [recvCounter EXCEPT ![c] = m.counter]
  /\ delivered' = [delivered EXCEPT ![c] = Append(@, <<m.from, m.counter>>)]
  /\ UNCHANGED <<state, remote, keys, handshake, sendCounter, establishedAt,
                 pending, draws, wire, now>>

-----------------------------------------------------------------------------
(* Key rotation *)

\* The host fetches get_pending_rekey_request() and sends it, as often as it
\* likes: it is the same message each time.
TransmitPending(c) ==
  /\ pending[c] # NoRequest
  /\ Transmit(pending[c])
  /\ UNCHANGED <<state, remote, keys, handshake, sendCounter, recvCounter,
                 establishedAt, pending, delivered, draws, now>>

\* Mutant of ApplyNewKeys: the switch is left for later.
ApplyNewKeys_Deferred(c, new) == UNCHANGED keys

\* apply_new_keys() on the manager's copy, and the copy back into the channel.
ApplyNewKeys(c, new) == keys' = [keys EXCEPT ![c] = new]

\* Mutant of RequestValid: the signature is not verified.
RequestValid_Unsigned(c, m) == InWindow(m.time)

\* validate_rekey_request() by a new RekeyManager: its sequence is 0, so only
\* the timestamp and the signature can refuse a request.
RequestValid(c, m) == InWindow(m.time) /\ m.mac = Mac(keys[c], Suite[c])

\* process_rekey_request(): one fresh key pair, whose exchange with the one of
\* the request gives the new keys, the initiator's nonce first; the response
\* repeats the sequence of the request and is signed with the old keys.
RequestKeys(c, m, suite) ==
  RekeyKeys(keys[c], DH(NextEphemeral(c), m.ephemeral),
            m.ephemeral, NextEphemeral(c), suite)
RekeyResponse(c, m) ==
  RekeyMsg("rekey_response", c, keys[c], NextEphemeral(c), m.sequence)

\* handle_rekey_request(): whatever the state, a channel with keys answers
\* and switches to the new keys at once.
HandleRekeyRequest(c, m) ==
  /\ keys[c] # NoKeys
  /\ Arrives(m, c, "rekey_request")
  /\ RequestValid(c, m)
  /\ draws[c] < MaxDraws
  /\ ApplyNewKeys(c, RequestKeys(c, m, Suite[c]))
  /\ draws' = [draws EXCEPT ![c] = @ + 1]
  /\ Transmit(RekeyResponse(c, m))
  /\ UNCHANGED <<state, remote, handshake, sendCounter, recvCounter,
                 establishedAt, pending, delivered, now>>

\* Mutants of ResponseValid: the signature is not verified; the sequence is
\* compared with the one of the next request.
ResponseValid_Unsigned(c, m) ==
  InWindow(m.time) /\ m.sequence = handshake[c].sequence - 1
ResponseValid_NextSequence(c, m) ==
  /\ InWindow(m.time)
  /\ m.mac = Mac(handshake[c].old, Suite[c])
  /\ m.sequence = handshake[c].sequence

\* validate_rekey_response() by the manager that made the request, under the
\* keys it copied.
ResponseValid(c, m) ==
  /\ InWindow(m.time)
  /\ m.mac = Mac(handshake[c].old, Suite[c])
  /\ m.sequence = handshake[c].sequence - 1

\* RekeyManager.process_rekey_response(): the new keys mix the exchange of the
\* manager's key pair with the response's into the manager's copy of the keys.
ResponseKeys(c, m) ==
  RekeyKeys(handshake[c].old, DH(handshake[c].ephemeral, m.ephemeral),
            handshake[c].ephemeral, m.ephemeral, Suite[c])

\* process_rekey_response() of the channel: the new keys overwrite whatever it
\* holds by now.
ProcessRekeyResponse(c, m) ==
  /\ handshake[c].role = "rekey"
  /\ Arrives(m, c, "rekey_response")
  /\ ResponseValid(c, m)
  /\ ApplyNewKeys(c, ResponseKeys(c, m))
  /\ handshake' = [handshake EXCEPT ![c] = NoHandshake]
  /\ pending' = [pending EXCEPT ![c] = NoRequest]
  /\ state' = [state EXCEPT ![c] = "ESTABLISHED"]
  /\ UNCHANGED <<remote, sendCounter, recvCounter, establishedAt, delivered,
                 draws, wire, now>>

-----------------------------------------------------------------------------
(* Closing, and the environment *)

\* Mutants of Close: the keys become an empty dictionary; the handshake state
\* is forgotten; only the state is set.
Close_EmptyKeys(c) ==
  /\ state' = [state EXCEPT ![c] = "CLOSED"]
  /\ keys' = [keys EXCEPT ![c] = <<>>]
  /\ handshake' = [handshake EXCEPT ![c] = NoHandshake]
  /\ UNCHANGED <<remote, sendCounter, recvCounter, establishedAt, pending,
                 delivered, draws, wire, now>>
Close_KeepsHandshake(c) ==
  /\ state' = [state EXCEPT ![c] = "CLOSED"]
  /\ keys' = [keys EXCEPT ![c] = NoKeys]
  /\ UNCHANGED <<remote, handshake, sendCounter, recvCounter, establishedAt,
                 pending, delivered, draws, wire, now>>
Close_KeepsAll(c) ==
  /\ state' = [state EXCEPT ![c] = "CLOSED"]
  /\ UNCHANGED <<remote, keys, handshake, sendCounter, recvCounter,
                 establishedAt, pending, delivered, draws, wire, now>>

\* close(), from any state; the statistics, and a pending request in them,
\* are left alone.
Close(c) ==
  /\ state' = [state EXCEPT ![c] = "CLOSED"]
  /\ keys' = [keys EXCEPT ![c] = NoKeys]
  /\ handshake' = [handshake EXCEPT ![c] = NoHandshake]
  /\ UNCHANGED <<remote, sendCounter, recvCounter, establishedAt, pending,
                 delivered, draws, wire, now>>

\* create_disconnect(), in any state once the peer is known.
SendDisconnect(c) ==
  /\ remote[c] # NoAgent
  /\ Transmit(DisconnectMsg(c))
  /\ UNCHANGED <<state, remote, keys, handshake, sendCounter, recvCounter,
                 establishedAt, pending, delivered, draws, now>>

\* receive() of a disconnect control message.
ReceiveDisconnect(c, m) ==
  /\ state[c] = "ESTABLISHED"
  /\ Arrives(m, c, "disconnect")
  /\ Close(c)

Tick ==
  /\ now < MaxClock
  /\ now' = now + 1
  /\ UNCHANGED <<state, remote, keys, handshake, sendCounter, recvCounter,
                 establishedAt, pending, delivered, draws, wire>>

Next ==
  \/ \E c \in Channels :
       \/ Initiate(c) \/ InitiateFails(c)
       \/ Send(c) \/ SendFails(c) \/ TransmitPending(c)
       \/ Close(c) \/ SendDisconnect(c)
       \/ \E m \in wire :
            \/ RespondToHandshake(c, m) \/ RespondFails(c, m)
            \/ CompleteHandshake(c, m) \/ CompleteFails(c, m)
            \/ Receive(c, m) \/ ReceiveDisconnect(c, m)
            \/ HandleRekeyRequest(c, m) \/ ProcessRekeyResponse(c, m)
  \/ Tick

Spec == Init /\ [][Next]_vars

-----------------------------------------------------------------------------
(* Types *)

Shares == [identity : KeyPairs, ephemeral : KeyPairs]
Secrets == SUBSET KeyPairs
Keys ==
  [base  : [shared : Secrets \X Secrets \X Secrets, psk : Psks,
            nonces : KeyPairs \X KeyPairs, suite : Suites],
   chain : Seq([shared : Secrets, nonces : KeyPairs \X KeyPairs,
                suite : Suites])]
Macs == [key : Keys, digest : Suites]
RecipientIds == Agents \cup {NoAgent}

Hellos == [type : {"hello"}, from : Agents, to : {NoAgent}, suite : Suites,
           share : Shares, time : Nat]
Auths == [type : {"auth"}, from : Agents, to : RecipientIds, suite : Suites,
          share : Shares, time : Nat, mac : Macs]
Encrypteds == [type : {"encrypted"}, from : Agents, to : RecipientIds,
               key : Keys, counter : Nat, time : Nat]
Disconnects == [type : {"disconnect"}, from : Agents, to : RecipientIds]
RekeyRequests == [type : {"rekey_request"}, from : Agents, to : RecipientIds,
                  ephemeral : KeyPairs, sequence : Nat, time : Nat, mac : Macs]
RekeyResponses == [type : {"rekey_response"}, from : Agents, to : RecipientIds,
                   ephemeral : KeyPairs, sequence : Nat, time : Nat, mac : Macs]
Messages == Hellos \cup Auths \cup Encrypteds \cup Disconnects
            \cup RekeyRequests \cup RekeyResponses

HandshakeStates ==
  {NoHandshake}
  \cup [role : {"initiator", "responder"}, share : Shares]
  \cup [role : {"rekey"}, old : Keys, ephemeral : KeyPairs, sequence : Nat]

ASSUME NoneIsNoValue == NoKeys \notin Keys /\ NoRequest \notin RekeyRequests

\* Every variable keeps the type the class gives it, and every message on the
\* wire is one the library builds.
TypeOK ==
  /\ state \in [Channels -> States]
  /\ remote \in [Channels -> RecipientIds]
  /\ keys \in [Channels -> Keys \cup {NoKeys}]
  /\ handshake \in [Channels -> HandshakeStates]
  /\ sendCounter \in [Channels -> Nat]
  /\ recvCounter \in [Channels -> Nat]
  /\ establishedAt \in [Channels -> Nat]
  /\ pending \in [Channels -> RekeyRequests \cup {NoRequest}]
  /\ delivered \in [Channels -> Seq(Agents \X Nat)]
  /\ draws \in [Channels -> Nat]
  /\ wire \subseteq Messages
  /\ now \in Nat

-----------------------------------------------------------------------------
(* Safety *)

HasKeys(c) == keys[c] # NoKeys
\* The two ends of the handshake a key triple comes from.
InitiatorOf(key) == key.base.nonces[1][1]
ResponderOf(key) == key.base.nonces[2][1]
PeerOf(c) == IF c = InitiatorOf(keys[c]) THEN ResponderOf(keys[c])
                                         ELSE InitiatorOf(keys[c])
Paired(c, d) ==
  c # d /\ HasKeys(c) /\ HasKeys(d) /\ keys[c].base = keys[d].base

\* The assertions in complete_handshake, send, receive, _initiate_rekey and
\* process_rekey_response never fire, in whatever order the host calls the
\* methods: keys exist exactly while the channel is ESTABLISHED or REKEYING, a
\* RekeyManager only while it is REKEYING, and a channel without crypto faults
\* is never REKEYING without one.
KeysMatchState ==
  \A c \in Channels :
    /\ HasKeys(c) <=> state[c] \in {"ESTABLISHED", "REKEYING"}
    /\ handshake[c].role = "rekey" => state[c] = "REKEYING"
    /\ state[c] = "REKEYING" => handshake[c].role = "rekey" \/ c \in Faulty
    /\ state[c] = "HANDSHAKING" => handshake[c].role = "initiator"

\* What a channel c with keys of a handshake of i and r may rely on.
Agreed(c, i, r) ==
  /\ c \in {i, r}
  /\ AgentOf[i] # AgentOf[r]
  /\ remote[r] = AgentOf[i]
  /\ c = i => /\ remote[i] = AgentOf[r]
              /\ Psk[i] = Psk[r] /\ Suite[i] = Suite[r]
              /\ Paired(i, r) \/ state[r] = "CLOSED"

\* The handshake authenticates the responder to the initiator: an initiator
\* that has keys shares them, and the pre-shared key and the suite, with
\* exactly the channel whose Auth it took, which knows it as its remote, is
\* owned by the agent the initiator talks to, and has the same handshake keys
\* unless it was closed since.  A responder may be half open, but its keys come
\* from a Hello of the agent it talks to.
HandshakeAgreement ==
  \A c \in Channels :
    HasKeys(c) => Agreed(c, InitiatorOf(keys[c]), ResponderOf(keys[c]))

\* What receive() returns was sent by the remote agent, each message at most
\* once and in sending order, over a transport that repeats and reorders, and
\* across rekeys; and never more than the peer channel sent.
DeliveredInOrderOnce ==
  \A c \in Channels :
    /\ \A n \in DOMAIN delivered[c] :
         /\ delivered[c][n][1] = remote[c]
         /\ n > 1 => delivered[c][n - 1][2] < delivered[c][n][2]
    /\ HasKeys(c) => recvCounter[c] <= sendCounter[PeerOf(c)]

\* A repeated or late rekey request is never answered twice: a channel signs
\* at most one response under any one authentication key.
OneResponsePerKey ==
  \A m1, m2 \in wire :
    (/\ m1.type = "rekey_response" /\ m2.type = "rekey_response"
     /\ m1.ephemeral[1] = m2.ephemeral[1] /\ m1.mac = m2.mac) => m1 = m2

\* What an end encrypts under one key stays within its rekey_after_messages and
\* the one message that begins the rekey (SPEC 12 rests the safety of random
\* nonces on it): through crossed rekeys, which overwrite keys, and repeated
\* requests and responses, no key comes back into use.
KeyUseBounded ==
  LET Under(c, key) == {m \in wire : /\ m.type = "encrypted" /\ m.key = key
                                     /\ m.from = AgentOf[c]}
  IN  \A m \in wire :
        m.type = "encrypted" =>
          \A c \in {InitiatorOf(m.key), ResponderOf(m.key)} :
            Cardinality(Under(c, m.key)) <= RekeyAfterMessages[c] + 1

\* Two peers that are both ESTABLISHED hold the same keys: "rekey response
\* processed, both sides switched".
EstablishedPeersAgree ==
  \A c, d \in Channels :
    Paired(c, d) /\ state[c] = "ESTABLISHED" /\ state[d] = "ESTABLISHED"
      => keys[c] = keys[d]

\* While keys differ, one end is REKEYING and the response that brings it to
\* the keys of the other is already with the transport: a rekey is never lost
\* by more than one message.
KeysAgreeOrRecoverable ==
  LET CatchesUp(c, d) ==
        /\ handshake[c].role = "rekey"
        /\ \E m \in wire :
             /\ Arrives(m, c, "rekey_response")
             /\ m.mac = Mac(handshake[c].old, Suite[c])
             /\ m.sequence = handshake[c].sequence - 1
             /\ keys[d] = ResponseKeys(c, m)
  IN  \A c, d \in Channels :
        Paired(c, d) =>
          keys[c] = keys[d] \/ CatchesUp(c, d) \/ CatchesUp(d, c)

\* SPEC 7.2: the sequence of the rekey requests of a channel strictly
\* increases.
RekeySequenceIncreases ==
  \A m1, m2 \in wire :
    (/\ m1.type = "rekey_request" /\ m2.type = "rekey_request"
     /\ m1.ephemeral[1] = m2.ephemeral[1]
     /\ m1.ephemeral[2] < m2.ephemeral[2]) => m1.sequence < m2.sequence

-----------------------------------------------------------------------------
(* Action properties *)

\* A session never goes back to older keys: a change of keys mixes one new
\* exchange into the keys held now.
KeyChainOnlyExtends ==
  [][\A c \in Channels :
       (HasKeys(c) /\ keys'[c] # NoKeys /\ keys'[c] # keys[c]) =>
         /\ keys'[c].base = keys[c].base
         /\ Len(keys'[c].chain) = Len(keys[c].chain) + 1
         /\ SubSeq(keys'[c].chain, 1, Len(keys[c].chain)) = keys[c].chain]_vars

\* CLOSED and ERROR are final: no late message gives keys to a channel that
\* failed or was closed.
TerminalStatesStay ==
  [][\A c \in Channels :
       state[c] \in {"CLOSED", "ERROR"} =>
         state'[c] \in {state[c], "CLOSED"} /\ keys'[c] = NoKeys]_vars

-----------------------------------------------------------------------------
(* Liveness.  Fairness is what a host that keeps dispatching, over a transport *)
(* that eventually delivers what is retransmitted, gives: the library itself   *)
(* has no thread and no timer.                                                 *)

HostsDispatch ==
  \A c \in Channels :
    /\ WF_vars(TransmitPending(c))
    /\ WF_vars(\E m \in wire : RespondToHandshake(c, m))
    /\ WF_vars(\E m \in wire : CompleteHandshake(c, m))
    /\ WF_vars(\E m \in wire : HandleRekeyRequest(c, m))
    /\ WF_vars(\E m \in wire : ProcessRekeyResponse(c, m))

FairSpec == Spec /\ HostsDispatch

\* A handshake does not hang: an initiator is not HANDSHAKING forever while
\* its Hello is fresh and a compatible channel is idle or answered it.
HandshakeCompletes ==
  \A c, d \in Channels :
    []<>~(/\ state[c] = "HANDSHAKING"
          /\ AgentOf[c] # AgentOf[d] /\ Psk[c] = Psk[d] /\ Suite[c] = Suite[d]
          /\ \E m \in wire : m.type = "hello" /\ InWindow(m.time)
                              /\ m.share = handshake[c].share
          /\ \/ state[d] = "IDLE"
             \/ HasKeys(d) /\ InitiatorOf(keys[d]) = c)

\* A rekey does not hang: a channel is not REKEYING forever while its peer has
\* keys and its request is within the timestamp window.
RekeyCompletes ==
  \A c, d \in Channels :
    []<>~(/\ state[c] = "REKEYING" /\ Paired(c, d)
          /\ pending[c] # NoRequest /\ InWindow(pending[c].time))
=============================================================================
