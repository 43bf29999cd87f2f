# SIP protocol: a verification development

TLA+ models, TLC runs and TLAPS proofs for the Python implementation of the
Swarm Intelligence Protocol in `src/src/sip_protocol`. The models are
translated from the code; where the specification (`src/docs/SPEC.md`) and the
code differ, the model follows the code and a run shows the difference.

## 1. The system

The library is synchronous and does no I/O of its own. A **host** (the MCP
server, the desktop plugin, the examples, the tests) calls methods, moves the
messages they return over some transport, and hands arriving messages to other
methods. There is no thread and no timer inside: all concurrency is between
agents, between messages in flight, and between processes on shared files.

| Component | State it keeps | Operations | What makes it hard | What makes it correct |
|---|---|---|---|---|
| **Encrypted channel** `transport/encrypted_channel.py`, with `protocol/handshake.py`, `rekey.py`, `message.py` | channel state, peer id, session keys, handshake state or RekeyManager, two counters, time of establishment, pending rekey request | initiate, respond_to_handshake, complete_handshake, send, receive, process_rekey_response, handle_rekey_request, get_pending_rekey_request, create_disconnect, close, update_session_keys | rekeys of both ends cross; the RekeyManager works on a copy of the keys; requests and responses repeat, are late, expire; a step that raises half way | both ends hold the same keys; each message delivered at most once, in order; no assertion fires; CLOSED and ERROR are final; nothing hangs |
| **Key schedule** `crypto/hkdf.py`, `dh.py`, and the derivations in `handshake.py`, `rekey.py` | none | derive_keys_triple_dh, _derive_new_keys | the responder exchanges two of the three secrets, and the nonce order depends on the role | both ends derive the same keys from each other's shares |
| **Message envelope** `transport/message.py` | messages | construct, age, hops, reply, JSON | expiry races with delivery | an expired message is not accepted |
| **MCP server** `transport/sip_mcp_server.py` | one channel, a RekeyManager | sip_handshake, sip_encrypt, sip_decrypt, sip_rekey | its rekey path is not the channel's, and has no end; the process restarts while messages of the old one are under way | a session that the tools split stays silent: no wrong plaintext, no key shared by accident |
| **File packer / unpacker** `filetransfer/` | artifact, temporary files, outputs | pack_file, unpack_file | source changes while packed; packers share a temporary file; killed half way; artifacts damaged or mixed on the way | an output appears whole, and is what was packed; nothing else is left |
| **Nonce manager** `managers/nonce.py` | ordered set of nonces | generate_nonce, check_and_add, validate_nonce | capacity | a nonce within the window is refused |
| **Session state** `managers/session.py` | serialised keys and counters | serialize, deserialize, wipe | stale after a rekey | round trip |
| **SM2 ciphertext formats** `crypto/sm2_ciphertext.py` | none | detect, convert, verify, decrypt | five layouts, some not told apart by form; coordinates and lengths at the edge of their DER forms | conversion loses nothing, whatever was declared |
| **Cryptographic primitives** `crypto/aes_gcm.py`, `sm2.py`, `sm3.py`, `sm4_gcm.py`, `xchacha20_poly1305.py`, `argon2.py`, `suite.py` | none | pure functions on bytes | – | taken symbolically |
| **Command line tools** `tools/sm2cvt.py`, `tools/gmcvt.py` | the files they rewrite | detect, convert, verify, decrypt; digests | a file converted again and again under formats the user declares | only authentic plaintext is printed |
| **Exceptions, desktop plugin** `exceptions.py`, `src/lib/index.mjs` | none, except the files of the transfer | one process per call with a time limit | a killed process leaves files | see file transfer |

Interactions. The MCP server owns one channel and calls it directly. The
channel calls the handshake functions and builds a RekeyManager for each rekey
it requests or answers. The RekeyManager changes its own copy of the keys,
which the channel copies back. The channel creates a NonceManager and fills a
SessionState but reads neither. The plugin starts Python processes that share
only the file system.

`PROJECT.json` lists all components with their status, and the hazards of the
code at the lines where they bite.

## 2. The modules

| Module | What it is |
|---|---|
| `KeySchedule` | keys, MACs and Diffie-Hellman as symbolic terms |
| `EncryptedChannel` | the channels of several agents, their hosts, the transport and the clock; the properties |
| `OrderedDelivery` | abstract: what one direction of a channel promises its user |
| `KeyAgreement` | abstract: what a session promises when one end requests the rekeys |
| `MCEncryptedChannel` | values for the constants, and the refinement mappings |
| `EncryptedChannelProofs` | theorems: types, states and keys, terminal states, the key schedule, agreement of the handshake, delivery in order at most once |
| `KeyUseProofs` | theorems: one response per key, messages per key |
| `AgreementProofs` | theorems: key agreement when the channels of one agent begin the rekeys |
| `RefinementProofs` | theorems: a session implements `OrderedDelivery` and `KeyAgreement` |
| `SipMcpServer` | EXTENDS `EncryptedChannel`: the four tools, the processes that own the channels, restarts |
| `MCSipMcpServer` | values for its constants, one state constraint |
| `ServerProofs` | theorems about the tools: types, dead ends, rotation, delivery |
| `ArtifactFormat` | the artifact, frame by frame: seals, limits, and the artifact of a content as a reference definition |
| `FileTransfer` | `pack_file` and `unpack_file` as processes over a file system |
| `AtomicDelivery` | abstract: what packing and unpacking promise together |
| `MCFileTransfer` | values for the constants, and the refinement mapping |
| `FileTransferProofs` | theorems: types, temporary files, atomic delivery, whole artifacts |
| `Sm2Ciphertext` | the five SM2 layouts byte by byte, DER, detection and conversion |
| `Sm2cvt` | the converter `sip-sm2cvt`, run again and again on one file |
| `MCSm2cvt` | values for the constants |
| `Sm2cvtProofs` | theorems: DER decoding undoes encoding, and all the properties of the converter |
| `NonceManager` | the nonce book, with its two theorems |

### State and actions of `EncryptedChannel`

| Variable | In the code |
|---|---|
| `state`, `remote`, `keys` | `self.state`, `self.remote_agent_id`, `self._session_keys` |
| `handshake` | `self._handshake_state`: nothing, the agent state of an initiator or responder, or a RekeyManager with its copy of the keys, its ephemeral key and its sequence |
| `sendCounter`, `recvCounter` | `self._send_counter`, `self._recv_counter` |
| `establishedAt`, `pending` | entries of `self._stats` |
| `delivered` | history: what `receive` has returned |
| `draws` | how many ephemeral key pairs the channel has generated: gives each a name |
| `wire` | every message ever handed to the transport |
| `now` | the clock |

| Action | Method |
|---|---|
| `Initiate`, `InitiateFails` | `initiate`, and its except branch |
| `RespondToHandshake`, `RespondFails` | `respond_to_handshake`: the responder is ESTABLISHED once it has made the Auth; its failures leave `remote` set and the state ERROR |
| `CompleteHandshake`, `CompleteFails` | `complete_handshake`: an Auth that does not verify ends the attempt |
| `Send`, `SendFails` | `send` with `_check_rekey_needed` and `_initiate_rekey`, one action because they are one call; the message goes out under the old keys, the channel is REKEYING afterwards |
| `Receive` | `receive` of an encrypted message |
| `TransmitPending` | the host sends what `get_pending_rekey_request` returns |
| `HandleRekeyRequest` | `handle_rekey_request` with `process_rekey_request` and `apply_new_keys`: in any state, and the keys change at once |
| `ProcessRekeyResponse` | `process_rekey_response` of the channel and the manager |
| `Close`, `SendDisconnect`, `ReceiveDisconnect` | `close`, `create_disconnect`, the DISCONNECT branch of `_handle_control_message` |
| `Tick` | time passes |

A call that raises and changes nothing (a wrong state, a message that does not
verify in `receive` or in the rekey methods) is no action.

### State and actions of `SipMcpServer`

`running` says which process of each agent runs, `Channel(s)` is its
`self._channel`; `rekeyManager` is `self._rekey_manager`. The channel's own
variables come from `EncryptedChannel`, and each tool is the action of the method
it calls.

| Action | Code |
|---|---|
| `ToolsCall` | `handle_tools_call` |
| `SipHandshake`: `HandshakeInitiator`, `HandshakeResponder`, `HandshakeComplete` | `_handle_handshake` with its three roles |
| `Encrypt`, `EncryptFails` | `_handle_encrypt`; it fails, after the channel has counted the message and begun a due rekey, when the key does not have the length the suite needs (`KeysFit`) |
| `Decrypt` | `_handle_decrypt` |
| `SipRekey`: `RekeyInitiator`, `RekeyResponder` | `_handle_rekey`: RekeyManagers of its own, made without the session's suite; the responder puts the new keys into the channel (`UpdateSessionKeys`) |
| `Restart` | the process ends, or is killed, and another one begins with a new channel |

The clock ticks (`TimePasses`). No tool closes a channel, fetches its pending
rekey request or takes a rekey response, so those actions of `EncryptedChannel`
are not taken: what follows from that is `StuckUntilRestart`. `sip_decrypt` hands
any message to `receive()`, a DISCONNECT included, which closes the channel; but no
tool makes one, so that none is ever on the wire of these servers.
Left out: `_initialized`, which is set and never read (SPEC.md:650 lists an error
-32001 for a call before it is set, which the code never returns), and the JSON-RPC
framing.

### State and actions of `FileTransfer`

| Variable | In the code |
|---|---|
| `source` | the content of the input file |
| `dir`, `data` | the file system: the inode under each name, the content of each inode |
| `packer`, `unpacker` | where each call is, its header, its open files, its loop variables, and its buffers: `buffer` is what a packer has written that is not in the file yet, `read` what an unpacker has read, which may be more than it has used |
| `sealed` | history: the contents packed as far as their header says |
| `events` | how often the environment has interfered |

| Action | Code |
|---|---|
| `BeginPack` | `pack_file` up to the header: the size is read here |
| `OpenPacking`, `PackChunk`, `EndOfSource` | `_write_artifact`: the files are opened and the header is written into the buffer; a turn of the loop; its end |
| `FlushPacking` | some of the buffer reaches the file: when a write finds the buffer full, when the file is closed, also on the way out of an error |
| `ClosePacking` | the files are closed, and the chunks compared |
| `ReplaceArtifact` | `os.replace` |
| `PackIOError`, `UnpackIOError` | the except branches, which remove what is under the temporary name, whoever made it: a packer's already when its `open` fails |
| `PackStrands`, `UnpackStrands` | an error that nothing cleans up after: `os.replace` of a packer (packer.py:128), which is outside its `try`; `os.unlink`; in a packer anything but an OSError, in an unpacker what is no Exception |
| `BeginUnpack` | `unpack_file` up to the authenticated header; the reader may have taken more |
| `ReadFrames` | the reader takes more of the file |
| `ResolveOutput`, `OpenUnpacking` | `_resolve_output_path`, and the temporary file |
| `VerifyChunk`, `RejectChunk`, `EndOfChunks` | `_verify_chunks` and `_ensure_eof` |
| `ReplaceOutput` | `os.replace` |
| `KillPack`, `KillUnpack` | the plugin's time limit in `index.mjs` |
| `EditSource`, `Arrive` | the environment: an edit in place; a transport that delivers an artifact whole, cut, altered, with pieces exchanged, or continued with pieces of another one |

One action is a system call, with what the call does until the next one; Python
buffers both ends of an artifact, so that writing a frame and its arrival in the
file are different actions, and reading ahead is one of its own. What is made one
action although it is several calls: opening an artifact and reading its header
(whoever changes the file in between could have done so before), opening the source
and the temporary file, and checking which output names are free. Frames reach a
file, and are read, as wholes, and a frame's place in a file is its number: bytes of
one packer's frame within another's, because it was cut by the end of a buffer or
because the chunk sizes differ, open under no key, and a call that meets them fails
as it does at a frame of the wrong packer or an altered one. The buffer of an
unpacker's output is not there, because nobody else uses that file while unpackers
of one target are kept apart. Names refer to inodes: a file that is open goes on
being written under the name `os.replace` has given it, which is what overlapping
packers do to each other, the beginning of an artifact that is already in place
included.

### State and actions of `Sm2cvt`

`origin` is what the encryptor made, `file` the bytes of the file, `truth` the
layout they are really in, `exit` and `printed` what the last command did. `Detect`,
`ConvertFile`, `Verify` and `Decrypt` are the four commands; `Raised` is the
except clause of `main`, which does not catch the OverflowError of a DER
coordinate that is too wide, so that such a file ends the tool with a traceback
and status 1.

### `NonceManager`

`used` is the OrderedDict, `recorded` the history of everything put into it;
`GenerateNonce` and `CheckAndAdd` are the two methods that change it, for any
callers. Every channel makes one and nothing calls it (SPEC.md:742 says so), so
there is no run: the module is about what the book would give its user, for
every length of history. `generate_nonce` evicts nothing, where SPEC.md:519
speaks of eviction above 1000: what remains true is `RecentRefused`, and that a
swollen book never shrinks (`SizeNeverFalls`).

### Abstractions

* **Transport.** `wire` only grows. A message that is lost is never taken, a
  repeated one is taken twice, a late one is taken late. Nobody but channels adds
  to it. A transport may give a handshake or encrypted message to any channel or
  process of the agent it is for; that a rekey message goes to the other agent, and
  not back to the one that made it, is assumed (see *Rekey messages*).
* **Crypto.** A ciphertext or a MAC carries the keys it was made with; it
  verifies exactly under those keys and the same digest. Keys are the inputs of
  their derivation, so equal keys mean equal inputs in equal order. The nonce
  drawn in the same call as an ephemeral key pair is named by the key pair. The
  three keys of a triple are always derived, copied and replaced together and
  are one value. Identity keys are fixed per channel.
* **Rekey messages** are plain dictionaries without sender or recipient; `from`
  and `to` are the routing by the host. The code relies on it: a channel or a
  server that is given its own request would find the signature good and rotate on
  it (encrypted_channel.py:535, sip_mcp_server.py:551), because what is signed
  names no direction. The signature covers neither the
  sequence nor the timestamp, and the model's `mac` stands for the signature
  over the content of an honest message.
* **Clock.** The hosts' clocks are synchronised; one unit of `now` is whatever
  granularity the thresholds have.
* **Not represented**: hop counts (nothing increments them in the channel),
  callbacks, statistics, text, heartbeat and error messages (they change
  nothing), an explicit `recipient_id` given to `send` (a message to somebody
  else is a lost one) and `_session_state` (nothing reads it back).
  `update_session_keys` is in `SipMcpServer`, its only caller.
* **Artifacts.** A frame is what it was sealed with: it opens under the same key
  and associated data, and when its length is the one the header implies. The
  file id is the call that packed, so a tag is unique. Calls share one secret:
  keys that differ open nothing.
* **Files.** Names are values: cleaning a name that comes from a header is not
  modelled. `os.replace` and `open` are atomic; what is buffered reaches the file in
  the order it was written, in pieces of any number of frames and at any time until
  the file is closed. Unpackers of one target are kept apart
  (`Overlapping`): they share the temporary name, and two at once can put a file
  with holes in place, which no document excludes; packers may overlap.
* **SM2 bytes.** Bytes have `2 * Half` values and coordinates and digests
  `CoordLen` and `C3Len` bytes, 256, 32 and 32 in the code. DER's structure is in
  terms of `Half` (top bit, long lengths), so the scaled instance meets all its
  cases. The curve and SM3 are external; a key stream of zeros only, which
  `sm2_decrypt` refuses and `verify_c3` does not look for (sm2_ciphertext.py:405), is
  left out. `convert --out` writes its file in one step: that an error or the death
  of the process after the truncation (sm2cvt.py:153) loses a file converted in
  place is a hazard on the list that no property covers.

## 3. The runs

Spec is `Init /\ [][Next]_vars`; `Liveness`, `FileTransfer` and `RekeyTools` add
fairness.

| Run | Instance | Shows |
|---|---|---|
| `OneSidedRekey` | a1 of A and b1 of B, only a1 reaches a threshold, 3 messages per direction, up to 2 rekeys | with one requesting end the session has one sequence of keys: peers that are both ESTABLISHED agree (`EstablishedPeersAgree`), a difference is always repaired by a response already sent (`KeysAgreeOrRecoverable`), keys never go back (`KeyChainOnlyExtends`), closed and failed channels stay so (`TerminalStatesStay`), and the session implements `KeyAgreement` (`AgreementRefined`) |
| `AnyRekey` | both reach a threshold, so that rekeys cross | what survives even then: no assertion fires (`KeysMatchState`), delivery is in order and at most once (`DeliveredInOrderOnce`, and `OrderedDelivery` in both directions by `DeliveryRefined`), no key signs two responses (`OneResponsePerKey`), and neither end of a key's handshake encrypts more messages under it than its limit and the one that begins the rekey (`KeyUseBounded`), although rekeys reset no counter |
| `Handshake` | two initiating channels of A, two channels of B, two suites, two pre-shared keys, expiry, crypto that may raise | `HandshakeAgreement`: an initiator with keys has the responder it believes it has; Auths of one attempt that reach another, Hellos taken by the wrong channel and repeats do no harm beyond ending an attempt |
| `Ageing` | rekey by age, messages, requests and responses that expire, a1 may raise half way through `send` | the two invariants that partial failure and expiry could break |
| `Liveness` | one requesting end, fair hosts, a clock that may make messages stale | `HandshakeCompletes`, `RekeyCompletes`: nothing hangs while its messages are fresh |
| `CrossedRekey` | as `AnyRekey` | **violation** of `EstablishedPeersAgree`, see below |
| `RekeySequence` | as `OneSidedRekey` | **violation** of `RekeySequenceIncreases`, see below |
| `Servers` | two agents, two processes each, EN first and then ZH, every tool in every order, any message given again, late, or to any process of the agent it is for | delivery stays in order and at most once across restarts and `sip_rekey`; an end rotates once at most (`EachEndRotatesOnce`); ends whose keys differ exchange nothing more (`SplitIsSilent`); a rekey that falls due or a failed handshake ends the usefulness of a process (`StuckUntilRestart`) |
| `RekeyTools` | one process each, fair hosts | **violation** of `RekeyToolFinishes`, see below |
| `FileTransfer` | two packers that may overlap, one with chunks of two bytes and one of four, two unpackers one after the other, one interference, files of 0, 3 and 4 bytes | what appears under an output name was packed, appears whole and is then left alone (`DeliveryIsAtomic`, refinement of `AtomicDelivery`); a packer nobody disturbs makes exactly the reference artifact (`UndisturbedPackSucceeds`), and a whole artifact is accepted by an unpacker that has read its beginning (`WholeArtifactUnpacks`); a call leaves its temporary file only when it is killed or meets an error that nothing cleans up after (`NoLeftovers`); every call ends (`CallsEnd`) |
| `SourceChange` | one packer, one edit | **violation** of `ArtifactsUnpack`, see below |
| `Converter` | three points, two digests, three bodies, five foreign files, all layouts, two conversions | right declarations lose nothing (`DeclaredIsLossless`), wrong ones can be undone (`ConversionsUndo`), decrypt prints only the plaintext that was encrypted (`OnlyAuthenticPlaintext`), detect tells the family (`DetectTellsTheFamily`) |

### Four disagreements between the code and its documents

*Crossed rekeys.* Both ends find a rekey due before either request arrives. Each
answers the other's request (`handle_rekey_request` looks at no state) and
switches; then each takes the other's response and overwrites its keys with
keys derived from the copy its RekeyManager made. Both are ESTABLISHED, no
request is pending, their keys differ, and neither can read the other again.
SPEC.md:150 and 481 say that both sides switch to the same keys. A deployment
with equal `rekey_after_seconds` at both ends and symmetric traffic meets this;
one where only one end requests does not, which is what `OneSidedRekey` and
`KeyAgreement` are about.

*Sequence.* SPEC.md:450 wants the sequence of rekey requests to increase
strictly. The channel builds a new RekeyManager for every rekey and every
request has sequence 0. No harm follows inside a session, because a repeated
request fails the signature check once the keys have changed
(`OneResponsePerKey`, `KeysAgreeOrRecoverable`).

*sip_rekey.* `sip_rekey` as initiator stores a RekeyManager that nothing reads,
and no tool takes the responder's answer. SPEC.md:501 lets the initiator
derive and apply the keys of the answer, and README.md:177 of the repository
offers the rotation in both roles; the run has the responder on new keys and
the initiator on the old ones for ever. `SplitIsSilent` says that this costs
messages and nothing else. In a ZH session the manager also derives keys of the
EN length, because it is told no suite.

*A source that changes.* `pack_file` notices a change of its source by the number
of chunks only. packer.py:93 documents an error for a source that is changed; one
that grows or shrinks within its last chunk gives an artifact whose last frame
is not as long as its header says, and no `unpack_file` accepts it.
`DeliveryIsAtomic` holds all the same: nothing wrong is put in place.

Two more are too plain for a run, since one failing call shows them. packer.py:37
says of `.sipft-packing` that it is cleaned up on failure; when `os.replace` raises
with the file there (packer.py:128: the target is a directory, no permission, a
full disk), it stays. And an OverflowError ends `sip-sm2cvt` with status 1, see
`Raised` in section 2.

### What the properties leave out

* `KeysMatchState` exempts a channel whose crypto has raised (`Faulty`): one that
  fails half way through `send` is REKEYING with no request for ever
  (encrypted_channel.py:492). That is modelled and on the list of hazards, and no
  property denies it.
* `HandshakeCompletes` and `RekeyCompletes` are about messages within their
  window. What is after an expiry, a channel that only `close` can end, is no
  property either.
* `WholeArtifactUnpacks` is about an unpacker whose reads agree with the file. A
  packer's late buffer can replace the header of an artifact in place after an
  unpacker has read it; the file is whole afterwards, under a header the call never
  saw, and the call fails, rightly.
* `UndisturbedPackSucceeds` is about a packer whose source and temporary file nobody
  changed; `ArtifactsUnpack`, which is violated, about a source that changes.

### Bounds, and why they are enough

* *Channels*: a session has two; the handshake runs have four, so that each end
  has a wrong partner with the right agent, suite or pre-shared key.
* *`MaxSends`* 2 or 3 in the channel runs and thresholds of 1 message: a rekey does not reset the
  counters, so each send after the first starts another rekey; three messages
  give two rekeys, with messages before, between and after. Two rekeys are what
  a stale request, response or key of the previous one needs.
* *`MaxDraws`* 3: one handshake and two rekeys at each end. `AnyRekey` has 4,
  because a crossing takes two draws of each end after the handshake's.
* *`MaxClock`* 1 or 2, window and TTL 0 or 1: fresh, at the limit, and expired.
  Ageing has threshold 1 for a1, so that messages of before and after the
  rekey differ in age.

* *`Servers`*: one message per channel, three draws (the handshake's, a request
  and an answer of `sip_rekey`), and time passes only while there are at most
  three messages (`FewMessagesAge`): an expired message need not have many others
  beside it. With two processes per agent a message of the old one can meet the
  new one at either end, and the suites differ between them.
* *`FileTransfer`*: `MaxEvents` is 1, since each property names what one
  interference may break; two packers and two unpackers interleave without
  any. There are more inodes than names and open files (`InodesSuffice`), so that
  the bound is never what stops a call. `Outputs` 2 names. Chunks of two bytes: an empty file, a full last
  chunk, one of a single byte, and a first chunk that is not the last; one packer's
  chunks hold the whole file, so that artifacts of different lengths meet in one
  inode. The run has 526,232 states. The packers
  stay within the limit of chunks, which `pack_file` does not check and
  `unpack_file` does.
* *`Converter`*: bytes of four bits (`Half` 8), coordinates of two bytes,
  digests of one. The values hold the tags, leading zeros and set top bits;
  the longest bodies need both long forms of a DER length, and no conversion makes
  a file that needs a third one (`LengthsFit`). A second conversion may undo the
  first or go on from it.

`CHECK_DEADLOCK FALSE` everywhere: a system whose channels are closed, or have
used up the bounds, has rightly nothing left to do.

### Fairness

`HostsDispatch`: for every channel, weak fairness of sending the pending
request, and of taking an acceptable Hello, Auth, rekey request or rekey
response that is on the wire. It says that hosts go on calling the methods and
that what is retransmitted arrives eventually; the library has no scheduler
that would give more. There is no fairness on the clock, on closing, sending or
initiating: nobody has to. Because a pending request keeps its first timestamp,
and a Hello is never made again, `HandshakeCompletes` and `RekeyCompletes`
speak of channels whose message is still within its window: after that nothing
in the code gets the channel out of HANDSHAKING or REKEYING except `close`.

`FairSpec` of `FileTransfer`: weak fairness of the next step of a call that has
begun. The process is scheduled and system calls return; nobody has to begin a
call, and the environment has no fairness.

`ToolsCalled` of `SipMcpServer`: weak fairness of giving an Auth, a message or a
rekey request to the tool that can take it. It is as much as a host can do, so
that the violation of `RekeyToolFinishes` is not the host's fault.

## 4. The proofs

The theorems about channels hold for any channels, agents, suites, pre-shared
keys, thresholds and bounds that satisfy `ConstantsOK` (functions have the domains
the code needs, thresholds of messages are positive) and `NoneIsNoValue` (None is
neither a key triple nor a request). Further hypotheses are named where a theorem
needs them, and each is met by the instances of the runs.

### Channels

`EncryptedChannelProofs`:

* `HandshakeSymmetric`: the initiator's derivation from its own and the peer's
  share equals the responder's. It rests on `DH(x, y) = DH(y, x)` alone.
* `TypeCorrect` (`Spec => []TypeOK`) and `StatesMatchKeys`
  (`Spec => []KeysMatchState`). Neither is inductive alone: that a message is
  made with a key and not with None follows from the state of its channel, and
  what `KeysMatchState` says of the handshake state needs its type. The
  inductive invariant is their conjunction `ChannelInv`; `LocalStep` and
  `MessageStep` have one case per action.
* `TerminalIsFinal` (`Spec => TerminalStatesStay`), an action property, from
  the same invariant: a channel that is CLOSED or in ERROR has no keys and no
  RekeyManager, so no method that would give it keys is enabled.
* `HandshakeAgrees` (`Spec => []HandshakeAgreement`). Agreement is not inductive:
  when an initiator takes an Auth, what it is about to share its keys with is known
  only from the message. `AgreementInv` adds what is true of messages made
  earlier, `HelloMade` (a Hello names the agent of the channel whose share it
  carries) and `AuthMade` (an Auth is signed under keys that name, by their two
  nonces, the Hello's channel and the channel that made it; that channel has keys
  of this handshake until it is closed), and `OwnHandshake` (an initiator waits for
  an answer to its own share; a RekeyManager's copy has the channel's base). The
  proof separates what steps keep (`KeptSessions`, from `StepKeepsSessions`) from
  what they add: messages (`StepMakesMessages`), handshake states
  (`StepOwnHandshake`), and keys, by the two actions that give keys to a channel
  without (`ResponderAgrees`, `InitiatorAgrees`). The HMAC check is what makes the
  last one go through: verified under derived keys, it makes them equal to the
  keys the Auth was signed under.
* `DeliversInOrderOnce` (`Spec => []DeliveredInOrderOnce`), on top of it.
  `DeliveryInv` adds `EncryptedMade` (a message goes from one end of the handshake
  its keys come from to the other, and its counter is one the sender has reached)
  and `ReceivedUpTo` (nothing received before there are keys, nothing beyond the
  receive counter). Rekeys do not matter to it, not even crossed ones: they change
  the chain of a key and not its base, and the counters run on.

`KeyUseProofs`, whatever rekeys cross, repeat or come late:

* `RespondsOnce` (`Spec => []OneResponsePerKey`) and `KeyUseIsBounded`
  (`Spec => []KeyUseBounded`). Both come down to the fact that keys a channel has
  left never come back. A change of keys always mixes in one key pair of the
  channel's own, and it is either drawn in that step or the one the channel has
  waited with; its number is the `Stamp` of the keys. `Spent` keys have a stamp that
  is drawn, is not awaited and is not the one of the present keys, and
  `SpentForEver` shows that no step undoes this. `FreshInv` holds the stamps
  apart; `ResponseInv` says that what a response was signed with is spent, `UseInv`
  that what was encrypted is numbered by its counter up to the limit, or is the one
  message that began a rekey. `StepKeys` reduces all actions to the five ways in
  which one may treat keys.
* The attempt corrected the property. `KeyUseBounded` spoke of every channel of the
  sender's agent; with several channels of one agent and different thresholds
  that is false, and no run had such an instance. It now speaks of the two ends of
  the key's handshake, which is what the code promises.

`AgreementProofs`, under `OneSided`: of any two agents, the channels of one have
thresholds beyond everything the bounds let them do. `OneSidedRekey` and `Ageing`
are such instances; without the hypothesis the conclusion is false, as
`CrossedRekey` shows.

* `RecoverablyAgree` (`Spec => []KeysAgreeOrRecoverable`), `EstablishedAgree`
  (`Spec => []EstablishedPeersAgree`), `KeysOnlyExtend` (`Spec => KeyChainOnlyExtends`).
  `TogetherInv` says that the ends of a session have the same keys, or one waits
  and the very response that brings it to the other's keys is on the wire
  (`CatchesUp`). Three things make it inductive. A request that is answered must
  be one its sender still waits with (`AnswersWaiting`): had the sender left the
  keys it signed with, these would be spent, and the other end would still have
  them. A response that is taken must be the one that catches up (`AdoptTogether`):
  by `ResponseInv` no other is signed with these keys. And a RekeyManager's copy of
  the keys is current (`ManagersInv`), because a channel that asks answers no
  requests; this is what crossed rekeys break.

`RefinementProofs`, for one channel at each of two agents (`TwoEnds`), any other
constants:

* `SessionDelivers` (`Spec => DeliveryRefined`), in both directions and with rekeys
  of both ends: each step is a send, a delivery or a stutter of `OrderedDelivery`.
* `SessionAgrees` (`Spec => AgreementRefined`), when a1 initiates and b1 never finds
  a rekey due (`OneAsks`). Six actions show in `KeyAgreement`, one lemma each
  (`RespondOpens`, `CompleteJoins`, `SendAsks`, `HandleAnswers`, `ProcessAdopts`,
  `CloseCloses`), the others keep everything the mapping looks at (`QuietStep`).
  `BegunInv` says which end can be the initiator of a key.

### Servers

`ServerProofs`, under `ProcessesOK` besides (every process is a channel of its
agent):

* `ServersTyped` (`ServerSpec => []ServersTypeOK`), from `ServerInv`, which is
  `ServersTypeOK` and `KeysMatchState`. The tools that call the channel take
  steps of it and reuse `ChannelInvStep`; new are `EncryptFails`, which does what
  `Send` does except for the message, and the two roles of `sip_rekey`, which need
  the guard of `SipRekey`: without it a request would be signed with no key.
* `StuckServers` (`ServerSpec => StuckUntilRestart`): a REKEYING channel sends
  nothing, and the tools never give it a response; the case of `RekeyResponder`
  again rests on the guard.
* `RotatesOnce` (`ServerSpec => []EachEndRotatesOnce`). That rotated keys are not
  rotated again is a matter of whose hand is in them: `OwnRotation` says that the
  keys of a channel were never rotated, or once, with its own nonce second, as
  answering puts it. A request is signed by a channel of another agent under keys
  that are that channel's `OwnRotation` (`SentToOther`). When it verifies, both have
  the same key, and a key that two channels own was not rotated
  (`SharedKeysFresh`): so the answer is the first rotation.
* `SplitStaysSilent` (`ServerSpec => SplitIsSilent`), from the same invariant: a
  message that opens under rotated keys would have been made by the channel
  itself; and keys that differ can become equal only by a rotation, which puts
  different nonces in.
* `ServersDeliverInOrder` (`ServerSpec => []DeliveredInOrderOnce`). What the tools
  do around the channel (`ToolKeeps`) gives no channel keys of another handshake
  and receives nothing, so the invariants of the channel's delivery survive it.

### Files

`FileTransferProofs`, for any number of calls, any files and any interference:

* `NothingLeftOver` (`Spec => []NoLeftovers`), overlapping in any way. It is
  not inductive, because a call that has not opened its temporary file yet is
  running too, and may fail without removing anything. `PackingOwned` and
  `UnpackingOwned` name the calls that may have left a file: those past `open`, with
  the number of the output they work for, and those that were killed or stranded.
  Each call's steps are summed up in one formula (`PackerMoves`, `UnpackerMoves`):
  what is in the way of a step of somebody else is then the same for all of them.
* `FilesTyped` (`Spec => []TypeOK`), overlapping in any way. That `open` finds an
  inode is counting (`InodeFree`, from `InodesSuffice`). That the header a call works
  with is one needs the contents: `FilesInv` says that no file is an artifact to
  one and an output to another, and that what is read as an artifact consists of
  frames, also on its way (`OnTheWayOf`) and with gaps (`Written`).
* `DeliversAtomically` (`Spec => DeliveryIsAtomic`), under `NoOverlap`: no unpacker
  may overlap another. Packers may. Without it two unpackers share a temporary
  name (unpacker.py:187 and :88) and a file with holes can be put in place, see
  *Files* in section 2; both runs of the module have the hypothesis. `DeliveryInv`
  has two ghosts, quantified in the invariant: the header of each packer and the
  prefixes of the source it has read. `Made` says of every frame of a packer that
  it holds what lies between two such prefixes, so that an unpacker that has
  verified n chunks has written a prefix that was read (`VerifyChunkUnpacks`), and a
  whole one that was sealed.
* `WholeUnpacks` (`Spec => WholeArtifactUnpacks`), overlapping in any way, however
  reads and writes are buffered, for every length of content and every chunk size.
  `ReadsInv` says that the frames a call has read begin with the header it took, and
  that it has written as many bytes as the chunks it has verified hold (`BytesIn`).
  The file itself may have another header by now; the property asks that what was
  read is what the file begins with, which makes the two agree. The rest is
  arithmetic: how many chunks a content has (`CountOfChunks`), how long each is
  (`LengthOfChunk`, `ChunkOf`), what the reference artifact consists of
  (`ArtifactParts`), so that each chunk opens and the end is reached exactly
  (`WholeVerifies`). This is where `expected_chunk_length` and the packer's slicing of
  the source have to agree, also for a full last chunk and an empty file.
* `UndisturbedSucceeds` (`Spec => UndisturbedPackSucceeds`), overlapping in any way.
  What is compared with the reference is the file together with the buffer, so that
  a flush changes nothing (`InTwoParts`, `UndisturbedFlushes`). `PacksInv` adds to the
  ghosts of the proof of delivery, without its hypothesis, that a
  packer works with the header of the source it began with, and that one about to
  rename has sealed and written as many chunks as it says (`HeadersOwn`). The chunks written and the bytes read
  grow together (`ReadSoFar`, by induction over the chunks), so that what is read next
  is the next chunk of the reference (`NextIsChunk`). One lemma per step
  (`UndisturbedOpens`, `UndisturbedWrites`, `UndisturbedFlushes`, `UndisturbedEnds`,
  `UndisturbedCloses`, `UndisturbedReplaces`) takes it from there. The attempts
  corrected `Undisturbed`: that no more was read than the source has, and no more
  written than its artifact has, was left to what `SubSeq` gives beyond the end of a
  sequence; and a source that has grown back after the loop was left looks
  unchanged, so that a packer that is closing must have read all of it.

### Ciphertext formats

`Sm2cvtProofs`, for any widths, points, digests, bodies, foreign files and number
of conversions:

* `DerUndone`: `_der_decode` undoes `_der_encode`, which adds at most 22 bytes. It
  is built from the length in its three forms (`LengthDecodes`), an element
  (`TlvDecodes`) and a coordinate with its zeros (`CoordinateDecodes`).
* `FileTyped`, `Lossless`, `ConversionsAreUndone`, `PlaintextIsAuthentic`:
  `Spec => []P` for the four invariants of the run. `CvtInv` says that a file in a
  known layout is exactly what writing the encryptor's components in that layout
  gives, and that it has room to grow (`Room`, from the assumption `LengthsFit`: no
  file of the model needs a length of three bytes). `LayoutUndone` and
  `LayoutRedone` are the round trips of all five layouts.
* `DetectTells` (`Spec => []DetectTellsTheFamily`) under `NoneParses`: no bare layout
  of what the encryptor makes parses as DER. `detect_format` takes whatever
  parses, so without it the statement is false; the hypothesis holds for the
  values of the run.

The library's induction theorems take an operator and cannot be instantiated
here. Where a proof needs induction over numbers it is over the *set* of numbers of
which something holds (`Least`, `ByInduction`, from the theorem `WFMin`).

### Nonces

`NonceManager`: `NonceWindow` (`Spec => []RecentRefused`) and `BookSize`
(`Spec => SizeNeverFalls`), at the capacity of 1000 of the code. The invariant
`Suffix`: the book is the end of the history, and all of it or at least 1000
long. Lemmas on `Append` and `Tail` carry it through.

### Model-checked only

`HandshakeCompletes`, `RekeyCompletes` and `CallsEnd` are liveness, which is out of
the prover's reach. The four runs that expect a violation are counterexamples.

## 5. Plan

The models of the plan are there, and every invariant and action property that a
passing run checks is proved. What could still be said for all values of the
constants:

1. the hypotheses of `AgreementProofs`: `OneSided` excludes thresholds that both ends
   reach. Weaker would be that the two ends never *wait* at the same time, which is a
   condition on behaviours and not on constants;
2. what the abstract specifications promise by themselves (`OrderedDelivery`,
   `KeyAgreement`, `AtomicDelivery`), as theorems of their own, so that a reader can
   take a refinement without reading the specification it refers to;
3. several sessions at a time in `RefinementProofs`, which has one channel at each
   agent.

## 6. Not modelled

* *Cryptographic primitives* and *`reference_impl.py`*: pure functions on bytes,
  most of them calls into other libraries, and a second implementation of them
  for test vectors. The models take what the code relies on: a ciphertext or MAC
  verifies under its own key only, and both orders of Diffie-Hellman agree.
* *Session state*: a record with a text form. The channel fills one at the
  handshake and neither updates nor reads it, and nothing in the library calls
  `serialize` or `deserialize`; its round trip is per field, with no order of
  steps to explore.
* *Message envelope*: JSON, replies and hop counts. No method of the channel
  replies or counts a hop; the check of hops in `receive` compares two fields
  that nothing in the library changes.
* *`gmcvt.py`*, and hexadecimal and base64 in `sm2cvt.py`: conversions of text
  that keep no state.
* *Exceptions*: error classes. Which errors end a handshake, or leave a channel
  or a file as it was, is modelled where they are raised.
* *The plugin's tool schemas* and the JSON between it and Python.
* *Both hosts initiating*: each channel then refuses the other's Hello for good
  (`encrypted_channel.py:240`). The hosts must agree on the roles, and the runs
  give each agent one.
