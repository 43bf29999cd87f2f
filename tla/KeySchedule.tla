---------------------------- MODULE KeySchedule ----------------------------
(***************************************************************************)
(* The key schedule of SIP-1.0 as symbolic terms.                          *)
(*                                                                         *)
(* A key pair is a name.  A share is what one end contributes to a         *)
(* handshake: its identity key pair and its ephemeral key pair; the nonce  *)
(* drawn in the same call as the ephemeral key is named by it.  A key      *)
(* triple (encryption, authentication, replay) is one value, because the   *)
(* three are always derived, copied and replaced together: base is the     *)
(* input of the handshake derivation and chain is the inputs the rekeys    *)
(* have mixed in since.  Two ends hold the same keys exactly when every    *)
(* input of every derivation was the same, in the same order.              *)
(***************************************************************************)
EXTENDS Sequences

\* Diffie-Hellman of two key pairs: the same secret from either side.
DH(x, y) == {x, y}

\* HKDF over K1 || K2 || K3 || psk_hash || N_i || N_r, per cipher suite.
DeriveTripleDH(shared1, shared2, shared3, psk, nonceI, nonceR, suite) ==
  [base  |-> [shared |-> <<shared1, shared2, shared3>>, psk |-> psk,
              nonces |-> <<nonceI, nonceR>>, suite |-> suite],
   chain |-> <<>>]

\* The keys the initiator computes from its own share and the peer's.
InitiatorKeys(own, peer, psk, suite) ==
  DeriveTripleDH(DH(own.identity, peer.ephemeral),
                 DH(own.ephemeral, peer.identity),
                 DH(own.ephemeral, peer.ephemeral),
                 psk, own.ephemeral, peer.ephemeral, suite)

\* The keys the responder computes: the first two secrets change places, and
\* the peer's nonce comes first.
ResponderKeys(own, peer, psk, suite) ==
  LET shared1 == DH(own.identity, peer.ephemeral)
      shared2 == DH(own.ephemeral, peer.identity)
      shared3 == DH(own.ephemeral, peer.ephemeral)
  IN  DeriveTripleDH(shared2, shared1, shared3,
                     psk, peer.ephemeral, own.ephemeral, suite)

\* Mutant of RekeyKeys: the old triple is left out of the input.
RekeyKeys_Unchained(old, shared, nonceI, nonceR, suite) ==
  [base  |-> old.base,
   chain |-> <<[shared |-> shared, nonces |-> <<nonceI, nonceR>>,
                suite |-> suite]>>]

\* A rekey mixes a fresh ephemeral-ephemeral secret and both nonces, the
\* requester's first, into the old triple.
RekeyKeys(old, shared, nonceI, nonceR, suite) ==
  [base  |-> old.base,
   chain |-> Append(old.chain,
                    [shared |-> shared, nonces |-> <<nonceI, nonceR>>,
                     suite |-> suite])]

\* HMAC under the authentication key of a triple, with the suite's digest.
Mac(key, suite) == [key |-> key, digest |-> suite]
=============================================================================
