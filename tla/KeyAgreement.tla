---------------------------- MODULE KeyAgreement ----------------------------
(***************************************************************************)
(* What a session whose rekeys are requested by one end only promises:     *)
(* the two ends move through the same keys, the responding end at most one *)
(* step ahead, and the requesting end takes no other keys than the ones    *)
(* the responding end holds.                                               *)
(***************************************************************************)
CONSTANT None

VARIABLES
  requesterKey, responderKey,   \* the keys of the two ends, None without
  responderGone,                \* the responding end was closed
  asking                        \* a rekey request is outstanding

vars == <<requesterKey, responderKey, responderGone, asking>>

Init ==
  /\ requesterKey = None /\ responderKey = None
  /\ responderGone = FALSE /\ asking = FALSE

\* The responding end has keys first; the requesting end then gets the same.
Open ==
  /\ requesterKey = None /\ responderKey = None /\ ~responderGone
  /\ responderKey' # None
  /\ UNCHANGED <<requesterKey, responderGone, asking>>

Join ==
  /\ requesterKey = None
  /\ requesterKey' # None
  /\ responderGone \/ requesterKey' = responderKey
  /\ UNCHANGED <<responderKey, responderGone, asking>>

Ask ==
  /\ ~asking /\ requesterKey # None
  /\ responderGone \/ requesterKey = responderKey
  /\ asking' = TRUE
  /\ UNCHANGED <<requesterKey, responderKey, responderGone>>

\* One answer per request; an end that is closed may leave a request behind.
Answer ==
  /\ responderKey # None /\ responderKey' \notin {None, responderKey}
  /\ requesterKey = None \/ (asking /\ requesterKey = responderKey)
  /\ UNCHANGED <<requesterKey, responderGone, asking>>

Adopt ==
  /\ asking
  /\ requesterKey' \notin {None, requesterKey}
  /\ responderGone \/ requesterKey' = responderKey
  /\ asking' = FALSE
  /\ UNCHANGED <<responderKey, responderGone>>

CloseRequester ==
  /\ requesterKey' = None /\ asking' = FALSE
  /\ UNCHANGED <<responderKey, responderGone>>

CloseResponder ==
  /\ responderKey' = None /\ responderGone' = TRUE
  /\ UNCHANGED <<requesterKey, asking>>

Next == Open \/ Join \/ Ask \/ Answer \/ Adopt \/ CloseRequester \/ CloseResponder

Spec == Init /\ [][Next]_vars
=============================================================================
