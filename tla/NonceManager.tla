---------------------------- MODULE NonceManager ----------------------------
(***************************************************************************)
(* The nonce book (managers/nonce.py): an OrderedDict of the nonces seen,  *)
(* oldest first, which forgets the oldest when it grows past its capacity. *)
(* Every EncryptedChannel makes one and none uses it, so the callers are   *)
(* any callers: a nonce is generated, or one that arrived is checked.      *)
(* A check that refuses its nonce, and validate_nonce, change nothing.     *)
(***************************************************************************)
EXTENDS Integers, Sequences, SequenceTheorems, TLAPS

CONSTANT Nonces      \* 24 random bytes

VARIABLES
  used,              \* the keys of self.used_nonces, in insertion order
  recorded           \* history: every nonce that was ever put into it

vars == <<used, recorded>>

Capacity == 1000

\* validate_nonce, and the test check_and_add begins with.
Unused(nonce) == \A n \in 1..Len(used) : used[n] # nonce

Init == used = <<>> /\ recorded = <<>>

\* generate_nonce: draws until the nonce is new.  Nothing is evicted here.
GenerateNonce(nonce) ==
  /\ Unused(nonce)
  /\ used' = Append(used, nonce)
  /\ recorded' = Append(recorded, nonce)

\* check_and_add of a nonce that is accepted: at most one is evicted.
CheckAndAdd(nonce) ==
  /\ Unused(nonce)
  /\ used' = IF Len(used) + 1 > Capacity THEN Tail(Append(used, nonce))
                                         ELSE Append(used, nonce)
  /\ recorded' = Append(recorded, nonce)

Next == \E nonce \in Nonces : GenerateNonce(nonce) \/ CheckAndAdd(nonce)

Spec == Init /\ [][Next]_vars

-----------------------------------------------------------------------------
(* Properties *)

\* A replay is refused while fewer than 1000 younger nonces have been
\* recorded, in whatever mixture of generated and checked ones.
RecentRefused ==
  \A n \in 1..Len(recorded) :
    Len(recorded) - n < Capacity => ~Unused(recorded[n])

\* The window is exact when nonces are only checked, not generated: the
\* capacity is then the size.  A book that generate_nonce has swollen past it
\* keeps that size for ever, since check_and_add evicts one for one.
SizeNeverFalls ==
  [][/\ Len(used') >= Len(used)
     /\ Len(used') > Len(used) /\ Len(used) >= Capacity
          => \E nonce \in Nonces : GenerateNonce(nonce)]_vars

-----------------------------------------------------------------------------
(* Proofs *)

\* The book is the end of the history, and all of it until it is full.
SuffixOf(u, r) ==
  /\ u \in Seq(Nonces) /\ r \in Seq(Nonces)
  /\ Len(u) <= Len(r)
  /\ Len(u) = Len(r) \/ Len(u) >= Capacity
  /\ \A n \in 1..Len(u) : u[n] = r[Len(r) - Len(u) + n]

Suffix == SuffixOf(used, recorded)

\* A nonce added to the book and to the history.
LEMMA AppendToSuffix ==
  ASSUME NEW u, NEW r, SuffixOf(u, r), NEW x \in Nonces
  PROVE  SuffixOf(Append(u, x), Append(r, x))
<1> DEFINE u1 == Append(u, x)  r1 == Append(r, x)
<1>1. /\ u \in Seq(Nonces) /\ r \in Seq(Nonces)
      /\ Len(u) \in Nat /\ Len(r) \in Nat /\ Len(u) <= Len(r)
      /\ Len(u) = Len(r) \/ Len(u) >= Capacity
      /\ \A n \in 1..Len(u) : u[n] = r[Len(r) - Len(u) + n]
  BY DEF SuffixOf
<1>2. /\ u1 \in Seq(Nonces) /\ Len(u1) = Len(u) + 1 /\ u1[Len(u) + 1] = x
      /\ \A n \in 1..Len(u) : u1[n] = u[n]
  BY <1>1, AppendProperties
<1>3. /\ r1 \in Seq(Nonces) /\ Len(r1) = Len(r) + 1 /\ r1[Len(r) + 1] = x
      /\ \A n \in 1..Len(r) : r1[n] = r[n]
  BY <1>1, AppendProperties
<1> HIDE DEF u1, r1
<1>4. ASSUME NEW n \in 1..Len(u1)
      PROVE  u1[n] = r1[Len(r1) - Len(u1) + n]
  <2>1. CASE n = Len(u) + 1
    BY <1>1, <1>2, <1>3, <2>1
  <2>2. CASE n \in 1..Len(u)
    BY <1>1, <1>2, <1>3, <2>2
  <2> QED
    BY <1>1, <1>2, <2>1, <2>2
<1>5. SuffixOf(u1, r1)
  BY <1>1, <1>2, <1>3, <1>4 DEF SuffixOf, Capacity
<1> QED
  BY <1>5 DEF u1, r1

\* The oldest nonce dropped from a book that is over its capacity.
LEMMA TailOfSuffix ==
  ASSUME NEW u, NEW r, SuffixOf(u, r), Len(u) > Capacity
  PROVE  SuffixOf(Tail(u), r)
<1> DEFINE u1 == Tail(u)
<1>1. /\ u \in Seq(Nonces) /\ r \in Seq(Nonces)
      /\ Len(u) \in Nat /\ Len(r) \in Nat /\ Len(u) <= Len(r) /\ Len(u) > 1000
      /\ \A n \in 1..Len(u) : u[n] = r[Len(r) - Len(u) + n]
  BY DEF SuffixOf, Capacity
<1>2. /\ u1 \in Seq(Nonces) /\ Len(u1) = Len(u) - 1
      /\ \A n \in 1..Len(u1) : u1[n] = u[n + 1]
  BY <1>1, HeadTailProperties
<1> HIDE DEF u1
<1>3. ASSUME NEW n \in 1..Len(u1)
      PROVE  u1[n] = r[Len(r) - Len(u1) + n]
  <2>1. /\ n + 1 \in 1..Len(u)
        /\ Len(r) - Len(u) + (n + 1) = Len(r) - Len(u1) + n
    BY <1>1, <1>2
  <2>2. u1[n] = u[n + 1] /\ u[n + 1] = r[Len(r) - Len(u) + (n + 1)]
    BY <1>1, <1>2, <2>1
  <2> QED
    BY <2>1, <2>2
<1>4. SuffixOf(u1, r)
  BY <1>1, <1>2, <1>3 DEF SuffixOf, Capacity
<1> QED
  BY <1>4 DEF u1

\* Both are empty at the start.
LEMMA SuffixInitially == Init => Suffix
  BY DEF Init, Suffix, SuffixOf

\* Every operation keeps the book the end of the history.
LEMMA SuffixStep == Suffix /\ [Next]_vars => Suffix'
<1> SUFFICES ASSUME Suffix, [Next]_vars PROVE Suffix'
  OBVIOUS
<1>1. CASE UNCHANGED vars
  BY <1>1 DEF vars, Suffix
<1>2. ASSUME NEW nonce \in Nonces, GenerateNonce(nonce) PROVE Suffix'
  BY <1>2, AppendToSuffix DEF GenerateNonce, Suffix
<1>3. ASSUME NEW nonce \in Nonces, CheckAndAdd(nonce) PROVE Suffix'
  <2>1. SuffixOf(Append(used, nonce), Append(recorded, nonce))
    BY AppendToSuffix DEF Suffix
  <2>2. Len(Append(used, nonce)) = Len(used) + 1
    BY AppendProperties DEF Suffix, SuffixOf
  <2> QED
    BY <1>3, <2>1, <2>2, TailOfSuffix DEF CheckAndAdd, Suffix
<1> QED
  BY <1>1, <1>2, <1>3 DEF Next

\* The replay window of the book, for any callers and any nonces.
THEOREM NonceWindow == Spec => []RecentRefused
<1>1. Suffix => RecentRefused
  <2> SUFFICES ASSUME Suffix, NEW n \in 1..Len(recorded),
                      Len(recorded) - n < Capacity
               PROVE  ~Unused(recorded[n])
    BY DEF RecentRefused
  <2> DEFINE k == Len(used) - (Len(recorded) - n)
  <2>1. k \in 1..Len(used) /\ Len(recorded) - Len(used) + k = n
    BY DEF Suffix, SuffixOf, Capacity
  <2>2. used[k] = recorded[n]
    BY <2>1 DEF Suffix, SuffixOf
  <2> QED
    BY <2>1, <2>2 DEF Unused
<1> QED
  BY <1>1, SuffixInitially, SuffixStep, PTL DEF Spec

\* The book never becomes smaller, and past its capacity only generated nonces
\* make it larger.
THEOREM BookSize == Spec => SizeNeverFalls
<1>1. ASSUME Suffix, [Next]_vars
      PROVE  [/\ Len(used') >= Len(used)
              /\ Len(used') > Len(used) /\ Len(used) >= Capacity
                   => \E nonce \in Nonces : GenerateNonce(nonce)]_vars
  <2>1. ASSUME NEW nonce \in Nonces, GenerateNonce(nonce)
        PROVE  Len(used') >= Len(used)
    BY <2>1 DEF GenerateNonce, Suffix, SuffixOf
  <2>2. ASSUME NEW nonce \in Nonces, CheckAndAdd(nonce)
        PROVE  /\ Len(used') >= Len(used)
               /\ Len(used) >= Capacity => Len(used') = Len(used)
    BY <2>2 DEF CheckAndAdd, Suffix, SuffixOf, Capacity
  <2> QED
    BY <1>1, <2>1, <2>2 DEF Next, Suffix
<1> QED
  BY <1>1, SuffixInitially, SuffixStep, PTL DEF Spec, SizeNeverFalls
=============================================================================
