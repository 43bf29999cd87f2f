---------------------------- MODULE AtomicDelivery ----------------------------
(***************************************************************************)
(* What packing and unpacking promise together: a file appears under an    *)
(* output name at once and whole, its content is one that was packed, and  *)
(* no file that is there is changed, overwritten or removed.               *)
(***************************************************************************)
CONSTANTS Outputs,    \* output names
          Contents,   \* file contents
          Nothing     \* no file under a name

VARIABLES sealed,     \* the contents packed so far
          output      \* the file under each name

vars == <<sealed, output>>

Init ==
  /\ sealed = {}
  /\ output = [n \in Outputs |-> Nothing]

Seal(c) ==
  /\ sealed' = sealed \cup {c}
  /\ UNCHANGED output

Deliver(n) ==
  /\ output[n] = Nothing
  /\ \E c \in sealed : output' = [output EXCEPT ![n] = c]
  /\ UNCHANGED sealed

Next == (\E c \in Contents : Seal(c)) \/ (\E n \in Outputs : Deliver(n))

Spec == Init /\ [][Next]_vars
=============================================================================
