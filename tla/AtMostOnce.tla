----------------------------- MODULE AtMostOnce -----------------------------
(***************************************************************************)
(* What the bridge promises for a message it has taken over, from a phone  *)
(* to the administrator or back: it is conveyed at most once.  It may be   *)
(* lost; it is never conveyed twice, nor after it was given up.            *)
(***************************************************************************)
EXTENDS Naturals, Sequences, Maps

VARIABLES
  used,      \* the messages that have come, whatever became of them
  waiting,   \* those that may still be conveyed
  delivered  \* those that were conveyed, in this order

vars == <<used, waiting, delivered>>

Init == used = {} /\ waiting = {} /\ delivered = <<>>

\* A new message is taken over
Accept ==
  \E m \in waiting' \ waiting :
    /\ m \notin used
    /\ used' = used \cup {m}
    /\ waiting' = waiting \cup {m}
    /\ UNCHANGED delivered

Deliver ==
  \E m \in waiting :
    /\ waiting' = waiting \ {m}
    /\ delivered' = Append(delivered, m)
    /\ UNCHANGED used

\* Messages are lost, some perhaps before they were taken over
Lose ==
  /\ waiting' \subseteq waiting
  /\ used \subseteq used'
  /\ UNCHANGED delivered

Next == Accept \/ Deliver \/ Lose

Spec == Init /\ [][Next]_vars

-----------------------------------------------------------------------------
\* No message is conveyed twice, and none that was conveyed still waits
Once ==
  /\ \A i, j \in DOMAIN delivered : delivered[i] = delivered[j] => i = j
  /\ waiting \cap Elements(delivered) = {}

\* With what has come, it is an inductive invariant
OnceInv ==
  /\ delivered \in Seq(used)
  /\ waiting \subseteq used
  /\ Once
=============================================================================
