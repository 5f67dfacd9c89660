-------------------------- MODULE AtMostOnceProofs --------------------------
(***************************************************************************)
(* AtMostOnce keeps its promise: what refines it conveys nothing twice.    *)
(***************************************************************************)
EXTENDS AtMostOnce, SequenceTheorems, TLAPS

\* At first nothing has come.
LEMMA InitHolds == Init => OnceInv
BY DEF Init, OnceInv, Once, Elements

\* Only a message that waits is conveyed, and it waits no more.
LEMMA DeliverHolds == ASSUME OnceInv, Deliver PROVE OnceInv'
<1>1. PICK m \in waiting :
        /\ waiting' = waiting \ {m}
        /\ delivered' = Append(delivered, m)
        /\ used' = used
  BY DEF Deliver
<1>2. /\ delivered \in Seq(used) /\ m \in used
      /\ m \notin Elements(delivered)
  BY <1>1 DEF OnceInv, Once
<1>3. /\ delivered' \in Seq(used')
      /\ DOMAIN delivered = 1 .. Len(delivered)
      /\ DOMAIN delivered' = 1 .. Len(delivered) + 1
      /\ Len(delivered) \in Nat
      /\ \A i \in DOMAIN delivered : delivered'[i] = delivered[i]
      /\ delivered'[Len(delivered) + 1] = m
  BY <1>1, <1>2
<1>4. Elements(delivered') = Elements(delivered) \cup {m}
  BY <1>3 DEF Elements
<1>5. \A i \in DOMAIN delivered : delivered[i] # m
  BY <1>2 DEF Elements
<1>6. \A i, j \in DOMAIN delivered' : delivered'[i] = delivered'[j] => i = j
  <2>1. \A i, j \in DOMAIN delivered : delivered[i] = delivered[j] => i = j
    BY DEF OnceInv, Once
  <2>2. \A i \in DOMAIN delivered' : i \in DOMAIN delivered \/ i = Len(delivered) + 1
    BY <1>3
  <2> QED BY <1>3, <1>5, <2>1, <2>2
<1>7. waiting' \cap Elements(delivered') = {}
  BY <1>1, <1>4 DEF OnceInv, Once
<1> QED BY <1>1, <1>3, <1>6, <1>7 DEF OnceInv, Once

\* What comes is new, and what is lost is not conveyed.
LEMMA StepHolds == ASSUME OnceInv, [Next]_vars PROVE OnceInv'
<1>1. CASE Accept
  <2>1. PICK m \in waiting' \ waiting :
          m \notin used /\ used' = used \cup {m} /\ waiting' = waiting \cup {m}
          /\ delivered' = delivered
    BY <1>1 DEF Accept
  <2>2. Elements(delivered) \subseteq used /\ delivered \in Seq(used')
    <3>1. delivered \in Seq(used) BY DEF OnceInv
    <3> QED BY <3>1, <2>1 DEF Elements
  <2> QED BY <2>1, <2>2 DEF OnceInv, Once
<1>2. CASE Deliver
  BY <1>2, DeliverHolds
<1>3. CASE Lose
  <2>1. waiting' \subseteq waiting /\ used \subseteq used' /\ delivered' = delivered
    BY <1>3 DEF Lose
  <2>2. delivered \in Seq(used')
    <3>1. delivered \in Seq(used) BY DEF OnceInv
    <3> QED BY <3>1, <2>1
  <2> QED BY <2>1, <2>2 DEF OnceInv, Once
<1>4. CASE UNCHANGED vars
  BY <1>4 DEF vars, OnceInv, Once, Elements
<1> QED BY <1>1, <1>2, <1>3, <1>4 DEF Next

\* The abstract specification that sending through WhatsApp, the storing and
\* sending of SMS and the showing of messages implement: no message is
\* conveyed twice, and none that was conveyed is kept for later.
THEOREM ConveyedOnce == Spec => []OnceInv
<1>1. Init => OnceInv BY InitHolds
<1>2. OnceInv /\ [Next]_vars => OnceInv' BY StepHolds
<1> QED BY <1>1, <1>2, PTL DEF Spec
=============================================================================
