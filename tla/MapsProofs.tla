----------------------------- MODULE MapsProofs -----------------------------
(***************************************************************************)
(* Lemmas about maps and queues, for the proofs of the components.         *)
(***************************************************************************)
EXTENDS Maps, Sequences, Naturals, SequenceTheorems, TLAPS

\* Inserting a proper value under a proper key (HashMap::insert) keeps the
\* type of a map.
LEMMA PutType ==
  ASSUME NEW S, NEW T, NEW f, IsPartial(f, S, T), NEW x \in S, NEW v \in T
  PROVE  /\ IsPartial(Put(f, x, v), S, T)
         /\ DOMAIN Put(f, x, v) = DOMAIN f \cup {x}
         /\ \A y \in DOMAIN f : y # x => Put(f, x, v)[y] = f[y]
         /\ Put(f, x, v)[x] = v
BY DEF IsPartial, Put

\* Removing keys (HashMap::remove) keeps the type of a map.
LEMMA WithoutType ==
  ASSUME NEW S, NEW T, NEW f, IsPartial(f, S, T), NEW X
  PROVE  /\ IsPartial(Without(f, X), S, T)
         /\ DOMAIN Without(f, X) = DOMAIN f \ X
         /\ \A y \in DOMAIN f \ X : Without(f, X)[y] = f[y]
BY DEF IsPartial, Without

\* Changing the value of a key (get_mut) keeps the type of a map.
LEMMA ExceptType ==
  ASSUME NEW S, NEW T, NEW f, IsPartial(f, S, T), NEW x, NEW v \in T
  PROVE  /\ IsPartial([f EXCEPT ![x] = v], S, T)
         /\ DOMAIN [f EXCEPT ![x] = v] = DOMAIN f
BY DEF IsPartial

\* The empty map of a process that has just started (HashMap::new) has every
\* map type.
LEMMA EmptyType ==
  ASSUME NEW S, NEW T
  PROVE  IsPartial(Empty, S, T) /\ DOMAIN Empty = {}
BY DEF IsPartial, Empty

\* What the queues of the bridge rest on: appending to a sequence, taking
\* its head off and joining two keep the type of the elements.
LEMMA SeqType ==
  ASSUME NEW S, NEW s \in Seq(S)
  PROVE  /\ \A x \in S : Append(s, x) \in Seq(S)
         /\ \A x \in S : <<x>> \in Seq(S)
         /\ <<>> \in Seq(S)
         /\ \A r \in Seq(S) : s \o r \in Seq(S)
         /\ s # <<>> => Head(s) \in S /\ Tail(s) \in Seq(S)
<1>1. \A x \in S : <<x>> \in Seq(S)
  OBVIOUS
<1>2. s # <<>> => Head(s) \in S /\ Tail(s) \in Seq(S)
  BY HeadTailProperties
<1> QED
  BY <1>1, <1>2

\* What is in a queue after something was appended to it, another queue was
\* joined to it, or its head was taken off.
LEMMA ElementsOf ==
  ASSUME NEW S, NEW s \in Seq(S)
  PROVE  /\ Elements(s) \subseteq S
         /\ \A x \in S : Elements(Append(s, x)) = Elements(s) \cup {x}
         /\ \A x \in S : Elements(<<x>>) = {x}
         /\ Elements(<<>>) = {}
         /\ \A r \in Seq(S) : Elements(s \o r) = Elements(s) \cup Elements(r)
         /\ s # <<>> => Elements(s) = {Head(s)} \cup Elements(Tail(s))
<1>1. Elements(s) \subseteq S
  BY DEF Elements
<1>2. ASSUME NEW x \in S
      PROVE  Elements(Append(s, x)) = Elements(s) \cup {x}
  <2>1. \A i \in DOMAIN s : Append(s, x)[i] = s[i]
    OBVIOUS
  <2>2. DOMAIN Append(s, x) = DOMAIN s \cup {Len(s) + 1} /\ Append(s, x)[Len(s) + 1] = x
    OBVIOUS
  <2> QED
    BY <2>1, <2>2 DEF Elements
<1>3. \A x \in S : Elements(<<x>>) = {x}
  BY DEF Elements
<1>4. Elements(<<>>) = {}
  BY DEF Elements
<1>5. ASSUME NEW r \in Seq(S)
      PROVE  Elements(s \o r) = Elements(s) \cup Elements(r)
  <2>1. /\ s \o r \in Seq(S) /\ Len(s \o r) = Len(s) + Len(r)
        /\ \A i \in 1 .. Len(s) : (s \o r)[i] = s[i]
        /\ \A i \in 1 .. Len(r) : (s \o r)[Len(s) + i] = r[i]
    BY ConcatProperties
  <2>2. \A i \in 1 .. Len(s) + Len(r) : i \in 1 .. Len(s) \/ \E j \in 1 .. Len(r) : i = Len(s) + j
    <3> SUFFICES ASSUME NEW i \in 1 .. Len(s) + Len(r), i \notin 1 .. Len(s)
                 PROVE  \E j \in 1 .. Len(r) : i = Len(s) + j
      OBVIOUS
    <3>1. i - Len(s) \in 1 .. Len(r) /\ i = Len(s) + (i - Len(s))
      OBVIOUS
    <3> QED
      BY <3>1
  <2>3. DOMAIN s = 1 .. Len(s) /\ DOMAIN r = 1 .. Len(r) /\ DOMAIN (s \o r) = 1 .. Len(s) + Len(r)
    BY <2>1
  <2>4. \A i \in 1 .. Len(s) : i \in 1 .. Len(s) + Len(r)
    OBVIOUS
  <2>5. \A i \in 1 .. Len(r) : Len(s) + i \in 1 .. Len(s) + Len(r)
    OBVIOUS
  <2>6. \A x \in Elements(s) : x \in Elements(s \o r)
    BY <2>1, <2>3, <2>4 DEF Elements
  <2>7. \A x \in Elements(r) : x \in Elements(s \o r)
    BY <2>1, <2>3, <2>5 DEF Elements
  <2>8. ASSUME NEW x \in Elements(s \o r)
        PROVE  x \in Elements(s) \cup Elements(r)
    <3>1. PICK i \in 1 .. Len(s) + Len(r) : x = (s \o r)[i]
      BY <2>3 DEF Elements
    <3>2. CASE i \in 1 .. Len(s)
      BY <2>1, <2>3, <3>1, <3>2 DEF Elements
    <3>3. CASE \E j \in 1 .. Len(r) : i = Len(s) + j
      <4>1. PICK j \in 1 .. Len(r) : i = Len(s) + j
        BY <3>3
      <4>2. x = r[j]
        BY <2>1, <3>1, <4>1
      <4> QED
        BY <2>3, <4>2 DEF Elements
    <3> QED
      BY <2>2, <3>2, <3>3
  <2> QED
    BY <2>6, <2>7, <2>8
<1>6. ASSUME s # <<>>
      PROVE  Elements(s) = {Head(s)} \cup Elements(Tail(s))
  <2>1. /\ Len(s) \in Nat \ {0} /\ DOMAIN s = 1 .. Len(s) /\ DOMAIN Tail(s) = 1 .. Len(s) - 1
        /\ Head(s) = s[1] /\ \A i \in 1 .. Len(s) - 1 : Tail(s)[i] = s[i + 1]
    BY <1>6, HeadTailProperties, EmptySeq
  <2>2. \A i \in 1 .. Len(s) : i = 1 \/ (i - 1 \in 1 .. Len(s) - 1 /\ s[i] = Tail(s)[i - 1])
    BY <2>1
  <2>3. \A i \in 1 .. Len(s) - 1 : i + 1 \in 1 .. Len(s)
    BY <2>1
  <2>4. Head(s) \in Elements(s)
    BY <2>1 DEF Elements
  <2>5. \A x \in Elements(Tail(s)) : x \in Elements(s)
    BY <2>1, <2>3 DEF Elements
  <2>6. ASSUME NEW i \in 1 .. Len(s)
        PROVE  s[i] = Head(s) \/ s[i] \in Elements(Tail(s))
    <3>1. CASE i = 1
      BY <2>1, <3>1
    <3>2. CASE i - 1 \in DOMAIN Tail(s) /\ s[i] = Tail(s)[i - 1]
      BY <3>2 DEF Elements
    <3> QED
      BY <2>1, <2>2, <3>1, <3>2
  <2>7. \A x \in Elements(s) : x = Head(s) \/ x \in Elements(Tail(s))
    BY <2>1, <2>6 DEF Elements
  <2> QED
    BY <2>4, <2>5, <2>7
<1> QED
  BY <1>1, <1>2, <1>3, <1>4, <1>5, <1>6

\* The same for two queues that are joined, and for one element.
LEMMA ElementsJoined ==
  ASSUME NEW S, NEW r \in Seq(S), NEW s \in Seq(S)
  PROVE  Elements(r \o s) = Elements(r) \cup Elements(s)
BY ElementsOf

\* An element that is appended.
LEMMA ElementsAppended ==
  ASSUME NEW S, NEW s \in Seq(S), NEW x \in S
  PROVE  Elements(Append(s, x)) = Elements(s) \cup {x}
BY ElementsOf
=============================================================================
