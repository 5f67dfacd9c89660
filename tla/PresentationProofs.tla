------------------------- MODULE PresentationProofs -------------------------
(***************************************************************************)
(* Proofs about Presentation: what send_raw_message makes of any text, and *)
(* that SMS are shown once, in order and as a whole but for ends of lines. *)
(***************************************************************************)
EXTENDS Presentation, MapsProofs, FiniteSetTheorems, WellFoundedInduction

-----------------------------------------------------------------------------
(* Loops *)

\* A set of numbers that is not empty has a least element.
LEMMA LeastElement ==
  ASSUME NEW T \in SUBSET Nat, T # {}
  PROVE  \E m \in T : \A k \in T : m <= k
<1> DEFINE R == OpToRel(<, Nat)
<1>1. IsWellFoundedOn(R, Nat)
  BY NatLessThanWellFounded
<1>2. \A x, y \in Nat : x < y => <<x, y>> \in R
  BY DEF OpToRel
<1> HIDE DEF R
<1>3. PICK x \in T : \A y \in T : ~ (<<y, x>> \in R)
  BY <1>1, WFMin
<1>4. \A y \in T : ~(y < x)
  BY <1>2, <1>3
<1>5. \A y \in T : x <= y
  BY <1>4
<1> QED
  BY <1>5

\* Induction over a set: what holds of 0, and of n + 1 when it holds of n,
\* holds of all.
LEMMA CountingUp ==
  ASSUME NEW T, 0 \in T, \A n \in Nat : n \in T => n + 1 \in T
  PROVE  Nat \subseteq T
<1> SUFFICES ASSUME Nat \ T # {} PROVE FALSE
  OBVIOUS
<1>1. PICK m \in Nat \ T : \A k \in Nat \ T : m <= k
  BY LeastElement
<1>2. m # 0 /\ m - 1 \in Nat /\ m - 1 \in T
  BY <1>1
<1> QED
  BY <1>1, <1>2

\* The same from m to n.
LEMMA CountingUpTo ==
  ASSUME NEW m \in Nat, NEW n \in Nat, NEW T, m \in T,
         \A k \in m .. n : k # m /\ k - 1 \in T => k \in T
  PROVE  \A k \in m .. n : k \in T
<1> DEFINE U == {h \in Nat : m + h <= n => m + h \in T}
<1>1. 0 \in U
  OBVIOUS
<1>2. ASSUME NEW h \in Nat, h \in U
      PROVE  h + 1 \in U
  <2>1. CASE m + (h + 1) <= n
    <3>1. m + (h + 1) \in m .. n /\ (m + (h + 1)) - 1 = m + h /\ m + h <= n /\ m + (h + 1) # m
      BY <2>1
    <3>2. m + h \in T
      BY <1>2, <3>1
    <3> QED
      BY <3>1, <3>2
  <2>2. CASE ~(m + (h + 1) <= n)
    BY <2>2
  <2> QED
    BY <2>1, <2>2
<1>3. Nat \subseteq U
  <2> HIDE DEF U
  <2> QED
    BY <1>1, <1>2, CountingUp
<1>4. ASSUME NEW k \in m .. n
      PROVE  k \in T
  <2>1. k - m \in Nat /\ m + (k - m) = k /\ k <= n
    OBVIOUS
  <2>2. k - m \in U
    BY <2>1, <1>3
  <2> QED
    BY <2>1, <2>2
<1> QED
  BY <1>4

\* f is what the loops of sender_common.rs compute from m to n: it begins with
\* base and goes on by step.
IsFold(f, S, m, n, base, step) ==
  /\ f \in [m .. n -> S] /\ f[m] = base
  /\ \A k \in m .. n : k # m => f[k] = step[k][f[k - 1]]

\* Such a loop comes to its end.
LEMMA FoldExists ==
  ASSUME NEW S, NEW m \in Nat, NEW n \in Nat, m <= n, NEW base \in S,
         NEW step \in [m .. n -> [S -> S]]
  PROVE  \E f : IsFold(f, S, m, n, base, step)
<1> DEFINE Good(h, f) == /\ f \in [m .. h -> S] /\ f[m] = base
                         /\ \A k \in m .. h : k # m => f[k] = step[k][f[k - 1]]
           T == {h \in Nat : \E f : Good(h, f)}
<1>1. m \in T
  <2>1. Good(m, [k \in m .. m |-> base])
    OBVIOUS
  <2> QED
    BY <2>1
<1>2. ASSUME NEW e \in m .. n, e # m, e - 1 \in T
      PROVE  e \in T
  <2>1. PICK f : Good(e - 1, f)
    BY <1>2
  <2> DEFINE g == [k \in m .. e |-> IF k = e THEN step[k][f[k - 1]] ELSE f[k]]
  <2>2. e - 1 \in m .. (e - 1) /\ f[e - 1] \in S
    BY <2>1, <1>2
  <2>3. step[e][f[e - 1]] \in S
    BY <2>2
  <2>4. \A k \in m .. e : k = e \/ k \in m .. (e - 1)
    OBVIOUS
  <2>5. g \in [m .. e -> S]
    BY <2>1, <2>3, <2>4
  <2>6. g[m] = base
    BY <2>1, <1>2
  <2>7. ASSUME NEW k \in m .. e, k # m
        PROVE  g[k] = step[k][g[k - 1]]
    <3>1. k - 1 \in m .. e /\ k - 1 # e /\ g[k - 1] = f[k - 1]
      BY <2>7
    <3>2. CASE k = e
      BY <3>1, <3>2
    <3>3. CASE k # e
      <4>1. k \in m .. (e - 1)
        BY <3>3
      <4> QED
        BY <4>1, <3>1, <3>3, <2>1, <2>7
    <3> QED
      BY <3>2, <3>3
  <2>8. Good(e, g)
    BY <2>5, <2>6, <2>7
  <2>9. e \in Nat
    OBVIOUS
  <2> HIDE DEF Good
  <2> QED
    BY <2>8, <2>9
<1>3. \A k \in m .. n : k \in T
  <2> HIDE DEF T
  <2> QED
    BY <1>1, <1>2, CountingUpTo
<1>4. PICK f : Good(n, f)
  BY <1>3
<1>5. IsFold(f, S, m, n, base, step)
  BY <1>4 DEF IsFold
<1> QED
  BY <1>5

\* One turn of such a loop.
LEMMA FoldValue ==
  ASSUME NEW S, NEW m \in Nat, NEW n \in Nat, NEW base, NEW step,
         NEW f, IsFold(f, S, m, n, base, step), NEW k \in m .. n
  PROVE  f[k] \in S /\ (k # m => k - 1 \in m .. n /\ f[k - 1] \in S /\ f[k] = step[k][f[k - 1]])
<1>1. k # m => k - 1 \in m .. n
  OBVIOUS
<1> QED
  BY <1>1 DEF IsFold

-----------------------------------------------------------------------------
(* Sequences that are joined *)

\* F is ss[1] \o ... \o ss[h]: its k-th element is the one at col[k] of ss[row[k]].
IsWalk(ss, h, F, row, col) ==
  /\ row \in [1 .. Len(F) -> Nat] /\ col \in [1 .. Len(F) -> Nat]
  /\ \A k \in 1 .. Len(F) : /\ row[k] \in 1 .. h /\ col[k] \in 1 .. Len(ss[row[k]])
                            /\ F[k] = ss[row[k]][col[k]]
  /\ \A k, l \in 1 .. Len(F) : k < l => row[k] < row[l] \/ (row[k] = row[l] /\ col[k] < col[l])
  /\ \A i \in 1 .. h : \A j \in 1 .. Len(ss[i]) : \E k \in 1 .. Len(F) : row[k] = i /\ col[k] = j

\* Q is closed under concatenation.
Closed(Q) == \A q, r \in Q : q \o r \in Q

\* h is what FlattenSeq has joined, after one sequence and the next.
IsJoin(h, ss, n, Q) ==
  /\ h \in [1 .. n -> Q]
  /\ h[1] = ss[1]
  /\ \A k \in 1 .. n : k # 1 => h[k] = h[k - 1] \o ss[k]
  /\ FlattenSeq(ss) = h[n]

\* FlattenSeq, by its definition.
LEMMA FlattenDef ==
  ASSUME NEW Q, NEW ss, NEW n \in Nat \ {0}, Len(ss) = n,
         \A k \in 1 .. n : ss[k] \in Q, Closed(Q)
  PROVE  \E h : IsJoin(h, ss, n, Q)
<1> DEFINE step == [k \in 1 .. n |-> [q \in Q |-> q \o ss[k]]]
<1>1. step \in [1 .. n -> [Q -> Q]]
  BY DEF Closed
<1>2. PICK g : IsFold(g, Q, 1, n, ss[1], step)
  <2> HIDE DEF step
  <2>1. ss[1] \in Q /\ 1 <= n /\ 1 \in Nat /\ n \in Nat
    OBVIOUS
  <2> QED
    BY <1>1, <2>1, FoldExists
<1>3. ASSUME NEW k \in 1 .. n, k # 1
      PROVE  g[k] = g[k - 1] \o ss[k]
  <2>1. g[k - 1] \in Q /\ g[k] = step[k][g[k - 1]]
    <3> HIDE DEF step
    <3>1. 1 \in Nat /\ n \in Nat
      OBVIOUS
    <3> QED
      BY <1>2, <1>3, <3>1, FoldValue
  <2> QED
    BY <2>1
<1>4. g = [i \in 1 .. n |-> IF i = 1 THEN ss[i] ELSE g[i - 1] \o ss[i]]
  BY <1>2, <1>3 DEF IsFold
<1> DEFINE h == CHOOSE flatten : flatten = [i \in 1 .. n |-> IF i = 1 THEN ss[i] ELSE flatten[i - 1] \o ss[i]]
<1>5. h = [i \in 1 .. n |-> IF i = 1 THEN ss[i] ELSE h[i - 1] \o ss[i]]
  BY <1>4
<1>6. FlattenSeq(ss) = h[n]
  BY DEF FlattenSeq
<1> HIDE DEF h, step
<1>7. h[1] = ss[1] /\ \A k \in 1 .. n : k # 1 => h[k] = h[k - 1] \o ss[k]
  <2>1. 1 \in 1 .. n
    OBVIOUS
  <2> QED
    BY <1>5, <2>1, Zenon
<1> DEFINE T == {k \in 1 .. n : h[k] \in Q}
<1>8. 1 \in T
  BY <1>7
<1>9. ASSUME NEW k \in 1 .. n, k # 1, k - 1 \in T
      PROVE  k \in T
  BY <1>7, <1>9 DEF Closed
<1>10. \A k \in 1 .. n : k \in T
  <2> HIDE DEF T
  <2> QED
    BY <1>8, <1>9, CountingUpTo
<1>11. h \in [1 .. n -> Q]
  BY <1>5, <1>10
<1>12. IsJoin(h, ss, n, Q)
  BY <1>6, <1>7, <1>11 DEF IsJoin
<1> QED
  BY <1>12

\* FlattenSeq joins one sequence after another (push_str of process_msg_pdu).
LEMMA FlattenSteps ==
  ASSUME NEW S, NEW ss \in Seq(Seq(S))
  PROVE  \E f \in [0 .. Len(ss) -> Seq(S)] :
           /\ f[0] = <<>>
           /\ \A k \in 1 .. Len(ss) : f[k] = f[k - 1] \o ss[k]
           /\ FlattenSeq(ss) = f[Len(ss)]
<1>1. PICK n \in Nat : n = Len(ss)
  OBVIOUS
<1>2. PICK Q : Q = Seq(S)
  OBVIOUS
<1>3. (\A k \in 1 .. n : ss[k] \in Q) /\ Closed(Q) /\ <<>> \in Q
  BY <1>1, <1>2 DEF Closed
<1>4. \A k \in 1 .. n : <<>> \o ss[k] = ss[k]
  BY <1>2, <1>3, ConcatEmptySeq
<1>5. CASE n = 0
  <2>1. ss = <<>>
    BY <1>1, <1>5, EmptySeq
  <2>2. FlattenSeq(ss) = <<>>
    BY <1>1, <1>5, <2>1 DEF FlattenSeq
  <2> DEFINE f == [k \in 0 .. n |-> <<>>]
  <2>3. f \in [0 .. n -> Q] /\ f[0] = <<>> /\ 1 .. n = {}
    BY <1>3, <1>5
  <2> HIDE DEF f
  <2> QED
    BY <1>1, <1>2, <1>5, <2>2, <2>3
<1>6. CASE n # 0
  <2>1. n \in Nat \ {0}
    BY <1>6
  <2>2. Len(ss) = n /\ Closed(Q) /\ \A k \in 1 .. n : ss[k] \in Q
    BY <1>1, <1>3
  <2>3. PICK h : IsJoin(h, ss, n, Q)
    BY <2>1, <2>2, FlattenDef
  <2>4. /\ h \in [1 .. n -> Q] /\ h[1] = ss[1]
        /\ \A k \in 1 .. n : k # 1 => h[k] = h[k - 1] \o ss[k]
        /\ FlattenSeq(ss) = h[n]
    BY <2>3 DEF IsJoin
  <2> DEFINE f == [k \in 0 .. n |-> IF k = 0 THEN <<>> ELSE h[k]]
  <2>5. f \in [0 .. n -> Q] /\ f[0] = <<>> /\ f[n] = h[n]
    <3>1. 0 \in 0 .. n /\ n \in 0 .. n /\ n # 0
      BY <2>1
    <3>2. ASSUME NEW k \in 0 .. n
          PROVE  (IF k = 0 THEN <<>> ELSE h[k]) \in Q
      <4>1. k # 0 => k \in 1 .. n
        OBVIOUS
      <4>2. \A i \in 1 .. n : h[i] \in Q
        BY <2>4
      <4>3. <<>> \in Q
        BY <1>3
      <4> QED
        BY <4>1, <4>2, <4>3, Zenon
    <3>3. f \in [0 .. n -> Q]
      BY <3>2
    <3> QED
      BY <3>1, <3>3
  <2>6. ASSUME NEW k \in 1 .. n
        PROVE  f[k] = f[k - 1] \o ss[k]
    <3>1. CASE k = 1
      <4>1. f[k] = ss[k] /\ f[k - 1] = <<>>
        BY <2>1, <2>4, <3>1
      <4> QED
        BY <1>4, <4>1
    <3>2. CASE k # 1
      <4>1. k - 1 \in 1 .. n /\ k - 1 # 0
        BY <3>2
      <4>2. f[k - 1] = h[k - 1] /\ f[k] = h[k]
        BY <4>1, <3>2
      <4> QED
        BY <2>4, <3>2, <4>1, <4>2
    <3> QED
      BY <3>1, <3>2
  <2> HIDE DEF f
  <2> QED
    BY <1>1, <1>2, <2>4, <2>5, <2>6
<1> QED
  BY <1>5, <1>6

\* One more sequence is joined.
LEMMA WalkStep ==
  ASSUME NEW S, NEW ss, NEW h \in Nat, ss[h + 1] \in Seq(S),
         NEW F \in Seq(S), NEW row, NEW col, IsWalk(ss, h, F, row, col)
  PROVE  \E r, c : IsWalk(ss, h + 1, F \o ss[h + 1], r, c)
<1> DEFINE G == F \o ss[h + 1]
           n == Len(F)
           r == [k \in 1 .. Len(G) |-> IF k <= n THEN row[k] ELSE h + 1]
           c == [k \in 1 .. Len(G) |-> IF k <= n THEN col[k] ELSE k - n]
<1>1. ss[h + 1] \in Seq(S) /\ n \in Nat /\ Len(ss[h + 1]) \in Nat
  OBVIOUS
<1>2. /\ Len(G) = n + Len(ss[h + 1])
      /\ \A k \in 1 .. n : G[k] = F[k]
      /\ \A k \in 1 .. Len(G) : k > n => G[k] = ss[h + 1][k - n] /\ k - n \in 1 .. Len(ss[h + 1])
  BY <1>1
<1> HIDE DEF G
<1>3. /\ \A k \in 1 .. n : k \in 1 .. Len(G) /\ r[k] = row[k] /\ c[k] = col[k] /\ row[k] \in Nat /\ col[k] \in Nat
      /\ \A k \in 1 .. Len(G) : k > n => r[k] = h + 1 /\ c[k] = k - n
      /\ \A k \in 1 .. Len(G) : k > n \/ k \in 1 .. n
  BY <1>1, <1>2 DEF IsWalk
<1>4. r \in [1 .. Len(G) -> Nat] /\ c \in [1 .. Len(G) -> Nat]
  <2>1. \A k \in 1 .. Len(G) : r[k] \in Nat /\ c[k] \in Nat
    <3> SUFFICES ASSUME NEW k \in 1 .. Len(G) PROVE r[k] \in Nat /\ c[k] \in Nat
      OBVIOUS
    <3> HIDE DEF r, c
    <3> QED
      BY <1>1, <1>3, SMTT(30)
  <2> QED
    BY <2>1, Zenon
<1> HIDE DEF r, c
<1>5. ASSUME NEW k \in 1 .. Len(G)
      PROVE  r[k] \in 1 .. h + 1 /\ c[k] \in 1 .. Len(ss[r[k]]) /\ G[k] = ss[r[k]][c[k]]
  <2>1. CASE k > n
    <3>1. r[k] = h + 1 /\ c[k] = k - n
      BY <1>3, <2>1
    <3>2. G[k] = ss[h + 1][k - n] /\ k - n \in 1 .. Len(ss[h + 1])
      BY <1>2, <2>1
    <3>3. h + 1 \in 1 .. h + 1
      OBVIOUS
    <3> QED
      BY <3>1, <3>2, <3>3
  <2>2. CASE k \in 1 .. n
    BY <1>2, <1>3, <2>2 DEF IsWalk
  <2> QED
    BY <1>3, <2>1, <2>2
<1>6. ASSUME NEW k \in 1 .. Len(G), NEW l \in 1 .. Len(G), k < l
      PROVE  r[k] < r[l] \/ (r[k] = r[l] /\ c[k] < c[l])
  <2>1. CASE k > n
    BY <1>1, <1>3, <1>6, <2>1
  <2>2. CASE k \in 1 .. n /\ l > n
    BY <1>1, <1>3, <2>2 DEF IsWalk
  <2>3. CASE k \in 1 .. n /\ l \in 1 .. n
    BY <1>3, <1>6, <2>3 DEF IsWalk
  <2> QED
    BY <1>3, <2>1, <2>2, <2>3
<1>7. ASSUME NEW i \in 1 .. h + 1, NEW j \in 1 .. Len(ss[i])
      PROVE  \E k \in 1 .. Len(G) : r[k] = i /\ c[k] = j
  <2>1. CASE i = h + 1
    <3>1. n + j \in 1 .. Len(G) /\ n + j > n /\ (n + j) - n = j
      BY <1>1, <1>2, <2>1
    <3> QED
      BY <1>3, <2>1, <3>1
  <2>2. CASE i \in 1 .. h
    <3>1. PICK k \in 1 .. n : row[k] = i /\ col[k] = j
      BY <2>2 DEF IsWalk
    <3> QED
      BY <1>3, <3>1
  <2> QED
    BY <2>1, <2>2
<1>8. IsWalk(ss, h + 1, G, r, c)
  BY <1>4, <1>5, <1>6, <1>7 DEF IsWalk
<1> QED
  BY <1>8 DEF G

\* What FlattenSeq returns has the elements of the sequences, in order.
LEMMA FlattenWalk ==
  ASSUME NEW S, NEW ss \in Seq(Seq(S))
  PROVE  /\ FlattenSeq(ss) \in Seq(S)
         /\ \E row, col : IsWalk(ss, Len(ss), FlattenSeq(ss), row, col)
<1>1. PICK f \in [0 .. Len(ss) -> Seq(S)] :
           /\ f[0] = <<>>
           /\ \A k \in 1 .. Len(ss) : f[k] = f[k - 1] \o ss[k]
           /\ FlattenSeq(ss) = f[Len(ss)]
  BY FlattenSteps
<1> DEFINE T == {h \in Nat : h <= Len(ss) => \E row, col : IsWalk(ss, h, f[h], row, col)}
<1>2. 0 \in T
  <2>1. IsWalk(ss, 0, f[0], <<>>, <<>>)
    BY <1>1 DEF IsWalk
  <2> QED
    BY <2>1
<1>3. ASSUME NEW h \in Nat, h \in T PROVE h + 1 \in T
  <2> SUFFICES ASSUME h + 1 <= Len(ss) PROVE \E row, col : IsWalk(ss, h + 1, f[h + 1], row, col)
    OBVIOUS
  <2>1. f[h] \in Seq(S) /\ f[h + 1] = f[h] \o ss[h + 1] /\ ss[h + 1] \in Seq(S)
    <3>1. h \in 0 .. Len(ss) /\ h + 1 \in 1 .. Len(ss) /\ (h + 1) - 1 = h
      OBVIOUS
    <3>2. f[h] \in Seq(S)
      BY <3>1, Zenon
    <3>3. ss[h + 1] \in Seq(S)
      BY <3>1, ElementOfSeq
    <3>4. f[h + 1] = f[(h + 1) - 1] \o ss[h + 1]
      BY <1>1, <3>1, Zenon
    <3> QED
      BY <3>1, <3>2, <3>3, <3>4
  <2>2. PICK row, col : IsWalk(ss, h, f[h], row, col)
    BY <1>3
  <2> QED
    BY <2>1, <2>2, WalkStep
<1>4. Nat \subseteq T
  <2> HIDE DEF T
  <2> QED
    BY <1>2, <1>3, CountingUp
<1>5. Len(ss) \in Nat
  OBVIOUS
<1> QED
  BY <1>1, <1>4, <1>5

-----------------------------------------------------------------------------
(* Elements that are selected *)

\* f holds the results of Selected for the first 0, 1, ... elements of s.
IsSelection(s, S, A, f) ==
  /\ f \in [0 .. Len(s) -> Seq(A)]
  /\ f[0] = <<>>
  /\ \A k \in 1 .. Len(s) : f[k] = IF s[k] \in S THEN Append(f[k - 1], s[k]) ELSE f[k - 1]
  /\ Selected(s, S) = f[Len(s)]

\* Selected looks at one element after another (filter_map of send_raw_message).
LEMMA SelectedSteps ==
  ASSUME NEW A, NEW s \in Seq(A), NEW S
  PROVE  \E f : IsSelection(s, S, A, f)
<1> DEFINE n == Len(s)
           Q == Seq(A)
           step == [k \in 0 .. n |-> [q \in Q |-> IF k # 0 /\ s[k] \in S THEN Append(q, s[k]) ELSE q]]
<1>1. n \in Nat /\ <<>> \in Q /\ 0 \in Nat /\ 0 <= n
  OBVIOUS
<1>2. step \in [0 .. n -> [Q -> Q]]
  <2>1. ASSUME NEW k \in 0 .. n, NEW q \in Q
        PROVE  (IF k # 0 /\ s[k] \in S THEN Append(q, s[k]) ELSE q) \in Q
    <3>1. k # 0 => s[k] \in A
      OBVIOUS
    <3> QED
      BY <3>1, AppendProperties
  <2> HIDE DEF Q
  <2> QED
    BY <2>1
<1>3. PICK g : IsFold(g, Q, 0, n, <<>>, step)
  <2> HIDE DEF step, n, Q
  <2> QED
    BY <1>1, <1>2, FoldExists
<1>4. g[0] = <<>> /\ g \in [0 .. n -> Q]
  BY <1>3 DEF IsFold
<1>5. ASSUME NEW k \in 0 .. n, k # 0
      PROVE  g[k] = IF s[k] \in S THEN Append(g[k - 1], s[k]) ELSE g[k - 1]
  <2>1. g[k - 1] \in Q /\ g[k] = step[k][g[k - 1]]
    <3> HIDE DEF step, Q, n
    <3> QED
      BY <1>1, <1>3, <1>5, FoldValue
  <2> HIDE DEF Q
  <2> QED
    BY <1>5, <2>1
<1> DEFINE at == CHOOSE at : at = [k \in 0 .. Len(s) |-> IF k = 0 THEN <<>> ELSE IF s[k] \in S THEN Append(at[k - 1], s[k]) ELSE at[k - 1]]
<1>6. at = [k \in 0 .. n |-> IF k = 0 THEN <<>> ELSE IF s[k] \in S THEN Append(at[k - 1], s[k]) ELSE at[k - 1]]
  <2>1. g = [k \in 0 .. n |-> IF k = 0 THEN <<>> ELSE IF s[k] \in S THEN Append(g[k - 1], s[k]) ELSE g[k - 1]]
    <3> HIDE DEF Q
    <3> QED
      BY <1>4, <1>5
  <2> QED
    BY <2>1
<1>7. Selected(s, S) = at[n]
  BY DEF Selected
<1> HIDE DEF at, step
<1>8. /\ at[0] = <<>>
      /\ \A k \in 0 .. n : k # 0 => at[k] = IF s[k] \in S THEN Append(at[k - 1], s[k]) ELSE at[k - 1]
  <2>1. 0 \in 0 .. n
    BY <1>1
  <2> HIDE DEF n
  <2> QED
    BY <1>6, <2>1, Zenon
<1>9. \A k \in 0 .. n : k \in {j \in 0 .. n : at[j] \in Q}
  <2> DEFINE T == {j \in 0 .. n : at[j] \in Q}
  <2>1. 0 \in T
    <3> HIDE DEF Q, n
    <3>1. 0 \in 0 .. n
      BY <1>1
    <3> QED
      BY <1>1, <1>8, <3>1
  <2>2. ASSUME NEW k \in 0 .. n, k # 0, k - 1 \in T
        PROVE  k \in T
    <3>1. k \in 1 .. Len(s) /\ s[k] \in A
      BY <2>2
    <3>3. at[k - 1] \in Seq(A)
      BY <2>2
    <3>2. Append(at[k - 1], s[k]) \in Seq(A)
      BY <3>1, <3>3, AppendProperties
    <3>4. at[k] \in Seq(A)
      BY <1>8, <2>2, <3>2, <3>3
    <3> QED
      BY <3>4
  <2> HIDE DEF T
  <2>3. \A k \in 0 .. n : k \in T
    BY <1>1, <2>1, <2>2, CountingUpTo
  <2> QED
    BY <2>3 DEF T
<1>10. at \in [0 .. n -> Q]
  <2>1. \A k \in 0 .. n : at[k] \in Q
    BY <1>9
  <2> HIDE DEF Q
  <2> QED
    BY <1>6, <2>1
<1>11. \A k \in 1 .. n : k \in 0 .. n /\ k # 0
  OBVIOUS
<1>12. IsSelection(s, S, A, at)
  BY <1>7, <1>8, <1>10, <1>11 DEF IsSelection
<1> QED
  BY <1>12

\* F has the elements among the first h of s that are in S, and pos says where.
IsPick(s, h, S, F, pos) ==
  /\ pos \in [1 .. Len(F) -> Nat]
  /\ \A k \in 1 .. Len(F) : pos[k] \in 1 .. h /\ F[k] = s[pos[k]] /\ F[k] \in S
  /\ \A k, l \in 1 .. Len(F) : k < l => pos[k] < pos[l]
  /\ \A i \in 1 .. h : s[i] \in S => \E k \in 1 .. Len(F) : pos[k] = i

\* What Selected returns.
LEMMA SelectedPick ==
  ASSUME NEW A, NEW s \in Seq(A), NEW S
  PROVE  Selected(s, S) \in Seq(A) /\ \E pos : IsPick(s, Len(s), S, Selected(s, S), pos)
<1>0. PICK f : IsSelection(s, S, A, f)
  BY SelectedSteps
<1>1. /\ f \in [0 .. Len(s) -> Seq(A)]
      /\ f[0] = <<>>
      /\ \A k \in 1 .. Len(s) : f[k] = IF s[k] \in S THEN Append(f[k - 1], s[k]) ELSE f[k - 1]
      /\ Selected(s, S) = f[Len(s)]
  BY <1>0 DEF IsSelection
<1> DEFINE T == {h \in 0 .. Len(s) : \E pos : IsPick(s, h, S, f[h], pos)}
<1>2. 0 \in T
  <2>1. IsPick(s, 0, S, f[0], <<>>)
    BY <1>1 DEF IsPick
  <2> QED
    BY <2>1
<1>3. ASSUME NEW h \in 0 .. Len(s), h # 0, h - 1 \in T
      PROVE  h \in T
  <2>0. h \in 1 .. Len(s) /\ h - 1 \in 0 .. Len(s)
    BY <1>3
  <2>1. h \in 1 .. Len(s) /\ f[h - 1] \in Seq(A) /\ s[h] \in A /\ Len(f[h - 1]) \in Nat
    <3> HIDE DEF T
    <3> QED
      BY <1>1, <2>0
  <2>2. PICK pos : IsPick(s, h - 1, S, f[h - 1], pos)
    BY <1>3
  <2>3. PICK F \in Seq(A) : F = f[h - 1]
    BY <2>1
  <2> HIDE DEF T
  <2>4. CASE s[h] \in S
    <3> DEFINE G == Append(F, s[h])
               q == [k \in 1 .. Len(F) + 1 |-> IF k = Len(F) + 1 THEN h ELSE pos[k]]
    <3>1. f[h] = G
      BY <1>1, <2>1, <2>3, <2>4
    <3>2. Len(G) = Len(F) + 1 /\ G[Len(F) + 1] = s[h] /\ \A k \in 1 .. Len(F) : G[k] = F[k]
      BY <2>1
    <3> HIDE DEF G
    <3>3. /\ \A k \in 1 .. Len(F) + 1 : k = Len(F) + 1 \/ k \in 1 .. Len(F)
          /\ \A k \in 1 .. Len(F) : q[k] = pos[k] /\ pos[k] \in 1 .. (h - 1) /\ pos[k] \in 1 .. h /\ pos[k] < h /\ pos[k] \in Nat /\ k \in 1 .. Len(F) + 1
          /\ q[Len(F) + 1] = h /\ h \in 1 .. h /\ h \in Nat
      BY <2>1, <2>2, <2>3 DEF IsPick
    <3>4. \A k \in 1 .. Len(F) + 1 : q[k] \in 1 .. h /\ q[k] \in Nat
      <4> HIDE DEF q
      <4> QED
        BY <3>3
    <3>5. q \in [1 .. Len(F) + 1 -> Nat]
      BY <3>4
    <3> HIDE DEF q
    <3>6. \A k \in 1 .. Len(F) + 1 : G[k] = s[q[k]] /\ G[k] \in S
      BY <2>2, <2>3, <2>4, <3>2, <3>3 DEF IsPick
    <3>7. \A k, l \in 1 .. Len(F) + 1 : k < l => q[k] < q[l]
      <4> SUFFICES ASSUME NEW k \in 1 .. Len(F) + 1, NEW l \in 1 .. Len(F) + 1, k < l
                   PROVE  q[k] < q[l]
        OBVIOUS
      <4>1. k \in 1 .. Len(F)
        OBVIOUS
      <4>2. CASE l = Len(F) + 1
        BY <2>1, <3>3, <4>1, <4>2
      <4>3. CASE l \in 1 .. Len(F)
        BY <2>2, <2>3, <3>3, <4>1, <4>3 DEF IsPick
      <4> QED
        BY <3>3, <4>2, <4>3
    <3>8. ASSUME NEW i \in 1 .. h, s[i] \in S
          PROVE  \E k \in 1 .. Len(F) + 1 : q[k] = i
      <4>1. CASE i = h
        BY <3>3, <4>1
      <4>2. CASE i \in 1 .. (h - 1)
        <5>1. PICK k \in 1 .. Len(F) : pos[k] = i
          BY <2>2, <2>3, <3>8, <4>2 DEF IsPick
        <5> QED
          BY <3>3, <5>1
      <4> QED
        BY <2>1, <4>1, <4>2
    <3>9. IsPick(s, h, S, f[h], q)
      BY <3>1, <3>2, <3>4, <3>5, <3>6, <3>7, <3>8 DEF IsPick
    <3> QED
      BY <3>9 DEF T
  <2>5. CASE s[h] \notin S
    <3>1. f[h] = F
      BY <1>1, <2>1, <2>3, <2>5
    <3>2. \A i \in 1 .. h : i = h \/ i \in 1 .. (h - 1)
      BY <2>1
    <3>3. \A i \in 1 .. (h - 1) : i \in 1 .. h
      BY <2>1
    <3>4. IsPick(s, h, S, F, pos)
      BY <2>2, <2>3, <2>5, <3>2, <3>3 DEF IsPick
    <3> QED
      BY <3>1, <3>4 DEF T
  <2> QED
    BY <2>4, <2>5
<1>4. 0 \in Nat /\ Len(s) \in Nat
  OBVIOUS
<1>5. \A k \in 0 .. Len(s) : k \in T
  <2> HIDE DEF T
  <2> QED
    BY <1>2, <1>3, <1>4, CountingUpTo
<1>6. Len(s) \in 0 .. Len(s)
  BY <1>4
<1> QED
  BY <1>1, <1>5, <1>6

-----------------------------------------------------------------------------
(* Bytes *)

\* Offsets counts the bytes before each character (char_indices).
LEMMA OffsetsDef ==
  ASSUME NEW line \in Seq(Char)
  PROVE  /\ Offsets(line) \in [1 .. Len(line) + 1 -> Nat]
         /\ Offsets(line)[1] = 0
         /\ \A k \in 1 .. Len(line) : Offsets(line)[k + 1] = Offsets(line)[k] + line[k].w
<1>1. PICK n \in Nat : n = Len(line) + 1
  OBVIOUS
<1>2. PICK wd \in [1 .. n -> Nat] : \A k \in 1 .. n : k # 1 => wd[k] = line[k - 1].w
  <2>1. ASSUME NEW k \in 1 .. n, k # 1
        PROVE  line[k - 1].w \in Nat
    <3>1. k - 1 \in 1 .. Len(line)
      BY <1>1, <2>1
    <3>2. line[k - 1] \in Char
      BY <3>1
    <3> QED
      BY <3>2 DEF Char
  <2> DEFINE wd == [k \in 1 .. n |-> IF k = 1 THEN 0 ELSE line[k - 1].w]
  <2>2. wd \in [1 .. n -> Nat]
    BY <2>1
  <2>3. \A k \in 1 .. n : k # 1 => wd[k] = line[k - 1].w
    OBVIOUS
  <2> HIDE DEF wd
  <2> QED
    BY <2>2, <2>3
<1> DEFINE step == [k \in 1 .. n |-> [q \in Nat |-> q + wd[k]]]
<1>3. step \in [1 .. n -> [Nat -> Nat]]
  OBVIOUS
<1>4. 1 \in Nat /\ 1 <= n /\ 0 \in Nat
  BY <1>1
<1>5. PICK g : IsFold(g, Nat, 1, n, 0, step)
  <2> HIDE DEF step
  <2> QED
    BY <1>3, <1>4, FoldExists
<1>6. g[1] = 0 /\ g \in [1 .. n -> Nat]
  BY <1>5 DEF IsFold
<1>7. ASSUME NEW k \in 1 .. n, k # 1
      PROVE  g[k] = g[k - 1] + line[k - 1].w
  <2>1. g[k - 1] \in Nat /\ g[k] = step[k][g[k - 1]]
    <3>1. k - 1 \in 1 .. n
      BY <1>7
    <3> HIDE DEF step
    <3> QED
      BY <1>5, <1>6, <1>7, <3>1 DEF IsFold
  <2> QED
    BY <1>2, <1>7, <2>1
<1> DEFINE off == CHOOSE off : off = [k \in 1 .. Len(line) + 1 |-> IF k = 1 THEN 0 ELSE off[k - 1] + line[k - 1].w]
<1>8. off = [k \in 1 .. n |-> IF k = 1 THEN 0 ELSE off[k - 1] + line[k - 1].w]
  <2>1. g = [k \in 1 .. n |-> IF k = 1 THEN 0 ELSE g[k - 1] + line[k - 1].w]
    BY <1>6, <1>7
  <2> QED
    BY <1>1, <2>1
<1>9. Offsets(line) = off
  BY DEF Offsets
<1> HIDE DEF off, step
<1>10. off[1] = 0 /\ \A k \in 1 .. n : k # 1 => off[k] = off[k - 1] + line[k - 1].w
  <2>1. 1 \in 1 .. n
    BY <1>4
  <2> QED
    BY <1>8, <2>1, Zenon
<1> DEFINE T == {k \in 1 .. n : off[k] \in Nat}
<1>11. 1 \in T
  BY <1>4, <1>10
<1>12. ASSUME NEW k \in 1 .. n, k # 1, k - 1 \in T
       PROVE  k \in T
  <2>1. off[k] = off[k - 1] + wd[k] /\ off[k - 1] \in Nat /\ wd[k] \in Nat
    BY <1>2, <1>10, <1>12
  <2> QED
    BY <2>1
<1>13. \A k \in 1 .. n : k \in T
  <2> HIDE DEF T
  <2> QED
    BY <1>4, <1>11, <1>12, CountingUpTo
<1>14. off \in [1 .. n -> Nat]
  BY <1>8, <1>13
<1>15. ASSUME NEW k \in 1 .. Len(line)
       PROVE  off[k + 1] = off[k] + line[k].w
  <2>1. k + 1 \in 1 .. n /\ k + 1 # 1 /\ (k + 1) - 1 = k
    BY <1>1
  <2> QED
    BY <1>10, <2>1
<1> QED
  BY <1>1, <1>9, <1>10, <1>14, <1>15

\* Offsets grow along a line.
LEMMA OffsetsGrow ==
  ASSUME NEW line \in Seq(Char)
  PROVE  \A i, j \in 1 .. Len(line) + 1 : i <= j => Offsets(line)[i] <= Offsets(line)[j]
<1>1. PICK n \in Nat : n = Len(line) + 1
  OBVIOUS
<1>2. PICK off \in [1 .. n -> Nat] : off = Offsets(line)
  BY <1>1, OffsetsDef
<1>3. ASSUME NEW k \in 1 .. n, k # 1
      PROVE  off[k - 1] <= off[k]
  <2>1. k - 1 \in 1 .. Len(line) /\ (k - 1) + 1 = k
    BY <1>1, <1>3
  <2>2. off[k] = off[k - 1] + line[k - 1].w
    BY <1>2, <2>1, OffsetsDef
  <2>3. line[k - 1] \in Char
    BY <2>1
  <2>5. line[k - 1].w \in Nat
    BY <2>3 DEF Char
  <2>4. off[k - 1] \in Nat
    BY <1>1, <2>1
  <2> QED
    BY <2>2, <2>4, <2>5
<1>4. ASSUME NEW i \in 1 .. n
      PROVE  \A j \in i .. n : off[i] <= off[j]
  <2> DEFINE T == {j \in i .. n : off[i] <= off[j]}
  <2>1. i \in T
    BY <1>2
  <2>2. ASSUME NEW j \in i .. n, j # i, j - 1 \in T
        PROVE  j \in T
    <3>1. off[i] <= off[j - 1] /\ j - 1 \in 1 .. n /\ j \in 1 .. n /\ j # 1
      BY <2>2
    <3>2. off[i] \in Nat /\ off[j - 1] \in Nat /\ off[j] \in Nat
      BY <3>1
    <3>3. off[j - 1] <= off[j]
      BY <1>3, <3>1
    <3> QED
      BY <3>1, <3>2, <3>3
  <2>3. \A j \in i .. n : j \in T
    <3>1. i \in Nat
      OBVIOUS
    <3> HIDE DEF T
    <3> QED
      BY <2>1, <2>2, <3>1, CountingUpTo
  <2> QED
    BY <2>3
<1> QED
  BY <1>1, <1>2, <1>4

\* The bytes of a part of a line are the difference of two offsets
\* (&line[last..i]).
LEMMA PartBytes ==
  ASSUME NEW line \in Seq(Char), NEW a \in 1 .. Len(line) + 1, NEW b \in 0 .. Len(line), a <= b + 1
  PROVE  /\ SubSeq(line, a, b) \in Seq(Char)
         /\ Bytes(SubSeq(line, a, b)) = Offsets(line)[b + 1] - Offsets(line)[a]
<1> DEFINE part == SubSeq(line, a, b)
<1>1. PICK n \in Nat : n = (b + 1) - a
  OBVIOUS
<1>2. part \in Seq(Char) /\ Len(part) = n /\ \A k \in 1 .. n : part[k] = line[a + k - 1]
  BY <1>1
<1> HIDE DEF part
<1>3. PICK off \in [1 .. Len(line) + 1 -> Nat] : off = Offsets(line)
  BY OffsetsDef
<1>4. PICK po \in [1 .. n + 1 -> Nat] : po = Offsets(part)
  BY <1>2, OffsetsDef
<1> DEFINE T == {k \in 1 .. n + 1 : po[k] = off[a + k - 1] - off[a]}
<1>5. 1 \in T
  <2>1. po[1] = 0 /\ a + 1 - 1 = a /\ off[a] \in Nat
    BY <1>2, <1>3, <1>4, OffsetsDef, SMTT(30)
  <2> QED
    BY <1>1, <2>1
<1>6. ASSUME NEW k \in 1 .. n + 1, k # 1, k - 1 \in T
      PROVE  k \in T
  <2>1. PICK j \in 1 .. n : j = k - 1 /\ k = j + 1 /\ a + k - 1 = (a + j - 1) + 1
    BY <1>1, <1>6
  <2>2. PICK l \in 1 .. Len(line) : l = a + j - 1
    BY <1>1, <2>1
  <2>3. po[k] = po[j] + part[j].w /\ part[j] = line[l]
    BY <1>2, <1>4, <2>1, <2>2, OffsetsDef
  <2>4. off[l + 1] = off[l] + line[l].w
    BY <1>3, <2>2, OffsetsDef
  <2>5. po[j] = off[l] - off[a]
    BY <1>6, <2>1, <2>2
  <2>8. line[l] \in Char
    BY <2>2
  <2>9. line[l].w \in Nat
    BY <2>8 DEF Char
  <2>6. off[l] \in Nat /\ off[a] \in Nat /\ line[l].w \in Nat
    <3>1. l \in 1 .. Len(line) + 1
      BY <2>2
    <3> HIDE DEF T
    <3> QED
      BY <2>9, <3>1
  <2>7. po[k] = off[l + 1] - off[a]
    <3> HIDE DEF T
    <3>1. PICK x \in Nat, y \in Nat, z \in Nat : x = off[l] /\ y = off[a] /\ z = line[l].w
      BY <2>6
    <3>2. po[j] = x - y /\ off[l + 1] = x + z /\ off[a] = y
      BY <2>4, <2>5, <3>1
    <3>3. po[k] = (x - y) + z
      BY <2>3, <3>1, <3>2
    <3>4. (x - y) + z = (x + z) - y
      OBVIOUS
    <3> QED
      BY <3>2, <3>3, <3>4
  <2> QED
    BY <2>1, <2>2, <2>7
<1>7. \A k \in 1 .. n + 1 : k \in T
  <2>1. 1 \in Nat /\ n + 1 \in Nat
    OBVIOUS
  <2> HIDE DEF T
  <2> QED
    BY <1>5, <1>6, <2>1, CountingUpTo
<1>8. n + 1 \in T /\ a + (n + 1) - 1 = b + 1
  BY <1>1, <1>7
<1>9. Bytes(part) = po[n + 1]
  BY <1>2, <1>4 DEF Bytes
<1> QED
  BY <1>2, <1>3, <1>8, <1>9 DEF part

-----------------------------------------------------------------------------
(* Cutting a line into parts *)

\* The parts of a line are cut out of it in order, from aa[i] to bb[i], which is
\* in G[aa[i]], and everything before last that is in none is in N.
IsCut(line, N, G, last, parts, aa, bb) ==
  /\ aa \in [1 .. Len(parts) -> Nat] /\ bb \in [1 .. Len(parts) -> Nat]
  /\ \A i \in 1 .. Len(parts) :
       /\ 1 <= aa[i] /\ aa[i] <= bb[i] + 1 /\ bb[i] < last /\ bb[i] <= Len(line)
       /\ parts[i] = SubSeq(line, aa[i], bb[i]) /\ bb[i] \in G[aa[i]]
  /\ \A i, j \in 1 .. Len(parts) : i < j => bb[i] < aa[j]
  /\ \A p \in 1 .. last - 1 : p \in N \/ \E i \in 1 .. Len(parts) : aa[i] <= p /\ p <= bb[i]

\* At first nothing is cut.
LEMMA CutNothing ==
  ASSUME NEW line, NEW N, NEW G
  PROVE  IsCut(line, N, G, 1, <<>>, <<>>, <<>>)
BY DEF IsCut

\* The next part is cut, and the next one begins at e.
LEMMA CutAppend ==
  ASSUME NEW Q, NEW line, NEW N, NEW G, NEW last \in Nat \ {0}, NEW parts \in Seq(Q), NEW aa, NEW bb,
         IsCut(line, N, G, last, parts, aa, bb),
         NEW b \in Nat, last <= b + 1, b <= Len(line), b \in G[last], SubSeq(line, last, b) \in Q,
         NEW e \in Nat, b < e, \A p \in b + 1 .. e - 1 : p \in N
  PROVE  \E a2, b2 : IsCut(line, N, G, e, Append(parts, SubSeq(line, last, b)), a2, b2)
<1>1. PICK part \in Q : part = SubSeq(line, last, b)
  OBVIOUS
<1>2. PICK n \in Nat : n = Len(parts)
  OBVIOUS
<1> DEFINE new == Append(parts, part)
           a2 == [i \in 1 .. n + 1 |-> IF i = n + 1 THEN last ELSE aa[i]]
           b2 == [i \in 1 .. n + 1 |-> IF i = n + 1 THEN b ELSE bb[i]]
<1>3. Len(new) = n + 1 /\ new[n + 1] = part /\ \A i \in 1 .. n : new[i] = parts[i]
  BY <1>2
<1>4. \A i \in 1 .. n + 1 : i = n + 1 \/ i \in 1 .. n
  BY <1>2
<1>5. /\ a2[n + 1] = last /\ b2[n + 1] = b
      /\ \A i \in 1 .. n : a2[i] = aa[i] /\ b2[i] = bb[i] /\ i \in 1 .. n + 1
      /\ \A i \in 1 .. n : aa[i] \in Nat /\ bb[i] \in Nat /\ bb[i] < last
  <2>1. \A i \in 1 .. n : aa[i] \in Nat /\ bb[i] \in Nat /\ bb[i] < last
    BY <1>2 DEF IsCut
  <2>2. \A i \in 1 .. n : i \in 1 .. n + 1 /\ i # n + 1
    BY <1>2
  <2>3. n + 1 \in 1 .. n + 1
    BY <1>2
  <2> QED
    BY <2>1, <2>2, <2>3
<1>6. a2 \in [1 .. n + 1 -> Nat] /\ b2 \in [1 .. n + 1 -> Nat]
  BY <1>4, <1>5
<1> HIDE DEF new, a2, b2
<1>7. ASSUME NEW i \in 1 .. n + 1
      PROVE  /\ 1 <= a2[i] /\ a2[i] <= b2[i] + 1 /\ b2[i] < e /\ b2[i] <= Len(line)
             /\ new[i] = SubSeq(line, a2[i], b2[i]) /\ b2[i] \in G[a2[i]]
  <2>1. CASE i = n + 1
    BY <1>1, <1>3, <1>5, <2>1
  <2>2. CASE i \in 1 .. n
    <3>1. /\ 1 <= aa[i] /\ aa[i] <= bb[i] + 1 /\ bb[i] < last /\ bb[i] <= Len(line)
          /\ parts[i] = SubSeq(line, aa[i], bb[i]) /\ bb[i] \in G[aa[i]]
      BY <1>2, <2>2 DEF IsCut
    <3>2. bb[i] < e
      BY <1>5, <2>2, <3>1
    <3> QED
      BY <1>3, <1>5, <2>2, <3>1, <3>2
  <2> QED
    BY <1>4, <2>1, <2>2
<1>8. ASSUME NEW i \in 1 .. n + 1, NEW j \in 1 .. n + 1, i < j
      PROVE  b2[i] < a2[j]
  <2>1. i \in 1 .. n
    BY <1>8
  <2>2. CASE j = n + 1
    BY <1>5, <2>1, <2>2
  <2>3. CASE j \in 1 .. n
    <3>1. bb[i] < aa[j]
      BY <1>2, <1>8, <2>1, <2>3 DEF IsCut
    <3> QED
      BY <1>5, <2>1, <2>3, <3>1
  <2> QED
    BY <1>4, <2>2, <2>3
<1>9. ASSUME NEW p \in 1 .. e - 1, p \notin N
      PROVE  \E i \in 1 .. n + 1 : a2[i] <= p /\ p <= b2[i]
  <2>1. CASE p \in 1 .. last - 1
    <3>1. PICK i \in 1 .. n : aa[i] <= p /\ p <= bb[i]
      BY <1>2, <1>9, <2>1 DEF IsCut
    <3> QED
      BY <1>5, <3>1
  <2>2. CASE ~(p < last)
    <3>1. p <= b
      BY <1>9
    <3>2. last <= p /\ n + 1 \in 1 .. n + 1
      BY <2>2
    <3> QED
      BY <1>5, <3>1, <3>2
  <2>3. p \in 1 .. last - 1 \/ ~(p < last)
    OBVIOUS
  <2> QED
    BY <2>1, <2>2, <2>3
<1>10. IsCut(line, N, G, e, new, a2, b2)
  BY <1>3, <1>6, <1>7, <1>8, <1>9 DEF IsCut
<1> QED
  BY <1>1, <1>10 DEF new

-----------------------------------------------------------------------------
(* Lines: send_raw_message, msg.lines() *)

\* What the loops over characters keep: where the next part begins, and the parts.
Accs(n) == [last : 1 .. n + 1, parts : Seq(Seq(Char))]

\* They keep its type.
LEMMA PartsGrow ==
  ASSUME NEW chars \in Seq(Char), NEW acc \in Accs(Len(chars)), NEW b \in 0 .. Len(chars)
  PROVE  /\ SubSeq(chars, acc.last, b) \in Seq(Char)
         /\ Append(acc.parts, SubSeq(chars, acc.last, b)) \in Seq(Seq(Char))
<1>1. acc.last \in 1 .. Len(chars) + 1 /\ acc.parts \in Seq(Seq(Char))
  BY DEF Accs
<1>2. SubSeq(chars, acc.last, b) \in Seq(Char)
  BY <1>1
<1>3. PICK Q : Q = Seq(Char)
  OBVIOUS
<1>4. PICK part \in Q : part = SubSeq(chars, acc.last, b)
  BY <1>2, <1>3
<1>5. Append(acc.parts, part) \in Seq(Q)
  BY <1>1, <1>3, <1>4, AppendProperties
<1> QED
  BY <1>2, <1>3, <1>4, <1>5

\* What Lines does at a character.
AtLine(chars, k, acc) ==
  IF chars[k].w = Newline
  THEN [last |-> k + 1, parts |-> Append(acc.parts, SubSeq(chars, acc.last, k - 1))]
  ELSE acc

\* at holds the states of the loop of Lines.
IsLining(chars, n, at) ==
  /\ at \in [0 .. n -> Accs(n)]
  /\ at[0] = [last |-> 1, parts |-> <<>>]
  /\ \A k \in 0 .. n : k # 0 => at[k] = AtLine(chars, k, at[k - 1])
  /\ Lines(chars) = Append(at[n].parts, SubSeq(chars, at[n].last, n))

\* The state in which the loops begin.
LEMMA FirstAcc ==
  ASSUME NEW n \in Nat
  PROVE  [last |-> 1, parts |-> <<>>] \in Accs(n)
<1>1. <<>> \in Seq(Seq(Char)) /\ 1 \in 1 .. n + 1
  OBVIOUS
<1> QED
  BY <1>1 DEF Accs

\* AtLine keeps the type.
LEMMA AtLineType ==
  ASSUME NEW chars \in Seq(Char), NEW k \in 1 .. Len(chars), NEW acc \in Accs(Len(chars))
  PROVE  AtLine(chars, k, acc) \in Accs(Len(chars))
<1>1. k - 1 \in 0 .. Len(chars) /\ k + 1 \in 1 .. Len(chars) + 1
  OBVIOUS
<1>2. Append(acc.parts, SubSeq(chars, acc.last, k - 1)) \in Seq(Seq(Char))
  BY <1>1, PartsGrow
<1>3. PICK x \in Seq(Seq(Char)) : x = Append(acc.parts, SubSeq(chars, acc.last, k - 1))
  BY <1>2
<1>4. [last |-> k + 1, parts |-> x] \in Accs(Len(chars))
  BY <1>1 DEF Accs
<1> QED
  BY <1>3, <1>4 DEF AtLine

\* Lines goes from character to character (str::lines of send_raw_message).
LEMMA LinesSteps ==
  ASSUME NEW chars \in Seq(Char)
  PROVE  \E at : IsLining(chars, Len(chars), at)
<1>1. PICK n \in Nat : n = Len(chars)
  OBVIOUS
<1>2. PICK base : base = [last |-> 1, parts |-> <<>>]
  OBVIOUS
<1>3. PICK Q : Q = Accs(n)
  OBVIOUS
<1>4. base \in Q
  BY <1>2, <1>3, FirstAcc
<1>5. ASSUME NEW k \in 0 .. n, k # 0, NEW acc \in Q
      PROVE  AtLine(chars, k, acc) \in Q
  <2>1. k \in 1 .. Len(chars)
    BY <1>1, <1>5
  <2> QED
    BY <1>1, <1>3, <2>1, AtLineType
<1> DEFINE step == [k \in 0 .. n |-> [acc \in Q |-> IF k = 0 THEN base ELSE AtLine(chars, k, acc)]]
<1>6. step \in [0 .. n -> [Q -> Q]]
  BY <1>4, <1>5
<1>7. 0 \in Nat /\ 0 <= n
  OBVIOUS
<1>8. PICK g : IsFold(g, Q, 0, n, base, step)
  <2> HIDE DEF step
  <2> QED
    BY <1>4, <1>6, <1>7, FoldExists
<1>9. g[0] = base /\ g \in [0 .. n -> Q]
  BY <1>8 DEF IsFold
<1>10. ASSUME NEW k \in 0 .. n, k # 0
      PROVE  g[k] = AtLine(chars, k, g[k - 1])
  <2>1. g[k - 1] \in Q /\ g[k] = step[k][g[k - 1]]
    <3> HIDE DEF step
    <3> QED
      BY <1>7, <1>8, <1>10, FoldValue
  <2> QED
    BY <1>10, <2>1
<1> DEFINE at == CHOOSE at : at = [k \in 0 .. Len(chars) |->
                   IF k = 0 THEN [last |-> 1, parts |-> <<>>]
                   ELSE IF chars[k].w = Newline
                        THEN [last |-> k + 1, parts |-> Append(at[k - 1].parts, SubSeq(chars, at[k - 1].last, k - 1))]
                        ELSE at[k - 1]]
<1>11. at = [k \in 0 .. n |-> IF k = 0 THEN base ELSE AtLine(chars, k, at[k - 1])]
  <2>1. g = [k \in 0 .. n |-> IF k = 0 THEN base ELSE AtLine(chars, k, g[k - 1])]
    BY <1>9, <1>10
  <2>2. g = [k \in 0 .. Len(chars) |->
              IF k = 0 THEN [last |-> 1, parts |-> <<>>]
              ELSE IF chars[k].w = Newline
                   THEN [last |-> k + 1, parts |-> Append(g[k - 1].parts, SubSeq(chars, g[k - 1].last, k - 1))]
                   ELSE g[k - 1]]
    BY <1>1, <1>2, <2>1, Zenon DEF AtLine
  <2>3. at = [k \in 0 .. Len(chars) |->
              IF k = 0 THEN [last |-> 1, parts |-> <<>>]
              ELSE IF chars[k].w = Newline
                   THEN [last |-> k + 1, parts |-> Append(at[k - 1].parts, SubSeq(chars, at[k - 1].last, k - 1))]
                   ELSE at[k - 1]]
    BY <2>2, Zenon
  <2> HIDE DEF at
  <2> QED
    BY <1>1, <1>2, <2>3, Zenon DEF AtLine
<1>12. Lines(chars) = Append(at[n].parts, SubSeq(chars, at[n].last, n))
  BY <1>1 DEF Lines
<1> HIDE DEF at, step
<1>13. at[0] = base /\ \A k \in 0 .. n : k # 0 => at[k] = AtLine(chars, k, at[k - 1])
  <2>1. 0 \in 0 .. n
    OBVIOUS
  <2> QED
    BY <1>11, <2>1, Zenon
<1> DEFINE T == {k \in 0 .. n : at[k] \in Q}
<1>14. 0 \in T
  BY <1>4, <1>13
<1>15. ASSUME NEW k \in 0 .. n, k # 0, k - 1 \in T
       PROVE  k \in T
  BY <1>5, <1>13, <1>15
<1>16. \A k \in 0 .. n : k \in T
  <2> HIDE DEF T
  <2> QED
    BY <1>7, <1>14, <1>15, CountingUpTo
<1>17. at \in [0 .. n -> Q]
  BY <1>11, <1>16
<1>18. IsLining(chars, n, at)
  BY <1>2, <1>3, <1>12, <1>13, <1>17 DEF IsLining
<1> QED
  BY <1>1, <1>18

\* The newlines of a text
Ends(chars) == {p \in 1 .. Len(chars) : chars[p].w = Newline}
\* Where a line may end that begins at a: before a newline, or with the text
Between(chars) ==
  [a \in Nat |-> {b \in Nat : /\ b = Len(chars) \/ b + 1 \in Ends(chars)
                              /\ \A p \in a .. b : p \notin Ends(chars)}]

\* What holds in the loop of Lines: all before acc.last is cut at newlines.
LinesSoFar(chars, k, acc) ==
  /\ \A p \in acc.last .. k : p \notin Ends(chars)
  /\ acc.last <= k + 1
  /\ \E aa, bb : IsCut(chars, Ends(chars), Between(chars), acc.last, acc.parts, aa, bb)

\* One turn of the loop keeps it.
LEMMA LineCut ==
  ASSUME NEW chars \in Seq(Char), NEW k \in 1 .. Len(chars), NEW acc \in Accs(Len(chars)),
         LinesSoFar(chars, k - 1, acc)
  PROVE  LinesSoFar(chars, k, AtLine(chars, k, acc))
<1>1. PICK n \in Nat : n = Len(chars) /\ k \in 1 .. n
  OBVIOUS
<1>2. PICK Q : Q = Seq(Char)
  OBVIOUS
<1>3. PICK last \in Nat \ {0} : last = acc.last
  BY DEF Accs
<1>4. PICK parts \in Seq(Q) : parts = acc.parts
  BY <1>2 DEF Accs
<1>5. PICK aa, bb : IsCut(chars, Ends(chars), Between(chars), last, parts, aa, bb)
  BY <1>3, <1>4 DEF LinesSoFar
<1>6. (\A p \in last .. k - 1 : p \notin Ends(chars)) /\ last <= k
  BY <1>3 DEF LinesSoFar
<1>7. CASE chars[k].w = Newline
  <2>1. k \in Ends(chars)
    BY <1>7 DEF Ends
  <2>2. PICK b \in Nat : b = k - 1 /\ b + 1 = k /\ b \in 0 .. Len(chars)
    BY <1>1
  <2>3. b \in Between(chars)[last]
    BY <1>6, <2>1, <2>2 DEF Between
  <2>4. SubSeq(chars, last, b) \in Q
    BY <1>2, <1>3, <2>2, PartsGrow
  <2>5. k + 1 \in Nat /\ b < k + 1 /\ last <= b + 1 /\ b <= Len(chars) /\ \A p \in b + 1 .. (k + 1) - 1 : p \in Ends(chars)
    BY <1>1, <1>6, <2>1, <2>2
  <2>6. PICK a2, b2 : IsCut(chars, Ends(chars), Between(chars), k + 1, Append(parts, SubSeq(chars, last, b)), a2, b2)
    BY <1>5, <2>3, <2>4, <2>5, CutAppend
  <2>7. AtLine(chars, k, acc) = [last |-> k + 1, parts |-> Append(parts, SubSeq(chars, last, b))]
    BY <1>3, <1>4, <1>7, <2>2 DEF AtLine
  <2>8. AtLine(chars, k, acc).last = k + 1 /\ AtLine(chars, k, acc).parts = Append(parts, SubSeq(chars, last, b))
    BY <2>7
  <2>9. \A p \in k + 1 .. k : p \notin Ends(chars)
    BY <1>1
  <2> QED
    BY <2>6, <2>8, <2>9 DEF LinesSoFar
<1>8. CASE chars[k].w # Newline
  <2>1. AtLine(chars, k, acc) = acc
    BY <1>8 DEF AtLine
  <2>2. \A p \in last .. k : p \in last .. k - 1 \/ p = k
    BY <1>1, <1>3
  <2>3. k \notin Ends(chars)
    BY <1>8 DEF Ends
  <2>4. \A p \in last .. k : p \notin Ends(chars)
    BY <1>6, <2>2, <2>3
  <2>5. last <= k + 1
    BY <1>1, <1>3, <1>6
  <2> QED
    BY <1>3, <1>4, <1>5, <2>1, <2>4, <2>5 DEF LinesSoFar
<1> QED
  BY <1>7, <1>8

\* The lines of a text are what is between its newlines.
LEMMA LinesCut ==
  ASSUME NEW chars \in Seq(Char)
  PROVE  /\ Lines(chars) \in Seq(Seq(Char))
         /\ \E aa, bb : IsCut(chars, Ends(chars), Between(chars), Len(chars) + 1, Lines(chars), aa, bb)
<1>1. PICK n \in Nat : n = Len(chars)
  OBVIOUS
<1>2. PICK at : IsLining(chars, n, at)
  BY <1>1, LinesSteps
<1>3. /\ at \in [0 .. n -> Accs(n)]
      /\ at[0] = [last |-> 1, parts |-> <<>>]
      /\ \A k \in 0 .. n : k # 0 => at[k] = AtLine(chars, k, at[k - 1])
      /\ Lines(chars) = Append(at[n].parts, SubSeq(chars, at[n].last, n))
  BY <1>2 DEF IsLining
<1> DEFINE T == {k \in 0 .. n : LinesSoFar(chars, k, at[k])}
<1>4. 0 \in T
  <2>1. at[0].last = 1 /\ at[0].parts = <<>>
    BY <1>3
  <2>2. \A p \in 1 .. 0 : p \notin Ends(chars)
    OBVIOUS
  <2>3. IsCut(chars, Ends(chars), Between(chars), 1, <<>>, <<>>, <<>>)
    BY CutNothing
  <2> QED
    BY <2>1, <2>2, <2>3 DEF LinesSoFar
<1>5. ASSUME NEW k \in 0 .. n, k # 0, k - 1 \in T
      PROVE  k \in T
  <2>1. k \in 1 .. Len(chars) /\ k - 1 \in 0 .. n
    BY <1>1, <1>5
  <2>2. at[k - 1] \in Accs(Len(chars)) /\ LinesSoFar(chars, k - 1, at[k - 1])
    BY <1>1, <1>3, <1>5, <2>1
  <2>3. LinesSoFar(chars, k, AtLine(chars, k, at[k - 1]))
    BY <2>1, <2>2, LineCut
  <2> QED
    BY <1>3, <1>5, <2>3
<1>6. \A k \in 0 .. n : k \in T
  <2>1. 0 \in Nat
    OBVIOUS
  <2> HIDE DEF T
  <2> QED
    BY <1>4, <1>5, <2>1, CountingUpTo
<1>7. n \in 0 .. n
  OBVIOUS
<1>8. PICK acc \in Accs(n) : acc = at[n] /\ LinesSoFar(chars, n, acc)
  BY <1>3, <1>6, <1>7
<1>9. PICK last \in Nat \ {0} : last = acc.last
  BY DEF Accs
<1>10. PICK Q : Q = Seq(Char)
  OBVIOUS
<1>11. PICK parts \in Seq(Q) : parts = acc.parts
  BY <1>10 DEF Accs
<1>12. PICK aa, bb : IsCut(chars, Ends(chars), Between(chars), last, parts, aa, bb)
  BY <1>8, <1>9, <1>11 DEF LinesSoFar
<1>13. SubSeq(chars, last, n) \in Q
  BY <1>1, <1>7, <1>9, <1>10, PartsGrow
<1>14. n \in Between(chars)[last]
  BY <1>1, <1>8, <1>9 DEF Between, LinesSoFar
<1>15. last <= n + 1 /\ n <= Len(chars) /\ n + 1 \in Nat /\ n < n + 1 /\ \A p \in n + 1 .. (n + 1) - 1 : p \in Ends(chars)
  BY <1>1, <1>8, <1>9 DEF LinesSoFar
<1>16. \E a2, b2 : IsCut(chars, Ends(chars), Between(chars), n + 1, Append(parts, SubSeq(chars, last, n)), a2, b2)
  BY <1>12, <1>13, <1>14, <1>15, CutAppend
<1>17. Lines(chars) = Append(parts, SubSeq(chars, last, n))
  BY <1>3, <1>8, <1>9, <1>11
<1>18. Lines(chars) \in Seq(Seq(Char))
  BY <1>10, <1>13, <1>17, AppendProperties
<1> QED
  BY <1>1, <1>16, <1>17, <1>18

-----------------------------------------------------------------------------
(* Chunks: send_raw_message, the iterator *)

\* What Chunks does at a character.
AtChar(line, k, acc) ==
  LET off == Offsets(line) IN
  IF off[k] >= off[acc.last] + MaxLen
  THEN [last |-> k, parts |-> Append(acc.parts, SubSeq(line, acc.last, k - 1))]
  ELSE IF off[acc.last] + MaxLen >= off[Len(line) + 1]
  THEN [last |-> Len(line) + 1, parts |-> Append(acc.parts, SubSeq(line, acc.last, Len(line)))]
  ELSE acc

\* at holds the states of the loop of Chunks.
IsChunking(line, n, at) ==
  /\ at \in [0 .. n -> Accs(n)]
  /\ at[0] = [last |-> 1, parts |-> <<>>]
  /\ \A k \in 0 .. n : k # 0 => at[k] = AtChar(line, k, at[k - 1])
  /\ Chunks(line) = Selected(at[n].parts, Elements(at[n].parts) \ {<<>>})

\* AtChar keeps the type.
LEMMA AtCharType ==
  ASSUME NEW line \in Seq(Char), NEW k \in 1 .. Len(line), NEW acc \in Accs(Len(line))
  PROVE  AtChar(line, k, acc) \in Accs(Len(line))
<1>1. k - 1 \in 0 .. Len(line) /\ Len(line) \in 0 .. Len(line) /\ k \in 1 .. Len(line) + 1 /\ Len(line) + 1 \in 1 .. Len(line) + 1
  OBVIOUS
<1>2. PICK x \in Seq(Seq(Char)) : x = Append(acc.parts, SubSeq(line, acc.last, k - 1))
  BY <1>1, PartsGrow
<1>3. PICK y \in Seq(Seq(Char)) : y = Append(acc.parts, SubSeq(line, acc.last, Len(line)))
  BY <1>1, PartsGrow
<1>4. [last |-> k, parts |-> x] \in Accs(Len(line)) /\ [last |-> Len(line) + 1, parts |-> y] \in Accs(Len(line))
  BY <1>1 DEF Accs
<1> QED
  BY <1>2, <1>3, <1>4 DEF AtChar

\* Chunks goes from character to character (the iterator of send_raw_message).
LEMMA ChunksSteps ==
  ASSUME NEW line \in Seq(Char)
  PROVE  \E at : IsChunking(line, Len(line), at)
<1>1. PICK n \in Nat : n = Len(line)
  OBVIOUS
<1>2. PICK base : base = [last |-> 1, parts |-> <<>>]
  OBVIOUS
<1>3. PICK Q : Q = Accs(n)
  OBVIOUS
<1>4. base \in Q
  BY <1>2, <1>3, FirstAcc
<1>5. ASSUME NEW k \in 0 .. n, k # 0, NEW acc \in Q
      PROVE  AtChar(line, k, acc) \in Q
  <2>1. k \in 1 .. Len(line)
    BY <1>1, <1>5
  <2> QED
    BY <1>1, <1>3, <2>1, AtCharType
<1> DEFINE step == [k \in 0 .. n |-> [acc \in Q |-> IF k = 0 THEN base ELSE AtChar(line, k, acc)]]
<1>6. step \in [0 .. n -> [Q -> Q]]
  BY <1>4, <1>5
<1>7. 0 \in Nat /\ 0 <= n
  OBVIOUS
<1>8. PICK g : IsFold(g, Q, 0, n, base, step)
  <2> HIDE DEF step
  <2> QED
    BY <1>4, <1>6, <1>7, FoldExists
<1>9. g[0] = base /\ g \in [0 .. n -> Q]
  BY <1>8 DEF IsFold
<1>10. ASSUME NEW k \in 0 .. n, k # 0
      PROVE  g[k] = AtChar(line, k, g[k - 1])
  <2>1. g[k - 1] \in Q /\ g[k] = step[k][g[k - 1]]
    <3> HIDE DEF step
    <3> QED
      BY <1>7, <1>8, <1>10, FoldValue
  <2> QED
    BY <1>10, <2>1
<1> DEFINE off == Offsets(line)
           at == CHOOSE at : at = [k \in 0 .. Len(line) |->
                   IF k = 0 THEN [last |-> 1, parts |-> <<>>]
                   ELSE IF off[k] >= off[at[k - 1].last] + MaxLen
                        THEN [last |-> k, parts |-> Append(at[k - 1].parts, SubSeq(line, at[k - 1].last, k - 1))]
                        ELSE IF off[at[k - 1].last] + MaxLen >= off[Len(line) + 1]
                        THEN [last |-> Len(line) + 1, parts |-> Append(at[k - 1].parts, SubSeq(line, at[k - 1].last, Len(line)))]
                        ELSE at[k - 1]]
<1>11. at = [k \in 0 .. n |-> IF k = 0 THEN base ELSE AtChar(line, k, at[k - 1])]
  <2>1. g = [k \in 0 .. n |-> IF k = 0 THEN base ELSE AtChar(line, k, g[k - 1])]
    BY <1>9, <1>10
  <2>2. g = [k \in 0 .. Len(line) |->
              IF k = 0 THEN [last |-> 1, parts |-> <<>>]
              ELSE IF off[k] >= off[g[k - 1].last] + MaxLen
                   THEN [last |-> k, parts |-> Append(g[k - 1].parts, SubSeq(line, g[k - 1].last, k - 1))]
                   ELSE IF off[g[k - 1].last] + MaxLen >= off[Len(line) + 1]
                   THEN [last |-> Len(line) + 1, parts |-> Append(g[k - 1].parts, SubSeq(line, g[k - 1].last, Len(line)))]
                   ELSE g[k - 1]]
    BY <1>1, <1>2, <2>1, Zenon DEF AtChar
  <2>3. at = [k \in 0 .. Len(line) |->
              IF k = 0 THEN [last |-> 1, parts |-> <<>>]
              ELSE IF off[k] >= off[at[k - 1].last] + MaxLen
                   THEN [last |-> k, parts |-> Append(at[k - 1].parts, SubSeq(line, at[k - 1].last, k - 1))]
                   ELSE IF off[at[k - 1].last] + MaxLen >= off[Len(line) + 1]
                   THEN [last |-> Len(line) + 1, parts |-> Append(at[k - 1].parts, SubSeq(line, at[k - 1].last, Len(line)))]
                   ELSE at[k - 1]]
    BY <2>2, Zenon
  <2> HIDE DEF at
  <2> QED
    BY <1>1, <1>2, <2>3, Zenon DEF AtChar
<1>12. Chunks(line) = Selected(at[n].parts, Elements(at[n].parts) \ {<<>>})
  BY <1>1 DEF Chunks
<1> HIDE DEF at, step
<1>13. at[0] = base /\ \A k \in 0 .. n : k # 0 => at[k] = AtChar(line, k, at[k - 1])
  <2>1. 0 \in 0 .. n
    OBVIOUS
  <2> QED
    BY <1>11, <2>1, Zenon
<1> DEFINE T == {k \in 0 .. n : at[k] \in Q}
<1>14. 0 \in T
  BY <1>4, <1>13
<1>15. ASSUME NEW k \in 0 .. n, k # 0, k - 1 \in T
       PROVE  k \in T
  BY <1>5, <1>13, <1>15
<1>16. \A k \in 0 .. n : k \in T
  <2> HIDE DEF T
  <2> QED
    BY <1>7, <1>14, <1>15, CountingUpTo
<1>17. at \in [0 .. n -> Q]
  BY <1>11, <1>16
<1>18. IsChunking(line, n, at)
  BY <1>2, <1>3, <1>12, <1>13, <1>17 DEF IsChunking
<1> QED
  BY <1>1, <1>18

\* Where a chunk may end that begins at a: the limit falls behind its last
\* character, or into it.
Fits(line) ==
  [a \in Nat |-> {b \in Nat : a <= b => Offsets(line)[b + 1] < Offsets(line)[a] + MaxLen + line[b].w}]

\* What holds in the loop of Chunks: the chunks cover all before acc.last, what
\* was read since fits, and unless it has just been cut the line is too long.
ChunksSoFar(line, k, acc) ==
  LET off == Offsets(line)
      n   == Len(line) IN
  /\ k = 0 => acc.last = 1
  /\ k >= 1 /\ acc.last <= n =>
       /\ acc.last <= k
       /\ off[k] < off[acc.last] + MaxLen
       /\ acc.last = k \/ off[acc.last] + MaxLen < off[n + 1]
  /\ \E aa, bb : IsCut(line, {}, Fits(line), acc.last, acc.parts, aa, bb)

\* One turn of the loop keeps it (sender_common.rs:41-56).
LEMMA ChunkCut ==
  ASSUME NEW line \in Seq(Char), NEW k \in 1 .. Len(line), NEW acc \in Accs(Len(line)),
         \A p \in 1 .. Len(line) : line[p].w # Newline,
         ChunksSoFar(line, k - 1, acc)
  PROVE  ChunksSoFar(line, k, AtChar(line, k, acc))
<1>1. PICK n \in Nat : n = Len(line) /\ k \in 1 .. n
  OBVIOUS
<1>2. PICK Q : Q = Seq(Char)
  OBVIOUS
<1>3. PICK last \in 1 .. n + 1 : last = acc.last
  BY <1>1 DEF Accs
<1>4. PICK parts \in Seq(Q) : parts = acc.parts
  BY <1>2 DEF Accs
<1>5. PICK aa, bb : IsCut(line, {}, Fits(line), last, parts, aa, bb)
  BY <1>3, <1>4 DEF ChunksSoFar
<1>6. PICK off \in [1 .. n + 1 -> Nat] : off = Offsets(line)
  BY <1>1, OffsetsDef
<1>7. \A i, j \in 1 .. n + 1 : i <= j => off[i] <= off[j]
  BY <1>1, <1>6, OffsetsGrow
<1>8. ASSUME NEW p \in 1 .. n
      PROVE  off[p + 1] = off[p] + line[p].w /\ line[p].w \in Nat /\ line[p].w # 0
  <2>1. line[p] \in Char /\ line[p].w # Newline
    BY <1>1
  <2>2. line[p].w \in Nat /\ line[p].w # 0
    BY <2>1 DEF Char, Newline
  <2> QED
    BY <1>1, <1>6, <2>2, OffsetsDef
<1>9. MaxLen \in Nat \ {0}
  BY PresentationAssumption
<1>10. off[k] \in Nat /\ off[last] \in Nat /\ off[n + 1] \in Nat /\ last \in Nat \ {0}
  <2>1. k \in 1 .. n + 1 /\ n + 1 \in 1 .. n + 1 /\ last \in Nat \ {0}
    BY <1>1
  <2>2. \A i \in 1 .. n + 1 : off[i] \in Nat
    OBVIOUS
  <2> QED
    BY <2>1, <2>2
<1>11. /\ k = 1 => last = 1
       /\ k > 1 /\ last <= n =>
            /\ last <= k - 1
            /\ off[k - 1] < off[last] + MaxLen
            /\ last = k - 1 \/ off[last] + MaxLen < off[n + 1]
  BY <1>1, <1>3, <1>6 DEF ChunksSoFar
<1>12. \A b \in 0 .. n : SubSeq(line, last, b) \in Q
  BY <1>1, <1>2, <1>3, PartsGrow
<1>13. CASE off[k] >= off[last] + MaxLen
  <2>1. last <= n
    <3>1. off[k] <= off[n + 1]
      BY <1>1, <1>7
    <3> QED
      BY <1>3, <1>9, <1>10, <1>13, <3>1, SMTT(30)
  <2>2. k > 1
    BY <1>1, <1>9, <1>10, <1>11, <1>13
  <2>3. PICK b \in 1 .. n : b = k - 1 /\ b + 1 = k
    BY <1>1, <2>2
  <2>4. last <= b /\ off[b] < off[last] + MaxLen
    BY <1>11, <2>1, <2>2, <2>3
  <2>5. off[b + 1] < off[last] + MaxLen + line[b].w
    <3>1. b \in 1 .. n + 1 /\ off[b] \in Nat
      BY <1>6
    <3>2. PICK x \in Nat, y \in Nat, w \in Nat : x = off[b] /\ y = off[last] /\ w = line[b].w
      BY <1>8, <1>10, <3>1
    <3>3. off[b + 1] = x + w /\ x < y + MaxLen
      BY <1>8, <2>4, <3>2
    <3>4. x + w < y + MaxLen + w
      BY <1>9, <3>3
    <3> QED
      BY <3>2, <3>3, <3>4
  <2>6. b \in Fits(line)[last]
    BY <1>3, <1>6, <1>10, <2>5 DEF Fits
  <2>7. last <= b + 1 /\ b <= Len(line) /\ b \in Nat /\ k \in Nat /\ b < k /\ \A p \in b + 1 .. k - 1 : p \in {}
    BY <1>1, <2>3, <2>4
  <2>8. SubSeq(line, last, b) \in Q
    BY <1>12, <2>3
  <2>9. PICK a2, b2 : IsCut(line, {}, Fits(line), k, Append(parts, SubSeq(line, last, b)), a2, b2)
    BY <1>5, <1>10, <2>6, <2>7, <2>8, CutAppend
  <2>10. AtChar(line, k, acc) = [last |-> k, parts |-> Append(parts, SubSeq(line, last, b))]
    BY <1>3, <1>4, <1>6, <1>13, <2>3 DEF AtChar
  <2>11. AtChar(line, k, acc).last = k /\ AtChar(line, k, acc).parts = Append(parts, SubSeq(line, last, b))
    BY <2>10
  <2>12. off[k] < off[k] + MaxLen /\ k # 0
    BY <1>1, <1>9, <1>10
  <2> QED
    BY <1>1, <1>6, <2>9, <2>11, <2>12 DEF ChunksSoFar
<1>14. CASE ~(off[k] >= off[last] + MaxLen) /\ off[last] + MaxLen >= off[n + 1]
  <2>1. n \in Fits(line)[last]
    <3>1. CASE last <= n
      <4>1. n \in 1 .. n
        BY <1>1
      <4>2. line[n].w \in Nat /\ line[n].w # 0
        BY <1>8, <4>1
      <4>3. off[n + 1] < off[last] + MaxLen + line[n].w
        <5>1. PICK x \in Nat, y \in Nat, w \in Nat \ {0} : x = off[n + 1] /\ y = off[last] /\ w = line[n].w
          BY <1>10, <4>2
        <5>2. y + MaxLen >= x
          BY <1>14, <5>1
        <5>3. x < y + MaxLen + w
          BY <1>9, <5>2
        <5> QED
          BY <5>1, <5>3
      <4> QED
        BY <1>3, <1>6, <1>10, <4>3 DEF Fits
    <3>2. CASE ~(last <= n)
      BY <1>10, <3>2 DEF Fits
    <3> QED
      BY <3>1, <3>2
  <2>2. last <= n + 1 /\ n <= Len(line) /\ n + 1 \in Nat /\ n < n + 1 /\ \A p \in n + 1 .. (n + 1) - 1 : p \in {}
    BY <1>1, <1>3
  <2>3. SubSeq(line, last, n) \in Q
    BY <1>12
  <2>4. PICK a2, b2 : IsCut(line, {}, Fits(line), n + 1, Append(parts, SubSeq(line, last, n)), a2, b2)
    BY <1>5, <1>10, <2>1, <2>2, <2>3, CutAppend
  <2>5. AtChar(line, k, acc) = [last |-> n + 1, parts |-> Append(parts, SubSeq(line, last, n))]
    BY <1>1, <1>3, <1>4, <1>6, <1>14 DEF AtChar
  <2>6. AtChar(line, k, acc).last = n + 1 /\ AtChar(line, k, acc).parts = Append(parts, SubSeq(line, last, n))
    BY <2>5
  <2>7. ~(n + 1 <= n) /\ k # 0
    BY <1>1
  <2> QED
    BY <1>1, <2>4, <2>6, <2>7 DEF ChunksSoFar
<1>15. CASE ~(off[k] >= off[last] + MaxLen) /\ ~(off[last] + MaxLen >= off[n + 1])
  <2>1. AtChar(line, k, acc) = acc
    BY <1>1, <1>3, <1>6, <1>15 DEF AtChar
  <2>2. off[k] < off[last] + MaxLen /\ off[last] + MaxLen < off[n + 1]
    BY <1>9, <1>10, <1>15
  <2>3. last <= n => last <= k
    BY <1>1, <1>11
  <2>4. k # 0
    BY <1>1
  <2> QED
    BY <1>1, <1>3, <1>4, <1>5, <1>6, <2>1, <2>2, <2>3, <2>4 DEF ChunksSoFar
<1> QED
  BY <1>13, <1>14, <1>15

\* c is a proper chunk of a line: what is from a to b, within the limit.
IsChunk(line, c, a, b) ==
  /\ a \in 1 .. Len(line) /\ b \in 1 .. Len(line) /\ a <= b
  /\ c \in Seq(Char) \ {<<>>} /\ Len(c) = b - a + 1
  /\ \A j \in 1 .. Len(c) : c[j] = line[a + j - 1]
  /\ Bytes(c) < MaxLen + c[Len(c)].w

\* The chunks of a line: in order, and all before m is in one; what is not, is the
\* end of a line whose last character takes more than a byte.
IsChunks(line, out, aa, bb, m) ==
  /\ m \in Nat /\ (m < Len(line) => line[Len(line)].w > 1)
  /\ aa \in [1 .. Len(out) -> Nat] /\ bb \in [1 .. Len(out) -> Nat]
  /\ \A i \in 1 .. Len(out) : IsChunk(line, out[i], aa[i], bb[i]) /\ bb[i] < m
  /\ \A i, j \in 1 .. Len(out) : i < j => bb[i] < aa[j]
  /\ \A p \in 1 .. Len(line) : p < m => \E i \in 1 .. Len(out) : aa[i] <= p /\ p <= bb[i]

\* A part that fits and is not empty is a chunk.
LEMMA PartIsChunk ==
  ASSUME NEW line \in Seq(Char), NEW a \in Nat, NEW b \in Nat,
         1 <= a, a <= b + 1, b <= Len(line), b \in Fits(line)[a], SubSeq(line, a, b) # <<>>
  PROVE  IsChunk(line, SubSeq(line, a, b), a, b)
<1>1. PICK n \in Nat : n = Len(line)
  OBVIOUS
<1>17. a \in 1 .. Len(line) + 1 /\ b \in 0 .. Len(line)
  BY <1>1
<1>2. PICK c \in Seq(Char) : c = SubSeq(line, a, b)
  BY <1>17, PartBytes
<1>3. Len(c) = (b + 1) - a /\ \A j \in 1 .. Len(c) : c[j] = line[a + j - 1]
  BY <1>1, <1>2
<1>4. Len(c) # 0
  BY <1>2, EmptySeq
<1>5. a <= b /\ Len(c) \in 1 .. Len(c) /\ Len(c) = b - a + 1 /\ a + Len(c) - 1 = b
  BY <1>3, <1>4
<1>6. c[Len(c)] = line[b]
  BY <1>3, <1>5
<1>7. PICK off \in [1 .. n + 1 -> Nat] : off = Offsets(line)
  BY <1>1, OffsetsDef
<1>8. Bytes(c) = off[b + 1] - off[a]
  BY <1>1, <1>2, <1>7, <1>17, PartBytes
<1>9. off[b + 1] < off[a] + MaxLen + line[b].w
  BY <1>5, <1>7 DEF Fits
<1>10. a \in 1 .. n + 1 /\ b + 1 \in 1 .. n + 1 /\ a \in 1 .. n /\ b \in 1 .. n
  BY <1>1, <1>5
<1>11. off[a] \in Nat /\ off[b + 1] \in Nat
  BY <1>10
<1>12. line[b] \in Char
  BY <1>1, <1>10
<1>13. line[b].w \in Nat
  BY <1>12 DEF Char
<1>14. MaxLen \in Nat
  BY PresentationAssumption
<1>15. Bytes(c) < MaxLen + line[b].w
  <2>1. PICK x \in Nat, y \in Nat, z \in Nat : x = off[a] /\ y = off[b + 1] /\ z = line[b].w
    BY <1>11, <1>13
  <2>2. Bytes(c) = y - x /\ y < x + MaxLen + z
    BY <1>8, <1>9, <2>1
  <2>3. y - x < MaxLen + z
    BY <1>14, <2>2
  <2> QED
    BY <2>1, <2>2, <2>3
<1>16. c \in Seq(Char) \ {<<>>}
  BY <1>2
<1> QED
  BY <1>1, <1>2, <1>3, <1>5, <1>6, <1>10, <1>15, <1>16 DEF IsChunk

\* What Chunks makes of a line; only its end may be missing.
LEMMA ChunksCut ==
  ASSUME NEW line \in Seq(Char), \A p \in 1 .. Len(line) : line[p].w # Newline
  PROVE  /\ Chunks(line) \in Seq(Seq(Char) \ {<<>>})
         /\ \E aa, bb, m : IsChunks(line, Chunks(line), aa, bb, m)
<1>1. PICK n \in Nat : n = Len(line)
  OBVIOUS
<1>2. PICK at : IsChunking(line, n, at)
  BY <1>1, ChunksSteps
<1>3. /\ at \in [0 .. n -> Accs(n)]
      /\ at[0] = [last |-> 1, parts |-> <<>>]
      /\ \A k \in 0 .. n : k # 0 => at[k] = AtChar(line, k, at[k - 1])
      /\ Chunks(line) = Selected(at[n].parts, Elements(at[n].parts) \ {<<>>})
  BY <1>2 DEF IsChunking
<1> DEFINE T == {k \in 0 .. n : ChunksSoFar(line, k, at[k])}
<1>4. 0 \in T
  <2>1. at[0].last = 1 /\ at[0].parts = <<>>
    BY <1>3
  <2>2. IsCut(line, {}, Fits(line), 1, <<>>, <<>>, <<>>)
    BY CutNothing
  <2> QED
    BY <2>1, <2>2 DEF ChunksSoFar
<1>5. ASSUME NEW k \in 0 .. n, k # 0, k - 1 \in T
      PROVE  k \in T
  <2>1. k \in 1 .. Len(line) /\ k - 1 \in 0 .. n
    BY <1>1, <1>5
  <2>2. at[k - 1] \in Accs(Len(line)) /\ ChunksSoFar(line, k - 1, at[k - 1])
    BY <1>1, <1>3, <1>5, <2>1
  <2>3. ChunksSoFar(line, k, AtChar(line, k, at[k - 1]))
    BY <2>1, <2>2, ChunkCut
  <2> QED
    BY <1>3, <1>5, <2>3
<1>6. \A k \in 0 .. n : k \in T
  <2>1. 0 \in Nat
    OBVIOUS
  <2> HIDE DEF T
  <2> QED
    BY <1>4, <1>5, <2>1, CountingUpTo
<1>7. n \in 0 .. n
  OBVIOUS
<1>8. PICK acc \in Accs(n) : acc = at[n] /\ ChunksSoFar(line, n, acc)
  BY <1>3, <1>6, <1>7
<1>9. PICK last \in 1 .. n + 1 : last = acc.last
  BY DEF Accs
<1>10. PICK Q : Q = Seq(Char)
  OBVIOUS
<1>11. PICK parts \in Seq(Q) : parts = acc.parts
  BY <1>10 DEF Accs
<1>12. PICK a1, b1 : IsCut(line, {}, Fits(line), last, parts, a1, b1)
  BY <1>8, <1>9, <1>11 DEF ChunksSoFar
<1>13. PICK S : S = Elements(parts) \ {<<>>}
  OBVIOUS
<1>14. PICK out \in Seq(Q) : out = Chunks(line) /\ \E pos : IsPick(parts, Len(parts), S, out, pos)
  BY <1>3, <1>8, <1>11, <1>13, SelectedPick
<1>15. PICK pos : IsPick(parts, Len(parts), S, out, pos)
  BY <1>14
<1>16. PICK h \in Nat : h = Len(parts)
  OBVIOUS
<1>17. PICK l \in Nat : l = Len(out)
  OBVIOUS
<1>18. ASSUME NEW i \in 1 .. l
       PROVE  pos[i] \in 1 .. h /\ out[i] = parts[pos[i]] /\ out[i] \in S
  BY <1>15, <1>16, <1>17 DEF IsPick
<1>19. ASSUME NEW i \in 1 .. h
       PROVE  /\ a1[i] \in Nat /\ b1[i] \in Nat
              /\ 1 <= a1[i] /\ a1[i] <= b1[i] + 1 /\ b1[i] < last /\ b1[i] <= Len(line)
              /\ parts[i] = SubSeq(line, a1[i], b1[i]) /\ b1[i] \in Fits(line)[a1[i]]
  BY <1>12, <1>16 DEF IsCut
<1> DEFINE aa == [i \in 1 .. l |-> a1[pos[i]]]
           bb == [i \in 1 .. l |-> b1[pos[i]]]
<1>20. aa \in [1 .. l -> Nat] /\ bb \in [1 .. l -> Nat]
  BY <1>18, <1>19
<1>21. ASSUME NEW i \in 1 .. l
       PROVE  IsChunk(line, out[i], aa[i], bb[i]) /\ bb[i] < last
  <2>1. out[i] # <<>>
    BY <1>13, <1>18
  <2>2. PICK k \in 1 .. h : k = pos[i]
    BY <1>18
  <2>3. out[i] = SubSeq(line, a1[k], b1[k])
    BY <1>18, <1>19, <2>2
  <2>4. IsChunk(line, SubSeq(line, a1[k], b1[k]), a1[k], b1[k])
    BY <1>19, <2>1, <2>3, PartIsChunk
  <2>5. aa[i] = a1[k] /\ bb[i] = b1[k]
    BY <2>2
  <2>6. b1[k] < last
    BY <1>19
  <2> QED
    BY <2>3, <2>4, <2>5, <2>6
<1>22. ASSUME NEW i \in 1 .. l, NEW j \in 1 .. l, i < j
       PROVE  bb[i] < aa[j]
  <2>1. pos[i] < pos[j] /\ pos[i] \in 1 .. h /\ pos[j] \in 1 .. h
    BY <1>15, <1>17, <1>18, <1>22 DEF IsPick
  <2>2. b1[pos[i]] < a1[pos[j]]
    BY <1>12, <1>16, <2>1 DEF IsCut
  <2> QED
    BY <2>2
<1>23. ASSUME NEW p \in 1 .. Len(line), p < last
       PROVE  \E i \in 1 .. l : aa[i] <= p /\ p <= bb[i]
  <2>1. p \in 1 .. last - 1
    BY <1>9, <1>23
  <2>2. PICK k \in 1 .. h : a1[k] <= p /\ p <= b1[k]
    BY <1>12, <1>16, <2>1 DEF IsCut
  <2>3. parts[k] # <<>>
    <3>1. parts[k] = SubSeq(line, a1[k], b1[k]) /\ a1[k] \in Nat /\ b1[k] \in Nat /\ 1 <= a1[k] /\ b1[k] <= Len(line)
      BY <1>19
    <3>2. Len(parts[k]) = (b1[k] + 1) - a1[k]
      BY <1>1, <2>2, <3>1
    <3>3. Len(parts[k]) # 0
      BY <2>2, <3>1, <3>2
    <3> QED
      BY <3>3
  <2>4. parts[k] \in S
    BY <1>13, <1>16, <2>3 DEF Elements
  <2>5. PICK i \in 1 .. l : pos[i] = k
    BY <1>15, <1>16, <1>17, <2>4 DEF IsPick
  <2> QED
    BY <2>2, <2>5
<1>24. last < n => line[n].w > 1
  <2> SUFFICES ASSUME last < n PROVE line[n].w > 1
    OBVIOUS
  <2>1. PICK off \in [1 .. n + 1 -> Nat] : off = Offsets(line)
    BY <1>1, OffsetsDef
  <2>2. n >= 1 /\ last <= n /\ last # n /\ n \in 1 .. n
    BY <1>9
  <2>3. off[n] < off[last] + MaxLen /\ off[last] + MaxLen < off[n + 1]
    BY <1>1, <1>8, <1>9, <2>1, <2>2 DEF ChunksSoFar
  <2>4. off[n + 1] = off[n] + line[n].w
    BY <1>1, <2>1, <2>2, OffsetsDef
  <2>5. line[n] \in Char
    BY <1>1, <2>2
  <2>6. line[n].w \in Nat
    BY <2>5 DEF Char
  <2>7. off[n] \in Nat /\ off[last] \in Nat /\ off[n + 1] \in Nat /\ MaxLen \in Nat
    BY <1>9, <2>2, PresentationAssumption
  <2>8. PICK x \in Nat, y \in Nat, w \in Nat : x = off[n] /\ y = off[last] /\ w = line[n].w
    BY <2>6, <2>7
  <2>9. x < y + MaxLen /\ y + MaxLen < x + w
    BY <2>3, <2>4, <2>8
  <2>10. w > 1
    BY <2>7, <2>9
  <2> QED
    BY <2>8, <2>10
<1>25. last \in Nat
  BY <1>9
<1> HIDE DEF aa, bb
<1>26. IsChunks(line, out, aa, bb, last)
  BY <1>1, <1>17, <1>20, <1>21, <1>22, <1>23, <1>24, <1>25 DEF IsChunks
<1>27. \A i \in 1 .. l : out[i] \in Seq(Char) \ {<<>>}
  BY <1>21 DEF IsChunk
<1>28. out \in Seq(Seq(Char) \ {<<>>})
  <2>1. PICK P : P = Seq(Char) \ {<<>>}
    OBVIOUS
  <2>2. \A i \in 1 .. l : out[i] \in P
    BY <1>27, <2>1
  <2>3. out \in Seq(P)
    BY <1>17, <2>2
  <2> QED
    BY <2>1, <2>3
<1> QED
  BY <1>14, <1>26, <1>28

\* The character at p is in one of the chunks.
Covered(out, A, B, p) == \E k \in 1 .. Len(out) : A[k] <= p /\ p <= B[k]

\* The chunks of a text: in order, and when one character of a line is in none,
\* then none of those behind it is, and some character takes more than a byte.
IsSaid(chars, out, A, B) ==
  /\ A \in [1 .. Len(out) -> Nat] /\ B \in [1 .. Len(out) -> Nat]
  /\ \A k \in 1 .. Len(out) : IsChunk(chars, out[k], A[k], B[k])
  /\ \A k, l \in 1 .. Len(out) : k < l => B[k] < A[l]
  /\ \A p, q \in 1 .. Len(chars) :
       /\ p < q /\ ~Covered(out, A, B, p)
       /\ \A r \in p .. q : chars[r].w # Newline
       => ~Covered(out, A, B, q) /\ \E r \in 1 .. Len(chars) : chars[r].w > 1

\* A chunk of a line is one of the text that the line is part of.
LEMMA ChunkOfPart ==
  ASSUME NEW chars \in Seq(Char), NEW a \in Nat, NEW b \in Nat, 1 <= a, a <= b + 1, b <= Len(chars),
         NEW c, NEW x \in Nat, NEW y \in Nat, IsChunk(SubSeq(chars, a, b), c, x, y)
  PROVE  /\ a + x - 1 \in Nat /\ a + y - 1 \in Nat /\ a <= a + x - 1 /\ a + y - 1 <= b
         /\ IsChunk(chars, c, a + x - 1, a + y - 1)
<1>1. PICK line \in Seq(Char) : line = SubSeq(chars, a, b)
  <2>1. a \in 1 .. Len(chars) + 1 /\ b \in 0 .. Len(chars)
    OBVIOUS
  <2> QED
    BY <2>1, PartBytes
<1>2. PICK n \in Nat : n = Len(chars)
  OBVIOUS
<1>3. Len(line) = (b + 1) - a /\ \A j \in 1 .. Len(line) : line[j] = chars[a + j - 1]
  BY <1>1, <1>2
<1>4. x \in 1 .. Len(line) /\ y \in 1 .. Len(line) /\ x <= y
  BY <1>1 DEF IsChunk
<1>5. PICK d \in Nat, e \in Nat : d = a + x - 1 /\ e = a + y - 1 /\ d \in 1 .. n /\ e \in 1 .. n /\ d <= e /\ a <= d /\ e <= b
  BY <1>2, <1>3, <1>4
<1>6. c \in Seq(Char) \ {<<>>} /\ Len(c) = y - x + 1 /\ Bytes(c) < MaxLen + c[Len(c)].w
  BY <1>1 DEF IsChunk
<1>7. Len(c) = e - d + 1
  BY <1>4, <1>5, <1>6
<1>8. ASSUME NEW j \in 1 .. Len(c)
      PROVE  c[j] = chars[d + j - 1]
  <2>1. c[j] = line[x + j - 1]
    BY <1>1 DEF IsChunk
  <2>2. PICK i \in 1 .. Len(line) : i = x + j - 1
    BY <1>4, <1>6
  <2>3. line[i] = chars[a + i - 1] /\ a + i - 1 = d + j - 1
    BY <1>3, <1>5, <2>2
  <2> QED
    BY <2>1, <2>2, <2>3
<1>9. IsChunk(chars, c, d, e)
  BY <1>2, <1>5, <1>6, <1>7, <1>8 DEF IsChunk
<1> QED
  BY <1>5, <1>9

\* What send_raw_message makes of any text.
LEMMA SaidAs ==
  ASSUME NEW chars \in Seq(Char)
  PROVE  /\ SendRawMessage(chars) \in Seq(Seq(Char) \ {<<>>})
         /\ \E A, B : IsSaid(chars, SendRawMessage(chars), A, B)
<1>1. PICK n \in Nat : n = Len(chars)
  OBVIOUS
<1>2. PICK Q : Q = Seq(Char)
  OBVIOUS
<1>3. PICK L \in Seq(Q) : L = Lines(chars)
  BY <1>2, LinesCut
<1>4. PICK la, lb : IsCut(chars, Ends(chars), Between(chars), n + 1, L, la, lb)
  BY <1>1, <1>3, LinesCut
<1>5. PICK h \in Nat : h = Len(L)
  OBVIOUS
<1>6. ASSUME NEW i \in 1 .. h
      PROVE  /\ la[i] \in Nat /\ lb[i] \in Nat
             /\ 1 <= la[i] /\ la[i] <= lb[i] + 1 /\ lb[i] <= n
             /\ L[i] = SubSeq(chars, la[i], lb[i]) /\ L[i] \in Seq(Char)
             /\ lb[i] = n \/ lb[i] + 1 \in Ends(chars)
             /\ \A p \in la[i] .. lb[i] : p \in 1 .. n /\ chars[p].w # Newline
  <2>1. la[i] \in Nat /\ lb[i] \in Nat
    BY <1>4, <1>5 DEF IsCut
  <2>2. /\ 1 <= la[i] /\ la[i] <= lb[i] + 1 /\ lb[i] <= n
        /\ L[i] = SubSeq(chars, la[i], lb[i]) /\ lb[i] \in Between(chars)[la[i]]
    BY <1>1, <1>4, <1>5 DEF IsCut
  <2>3. (lb[i] = n \/ lb[i] + 1 \in Ends(chars)) /\ \A p \in la[i] .. lb[i] : p \notin Ends(chars)
    BY <1>1, <2>1, <2>2 DEF Between
  <2>4. \A p \in la[i] .. lb[i] : p \in 1 .. n
    BY <1>1, <2>1, <2>2
  <2>5. \A p \in la[i] .. lb[i] : chars[p].w # Newline
    BY <1>1, <2>3, <2>4 DEF Ends
  <2>6. L[i] \in Seq(Char)
    BY <1>2, <1>5
  <2> QED
    BY <2>1, <2>2, <2>3, <2>4, <2>5, <2>6
<1>7. ASSUME NEW i \in 1 .. h
      PROVE  /\ Len(L[i]) = (lb[i] + 1) - la[i] /\ Len(L[i]) \in Nat
             /\ \A j \in 1 .. Len(L[i]) : /\ la[i] + j - 1 \in la[i] .. lb[i]
                                          /\ L[i][j] = chars[la[i] + j - 1] /\ L[i][j].w # Newline
  <2>1. PICK a \in Nat, b \in Nat : a = la[i] /\ b = lb[i]
    BY <1>6
  <2>2. 1 <= a /\ a <= b + 1 /\ b <= n /\ L[i] = SubSeq(chars, a, b) /\ \A p \in a .. b : chars[p].w # Newline
    BY <1>6, <2>1
  <2>3. Len(L[i]) = (b + 1) - a /\ Len(L[i]) \in Nat /\ \A j \in 1 .. Len(L[i]) : L[i][j] = chars[a + j - 1]
    BY <1>1, <2>2, SMTT(30)
  <2>4. \A j \in 1 .. Len(L[i]) : a + j - 1 \in a .. b
    BY <2>3
  <2> QED
    BY <2>1, <2>2, <2>3, <2>4
<1> DEFINE C == [i \in 1 .. h |-> Chunks(L[i])]
<1>8. ASSUME NEW i \in 1 .. h
      PROVE  C[i] \in Seq(Seq(Char) \ {<<>>}) /\ \E aa, bb, m : IsChunks(L[i], C[i], aa, bb, m)
  BY <1>6, <1>7, ChunksCut
<1>9. SendRawMessage(chars) = FlattenSeq(C)
  BY <1>3, <1>5 DEF SendRawMessage
<1>10. PICK P : P = Seq(Char) \ {<<>>}
  OBVIOUS
<1>11. C \in Seq(Seq(P)) /\ Len(C) = h
  <2>1. PICK SP : SP = Seq(P)
    OBVIOUS
  <2>2. \A i \in 1 .. h : Chunks(L[i]) \in SP
    BY <1>8, <1>10, <2>1
  <2>3. C \in Seq(SP) /\ Len(C) = h
    BY <2>2
  <2> QED
    BY <2>1, <2>3
<1> HIDE DEF C
<1>12. PICK out \in Seq(P) : out = SendRawMessage(chars) /\ \E row, col : IsWalk(C, h, out, row, col)
  BY <1>9, <1>11, FlattenWalk
<1>13. PICK row, col : IsWalk(C, h, out, row, col)
  BY <1>12
<1> DEFINE aF == [i \in 1 .. h |-> CHOOSE aa : \E bb, m : IsChunks(L[i], C[i], aa, bb, m)]
           bF == [i \in 1 .. h |-> CHOOSE bb : \E m : IsChunks(L[i], C[i], aF[i], bb, m)]
           mF == [i \in 1 .. h |-> CHOOSE m : IsChunks(L[i], C[i], aF[i], bF[i], m)]
<1>14. ASSUME NEW i \in 1 .. h
       PROVE  IsChunks(L[i], C[i], aF[i], bF[i], mF[i])
  <2>1. \E bb, m : IsChunks(L[i], C[i], aF[i], bb, m)
    BY <1>8
  <2> HIDE DEF aF
  <2>2. \E m : IsChunks(L[i], C[i], aF[i], bF[i], m)
    BY <2>1
  <2> HIDE DEF bF
  <2> QED
    BY <2>2
<1> HIDE DEF aF, bF, mF
<1>15. PICK l \in Nat : l = Len(out)
  OBVIOUS
<1>16. ASSUME NEW k \in 1 .. l
       PROVE  row[k] \in 1 .. h /\ col[k] \in 1 .. Len(C[row[k]]) /\ out[k] = C[row[k]][col[k]]
  BY <1>13, <1>15 DEF IsWalk
<1> DEFINE A == [k \in 1 .. l |-> la[row[k]] + aF[row[k]][col[k]] - 1]
           B == [k \in 1 .. l |-> la[row[k]] + bF[row[k]][col[k]] - 1]
<1>17. ASSUME NEW k \in 1 .. l
       PROVE  /\ A[k] \in Nat /\ B[k] \in Nat /\ la[row[k]] <= A[k] /\ A[k] <= B[k] /\ B[k] <= lb[row[k]]
              /\ IsChunk(chars, out[k], A[k], B[k])
              /\ aF[row[k]][col[k]] \in Nat /\ bF[row[k]][col[k]] \in Nat /\ bF[row[k]][col[k]] < mF[row[k]]
  <2>1. PICK i \in 1 .. h : i = row[k]
    BY <1>16
  <2>2. PICK j \in 1 .. Len(C[i]) : j = col[k]
    BY <1>16, <2>1
  <2>3. aF[i][j] \in Nat /\ bF[i][j] \in Nat /\ IsChunk(L[i], C[i][j], aF[i][j], bF[i][j]) /\ bF[i][j] < mF[i]
    BY <1>14 DEF IsChunks
  <2>4. PICK x \in Nat, y \in Nat : x = aF[i][j] /\ y = bF[i][j]
    BY <2>3
  <2>5. PICK a \in Nat, b \in Nat : a = la[i] /\ b = lb[i]
    BY <1>6
  <2>6. 1 <= a /\ a <= b + 1 /\ b <= Len(chars) /\ L[i] = SubSeq(chars, a, b)
    BY <1>1, <1>6, <2>5
  <2>10. IsChunk(SubSeq(chars, a, b), C[i][j], x, y)
    <3> HIDE DEF A, B
    <3> QED
      BY <2>3, <2>4, <2>6
  <2>7. /\ a + x - 1 \in Nat /\ a + y - 1 \in Nat /\ a <= a + x - 1 /\ a + y - 1 <= b
        /\ IsChunk(chars, C[i][j], a + x - 1, a + y - 1)
    <3> HIDE DEF A, B
    <3> QED
      BY <2>6, <2>10, ChunkOfPart
  <2>8. A[k] = a + x - 1 /\ B[k] = a + y - 1 /\ out[k] = C[i][j]
    BY <1>16, <2>1, <2>2, <2>4, <2>5
  <2>9. A[k] <= B[k]
    BY <2>7, <2>8 DEF IsChunk
  <2> QED
    BY <2>1, <2>2, <2>3, <2>5, <2>7, <2>8, <2>9
<1>18. ASSUME NEW k \in 1 .. l, NEW j \in 1 .. l, k < j
       PROVE  B[k] < A[j]
  <2>1. row[k] < row[j] \/ (row[k] = row[j] /\ col[k] < col[j])
    BY <1>13, <1>15, <1>18 DEF IsWalk
  <2>2. CASE row[k] < row[j]
    <3>1. row[k] \in 1 .. h /\ row[j] \in 1 .. h
      BY <1>16
    <3>2. lb[row[k]] < la[row[j]]
      BY <1>4, <1>5, <2>2, <3>1 DEF IsCut
    <3>3. lb[row[k]] \in Nat /\ la[row[j]] \in Nat
      BY <1>6, <3>1
    <3> HIDE DEF A, B
    <3> QED
      BY <1>17, <3>2, <3>3
  <2>3. CASE row[k] = row[j] /\ col[k] < col[j]
    <3>1. PICK i \in 1 .. h : i = row[k] /\ i = row[j]
      BY <1>16, <2>3
    <3>2. col[k] \in 1 .. Len(C[i]) /\ col[j] \in 1 .. Len(C[i])
      BY <1>16, <3>1
    <3>3. bF[i][col[k]] < aF[i][col[j]]
      BY <1>14, <2>3, <3>2 DEF IsChunks
    <3>4. bF[i][col[k]] \in Nat /\ aF[i][col[j]] \in Nat /\ la[i] \in Nat
      <4> HIDE DEF A, B
      <4> QED
        BY <1>6, <1>17, <3>1
    <3>5. B[k] = la[i] + bF[i][col[k]] - 1 /\ A[j] = la[i] + aF[i][col[j]] - 1
      BY <3>1
    <3>6. PICK y \in Nat, x \in Nat, a \in Nat : y = bF[i][col[k]] /\ x = aF[i][col[j]] /\ a = la[i]
      BY <3>4
    <3> HIDE DEF A, B
    <3>7. y < x /\ B[k] = a + y - 1 /\ A[j] = a + x - 1
      BY <3>3, <3>5, <3>6
    <3> QED
      BY <3>7
  <2> QED
    BY <2>1, <2>2, <2>3
<1>23. \A k \in 1 .. l : A[k] \in Nat /\ B[k] \in Nat /\ A[k] = la[row[k]] + aF[row[k]][col[k]] - 1 /\ B[k] = la[row[k]] + bF[row[k]][col[k]] - 1
  BY <1>17
<1>20. A \in [1 .. l -> Nat] /\ B \in [1 .. l -> Nat]
  BY <1>17
<1> HIDE DEF A, B
<1>19. ASSUME NEW p \in 1 .. n, NEW q \in 1 .. n, p < q,
              ~Covered(out, A, B, p), \A r \in p .. q : chars[r].w # Newline
       PROVE  ~Covered(out, A, B, q) /\ \E r \in 1 .. n : chars[r].w > 1
  <2>1. p \in 1 .. (n + 1) - 1 /\ p \notin Ends(chars)
    BY <1>1, <1>19 DEF Ends
  <2>2. PICK i \in 1 .. h : la[i] <= p /\ p <= lb[i]
    BY <1>4, <1>5, <2>1 DEF IsCut
  <2>3. PICK a \in Nat, b \in Nat : a = la[i] /\ b = lb[i] /\ 1 <= a /\ a <= p /\ p <= b /\ b <= n
    BY <1>6, <2>2
  <2>4. q <= b
    <3> SUFFICES ASSUME b < q PROVE FALSE
      BY <2>3
    <3>1. b # n /\ b + 1 \in p .. q
      BY <2>3
    <3>2. b + 1 \in Ends(chars)
      BY <1>6, <2>3, <3>1
    <3> QED
      BY <1>19, <3>1, <3>2 DEF Ends
  <2>5. PICK m \in Nat : m = mF[i]
    BY <1>14 DEF IsChunks
  <2>6. PICK len \in Nat : len = Len(L[i]) /\ len = (b + 1) - a
    BY <1>7, <2>3
  <2>12. p \in Nat /\ q \in Nat /\ p < q /\ a <= p /\ p <= b /\ len = (b + 1) - a
    BY <1>19, <2>3, <2>6
  <2>7. PICK p1 \in 1 .. len : p1 = p - a + 1
    <3>1. p - a + 1 \in 1 .. len
      BY <2>12
    <3> QED
      BY <3>1
  <2>13. p1 \in Nat /\ p1 = p - a + 1 /\ p1 <= len
    BY <2>7
  <2>8. m <= p1
    <3> SUFFICES ASSUME p1 < m PROVE FALSE
      BY <2>5, <2>7
    <3>1. PICK j \in 1 .. Len(C[i]) : aF[i][j] <= p1 /\ p1 <= bF[i][j]
      BY <1>14, <2>5, <2>6, <2>7 DEF IsChunks
    <3>2. PICK k \in 1 .. l : row[k] = i /\ col[k] = j
      BY <1>13, <1>15, <3>1 DEF IsWalk
    <3>3. A[k] = a + aF[i][j] - 1 /\ B[k] = a + bF[i][j] - 1 /\ aF[i][j] \in Nat /\ bF[i][j] \in Nat
      BY <1>17, <1>23, <2>3, <3>2
    <3>5. PICK x \in Nat, y \in Nat : x = aF[i][j] /\ y = bF[i][j]
      BY <3>3
    <3>6. A[k] = a + x - 1 /\ B[k] = a + y - 1 /\ x <= p1 /\ p1 <= y
      BY <3>1, <3>3, <3>5
    <3>4. A[k] <= p /\ p <= B[k]
      BY <2>12, <2>13, <3>6
    <3> QED
      BY <1>15, <1>19, <3>4 DEF Covered
  <2>9. ASSUME NEW k \in 1 .. l, A[k] <= q, q <= B[k]
        PROVE  FALSE
    <3>1. PICK j \in 1 .. h : j = row[k]
      BY <1>16
    <3>2. la[j] <= A[k] /\ B[k] <= lb[j] /\ A[k] \in Nat /\ B[k] \in Nat
      BY <1>17, <3>1
    <3>3. la[j] \in Nat /\ lb[j] \in Nat
      BY <1>6
    <3>4. la[j] <= q /\ q <= lb[j]
      BY <2>9, <3>2, <3>3
    <3>5. CASE j < i
      <4>1. lb[j] < la[i]
        BY <1>4, <1>5, <3>5 DEF IsCut
      <4> QED
        BY <1>19, <2>3, <3>3, <3>4, <4>1
    <3>6. CASE i < j
      <4>1. lb[i] < la[j]
        BY <1>4, <1>5, <3>6 DEF IsCut
      <4> QED
        BY <2>3, <2>4, <3>3, <3>4, <4>1
    <3>7. CASE i = j
      <4>1. PICK y \in Nat : y = bF[row[k]][col[k]] /\ y < m /\ B[k] = a + y - 1
        BY <1>17, <1>23, <2>3, <2>5, <3>1, <3>7
      <4>2. q <= a + y - 1
        BY <2>9, <4>1
      <4> QED
        <5>1. y < m /\ m <= p1
          BY <2>8, <4>1
        <5> QED
          BY <2>12, <2>13, <4>2, <5>1
    <3> QED
      BY <3>5, <3>6, <3>7
  <2>10. b \in 1 .. n /\ chars[b].w > 1
    <3>1. m < len
      BY <2>4, <2>8, <2>12, <2>13
    <3>2. L[i][len].w > 1
      BY <1>14, <2>5, <2>6, <3>1 DEF IsChunks
    <3>5. len \in 1 .. len /\ a + len - 1 = b
      BY <2>12, <3>1
    <3>3. len \in 1 .. Len(L[i]) /\ a + len - 1 = b
      BY <2>6, <3>5
    <3>4. L[i][len] = chars[b]
      BY <1>7, <2>3, <3>3
    <3> QED
      BY <2>3, <3>2, <3>4
  <2> QED
    BY <1>15, <2>9, <2>10 DEF Covered
<1>21. \A k \in 1 .. l : IsChunk(chars, out[k], A[k], B[k])
  BY <1>17
<1>22. IsSaid(chars, out, A, B)
  BY <1>1, <1>15, <1>18, <1>19, <1>20, <1>21 DEF IsSaid
<1> QED
  BY <1>10, <1>12, <1>22

-----------------------------------------------------------------------------
(* The text of an SMS and its lines *)

\* The text of an SMS
Whole(s)   == FlattenSeq([p \in DOMAIN text[s] |-> Chars(<<s, p>>)])
\* The lines that it becomes
LinesOf(s) == SendRawMessage(Whole(s))

\* F is the text of s: its k-th character is number col[k] of part row[k].
IsText(s, F, row, col) ==
  /\ row \in [1 .. Len(F) -> Nat] /\ col \in [1 .. Len(F) -> Nat]
  /\ \A k \in 1 .. Len(F) : /\ row[k] \in DOMAIN text[s] /\ col[k] \in DOMAIN text[s][row[k]]
                            /\ F[k] = [at |-> <<s, row[k], col[k]>>, w |-> text[s][row[k]][col[k]]]
  /\ \A k, l \in 1 .. Len(F) : k < l => row[k] < row[l] \/ (row[k] = row[l] /\ col[k] < col[l])
  /\ \A p \in DOMAIN text[s] : \A i \in DOMAIN text[s][p] : \E k \in 1 .. Len(F) : row[k] = p /\ col[k] = i

\* The shape of a text.
LEMMA TextShape ==
  ASSUME NEW t \in Seq(Seq(Nat))
  PROVE  /\ Len(t) \in Nat /\ DOMAIN t = 1 .. Len(t)
         /\ \A p \in DOMAIN t : p \in Nat /\ t[p] \in Seq(Nat) /\ Len(t[p]) \in Nat /\ DOMAIN t[p] = 1 .. Len(t[p])
<1>1. PICK Q : Q = Seq(Nat)
  OBVIOUS
<1>2. t \in Seq(Q)
  BY <1>1
<1>3. Len(t) \in Nat /\ DOMAIN t = 1 .. Len(t) /\ \A p \in DOMAIN t : p \in Nat /\ t[p] \in Q
  BY <1>2
<1>4. \A q \in Q : Len(q) \in Nat /\ DOMAIN q = 1 .. Len(q)
  BY <1>1
<1> QED
  BY <1>1, <1>3, <1>4

\* The characters of a fragment (decode_message).
LEMMA CharsType ==
  ASSUME NEW s \in Sms, text[s] \in Seq(Seq(Nat)), NEW p \in DOMAIN text[s]
  PROVE  /\ Chars(<<s, p>>) \in Seq(Char) /\ Len(Chars(<<s, p>>)) = Len(text[s][p])
         /\ \A i \in 1 .. Len(text[s][p]) : Chars(<<s, p>>)[i] = [at |-> <<s, p, i>>, w |-> text[s][p][i]]
<1>1. PICK t \in Seq(Nat) : t = text[s][p]
  BY TextShape
<1>4. PICK n \in Nat : n = Len(t) /\ DOMAIN t = 1 .. n
  OBVIOUS
<1>5. p \in Nat
  BY TextShape
<1>6. ASSUME NEW i \in 1 .. n
      PROVE  [at |-> <<s, p, i>>, w |-> t[i]] \in Char
  <2>1. t[i] \in Nat /\ i \in Nat
    BY <1>4
  <2> QED
    BY <1>5, <2>1 DEF Char
<1>7. Chars(<<s, p>>) = [i \in 1 .. n |-> [at |-> <<s, p, i>>, w |-> t[i]]]
  BY <1>1, <1>4 DEF Chars
<1>8. [i \in 1 .. n |-> [at |-> <<s, p, i>>, w |-> t[i]]] \in Seq(Char)
  BY <1>6
<1>9. PICK c \in Seq(Char) : c = [i \in 1 .. n |-> [at |-> <<s, p, i>>, w |-> t[i]]]
  BY <1>8
<1>10. Len(c) = n /\ \A i \in 1 .. n : c[i] = [at |-> <<s, p, i>>, w |-> t[i]]
  BY <1>9
<1> QED
  BY <1>1, <1>4, <1>7, <1>9, <1>10

\* The fragments of an SMS, one after the other, are its text.
LEMMA WholeText ==
  ASSUME NEW s \in Sms, text[s] \in Seq(Seq(Nat))
  PROVE  Whole(s) \in Seq(Char) /\ \E row, col : IsText(s, Whole(s), row, col)
<1>1. PICK n \in Nat : n = Len(text[s]) /\ DOMAIN text[s] = 1 .. n
  BY TextShape
<1>2. PICK Q : Q = Seq(Char)
  OBVIOUS
<1>3. PICK ss : ss = [p \in DOMAIN text[s] |-> Chars(<<s, p>>)]
  OBVIOUS
<1>4. ASSUME NEW p \in 1 .. n
      PROVE  /\ ss[p] \in Q /\ Len(ss[p]) = Len(text[s][p])
             /\ \A i \in 1 .. Len(text[s][p]) : ss[p][i] = [at |-> <<s, p, i>>, w |-> text[s][p][i]]
  BY <1>1, <1>2, <1>3, CharsType
<1>5. ss \in Seq(Q) /\ Len(ss) = n
  <2>1. ss = [p \in 1 .. n |-> ss[p]] /\ \A p \in 1 .. n : ss[p] \in Q
    BY <1>1, <1>3, <1>4
  <2>2. PICK g \in [1 .. n -> Q] : g = ss
    BY <2>1
  <2> QED
    BY <2>2
<1>6. PICK F \in Seq(Char) : F = FlattenSeq(ss) /\ \E row, col : IsWalk(ss, n, F, row, col)
  BY <1>2, <1>5, FlattenWalk
<1>7. PICK row, col : IsWalk(ss, n, F, row, col)
  BY <1>6
<1>8. ASSUME NEW p \in 1 .. n
      PROVE  DOMAIN text[s][p] = 1 .. Len(text[s][p])
  BY <1>1, TextShape
<1>9. IsText(s, F, row, col)
  <2>1. /\ row \in [1 .. Len(F) -> Nat] /\ col \in [1 .. Len(F) -> Nat]
        /\ \A k, l \in 1 .. Len(F) : k < l => row[k] < row[l] \/ (row[k] = row[l] /\ col[k] < col[l])
    BY <1>7 DEF IsWalk
  <2>2. ASSUME NEW k \in 1 .. Len(F)
        PROVE  /\ row[k] \in DOMAIN text[s] /\ col[k] \in DOMAIN text[s][row[k]]
               /\ F[k] = [at |-> <<s, row[k], col[k]>>, w |-> text[s][row[k]][col[k]]]
    <3>1. PICK p \in 1 .. n : p = row[k]
      BY <1>7 DEF IsWalk
    <3>2. PICK i \in 1 .. Len(ss[p]) : i = col[k]
      BY <1>7, <3>1 DEF IsWalk
    <3>3. F[k] = ss[p][i]
      BY <1>7, <3>1, <3>2 DEF IsWalk
    <3>4. i \in 1 .. Len(text[s][p])
      BY <1>4
    <3> QED
      BY <1>1, <1>4, <1>8, <3>1, <3>2, <3>3, <3>4
  <2>3. ASSUME NEW p \in DOMAIN text[s], NEW i \in DOMAIN text[s][p]
        PROVE  \E k \in 1 .. Len(F) : row[k] = p /\ col[k] = i
    <3>1. p \in 1 .. n /\ i \in 1 .. Len(ss[p])
      BY <1>1, <1>4, <1>8
    <3> QED
      BY <1>7, <3>1 DEF IsWalk
  <2> QED
    BY <2>1, <2>2, <2>3 DEF IsText
<1> QED
  BY <1>3, <1>6, <1>9 DEF Whole

\* The k-th and the l-th character of F are in order, and not the same twice.
InOrderAt(s, F, k, l) ==
  /\ F[k].at[1] = s
  /\ k < l <=> Before(F[k].at, F[l].at)
  /\ F[k].at = F[l].at => k = l

\* In the text a character comes before another when Before says so.
LEMMA TextOrder ==
  ASSUME NEW s, NEW F \in Seq(Char), NEW row, NEW col, IsText(s, F, row, col),
         NEW k \in 1 .. Len(F), NEW l \in 1 .. Len(F)
  PROVE  InOrderAt(s, F, k, l)
<1>1. F[k].at = <<s, row[k], col[k]>> /\ F[l].at = <<s, row[l], col[l]>>
  <2>1. F[k] = [at |-> <<s, row[k], col[k]>>, w |-> text[s][row[k]][col[k]]]
    BY DEF IsText
  <2>2. F[l] = [at |-> <<s, row[l], col[l]>>, w |-> text[s][row[l]][col[l]]]
    BY DEF IsText
  <2> QED
    BY <2>1, <2>2
<1>2. row[k] \in Nat /\ row[l] \in Nat /\ col[k] \in Nat /\ col[l] \in Nat
  BY DEF IsText
<1>3. k < l => row[k] < row[l] \/ (row[k] = row[l] /\ col[k] < col[l])
  BY DEF IsText
<1>4. l < k => row[l] < row[k] \/ (row[k] = row[l] /\ col[l] < col[k])
  BY DEF IsText
<1>5. k \in Nat /\ l \in Nat
  OBVIOUS
<1>6. F[k].at[1] = s /\ F[k].at[2] = row[k] /\ F[k].at[3] = col[k] /\ F[l].at[2] = row[l] /\ F[l].at[3] = col[l]
  BY <1>1
<1>7. Before(F[k].at, F[l].at) <=> row[k] < row[l] \/ (row[k] = row[l] /\ col[k] < col[l])
  BY <1>6 DEF Before
<1>8. PICK a \in Nat, b \in Nat, c \in Nat, d \in Nat : a = row[k] /\ b = row[l] /\ c = col[k] /\ d = col[l]
  BY <1>2
<1>9. k < l <=> (a < b \/ (a = b /\ c < d))
  BY <1>3, <1>4, <1>5, <1>8
<1>10. F[k].at = F[l].at => a = b /\ c = d
  BY <1>6, <1>8
<1>11. a = b /\ c = d => k = l
  BY <1>3, <1>4, <1>5, <1>8
<1> QED
  BY <1>6, <1>7, <1>8, <1>9, <1>10, <1>11 DEF InOrderAt

\* What a line of an SMS is
IsLine(s, l) ==
  /\ l \in Seq(Char) \ {<<>>}
  /\ \A i \in DOMAIN l : l[i].at[1] = s
  /\ \A i, j \in DOMAIN l : i < j => Before(l[i].at, l[j].at)
  /\ Bytes(l) < MaxLen + l[Len(l)].w

\* What two lines have of one SMS is in order.
LineBefore(l, m) ==
  \A i \in DOMAIN l, j \in DOMAIN m : l[i].at[1] = m[j].at[1] => Before(l[i].at, m[j].at)

\* The places of the characters of lines
Ats(S) == {c.at : c \in UNION {Elements(l) : l \in S}}

\* Of the lines of S, nothing but ends is missing.
EndsCut(s, S) ==
  \A a \in Visible(s) \ Ats(S), b \in Visible(s) :
    Before(a, b) /\ SameLine(s, a, b) => b \notin Ats(S) /\ Wide(s)

\* The lines of an SMS: in order, and only their ends are missing.
IsLines(s, L) ==
  /\ L \in Seq(Seq(Char) \ {<<>>})
  /\ \A k \in DOMAIN L : IsLine(s, L[k])
  /\ \A k, m \in DOMAIN L : k < m => LineBefore(L[k], L[m])
  /\ EndsCut(s, Elements(L))

\* A character that is to be seen is one of the text.
LEMMA VisibleInText ==
  ASSUME NEW s \in Sms, text[s] \in Seq(Seq(Nat)), NEW F \in Seq(Char), NEW row, NEW col, IsText(s, F, row, col),
         NEW a \in Visible(s)
  PROVE  \E k \in 1 .. Len(F) : F[k].at = a /\ F[k].w # Newline
<1>1. PICK p \in DOMAIN text[s] : \E d \in Elements(Chars(<<s, p>>)) : d.w # Newline /\ a = d.at
  BY DEF Visible
<1>2. PICK d \in Elements(Chars(<<s, p>>)) : d.w # Newline /\ a = d.at
  BY <1>1
<1>3. DOMAIN Chars(<<s, p>>) = 1 .. Len(text[s][p]) /\ DOMAIN text[s][p] = 1 .. Len(text[s][p])
  <2>1. Chars(<<s, p>>) \in Seq(Char) /\ Len(Chars(<<s, p>>)) = Len(text[s][p])
    BY CharsType
  <2>2. DOMAIN Chars(<<s, p>>) = 1 .. Len(text[s][p])
    BY <2>1
  <2> QED
    BY <2>2, TextShape
<1>4. PICK i \in 1 .. Len(text[s][p]) : d = Chars(<<s, p>>)[i]
  BY <1>2, <1>3 DEF Elements
<1>5. d = [at |-> <<s, p, i>>, w |-> text[s][p][i]]
  BY <1>4, CharsType
<1>6. PICK k \in 1 .. Len(F) : row[k] = p /\ col[k] = i
  <2>1. i \in DOMAIN text[s][p]
    BY <1>3
  <2>2. \A q \in DOMAIN text[s] : \A j \in DOMAIN text[s][q] : \E k \in 1 .. Len(F) : row[k] = q /\ col[k] = j
    BY DEF IsText
  <2> QED
    BY <2>1, <2>2, Zenon
<1>7. F[k] = d
  BY <1>5, <1>6 DEF IsText
<1> QED
  BY <1>2, <1>7

\* Where the places come from.
LEMMA AtsOf ==
  ASSUME NEW L, NEW a
  PROVE  a \in Ats(Elements(L)) <=> \E k \in DOMAIN L : \E i \in DOMAIN L[k] : a = L[k][i].at
<1>1. ASSUME a \in Ats(Elements(L))
      PROVE  \E k \in DOMAIN L : \E i \in DOMAIN L[k] : a = L[k][i].at
  <2>1. PICK c \in UNION {Elements(l) : l \in Elements(L)} : a = c.at
    BY <1>1 DEF Ats
  <2>2. PICK l \in Elements(L) : c \in Elements(l)
    BY <2>1
  <2>3. PICK k \in DOMAIN L : l = L[k]
    BY <2>2 DEF Elements
  <2>4. PICK i \in DOMAIN l : c = l[i]
    BY <2>2 DEF Elements
  <2> QED
    BY <2>1, <2>3, <2>4
<1>2. ASSUME NEW k \in DOMAIN L, NEW i \in DOMAIN L[k], a = L[k][i].at
      PROVE  a \in Ats(Elements(L))
  <2>1. L[k] \in Elements(L) /\ L[k][i] \in Elements(L[k])
    BY DEF Elements
  <2>2. L[k][i] \in UNION {Elements(l) : l \in Elements(L)}
    BY <2>1
  <2> QED
    BY <1>2, <2>2 DEF Ats
<1> QED
  BY <1>1, <1>2

\* F is in order, and no character is in it twice.
InOrder(s, F) ==
  \A x, y \in 1 .. Len(F) : /\ F[x].at[1] = s /\ (x < y <=> Before(F[x].at, F[y].at))
                            /\ F[x].at = F[y].at => x = y

\* So is a text.
LEMMA TextInOrder ==
  ASSUME NEW s, NEW F \in Seq(Char), NEW row, NEW col, IsText(s, F, row, col)
  PROVE  InOrder(s, F)
<1>1. ASSUME NEW x \in 1 .. Len(F), NEW y \in 1 .. Len(F)
      PROVE  InOrderAt(s, F, x, y)
  BY TextOrder
<1> QED
  BY <1>1 DEF InOrder, InOrderAt

\* What is said of an SMS is its text, in order, but for the ends of lines.
THEOREM LinesOfText ==
  ASSUME NEW s \in Sms, text[s] \in Seq(Seq(Nat))
  PROVE  IsLines(s, LinesOf(s))
<1>1. PICK F \in Seq(Char) : F = Whole(s) /\ \E row, col : IsText(s, F, row, col)
  BY WholeText
<1>2. PICK row, col : IsText(s, F, row, col)
  BY <1>1
<1>3. PICK P : P = Seq(Char) \ {<<>>}
  OBVIOUS
<1>4. PICK L \in Seq(P) : L = LinesOf(s) /\ \E A, B : IsSaid(F, L, A, B)
  BY <1>1, <1>3, SaidAs DEF LinesOf
<1>5. PICK A, B : IsSaid(F, L, A, B)
  BY <1>4
<1>6. PICK n \in Nat : n = Len(F)
  OBVIOUS
<1>7. PICK h \in Nat : h = Len(L) /\ DOMAIN L = 1 .. h
  OBVIOUS
<1>8. ASSUME NEW k \in 1 .. h
      PROVE  /\ A[k] \in 1 .. n /\ B[k] \in 1 .. n
             /\ L[k] \in Seq(Char) \ {<<>>} /\ Len(L[k]) \in Nat \ {0} /\ DOMAIN L[k] = 1 .. Len(L[k])
             /\ Bytes(L[k]) < MaxLen + L[k][Len(L[k])].w
  <2>1. /\ A[k] \in 1 .. n /\ B[k] \in 1 .. n /\ A[k] <= B[k]
        /\ L[k] \in Seq(Char) \ {<<>>} /\ Len(L[k]) = B[k] - A[k] + 1
        /\ \A i \in 1 .. Len(L[k]) : L[k][i] = F[A[k] + i - 1]
        /\ Bytes(L[k]) < MaxLen + L[k][Len(L[k])].w
    BY <1>5, <1>6, <1>7 DEF IsSaid, IsChunk
  <2>2. PICK a \in 1 .. n, b \in 1 .. n : a = A[k] /\ b = B[k]
    BY <2>1
  <2>3. a <= b /\ Len(L[k]) = b - a + 1
    BY <2>1, <2>2
  <2>4. Len(L[k]) \in Nat \ {0} /\ DOMAIN L[k] = 1 .. Len(L[k])
    BY <2>1, <2>3
  <2> QED
    BY <2>1, <2>4
<1>14. ASSUME NEW k \in 1 .. h, NEW i \in DOMAIN L[k]
       PROVE  \E x \in 1 .. n : x = A[k] + i - 1 /\ A[k] <= x /\ x <= B[k] /\ L[k][i] = F[x] /\ i \in Nat
  <2>1. /\ A[k] \in 1 .. n /\ B[k] \in 1 .. n /\ A[k] <= B[k] /\ Len(L[k]) = B[k] - A[k] + 1
        /\ \A j \in 1 .. Len(L[k]) : L[k][j] = F[A[k] + j - 1]
    BY <1>5, <1>6, <1>7 DEF IsSaid, IsChunk
  <2>2. PICK a \in 1 .. n, b \in 1 .. n : a = A[k] /\ b = B[k]
    BY <2>1
  <2>3. a <= b /\ Len(L[k]) = b - a + 1
    BY <2>1, <2>2
  <2>4. i \in 1 .. Len(L[k])
    BY <1>8
  <2>5. i \in 1 .. b - a + 1
    BY <2>3, <2>4
  <2>6. PICK x \in 1 .. n : x = a + i - 1 /\ a <= x /\ x <= b
    <3>1. a + i - 1 \in 1 .. n /\ a <= a + i - 1 /\ a + i - 1 <= b
      BY <2>3, <2>5
    <3> QED
      BY <3>1
  <2>7. L[k][i] = F[x]
    BY <2>1, <2>2, <2>4, <2>6
  <2>8. x = A[k] + i - 1 /\ A[k] <= x /\ x <= B[k] /\ i \in Nat
    BY <2>2, <2>5, <2>6
  <2> QED
    BY <2>7, <2>8
<1>13. ASSUME NEW x \in 1 .. n, NEW y \in 1 .. n
       PROVE  F[x].at[1] = s /\ (x < y <=> Before(F[x].at, F[y].at)) /\ (F[x].at = F[y].at => x = y)
  <2>1. InOrder(s, F)
    BY <1>2, TextInOrder
  <2> QED
    BY <1>6, <2>1 DEF InOrder
<1>9. ASSUME NEW k \in 1 .. h
      PROVE  IsLine(s, L[k])
  <2>1. ASSUME NEW i \in DOMAIN L[k]
        PROVE  L[k][i].at[1] = s
    <3>1. PICK x \in 1 .. n : x = A[k] + i - 1 /\ L[k][i] = F[x]
      BY <1>14
    <3> QED
      BY <1>13, <3>1
  <2>2. ASSUME NEW i \in DOMAIN L[k], NEW j \in DOMAIN L[k], i < j
        PROVE  Before(L[k][i].at, L[k][j].at)
    <3>1. PICK x \in 1 .. n : x = A[k] + i - 1 /\ L[k][i] = F[x] /\ i \in Nat
      BY <1>14
    <3>2. PICK y \in 1 .. n : y = A[k] + j - 1 /\ L[k][j] = F[y] /\ j \in Nat
      BY <1>14
    <3>3. x < y
      <4>1. PICK a \in 1 .. n : a = A[k]
        BY <1>8
      <4>2. x = a + i - 1 /\ y = a + j - 1 /\ i \in Nat /\ j \in Nat
        BY <3>1, <3>2, <4>1
      <4> QED
        BY <2>2, <4>2
    <3> QED
      BY <1>13, <3>1, <3>2, <3>3
  <2> QED
    BY <1>8, <2>1, <2>2 DEF IsLine
<1>10. ASSUME NEW k \in 1 .. h, NEW m \in 1 .. h, k < m
       PROVE  LineBefore(L[k], L[m])
  <2> SUFFICES ASSUME NEW i \in DOMAIN L[k], NEW j \in DOMAIN L[m]
               PROVE  Before(L[k][i].at, L[m][j].at)
    BY DEF LineBefore
  <2>1. PICK x \in 1 .. n : x <= B[k] /\ L[k][i] = F[x]
    BY <1>14
  <2>2. PICK y \in 1 .. n : A[m] <= y /\ L[m][j] = F[y]
    BY <1>14
  <2>3. B[k] < A[m]
    BY <1>5, <1>7, <1>10 DEF IsSaid
  <2>4. x < y
    <3>1. B[k] \in Nat /\ A[m] \in Nat
      BY <1>8
    <3> QED
      BY <2>1, <2>2, <2>3, <3>1
  <2> QED
    BY <1>13, <2>1, <2>2, <2>4
<1>11. ASSUME NEW x \in 1 .. n
       PROVE  F[x].at \in Ats(Elements(L)) <=> Covered(L, A, B, x)
  <2>1. ASSUME F[x].at \in Ats(Elements(L))
        PROVE  Covered(L, A, B, x)
    <3>1. PICK k \in 1 .. h : \E i \in DOMAIN L[k] : F[x].at = L[k][i].at
      <4>1. PICK a : a = F[x].at
        OBVIOUS
      <4>2. a \in Ats(Elements(L))
        BY <2>1, <4>1
      <4>3. \E k \in DOMAIN L : \E i \in DOMAIN L[k] : a = L[k][i].at
        BY <4>2, AtsOf
      <4> QED
        BY <1>7, <4>1, <4>3
    <3>2. PICK i \in DOMAIN L[k] : F[x].at = L[k][i].at
      BY <3>1
    <3>3. PICK y \in 1 .. n : A[k] <= y /\ y <= B[k] /\ L[k][i] = F[y]
      BY <1>14
    <3>4. x = y
      BY <1>13, <3>2, <3>3
    <3> QED
      BY <1>7, <3>3, <3>4 DEF Covered
  <2>2. ASSUME Covered(L, A, B, x)
        PROVE  F[x].at \in Ats(Elements(L))
    <3>1. PICK k \in 1 .. h : A[k] <= x /\ x <= B[k]
      BY <1>7, <2>2 DEF Covered
    <3>2. Len(L[k]) = B[k] - A[k] + 1 /\ A[k] \in 1 .. n /\ B[k] \in 1 .. n
      BY <1>5, <1>6, <1>7 DEF IsSaid, IsChunk
    <3>3. PICK i \in 1 .. Len(L[k]) : i = x - A[k] + 1 /\ A[k] + i - 1 = x
      <4>1. PICK a \in 1 .. n, b \in 1 .. n : a = A[k] /\ b = B[k]
        BY <3>2
      <4>2. a <= x /\ x <= b /\ Len(L[k]) = b - a + 1
        BY <3>1, <3>2, <4>1
      <4>3. x - a + 1 \in 1 .. (b - a + 1) /\ a + (x - a + 1) - 1 = x
        BY <4>2
      <4> QED
        BY <4>1, <4>2, <4>3
    <3>5. i \in DOMAIN L[k]
      BY <1>8
    <3>4. L[k][i] = F[x]
      BY <1>14, <3>3, <3>5
    <3> QED
      <4>1. k \in DOMAIN L /\ F[x].at = L[k][i].at
        BY <1>7, <3>4
      <4> QED
        BY <3>5, <4>1, AtsOf, Zenon
  <2> QED
    BY <2>1, <2>2
<1>12. EndsCut(s, Elements(L))
  <2> SUFFICES ASSUME NEW a \in Visible(s), a \notin Ats(Elements(L)), NEW b \in Visible(s),
                      Before(a, b), SameLine(s, a, b)
               PROVE  b \notin Ats(Elements(L)) /\ Wide(s)
    BY DEF EndsCut
  <2>1. PICK x \in 1 .. n : F[x].at = a /\ F[x].w # Newline
    BY <1>2, <1>6, VisibleInText
  <2>2. PICK y \in 1 .. n : F[y].at = b /\ F[y].w # Newline
    BY <1>2, <1>6, VisibleInText
  <2>3. x < y
    BY <1>13, <2>1, <2>2
  <2>4. ASSUME NEW r \in x .. y, F[r].w = Newline
        PROVE  FALSE
    <3>1. r # x /\ r # y /\ r \in 1 .. n
      BY <2>1, <2>2, <2>4
    <3>2. x < r /\ r < y
      BY <3>1
    <3>3. Before(a, F[r].at) /\ Before(F[r].at, b)
      BY <1>13, <2>1, <2>2, <3>1, <3>2
    <3>4. PICK p \in DOMAIN text[s] : \E i \in DOMAIN text[s][p] : p = row[r] /\ i = col[r]
      BY <1>2, <1>6, <3>1 DEF IsText
    <3>5. PICK i \in DOMAIN text[s][p] : p = row[r] /\ i = col[r]
      BY <3>4
    <3>6. F[r] = [at |-> <<s, p, i>>, w |-> text[s][p][i]]
      BY <1>2, <1>6, <3>1, <3>5 DEF IsText
    <3>7. F[r].at = <<s, p, i>> /\ text[s][p][i] = Newline
      BY <2>4, <3>6
    <3> QED
      BY <3>3, <3>7 DEF SameLine
  <2>5. ~Covered(L, A, B, x)
    BY <1>11, <2>1
  <2>6. ~Covered(L, A, B, y) /\ \E r \in 1 .. n : F[r].w > 1
    BY <1>5, <1>6, <2>3, <2>4, <2>5 DEF IsSaid
  <2>7. PICK r \in 1 .. n : F[r].w > 1
    BY <2>6
  <2>8. Wide(s)
    <3>1. row[r] \in DOMAIN text[s] /\ col[r] \in DOMAIN text[s][row[r]] /\ F[r] = [at |-> <<s, row[r], col[r]>>, w |-> text[s][row[r]][col[r]]]
      BY <1>2, <1>6 DEF IsText
    <3>2. text[s][row[r]][col[r]] > 1
      BY <2>7, <3>1
    <3> QED
      BY <3>1, <3>2 DEF Wide
  <2> QED
    BY <1>11, <2>2, <2>6, <2>8
<1> QED
  BY <1>3, <1>4, <1>7, <1>9, <1>10, <1>12 DEF IsLines

-----------------------------------------------------------------------------
(* The fragments of an SMS: process_msg_pdu *)

\* SetToSeq lists a finite set (the rows that a query returns).
LEMMA ListOf ==
  ASSUME NEW S, IsFiniteSet(S)
  PROVE  /\ SetToSeq(S) \in Seq(S) /\ Len(SetToSeq(S)) = Cardinality(S) /\ Cardinality(S) \in Nat
         /\ Elements(SetToSeq(S)) = S
         /\ \A i, j \in 1 .. Cardinality(S) : SetToSeq(S)[i] = SetToSeq(S)[j] => i = j
<1>1. PICK n \in Nat : n = Cardinality(S)
  BY FS_CardinalityType
<1>2. PICK f \in Bijection(1 .. n, S) : TRUE
  BY <1>1, FS_CardinalityType DEF ExistsBijection
<1>3. f \in [1 .. n -> S] /\ IsInjective(f)
  BY <1>2 DEF Bijection, Injection, IsInjective
<1>4. PICK g : g = SetToSeq(S)
  OBVIOUS
<1>5. g \in [1 .. n -> S] /\ IsInjective(g)
  BY <1>1, <1>3, <1>4 DEF SetToSeq
<1>6. g \in Injection(1 .. n, S)
  BY <1>5 DEF Injection
<1>7. IsFiniteSet(1 .. n) /\ Cardinality(1 .. n) = n
  BY FS_Interval
<1>8. g \in Surjection(1 .. n, S)
  BY <1>1, <1>6, <1>7, FS_Injection
<1>9. \A x \in S : \E i \in 1 .. n : g[i] = x
  BY <1>8 DEF Surjection
<1>10. Elements(g) = S
  BY <1>5, <1>9 DEF Elements
<1>11. g \in Seq(S) /\ Len(g) = n
  BY <1>5
<1> QED
  BY <1>1, <1>4, <1>5, <1>10, <1>11 DEF IsInjective

\* What rises from 1 to n and leaves nothing out is the identity.
LEMMA RisesByOne ==
  ASSUME NEW n \in Nat, NEW g \in [1 .. n -> 1 .. n],
         \A p \in 1 .. n : \E i \in 1 .. n : g[i] = p,
         \A i, j \in 1 .. n : i < j => g[i] <= g[j]
  PROVE  \A i \in 1 .. n : g[i] = i
<1>1. ASSUME NEW i \in 1 .. n, NEW j \in 1 .. n, j = i + 1
      PROVE  g[j] <= g[i] + 1
  <2>0. PICK x \in 1 .. n, y \in 1 .. n : x = g[i] /\ y = g[j]
    OBVIOUS
  <2>1. CASE x = n
    BY <2>0, <2>1
  <2>2. CASE x # n
    <3>1. x + 1 \in 1 .. n
      BY <2>2
    <3>2. PICK k \in 1 .. n : g[k] = x + 1
      BY <3>1
    <3>3. ~(k < i) /\ k # i
      <4>1. k < i => g[k] <= g[i]
        OBVIOUS
      <4>2. ~(x + 1 <= x) /\ x + 1 # x
        OBVIOUS
      <4> QED
        BY <2>0, <3>2, <4>1, <4>2
    <3>4. k = j \/ j < k
      BY <1>1, <3>3
    <3>5. j < k => g[j] <= g[k]
      OBVIOUS
    <3>6. y <= x + 1
      BY <2>0, <3>2, <3>4, <3>5
    <3> QED
      BY <2>0, <3>6
  <2> QED
    BY <2>1, <2>2
<1>2. ASSUME NEW i \in 1 .. n
      PROVE  g[i] <= i
  <2> DEFINE T == {k \in 1 .. n : g[k] <= k}
  <2>1. n # 0 => 1 \in T
    <3> SUFFICES ASSUME n # 0 PROVE g[1] <= 1
      OBVIOUS
    <3>1. 1 \in 1 .. n
      OBVIOUS
    <3>2. PICK k \in 1 .. n : g[k] = 1
      BY <3>1
    <3>3. k = 1 \/ 1 < k
      OBVIOUS
    <3>4. 1 < k => g[1] <= g[k]
      BY <3>1
    <3> QED
      BY <3>2, <3>3, <3>4
  <2>2. ASSUME NEW k \in 1 .. n, k # 1, k - 1 \in T
        PROVE  k \in T
    <3>1. k - 1 \in 1 .. n /\ k = (k - 1) + 1 /\ g[k - 1] <= k - 1
      BY <2>2
    <3>2. g[k] <= g[k - 1] + 1
      BY <1>1, <3>1
    <3>3. PICK x \in 1 .. n, y \in 1 .. n : x = g[k] /\ y = g[k - 1]
      BY <3>1
    <3>4. x <= k
      BY <3>1, <3>2, <3>3
    <3> QED
      BY <3>3, <3>4
  <2>3. n # 0 /\ 1 \in Nat
    OBVIOUS
  <2>4. \A k \in 1 .. n : k \in T
    <3> HIDE DEF T
    <3> QED
      BY <2>1, <2>2, <2>3, CountingUpTo
  <2> QED
    BY <2>4
<1>3. ASSUME NEW i \in 1 .. n
      PROVE  i <= g[i]
  <2> DEFINE T == {h \in 0 .. n - 1 : n - h <= g[n - h]}
  <2>1. 0 \in T
    <3>1. PICK k \in 1 .. n : g[k] = n
      OBVIOUS
    <3>2. k = n \/ k < n
      OBVIOUS
    <3>3. k < n => g[k] <= g[n]
      OBVIOUS
    <3>4. n \in 1 .. n
      OBVIOUS
    <3> QED
      BY <3>1, <3>2, <3>3, <3>4
  <2>2. ASSUME NEW h \in 0 .. n - 1, h # 0, h - 1 \in T
        PROVE  h \in T
    <3>1. PICK k \in 1 .. n : k = n - h
      <4>1. n - h \in 1 .. n
        OBVIOUS
      <4> QED
        BY <4>1
    <3>2. k + 1 = n - (h - 1) /\ k + 1 \in 1 .. n
      BY <2>2, <3>1
    <3>3. k + 1 <= g[k + 1]
      BY <2>2, <3>2
    <3>4. g[k + 1] <= g[k] + 1
      BY <1>1, <3>2
    <3>5. PICK x \in 1 .. n, y \in 1 .. n : x = g[k] /\ y = g[k + 1]
      BY <3>2
    <3>7. k + 1 <= y /\ y <= x + 1
      BY <3>3, <3>4, <3>5
    <3>6. k <= x
      BY <3>7
    <3> QED
      BY <3>1, <3>5, <3>6
  <2>3. 0 \in Nat /\ n - 1 \in Nat
    OBVIOUS
  <2>4. \A h \in 0 .. n - 1 : h \in T
    <3> HIDE DEF T
    <3> QED
      BY <2>1, <2>2, <2>3, CountingUpTo
  <2>5. n - i \in 0 .. n - 1 /\ n - (n - i) = i
    OBVIOUS
  <2> QED
    BY <2>4, <2>5
<1> QED
  BY <1>2, <1>3

\* All fragments of an SMS, sorted by their parts (sort_by_key).
LEMMA SortedWhole ==
  ASSUME NEW s, NEW n \in Nat, NEW msgs, DOMAIN msgs = 1 .. n, Elements(msgs) = {<<s, p>> : p \in 1 .. n}
  PROVE  SortByPart(msgs) = [p \in 1 .. n |-> <<s, p>>]
<1> DEFINE Good(t) == /\ t \in [DOMAIN msgs -> Elements(msgs)] /\ Elements(t) = Elements(msgs)
                      /\ \A i, j \in DOMAIN msgs : i < j => t[i][2] <= t[j][2]
           id == [p \in 1 .. n |-> <<s, p>>]
<1>1. Good(id)
  <2>1. id \in [DOMAIN msgs -> Elements(msgs)]
    OBVIOUS
  <2>2. Elements(id) = Elements(msgs)
    BY DEF Elements
  <2>3. \A i, j \in DOMAIN msgs : i < j => id[i][2] <= id[j][2]
    OBVIOUS
  <2> QED
    BY <2>1, <2>2, <2>3
<1>2. ASSUME NEW t, Good(t)
      PROVE  t = id
  <2>1. ASSUME NEW i \in 1 .. n
        PROVE  t[i][2] \in 1 .. n /\ t[i] = <<s, t[i][2]>>
    <3>1. t[i] \in {<<s, p>> : p \in 1 .. n}
      BY <1>2
    <3>2. PICK p \in 1 .. n : t[i] = <<s, p>>
      BY <3>1
    <3> QED
      BY <3>2
  <2> DEFINE g == [i \in 1 .. n |-> t[i][2]]
  <2>2. g \in [1 .. n -> 1 .. n]
    BY <2>1
  <2>3. ASSUME NEW p \in 1 .. n
        PROVE  \E i \in 1 .. n : g[i] = p
    <3>1. <<s, p>> \in Elements(t)
      BY <1>2
    <3>2. PICK i \in DOMAIN t : <<s, p>> = t[i]
      BY <3>1 DEF Elements
    <3>3. i \in 1 .. n /\ t[i][2] = p
      <4>1. DOMAIN t = 1 .. n
        BY <1>2
      <4> QED
        BY <3>2, <4>1
    <3> QED
      BY <3>3
  <2>4. \A i, j \in 1 .. n : i < j => g[i] <= g[j]
    BY <1>2
  <2> HIDE DEF g
  <2>5. \A i \in 1 .. n : g[i] = i
    BY <2>2, <2>3, <2>4, RisesByOne
  <2>6. \A i \in 1 .. n : t[i] = <<s, i>>
    BY <2>1, <2>5 DEF g
  <2>7. t \in [1 .. n -> {<<s, p>> : p \in 1 .. n}]
    BY <1>2
  <2> QED
    BY <2>6, <2>7
<1> HIDE DEF Good, id
<1>3. Good(CHOOSE t : Good(t))
  BY <1>1
<1>4. SortByPart(msgs) = CHOOSE t : Good(t)
  BY DEF SortByPart, Good
<1>5. SortByPart(msgs) = id
  BY <1>2, <1>3, <1>4
<1> QED
  BY <1>5 DEF id

\* The fragments of an SMS
Parts(s)   == {<<s, p>> : p \in DOMAIN text[s]}

\* A fragment of the SMS was deleted.
Gone(s)    == \E f \in Elements(arrived) \ messages : f[1] = s
\* One is about to be.
Leaving(s) == \E f \in Elements(deletes) : f[1] = s

\* Nothing comes twice, an SMS of one fragment is in the table when its row is
\* looked at, deletions are those of the row at hand, and sink_outbox! has handed
\* over all when it is done.
TableInv ==
  /\ IsInjective(arrived) /\ IsInjective(todo) /\ IsInjective(deletes)
  /\ \A f \in Elements(todo) : Len(text[f[1]]) = 1 => f \in messages
  /\ \A d \in Elements(deletes) : todo # <<>> /\ d[1] = Head(todo)[1]
  /\ ~sinking => batch = <<>>

\* What is left of a queue when its head is taken.
LEMMA TailOf ==
  ASSUME NEW S, NEW s \in Seq(S), s # <<>>
  PROVE  /\ Head(s) \in S /\ Head(s) \in Elements(s)
         /\ Tail(s) \in Seq(S) /\ Elements(s) = {Head(s)} \cup Elements(Tail(s))
         /\ IsInjective(s) => IsInjective(Tail(s)) /\ Head(s) \notin Elements(Tail(s))
         /\ Len(s) = 1 <=> Tail(s) = <<>>
         /\ Tail(s) = <<>> <=> Elements(Tail(s)) = {}
<1>1. /\ Len(s) \in Nat \ {0} /\ DOMAIN s = 1 .. Len(s) /\ DOMAIN Tail(s) = 1 .. Len(s) - 1
      /\ Head(s) = s[1] /\ \A i \in 1 .. Len(s) - 1 : Tail(s)[i] = s[i + 1]
      /\ Tail(s) \in Seq(S) /\ Head(s) \in S
  BY HeadTailProperties, EmptySeq
<1>2. Elements(s) = {Head(s)} \cup Elements(Tail(s))
  BY ElementsOf
<1>3. ASSUME IsInjective(s)
      PROVE  IsInjective(Tail(s)) /\ Head(s) \notin Elements(Tail(s))
  <2>1. \A i \in 1 .. Len(s) - 1 : i + 1 \in 1 .. Len(s) /\ 1 \in 1 .. Len(s) /\ i + 1 # 1
    BY <1>1
  <2>2. \A i, j \in 1 .. Len(s) : s[i] = s[j] => i = j
    BY <1>1, <1>3 DEF IsInjective
  <2>3. \A i, j \in 1 .. Len(s) - 1 : Tail(s)[i] = Tail(s)[j] => i = j
    <3> SUFFICES ASSUME NEW i \in 1 .. Len(s) - 1, NEW j \in 1 .. Len(s) - 1, Tail(s)[i] = Tail(s)[j]
                 PROVE  i = j
      OBVIOUS
    <3>1. i + 1 = j + 1
      BY <1>1, <2>1, <2>2
    <3> QED
      BY <3>1
  <2>4. \A i \in 1 .. Len(s) - 1 : Tail(s)[i] # Head(s)
    BY <1>1, <2>1, <2>2
  <2> QED
    BY <1>1, <2>3, <2>4 DEF IsInjective, Elements
<1>4. Len(s) = 1 <=> Tail(s) = <<>>
  <2>1. PICK t \in Seq(S), n \in Nat : t = Tail(s) /\ n = Len(s) /\ n # 0
    BY <1>1
  <2>2. Len(t) = n - 1
    BY <1>1, <2>1
  <2>3. t = <<>> <=> Len(t) = 0
    BY EmptySeq
  <2> QED
    BY <2>1, <2>2, <2>3
<1>5. Tail(s) = <<>> <=> Elements(Tail(s)) = {}
  <2>1. PICK t \in Seq(S) : t = Tail(s)
    BY <1>1
  <2>2. t = <<>> => Elements(t) = {}
    BY DEF Elements
  <2>3. t # <<>> => 1 \in DOMAIN t
    BY EmptySeq
  <2>4. 1 \in DOMAIN t => t[1] \in Elements(t)
    BY DEF Elements
  <2> QED
    BY <2>1, <2>2, <2>3, <2>4
<1> QED
  BY <1>1, <1>2, <1>3, <1>4, <1>5

\* A fragment is of one SMS.
LEMMA FragmentOf ==
  /\ \A f \in Fragments : f[1] \in Sms /\ f \in Parts(f[1])
  /\ \A s \in Sms : Parts(s) \subseteq Fragments
  /\ \A s : \A f \in Parts(s) : f[1] = s
BY DEF Fragments, Parts

\* What texts are.
LEMMA TextType ==
  ASSUME DOMAIN text = Sms, \A s \in Sms : text[s] \in Texts[s]
  PROVE  \A s \in Sms : text[s] \in Seq(Seq(Nat))
<1>1. PICK T : T = Seq(Seq(Nat))
  OBVIOUS
<1>2. Texts \in [Sms -> SUBSET T]
  BY <1>1, PresentationAssumption
<1> QED
  BY <1>1, <1>2

\* The fragments of an SMS are as many as it has parts.
LEMMA PartsCount ==
  ASSUME NEW s, NEW n \in Nat, DOMAIN text[s] = 1 .. n
  PROVE  IsFiniteSet(Parts(s)) /\ Cardinality(Parts(s)) = n /\ Parts(s) = {<<s, p>> : p \in 1 .. n}
<1> DEFINE g == [p \in 1 .. n |-> <<s, p>>]
<1>1. g \in Bijection(1 .. n, Parts(s))
  <2>1. g \in [1 .. n -> Parts(s)]
    BY DEF Parts
  <2>2. \A i, j \in 1 .. n : g[i] = g[j] => i = j
    OBVIOUS
  <2>3. \A f \in Parts(s) : \E i \in 1 .. n : g[i] = f
    BY DEF Parts
  <2> HIDE DEF g
  <2>4. DOMAIN g = 1 .. n
    BY <2>1
  <2>5. g \in Injection(1 .. n, Parts(s))
    BY <2>1, <2>2, <2>4 DEF Injection, IsInjective
  <2>6. g \in Surjection(1 .. n, Parts(s))
    BY <2>1, <2>3 DEF Surjection
  <2> QED
    BY <2>5, <2>6 DEF Bijection
<1>2. ExistsBijection(1 .. n, Parts(s))
  <2> HIDE DEF g
  <2> QED
    BY <1>1 DEF ExistsBijection
<1>3. IsFiniteSet(1 .. n) /\ Cardinality(1 .. n) = n
  BY FS_Interval
<1> QED
  BY <1>2, <1>3, FS_Bijection DEF Parts

\* What process_msg_pdu finds for a row
RowMsgs(f)     == IF IsConcatenated(f) THEN GetAllConcatenated(f) ELSE <<f>>
\* The lines that it makes of it
Composed(msgs) == LET sorted == SortByPart(msgs) IN SendRawMessage(FlattenSeq([i \in DOMAIN sorted |-> Chars(sorted[i])]))

\* All fragments of an SMS make its text.
LEMMA ComposedWhole ==
  ASSUME NEW s \in Sms, NEW n \in Nat, DOMAIN text[s] = 1 .. n, NEW msgs, DOMAIN msgs = 1 .. n, Elements(msgs) = Parts(s)
  PROVE  Composed(msgs) = LinesOf(s)
<1>3. Elements(msgs) = {<<s, p>> : p \in 1 .. n}
  BY DEF Parts
<1>1. SortByPart(msgs) = [p \in 1 .. n |-> <<s, p>>]
  BY <1>3, SortedWhole
<1>2. [i \in DOMAIN SortByPart(msgs) |-> Chars(SortByPart(msgs)[i])] = [p \in DOMAIN text[s] |-> Chars(<<s, p>>)]
  BY <1>1
<1> QED
  BY <1>2 DEF Composed, LinesOf, Whole

\* As many fragments as there are parts are all that the SMS has; there is no
\* other with the sender and the reference (ReferencesDiffer).
LEMMA RowIsWhole ==
  ASSUME TypeOK, TableInv, todo # <<>>, NEW f, f = Head(todo), NEW s, s = f[1]
  PROVE  /\ s \in Sms /\ f \in Parts(s)
         /\ RowMsgs(f) \in Seq(messages) /\ IsInjective(RowMsgs(f)) /\ Elements(RowMsgs(f)) \subseteq Parts(s)
         /\ Len(RowMsgs(f)) = Len(text[s]) =>
              Elements(RowMsgs(f)) = Parts(s) /\ Parts(s) \subseteq messages /\ Composed(RowMsgs(f)) = LinesOf(s)
         /\ Parts(s) \subseteq messages => Len(RowMsgs(f)) = Len(text[s])
<1>1. f \in Fragments /\ f \in Elements(todo)
  BY TailOf DEF TypeOK
<1>2. s \in Sms /\ f \in Parts(s)
  BY <1>1, FragmentOf
<1>3. PICK n \in Nat : n = Len(text[s]) /\ DOMAIN text[s] = 1 .. n
  BY <1>2, TextType, TextShape DEF TypeOK
<1>4. IsFiniteSet(Parts(s)) /\ Cardinality(Parts(s)) = n /\ Parts(s) = {<<s, p>> : p \in 1 .. n}
  BY <1>3, PartsCount
<1>5. CASE n > 1
  <2> DEFINE M == {g \in messages : /\ IsConcatenated(g)
                                    /\ Reference[g[1]] = Reference[f[1]] /\ Sender[g[1]] = Sender[f[1]]}
  <2>1. RowMsgs(f) = SetToSeq(M)
    BY <1>3, <1>5 DEF RowMsgs, GetAllConcatenated, IsConcatenated
  <2>2. messages \subseteq Fragments
    BY ElementsOf DEF TypeOK
  <2>3. ASSUME NEW g \in messages
        PROVE  g \in M <=> g \in Parts(s)
    <3>1. g[1] \in Sms /\ g \in Parts(g[1])
      BY <2>2, FragmentOf
    <3>2. ASSUME g \in M PROVE g \in Parts(s)
      <4>1. Len(text[g[1]]) > 1 /\ Len(text[s]) > 1 /\ text[g[1]] \in Texts[g[1]] /\ text[s] \in Texts[s]
        BY <1>2, <1>3, <1>5, <3>1, <3>2 DEF IsConcatenated, TypeOK
      <4>2. Sender[g[1]] = Sender[s] /\ Reference[g[1]] = Reference[s]
        BY <3>2
      <4>3. g[1] = s
        BY <1>2, <3>1, <4>1, <4>2, ReferencesDiffer
      <4> QED
        BY <3>1, <4>3
    <3>3. ASSUME g \in Parts(s) PROVE g \in M
      <4>1. g[1] = s
        BY <3>3, FragmentOf
      <4> QED
        BY <1>3, <1>5, <4>1 DEF IsConcatenated
    <3> QED
      BY <3>2, <3>3
  <2>4. M \subseteq Parts(s) /\ M \subseteq messages
    BY <2>3
  <2>5. IsFiniteSet(M) /\ (Cardinality(Parts(s)) = Cardinality(M) => Parts(s) = M)
    BY <1>4, <2>4, FS_Subset
  <2>6. Parts(s) \subseteq messages => M = Parts(s)
    BY <2>3, <2>4
  <2> HIDE DEF M
  <2>7. PICK q : q = SetToSeq(M)
    OBVIOUS
  <2>8. /\ q \in Seq(M) /\ Len(q) = Cardinality(M) /\ Cardinality(M) \in Nat /\ Elements(q) = M
        /\ \A i, j \in 1 .. Cardinality(M) : q[i] = q[j] => i = j
    BY <2>5, <2>7, ListOf
  <2>9. DOMAIN q = 1 .. Cardinality(M) /\ q \in Seq(messages)
    BY <2>4, <2>8
  <2>10. IsInjective(q)
    BY <2>8, <2>9 DEF IsInjective
  <2>11. ASSUME Len(q) = n
         PROVE  Elements(q) = Parts(s) /\ Parts(s) \subseteq messages /\ Composed(q) = LinesOf(s)
    <3>1. Parts(s) = M
      BY <1>4, <2>5, <2>8, <2>11
    <3> QED
      BY <1>2, <1>3, <2>4, <2>8, <2>9, <2>11, <3>1, ComposedWhole
  <2>12. Parts(s) \subseteq messages => Len(q) = n
    BY <1>4, <2>6, <2>8
  <2> QED
    BY <1>2, <1>3, <2>1, <2>4, <2>7, <2>8, <2>9, <2>10, <2>11, <2>12
<1>6. CASE ~(n > 1)
  <2>1. RowMsgs(f) = <<f>>
    BY <1>3, <1>6 DEF RowMsgs, IsConcatenated
  <2>2. n = 1
    <3>1. PICK p \in 1 .. n : f = <<s, p>>
      BY <1>2, <1>4
    <3> QED
      BY <1>6, <3>1
  <2>3. Parts(s) = {<<s, 1>>}
    BY <1>4, <2>2
  <2>4. f = <<s, 1>> /\ f \in messages
    BY <1>1, <1>2, <1>3, <2>2, <2>3 DEF TableInv
  <2>5. <<f>> \in Seq(messages) /\ Len(<<f>>) = 1 /\ DOMAIN <<f>> = 1 .. 1 /\ Elements(<<f>>) = {f} /\ IsInjective(<<f>>)
    BY <2>4 DEF Elements, IsInjective
  <2>6. Composed(<<f>>) = LinesOf(s)
    BY <1>2, <1>3, <2>2, <2>3, <2>4, <2>5, ComposedWhole
  <2> QED
    BY <1>2, <1>3, <2>1, <2>2, <2>3, <2>4, <2>5, <2>6
<1> QED
  BY <1>3, <1>5, <1>6

\* What depends on the texts alone.
LEMMA TextKept ==
  ASSUME text' = text
  PROVE  /\ \A s : Parts(s)' = Parts(s) /\ LinesOf(s)' = LinesOf(s)
         /\ Fragments' = Fragments
<1>1. ASSUME NEW s
      PROVE  Parts(s)' = Parts(s) /\ LinesOf(s)' = LinesOf(s)
  <2>1. Parts(s)' = Parts(s)
    BY DEF Parts
  <2>2. Whole(s)' = Whole(s)
    BY DEF Whole, Chars
  <2>3. LinesOf(s)' = LinesOf(s)
    BY <2>2 DEF LinesOf
  <2> QED
    BY <2>1, <2>3
<1>2. Fragments' = Fragments
  BY DEF Fragments
<1> QED
  BY <1>1, <1>2

\* What process_msg_pdu does with a row of an SMS that is complete
AllThere(s) ==
  /\ Parts(s) \subseteq messages
  /\ outbox' = outbox \o LinesOf(s)
  /\ deletes' \in Seq(messages) /\ IsInjective(deletes') /\ Elements(deletes') = Parts(s)
  /\ todo' = todo

\* And of one that is not
SomeMissing(s) ==
  /\ ~(Parts(s) \subseteq messages)
  /\ todo' = Tail(todo) /\ outbox' = outbox /\ deletes' = deletes

\* It does the one or the other.
LEMMA PduStep ==
  ASSUME TypeOK, TableInv, ProcessMsgPdu
  PROVE  /\ todo # <<>> /\ deletes = <<>>
         /\ \E s \in Sms : s = Head(todo)[1] /\ Head(todo) \in Parts(s) /\ (AllThere(s) \/ SomeMissing(s))
         /\ UNCHANGED <<text, arrived, messages, asked, sink, torn, inputs>>
<1>1. PICK f : f = Head(todo)
  OBVIOUS
<1>2. PICK s : s = f[1]
  OBVIOUS
<1>3. PICK msgs : msgs = RowMsgs(f)
  OBVIOUS
<1>4. /\ todo # <<>> /\ deletes = <<>>
      /\ IF Len(msgs) = Len(text[s])
         THEN outbox' = outbox \o Composed(msgs) /\ deletes' = msgs /\ todo' = todo
         ELSE todo' = Tail(todo) /\ outbox' = outbox /\ deletes' = deletes
      /\ UNCHANGED <<text, arrived, messages, asked, sink, torn, inputs>>
  BY <1>1, <1>2, <1>3 DEF ProcessMsgPdu, RowMsgs, Composed
<1>5. /\ s \in Sms /\ f \in Parts(s)
      /\ msgs \in Seq(messages) /\ IsInjective(msgs)
      /\ Len(msgs) = Len(text[s]) => Elements(msgs) = Parts(s) /\ Parts(s) \subseteq messages /\ Composed(msgs) = LinesOf(s)
      /\ Parts(s) \subseteq messages => Len(msgs) = Len(text[s])
  BY <1>1, <1>2, <1>3, <1>4, RowIsWhole
<1>6. AllThere(s) \/ SomeMissing(s)
  BY <1>4, <1>5 DEF AllThere, SomeMissing
<1> QED
  BY <1>1, <1>2, <1>4, <1>5, <1>6

-----------------------------------------------------------------------------
(* Types and the table *)

\* The queues of lines
LineSeqs == Seq(Seq(Char) \ {<<>>})

\* Queues of lines stay such.
LEMMA LineQueues ==
  ASSUME NEW q \in LineSeqs
  PROVE  /\ \A r \in LineSeqs : q \o r \in LineSeqs
         /\ q # <<>> => Tail(q) \in LineSeqs /\ \A r \in LineSeqs : Append(r, Head(q)) \in LineSeqs
         /\ <<>> \in LineSeqs
<1>1. PICK Q : Q = Seq(Char) \ {<<>>}
  OBVIOUS
<1>2. LineSeqs = Seq(Q) /\ q \in Seq(Q)
  BY <1>1 DEF LineSeqs
<1>3. q # <<>> => Head(q) \in Q /\ Tail(q) \in Seq(Q)
  BY <1>2, SeqType
<1> QED
  BY <1>2, <1>3, SeqType

\* What an SMS becomes is a queue of lines.
LEMMA LinesType ==
  ASSUME DOMAIN text = Sms, \A s \in Sms : text[s] \in Texts[s], NEW s \in Sms
  PROVE  LinesOf(s) \in LineSeqs
BY TextType, LinesOfText DEF IsLines, LineSeqs

\* The types of all but these queues
RowsType ==
  /\ DOMAIN text = Sms /\ \A s \in Sms : text[s] \in Texts[s]
  /\ arrived \in Seq(Fragments) /\ messages \subseteq Elements(arrived)
  /\ asked \in BOOLEAN /\ sinking \in BOOLEAN /\ overtaken \in BOOLEAN
  /\ todo \in Seq(Fragments) /\ deletes \in Seq(messages)
  /\ torn \subseteq Sms /\ inputs \in 0 .. MaxInputs
  /\ deletes # <<>> => todo # <<>>
  /\ sinking => todo = <<>>

\* Both make the type invariant.
LEMMA TypeParts == TypeOK <=> RowsType /\ outbox \in LineSeqs /\ batch \in LineSeqs /\ shown \in LineSeqs
BY DEF TypeOK, RowsType, LineSeqs

\* The rows that process_messages reads are those of the table, each once.
LEMMA TodoOf ==
  ASSUME NEW S, NEW a \in Seq(S), IsInjective(a), NEW M, M \subseteq Elements(a)
  PROVE  /\ Selected(a, M) \in Seq(S) /\ IsInjective(Selected(a, M)) /\ Elements(Selected(a, M)) = M
<1>1. PICK t \in Seq(S) : t = Selected(a, M) /\ \E pos : IsPick(a, Len(a), M, t, pos)
  BY SelectedPick
<1>2. PICK pos : IsPick(a, Len(a), M, t, pos)
  BY <1>1
<1>3. PICK n \in Nat, l \in Nat : n = Len(a) /\ l = Len(t) /\ DOMAIN a = 1 .. n /\ DOMAIN t = 1 .. l
  OBVIOUS
<1>4. /\ \A k \in 1 .. l : pos[k] \in 1 .. n /\ t[k] = a[pos[k]] /\ t[k] \in M
      /\ \A k, j \in 1 .. l : k < j => pos[k] < pos[j]
      /\ \A i \in 1 .. n : a[i] \in M => \E k \in 1 .. l : pos[k] = i
  BY <1>2, <1>3 DEF IsPick
<1>5. ASSUME NEW k \in 1 .. l, NEW j \in 1 .. l, t[k] = t[j]
      PROVE  k = j
  <2>1. a[pos[k]] = a[pos[j]] /\ pos[k] \in 1 .. n /\ pos[j] \in 1 .. n
    BY <1>4, <1>5
  <2>2. pos[k] = pos[j]
    BY <1>3, <2>1 DEF IsInjective
  <2>3. ~(k < j) /\ ~(j < k)
    BY <1>4, <2>1, <2>2
  <2> QED
    BY <2>3
<1>6. IsInjective(t)
  BY <1>3, <1>5 DEF IsInjective
<1>7. \A x \in M : \E i \in 1 .. n : a[i] = x
  BY <1>3 DEF Elements
<1>8. Elements(t) = M
  <2>1. ASSUME NEW x \in M
        PROVE  x \in Elements(t)
    <3>1. PICK i \in 1 .. n : a[i] = x
      BY <1>7
    <3>2. PICK k \in 1 .. l : pos[k] = i
      BY <1>4, <3>1
    <3>3. t[k] = x
      BY <1>4, <3>1, <3>2
    <3> QED
      BY <1>3, <3>3 DEF Elements
  <2>2. ASSUME NEW x \in Elements(t)
        PROVE  x \in M
    <3>1. PICK k \in 1 .. l : t[k] = x
      BY <1>3 DEF Elements
    <3> QED
      BY <1>4, <3>1
  <2> QED
    BY <2>1, <2>2, Zenon
<1> QED
  BY <1>1, <1>6, <1>8

\* What is new is not there twice.
LEMMA NewIsInjective ==
  ASSUME NEW S, NEW a \in Seq(S), IsInjective(a), NEW f \in S, f \notin Elements(a)
  PROVE  IsInjective(Append(a, f))
<1>1. PICK n \in Nat : n = Len(a) /\ DOMAIN a = 1 .. n
  OBVIOUS
<1>2. PICK b \in Seq(S) : b = Append(a, f) /\ DOMAIN b = 1 .. n + 1 /\ b[n + 1] = f /\ \A i \in 1 .. n : b[i] = a[i]
  <2>1. Append(a, f) \in Seq(S) /\ Len(Append(a, f)) = n + 1
    BY <1>1
  <2>2. Append(a, f)[n + 1] = f /\ \A i \in 1 .. n : Append(a, f)[i] = a[i]
    BY <1>1
  <2>3. PICK b \in Seq(S) : b = Append(a, f)
    BY <2>1
  <2>4. DOMAIN b = 1 .. n + 1
    BY <2>1, <2>3
  <2> QED
    BY <2>2, <2>3, <2>4
<1>3. \A i \in 1 .. n : a[i] # f
  BY <1>1 DEF Elements
<1>4. \A i \in 1 .. n + 1 : i = n + 1 \/ i \in 1 .. n
  OBVIOUS
<1>5. \A i, j \in 1 .. n : a[i] = a[j] => i = j
  BY <1>1 DEF IsInjective
<1>6. \A i, j \in 1 .. n + 1 : b[i] = b[j] => i = j
  BY <1>2, <1>3, <1>4, <1>5
<1> QED
  BY <1>2, <1>6 DEF IsInjective

\* At first.
LEMMA TableStart == Init => TypeOK /\ TableInv
<1> SUFFICES ASSUME Init PROVE TypeOK /\ TableInv
  OBVIOUS
<1>1. <<>> \in LineSeqs
  BY DEF LineSeqs
<1>2. DOMAIN text = Sms /\ \A s \in Sms : text[s] \in Texts[s]
  BY DEF Init
<1>3. 0 \in 0 .. MaxInputs
  BY PresentationAssumption
<1>7. <<>> \in Seq(Fragments) /\ <<>> \in Seq(messages) /\ {} \subseteq Elements(arrived)
  OBVIOUS
<1>4. RowsType
  BY <1>2, <1>3, <1>7 DEF RowsType, Init
<1>5. TableInv
  BY DEF TableInv, Init, IsInjective, Elements
<1>6. outbox \in LineSeqs /\ batch \in LineSeqs /\ shown \in LineSeqs
  BY <1>1 DEF Init
<1> QED
  BY <1>4, <1>5, <1>6, TypeParts

\* What each step does to the table and the queues.
LEMMA TableStep ==
  ASSUME TypeOK, TableInv, [Next]_vars
  PROVE  TypeOK' /\ TableInv'
<1> USE DEF pass, sink
<1>0. RowsType /\ outbox \in LineSeqs /\ batch \in LineSeqs /\ shown \in LineSeqs
  BY TypeParts
<1>1. SUFFICES RowsType' /\ (outbox \in LineSeqs)' /\ (batch \in LineSeqs)' /\ (shown \in LineSeqs)' /\ TableInv'
  BY DEF TypeOK, RowsType, LineSeqs
<1>2. text' = text
  BY DEF Next, Link, vars, Arrives, ProcessMessages, ProcessMsgPdu, DeleteMessage,
         Sink, StartSend, SinkEnds, StartSendNotReady, Crash
<1>3. Fragments' = Fragments
  BY <1>2, TextKept
<1>4. LineSeqs' = LineSeqs
  BY DEF LineSeqs
<1>5. ASSUME NEW e, Input(e)
      PROVE  inputs' \in 0 .. MaxInputs
  BY <1>0, <1>5, PresentationAssumption DEF Input, RowsType
<1>6. CASE \E f \in Fragments : Arrives(f)
  <2>1. PICK f \in Fragments : Arrives(f)
    BY <1>6
  <2>2. arrived' \in Seq(Fragments) /\ Elements(arrived') = Elements(arrived) \cup {f} /\ IsInjective(arrived')
    BY <1>0, <2>1, SeqType, ElementsOf, NewIsInjective DEF Arrives, RowsType, TableInv
  <2>3. messages' \subseteq Elements(arrived') /\ messages \subseteq messages'
    BY <1>0, <2>1, <2>2 DEF Arrives, RowsType
  <2>4. deletes' = <<>> /\ todo' = <<>> /\ deletes = <<>> /\ todo = <<>>
    BY <1>0, <2>1 DEF Arrives, Idle, RowsType
  <2>5. RowsType'
    BY <1>0, <1>2, <1>3, <2>1, <2>2, <2>3, <2>4 DEF Arrives, RowsType
  <2>6. TableInv'
    BY <2>1, <2>2, <2>4 DEF Arrives, TableInv, IsInjective, Elements
  <2> QED
    BY <1>0, <1>4, <2>1, <2>5, <2>6 DEF Arrives
<1>7. CASE ProcessMessages
  <2>1. /\ todo' \in Seq(Fragments) /\ IsInjective(todo') /\ Elements(todo') = messages
    BY <1>0, <1>7, TodoOf DEF ProcessMessages, RowsType, TableInv
  <2>2. deletes = <<>> /\ deletes' = <<>> /\ ~sinking /\ ~sinking'
    BY <1>0, <1>7 DEF ProcessMessages, Idle, RowsType
  <2>3. RowsType'
    BY <1>0, <1>2, <1>3, <1>7, <2>1, <2>2 DEF ProcessMessages, RowsType
  <2>4. TableInv'
    BY <1>7, <2>1, <2>2 DEF ProcessMessages, TableInv, Elements
  <2> QED
    BY <1>0, <1>4, <1>7, <2>3, <2>4 DEF ProcessMessages
<1>8. CASE ProcessMsgPdu
  <2>1. /\ todo # <<>> /\ deletes = <<>>
        /\ UNCHANGED <<text, arrived, messages, asked, sink, torn, inputs>>
    BY <1>8, PduStep
  <2>2. PICK s \in Sms : s = Head(todo)[1] /\ Head(todo) \in Parts(s) /\ (AllThere(s) \/ SomeMissing(s))
    BY <1>8, PduStep
  <2>3. /\ todo' \in Seq(Fragments) /\ IsInjective(todo') /\ Elements(todo') \subseteq Elements(todo)
    <3>1. CASE AllThere(s)
      BY <1>0, <3>1 DEF AllThere, RowsType, TableInv
    <3>2. CASE SomeMissing(s)
      BY <1>0, <2>1, <3>2, TailOf DEF SomeMissing, RowsType, TableInv
    <3> QED
      BY <2>2, <3>1, <3>2
  <2>4. /\ deletes' \in Seq(messages) /\ IsInjective(deletes')
        /\ deletes' # <<>> => todo' # <<>>
        /\ \A d \in Elements(deletes') : todo' # <<>> /\ d[1] = Head(todo')[1]
    <3>1. CASE AllThere(s)
      BY <2>1, <2>2, <3>1, FragmentOf DEF AllThere
    <3>2. CASE SomeMissing(s)
      BY <1>0, <2>1, <3>2 DEF SomeMissing, RowsType, TableInv, Elements
    <3> QED
      BY <2>2, <3>1, <3>2
  <2>5. outbox' \in LineSeqs
    <3>1. LinesOf(s) \in LineSeqs
      BY <1>0, LinesType DEF RowsType
    <3>2. outbox \o LinesOf(s) \in LineSeqs
      BY <1>0, <3>1, LineQueues
    <3> QED
      BY <1>0, <2>2, <3>2 DEF AllThere, SomeMissing
  <2>6. sinking' => todo' = <<>>
    BY <1>0, <2>1 DEF RowsType
  <2>7. RowsType'
    BY <1>0, <1>2, <1>3, <2>1, <2>3, <2>4, <2>6 DEF RowsType
  <2>8. TableInv'
    BY <2>1, <2>3, <2>4 DEF TableInv
  <2> QED
    BY <1>0, <1>4, <2>1, <2>5, <2>7, <2>8
<1>9. CASE DeleteMessage
  <2>1. PICK d, s : d = Head(deletes) /\ s = Head(todo)[1]
    OBVIOUS
  <2>2. /\ deletes # <<>> /\ todo # <<>> /\ d \in messages /\ d \in Elements(deletes) /\ d[1] = s
        /\ deletes' = Tail(deletes) /\ IsInjective(deletes') /\ d \notin Elements(deletes')
        /\ Elements(deletes) = {d} \cup Elements(deletes')
        /\ Tail(deletes) \in Seq(messages)
        /\ Len(deletes) = 1 <=> deletes' = <<>>
        /\ Elements(deletes) \subseteq messages
    BY <1>0, <1>9, <2>1, TailOf, ElementsOf DEF DeleteMessage, RowsType, TableInv
  <2>3. messages' = messages \ {d} /\ deletes' \in Seq(messages')
    <3>1. messages' = messages \ {d}
      BY <1>9, <2>1 DEF DeleteMessage
    <3>2. \A i \in DOMAIN deletes' : deletes'[i] \in messages'
      BY <2>2, <3>1 DEF Elements
    <3>3. PICK t \in Seq(messages) : t = deletes'
      BY <2>2
    <3>4. t \in Seq(messages')
      BY <3>2, <3>3
    <3> QED
      BY <3>1, <3>3, <3>4
  <2>4. todo' = IF deletes' = <<>> THEN Tail(todo) ELSE todo
    BY <1>9, <2>2 DEF DeleteMessage
  <2>5. /\ todo' \in Seq(Fragments) /\ IsInjective(todo') /\ Elements(todo') \subseteq Elements(todo)
        /\ deletes' = <<>> => Head(todo) \notin Elements(todo')
        /\ Head(todo) \in Fragments
    BY <1>0, <2>2, <2>4, TailOf DEF RowsType, TableInv
  <2>6. ASSUME NEW g \in Elements(todo'), Len(text[g[1]]) = 1
        PROVE  g \in messages'
    <3>1. g \in messages
      BY <2>5, <2>6 DEF TableInv
    <3> SUFFICES ASSUME g = d PROVE FALSE
      BY <2>3, <3>1
    <3>2. s \in Sms /\ Head(todo) \in Parts(s)
      BY <2>1, <2>5, FragmentOf
    <3>3. d \in Parts(s)
      <4>1. d \in Fragments
        BY <1>0, <2>2, ElementsOf DEF RowsType
      <4> QED
        BY <2>2, <4>1, FragmentOf
    <3>4. DOMAIN text[s] = 1 .. 1
      <4>1. text[s] \in Seq(Seq(Nat))
        BY <1>0, <3>2, TextType DEF RowsType
      <4>2. DOMAIN text[s] = 1 .. Len(text[s])
        BY <4>1, TextShape
      <4> QED
        BY <2>2, <2>6, <4>2
    <3>5. Parts(s) = {<<s, 1>>}
      BY <3>4 DEF Parts
    <3>6. Head(todo) = d
      BY <3>2, <3>3, <3>5
    <3>7. deletes' # <<>>
      BY <2>5, <3>6
    <3>8. PICK e \in Elements(deletes') : TRUE
      BY <1>0, <2>2, <3>7, TailOf DEF RowsType
    <3>9. e \in messages /\ e[1] = s
      BY <2>1, <2>2 DEF TableInv
    <3>10. e \in Parts(s)
      <4>1. e \in Fragments
        BY <1>0, <3>9, ElementsOf DEF RowsType
      <4> QED
        BY <3>9, <4>1, FragmentOf
    <3> QED
      BY <2>2, <3>3, <3>5, <3>10
  <2>7. \A e \in Elements(deletes') : todo' # <<>> /\ e[1] = Head(todo')[1]
    <3>1. deletes' = <<>> => Elements(deletes') = {}
      BY DEF Elements
    <3> QED
      BY <2>2, <2>4, <3>1 DEF TableInv
  <2>8. RowsType'
    BY <1>0, <1>2, <1>3, <1>9, <2>2, <2>3, <2>4, <2>5 DEF DeleteMessage, RowsType
  <2>9. TableInv'
    BY <1>9, <2>2, <2>5, <2>6, <2>7, <1>2 DEF DeleteMessage, TableInv
  <2> QED
    BY <1>0, <1>4, <1>9, <2>8, <2>9 DEF DeleteMessage
<1>10. CASE Sink
  BY <1>0, <1>2, <1>3, <1>4, <1>10, LineQueues DEF Sink, Idle, RowsType, TableInv
<1>11. CASE StartSend
  <2>1. shown' \in LineSeqs /\ batch' \in LineSeqs
    BY <1>0, <1>11, LineQueues DEF StartSend
  <2> QED
    BY <1>0, <1>2, <1>3, <1>4, <1>11, <2>1 DEF StartSend, RowsType, TableInv
<1>12. CASE SinkEnds
  BY <1>0, <1>2, <1>3, <1>4, <1>12 DEF SinkEnds, RowsType, TableInv
<1>13. CASE StartSendNotReady
  <2>1. outbox' \in LineSeqs /\ batch' \in LineSeqs
    BY <1>0, <1>13, LineQueues DEF StartSendNotReady
  <2>2. inputs' \in 0 .. MaxInputs
    BY <1>5, <1>13 DEF StartSendNotReady
  <2> QED
    BY <1>0, <1>2, <1>3, <1>4, <1>13, <2>1, <2>2 DEF StartSendNotReady, RowsType, TableInv
<1>14. CASE Crash
  <2>1. inputs' \in 0 .. MaxInputs
    BY <1>5, <1>14 DEF Crash
  <2>2. torn' \subseteq Sms
    <3>1. \A f \in Elements(arrived) : f[1] \in Sms
      BY <1>0, ElementsOf, FragmentOf DEF RowsType
    <3> QED
      BY <1>0, <1>14, <3>1 DEF Crash, RowsType
  <2>3. <<>> \in LineSeqs
    BY DEF LineSeqs
  <2>6. <<>> \in Seq(Fragments) /\ <<>> \in Seq(messages)
    OBVIOUS
  <2>4. RowsType'
    BY <1>0, <1>2, <1>3, <1>14, <2>1, <2>2, <2>6 DEF Crash, RowsType
  <2>5. TableInv'
    BY <1>14 DEF Crash, TableInv, IsInjective, Elements
  <2> QED
    BY <1>0, <1>4, <1>14, <2>3, <2>4, <2>5 DEF Crash
<1>15. CASE UNCHANGED vars
  BY <1>0, <1>2, <1>3, <1>4, <1>15 DEF vars, RowsType, TableInv
<1> QED
  BY <1>6, <1>7, <1>8, <1>9, <1>10, <1>11, <1>12, <1>13, <1>14, <1>15 DEF Next, Link

-----------------------------------------------------------------------------
(* What is whole *)

\* The SMS is on its way to the server, or is there.
Spoken(s) == (Gone(s) /\ s \notin torn) \/ Leaving(s)
\* The lines that are
Said      == Elements(shown) \cup Elements(outbox) \cup Elements(batch)

\* An SMS that is spoken came as a whole, and what the table still has of it is
\* being deleted; one that is in the table as a whole is looked at.
WholeInv ==
  \A s \in Sms :
    /\ Spoken(s) => Parts(s) \subseteq Elements(arrived) /\ Parts(s) \cap messages \subseteq Elements(deletes)
    /\ Parts(s) # {} /\ Parts(s) \subseteq messages /\ ~Leaving(s) => asked \/ \E f \in Elements(todo) : f[1] = s

\* Every line is of an SMS that is being deleted or was, and of an SMS that is
\* spoken all lines are there.
SaidInv ==
  /\ \A l \in Said : \E s \in Sms : l \in Elements(LinesOf(s)) /\ (Gone(s) \/ (Leaving(s) /\ l \notin Elements(shown)))
  /\ \A s \in Sms : Spoken(s) => Elements(LinesOf(s)) \subseteq Said

\* Texts do not change.
LEMMA TextStays ==
  ASSUME [Next]_vars
  PROVE  text' = text
BY DEF Next, Link, vars, Arrives, ProcessMessages, ProcessMsgPdu, DeleteMessage,
         Sink, StartSend, SinkEnds, StartSendNotReady, Crash

\* Every fragment is a part of its SMS.
LEMMA FragmentsAre ==
  ASSUME TypeOK
  PROVE  /\ \A f \in Elements(arrived) \cup Elements(todo) \cup Elements(deletes) \cup messages : f[1] \in Sms /\ f \in Parts(f[1])
         /\ Elements(deletes) \subseteq messages /\ messages \subseteq Elements(arrived)
<1>1. Elements(arrived) \subseteq Fragments /\ Elements(todo) \subseteq Fragments /\ Elements(deletes) \subseteq messages
      /\ messages \subseteq Elements(arrived)
  BY ElementsOf DEF TypeOK
<1> QED
  BY <1>1, FragmentOf

\* What a deletion does.
LEMMA DeleteStep ==
  ASSUME TypeOK, TableInv, DeleteMessage
  PROVE  \E d \in messages, t \in Sms :
           /\ d \in Parts(t) /\ d \in Elements(deletes) /\ messages' = messages \ {d}
           /\ Elements(deletes') = Elements(deletes) \ {d}
           /\ t = Head(todo)[1] /\ \A e \in Elements(deletes) : e[1] = t
           /\ Elements(todo) \subseteq Elements(todo') \cup {Head(todo)}
<1>1. deletes # <<>> /\ todo # <<>> /\ deletes \in Seq(messages) /\ todo \in Seq(Fragments) /\ IsInjective(deletes)
  BY DEF DeleteMessage, TypeOK, TableInv
<1>2. PICK d : d = Head(deletes)
  OBVIOUS
<1>3. /\ d \in messages /\ d \in Elements(deletes) /\ Elements(deletes) = {d} \cup Elements(Tail(deletes))
      /\ d \notin Elements(Tail(deletes))
  BY <1>1, <1>2, TailOf
<1>4. messages' = messages \ {d} /\ deletes' = Tail(deletes)
  BY <1>2 DEF DeleteMessage
<1>5. Elements(deletes') = Elements(deletes) \ {d}
  BY <1>3, <1>4
<1>6. \A e \in Elements(deletes) : e[1] = Head(todo)[1]
  BY DEF TableInv
<1>7. d[1] \in Sms /\ d \in Parts(d[1])
  BY <1>3, FragmentsAre
<1>8. Elements(todo) = {Head(todo)} \cup Elements(Tail(todo))
  BY <1>1, TailOf
<1>9. Elements(todo) \subseteq Elements(todo') \cup {Head(todo)}
  BY <1>8 DEF DeleteMessage
<1> QED
  BY <1>3, <1>4, <1>5, <1>6, <1>7, <1>9

\* At first there is nothing.
LEMMA WholeStart == Init => WholeInv
<1> SUFFICES ASSUME Init, NEW s \in Sms
             PROVE  ~Spoken(s) /\ ~(Parts(s) # {} /\ Parts(s) \subseteq messages)
  BY DEF WholeInv
<1>1. Elements(arrived) = {} /\ Elements(deletes) = {} /\ messages = {}
  BY DEF Init, Elements
<1> QED
  BY <1>1 DEF Spoken, Gone, Leaving

\* What each step does to what is whole.
LEMMA WholeStep ==
  ASSUME TypeOK, TableInv, WholeInv, [Next]_vars
  PROVE  WholeInv'
<1> USE DEF pass, sink
<1>1. \A s : Parts(s)' = Parts(s)
  BY TextStays, TextKept
<1>2. SUFFICES ASSUME NEW s \in Sms
               PROVE  /\ Spoken(s)' => Parts(s) \subseteq Elements(arrived') /\ Parts(s) \cap messages' \subseteq Elements(deletes')
                      /\ Parts(s) # {} /\ Parts(s) \subseteq messages' /\ ~Leaving(s)' => asked' \/ \E f \in Elements(todo') : f[1] = s
  BY <1>1 DEF WholeInv
<1>3. /\ Spoken(s) => Parts(s) \subseteq Elements(arrived) /\ Parts(s) \cap messages \subseteq Elements(deletes)
      /\ Parts(s) # {} /\ Parts(s) \subseteq messages /\ ~Leaving(s) => asked \/ \E f \in Elements(todo) : f[1] = s
  BY DEF WholeInv
<1>4. Elements(<<>>) = {}
  BY DEF Elements
<1>6. CASE \E f \in Fragments : Arrives(f)
  <2>1. PICK f \in Fragments : Arrives(f)
    BY <1>6
  <2>2. /\ Elements(arrived') = Elements(arrived) \cup {f} /\ f \notin Elements(arrived)
        /\ messages' = messages \cup {f} /\ asked' = TRUE /\ deletes' = deletes /\ torn' = torn
    BY <2>1, ElementsOf DEF Arrives, TypeOK
  <2>3. deletes = <<>>
    BY <2>1 DEF Arrives, Idle, TypeOK
  <2>4. Spoken(s)' => Spoken(s)
    BY <2>2 DEF Spoken, Gone, Leaving
  <2> QED
    BY <1>3, <2>2, <2>4
<1>7. CASE ProcessMessages
  <2>1. Elements(todo') = messages
    BY <1>7, TodoOf DEF ProcessMessages, TypeOK, TableInv
  <2>2. Spoken(s)' <=> Spoken(s)
    BY <1>7 DEF ProcessMessages, Spoken, Gone, Leaving
  <2>3. Parts(s) # {} /\ Parts(s) \subseteq messages => \E f \in Elements(todo') : f[1] = s
    BY <2>1 DEF Parts
  <2> QED
    BY <1>3, <1>7, <2>2, <2>3 DEF ProcessMessages
<1>8. CASE ProcessMsgPdu
  <2>1. todo # <<>> /\ deletes = <<>> /\ UNCHANGED <<text, arrived, messages, asked, sink, torn, inputs>>
    BY <1>8, PduStep
  <2>2. PICK t \in Sms : t = Head(todo)[1] /\ Head(todo) \in Parts(t) /\ (AllThere(t) \/ SomeMissing(t))
    BY <1>8, PduStep
  <2>3. Elements(deletes) = {} /\ ~Leaving(s)
    BY <1>4, <2>1 DEF Leaving
  <2>4. CASE AllThere(t)
    <3>1. Elements(deletes') = Parts(t) /\ Parts(t) \subseteq messages /\ todo' = todo
      BY <2>4 DEF AllThere
    <3>2. Leaving(s)' <=> s = t
      BY <2>2, <3>1, FragmentOf DEF Leaving
    <3>3. Gone(s)' <=> Gone(s)
      BY <2>1 DEF Gone
    <3>4. CASE s = t
      BY <2>1, <3>1, <3>2, <3>4, FragmentsAre
    <3>5. CASE s # t
      <4>1. Spoken(s)' => Spoken(s)
        BY <2>1, <3>2, <3>3, <3>5 DEF Spoken
      <4> QED
        BY <1>3, <2>1, <2>3, <3>1, <4>1
    <3> QED
      BY <3>4, <3>5
  <2>5. CASE SomeMissing(t)
    <3>1. ~(Parts(t) \subseteq messages) /\ todo' = Tail(todo) /\ deletes' = deletes
      BY <2>5 DEF SomeMissing
    <3>2. Spoken(s)' <=> Spoken(s)
      BY <2>1, <3>1 DEF Spoken, Gone, Leaving
    <3>3. Elements(todo) = {Head(todo)} \cup Elements(todo')
      BY <2>1, <3>1, TailOf DEF TypeOK
    <3>4. ASSUME Parts(s) # {}, Parts(s) \subseteq messages
          PROVE  asked \/ \E f \in Elements(todo') : f[1] = s
      <4>1. asked \/ \E f \in Elements(todo) : f[1] = s
        BY <1>3, <2>3, <3>4
      <4>2. s # t
        BY <3>1, <3>4
      <4> QED
        BY <2>2, <3>3, <4>1, <4>2
    <3> QED
      BY <1>3, <2>1, <3>1, <3>2, <3>4
  <2> QED
    BY <2>2, <2>4, <2>5
<1>9. CASE DeleteMessage
  <2>1. PICK d \in messages, t \in Sms :
           /\ d \in Parts(t) /\ d \in Elements(deletes) /\ messages' = messages \ {d}
           /\ Elements(deletes') = Elements(deletes) \ {d}
           /\ t = Head(todo)[1] /\ \A e \in Elements(deletes) : e[1] = t
           /\ Elements(todo) \subseteq Elements(todo') \cup {Head(todo)}
    BY <1>9, DeleteStep
  <2>2. arrived' = arrived /\ torn' = torn /\ asked' = asked
    BY <1>9 DEF DeleteMessage
  <2>3. d[1] = t
    BY <2>1
  <2>4. Spoken(s)' => Spoken(s)
    BY <2>1, <2>2, <2>3 DEF Spoken, Gone, Leaving
  <2>5. ASSUME Parts(s) # {}, Parts(s) \subseteq messages', ~Leaving(s)'
        PROVE  asked \/ \E f \in Elements(todo') : f[1] = s
    <3>1. s # t
      BY <2>1, <2>5
    <3>2. ~Leaving(s) /\ Parts(s) \subseteq messages
      BY <2>1, <2>5, <3>1 DEF Leaving
    <3>3. asked \/ \E f \in Elements(todo) : f[1] = s
      BY <1>3, <2>5, <3>2
    <3> QED
      BY <2>1, <3>1, <3>3
  <2> QED
    BY <1>3, <2>1, <2>2, <2>4, <2>5
<1>10. CASE Crash
  <2>1. /\ asked' = TRUE /\ Elements(deletes') = {}
        /\ torn' = torn \cup {f[1] : f \in Elements(arrived) \ messages} /\ arrived' = arrived /\ messages' = messages
    BY <1>4, <1>10 DEF Crash
  <2>2. ~Spoken(s)'
    BY <2>1 DEF Spoken, Gone, Leaving
  <2> QED
    BY <2>1, <2>2
<1>11. CASE UNCHANGED <<arrived, messages, asked, todo, deletes, torn>>
  BY <1>3, <1>11 DEF Spoken, Gone, Leaving
<1>12. Sink \/ StartSend \/ SinkEnds \/ StartSendNotReady \/ UNCHANGED vars => UNCHANGED <<arrived, messages, asked, todo, deletes, torn>>
  BY DEF Sink, StartSend, SinkEnds, StartSendNotReady, vars
<1> QED
  BY <1>6, <1>7, <1>8, <1>9, <1>10, <1>11, <1>12 DEF Next, Link

-----------------------------------------------------------------------------
(* What is said *)

\* A line is of one SMS.
LEMMA LineOwner ==
  ASSUME TypeOK, NEW s \in Sms, NEW l \in Elements(LinesOf(s))
  PROVE  /\ IsLine(s, l) /\ l # <<>>
         /\ \A t \in Sms : l \in Elements(LinesOf(t)) => s = t
<1>1. ASSUME NEW t \in Sms, l \in Elements(LinesOf(t))
      PROVE  IsLine(t, l) /\ l # <<>> /\ l[1].at[1] = t
  <2>1. text[t] \in Seq(Seq(Nat))
    BY TextType DEF TypeOK
  <2>2. IsLines(t, LinesOf(t))
    BY <2>1, LinesOfText
  <2>3. PICK k \in DOMAIN LinesOf(t) : l = LinesOf(t)[k]
    BY <1>1 DEF Elements
  <2>4. IsLine(t, l)
    BY <2>2, <2>3 DEF IsLines
  <2>5. l \in Seq(Char) \ {<<>>} /\ \A i \in DOMAIN l : l[i].at[1] = t
    BY <2>4 DEF IsLine
  <2>6. 1 \in DOMAIN l
    <3>1. PICK m \in Seq(Char) : m = l
      BY <2>5
    <3>2. Len(m) # 0 /\ DOMAIN m = 1 .. Len(m) /\ Len(m) \in Nat
      BY <2>5, <3>1, EmptySeq
    <3> QED
      BY <3>1, <3>2
  <2> QED
    BY <2>4, <2>5, <2>6
<1> QED
  BY <1>1

\* What sink_outbox! does with the lines: none is lost.
LEMMA LinesMove ==
  ASSUME TypeOK, TableInv, Sink \/ StartSend \/ SinkEnds \/ StartSendNotReady \/ UNCHANGED vars
  PROVE  /\ Said' = Said /\ Elements(shown) \subseteq Elements(shown')
         /\ UNCHANGED <<text, arrived, messages, deletes, torn>>
         /\ shown' = shown \/ deletes = <<>>
<1> USE DEF pass, sink
<1>1. PICK P : P = Seq(Char) \ {<<>>}
  OBVIOUS
<1>2. outbox \in Seq(P) /\ batch \in Seq(P) /\ shown \in Seq(P)
  BY <1>1 DEF TypeOK
<1>3. Elements(<<>>) = {}
  BY DEF Elements
<1>4. batch # <<>> => Head(batch) \in P /\ Elements(batch) = {Head(batch)} \cup Elements(Tail(batch))
  BY <1>2, TailOf
<1>5. CASE Sink
  <2>1. batch = <<>> /\ outbox' = <<>> /\ batch' = outbox /\ shown' = shown
    BY <1>5 DEF Sink, Idle, TableInv
  <2> QED
    BY <1>3, <1>5, <2>1 DEF Said, Sink
<1>6. CASE StartSend
  <2>1. Elements(shown') = Elements(shown) \cup {Head(batch)}
    BY <1>2, <1>4, <1>6, ElementsAppended DEF StartSend
  <2>2. deletes = <<>>
    BY <1>6 DEF StartSend, TypeOK
  <2> QED
    BY <1>4, <1>6, <2>1, <2>2 DEF Said, StartSend
<1>7. CASE SinkEnds
  BY <1>7 DEF Said, SinkEnds
<1>8. CASE StartSendNotReady
  <2>1. Elements(outbox') = Elements(outbox) \cup {Head(batch)}
    BY <1>2, <1>4, <1>8, ElementsAppended DEF StartSendNotReady
  <2> QED
    BY <1>4, <1>8, <2>1 DEF Said, StartSendNotReady
<1>9. CASE UNCHANGED vars
  BY <1>9 DEF Said, vars
<1> QED
  BY <1>5, <1>6, <1>7, <1>8, <1>9

\* At first nothing is said.
LEMMA SaidStart == Init => SaidInv
<1> SUFFICES ASSUME Init PROVE SaidInv
  OBVIOUS
<1>1. Elements(<<>>) = {}
  BY DEF Elements
<1>2. Said = {} /\ \A s \in Sms : ~Spoken(s)
  BY <1>1 DEF Init, Said, Spoken, Gone, Leaving
<1> QED
  BY <1>2 DEF SaidInv

\* What each step does to what is said.
LEMMA SaidStep ==
  ASSUME TypeOK, TableInv, SaidInv, [Next]_vars
  PROVE  SaidInv'
<1> USE DEF pass, sink
<1>1. \A s : LinesOf(s)' = LinesOf(s) /\ Parts(s)' = Parts(s)
  BY TextStays, TextKept
<1>2. SUFFICES /\ \A l \in Said' : \E s \in Sms : l \in Elements(LinesOf(s)) /\ (Gone(s)' \/ (Leaving(s)' /\ l \notin Elements(shown')))
               /\ \A s \in Sms : Spoken(s)' => Elements(LinesOf(s)) \subseteq Said'
  BY <1>1 DEF SaidInv
<1>3. /\ \A l \in Said : \E s \in Sms : l \in Elements(LinesOf(s)) /\ (Gone(s) \/ (Leaving(s) /\ l \notin Elements(shown)))
      /\ \A s \in Sms : Spoken(s) => Elements(LinesOf(s)) \subseteq Said
  BY DEF SaidInv
<1>4. Elements(<<>>) = {}
  BY DEF Elements
<1>5. CASE Said' = Said /\ shown' = shown /\ \A s \in Sms : (Gone(s)' <=> Gone(s)) /\ (Leaving(s)' <=> Leaving(s)) /\ (s \in torn' <=> s \in torn)
  BY <1>3, <1>5 DEF Spoken
<1>6. CASE \E f \in Fragments : Arrives(f)
  <2>1. PICK f \in Fragments : Arrives(f)
    BY <1>6
  <2>2. /\ Elements(arrived') = Elements(arrived) \cup {f} /\ f \notin Elements(arrived)
        /\ messages' = messages \cup {f} /\ deletes' = deletes /\ torn' = torn
        /\ outbox' = outbox /\ batch' = batch /\ shown' = shown
    BY <2>1, ElementsOf DEF Arrives, TypeOK
  <2>3. \A s : (Gone(s)' <=> Gone(s)) /\ (Leaving(s)' <=> Leaving(s))
    BY <2>2 DEF Gone, Leaving
  <2>4. Said' = Said
    BY <2>2 DEF Said
  <2> QED
    BY <1>5, <2>2, <2>3, <2>4
<1>7. CASE ProcessMessages
  <2>1. Said' = Said /\ shown' = shown /\ torn' = torn
    BY <1>7 DEF ProcessMessages, Said
  <2>2. \A s : (Gone(s)' <=> Gone(s)) /\ (Leaving(s)' <=> Leaving(s))
    BY <1>7 DEF ProcessMessages, Gone, Leaving
  <2> QED
    BY <1>5, <2>1, <2>2
<1>8. CASE ProcessMsgPdu
  <2>1. todo # <<>> /\ deletes = <<>> /\ UNCHANGED <<text, arrived, messages, asked, sink, torn, inputs>>
    BY <1>8, PduStep
  <2>2. PICK t \in Sms : t = Head(todo)[1] /\ Head(todo) \in Parts(t) /\ (AllThere(t) \/ SomeMissing(t))
    BY <1>8, PduStep
  <2>3. \A s : (Gone(s)' <=> Gone(s)) /\ ~Leaving(s)
    BY <1>4, <2>1 DEF Gone, Leaving
  <2>4. CASE AllThere(t)
    <3>1. Elements(deletes') = Parts(t) /\ Parts(t) \subseteq messages /\ outbox' = outbox \o LinesOf(t)
      BY <2>4 DEF AllThere
    <3>2. \A s : Leaving(s)' <=> s = t
      BY <2>2, <3>1, FragmentOf DEF Leaving
    <3>3. ~Gone(t)
      BY <3>1, FragmentsAre DEF Gone
    <3>4. Said' = Said \cup Elements(LinesOf(t))
      <4>1. PICK P : P = Seq(Char) \ {<<>>}
        OBVIOUS
      <4>2. outbox \in Seq(P) /\ LinesOf(t) \in Seq(P)
        BY <4>1, LinesType DEF TypeOK, LineSeqs
      <4>3. Elements(outbox') = Elements(outbox) \cup Elements(LinesOf(t))
        BY <3>1, <4>2, ElementsJoined
      <4> QED
        BY <2>1, <4>3 DEF Said
    <3>5. ASSUME NEW l \in Elements(LinesOf(t))
          PROVE  l \notin Said
      <4> SUFFICES ASSUME l \in Said PROVE FALSE
        OBVIOUS
      <4>1. PICK s \in Sms : l \in Elements(LinesOf(s)) /\ Gone(s)
        BY <1>3, <2>3
      <4>2. s = t
        BY <4>1, LineOwner
      <4> QED
        BY <3>3, <4>1, <4>2
    <3>6. ASSUME NEW l \in Said'
          PROVE  \E s \in Sms : l \in Elements(LinesOf(s)) /\ (Gone(s)' \/ (Leaving(s)' /\ l \notin Elements(shown')))
      <4>1. CASE l \in Said
        BY <1>3, <2>3, <4>1
      <4>2. CASE l \in Elements(LinesOf(t))
        <5>1. l \notin Elements(shown')
          BY <2>1, <3>5, <4>2 DEF Said
        <5> QED
          BY <3>2, <4>2, <5>1
      <4> QED
        BY <3>4, <4>1, <4>2
    <3>7. ASSUME NEW s \in Sms, Spoken(s)'
          PROVE  Elements(LinesOf(s)) \subseteq Said'
      <4>1. CASE s = t
        BY <3>4, <4>1
      <4>2. CASE s # t
        <5>1. Spoken(s)
          BY <2>1, <2>3, <3>2, <3>7, <4>2 DEF Spoken
        <5> QED
          BY <1>3, <3>4, <5>1
      <4> QED
        BY <4>1, <4>2
    <3> QED
      BY <3>6, <3>7
  <2>5. CASE SomeMissing(t)
    <3>1. outbox' = outbox /\ deletes' = deletes
      BY <2>5 DEF SomeMissing
    <3>2. Said' = Said /\ shown' = shown /\ torn' = torn
      BY <2>1, <3>1 DEF Said
    <3>3. \A s : Leaving(s)' <=> Leaving(s)
      BY <3>1 DEF Leaving
    <3> QED
      BY <1>5, <2>3, <3>2, <3>3
  <2> QED
    BY <2>2, <2>4, <2>5
<1>9. CASE DeleteMessage
  <2>1. PICK d \in messages, t \in Sms :
           /\ d \in Parts(t) /\ d \in Elements(deletes) /\ messages' = messages \ {d}
           /\ Elements(deletes') = Elements(deletes) \ {d}
           /\ t = Head(todo)[1] /\ \A e \in Elements(deletes) : e[1] = t
           /\ Elements(todo) \subseteq Elements(todo') \cup {Head(todo)}
    BY <1>9, DeleteStep
  <2>2. arrived' = arrived /\ torn' = torn /\ shown' = shown /\ Said' = Said
    BY <1>9 DEF DeleteMessage, Said
  <2>3. d[1] = t /\ d \in Elements(arrived)
    BY <2>1, FragmentsAre
  <2>4. \A s \in Sms : Spoken(s)' => Spoken(s)
    BY <2>1, <2>2, <2>3 DEF Spoken, Gone, Leaving
  <2>5. \A s \in Sms : Gone(s) \/ Leaving(s) => Gone(s)' \/ Leaving(s)'
    BY <2>1, <2>2, <2>3 DEF Gone, Leaving
  <2>6. \A s \in Sms : Gone(s) => Gone(s)'
    BY <2>1, <2>2 DEF Gone
  <2>7. \A l \in Said : \E s \in Sms : l \in Elements(LinesOf(s)) /\ (Gone(s)' \/ (Leaving(s)' /\ l \notin Elements(shown)))
    BY <1>3, <2>5, <2>6
  <2> QED
    BY <1>3, <2>2, <2>4, <2>7
<1>10. CASE Crash
  <2>1. /\ Elements(deletes') = {} /\ Elements(outbox') = {} /\ Elements(batch') = {} /\ shown' = shown
        /\ torn' = torn \cup {f[1] : f \in Elements(arrived) \ messages} /\ arrived' = arrived /\ messages' = messages
    BY <1>4, <1>10 DEF Crash
  <2>2. Said' = Elements(shown)
    BY <2>1 DEF Said
  <2>3. \A s : ~Spoken(s)' /\ (Gone(s)' <=> Gone(s))
    BY <2>1 DEF Spoken, Gone, Leaving
  <2>4. \A l \in Elements(shown) : \E s \in Sms : l \in Elements(LinesOf(s)) /\ Gone(s)
    BY <1>3 DEF Said
  <2> QED
    BY <2>2, <2>3, <2>4
<1>11. CASE Sink \/ StartSend \/ SinkEnds \/ StartSendNotReady \/ UNCHANGED vars
  <2>1. /\ Said' = Said /\ Elements(shown) \subseteq Elements(shown')
        /\ UNCHANGED <<text, arrived, messages, deletes, torn>>
        /\ shown' = shown \/ deletes = <<>>
    BY <1>11, LinesMove
  <2>2. \A s : (Gone(s)' <=> Gone(s)) /\ (Leaving(s)' <=> Leaving(s)) /\ (s \in torn' <=> s \in torn)
    BY <2>1 DEF Gone, Leaving
  <2>3. CASE shown' = shown
    BY <1>5, <2>1, <2>2, <2>3
  <2>4. CASE deletes = <<>>
    <3>1. \A s : ~Leaving(s)
      BY <1>4, <2>4 DEF Leaving
    <3>2. \A s \in Sms : Spoken(s)' <=> Spoken(s)
      BY <2>2 DEF Spoken
    <3> QED
      BY <1>3, <2>1, <2>2, <3>1, <3>2
  <2> QED
    BY <2>1, <2>3, <2>4
<1> QED
  BY <1>6, <1>7, <1>8, <1>9, <1>10, <1>11 DEF Next, Link

-----------------------------------------------------------------------------
(* In order *)

\* The lines that the server has still to get
Pending == outbox \o batch

\* Lines in order
Ordered(q) == \A i, j \in DOMAIN q : i < j => LineBefore(q[i], q[j])

\* No line is there twice, those that wait are in order, and unless a line was
\* overtaken so are those that the server got, before all that wait.
OrderInv ==
  /\ IsInjective(shown) /\ IsInjective(Pending) /\ Elements(shown) \cap Elements(Pending) = {}
  /\ Ordered(Pending)
  /\ ~overtaken => Ordered(shown) /\ \A l \in Elements(shown), m \in Elements(Pending) : LineBefore(l, m)

\* Two queues are joined.
LEMMA NeatJoined ==
  ASSUME NEW S, NEW p \in Seq(S), NEW r \in Seq(S), IsInjective(p), IsInjective(r), Elements(p) \cap Elements(r) = {}
  PROVE  /\ IsInjective(p \o r)
         /\ Ordered(p) /\ Ordered(r) /\ (\A l \in Elements(p), m \in Elements(r) : LineBefore(l, m)) => Ordered(p \o r)
<1>1. PICK a \in Nat, b \in Nat : a = Len(p) /\ b = Len(r) /\ DOMAIN p = 1 .. a /\ DOMAIN r = 1 .. b
  OBVIOUS
<1>2. PICK q \in Seq(S) : /\ q = p \o r /\ DOMAIN q = 1 .. a + b
                          /\ \A i \in 1 .. a : q[i] = p[i]
                          /\ \A i \in 1 .. b : q[a + i] = r[i]
  <2>1. p \o r \in Seq(S) /\ Len(p \o r) = a + b
    BY <1>1, ConcatProperties
  <2>2. (\A i \in 1 .. a : (p \o r)[i] = p[i]) /\ \A i \in 1 .. b : (p \o r)[a + i] = r[i]
    BY <1>1, ConcatProperties
  <2>3. PICK q \in Seq(S) : q = p \o r
    BY <2>1
  <2>4. DOMAIN q = 1 .. a + b
    BY <2>1, <2>3
  <2> QED
    BY <2>2, <2>3, <2>4
<1>3. ASSUME NEW i \in 1 .. a + b
      PROVE  (i \in 1 .. a /\ q[i] = p[i]) \/ (i > a /\ i - a \in 1 .. b /\ q[i] = r[i - a])
  <2>1. CASE i <= a
    BY <1>2, <2>1
  <2>2. CASE ~(i <= a)
    <3>1. i - a \in 1 .. b /\ a + (i - a) = i
      BY <2>2
    <3>2. q[a + (i - a)] = r[i - a]
      BY <1>2, <3>1
    <3> QED
      BY <2>2, <3>1, <3>2
  <2> QED
    BY <2>1, <2>2
<1>4. \A i \in 1 .. a, j \in 1 .. b : p[i] \in Elements(p) /\ r[j] \in Elements(r)
  BY <1>1 DEF Elements
<1>5. ASSUME NEW i \in 1 .. a + b, NEW j \in 1 .. a + b, q[i] = q[j]
      PROVE  i = j
  <2>1. CASE i \in 1 .. a /\ q[i] = p[i] /\ j \in 1 .. a /\ q[j] = p[j]
    BY <1>1, <1>5, <2>1 DEF IsInjective
  <2>2. CASE i - a \in 1 .. b /\ q[i] = r[i - a] /\ j - a \in 1 .. b /\ q[j] = r[j - a]
    <3>1. i - a = j - a
      BY <1>1, <1>5, <2>2 DEF IsInjective
    <3> QED
      BY <3>1
  <2>3. CASE i \in 1 .. a /\ q[i] = p[i] /\ j - a \in 1 .. b /\ q[j] = r[j - a]
    BY <1>4, <1>5, <2>3
  <2>4. CASE j \in 1 .. a /\ q[j] = p[j] /\ i - a \in 1 .. b /\ q[i] = r[i - a]
    BY <1>4, <1>5, <2>4
  <2> QED
    BY <1>3, <2>1, <2>2, <2>3, <2>4
<1>6. ASSUME Ordered(p), Ordered(r), \A l \in Elements(p), m \in Elements(r) : LineBefore(l, m),
             NEW i \in 1 .. a + b, NEW j \in 1 .. a + b, i < j
      PROVE  LineBefore(q[i], q[j])
  <2>1. CASE i \in 1 .. a /\ q[i] = p[i] /\ j \in 1 .. a /\ q[j] = p[j]
    BY <1>1, <1>6, <2>1 DEF Ordered
  <2>2. CASE i - a \in 1 .. b /\ q[i] = r[i - a] /\ j - a \in 1 .. b /\ q[j] = r[j - a]
    <3>1. i - a < j - a
      BY <1>6
    <3> QED
      BY <1>1, <1>6, <2>2, <3>1 DEF Ordered
  <2>3. CASE i \in 1 .. a /\ q[i] = p[i] /\ j - a \in 1 .. b /\ q[j] = r[j - a]
    BY <1>4, <1>6, <2>3
  <2>4. CASE j \in 1 .. a /\ i > a
    BY <1>6, <2>4
  <2> QED
    BY <1>3, <2>1, <2>2, <2>3, <2>4
<1>7. IsInjective(q)
  BY <1>2, <1>5 DEF IsInjective
<1>8. Ordered(p) /\ Ordered(r) /\ (\A l \in Elements(p), m \in Elements(r) : LineBefore(l, m)) => Ordered(q)
  BY <1>2, <1>6 DEF Ordered
<1> QED
  BY <1>2, <1>7, <1>8

\* A queue is parted.
LEMMA NeatParted ==
  ASSUME NEW S, NEW p \in Seq(S), NEW r \in Seq(S), IsInjective(p \o r), Ordered(p \o r)
  PROVE  /\ IsInjective(p) /\ IsInjective(r) /\ Elements(p) \cap Elements(r) = {}
         /\ Ordered(p) /\ Ordered(r) /\ \A l \in Elements(p), m \in Elements(r) : LineBefore(l, m)
<1>1. PICK a \in Nat, b \in Nat : a = Len(p) /\ b = Len(r) /\ DOMAIN p = 1 .. a /\ DOMAIN r = 1 .. b
  OBVIOUS
<1>2. PICK q \in Seq(S) : /\ q = p \o r /\ DOMAIN q = 1 .. a + b
                          /\ \A i \in 1 .. a : q[i] = p[i]
                          /\ \A i \in 1 .. b : q[a + i] = r[i]
  <2>1. p \o r \in Seq(S) /\ Len(p \o r) = a + b
    BY <1>1, ConcatProperties
  <2>2. (\A i \in 1 .. a : (p \o r)[i] = p[i]) /\ \A i \in 1 .. b : (p \o r)[a + i] = r[i]
    BY <1>1, ConcatProperties
  <2>3. PICK q \in Seq(S) : q = p \o r
    BY <2>1
  <2>4. DOMAIN q = 1 .. a + b
    BY <2>1, <2>3
  <2> QED
    BY <2>2, <2>3, <2>4
<1>3. \A i \in 1 .. a : i \in 1 .. a + b
  OBVIOUS
<1>4. \A i \in 1 .. b : a + i \in 1 .. a + b /\ a + i > a
  OBVIOUS
<1>5. \A i, j \in 1 .. a + b : q[i] = q[j] => i = j
  BY <1>2 DEF IsInjective
<1>6. \A i, j \in 1 .. a + b : i < j => LineBefore(q[i], q[j])
  BY <1>2 DEF Ordered
<1>7. \A i, j \in 1 .. a : p[i] = p[j] => i = j
  BY <1>2, <1>3, <1>5
<1>8. ASSUME NEW i \in 1 .. b, NEW j \in 1 .. b, r[i] = r[j]
      PROVE  i = j
  <2>1. q[a + i] = q[a + j]
    BY <1>2, <1>8
  <2>2. a + i = a + j
    BY <1>4, <1>5, <2>1
  <2> QED
    BY <2>2
<1>9. ASSUME NEW i \in 1 .. a, NEW j \in 1 .. b
      PROVE  p[i] # r[j] /\ LineBefore(p[i], r[j])
  <2>1. i < a + j /\ i # a + j
    OBVIOUS
  <2> QED
    BY <1>2, <1>3, <1>4, <1>5, <1>6, <2>1
<1>10. \A i, j \in 1 .. a : i < j => LineBefore(p[i], p[j])
  BY <1>2, <1>3, <1>6
<1>11. ASSUME NEW i \in 1 .. b, NEW j \in 1 .. b, i < j
       PROVE  LineBefore(r[i], r[j])
  <2>1. a + i < a + j
    BY <1>11
  <2> QED
    BY <1>2, <1>4, <1>6, <2>1
<1> QED
  BY <1>1, <1>7, <1>8, <1>9, <1>10, <1>11 DEF IsInjective, Ordered, Elements

\* A queue of one line.
LEMMA NeatOne ==
  ASSUME NEW S, NEW x \in S
  PROVE  <<x>> \in Seq(S) /\ IsInjective(<<x>>) /\ Ordered(<<x>>) /\ Elements(<<x>>) = {x}
<1>1. DOMAIN <<x>> = 1 .. 1 /\ <<x>>[1] = x
  OBVIOUS
<1>2. \A i, j \in 1 .. 1 : i = j /\ ~(i < j)
  OBVIOUS
<1> QED
  BY <1>1, <1>2 DEF IsInjective, Ordered, Elements

\* The head of a queue is parted from it.
LEMMA HeadFirst ==
  ASSUME NEW S, NEW s \in Seq(S), s # <<>>
  PROVE  Head(s) \in S /\ Tail(s) \in Seq(S) /\ s = <<Head(s)>> \o Tail(s)
<1>1. Head(s) \in S /\ Tail(s) \in Seq(S) /\ Len(s) \in Nat \ {0} /\ Len(Tail(s)) = Len(s) - 1
      /\ Head(s) = s[1] /\ \A i \in 1 .. Len(s) - 1 : Tail(s)[i] = s[i + 1]
  BY HeadTailProperties, EmptySeq
<1>2. PICK n \in Nat : n = Len(s)
  OBVIOUS
<1>3. PICK x \in S, t \in Seq(S) : x = Head(s) /\ t = Tail(s)
  BY <1>1
<1>4. PICK o \in Seq(S) : o = <<x>>
  BY NeatOne
<1>5. Len(o) = 1 /\ o[1] = x
  BY <1>4
<1>6. o \o t \in Seq(S) /\ Len(o \o t) = n
  <2>1. Len(t) = n - 1
    BY <1>1, <1>2, <1>3
  <2>2. o \o t \in Seq(S) /\ Len(o \o t) = Len(o) + Len(t)
    BY ConcatProperties
  <2> QED
    BY <1>5, <2>1, <2>2
<1>7. \A i \in 1 .. n : (o \o t)[i] = s[i]
  <2> SUFFICES ASSUME NEW i \in 1 .. n PROVE (o \o t)[i] = s[i]
    OBVIOUS
  <2>1. CASE i = 1
    <3>1. i \in 1 .. Len(o)
      BY <1>5, <2>1
    <3>2. (o \o t)[i] = o[i]
      BY <3>1, ConcatProperties
    <3> QED
      BY <1>1, <1>3, <1>5, <2>1, <3>2
  <2>2. CASE i # 1
    <3>1. i - 1 \in 1 .. Len(s) - 1 /\ (i - 1) + 1 = i /\ i - 1 \in 1 .. Len(t)
      BY <1>1, <1>2, <1>3, <2>2
    <3>2. (o \o t)[Len(o) + (i - 1)] = t[i - 1]
      BY <3>1, ConcatProperties
    <3>3. Len(o) + (i - 1) = i
      BY <1>5
    <3>4. t[i - 1] = s[i]
      BY <1>1, <1>3, <3>1
    <3> QED
      BY <3>2, <3>3, <3>4
  <2> QED
    BY <2>1, <2>2
<1>8. o \o t = s
  <2>1. PICK u \in Seq(S) : u = o \o t
    BY <1>6
  <2>2. Len(u) = Len(s) /\ \A i \in 1 .. Len(u) : u[i] = s[i]
    BY <1>2, <1>6, <1>7, <2>1
  <2>3. u = s
    BY <2>2, SeqEqual
  <2> QED
    BY <2>1, <2>3
<1> QED
  BY <1>1, <1>3, <1>4, <1>8

\* Joining is associative.
LEMMA JoinedTwice ==
  ASSUME NEW S, NEW p \in Seq(S), NEW q \in Seq(S), NEW r \in Seq(S)
  PROVE  p \o (q \o r) = (p \o q) \o r
BY ConcatAssociative, SMTT(60)

\* No line comes before itself.
LEMMA LineNotBeforeItself ==
  ASSUME NEW l \in Seq(Char) \ {<<>>}
  PROVE  ~LineBefore(l, l)
<1>1. PICK m \in Seq(Char) : m = l /\ m # <<>>
  OBVIOUS
<1>2. 1 \in DOMAIN m
  BY <1>1, EmptySeq
<1>3. PICK c \in Char : c = m[1]
  BY <1>2
<1>4. PICK a \in Sms \X Nat \X Nat : a = c.at
  BY DEF Char
<1>5. ~Before(a, a)
  BY DEF Before
<1>6. m[1].at[1] = m[1].at[1] /\ ~Before(m[1].at, m[1].at)
  BY <1>3, <1>4, <1>5
<1> QED
  BY <1>1, <1>2, <1>6 DEF LineBefore

\* The lines of an SMS are in order.
LEMMA LinesNeat ==
  ASSUME TypeOK, NEW s \in Sms
  PROVE  LinesOf(s) \in LineSeqs /\ IsInjective(LinesOf(s)) /\ Ordered(LinesOf(s))
<1>1. text[s] \in Seq(Seq(Nat))
  BY TextType DEF TypeOK
<1>2. IsLines(s, LinesOf(s))
  BY <1>1, LinesOfText
<1>3. PICK L \in LineSeqs : L = LinesOf(s)
  BY <1>2 DEF IsLines, LineSeqs
<1>4. PICK h \in Nat : DOMAIN L = 1 .. h
  BY <1>3 DEF LineSeqs
<1>5. \A k, m \in 1 .. h : k < m => LineBefore(L[k], L[m])
  BY <1>2, <1>3, <1>4 DEF IsLines
<1>6. \A k \in 1 .. h : L[k] \in Seq(Char) \ {<<>>}
  BY <1>4 DEF LineSeqs
<1>7. ASSUME NEW k \in 1 .. h, NEW m \in 1 .. h, L[k] = L[m]
      PROVE  k = m
  <2>1. ~(k < m) /\ ~(m < k)
    BY <1>5, <1>6, <1>7, LineNotBeforeItself
  <2> QED
    BY <2>1
<1> QED
  BY <1>3, <1>4, <1>5, <1>7 DEF IsInjective, Ordered

\* Lines of two SMS are in any order.
LEMMA OthersBefore ==
  ASSUME TypeOK, NEW s \in Sms, NEW t \in Sms, s # t,
         NEW l \in Elements(LinesOf(s)), NEW m \in Elements(LinesOf(t))
  PROVE  LineBefore(l, m)
<1>1. IsLine(s, l) /\ IsLine(t, m)
  BY LineOwner
<1> QED
  BY <1>1 DEF IsLine, LineBefore

\* At first.
LEMMA OrderStart == Init => OrderInv
<1> SUFFICES ASSUME Init PROVE OrderInv
  OBVIOUS
<1>1. shown = <<>> /\ Pending = <<>>
  BY ConcatEmptySeq DEF Init, Pending
<1>2. DOMAIN <<>> = {}
  OBVIOUS
<1>3. IsInjective(<<>>) /\ Ordered(<<>>) /\ Elements(<<>>) = {}
  BY <1>2 DEF IsInjective, Ordered, Elements
<1> QED
  BY <1>1, <1>3 DEF OrderInv

\* What is waiting.
LEMMA PendingIs ==
  ASSUME TypeOK
  PROVE  /\ Pending \in LineSeqs /\ outbox \in LineSeqs /\ batch \in LineSeqs /\ shown \in LineSeqs
         /\ Elements(Pending) = Elements(outbox) \cup Elements(batch)
<1>1. outbox \in LineSeqs /\ batch \in LineSeqs /\ shown \in LineSeqs
  BY TypeParts
<1>2. outbox \o batch \in LineSeqs
  BY <1>1 DEF LineSeqs
<1>3. Elements(outbox \o batch) = Elements(outbox) \cup Elements(batch)
  BY <1>1, ElementsJoined DEF LineSeqs
<1> QED
  BY <1>1, <1>2, <1>3 DEF Pending

\* A line is handed over (start_send).
LEMMA OrderSend ==
  ASSUME TypeOK, OrderInv, StartSend
  PROVE  OrderInv'
<1>1. PICK P : P = Seq(Char) \ {<<>>}
  OBVIOUS
<1>2. outbox \in Seq(P) /\ batch \in Seq(P) /\ shown \in Seq(P) /\ batch # <<>>
  BY <1>1, PendingIs DEF LineSeqs, StartSend
<1>3. PICK x \in P, t \in Seq(P) : x = Head(batch) /\ t = Tail(batch) /\ batch = <<x>> \o t
  BY <1>2, HeadFirst
<1>4. PICK o \in Seq(P) : o = <<x>> /\ IsInjective(o) /\ Ordered(o) /\ Elements(o) = {x}
  BY NeatOne
<1>5. shown' = shown \o o /\ Pending' = outbox \o t /\ (overtaken' <=> overtaken \/ outbox # <<>>)
  <2>1. shown' = Append(shown, x) /\ batch' = t /\ outbox' = outbox
    BY <1>3 DEF StartSend
  <2>2. Append(shown, x) = shown \o o
    BY <1>2, <1>4, AppendIsConcat
  <2>3. overtaken' <=> overtaken \/ outbox # <<>>
    BY DEF StartSend
  <2> QED
    BY <2>1, <2>2, <2>3 DEF Pending
<1>6. o \o t \in Seq(P) /\ outbox \o t \in Seq(P)
  BY <1>2
<1>7. Pending = outbox \o (o \o t)
  BY <1>3, <1>4 DEF Pending
<1>8. /\ IsInjective(outbox) /\ IsInjective(o \o t) /\ Elements(outbox) \cap Elements(o \o t) = {}
      /\ Ordered(outbox) /\ Ordered(o \o t) /\ \A l \in Elements(outbox), m \in Elements(o \o t) : LineBefore(l, m)
  BY <1>2, <1>6, <1>7, NeatParted DEF OrderInv
<1>9. /\ IsInjective(t) /\ Elements(o) \cap Elements(t) = {}
      /\ Ordered(t) /\ \A l \in Elements(o), m \in Elements(t) : LineBefore(l, m)
  BY <1>8, NeatParted
<1>10. /\ Elements(o \o t) = {x} \cup Elements(t)
       /\ Elements(Pending) = Elements(outbox) \cup {x} \cup Elements(t)
       /\ Elements(outbox \o t) = Elements(outbox) \cup Elements(t)
       /\ Elements(shown \o o) = Elements(shown) \cup {x}
  <2>1. Elements(o \o t) = Elements(o) \cup Elements(t)
    BY ElementsJoined
  <2>2. Elements(outbox \o (o \o t)) = Elements(outbox) \cup Elements(o \o t)
    <3>1. PICK r \in Seq(P) : r = o \o t
      BY <1>6
    <3>2. Elements(outbox \o r) = Elements(outbox) \cup Elements(r)
      BY <1>2, ElementsJoined
    <3> QED
      BY <3>1, <3>2
  <2>3. Elements(outbox \o t) = Elements(outbox) \cup Elements(t)
    BY <1>2, ElementsJoined
  <2>4. Elements(shown \o o) = Elements(shown) \cup Elements(o)
    BY <1>2, ElementsJoined
  <2> QED
    BY <1>4, <1>7, <2>1, <2>2, <2>3, <2>4
<1>11. x \notin Elements(outbox) /\ x \notin Elements(t) /\ x \notin Elements(shown)
  BY <1>4, <1>8, <1>9, <1>10 DEF OrderInv
<1>12. IsInjective(shown \o o)
  BY <1>2, <1>4, <1>11, NeatJoined DEF OrderInv
<1>13. IsInjective(outbox \o t) /\ Ordered(outbox \o t)
  <2>1. Elements(outbox) \cap Elements(t) = {} /\ \A l \in Elements(outbox), m \in Elements(t) : LineBefore(l, m)
    BY <1>8, <1>10
  <2> QED
    BY <1>2, <1>8, <1>9, <2>1, NeatJoined
<1>14. Elements(shown \o o) \cap Elements(outbox \o t) = {}
  BY <1>10, <1>11 DEF OrderInv
<1>15. ASSUME ~overtaken, outbox = <<>>
       PROVE  Ordered(shown \o o) /\ \A l \in Elements(shown \o o), m \in Elements(outbox \o t) : LineBefore(l, m)
  <2>1. Ordered(shown) /\ \A l \in Elements(shown), m \in Elements(Pending) : LineBefore(l, m)
    BY <1>15 DEF OrderInv
  <2>2. Elements(outbox) = {}
    BY <1>15 DEF Elements
  <2>3. Ordered(shown \o o)
    <3>1. \A l \in Elements(shown), m \in Elements(o) : LineBefore(l, m)
      BY <1>4, <1>10, <2>1
    <3>2. Elements(shown) \cap Elements(o) = {}
      BY <1>4, <1>11
    <3>3. IsInjective(shown)
      BY DEF OrderInv
    <3> QED
      BY <1>2, <1>4, <2>1, <3>1, <3>2, <3>3, NeatJoined
  <2>4. \A l \in Elements(shown \o o), m \in Elements(outbox \o t) : LineBefore(l, m)
    BY <1>4, <1>9, <1>10, <2>1, <2>2
  <2> QED
    BY <2>3, <2>4
<1>16. PICK sh, pe : sh = shown \o o /\ pe = outbox \o t
  OBVIOUS
<1> QED
  BY <1>5, <1>12, <1>13, <1>14, <1>15 DEF OrderInv

\* The lines of an SMS are put behind what is waiting.
LEMMA OrderSaid ==
  ASSUME TypeOK, TableInv, SaidInv, OrderInv, ProcessMsgPdu
  PROVE  OrderInv'
<1> USE DEF pass, sink
<1>1. todo # <<>> /\ deletes = <<>> /\ UNCHANGED <<text, arrived, messages, asked, sink, torn, inputs>>
  BY PduStep
<1>2. PICK t \in Sms : t = Head(todo)[1] /\ Head(todo) \in Parts(t) /\ (AllThere(t) \/ SomeMissing(t))
  BY PduStep
<1>3. batch = <<>>
  BY <1>1 DEF TypeOK, TableInv
<1>4. PICK P : P = Seq(Char) \ {<<>>}
  OBVIOUS
<1>5. outbox \in Seq(P) /\ Pending \in Seq(P) /\ Pending = outbox /\ shown \in Seq(P)
  <2>1. outbox \in Seq(P) /\ Pending \in Seq(P) /\ shown \in Seq(P)
    BY <1>4, PendingIs DEF LineSeqs
  <2>2. outbox \o <<>> = outbox
    BY <2>1, ConcatEmptySeq
  <2> QED
    BY <1>3, <2>1, <2>2 DEF Pending
<1>6. CASE SomeMissing(t)
  <2>1. Pending' = Pending /\ shown' = shown /\ overtaken' = overtaken
    BY <1>1, <1>6 DEF SomeMissing, Pending
  <2> QED
    BY <2>1 DEF OrderInv
<1>7. CASE AllThere(t)
  <2>1. PICK L \in Seq(P) : L = LinesOf(t) /\ IsInjective(L) /\ Ordered(L)
    BY <1>4, LinesNeat DEF LineSeqs
  <2>2. outbox' = outbox \o L /\ batch' = <<>> /\ shown' = shown /\ overtaken' = overtaken
    BY <1>1, <1>3, <1>7, <2>1 DEF AllThere
  <2>3. outbox \o L \in Seq(P)
    BY <1>5
  <2>4. Pending' = Pending \o L
    BY <1>5, <2>2, <2>3, ConcatEmptySeq DEF Pending
  <2>5. ASSUME NEW m \in Said
        PROVE  \E s \in Sms : m \in Elements(LinesOf(s)) /\ Gone(s)
    <3>1. PICK s \in Sms : m \in Elements(LinesOf(s)) /\ (Gone(s) \/ Leaving(s))
      BY DEF SaidInv
    <3>2. ~Leaving(s)
      BY <1>1 DEF Leaving, Elements
    <3> QED
      BY <3>1, <3>2
  <2>6. ~Gone(t)
    BY <1>7, FragmentsAre DEF AllThere, Gone
  <2>7. \A m \in Said, l \in Elements(L) : m # l /\ LineBefore(m, l)
    <3> SUFFICES ASSUME NEW m \in Said, NEW l \in Elements(L) PROVE m # l /\ LineBefore(m, l)
      OBVIOUS
    <3>1. PICK s \in Sms : m \in Elements(LinesOf(s)) /\ s # t
      BY <2>5, <2>6
    <3>2. LineBefore(m, l)
      BY <2>1, <3>1, OthersBefore
    <3>3. m # l
      BY <2>1, <3>1, LineOwner
    <3> QED
      BY <3>2, <3>3
  <2>8. Elements(Pending) \subseteq Said /\ Elements(shown) \subseteq Said
    BY PendingIs DEF Said
  <2>9. IsInjective(Pending \o L) /\ Ordered(Pending \o L)
    <3>1. Elements(Pending) \cap Elements(L) = {} /\ \A l \in Elements(Pending), m \in Elements(L) : LineBefore(l, m)
      BY <2>7, <2>8
    <3> QED
      BY <1>5, <2>1, <3>1, NeatJoined DEF OrderInv
  <2>10. Elements(Pending \o L) = Elements(Pending) \cup Elements(L)
    BY <1>5, ElementsJoined
  <2>11. Elements(shown) \cap Elements(Pending \o L) = {}
    BY <2>7, <2>8, <2>10 DEF OrderInv
  <2>12. ASSUME ~overtaken
         PROVE  Ordered(shown) /\ \A l \in Elements(shown), m \in Elements(Pending \o L) : LineBefore(l, m)
    BY <2>7, <2>8, <2>10, <2>12 DEF OrderInv
  <2>13. IsInjective(shown)
    BY DEF OrderInv
  <2> QED
    BY <2>2, <2>4, <2>9, <2>11, <2>12, <2>13 DEF OrderInv
<1> QED
  BY <1>2, <1>6, <1>7

\* What each step does to the order of lines.
LEMMA OrderStep ==
  ASSUME TypeOK, TableInv, SaidInv, OrderInv, [Next]_vars
  PROVE  OrderInv'
<1> USE DEF pass, sink
<1>1. PICK P : P = Seq(Char) \ {<<>>}
  OBVIOUS
<1>2. outbox \in Seq(P) /\ batch \in Seq(P) /\ shown \in Seq(P)
  BY <1>1, PendingIs DEF LineSeqs
<1>3. CASE Pending' = Pending /\ shown' = shown /\ overtaken' = overtaken
  BY <1>3 DEF OrderInv
<1>4. CASE Sink
  <2>1. Pending = outbox \o <<>> /\ Pending' = <<>> \o outbox /\ shown' = shown /\ overtaken' = overtaken
    BY <1>4 DEF Sink, Idle, TableInv, Pending
  <2>2. Pending' = Pending
    BY <1>2, <2>1, ConcatEmptySeq
  <2> QED
    BY <1>3, <2>1, <2>2
<1>5. CASE StartSendNotReady
  <2>1. PICK x \in P, t \in Seq(P) : x = Head(batch) /\ t = Tail(batch) /\ batch = <<x>> \o t
    BY <1>2, <1>5, HeadFirst DEF StartSendNotReady
  <2>2. PICK o \in Seq(P) : o = <<x>>
    BY NeatOne
  <2>3. outbox' = outbox \o o /\ batch' = t
    <3>1. Append(outbox, x) = outbox \o o
      BY <1>2, <2>2, AppendIsConcat
    <3> QED
      BY <1>5, <2>1, <3>1 DEF StartSendNotReady
  <2>4. outbox \o (o \o t) = (outbox \o o) \o t
    <3>1. ASSUME NEW p \in Seq(P), NEW q \in Seq(P), NEW r \in Seq(P)
          PROVE  p \o (q \o r) = (p \o q) \o r
      BY JoinedTwice
    <3>2. outbox \in Seq(P)
      BY <1>2
    <3> QED
      BY <3>1, <3>2, Zenon
  <2>5. Pending' = Pending
    BY <2>1, <2>2, <2>3, <2>4 DEF Pending
  <2>6. shown' = shown /\ overtaken' = overtaken
    BY <1>5 DEF StartSendNotReady
  <2> QED
    BY <1>3, <2>5, <2>6
<1>6. CASE Crash
  <2>1. Pending' = <<>> /\ shown' = shown /\ overtaken' = overtaken
    BY <1>6, ConcatEmptySeq DEF Crash, Pending
  <2>2. DOMAIN <<>> = {}
    OBVIOUS
  <2>3. IsInjective(<<>>) /\ Ordered(<<>>) /\ Elements(<<>>) = {}
    BY <2>2 DEF IsInjective, Ordered, Elements
  <2> QED
    BY <2>1, <2>3 DEF OrderInv
<1>7. CASE UNCHANGED <<outbox, batch, shown, overtaken>>
  <2>1. Pending' = Pending
    BY <1>7 DEF Pending
  <2> QED
    BY <1>3, <1>7, <2>1
<1>8. (\E f \in Fragments : Arrives(f)) \/ ProcessMessages \/ DeleteMessage \/ SinkEnds \/ UNCHANGED vars
        => UNCHANGED <<outbox, batch, shown, overtaken>>
  BY DEF Arrives, ProcessMessages, DeleteMessage, SinkEnds, vars
<1>9. ProcessMsgPdu \/ StartSend => OrderInv'
  BY OrderSaid, OrderSend
<1> QED
  BY <1>4, <1>5, <1>6, <1>7, <1>8, <1>9 DEF Next, Link

-----------------------------------------------------------------------------
(* The theorems *)

\* The inductive invariant
PresentationInv == TypeOK /\ TableInv /\ WholeInv /\ SaidInv /\ OrderInv

\* The inductive invariant of the presentation.
THEOREM PresentationInvariant == Spec => []PresentationInv
<1>1. Init => PresentationInv
  BY TableStart, WholeStart, SaidStart, OrderStart DEF PresentationInv
<1>2. PresentationInv /\ [Next]_vars => PresentationInv'
  BY TableStep, WholeStep, SaidStep, OrderStep DEF PresentationInv
<1> QED
  BY <1>1, <1>2, PTL DEF Spec

\* No character comes before itself.
LEMMA CharNotBeforeItself ==
  ASSUME NEW c \in Char
  PROVE  ~Before(c.at, c.at)
<1>1. PICK a \in Sms \X Nat \X Nat : a = c.at
  BY DEF Char
<1>2. ~Before(a, a)
  BY DEF Before
<1> QED
  BY <1>1, <1>2

\* A line that was said is one of an SMS that is being deleted or was.
LEMMA SaidIsLine ==
  ASSUME PresentationInv, NEW l \in Said
  PROVE  \E s \in Sms : l \in Elements(LinesOf(s)) /\ IsLine(s, l) /\ (Gone(s) \/ Leaving(s))
<1>1. PICK s \in Sms : l \in Elements(LinesOf(s)) /\ (Gone(s) \/ Leaving(s))
  BY DEF PresentationInv, SaidInv
<1>2. IsLine(s, l)
  BY <1>1, LineOwner DEF PresentationInv
<1> QED
  BY <1>1, <1>2

\* Every variable keeps its type.
THEOREM PresentationTypeOK == Spec => []TypeOK
<1>1. PresentationInv => TypeOK
  BY DEF PresentationInv
<1> QED
  BY <1>1, PresentationInvariant, PTL

\* No line that the server gets is longer than MESSAGE_MAX_LEN by more than a
\* part of a character (send_raw_message).
THEOREM LinesFit == Spec => []ChunksFit
<1>1. PresentationInv => ChunksFit
  <2> SUFFICES ASSUME PresentationInv, NEW l \in Elements(shown) PROVE Bytes(l) < MaxLen + l[Len(l)].w
    BY DEF ChunksFit
  <2>1. PICK s \in Sms : IsLine(s, l)
    BY SaidIsLine DEF Said
  <2> QED
    BY <2>1 DEF IsLine
<1> QED
  BY <1>1, PresentationInvariant, PTL

\* Two lines of an SMS are in one order or the other.
LEMMA LinesApart ==
  ASSUME TypeOK, NEW s \in Sms, NEW l \in Elements(LinesOf(s)), NEW m \in Elements(LinesOf(s)), l # m
  PROVE  LineBefore(l, m) \/ LineBefore(m, l)
<1>1. PICK L \in LineSeqs : L = LinesOf(s) /\ Ordered(L)
  BY LinesNeat
<1>2. PICK h \in Nat : DOMAIN L = 1 .. h
  BY DEF LineSeqs
<1>3. PICK i \in 1 .. h, j \in 1 .. h : l = L[i] /\ m = L[j]
  BY <1>1, <1>2 DEF Elements
<1>4. i < j \/ j < i
  BY <1>3
<1> QED
  BY <1>1, <1>2, <1>3, <1>4 DEF Ordered

\* No character is said twice.
LEMMA CharOnce ==
  ASSUME PresentationInv, NEW l \in Said, NEW m \in Said, NEW i \in DOMAIN l, NEW j \in DOMAIN m, l[i].at = m[j].at
  PROVE  l = m /\ i = j
<1>1. PICK s \in Sms : l \in Elements(LinesOf(s)) /\ IsLine(s, l)
  BY SaidIsLine
<1>2. PICK t \in Sms : m \in Elements(LinesOf(t)) /\ IsLine(t, m)
  BY SaidIsLine
<1>3. l \in Seq(Char) /\ m \in Seq(Char) /\ l[i].at[1] = s /\ m[j].at[1] = t
  BY <1>1, <1>2 DEF IsLine
<1>4. PICK c \in Char, d \in Char : c = l[i] /\ d = m[j] /\ i \in Nat /\ j \in Nat
  BY <1>3
<1>5. c.at = d.at /\ ~Before(c.at, d.at) /\ ~Before(d.at, c.at)
  BY <1>4, CharNotBeforeItself
<1>6. s = t
  BY <1>3
<1>7. ~LineBefore(l, m) /\ ~LineBefore(m, l)
  BY <1>4, <1>5 DEF LineBefore
<1>8. l = m
  BY <1>1, <1>2, <1>6, <1>7, LinesApart DEF PresentationInv
<1>9. ~(i < j) /\ ~(j < i)
  BY <1>1, <1>4, <1>5, <1>8 DEF IsLine
<1> QED
  BY <1>4, <1>8, <1>9

\* So the server gets characters in order.
LEMMA ShownInOrder == PresentationInv => OnceInOrder
<1> SUFFICES ASSUME PresentationInv PROVE OnceInOrder
  OBVIOUS
<1>1. PICK Q : Q = Seq(Char)
  OBVIOUS
<1>2. shown \in Seq(Q)
  <2>1. PICK P : P = Seq(Char) \ {<<>>}
    OBVIOUS
  <2>2. shown \in Seq(P)
    BY <2>1 DEF PresentationInv, TypeOK
  <2>3. P \subseteq Q
    BY <1>1, <2>1
  <2> QED
    BY <2>2, <2>3
<1>3. PICK F \in Seq(Char) : F = FlattenSeq(shown) /\ \E row, col : IsWalk(shown, Len(shown), F, row, col)
  BY <1>1, <1>2, FlattenWalk
<1>4. PICK row, col : IsWalk(shown, Len(shown), F, row, col)
  BY <1>3
<1>5. PICK n \in Nat, h \in Nat : n = Len(F) /\ DOMAIN F = 1 .. n /\ h = Len(shown) /\ DOMAIN shown = 1 .. h
  BY <1>2
<1>6. ASSUME NEW k \in 1 .. n
      PROVE  \E r \in 1 .. h : \E i \in DOMAIN shown[r] :
               r = row[k] /\ i = col[k] /\ F[k] = shown[r][i] /\ shown[r] \in Said /\ i \in Nat
  <2>1. row[k] \in 1 .. h /\ col[k] \in 1 .. Len(shown[row[k]]) /\ F[k] = shown[row[k]][col[k]]
    BY <1>4, <1>5 DEF IsWalk
  <2>2. PICK r \in 1 .. h : r = row[k]
    BY <2>1
  <2>3. shown[r] \in Q
    BY <1>2, <1>5
  <2>4. DOMAIN shown[r] = 1 .. Len(shown[r])
    BY <1>1, <2>3
  <2>5. shown[r] \in Said
    BY <1>5 DEF Said, Elements
  <2> QED
    BY <2>1, <2>2, <2>4, <2>5
<1>7. ASSUME ~overtaken, NEW k \in 1 .. n, NEW l \in 1 .. n, k < l, F[k].at[1] = F[l].at[1]
      PROVE  Before(F[k].at, F[l].at)
  <2>1. PICK r \in 1 .. h : \E i \in DOMAIN shown[r] :
               r = row[k] /\ i = col[k] /\ F[k] = shown[r][i] /\ shown[r] \in Said /\ i \in Nat
    BY <1>6
  <2>2. PICK i \in DOMAIN shown[r] :
               r = row[k] /\ i = col[k] /\ F[k] = shown[r][i] /\ shown[r] \in Said /\ i \in Nat
    BY <2>1
  <2>3. PICK q \in 1 .. h : \E j \in DOMAIN shown[q] :
               q = row[l] /\ j = col[l] /\ F[l] = shown[q][j] /\ shown[q] \in Said /\ j \in Nat
    BY <1>6
  <2>4. PICK j \in DOMAIN shown[q] :
               q = row[l] /\ j = col[l] /\ F[l] = shown[q][j] /\ shown[q] \in Said /\ j \in Nat
    BY <2>3
  <2>5. r < q \/ (r = q /\ i < j)
    BY <1>4, <1>5, <1>7, <2>2, <2>4 DEF IsWalk
  <2>6. CASE r < q
    <3>1. LineBefore(shown[r], shown[q])
      BY <1>5, <1>7, <2>6 DEF PresentationInv, OrderInv, Ordered
    <3> QED
      BY <1>7, <2>2, <2>4, <3>1 DEF LineBefore
  <2>7. CASE r = q /\ i < j
    <3>1. PICK s \in Sms : IsLine(s, shown[r])
      BY <2>2, SaidIsLine
    <3> QED
      BY <2>2, <2>4, <2>7, <3>1 DEF IsLine
  <2> QED
    BY <2>5, <2>6, <2>7
<1>8. ASSUME NEW k \in 1 .. n, NEW l \in 1 .. n, F[k].at = F[l].at
      PROVE  k = l
  <2>1. PICK r \in 1 .. h : \E i \in DOMAIN shown[r] :
               r = row[k] /\ i = col[k] /\ F[k] = shown[r][i] /\ shown[r] \in Said /\ i \in Nat
    BY <1>6
  <2>2. PICK i \in DOMAIN shown[r] :
               r = row[k] /\ i = col[k] /\ F[k] = shown[r][i] /\ shown[r] \in Said /\ i \in Nat
    BY <2>1
  <2>3. PICK q \in 1 .. h : \E j \in DOMAIN shown[q] :
               q = row[l] /\ j = col[l] /\ F[l] = shown[q][j] /\ shown[q] \in Said /\ j \in Nat
    BY <1>6
  <2>4. PICK j \in DOMAIN shown[q] :
               q = row[l] /\ j = col[l] /\ F[l] = shown[q][j] /\ shown[q] \in Said /\ j \in Nat
    BY <2>3
  <2>5. shown[r] = shown[q] /\ i = j
    <3>1. PICK x \in Said, y \in Said : x = shown[r] /\ y = shown[q]
      BY <2>2, <2>4
    <3>2. i \in DOMAIN x /\ j \in DOMAIN y /\ x[i].at = y[j].at
      BY <1>8, <2>2, <2>4, <3>1
    <3>3. x = y /\ i = j
      BY <3>2, CharOnce
    <3> QED
      BY <3>1, <3>3
  <2>6. r = q
    BY <1>5, <2>5 DEF PresentationInv, OrderInv, IsInjective
  <2>7. row[k] = row[l] /\ col[k] = col[l] /\ row[k] \in Nat /\ col[k] \in Nat
    BY <2>2, <2>4, <2>5, <2>6
  <2>8. /\ k < l => row[k] < row[l] \/ (row[k] = row[l] /\ col[k] < col[l])
        /\ l < k => row[l] < row[k] \/ (row[l] = row[k] /\ col[l] < col[k])
    BY <1>4, <1>5 DEF IsWalk
  <2>9. ~(k < l) /\ ~(l < k)
    BY <2>7, <2>8
  <2> QED
    BY <2>9
<1>9. ASSUME NEW l \in Elements(shown), NEW i \in DOMAIN l, NEW j \in DOMAIN l
      PROVE  l[i].at[1] = l[j].at[1]
  <2>1. PICK s \in Sms : IsLine(s, l)
    BY SaidIsLine DEF Said
  <2> QED
    BY <2>1 DEF IsLine
<1> QED
  BY <1>3, <1>5, <1>7, <1>8, <1>9 DEF OnceInOrder

\* What the server gets of an SMS it gets once and in order, however its
\* fragments came (process_msg_pdu), and whatever died or was refused.
THEOREM OnceInOrderShown == Spec => []OnceInOrder
BY ShownInOrder, PresentationInvariant, PTL

\* What there is of an SMS outside the table.
LEMMA SaidOf ==
  ASSUME PresentationInv, NEW s \in Sms
  PROVE  Shown(s) \cup Underway(s) = {a \in Ats(Said) : a[1] = s}
<1>1. Elements(outbox \o batch) = Elements(outbox) \cup Elements(batch)
  BY PendingIs DEF PresentationInv, Pending
<1>2. PICK A, B : A = Elements(shown) /\ B = Elements(outbox \o batch)
  OBVIOUS
<1>3. Shown(s) = {a \in Ats(A) : a[1] = s} /\ Underway(s) = {a \in Ats(B) : a[1] = s}
  BY <1>2 DEF Shown, Underway, Ats
<1>4. Said = A \cup B
  BY <1>1, <1>2 DEF Said
<1>5. Ats(A \cup B) = Ats(A) \cup Ats(B)
  BY DEF Ats
<1> QED
  BY <1>3, <1>4, <1>5

\* Of an SMS that is spoken only ends of lines are missing.
LEMMA SpokenIsWhole ==
  ASSUME PresentationInv, NEW s \in Sms, Spoken(s)
  PROVE  EndsMissing(s)
<1>1. PICK L : L = LinesOf(s)
  OBVIOUS
<1>2. EndsCut(s, Elements(L))
  <2>1. text[s] \in Seq(Seq(Nat))
    BY TextType DEF PresentationInv, TypeOK
  <2> QED
    BY <1>1, <2>1, LinesOfText DEF IsLines
<1>3. ASSUME NEW a
      PROVE  a \in Ats(Elements(L)) <=> a \in Shown(s) \cup Underway(s)
  <2>1. ASSUME a \in Ats(Elements(L))
        PROVE  a \in Shown(s) \cup Underway(s)
    <3>1. PICK l \in Elements(L) : \E c \in Elements(l) : a = c.at
      BY <2>1 DEF Ats
    <3>2. l \in Said /\ IsLine(s, l)
      BY <1>1, <3>1, LineOwner DEF PresentationInv, SaidInv
    <3>3. PICK i \in DOMAIN l : a = l[i].at
      BY <3>1 DEF Elements
    <3>4. a[1] = s
      BY <3>2, <3>3 DEF IsLine
    <3>5. a \in Ats(Said)
      BY <3>1, <3>2 DEF Ats
    <3> QED
      BY <3>4, <3>5, SaidOf
  <2>2. ASSUME a \in Shown(s) \cup Underway(s)
        PROVE  a \in Ats(Elements(L))
    <3>1. a \in Ats(Said) /\ a[1] = s
      BY <2>2, SaidOf
    <3>2. PICK l \in Said : \E c \in Elements(l) : a = c.at
      BY <3>1 DEF Ats
    <3>3. PICK t \in Sms : l \in Elements(LinesOf(t)) /\ IsLine(t, l)
      BY SaidIsLine
    <3>4. PICK i \in DOMAIN l : a = l[i].at
      BY <3>2 DEF Elements
    <3>5. t = s
      BY <3>1, <3>3, <3>4 DEF IsLine
    <3> QED
      BY <1>1, <3>2, <3>3, <3>5 DEF Ats
  <2> QED
    BY <2>1, <2>2
<1>4. Ats(Elements(L)) = Shown(s) \cup Underway(s)
  BY <1>3
<1> QED
  BY <1>2, <1>4 DEF EndsCut, EndsMissing

\* An SMS is shown as a whole or not at all, but for the ends of its lines, when
\* no restart came between the deletion of a fragment and the sending.
THEOREM OnlyEndsCut == Spec => []OnlyEndCut
<1>1. PresentationInv => OnlyEndCut
  <2> SUFFICES ASSUME PresentationInv, NEW s \in Sms, s \notin torn, Shown(s) \cup Underway(s) # {}
               PROVE  EndsMissing(s)
    BY DEF OnlyEndCut
  <2>1. PICK a \in Ats(Said) : a[1] = s
    BY SaidOf
  <2>2. PICK l \in Said : \E c \in Elements(l) : a = c.at
    BY DEF Ats
  <2>3. PICK t \in Sms : l \in Elements(LinesOf(t)) /\ IsLine(t, l) /\ (Gone(t) \/ Leaving(t))
    BY SaidIsLine
  <2>4. PICK i \in DOMAIN l : a = l[i].at
    BY <2>2 DEF Elements
  <2>5. t = s
    BY <2>1, <2>3, <2>4 DEF IsLine
  <2>6. Spoken(s)
    BY <2>3, <2>5 DEF Spoken
  <2> QED
    BY <2>6, SpokenIsWhole
<1> QED
  BY <1>1, PresentationInvariant, PTL

\* When nothing is left to do, every SMS that came as a whole was shown, and none
\* of its fragments is left (process_msg_pdu).
THEOREM CompleteShown == Spec => []CompleteIsShown
<1>1. PresentationInv => CompleteIsShown
  <2> SUFFICES ASSUME PresentationInv, AtRest, NEW s \in Sms, Parts(s) \subseteq Elements(arrived), s \notin torn
               PROVE  EndsMissing(s) /\ messages \cap Parts(s) = {}
    BY DEF CompleteIsShown, Parts
  <2>1. todo = <<>> /\ deletes = <<>> /\ asked = FALSE
    BY DEF PresentationInv, TypeOK, AtRest, Idle
  <2>2. Elements(todo) = {} /\ Elements(deletes) = {}
    BY <2>1 DEF Elements
  <2>3. CASE Spoken(s)
    <3>1. Parts(s) \cap messages \subseteq {}
      BY <2>2, <2>3 DEF PresentationInv, WholeInv
    <3> QED
      BY <2>3, <3>1, SpokenIsWhole
  <2>4. CASE ~Spoken(s)
    <3>1. ~Gone(s) /\ ~Leaving(s)
      BY <2>4 DEF Spoken
    <3>2. Parts(s) \subseteq messages
      BY <3>1 DEF Gone, Parts
    <3>3. Parts(s) = {}
      BY <2>1, <2>2, <3>1, <3>2 DEF PresentationInv, WholeInv
    <3>4. Visible(s) = {}
      BY <3>3 DEF Visible, Parts
    <3> QED
      BY <3>3, <3>4 DEF EndsMissing
  <2> QED
    BY <2>3, <2>4
<1> QED
  BY <1>1, PresentationInvariant, PTL

=============================================================================
