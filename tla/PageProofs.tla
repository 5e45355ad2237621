----------------------------- MODULE PageProofs -----------------------------
(***************************************************************************)
(* The page: the globe, its base layer and the two dialogs.                *)
(*                                                                         *)
(* Globe.  For any records, places and settings, what the scene effect     *)
(* leaves is what a new globe would show, clusters divide the records and  *)
(* are apart, and labels give way for a reason.  How groups, their order   *)
(* and the labels are computed are folds over a list: FoldTable shows that *)
(* the table such a fold is read from exists, the .._Steps lemmas read it  *)
(* line by line, and SetInduction carries a property along the lines.      *)
(*                                                                         *)
(* Dialogs.  For any settings, scripts and number of calls under way, the  *)
(* console shows what is saved and a clean editor holds what is saved.     *)
(*                                                                         *)
(* Base layer.  For any layers and loads, picker, globe and storage agree, *)
(* and the layers on the globe follow the choice.                          *)
(***************************************************************************)
EXTENDS Globe, BaseLayer, Dialogs, SequenceTheorems, FiniteSetTheorems, WellFoundedInduction, TLAPS

-----------------------------------------------------------------------------
(* Numbers, folds and lists                                                *)

\* Induction over the numbers, for a set instead of an operator.
LEMMA SetInduction ==
  ASSUME NEW T, 0 \in T, \A n \in Nat : n \in T => n + 1 \in T
  PROVE  \A n \in Nat : n \in T
<1> DEFINE B == {n \in Nat : n \notin T}
<1>1. SUFFICES ASSUME B # {} PROVE FALSE
  OBVIOUS
<1>2. IsWellFoundedOn(OpToRel(<, Nat), Nat)
  BY NatLessThanWellFounded
<1>3. \E x \in B : \A y \in B : ~ (<<y, x>> \in OpToRel(<, Nat))
  <2>1. B \subseteq Nat
    OBVIOUS
  <2> HIDE DEF B
  <2> QED BY <1>1, <1>2, <2>1, WFMin, Zenon
<1>4. PICK x \in B : \A y \in B : ~ (y < x)
  BY <1>3 DEF OpToRel
<1>5. x # 0 /\ x - 1 \in Nat /\ x - 1 < x
  OBVIOUS
<1>6. x - 1 \in T
  BY <1>4, <1>5
<1> QED BY <1>5, <1>6

LEMMA MaxUpTo ==
  ASSUME NEW n \in Nat, NEW S \in SUBSET (1 .. (n + 1)), n + 1 \in S
  PROVE  Max(S) = n + 1
<1>1. \A x \in S : x \in Int /\ n + 1 >= x
  OBVIOUS
<1>2. \A x \in S : (\A y \in S : x >= y) <=> x = n + 1
  BY <1>1
<1>3. QED
  BY <1>2 DEF Max

\* The greatest of a set of numbers up to n is one of them.
LEMMA MaxIn ==
  ASSUME NEW n \in Nat, NEW S \in SUBSET (1 .. n), S # {}
  PROVE  Max(S) \in S
<1> DEFINE Up(m) == S \cap 1 .. m # {} => \E x \in S : \A y \in S \cap 1 .. m : x >= y
           T == {m \in Nat : Up(m)}
<1>1. 0 \in T
  OBVIOUS
<1>2. ASSUME NEW m \in Nat, m \in T PROVE m + 1 \in T
  <2>1. CASE m + 1 \in S
    BY <2>1
  <2>2. CASE m + 1 \notin S
    <3>1. S \cap 1 .. (m + 1) = S \cap 1 .. m
      BY <2>2
    <3>2. QED
      BY <1>2, <3>1
  <2>3. QED
    BY <2>1, <2>2
<1> HIDE DEF T
<1>3. n \in T
  BY <1>1, <1>2, SetInduction
<1>4. \E x \in S : \A y \in S : x >= y
  BY <1>3 DEF T
<1>5. QED
  BY <1>4 DEF Max

\* What a fold is computed from exists, whatever is put together.
Unfolds(F, b, s, G) ==
  \A S \in SUBSET DOMAIN s :
     G[S] = IF S = {} THEN b ELSE F[<<G[S \ {Max(S)}], s[Max(S)]>>]

LEMMA FoldTable ==
  ASSUME NEW T, NEW E, NEW F \in [T \X E -> T], NEW b \in T, NEW s \in Seq(E)
  PROVE  \E G \in [SUBSET DOMAIN s -> T] : Unfolds(F, b, s, G)
<1> DEFINE Table(n, G) == \A S \in SUBSET (1 .. n) :
                             G[S] = IF S = {} THEN b ELSE F[<<G[S \ {Max(S)}], s[Max(S)]>>]
           P(n) == n <= Len(s) => \E G \in [SUBSET (1 .. n) -> T] : Table(n, G)
           N == {n \in Nat : P(n)}
<1>1. Len(s) \in Nat /\ DOMAIN s = 1 .. Len(s) /\ \A i \in 1 .. Len(s) : s[i] \in E
  OBVIOUS
<1>2. P(0)
  <2> DEFINE G == [S \in SUBSET (1 .. 0) |-> b]
  <2>1. G \in [SUBSET (1 .. 0) -> T]
    OBVIOUS
  <2>2. \A S \in SUBSET (1 .. 0) : S = {}
    OBVIOUS
  <2>3. Table(0, G)
    BY <2>2
  <2> HIDE DEF G, Table
  <2>4. QED
    BY <2>1, <2>3
<1>3. ASSUME NEW n \in Nat, P(n) PROVE P(n + 1)
  <2> SUFFICES ASSUME n + 1 <= Len(s) PROVE \E G \in [SUBSET (1 .. (n + 1)) -> T] : Table(n + 1, G)
    OBVIOUS
  <2>1. PICK G \in [SUBSET (1 .. n) -> T] : Table(n, G)
    <3>1. n <= Len(s)
      BY <1>1
    <3> HIDE DEF Table
    <3>2. QED
      BY <1>3, <3>1, Zenon
  <2>2. s[n + 1] \in E
    BY <1>1
  <2> DEFINE H == [S \in SUBSET (1 .. (n + 1)) |->
                     IF n + 1 \in S THEN F[<<G[S \ {n + 1}], s[n + 1]>>] ELSE G[S]]
  <2>3. \A S \in SUBSET (1 .. (n + 1)) : S \ {n + 1} \in SUBSET (1 .. n)
    OBVIOUS
  <2>4. \A S \in SUBSET (1 .. (n + 1)) : n + 1 \notin S => S \in SUBSET (1 .. n)
    OBVIOUS
  <2>5. H \in [SUBSET (1 .. (n + 1)) -> T]
    <3>1. ASSUME NEW S \in SUBSET (1 .. (n + 1))
          PROVE  (IF n + 1 \in S THEN F[<<G[S \ {n + 1}], s[n + 1]>>] ELSE G[S]) \in T
      BY <2>2, <2>3, <2>4
    <3>2. QED
      BY <3>1
  <2>6. ASSUME NEW S \in SUBSET (1 .. (n + 1))
        PROVE  H[S] = IF S = {} THEN b ELSE F[<<H[S \ {Max(S)}], s[Max(S)]>>]
    <3>1. CASE n + 1 \in S
      <4>1. Max(S) = n + 1 /\ S # {}
        BY <3>1, MaxUpTo
      <4>2. H[S \ {n + 1}] = G[S \ {n + 1}]
        BY <2>3
      <4>3. QED
        BY <3>1, <4>1, <4>2
    <3>2. CASE n + 1 \notin S
      <4>1. S \in SUBSET (1 .. n) /\ H[S] = G[S]
        BY <2>4, <3>2
      <4>2. CASE S = {}
        BY <2>1, <4>1, <4>2
      <4>3. CASE S # {}
        <5>1. Max(S) \in S
          BY <4>1, <4>3, MaxIn
        <5>2. S \ {Max(S)} \in SUBSET (1 .. n) /\ n + 1 \notin S \ {Max(S)}
          BY <3>2, <4>1
        <5>3. H[S \ {Max(S)}] = G[S \ {Max(S)}]
          BY <5>2
        <5>4. G[S] = F[<<G[S \ {Max(S)}], s[Max(S)]>>]
          BY <2>1, <4>1, <4>3
        <5>5. QED
          BY <4>1, <4>3, <5>3, <5>4
      <4>4. QED
        BY <4>2, <4>3
    <3>3. QED
      BY <3>1, <3>2
  <2> HIDE DEF H
  <2>7. QED
    BY <2>5, <2>6
<1> HIDE DEF P
<1>4. 0 \in N /\ \A n \in Nat : n \in N => n + 1 \in N
  BY <1>2, <1>3
<1> HIDE DEF N
<1>5. \A n \in Nat : n \in N
  BY <1>4, SetInduction
<1>6. P(Len(s))
  BY <1>1, <1>5 DEF N
<1> HIDE DEF Table
<1>7. \E G \in [SUBSET (1 .. Len(s)) -> T] : Table(Len(s), G)
  <2>1. Len(s) <= Len(s)
    BY <1>1
  <2>2. QED
    BY <1>6, <2>1, Zenon DEF P
<1>8. QED
  BY <1>1, <1>7 DEF Table, Unfolds

LEMMA UpToFacts ==
  ASSUME NEW n \in Nat
  PROVE  1 .. (n + 1) # {} /\ Max(1 .. (n + 1)) = n + 1 /\ (1 .. (n + 1)) \ {n + 1} = 1 .. n
<1>1. 1 .. (n + 1) \in SUBSET (1 .. (n + 1)) /\ n + 1 \in 1 .. (n + 1)
  OBVIOUS
<1>2. Max(1 .. (n + 1)) = n + 1
  BY <1>1, MaxUpTo
<1>3. (1 .. (n + 1)) \ {n + 1} = 1 .. n
  OBVIOUS
<1>4. 1 .. (n + 1) # {}
  BY <1>1
<1>5. QED
  BY <1>2, <1>3, <1>4

LEMMA MinIn ==
  ASSUME NEW n \in Nat, NEW S \in SUBSET (1 .. n), S # {}
  PROVE  Min(S) \in S /\ \A x \in S : Min(S) <= x
<1> DEFINE Down(m) == S \cap 1 .. m # {} => \E x \in S : \A y \in S \cap 1 .. m : x <= y
           T == {m \in Nat : Down(m)}
<1>1. 0 \in T
  OBVIOUS
<1>2. ASSUME NEW m \in Nat, m \in T PROVE m + 1 \in T
  <2>1. CASE S \cap 1 .. m # {}
    BY <1>2, <2>1
  <2>2. CASE S \cap 1 .. m = {}
    <3>1. S \cap 1 .. (m + 1) \subseteq {m + 1}
      BY <2>2
    <3>2. QED
      BY <3>1
  <2>3. QED
    BY <2>1, <2>2
<1> HIDE DEF T
<1>3. n \in T
  BY <1>1, <1>2, SetInduction
<1>4. \E x \in S : \A y \in S : x <= y
  BY <1>3 DEF T
<1>5. QED
  BY <1>4 DEF Min

LEMMA ConcatFacts ==
  ASSUME NEW E, NEW s \in Seq(E), NEW t \in Seq(E)
  PROVE  /\ s \o t \in Seq(E) /\ Len(s \o t) = Len(s) + Len(t)
         /\ \A i \in 1 .. Len(s) : (s \o t)[i] = s[i]
         /\ \A i \in 1 .. Len(t) : (s \o t)[Len(s) + i] = t[i]
         /\ Range(s \o t) = Range(s) \cup Range(t)
<1> DEFINE m == s \o t
<1>1. /\ m \in Seq(E) /\ Len(m) = Len(s) + Len(t) /\ Len(s) \in Nat /\ Len(t) \in Nat
      /\ DOMAIN m = 1 .. (Len(s) + Len(t)) /\ DOMAIN s = 1 .. Len(s) /\ DOMAIN t = 1 .. Len(t)
      /\ \A i \in 1 .. (Len(s) + Len(t)) : m[i] = IF i <= Len(s) THEN s[i] ELSE t[i - Len(s)]
  OBVIOUS
<1> HIDE DEF m
<1>2. \A i \in 1 .. Len(s) : m[i] = s[i] /\ i \in 1 .. (Len(s) + Len(t))
  BY <1>1
<1>3. \A i \in 1 .. Len(t) : /\ m[Len(s) + i] = t[i]
                             /\ Len(s) + i \in 1 .. (Len(s) + Len(t))
  <2>1. SUFFICES ASSUME NEW i \in 1 .. Len(t)
                 PROVE  m[Len(s) + i] = t[i] /\ Len(s) + i \in 1 .. (Len(s) + Len(t))
    OBVIOUS
  <2>2. Len(s) + i \in 1 .. (Len(s) + Len(t)) /\ ~(Len(s) + i <= Len(s)) /\ (Len(s) + i) - Len(s) = i
    BY <1>1
  <2>3. QED
    BY <1>1, <2>2
<1>4. \A i \in 1 .. (Len(s) + Len(t)) : i \in 1 .. Len(s) \/ i - Len(s) \in 1 .. Len(t)
  BY <1>1
<1>5. ASSUME NEW x \in Range(m) PROVE x \in Range(s) \cup Range(t)
  <2>1. PICK i \in 1 .. (Len(s) + Len(t)) : x = m[i]
    BY <1>1, <1>5 DEF Range
  <2>2. CASE i <= Len(s)
    <3>1. x = s[i] /\ i \in DOMAIN s
      BY <1>1, <2>1, <2>2
    <3>2. QED
      BY <3>1 DEF Range
  <2>3. CASE ~(i <= Len(s))
    <3>1. x = t[i - Len(s)] /\ i - Len(s) \in DOMAIN t
      BY <1>1, <2>1, <2>3
    <3>2. QED
      BY <3>1 DEF Range
  <2>4. QED
    BY <2>2, <2>3
<1>6. ASSUME NEW x \in Range(s) \cup Range(t) PROVE x \in Range(m)
  <2>1. CASE x \in Range(s)
    BY <1>1, <1>2, <2>1 DEF Range
  <2>2. CASE x \in Range(t)
    BY <1>1, <1>3, <2>2 DEF Range
  <2>3. QED
    BY <1>6, <2>1, <2>2
<1>7. QED
  BY <1>1, <1>2, <1>3, <1>5, <1>6 DEF m



\* Only takes the elements one by one.
LEMMA OnlySteps ==
  ASSUME NEW E, NEW s \in Seq(E), NEW S
  PROVE  \E g : /\ g[0] = <<>>
                /\ \A n \in Nat : n < Len(s) =>
                      g[n + 1] = IF s[n + 1] \in S THEN Append(g[n], s[n + 1]) ELSE g[n]
                /\ Only(s, S) = g[Len(s)]
<1> DEFINE A(kept, x) == IF x \in S THEN Append(kept, x) ELSE kept
           F == [p \in Seq(E) \X E |-> A(p[1], p[2])]
           Table(iter) == iter = [D \in SUBSET DOMAIN s |->
                                    IF D = {} THEN <<>> ELSE A(iter[D \ {Max(D)}], s[Max(D)])]
           it == CHOOSE iter : Table(iter)
<1>1. Len(s) \in Nat /\ DOMAIN s = 1 .. Len(s) /\ \A i \in 1 .. Len(s) : s[i] \in E
  OBVIOUS
<1>2. Only(s, S) = it[DOMAIN s]
  BY DEF Only, FoldLeft, MapThenFoldSet
<1>3. F \in [Seq(E) \X E -> Seq(E)] /\ <<>> \in Seq(E)
  OBVIOUS
<1>4. \A kept \in Seq(E), x \in E : F[<<kept, x>>] = A(kept, x)
  OBVIOUS
<1> HIDE DEF A, F
<1>5. PICK G \in [SUBSET DOMAIN s -> Seq(E)] : Unfolds(F, <<>>, s, G)
  <2> DEFINE T == Seq(E)
  <2>1. F \in [T \X E -> T] /\ <<>> \in T /\ s \in Seq(E)
    BY <1>3
  <2> HIDE DEF T
  <2>2. \E G \in [SUBSET DOMAIN s -> T] : Unfolds(F, <<>>, s, G)
    BY <2>1, FoldTable
  <2>3. QED
    BY <2>2 DEF T
<1>6. Table(G)
  <2>1. \A D \in SUBSET DOMAIN s : D # {} =>
           G[D \ {Max(D)}] \in Seq(E) /\ s[Max(D)] \in E
    BY <1>1, <1>5, MaxIn
  <2>2. \A D \in SUBSET DOMAIN s :
           G[D] = IF D = {} THEN <<>> ELSE A(G[D \ {Max(D)}], s[Max(D)])
    BY <1>4, <1>5, <2>1 DEF Unfolds
  <2>3. QED
    BY <1>5, <2>2
<1>7. Table(it)
  <2> HIDE DEF Table
  <2> QED BY <1>6
<1>8. \A D \in SUBSET DOMAIN s :
         it[D] = IF D = {} THEN <<>> ELSE A(it[D \ {Max(D)}], s[Max(D)])
  <2> HIDE DEF it
  <2> QED BY <1>7
<1> HIDE DEF it
<1> DEFINE g == [n \in Nat |-> it[1 .. n]]
<1>9. g[0] = <<>>
  <2>1. 1 .. 0 = {} /\ {} \in SUBSET DOMAIN s
    OBVIOUS
  <2>2. QED
    BY <1>8, <2>1
<1>10. ASSUME NEW n \in Nat, n < Len(s) PROVE g[n + 1] = A(g[n], s[n + 1])
  <2>1. 1 .. (n + 1) \in SUBSET DOMAIN s
    BY <1>1, <1>10
  <2>2. 1 .. (n + 1) # {} /\ Max(1 .. (n + 1)) = n + 1 /\ (1 .. (n + 1)) \ {n + 1} = 1 .. n
    BY UpToFacts
  <2>3. it[1 .. (n + 1)] = A(it[1 .. n], s[n + 1])
    BY <1>8, <2>1, <2>2
  <2>4. QED
    BY <2>3
<1>11. Only(s, S) = g[Len(s)]
  BY <1>1, <1>2
<1> HIDE DEF g
<1>12. QED
  BY <1>9, <1>10, <1>11 DEF A

\* What Only leaves: no other elements, none twice, and all that are in the set.
LEMMA OnlyFacts ==
  ASSUME NEW E, NEW s \in Seq(E), NEW S
  PROVE  /\ Only(s, S) \in Seq(E)
         /\ Range(Only(s, S)) = Range(s) \cap S
         /\ (\A i, j \in DOMAIN s : s[i] = s[j] => i = j) =>
               \A i, j \in DOMAIN Only(s, S) : Only(s, S)[i] = Only(s, S)[j] => i = j
<1> DEFINE Once(q) == \A i, j \in 1 .. Len(q) : q[i] = q[j] => i = j
           Good(n, q) == /\ q \in Seq(E)
                         /\ \A i \in 1 .. Len(q) : q[i] \in S /\ \E k \in 1 .. n : q[i] = s[k]
                         /\ \A k \in 1 .. n : s[k] \in S => \E i \in 1 .. Len(q) : q[i] = s[k]
                         /\ Once(s) => Once(q)
<1>1. PICK g : /\ g[0] = <<>>
               /\ \A n \in Nat : n < Len(s) =>
                     g[n + 1] = IF s[n + 1] \in S THEN Append(g[n], s[n + 1]) ELSE g[n]
               /\ Only(s, S) = g[Len(s)]
  BY OnlySteps
<1> DEFINE T == {n \in Nat : n <= Len(s) => Good(n, g[n])}
<1>2. 0 \in T
  <2>1. <<>> \in Seq(E) /\ Len(<<>>) = 0 /\ 1 .. 0 = {}
    OBVIOUS
  <2>2. Good(0, <<>>)
    BY <2>1
  <2>3. g[0] = <<>> /\ 0 \in Nat
    BY <1>1
  <2> HIDE DEF Good
  <2>4. QED
    BY <2>2, <2>3
<1>3. ASSUME NEW n \in Nat, n \in T PROVE n + 1 \in T
  <2> SUFFICES ASSUME n + 1 <= Len(s) PROVE Good(n + 1, g[n + 1])
    OBVIOUS
  <2>1. Good(n, g[n]) /\ n < Len(s) /\ Len(s) \in Nat /\ n + 1 \in 1 .. Len(s) /\ s[n + 1] \in E
    BY <1>3
  <2>2. CASE s[n + 1] \notin S
    <3>1. g[n + 1] = g[n]
      BY <1>1, <2>1, <2>2
    <3>2. QED
      BY <2>1, <2>2, <3>1
  <2>3. CASE s[n + 1] \in S
    <3> DEFINE q == g[n]
    <3>1. g[n + 1] = Append(q, s[n + 1])
      BY <1>1, <2>1, <2>3
    <3>2. Good(n, q)
      BY <2>1
    <3> HIDE DEF q
    <3>3. /\ Append(q, s[n + 1]) \in Seq(E)
          /\ Len(Append(q, s[n + 1])) = Len(q) + 1
          /\ \A i \in 1 .. Len(q) : Append(q, s[n + 1])[i] = q[i]
          /\ Append(q, s[n + 1])[Len(q) + 1] = s[n + 1]
          /\ Len(q) \in Nat
      BY <2>1, <3>2
    <3> DEFINE r == Append(q, s[n + 1])
    <3> HIDE DEF r
    <3>4. /\ r \in Seq(E) /\ Len(r) = Len(q) + 1 /\ Len(q) \in Nat
          /\ \A i \in 1 .. Len(q) : r[i] = q[i]
          /\ r[Len(q) + 1] = s[n + 1]
      BY <3>3 DEF r
    <3>5. \A i \in 1 .. Len(r) : i \in 1 .. Len(q) \/ i = Len(q) + 1
      BY <3>4
    <3>6. \A k \in 1 .. (n + 1) : k \in 1 .. n \/ k = n + 1
      BY <1>3
    <3>7. \A k \in 1 .. n : k \in 1 .. (n + 1)
      BY <1>3
    <3>8. \A i \in 1 .. Len(q) : i \in 1 .. Len(r)
      BY <3>4
    <3>9. n + 1 \in 1 .. (n + 1) /\ Len(q) + 1 \in 1 .. Len(r)
      BY <1>3, <3>4
    <3>10. \A i \in 1 .. Len(r) : r[i] \in S
      BY <2>3, <3>2, <3>4, <3>5
    <3>11. \A i \in 1 .. Len(r) : \E k \in 1 .. (n + 1) : r[i] = s[k]
      BY <3>2, <3>4, <3>5, <3>7, <3>9
    <3>12. \A k \in 1 .. (n + 1) : s[k] \in S => \E i \in 1 .. Len(r) : r[i] = s[k]
      BY <3>2, <3>4, <3>6, <3>8, <3>9
    <3>13. ASSUME Once(s) PROVE Once(r)
      <4>1. \A i \in 1 .. Len(q) : q[i] # s[n + 1]
        <5>1. \A k \in 1 .. n : k \in 1 .. Len(s) /\ k # n + 1
          BY <2>1
        <5>2. QED
          BY <2>1, <3>2, <3>13, <5>1
      <4>2. Once(q)
        BY <3>2, <3>13
      <4>3. QED
        BY <3>4, <3>5, <4>1, <4>2
    <3>14. Good(n + 1, r)
      BY <3>4, <3>10, <3>11, <3>12, <3>13
    <3>15. g[n + 1] = r
      BY <3>1 DEF q, r
    <3> HIDE DEF Good
    <3>16. QED
      BY <3>14, <3>15
  <2>4. QED
    BY <2>2, <2>3
<1> HIDE DEF T
<1>4. \A n \in Nat : n \in T
  BY <1>2, <1>3, SetInduction
<1>5. Good(Len(s), Only(s, S))
  <2>1. Len(s) \in Nat /\ Len(s) <= Len(s)
    OBVIOUS
  <2> HIDE DEF Good
  <2>2. QED
    BY <1>1, <1>4, <2>1 DEF T
<1>6. DOMAIN s = 1 .. Len(s) /\ DOMAIN Only(s, S) = 1 .. Len(Only(s, S))
  BY <1>5
<1>7. Range(Only(s, S)) = Range(s) \cap S
  <2>1. ASSUME NEW y \in Range(Only(s, S)) PROVE y \in Range(s) \cap S
    BY <1>5, <1>6, SMTT(30) DEF Range
  <2>2. ASSUME NEW y \in Range(s) \cap S PROVE y \in Range(Only(s, S))
    <3>1. PICK k \in 1 .. Len(s) : y = s[k]
      BY <1>6 DEF Range
    <3>2. QED
      BY <1>5, <1>6, <3>1 DEF Range
  <2>3. QED
    BY <2>1, <2>2
<1>8. QED
  BY <1>5, <1>6, <1>7


-----------------------------------------------------------------------------
(* Groups                                                                  *)

GroupSet(D) ==
    [at : Int, locs : Seq(Records), banned : BOOLEAN, active : BOOLEAN, foreign : BOOLEAN, desc : D]

LEMMA MergeFacts ==
  ASSUME NEW D, NEW g \in GroupSet(D), NEW h \in GroupSet(D)
  PROVE  /\ Merge(g, h) \in GroupSet(D)
         /\ Merge(g, h).at = g.at
         /\ Range(Merge(g, h).locs) = Range(g.locs) \cup Range(h.locs)
         /\ GroupPriority(Merge(g, h)) >= GroupPriority(g)
         /\ GroupPriority(Merge(g, h)) >= GroupPriority(h)
<1> DEFINE m == Merge(g, h)
<1>1. /\ m.at = g.at /\ m.locs = g.locs \o h.locs
      /\ m.banned = (g.banned \/ h.banned) /\ m.active = (g.active \/ h.active)
      /\ m.foreign = (g.foreign \/ h.foreign)
      /\ m.desc = IF Len(h.desc) > Len(g.desc) THEN h.desc ELSE g.desc
      /\ m = [at |-> m.at, locs |-> m.locs, banned |-> m.banned, active |-> m.active,
              foreign |-> m.foreign, desc |-> m.desc]
  <2>1. g = [at |-> g.at, locs |-> g.locs, banned |-> g.banned, active |-> g.active,
             foreign |-> g.foreign, desc |-> g.desc]
    BY DEF GroupSet
  <2> DEFINE lo == g.locs \o h.locs
             ba == g.banned \/ h.banned
             ac == g.active \/ h.active
             fo == g.foreign \/ h.foreign
             de == IF Len(h.desc) > Len(g.desc) THEN h.desc ELSE g.desc
  <2>2. m = [g EXCEPT !.locs = lo, !.banned = ba, !.active = ac, !.foreign = fo, !.desc = de]
    BY Zenon DEF Merge
  <2> HIDE DEF m, lo, ba, ac, fo, de
  <2>3. m = [at |-> g.at, locs |-> lo, banned |-> ba, active |-> ac, foreign |-> fo, desc |-> de]
    BY <2>1, <2>2
  <2>4. /\ m.at = g.at /\ m.locs = lo /\ m.banned = ba /\ m.active = ac
        /\ m.foreign = fo /\ m.desc = de
        /\ m = [at |-> m.at, locs |-> m.locs, banned |-> m.banned, active |-> m.active,
                foreign |-> m.foreign, desc |-> m.desc]
    BY <2>3
  <2> QED BY <2>4, Zenon DEF lo, ba, ac, fo, de
<1>2. /\ g.at \in Int /\ g.locs \in Seq(Records) /\ h.locs \in Seq(Records)
      /\ g.desc \in D /\ h.desc \in D
      /\ g.banned \in BOOLEAN /\ g.active \in BOOLEAN
      /\ h.banned \in BOOLEAN /\ h.active \in BOOLEAN
  BY DEF GroupSet
<1> HIDE DEF m
<1>3. m.banned \in BOOLEAN /\ m.active \in BOOLEAN /\ m.foreign \in BOOLEAN
  BY <1>1, Zenon
<1>4. m.at \in Int /\ m.locs \in Seq(Records) /\ m.desc \in D
  BY <1>1, <1>2
<1>5. m \in GroupSet(D)
  BY <1>1, <1>3, <1>4 DEF GroupSet
<1>6. Range(m.locs) = Range(g.locs) \cup Range(h.locs)
  BY <1>1, <1>2, ConcatFacts
<1>7. GroupPriority(m) >= GroupPriority(g) /\ GroupPriority(m) >= GroupPriority(h)
  <2>1. (g.banned => m.banned) /\ (h.banned => m.banned)
        /\ (g.active => m.active) /\ (h.active => m.active)
    BY <1>1
  <2>2. QED
    BY <2>1 DEF GroupPriority, Status, Rank
<1>8. QED
  BY <1>1, <1>5, <1>6, <1>7 DEF m

LEMMA PriorityIn == \A g : GroupPriority(g) \in 1 .. 3
  BY DEF GroupPriority, Status, Rank

-----------------------------------------------------------------------------
\* Gather takes the groups one by one.
LEMMA GatherSteps ==
  ASSUME NEW D, NEW s \in Seq(GroupSet(D)), NEW radius
  PROVE  \E g : /\ g[0] = <<>>
                /\ \A n \in Nat : n < Len(s) => g[n + 1] = Absorb(g[n], s[n + 1], radius)
                /\ Gather(s, radius) = g[Len(s)]
<1> DEFINE E == GroupSet(D)
           A(kept, x) == Absorb(kept, x, radius)
           F == [p \in Seq(E) \X E |-> A(p[1], p[2])]
           Table(iter) == iter = [S \in SUBSET DOMAIN s |->
                                    IF S = {} THEN <<>> ELSE A(iter[S \ {Max(S)}], s[Max(S)])]
           it == CHOOSE iter : Table(iter)
<1>1. s \in Seq(E) /\ Len(s) \in Nat /\ DOMAIN s = 1 .. Len(s) /\ \A i \in 1 .. Len(s) : s[i] \in E
  OBVIOUS
<1>2. Gather(s, radius) = it[DOMAIN s]
  BY DEF Gather, FoldLeft, MapThenFoldSet
<1>3. ASSUME NEW kept \in Seq(E), NEW x \in E PROVE A(kept, x) \in Seq(E)
  <2> DEFINE near == {i \in DOMAIN kept : Distance(kept[i].at, x.at) < radius}
  <2>1. CASE near = {}
    <3>1. A(kept, x) = Append(kept, x)
      BY <2>1 DEF Absorb
    <3> HIDE DEF E, A
    <3>2. QED
      BY <3>1
  <2>2. CASE near # {}
    <3>1. A(kept, x) = [kept EXCEPT ![Min(near)] = Merge(kept[Min(near)], x)]
      BY <2>2 DEF Absorb
    <3>2. near \in SUBSET (1 .. Len(kept)) /\ Len(kept) \in Nat /\ DOMAIN kept = 1 .. Len(kept)
      BY <1>3
    <3> HIDE DEF near
    <3>3. Min(near) \in 1 .. Len(kept)
      BY <2>2, <3>2, MinIn
    <3>4. kept[Min(near)] \in E
      BY <1>3, <3>3
    <3>5. Merge(kept[Min(near)], x) \in E
      BY <1>3, <3>4, MergeFacts
    <3> HIDE DEF E, A
    <3>6. QED
      BY <1>3, <3>1, <3>2, <3>3, <3>5
  <2>3. QED
    BY <2>1, <2>2
<1> HIDE DEF E, A
<1>4. F \in [Seq(E) \X E -> Seq(E)] /\ <<>> \in Seq(E)
  BY <1>3
<1>5. \A kept \in Seq(E), x \in E : F[<<kept, x>>] = A(kept, x)
  OBVIOUS
<1> HIDE DEF F
<1>6. PICK G \in [SUBSET DOMAIN s -> Seq(E)] : Unfolds(F, <<>>, s, G)
  <2> DEFINE T == Seq(E)
  <2>1. F \in [T \X E -> T] /\ <<>> \in T /\ s \in Seq(E)
    BY <1>1, <1>4
  <2> HIDE DEF T
  <2>2. \E G \in [SUBSET DOMAIN s -> T] : Unfolds(F, <<>>, s, G)
    BY <2>1, FoldTable
  <2>3. QED
    BY <2>2 DEF T
<1>7. Table(G)
  <2>1. \A S \in SUBSET DOMAIN s : S # {} =>
           G[S \ {Max(S)}] \in Seq(E) /\ s[Max(S)] \in E
    BY <1>1, <1>6, MaxIn
  <2>2. \A S \in SUBSET DOMAIN s :
           G[S] = IF S = {} THEN <<>> ELSE A(G[S \ {Max(S)}], s[Max(S)])
    BY <1>5, <1>6, <2>1 DEF Unfolds
  <2>3. QED
    BY <1>6, <2>2
<1>8. Table(it)
  <2> HIDE DEF Table
  <2> QED BY <1>7
<1>9. \A S \in SUBSET DOMAIN s :
         it[S] = IF S = {} THEN <<>> ELSE A(it[S \ {Max(S)}], s[Max(S)])
  <2> HIDE DEF it
  <2> QED BY <1>8
<1> HIDE DEF it
<1> DEFINE g == [n \in Nat |-> it[1 .. n]]
<1>10. g[0] = <<>>
  <2>1. 1 .. 0 = {} /\ {} \in SUBSET DOMAIN s
    OBVIOUS
  <2>2. QED
    BY <1>9, <2>1
<1>11. ASSUME NEW n \in Nat, n < Len(s) PROVE g[n + 1] = A(g[n], s[n + 1])
  <2>1. 1 .. (n + 1) \in SUBSET DOMAIN s
    BY <1>1, <1>11
  <2>2. 1 .. (n + 1) # {} /\ Max(1 .. (n + 1)) = n + 1 /\ (1 .. (n + 1)) \ {n + 1} = 1 .. n
    BY UpToFacts
  <2>3. it[1 .. (n + 1)] = A(it[1 .. n], s[n + 1])
    BY <1>9, <2>1, <2>2
  <2>4. QED
    BY <2>3
<1>12. Gather(s, radius) = g[Len(s)]
  BY <1>1, <1>2
<1> HIDE DEF g
<1>13. QED
  BY <1>10, <1>11, <1>12 DEF A

-----------------------------------------------------------------------------
(* A cluster is made of groups                                             *)

Apart(out, radius) ==
    \A i, j \in 1 .. Len(out) : i # j => Distance(out[i].at, out[j].at) >= radius

Divides(n, in, out, a, f) ==
    /\ a \in [1 .. n -> 1 .. Len(out)] /\ f \in [1 .. Len(out) -> 1 .. n]
    /\ \A m \in 1 .. n :
          /\ Range(in[m].locs) \subseteq Range(out[a[m]].locs)
          /\ GroupPriority(out[a[m]]) >= GroupPriority(in[m])
          /\ f[a[m]] <= m
    /\ \A i \in 1 .. Len(out) :
          /\ out[i].at = in[f[i]].at /\ a[f[i]] = i
          /\ \A l \in Range(out[i].locs) : \E m \in 1 .. n : a[m] = i /\ l \in Range(in[m].locs)

LEMMA AloneKeeps ==
  ASSUME NEW D, NEW in \in Seq(GroupSet(D)), NEW n \in Nat, n < Len(in), NEW radius \in Int,
         NEW out \in Seq(GroupSet(D)), NEW a, NEW f, Apart(out, radius), Divides(n, in, out, a, f),
         \A i \in 1 .. Len(out) : ~(Distance(out[i].at, in[n + 1].at) < radius)
  PROVE  LET new == Append(out, in[n + 1])
         IN /\ new \in Seq(GroupSet(D)) /\ Apart(new, radius)
            /\ \E b, e : Divides(n + 1, in, new, b, e)
<1> DEFINE E == GroupSet(D)
           h == in[n + 1]
           new == Append(out, h)
           L == Len(out)
           b == [m \in 1 .. (n + 1) |-> IF m = n + 1 THEN L + 1 ELSE a[m]]
           e == [i \in 1 .. (L + 1) |-> IF i = L + 1 THEN n + 1 ELSE f[i]]
<1>1. h \in E
  BY DEF E
<1>2. /\ new \in Seq(E) /\ Len(new) = L + 1 /\ L \in Nat /\ new[L + 1] = h
      /\ \A i \in 1 .. L : new[i] = out[i] /\ out[i] \in E
  <2> HIDE DEF E, h
  <2>1. out \in Seq(E)
    BY DEF E
  <2>2. QED
    BY <1>1, <2>1
<1>3. h.at \in Int /\ \A i \in 1 .. L : out[i].at \in Int
  BY <1>1, <1>2 DEF GroupSet
<1> HIDE DEF E, new
<1>4. \A i \in 1 .. (L + 1) : i \in 1 .. L \/ i = L + 1
  BY <1>2
<1>5. \A m \in 1 .. (n + 1) : m \in 1 .. n \/ m = n + 1
  OBVIOUS
<1>6. \A i \in 1 .. L : Distance(out[i].at, h.at) >= radius /\ Distance(h.at, out[i].at) >= radius
  BY <1>3 DEF Distance, Abs
<1>7. Apart(new, radius)
  <2>1. SUFFICES ASSUME NEW i \in 1 .. (L + 1), NEW j \in 1 .. (L + 1), i # j
                 PROVE  Distance(new[i].at, new[j].at) >= radius
    BY <1>2 DEF Apart
  <2>2. CASE i \in 1 .. L /\ j \in 1 .. L
    <3>1. Distance(out[i].at, out[j].at) >= radius
      BY <2>1, <2>2 DEF Apart
    <3>2. QED
      BY <1>2, <2>2, <3>1
  <2>3. CASE i = L + 1 /\ j \in 1 .. L
    BY <1>2, <1>6, <2>3
  <2>4. CASE i \in 1 .. L /\ j = L + 1
    BY <1>2, <1>6, <2>4
  <2>5. QED
    BY <1>4, <2>1, <2>2, <2>3, <2>4
<1>8. /\ a \in [1 .. n -> 1 .. L] /\ f \in [1 .. L -> 1 .. n]
      /\ \A m \in 1 .. n :
            /\ Range(in[m].locs) \subseteq Range(out[a[m]].locs)
            /\ GroupPriority(out[a[m]]) >= GroupPriority(in[m])
            /\ f[a[m]] <= m
      /\ \A i \in 1 .. L :
            /\ out[i].at = in[f[i]].at /\ a[f[i]] = i
            /\ \A l \in Range(out[i].locs) : \E m \in 1 .. n : a[m] = i /\ l \in Range(in[m].locs)
  BY DEF Divides
<1>9. /\ b \in [1 .. (n + 1) -> 1 .. (L + 1)] /\ e \in [1 .. (L + 1) -> 1 .. (n + 1)]
      /\ b[n + 1] = L + 1 /\ e[L + 1] = n + 1
      /\ \A m \in 1 .. n : m \in 1 .. (n + 1) /\ b[m] = a[m] /\ a[m] \in 1 .. L
      /\ \A i \in 1 .. L : i \in 1 .. (L + 1) /\ e[i] = f[i] /\ f[i] \in 1 .. n
  <2>1. \A m \in 1 .. n : a[m] \in 1 .. L
    BY <1>8
  <2>2. \A i \in 1 .. L : f[i] \in 1 .. n
    BY <1>8
  <2> HIDE DEF L
  <2>3. QED
    BY <1>2, <1>4, <1>5, <2>1, <2>2 DEF L
<1> HIDE DEF b, e, L
<1>10. ASSUME NEW m \in 1 .. (n + 1)
       PROVE  /\ Range(in[m].locs) \subseteq Range(new[b[m]].locs)
              /\ GroupPriority(new[b[m]]) >= GroupPriority(in[m])
              /\ e[b[m]] <= m
  <2>1. CASE m \in 1 .. n
    BY <1>2, <1>8, <1>9, <2>1
  <2>2. CASE m = n + 1
    <3>1. in[m] = h /\ b[m] = L + 1 /\ e[L + 1] = n + 1 /\ new[L + 1] = h
      BY <1>2, <1>9, <2>2
    <3> HIDE DEF h
    <3>2. GroupPriority(h) >= GroupPriority(h)
      BY PriorityIn
    <3>3. QED
      BY <2>2, <3>1, <3>2
  <2>3. QED
    BY <1>5, <2>1, <2>2
<1>11. ASSUME NEW i \in 1 .. (L + 1)
       PROVE  /\ new[i].at = in[e[i]].at /\ b[e[i]] = i
              /\ \A l \in Range(new[i].locs) :
                    \E m \in 1 .. (n + 1) : b[m] = i /\ l \in Range(in[m].locs)
  <2>1. CASE i \in 1 .. L
    <3>1. new[i].at = in[e[i]].at /\ b[e[i]] = i
      BY <1>2, <1>8, <1>9, <2>1, ZenonT(60)
    <3>2. ASSUME NEW l \in Range(new[i].locs)
          PROVE  \E m \in 1 .. (n + 1) : b[m] = i /\ l \in Range(in[m].locs)
      <4>1. PICK m \in 1 .. n : a[m] = i /\ l \in Range(in[m].locs)
        BY <1>2, <1>8, <2>1, <3>2
      <4>2. QED
        BY <1>9, <4>1
    <3>3. QED
      BY <3>1, <3>2
  <2>2. CASE i = L + 1
    <3>1. n + 1 \in 1 .. (n + 1)
      OBVIOUS
    <3>2. QED
      BY <1>2, <1>9, <2>2, <3>1
  <2>3. QED
    BY <1>4, <2>1, <2>2
<1>12. Divides(n + 1, in, new, b, e)
  BY <1>2, <1>9, <1>10, <1>11, ZenonT(60) DEF Divides
<1>13. QED
  BY <1>2, <1>7, <1>12 DEF E, new, h

LEMMA JoinKeeps ==
  ASSUME NEW D, NEW in \in Seq(GroupSet(D)), NEW n \in Nat, n < Len(in), NEW radius \in Int,
         NEW out \in Seq(GroupSet(D)), NEW a, NEW f, Apart(out, radius), Divides(n, in, out, a, f),
         NEW c \in 1 .. Len(out)
  PROVE  LET new == [out EXCEPT ![c] = Merge(out[c], in[n + 1])]
         IN /\ new \in Seq(GroupSet(D)) /\ Apart(new, radius)
            /\ \E b, e : Divides(n + 1, in, new, b, e)
<1> DEFINE E == GroupSet(D)
           h == in[n + 1]
           g == Merge(out[c], h)
           new == [out EXCEPT ![c] = g]
           L == Len(out)
           b == [m \in 1 .. (n + 1) |-> IF m = n + 1 THEN c ELSE a[m]]
<1>1. h \in E /\ out[c] \in E /\ L \in Nat
  BY DEF E
<1>2. /\ g \in E /\ g.at = out[c].at
      /\ Range(g.locs) = Range(out[c].locs) \cup Range(h.locs)
      /\ GroupPriority(g) >= GroupPriority(out[c]) /\ GroupPriority(g) >= GroupPriority(h)
  <2> DEFINE o == out[c]
  <2>1. h \in GroupSet(D) /\ o \in GroupSet(D)
    OBVIOUS
  <2> HIDE DEF h, o
  <2>2. /\ Merge(o, h) \in GroupSet(D) /\ Merge(o, h).at = o.at
        /\ Range(Merge(o, h).locs) = Range(o.locs) \cup Range(h.locs)
        /\ GroupPriority(Merge(o, h)) >= GroupPriority(o)
        /\ GroupPriority(Merge(o, h)) >= GroupPriority(h)
    BY <2>1, MergeFacts
  <2>3. QED
    BY <2>2 DEF o
<1>3. /\ new \in Seq(E) /\ Len(new) = L /\ new[c] = g
      /\ \A i \in 1 .. L : i # c => new[i] = out[i]
  <2> HIDE DEF E, h, g
  <2>1. out \in Seq(E)
    BY DEF E
  <2>2. QED
    BY <1>2, <2>1
<1> HIDE DEF E, h, g, new
<1>4. /\ \A i \in 1 .. L : /\ new[i].at = out[i].at
                           /\ GroupPriority(new[i]) >= GroupPriority(out[i])
                           /\ Range(out[i].locs) \subseteq Range(new[i].locs)
  <2>1. SUFFICES ASSUME NEW i \in 1 .. L
                 PROVE  /\ new[i].at = out[i].at
                        /\ GroupPriority(new[i]) >= GroupPriority(out[i])
                        /\ Range(out[i].locs) \subseteq Range(new[i].locs)
    OBVIOUS
  <2>2. CASE i = c
    BY <1>2, <1>3, <2>2
  <2>3. CASE i # c
    BY <1>3, <2>3, PriorityIn, SMTT(30)
  <2>4. QED
    BY <2>2, <2>3
<1>5. \A m \in 1 .. (n + 1) : m \in 1 .. n \/ m = n + 1
  OBVIOUS
<1>6. Apart(new, radius)
  BY <1>3, <1>4 DEF Apart
<1>7. /\ a \in [1 .. n -> 1 .. L] /\ f \in [1 .. L -> 1 .. n]
      /\ \A m \in 1 .. n :
            /\ Range(in[m].locs) \subseteq Range(out[a[m]].locs)
            /\ GroupPriority(out[a[m]]) >= GroupPriority(in[m])
            /\ f[a[m]] <= m
      /\ \A i \in 1 .. L :
            /\ out[i].at = in[f[i]].at /\ a[f[i]] = i
            /\ \A l \in Range(out[i].locs) : \E m \in 1 .. n : a[m] = i /\ l \in Range(in[m].locs)
  BY DEF Divides
<1>8. /\ b \in [1 .. (n + 1) -> 1 .. L] /\ f \in [1 .. L -> 1 .. (n + 1)]
      /\ b[n + 1] = c
      /\ \A m \in 1 .. n : m \in 1 .. (n + 1) /\ b[m] = a[m] /\ a[m] \in 1 .. L
      /\ \A i \in 1 .. L : f[i] \in 1 .. n
  <2>1. \A m \in 1 .. n : a[m] \in 1 .. L
    BY <1>7
  <2>2. \A i \in 1 .. L : f[i] \in 1 .. n
    BY <1>7
  <2>3. f \in [1 .. L -> 1 .. (n + 1)]
    BY <1>7
  <2> HIDE DEF L
  <2>4. QED
    BY <1>5, <2>1, <2>2, <2>3 DEF L
<1>9. c \in 1 .. L /\ in[n + 1] = h
  BY DEF h
<1> HIDE DEF b, L
<1>10. ASSUME NEW m \in 1 .. (n + 1)
       PROVE  /\ Range(in[m].locs) \subseteq Range(new[b[m]].locs)
              /\ GroupPriority(new[b[m]]) >= GroupPriority(in[m])
              /\ f[b[m]] <= m
  <2>1. CASE m \in 1 .. n
    <3>1. /\ Range(in[m].locs) \subseteq Range(out[a[m]].locs) /\ f[a[m]] <= m
          /\ GroupPriority(out[a[m]]) >= GroupPriority(in[m])
      BY <1>7, <2>1
    <3>2. /\ GroupPriority(new[a[m]]) >= GroupPriority(out[a[m]])
          /\ Range(out[a[m]].locs) \subseteq Range(new[a[m]].locs) /\ b[m] = a[m]
      BY <1>4, <1>8, <2>1
    <3>3. GroupPriority(new[a[m]]) >= GroupPriority(in[m])
      BY <3>1, <3>2, PriorityIn
    <3>4. QED
      BY <3>1, <3>2, <3>3
  <2>2. CASE m = n + 1
    <3>1. in[m] = h /\ b[m] = c /\ new[c] = g
      BY <1>3, <1>8, <1>9, <2>2
    <3>2. f[c] <= m
      BY <1>8, <1>9, <2>2
    <3>3. QED
      BY <1>2, <3>1, <3>2
  <2>3. QED
    BY <1>5, <2>1, <2>2
<1>11. ASSUME NEW i \in 1 .. L
       PROVE  /\ new[i].at = in[f[i]].at /\ b[f[i]] = i
              /\ \A l \in Range(new[i].locs) :
                    \E m \in 1 .. (n + 1) : b[m] = i /\ l \in Range(in[m].locs)
  <2>1. new[i].at = in[f[i]].at /\ b[f[i]] = i
    BY <1>4, <1>7, <1>8
  <2>2. ASSUME NEW l \in Range(new[i].locs)
        PROVE  \E m \in 1 .. (n + 1) : b[m] = i /\ l \in Range(in[m].locs)
    <3>1. CASE l \in Range(out[i].locs)
      <4>1. PICK m \in 1 .. n : a[m] = i /\ l \in Range(in[m].locs)
        BY <1>7, <3>1
      <4>2. QED
        BY <1>8, <4>1
    <3>2. CASE l \notin Range(out[i].locs)
      <4>1. i = c /\ l \in Range(h.locs)
        BY <1>2, <1>3, <2>2, <3>2
      <4>2. n + 1 \in 1 .. (n + 1)
        OBVIOUS
      <4>3. QED
        BY <1>8, <1>9, <4>1, <4>2
    <3>3. QED
      BY <3>1, <3>2
  <2>3. QED
    BY <2>1, <2>2
<1>12. Divides(n + 1, in, new, b, f)
  BY <1>3, <1>8, <1>10, <1>11 DEF Divides
<1>13. QED
  BY <1>3, <1>6, <1>12 DEF E, new, g, h

\* Lines 552-583: any groups are divided among clusters that are apart, and a
\* cluster stands where the first of its groups does.
LEMMA GatherFacts ==
  ASSUME NEW D, NEW s \in Seq(GroupSet(D)), NEW radius \in Int
  PROVE  /\ Gather(s, radius) \in Seq(GroupSet(D)) /\ Apart(Gather(s, radius), radius)
         /\ \E a, f : Divides(Len(s), s, Gather(s, radius), a, f)
<1> DEFINE Good(n, out) == /\ out \in Seq(GroupSet(D)) /\ Apart(out, radius)
                           /\ \E a, f : Divides(n, s, out, a, f)
<1>1. PICK g : /\ g[0] = <<>>
               /\ \A n \in Nat : n < Len(s) => g[n + 1] = Absorb(g[n], s[n + 1], radius)
               /\ Gather(s, radius) = g[Len(s)]
  BY GatherSteps
<1> DEFINE T == {n \in Nat : n <= Len(s) => Good(n, g[n])}
<1>2. Good(0, <<>>)
  <2>1. <<>> \in Seq(GroupSet(D)) /\ Len(<<>>) = 0 /\ 1 .. 0 = {}
    OBVIOUS
  <2>2. Divides(0, s, <<>>, <<>>, <<>>)
    BY <2>1 DEF Divides
  <2>3. QED
    BY <2>1, <2>2 DEF Apart
<1>3. ASSUME NEW n \in Nat, n < Len(s), Good(n, g[n]) PROVE Good(n + 1, g[n + 1])
  <2> DEFINE out == g[n]
             h == s[n + 1]
             near == {i \in DOMAIN out : Distance(out[i].at, h.at) < radius}
  <2>1. g[n + 1] = Absorb(out, h, radius)
    BY <1>1, <1>3
  <2>2. out \in Seq(GroupSet(D)) /\ Apart(out, radius) /\ \E a, f : Divides(n, s, out, a, f)
    BY <1>3
  <2>3. PICK a, f : Divides(n, s, out, a, f)
    BY <2>2
  <2>4. DOMAIN out = 1 .. Len(out) /\ Len(out) \in Nat
    BY <2>2
  <2>5. CASE near = {}
    <3>1. g[n + 1] = Append(out, h)
      BY <2>1, <2>5 DEF Absorb
    <3>2. \A i \in 1 .. Len(out) : ~(Distance(out[i].at, h.at) < radius)
      BY <2>4, <2>5
    <3> HIDE DEF out
    <3>3. QED
      BY <1>3, <2>2, <2>3, <3>1, <3>2, AloneKeeps
  <2>6. CASE near # {}
    <3>1. g[n + 1] = [out EXCEPT ![Min(near)] = Merge(out[Min(near)], h)]
      BY <2>1, <2>6 DEF Absorb
    <3>2. near \in SUBSET (1 .. Len(out))
      BY <2>4
    <3> HIDE DEF near, out
    <3>3. Min(near) \in 1 .. Len(out)
      BY <2>4, <2>6, <3>2, MinIn
    <3>4. h = s[n + 1]
      OBVIOUS
    <3> HIDE DEF h
    <3> DEFINE new == [out EXCEPT ![Min(near)] = Merge(out[Min(near)], h)]
    <3>5. /\ new \in Seq(GroupSet(D)) /\ Apart(new, radius)
          /\ \E b, e : Divides(n + 1, s, new, b, e)
      BY <1>3, <2>2, <2>3, <3>3, <3>4, JoinKeeps
    <3> HIDE DEF new
    <3>6. g[n + 1] = new
      BY <3>1 DEF new
    <3>7. QED
      BY <3>5, <3>6
  <2>7. QED
    BY <2>5, <2>6
<1> HIDE DEF Good
<1>4. 0 \in T
  BY <1>1, <1>2
<1>5. ASSUME NEW n \in Nat, n \in T PROVE n + 1 \in T
  BY <1>3, <1>5
<1> HIDE DEF T
<1>6. \A n \in Nat : n \in T
  BY <1>4, <1>5, SetInduction
<1>7. Good(Len(s), Gather(s, radius))
  <2>1. Len(s) \in Nat /\ Len(s) <= Len(s)
    OBVIOUS
  <2>2. QED
    BY <1>1, <1>6, <2>1 DEF T
<1>8. QED
  BY <1>7 DEF Good

-----------------------------------------------------------------------------
(* Sorting                                                                 *)

Once(q) == \A i, j \in 1 .. Len(q) : q[i] = q[j] => i = j
Descending(q, p) == \A i, j \in 1 .. Len(q) : i <= j => p[q[i]] >= p[q[j]]

LEMMA OnlyOnce ==
  ASSUME NEW E, NEW s \in Seq(E), NEW S, Once(s)
  PROVE  Once(Only(s, S))
<1>1. Only(s, S) \in Seq(E)
  BY OnlyFacts
<1>2. DOMAIN s = 1 .. Len(s) /\ DOMAIN Only(s, S) = 1 .. Len(Only(s, S))
  BY <1>1
<1>3. (\A i, j \in DOMAIN s : s[i] = s[j] => i = j) =>
         \A i, j \in DOMAIN Only(s, S) : Only(s, S)[i] = Only(s, S)[j] => i = j
  BY OnlyFacts
<1>4. QED
  BY <1>2, <1>3 DEF Once

LEMMA ConcatSorted ==
  ASSUME NEW E, NEW p \in [E -> 1 .. 3], NEW s \in Seq(E), NEW t \in Seq(E),
         Descending(s, p), Descending(t, p),
         \A x \in Range(s), y \in Range(t) : p[x] > p[y]
  PROVE  /\ Descending(s \o t, p)
         /\ Once(s) /\ Once(t) => Once(s \o t)
<1> DEFINE m == s \o t
           L == Len(s)
           K == Len(t)
<1>1. /\ m \in Seq(E) /\ Len(m) = L + K /\ L \in Nat /\ K \in Nat
      /\ \A i \in 1 .. L : m[i] = s[i]
      /\ \A i \in 1 .. K : m[L + i] = t[i]
  BY ConcatFacts
<1>2. \A i \in 1 .. L, j \in 1 .. K : p[s[i]] > p[t[j]]
  <2>1. \A i \in 1 .. L : s[i] \in Range(s)
    BY DEF Range
  <2>2. \A j \in 1 .. K : t[j] \in Range(t)
    BY DEF Range
  <2>3. QED
    BY <2>1, <2>2
<1>3. /\ \A i \in 1 .. L : s[i] \in E
      /\ \A i \in 1 .. K : t[i] \in E
      /\ \A x \in E : p[x] \in 1 .. 3
  OBVIOUS
<1>4. /\ \A i, j \in 1 .. L : i <= j => p[s[i]] >= p[s[j]]
      /\ \A i, j \in 1 .. K : i <= j => p[t[i]] >= p[t[j]]
  BY DEF Descending
<1> HIDE DEF m, L, K
<1>5. \A i \in 1 .. (L + K) : i \in 1 .. L \/ (i - L \in 1 .. K /\ m[i] = t[i - L])
  <2>1. SUFFICES ASSUME NEW i \in 1 .. (L + K), i \notin 1 .. L
                 PROVE  i - L \in 1 .. K /\ m[i] = t[i - L]
    OBVIOUS
  <2>2. i - L \in 1 .. K /\ L + (i - L) = i
    BY <1>1, <2>1
  <2>3. QED
    BY <1>1, <2>2
<1>6. ASSUME NEW i \in 1 .. (L + K), NEW j \in 1 .. (L + K), i <= j
      PROVE  p[m[i]] >= p[m[j]]
  <2>1. CASE i \in 1 .. L /\ j \in 1 .. L
    BY <1>1, <1>4, <1>6, <2>1
  <2>2. CASE i \in 1 .. L /\ j \notin 1 .. L
    <3>1. j - L \in 1 .. K /\ m[j] = t[j - L] /\ m[i] = s[i]
      BY <1>1, <1>5, <2>2
    <3>2. p[s[i]] > p[t[j - L]] /\ p[s[i]] \in 1 .. 3 /\ p[t[j - L]] \in 1 .. 3
      BY <1>2, <1>3, <2>2, <3>1
    <3>3. QED
      BY <3>1, <3>2
  <2>3. CASE i \notin 1 .. L
    <3>1. j \notin 1 .. L
      BY <1>1, <1>6, <2>3
    <3>2. i - L \in 1 .. K /\ m[i] = t[i - L] /\ j - L \in 1 .. K /\ m[j] = t[j - L]
      BY <1>5, <2>3, <3>1
    <3>3. i - L <= j - L
      BY <1>1, <1>6
    <3>4. QED
      BY <1>4, <3>2, <3>3
  <2>4. QED
    BY <2>1, <2>2, <2>3
<1>7. ASSUME Once(s), Once(t), NEW i \in 1 .. (L + K), NEW j \in 1 .. (L + K), m[i] = m[j]
      PROVE  i = j
  <2>1. CASE i \in 1 .. L /\ j \in 1 .. L
    BY <1>1, <1>7, <2>1 DEF Once, L
  <2>2. CASE i \in 1 .. L /\ j \notin 1 .. L
    <3>1. j - L \in 1 .. K /\ m[j] = t[j - L] /\ m[i] = s[i]
      BY <1>1, <1>5, <2>2
    <3>2. p[s[i]] > p[t[j - L]] /\ p[s[i]] \in 1 .. 3
      BY <1>2, <1>3, <2>2, <3>1
    <3>3. QED
      BY <1>7, <3>1, <3>2
  <2>3. CASE i \notin 1 .. L /\ j \in 1 .. L
    <3>1. i - L \in 1 .. K /\ m[i] = t[i - L] /\ m[j] = s[j]
      BY <1>1, <1>5, <2>3
    <3>2. p[s[j]] > p[t[i - L]] /\ p[s[j]] \in 1 .. 3 /\ p[t[i - L]] \in 1 .. 3
      BY <1>2, <1>3, <2>3, <3>1
    <3>3. p[s[j]] = p[t[i - L]]
      BY <1>7, <3>1
    <3>4. QED
      BY <3>2, <3>3
  <2>4. CASE i \notin 1 .. L /\ j \notin 1 .. L
    <3>1. i - L \in 1 .. K /\ m[i] = t[i - L] /\ j - L \in 1 .. K /\ m[j] = t[j - L]
      BY <1>5, <2>4
    <3>2. i - L = j - L
      BY <1>7, <3>1 DEF Once, K
    <3>3. QED
      BY <1>1, <3>2
  <2>5. QED
    BY <2>1, <2>2, <2>3, <2>4
<1>8. QED
  BY <1>1, <1>6, <1>7 DEF Descending, Once, m

\* A list put together from its elements of the third rank, of the second and
\* of the first is sorted and holds the same elements.
LEMMA RankedFacts ==
  ASSUME NEW E, NEW p \in [E -> 1 .. 3], NEW s \in Seq(E),
         NEW a, a = Only(s, {x \in Range(s) : p[x] = 3}),
         NEW b, b = Only(s, {x \in Range(s) : p[x] = 2}),
         NEW c, c = Only(s, {x \in Range(s) : p[x] = 1})
  PROVE  /\ a \o b \o c \in Seq(E)
         /\ Range(a \o b \o c) = Range(s)
         /\ Descending(a \o b \o c, p)
         /\ Once(s) => Once(a \o b \o c)
<1>1. /\ a \in Seq(E) /\ Range(a) = {x \in Range(s) : p[x] = 3}
      /\ b \in Seq(E) /\ Range(b) = {x \in Range(s) : p[x] = 2}
      /\ c \in Seq(E) /\ Range(c) = {x \in Range(s) : p[x] = 1}
  <2>1. \A S : Range(Only(s, S)) = Range(s) \cap S /\ Only(s, S) \in Seq(E)
    BY OnlyFacts
  <2>2. QED
    BY <2>1
<1>2. Once(s) => Once(a) /\ Once(b) /\ Once(c)
  BY OnlyOnce
<1>3. ASSUME NEW q \in Seq(E), NEW k \in 1 .. 3, \A x \in Range(q) : p[x] = k
      PROVE  Descending(q, p)
  <2>1. \A i \in 1 .. Len(q) : q[i] \in Range(q)
    BY DEF Range
  <2>2. QED
    BY <1>3, <2>1 DEF Descending
<1>4. Descending(a, p) /\ Descending(b, p) /\ Descending(c, p)
  BY <1>1, <1>3
<1>5. /\ a \o b \in Seq(E) /\ Range(a \o b) = Range(a) \cup Range(b)
      /\ (a \o b) \o c \in Seq(E) /\ Range((a \o b) \o c) = Range(a \o b) \cup Range(c)
  <2>1. \A u, v \in Seq(E) : u \o v \in Seq(E) /\ Range(u \o v) = Range(u) \cup Range(v)
    BY ConcatFacts
  <2>2. a \in Seq(E) /\ b \in Seq(E) /\ c \in Seq(E)
    BY <1>1
  <2>3. a \o b \in Seq(E) /\ Range(a \o b) = Range(a) \cup Range(b)
    BY <2>1, <2>2
  <2>4. QED
    BY <2>1, <2>2, <2>3
<1>6. Descending(a \o b, p) /\ (Once(a) /\ Once(b) => Once(a \o b))
  <2>1. \A x \in Range(a), y \in Range(b) : p[x] > p[y]
    BY <1>1
  <2>2. QED
    BY <1>1, <1>4, <2>1, ConcatSorted
<1>7. Descending((a \o b) \o c, p) /\ (Once(a \o b) /\ Once(c) => Once((a \o b) \o c))
  <2>1. \A x \in Range(a \o b), y \in Range(c) : p[x] > p[y]
    BY <1>1, <1>5
  <2>2. QED
    BY <1>1, <1>4, <1>5, <1>6, <2>1, ConcatSorted
<1>8. Range(a) \cup Range(b) \cup Range(c) = Range(s)
  <2>1. \A x \in Range(s) : x \in E
    BY DEF Range
  <2>2. \A x \in Range(s) : p[x] = 3 \/ p[x] = 2 \/ p[x] = 1
    BY <2>1
  <2>3. QED
    BY <1>1, <2>2
<1>9. QED
  BY <1>2, <1>5, <1>6, <1>7, <1>8

-----------------------------------------------------------------------------
Descs == {Desc(l, o.fields) : l \in Records, o \in Options}

LEMMA SingleFacts ==
  ASSUME NEW loc \in Records, NEW bans, NEW ips, NEW opts \in Options
  PROVE  /\ Single(loc, bans, ips, opts) \in GroupSet(Descs)
         /\ Range(Single(loc, bans, ips, opts).locs) = {loc}
<1>1. loc.at \in Int /\ loc.foreign \in BOOLEAN /\ opts.highlight \in BOOLEAN
  BY GlobeAssumption
<1> DEFINE ba == loc.ip \in bans
           ac == loc.ip \in ips
           fo == opts.highlight /\ loc.foreign
           de == Desc(loc, opts.fields)
           si == [at |-> loc.at, locs |-> <<loc>>, banned |-> ba, active |-> ac,
                  foreign |-> fo, desc |-> de]
<1>2. Single(loc, bans, ips, opts) = si
  BY Zenon DEF Single
<1>3. ba \in BOOLEAN /\ ac \in BOOLEAN /\ fo \in BOOLEAN
  <2>1. ba \in BOOLEAN
    OBVIOUS
  <2>2. ac \in BOOLEAN
    OBVIOUS
  <2>3. fo \in BOOLEAN
    OBVIOUS
  <2>4. QED
    BY <2>1, <2>2, <2>3
<1>4. de \in Descs
  BY DEF Descs
<1>5. <<loc>> \in Seq(Records) /\ Range(<<loc>>) = {loc}
  BY DEF Range
<1> HIDE DEF ba, ac, fo, de
<1>6. si \in GroupSet(Descs) /\ Range(si.locs) = {loc}
  BY <1>1, <1>3, <1>4, <1>5 DEF GroupSet
<1>7. QED
  BY <1>2, <1>6

\* Records are divided among places, and a place is as important as each of
\* its records.
LEMMA PlacesFacts ==
  ASSUME NEW recs \in Seq(Records), Once(recs), NEW bans, NEW ips, NEW opts \in Options,
         NEW ps, ps = PlacesOf(recs, bans, ips, opts)
  PROVE  /\ ps \in Seq(GroupSet(Descs)) /\ Apart(ps, 1)
         /\ \A i, j \in 1 .. Len(ps) : ps[i].at = ps[j].at => i = j
         /\ \A loc \in Range(recs) : \E i \in 1 .. Len(ps) : loc \in Range(ps[i].locs)
         /\ \A i \in 1 .. Len(ps) : \A loc \in Range(ps[i].locs) :
               /\ GroupPriority(ps[i]) >= GroupPriority(Single(loc, bans, ips, opts))
               /\ \A j \in 1 .. Len(ps) : loc \in Range(ps[j].locs) => i = j
<1> DEFINE si == [i \in DOMAIN recs |-> Single(recs[i], bans, ips, opts)]
<1>1. DOMAIN recs = 1 .. Len(recs) /\ Len(recs) \in Nat /\ \A i \in 1 .. Len(recs) : recs[i] \in Records
  OBVIOUS
<1>2. /\ si \in Seq(GroupSet(Descs)) /\ Len(si) = Len(recs)
      /\ \A i \in 1 .. Len(recs) : /\ si[i] = Single(recs[i], bans, ips, opts)
                                   /\ Range(si[i].locs) = {recs[i]}
  <2>1. \A i \in 1 .. Len(recs) : /\ Single(recs[i], bans, ips, opts) \in GroupSet(Descs)
                                  /\ Range(Single(recs[i], bans, ips, opts).locs) = {recs[i]}
    BY <1>1, SingleFacts
  <2> DEFINE G == GroupSet(Descs)
  <2>2. si \in [1 .. Len(recs) -> G]
    BY <1>1, <2>1
  <2>3. si \in Seq(G)
    <3> HIDE DEF si, G
    <3> QED BY <1>1, <2>2
  <2>4. Len(si) = Len(recs)
    <3> HIDE DEF si, G
    <3> QED BY <1>1, <2>2, <2>3
  <2>5. QED
    BY <1>1, <2>1, <2>3, <2>4
<1>3. ps = Gather(si, 1)
  BY DEF PlacesOf
<1> HIDE DEF si
<1>4. ps \in Seq(GroupSet(Descs)) /\ Apart(ps, 1) /\ \E a, f : Divides(Len(si), si, ps, a, f)
  BY <1>2, <1>3, GatherFacts
<1>5. PICK a, f : Divides(Len(recs), si, ps, a, f)
  BY <1>2, <1>4
<1>6. \A i, j \in 1 .. Len(ps) : ps[i].at = ps[j].at => i = j
  <2>1. \A i \in 1 .. Len(ps) : ps[i] \in GroupSet(Descs)
    BY <1>4
  <2>2. \A i \in 1 .. Len(ps) : ps[i].at \in Int
    BY <2>1 DEF GroupSet
  <2>3. \A x \in Int : Distance(x, x) = 0
    BY DEF Distance, Abs
  <2>4. QED
    BY <1>4, <2>2, <2>3 DEF Apart
<1>7. /\ a \in [1 .. Len(recs) -> 1 .. Len(ps)]
      /\ \A m \in 1 .. Len(recs) :
            /\ Range(si[m].locs) \subseteq Range(ps[a[m]].locs)
            /\ GroupPriority(ps[a[m]]) >= GroupPriority(si[m])
      /\ \A i \in 1 .. Len(ps) : \A l \in Range(ps[i].locs) :
            \E m \in 1 .. Len(recs) : a[m] = i /\ l \in Range(si[m].locs)
  BY <1>5 DEF Divides
<1>8. ASSUME NEW loc \in Range(recs)
      PROVE  \E i \in 1 .. Len(ps) : loc \in Range(ps[i].locs)
  <2>1. PICK m \in 1 .. Len(recs) : loc = recs[m]
    BY <1>1 DEF Range
  <2>2. a[m] \in 1 .. Len(ps) /\ loc \in Range(ps[a[m]].locs)
    <3>1. a[m] \in 1 .. Len(ps) /\ Range(si[m].locs) \subseteq Range(ps[a[m]].locs)
      BY <1>7
    <3>2. loc \in Range(si[m].locs)
      BY <1>2, <2>1
    <3>3. QED
      BY <3>1, <3>2
  <2>3. QED
    BY <2>2
<1>9. ASSUME NEW i \in 1 .. Len(ps), NEW loc \in Range(ps[i].locs)
      PROVE  /\ GroupPriority(ps[i]) >= GroupPriority(Single(loc, bans, ips, opts))
             /\ \A j \in 1 .. Len(ps) : loc \in Range(ps[j].locs) => i = j
  <2>1. PICK m \in 1 .. Len(recs) : a[m] = i /\ loc \in Range(si[m].locs)
    BY <1>7
  <2>2. loc = recs[m] /\ si[m] = Single(loc, bans, ips, opts)
    BY <1>2, <2>1
  <2>3. GroupPriority(ps[i]) >= GroupPriority(Single(loc, bans, ips, opts))
    BY <1>7, <2>1, <2>2
  <2>4. ASSUME NEW j \in 1 .. Len(ps), loc \in Range(ps[j].locs) PROVE i = j
    <3>1. PICK k \in 1 .. Len(recs) : a[k] = j /\ loc \in Range(si[k].locs)
      <4>1. \A n \in 1 .. Len(ps) : \A l \in Range(ps[n].locs) :
               \E k \in 1 .. Len(recs) : a[k] = n /\ l \in Range(si[k].locs)
        BY <1>7
      <4>2. QED
        BY <2>4, <4>1
    <3>2. loc = recs[k]
      BY <1>2, <3>1
    <3>3. k = m
      BY <2>2, <3>2 DEF Once
    <3>4. QED
      BY <2>1, <3>1, <3>3
  <2>5. QED
    BY <2>3, <2>4
<1>10. QED
  BY <1>4, <1>6, <1>8, <1>9

LEMMA ByPriorityFacts ==
  ASSUME NEW E, NEW s \in Seq(E), NEW sp, sp = ByPriority(s)
  PROVE  /\ sp \in Seq(E) /\ Range(sp) = Range(s)
         /\ \A i, j \in 1 .. Len(sp) : i <= j => GroupPriority(sp[i]) >= GroupPriority(sp[j])
         /\ Once(s) => Once(sp)
<1> DEFINE p == [g \in E |-> GroupPriority(g)]
           a == Only(s, {g \in Range(s) : p[g] = 3})
           b == Only(s, {g \in Range(s) : p[g] = 2})
           c == Only(s, {g \in Range(s) : p[g] = 1})
<1>1. p \in [E -> 1 .. 3] /\ \A g \in E : p[g] = GroupPriority(g)
  BY PriorityIn
<1>2. \A g \in Range(s) : g \in E
  BY DEF Range
<1>3. \A k : {g \in Range(s) : GroupPriority(g) = k} = {g \in Range(s) : p[g] = k}
  BY <1>1, <1>2
<1>4. sp = a \o b \o c
  BY <1>3 DEF ByPriority
<1>9. /\ a = Only(s, {g \in Range(s) : p[g] = 3})
      /\ b = Only(s, {g \in Range(s) : p[g] = 2})
      /\ c = Only(s, {g \in Range(s) : p[g] = 1})
  OBVIOUS
<1> HIDE DEF p, a, b, c
<1>5. /\ a \o b \o c \in Seq(E) /\ Range(a \o b \o c) = Range(s)
      /\ Descending(a \o b \o c, p)
      /\ Once(s) => Once(a \o b \o c)
  BY <1>1, <1>9, RankedFacts
<1>6. \A i \in 1 .. Len(sp) : sp[i] \in E
  BY <1>4, <1>5
<1>7. QED
  BY <1>1, <1>4, <1>5, <1>6 DEF Descending

\* What the store holds: records that the backend may send, none twice.
StoreOk == records \in Seq(Records) /\ Once(records) /\ options \in Options

LEMMA ClusteredFacts ==
  ASSUME StoreOk
  PROVE  ClustersApart /\ Clustered \in Seq(GroupSet(Descs))
<1> DEFINE G == GroupSet(Descs)
           one(loc) == Single(loc, banned, ActiveIps, options)
           ps == PlacesOf(records, banned, ActiveIps, options)
           sp == ByPriority(ps)
           gs == Clustered
<1>1. records \in Seq(Records) /\ Once(records) /\ options \in Options /\ options.cluster \in Int
  BY GlobeAssumption DEF StoreOk
<1>2. /\ ps \in Seq(GroupSet(Descs)) /\ Apart(ps, 1)
      /\ \A i, j \in 1 .. Len(ps) : ps[i].at = ps[j].at => i = j
      /\ \A loc \in Range(records) : \E i \in 1 .. Len(ps) : loc \in Range(ps[i].locs)
      /\ \A i \in 1 .. Len(ps) : \A loc \in Range(ps[i].locs) :
            /\ GroupPriority(ps[i]) >= GroupPriority(one(loc))
            /\ \A j \in 1 .. Len(ps) : loc \in Range(ps[j].locs) => i = j
  <2>1. ps = PlacesOf(records, banned, ActiveIps, options)
    OBVIOUS
  <2> HIDE DEF ps
  <2>2. QED
    BY <1>1, <2>1, PlacesFacts
<1>3. gs = IF options.cluster > 0 THEN Gather(sp, options.cluster) ELSE ps
  BY DEF Clustered, GroupsOf
<1>4. ASSUME gs \in Seq(G),
             \A i, j \in 1 .. Len(gs) : i # j => Distance(gs[i].at, gs[j].at) >= options.cluster,
             \A loc \in Range(records) :
                \E i \in 1 .. Len(gs) :
                   /\ loc \in Range(gs[i].locs)
                   /\ \A j \in 1 .. Len(gs) : loc \in Range(gs[j].locs) => i = j
                   /\ \A k \in 1 .. Len(ps) :
                         ps[k].at = gs[i].at => GroupPriority(ps[k]) >= GroupPriority(one(loc))
      PROVE  ClustersApart
  <2>1. DOMAIN gs = 1 .. Len(gs)
    <3> HIDE DEF G, gs
    <3> QED BY <1>4
  <2>2. DOMAIN ps = 1 .. Len(ps)
    <3> HIDE DEF ps
    <3> QED BY <1>2
  <2> QED BY <1>4, <2>1, <2>2 DEF ClustersApart
<1> HIDE DEF gs, ps, one
<1>5. CASE options.cluster > 0
  <2>1. gs = Gather(sp, options.cluster)
    BY <1>3, <1>5
  <2>2. /\ sp \in Seq(GroupSet(Descs)) /\ Range(sp) = Range(ps)
        /\ \A i, j \in 1 .. Len(sp) : i <= j => GroupPriority(sp[i]) >= GroupPriority(sp[j])
        /\ Once(ps) => Once(sp)
    BY <1>2, ByPriorityFacts
  <2> HIDE DEF sp
  <2>3. Once(sp)
    <3>1. Once(ps)
      BY <1>2 DEF Once
    <3>2. QED
      BY <2>2, <3>1
  <2>4. /\ gs \in Seq(GroupSet(Descs)) /\ Apart(gs, options.cluster)
        /\ \E a, f : Divides(Len(sp), sp, gs, a, f)
    BY <1>1, <2>1, <2>2, GatherFacts
  <2>5. PICK a, f : Divides(Len(sp), sp, gs, a, f)
    BY <2>4
  <2>6. /\ a \in [1 .. Len(sp) -> 1 .. Len(gs)] /\ f \in [1 .. Len(gs) -> 1 .. Len(sp)]
        /\ \A m \in 1 .. Len(sp) : Range(sp[m].locs) \subseteq Range(gs[a[m]].locs) /\ f[a[m]] <= m
        /\ \A i \in 1 .. Len(gs) :
              /\ gs[i].at = sp[f[i]].at
              /\ \A l \in Range(gs[i].locs) :
                    \E m \in 1 .. Len(sp) : a[m] = i /\ l \in Range(sp[m].locs)
    BY <2>5 DEF Divides
  <2>7. /\ DOMAIN sp = 1 .. Len(sp) /\ DOMAIN ps = 1 .. Len(ps)
    BY <1>2, <2>2
  <2>8. \A m \in 1 .. Len(sp) : \E k \in 1 .. Len(ps) : sp[m] = ps[k]
    <3>1. \A m \in 1 .. Len(sp) : sp[m] \in Range(sp)
      BY <2>7 DEF Range
    <3>2. QED
      BY <2>2, <2>7, <3>1 DEF Range
  <2>9. \A k \in 1 .. Len(ps) : \E m \in 1 .. Len(sp) : sp[m] = ps[k]
    <3>1. \A k \in 1 .. Len(ps) : ps[k] \in Range(ps)
      BY <2>7 DEF Range
    <3>2. QED
      BY <2>2, <2>7, <3>1 DEF Range
  <2>10. \A m, n \in 1 .. Len(sp) : sp[m].at = sp[n].at => m = n
    <3>1. SUFFICES ASSUME NEW m \in 1 .. Len(sp), NEW n \in 1 .. Len(sp), sp[m].at = sp[n].at
                   PROVE  m = n
      OBVIOUS
    <3>2. PICK j \in 1 .. Len(ps) : sp[m] = ps[j]
      BY <2>8
    <3>3. PICK k \in 1 .. Len(ps) : sp[n] = ps[k]
      BY <2>8
    <3>4. j = k
      BY <1>2, <3>1, <3>2, <3>3
    <3>5. QED
      BY <2>3, <3>2, <3>3, <3>4 DEF Once
  <2>11. \A m, n \in 1 .. Len(sp) : \A loc \in Range(sp[m].locs) : loc \in Range(sp[n].locs) => m = n
    <3>1. SUFFICES ASSUME NEW m \in 1 .. Len(sp), NEW n \in 1 .. Len(sp),
                          NEW loc \in Range(sp[m].locs), loc \in Range(sp[n].locs)
                   PROVE  m = n
      OBVIOUS
    <3>2. PICK j \in 1 .. Len(ps) : sp[m] = ps[j]
      BY <2>8
    <3>3. PICK k \in 1 .. Len(ps) : sp[n] = ps[k]
      BY <2>8
    <3>4. j = k
      BY <1>2, <3>1, <3>2, <3>3
    <3>5. QED
      BY <2>10, <3>2, <3>3, <3>4
  <2>12. ASSUME NEW loc \in Range(records)
         PROVE  \E i \in 1 .. Len(gs) :
                   /\ loc \in Range(gs[i].locs)
                   /\ \A j \in 1 .. Len(gs) : loc \in Range(gs[j].locs) => i = j
                   /\ \A k \in 1 .. Len(ps) :
                         ps[k].at = gs[i].at => GroupPriority(ps[k]) >= GroupPriority(one(loc))
    <3>1. PICK k0 \in 1 .. Len(ps) : loc \in Range(ps[k0].locs)
      BY <1>2
    <3>2. PICK m \in 1 .. Len(sp) : sp[m] = ps[k0]
      BY <2>9
    <3>3. a[m] \in 1 .. Len(gs) /\ loc \in Range(gs[a[m]].locs)
      <4>1. a[m] \in 1 .. Len(gs) /\ Range(sp[m].locs) \subseteq Range(gs[a[m]].locs)
        BY <2>6
      <4>2. QED
        BY <3>1, <3>2, <4>1
    <3>4. ASSUME NEW j \in 1 .. Len(gs), loc \in Range(gs[j].locs) PROVE a[m] = j
      <4>1. PICK n \in 1 .. Len(sp) : a[n] = j /\ loc \in Range(sp[n].locs)
        BY <2>6, <3>4
      <4>2. m = n
        BY <2>11, <3>1, <3>2, <4>1
      <4>3. QED
        BY <4>1, <4>2
    <3>5. ASSUME NEW k \in 1 .. Len(ps), ps[k].at = gs[a[m]].at
          PROVE  GroupPriority(ps[k]) >= GroupPriority(one(loc))
      <4>1. PICK n \in 1 .. Len(sp) : sp[n] = ps[k]
        BY <2>9
      <4>2. f[a[m]] \in 1 .. Len(sp) /\ f[a[m]] <= m /\ gs[a[m]].at = sp[f[a[m]]].at
        BY <2>6, <3>3
      <4>3. n = f[a[m]]
        BY <2>10, <3>5, <4>1, <4>2
      <4>4. GroupPriority(sp[n]) >= GroupPriority(sp[m])
        BY <2>2, <4>2, <4>3
      <4>5. GroupPriority(ps[k0]) >= GroupPriority(one(loc))
        BY <1>2, <3>1
      <4>6. QED
        BY <3>2, <4>1, <4>4, <4>5, PriorityIn
    <3>6. QED
      BY <3>3, <3>4, <3>5
  <2>13. \A i, j \in 1 .. Len(gs) : i # j => Distance(gs[i].at, gs[j].at) >= options.cluster
    BY <2>4 DEF Apart
  <2>14. QED
    BY <1>4, <2>4, <2>12, <2>13 DEF gs
<1>6. CASE ~(options.cluster > 0)
  <2>1. gs = ps
    BY <1>3, <1>6
  <2>2. ASSUME NEW i \in 1 .. Len(gs), NEW j \in 1 .. Len(gs), i # j
        PROVE  Distance(gs[i].at, gs[j].at) >= options.cluster
    <3>1. Distance(ps[i].at, ps[j].at) >= 1
      BY <1>2, <2>1, <2>2 DEF Apart
    <3>2. ps[i] \in GroupSet(Descs) /\ ps[j] \in GroupSet(Descs)
      BY <1>2, <2>1
    <3>3. Distance(ps[i].at, ps[j].at) \in Int
      BY <3>2 DEF GroupSet, Distance, Abs
    <3>4. QED
      BY <1>1, <1>6, <2>1, <3>1, <3>3
  <2>3. ASSUME NEW loc \in Range(records)
        PROVE  \E i \in 1 .. Len(gs) :
                   /\ loc \in Range(gs[i].locs)
                   /\ \A j \in 1 .. Len(gs) : loc \in Range(gs[j].locs) => i = j
                   /\ \A k \in 1 .. Len(ps) :
                         ps[k].at = gs[i].at => GroupPriority(ps[k]) >= GroupPriority(one(loc))
    <3>1. PICK i \in 1 .. Len(ps) : loc \in Range(ps[i].locs)
      BY <1>2
    <3>2. /\ GroupPriority(ps[i]) >= GroupPriority(one(loc))
          /\ \A j \in 1 .. Len(ps) : loc \in Range(ps[j].locs) => i = j
      BY <1>2, <3>1
    <3>3. \A k \in 1 .. Len(ps) : ps[k].at = ps[i].at => k = i
      BY <1>2
    <3>4. QED
      BY <2>1, <3>1, <3>2, <3>3
  <2>4. gs \in Seq(G)
    BY <1>2, <2>1
  <2>5. QED
    BY <1>4, <2>2, <2>3, <2>4 DEF gs
<1>7. QED
  BY <1>5, <1>6 DEF gs

\* A list with another element that it did not hold.
LEMMA AppendOnce ==
  ASSUME NEW E, NEW s \in Seq(E), Once(s), NEW x \in E \ Range(s)
  PROVE  Append(s, x) \in Seq(E) /\ Once(Append(s, x)) /\ <<x>> \in Seq(E) /\ Once(<<x>>)
<1>1. /\ Append(s, x) \in Seq(E) /\ Len(Append(s, x)) = Len(s) + 1 /\ Len(s) \in Nat
      /\ \A i \in 1 .. Len(s) : Append(s, x)[i] = s[i]
      /\ Append(s, x)[Len(s) + 1] = x
  OBVIOUS
<1>2. \A i \in 1 .. Len(s) : s[i] # x
  BY DEF Range
<1>3. \A i \in 1 .. (Len(s) + 1) : i \in 1 .. Len(s) \/ i = Len(s) + 1
  BY <1>1
<1>4. Once(Append(s, x))
  BY <1>1, <1>2, <1>3 DEF Once
<1>5. <<x>> \in Seq(E) /\ Once(<<x>>)
  BY DEF Once
<1>6. QED
  BY <1>1, <1>4, <1>5

LEMMA InitStore == Init => StoreOk
<1>1. <<>> \in Seq(Records) /\ Once(<<>>)
  BY DEF Once
<1>2. QED
  BY <1>1 DEF Init, StoreOk

LEMMA StepStore == StoreOk /\ [Next]_vars => StoreOk'
<1> SUFFICES ASSUME StoreOk, [Next]_vars PROVE StoreOk'
  OBVIOUS
<1>1. CASE \E rec \in Records \ Range(records) : SetInit(<<rec>>) \/ AddNewIp(rec)
  <2>1. PICK rec \in Records \ Range(records) : SetInit(<<rec>>) \/ AddNewIp(rec)
    BY <1>1
  <2>2. /\ Append(records, rec) \in Seq(Records) /\ Once(Append(records, rec))
        /\ <<rec>> \in Seq(Records) /\ Once(<<rec>>)
    BY <2>1, AppendOnce DEF StoreOk
  <2>3. QED
    BY <2>1, <2>2 DEF StoreOk, SetInit, AddNewIp
<1>2. CASE UNCHANGED <<records, options>>
  BY <1>2 DEF StoreOk
<1>3. CASE StoreChanges
  BY <1>1, <1>2, <1>3 DEF StoreChanges, SetActive, SetBanned
<1>4. CASE \E o \in Options : SetOptions(o)
  BY <1>4 DEF SetOptions, StoreOk
<1>5. CASE \E s \in Servers : MoveServer(s)
  BY <1>2, <1>5 DEF MoveServer
<1>6. CASE \E c \in Cameras : MoveCamera(c)
  BY <1>2, <1>6 DEF MoveCamera, input
<1>7. CASE Render \/ Declutter
  BY <1>2, <1>7 DEF Render, Declutter, input
<1>8. CASE UNCHANGED vars
  BY <1>2, <1>8 DEF vars, input
<1> QED BY <1>3, <1>4, <1>5, <1>6, <1>7, <1>8 DEF Next

\* For any records, places, settings and radius (lines 552-583 of
\* CesiumGlobe.tsx): clusters divide the records among them, are as far apart
\* as the setting says, and the place whose position a cluster takes is at
\* least as important as every record in it.
THEOREM ClustersAlwaysApart == Spec => []ClustersApart
<1>1. Spec => []StoreOk
  BY InitStore, StepStore, PTL DEF Spec
<1>2. StoreOk => ClustersApart
  BY ClusteredFacts
<1> QED BY <1>1, <1>2, PTL

-----------------------------------------------------------------------------
(* The scene.  How the groups are made and which of them have an arc does  *)
(* not matter here: GroupsOf and Representatives are never expanded.       *)

\* What every point says agrees with itself, and every arc wears the glow or
\* the crosses of its state and no others.
PointsAgree ==
    \A k \in DOMAIN points :
        points[k] = [state |-> points[k].state, label |-> points[k].label,
                     priority |-> Rank(points[k].state.status)]

ArcsAreDressed ==
    /\ glows = {k \in DOMAIN lines : NeedsGlow(lines[k])}
    /\ crosses = {k \in DOMAIN lines : NeedsCrosses(lines[k])}

SceneInv == PointsAgree /\ ArcsAreDressed /\ ClickFindsGroup /\ SceneIsFresh

-----------------------------------------------------------------------------
\* The groups depend on the store and the settings only.
LEMMA SameGroups == UNCHANGED input => Clustered' = Clustered
  BY DEF input, Clustered, ActiveIps

LEMMA PointShape ==
  ASSUME NEW g, NEW p, p = PointOf(g)
  PROVE  p = [state |-> p.state, label |-> p.label, priority |-> Rank(p.state.status)]
<1>1. PointOf(g) = [state |-> StateOf(g), label |-> LabelOf(g), priority |-> Rank(Status(g))]
  BY DEF PointOf, GroupPriority
<1>2. p.state = StateOf(g) /\ p.label = LabelOf(g) /\ StateOf(g).status = Status(g)
  BY <1>1 DEF StateOf
<1> QED BY <1>1, <1>2

-----------------------------------------------------------------------------
\* A point that stays is the one that would be built.
LEMMA PointsRendered ==
  ASSUME NEW gs, PointsAgree, RenderPoints(gs)
  PROVE  points' = [k \in Keys(gs) |-> PointOf(GroupAt(gs, k))]
<1> DEFINE wanted == [k \in Keys(gs) |-> PointOf(GroupAt(gs, k))]
           kept == {k \in Keys(gs) : KeptPoint(k, wanted[k])}
<1>1. points' = [k \in Keys(gs) |-> IF k \in kept THEN points[k] ELSE wanted[k]]
  BY DEF RenderPoints
<1>2. ASSUME NEW k \in kept PROVE points[k] = wanted[k]
  <2>1. k \in DOMAIN points /\ points[k].state = wanted[k].state /\ points[k].label = wanted[k].label
    BY DEF KeptPoint
  <2>2. points[k] = [state |-> points[k].state, label |-> points[k].label,
                     priority |-> Rank(points[k].state.status)]
    BY <2>1 DEF PointsAgree
  <2>3. wanted[k] = PointOf(GroupAt(gs, k))
    OBVIOUS
  <2>4. wanted[k] = [state |-> wanted[k].state, label |-> wanted[k].label,
                     priority |-> Rank(wanted[k].state.status)]
    <3> HIDE DEF wanted
    <3> QED BY <2>3, PointShape
  <2> HIDE DEF wanted
  <2> QED BY <2>1, <2>2, <2>4
<1>3. points' = [k \in Keys(gs) |-> wanted[k]]
  <2> HIDE DEF wanted, kept
  <2> QED BY <1>1, <1>2
<1> QED BY <1>3

\* An arc that stays has the state, the glow and the crosses that are wanted.
LEMMA ArcsRendered ==
  ASSUME NEW gs, ArcsAreDressed, RenderArcs(gs)
  PROVE  LET drawn == ShouldDrawArc(gs)
             state == [k \in drawn |-> StateOf(GroupAt(gs, k))]
         IN /\ lines' = state
            /\ glows' = {k \in drawn : NeedsGlow(state[k])}
            /\ crosses' = {k \in drawn : NeedsCrosses(state[k])}
<1> DEFINE drawn == ShouldDrawArc(gs)
           wanted == [k \in drawn |-> StateOf(GroupAt(gs, k))]
           kept == {k \in drawn : KeptArc(k, wanted[k])}
           built == drawn \ kept
<1>1. /\ lines' = [k \in drawn |-> IF k \in kept THEN lines[k] ELSE wanted[k]]
      /\ glows' = (glows \cap {k \in kept : NeedsGlow(wanted[k])})
                    \cup {k \in built : NeedsGlow(wanted[k])}
      /\ crosses' = (crosses \cap {k \in kept : NeedsCrosses(wanted[k])})
                      \cup {k \in built : NeedsCrosses(wanted[k])}
  BY DEF RenderArcs
<1>2. ASSUME NEW k \in kept
      PROVE  /\ k \in drawn /\ k \in DOMAIN lines /\ lines[k] = wanted[k]
             /\ NeedsGlow(wanted[k]) => k \in glows
             /\ NeedsCrosses(wanted[k]) => k \in crosses
  <2>1. /\ k \in drawn /\ k \in DOMAIN lines /\ lines[k] = wanted[k]
        /\ NeedsGlow(wanted[k]) => k \in glows
    BY DEF KeptArc
  <2> HIDE DEF wanted, drawn, kept
  <2> QED BY <2>1 DEF ArcsAreDressed
<1>3. DOMAIN wanted = drawn /\ wanted = [k \in drawn |-> wanted[k]]
  OBVIOUS
<1>4. lines' = wanted
  <2> HIDE DEF wanted, drawn, kept
  <2> QED BY <1>1, <1>2, <1>3
<1>5. kept \subseteq drawn
  OBVIOUS
<1>6. glows' = {k \in drawn : NeedsGlow(wanted[k])}
  <2>1. built = drawn \ kept
    OBVIOUS
  <2> HIDE DEF wanted, drawn, kept, built
  <2> QED BY <1>1, <1>2, <1>5, <2>1
<1>7. crosses' = {k \in drawn : NeedsCrosses(wanted[k])}
  <2>1. built = drawn \ kept
    OBVIOUS
  <2> HIDE DEF wanted, drawn, kept, built
  <2> QED BY <1>1, <1>2, <1>5, <2>1
<1> QED BY <1>4, <1>6, <1>7

-----------------------------------------------------------------------------
LEMMA InitScene == Init => SceneInv
  BY DEF Init, SceneInv, PointsAgree, ArcsAreDressed, ClickFindsGroup, SceneIsFresh

LEMMA RenderKeeps == SceneInv /\ Render => SceneInv'
<1> SUFFICES ASSUME SceneInv, Render PROVE SceneInv'
  OBVIOUS
<1>1. /\ UNCHANGED input /\ groups' = Clustered
      /\ RenderPoints(Clustered) /\ RenderArcs(Clustered)
  BY DEF Render
<1>2. /\ points' = [k \in Keys(Clustered) |-> PointOf(GroupAt(Clustered, k))]
  BY <1>1, PointsRendered DEF SceneInv
<1>3. /\ lines' = [k \in ShouldDrawArc(Clustered) |-> StateOf(GroupAt(Clustered, k))]
      /\ glows' = {k \in ShouldDrawArc(Clustered) :
                       NeedsGlow([j \in ShouldDrawArc(Clustered) |-> StateOf(GroupAt(Clustered, j))][k])}
      /\ crosses' = {k \in ShouldDrawArc(Clustered) :
                       NeedsCrosses([j \in ShouldDrawArc(Clustered) |-> StateOf(GroupAt(Clustered, j))][k])}
  BY <1>1, ArcsRendered DEF SceneInv
<1>4. Clustered' = Clustered /\ ShouldDrawArc(Clustered)' = ShouldDrawArc(Clustered)
  BY <1>1, SameGroups DEF input, ShouldDrawArc
<1>5. PointsAgree'
  <2> SUFFICES ASSUME NEW k \in DOMAIN points'
               PROVE  points'[k] = [state |-> points'[k].state, label |-> points'[k].label,
                                    priority |-> Rank(points'[k].state.status)]
    BY DEF PointsAgree
  <2>1. points'[k] = PointOf(GroupAt(Clustered, k))
    BY <1>2
  <2> QED BY <2>1, PointShape
<1>6. ArcsAreDressed'
  BY <1>3 DEF ArcsAreDressed
<1>7. ClickFindsGroup'
  BY <1>1, <1>2 DEF ClickFindsGroup, Keys
<1>8. SceneIsFresh'
  BY <1>2, <1>3, <1>4 DEF SceneIsFresh
<1> QED BY <1>5, <1>6, <1>7, <1>8 DEF SceneInv

\* A step that leaves the store, the settings and the scene alone.
LEMMA SceneStays == SceneInv /\ UNCHANGED <<input, dirty, scene>> => SceneInv'
<1> SUFFICES ASSUME SceneInv, UNCHANGED <<input, dirty, scene>> PROVE SceneInv'
  OBVIOUS
<1>1. Clustered' = Clustered /\ ShouldDrawArc(Clustered)' = ShouldDrawArc(Clustered)
  BY SameGroups DEF input, ShouldDrawArc
<1>2. PointsAgree' /\ ArcsAreDressed' /\ ClickFindsGroup'
  BY DEF SceneInv, PointsAgree, ArcsAreDressed, ClickFindsGroup, scene
<1>3. SceneIsFresh'
  BY <1>1 DEF SceneInv, SceneIsFresh, scene
<1> QED BY <1>2, <1>3 DEF SceneInv

\* A step that asks for a new run of the effect and leaves the scene alone.
LEMMA DirtyStays == SceneInv /\ dirty' = TRUE /\ UNCHANGED scene => SceneInv'
  BY DEF SceneInv, PointsAgree, ArcsAreDressed, ClickFindsGroup, SceneIsFresh, scene

LEMMA MoveKeeps == ASSUME NEW s, SceneInv, MoveServer(s) PROVE SceneInv'
  BY DEF MoveServer, SceneInv, PointsAgree, ArcsAreDressed, ClickFindsGroup, SceneIsFresh

LEMMA StepScene == SceneInv /\ [Next]_vars => SceneInv'
<1> SUFFICES ASSUME SceneInv, [Next]_vars PROVE SceneInv'
  OBVIOUS
<1>1. CASE StoreChanges
  BY <1>1, DirtyStays DEF StoreChanges, SetInit, AddNewIp, SetActive, SetBanned
<1>2. CASE \E o \in Options : SetOptions(o)
  BY <1>2, DirtyStays DEF SetOptions
<1>3. CASE \E s \in Servers : MoveServer(s)
  BY <1>3, MoveKeeps
<1>4. CASE \E c \in Cameras : MoveCamera(c)
  BY <1>4, SceneStays DEF MoveCamera
<1>5. CASE Render
  BY <1>5, RenderKeeps
<1>6. CASE Declutter
  BY <1>6, SceneStays DEF Declutter
<1>7. CASE UNCHANGED vars
  BY <1>7, SceneStays DEF vars
<1> QED BY <1>1, <1>2, <1>3, <1>4, <1>5, <1>6, <1>7 DEF Next

LEMMA SceneHolds == Spec => []SceneInv
  BY InitScene, StepScene, PTL DEF Spec

-----------------------------------------------------------------------------
\* For any records and settings, once the scene effect has run (lines 637-851
\* of CesiumGlobe.tsx) the points, arcs, glows and crosses are exactly those
\* of the present groups, whatever was there before.
THEOREM SceneAlwaysFresh == Spec => []SceneIsFresh
<1>1. SceneInv => SceneIsFresh
  BY DEF SceneInv
<1> QED BY <1>1, SceneHolds, PTL

\* For any records and settings, a click on any point finds its group (line
\* 246), before the effect has run again as well.
THEOREM ClickAlwaysFinds == Spec => []ClickFindsGroup
<1>1. SceneInv => ClickFindsGroup
  BY DEF SceneInv
<1> QED BY <1>1, SceneHolds, PTL

-----------------------------------------------------------------------------
(* Labels                                                                  *)

\* declutterPointLabels takes the candidates one by one.
LEMMA DeclutterSteps ==
  ASSUME NEW E, Candidates \in Seq(E)
  PROVE  \E g : /\ g[0] = {}
                /\ \A n \in Nat : n < Len(Candidates) =>
                      g[n + 1] =
                         IF /\ Cardinality(g[n]) < LabelLimit
                            /\ Candidates[n + 1].at \in InView[camera]
                            /\ ~Blocked(camera, g[n], Candidates[n + 1].at)
                         THEN g[n] \cup {Candidates[n + 1].at} ELSE g[n]
                /\ declutterPointLabels = g[Len(Candidates)]
<1> DEFINE s == Candidates
           K == {x.at : x \in E}
           A(shown, p) ==
              IF /\ Cardinality(shown) < LabelLimit /\ p.at \in InView[camera]
                 /\ ~Blocked(camera, shown, p.at)
              THEN shown \cup {p.at} ELSE shown
           F == [q \in (SUBSET K) \X E |-> A(q[1], q[2])]
           Table(iter) == iter = [S \in SUBSET DOMAIN s |->
                                    IF S = {} THEN {} ELSE A(iter[S \ {Max(S)}], s[Max(S)])]
           it == CHOOSE iter : Table(iter)
<1>1. s \in Seq(E) /\ Len(s) \in Nat /\ DOMAIN s = 1 .. Len(s) /\ \A i \in 1 .. Len(s) : s[i] \in E
  OBVIOUS
<1>2. declutterPointLabels = it[DOMAIN s]
  BY DEF declutterPointLabels, FoldLeft, MapThenFoldSet
<1> HIDE DEF s
<1>3. ASSUME NEW shown \in SUBSET K, NEW p \in E PROVE A(shown, p) \in SUBSET K
  OBVIOUS
<1>4. s = Candidates
  BY DEF s
<1> HIDE DEF K, A
<1>5. F \in [(SUBSET K) \X E -> SUBSET K] /\ {} \in SUBSET K
  BY <1>3
<1>6. \A shown \in SUBSET K, p \in E : F[<<shown, p>>] = A(shown, p)
  OBVIOUS
<1> HIDE DEF F
<1>7. PICK G \in [SUBSET DOMAIN s -> SUBSET K] : Unfolds(F, {}, s, G)
  <2> DEFINE T == SUBSET K
  <2>1. F \in [T \X E -> T] /\ {} \in T /\ s \in Seq(E)
    BY <1>1, <1>5
  <2> HIDE DEF T
  <2>2. \E G \in [SUBSET DOMAIN s -> T] : Unfolds(F, {}, s, G)
    BY <2>1, FoldTable
  <2>3. QED
    BY <2>2 DEF T
<1>8. Table(G)
  <2>1. \A S \in SUBSET DOMAIN s : S # {} =>
           G[S \ {Max(S)}] \in SUBSET K /\ s[Max(S)] \in E
    BY <1>1, <1>7, MaxIn
  <2>2. \A S \in SUBSET DOMAIN s :
           G[S] = IF S = {} THEN {} ELSE A(G[S \ {Max(S)}], s[Max(S)])
    BY <1>6, <1>7, <2>1 DEF Unfolds
  <2>3. QED
    BY <1>7, <2>2
<1>9. Table(it)
  <2> HIDE DEF Table
  <2> QED BY <1>8
<1>10. \A S \in SUBSET DOMAIN s :
         it[S] = IF S = {} THEN {} ELSE A(it[S \ {Max(S)}], s[Max(S)])
  <2> HIDE DEF it
  <2> QED BY <1>9
<1> HIDE DEF it
<1> DEFINE g == [n \in Nat |-> it[1 .. n]]
<1>11. g[0] = {}
  <2>1. 1 .. 0 = {} /\ {} \in SUBSET DOMAIN s
    OBVIOUS
  <2>2. QED
    BY <1>10, <2>1
<1>12. ASSUME NEW n \in Nat, n < Len(s) PROVE g[n + 1] = A(g[n], s[n + 1])
  <2>1. 1 .. (n + 1) \in SUBSET DOMAIN s
    BY <1>1, <1>12
  <2>2. 1 .. (n + 1) # {} /\ Max(1 .. (n + 1)) = n + 1 /\ (1 .. (n + 1)) \ {n + 1} = 1 .. n
    BY UpToFacts
  <2>3. it[1 .. (n + 1)] = A(it[1 .. n], s[n + 1])
    BY <1>10, <2>1, <2>2, ZenonT(60)
  <2>4. QED
    BY <2>3
<1>13. declutterPointLabels = g[Len(s)]
  BY <1>1, <1>2
<1> HIDE DEF g
<1>14. QED
  BY <1>4, <1>11, <1>12, <1>13 DEF A

Candidate == {[at |-> k, priority |-> points[k].priority] : k \in DOMAIN points}
Important == [x \in Candidate |-> x.priority]

OrderOk == order \in Seq(DOMAIN points) /\ Range(order) = DOMAIN points

LEMMA RangeSeq ==
  ASSUME NEW E, NEW s \in Seq(E), NEW K, Range(s) \subseteq K
  PROVE  s \in Seq(K)
<1>1. s = [i \in 1 .. Len(s) |-> s[i]] /\ Len(s) \in Nat /\ \A i \in 1 .. Len(s) : s[i] \in Range(s)
  BY DEF Range
<1>2. QED
  BY <1>1

LEMMA CandidatesFacts ==
  ASSUME OrderOk, PointsAgree
  PROVE  /\ Candidates \in Seq(Candidate) /\ Range(Candidates) = Candidate
         /\ Important \in [Candidate -> 1 .. 3] /\ Descending(Candidates, Important)
<1> DEFINE one(k) == [at |-> k, priority |-> points[k].priority]
<1>1. order \in Seq(DOMAIN points) /\ DOMAIN order = 1 .. Len(order) /\ Len(order) \in Nat
      /\ \A i \in 1 .. Len(order) : order[i] \in DOMAIN points
  BY DEF OrderOk
<1>2. InOrder = [i \in 1 .. Len(order) |-> one(order[i])]
  BY <1>1 DEF InOrder
<1>3. InOrder \in Seq(Candidate)
  <2>1. \A i \in 1 .. Len(order) : one(order[i]) \in Candidate
    BY <1>1 DEF Candidate
  <2> HIDE DEF one
  <2> QED BY <1>1, <1>2, <2>1
<1>4. Range(InOrder) = Candidate
  <2>1. \A k \in DOMAIN points : \E i \in 1 .. Len(order) : order[i] = k
    BY <1>1 DEF OrderOk, Range
  <2> HIDE DEF one
  <2>2. Candidate = {one(k) : k \in DOMAIN points}
    BY DEF Candidate, one
  <2>3. Range(InOrder) = {one(order[i]) : i \in 1 .. Len(order)}
    BY <1>2 DEF Range
  <2> QED BY <1>1, <2>1, <2>2, <2>3
<1>5. Important \in [Candidate -> 1 .. 3]
  <2>1. ASSUME NEW k \in DOMAIN points PROVE points[k].priority \in 1 .. 3
    <3>1. points[k].priority = Rank(points[k].state.status)
      BY DEF PointsAgree
    <3>2. QED
      BY <3>1 DEF Rank
  <2>2. \A x \in Candidate : x.priority \in 1 .. 3
    BY <2>1 DEF Candidate
  <2>3. QED
    BY <2>2 DEF Important
<1> DEFINE a == Only(InOrder, {x \in Range(InOrder) : x.priority = 3})
           b == Only(InOrder, {x \in Range(InOrder) : x.priority = 2})
           c == Only(InOrder, {x \in Range(InOrder) : x.priority = 1})
<1>6. Candidates = a \o b \o c
  BY DEF Candidates
<1>7. \A r : {x \in Range(InOrder) : x.priority = r} = {x \in Range(InOrder) : Important[x] = r}
  BY <1>4 DEF Important
<1>8. /\ a = Only(InOrder, {x \in Range(InOrder) : Important[x] = 3})
      /\ b = Only(InOrder, {x \in Range(InOrder) : Important[x] = 2})
      /\ c = Only(InOrder, {x \in Range(InOrder) : Important[x] = 1})
  BY <1>7
<1> HIDE DEF a, b, c
<1>9. /\ a \o b \o c \in Seq(Candidate) /\ Range(a \o b \o c) = Range(InOrder)
      /\ Descending(a \o b \o c, Important)
  BY <1>3, <1>5, <1>8, RankedFacts
<1>10. QED
  BY <1>4, <1>5, <1>6, <1>9

LEMMA DeclutterFacts ==
  ASSUME OrderOk, PointsAgree
  PROVE  /\ IsFiniteSet(declutterPointLabels) /\ Cardinality(declutterPointLabels) <= LabelLimit
         /\ \A i \in 1 .. Len(Candidates) :
               Candidates[i].at \in InView[camera] =>
                  \/ Candidates[i].at \in declutterPointLabels
                  \/ \E S \in SUBSET declutterPointLabels :
                        /\ S \subseteq {Candidates[j].at : j \in 1 .. (i - 1)}
                        /\ Cardinality(S) = LabelLimit \/ Blocked(camera, S, Candidates[i].at)
<1> DEFINE c == Candidates
           Upto(n) == {c[j].at : j \in 1 .. n}
           Reason(i, shown) == c[i].at \in InView[camera] =>
                  \/ c[i].at \in shown
                  \/ \E S \in SUBSET shown :
                        /\ S \subseteq Upto(i - 1)
                        /\ Cardinality(S) = LabelLimit \/ Blocked(camera, S, c[i].at)
           Good(n, shown) == /\ IsFiniteSet(shown) /\ Cardinality(shown) <= LabelLimit
                             /\ shown \subseteq Upto(n)
                             /\ \A i \in 1 .. n : Reason(i, shown)
<1>1. c \in Seq(Candidate) /\ Len(c) \in Nat
  BY CandidatesFacts
<1>2. PICK g : /\ g[0] = {}
               /\ \A n \in Nat : n < Len(c) =>
                      g[n + 1] =
                         IF /\ Cardinality(g[n]) < LabelLimit
                            /\ c[n + 1].at \in InView[camera]
                            /\ ~Blocked(camera, g[n], c[n + 1].at)
                         THEN g[n] \cup {c[n + 1].at} ELSE g[n]
               /\ declutterPointLabels = g[Len(c)]
  BY <1>1, DeclutterSteps
<1>3. LabelLimit \in Nat
  BY GlobeAssumption
<1> HIDE DEF c
<1> DEFINE T == {n \in Nat : n <= Len(c) => Good(n, g[n])}
<1>4. Good(0, {})
  <2>1. IsFiniteSet({}) /\ Cardinality({}) = 0
    BY FS_EmptySet
  <2>2. QED
    BY <1>3, <2>1
<1>5. ASSUME NEW n \in Nat, n < Len(c), Good(n, g[n]) PROVE Good(n + 1, g[n + 1])
  <2> DEFINE old == g[n]
             new == g[n + 1]
             x == c[n + 1].at
  <2>1. new = IF /\ Cardinality(old) < LabelLimit /\ x \in InView[camera]
                 /\ ~Blocked(camera, old, x)
              THEN old \cup {x} ELSE old
    BY <1>2, <1>5
  <2>2. IsFiniteSet(old) /\ Cardinality(old) \in Nat /\ Cardinality(old) <= LabelLimit
        /\ old \subseteq Upto(n)
    BY <1>5, FS_CardinalityType
  <2>3. \A i \in 1 .. n : Reason(i, old)
    BY <1>5
  <2>4. Upto(n) \subseteq Upto(n + 1) /\ x \in Upto(n + 1)
    <3>1. \A j \in 1 .. n : j \in 1 .. (n + 1)
      OBVIOUS
    <3>2. n + 1 \in 1 .. (n + 1)
      OBVIOUS
    <3>3. QED
      BY <3>1, <3>2
  <2> HIDE DEF old, new, Upto
  <2>5. old \subseteq new /\ new \subseteq old \cup {x}
    BY <2>1
  <2>6. IsFiniteSet(new) /\ Cardinality(new) <= LabelLimit
    <3>1. CASE new = old
      BY <2>2, <3>1
    <3>2. CASE new # old
      <4>1. new = old \cup {x} /\ x \notin old /\ Cardinality(old) < LabelLimit
        BY <2>1, <3>2
      <4> HIDE DEF x
      <4>2. IsFiniteSet(new) /\ Cardinality(new) = Cardinality(old) + 1
        BY <2>2, <4>1, FS_AddElement
      <4>3. QED
        BY <1>3, <2>2, <4>1, <4>2
    <3>3. QED
      BY <3>1, <3>2
  <2>7. new \subseteq Upto(n + 1)
    BY <2>2, <2>4, <2>5
  <2>8. \A i \in 1 .. n : Reason(i, new)
    BY <2>3, <2>5
  <2>9. Reason(n + 1, new)
    <3> SUFFICES ASSUME x \in InView[camera], x \notin new
                 PROVE  \E S \in SUBSET new :
                           /\ S \subseteq Upto((n + 1) - 1)
                           /\ Cardinality(S) = LabelLimit \/ Blocked(camera, S, x)
      OBVIOUS
    <3>1. (n + 1) - 1 = n
      OBVIOUS
    <3>2. ~(Cardinality(old) < LabelLimit) \/ Blocked(camera, old, x)
      BY <2>1
    <3>3. Cardinality(old) = LabelLimit \/ Blocked(camera, old, x)
      BY <1>3, <2>2, <3>2
    <3>4. QED
      BY <2>2, <2>5, <3>1, <3>3
  <2> HIDE DEF Reason
  <2>10. \A i \in 1 .. (n + 1) : i \in 1 .. n \/ i = n + 1
    OBVIOUS
  <2>11. \A i \in 1 .. (n + 1) : Reason(i, new)
    BY <2>8, <2>9, <2>10
  <2>12. Good(n + 1, new)
    BY <2>6, <2>7, <2>11
  <2> HIDE DEF Good
  <2>13. QED
    BY <2>12 DEF new
<1> HIDE DEF Good
<1>6. 0 \in T
  BY <1>2, <1>4
<1>7. ASSUME NEW n \in Nat, n \in T PROVE n + 1 \in T
  BY <1>1, <1>5, <1>7
<1> HIDE DEF T
<1>8. \A n \in Nat : n \in T
  BY <1>6, <1>7, SetInduction
<1>9. Good(Len(c), declutterPointLabels)
  <2>1. Len(c) <= Len(c)
    BY <1>1
  <2>2. QED
    BY <1>1, <1>2, <1>8, <2>1 DEF T
<1>10. QED
  BY <1>9 DEF Good, c

\* HiddenForAReason, of any set of labels.
Explained(shown) ==
    \A x \in (DOMAIN points \cap InView[camera]) \ shown :
        LET better == {y \in shown : points[y].priority >= points[x].priority}
        IN Blocked(camera, better, x) \/ Cardinality(better) = LabelLimit

LEMMA HiddenByDeclutter ==
  ASSUME OrderOk, PointsAgree
  PROVE  Explained(declutterPointLabels)
<1> DEFINE shown == declutterPointLabels
<1> SUFFICES ASSUME NEW x \in (DOMAIN points \cap InView[camera]) \ shown
             PROVE  LET better == {y \in shown : points[y].priority >= points[x].priority}
                    IN Blocked(camera, better, x) \/ Cardinality(better) = LabelLimit
  BY DEF Explained
<1> DEFINE better == {y \in shown : points[y].priority >= points[x].priority}
           c == Candidates
<1>1. /\ c \in Seq(Candidate) /\ Range(c) = Candidate
      /\ Important \in [Candidate -> 1 .. 3] /\ Descending(c, Important)
  BY CandidatesFacts
<1> HIDE DEF c
<1>2. DOMAIN c = 1 .. Len(c)
  BY <1>1
<1>3. PICK i \in 1 .. Len(c) : c[i] = [at |-> x, priority |-> points[x].priority]
  BY <1>1, <1>2 DEF Candidate, Range
<1>4. \A j \in 1 .. Len(c) : /\ c[j].at \in DOMAIN points
                             /\ Important[c[j]] = points[c[j].at].priority
  <2>1. \A j \in 1 .. Len(c) : c[j] \in Candidate
    BY <1>1
  <2>2. QED
    BY <2>1 DEF Candidate, Important
<1>5. PICK S \in SUBSET shown :
         /\ S \subseteq {c[j].at : j \in 1 .. (i - 1)}
         /\ Cardinality(S) = LabelLimit \/ Blocked(camera, S, x)
  <2>1. c[i].at = x /\ x \in InView[camera] /\ x \notin shown
    BY <1>3
  <2>2. \A k \in 1 .. Len(c) :
           c[k].at \in InView[camera] =>
              \/ c[k].at \in shown
              \/ \E S \in SUBSET shown :
                    /\ S \subseteq {c[j].at : j \in 1 .. (k - 1)}
                    /\ Cardinality(S) = LabelLimit \/ Blocked(camera, S, c[k].at)
    BY DeclutterFacts DEF c
  <2>3. QED
    BY <2>1, <2>2
<1>6. S \subseteq better
  <2>1. SUFFICES ASSUME NEW y \in S PROVE points[y].priority >= points[x].priority
    OBVIOUS
  <2>2. PICK j \in 1 .. (i - 1) : y = c[j].at
    BY <1>5
  <2>3. j \in 1 .. Len(c) /\ j <= i
    BY <1>1
  <2>4. Important[c[j]] >= Important[c[i]]
    BY <1>1, <2>3 DEF Descending
  <2>5. QED
    BY <1>3, <1>4, <2>2, <2>3, <2>4
<1>7. IsFiniteSet(shown) /\ Cardinality(shown) <= LabelLimit
  BY DeclutterFacts
<1> HIDE DEF better
<1>8. CASE Blocked(camera, S, x)
  BY <1>6, <1>8 DEF Blocked, better
<1>9. CASE Cardinality(S) = LabelLimit
  <2>1. better \subseteq shown
    BY DEF better
  <2>2. IsFiniteSet(better) /\ Cardinality(better) <= Cardinality(shown)
    BY <1>7, <2>1, FS_Subset
  <2>3. Cardinality(S) <= Cardinality(better)
    BY <1>6, <2>2, FS_Subset
  <2>4. Cardinality(better) \in Nat /\ Cardinality(shown) \in Nat /\ LabelLimit \in Nat
    BY <1>7, <2>2, FS_CardinalityType, GlobeAssumption
  <2>5. Cardinality(better) = LabelLimit
    BY <1>7, <1>9, <2>2, <2>3, <2>4
  <2>6. QED
    BY <2>5 DEF better
<1>10. QED
  BY <1>5, <1>8, <1>9

-----------------------------------------------------------------------------
LabelInv == StoreOk /\ SceneInv /\ OrderOk /\ HiddenForAReason

LEMMA RenderOrder ==
  ASSUME NEW G, NEW gs \in Seq(G), OrderOk, RenderPoints(gs)
  PROVE  OrderOk'
<1> DEFINE wanted == [k \in Keys(gs) |-> PointOf(GroupAt(gs, k))]
           kept == {k \in Keys(gs) : KeptPoint(k, wanted[k])}
           ats == [i \in DOMAIN gs |-> gs[i].at]
<1>1. /\ DOMAIN points' = Keys(gs)
      /\ order' = Only(order, kept) \o Only(ats, Keys(gs) \ kept)
  BY DEF RenderPoints
<1>2. kept \subseteq Keys(gs) /\ kept \subseteq DOMAIN points
  BY DEF KeptPoint
<1>3. ats \in Seq(Keys(gs)) /\ Range(ats) = Keys(gs)
  <2>1. DOMAIN gs = 1 .. Len(gs) /\ Len(gs) \in Nat
    OBVIOUS
  <2>2. \A i \in 1 .. Len(gs) : gs[i].at \in Keys(gs)
    BY <2>1 DEF Keys
  <2>3. QED
    BY <2>1, <2>2 DEF Range, Keys
<1> HIDE DEF kept, ats
<1>4. /\ Only(order, kept) \in Seq(DOMAIN points)
      /\ Range(Only(order, kept)) = Range(order) \cap kept
  BY OnlyFacts DEF OrderOk
<1>5. Range(Only(order, kept)) = kept
  BY <1>2, <1>4 DEF OrderOk
<1>6. Only(order, kept) \in Seq(Keys(gs))
  BY <1>2, <1>4, <1>5, RangeSeq
<1>7. /\ Only(ats, Keys(gs) \ kept) \in Seq(Keys(gs))
      /\ Range(Only(ats, Keys(gs) \ kept)) = Keys(gs) \ kept
  <2>1. \A S : /\ Only(ats, S) \in Seq(Keys(gs))
               /\ Range(Only(ats, S)) = Range(ats) \cap S
    BY <1>3, OnlyFacts
  <2>2. QED
    BY <1>3, <2>1
<1>8. order' \in Seq(Keys(gs)) /\ Range(order') = kept \cup (Keys(gs) \ kept)
  <2>1. \A u, v \in Seq(Keys(gs)) : u \o v \in Seq(Keys(gs)) /\ Range(u \o v) = Range(u) \cup Range(v)
    BY ConcatFacts
  <2>2. QED
    BY <1>1, <1>5, <1>6, <1>7, <2>1
<1>9. QED
  BY <1>1, <1>2, <1>8 DEF OrderOk

LEMMA InitLabels == Init => LabelInv
<1> SUFFICES ASSUME Init PROVE LabelInv
  OBVIOUS
<1>1. StoreOk /\ SceneInv
  BY InitStore, InitScene
<1>2. DOMAIN <<>> = {} /\ Range(<<>>) = {} /\ \A K : <<>> \in Seq(K)
  BY DEF Range
<1>3. OrderOk
  BY <1>2 DEF Init, OrderOk
<1>4. HiddenForAReason
  BY DEF Init, HiddenForAReason
<1> QED BY <1>1, <1>3, <1>4 DEF LabelInv

LEMMA StepLabels == LabelInv /\ [Next]_vars => LabelInv'
<1> SUFFICES ASSUME LabelInv, [Next]_vars PROVE LabelInv'
  OBVIOUS
<1>1. StoreOk' /\ SceneInv'
  BY StepStore, StepScene DEF LabelInv
<1>2. OrderOk /\ HiddenForAReason /\ StoreOk /\ PointsAgree
  BY DEF LabelInv, SceneInv
<1>3. CASE dirty' /\ UNCHANGED scene
  BY <1>1, <1>2, <1>3 DEF LabelInv, OrderOk, HiddenForAReason, scene
<1>4. CASE StoreChanges \/ \E o \in Options : SetOptions(o)
  BY <1>3, <1>4 DEF StoreChanges, SetInit, AddNewIp, SetActive, SetBanned, SetOptions
<1>5. CASE \E s \in Servers : MoveServer(s)
  <2>1. DOMAIN <<>> = {} /\ Range(<<>>) = {} /\ \A K : <<>> \in Seq(K)
    BY DEF Range
  <2>2. points' = <<>> /\ order' = <<>> /\ dirty' = TRUE
    BY <1>5 DEF MoveServer
  <2>3. OrderOk' /\ HiddenForAReason'
    BY <2>1, <2>2 DEF OrderOk, HiddenForAReason
  <2>4. QED
    BY <1>1, <2>3 DEF LabelInv
<1>6. CASE \E c \in Cameras : MoveCamera(c)
  BY <1>1, <1>2, <1>6 DEF LabelInv, OrderOk, HiddenForAReason, scene, MoveCamera
<1>7. CASE Render
  <2>1. Clustered \in Seq(GroupSet(Descs))
    BY <1>2, ClusteredFacts
  <2>2. RenderPoints(Clustered) /\ timer' = TRUE
    BY <1>7 DEF Render
  <2>3. OrderOk'
    BY <1>2, <2>1, <2>2, RenderOrder
  <2>4. QED
    BY <1>1, <2>2, <2>3 DEF LabelInv, HiddenForAReason
<1>8. CASE Declutter
  <2>1. visible' = declutterPointLabels /\ UNCHANGED <<points, order, camera, server>>
    BY <1>8 DEF Declutter, input, scene
  <2>2. Explained(declutterPointLabels)
    BY <1>2, HiddenByDeclutter
  <2> DEFINE shown == declutterPointLabels
  <2> HIDE DEF shown
  <2>3. visible' = shown /\ Explained(shown)
    BY <2>1, <2>2 DEF shown
  <2>4. HiddenForAReason'
    BY <2>1, <2>3 DEF HiddenForAReason, Explained, Blocked
  <2>5. OrderOk'
    BY <1>2, <2>1 DEF OrderOk
  <2>6. QED
    BY <1>1, <2>4, <2>5 DEF LabelInv
<1>9. CASE UNCHANGED vars
  BY <1>1, <1>2, <1>9 DEF LabelInv, OrderOk, HiddenForAReason, Blocked, vars, input, scene, labels
<1> QED BY <1>4, <1>5, <1>6, <1>7, <1>8, <1>9 DEF Next

\* For any number of labels, cameras and places (line 1246 of
\* CesiumGlobe.tsx): once the timer has fired, a label in view is hidden only
\* for the sake of the server's or of one at least as important, or because
\* there are already as many of these as fit.
THEOREM HiddenAlwaysForAReason == Spec => []HiddenForAReason
<1>1. Spec => []LabelInv
  BY InitLabels, StepLabels, PTL DEF Spec
<1>2. LabelInv => HiddenForAReason
  BY DEF LabelInv
<1> QED BY <1>1, <1>2, PTL

\* LabelsApart, of any set of labels.
Roomy(shown) ==
    \A x \in shown :
        /\ x \in InView[camera]
        /\ server \in Faces[camera] => ~Overlap(camera, server, x)
        /\ \A y \in shown : x = y \/ ~Overlap(camera, x, y)

LEMMA DeclutterRoomy ==
  ASSUME OrderOk, PointsAgree, DOMAIN points \subseteq Int
  PROVE  Roomy(declutterPointLabels)
<1> DEFINE c == Candidates
           Good(shown) == shown \subseteq Int /\ Roomy(shown)
<1>1. c \in Seq(Candidate) /\ Len(c) \in Nat /\ \A i \in 1 .. Len(c) : c[i].at \in Int
  <2>1. c \in Seq(Candidate)
    BY CandidatesFacts
  <2> HIDE DEF c
  <2>2. \A x \in Candidate : x.at \in Int
    BY DEF Candidate
  <2>3. QED
    BY <2>1, <2>2
<1>2. PICK g : /\ g[0] = {}
               /\ \A n \in Nat : n < Len(c) =>
                      g[n + 1] =
                         IF /\ Cardinality(g[n]) < LabelLimit
                            /\ c[n + 1].at \in InView[camera]
                            /\ ~Blocked(camera, g[n], c[n + 1].at)
                         THEN g[n] \cup {c[n + 1].at} ELSE g[n]
               /\ declutterPointLabels = g[Len(c)]
  BY <1>1, DeclutterSteps
<1> HIDE DEF c
<1> DEFINE T == {n \in Nat : n <= Len(c) => Good(g[n])}
<1>3. ASSUME NEW n \in Nat, n < Len(c), Good(g[n]) PROVE Good(g[n + 1])
  <2> DEFINE old == g[n]
             x == c[n + 1].at
  <2>1. CASE g[n + 1] = old
    BY <1>3, <2>1
  <2>2. CASE g[n + 1] # old
    <3>1. g[n + 1] = old \cup {x} /\ x \in InView[camera] /\ ~Blocked(camera, old, x)
      BY <1>2, <1>3, <2>2
    <3>2. x \in Int /\ Good(old)
      BY <1>1, <1>3
    <3> HIDE DEF old, x
    <3>3. /\ server \in Faces[camera] => ~Overlap(camera, server, x)
          /\ \A y \in old : ~Overlap(camera, x, y)
      BY <3>1 DEF Blocked
    <3>4. \A y \in old : Distance(y, x) = Distance(x, y)
      BY <3>2 DEF Distance, Abs
    <3>5. \A y \in old : ~Overlap(camera, y, x)
      BY <3>3, <3>4 DEF Overlap
    <3>6. Good(old \cup {x})
      BY <3>1, <3>2, <3>3, <3>5 DEF Roomy
    <3>7. QED
      BY <3>1, <3>6
  <2>3. QED
    BY <2>1, <2>2
<1>4. Good({})
  BY DEF Roomy
<1> HIDE DEF Good
<1>5. 0 \in T
  BY <1>2, <1>4
<1>6. ASSUME NEW n \in Nat, n \in T PROVE n + 1 \in T
  BY <1>1, <1>3, <1>6
<1> HIDE DEF T
<1>7. \A n \in Nat : n \in T
  BY <1>5, <1>6, SetInduction
<1>8. Good(declutterPointLabels)
  <2>1. Len(c) <= Len(c)
    BY <1>1
  <2>2. QED
    BY <1>1, <1>2, <1>7, <2>1 DEF T
<1>9. QED
  BY <1>8 DEF Good

RoomInv == LabelInv /\ DOMAIN points \subseteq Int /\ LabelsApart

LEMMA RoomHolds == RoomInv /\ [Next]_vars => RoomInv'
<1> SUFFICES ASSUME RoomInv, [Next]_vars PROVE RoomInv'
  OBVIOUS
<1>1. LabelInv'
  BY StepLabels DEF RoomInv
<1>2. /\ OrderOk /\ LabelsApart /\ StoreOk /\ PointsAgree /\ DOMAIN points \subseteq Int
  BY DEF RoomInv, LabelInv, SceneInv
<1>3. CASE dirty' /\ UNCHANGED scene
  BY <1>1, <1>2, <1>3 DEF RoomInv, LabelsApart, scene
<1>4. CASE StoreChanges \/ \E o \in Options : SetOptions(o)
  BY <1>3, <1>4 DEF StoreChanges, SetInit, AddNewIp, SetActive, SetBanned, SetOptions
<1>5. CASE \E s \in Servers : MoveServer(s)
  <2>1. points' = <<>> /\ dirty' = TRUE
    BY <1>5 DEF MoveServer
  <2>2. QED
    BY <1>1, <2>1 DEF RoomInv, LabelsApart
<1>6. CASE \E c \in Cameras : MoveCamera(c)
  BY <1>1, <1>2, <1>6 DEF RoomInv, LabelsApart, scene, MoveCamera
<1>7. CASE Render
  <2>1. Clustered \in Seq(GroupSet(Descs))
    BY <1>2, ClusteredFacts
  <2>2. DOMAIN points' = Keys(Clustered) /\ timer' = TRUE
    BY <1>7 DEF Render, RenderPoints
  <2>3. Keys(Clustered) \subseteq Int
    <3> DEFINE gs == Clustered
    <3> HIDE DEF gs
    <3>1. \A i \in DOMAIN gs : gs[i] \in GroupSet(Descs)
      BY <2>1 DEF gs
    <3>2. Keys(gs) \subseteq Int
      BY <3>1 DEF Keys, GroupSet
    <3>3. QED
      BY <3>2 DEF gs
  <2>4. QED
    BY <1>1, <2>2, <2>3 DEF RoomInv, LabelsApart
<1>8. CASE Declutter
  <2> DEFINE shown == declutterPointLabels
  <2>1. visible' = shown /\ UNCHANGED <<points, camera, server>>
    BY <1>8 DEF Declutter, input, scene
  <2>2. Roomy(shown)
    BY <1>2, DeclutterRoomy
  <2> HIDE DEF shown
  <2>3. LabelsApart'
    BY <2>1, <2>2 DEF LabelsApart, Roomy, Overlap
  <2>4. QED
    BY <1>1, <1>2, <2>1, <2>3 DEF RoomInv
<1>9. CASE UNCHANGED vars
  BY <1>1, <1>2, <1>9 DEF RoomInv, LabelsApart, Overlap, vars, input, scene, labels
<1> QED BY <1>4, <1>5, <1>6, <1>7, <1>8, <1>9 DEF Next

\* For any cameras, zoom and places (line 779 of CesiumGlobe.tsx): once the
\* timer has fired, no label that is shown overlaps another or the server's.
THEOREM LabelsAlwaysApart == Spec => []LabelsApart
<1>1. Init => RoomInv
  BY InitLabels DEF Init, RoomInv, LabelsApart
<1>2. RoomInv => LabelsApart
  BY DEF RoomInv
<1> QED BY <1>1, <1>2, RoomHolds, PTL DEF Spec

-----------------------------------------------------------------------------
(* The dialogs                                                             *)

LEMMA RemoveAtFacts ==
    ASSUME NEW S, NEW s \in Seq(S), NEW i \in DOMAIN s
    PROVE  /\ RemoveAt(s, i) \in Seq(S)
           /\ Len(RemoveAt(s, i)) = Len(s) - 1
           /\ \A j \in DOMAIN RemoveAt(s, i) :
                 LET k == IF j < i THEN j ELSE j + 1
                 IN k \in DOMAIN s \ {i} /\ RemoveAt(s, i)[j] = s[k]
<1> DEFINE s1 == SubSeq(s, 1, i - 1)
           s2 == SubSeq(s, i + 1, Len(s))
<1>1. i \in 1 .. Len(s) /\ Len(s) \in Nat /\ DOMAIN s = 1 .. Len(s) /\ \A j \in 1 .. Len(s) : s[j] \in S
  BY LenProperties, ElementOfSeq
<1>2. /\ s1 \in Seq(S) /\ Len(s1) = i - 1
      /\ \A j \in 1 .. (i - 1) : s1[j] = s[j]
  BY <1>1, SubSeqProperties
<1>3. /\ s2 \in Seq(S) /\ Len(s2) = Len(s) - i
      /\ \A j \in 1 .. (Len(s) - i) : s2[j] = s[i + j]
  <2>1. \A j \in (i + 1) .. Len(s) : s[j] \in S
    BY <1>1
  <2>2. /\ s2 \in Seq(S) /\ Len(s2) = (IF i + 1 <= Len(s) THEN Len(s) - (i + 1) + 1 ELSE 0)
        /\ \A j \in 1 .. (Len(s) - (i + 1) + 1) : s2[j] = s[(i + 1) + j - 1]
    BY <1>1, <2>1, SubSeqProperties
  <2> HIDE DEF s2
  <2>3. Len(s2) = Len(s) - i /\ Len(s) - (i + 1) + 1 = Len(s) - i
    BY <1>1, <2>2
  <2>4. \A j \in 1 .. (Len(s) - i) : (i + 1) + j - 1 = i + j
    BY <1>1
  <2>5. QED
    BY <2>2, <2>3, <2>4
<1> HIDE DEF s1, s2
<1>4. RemoveAt(s, i) = s1 \o s2
  BY DEF RemoveAt, s1, s2
<1>5. /\ s1 \o s2 \in Seq(S) /\ Len(s1 \o s2) = Len(s) - 1
      /\ \A j \in 1 .. (Len(s) - 1) : (s1 \o s2)[j] = IF j < i THEN s1[j] ELSE s2[j - (i - 1)]
  <2>1. /\ s1 \o s2 \in Seq(S) /\ Len(s1 \o s2) = Len(s1) + Len(s2)
        /\ \A j \in 1 .. Len(s1) + Len(s2) : (s1 \o s2)[j] = IF j <= Len(s1) THEN s1[j] ELSE s2[j - Len(s1)]
    BY <1>2, <1>3, ConcatProperties
  <2>2. Len(s1) + Len(s2) = Len(s) - 1 /\ \A j \in Int : j <= Len(s1) <=> j < i
    BY <1>1, <1>2, <1>3
  <2>3. QED
    BY <1>2, <2>1, <2>2
<1>6. DOMAIN (s1 \o s2) = 1 .. (Len(s) - 1)
  BY <1>5, LenProperties
<1>7. ASSUME NEW j \in 1 .. (Len(s) - 1)
      PROVE  LET k == IF j < i THEN j ELSE j + 1
             IN k \in DOMAIN s \ {i} /\ (s1 \o s2)[j] = s[k]
  <2>1. CASE j < i
    BY <1>1, <1>2, <1>5, <2>1
  <2>2. CASE ~(j < i)
    <3>1. j - (i - 1) \in 1 .. (Len(s) - i) /\ i + (j - (i - 1)) = j + 1
      BY <1>1, <2>2
    <3>2. (s1 \o s2)[j] = s[j + 1]
      BY <1>3, <1>5, <2>2, <3>1
    <3>3. QED
      BY <1>1, <2>2, <3>2
  <2>3. QED
    BY <2>1, <2>2
<1>8. QED
  BY <1>4, <1>5, <1>6, <1>7

Calls ==
    [kind : {"fetch", "save", "detect"}, body : Settings \cup {NoForm}, close : BOOLEAN,
     served : BOOLEAN, ok : BOOLEAN, answer : Settings \cup {NoForm}, mine : BOOLEAN]

SettingsTypes ==
    /\ saved \in Settings /\ config \in Settings /\ form \in Settings \cup {NoForm}
    /\ loading \in BOOLEAN /\ detecting \in BOOLEAN /\ apart \in BOOLEAN
    /\ calls \in Seq(Calls)
    /\ \A i \in DOMAIN calls : calls[i].kind = "save" => calls[i].body \in Settings
    /\ \A i \in DOMAIN calls :
          calls[i].kind # "save" /\ calls[i].served /\ calls[i].ok => calls[i].answer \in Settings

\* A save or a detection that the server has done is the only one under way,
\* and its answer will take the console where the server is.
SettingsInv ==
    ~apart =>
       /\ \A i, j \in DOMAIN calls : Changes(calls[i].kind) /\ Changes(calls[j].kind) => i = j
       /\ ~Pending => saved = applyDefaults(config)
       /\ \A i \in DOMAIN calls :
             /\ Changes(calls[i].kind) /\ ~(calls[i].served /\ calls[i].ok)
                   => saved = applyDefaults(config)
             /\ calls[i].kind = "save" /\ calls[i].served /\ calls[i].ok 
                   => saved = applyDefaults(calls[i].body)
             /\ calls[i].kind = "detect" /\ calls[i].served /\ calls[i].ok
                   => saved = applyDefaults([config EXCEPT !.place = calls[i].answer.place])

SettingsSteps ==
    \/ FetchSettings \/ UpdateField \/ DetectLocation \/ \E close \in BOOLEAN : HandleSave(close)
    \/ Unmount
    \/ \E i \in DOMAIN calls :
          Served(i) \/ FetchAnswered(i) \/ DetectAnswered(i) \/ SaveAnswered(i) \/ CallFails(i)

LEMMA StepOfSettings == [DialogsNext]_dialogVars => SettingsSteps \/ UNCHANGED settingsVars
BY DEF DialogsNext, dialogVars, OpenDialog, CloseDialog, Hide, Show, InSettings, InLua, SaveAndClose,
       SettingsAnswer, LuaAnswer, SettingsSteps

\* An answer that is taken off leaves the other calls as they were.
LEMMA AnswerTaken ==
    ASSUME SettingsTypes, NEW i \in DOMAIN calls, calls' = RemoveAt(calls, i)
    PROVE  /\ calls' \in Seq(Calls)
           /\ \A j \in DOMAIN calls' :
                 LET k == IF j < i THEN j ELSE j + 1
                 IN k \in DOMAIN calls \ {i} /\ calls'[j] = calls[k]
           /\ \A j \in DOMAIN calls' : j \in Int
           /\ i \in Int
<1>1. calls \in Seq(Calls)
  BY DEF SettingsTypes
<1>2. calls' \in Seq(Calls)
  BY <1>1, RemoveAtFacts
<1>3. QED
  BY <1>1, <1>2, RemoveAtFacts

\* Defaults keep the other settings, and are the same the second time.
LEMMA Defaulted ==
    ASSUME NEW s \in Settings
    PROVE  /\ applyDefaults(s) \in Settings /\ applyDefaults(s).place = s.place
           /\ applyDefaults(applyDefaults(s)) = applyDefaults(s)
BY DialogAssumption DEF Settings, applyDefaults

\* A place is saved as well before the defaults as after.
LEMMA DefaultedTwice ==
    ASSUME NEW s \in Settings, NEW p \in Places
    PROVE  applyDefaults([applyDefaults(s) EXCEPT !.place = p]) = applyDefaults([s EXCEPT !.place = p])
BY DialogAssumption DEF Settings, applyDefaults

LEMMA SettingsInitInv == SettingsInit => SettingsTypes /\ SettingsInv
<1> SUFFICES ASSUME SettingsInit PROVE SettingsTypes /\ SettingsInv
  OBVIOUS
<1>1. calls \in Seq(Calls) /\ DOMAIN calls = {}
  BY DEF SettingsInit
<1>2. PICK s \in Settings : saved = applyDefaults(s)
  BY DEF SettingsInit
<1>3. saved \in Settings /\ config = saved /\ saved = applyDefaults(config)
  BY <1>2, Defaulted DEF SettingsInit
<1>4. QED
  BY <1>1, <1>3 DEF SettingsInit, SettingsTypes, SettingsInv, Pending

\* A call that begins: only one when no other changes anything.
LEMMA SendTypes ==
    ASSUME SettingsTypes, NEW kind \in {"fetch", "save", "detect"},
           NEW body \in Settings \cup {NoForm}, NEW close \in BOOLEAN,
           kind = "save" => body \in Settings, Send(kind, body, close),
           UNCHANGED <<saved, config>>
    PROVE  /\ calls' \in Seq(Calls) /\ apart' \in BOOLEAN
           /\ \A i \in DOMAIN calls' : calls'[i].kind = "save" => calls'[i].body \in Settings
           /\ \A i \in DOMAIN calls' :
                 calls'[i].kind # "save" /\ calls'[i].served /\ calls'[i].ok => calls'[i].answer \in Settings
           /\ SettingsInv => SettingsInv'
<1> DEFINE c == [kind |-> kind, body |-> body, close |-> close,
                 served |-> FALSE, ok |-> FALSE, answer |-> body, mine |-> TRUE]
<1>1. c \in Calls
  BY DEF Calls
<1>2. calls \in Seq(Calls) /\ calls' = Append(calls, c)
  BY DEF Send, SettingsTypes
<1>3. c.kind = kind /\ c.body = body /\ ~c.served /\ ~c.ok
  OBVIOUS
<1> HIDE DEF c
<1>4. /\ calls' \in Seq(Calls) /\ DOMAIN calls = 1 .. Len(calls) /\ Len(calls) \in Nat
      /\ DOMAIN calls' = 1 .. (Len(calls) + 1) /\ calls'[Len(calls) + 1] = c
      /\ \A i \in DOMAIN calls : calls'[i] = calls[i]
  BY <1>1, <1>2
<1>5. \A i \in DOMAIN calls' : i \in DOMAIN calls \/ i = Len(calls) + 1
  BY <1>4
<1>6. apart' \in BOOLEAN /\ (~apart' => ~apart /\ ~(Changes(kind) /\ Pending))
  BY DEF Send
<1>7. ASSUME SettingsInv, ~apart' PROVE SettingsInv'
  <2>1. ~apart /\ (Changes(kind) => ~Pending)
    BY <1>6, <1>7
  <2>2. Changes(kind) \/ Pending => Pending'
    BY <1>3, <1>4, <1>5 DEF Pending
  <2>3. Changes(kind) => \A i \in DOMAIN calls : ~Changes(calls[i].kind)
    BY <2>1 DEF Pending
  <2>4. Changes(kind) => saved = applyDefaults(config)
    BY <1>7, <2>1 DEF SettingsInv
  <2>5. ~Pending' => saved' = applyDefaults(config')
    BY <1>7, <2>1, <2>2 DEF SettingsInv
  <2>6. \A i, j \in DOMAIN calls' : Changes(calls'[i].kind) /\ Changes(calls'[j].kind) => i = j
    BY <1>3, <1>4, <1>5, <1>7, <2>1, <2>3 DEF SettingsInv
  <2>7. ASSUME NEW i \in DOMAIN calls'
        PROVE  /\ Changes(calls'[i].kind) /\ ~(calls'[i].served /\ calls'[i].ok)
                     => saved = applyDefaults(config)
               /\ calls'[i].kind = "save" /\ calls'[i].served /\ calls'[i].ok 
                     => saved = applyDefaults(calls'[i].body)
               /\ calls'[i].kind = "detect" /\ calls'[i].served /\ calls'[i].ok
                     => saved = applyDefaults([config EXCEPT !.place = calls'[i].answer.place])
    <3>1. CASE i \in DOMAIN calls
      BY <1>4, <1>7, <2>1, <3>1 DEF SettingsInv
    <3>2. CASE i = Len(calls) + 1
      BY <1>3, <1>4, <2>4, <3>2
    <3>3. QED
      BY <1>5, <3>1, <3>2
  <2>8. QED
    BY <2>5, <2>6, <2>7 DEF SettingsInv
<1>8. \A i \in DOMAIN calls' : calls'[i].kind = "save" => calls'[i].body \in Settings
  BY <1>3, <1>4, <1>5 DEF SettingsTypes
<1>9. \A i \in DOMAIN calls' :
         calls'[i].kind # "save" /\ calls'[i].served /\ calls'[i].ok => calls'[i].answer \in Settings
  BY <1>3, <1>4, <1>5 DEF SettingsTypes
<1>10. QED
  BY <1>4, <1>6, <1>7, <1>8, <1>9 DEF SettingsInv

\* The server changes the answer of one call.
LEMMA ServeFacts ==
    ASSUME SettingsTypes, NEW i \in DOMAIN calls, NEW ok \in BOOLEAN,
           NEW answer \in Settings \cup {NoForm}, Serve(i, ok, answer)
    PROVE  /\ calls' \in Seq(Calls) /\ DOMAIN calls' = DOMAIN calls
           /\ \A j \in DOMAIN calls \ {i} : calls'[j] = calls[j]
           /\ calls'[i].kind = calls[i].kind /\ calls'[i].body = calls[i].body
           /\ calls'[i].served = TRUE /\ calls'[i].ok = ok /\ calls'[i].answer = answer
           /\ ~calls[i].served /\ UNCHANGED <<config, form, loading, detecting>>
<1>1. calls \in Seq(Calls) /\ calls[i] \in Calls
  BY DEF SettingsTypes
<1> DEFINE c == [calls[i] EXCEPT !.served = TRUE, !.ok = ok, !.answer = answer]
<1>2. c \in Calls /\ c.kind = calls[i].kind /\ c.body = calls[i].body
      /\ c.served = TRUE /\ c.ok = ok /\ c.answer = answer
  BY <1>1 DEF Calls
<1>3. calls' = [calls EXCEPT ![i] = c]
  BY DEF Serve
<1> HIDE DEF c
<1>4. calls' \in Seq(Calls) /\ DOMAIN calls' = DOMAIN calls
  BY <1>1, <1>2, <1>3, ExceptSeq
<1>5. QED
  BY <1>1, <1>2, <1>3, <1>4 DEF Serve

LEMMA ServedTypes ==
    ASSUME SettingsTypes, NEW i \in DOMAIN calls, Served(i)
    PROVE  SettingsTypes' /\ (SettingsInv => SettingsInv')
<1>1. /\ saved \in Settings /\ config \in Settings /\ apart \in BOOLEAN
      /\ calls \in Seq(Calls) /\ calls[i] \in Calls
      /\ calls[i].kind = "save" => calls[i].body \in Settings
  BY DEF SettingsTypes
<1>2. CASE GetSettings(i)
  <2>1. calls[i].kind = "fetch" /\ Serve(i, TRUE, saved) /\ UNCHANGED <<saved, apart>>
    BY <1>2 DEF GetSettings
  <2>2. /\ calls' \in Seq(Calls) /\ DOMAIN calls' = DOMAIN calls
        /\ \A j \in DOMAIN calls \ {i} : calls'[j] = calls[j]
        /\ calls'[i].kind = "fetch" /\ calls'[i].answer = saved
        /\ UNCHANGED <<config, form, loading, detecting>>
    BY <1>1, <2>1, ServeFacts
  <2>3. SettingsTypes'
    BY <1>1, <2>1, <2>2 DEF SettingsTypes
  <2>4. Pending' <=> Pending
    BY <2>1, <2>2 DEF Pending
  <2>5. SettingsInv => SettingsInv'
    BY <2>1, <2>2, <2>4 DEF SettingsInv, Changes
  <2>6. QED
    BY <2>3, <2>5
<1>3. CASE UpdateSettings(i)
  <2>1. PICK ok \in BOOLEAN : Serve(i, ok, NoForm)
    BY <1>3 DEF UpdateSettings
  <2>2. /\ calls[i].kind = "save" /\ apart' \in BOOLEAN /\ (~apart' => ~apart)
        /\ ~apart' => saved' = IF calls'[i].ok THEN applyDefaults(calls[i].body) ELSE saved
    BY <1>1, <1>3, ServeFacts DEF UpdateSettings
  <2>3. saved' \in Settings
    <3>1. /\ applyDefaults(calls[i].body) \in Settings
          /\ [applyDefaults(calls[i].body) EXCEPT !.mode = saved.mode] \in Settings
      BY <1>1, <2>2, Defaulted DEF Settings
    <3>2. QED
      BY <1>1, <1>3, <2>2, <3>1 DEF UpdateSettings
  <2>4. SettingsTypes'
    BY <1>1, <2>1, <2>2, <2>3, ServeFacts, ZenonT(60) DEF SettingsTypes
  <2>5. Pending' /\ Changes(calls[i].kind) /\ Changes(calls'[i].kind)
    BY <2>1, <2>2, ServeFacts DEF Pending, Changes
  <2>6. /\ DOMAIN calls' = DOMAIN calls /\ config' = config /\ ~calls[i].served
        /\ \A j \in DOMAIN calls \ {i} : calls'[j] = calls[j]
        /\ calls'[i].kind = "save" /\ calls'[i].body = calls[i].body /\ calls'[i].served
    BY <2>1, <2>2, ServeFacts
  <2>7. ASSUME SettingsInv, ~apart
        PROVE  saved = applyDefaults(config) /\ \A j \in DOMAIN calls : Changes(calls[j].kind) => j = i
    BY <2>2, <2>6, <2>7 DEF SettingsInv, Changes
  <2>8. SettingsInv => SettingsInv'
    BY <2>2, <2>5, <2>6, <2>7 DEF SettingsInv, Changes
  <2>9. QED
    BY <2>4, <2>8
<1>4. CASE DetectServerLocation(i)
  <2>1. calls[i].kind = "detect" /\ apart' = apart
    BY <1>4 DEF DetectServerLocation
  <2>2. \/ Serve(i, FALSE, NoForm) /\ saved' = saved
        \/ \E p \in Places : saved' = applyDefaults([saved EXCEPT !.place = p]) /\ Serve(i, TRUE, saved')
    BY <1>4 DEF DetectServerLocation
  <2>3. CASE Serve(i, FALSE, NoForm) /\ saved' = saved
    <3>1. SettingsTypes'
      BY <1>1, <2>1, <2>3, ServeFacts DEF SettingsTypes
    <3>2. Pending' /\ Pending
      BY <2>1, <2>3, ServeFacts DEF Pending, Changes
    <3>3. QED
      BY <1>1, <2>1, <2>3, <3>1, <3>2, ServeFacts, ZenonT(60) DEF SettingsInv, Changes
  <2>4. ASSUME NEW p \in Places, saved' = applyDefaults([saved EXCEPT !.place = p]),
               Serve(i, TRUE, saved')
        PROVE  SettingsTypes' /\ (SettingsInv => SettingsInv')
    <3>1. saved' \in Settings /\ saved'.place = p
      <4>1. [saved EXCEPT !.place = p] \in Settings /\ [saved EXCEPT !.place = p].place = p
        BY <1>1, <2>4 DEF Settings
      <4>2. QED
        BY <2>4, <4>1, Defaulted
    <3>2. /\ calls' \in Seq(Calls) /\ DOMAIN calls' = DOMAIN calls
          /\ \A j \in DOMAIN calls \ {i} : calls'[j] = calls[j]
          /\ calls'[i].kind = "detect" /\ calls'[i].served /\ calls'[i].ok /\ calls'[i].answer = saved'
          /\ ~calls[i].served /\ UNCHANGED <<config, form, loading, detecting>>
      BY <2>1, <2>4, <3>1, ServeFacts
    <3>3. SettingsTypes'
      BY <1>1, <2>1, <3>1, <3>2 DEF SettingsTypes
    <3>4. Pending'
      BY <3>2 DEF Pending, Changes
    <3>5. ASSUME SettingsInv, ~apart
          PROVE  saved = applyDefaults(config) /\ \A j \in DOMAIN calls : Changes(calls[j].kind) => j = i
      BY <2>1, <3>2, <3>5 DEF SettingsInv, Changes
    <3>6. ASSUME SettingsInv, ~apart 
          PROVE  saved' = applyDefaults([config' EXCEPT !.place = calls'[i].answer.place])
      <4>1. applyDefaults([applyDefaults(config) EXCEPT !.place = p])
               = applyDefaults([config EXCEPT !.place = p])
        BY <1>1, <2>4, DefaultedTwice
      <4>2. QED
        BY <2>4, <3>1, <3>2, <3>5, <3>6, <4>1
    <3>7. SettingsInv => SettingsInv'
      BY <2>1, <3>2, <3>4, <3>5, <3>6 DEF SettingsInv, Changes
    <3>8. QED
      BY <3>3, <3>7
  <2>5. QED
    BY <2>2, <2>3, <2>4
<1>5. QED
  BY <1>2, <1>3, <1>4 DEF Served

\* An answer that is taken leaves the other calls as they were; one of a save
\* or a detection was the only one.
LEMMA TakenKeeps ==
    ASSUME SettingsTypes, NEW i \in DOMAIN calls, calls' = RemoveAt(calls, i),
           config' \in Settings, form' \in Settings \cup {NoForm}, apart' \in BOOLEAN,
           loading' \in BOOLEAN, detecting' \in BOOLEAN, saved' = saved
    PROVE  /\ SettingsTypes'
           /\ SettingsInv /\ ~Changes(calls[i].kind) /\ config' = config /\ apart' = apart => SettingsInv'
           /\ SettingsInv /\ Changes(calls[i].kind) /\ (~apart' => ~apart /\ saved = applyDefaults(config')) => SettingsInv'
<1>1. /\ calls' \in Seq(Calls)
      /\ \A j \in DOMAIN calls' :
            /\ (IF j < i THEN j ELSE j + 1) \in DOMAIN calls \ {i}
            /\ calls'[j] = calls[IF j < i THEN j ELSE j + 1]
      /\ \A j \in DOMAIN calls' : j \in Int
      /\ i \in Int
  BY AnswerTaken
<1>2. SettingsTypes'
  BY <1>1 DEF SettingsTypes
<1>3. ASSUME SettingsInv, ~Changes(calls[i].kind), config' = config, apart' = apart, ~apart'
      PROVE  SettingsInv'
  <2>1. Pending => Pending'
    <3>1. SUFFICES ASSUME NEW k \in DOMAIN calls, Changes(calls[k].kind)
                   PROVE  \E j \in DOMAIN calls' : Changes(calls'[j].kind)
      BY DEF Pending
    <3>2. k # i
      BY <1>3, <3>1
    <3>3. calls \in Seq(Calls)
      BY DEF SettingsTypes
    <3>4. /\ DOMAIN calls = 1 .. Len(calls) /\ Len(calls) \in Nat
          /\ DOMAIN calls' = 1 .. (Len(calls) - 1)
      BY <3>3, <1>1, RemoveAtFacts, LenProperties
    <3> DEFINE j == IF k < i THEN k ELSE k - 1
    <3>5. j \in DOMAIN calls' /\ (IF j < i THEN j ELSE j + 1) = k
      BY <3>2, <3>4
    <3>6. QED
      BY <1>1, <3>1, <3>5
  <2>2. QED
    BY <1>1, <1>3, <2>1 DEF SettingsInv
<1>4. ASSUME SettingsInv, Changes(calls[i].kind), ~apart, saved = applyDefaults(config')
      PROVE  SettingsInv'
  <2>1. \A j \in DOMAIN calls' : ~Changes(calls'[j].kind)
    BY <1>1, <1>4 DEF SettingsInv
  <2>2. QED
    BY <1>4, <2>1 DEF SettingsInv, Changes
<1>5. QED
  BY <1>2, <1>3, <1>4 DEF SettingsInv

LEMMA SettingsStep ==
    SettingsTypes /\ SettingsInv /\ (SettingsSteps \/ UNCHANGED settingsVars)
        => SettingsTypes' /\ SettingsInv'
<1> SUFFICES ASSUME SettingsTypes, SettingsInv, SettingsSteps \/ UNCHANGED settingsVars
             PROVE  SettingsTypes' /\ SettingsInv'
  OBVIOUS
<1>1. /\ saved \in Settings /\ config \in Settings /\ form \in Settings \cup {NoForm}
      /\ loading \in BOOLEAN /\ detecting \in BOOLEAN /\ apart \in BOOLEAN
      /\ calls \in Seq(Calls) /\ \A i \in DOMAIN calls : calls[i] \in Calls
  BY DEF SettingsTypes
<1>2. CASE FetchSettings
  BY <1>1, <1>2, SendTypes DEF FetchSettings, SettingsTypes
<1>3. CASE UpdateField
  BY <1>1, <1>3 DEF UpdateField, SettingsTypes, SettingsInv, Pending
<1>4. CASE DetectLocation
  BY <1>1, <1>4, SendTypes DEF DetectLocation, SettingsTypes
<1>5. ASSUME NEW close \in BOOLEAN, HandleSave(close) PROVE SettingsTypes' /\ SettingsInv'
  BY <1>1, <1>5, SendTypes DEF HandleSave, SettingsTypes
<1>6. CASE Unmount
  <2>1. \A i \in DOMAIN calls :
           LET c == [calls[i] EXCEPT !.mine = FALSE]
           IN /\ c \in Calls /\ c.kind = calls[i].kind /\ c.body = calls[i].body
              /\ c.served = calls[i].served /\ c.ok = calls[i].ok /\ c.answer = calls[i].answer
    BY <1>1 DEF Calls
  <2>2. DOMAIN calls = 1 .. Len(calls) /\ Len(calls) \in Nat
    BY <1>1
  <2>3. DOMAIN calls' = DOMAIN calls /\ \A i \in DOMAIN calls : calls'[i] = [calls[i] EXCEPT !.mine = FALSE]
    BY <1>6 DEF Unmount
  <2>4. calls' \in [1 .. Len(calls) -> Calls]
    BY <1>6, <2>1, <2>2 DEF Unmount
  <2>5. calls' \in Seq(Calls)
    BY <2>2, <2>4
  <2>6. \A i \in DOMAIN calls :
           /\ calls'[i].kind = calls[i].kind /\ calls'[i].body = calls[i].body
           /\ calls'[i].served = calls[i].served /\ calls'[i].ok = calls[i].ok
           /\ calls'[i].answer = calls[i].answer
    BY <2>1, <2>3
  <2>7. SettingsTypes'
    <3>1. /\ saved' \in Settings /\ config' \in Settings /\ form' \in Settings \cup {NoForm}
          /\ loading' \in BOOLEAN /\ detecting' \in BOOLEAN /\ apart' \in BOOLEAN
      BY <1>1, <1>6 DEF Unmount
    <3>2. /\ \A i \in DOMAIN calls : calls[i].kind = "save" => calls[i].body \in Settings
          /\ \A i \in DOMAIN calls :
                calls[i].kind # "save" /\ calls[i].served /\ calls[i].ok => calls[i].answer \in Settings
      BY DEF SettingsTypes
    <3>3. DOMAIN calls' = DOMAIN calls
      BY <2>3
    <3>4. /\ \A i \in DOMAIN calls' : calls'[i].kind = "save" => calls'[i].body \in Settings
          /\ \A i \in DOMAIN calls' :
                calls'[i].kind # "save" /\ calls'[i].served /\ calls'[i].ok => calls'[i].answer \in Settings
      BY <2>6, <3>2, <3>3, Zenon
    <3>5. QED
      BY <2>5, <3>1, <3>4, Zenon DEF SettingsTypes
  <2>8. Pending' <=> Pending
    BY <2>3, <2>6 DEF Pending
  <2>9. SettingsInv'
    BY <1>6, <2>3, <2>6, <2>8 DEF Unmount, SettingsInv
  <2>10. QED
    BY <2>7, <2>9
<1>7. ASSUME NEW i \in DOMAIN calls, Served(i) PROVE SettingsTypes' /\ SettingsInv'
  BY <1>7, ServedTypes
<1>8. ASSUME NEW i \in DOMAIN calls, FetchAnswered(i) PROVE SettingsTypes' /\ SettingsInv'
  <2>1. form' \in Settings \cup {NoForm}
    BY <1>1, <1>8 DEF FetchAnswered, Calls
  <2>2. QED
    BY <1>1, <1>8, <2>1, TakenKeeps DEF FetchAnswered, Answered, Changes
<1>9. ASSUME NEW i \in DOMAIN calls, SaveAnswered(i) PROVE SettingsTypes' /\ SettingsInv'
  <2>1. config' \in Settings /\ loading' \in BOOLEAN
    BY <1>1, <1>9 DEF SaveAnswered, SettingsTypes, Calls
  <2>2. ~apart => saved = applyDefaults(config')
    BY <1>1, <1>9 DEF SaveAnswered, Answered, SettingsInv, Changes
  <2>3. QED
    BY <1>1, <1>9, <2>1, <2>2, TakenKeeps DEF SaveAnswered, Answered, Changes
<1>10. ASSUME NEW i \in DOMAIN calls, DetectAnswered(i) PROVE SettingsTypes' /\ SettingsInv'
  <2>1. calls[i].ok => calls[i].answer \in Settings
    BY <1>1, <1>10 DEF DetectAnswered, Answered, SettingsTypes
  <2>2. config' \in Settings /\ form' \in Settings \cup {NoForm} /\ detecting' \in BOOLEAN
    BY <1>1, <1>10, <2>1 DEF DetectAnswered, Settings, Calls
  <2>3. ~apart => saved = applyDefaults(config')
    BY <1>1, <1>10 DEF DetectAnswered, Answered, SettingsInv, Changes
  <2>4. QED
    BY <1>1, <1>10, <2>2, <2>3, TakenKeeps DEF DetectAnswered, Answered, Changes
<1>11. ASSUME NEW i \in DOMAIN calls, CallFails(i) PROVE SettingsTypes' /\ SettingsInv'
  <2>1. /\ calls' = RemoveAt(calls, i) /\ saved' = saved /\ config' = config
        /\ form' \in Settings \cup {NoForm} /\ loading' \in BOOLEAN /\ detecting' \in BOOLEAN
        /\ apart' \in BOOLEAN /\ (apart' <=> apart \/ Changes(calls[i].kind))
    BY <1>1, <1>11 DEF CallFails, Calls
  <2>2. QED
    BY <1>1, <2>1, TakenKeeps
<1>12. CASE UNCHANGED settingsVars
  BY <1>12 DEF settingsVars, SettingsTypes, SettingsInv, Pending
<1>13. QED
  BY <1>2, <1>3, <1>4, <1>5, <1>6, <1>7, <1>8, <1>9, <1>10, <1>11, <1>12 DEF SettingsSteps

\* The configuration the console works with is the one the server keeps,
\* whatever is typed while a save or a detection is under way and whichever
\* dialog began it, unless one of them failed or met another, but for the
\* default that a cleared country gets.
THEOREM ConsoleIsTold == DialogsSpec => []ConsoleShowsWhatIsSaved
<1>1. DialogsInit => SettingsTypes /\ SettingsInv
  BY SettingsInitInv DEF DialogsInit
<1>2. SettingsTypes /\ SettingsInv /\ [DialogsNext]_dialogVars => (SettingsTypes /\ SettingsInv)'
  BY StepOfSettings, SettingsStep
<1>3. SettingsInv => ConsoleShowsWhatIsSaved
  BY DEF SettingsInv, ConsoleShowsWhatIsSaved
<1>4. QED
  BY <1>1, <1>2, <1>3, PTL DEF DialogsSpec

-----------------------------------------------------------------------------
(* The script editor                                                       *)

\* Only a save opens a file to write, and its text is one.
ScriptCalls ==
    {call \in [kind : {"open", "create", "delete", "save"}, file : Files, text : Texts \cup {Nothing},
               served : BOOLEAN, ok : BOOLEAN, fd : {"none", "file", "gone"}] :
       /\ call.kind = "save" \/ (call.kind \in {"open", "create"} /\ call.ok) => call.text \in Texts
       /\ call.fd # "none" => call.kind = "save"}

LuaTypes ==
    /\ disk \in [Files -> Texts \cup {Nothing}] /\ current \in Files \cup {Nothing}
    /\ content \in Texts \cup {Nothing} /\ original \in Texts \cup {Nothing}
    /\ current # Nothing => content \in Texts
    /\ scriptCalls \in Seq(ScriptCalls) /\ crossed \in BOOLEAN

\* The file is being written, or was, or is gone.
Followed(call) == call.fd # "none" \/ (call.kind = "delete" /\ call.served /\ call.ok)

\* The original is the text of the file that is open, except from the first
\* half of a save, or a deletion, to its answer: then the file is empty or has
\* the text of the call, and that file or none is open, or it is gone.
LuaInv ==
    ~crossed =>
       /\ Len(scriptCalls) <= 1
       /\ current # Nothing /\ (\A i \in DOMAIN scriptCalls : ~Followed(scriptCalls[i]))
             => disk[current] = original
       /\ \A i \in DOMAIN scriptCalls :
             LET call == scriptCalls[i] IN
             /\ call.kind = "save" => current \in {call.file, Nothing}
             /\ call.fd # "none" =>
                   /\ call.fd = "file"
                   /\ IF call.served THEN call.ok ELSE disk[call.file] = Blank
             /\ call.served /\ call.ok /\ call.kind \in {"open", "create", "save"}
                   => disk[call.file] = call.text
             /\ call.served /\ call.ok /\ call.kind = "delete"
                   => current \in {call.file, Nothing} \/ disk[current] = original

LuaSteps ==
    \/ \E kind \in {"open", "create", "delete"}, f \in Files : Ask(kind, f, Nothing)
    \/ SaveFile \/ Clear \/ \E t \in Texts : SetContent(t)
    \/ \E i \in DOMAIN scriptCalls :
          ServeScript(i) \/ OpenAnswered(i) \/ CreateAnswered(i) \/ SaveFileAnswered(i)
             \/ DeleteAnswered(i) \/ ScriptCallFails(i)

LEMMA StepOfLua == [DialogsNext]_dialogVars => LuaSteps \/ UNCHANGED luaVars
BY DEF DialogsNext, dialogVars, OpenDialog, Close, CloseDialog, Hide, Show, InSettings, InLua, SaveAndClose,
       SettingsAnswer, LuaAnswer, HandleOpen, HandleCreate, HandleDelete, LuaSteps

LEMMA LuaInitInv == LuaInit => LuaTypes /\ LuaInv
<1> SUFFICES ASSUME LuaInit PROVE LuaTypes /\ LuaInv
  OBVIOUS
<1>1. scriptCalls \in Seq(ScriptCalls) /\ DOMAIN scriptCalls = {} /\ Len(scriptCalls) = 0
  BY DEF LuaInit
<1>2. LuaTypes
  BY <1>1 DEF LuaInit, LuaTypes
<1>3. LuaInv
  BY <1>1 DEF LuaInit, LuaInv
<1>4. QED
  BY <1>2, <1>3

\* What is in a call of a typed list.
LEMMA ScriptCallTypes ==
    ASSUME LuaTypes, NEW i \in DOMAIN scriptCalls
    PROVE  /\ scriptCalls[i] \in ScriptCalls /\ scriptCalls[i].file \in Files
           /\ scriptCalls[i].kind \in {"open", "create", "delete", "save"}
           /\ scriptCalls[i].text \in Texts \cup {Nothing}
           /\ scriptCalls[i].served \in BOOLEAN /\ scriptCalls[i].ok \in BOOLEAN
           /\ scriptCalls[i].fd \in {"none", "file", "gone"}
           /\ ~crossed /\ LuaInv => DOMAIN scriptCalls = {i}
<1>1. /\ scriptCalls \in Seq(ScriptCalls) /\ Len(scriptCalls) \in Nat
      /\ DOMAIN scriptCalls = 1 .. Len(scriptCalls)
  BY DEF LuaTypes
<1>2. scriptCalls[i] \in ScriptCalls
  BY <1>1
<1>3. ~crossed /\ LuaInv => DOMAIN scriptCalls = {i}
  <2>1. SUFFICES ASSUME ~crossed, LuaInv PROVE DOMAIN scriptCalls = {i}
    OBVIOUS
  <2>2. Len(scriptCalls) <= 1
    BY <2>1 DEF LuaInv
  <2>3. Len(scriptCalls) = 1 /\ i = 1
    BY <1>1, <2>2
  <2>4. QED
    BY <1>1, <2>3
<1>4. QED
  BY <1>2, <1>3 DEF ScriptCalls

LEMMA AskKeeps ==
    ASSUME LuaTypes, LuaInv, NEW kind \in {"open", "create", "delete", "save"}, NEW f \in Files,
           NEW t \in Texts \cup {Nothing}, kind = "save" => current = f /\ t \in Texts, Ask(kind, f, t)
    PROVE  LuaTypes' /\ LuaInv'
<1> DEFINE c == [kind |-> kind, file |-> f, text |-> t, served |-> FALSE, ok |-> FALSE,
           fd |-> "none"]
<1>1. c \in ScriptCalls /\ c.kind = kind /\ c.file = f /\ ~c.served /\ c.fd = "none"
  BY DEF ScriptCalls
<1>2. /\ scriptCalls \in Seq(ScriptCalls) /\ scriptCalls' = Append(scriptCalls, c)
      /\ crossed' = (crossed \/ scriptCalls # <<>>)
      /\ UNCHANGED <<disk, current, content, original>>
  BY DEF Ask, LuaTypes
<1> HIDE DEF c
<1>3. scriptCalls' \in Seq(ScriptCalls) /\ crossed' \in BOOLEAN
  BY <1>1, <1>2 DEF LuaTypes
<1>4. LuaTypes'
  BY <1>2, <1>3 DEF LuaTypes
<1>5. ASSUME ~crossed' PROVE LuaInv'
  <2>1. ~crossed /\ scriptCalls = <<>>
    BY <1>2, <1>5
  <2>2. Len(scriptCalls') = 1 /\ DOMAIN scriptCalls' = {1} /\ scriptCalls'[1] = c /\ DOMAIN scriptCalls = {}
    BY <1>1, <1>2, <2>1
  <2>3. current # Nothing => disk[current] = original
    BY <2>1, <2>2 DEF LuaInv
  <2>4. QED
    BY <1>1, <1>2, <2>2, <2>3 DEF LuaInv, Followed
<1>6. QED
  BY <1>4, <1>5 DEF LuaInv

\* A call is answered, or its file is opened, and the others are left alone.
LEMMA ServedKeeps ==
    ASSUME LuaTypes, NEW i \in DOMAIN scriptCalls, NEW c \in ScriptCalls,
           scriptCalls' = [scriptCalls EXCEPT ![i] = c],
           disk' \in [Files -> Texts \cup {Nothing}], crossed' \in BOOLEAN,
           UNCHANGED <<current, content, original>>
    PROVE  /\ LuaTypes'
           /\ Len(scriptCalls') = Len(scriptCalls) /\ DOMAIN scriptCalls' = DOMAIN scriptCalls
           /\ scriptCalls'[i] = c
<1>1. scriptCalls \in Seq(ScriptCalls)
  BY DEF LuaTypes
<1>2. /\ scriptCalls' \in Seq(ScriptCalls) /\ DOMAIN scriptCalls' = DOMAIN scriptCalls
      /\ Len(scriptCalls') = Len(scriptCalls) /\ scriptCalls'[i] = c
  BY <1>1, ExceptSeq
<1>3. QED
  BY <1>2 DEF LuaTypes

\* The call that is served while none crossed it.
LEMMA AloneBefore ==
    ASSUME LuaTypes, LuaInv, ~crossed, NEW i \in DOMAIN scriptCalls, ~scriptCalls[i].served
    PROVE  /\ DOMAIN scriptCalls = {i} /\ Len(scriptCalls) <= 1
           /\ scriptCalls[i].fd = "none" /\ current # Nothing => disk[current] = original
           /\ scriptCalls[i].kind = "save" => current \in {scriptCalls[i].file, Nothing}
           /\ scriptCalls[i].fd # "none" =>
                 scriptCalls[i].fd = "file" /\ disk[scriptCalls[i].file] = Blank
  BY ScriptCallTypes DEF LuaInv, Followed

LEMMA RefuseScriptKeeps ==
    ASSUME LuaTypes, LuaInv, NEW i \in DOMAIN scriptCalls, RefuseScript(i)
    PROVE  LuaTypes' /\ LuaInv'
<1> DEFINE c == [scriptCalls[i] EXCEPT !.served = TRUE, !.ok = FALSE]
<1>1. scriptCalls[i] \in ScriptCalls
  BY ScriptCallTypes
<1>2. c \in ScriptCalls /\ c.kind = scriptCalls[i].kind /\ c.file = scriptCalls[i].file /\ c.fd = "none" /\ ~c.ok
  BY <1>1 DEF ScriptCalls, RefuseScript
<1>3. /\ scriptCalls' = [scriptCalls EXCEPT ![i] = c] /\ ~scriptCalls[i].served
      /\ UNCHANGED <<disk, crossed, current, content, original>>
  BY <1>1 DEF RefuseScript, Reply, Waiting, ScriptCalls
<1> HIDE DEF c
<1>4. /\ LuaTypes' /\ Len(scriptCalls') = Len(scriptCalls)
      /\ DOMAIN scriptCalls' = DOMAIN scriptCalls /\ scriptCalls'[i] = c
  BY <1>2, <1>3, ServedKeeps DEF LuaTypes
<1>5. ASSUME ~crossed PROVE LuaInv'
  <2>1. /\ DOMAIN scriptCalls = {i} /\ Len(scriptCalls) <= 1
        /\ current # Nothing => disk[current] = original
        /\ scriptCalls[i].kind = "save" => current \in {scriptCalls[i].file, Nothing}
    BY <1>3, <1>5, AloneBefore DEF RefuseScript
  <2>2. QED
    BY <1>2, <1>3, <1>4, <2>1 DEF LuaInv, Followed
<1>6. QED
  BY <1>3, <1>4, <1>5 DEF LuaInv

LEMMA GetScriptKeeps ==
    ASSUME LuaTypes, LuaInv, NEW i \in DOMAIN scriptCalls, GetScript(i)
    PROVE  LuaTypes' /\ LuaInv'
<1> DEFINE text == disk[scriptCalls[i].file]
           c == [scriptCalls[i] EXCEPT !.served = TRUE, !.ok = TRUE, !.text = text]
<1>1. /\ scriptCalls[i] \in ScriptCalls /\ scriptCalls[i].kind \in {"open", "create"}
      /\ scriptCalls[i].fd = "none" /\ text \in Texts
  BY ScriptCallTypes DEF GetScript, Waiting, Found, LuaTypes, ScriptCalls
<1>2. c \in ScriptCalls /\ c.kind = scriptCalls[i].kind /\ c.file = scriptCalls[i].file /\ c.fd = "none" /\ c.text = text
  BY <1>1 DEF ScriptCalls
<1>3. /\ scriptCalls' = [scriptCalls EXCEPT ![i] = c] /\ ~scriptCalls[i].served
      /\ UNCHANGED <<disk, crossed, current, content, original>>
  BY <1>1 DEF GetScript, Waiting, ScriptCalls
<1> HIDE DEF c
<1>4. /\ LuaTypes' /\ Len(scriptCalls') = Len(scriptCalls)
      /\ DOMAIN scriptCalls' = DOMAIN scriptCalls /\ scriptCalls'[i] = c
  BY <1>2, <1>3, ServedKeeps DEF LuaTypes
<1>5. ASSUME ~crossed PROVE LuaInv'
  <2>1. /\ DOMAIN scriptCalls = {i} /\ Len(scriptCalls) <= 1
        /\ current # Nothing => disk[current] = original
    BY <1>1, <1>3, <1>5, AloneBefore
  <2>2. QED
    BY <1>1, <1>2, <1>3, <1>4, <2>1 DEF LuaInv, Followed
<1>6. QED
  BY <1>3, <1>4, <1>5 DEF LuaInv

LEMMA TruncateScriptKeeps ==
    ASSUME LuaTypes, LuaInv, NEW i \in DOMAIN scriptCalls, TruncateScript(i)
    PROVE  LuaTypes' /\ LuaInv'
<1> DEFINE c == [scriptCalls[i] EXCEPT !.fd = "file"]
<1>1. /\ scriptCalls[i] \in ScriptCalls /\ scriptCalls[i].kind = "save" /\ ~scriptCalls[i].served
      /\ scriptCalls[i].file \in Files /\ scriptCalls[i].fd = "none"
  BY ScriptCallTypes DEF TruncateScript, Waiting
<1>2. /\ c \in ScriptCalls /\ c.kind = "save" /\ c.file = scriptCalls[i].file /\ c.fd = "file" /\ ~c.served
  BY <1>1 DEF ScriptCalls
<1>3. /\ scriptCalls' = [scriptCalls EXCEPT ![i] = c]
      /\ disk' = [disk EXCEPT ![scriptCalls[i].file] = Blank]
      /\ UNCHANGED <<crossed, current, content, original>>
  BY <1>1 DEF TruncateScript, Waiting, ScriptCalls
<1> HIDE DEF c
<1>4. disk' \in [Files -> Texts \cup {Nothing}] /\ disk'[c.file] = Blank
  BY <1>1, <1>2, <1>3, EditorAssumption DEF LuaTypes
<1>5. /\ LuaTypes' /\ Len(scriptCalls') = Len(scriptCalls)
      /\ DOMAIN scriptCalls' = DOMAIN scriptCalls /\ scriptCalls'[i] = c
  BY <1>2, <1>3, <1>4, ServedKeeps DEF LuaTypes
<1>6. ASSUME ~crossed PROVE LuaInv'
  <2>1. /\ DOMAIN scriptCalls = {i} /\ Len(scriptCalls) <= 1 /\ current \in {scriptCalls[i].file, Nothing}
    BY <1>1, <1>6, AloneBefore
  <2>2. QED
    BY <1>2, <1>3, <1>4, <1>5, <2>1 DEF LuaInv, Followed
<1>7. QED
  BY <1>3, <1>5, <1>6 DEF LuaInv

\* A write that fails is no longer followed: it counts as one that crossed.
LEMMA WriteScriptKeeps ==
    ASSUME LuaTypes, LuaInv, NEW i \in DOMAIN scriptCalls, WriteScript(i)
    PROVE  LuaTypes' /\ LuaInv'
<1> DEFINE call == scriptCalls[i]
<1>1. /\ call \in ScriptCalls /\ call.kind = "save" /\ ~call.served /\ call.fd # "none"
      /\ call.file \in Files /\ call.text \in Texts
      /\ UNCHANGED <<current, content, original>>
  BY ScriptCallTypes DEF WriteScript, Waiting, ScriptCalls
<1>2. PICK ok \in BOOLEAN :
         /\ Reply(i, ok)
         /\ crossed' = (crossed \/ ~ok)
         /\ IF call.fd = "gone" THEN UNCHANGED disk
            ELSE \E text \in Leaves(call, ok) : disk' = [disk EXCEPT ![call.file] = text]
  BY DEF WriteScript
<1> DEFINE c == [call EXCEPT !.served = TRUE, !.ok = ok]
<1>3. /\ c \in ScriptCalls /\ c.kind = "save" /\ c.file = call.file /\ c.text = call.text /\ c.fd = call.fd
      /\ c.served = TRUE /\ c.ok = ok
  BY <1>1 DEF ScriptCalls
<1>4. scriptCalls' = [scriptCalls EXCEPT ![i] = c]
  BY <1>1, <1>2 DEF Reply, ScriptCalls
<1> HIDE DEF c, call
<1>5. Leaves(call, ok) \subseteq Texts
  BY <1>1, EditorAssumption DEF Leaves
<1>6. disk' \in [Files -> Texts \cup {Nothing}]
  <2>1. disk \in [Files -> Texts \cup {Nothing}]
    BY DEF LuaTypes
  <2>2. QED
    BY <1>2, <1>5, <2>1
<1>7. crossed' \in BOOLEAN
  BY <1>2 DEF LuaTypes
<1>8. /\ LuaTypes' /\ Len(scriptCalls') = Len(scriptCalls)
      /\ DOMAIN scriptCalls' = DOMAIN scriptCalls /\ scriptCalls'[i] = c
  BY <1>1, <1>3, <1>4, <1>6, <1>7, ServedKeeps
<1>9. ASSUME ~crossed' PROVE LuaInv'
  <2>1. ~crossed /\ ok
    BY <1>2, <1>9
  <2>2. /\ DOMAIN scriptCalls = {i} /\ Len(scriptCalls) <= 1
        /\ current \in {call.file, Nothing} /\ call.fd = "file" /\ disk[call.file] = Blank
    BY <1>1, <2>1, AloneBefore DEF call
  <2>3. disk' = [disk EXCEPT ![call.file] = call.text]
    BY <1>2, <2>1, <2>2 DEF Leaves
  <2>4. disk'[call.file] = call.text
    BY <1>1, <2>3 DEF LuaTypes
  <2>5. QED
    BY <1>1, <1>3, <1>8, <2>1, <2>2, <2>4 DEF LuaInv, Followed
<1>10. QED
  BY <1>8, <1>9 DEF LuaInv

LEMMA DeleteScriptKeeps ==
    ASSUME LuaTypes, LuaInv, NEW i \in DOMAIN scriptCalls, DeleteScript(i)
    PROVE  LuaTypes' /\ LuaInv'
<1> DEFINE file == scriptCalls[i].file
           After(j) == IF j = i THEN [scriptCalls[j] EXCEPT !.served = TRUE, !.ok = TRUE]
                       ELSE IF scriptCalls[j].file = file /\ scriptCalls[j].fd = "file"
                       THEN [scriptCalls[j] EXCEPT !.fd = "gone"] ELSE scriptCalls[j]
<1>1. /\ scriptCalls[i] \in ScriptCalls /\ scriptCalls[i].kind = "delete" /\ ~scriptCalls[i].served
      /\ file \in Files /\ scriptCalls[i].fd = "none"
      /\ disk' = [disk EXCEPT ![file] = Nothing]
      /\ UNCHANGED <<current, content, original, crossed>>
      /\ scriptCalls' = [j \in DOMAIN scriptCalls |-> After(j)]
  BY ScriptCallTypes DEF DeleteScript, Waiting, ScriptCalls
<1>2. /\ scriptCalls \in Seq(ScriptCalls) /\ Len(scriptCalls) \in Nat
      /\ DOMAIN scriptCalls = 1 .. Len(scriptCalls)
  BY DEF LuaTypes
<1>3. ASSUME NEW j \in DOMAIN scriptCalls PROVE After(j) \in ScriptCalls
  BY ScriptCallTypes, <1>1 DEF ScriptCalls
<1>4. /\ After(i).kind = "delete" /\ After(i).file = file /\ After(i).fd = "none"
      /\ After(i).served = TRUE /\ After(i).ok = TRUE
  BY <1>1 DEF ScriptCalls
<1> HIDE DEF After
<1>5. /\ scriptCalls' \in Seq(ScriptCalls) /\ Len(scriptCalls') = Len(scriptCalls)
      /\ DOMAIN scriptCalls' = DOMAIN scriptCalls /\ scriptCalls'[i] = After(i)
  BY <1>1, <1>2, <1>3
<1>6. LuaTypes'
  BY <1>1, <1>5 DEF LuaTypes
<1>7. ASSUME ~crossed PROVE LuaInv'
  <2>1. /\ DOMAIN scriptCalls = {i} /\ Len(scriptCalls) <= 1
        /\ current # Nothing => disk[current] = original
    BY <1>1, <1>7, AloneBefore
  <2>2. \A f \in Files \ {file} : disk'[f] = disk[f]
    BY <1>1 DEF LuaTypes
  <2>3. current' \in {file, Nothing} \/ disk'[current'] = original'
    BY <1>1, <2>1, <2>2 DEF LuaTypes
  <2>4. QED
    BY <1>1, <1>4, <1>5, <2>1, <2>3 DEF LuaInv, Followed
<1>8. QED
  BY <1>1, <1>6, <1>7 DEF LuaInv

LEMMA ServeScriptKeeps ==
    ASSUME LuaTypes, LuaInv, NEW i \in DOMAIN scriptCalls, ServeScript(i)
    PROVE  LuaTypes' /\ LuaInv'
  BY RefuseScriptKeeps, GetScriptKeeps, TruncateScriptKeeps, WriteScriptKeeps, DeleteScriptKeeps
     DEF ServeScript

\* An answer that is taken: nothing is left under way unless calls crossed.
LEMMA ToldKeeps ==
    ASSUME LuaTypes, LuaInv, NEW i \in DOMAIN scriptCalls, scriptCalls' = RemoveAt(scriptCalls, i),
           disk' = disk, current' \in Files \cup {Nothing}, crossed' = crossed,
           content' \in Texts \cup {Nothing}, original' \in Texts \cup {Nothing},
           current' # Nothing => content' \in Texts,
           ~crossed /\ current' # Nothing => disk[current'] = original'
    PROVE  LuaTypes' /\ LuaInv'
<1>1. scriptCalls \in Seq(ScriptCalls)
  BY DEF LuaTypes
<1>2. scriptCalls' \in Seq(ScriptCalls) /\ Len(scriptCalls') = Len(scriptCalls) - 1
  BY <1>1, RemoveAtFacts
<1>3. LuaTypes'
  BY <1>2 DEF LuaTypes
<1>4. ASSUME ~crossed PROVE LuaInv'
  <2>1. Len(scriptCalls) <= 1 /\ Len(scriptCalls) \in Nat /\ Len(scriptCalls') \in Nat
    BY <1>1, <1>2, <1>4 DEF LuaInv
  <2>2. Len(scriptCalls') = 0
    BY <1>2, <2>1
  <2>3. DOMAIN scriptCalls' = {}
    BY <1>2, <2>2
  <2>4. QED
    BY <2>2, <2>3 DEF LuaInv
<1>5. QED
  BY <1>3, <1>4 DEF LuaInv

LEMMA LuaStep ==
    LuaTypes /\ LuaInv /\ (LuaSteps \/ UNCHANGED luaVars) => LuaTypes' /\ LuaInv'
<1> SUFFICES ASSUME LuaTypes, LuaInv, LuaSteps \/ UNCHANGED luaVars PROVE LuaTypes' /\ LuaInv'
  OBVIOUS
<1>1. /\ disk \in [Files -> Texts \cup {Nothing}] /\ current \in Files \cup {Nothing}
      /\ content \in Texts \cup {Nothing} /\ original \in Texts \cup {Nothing}
      /\ current # Nothing => content \in Texts
      /\ scriptCalls \in Seq(ScriptCalls)
      /\ \A i \in DOMAIN scriptCalls :
            /\ scriptCalls[i] \in ScriptCalls /\ scriptCalls[i].file \in Files
            /\ scriptCalls[i].text \in Texts \cup {Nothing}
            /\ scriptCalls[i].kind = "open" /\ scriptCalls[i].ok => scriptCalls[i].text \in Texts
            /\ scriptCalls[i].kind # "save" => scriptCalls[i].fd = "none"
  BY ScriptCallTypes DEF LuaTypes, ScriptCalls
<1>2. ASSUME NEW kind \in {"open", "create", "delete"}, NEW f \in Files, Ask(kind, f, Nothing)
      PROVE  LuaTypes' /\ LuaInv'
  BY <1>2, AskKeeps
<1>3. CASE SaveFile
  BY <1>1, <1>3, AskKeeps DEF SaveFile
<1>4. CASE Clear
  BY <1>4 DEF Clear, LuaTypes, LuaInv
<1>5. ASSUME NEW t \in Texts, SetContent(t) PROVE LuaTypes' /\ LuaInv'
  BY <1>5 DEF SetContent, LuaTypes, LuaInv
<1>6. ASSUME NEW i \in DOMAIN scriptCalls PROVE ServeScript(i) => LuaTypes' /\ LuaInv'
  BY ServeScriptKeeps
<1>7. ASSUME ~crossed, NEW i \in DOMAIN scriptCalls
      PROVE  DOMAIN scriptCalls = {i}
  BY <1>7, ScriptCallTypes
<1>8. ASSUME NEW i \in DOMAIN scriptCalls, OpenAnswered(i) PROVE LuaTypes' /\ LuaInv'
  <2>1. ~crossed /\ current' # Nothing => disk[current'] = original'
    BY <1>1, <1>7, <1>8 DEF OpenAnswered, Told, LuaInv, Followed
  <2>2. QED
    BY <1>1, <1>8, <2>1, ToldKeeps DEF OpenAnswered, Told
<1>9. ASSUME NEW i \in DOMAIN scriptCalls, CreateAnswered(i) PROVE LuaTypes' /\ LuaInv'
  <2>1. ~crossed /\ current' # Nothing => disk[current'] = original'
    BY <1>1, <1>7, <1>9 DEF CreateAnswered, Told, LuaInv, Followed
  <2>2. TemplateOf[scriptCalls[i].file] \in Texts
    BY <1>1, EditorAssumption
  <2>3. QED
    BY <1>1, <1>9, <2>1, <2>2, ToldKeeps DEF CreateAnswered, Told
<1>10. ASSUME NEW i \in DOMAIN scriptCalls, SaveFileAnswered(i) PROVE LuaTypes' /\ LuaInv'
  <2>1. ~crossed /\ current' # Nothing => disk[current'] = original'
    BY <1>1, <1>7, <1>10 DEF SaveFileAnswered, Told, LuaInv, Followed
  <2>2. QED
    BY <1>1, <1>10, <2>1, ToldKeeps DEF SaveFileAnswered, Told
<1>11. ASSUME NEW i \in DOMAIN scriptCalls, DeleteAnswered(i) PROVE LuaTypes' /\ LuaInv'
  <2>1. ~crossed /\ current' # Nothing => disk[current'] = original'
    BY <1>1, <1>7, <1>11 DEF DeleteAnswered, Told, LuaInv, Followed
  <2>2. QED
    BY <1>1, <1>11, <2>1, ToldKeeps DEF DeleteAnswered, Told
<1>12. ASSUME NEW i \in DOMAIN scriptCalls, ScriptCallFails(i) PROVE LuaTypes' /\ LuaInv'
  <2>1. scriptCalls' \in Seq(ScriptCalls)
    BY <1>1, <1>12, RemoveAtFacts DEF ScriptCallFails
  <2>2. TemplateOf[scriptCalls[i].file] \in Texts
    BY <1>1, EditorAssumption
  <2>3. QED
    BY <1>1, <1>12, <2>1, <2>2 DEF ScriptCallFails, LuaTypes, LuaInv
<1>13. CASE UNCHANGED luaVars
  BY <1>13 DEF luaVars, LuaTypes, LuaInv
<1>14. QED
  BY <1>2, <1>3, <1>4, <1>5, <1>6, <1>8, <1>9, <1>10, <1>11, <1>12, <1>13 DEF LuaSteps

\* Without the mark of unsaved changes the text of the editor is the text of
\* the file (luaStore.ts:21), unless two calls crossed or one failed half-way.
THEOREM CleanIsSaved == DialogsSpec => []CleanMeansSaved
<1>1. DialogsInit => LuaTypes /\ LuaInv
  BY LuaInitInv DEF DialogsInit
<1>2. LuaTypes /\ LuaInv /\ [DialogsNext]_dialogVars => (LuaTypes /\ LuaInv)'
  BY StepOfLua, LuaStep
<1>3. LuaInv => CleanMeansSaved
  BY DEF LuaInv, CleanMeansSaved, isDirty
<1>4. QED
  BY <1>1, <1>2, <1>3, PTL DEF DialogsSpec

-----------------------------------------------------------------------------
(* The base layer                                                          *)

USE TypesAssumption

LEMMA InitShape == BaseInit => BaseTypeOK
<1> SUFFICES ASSUME BaseInit PROVE BaseTypeOK
  OBVIOUS
<1>1. layers \in Seq(Types)
  BY DEF BaseInit
<1>2. loads \in [Types -> 0..MaxLoads]
  BY 0 \in 0..MaxLoads DEF BaseInit
<1> QED
  BY <1>1, <1>2, Zenon DEF BaseInit, BaseTypeOK

\* What one run of the imagery effect leaves: nothing but its own layer, or
\* one more answer to come.
LEMMA PutFacts ==
  ASSUME BaseTypeOK, Put(<<>>)
  PROVE  /\ applied' = imageryType /\ applied' \in Types /\ due' = FALSE /\ gone' = FALSE
         /\ \/ /\ imageryType \in Remote /\ layers' = <<>>
               /\ loads[imageryType] < MaxLoads
               /\ loads' = [loads EXCEPT ![imageryType] = @ + 1]
            \/ imageryType = Dark /\ layers' = <<>> /\ loads' = loads
            \/ imageryType \notin Remote /\ layers' = <<imageryType>> /\ loads' = loads
         /\ UNCHANGED choice
<1>1. imageryType \in Types
  BY DEF BaseTypeOK, imageryType
<1>2. Append(<<>>, imageryType) = <<imageryType>>
  OBVIOUS
<1> QED
  BY <1>1, <1>2 DEF Put

LEMMA StepShape == BaseTypeOK /\ [BaseNext]_baseVars => BaseTypeOK'
<1> SUFFICES ASSUME BaseTypeOK, [BaseNext]_baseVars PROVE BaseTypeOK'
  OBVIOUS
<1>1. ASSUME NEW t \in Types, Select(t) PROVE BaseTypeOK'
  BY <1>1 DEF BaseTypeOK, Select
<1>2. ASSUME NEW t \in Types \cup {NoType}, NEW hideUi \in BOOLEAN, ApplyHash(t, hideUi)
      PROVE BaseTypeOK'
  <2>1. picked' \in Types \cup {NoType}
    BY <1>2, SMT DEF BaseTypeOK, ApplyHash
  <2> QED BY <1>2, <2>1 DEF BaseTypeOK, ApplyHash
<1>3. CASE NewToken
  BY <1>3 DEF BaseTypeOK, NewToken, choice
<1>4. CASE SwitchLayer
  <2>1. Put(<<>>)
    BY <1>4 DEF SwitchLayer
  <2>2. layers' \in Seq(Types)
    <3>1. imageryType \in Types => <<imageryType>> \in Seq(Types)
      OBVIOUS
    <3>2. <<>> \in Seq(Types)
      OBVIOUS
    <3>3. layers' = <<>> \/ (layers' = <<imageryType>> /\ imageryType \in Types)
      BY <2>1, PutFacts
    <3> QED BY <3>1, <3>2, <3>3, Zenon
  <2>3. loads' \in [Types -> 0..MaxLoads]
    <3>1. loads \in [Types -> 0..MaxLoads] /\ imageryType \in Types
      BY <2>1, PutFacts DEF BaseTypeOK
    <3>2. loads[imageryType] < MaxLoads => loads[imageryType] + 1 \in 0..MaxLoads
      BY <3>1
    <3> QED BY <2>1, <3>1, <3>2, PutFacts
  <2> QED BY <2>1, <2>2, <2>3, PutFacts DEF BaseTypeOK, choice
<1>5. ASSUME NEW t \in Remote, Loaded(t) PROVE BaseTypeOK'
  <2>1. t \in Types /\ loads' \in [Types -> 0..MaxLoads]
    BY <1>5 DEF BaseTypeOK, Loaded
  <2>2. layers' \in Seq(Types)
    BY <1>5, <2>1 DEF BaseTypeOK, Loaded
  <2> QED BY <1>5, <2>1, <2>2 DEF BaseTypeOK, Loaded, choice
<1>6. ASSUME NEW t \in Remote, LoadFails(t) PROVE BaseTypeOK'
  <2>1. t \in Types /\ loads' \in [Types -> 0..MaxLoads]
    BY <1>6 DEF BaseTypeOK, LoadFails
  <2> QED BY <1>6, <2>1 DEF BaseTypeOK, LoadFails, choice
<1>7. CASE RebuildViewer
  BY <1>7 DEF BaseTypeOK, RebuildViewer, choice
<1>8. CASE UNCHANGED baseVars
  BY <1>8 DEF BaseTypeOK, baseVars, choice
<1> QED BY <1>1, <1>2, <1>3, <1>4, <1>5, <1>6, <1>7, <1>8 DEF BaseNext

\* Every variable of the model keeps its type.
THEOREM TypesHold == BaseSpec => []BaseTypeOK
  BY InitShape, StepShape, PTL DEF BaseSpec

-----------------------------------------------------------------------------
\* For any base layers, picker, globe and storage agree on the choice
\* (ImageryPicker.tsx:175, CesiumGlobe.tsx:133), whatever the hash does.
THEOREM ChoiceIsOne == BaseSpec => []PickerAgrees
<1>1. BaseInit => PickerAgrees
  BY DEF BaseInit, PickerAgrees
<1>2. PickerAgrees /\ BaseTypeOK /\ [BaseNext]_baseVars => PickerAgrees'
  <2> SUFFICES ASSUME PickerAgrees, BaseTypeOK, [BaseNext]_baseVars PROVE PickerAgrees'
    OBVIOUS
  <2>1. ASSUME NEW t \in Types, Select(t) PROVE PickerAgrees'
    BY <2>1 DEF PickerAgrees, Select
  <2>2. ASSUME NEW t \in Types \cup {NoType}, NEW hideUi \in BOOLEAN, ApplyHash(t, hideUi)
        PROVE PickerAgrees'
    BY <2>2 DEF PickerAgrees, ApplyHash
  <2>3. CASE UNCHANGED choice
    BY <2>3 DEF PickerAgrees, choice
  <2> QED
    BY <2>1, <2>2, <2>3 DEF BaseNext, NewToken, SwitchLayer, Put, Loaded, LoadFails,
                            RebuildViewer, baseVars
<1> QED BY <1>1, <1>2, TypesHold, PTL DEF BaseSpec

-----------------------------------------------------------------------------
LEMMA InitFollows == BaseInit => LayersFollowTheChoice
  BY DEF BaseInit, LayersFollowTheChoice

LEMMA StepFollows ==
  BaseTypeOK /\ LayersFollowTheChoice /\ [BaseNext]_baseVars => LayersFollowTheChoice'
<1> SUFFICES ASSUME BaseTypeOK, LayersFollowTheChoice, [BaseNext]_baseVars
             PROVE  LayersFollowTheChoice'
  OBVIOUS
<1>1. CASE SwitchLayer
  <2>1. Put(<<>>)
    BY <1>1 DEF SwitchLayer
  <2>2. CASE imageryType \in Remote /\ layers' = <<>>
             /\ loads[imageryType] < MaxLoads
             /\ loads' = [loads EXCEPT ![imageryType] = @ + 1]
    <3>1. loads \in [Types -> 0..MaxLoads] /\ imageryType \in Types /\ applied' = imageryType
      BY <2>1, PutFacts DEF BaseTypeOK
    <3>2. loads'[imageryType] = loads[imageryType] + 1 /\ loads[imageryType] \in Nat
      BY <2>2, <3>1
    <3>3. loads'[applied'] # 0
      BY <3>1, <3>2
    <3> QED BY <2>2, <3>3 DEF LayersFollowTheChoice
  <2>3. CASE imageryType = Dark /\ layers' = <<>>
    BY <2>1, <2>3, PutFacts DEF LayersFollowTheChoice
  <2>4. CASE imageryType \notin Remote /\ layers' = <<imageryType>>
    <3>1. DOMAIN layers' = {1} /\ layers'[1] = imageryType
      BY <2>4
    <3> QED BY <2>1, <3>1, PutFacts DEF LayersFollowTheChoice
  <2> QED BY <2>1, <2>2, <2>3, <2>4, PutFacts
<1>2. ASSUME NEW t \in Remote, Loaded(t) PROVE LayersFollowTheChoice'
  <2>1. t \in Types /\ Len(layers) \in Nat /\ layers' = Append(layers, t)
    BY <1>2 DEF Loaded, BaseTypeOK
  <2>2. /\ DOMAIN layers' = 1..(Len(layers) + 1) /\ DOMAIN layers = 1..Len(layers)
        /\ layers'[Len(layers) + 1] = t
        /\ \A i \in DOMAIN layers : layers'[i] = layers[i]
    BY <2>1 DEF BaseTypeOK
  <2>3. /\ applied' = applied /\ gone' = gone
        /\ t # applied /\ applied \in Types => loads'[applied] = loads[applied]
    BY <1>2, <2>1 DEF Loaded, BaseTypeOK
  <2>4. \A i \in DOMAIN layers' : layers'[i] \notin Remote => layers'[i] = applied'
    BY <2>2, <2>3 DEF LayersFollowTheChoice
  <2>5. ASSUME applied' # NoType, ~gone', applied' # Dark, loads'[applied'] = 0
        PROVE  \E i \in DOMAIN layers' : layers'[i] = applied'
    <3>1. CASE t = applied
      BY <2>1, <2>2, <2>3, <3>1
    <3>2. CASE t # applied
      BY <2>2, <2>3, <2>5, <3>2 DEF LayersFollowTheChoice, BaseTypeOK
    <3> QED BY <3>1, <3>2
  <2> QED BY <2>4, <2>5 DEF LayersFollowTheChoice
<1>3. ASSUME NEW t \in Remote, LoadFails(t) PROVE LayersFollowTheChoice'
  <2>1. /\ t \in Types /\ layers' = layers /\ applied' = applied
        /\ gone' = (gone \/ t = applied)
        /\ t # applied /\ applied \in Types => loads'[applied] = loads[applied]
    BY <1>3 DEF LoadFails, BaseTypeOK, choice
  <2> QED BY <2>1 DEF LayersFollowTheChoice, BaseTypeOK
<1>4. CASE RebuildViewer
  BY <1>4 DEF RebuildViewer, LayersFollowTheChoice
<1>5. CASE UNCHANGED <<applied, layers, loads, gone>>
  BY <1>5 DEF LayersFollowTheChoice
<1> QED
  BY <1>1, <1>2, <1>3, <1>4, <1>5 DEF BaseNext, Select, ApplyHash, NewToken, baseVars, choice

\* For any base layers and any number of answers under way, the layer applied
\* is on the globe once its answers are there, and no local layer of an
\* earlier choice is (CesiumGlobe.tsx:288-440).
THEOREM LayersFollow == BaseSpec => []LayersFollowTheChoice
  BY TypesHold, InitFollows, StepFollows, PTL DEF BaseSpec

=============================================================================
