--------------------------- MODULE WebRoutesProofs ---------------------------
(***************************************************************************)
(* Proofs about WebRoutes, for any hostnames, commands, faults, crashes,   *)
(* restarts and edits: types, the resolver of Traefik, issuers before      *)
(* routes, the exposures that stay served, and guards before the tailnet.  *)
(***************************************************************************)
EXTENDS WebRoutes, Integers, WellFoundedInduction, FiniteSetTheorems, SequenceTheorems, TLAPS

-----------------------------------------------------------------------------
(* Sequences *)

\* A set of natural numbers that is not empty has a least member.
LEMMA LeastNatural ==
  ASSUME NEW T \in SUBSET Nat, T # {}
  PROVE  \E x \in T : \A y \in T : x <= y
<1> DEFINE R == OpToRel(<, Nat)
<1>1. IsWellFoundedOn(R, Nat)
  BY NatLessThanWellFounded
<1>2. \A x, y \in Nat : x < y => <<x, y>> \in R
  BY DEF OpToRel
<1> HIDE DEF R
<1>3. PICK x \in T : \A y \in T : <<y, x>> \notin R
  BY <1>1, WFMin
<1>4. ASSUME NEW y \in T PROVE x <= y
  <2>1. ~(y < x)
    BY <1>2, <1>3
  <2> QED BY <2>1
<1> QED BY <1>4

\* Induction over the natural numbers, for the members of a set.
LEMMA SetInduction ==
  ASSUME NEW S, 0 \in S, \A n \in Nat : n \in S => n + 1 \in S
  PROVE  Nat \subseteq S
<1> DEFINE T == Nat \ S
<1>1. SUFFICES ASSUME T # {} PROVE FALSE
  OBVIOUS
<1>2. PICK x \in T : \A y \in T : x <= y
  BY <1>1, LeastNatural
<1>3. x \in Nat /\ x # 0 /\ x - 1 \in Nat /\ x - 1 < x /\ (x - 1) + 1 = x
  OBVIOUS
<1>4. x - 1 \in S
  BY <1>2, <1>3
<1>5. x \in S
  BY <1>3, <1>4
<1> QED BY <1>5

\* The operator Min of a set of natural numbers that is not empty.
LEMMA MinIsLeast ==
  ASSUME NEW T \in SUBSET Nat, T # {}
  PROVE  Min(T) \in T /\ \A y \in T : Min(T) <= y
BY LeastNatural DEF Min

\* The concatenation of a sequence of sequences is in every set that is closed under
\* concatenation and contains them and the empty sequence.
LEMMA FlattenClosed ==
  ASSUME NEW S, NEW Q \in SUBSET Seq(S), <<>> \in Q, \A s, t \in Q : s \o t \in Q,
         NEW n \in Nat, NEW f \in [1..n -> Q]
  PROVE  FlattenSeq(f) \in Q
<1> DEFINE Flat(g) == [i \in 1..Len(f) |-> IF i = 1 THEN f[i] ELSE g[i - 1] \o f[i]]
           Parts(k) == {g \in [1..k -> Q] :
                          \A i \in 1..k : g[i] = IF i = 1 THEN f[i] ELSE g[i - 1] \o f[i]}
           A == {k \in Nat : k <= n => Parts(k) # {}}
<1>1. Len(f) = n /\ f \in Seq(Q)
  OBVIOUS
<1>2. CASE n = 0
  <2>1. f = <<>> /\ FlattenSeq(f) = f
    BY <1>1, <1>2 DEF FlattenSeq
  <2> QED BY <2>1
<1>3. CASE n # 0
  <2>1. 0 \in A
    <3>1. [i \in 1..0 |-> <<>>] \in Parts(0)
      OBVIOUS
    <3> QED BY <3>1
  <2>2. ASSUME NEW k \in Nat, k \in A PROVE k + 1 \in A
    <3>0. Parts(k + 1) # {} => k + 1 \in A
      <4> HIDE DEF Parts
      <4> QED OBVIOUS
    <3>1. SUFFICES ASSUME k + 1 <= n PROVE Parts(k + 1) # {}
      <4> HIDE DEF Parts
      <4> QED BY <3>0
    <3>2. Parts(k) # {}
      <4> HIDE DEF Parts
      <4> QED BY <2>2, <3>1
    <3>3. PICK g \in Parts(k) : TRUE
      <4> HIDE DEF Parts
      <4> QED BY <3>2
    <3> DEFINE new == IF k = 0 THEN f[1] ELSE g[k] \o f[k + 1]
               h == [i \in 1..(k + 1) |-> IF i = k + 1 THEN new ELSE g[i]]
    <3>4. new \in Q
      BY <3>1, <3>3
    <3>5. h \in [1..(k + 1) -> Q]
      BY <3>3, <3>4
    <3>6. ASSUME NEW i \in 1..(k + 1)
          PROVE  h[i] = IF i = 1 THEN f[i] ELSE h[i - 1] \o f[i]
      <4>1. CASE i = k + 1
        BY <4>1
      <4>2. CASE i # k + 1
        <5>1. i \in 1..k /\ h[i] = g[i] /\ (i # 1 => i - 1 \in 1..(k + 1) /\ i - 1 # k + 1)
          BY <4>2
        <5> QED BY <3>3, <5>1
      <4> QED BY <4>1, <4>2
    <3> HIDE DEF h
    <3> QED BY <3>5, <3>6
  <2>3. Nat \subseteq A
    <3> HIDE DEF A
    <3> QED BY <2>1, <2>2, SetInduction
  <2>4. PICK g \in Parts(n) : TRUE
    <3>1. Parts(n) # {}
      <4> HIDE DEF Parts
      <4> QED BY <2>3
    <3> HIDE DEF Parts
    <3> QED BY <3>1
  <2>5. g = Flat(g)
    BY <1>1, <2>4
  <2> DEFINE c == CHOOSE h : h = Flat(h)
  <2>6. c = Flat(c)
    <3> HIDE DEF Flat
    <3> QED BY <2>5
  <2>7. FlattenSeq(f) = c[n]
    BY <1>1, <1>3 DEF FlattenSeq
  <2> HIDE DEF c
  <2> DEFINE B == {k \in Nat : k + 1 <= n => c[k + 1] \in Q}
  <2>8. 0 \in B
    BY <1>1, <1>3, <2>6
  <2>9. ASSUME NEW k \in Nat, k \in B PROVE k + 1 \in B
    <3>1. SUFFICES ASSUME (k + 1) + 1 <= n PROVE c[(k + 1) + 1] \in Q
      OBVIOUS
    <3>2. c[(k + 1) + 1] = c[k + 1] \o f[(k + 1) + 1]
      <4>1. (k + 1) + 1 \in 1..Len(f) /\ (k + 1) + 1 # 1 /\ ((k + 1) + 1) - 1 = k + 1
        BY <1>1, <3>1
      <4>2. Flat(c)[(k + 1) + 1] = c[k + 1] \o f[(k + 1) + 1]
        BY <4>1
      <4> HIDE DEF Flat
      <4> QED BY <2>6, <4>2
    <3>3. c[k + 1] \in Q /\ f[(k + 1) + 1] \in Q
      BY <2>9, <3>1
    <3> QED BY <3>2, <3>3
  <2>10. Nat \subseteq B
    <3> HIDE DEF B
    <3> QED BY <2>8, <2>9, SetInduction
  <2>11. n - 1 \in Nat /\ (n - 1) + 1 = n
    BY <1>3
  <2>12. n - 1 \in B
    <3> HIDE DEF B
    <3> QED BY <2>10, <2>11
  <2>13. c[(n - 1) + 1] \in Q
    BY <2>11, <2>12
  <2> QED BY <2>7, <2>11, <2>13
<1> QED BY <1>2, <1>3

\* An enumeration of a finite set runs through its members.
LEMMA Enumeration ==
  ASSUME NEW S, IsFiniteSet(S)
  PROVE  Cardinality(S) \in Nat /\ SetToSeq(S) \in [1..Cardinality(S) -> S]
<1>1. Cardinality(S) \in Nat /\ ExistsBijection(1..Cardinality(S), S)
  BY FS_CardinalityType
<1>2. PICK f \in Bijection(1..Cardinality(S), S) : TRUE
  BY <1>1 DEF ExistsBijection
<1>3. f \in [1..Cardinality(S) -> S] /\ IsInjective(f)
  BY <1>2 DEF Bijection, Injection, IsInjective
<1> QED BY <1>1, <1>3 DEF SetToSeq

\* Pairs and triples as concatenations.
LEMMA PairConcat ==
  ASSUME NEW C, NEW a \in C, NEW b \in C
  PROVE  <<a>> \o <<b>> = <<a, b>>
<1> DEFINE s == <<a>>
           t == <<b>>
           u == <<a, b>>
           w == s \o t
<1>1. s \in Seq(C) /\ Len(s) = 1 /\ s[1] = a
  OBVIOUS
<1>2. t \in Seq(C) /\ Len(t) = 1 /\ t[1] = b
  OBVIOUS
<1>3. u \in Seq(C) /\ Len(u) = 2 /\ u[1] = a /\ u[2] = b
  OBVIOUS
<1> HIDE DEF s, t, u
<1>4. w \in Seq(C) /\ Len(w) = Len(s) + Len(t)
  BY <1>1, <1>2, ConcatProperties
<1>5. \A i \in 1..(Len(s) + Len(t)) : w[i] = IF i <= Len(s) THEN s[i] ELSE t[i - Len(s)]
  BY <1>1, <1>2, ConcatProperties
<1>6. Len(w) = 2 /\ Len(s) + Len(t) = 2
  BY <1>1, <1>2, <1>4
<1> HIDE DEF w
<1>7. \A i \in 1..2 : w[i] = IF i <= 1 THEN s[i] ELSE t[i - 1]
  BY <1>1, <1>5, <1>6
<1>8. w[1] = s[1]
  BY <1>7
<1>9. w[2] = t[2 - 1] /\ 2 - 1 = 1
  BY <1>7
<1>10. \A i \in 1..2 : i = 1 \/ i = 2
  OBVIOUS
<1>11. \A i \in 1..2 : w[i] = u[i]
  BY <1>1, <1>2, <1>3, <1>8, <1>9, <1>10
<1>12. w = u
  BY <1>3, <1>4, <1>6, <1>11, SeqEqual
<1> QED BY <1>12 DEF s, t, u, w

LEMMA TripleConcat ==
  ASSUME NEW C, NEW a \in C, NEW b \in C, NEW c \in C
  PROVE  <<a, b>> \o <<c>> = <<a, b, c>>
<1> DEFINE s == <<a, b>>
           t == <<c>>
           u == <<a, b, c>>
           w == s \o t
<1>1. s \in Seq(C) /\ Len(s) = 2 /\ s[1] = a /\ s[2] = b
  OBVIOUS
<1>2. t \in Seq(C) /\ Len(t) = 1 /\ t[1] = c
  OBVIOUS
<1>3. u \in Seq(C) /\ Len(u) = 3 /\ u[1] = a /\ u[2] = b /\ u[3] = c
  OBVIOUS
<1> HIDE DEF s, t, u
<1>4. w \in Seq(C) /\ Len(w) = Len(s) + Len(t)
  BY <1>1, <1>2, ConcatProperties
<1>5. \A i \in 1..(Len(s) + Len(t)) : w[i] = IF i <= Len(s) THEN s[i] ELSE t[i - Len(s)]
  BY <1>1, <1>2, ConcatProperties
<1>6. Len(w) = 3 /\ Len(s) + Len(t) = 3
  BY <1>1, <1>2, <1>4
<1> HIDE DEF w
<1>7. \A i \in 1..3 : w[i] = IF i <= 2 THEN s[i] ELSE t[i - 2]
  BY <1>1, <1>5, <1>6
<1>8. w[1] = s[1]
  BY <1>7
<1>9. w[2] = s[2]
  BY <1>7
<1>10. w[3] = t[3 - 2] /\ 3 - 2 = 1
  BY <1>7
<1>11. \A i \in 1..3 : i = 1 \/ i = 2 \/ i = 3
  OBVIOUS
<1>12. \A i \in 1..3 : w[i] = u[i]
  BY <1>1, <1>2, <1>3, <1>8, <1>9, <1>10, <1>11
<1>13. w = u
  BY <1>3, <1>4, <1>6, <1>12, SeqEqual
<1> QED BY <1>13 DEF s, t, u, w

\* What FlattenSeq computes, one sequence after the other.
LEMMA FlattenSteps ==
  ASSUME NEW S, NEW n \in Nat \ {0}, NEW f \in [1..n -> Seq(S)]
  PROVE  \E c \in [1..n -> Seq(S)] :
           /\ c[1] = f[1] /\ \A i \in 1..(n - 1) : c[i + 1] = c[i] \o f[i + 1]
           /\ FlattenSeq(f) = c[n]
<1> DEFINE Flat(g) == [i \in 1..Len(f) |-> IF i = 1 THEN f[i] ELSE g[i - 1] \o f[i]]
           Parts(k) == {g \in [1..k -> Seq(S)] :
                          \A i \in 1..k : g[i] = IF i = 1 THEN f[i] ELSE g[i - 1] \o f[i]}
           A == {k \in Nat : k <= n => Parts(k) # {}}
<1>1. Len(f) = n
  OBVIOUS
<1>2. 0 \in A
  <2>1. [i \in 1..0 |-> <<>>] \in Parts(0)
    OBVIOUS
  <2> QED BY <2>1
<1>3. ASSUME NEW k \in Nat, k \in A PROVE k + 1 \in A
  <2>0. Parts(k + 1) # {} => k + 1 \in A
    <3> HIDE DEF Parts
    <3> QED OBVIOUS
  <2>1. SUFFICES ASSUME k + 1 <= n PROVE Parts(k + 1) # {}
    <3> HIDE DEF Parts
    <3> QED BY <2>0
  <2>2. Parts(k) # {}
    <3> HIDE DEF Parts
    <3> QED BY <1>3, <2>1
  <2>3. PICK g \in Parts(k) : TRUE
    <3> HIDE DEF Parts
    <3> QED BY <2>2
  <2> DEFINE new == IF k = 0 THEN f[1] ELSE g[k] \o f[k + 1]
             h == [i \in 1..(k + 1) |-> IF i = k + 1 THEN new ELSE g[i]]
  <2>4. new \in Seq(S)
    BY <2>1, <2>3
  <2>5. h \in [1..(k + 1) -> Seq(S)]
    BY <2>3, <2>4
  <2>6. ASSUME NEW i \in 1..(k + 1)
        PROVE  h[i] = IF i = 1 THEN f[i] ELSE h[i - 1] \o f[i]
    <3>1. CASE i = k + 1
      BY <3>1
    <3>2. CASE i # k + 1
      <4>1. i \in 1..k /\ h[i] = g[i] /\ (i # 1 => i - 1 \in 1..(k + 1) /\ i - 1 # k + 1)
        BY <3>2
      <4> QED BY <2>3, <4>1
    <3> QED BY <3>1, <3>2
  <2> HIDE DEF h
  <2> QED BY <2>5, <2>6
<1>4. Nat \subseteq A
  <2> HIDE DEF A
  <2> QED BY <1>2, <1>3, SetInduction
<1>5. PICK g \in Parts(n) : TRUE
  <2>1. Parts(n) # {}
    <3> HIDE DEF Parts
    <3> QED BY <1>4
  <2> HIDE DEF Parts
  <2> QED BY <2>1
<1>6. g = Flat(g)
  BY <1>1, <1>5
<1> DEFINE c == CHOOSE h : h = Flat(h)
<1>7. c = Flat(c)
  <2> HIDE DEF Flat
  <2> QED BY <1>6
<1>8. FlattenSeq(f) = c[n]
  BY <1>1 DEF FlattenSeq
<1> HIDE DEF c
<1>9. c = [i \in 1..n |-> c[i]] /\ c[1] = f[1] /\ \A i \in 1..(n - 1) : c[i + 1] = c[i] \o f[i + 1]
  <2> DEFINE e == [i \in 1..n |-> IF i = 1 THEN f[i] ELSE c[i - 1] \o f[i]]
  <2>1. c = e
    BY <1>1, <1>7
  <2>2. \A i \in 1..n : e[i] = IF i = 1 THEN f[i] ELSE c[i - 1] \o f[i]
    OBVIOUS
  <2>3. e = [i \in 1..n |-> e[i]]
    OBVIOUS
  <2> HIDE DEF e
  <2>4. c = [i \in 1..n |-> c[i]]
    BY <2>1, <2>3
  <2>6. 1 \in 1..n /\ c[1] = f[1]
    BY <2>1, <2>2
  <2>5. ASSUME NEW i \in 1..(n - 1) PROVE c[i + 1] = c[i] \o f[i + 1]
    <3>1. i + 1 \in 1..n /\ i + 1 # 1 /\ (i + 1) - 1 = i
      OBVIOUS
    <3> QED BY <2>1, <2>2, <3>1
  <2> QED BY <2>4, <2>5, <2>6
<1> DEFINE B == {k \in Nat : k + 1 <= n => c[k + 1] \in Seq(S)}
<1>10. 0 \in B
  BY <1>9
<1>11. ASSUME NEW k \in Nat, k \in B PROVE k + 1 \in B
  <2>1. SUFFICES ASSUME (k + 1) + 1 <= n PROVE c[(k + 1) + 1] \in Seq(S)
    OBVIOUS
  <2>2. k + 1 \in 1..(n - 1) /\ (k + 1) + 1 \in 1..n
    BY <2>1
  <2>3. c[(k + 1) + 1] = c[k + 1] \o f[(k + 1) + 1]
    BY <1>9, <2>2
  <2>4. c[k + 1] \in Seq(S) /\ f[(k + 1) + 1] \in Seq(S)
    BY <1>11, <2>2
  <2> QED BY <2>3, <2>4
<1>12. Nat \subseteq B
  <2> HIDE DEF B
  <2> QED BY <1>10, <1>11, SetInduction
<1>13. \A i \in 1..n : c[i] \in Seq(S)
  <2>1. ASSUME NEW i \in 1..n PROVE c[i] \in Seq(S)
    <3>1. i - 1 \in Nat /\ (i - 1) + 1 = i
      OBVIOUS
    <3> HIDE DEF B
    <3>2. i - 1 \in B
      BY <1>12, <3>1
    <3> QED BY <3>1, <3>2 DEF B
  <2> QED BY <2>1
<1>14. c \in [1..n -> Seq(S)]
  BY <1>9, <1>13
<1> QED BY <1>8, <1>9, <1>14

\* The members of a sequence that are in a set T, in their order.
Sifted(s, T) == FlattenSeq([i \in DOMAIN s |-> IF s[i] \in T THEN <<s[i]>> ELSE <<>>])

LEMMA SiftedMembers ==
  ASSUME NEW S, NEW T, NEW s \in Seq(S)
  PROVE  /\ Sifted(s, T) \in Seq(S)
         /\ \A i \in DOMAIN Sifted(s, T) : Sifted(s, T)[i] \in T /\ \E j \in DOMAIN s : Sifted(s, T)[i]
              = s[j]
<1> DEFINE f == [i \in DOMAIN s |-> IF s[i] \in T THEN <<s[i]>> ELSE <<>>]
           Q == {u \in Seq(S) : \A i \in DOMAIN u : u[i] \in T /\ \E j \in DOMAIN s : u[i] = s[j]}
           n == Len(s)
<1>1. <<>> \in Q
  OBVIOUS
<1>2. ASSUME NEW u \in Q, NEW v \in Q PROVE u \o v \in Q
  <2>0. u \o v \in Seq(S)
    OBVIOUS
  <2>1. ASSUME NEW i \in DOMAIN (u \o v)
        PROVE  (u \o v)[i] \in T /\ \E j \in DOMAIN s : (u \o v)[i] = s[j]
    <3>1. CASE i \in DOMAIN u
      <4>1. (u \o v)[i] = u[i]
        BY <3>1
      <4> QED BY <3>1, <4>1
    <3>2. CASE i \notin DOMAIN u
      <4>1. i - Len(u) \in DOMAIN v /\ (u \o v)[i] = v[i - Len(u)]
        BY <3>2
      <4> QED BY <4>1
    <3> QED BY <3>1, <3>2
  <2> DEFINE w == u \o v
  <2>2. w \in Seq(S) /\ \A i \in DOMAIN w : w[i] \in T /\ \E j \in DOMAIN s : w[i] = s[j]
    BY <2>0, <2>1
  <2> HIDE DEF w
  <2>3. w \in Q
    BY <2>2
  <2> QED BY <2>3 DEF w
<1>3. n \in Nat /\ f \in [1..n -> Q]
  <2>1. ASSUME NEW i \in DOMAIN s PROVE f[i] \in Q
    <3>1. CASE s[i] \in T
      <4>1. f[i] = <<s[i]>> /\ <<s[i]>> \in Seq(S)
        BY <3>1
      <4> QED BY <3>1, <4>1
    <3>2. CASE s[i] \notin T
      BY <1>1, <3>2
    <3> QED BY <3>1, <3>2
  <2>2. n \in Nat /\ DOMAIN s = 1..n /\ f = [i \in 1..n |-> f[i]]
    OBVIOUS
  <2> HIDE DEF Q, f, n
  <2> QED BY <2>1, <2>2
<1>4. Q \in SUBSET Seq(S)
  OBVIOUS
<1>5. FlattenSeq(f) \in Q
  <2> HIDE DEF f, Q, n
  <2> QED BY <1>1, <1>2, <1>3, <1>4, FlattenClosed
<1> QED BY <1>5 DEF Sifted

\* A member that is sifted out comes after members that came before it.
LEMMA SiftedOrder ==
  ASSUME NEW S, NEW T, NEW s \in Seq(S), NEW k \in DOMAIN s, s[k] \in T
  PROVE  \E i \in DOMAIN Sifted(s, T) :
           /\ Sifted(s, T)[i] = s[k]
           /\ \A m \in 1..(i - 1) : \E j \in 1..(k - 1) : Sifted(s, T)[m] = s[j]
<1> DEFINE n == Len(s)
           f == [i \in DOMAIN s |-> IF s[i] \in T THEN <<s[i]>> ELSE <<>>]
<1>1. n \in Nat \ {0} /\ DOMAIN s = 1..n /\ k \in 1..n
  OBVIOUS
<1>2. f \in [1..n -> Seq(S)]
  <2>1. \A i \in 1..n : f[i] \in Seq(S)
    BY <1>1
  <2>2. f = [i \in 1..n |-> f[i]]
    BY <1>1
  <2> HIDE DEF f, n
  <2> QED BY <2>1, <2>2
<1>3. \A i \in 1..n : f[i] = IF s[i] \in T THEN <<s[i]>> ELSE <<>>
  BY <1>1
<1> HIDE DEF f, n
<1>4. PICK c \in [1..n -> Seq(S)] :
        /\ c[1] = f[1] /\ \A i \in 1..(n - 1) : c[i + 1] = c[i] \o f[i + 1]
        /\ FlattenSeq(f) = c[n]
  <2>1. n \in Nat \ {0}
    BY <1>1
  <2>2. \A m \in Nat \ {0} : \A g \in [1..m -> Seq(S)] : \E c \in [1..m -> Seq(S)] :
           /\ c[1] = g[1] /\ \A i \in 1..(m - 1) : c[i + 1] = c[i] \o g[i + 1]
           /\ FlattenSeq(g) = c[m]
    BY FlattenSteps
  <2> QED BY <1>2, <2>1, <2>2
<1> DEFINE Early(u, q) == \A m \in DOMAIN u : \E j \in 1..q : u[m] = s[j]
           Found(u) == \E i \in DOMAIN u :
                         u[i] = s[k] /\ \A m \in 1..(i - 1) : \E j \in 1..(k - 1) : u[m] = s[j]
           A == {q \in Nat : q + 1 <= n => Early(c[q + 1], q + 1)}
           B == {q \in Nat : k + q <= n => Found(c[k + q])}
<1>5. 0 \in A
  <2>1. c[1] = f[1] /\ f[1] = IF s[1] \in T THEN <<s[1]>> ELSE <<>>
    BY <1>1, <1>3, <1>4
  <2>2. Early(c[1], 1)
    BY <2>1
  <2> HIDE DEF Early
  <2> QED BY <2>2
<1>6. ASSUME NEW q \in Nat, q \in A PROVE q + 1 \in A
  <2>1. SUFFICES ASSUME (q + 1) + 1 <= n PROVE Early(c[(q + 1) + 1], (q + 1) + 1)
    <3> HIDE DEF Early
    <3> QED OBVIOUS
  <2>2. q + 1 \in 1..(n - 1) /\ (q + 1) + 1 \in 1..n /\ q + 1 \in 1..n
    BY <1>1, <2>1
  <2>3. Early(c[q + 1], q + 1)
    <3> HIDE DEF Early
    <3> QED BY <1>6, <2>1, <2>2
  <2> DEFINE u == c[q + 1]
             v == f[(q + 1) + 1]
  <2>4. c[(q + 1) + 1] = u \o v /\ u \in Seq(S) /\ v \in Seq(S)
    BY <1>2, <1>4, <2>2
  <2>5. v = IF s[(q + 1) + 1] \in T THEN <<s[(q + 1) + 1]>> ELSE <<>>
    BY <1>3, <2>2
  <2> HIDE DEF u, v
  <2>6. ASSUME NEW m \in DOMAIN (u \o v)
        PROVE  \E j \in 1..((q + 1) + 1) : (u \o v)[m] = s[j]
    <3>1. CASE m \in DOMAIN u
      <4>1. (u \o v)[m] = u[m]
        BY <2>4, <3>1
      <4>2. PICK j \in 1..(q + 1) : u[m] = s[j]
        BY <2>3, <3>1 DEF u
      <4>3. j \in 1..((q + 1) + 1)
        OBVIOUS
      <4> QED BY <4>1, <4>2, <4>3
    <3>2. CASE m \notin DOMAIN u
      <4>1. m - Len(u) \in DOMAIN v /\ (u \o v)[m] = v[m - Len(u)]
        BY <2>4, <3>2
      <4>2. v # <<>>
        BY <4>1
      <4>3. v = <<s[(q + 1) + 1]>>
        BY <2>5, <4>2
      <4>4. DOMAIN v = 1..1 /\ v[1] = s[(q + 1) + 1]
        BY <4>3
      <4>5. (u \o v)[m] = s[(q + 1) + 1]
        BY <4>1, <4>4
      <4> QED BY <2>2, <4>5
    <3> QED BY <3>1, <3>2
  <2> QED BY <2>4, <2>6
<1>7. Nat \subseteq A
  <2> HIDE DEF A
  <2> QED BY <1>5, <1>6, SetInduction
<1>8. ASSUME k # 1 PROVE k - 1 \in 1..n /\ Early(c[k - 1], k - 1)
  <2>1. k - 2 \in Nat /\ (k - 2) + 1 = k - 1 /\ k - 1 <= n
    BY <1>1, <1>8
  <2> HIDE DEF Early
  <2>2. k - 2 \in A
    <3> HIDE DEF A
    <3> QED BY <1>7, <2>1
  <2> QED BY <1>1, <2>1, <2>2
<1>9. f[k] = <<s[k]>>
  BY <1>1, <1>3
<1>10. 0 \in B
  <2>1. CASE k = 1
    <3>1. c[k] = <<s[k]>>
      BY <1>4, <1>9, <2>1
    <3>2. Found(c[k])
      BY <2>1, <3>1
    <3> HIDE DEF Found
    <3> QED BY <1>1, <3>2
  <2>2. CASE k # 1
    <3> DEFINE u == c[k - 1]
    <3>1. k - 1 \in 1..(n - 1) /\ (k - 1) + 1 = k
      BY <1>1, <2>2
    <3>2. c[k] = u \o <<s[k]>> /\ u \in Seq(S)
      <4>1. c[(k - 1) + 1] = u \o f[(k - 1) + 1]
        BY <1>4, <3>1
      <4>2. k - 1 \in 1..n
        BY <1>1, <3>1
      <4>3. u \in Seq(S)
        BY <1>4, <4>2
      <4> QED BY <1>9, <3>1, <4>1, <4>3
    <3>3. Early(u, k - 1)
      <4> HIDE DEF Early
      <4> QED BY <1>8, <2>2
    <3> HIDE DEF u
    <3> DEFINE w == u \o <<s[k]>>
               i == Len(u) + 1
    <3>4. i \in DOMAIN w /\ w[i] = s[k] /\ \A m \in 1..(i - 1) : m \in DOMAIN u /\ w[m] = u[m]
      <4>1. <<s[k]>> \in Seq(S)
        OBVIOUS
      <4> QED BY <3>2, <4>1
    <3> HIDE DEF w, i
    <3>5. Found(w)
      BY <3>3, <3>4
    <3>6. c[k] = w
      BY <3>2 DEF w
    <3>7. k + 0 = k
      BY <1>1
    <3> HIDE DEF Found
    <3> QED BY <3>5, <3>6, <3>7
  <2> QED BY <2>1, <2>2
<1>11. ASSUME NEW q \in Nat, q \in B PROVE q + 1 \in B
  <2>1. SUFFICES ASSUME k + (q + 1) <= n PROVE Found(c[k + (q + 1)])
    <3> HIDE DEF Found
    <3> QED OBVIOUS
  <2>2. k + q \in 1..(n - 1) /\ (k + q) + 1 = k + (q + 1) /\ k + q <= n /\ k + q \in 1..n
        /\ (k + q) + 1 \in 1..n
    BY <1>1, <2>1
  <2>3. Found(c[k + q])
    <3> HIDE DEF Found
    <3> QED BY <1>11, <2>2
  <2> DEFINE u == c[k + q]
             v == f[(k + q) + 1]
             w == u \o v
  <2>4. c[k + (q + 1)] = w /\ u \in Seq(S) /\ v \in Seq(S)
    BY <1>2, <1>4, <2>2
  <2>5. PICK i \in DOMAIN u : u[i] = s[k] /\ \A m \in 1..(i - 1) : \E j \in 1..(k - 1) : u[m] = s[j]
    BY <2>3
  <2> HIDE DEF u, v
  <2>6. \A m \in 1..i : m \in DOMAIN u
    BY <2>4
  <2>7. \A m \in DOMAIN u : m \in DOMAIN w /\ w[m] = u[m]
    BY <2>4
  <2> HIDE DEF w
  <2>8. Found(w)
    <3>1. i \in DOMAIN w /\ w[i] = s[k]
      BY <2>5, <2>7
    <3>2. ASSUME NEW m \in 1..(i - 1) PROVE \E j \in 1..(k - 1) : w[m] = s[j]
      <4>1. m \in 1..i
        BY <2>4
      <4> QED BY <2>5, <2>6, <2>7, <4>1
    <3> QED BY <3>1, <3>2
  <2> QED BY <2>4, <2>8
<1>12. Nat \subseteq B
  <2> HIDE DEF B
  <2> QED BY <1>10, <1>11, SetInduction
<1>13. Found(c[n])
  <2>1. n - k \in Nat /\ k + (n - k) = n
    BY <1>1
  <2> HIDE DEF Found
  <2>2. n - k \in B
    <3> HIDE DEF B
    <3> QED BY <1>12, <2>1
  <2> QED BY <2>1, <2>2
<1>14. Sifted(s, T) = c[n]
  BY <1>4 DEF Sifted, f
<1> QED BY <1>13, <1>14

\* The enumeration of a finite set misses none of its members.
LEMMA EnumerationIsComplete ==
  ASSUME NEW S, IsFiniteSet(S), NEW x \in S
  PROVE  \E i \in 1..Cardinality(S) : SetToSeq(S)[i] = x
<1> DEFINE n == Cardinality(S)
           f == SetToSeq(S)
<1>1. n \in Nat /\ ExistsBijection(1..n, S)
  BY FS_CardinalityType
<1>2. PICK g \in Bijection(1..n, S) : TRUE
  BY <1>1 DEF ExistsBijection
<1>3. g \in [1..n -> S] /\ IsInjective(g)
  BY <1>2 DEF Bijection, Injection, IsInjective
<1>4. f \in [1..n -> S] /\ IsInjective(f)
  BY <1>3 DEF SetToSeq
<1> HIDE DEF f
<1>5. f \in Injection(1..n, S)
  BY <1>4 DEF Injection, IsInjective
<1>6. IsFiniteSet(1..n) /\ Cardinality(1..n) = n
  BY <1>1, FS_Interval
<1>7. f \in Surjection(1..n, S)
  BY <1>5, <1>6, FS_Injection DEF Surjection
<1> QED BY <1>7 DEF Surjection, f

\* The concatenation of a sequence of sequences has all of their members.
LEMMA FlattenMembers ==
  ASSUME NEW S, NEW n \in Nat, NEW f \in [1..n -> Seq(S)], NEW k \in 1..n, NEW m \in DOMAIN f[k]
  PROVE  \E i \in DOMAIN FlattenSeq(f) : FlattenSeq(f)[i] = f[k][m]
<1>1. PICK c \in [1..n -> Seq(S)] :
        /\ c[1] = f[1] /\ \A i \in 1..(n - 1) : c[i + 1] = c[i] \o f[i + 1]
        /\ FlattenSeq(f) = c[n]
  <2>1. n \in Nat \ {0}
    OBVIOUS
  <2>2. \A p \in Nat \ {0} : \A g \in [1..p -> Seq(S)] : \E c \in [1..p -> Seq(S)] :
           /\ c[1] = g[1] /\ \A i \in 1..(p - 1) : c[i + 1] = c[i] \o g[i + 1]
           /\ FlattenSeq(g) = c[p]
    BY FlattenSteps
  <2> QED BY <2>1, <2>2
<1> DEFINE x == f[k][m]
<1> HIDE DEF x
<1> DEFINE Found(u) == \E i \in DOMAIN u : u[i] = x
           B == {q \in Nat : k + q <= n => Found(c[k + q])}
<1>2. \A u, v \in Seq(S) : Found(u) \/ Found(v) => Found(u \o v)
  <2>1. ASSUME NEW u \in Seq(S), NEW v \in Seq(S) PROVE Found(u) \/ Found(v) => Found(u \o v)
    <3>1. \A i \in DOMAIN u : i \in DOMAIN (u \o v) /\ (u \o v)[i] = u[i]
      OBVIOUS
    <3>2. \A i \in DOMAIN v : Len(u) + i \in DOMAIN (u \o v) /\ (u \o v)[Len(u) + i] = v[i]
      OBVIOUS
    <3> QED BY <3>1, <3>2
  <2> QED BY <2>1
<1> HIDE DEF Found
<1>3. Found(f[k])
  BY DEF Found, x
<1>4. 0 \in B
  <2>1. Found(c[k])
    <3>1. CASE k = 1
      BY <1>1, <1>3, <3>1
    <3>2. CASE k # 1
      <4>1. k - 1 \in 1..(n - 1) /\ k - 1 \in 1..n /\ (k - 1) + 1 = k
        BY <3>2
      <4>2. c[(k - 1) + 1] = c[k - 1] \o f[(k - 1) + 1] /\ c[k - 1] \in Seq(S) /\ f[k] \in Seq(S)
        BY <1>1, <4>1
      <4> QED BY <1>2, <1>3, <4>1, <4>2
    <3> QED BY <3>1, <3>2
  <2> QED BY <2>1
<1>5. ASSUME NEW q \in Nat, q \in B PROVE q + 1 \in B
  <2>1. SUFFICES ASSUME k + (q + 1) <= n PROVE Found(c[k + (q + 1)])
    OBVIOUS
  <2>2. k + q \in 1..(n - 1) /\ (k + q) + 1 = k + (q + 1) /\ k + q <= n /\ k + q \in 1..n
        /\ (k + q) + 1 \in 1..n
    BY <2>1
  <2>3. Found(c[k + q])
    BY <1>5, <2>2
  <2>4. c[(k + q) + 1] = c[k + q] \o f[(k + q) + 1] /\ c[k + q] \in Seq(S) /\ f[(k + q) + 1] \in Seq(S)
    BY <1>1, <2>2
  <2> QED BY <1>2, <2>2, <2>3, <2>4
<1>6. Nat \subseteq B
  <2> HIDE DEF B
  <2> QED BY <1>4, <1>5, SetInduction
<1>7. Found(c[n])
  <2>1. n - k \in Nat /\ k + (n - k) = n
    OBVIOUS
  <2>2. n - k \in B
    <3> HIDE DEF B
    <3> QED BY <1>6, <2>1
  <2> QED BY <2>1, <2>2
<1> QED BY <1>1, <1>7 DEF Found, x

-----------------------------------------------------------------------------
(* Lists of routes *)

Proper(routes) ==
  \A i \in DOMAIN routes :
    IF routes[i].kind = "operator" THEN routes[i].host \in {Wildcard, Hostless}
    ELSE routes[i].host \in Host

\* The hostnames of exposures that a list serves.
Served(routes) == {h \in Host : \E i \in DOMAIN routes : routes[i].kind = "serve" /\ routes[i].host = h}

\* Nothing takes a request for v.
Clear(routes, v) == \A i \in DOMAIN routes : routes[i].host \notin {v, Wildcard, Hostless}

LEMMA ConcatRoutes ==
  ASSUME NEW K, NEW s \in Seq(Route(K)), NEW t \in Seq(Route(K)), Proper(s), Proper(t)
  PROVE  /\ s \o t \in Seq(Route(K)) /\ Proper(s \o t)
         /\ Served(s \o t) = Served(s) \cup Served(t)
         /\ \A v : /\ EffectiveDenial(s, v) => EffectiveDenial(s \o t, v)
                   /\ Clear(s, v) /\ Clear(t, v) => Clear(s \o t, v)
                   /\ Clear(s, v) /\ EffectiveDenial(t, v) => EffectiveDenial(s \o t, v)
<1> DEFINE w == s \o t
           n == Len(s)
<1>1. w \in Seq(Route(K)) /\ n \in Nat
  OBVIOUS
<1>2. \A i \in DOMAIN s : i \in DOMAIN w /\ w[i] = s[i] /\ i \in 1..n
  OBVIOUS
<1>3. \A i \in DOMAIN t : n + i \in DOMAIN w /\ w[n + i] = t[i]
  OBVIOUS
<1>4. ASSUME NEW i \in DOMAIN w
      PROVE  (i \in DOMAIN s /\ w[i] = s[i]) \/ (i - n \in DOMAIN t /\ w[i] = t[i - n] /\ i \notin DOMAIN s)
  OBVIOUS
<1>5. DOMAIN s = 1..n /\ \A i \in DOMAIN t : i \in Nat \ {0}
  OBVIOUS
<1> HIDE DEF w, n
<1>6. Proper(w)
  BY <1>4 DEF Proper
<1>7. Served(w) = Served(s) \cup Served(t)
  BY <1>2, <1>3, <1>4 DEF Served
<1>8. ASSUME NEW v, EffectiveDenial(s, v) PROVE EffectiveDenial(w, v)
  <2>1. PICK i \in DOMAIN s : /\ s[i] = Denial(v)
                              /\ \A j \in 1 .. i - 1 : s[j].host \notin {v, Wildcard, Hostless}
    BY <1>8 DEF EffectiveDenial
  <2>2. \A j \in 1 .. i - 1 : j \in DOMAIN s
    BY <1>1, <1>5
  <2> QED BY <1>2, <2>1, <2>2 DEF EffectiveDenial
<1>9. ASSUME NEW v, Clear(s, v), Clear(t, v) PROVE Clear(w, v)
  BY <1>4, <1>9 DEF Clear
<1>10. ASSUME NEW v, Clear(s, v), EffectiveDenial(t, v) PROVE EffectiveDenial(w, v)
  <2>1. PICK i \in DOMAIN t : /\ t[i] = Denial(v)
                              /\ \A j \in 1 .. i - 1 : t[j].host \notin {v, Wildcard, Hostless}
    BY <1>10 DEF EffectiveDenial
  <2>2. n + i \in DOMAIN w /\ w[n + i] = Denial(v)
    BY <1>3, <2>1
  <2>3. ASSUME NEW j \in 1 .. (n + i) - 1 PROVE w[j].host \notin {v, Wildcard, Hostless}
    <3>1. j \in DOMAIN w
      <4>1. w \in Seq(Route(K)) /\ n + i \in DOMAIN w /\ i \in Nat \ {0}
        BY <1>1, <1>5, <2>2
      <4> QED BY <1>1, <4>1
    <3>2. CASE j \in DOMAIN s /\ w[j] = s[j]
      BY <1>10, <3>2 DEF Clear
    <3>3. CASE j - n \in DOMAIN t /\ w[j] = t[j - n]
      <4>1. j - n \in 1 .. i - 1
        BY <1>1, <1>5, <3>3
      <4> QED BY <2>1, <3>3, <4>1
    <3> QED BY <1>4, <3>1, <3>2, <3>3
  <2> QED BY <2>2, <2>3 DEF EffectiveDenial
<1> QED BY <1>1, <1>6, <1>7, <1>8, <1>9, <1>10 DEF w

\* What is left of a list when some routes are taken out of it.
LEMMA SiftedRoutes ==
  ASSUME NEW K, NEW T, NEW s \in Seq(Route(K)), Proper(s)
  PROVE  /\ Sifted(s, T) \in Seq(Route(K)) /\ Proper(Sifted(s, T))
         /\ \A i \in DOMAIN Sifted(s, T) : Sifted(s, T)[i] \in T
         /\ \A h \in Host : h \in Served(Sifted(s, T)) <=>
              \E i \in DOMAIN s : s[i] \in T /\ s[i].kind = "serve" /\ s[i].host = h
         /\ \A v : EffectiveDenial(s, v) /\ Denial(v) \in T => EffectiveDenial(Sifted(s, T), v)
<1> DEFINE w == Sifted(s, T)
<1>1. w \in Seq(Route(K)) /\ \A i \in DOMAIN w : w[i] \in T /\ \E j \in DOMAIN s : w[i] = s[j]
  BY SiftedMembers
<1>2. ASSUME NEW k \in DOMAIN s, s[k] \in T
      PROVE  \E i \in DOMAIN w :
               w[i] = s[k] /\ \A m \in 1..(i - 1) : \E j \in 1..(k - 1) : w[m] = s[j]
  BY <1>2, SiftedOrder
<1> HIDE DEF w
<1>3. Proper(w)
  BY <1>1 DEF Proper
<1>4. ASSUME NEW h \in Host
      PROVE  h \in Served(w) <=> \E i \in DOMAIN s : s[i] \in T /\ s[i].kind = "serve" /\ s[i].host = h
  BY <1>1, <1>2 DEF Served
<1>5. ASSUME NEW v, EffectiveDenial(s, v), Denial(v) \in T PROVE EffectiveDenial(w, v)
  <2>1. PICK k \in DOMAIN s : /\ s[k] = Denial(v)
                              /\ \A j \in 1 .. k - 1 : s[j].host \notin {v, Wildcard, Hostless}
    BY <1>5 DEF EffectiveDenial
  <2>2. PICK i \in DOMAIN w : w[i] = s[k] /\ \A m \in 1..(i - 1) : \E j \in 1..(k - 1) : w[m] = s[j]
    BY <1>2, <1>5, <2>1
  <2> QED BY <2>1, <2>2 DEF EffectiveDenial
<1> QED BY <1>1, <1>3, <1>4, <1>5 DEF w

LEMMA WithoutRoutes ==
  ASSUME NEW K, NEW s \in Seq(Route(K)), Proper(s), NEW h \in Host
  PROVE  /\ Without(s, h) \in Seq(Route(K)) /\ Proper(Without(s, h))
         /\ Served(Without(s, h)) = Served(s) \ {h}
         /\ \A v : v # h /\ EffectiveDenial(s, v) => EffectiveDenial(Without(s, h), v)
<1> DEFINE T == {r \in Route(K) : r.host # h}
<1>1. Without(s, h) = Sifted(s, T)
  <2>1. \A i \in DOMAIN s : s[i].host # h <=> s[i] \in T
    OBVIOUS
  <2> HIDE DEF T
  <2> QED BY <2>1 DEF Without, Filtered, Sifted
<1>2. ASSUME NEW v, v # h, EffectiveDenial(s, v) PROVE Denial(v) \in T
  <2>1. PICK k \in DOMAIN s : s[k] = Denial(v)
    BY <1>2 DEF EffectiveDenial
  <2>2. s[k] \in Route(K)
    OBVIOUS
  <2>3. Denial(v).host = v
    BY DEF Denial
  <2> QED BY <1>2, <2>1, <2>2, <2>3
<1>3. \A i \in DOMAIN s : s[i] \in T <=> s[i].host # h
  OBVIOUS
<1> HIDE DEF T
<1>4. Served(Sifted(s, T)) = Served(s) \ {h}
  <2>1. Served(Sifted(s, T)) \subseteq Host /\ Served(s) \subseteq Host
    BY DEF Served
  <2>2. ASSUME NEW g \in Host PROVE g \in Served(Sifted(s, T)) <=> g \in Served(s) \ {h}
    <3>1. g \in Served(Sifted(s, T)) <=>
            \E i \in DOMAIN s : s[i] \in T /\ s[i].kind = "serve" /\ s[i].host = g
      BY SiftedRoutes
    <3> QED BY <1>3, <3>1 DEF Served
  <2> QED BY <2>1, <2>2
<1> QED BY <1>1, <1>2, <1>4, SiftedRoutes

\* ensureServers: the routes of srv0, told apart by whether they have a host matcher.
LEMMA MovedRoutes ==
  ASSUME NEW s \in Seq(Route({"serve", "operator"})), Proper(s)
  PROVE  LET t == Filtered(s, LAMBDA r : r.host # Hostless)
             u == Filtered(s, LAMBDA r : r.host = Hostless)
         IN  /\ t \in Seq(Route({"serve", "operator"})) /\ Proper(t) /\ Served(t) = Served(s)
             /\ u \in Seq(Route({"operator"})) /\ Proper(u)
<1> DEFINE K == {"serve", "operator"}
           T == {r \in Route(K) : r.host # Hostless}
           U == {r \in Route(K) : r.host = Hostless}
           t == Filtered(s, LAMBDA r : r.host # Hostless)
           u == Filtered(s, LAMBDA r : r.host = Hostless)
<1>1. \A i \in DOMAIN s : (s[i].host # Hostless <=> s[i] \in T) /\ (s[i].host = Hostless <=> s[i] \in U)
  OBVIOUS
<1>2. \A r \in U : r.host = Hostless
  OBVIOUS
<1> HIDE DEF T, U
<1>3. t = Sifted(s, T) /\ u = Sifted(s, U)
  BY <1>1 DEF Filtered, Sifted
<1> HIDE DEF t, u
<1>4. t \in Seq(Route(K)) /\ Proper(t) /\ u \in Seq(Route(K)) /\ Proper(u)
  BY <1>3, SiftedRoutes
<1>5. Served(t) = Served(s)
  <2>1. Served(t) \subseteq Host /\ Served(s) \subseteq Host
    BY DEF Served
  <2>2. ASSUME NEW g \in Host PROVE g \in Served(t) <=> g \in Served(s)
    <3>1. g \in Served(t) <=> \E i \in DOMAIN s : s[i] \in T /\ s[i].kind = "serve" /\ s[i].host = g
      BY <1>3, SiftedRoutes
    <3> QED BY <1>1, <3>1, PatternsDiffer DEF Served
  <2> QED BY <2>1, <2>2
<1>6. u \in Seq(Route({"operator"}))
  <2>1. ASSUME NEW i \in DOMAIN u PROVE u[i] \in Route({"operator"})
    <3>1. u[i] \in U /\ u[i] \in Route(K)
      BY <1>3, <1>4, SiftedRoutes
    <3>2. u[i].kind = "operator"
      BY <1>2, <1>4, <3>1, PatternsDiffer DEF Proper
    <3> QED BY <3>1, <3>2 DEF Route
  <2> QED BY <1>4, <2>1
<1> QED BY <1>4, <1>5, <1>6 DEF t, u

\* Routes of one hostname.
Own(s, h) == \A i \in DOMAIN s : s[i].host = h /\ s[i].kind # "operator"

LEMMA OwnRoutes ==
  ASSUME NEW K, NEW s \in Seq(Route(K)), NEW h \in Host, Own(s, h)
  PROVE  /\ Proper(s)
         /\ \A v \in Host : v # h => Clear(s, v)
         /\ Served(s) \subseteq {h}
         /\ s = <<Denial(h)>> => EffectiveDenial(s, h)
<1>2. Proper(s)
  BY DEF Proper, Own
<1>3. \A v \in Host : v # h => Clear(s, v)
  BY PatternsDiffer DEF Clear, Own
<1>4. Served(s) \subseteq {h}
  BY DEF Served, Own
<1>5. ASSUME s = <<Denial(h)>> PROVE EffectiveDenial(s, h)
  <2>1. 1 \in DOMAIN s /\ s[1] = Denial(h)
    BY <1>5
  <2> QED BY <2>1 DEF EffectiveDenial
<1> QED BY <1>2, <1>3, <1>4, <1>5

LEMMA SplitRoutes ==
  ASSUME NEW K, NEW s \in Seq(Route(K)), Proper(s), NEW b \in 0..Len(s)
  PROVE  LET t == SubSeq(s, 1, b)
             u == SubSeq(s, b + 1, Len(s))
         IN  /\ t \in Seq(Route(K)) /\ Proper(t) /\ u \in Seq(Route(K)) /\ Proper(u)
             /\ Served(t) \cup Served(u) = Served(s)
             /\ \A v : EffectiveDenial(s, v) =>
                         EffectiveDenial(t, v) \/ (Clear(t, v) /\ EffectiveDenial(u, v))
<1> DEFINE t == SubSeq(s, 1, b)
           u == SubSeq(s, b + 1, Len(s))
           n == Len(s)
<1>1. n \in Nat /\ b \in Nat /\ b <= n /\ DOMAIN s = 1..n
  OBVIOUS
<1>2. t \in Seq(Route(K)) /\ DOMAIN t = 1..b /\ \A i \in 1..b : t[i] = s[i] /\ i \in DOMAIN s
  OBVIOUS
<1>3. u \in Seq(Route(K)) /\ DOMAIN u = 1..(n - b) /\ \A i \in 1..(n - b) : u[i] = s[b + i] /\ b + i \in DOMAIN s
  OBVIOUS
<1> HIDE DEF t, u, n
<1>4. \A i \in DOMAIN s : i \in DOMAIN t \/ i - b \in DOMAIN u
  BY <1>1, <1>2, <1>3
<1>5. \A i \in DOMAIN s : i - b \in DOMAIN u => u[i - b] = s[i]
  BY <1>1, <1>3
<1>6. Proper(t) /\ Proper(u)
  BY <1>2, <1>3 DEF Proper
<1>7. Served(t) \cup Served(u) = Served(s)
  <2>1. Served(t) \subseteq Served(s)
    BY <1>2 DEF Served
  <2>2. Served(u) \subseteq Served(s)
    BY <1>3 DEF Served
  <2>3. ASSUME NEW g \in Served(s) PROVE g \in Served(t) \cup Served(u)
    <3>1. g \in Host
      BY <2>3 DEF Served
    <3>2. PICK i \in DOMAIN s : s[i].kind = "serve" /\ s[i].host = g
      BY <2>3 DEF Served
    <3>3. CASE i \in DOMAIN t
      BY <1>2, <3>1, <3>2, <3>3 DEF Served
    <3>4. CASE i - b \in DOMAIN u
      BY <1>5, <3>1, <3>2, <3>4 DEF Served
    <3> QED BY <1>4, <3>3, <3>4
  <2> QED BY <2>1, <2>2, <2>3
<1>8. ASSUME NEW v, EffectiveDenial(s, v)
      PROVE  EffectiveDenial(t, v) \/ (Clear(t, v) /\ EffectiveDenial(u, v))
  <2>1. PICK k \in DOMAIN s : /\ s[k] = Denial(v)
                              /\ \A j \in 1 .. k - 1 : s[j].host \notin {v, Wildcard, Hostless}
    BY <1>8 DEF EffectiveDenial
  <2>2. CASE k \in DOMAIN t
    <3>1. \A j \in 1 .. k - 1 : j \in 1..b
      BY <1>1, <1>2, <2>2
    <3> QED BY <1>2, <2>1, <2>2, <3>1 DEF EffectiveDenial
  <2>3. CASE k \notin DOMAIN t
    <3>1. k - b \in DOMAIN u /\ u[k - b] = Denial(v)
      BY <1>4, <1>5, <2>1, <2>3
    <3>2. k \in Nat /\ k - b \in 1..(n - b) /\ k > b
      BY <1>1, <1>2, <1>3, <2>3, <3>1
    <3>3. ASSUME NEW j \in 1 .. (k - b) - 1 PROVE u[j].host \notin {v, Wildcard, Hostless}
      <4>1. j \in 1..(n - b) /\ b + j \in 1 .. k - 1
        BY <1>1, <3>2
      <4> QED BY <1>3, <2>1, <4>1
    <3>4. ASSUME NEW j \in DOMAIN t PROVE t[j].host \notin {v, Wildcard, Hostless}
      <4>1. j \in 1..b /\ j \in 1 .. k - 1
        BY <1>1, <1>2, <3>2
      <4> QED BY <1>2, <2>1, <4>1
    <3> QED BY <3>1, <3>3, <3>4 DEF EffectiveDenial, Clear
  <2> QED BY <2>2, <2>3
<1> QED BY <1>2, <1>3, <1>6, <1>7, <1>8 DEF t, u, n

\* A hostname's routes are replaced; those of the others stay, in their order.
LEMMA UpsertRoutes ==
  ASSUME NEW K, NEW s \in Seq(Route(K)), Proper(s), NEW h \in Host,
         NEW x \in Seq(Route(K)), Own(x, h), NEW d \in Seq(Route(K)), Own(d, h)
  PROVE  /\ Upsert(s, h, x, d) \in Seq(Route(K)) /\ Proper(Upsert(s, h, x, d))
         /\ Served(Upsert(s, h, x, d)) = (Served(s) \ {h}) \cup Served(x) \cup Served(d)
         /\ \A v \in Host : v # h /\ EffectiveDenial(s, v) => EffectiveDenial(Upsert(s, h, x, d), v)
         /\ d = <<Denial(h)>> => EffectiveDenial(Upsert(s, h, x, d), h)
<1> DEFINE others == Without(s, h)
           first == SelectInSeq(others, LAMBDA r : r.host = Hostless)
           b == IF first = 0 THEN Len(others) ELSE first - 1
           t == SubSeq(others, 1, b)
           u == SubSeq(others, b + 1, Len(others))
           I == {i \in 1..Len(others) : others[i].host = Hostless}
<1>1. /\ others \in Seq(Route(K)) /\ Proper(others) /\ Served(others) = Served(s) \ {h}
      /\ \A v : v # h /\ EffectiveDenial(s, v) => EffectiveDenial(others, v)
  BY WithoutRoutes
<1>2. Upsert(s, h, x, d) = d \o t \o x \o u
  BY DEF Upsert
<1>3. b \in 0..Len(others)
  <2>1. Len(others) \in Nat
    BY <1>1
  <2>2. first = IF I # {} THEN Min(I) ELSE 0
    BY DEF SelectInSeq
  <2> HIDE DEF others, first
  <2>3. I # {} => Min(I) \in I
    <3>1. I \in SUBSET Nat
      BY <2>1
    <3> HIDE DEF I
    <3> QED BY <3>1, MinIsLeast
  <2>4. first \in 0..Len(others)
    BY <2>1, <2>2, <2>3
  <2> HIDE DEF I
  <2> QED BY <2>1, <2>4
<1> HIDE DEF b
<1>4. /\ t \in Seq(Route(K)) /\ Proper(t) /\ u \in Seq(Route(K)) /\ Proper(u)
      /\ Served(t) \cup Served(u) = Served(others)
      /\ \A v : EffectiveDenial(others, v) =>
                  EffectiveDenial(t, v) \/ (Clear(t, v) /\ EffectiveDenial(u, v))
  <2> HIDE DEF others
  <2> QED BY <1>1, <1>3, SplitRoutes
<1> HIDE DEF others, t, u
<1>5. /\ Proper(x) /\ Proper(d)
      /\ \A v \in Host : v # h => Clear(x, v) /\ Clear(d, v)
      /\ d = <<Denial(h)>> => EffectiveDenial(d, h)
  BY OwnRoutes
<1> DEFINE p == d \o t
           q == p \o x
           w == q \o u
<1>6. /\ p \in Seq(Route(K)) /\ Proper(p) /\ Served(p) = Served(d) \cup Served(t)
      /\ \A v : /\ EffectiveDenial(d, v) => EffectiveDenial(p, v)
                /\ Clear(d, v) /\ Clear(t, v) => Clear(p, v)
                /\ Clear(d, v) /\ EffectiveDenial(t, v) => EffectiveDenial(p, v)
  BY <1>4, <1>5, ConcatRoutes
<1> HIDE DEF p
<1>7. /\ q \in Seq(Route(K)) /\ Proper(q) /\ Served(q) = Served(p) \cup Served(x)
      /\ \A v : /\ EffectiveDenial(p, v) => EffectiveDenial(q, v)
                /\ Clear(p, v) /\ Clear(x, v) => Clear(q, v)
  BY <1>5, <1>6, ConcatRoutes
<1> HIDE DEF q
<1>8. /\ w \in Seq(Route(K)) /\ Proper(w) /\ Served(w) = Served(q) \cup Served(u)
      /\ \A v : /\ EffectiveDenial(q, v) => EffectiveDenial(w, v)
                /\ Clear(q, v) /\ EffectiveDenial(u, v) => EffectiveDenial(w, v)
  BY <1>4, <1>7, ConcatRoutes
<1>9. Upsert(s, h, x, d) = w
  BY <1>2 DEF p, q
<1> HIDE DEF w
<1>10. Served(w) = (Served(s) \ {h}) \cup Served(x) \cup Served(d)
  BY <1>1, <1>4, <1>6, <1>7, <1>8
<1>11. ASSUME NEW v \in Host, v # h, EffectiveDenial(s, v) PROVE EffectiveDenial(w, v)
  BY <1>1, <1>4, <1>5, <1>6, <1>7, <1>8, <1>11
<1>12. d = <<Denial(h)>> => EffectiveDenial(w, h)
  BY <1>5, <1>6, <1>7, <1>8
<1> QED BY <1>8, <1>9, <1>10, <1>11, <1>12

-----------------------------------------------------------------------------
(* Configurations of Caddy *)

HttpsRoute == Route({"serve", "deny", "operator"})
HttpRoute == Route({"redirect", "deny", "operator"})

ConfigOK(c) ==
  /\ c \in Config /\ UniqueIds(c)
  /\ Proper(c.srv0) /\ Proper(c.https.routes) /\ Proper(c.http.routes)
  /\ ~c.https.up => c.https.routes = <<>>

CaddyOK ==
  /\ caddy \in CaddyType /\ ConfigOK(caddy.live)
  /\ Len(caddy.file) <= 1 /\ \A i \in DOMAIN caddy.file : ConfigOK(caddy.file[i])
  /\ dump.open => caddy.file = <<>>

DraftOK ==
  /\ draft \in [https : Seq(HttpsRoute), http : Seq(HttpRoute), policies : SUBSET Host]
  /\ Proper(draft.https) /\ Proper(draft.http)

LEMMA ConfigFacts ==
  ASSUME NEW c, ConfigOK(c)
  PROVE  /\ c.srv0 \in Seq(Route({"serve", "operator"})) /\ Proper(c.srv0)
         /\ c.https.routes \in Seq(HttpsRoute) /\ Proper(c.https.routes)
         /\ c.http.routes \in Seq(HttpRoute) /\ Proper(c.http.routes)
         /\ c.https.up \in BOOLEAN /\ c.https.listen \in BOOLEAN /\ c.policies \in SUBSET Host
         /\ c.https \in [up : BOOLEAN, listen : BOOLEAN, routes : Seq(HttpsRoute)]
         /\ c.http \in [up : BOOLEAN, listen : BOOLEAN, routes : Seq(HttpRoute)]
         /\ c \in [srv0 : Seq(Route({"serve", "operator"})),
                   https : [up : BOOLEAN, listen : BOOLEAN, routes : Seq(HttpsRoute)],
                   http : [up : BOOLEAN, listen : BOOLEAN, routes : Seq(HttpRoute)],
                   policies : SUBSET Host]
<1>1. c \in [srv0 : Seq(Route({"serve", "operator"})),
             https : [up : BOOLEAN, listen : BOOLEAN, routes : Seq(HttpsRoute)],
             http : [up : BOOLEAN, listen : BOOLEAN, routes : Seq(HttpRoute)],
             policies : SUBSET Host]
  BY DEF ConfigOK, Config, Server, HttpsRoute, HttpRoute
<1> QED BY <1>1 DEF ConfigOK

\* What is served, in terms of the hostnames of the lists.
LEMMA ServesFacts ==
  ASSUME NEW c, ConfigOK(c), NEW h \in Host
  PROVE  /\ HasServing(c, h) <=> h \in Served(c.srv0) \cup Served(c.https.routes)
         /\ h \in {r.host : r \in ToSet(c.srv0)} <=> h \in Served(c.srv0)
         /\ CaddyServes(c, h) <=> /\ h \in c.policies
                                  /\ \/ h \in Served(c.srv0)
                                     \/ h \in Served(c.https.routes) /\ c.https.listen
<1> DEFINE s == c.srv0
           t == c.https.routes
           w == s \o t
<1>1. /\ s \in Seq(Route({"serve", "operator"})) /\ Proper(s)
      /\ t \in Seq(HttpsRoute) /\ Proper(t)
  BY ConfigFacts
<1> HIDE DEF s, t
<1>2. s \in Seq(HttpsRoute) /\ \A i \in DOMAIN s : s[i].kind \in {"serve", "operator"}
  <2>1. Route({"serve", "operator"}) \subseteq HttpsRoute
    BY DEF Route, HttpsRoute
  <2>2. \A r \in Route({"serve", "operator"}) : r.kind \in {"serve", "operator"}
    BY DEF Route
  <2> HIDE DEF Route
  <2> QED BY <1>1, <2>1, <2>2
<1>3. (\E r \in ToSet(w) : r.kind = "serve" /\ r.host = h) <=> h \in Served(s) \cup Served(t)
  <2>1. \A i \in DOMAIN s : i \in DOMAIN w /\ w[i] = s[i]
    BY <1>1, <1>2
  <2>2. \A i \in DOMAIN t : Len(s) + i \in DOMAIN w /\ w[Len(s) + i] = t[i]
    BY <1>1, <1>2
  <2>3. \A i \in DOMAIN w : (i \in DOMAIN s /\ w[i] = s[i]) \/ (i - Len(s) \in DOMAIN t /\ w[i] = t[i - Len(s)])
    BY <1>1, <1>2
  <2> HIDE DEF w
  <2> QED BY <2>1, <2>2, <2>3 DEF ToSet, Served
<1>4. HasServing(c, h) <=> h \in Served(s) \cup Served(t)
  BY <1>3 DEF HasServing, s, t
<1>5. h \in {r.host : r \in ToSet(s)} <=> h \in Served(s)
  BY <1>1, <1>2, PatternsDiffer DEF ToSet, Served, Proper
<1> QED BY <1>4, <1>5 DEF CaddyServes, s, t

-----------------------------------------------------------------------------
(* The routes of one exposure *)

LEMMA DenialsFacts ==
  ASSUME NEW h \in Host, NEW r \in Request
  PROVE  /\ Denials(h, r) \in Seq(HttpsRoute) /\ Denials(h, r) \in Seq(HttpRoute)
         /\ Own(Denials(h, r), h) /\ Served(Denials(h, r)) = {}
         /\ ~r.tailnet => Denials(h, r) = <<Denial(h)>>
<1>1. Denial(h) \in HttpsRoute /\ Denial(h) \in HttpRoute
  BY DEF Denial, HttpsRoute, HttpRoute, Route
<1>2. Denial(h).host = h /\ Denial(h).kind = "deny"
  BY DEF Denial
<1>3. \A i \in DOMAIN Denials(h, r) : Denials(h, r)[i] = Denial(h)
  BY DEF Denials
<1> QED BY <1>1, <1>2, <1>3 DEF Denials, Own, Served

LEMMA ServingFacts ==
  ASSUME NEW h \in Host, NEW r \in Request
  PROVE  /\ <<Serving(h, r)>> \in Seq(HttpsRoute)
         /\ Own(<<Serving(h, r)>>, h) /\ Served(<<Serving(h, r)>>) = {h}
<1>1. Serving(h, r) \in HttpsRoute
  BY DEF Serving, HttpsRoute, Route, Request
<1>2. Serving(h, r).host = h /\ Serving(h, r).kind = "serve"
  BY DEF Serving
<1>3. DOMAIN <<Serving(h, r)>> = {1} /\ <<Serving(h, r)>>[1] = Serving(h, r)
  OBVIOUS
<1> QED BY <1>1, <1>2, <1>3 DEF Own, Served

LEMMA HttpRoutesFacts ==
  ASSUME NEW h \in Host, NEW r \in Request, NEW redirect \in BOOLEAN
  PROVE  HttpRoutes(h, r, redirect) \in Seq(HttpRoute) /\ Own(HttpRoutes(h, r, redirect), h)
<1>1. \A to \in {"target", "https"} : Redirect(h, r, to) \in HttpRoute
  BY DEF Redirect, HttpRoute, Route, Request
<1>2. \A to \in {"target", "https"} : Redirect(h, r, to).host = h /\ Redirect(h, r, to).kind = "redirect"
  BY DEF Redirect
<1> DEFINE s == HttpRoutes(h, r, redirect)
<1>3. s = <<>> \/ \E to \in {"target", "https"} : s = <<Redirect(h, r, to)>>
  BY DEF HttpRoutes
<1> HIDE DEF s
<1>4. \A i \in DOMAIN s : \E to \in {"target", "https"} : s[i] = Redirect(h, r, to)
  BY <1>3
<1>5. s \in Seq(HttpRoute)
  <2>1. \A r1 \in HttpRoute : <<r1>> \in Seq(HttpRoute)
    OBVIOUS
  <2>2. <<>> \in Seq(HttpRoute)
    OBVIOUS
  <2> DEFINE R == Seq(HttpRoute)
  <2> HIDE DEF R
  <2> QED BY <1>1, <1>3, <2>1, <2>2 DEF R
<1>6. Own(s, h)
  BY <1>2, <1>4 DEF Own
<1> QED BY <1>5, <1>6 DEF s

\* What the requests that read make of the draft.
LEMMA ReadServersFacts ==
  ASSUME CaddyOK, DraftOK, ReadServers
  PROVE  /\ DraftOK'
         /\ Served(draft.https)' = Served(caddy.live.https.routes) \cup Served(caddy.live.srv0)
         /\ \A v : /\ EffectiveDenial(caddy.live.https.routes, v) => EffectiveDenial(draft'.https, v)
                   /\ EffectiveDenial(caddy.live.http.routes, v) => EffectiveDenial(draft'.http, v)
<1> DEFINE c == caddy.live
           t == Filtered(c.srv0, LAMBDA r : r.host # Hostless)
           u == Filtered(c.srv0, LAMBDA r : r.host = Hostless)
<1>1. /\ c.srv0 \in Seq(Route({"serve", "operator"})) /\ Proper(c.srv0)
      /\ c.https.routes \in Seq(HttpsRoute) /\ Proper(c.https.routes)
      /\ c.http.routes \in Seq(HttpRoute) /\ Proper(c.http.routes)
  BY ConfigFacts DEF CaddyOK
<1>2. /\ t \in Seq(Route({"serve", "operator"})) /\ Proper(t) /\ Served(t) = Served(c.srv0)
      /\ u \in Seq(Route({"operator"})) /\ Proper(u)
  BY <1>1, MovedRoutes
<1>3. draft' = [draft EXCEPT !.https = c.https.routes \o t, !.http = c.http.routes \o u]
  BY DEF ReadServers
<1> HIDE DEF t, u
<1>4. t \in Seq(HttpsRoute) /\ u \in Seq(HttpRoute)
  <2>1. Route({"serve", "operator"}) \subseteq HttpsRoute /\ Route({"operator"}) \subseteq HttpRoute
    BY DEF Route, HttpsRoute, HttpRoute
  <2> QED BY <1>2, <2>1
<1>5. /\ c.https.routes \o t \in Seq(HttpsRoute) /\ Proper(c.https.routes \o t)
      /\ Served(c.https.routes \o t) = Served(c.https.routes) \cup Served(t)
      /\ \A v : EffectiveDenial(c.https.routes, v) => EffectiveDenial(c.https.routes \o t, v)
  BY <1>1, <1>2, <1>4, ConcatRoutes DEF HttpsRoute
<1>6. /\ c.http.routes \o u \in Seq(HttpRoute) /\ Proper(c.http.routes \o u)
      /\ \A v : EffectiveDenial(c.http.routes, v) => EffectiveDenial(c.http.routes \o u, v)
  BY <1>1, <1>2, <1>4, ConcatRoutes DEF HttpRoute
<1>7. draft'.https = c.https.routes \o t /\ draft'.http = c.http.routes \o u
      /\ draft' \in [https : Seq(HttpsRoute), http : Seq(HttpRoute), policies : SUBSET Host]
  BY <1>3, <1>5, <1>6 DEF DraftOK
<1> QED BY <1>2, <1>5, <1>6, <1>7 DEF DraftOK

LEMMA ReadHttpsFacts ==
  ASSUME CaddyOK, DraftOK, NEW h \in Host, NEW r \in Request, ReadHttps(h, r)
  PROVE  /\ DraftOK'
         /\ Served(draft.https)' = Served(caddy.live.https.routes) \cup {h}
         /\ \A v \in Host :
              v # h /\ EffectiveDenial(caddy.live.https.routes, v) => EffectiveDenial(draft'.https, v)
         /\ ~r.tailnet => EffectiveDenial(draft'.https, h)
         /\ draft'.http = draft.http /\ draft'.policies = draft.policies
<1> DEFINE s == caddy.live.https.routes
           w == Upsert(s, h, <<Serving(h, r)>>, Denials(h, r))
<1>1. s \in Seq(HttpsRoute) /\ Proper(s)
  BY ConfigFacts DEF CaddyOK
<1>2. /\ w \in Seq(HttpsRoute) /\ Proper(w)
      /\ Served(w) = (Served(s) \ {h}) \cup {h} \cup {}
      /\ \A v \in Host : v # h /\ EffectiveDenial(s, v) => EffectiveDenial(w, v)
      /\ Denials(h, r) = <<Denial(h)>> => EffectiveDenial(w, h)
  <2>1. /\ <<Serving(h, r)>> \in Seq(HttpsRoute) /\ Own(<<Serving(h, r)>>, h)
        /\ Served(<<Serving(h, r)>>) = {h}
    BY ServingFacts
  <2>2. /\ Denials(h, r) \in Seq(HttpsRoute) /\ Own(Denials(h, r), h) /\ Served(Denials(h, r)) = {}
    BY DenialsFacts
  <2> DEFINE x == <<Serving(h, r)>>
             d == Denials(h, r)
             K == {"serve", "deny", "operator"}
  <2> HIDE DEF s, x, d
  <2>3. /\ Upsert(s, h, x, d) \in Seq(HttpsRoute) /\ Proper(Upsert(s, h, x, d))
        /\ Served(Upsert(s, h, x, d)) = (Served(s) \ {h}) \cup Served(x) \cup Served(d)
        /\ \A v \in Host : v # h /\ EffectiveDenial(s, v) => EffectiveDenial(Upsert(s, h, x, d), v)
        /\ d = <<Denial(h)>> => EffectiveDenial(Upsert(s, h, x, d), h)
    <3>1. /\ s \in Seq(Route(K)) /\ x \in Seq(Route(K)) /\ d \in Seq(Route(K))
          /\ Own(x, h) /\ Own(d, h) /\ HttpsRoute = Route(K)
      BY <1>1, <2>1, <2>2 DEF HttpsRoute, x, d
    <3> HIDE DEF K
    <3> QED BY <1>1, <3>1, UpsertRoutes, SMTT(30)
  <2> QED BY <2>1, <2>2, <2>3 DEF x, d
<1>3. draft' = [draft EXCEPT !.https = w]
  BY DEF ReadHttps
<1> HIDE DEF w
<1>4. /\ draft'.https = w /\ draft'.http = draft.http /\ draft'.policies = draft.policies
      /\ draft' \in [https : Seq(HttpsRoute), http : Seq(HttpRoute), policies : SUBSET Host]
  BY <1>2, <1>3 DEF DraftOK
<1> QED BY <1>2, <1>4, DenialsFacts DEF DraftOK

LEMMA ReadHttpFacts ==
  ASSUME CaddyOK, DraftOK, NEW h \in Host, NEW r \in Request, NEW redirect \in BOOLEAN,
         ReadHttp(h, r, redirect)
  PROVE  /\ DraftOK'
         /\ \A v \in Host :
              v # h /\ EffectiveDenial(caddy.live.http.routes, v) => EffectiveDenial(draft'.http, v)
         /\ ~r.tailnet => EffectiveDenial(draft'.http, h)
         /\ draft'.https = draft.https /\ draft'.policies = draft.policies
<1> DEFINE s == caddy.live.http.routes
           w == Upsert(s, h, HttpRoutes(h, r, redirect), Denials(h, r))
<1>1. s \in Seq(HttpRoute) /\ Proper(s)
  BY ConfigFacts DEF CaddyOK
<1>2. /\ w \in Seq(HttpRoute) /\ Proper(w)
      /\ \A v \in Host : v # h /\ EffectiveDenial(s, v) => EffectiveDenial(w, v)
      /\ Denials(h, r) = <<Denial(h)>> => EffectiveDenial(w, h)
  <2>1. /\ HttpRoutes(h, r, redirect) \in Seq(HttpRoute) /\ Own(HttpRoutes(h, r, redirect), h)
    BY HttpRoutesFacts
  <2>2. /\ Denials(h, r) \in Seq(HttpRoute) /\ Own(Denials(h, r), h)
    BY DenialsFacts
  <2> HIDE DEF s
  <2> QED BY <1>1, <2>1, <2>2, UpsertRoutes DEF HttpRoute
<1>3. draft' = [draft EXCEPT !.http = w]
  BY DEF ReadHttp
<1> HIDE DEF w
<1>4. /\ draft'.http = w /\ draft'.https = draft.https /\ draft'.policies = draft.policies
      /\ draft' \in [https : Seq(HttpsRoute), http : Seq(HttpRoute), policies : SUBSET Host]
  BY <1>2, <1>3 DEF DraftOK
<1> QED BY <1>2, <1>4, DenialsFacts DEF DraftOK

LEMMA ReadRemovalFacts ==
  ASSUME CaddyOK, DraftOK, NEW h \in Host, ReadRemoval(h)
  PROVE  /\ DraftOK'
         /\ Served(draft.https)' = Served(caddy.live.https.routes) \ {h}
         /\ draft'.policies = caddy.live.policies \ {h}
<1> DEFINE s == caddy.live.https.routes
           w == Without(s, h)
<1>1. s \in Seq(HttpsRoute) /\ Proper(s) /\ caddy.live.policies \in SUBSET Host
  BY ConfigFacts DEF CaddyOK
<1>2. w \in Seq(HttpsRoute) /\ Proper(w) /\ Served(w) = Served(s) \ {h}
  <2> HIDE DEF s
  <2> QED BY <1>1, WithoutRoutes DEF HttpsRoute
<1>3. draft' = [draft EXCEPT !.https = w, !.policies = caddy.live.policies \ {h}]
  BY DEF ReadRemoval
<1> HIDE DEF w
<1>4. /\ draft'.https = w /\ draft'.http = draft.http /\ draft'.policies = caddy.live.policies \ {h}
      /\ draft' \in [https : Seq(HttpsRoute), http : Seq(HttpRoute), policies : SUBSET Host]
  BY <1>1, <1>2, <1>3 DEF DraftOK
<1> QED BY <1>2, <1>4 DEF DraftOK

LEMMA ReadHttpRemovalFacts ==
  ASSUME CaddyOK, DraftOK, NEW h \in Host, ReadHttpRemoval(h)
  PROVE  DraftOK' /\ draft'.https = draft.https /\ draft'.policies = draft.policies
<1> DEFINE s == caddy.live.http.routes
           w == Without(s, h)
<1>1. s \in Seq(HttpRoute) /\ Proper(s)
  BY ConfigFacts DEF CaddyOK
<1>2. w \in Seq(HttpRoute) /\ Proper(w)
  <2> HIDE DEF s
  <2> QED BY <1>1, WithoutRoutes DEF HttpRoute
<1>3. draft' = [draft EXCEPT !.http = w]
  BY DEF ReadHttpRemoval
<1> HIDE DEF w
<1>4. /\ draft'.http = w /\ draft'.https = draft.https /\ draft'.policies = draft.policies
      /\ draft' \in [https : Seq(HttpsRoute), http : Seq(HttpRoute), policies : SUBSET Host]
  BY <1>2, <1>3 DEF DraftOK
<1> QED BY <1>2, <1>4 DEF DraftOK

LEMMA ReadPoliciesFacts ==
  ASSUME CaddyOK, DraftOK, NEW h \in Host, ReadPolicies(h)
  PROVE  /\ DraftOK' /\ draft'.policies = caddy.live.policies \cup {h}
         /\ draft'.https = draft.https /\ draft'.http = draft.http
<1>1. caddy.live.policies \in SUBSET Host
  BY ConfigFacts DEF CaddyOK
<1> QED BY <1>1 DEF DraftOK, ReadPolicies

\* What the requests that write make of the configuration.
LEMMA WrittenFields ==
  ASSUME CaddyOK, DraftOK
  PROVE  LET c == caddy.live
         IN  /\ \A call \in Writes \ {"drop-srv0"} : Written(call).srv0 = c.srv0
             /\ Written("drop-srv0").srv0 = <<>>
             /\ \A call \in Writes \ {"policies"} : Written(call).policies = c.policies
             /\ Written("policies").policies = draft.policies
             /\ \A call \in {"https", "create-https"} : Written(call).https.routes = draft.https
             /\ \A call \in Writes \ {"https", "create-https"} : Written(call).https.routes = c.https.routes
             /\ \A call \in {"http", "create-http"} : Written(call).http.routes = draft.http
             /\ \A call \in Writes \ {"http", "create-http"} : Written(call).http.routes = c.http.routes
             /\ \A call \in {"listen", "create-https"} : Written(call).https.listen
             /\ \A call \in Writes \ {"listen", "create-https"} : Written(call).https.listen = c.https.listen
             /\ \A call \in {"listen", "https", "create-https"} : Written(call).https.up
             /\ \A call \in Writes \ {"listen", "https", "create-https"} : Written(call).https.up = c.https.up
             /\ \A call \in Writes : Written(call) \in Config
<1> DEFINE c == caddy.live
           RoutesOf(K) == Seq(Route(K))
           ServerOf(R) == [up : BOOLEAN, listen : BOOLEAN, routes : R]
           R0 == Seq(Route({"serve", "operator"}))
           R1 == Seq(HttpsRoute)
           R2 == Seq(HttpRoute)
<1>1. /\ c \in [srv0 : R0, https : ServerOf(R1), http : ServerOf(R2), policies : SUBSET Host]
      /\ Config = [srv0 : R0, https : ServerOf(R1), http : ServerOf(R2), policies : SUBSET Host]
  BY ConfigFacts DEF CaddyOK, Config, Server, HttpsRoute, HttpRoute
<1>2. /\ draft \in [https : R1, http : R2, policies : SUBSET Host] /\ <<>> \in R0
  BY DEF DraftOK
<1> HIDE DEF R0, R1, R2, c
<1>3. \A call \in Writes :
        Written(call) =
          CASE call = "listen"       -> [c EXCEPT !.https.up = TRUE, !.https.listen = TRUE]
            [] call = "drop-srv0"    -> [c EXCEPT !.srv0 = <<>>]
            [] call = "create-https" -> [c EXCEPT !.https = Created(draft.https)]
            [] call = "create-http"  -> [c EXCEPT !.http = Created(draft.http)]
            [] call = "https"        -> [c EXCEPT !.https = Replaced(@, draft.https)]
            [] call = "http"         -> [c EXCEPT !.http = Replaced(@, draft.http)]
            [] call = "policies"     -> [c EXCEPT !.policies = draft.policies]
  BY DEF Written, c
<1>4. /\ Written("listen") = [c EXCEPT !.https.up = TRUE, !.https.listen = TRUE]
      /\ Written("drop-srv0") = [c EXCEPT !.srv0 = <<>>]
      /\ Written("create-https") = [c EXCEPT !.https = Created(draft.https)]
      /\ Written("create-http") = [c EXCEPT !.http = Created(draft.http)]
      /\ Written("https") = [c EXCEPT !.https = Replaced(@, draft.https)]
      /\ Written("http") = [c EXCEPT !.http = Replaced(@, draft.http)]
      /\ Written("policies") = [c EXCEPT !.policies = draft.policies]
  BY <1>3 DEF Writes
<1> DEFINE S1 == ServerOf(R1)
           S2 == ServerOf(R2)
           A == Created(draft.https)
           B == Created(draft.http)
           P == Replaced(c.https, draft.https)
           Q == Replaced(c.http, draft.http)
           L == [c.https EXCEPT !.up = TRUE, !.listen = TRUE]
<1>5. c.https \in S1 /\ c.http \in S2 /\ draft.https \in R1 /\ draft.http \in R2
  BY <1>1, <1>2
<1>6. /\ A \in S1 /\ A.up /\ A.listen /\ A.routes = draft.https
      /\ B \in S2 /\ B.routes = draft.http
  BY <1>5 DEF Created
<1>7. P \in S1 /\ P.up /\ P.listen = c.https.listen /\ P.routes = draft.https
  BY <1>5 DEF Replaced
<1>8. Q \in S2 /\ Q.routes = draft.http
  BY <1>5 DEF Replaced
<1>9. L \in S1 /\ L.up /\ L.listen /\ L.routes = c.https.routes
  BY <1>5
<1>10. /\ Written("listen") = [c EXCEPT !.https = L]
       /\ Written("create-https") = [c EXCEPT !.https = A]
       /\ Written("create-http") = [c EXCEPT !.http = B]
       /\ Written("https") = [c EXCEPT !.https = P]
       /\ Written("http") = [c EXCEPT !.http = Q]
  BY <1>1, <1>4
<1>11. c \in [srv0 : R0, https : S1, http : S2, policies : SUBSET Host]
       /\ Config = [srv0 : R0, https : S1, http : S2, policies : SUBSET Host]
  BY <1>1
<1> HIDE DEF S1, S2, A, B, P, Q, L
<1>12. \A e \in S1 : LET d == [c EXCEPT !.https = e]
                    IN  /\ d \in Config /\ d.srv0 = c.srv0 /\ d.policies = c.policies
                        /\ d.http = c.http /\ d.https = e
  BY <1>11
<1>13. \A e \in S2 : LET d == [c EXCEPT !.http = e]
                    IN  /\ d \in Config /\ d.srv0 = c.srv0 /\ d.policies = c.policies
                        /\ d.https = c.https /\ d.http = e
  BY <1>11
<1>14. LET d == Written("drop-srv0")
       IN  d \in Config /\ d.srv0 = <<>> /\ d.policies = c.policies /\ d.http = c.http /\ d.https = c.https
  BY <1>2, <1>4, <1>11
<1>15. LET d == Written("policies")
       IN  d \in Config /\ d.srv0 = c.srv0 /\ d.policies = draft.policies /\ d.http = c.http /\ d.https = c.https
  BY <1>2, <1>4, <1>11
<1> HIDE DEF c
<1> DEFINE OnHttps(d, e) == /\ d \in Config /\ d.srv0 = c.srv0 /\ d.policies = c.policies
                            /\ d.http = c.http /\ d.https = e
           OnHttp(d, e) == /\ d \in Config /\ d.srv0 = c.srv0 /\ d.policies = c.policies
                           /\ d.https = c.https /\ d.http = e
<1>16. OnHttps(Written("listen"), L)
  <2>1. L \in S1 /\ Written("listen") = [c EXCEPT !.https = L]
    BY <1>9, <1>10
  <2> QED BY <2>1, <1>12
<1>17. OnHttps(Written("create-https"), A)
  <2>1. A \in S1 /\ Written("create-https") = [c EXCEPT !.https = A]
    BY <1>6, <1>10
  <2> QED BY <2>1, <1>12
<1>18. OnHttp(Written("create-http"), B)
  <2>1. B \in S2 /\ Written("create-http") = [c EXCEPT !.http = B]
    BY <1>6, <1>10
  <2> QED BY <2>1, <1>13
<1>19. OnHttps(Written("https"), P)
  <2>1. P \in S1 /\ Written("https") = [c EXCEPT !.https = P]
    BY <1>7, <1>10
  <2> QED BY <2>1, <1>12
<1>20. OnHttp(Written("http"), Q)
  <2>1. Q \in S2 /\ Written("http") = [c EXCEPT !.http = Q]
    BY <1>8, <1>10
  <2> QED BY <2>1, <1>13
<1> QED
  BY <1>6, <1>7, <1>8, <1>9, <1>14, <1>15, <1>16, <1>17, <1>18, <1>19, <1>20 DEF Writes, c

LEMMA WrittenIsOK ==
  ASSUME CaddyOK, DraftOK, NEW call \in Writes, Accepted(call)
  PROVE  ConfigOK(Written(call))
<1> DEFINE c == caddy.live
           d == Written(call)
<1>1. d \in Config /\ UniqueIds(d)
  BY WrittenFields DEF Accepted
<1>2. Proper(c.srv0) /\ Proper(c.https.routes) /\ Proper(c.http.routes) /\ (~c.https.up => c.https.routes = <<>>)
  BY DEF CaddyOK, ConfigOK
<1>3. Proper(<<>>) /\ Proper(draft.https) /\ Proper(draft.http)
  BY DEF Proper, DraftOK
<1>4. Proper(d.srv0)
  BY <1>2, <1>3, WrittenFields
<1>5. Proper(d.https.routes)
  BY <1>2, <1>3, WrittenFields
<1>6. Proper(d.http.routes)
  BY <1>2, <1>3, WrittenFields
<1>7. ~d.https.up => d.https.routes = <<>>
  BY <1>2, WrittenFields DEF Writes
<1> QED BY <1>1, <1>4, <1>5, <1>6, <1>7 DEF ConfigOK

-----------------------------------------------------------------------------
(* Configurations of installations, and of operators *)

Unique(s) == \A i, j \in DOMAIN s : SameId(s[i], s[j]) => i = j

LEMMA UniqueConcat ==
  ASSUME NEW K, NEW s \in Seq(Route(K)), NEW t \in Seq(Route(K))
  PROVE  Unique(s \o t) <=>
           /\ Unique(s) /\ Unique(t)
           /\ \A i \in DOMAIN s, j \in DOMAIN t : ~SameId(s[i], t[j])
<1> DEFINE w == s \o t
           n == Len(s)
<1>1. n \in Nat /\ DOMAIN s = 1..n /\ \A i \in DOMAIN t : i \in Nat \ {0}
  OBVIOUS
<1>2. \A i \in DOMAIN s : i \in DOMAIN w /\ w[i] = s[i]
  OBVIOUS
<1>3. \A i \in DOMAIN t : n + i \in DOMAIN w /\ w[n + i] = t[i]
  OBVIOUS
<1>4. \A i \in DOMAIN w : /\ i \in Nat
                          /\ (i \in DOMAIN s /\ w[i] = s[i]) \/ (i - n \in DOMAIN t /\ w[i] = t[i - n])
  OBVIOUS
<1>5. \A r, q : SameId(r, q) => SameId(q, r)
  BY DEF SameId
<1> HIDE DEF w, n
<1>6. ASSUME Unique(w)
      PROVE  Unique(s) /\ Unique(t) /\ \A i \in DOMAIN s, j \in DOMAIN t : ~SameId(s[i], t[j])
  <2>1. Unique(s)
    BY <1>2, <1>6 DEF Unique
  <2>2. ASSUME NEW i \in DOMAIN t, NEW j \in DOMAIN t, SameId(t[i], t[j]) PROVE i = j
    <3>1. n + i = n + j
      BY <1>3, <1>6, <2>2 DEF Unique
    <3> QED BY <1>1, <3>1
  <2>3. ASSUME NEW i \in DOMAIN s, NEW j \in DOMAIN t, SameId(s[i], t[j]) PROVE FALSE
    <3>1. i = n + j
      BY <1>2, <1>3, <1>6, <2>3 DEF Unique
    <3> QED BY <1>1, <3>1
  <2> QED BY <2>1, <2>2, <2>3 DEF Unique
<1>7. ASSUME Unique(s), Unique(t), \A i \in DOMAIN s, j \in DOMAIN t : ~SameId(s[i], t[j])
      PROVE  Unique(w)
  <2>1. ASSUME NEW i \in DOMAIN w, NEW j \in DOMAIN w, SameId(w[i], w[j]) PROVE i = j
    <3>1. CASE i \in DOMAIN s /\ w[i] = s[i] /\ j \in DOMAIN s /\ w[j] = s[j]
      BY <1>7, <2>1, <3>1 DEF Unique
    <3>2. CASE i - n \in DOMAIN t /\ w[i] = t[i - n] /\ j - n \in DOMAIN t /\ w[j] = t[j - n]
      <4>1. i - n = j - n
        BY <1>7, <2>1, <3>2 DEF Unique
      <4> QED BY <1>1, <1>4, <4>1
    <3>3. ~(i \in DOMAIN s /\ w[i] = s[i] /\ j - n \in DOMAIN t /\ w[j] = t[j - n])
      BY <1>7, <2>1
    <3>4. ~(j \in DOMAIN s /\ w[j] = s[j] /\ i - n \in DOMAIN t /\ w[i] = t[i - n])
      BY <1>5, <1>7, <2>1
    <3> QED BY <1>4, <3>1, <3>2, <3>3, <3>4
  <2> QED BY <2>1 DEF Unique
<1> QED BY <1>6, <1>7 DEF w

LEMMA UniqueIdsParts ==
  ASSUME NEW c
  PROVE  UniqueIds(c) <=> Unique(c.srv0 \o c.https.routes) /\ Unique(c.http.routes)
BY DEF UniqueIds, Unique

LEMMA OperatorFacts ==
  ASSUME NEW pattern \in {Wildcard, Hostless}
  PROVE  LET s == <<Operator(pattern)>>
         IN  /\ \A K : "operator" \in K => s \in Seq(Route(K))
             /\ Proper(s) /\ Served(s) = {} /\ Unique(s)
             /\ \A r : ~SameId(r, Operator(pattern)) /\ ~SameId(Operator(pattern), r)
<1>1. Operator(pattern).kind = "operator" /\ Operator(pattern).host = pattern
  BY DEF Operator
<1>2. \A K : "operator" \in K => Operator(pattern) \in Route(K)
  BY DEF Operator, Route
<1>3. DOMAIN <<Operator(pattern)>> = {1} /\ <<Operator(pattern)>>[1] = Operator(pattern)
  OBVIOUS
<1>4. \A r : ~SameId(r, Operator(pattern)) /\ ~SameId(Operator(pattern), r)
  BY <1>1 DEF SameId
<1>5. ASSUME NEW K, "operator" \in K PROVE <<Operator(pattern)>> \in Seq(Route(K))
  BY <1>2, <1>5
<1> QED BY <1>1, <1>3, <1>4, <1>5 DEF Proper, Served, Unique

\* A route of an operator at either end of a list.
LEMMA EditedRoutes ==
  ASSUME NEW K, "operator" \in K, NEW s \in Seq(Route(K)), Proper(s), NEW pattern \in {Wildcard, Hostless},
         NEW w, w = <<Operator(pattern)>> \o s \/ w = s \o <<Operator(pattern)>>
  PROVE  /\ w \in Seq(Route(K)) /\ Proper(w) /\ Served(w) = Served(s)
         /\ Unique(s) => Unique(w)
         /\ \A r : (\A i \in DOMAIN s : ~SameId(r, s[i])) => \A i \in DOMAIN w : ~SameId(r, w[i])
<1> DEFINE o == <<Operator(pattern)>>
<1>1. o \in Seq(Route(K)) /\ Proper(o) /\ Served(o) = {} /\ Unique(o)
  BY OperatorFacts
<1>2. /\ \A i \in DOMAIN o, j \in DOMAIN s : ~SameId(o[i], s[j]) /\ ~SameId(s[j], o[i])
      /\ \A r : \A i \in DOMAIN o : ~SameId(r, o[i])
  <2>1. DOMAIN o = {1} /\ o[1] = Operator(pattern)
    OBVIOUS
  <2> HIDE DEF o
  <2> QED BY <2>1, OperatorFacts
<1> HIDE DEF o
<1>3. CASE w = o \o s
  <2>1. w \in Seq(Route(K)) /\ Proper(w) /\ Served(w) = Served(o) \cup Served(s)
    <3>1. o \o s \in Seq(Route(K)) /\ Proper(o \o s) /\ Served(o \o s) = Served(o) \cup Served(s)
      <4>1. \A u, v \in Seq(Route(K)) : Proper(u) /\ Proper(v) =>
              u \o v \in Seq(Route(K)) /\ Proper(u \o v) /\ Served(u \o v) = Served(u) \cup Served(v)
        BY ConcatRoutes
      <4> QED BY <1>1, <4>1
    <3> QED BY <1>3, <3>1
  <2>2. Unique(s) => Unique(w)
    BY <1>1, <1>2, <1>3, UniqueConcat
  <2>3. \A i \in DOMAIN w : (i \in DOMAIN o /\ w[i] = o[i]) \/ (i - Len(o) \in DOMAIN s /\ w[i] = s[i - Len(o)])
    BY <1>1, <1>3
  <2>4. \A r : (\A i \in DOMAIN s : ~SameId(r, s[i])) => \A i \in DOMAIN w : ~SameId(r, w[i])
    BY <1>2, <2>3
  <2> QED BY <1>1, <2>1, <2>2, <2>4
<1>4. CASE w = s \o o
  <2>1. w \in Seq(Route(K)) /\ Proper(w) /\ Served(w) = Served(s) \cup Served(o)
    <3>1. s \o o \in Seq(Route(K)) /\ Proper(s \o o) /\ Served(s \o o) = Served(s) \cup Served(o)
      <4>1. \A u, v \in Seq(Route(K)) : Proper(u) /\ Proper(v) =>
              u \o v \in Seq(Route(K)) /\ Proper(u \o v) /\ Served(u \o v) = Served(u) \cup Served(v)
        BY ConcatRoutes
      <4> QED BY <1>1, <4>1
    <3> QED BY <1>4, <3>1
  <2>2. Unique(s) => Unique(w)
    BY <1>1, <1>2, <1>4, UniqueConcat
  <2>3. \A i \in DOMAIN w : (i \in DOMAIN s /\ w[i] = s[i]) \/ (i - Len(s) \in DOMAIN o /\ w[i] = o[i - Len(s)])
    BY <1>1, <1>4
  <2>4. \A r : (\A i \in DOMAIN s : ~SameId(r, s[i])) => \A i \in DOMAIN w : ~SameId(r, w[i])
    BY <1>2, <2>3
  <2> QED BY <1>1, <2>1, <2>2, <2>4
<1> QED BY <1>3, <1>4 DEF o

LEMMA InstalledFacts ==
  /\ ConfigOK(Installed)
  /\ \A h \in Host, r \in Request : /\ ConfigOK(Legacy(h, r))
                                    /\ h \in Legacy(h, r).policies /\ h \in Served(Legacy(h, r).srv0)
<1> DEFINE o == <<Operator(Hostless)>>
           K == {"serve", "operator"}
<1>1. o \in Seq(Route(K)) /\ Proper(o) /\ Unique(o) /\ \A r : ~SameId(r, Operator(Hostless))
  BY OperatorFacts
<1>2. Proper(<<>>) /\ Unique(<<>>)
  BY DEF Proper, Unique
<1>3. o \o <<>> = o
  BY <1>1
<1>4. DOMAIN o = {1} /\ o[1] = Operator(Hostless)
  OBVIOUS
<1>5. /\ Installed.srv0 = o /\ Installed.https = NoServer /\ Installed.http = NoServer
      /\ Installed.policies = {} /\ NoServer.routes = <<>> /\ Installed \in Config
  BY <1>1 DEF Installed, NoServer, Config, Server
<1> HIDE DEF o
<1>6. ConfigOK(Installed)
  BY <1>1, <1>2, <1>3, <1>5, UniqueIdsParts DEF ConfigOK
<1>7. ASSUME NEW h \in Host, NEW r \in Request
      PROVE  /\ ConfigOK(Legacy(h, r))
             /\ h \in Legacy(h, r).policies /\ h \in Served(Legacy(h, r).srv0)
  <2> DEFINE t == <<Serving(h, r)>>
             s == t \o o
             c == Legacy(h, r)
  <2>1. t \in Seq(Route(K)) /\ Proper(t) /\ Served(t) = {h} /\ Unique(t)
    <3>1. Serving(h, r) \in Route(K) /\ Serving(h, r).kind = "serve" /\ Serving(h, r).host = h
      BY DEF Serving, Route, Request
    <3>2. DOMAIN t = {1} /\ t[1] = Serving(h, r)
      OBVIOUS
    <3>3. t \in Seq(Route(K))
      BY <3>1
    <3> HIDE DEF t
    <3> QED BY <3>1, <3>2, <3>3 DEF Proper, Served, Unique
  <2> HIDE DEF t
  <2>2. s \in Seq(Route(K)) /\ Proper(s) /\ Served(s) = Served(t) \cup Served(o) /\ Unique(s)
    <3>1. \A i \in DOMAIN t, j \in DOMAIN o : ~SameId(t[i], o[j])
      BY <1>1, <1>4
    <3> QED BY <1>1, <2>1, <3>1, ConcatRoutes, UniqueConcat
  <2>3. s \o <<>> = s
    BY <2>2
  <2>4. /\ c.srv0 = s /\ c.https = NoServer /\ c.http = NoServer /\ c.policies = {h}
    <3>1. Installed = [srv0 |-> o, https |-> NoServer, http |-> NoServer, policies |-> {}]
      BY DEF Installed, o
    <3> QED BY <3>1 DEF Legacy, t
  <2>5. c \in Config
    <3> HIDE DEF s
    <3>1. Installed = [srv0 |-> o, https |-> NoServer, http |-> NoServer, policies |-> {}]
      BY DEF Installed, o
    <3>2. c = [srv0 |-> s, https |-> NoServer, http |-> NoServer, policies |-> {h}]
      <4>1. Serving(h, r) = t[1] /\ <<Serving(h, r)>> \o o = s
        BY DEF t, s
      <4>2. c = [Installed EXCEPT !.srv0 = s, !.policies = {h}]
        BY <3>1, <4>1 DEF Legacy
      <4> QED BY <3>1, <4>2
    <3> HIDE DEF c
    <3>3. \A k : NoServer \in Server(k)
      BY DEF NoServer, Server
    <3> QED BY <2>2, <3>2, <3>3 DEF Config
  <2> HIDE DEF s, c
  <2>6. ConfigOK(c)
    BY <1>2, <1>5, <2>2, <2>3, <2>4, <2>5, UniqueIdsParts DEF ConfigOK
  <2> QED BY <2>1, <2>2, <2>4, <2>6 DEF c
<1> QED BY <1>6, <1>7

LEMMA EditFacts ==
  ASSUME CaddyOK, EditCaddy
  PROVE  /\ ConfigOK(caddy'.live) /\ caddy'.file = caddy.file /\ caddy' \in CaddyType
         /\ caddy'.live.srv0 = caddy.live.srv0 /\ caddy'.live.policies = caddy.live.policies
         /\ caddy'.live.https.up = caddy.live.https.up /\ caddy'.live.https.listen = caddy.live.https.listen
         /\ Served(caddy'.live.https.routes) = Served(caddy.live.https.routes)
<1> DEFINE c == caddy.live
           R0 == Seq(Route({"serve", "operator"}))
           ServerOf(R) == [up : BOOLEAN, listen : BOOLEAN, routes : R]
           R1 == Seq(HttpsRoute)
           R2 == Seq(HttpRoute)
           C == [srv0 : R0, https : ServerOf(R1), http : ServerOf(R2), policies : SUBSET Host]
<1>1. ConfigOK(c) /\ c \in C /\ C = Config
  BY ConfigFacts DEF CaddyOK, Config, Server, HttpsRoute, HttpRoute
<1>2. /\ c.srv0 \in R0 /\ c.https.routes \in R1 /\ Proper(c.https.routes)
      /\ c.http.routes \in R2 /\ Proper(c.http.routes)
      /\ Unique(c.srv0 \o c.https.routes) /\ Unique(c.http.routes)
  BY <1>1, ConfigFacts, UniqueIdsParts DEF ConfigOK
<1>3. c.srv0 \in R1
  <2>1. Route({"serve", "operator"}) \subseteq HttpsRoute
    BY DEF Route, HttpsRoute
  <2> QED BY <1>2, <2>1
<1>4. PICK server \in {"https", "http"}, pattern \in {Wildcard, Hostless}, front \in BOOLEAN :
        /\ c[server].up
        /\ caddy' = [caddy EXCEPT !.live[server].routes =
                      IF front THEN <<Operator(pattern)>> \o @ ELSE Append(@, Operator(pattern))]
  BY DEF EditCaddy
<1>5. caddy \in [live : C, file : Seq(C)]
  BY <1>1 DEF CaddyOK, CaddyType
<1> DEFINE w == IF front THEN <<Operator(pattern)>> \o c[server].routes
                ELSE Append(c[server].routes, Operator(pattern))
           e == [c[server] EXCEPT !.routes = w]
           d == [c EXCEPT ![server] = e]
<1>6. c[server].routes \in R1 \cup R2
      /\ \A k : \A s \in Seq(Route(k)) : Append(s, Operator(pattern)) = s \o <<Operator(pattern)>>
  <2>1. ASSUME NEW k, NEW s \in Seq(Route(k))
        PROVE  Append(s, Operator(pattern)) = s \o <<Operator(pattern)>>
    <3> DEFINE r == Operator(pattern)
               S == Route(k)
    <3> HIDE DEF r, S
    <3>1. s \in Seq(S)
      BY DEF S
    <3>2. Append(s, r) = s \o <<r>>
      BY <3>1
    <3> QED BY <3>2 DEF r
  <2> QED BY <1>2, <2>1
<1>7. w = <<Operator(pattern)>> \o c[server].routes \/ w = c[server].routes \o <<Operator(pattern)>>
  BY <1>2, <1>6 DEF HttpsRoute, HttpRoute
<1> HIDE DEF R0, R1, R2
<1>8. caddy' = [caddy EXCEPT !.live = d]
  BY <1>4, <1>5
<1> HIDE DEF w
<1>9. CASE server = "https"
  <2>1. /\ w \in R1 /\ Proper(w) /\ Served(w) = Served(c.https.routes)
        /\ (Unique(c.https.routes) => Unique(w))
        /\ \A r : (\A i \in DOMAIN c.https.routes : ~SameId(r, c.https.routes[i]))
             => \A i \in DOMAIN w : ~SameId(r, w[i])
    <3> DEFINE s == c.https.routes
    <3>1. s \in R1 /\ Proper(s) /\ (w = <<Operator(pattern)>> \o s \/ w = s \o <<Operator(pattern)>>)
      BY <1>2, <1>7, <1>9
    <3> HIDE DEF s
    <3>2. /\ w \in R1 /\ Proper(w) /\ Served(w) = Served(s) /\ (Unique(s) => Unique(w))
          /\ \A r : (\A i \in DOMAIN s : ~SameId(r, s[i])) => \A i \in DOMAIN w : ~SameId(r, w[i])
      <4> DEFINE K == {"serve", "deny", "operator"}
      <4>1. s \in Seq(Route(K)) /\ R1 = Seq(Route(K)) /\ "operator" \in K
        BY <3>1 DEF HttpsRoute, R1
      <4> HIDE DEF K
      <4> QED BY <3>1, <4>1, EditedRoutes
    <3> QED BY <3>2 DEF s
  <2>2. Unique(c.srv0 \o w)
    <3>1. Unique(c.srv0) /\ Unique(c.https.routes) /\
          \A i \in DOMAIN c.srv0, j \in DOMAIN c.https.routes : ~SameId(c.srv0[i], c.https.routes[j])
      BY <1>2, <1>3, UniqueConcat DEF HttpsRoute, R1
    <3> QED BY <1>3, <2>1, <3>1, UniqueConcat DEF HttpsRoute, R1
  <2>3. e \in ServerOf(R1) /\ e.up = c.https.up /\ e.listen = c.https.listen /\ e.routes = w
    BY <1>1, <1>9, <2>1
  <2> HIDE DEF e, ServerOf
  <2>4. /\ d \in C /\ d.srv0 = c.srv0 /\ d.https = e /\ d.http = c.http /\ d.policies = c.policies
    BY <1>1, <1>9, <2>3
  <2> HIDE DEF d
  <2>5. ConfigOK(d)
    <3>1. c.https.up /\ Proper(c.srv0) /\ Proper(c.http.routes)
      BY <1>1, <1>4, <1>9 DEF ConfigOK
    <3> QED BY <1>1, <1>2, <2>1, <2>2, <2>3, <2>4, <3>1, UniqueIdsParts DEF ConfigOK
  <2>6. caddy'.live = d /\ caddy'.file = caddy.file /\ caddy' \in [live : C, file : Seq(C)]
    BY <1>5, <1>8, <2>4
  <2> QED BY <1>1, <2>1, <2>3, <2>4, <2>5, <2>6 DEF CaddyType
<1>10. CASE server = "http"
  <2>1. w \in R2 /\ Proper(w) /\ (Unique(c.http.routes) => Unique(w))
    BY <1>2, <1>7, <1>10, EditedRoutes DEF HttpRoute, R2
  <2>2. e \in ServerOf(R2) /\ e.routes = w
    BY <1>1, <1>10, <2>1
  <2> HIDE DEF e, ServerOf
  <2>3. /\ d \in C /\ d.srv0 = c.srv0 /\ d.https = c.https /\ d.http = e /\ d.policies = c.policies
    BY <1>1, <1>10, <2>2
  <2> HIDE DEF d
  <2>4. ConfigOK(d)
    <3>1. Proper(c.srv0) /\ (~c.https.up => c.https.routes = <<>>)
      BY <1>1 DEF ConfigOK
    <3> QED BY <1>1, <1>2, <2>1, <2>2, <2>3, <3>1, UniqueIdsParts DEF ConfigOK
  <2>5. caddy'.live = d /\ caddy'.file = caddy.file /\ caddy' \in [live : C, file : Seq(C)]
    BY <1>5, <1>8, <2>3
  <2> QED BY <1>1, <2>3, <2>4, <2>5 DEF CaddyType
<1> QED BY <1>9, <1>10

-----------------------------------------------------------------------------
(* The calls of a command *)

Task == Call \X (Host \cup {Absent})

Publication == {"read-policies", "read-https", "read-http", "check",
                "root", "static", "restart", "fragment"}
Removal == {"read-removal", "read-http-removal", "unlink"}
CaddyCalls == Writes \cup ReadCalls \cup {"dump"}
TraefikCalls == {"root", "static", "restart", "fragment", "unlink"}
Finals == {"save", "dump", "advertise"}

\* Which call may come after which.
Follows(a, b) ==
  /\ a = "read-servers" => b \in {"read-policies", "read-removal"}
  /\ a = "listen" => b \in {"drop-srv0", "create-http", "read-policies", "read-removal"}
  /\ a = "drop-srv0" => b \in {"https", "create-https"}
  /\ a = "create-https" => b \in {"http", "create-http", "read-policies", "read-removal"}
  /\ a = "create-http" => b \in {"read-policies", "read-removal"}
  /\ a = "https" => b \in {"http", "create-http", "read-http", "read-http-removal"}
  /\ a = "http" => b \in {"read-policies", "read-removal", "check", "policies", "dump"}
  /\ a = "read-policies" => b = "read-https"
  /\ a = "policies" => b \in {"read-https", "dump"}
  /\ a = "read-https" => b = "read-http"
  /\ a = "read-http" => b = "check"
  /\ a = "read-removal" => b = "dump"
  /\ a = "read-http-removal" => b \in {"policies", "dump"}
  /\ a = "root" => b = "static"
  /\ a = "static" => b = "restart"
  /\ a = "restart" => b = "fragment"
  /\ a = "fragment" => b = "check"
  /\ a = "unlink" => b = "save"
  /\ a = "check" => b \in {"read-servers", "root", "fragment"} \cup Finals
  /\ a = "save" => b = "dump"
  /\ a = "dump" => b \in {"save", "advertise"}
  /\ a # "advertise"

\* A check is the last call for its hostname.
Linked(s, t) == Follows(s[1], t[1]) /\ (s[1] # "check" => t[2] = s[2])

Chained(s) == \A i \in 1..(Len(s) - 1) : Linked(s[i], s[i + 1])

Ordered(todo) == todo # <<>> => Chained(todo) /\ todo[Len(todo)][1] \in Finals

LEMMA ForFacts ==
  ASSUME NEW h \in Host \cup {Absent}, NEW calls \in Seq(Call)
  PROVE  /\ For(h, calls) \in Seq(Task) /\ Len(For(h, calls)) = Len(calls)
         /\ \A i \in DOMAIN calls : For(h, calls)[i] = <<calls[i], h>>
BY DEF For, Task

LEMMA EmptyFacts ==
  ASSUME NEW s \in Seq(Task)
  PROVE  Len(s) \in Nat /\ DOMAIN s = 1..Len(s) /\ (s = <<>> <=> Len(s) = 0)
OBVIOUS

LEMMA ConcatAssociates ==
  ASSUME NEW C, NEW p \in Seq(C), NEW q \in Seq(C), NEW r \in Seq(C)
  PROVE  (p \o q) \o r = p \o (q \o r)
OBVIOUS

\* Two lists of calls, one after the other.
LEMMA JoinFacts ==
  ASSUME NEW s \in Seq(Task), NEW t \in Seq(Task)
  PROVE  LET w == s \o t
         IN  /\ w \in Seq(Task) /\ Len(w) = Len(s) + Len(t)
             /\ \A i \in DOMAIN w : \/ i \in DOMAIN s /\ w[i] = s[i]
                                    \/ i - Len(s) \in DOMAIN t /\ w[i] = t[i - Len(s)]
             /\ \A i \in DOMAIN s : i \in DOMAIN w /\ w[i] = s[i]
             /\ \A i \in DOMAIN t : Len(s) + i \in DOMAIN w /\ w[Len(s) + i] = t[i]
             /\ s = <<>> => w = t
             /\ t = <<>> => w = s
             /\ s # <<>> => w # <<>> /\ w[1] = s[1]
             /\ t # <<>> => w # <<>> /\ w[Len(w)] = t[Len(t)]
OBVIOUS

LEMMA JoinChained ==
  ASSUME NEW s \in Seq(Task), NEW t \in Seq(Task), Chained(s), Chained(t),
         s # <<>> /\ t # <<>> => Linked(s[Len(s)], t[1])
  PROVE  Chained(s \o t)
<1> DEFINE w == s \o t
           n == Len(s)
<1>1. n \in Nat /\ DOMAIN s = 1..n /\ Len(t) \in Nat /\ DOMAIN t = 1..Len(t)
  OBVIOUS
<1>2. /\ Len(w) = n + Len(t)
      /\ \A i \in DOMAIN s : w[i] = s[i]
      /\ \A i \in DOMAIN t : w[n + i] = t[i]
  BY JoinFacts
<1>3. s # <<>> <=> n # 0
  OBVIOUS
<1>4. t # <<>> <=> Len(t) # 0
  OBVIOUS
<1> HIDE DEF w, n
<1>5. ASSUME NEW i \in 1..(Len(w) - 1) PROVE Linked(w[i], w[i + 1])
  <2>1. i \in Nat /\ i >= 1 /\ i < n + Len(t)
    BY <1>1, <1>2
  <2>2. CASE i < n
    <3>1. i \in DOMAIN s /\ i + 1 \in DOMAIN s /\ i \in 1..(n - 1)
      BY <1>1, <2>1, <2>2
    <3> QED BY <1>2, <3>1 DEF Chained, n
  <2>3. CASE i = n
    <3>1. i \in DOMAIN s /\ 1 \in DOMAIN t /\ s # <<>> /\ t # <<>>
      BY <1>1, <1>3, <1>4, <2>1, <2>3
    <3>2. w[i] = s[n] /\ w[i + 1] = t[1]
      BY <1>2, <2>3, <3>1
    <3> QED BY <3>1, <3>2 DEF n
  <2>4. CASE i > n
    <3> DEFINE j == i - n
    <3>1. j \in 1..(Len(t) - 1) /\ j \in DOMAIN t /\ j + 1 \in DOMAIN t /\ n + j = i /\ n + (j + 1) = i + 1
      BY <1>1, <2>1, <2>4
    <3> HIDE DEF j
    <3>2. w[i] = t[j] /\ w[i + 1] = t[j + 1]
      BY <1>2, <3>1
    <3> QED BY <3>1, <3>2 DEF Chained
  <2> QED BY <1>1, <2>1, <2>2, <2>3, <2>4
<1> QED BY <1>5 DEF Chained, w

\* What is left of a list of calls from one of them on.
LEMMA RestFacts ==
  ASSUME NEW s \in Seq(Task), NEW k \in DOMAIN s
  PROVE  LET w == SubSeq(s, k, Len(s))
         IN  /\ w \in Seq(Task) /\ Len(w) = Len(s) - k + 1 /\ w # <<>>
             /\ \A i \in DOMAIN w : k + i - 1 \in DOMAIN s /\ w[i] = s[k + i - 1]
             /\ \A i \in DOMAIN s : i >= k => i - k + 1 \in DOMAIN w /\ w[i - k + 1] = s[i]
             /\ Ordered(s) => Ordered(w)
<1> DEFINE w == SubSeq(s, k, Len(s))
           n == Len(s)
<1>1. n \in Nat /\ DOMAIN s = 1..n /\ k \in 1..n
  OBVIOUS
<1>2. w \in Seq(Task) /\ Len(w) = n - k + 1 /\ DOMAIN w = 1..(n - k + 1)
  BY <1>1
<1>3. \A i \in 1..(n - k + 1) : w[i] = s[k + i - 1]
  BY <1>1
<1> HIDE DEF w
<1>4. w # <<>> /\ s # <<>>
  BY <1>1, <1>2, EmptyFacts
<1> HIDE DEF n
<1>5. ASSUME NEW i \in DOMAIN w PROVE k + i - 1 \in DOMAIN s /\ w[i] = s[k + i - 1]
  <2>1. i \in 1..(n - k + 1)
    BY <1>2
  <2> QED BY <1>1, <1>3, <2>1
<1>6. ASSUME NEW i \in DOMAIN s, i >= k PROVE i - k + 1 \in DOMAIN w /\ w[i - k + 1] = s[i]
  <2>1. i - k + 1 \in 1..(n - k + 1) /\ k + (i - k + 1) - 1 = i
    BY <1>1, <1>6
  <2> QED BY <1>2, <1>3, <2>1
<1>7. ASSUME Ordered(s) PROVE Ordered(w)
  <2>1. Chained(s) /\ s[n][1] \in Finals
    BY <1>4, <1>7 DEF Ordered, n
  <2>2. ASSUME NEW i \in 1..(Len(w) - 1) PROVE Linked(w[i], w[i + 1])
    <3>1. i \in 1..(n - k + 1) /\ i + 1 \in 1..(n - k + 1) /\ k + i - 1 \in 1..(n - 1)
          /\ k + (i + 1) - 1 = (k + i - 1) + 1
      BY <1>1, <1>2
    <3>2. w[i] = s[k + i - 1] /\ w[i + 1] = s[(k + i - 1) + 1]
      BY <1>3, <3>1
    <3> QED BY <2>1, <3>1, <3>2 DEF Chained, n
  <2>3. w[Len(w)] = s[n]
    <3>1. n - k + 1 \in 1..(n - k + 1) /\ k + (n - k + 1) - 1 = n
      BY <1>1
    <3> QED BY <1>2, <1>3, <3>1
  <2> QED BY <2>1, <2>2, <2>3 DEF Ordered, Chained
<1> QED BY <1>2, <1>4, <1>5, <1>6, <1>7 DEF w, n

\* A call is replaced by the calls that it decided on.
NewTodo(calls) == For(Hostname, calls) \o Tail(op.todo)

LEMMA Continuation ==
  ASSUME op.todo \in Seq(Task), op.todo # <<>>, Ordered(op.todo), NEW calls \in Seq(Call),
         calls # <<>> =>
           /\ \A i \in 1..(Len(calls) - 1) : Follows(calls[i], calls[i + 1]) /\ calls[i] # "check"
           /\ Len(op.todo) > 1 /\ Linked(<<calls[Len(calls)], Hostname>>, op.todo[2])
  PROVE  /\ NewTodo(calls) \in Seq(Task) /\ Ordered(NewTodo(calls))
         /\ Len(NewTodo(calls)) = Len(calls) + Len(op.todo) - 1
         /\ \A i \in DOMAIN calls : i \in DOMAIN NewTodo(calls) /\ NewTodo(calls)[i] = <<calls[i], Hostname>>
         /\ \A i \in DOMAIN op.todo : i > 1 => /\ Len(calls) + i - 1 \in DOMAIN NewTodo(calls)
                                               /\ NewTodo(calls)[Len(calls) + i - 1] = op.todo[i]
         /\ \A i \in DOMAIN NewTodo(calls) : \/ \E j \in DOMAIN calls : NewTodo(calls)[i] = <<calls[j], Hostname>>
                                             \/ \E j \in DOMAIN op.todo : j > 1 /\ NewTodo(calls)[i] = op.todo[j]
<1> DEFINE s == For(Hostname, calls)
           t == Tail(op.todo)
           w == s \o t
           n == Len(op.todo)
<1>1. /\ n \in Nat \ {0} /\ DOMAIN op.todo = 1..n /\ t \in Seq(Task) /\ Len(t) = n - 1
      /\ DOMAIN t = 1..(n - 1) /\ \A i \in 1..(n - 1) : t[i] = op.todo[i + 1]
  OBVIOUS
<1>2. Hostname \in Host \cup {Absent} /\ 1 \in DOMAIN op.todo
  BY DEF Hostname, Task
<1>3. s \in Seq(Task) /\ Len(s) = Len(calls) /\ \A i \in DOMAIN calls : s[i] = <<calls[i], Hostname>>
  BY <1>2, ForFacts
<1>4. Len(calls) \in Nat /\ DOMAIN calls = 1..Len(calls)
      /\ (calls # <<>> <=> Len(calls) # 0) /\ DOMAIN s = 1..Len(s)
      /\ (s # <<>> <=> Len(s) # 0) /\ (t # <<>> <=> Len(t) # 0)
  <2>1. Len(calls) \in Nat /\ DOMAIN calls = 1..Len(calls) /\ (calls # <<>> <=> Len(calls) # 0)
    OBVIOUS
  <2> HIDE DEF s, t
  <2> QED BY <1>3, <1>1, <2>1, EmptyFacts
<1> HIDE DEF s, t, n
<1>5. Chained(t) /\ (t # <<>> => t[Len(t)][1] \in Finals)
  <2>1. ASSUME NEW i \in 1..(Len(t) - 1) PROVE Linked(t[i], t[i + 1])
    <3>1. i \in 1..(n - 1) /\ i + 1 \in 1..(n - 1) /\ i + 1 \in 1..(Len(op.todo) - 1)
      BY <1>1 DEF n
    <3>2. t[i] = op.todo[i + 1] /\ t[i + 1] = op.todo[(i + 1) + 1]
      BY <1>1, <3>1
    <3> QED BY <3>1, <3>2 DEF Ordered, Chained
  <2>2. t # <<>> => t[Len(t)] = op.todo[n]
    <3>1. t # <<>> => n - 1 \in 1..(n - 1) /\ (n - 1) + 1 = n
      BY <1>1, <1>4
    <3> QED BY <1>1, <3>1
  <2> QED BY <2>1, <2>2 DEF Chained, Ordered, n
<1>6. Chained(s)
  <2>1. ASSUME NEW i \in 1..(Len(s) - 1) PROVE Linked(s[i], s[i + 1])
    <3>1. i \in DOMAIN calls /\ i + 1 \in DOMAIN calls /\ i \in 1..(Len(calls) - 1) /\ calls # <<>>
      BY <1>3, <1>4
    <3>2. s[i] = <<calls[i], Hostname>> /\ s[i + 1] = <<calls[i + 1], Hostname>>
      BY <1>3, <3>1
    <3> QED BY <3>1, <3>2 DEF Linked
  <2> QED BY <2>1 DEF Chained
<1>7. s # <<>> /\ t # <<>> => Linked(s[Len(s)], t[1])
  <2>1. SUFFICES ASSUME s # <<>>, t # <<>> PROVE Linked(s[Len(s)], t[1])
    OBVIOUS
  <2>2. calls # <<>> /\ Len(calls) \in DOMAIN calls /\ 1 \in 1..(n - 1)
    BY <1>1, <1>3, <1>4, <2>1
  <2>3. s[Len(s)] = <<calls[Len(calls)], Hostname>> /\ t[1] = op.todo[2]
    BY <1>1, <1>3, <2>2
  <2> QED BY <2>2, <2>3
<1>8. Chained(w)
  BY <1>1, <1>3, <1>5, <1>6, <1>7, JoinChained
<1>9. /\ w \in Seq(Task) /\ Len(w) = Len(s) + Len(t)
      /\ \A i \in DOMAIN w : \/ i \in DOMAIN s /\ w[i] = s[i]
                             \/ i - Len(s) \in DOMAIN t /\ w[i] = t[i - Len(s)]
      /\ \A i \in DOMAIN s : i \in DOMAIN w /\ w[i] = s[i]
      /\ \A i \in DOMAIN t : Len(s) + i \in DOMAIN w /\ w[Len(s) + i] = t[i]
      /\ t # <<>> => w[Len(w)] = t[Len(t)]
      /\ s = <<>> /\ t = <<>> => w = <<>>
  <2>1. s \in Seq(Task) /\ t \in Seq(Task)
    BY <1>1, <1>3
  <2> HIDE DEF w, s, t
  <2>2. w \in Seq(Task) /\ Len(w) = Len(s) + Len(t)
    BY <2>1 DEF w
  <2>3. \A i \in DOMAIN w : \/ i \in DOMAIN s /\ w[i] = s[i]
                            \/ i - Len(s) \in DOMAIN t /\ w[i] = t[i - Len(s)]
    BY <2>1 DEF w
  <2>4. \A i \in DOMAIN s : i \in DOMAIN w /\ w[i] = s[i]
    BY <2>1 DEF w
  <2>5. \A i \in DOMAIN t : Len(s) + i \in DOMAIN w /\ w[Len(s) + i] = t[i]
    BY <2>1 DEF w
  <2>6. (t # <<>> => w[Len(w)] = t[Len(t)]) /\ (s = <<>> => w = t)
    BY <2>1 DEF w
  <2> QED BY <2>2, <2>3, <2>4, <2>5, <2>6
<1> HIDE DEF w
<1>10. Ordered(w)
  <2>1. w # <<>> => t # <<>>
    <3>1. t = <<>> => s = <<>>
      BY <1>1, <1>3, <1>4 DEF n
    <3> QED BY <1>9, <3>1
  <2> QED BY <1>5, <1>8, <1>9, <2>1 DEF Ordered
<1>11. \A i \in DOMAIN calls : i \in DOMAIN w /\ w[i] = <<calls[i], Hostname>>
  BY <1>3, <1>4, <1>9
<1>12. ASSUME NEW i \in DOMAIN op.todo, i > 1
       PROVE  Len(calls) + i - 1 \in DOMAIN w /\ w[Len(calls) + i - 1] = op.todo[i]
  <2>1. i - 1 \in 1..(n - 1) /\ (i - 1) + 1 = i /\ Len(s) + (i - 1) = Len(calls) + i - 1
    BY <1>1, <1>3, <1>4, <1>12
  <2>2. i - 1 \in DOMAIN t /\ t[i - 1] = op.todo[i]
    BY <1>1, <2>1
  <2>3. Len(s) + (i - 1) \in DOMAIN w /\ w[Len(s) + (i - 1)] = t[i - 1]
    BY <1>9, <2>2
  <2> QED BY <2>1, <2>2, <2>3
<1>13. ASSUME NEW i \in DOMAIN w
       PROVE  \/ \E j \in DOMAIN calls : w[i] = <<calls[j], Hostname>>
              \/ \E j \in DOMAIN op.todo : j > 1 /\ w[i] = op.todo[j]
  <2>1. CASE i \in DOMAIN s /\ w[i] = s[i]
    <3>1. i \in DOMAIN calls
      BY <1>3, <1>4, <2>1
    <3> QED BY <1>3, <2>1, <3>1
  <2>2. CASE i - Len(s) \in DOMAIN t /\ w[i] = t[i - Len(s)]
    <3> DEFINE j == i - Len(s)
    <3>1. j \in 1..(n - 1) /\ w[i] = t[j]
      BY <1>1, <2>2
    <3> HIDE DEF j
    <3>2. j + 1 \in DOMAIN op.todo /\ j + 1 > 1
      BY <1>1, <3>1
    <3>3. t[j] = op.todo[j + 1]
      BY <1>1, <3>1
    <3> QED BY <3>1, <3>2, <3>3
  <2> QED BY <1>9, <2>1, <2>2
<1>14. Len(w) = Len(calls) + n - 1
  BY <1>1, <1>3, <1>4, <1>9
<1> QED BY <1>9, <1>10, <1>11, <1>12, <1>13, <1>14 DEF NewTodo, w, s, t, n

\* What a command may still have to call.
Possible(p, inv, do, t) ==
  /\ t[2] = Absent => t[1] \in {"dump", "advertise"}
  /\ p = "caddy" => t[1] \notin TraefikCalls
  /\ p = "traefik" => t[1] \notin CaddyCalls
  /\ do = "publish" => t[1] \notin Removal \cup {"advertise"}
  /\ do = "remove" => t[1] \notin Publication \cup {"advertise"}
  /\ do \in {"sync", "redirect"} =>
       /\ t[1] \notin Removal \cup {"save"}
       /\ t[2] # Absent => inv[t[2]] # Absent
  /\ do = "redirect" => t[1] # "advertise"

CommandOK(o, p, inv) ==
  /\ o \in Op /\ Ordered(o.todo)
  /\ \A i \in DOMAIN o.todo : Possible(p, inv, o.do, o.todo[i])
  /\ o.todo = <<>> => o = NoOp
  /\ o.todo # <<>> => o.do # "none"
  /\ o.do = "publish" => o.want \in Request
  /\ o.do = "remove" => o.want = Absent /\ o.done = {}
  /\ o.do # "sync" => o.verified = {}

OpOK == CommandOK(op, proxy, inventory)

\* Routes out of srv0 are put into srv_https by the next call.
MovingOK == op.moving => op.todo # <<>> /\ op.todo[1][1] \in {"https", "create-https"}

RestOK == /\ traefik \in TraefikType /\ trust \in TrustType
          /\ proxy \in {"caddy", "traefik"}
          /\ inventory \in [Host -> Request \cup {Absent}] /\ redirecting \in BOOLEAN
          /\ dump \in [open : BOOLEAN, hosts : SUBSET Host] /\ kept \subseteq Host
          /\ count \in [DOMAIN Bound -> Nat]

LEMMA OpType ==
  /\ Op = [do : {"none", "publish", "remove", "sync", "redirect"},
           todo : Seq(Task), want : Request \cup {Absent},
           done : SUBSET Host, torn : BOOLEAN, moving : BOOLEAN,
           verified : SUBSET Host, stale : SUBSET Host]
  /\ NoOp \in Op /\ NoOp.todo = <<>> /\ NoOp.do = "none" /\ NoOp.done = {} /\ NoOp.verified = {}
  /\ ~NoOp.torn /\ ~NoOp.moving /\ NoOp.stale = {} /\ NoOp.want = Absent
<1> DEFINE R == Seq(Task)
<1>1. Op = [do : {"none", "publish", "remove", "sync", "redirect"},
            todo : R, want : Request \cup {Absent},
            done : SUBSET Host, torn : BOOLEAN, moving : BOOLEAN,
            verified : SUBSET Host, stale : SUBSET Host]
  BY DEF Op, Task
<1>2. <<>> \in R
  OBVIOUS
<1> HIDE DEF R
<1> QED BY <1>1, <1>2 DEF NoOp, R

LEMMA NoCommand == ASSUME NEW p, NEW inv PROVE CommandOK(NoOp, p, inv)
BY OpType DEF CommandOK, Ordered, NoOp

\* The call that a command makes next, and what is known of the one after it.
LEMMA NextCall ==
  ASSUME OpOK, op.todo # <<>>
  PROVE  /\ op.todo \in Seq(Task) /\ 1 \in DOMAIN op.todo /\ Ordered(op.todo)
         /\ \A call : Calling(call) <=> op.todo[1][1] = call
         /\ Hostname = op.todo[1][2] /\ op.todo[1] \in Task /\ op.todo[1] = <<op.todo[1][1], Hostname>>
         /\ op.todo[1][1] \in Call /\ Hostname \in Host \cup {Absent}
         /\ Possible(proxy, inventory, op.do, op.todo[1])
         /\ op.todo[1][1] \notin {"dump", "advertise"} => Hostname \in Host
         /\ op.do \in {"publish", "remove", "sync", "redirect"}
         /\ \/ Len(op.todo) = 1 /\ op.todo[1][1] \in Finals
            \/ Len(op.todo) > 1 /\ 2 \in DOMAIN op.todo /\ Linked(op.todo[1], op.todo[2]) /\ op.todo[2] \in Task
<1> DEFINE n == Len(op.todo)
<1>1. op.todo \in Seq(Task) /\ op.do \in {"none", "publish", "remove", "sync", "redirect"}
  BY OpType DEF OpOK, CommandOK
<1>2. n \in Nat /\ DOMAIN op.todo = 1..n /\ n # 0
  BY <1>1, EmptyFacts
<1>3. 1 \in DOMAIN op.todo /\ Head(op.todo) = op.todo[1]
  BY <1>1, <1>2
<1>4. op.todo[1] \in Task
  BY <1>1, <1>3
<1>5. op.todo[1] = <<op.todo[1][1], op.todo[1][2]>>
      /\ op.todo[1][1] \in Call /\ op.todo[1][2] \in Host \cup {Absent}
  BY <1>4 DEF Task
<1>6. Ordered(op.todo) /\ Chained(op.todo) /\ op.todo[n][1] \in Finals
  BY DEF OpOK, CommandOK, Ordered
<1>7. n # 1 => n > 1 /\ 2 \in DOMAIN op.todo /\ op.todo[2] \in Task /\ Linked(op.todo[1], op.todo[1 + 1])
  <2>1. SUFFICES ASSUME n # 1 PROVE n > 1 /\ 2 \in DOMAIN op.todo /\ op.todo[2] \in Task /\ 1 \in 1..(n - 1)
    BY <1>6 DEF Chained
  <2>2. n > 1 /\ 2 \in DOMAIN op.todo /\ 1 \in 1..(n - 1)
    <3> HIDE DEF n
    <3> QED BY <1>2, <2>1
  <2> QED BY <1>1, <2>2
<1>8. Possible(proxy, inventory, op.do, op.todo[1]) /\ op.do # "none"
  BY <1>3 DEF OpOK, CommandOK
<1>9. \A call : Calling(call) <=> op.todo[1][1] = call
  BY <1>3 DEF Calling
<1>10. op.todo[1][1] \notin {"dump", "advertise"} => op.todo[1][2] \in Host
  BY <1>5, <1>8 DEF Possible
<1>11. n = 1 \/ (n > 1 /\ 2 \in DOMAIN op.todo /\ Linked(op.todo[1], op.todo[2]) /\ op.todo[2] \in Task)
  BY <1>7
<1>12. n = 1 => op.todo[1][1] \in Finals
  BY <1>6
<1>13. Hostname = op.todo[1][2]
  BY <1>3 DEF Hostname
<1> QED BY <1>1, <1>3, <1>4, <1>5, <1>6, <1>8, <1>9, <1>10, <1>11, <1>12, <1>13

\* The call after the next one.
LEMMA ThirdCall ==
  ASSUME OpOK, op.todo # <<>>, Len(op.todo) > 1, op.todo[2][1] \notin Finals
  PROVE  3 \in DOMAIN op.todo /\ op.todo[3] \in Task /\ Linked(op.todo[2], op.todo[3])
<1> DEFINE n == Len(op.todo)
<1>1. op.todo \in Seq(Task)
  BY OpType DEF OpOK, CommandOK
<1>2. n \in Nat /\ DOMAIN op.todo = 1..n /\ n > 1
  BY <1>1, EmptyFacts
<1>3. Chained(op.todo) /\ op.todo[n][1] \in Finals
  BY DEF OpOK, CommandOK, Ordered
<1>4. n # 2
  BY <1>3
<1>5. 3 \in DOMAIN op.todo /\ 2 \in 1..(n - 1)
  <2> HIDE DEF n
  <2> QED BY <1>2, <1>4
<1>6. Linked(op.todo[2], op.todo[2 + 1])
  BY <1>3, <1>5 DEF Chained
<1> QED BY <1>1, <1>5, <1>6

\* The hostname and the request of a call that publishes.
LEMMA WantedFacts ==
  ASSUME RestOK, OpOK, op.todo # <<>>, op.todo[1][1] \in Publication
  PROVE  Hostname \in Host /\ Wanted(Hostname) \in Request
<1>1. Hostname \in Host /\ Possible(proxy, inventory, op.do, op.todo[1]) /\ Hostname = op.todo[1][2]
      /\ op.do \in {"publish", "remove", "sync", "redirect"}
  BY NextCall DEF Publication
<1>2. Hostname # Absent
  BY <1>1 DEF Possible, Publication
<1>3. inventory[Hostname] \in Request \cup {Absent} /\ (op.do = "publish" => op.want \in Request)
  BY <1>1 DEF RestOK, OpOK, CommandOK
<1>4. op.do # "publish" => inventory[Hostname] # Absent
  BY <1>1, <1>2 DEF Possible, Publication
<1> QED BY <1>1, <1>3, <1>4 DEF Wanted

\* A command goes on, with the calls that the last one decided on.
LEMMA AfterFacts ==
  ASSUME OpOK, op.todo # <<>>, NEW calls \in Seq(Call),
         calls # <<>> =>
           /\ \A i \in 1..(Len(calls) - 1) : Follows(calls[i], calls[i + 1]) /\ calls[i] # "check"
           /\ Len(op.todo) > 1 /\ Linked(<<calls[Len(calls)], Hostname>>, op.todo[2]),
         \A i \in DOMAIN calls : Possible(proxy, inventory, op.do, <<calls[i], Hostname>>)
  PROVE  /\ CommandOK(After(calls), proxy, inventory)
         /\ After(calls).todo = NewTodo(calls) /\ NewTodo(calls) \in Seq(Task)
         /\ Len(NewTodo(calls)) = Len(calls) + Len(op.todo) - 1
         /\ \A i \in DOMAIN calls : i \in DOMAIN NewTodo(calls) /\ NewTodo(calls)[i] = <<calls[i], Hostname>>
         /\ \A i \in DOMAIN op.todo : i > 1 => /\ Len(calls) + i - 1 \in DOMAIN NewTodo(calls)
                                               /\ NewTodo(calls)[Len(calls) + i - 1] = op.todo[i]
         /\ \A i \in DOMAIN NewTodo(calls) : \/ \E j \in DOMAIN calls : NewTodo(calls)[i] = <<calls[j], Hostname>>
                                             \/ \E j \in DOMAIN op.todo : j > 1 /\ NewTodo(calls)[i] = op.todo[j]
         /\ Len(op.todo) > 1 => After(calls) = [op EXCEPT !.todo = NewTodo(calls)] /\ NewTodo(calls) # <<>>
         /\ Len(op.todo) = 1 => After(calls) = NoOp
<1> DEFINE w == NewTodo(calls)
           n == Len(op.todo)
<1>1. op.todo \in Seq(Task) /\ Ordered(op.todo) /\ op \in Op
  BY OpType DEF OpOK, CommandOK
<1>2. /\ w \in Seq(Task) /\ Ordered(w) /\ Len(w) = Len(calls) + n - 1
      /\ \A i \in DOMAIN calls : i \in DOMAIN w /\ w[i] = <<calls[i], Hostname>>
      /\ \A i \in DOMAIN op.todo : i > 1 => Len(calls) + i - 1 \in DOMAIN w /\ w[Len(calls) + i - 1] = op.todo[i]
      /\ \A i \in DOMAIN w : \/ \E j \in DOMAIN calls : w[i] = <<calls[j], Hostname>>
                             \/ \E j \in DOMAIN op.todo : j > 1 /\ w[i] = op.todo[j]
  BY <1>1, Continuation
<1>3. After(calls) = IF w = <<>> THEN NoOp ELSE [op EXCEPT !.todo = w]
  BY DEF After, NewTodo
<1> HIDE DEF w
<1>4. n \in Nat /\ n # 0 /\ (w = <<>> <=> Len(w) = 0) /\ Len(w) \in Nat
  BY <1>1, <1>2, EmptyFacts
<1>5. Len(calls) \in Nat /\ (calls # <<>> <=> Len(calls) # 0)
  OBVIOUS
<1>6. (w = <<>> <=> n = 1)
  <2>1. calls # <<>> => n > 1
    OBVIOUS
  <2>2. Len(w) = Len(calls) + n - 1
    BY <1>2
  <2> HIDE DEF n
  <2> QED BY <1>4, <1>5, <2>1, <2>2
<1>7. n > 1 => After(calls) = [op EXCEPT !.todo = w] /\ w # <<>>
  <2> HIDE DEF n
  <2> QED BY <1>3, <1>4, <1>6
<1>8. n = 1 => After(calls) = NoOp /\ w = <<>>
  BY <1>3, <1>6
<1>9. After(calls).todo = w
  <2> DEFINE R == Seq(Task)
  <2>1. op \in [do : {"none", "publish", "remove", "sync", "redirect"},
                todo : R, want : Request \cup {Absent},
                done : SUBSET Host, torn : BOOLEAN, moving : BOOLEAN,
                verified : SUBSET Host, stale : SUBSET Host]
    BY <1>1, OpType
  <2> HIDE DEF R
  <2> QED BY <1>3, <2>1, OpType
<1>10. CommandOK(After(calls), proxy, inventory)
  <2>1. CASE n = 1
    BY <1>8, <2>1, NoCommand
  <2>2. CASE n # 1
    <3> DEFINE o == [op EXCEPT !.todo = w]
               R == Seq(Task)
    <3>1. After(calls) = o /\ w # <<>>
      <4>1. n > 1
        <5> HIDE DEF n
        <5> QED BY <1>4, <2>2
      <4> QED BY <1>7, <4>1
    <3>2. op \in [do : {"none", "publish", "remove", "sync", "redirect"},
                  todo : R, want : Request \cup {Absent},
                  done : SUBSET Host, torn : BOOLEAN, moving : BOOLEAN,
                  verified : SUBSET Host, stale : SUBSET Host]
      BY <1>1, OpType
    <3>3. w \in R
      BY <1>2
    <3> HIDE DEF R
    <3>4. /\ o.todo = w /\ o.do = op.do /\ o.want = op.want /\ o.done = op.done /\ o.verified = op.verified
          /\ o \in [do : {"none", "publish", "remove", "sync", "redirect"},
                    todo : R, want : Request \cup {Absent},
                    done : SUBSET Host, torn : BOOLEAN, moving : BOOLEAN,
                    verified : SUBSET Host, stale : SUBSET Host]
      BY <3>2, <3>3
    <3>5. o \in Op
      BY <3>4, OpType DEF R
    <3>6. \A i \in DOMAIN op.todo : Possible(proxy, inventory, op.do, op.todo[i])
      BY DEF OpOK, CommandOK
    <3>7. \A i \in DOMAIN w : Possible(proxy, inventory, op.do, w[i])
      BY <1>2, <3>6
    <3>8. /\ op.do # "none" /\ (op.do = "publish" => op.want \in Request)
          /\ (op.do = "remove" => op.want = Absent /\ op.done = {}) /\ (op.do # "sync" => op.verified = {})
      BY DEF OpOK, CommandOK
    <3> HIDE DEF o
    <3> QED BY <1>2, <3>1, <3>4, <3>5, <3>7, <3>8 DEF CommandOK
  <2> QED BY <2>1, <2>2
<1> QED BY <1>2, <1>7, <1>8, <1>9, <1>10 DEF w, n

\* The calls that may take the place of the next one.
Admissible(calls) ==
  /\ calls \in Seq(Call)
  /\ calls # <<>> =>
       /\ \A i \in 1..(Len(calls) - 1) : Follows(calls[i], calls[i + 1]) /\ calls[i] # "check"
       /\ Len(op.todo) > 1 /\ Linked(<<calls[Len(calls)], Hostname>>, op.todo[2])
  /\ \A i \in DOMAIN calls : Possible(proxy, inventory, op.do, <<calls[i], Hostname>>)

LEMMA AdmissibleNone == Admissible(<<>>)
<1>1. <<>> \in Seq(Call) /\ DOMAIN <<>> = {}
  OBVIOUS
<1> QED BY <1>1 DEF Admissible

LEMMA AdmissibleOne ==
  ASSUME NEW a \in Call, Len(op.todo) > 1, Linked(<<a, Hostname>>, op.todo[2]),
         Possible(proxy, inventory, op.do, <<a, Hostname>>)
  PROVE  Admissible(<<a>>)
<1> DEFINE s == <<a>>
<1>1. s \in Seq(Call) /\ Len(s) = 1 /\ DOMAIN s = {1} /\ s[1] = a
  OBVIOUS
<1> HIDE DEF s
<1>2. 1..(Len(s) - 1) = {}
  BY <1>1
<1> QED BY <1>1, <1>2 DEF Admissible, s

LEMMA AdmissibleTwo ==
  ASSUME NEW a \in Call, NEW b \in Call, Len(op.todo) > 1, Follows(a, b), a # "check",
         Linked(<<b, Hostname>>, op.todo[2]),
         Possible(proxy, inventory, op.do, <<a, Hostname>>), Possible(proxy, inventory, op.do, <<b, Hostname>>)
  PROVE  Admissible(<<a, b>>)
<1> DEFINE s == <<a, b>>
<1>1. s \in Seq(Call) /\ Len(s) = 2 /\ DOMAIN s = {1, 2} /\ s[1] = a /\ s[2] = b
  OBVIOUS
<1> HIDE DEF s
<1>2. 1..(Len(s) - 1) = {1}
  BY <1>1
<1> QED BY <1>1, <1>2 DEF Admissible, s

LEMMA AdmissibleThree ==
  ASSUME NEW a \in Call, NEW b \in Call, NEW c \in Call, Len(op.todo) > 1,
         Follows(a, b), a # "check", Follows(b, c), b # "check", Linked(<<c, Hostname>>, op.todo[2]),
         \A x \in {a, b, c} : Possible(proxy, inventory, op.do, <<x, Hostname>>)
  PROVE  Admissible(<<a, b, c>>)
<1> DEFINE s == <<a, b, c>>
<1>1. s \in Seq(Call) /\ Len(s) = 3 /\ DOMAIN s = {1, 2, 3} /\ s[1] = a /\ s[2] = b /\ s[3] = c
  OBVIOUS
<1> HIDE DEF s
<1>2. 1..(Len(s) - 1) = {1, 2}
  BY <1>1
<1> QED BY <1>1, <1>2 DEF Admissible, s

LEMMA AdmissibleFour ==
  ASSUME NEW a \in Call, NEW b \in Call, NEW c \in Call, NEW d \in Call, Len(op.todo) > 1,
         Follows(a, b), a # "check", Follows(b, c), b # "check", Follows(c, d), c # "check",
         Linked(<<d, Hostname>>, op.todo[2]),
         \A x \in {a, b, c, d} : Possible(proxy, inventory, op.do, <<x, Hostname>>)
  PROVE  Admissible(<<a, b, c, d>>)
<1> DEFINE s == <<a, b, c, d>>
<1>1. /\ s \in Seq(Call) /\ Len(s) = 4 /\ DOMAIN s = {1, 2, 3, 4}
      /\ s[1] = a /\ s[2] = b /\ s[3] = c /\ s[4] = d
  OBVIOUS
<1> HIDE DEF s
<1>2. 1..(Len(s) - 1) = {1, 2, 3}
  BY <1>1
<1> QED BY <1>1, <1>2 DEF Admissible, s

LEMMA FourConcat ==
  ASSUME NEW C, NEW a \in C, NEW b \in C, NEW c \in C, NEW d \in C
  PROVE  <<a>> \o <<b, c, d>> = <<a, b, c, d>>
<1> DEFINE t == <<b, c, d>>
           u == <<a>>
           w == u \o t
           z == <<a, b, c, d>>
<1>1. t \in Seq(C) /\ Len(t) = 3 /\ t[1] = b /\ t[2] = c /\ t[3] = d
  OBVIOUS
<1>2. u \in Seq(C) /\ Len(u) = 1 /\ u[1] = a
  OBVIOUS
<1>3. \A p, q \in Seq(C) :
        /\ p \o q \in Seq(C) /\ Len(p \o q) = Len(p) + Len(q)
        /\ \A i \in 1..Len(p) : (p \o q)[i] = p[i]
        /\ \A i \in 1..Len(q) : (p \o q)[Len(p) + i] = q[i]
  OBVIOUS
<1> HIDE DEF t, u
<1>4. /\ w \in Seq(C) /\ Len(w) = 1 + 3 /\ \A i \in 1..1 : w[i] = u[i]
      /\ \A i \in 1..3 : w[1 + i] = t[i]
  <2>1. /\ u \o t \in Seq(C) /\ Len(u \o t) = Len(u) + Len(t)
        /\ \A i \in 1..Len(u) : (u \o t)[i] = u[i]
        /\ \A i \in 1..Len(t) : (u \o t)[Len(u) + i] = t[i]
    BY <1>1, <1>2, <1>3
  <2> QED BY <1>1, <1>2, <2>1
<1> HIDE DEF w
<1>5. w[1] = a /\ w[1 + 1] = b /\ w[1 + 2] = c /\ w[1 + 3] = d
  BY <1>1, <1>2, <1>4
<1>6. z \in Seq(C) /\ Len(z) = 4 /\ z[1] = a /\ z[2] = b /\ z[3] = c /\ z[4] = d
  OBVIOUS
<1> HIDE DEF w, z
<1>7. \A i \in 1..4 : w[i] = z[i]
  BY <1>5, <1>6
<1>8. w = z
  BY <1>4, <1>6, <1>7
<1> QED BY <1>8 DEF w, z, t, u

\* What ensureServers finds to do.
LEMMA EnsureShape ==
  ASSUME CaddyOK
  PROVE  LET c == caddy.live
             place == IF c.http.up THEN "http" ELSE "create-http"
         IN  /\ c.srv0 = <<>> =>
                  \/ c.https.up /\ c.https.listen /\ EnsureCalls \in {<<>>, <<"create-http">>}
                  \/ c.https.up /\ ~c.https.listen /\ EnsureCalls \in {<<"listen">>, <<"listen", "create-http">>}
                  \/ ~c.https.up /\ EnsureCalls \in {<<"create-https">>, <<"create-https", "create-http">>}
             /\ c.srv0 # <<>> =>
                  \/ c.https.up /\ c.https.listen /\ EnsureCalls = <<"drop-srv0", "https", place>>
                  \/ c.https.up /\ ~c.https.listen /\ EnsureCalls = <<"listen", "drop-srv0", "https", place>>
                  \/ ~c.https.up /\ EnsureCalls = <<"drop-srv0", "create-https", place>>
<1> DEFINE c == caddy.live
           C == {"listen", "drop-srv0", "https", "http", "create-https", "create-http"}
           place(server) == IF c[server].up THEN <<server>> ELSE <<Creation(server)>>
           L == IF c.https.up /\ ~c.https.listen THEN <<"listen">> ELSE <<>>
           M == IF c.srv0 # <<>> THEN <<"drop-srv0">> \o place("https") \o place("http")
                ELSE Missing("https") \o Missing("http")
<1>1. EnsureCalls = L \o M
  BY DEF EnsureCalls
<1>2. /\ place("https") = IF c.https.up THEN <<"https">> ELSE <<"create-https">>
      /\ place("http") = IF c.http.up THEN <<"http">> ELSE <<"create-http">>
      /\ Missing("https") = IF c.https.up THEN <<>> ELSE <<"create-https">>
      /\ Missing("http") = IF c.http.up THEN <<>> ELSE <<"create-http">>
  BY DEF Creation, Missing
<1>3. \A a, b \in C : <<a>> \o <<b>> = <<a, b>>
  <2> HIDE DEF C
  <2> QED BY PairConcat
<1>4. \A a, b, d \in C : <<a, b>> \o <<d>> = <<a, b, d>>
  <2> HIDE DEF C
  <2> QED BY TripleConcat
<1>5. \A a, b, d, e \in C : <<a>> \o <<b, d, e>> = <<a, b, d, e>>
  <2> HIDE DEF C
  <2> QED BY FourConcat
<1>6. \A a \in C : <<>> \o <<a>> = <<a>> /\ <<a>> \o <<>> = <<a>>
  OBVIOUS
<1>7. \A a, b, d \in C : <<>> \o <<a, b>> = <<a, b>> /\ <<>> \o <<a, b, d>> = <<a, b, d>>
  OBVIOUS
<1>8. <<>> \o <<>> = <<>>
  OBVIOUS
<1>9. CASE c.srv0 = <<>>
  <2>1. M = Missing("https") \o Missing("http")
    BY <1>9
  <2>2. M = IF c.https.up THEN (IF c.http.up THEN <<>> ELSE <<"create-http">>)
            ELSE (IF c.http.up THEN <<"create-https">> ELSE <<"create-https", "create-http">>)
    BY <1>2, <1>3, <1>6, <1>8, <2>1
  <2> HIDE DEF M
  <2> QED BY <1>1, <1>3, <1>6, <1>7, <1>8, <1>9, <2>2
<1>10. CASE c.srv0 # <<>>
  <2>1. M = <<"drop-srv0">> \o place("https") \o place("http")
    BY <1>10
  <2> DEFINE a == IF c.https.up THEN "https" ELSE "create-https"
             b == IF c.http.up THEN "http" ELSE "create-http"
  <2>2. place("https") = <<a>> /\ place("http") = <<b>> /\ a \in C /\ b \in C
        /\ "drop-srv0" \in C /\ "listen" \in C
    BY <1>2
  <2> HIDE DEF a, b, place
  <2> DEFINE d == "drop-srv0"
             l == "listen"
  <2>3. d \in C /\ l \in C
    OBVIOUS
  <2>4. M = <<d>> \o <<a>> \o <<b>> /\ (L = <<>> \/ L = <<l>>)
    BY <2>1, <2>2
  <2> HIDE DEF d, l, M, L, C
  <2>5. <<d>> \o <<a>> = <<d, a>>
    BY <1>3, <2>2, <2>3
  <2>6. <<d, a>> \o <<b>> = <<d, a, b>>
    BY <1>4, <2>2, <2>3
  <2>7. <<l>> \o <<d, a, b>> = <<l, d, a, b>>
    BY <1>5, <2>2, <2>3
  <2>8. <<>> \o <<d, a, b>> = <<d, a, b>>
    BY <1>7, <2>2, <2>3
  <2>9. M = <<d, a, b>>
    BY <2>4, <2>5, <2>6
  <2>10. L = <<>> => EnsureCalls = <<d, a, b>>
    BY <1>1, <2>8, <2>9
  <2>11. L = <<l>> => EnsureCalls = <<l, d, a, b>>
    BY <1>1, <2>7, <2>9
  <2>12. /\ (c.https.up /\ ~c.https.listen) => L = <<l>>
         /\ ~(c.https.up /\ ~c.https.listen) => L = <<>>
    BY DEF L, l
  <2> QED BY <1>10, <2>10, <2>11, <2>12 DEF a, b, d, l
<1> QED BY <1>9, <1>10

LEMMA RemovalShape ==
  ASSUME NEW h
  PROVE  LET https == h \in {r.host : r \in ToSet(caddy.live.https.routes)}
             policies == h \in caddy.live.policies
         IN  /\ https /\ policies => RemovalCalls(h) = <<"https", "read-http-removal", "policies">>
             /\ https /\ ~policies => RemovalCalls(h) = <<"https", "read-http-removal">>
             /\ ~https /\ policies => RemovalCalls(h) = <<"policies">>
             /\ ~https /\ ~policies => RemovalCalls(h) = <<>>
<1> DEFINE C == {"https", "read-http-removal", "policies"}
           https == h \in {r.host : r \in ToSet(caddy.live.https.routes)}
           policies == h \in caddy.live.policies
           s == <<"https", "read-http-removal">>
           p == <<"policies">>
<1>1. RemovalCalls(h) = (IF https THEN s ELSE <<>>) \o (IF policies THEN p ELSE <<>>)
  BY DEF RemovalCalls
<1>2. s \in Seq(C) /\ p \in Seq(C)
  OBVIOUS
<1>3. s \o p = <<"https", "read-http-removal", "policies">>
  <2>1. "https" \in C /\ "read-http-removal" \in C /\ "policies" \in C
    OBVIOUS
  <2> HIDE DEF C
  <2> QED BY <2>1, TripleConcat
<1>4. s \o <<>> = s /\ <<>> \o p = p /\ <<>> \o <<>> = <<>>
  <2> HIDE DEF C, s, p
  <2> QED BY <1>2
<1> HIDE DEF https, policies
<1> QED BY <1>1, <1>3, <1>4 DEF https, policies

Basics == RestOK /\ CaddyOK /\ DraftOK /\ OpOK /\ MovingOK

\* A call that reads decides what to write, and whatever it decides may come next.
LEMMA ReadDecides ==
  ASSUME Basics, ReadCaddy
  PROVE  /\ op.todo # <<>> /\ op.todo[1][1] \in ReadCalls /\ Hostname \in Host
         /\ proxy = "caddy" /\ Len(op.todo) > 1
         /\ op.todo[1][1] = "read-servers" =>
              ReadServers /\ op' = After(EnsureCalls) /\ Admissible(EnsureCalls)
         /\ op.todo[1][1] = "read-policies" =>
              ReadPolicies(Hostname) /\ op' = After(<<"policies">>) /\ Admissible(<<"policies">>)
         /\ op.todo[1][1] = "read-https" =>
              ReadHttps(Hostname, Wanted(Hostname)) /\ op' = After(<<"https">>) /\ Admissible(<<"https">>)
         /\ op.todo[1][1] = "read-http" =>
              /\ ReadHttp(Hostname, Wanted(Hostname), redirecting)
              /\ \/ op' = After(<<"http">>) /\ Admissible(<<"http">>)
                 \/ /\ op' = After(<<>>) /\ Admissible(<<>>)
                    /\ ~HttpChanges(Hostname, HttpRoutes(Hostname, Wanted(Hostname), redirecting)
                                                \o Denials(Hostname, Wanted(Hostname)))
         /\ op.todo[1][1] = "read-removal" =>
              /\ ReadRemoval(Hostname) /\ op' = After(RemovalCalls(Hostname))
              /\ Admissible(RemovalCalls(Hostname)) /\ op.do = "remove"
         /\ op.todo[1][1] = "read-http-removal" =>
              /\ ReadHttpRemoval(Hostname) /\ op.do = "remove"
              /\ \E calls \in {<<>>, <<"http">>} : op' = After(calls) /\ Admissible(calls)
<1> DEFINE a == op.todo[1][1]
           h == Hostname
<1>1. op.todo # <<>> /\ Read(h) /\ OpOK
  BY DEF ReadCaddy, Basics
<1>2. /\ op.todo \in Seq(Task) /\ (\A call : Calling(call) <=> a = call) /\ h = op.todo[1][2]
      /\ Possible(proxy, inventory, op.do, op.todo[1])
      /\ a \notin {"dump", "advertise"} => h \in Host
      /\ op.do \in {"publish", "remove", "sync", "redirect"}
      /\ \/ Len(op.todo) = 1 /\ a \in Finals
         \/ Len(op.todo) > 1 /\ 2 \in DOMAIN op.todo /\ Linked(op.todo[1], op.todo[2]) /\ op.todo[2] \in Task
  BY <1>1, NextCall
<1> HIDE DEF a, h
<1>3. a \in ReadCalls
  BY <1>1, <1>2 DEF Read, ReadCalls
<1>4. h \in Host /\ Len(op.todo) > 1 /\ Follows(a, op.todo[2][1]) /\ op.todo[2][2] = h
  BY <1>2, <1>3 DEF ReadCalls, Finals, Linked, a, h
<1>5. proxy = "caddy"
  BY <1>2, <1>3 DEF Possible, CaddyCalls, Basics, RestOK, a
<1>6. a \in {"read-removal", "read-http-removal"} => op.do = "remove"
  BY <1>2 DEF Possible, Removal, a
<1>7. \A x \in Writes \cup {"read-http-removal"} :
        /\ x \in Call
        /\ (x = "read-http-removal" => op.do = "remove") => Possible(proxy, inventory, op.do, <<x, h>>)
  <2>1. \A x \in Writes \cup {"read-http-removal"} : x \in Call
    BY DEF Call
  <2>2. h # Absent => (op.do \in {"sync", "redirect"} => inventory[h] # Absent)
    BY <1>2 DEF Possible, h
  <2>3. h = Absent => FALSE
    BY <1>2, <1>3 DEF Possible, ReadCalls, a
  <2>4. ASSUME NEW x \in Writes \cup {"read-http-removal"}, x = "read-http-removal" => op.do = "remove"
        PROVE  Possible(proxy, inventory, op.do, <<x, h>>)
    <3>1. <<x, h>>[1] = x /\ <<x, h>>[2] = h
      OBVIOUS
    <3>2. x \notin TraefikCalls \cup Publication \cup {"advertise", "save"}
      BY DEF Writes, TraefikCalls, Publication
    <3>3. x \in Removal => op.do = "remove"
      BY <2>4 DEF Writes, Removal
    <3> QED BY <1>5, <2>2, <2>3, <3>1, <3>2, <3>3 DEF Possible
  <2> QED BY <2>1, <2>4
<1>8. \A x : Linked(<<x, h>>, op.todo[2]) <=> Follows(x, op.todo[2][1])
  BY <1>4 DEF Linked
<1>9. CASE a = "read-servers"
  <2>1. op.todo[2][1] \in {"read-policies", "read-removal"}
    BY <1>4, <1>9 DEF Follows
  <2> DEFINE place == IF caddy.live.http.up THEN "http" ELSE "create-http"
  <2>2. place \in {"http", "create-http"}
    OBVIOUS
  <2> HIDE DEF place
  <2>3. \A x \in Writes : Possible(proxy, inventory, op.do, <<x, Hostname>>) /\ x \in Call /\ x # "check"
    BY <1>7 DEF Writes, h
  <2>4. \A x \in {"listen", "create-https", "http", "create-http"} :
          Follows(x, op.todo[2][1]) /\ Linked(<<x, Hostname>>, op.todo[2])
    BY <1>8, <2>1 DEF Follows, h
  <2>5. /\ Follows("listen", "create-http") /\ Follows("create-https", "create-http")
        /\ Follows("listen", "drop-srv0") /\ Follows("drop-srv0", "https") /\ Follows("drop-srv0", "create-https")
        /\ Follows("https", place) /\ Follows("create-https", place)
    BY <2>2 DEF Follows
  <2>6. Admissible(<<>>)
    BY AdmissibleNone
  <2>7. \A x \in {"listen", "create-https", "create-http"} : Admissible(<<x>>)
    BY <1>4, <2>3, <2>4, AdmissibleOne DEF Writes
  <2>8. \A x \in {"listen", "create-https"} : Admissible(<<x, "create-http">>)
    BY <1>4, <2>3, <2>4, <2>5, AdmissibleTwo DEF Writes
  <2>9. \A x \in {"https", "create-https"} : Admissible(<<"drop-srv0", x, place>>)
    <3>1. ASSUME NEW x \in {"https", "create-https"} PROVE Admissible(<<"drop-srv0", x, place>>)
      <4>1. \A y \in {"drop-srv0", x, place} : y \in Writes
        BY <2>2 DEF Writes
      <4> QED BY <1>4, <2>2, <2>3, <2>4, <2>5, <4>1, AdmissibleThree
    <3> QED BY <3>1
  <2>10. Admissible(<<"listen", "drop-srv0", "https", place>>)
    <3>1. \A y \in {"listen", "drop-srv0", "https", place} : y \in Writes
      BY <2>2 DEF Writes
    <3> QED BY <1>4, <2>2, <2>3, <2>4, <2>5, <3>1, AdmissibleFour
  <2>11. Admissible(EnsureCalls)
    BY <2>6, <2>7, <2>8, <2>9, <2>10, EnsureShape DEF place, Basics
  <2>12. ReadServers /\ op' = After(EnsureCalls)
    BY <1>1, <1>2, <1>9 DEF Read, Then
  <2> QED BY <1>1, <1>3, <1>4, <1>5, <1>9, <2>11, <2>12 DEF a, h
<1>10. CASE a = "read-policies"
  <2>1. Admissible(<<"policies">>)
    <3>1. Follows("policies", op.todo[2][1])
      BY <1>4, <1>10 DEF Follows
    <3> QED BY <1>4, <1>7, <1>8, <3>1, AdmissibleOne DEF Writes, h
  <2>2. ReadPolicies(h) /\ op' = After(<<"policies">>)
    BY <1>1, <1>2, <1>10 DEF Read, Then
  <2> QED BY <1>1, <1>3, <1>4, <1>5, <1>10, <2>1, <2>2 DEF a, h
<1>11. CASE a = "read-https"
  <2>1. Admissible(<<"https">>)
    <3>1. Follows("https", op.todo[2][1])
      BY <1>4, <1>11 DEF Follows
    <3> QED BY <1>4, <1>7, <1>8, <3>1, AdmissibleOne DEF Writes, h
  <2>2. ReadHttps(h, Wanted(h)) /\ op' = After(<<"https">>)
    BY <1>1, <1>2, <1>11 DEF Read, Then
  <2> QED BY <1>1, <1>3, <1>4, <1>5, <1>11, <2>1, <2>2 DEF a, h
<1>12. CASE a = "read-http"
  <2>1. Admissible(<<"http">>) /\ Admissible(<<>>)
    <3>1. Follows("http", op.todo[2][1])
      BY <1>4, <1>12 DEF Follows
    <3> QED BY <1>4, <1>7, <1>8, <3>1, AdmissibleOne, AdmissibleNone DEF Writes, h
  <2> DEFINE added == HttpRoutes(h, Wanted(h), redirecting) \o Denials(h, Wanted(h))
  <2>2. ReadHttp(h, Wanted(h), redirecting) /\ op' = After(IF HttpChanges(h, added) THEN <<"http">> ELSE <<>>)
    BY <1>1, <1>2, <1>12 DEF Read, Then
  <2> HIDE DEF added
  <2>3. (HttpChanges(h, added) /\ op' = After(<<"http">>)) \/ (~HttpChanges(h, added) /\ op' = After(<<>>))
    BY <2>2
  <2> QED BY <1>1, <1>3, <1>4, <1>5, <1>12, <2>1, <2>2, <2>3 DEF a, h, added
<1>13. CASE a = "read-removal"
  <2>1. op.todo[2][1] = "dump" /\ op.do = "remove"
    BY <1>4, <1>6, <1>13 DEF Follows
  <2>2. \A x \in {"https", "read-http-removal", "policies"} :
          x \in Call /\ Possible(proxy, inventory, op.do, <<x, Hostname>>) /\ x # "check"
    BY <1>7, <2>1 DEF Writes, h
  <2>3. /\ Follows("https", "read-http-removal") /\ Follows("read-http-removal", "policies")
        /\ \A x \in {"read-http-removal", "policies"} : Linked(<<x, Hostname>>, op.todo[2])
    BY <1>8, <2>1 DEF Follows, h
  <2>4. Admissible(<<>>) /\ Admissible(<<"policies">>)
    BY <1>4, <2>2, <2>3, AdmissibleNone, AdmissibleOne
  <2>5. Admissible(<<"https", "read-http-removal">>)
    BY <1>4, <2>2, <2>3, AdmissibleTwo
  <2>6. Admissible(<<"https", "read-http-removal", "policies">>)
    BY <1>4, <2>2, <2>3, AdmissibleThree
  <2>7. Admissible(RemovalCalls(h))
    BY <2>4, <2>5, <2>6, RemovalShape
  <2>8. ReadRemoval(h) /\ op' = After(RemovalCalls(h))
    BY <1>1, <1>2, <1>13 DEF Read, Then
  <2> QED BY <1>1, <1>3, <1>4, <1>5, <1>13, <2>1, <2>7, <2>8 DEF a, h
<1>14. CASE a = "read-http-removal"
  <2>1. op.todo[2][1] \in {"policies", "dump"} /\ op.do = "remove"
    BY <1>4, <1>6, <1>14 DEF Follows
  <2>2. Admissible(<<"http">>) /\ Admissible(<<>>)
    <3>1. Follows("http", op.todo[2][1])
      BY <2>1 DEF Follows
    <3> QED BY <1>4, <1>7, <1>8, <3>1, AdmissibleOne, AdmissibleNone DEF Writes, h
  <2>3. ReadHttpRemoval(h) /\ op' = After(IF HttpChanges(h, <<>>) THEN <<"http">> ELSE <<>>)
    BY <1>1, <1>2, <1>14 DEF Read, Then
  <2>4. \E calls \in {<<>>, <<"http">>} : op' = After(calls) /\ Admissible(calls)
    BY <2>2, <2>3
  <2> QED BY <1>1, <1>3, <1>4, <1>5, <1>14, <2>1, <2>3, <2>4 DEF a, h
<1> QED BY <1>3, <1>9, <1>10, <1>11, <1>12, <1>13, <1>14 DEF ReadCalls

-----------------------------------------------------------------------------
(* Types *)

LEMMA Touched ==
  ASSUME NEW p, NEW inv, NEW o, CommandOK(o, p, inv), o.todo # <<>>,
         NEW q \in Op, q.todo = o.todo, q.do = o.do, q.want = o.want,
         q.do = "remove" => q.done = {}, q.do # "sync" => q.verified = {}
  PROVE  CommandOK(q, p, inv)
BY DEF CommandOK

\* A command does not depend on the requests of others, unless it republishes them.
LEMMA OtherInventory ==
  ASSUME NEW p, NEW inv, NEW inw, NEW o, CommandOK(o, p, inv), o.do \notin {"sync", "redirect"}
  PROVE  CommandOK(o, p, inw)
BY DEF CommandOK, Possible

\* The trust of step-ca is given up: the fragment is next.
LEMMA GivesUpFacts ==
  ASSUME OpOK, op.todo # <<>>, op.todo[1][1] \in {"root", "static", "restart"}, GivesUpTrust
  PROVE  /\ CommandOK(op', proxy, inventory)
         /\ op' = [op EXCEPT !.todo = op'.todo] /\ op'.todo \in Seq(Task) /\ op'.todo # <<>>
         /\ op'.todo[1] = <<"fragment", Hostname>>
         /\ \A i \in DOMAIN op.todo : \/ op.todo[i][1] \in {"root", "static", "restart"}
                                      \/ \E j \in DOMAIN op'.todo : op'.todo[j] = op.todo[i]
<1> DEFINE s == op.todo
           I == {i \in 1..Len(s) : s[i][1] = "fragment"}
           k == SelectInSeq(s, LAMBDA c : c[1] = "fragment")
           w == SubSeq(s, k, Len(s))
           R == Seq(Task)
<1>1. s \in Seq(Task) /\ Ordered(s) /\ Len(s) \in Nat /\ DOMAIN s = 1..Len(s)
  BY OpType, EmptyFacts DEF OpOK, CommandOK
<1>2. /\ 1 \in DOMAIN s /\ s[1][2] = Hostname
      /\ Len(s) > 1 /\ 2 \in DOMAIN s /\ Linked(s[1], s[2]) /\ s[2] \in Task
  BY NextCall DEF Finals
<1>3. s[2][1] \notin Finals => 3 \in DOMAIN s /\ s[3] \in Task /\ Linked(s[2], s[3])
  BY <1>2, ThirdCall
<1>4. ASSUME 3 \in DOMAIN s, s[3][1] \notin Finals PROVE 4 \in DOMAIN s /\ Linked(s[3], s[4])
  <2>1. s[Len(s)][1] \in Finals /\ Chained(s)
    BY <1>1, <1>2, EmptyFacts DEF Ordered
  <2>2. Len(s) # 3 /\ Len(s) >= 3
    BY <1>1, <1>4, <2>1
  <2>3. 4 \in DOMAIN s /\ 3 \in 1..(Len(s) - 1)
    <3> DEFINE n == Len(s)
    <3> HIDE DEF n
    <3>1. n \in Nat /\ DOMAIN s = 1..n /\ n # 3 /\ n >= 3
      BY <1>1, <2>2 DEF n
    <3>2. 4 \in 1..n /\ 3 \in 1..(n - 1)
      BY <3>1
    <3> QED BY <3>1, <3>2 DEF n
  <2>4. Linked(s[3], s[3 + 1])
    BY <2>1, <2>3 DEF Chained
  <2> QED BY <2>3, <2>4
<1>5. \E m \in {2, 3, 4} : /\ m \in DOMAIN s /\ s[m][1] = "fragment" /\ s[m][2] = Hostname
                           /\ \A i \in 1..(m - 1) : s[i][1] \in {"root", "static", "restart"}
  <2>1. CASE s[1][1] = "restart"
    <3>1. s[2][1] = "fragment" /\ s[2][2] = Hostname
      BY <1>2, <2>1 DEF Linked, Follows
    <3>2. \A i \in 1..(2 - 1) : i = 1
      OBVIOUS
    <3> QED BY <1>2, <2>1, <3>1, <3>2
  <2>2. CASE s[1][1] = "static"
    <3>1. s[2][1] = "restart" /\ s[2][2] = Hostname
      BY <1>2, <2>2 DEF Linked, Follows
    <3>2. 3 \in DOMAIN s /\ s[3][1] = "fragment" /\ s[3][2] = Hostname
      BY <1>3, <3>1 DEF Linked, Follows, Finals
    <3>3. \A i \in 1..(3 - 1) : i = 1 \/ i = 2
      OBVIOUS
    <3> QED BY <2>2, <3>1, <3>2, <3>3
  <2>3. CASE s[1][1] = "root"
    <3>1. s[2][1] = "static" /\ s[2][2] = Hostname
      BY <1>2, <2>3 DEF Linked, Follows
    <3>2. 3 \in DOMAIN s /\ s[3][1] = "restart" /\ s[3][2] = Hostname
      BY <1>3, <3>1 DEF Linked, Follows, Finals
    <3>3. 4 \in DOMAIN s /\ s[4][1] = "fragment" /\ s[4][2] = Hostname
      BY <1>4, <3>2 DEF Linked, Follows, Finals
    <3>4. \A i \in 1..(4 - 1) : i = 1 \/ i = 2 \/ i = 3
      OBVIOUS
    <3> QED BY <2>3, <3>1, <3>2, <3>3, <3>4
  <2> QED BY <2>1, <2>2, <2>3
<1>6. PICK m \in {2, 3, 4} : /\ m \in DOMAIN s /\ s[m][1] = "fragment" /\ s[m][2] = Hostname
                             /\ \A i \in 1..(m - 1) : s[i][1] \in {"root", "static", "restart"}
  BY <1>5
<1>7. k = m
  <2>1. k = IF I # {} THEN Min(I) ELSE 0
    BY DEF SelectInSeq
  <2>2. m \in I /\ I \in SUBSET Nat
    BY <1>1, <1>6
  <2>3. \A i \in I : i \in Nat /\ i >= 1 /\ s[i][1] = "fragment"
    OBVIOUS
  <2> HIDE DEF I, k, s
  <2>4. Min(I) \in I /\ Min(I) <= m
    BY <2>2, MinIsLeast
  <2> DEFINE l == Min(I)
  <2>5. l \in Nat /\ l >= 1 /\ s[l][1] = "fragment" /\ l <= m /\ m \in Nat
    BY <2>2, <2>3, <2>4
  <2> HIDE DEF l
  <2>6. l \notin 1..(m - 1)
    BY <1>6, <2>5
  <2>7. l = m
    BY <2>5, <2>6
  <2> QED BY <2>1, <2>2, <2>7 DEF l
<1>8. op' = [op EXCEPT !.todo = w]
  BY DEF GivesUpTrust
<1> HIDE DEF k, I
<1>9. /\ w \in Seq(Task) /\ Len(w) = Len(s) - m + 1 /\ w # <<>>
      /\ \A i \in DOMAIN w : m + i - 1 \in DOMAIN s /\ w[i] = s[m + i - 1]
      /\ \A i \in DOMAIN s : i >= m => i - m + 1 \in DOMAIN w /\ w[i - m + 1] = s[i]
      /\ Ordered(s) => Ordered(w)
  <2> HIDE DEF s
  <2>1. s \in Seq(Task) /\ m \in DOMAIN s /\ w = SubSeq(s, m, Len(s))
    BY <1>1, <1>6, <1>7
  <2> HIDE DEF w
  <2> QED BY <2>1, RestFacts
<1> HIDE DEF w
<1>10. w[1] = <<"fragment", Hostname>>
  <2>1. 1 \in DOMAIN w
    BY <1>9, EmptyFacts
  <2>2. w[1] = s[m + 1 - 1] /\ m + 1 - 1 = m
    BY <1>6, <1>9, <2>1
  <2>3. s[m] \in Task
    BY <1>1, <1>6
  <2> QED BY <1>6, <2>2, <2>3 DEF Task
<1>11. \A i \in DOMAIN s : \/ s[i][1] \in {"root", "static", "restart"}
                           \/ \E j \in DOMAIN w : w[j] = s[i]
  <2>1. ASSUME NEW i \in DOMAIN s, s[i][1] \notin {"root", "static", "restart"}
        PROVE  \E j \in DOMAIN w : w[j] = s[i]
    <3>1. i \notin 1..(m - 1)
      BY <1>6, <2>1
    <3>2. i \in Nat /\ i >= 1
      BY <1>1
    <3>3. i >= m
      BY <3>1, <3>2, <1>6
    <3> QED BY <1>9, <3>3
  <2> QED BY <2>1
<1>12. op \in [do : {"none", "publish", "remove", "sync", "redirect"},
               todo : R, want : Request \cup {Absent},
               done : SUBSET Host, torn : BOOLEAN, moving : BOOLEAN,
               verified : SUBSET Host, stale : SUBSET Host]
  BY OpType DEF OpOK, CommandOK
<1>13. w \in R
  BY <1>9
<1> DEFINE o == [op EXCEPT !.todo = w]
<1>14. /\ o.todo = w /\ o.do = op.do /\ o.want = op.want /\ o.done = op.done /\ o.verified = op.verified
       /\ o \in Op
  <2> HIDE DEF R
  <2>1. /\ o.todo = w /\ o.do = op.do /\ o.want = op.want /\ o.done = op.done /\ o.verified = op.verified
        /\ o \in [do : {"none", "publish", "remove", "sync", "redirect"},
                  todo : R, want : Request \cup {Absent},
                  done : SUBSET Host, torn : BOOLEAN, moving : BOOLEAN,
                  verified : SUBSET Host, stale : SUBSET Host]
    BY <1>12, <1>13
  <2> QED BY <2>1, OpType DEF R
<1> HIDE DEF o
<1>15. op' = o
  BY <1>8 DEF o
<1>16. \A i \in DOMAIN w : Possible(proxy, inventory, op.do, w[i])
  BY <1>9 DEF OpOK, CommandOK
<1>17. CommandOK(o, proxy, inventory)
  BY <1>1, <1>9, <1>14, <1>16 DEF CommandOK, OpOK
<1>18. op'.todo = w /\ op' = [op EXCEPT !.todo = w]
  BY <1>8, <1>14, <1>15
<1> QED BY <1>9, <1>10, <1>11, <1>15, <1>17, <1>18

LEMMA UsedFacts ==
  ASSUME RestOK, NEW what \in {"commands", "faults", "crashes", "restarts", "edits"}, Used(what)
  PROVE  count' \in [DOMAIN Bound -> Nat]
<1>1. {"commands", "faults", "crashes", "restarts", "edits", "events"} \subseteq DOMAIN Bound
  BY BoundsAreNat
<1>2. count \in [DOMAIN Bound -> Nat]
  BY DEF RestOK
<1>3. count' = [count EXCEPT ![what] = @ + 1, !["events"] = @ + 1]
  BY DEF Used
<1> DEFINE D == DOMAIN Bound
<1>4. what \in D /\ "events" \in D /\ count \in [D -> Nat]
  BY <1>1, <1>2
<1> HIDE DEF D
<1> DEFINE n == [count EXCEPT ![what] = @ + 1]
<1>5. n \in [D -> Nat]
  BY <1>4
<1>6. count' = [n EXCEPT !["events"] = @ + 1]
  BY <1>3
<1> HIDE DEF n
<1>7. count' \in [D -> Nat]
  BY <1>4, <1>5, <1>6
<1> QED BY <1>7 DEF D

\* What the calls for Traefik leave of its state.
LEMMA TraefikTypes ==
  ASSUME RestOK
  PROVE  /\ InstallRoot => traefik' \in TraefikType /\ trust' \in TrustType
         /\ InstallRootFails => traefik' \in TraefikType /\ trust' \in TrustType
         /\ WriteStatic => traefik' \in TraefikType /\ trust' \in TrustType
         /\ WriteStaticFails => traefik' \in TraefikType /\ trust' \in TrustType
         /\ RestartIfNeeded => traefik' \in TraefikType /\ trust' \in TrustType
         /\ RestartFails => traefik' \in TraefikType /\ trust' \in TrustType
         /\ \A h \in Host : /\ \A r \in Request : WriteFragment(h, r, redirecting) => traefik' \in TraefikType
                            /\ RemoveFragment(h) => traefik' \in TraefikType
         /\ Reload => traefik' \in TraefikType
         /\ Started(traefik) \in TraefikType /\ Abandoned(traefik) \in TraefikType /\ NoTrust \in TrustType
<1> DEFINE F == [Host -> Fragment \cup {Absent}]
           T == [stepCa : BOOLEAN,
                 static : {"plain", "managed", "own"},
                 root : {"none", "file", "trusted"},
                 loaded : [resolver : BOOLEAN, root : BOOLEAN],
                 missed : BOOLEAN, fragments : F, routers : F]
<1>1. traefik \in T /\ T = TraefikType
  BY DEF RestOK, TraefikType
<1>2. trust \in [restartNeeded : BOOLEAN, resolver : BOOLEAN]
      /\ TrustType = [restartNeeded : BOOLEAN, resolver : BOOLEAN]
      /\ redirecting \in BOOLEAN
  BY DEF RestOK, TrustType
<1>3. \A f \in F, h \in Host, g \in Fragment \cup {Absent} : [f EXCEPT ![h] = g] \in F
  OBVIOUS
<1>4. \A r \in Request : FragmentOf(r, redirecting) \in Fragment
  BY <1>2 DEF FragmentOf, Fragment, Request
<1> HIDE DEF F
<1>5. NoTrust \in TrustType
  BY <1>2 DEF NoTrust
<1>6. Started(traefik) \in T /\ Abandoned(traefik) \in T
  <2>1. Started(traefik) \in T
    BY <1>1 DEF Started
  <2>2. Abandoned(traefik) \in T
    BY <1>1, <1>2 DEF Abandoned
  <2> QED BY <2>1, <2>2
<1>7. InstallRoot => traefik' \in T /\ trust' \in TrustType
  <2>1. InstallRoot => traefik' = traefik \/ traefik' = [traefik EXCEPT !.root = "trusted"]
    BY DEF InstallRoot
  <2>2. [traefik EXCEPT !.root = "trusted"] \in T
    BY <1>1
  <2>3. InstallRoot => trust' = trust \/ trust' = [trust EXCEPT !.restartNeeded = TRUE]
    BY DEF InstallRoot
  <2>4. [trust EXCEPT !.restartNeeded = TRUE] \in TrustType
    BY <1>2
  <2> QED BY <1>1, <1>2, <2>1, <2>2, <2>3, <2>4
<1>8. InstallRootFails => traefik' \in T /\ trust' \in TrustType
  BY <1>1, <1>5 DEF InstallRootFails
<1>9. WriteStatic => traefik' \in T /\ trust' \in TrustType
  BY <1>1, <1>2 DEF WriteStatic
<1>10. WriteStaticFails => traefik' \in T /\ trust' \in TrustType
  BY <1>1, <1>5 DEF WriteStaticFails
<1>11. RestartIfNeeded => traefik' \in T /\ trust' \in TrustType
  BY <1>1, <1>2, <1>6 DEF RestartIfNeeded
<1>12. RestartFails => traefik' \in T /\ trust' \in TrustType
  BY <1>1, <1>5 DEF RestartFails
<1>13. ASSUME NEW h \in Host, NEW r \in Request, WriteFragment(h, r, redirecting) PROVE traefik' \in T
  <2> DEFINE f == [traefik.fragments EXCEPT ![h] = FragmentOf(r, redirecting)]
  <2>1. f \in F /\ traefik' = [traefik EXCEPT !.fragments = f]
    BY <1>1, <1>3, <1>4, <1>13 DEF WriteFragment
  <2> HIDE DEF f
  <2> QED BY <1>1, <2>1
<1>14. ASSUME NEW h \in Host, RemoveFragment(h) PROVE traefik' \in T
  <2> DEFINE f == [traefik.fragments EXCEPT ![h] = Absent]
  <2>1. f \in F /\ traefik' = [traefik EXCEPT !.fragments = f]
    BY <1>1, <1>3, <1>14 DEF RemoveFragment
  <2> HIDE DEF f
  <2> QED BY <1>1, <2>1
<1>15. Reload => traefik' \in T
  BY <1>1 DEF Reload
<1> HIDE DEF T
<1> QED BY <1>1, <1>5, <1>6, <1>7, <1>8, <1>9, <1>10, <1>11, <1>12, <1>13, <1>14, <1>15

\* Only the calls of a command change.
SameButTodo(o) ==
  /\ o.do = op.do /\ o.want = op.want /\ o.done = op.done /\ o.torn = op.torn /\ o.moving = op.moving
  /\ o.verified = op.verified /\ o.stale = op.stale

LEMMA TodoReplaced ==
  ASSUME OpOK, NEW w \in Seq(Task)
  PROVE  LET o == [op EXCEPT !.todo = w] IN o \in Op /\ o.todo = w /\ SameButTodo(o)
<1> DEFINE R == Seq(Task)
           o == [op EXCEPT !.todo = w]
<1>1. op \in [do : {"none", "publish", "remove", "sync", "redirect"},
              todo : R, want : Request \cup {Absent},
              done : SUBSET Host, torn : BOOLEAN, moving : BOOLEAN,
              verified : SUBSET Host, stale : SUBSET Host]
  BY OpType DEF OpOK, CommandOK
<1>2. w \in R
  OBVIOUS
<1> HIDE DEF R
<1>3. o \in [do : {"none", "publish", "remove", "sync", "redirect"},
             todo : R, want : Request \cup {Absent},
             done : SUBSET Host, torn : BOOLEAN, moving : BOOLEAN,
             verified : SUBSET Host, stale : SUBSET Host]
      /\ o.todo = w /\ SameButTodo(o)
  BY <1>1, <1>2 DEF SameButTodo
<1> QED BY <1>3, OpType DEF R

\* The call is done, and the next one follows.
LEMMA AfterNone ==
  ASSUME OpOK, op.todo # <<>>
  PROVE  LET o == After(<<>>)
         IN  /\ CommandOK(o, proxy, inventory) /\ o.todo \in Seq(Task)
             /\ Len(op.todo) > 1 => /\ SameButTodo(o) /\ o.todo # <<>>
                                    /\ 1 \in DOMAIN o.todo /\ o.todo[1] = op.todo[2]
             /\ Len(op.todo) = 1 => o = NoOp
             /\ \A i \in DOMAIN op.todo : i > 1 => i - 1 \in DOMAIN o.todo /\ o.todo[i - 1] = op.todo[i]
             /\ \A i \in DOMAIN o.todo : \E j \in DOMAIN op.todo : j > 1 /\ o.todo[i] = op.todo[j]
<1> DEFINE e == <<>>
           o == After(e)
           w == NewTodo(e)
<1>1. e \in Seq(Call) /\ Len(e) = 0 /\ DOMAIN e = {} /\ e = <<>>
  OBVIOUS
<1> HIDE DEF e
<1>2. /\ CommandOK(o, proxy, inventory) /\ o.todo = w /\ w \in Seq(Task)
      /\ \A i \in DOMAIN op.todo : i > 1 => Len(e) + i - 1 \in DOMAIN w /\ w[Len(e) + i - 1] = op.todo[i]
      /\ \A i \in DOMAIN w : \/ \E j \in DOMAIN e : w[i] = <<e[j], Hostname>>
                             \/ \E j \in DOMAIN op.todo : j > 1 /\ w[i] = op.todo[j]
      /\ Len(op.todo) > 1 => o = [op EXCEPT !.todo = w] /\ w # <<>>
      /\ Len(op.todo) = 1 => o = NoOp
  BY <1>1, AfterFacts
<1>3. op.todo \in Seq(Task)
  BY NextCall
<1>4. DOMAIN op.todo = 1..Len(op.todo) /\ Len(op.todo) \in Nat
  BY <1>3, EmptyFacts
<1> HIDE DEF o, w
<1>5. ASSUME NEW i \in DOMAIN op.todo, i > 1 PROVE i - 1 \in DOMAIN w /\ w[i - 1] = op.todo[i]
  <2>1. Len(e) + i - 1 = i - 1
    BY <1>1, <1>4
  <2> QED BY <1>2, <1>5, <2>1
<1>6. \A i \in DOMAIN w : \E j \in DOMAIN op.todo : j > 1 /\ w[i] = op.todo[j]
  BY <1>1, <1>2
<1>7. Len(op.todo) > 1 => 2 \in DOMAIN op.todo /\ 2 > 1 /\ 2 - 1 = 1
  BY <1>4
<1>8. Len(op.todo) > 1 => 1 \in DOMAIN w /\ w[1] = op.todo[2]
  BY <1>5, <1>7
<1>9. Len(op.todo) > 1 => SameButTodo(o)
  BY <1>2, TodoReplaced
<1>10. o = After(<<>>)
  BY <1>1 DEF o
<1> QED BY <1>2, <1>5, <1>6, <1>8, <1>9, <1>10

\* The call decided on others.
LEMMA AfterSome ==
  ASSUME OpOK, op.todo # <<>>, NEW calls, Admissible(calls), calls # <<>>
  PROVE  LET o == After(calls)
         IN  /\ CommandOK(o, proxy, inventory) /\ o.todo \in Seq(Task) /\ o.todo # <<>>
             /\ SameButTodo(o) /\ Len(op.todo) > 1
             /\ \A i \in DOMAIN calls : i \in DOMAIN o.todo /\ o.todo[i] = <<calls[i], Hostname>>
             /\ Len(calls) + 1 \in DOMAIN o.todo /\ o.todo[Len(calls) + 1] = op.todo[2]
             /\ \A i \in DOMAIN op.todo : i > 1 => \E j \in DOMAIN o.todo : o.todo[j] = op.todo[i]
             /\ \A i \in DOMAIN o.todo : \/ \E j \in DOMAIN calls : o.todo[i] = <<calls[j], Hostname>>
                                         \/ \E j \in DOMAIN op.todo : j > 1 /\ o.todo[i] = op.todo[j]
<1> DEFINE o == After(calls)
           w == NewTodo(calls)
<1>1. calls \in Seq(Call) /\ Len(op.todo) > 1
  BY DEF Admissible
<1>2. /\ CommandOK(o, proxy, inventory) /\ o.todo = w /\ w \in Seq(Task)
      /\ \A i \in DOMAIN calls : i \in DOMAIN w /\ w[i] = <<calls[i], Hostname>>
      /\ \A i \in DOMAIN op.todo : i > 1 => Len(calls) + i - 1 \in DOMAIN w /\ w[Len(calls) + i - 1] = op.todo[i]
      /\ \A i \in DOMAIN w : \/ \E j \in DOMAIN calls : w[i] = <<calls[j], Hostname>>
                             \/ \E j \in DOMAIN op.todo : j > 1 /\ w[i] = op.todo[j]
      /\ o = [op EXCEPT !.todo = w] /\ w # <<>>
  BY <1>1, AfterFacts DEF Admissible
<1>3. op.todo \in Seq(Task)
  BY NextCall
<1>4. DOMAIN op.todo = 1..Len(op.todo) /\ Len(op.todo) \in Nat
  BY <1>3, EmptyFacts
<1>5. Len(calls) \in Nat
  BY <1>1
<1> HIDE DEF o, w
<1>6. 2 \in DOMAIN op.todo /\ 2 > 1 /\ Len(calls) + 2 - 1 = Len(calls) + 1
  BY <1>1, <1>4, <1>5
<1>7. Len(calls) + 1 \in DOMAIN w /\ w[Len(calls) + 1] = op.todo[2]
  <2>1. Len(calls) + 2 - 1 \in DOMAIN w /\ w[Len(calls) + 2 - 1] = op.todo[2]
    BY <1>2, <1>6
  <2> QED BY <1>6, <2>1
<1>8. \A i \in DOMAIN op.todo : i > 1 => \E j \in DOMAIN w : w[j] = op.todo[i]
  BY <1>2
<1>9. SameButTodo(o)
  BY <1>2, TodoReplaced
<1> QED BY <1>1, <1>2, <1>7, <1>8, <1>9 DEF o

\* The calls that remain are those behind the first one.
Shifts(s, t) ==
  /\ 1 \in DOMAIN t /\ t[1] = s[2]
  /\ \A i \in DOMAIN s : i > 1 => i - 1 \in DOMAIN t /\ t[i - 1] = s[i]
  /\ \A i \in DOMAIN t : \E j \in DOMAIN s : j > 1 /\ t[i] = s[j]

LEMMA WriteDecides ==
  ASSUME Basics, WriteCaddy
  PROVE  LET call == op.todo[1][1]
         IN  /\ op.todo # <<>> /\ call \in Writes /\ Hostname \in Host /\ proxy = "caddy"
             /\ Len(op.todo) > 1 /\ Accepted(call) /\ Write(call)
             /\ CommandOK(op', proxy, inventory) /\ op'.todo # <<>> /\ Shifts(op.todo, op'.todo)
             /\ op'.do = op.do /\ op'.want = op.want /\ op'.done = op.done /\ op'.torn = op.torn
             /\ op'.verified = op.verified /\ op'.stale = op.stale
             /\ op'.moving = (call = "drop-srv0")
<1>1. PICK call \in Writes :
        /\ Calling(call) /\ Accepted(call) /\ Write(call)
        /\ op' = [After(<<>>) EXCEPT !.moving = call = "drop-srv0"
                                       \/ (op.moving /\ call \notin {"create-https", "https"})]
  BY DEF WriteCaddy
<1>2. op.todo # <<>> /\ OpOK
  BY <1>1 DEF Calling, Basics
<1>3. /\ op.todo[1][1] = call /\ Hostname \in Host /\ Len(op.todo) > 1 /\ op.todo \in Seq(Task)
      /\ Possible(proxy, inventory, op.do, op.todo[1])
  BY <1>1, <1>2, NextCall DEF Writes, Finals
<1>4. proxy = "caddy"
  BY <1>1, <1>3 DEF Possible, CaddyCalls, Basics, RestOK
<1>5. (op.moving /\ call \notin {"create-https", "https"}) = FALSE
  BY <1>3 DEF Basics, MovingOK
<1> DEFINE o == After(<<>>)
           b == call = "drop-srv0" \/ (op.moving /\ call \notin {"create-https", "https"})
           R == Seq(Task)
<1>6. /\ CommandOK(o, proxy, inventory) /\ o.todo \in R /\ SameButTodo(o) /\ o.todo # <<>>
      /\ Shifts(op.todo, o.todo)
  BY <1>2, <1>3, AfterNone DEF Shifts
<1>7. o \in [do : {"none", "publish", "remove", "sync", "redirect"},
             todo : R, want : Request \cup {Absent},
             done : SUBSET Host, torn : BOOLEAN, moving : BOOLEAN,
             verified : SUBSET Host, stale : SUBSET Host]
  BY <1>6, OpType DEF CommandOK
<1>8. b = (call = "drop-srv0") /\ b \in BOOLEAN
  BY <1>5
<1>9. op' = [o EXCEPT !.moving = b]
  BY <1>1
<1> HIDE DEF o, b, R
<1>10. /\ op' \in [do : {"none", "publish", "remove", "sync", "redirect"},
                   todo : R, want : Request \cup {Absent},
                   done : SUBSET Host, torn : BOOLEAN, moving : BOOLEAN,
                   verified : SUBSET Host, stale : SUBSET Host]
       /\ op'.todo = o.todo /\ op'.do = o.do /\ op'.want = o.want /\ op'.done = o.done
       /\ op'.torn = o.torn /\ op'.verified = o.verified /\ op'.stale = o.stale /\ op'.moving = b
  BY <1>7, <1>8, <1>9
<1>11. op' \in Op
  BY <1>10, OpType DEF R
<1>12. CommandOK(op', proxy, inventory)
  <2>1. /\ (o.do = "remove" => o.done = {}) /\ (o.do # "sync" => o.verified = {})
    BY <1>6 DEF CommandOK
  <2> QED BY <1>6, <1>10, <1>11, <2>1, Touched
<1> QED BY <1>1, <1>2, <1>3, <1>4, <1>6, <1>8, <1>10, <1>12 DEF SameButTodo

LEMMA ConfigureDecides ==
  ASSUME Basics, ConfigureTraefik
  PROVE  LET call == op.todo[1][1]
         IN  /\ op.todo # <<>> /\ call \in TraefikCalls /\ Hostname \in Host /\ proxy = "traefik"
             /\ Len(op.todo) > 1 /\ CommandOK(op', proxy, inventory) /\ op'.todo # <<>> /\ SameButTodo(op')
             /\ \/ /\ Shifts(op.todo, op'.todo)
                   /\ call = "root" => InstallRoot
                   /\ call = "static" => WriteStatic
                   /\ call = "restart" => RestartIfNeeded
                   /\ call = "fragment" => /\ WriteFragment(Hostname, Wanted(Hostname), redirecting)
                                           /\ trust' = NoTrust /\ Wanted(Hostname) \in Request
                   /\ call = "unlink" => RemoveFragment(Hostname) /\ UNCHANGED trust
                \/ GivesUpTrust /\ Conflict /\ call = "static" /\ trust' = NoTrust /\ UNCHANGED traefik
<1> DEFINE a == op.todo[1][1]
           h == Hostname
<1>1. op.todo # <<>> /\ Configure(h) /\ OpOK /\ RestOK
  BY DEF ConfigureTraefik, Basics
<1>2. /\ op.todo \in Seq(Task) /\ (\A call : Calling(call) <=> a = call)
      /\ Possible(proxy, inventory, op.do, op.todo[1])
      /\ a \notin {"dump", "advertise"} => h \in Host
      /\ \/ Len(op.todo) = 1 /\ a \in Finals
         \/ Len(op.todo) > 1
  BY <1>1, NextCall
<1> HIDE DEF a, h
<1>3. a \in TraefikCalls /\ h \in Host
  BY <1>1, <1>2 DEF Configure, TraefikCalls
<1>4. Len(op.todo) > 1 /\ proxy = "traefik"
  BY <1>1, <1>2, <1>3 DEF Possible, TraefikCalls, Finals, RestOK, a
<1>5. a = "fragment" => Wanted(h) \in Request
  BY <1>1, WantedFacts DEF Publication, a, h
<1>6. LET o == After(<<>>)
      IN  CommandOK(o, proxy, inventory) /\ SameButTodo(o) /\ o.todo # <<>> /\ Shifts(op.todo, o.todo)
  BY <1>1, <1>4, AfterNone DEF Shifts
<1>7. \/ op' = After(<<>>) /\ \/ a = "root" /\ InstallRoot
                              \/ a = "static" /\ WriteStatic
                              \/ a = "restart" /\ RestartIfNeeded
                              \/ a = "fragment" /\ WriteFragment(h, Wanted(h), redirecting) /\ trust' = NoTrust
                              \/ a = "unlink" /\ RemoveFragment(h) /\ UNCHANGED trust
      \/ a = "static" /\ Conflict /\ trust' = NoTrust /\ GivesUpTrust /\ UNCHANGED traefik
  BY <1>1, <1>2 DEF Configure, Then
<1>8. CASE op' = After(<<>>) /\ \/ a = "root" /\ InstallRoot
                                \/ a = "static" /\ WriteStatic
                                \/ a = "restart" /\ RestartIfNeeded
                                \/ a = "fragment" /\ WriteFragment(h, Wanted(h), redirecting) /\ trust' = NoTrust
                                \/ a = "unlink" /\ RemoveFragment(h) /\ UNCHANGED trust
  <2>1. CommandOK(op', proxy, inventory) /\ SameButTodo(op') /\ op'.todo # <<>> /\ Shifts(op.todo, op'.todo)
    BY <1>6, <1>8
  <2>2. /\ a = "root" => InstallRoot
        /\ a = "static" => WriteStatic
        /\ a = "restart" => RestartIfNeeded
        /\ a = "fragment" => WriteFragment(h, Wanted(h), redirecting) /\ trust' = NoTrust
        /\ a = "unlink" => RemoveFragment(h) /\ UNCHANGED trust
    BY <1>8
  <2> QED BY <1>1, <1>3, <1>4, <1>5, <2>1, <2>2 DEF a, h
<1>9. CASE a = "static" /\ Conflict /\ trust' = NoTrust /\ GivesUpTrust /\ UNCHANGED traefik
  <2>1. /\ CommandOK(op', proxy, inventory) /\ op' = [op EXCEPT !.todo = op'.todo] /\ op'.todo \in Seq(Task)
        /\ op'.todo # <<>>
    BY <1>1, <1>9, GivesUpFacts DEF a
  <2>2. SameButTodo(op')
    BY <1>1, <2>1, TodoReplaced
  <2> QED BY <1>1, <1>3, <1>4, <1>9, <2>1, <2>2 DEF a, h
<1> QED BY <1>7, <1>8, <1>9

LEMMA CheckDecides ==
  ASSUME Basics, Check
  PROVE  /\ op.todo # <<>> /\ op.todo[1] = <<"check", Hostname>> /\ Hostname \in Host
         /\ MustBeHealthy(Hostname) => Healthy(Hostname, inventory[Hostname])
         /\ op.do \in {"publish", "sync", "redirect"}
         /\ Len(op.todo) > 1 /\ CommandOK(op', proxy, inventory) /\ op'.todo # <<>> /\ Shifts(op.todo, op'.todo)
         /\ op'.do = op.do /\ op'.want = op.want /\ op'.done = op.done \cup {Hostname} /\ op'.torn = op.torn
         /\ op'.verified = (IF op.do = "sync" THEN op.verified \cup {Hostname} ELSE op.verified)
         /\ op'.stale = op.stale /\ op'.moving = op.moving
<1>1. op.todo # <<>> /\ OpOK
  BY DEF Check, Calling, Basics
<1>2. /\ op.todo[1][1] = "check" /\ Hostname \in Host /\ Len(op.todo) > 1
      /\ Possible(proxy, inventory, op.do, op.todo[1]) /\ op.do \in {"publish", "remove", "sync", "redirect"}
      /\ op.todo[1] = <<op.todo[1][1], Hostname>>
  BY <1>1, NextCall DEF Check, Finals
<1>3. op.do \in {"publish", "sync", "redirect"}
  BY <1>2 DEF Possible, Publication
<1> DEFINE o == After(<<>>)
           R == Seq(Task)
           h == Hostname
<1>4. /\ CommandOK(o, proxy, inventory) /\ o.todo \in R /\ SameButTodo(o) /\ o.todo # <<>>
      /\ Shifts(op.todo, o.todo)
  BY <1>1, <1>2, AfterNone DEF Shifts
<1>5. o \in [do : {"none", "publish", "remove", "sync", "redirect"},
             todo : R, want : Request \cup {Absent},
             done : SUBSET Host, torn : BOOLEAN, moving : BOOLEAN,
             verified : SUBSET Host, stale : SUBSET Host]
  BY <1>4, OpType DEF CommandOK
<1>6. op' = [o EXCEPT !.done = @ \cup {h}, !.verified = IF op.do = "sync" THEN @ \cup {h} ELSE @]
  BY DEF Check
<1>7. h \in Host
  BY <1>2
<1> HIDE DEF o, R, h
<1>8. /\ op' \in [do : {"none", "publish", "remove", "sync", "redirect"},
                  todo : R, want : Request \cup {Absent},
                  done : SUBSET Host, torn : BOOLEAN, moving : BOOLEAN,
                  verified : SUBSET Host, stale : SUBSET Host]
      /\ op'.todo = o.todo /\ op'.do = o.do /\ op'.want = o.want /\ op'.done = o.done \cup {h}
      /\ op'.torn = o.torn /\ op'.stale = o.stale /\ op'.moving = o.moving
      /\ op'.verified = (IF op.do = "sync" THEN o.verified \cup {h} ELSE o.verified)
  BY <1>5, <1>6, <1>7
<1>9. op' \in Op
  BY <1>8, OpType DEF R
<1>10. CommandOK(op', proxy, inventory)
  <2>1. o.do = op.do /\ o.do # "remove" /\ (o.do # "sync" => o.verified = {})
    BY <1>3, <1>4 DEF CommandOK, SameButTodo
  <2>2. op'.do # "sync" => op'.verified = {}
    BY <1>8, <2>1
  <2> QED BY <1>4, <1>8, <1>9, <2>1, <2>2, Touched
<1>11. MustBeHealthy(Hostname) => Healthy(Hostname, inventory[Hostname])
  BY DEF Check
<1> QED BY <1>1, <1>2, <1>3, <1>4, <1>8, <1>10, <1>11 DEF SameButTodo, h

\* The calls that a command ends with.
LEMMA FinalDecides ==
  ASSUME Basics, Save \/ Dump \/ Advertise
  PROVE  /\ op.todo # <<>> /\ op.todo[1][1] \in Finals /\ CommandOK(op', proxy, inventory)
         /\ op.todo[1][1] # "dump" => op.todo[1][1] \in {"save", "advertise"}
         /\ Save => op.todo[1] = <<"save", Hostname>> /\ Hostname \in Host /\ op.do \in {"publish", "remove"}
                    /\ inventory' = [inventory EXCEPT ![Hostname] = op.want]
         /\ Dump => op.todo[1][1] = "dump" /\ proxy = "caddy"
         /\ Advertise => op.todo[1][1] = "advertise" /\ op.do = "sync" /\ Len(op.todo) = 1
         /\ \/ op' = NoOp /\ Len(op.todo) = 1
            \/ SameButTodo(op') /\ op'.todo # <<>> /\ Shifts(op.todo, op'.todo) /\ Len(op.todo) > 1
<1>1. op.todo # <<>> /\ OpOK /\ op' = After(<<>>)
  BY DEF Save, Dump, Advertise, Calling, Then, Basics
<1>2. /\ (\A call : Calling(call) <=> op.todo[1][1] = call) /\ op.todo[1] = <<op.todo[1][1], Hostname>>
      /\ op.todo[1][1] \notin {"dump", "advertise"} => Hostname \in Host
      /\ Possible(proxy, inventory, op.do, op.todo[1]) /\ op.do \in {"publish", "remove", "sync", "redirect"}
      /\ \/ Len(op.todo) = 1
         \/ Len(op.todo) > 1 /\ Linked(op.todo[1], op.todo[2])
  BY <1>1, NextCall
<1>3. op.todo[1][1] \in Finals
  BY <1>2 DEF Save, Dump, Advertise, Finals
<1>4. Save => op.todo[1] = <<"save", Hostname>> /\ Hostname \in Host /\ op.do \in {"publish", "remove"}
              /\ inventory' = [inventory EXCEPT ![Hostname] = op.want]
  BY <1>2 DEF Save, Possible
<1>5. Dump => op.todo[1][1] = "dump" /\ proxy = "caddy"
  BY <1>2 DEF Dump, Possible, CaddyCalls, Basics, RestOK
<1>6. Advertise => op.todo[1][1] = "advertise" /\ op.do = "sync" /\ Len(op.todo) = 1
  BY <1>2 DEF Advertise, Possible, Linked, Follows
<1>7. /\ CommandOK(op', proxy, inventory)
      /\ \/ op' = NoOp /\ Len(op.todo) = 1
         \/ SameButTodo(op') /\ op'.todo # <<>> /\ Shifts(op.todo, op'.todo) /\ Len(op.todo) > 1
  BY <1>1, <1>2, AfterNone DEF Shifts
<1> QED BY <1>1, <1>3, <1>4, <1>5, <1>6, <1>7 DEF Finals

-----------------------------------------------------------------------------
(* Commands begin *)

Publishing == IF proxy = "caddy" THEN {"read-servers", "read-policies", "read-https", "read-http", "check"}
              ELSE {"root", "static", "restart", "fragment", "check"}

\* Lists of calls that publish the hostnames of S, each from its first call to its check.
Publications(S) ==
  {s \in Seq(Task) :
     /\ Chained(s) /\ \A i \in DOMAIN s : s[i][1] \in Publishing /\ s[i][2] \in S
     /\ s # <<>> => s[1][1] \in {"read-servers", "root", "fragment"} /\ s[Len(s)][1] = "check"}

\* Calls in a row for one hostname.
LEMMA ForChained ==
  ASSUME NEW h \in Host \cup {Absent}, NEW s \in Seq(Call),
         \A i \in 1..(Len(s) - 1) : Follows(s[i], s[i + 1])
  PROVE  Chained(For(h, s))
<1> DEFINE w == For(h, s)
<1>1. w \in Seq(Task) /\ Len(w) = Len(s) /\ \A i \in DOMAIN s : w[i] = <<s[i], h>>
  BY ForFacts
<1> HIDE DEF w
<1>2. ASSUME NEW i \in 1..(Len(w) - 1) PROVE Linked(w[i], w[i + 1])
  <2>1. i \in DOMAIN s /\ i + 1 \in DOMAIN s /\ i \in 1..(Len(s) - 1)
    BY <1>1
  <2>2. w[i] = <<s[i], h>> /\ w[i + 1] = <<s[i + 1], h>>
    BY <1>1, <2>1
  <2> QED BY <2>1, <2>2 DEF Linked
<1> QED BY <1>2 DEF Chained, w

LEMMA PublishFacts ==
  ASSUME proxy \in {"caddy", "traefik"}, NEW h \in Host
  PROVE  /\ PublishCalls(h) \in Publications({h}) /\ PublishCalls(h) # <<>>
         /\ \E i \in DOMAIN PublishCalls(h) : PublishCalls(h)[i] = <<"check", h>>
<1> DEFINE P == {"read-servers", "read-policies", "read-https", "read-http", "check",
                 "root", "static", "restart", "fragment"}
           x == (IF proxy = "caddy" THEN CaddyPublish ELSE TrustCalls \o <<"fragment">>) \o <<"check">>
           s1 == <<"read-servers", "read-policies", "read-https", "read-http", "check">>
           s2 == <<"root", "static", "restart", "fragment", "check">>
           s3 == <<"fragment", "check">>
<1>1. \A a, b, c, d \in P : <<a, b, c, d>> \o <<"check">> = <<a, b, c, d, "check">>
  <2>1. ASSUME NEW a \in P, NEW b \in P, NEW c \in P, NEW d \in P
        PROVE  <<a, b, c, d>> \o <<"check">> = <<a, b, c, d, "check">>
    <3> DEFINE e == "check"
               u == <<a, b, c, d>>
               t == <<e>>
               w == u \o t
               z == <<a, b, c, d, e>>
    <3>1. e \in P
      OBVIOUS
    <3> HIDE DEF e, P
    <3>2. u \in Seq(P) /\ Len(u) = 4 /\ u[1] = a /\ u[2] = b /\ u[3] = c /\ u[4] = d
      BY <2>1
    <3>3. t \in Seq(P) /\ Len(t) = 1 /\ t[1] = e
      BY <3>1
    <3>4. \A p, q \in Seq(P) :
            /\ p \o q \in Seq(P) /\ Len(p \o q) = Len(p) + Len(q)
            /\ \A i \in 1..Len(p) : (p \o q)[i] = p[i]
            /\ \A i \in 1..Len(q) : (p \o q)[Len(p) + i] = q[i]
      OBVIOUS
    <3>5. z \in Seq(P) /\ Len(z) = 5 /\ z[1] = a /\ z[2] = b /\ z[3] = c /\ z[4] = d /\ z[5] = e
      BY <2>1, <3>1
    <3> HIDE DEF u, t
    <3>6. /\ w \in Seq(P) /\ Len(w) = 4 + 1 /\ \A i \in 1..4 : w[i] = u[i]
          /\ \A i \in 1..1 : w[4 + i] = t[i]
      <4>1. /\ u \o t \in Seq(P) /\ Len(u \o t) = Len(u) + Len(t)
            /\ \A i \in 1..Len(u) : (u \o t)[i] = u[i]
            /\ \A i \in 1..Len(t) : (u \o t)[Len(u) + i] = t[i]
        BY <3>2, <3>3, <3>4
      <4> QED BY <3>2, <3>3, <4>1
    <3> HIDE DEF w, z
    <3>7. w[1] = a /\ w[2] = b /\ w[3] = c /\ w[4] = d /\ w[4 + 1] = e
      BY <3>2, <3>3, <3>6
    <3>8. \A i \in 1..5 : w[i] = z[i]
      BY <3>5, <3>7
    <3>9. w = z
      BY <3>5, <3>6, <3>8
    <3> QED BY <3>9 DEF w, z, u, t, e
  <2> QED BY <2>1
<1>2. \A a, b, c, d \in P : <<a, b, c>> \o <<d>> = <<a, b, c, d>>
  <2>1. ASSUME NEW a \in P, NEW b \in P, NEW c \in P, NEW d \in P
        PROVE  <<a, b, c>> \o <<d>> = <<a, b, c, d>>
    <3>1. <<b>> \o <<c>> = <<b, c>> /\ <<b, c>> \o <<d>> = <<b, c, d>> /\ <<a>> \o <<b, c, d>> = <<a, b, c, d>>
          /\ <<a>> \o <<b>> = <<a, b>> /\ <<a, b>> \o <<c>> = <<a, b, c>>
      <4> HIDE DEF P
      <4> QED BY <2>1, PairConcat, TripleConcat, FourConcat
    <3>2. \A p, q, r \in Seq(P) : (p \o q) \o r = p \o (q \o r)
      OBVIOUS
    <3> DEFINE sa == <<a>>
               sb == <<b>>
               sc == <<c>>
               sd == <<d>>
    <3>3. sa \in Seq(P) /\ sb \in Seq(P) /\ sc \in Seq(P) /\ sd \in Seq(P)
      BY <2>1
    <3> HIDE DEF sa, sb, sc, sd, P
    <3>4. sb \o sc \in Seq(P)
      BY <3>3
    <3>5. (sa \o sb) \o sc = sa \o (sb \o sc)
      BY <3>2, <3>3
    <3>6. (sa \o (sb \o sc)) \o sd = sa \o ((sb \o sc) \o sd)
      <4> DEFINE y == sb \o sc
      <4>1. y \in Seq(P)
        BY <3>4
      <4> HIDE DEF y
      <4>2. (sa \o y) \o sd = sa \o (y \o sd)
        BY <3>3, <4>1, ConcatAssociates, SMTT(30)
      <4> QED BY <4>2 DEF y
    <3> QED BY <3>1, <3>5, <3>6 DEF sa, sb, sc, sd
  <2> QED BY <2>1
<1>3. x \in {s1, s2, s3} /\ (proxy = "caddy" => x = s1) /\ (proxy # "caddy" => x # s1)
  <2>1. CASE proxy = "caddy"
    <3>1. x = CaddyPublish \o <<"check">>
      BY <2>1
    <3>2. x = s1
      <4>1. CaddyPublish \o <<"check">> = s1
        <5> DEFINE p == <<"read-servers", "read-policies", "read-https", "read-http">>
        <5>1. /\ "read-servers" \in P /\ "read-policies" \in P
              /\ "read-https" \in P /\ "read-http" \in P
          OBVIOUS
        <5>2. CaddyPublish = p
          BY DEF CaddyPublish
        <5>3. p \o <<"check">> = s1
          <6> HIDE DEF P
          <6> QED BY <1>1, <5>1
        <5> HIDE DEF p, s1
        <5> QED BY <5>2, <5>3
      <4> HIDE DEF x, s1
      <4> QED BY <3>1, <4>1
    <3> QED BY <2>1, <3>2
  <2>2. CASE proxy # "caddy" /\ traefik.stepCa
    <3>1. x = (<<"root", "static", "restart">> \o <<"fragment">>) \o <<"check">>
      BY <2>2 DEF TrustCalls
    <3>2. x = s2
      <4>1. <<"root", "static", "restart">> \o <<"fragment">> = <<"root", "static", "restart", "fragment">>
        BY <1>2
      <4>2. <<"root", "static", "restart", "fragment">> \o <<"check">> = s2
        BY <1>1
      <4> HIDE DEF x, s2
      <4> QED BY <3>1, <4>1, <4>2
    <3>3. s2[1] # s1[1]
      OBVIOUS
    <3> QED BY <2>2, <3>2, <3>3
  <2>3. CASE proxy # "caddy" /\ ~traefik.stepCa
    <3>1. x = (<<>> \o <<"fragment">>) \o <<"check">>
      BY <2>3 DEF TrustCalls
    <3>2. <<>> \o <<"fragment">> = <<"fragment">>
      OBVIOUS
    <3>3. \A a, b \in P : <<a>> \o <<b>> = <<a, b>>
      <4> HIDE DEF P
      <4> QED BY PairConcat
    <3>4. x = s3
      BY <3>1, <3>2, <3>3
    <3>5. s3[1] # s1[1]
      OBVIOUS
    <3> QED BY <2>3, <3>4, <3>5
  <2> QED BY <2>1, <2>2, <2>3
<1>4. PublishCalls(h) = For(h, x)
  BY DEF PublishCalls
<1> HIDE DEF x
<1>5. s1 \in Seq(Call) /\ s2 \in Seq(Call) /\ s3 \in Seq(Call)
  BY DEF Call
<1>6. /\ Len(s1) = 5 /\ s1[1] = "read-servers" /\ s1[2] = "read-policies" /\ s1[3] = "read-https"
      /\ s1[4] = "read-http" /\ s1[5] = "check"
      /\ Len(s2) = 5 /\ s2[1] = "root" /\ s2[2] = "static" /\ s2[3] = "restart"
      /\ s2[4] = "fragment" /\ s2[5] = "check"
      /\ Len(s3) = 2 /\ s3[1] = "fragment" /\ s3[2] = "check"
  OBVIOUS
<1> HIDE DEF s1, s2, s3
<1>7. x \in Seq(Call) /\ x # <<>> /\ Len(x) \in {2, 5} /\ x[Len(x)] = "check" /\ DOMAIN x = 1..Len(x)
      /\ x[1] \in {"read-servers", "root", "fragment"}
  <2>1. \A s \in Seq(Call) : DOMAIN s = 1..Len(s) /\ (Len(s) # 0 => s # <<>>)
    OBVIOUS
  <2>2. x \in Seq(Call) /\ Len(x) \in {2, 5} /\ x[Len(x)] = "check"
        /\ x[1] \in {"read-servers", "root", "fragment"}
    BY <1>3, <1>5, <1>6
  <2> QED BY <2>1, <2>2
<1>8. \A i \in 1..(Len(x) - 1) : Follows(x[i], x[i + 1])
  <2>1. \A i \in 1..(5 - 1) : Follows(s1[i], s1[i + 1])
    <3>1. \A i \in 1..(5 - 1) : i = 1 \/ i = 2 \/ i = 3 \/ i = 4
      OBVIOUS
    <3> QED BY <1>6, <3>1 DEF Follows
  <2>2. \A i \in 1..(5 - 1) : Follows(s2[i], s2[i + 1])
    <3>1. \A i \in 1..(5 - 1) : i = 1 \/ i = 2 \/ i = 3 \/ i = 4
      OBVIOUS
    <3> QED BY <1>6, <3>1 DEF Follows
  <2>3. \A i \in 1..(2 - 1) : Follows(s3[i], s3[i + 1])
    <3>1. \A i \in 1..(2 - 1) : i = 1
      OBVIOUS
    <3> QED BY <1>6, <3>1 DEF Follows
  <2> QED BY <1>3, <1>6, <2>1, <2>2, <2>3
<1>9. \A i \in DOMAIN x : x[i] \in Publishing
  <2>1. \A i \in 1..5 : i = 1 \/ i = 2 \/ i = 3 \/ i = 4 \/ i = 5
    OBVIOUS
  <2>2. \A i \in 1..2 : i = 1 \/ i = 2
    OBVIOUS
  <2>3. CASE proxy = "caddy"
    BY <1>3, <1>6, <1>7, <2>1, <2>3 DEF Publishing
  <2>4. CASE proxy # "caddy" /\ x = s2
    BY <1>6, <1>7, <2>1, <2>4 DEF Publishing
  <2>5. CASE proxy # "caddy" /\ x = s3
    BY <1>6, <1>7, <2>2, <2>5 DEF Publishing
  <2> QED BY <1>3, <2>3, <2>4, <2>5
<1> DEFINE w == For(h, x)
<1>10. w \in Seq(Task) /\ Len(w) = Len(x) /\ \A i \in DOMAIN x : w[i] = <<x[i], h>>
  BY <1>7, ForFacts
<1>11. Chained(w)
  BY <1>7, <1>8, ForChained
<1> HIDE DEF w
<1>12. DOMAIN w = DOMAIN x /\ w # <<>> /\ 1 \in DOMAIN x /\ Len(x) \in DOMAIN x
  BY <1>7, <1>10, EmptyFacts
<1>13. w \in Publications({h})
  BY <1>7, <1>9, <1>10, <1>11, <1>12 DEF Publications
<1> QED BY <1>4, <1>7, <1>10, <1>12, <1>13 DEF w

LEMMA RepublishFacts ==
  ASSUME RestOK
  PROVE  /\ RepublishCalls \in Publications(Published)
         /\ \A h \in Published : \E i \in DOMAIN RepublishCalls : RepublishCalls[i] = <<"check", h>>
<1> DEFINE Q == Publications(Published)
           n == Cardinality(Published)
           order == SetToSeq(Published)
           f == [i \in DOMAIN order |-> PublishCalls(order[i])]
<1>1. Published \subseteq Host /\ IsFiniteSet(Published)
  BY HostsAreFinite, FS_Subset DEF Published
<1>2. n \in Nat /\ order \in [1..n -> Published]
  BY <1>1, Enumeration
<1>3. \A h \in Published : \E i \in 1..n : order[i] = h
  BY <1>1, EnumerationIsComplete
<1> HIDE DEF n, order
<1>4. \A h \in Published : Publications({h}) \subseteq Q
  BY DEF Publications
<1>5. \A i \in 1..n : order[i] \in Published /\ order[i] \in Host
  BY <1>1, <1>2
<1>6. \A i \in 1..n : f[i] \in Q /\ \E j \in DOMAIN f[i] : f[i][j] = <<"check", order[i]>>
  <2>1. ASSUME NEW i \in 1..n PROVE f[i] \in Q /\ \E j \in DOMAIN f[i] : f[i][j] = <<"check", order[i]>>
    <3> DEFINE h == order[i]
    <3>1. h \in Host /\ h \in Published /\ f[i] = PublishCalls(h)
      BY <1>2, <1>5
    <3> HIDE DEF h
    <3>2. PublishCalls(h) \in Publications({h})
          /\ \E j \in DOMAIN PublishCalls(h) : PublishCalls(h)[j] = <<"check", h>>
      BY <3>1, PublishFacts DEF RestOK
    <3> HIDE DEF Q, f
    <3>3. f[i] \in Q
      BY <1>4, <3>1, <3>2
    <3> QED BY <3>1, <3>2, <3>3 DEF h
  <2> QED BY <2>1
<1>7. f \in [1..n -> Q]
  <2>1. f = [i \in 1..n |-> f[i]]
    BY <1>2
  <2> HIDE DEF f, Q
  <2> QED BY <1>6, <2>1
<1>8. Q \in SUBSET Seq(Task) /\ <<>> \in Q
  <2>1. <<>> \in Seq(Task) /\ DOMAIN <<>> = {} /\ 1..(Len(<<>>) - 1) = {}
    OBVIOUS
  <2> QED BY <2>1 DEF Publications, Chained
<1>9. \A s, t \in Q : s \o t \in Q
  <2>1. ASSUME NEW s \in Q, NEW t \in Q PROVE s \o t \in Q
    <3> DEFINE w == s \o t
    <3>1. s \in Seq(Task) /\ t \in Seq(Task) /\ Chained(s) /\ Chained(t)
      BY DEF Publications
    <3>2. /\ w \in Seq(Task)
          /\ \A i \in DOMAIN w : \/ i \in DOMAIN s /\ w[i] = s[i]
                                 \/ i - Len(s) \in DOMAIN t /\ w[i] = t[i - Len(s)]
          /\ s = <<>> => w = t
          /\ t = <<>> => w = s
          /\ s # <<>> => w # <<>> /\ w[1] = s[1]
          /\ t # <<>> => w # <<>> /\ w[Len(w)] = t[Len(t)]
      BY <3>1, JoinFacts
    <3>3. /\ s # <<>> => s[1][1] \in {"read-servers", "root", "fragment"} /\ s[Len(s)][1] = "check"
          /\ t # <<>> => t[1][1] \in {"read-servers", "root", "fragment"} /\ t[Len(t)][1] = "check"
          /\ \A i \in DOMAIN s : s[i][1] \in Publishing /\ s[i][2] \in Published
          /\ \A i \in DOMAIN t : t[i][1] \in Publishing /\ t[i][2] \in Published
      BY DEF Publications
    <3>4. s # <<>> /\ t # <<>> => Linked(s[Len(s)], t[1])
      BY <3>3 DEF Linked, Follows
    <3>5. Chained(w)
      BY <3>1, <3>4, JoinChained
    <3> HIDE DEF w, Q
    <3>6. w \in Publications(Published)
      BY <3>2, <3>3, <3>5 DEF Publications
    <3> QED BY <3>6 DEF w, Q
  <2> QED BY <2>1
<1>10. RepublishCalls = FlattenSeq(f)
  BY DEF RepublishCalls, order
<1> HIDE DEF f
<1>11. RepublishCalls \in Q
  <2> HIDE DEF Q
  <2> QED BY <1>2, <1>7, <1>8, <1>9, <1>10, FlattenClosed
<1>12. f \in [1..n -> Seq(Task)]
  BY <1>7, <1>8
<1>13. ASSUME NEW h \in Published
       PROVE  \E i \in DOMAIN RepublishCalls : RepublishCalls[i] = <<"check", h>>
  <2>1. PICK k \in 1..n : order[k] = h
    BY <1>3
  <2>2. PICK j \in DOMAIN f[k] : f[k][j] = <<"check", h>>
    BY <1>6, <2>1
  <2>3. \E i \in DOMAIN FlattenSeq(f) : FlattenSeq(f)[i] = f[k][j]
    <3>1. ASSUME NEW p \in Nat, NEW g \in [1..p -> Seq(Task)], NEW l \in 1..p, NEW m \in DOMAIN g[l]
          PROVE  \E i \in DOMAIN FlattenSeq(g) : FlattenSeq(g)[i] = g[l][m]
      <4> DEFINE T == Task
      <4> HIDE DEF T
      <4>1. g \in [1..p -> Seq(T)]
        BY DEF T
      <4> QED BY <4>1, FlattenMembers
    <3> QED BY <1>2, <1>12, <2>1, <2>2, <3>1
  <2> QED BY <1>10, <2>2, <2>3
<1> QED BY <1>11, <1>13

\* A list of calls for h that a command ends with.
Closing(h, s, firsts, calls) ==
  /\ s \in Seq(Task) /\ s # <<>> /\ Chained(s) /\ s[Len(s)][1] \in Finals /\ s[1][1] \in firsts
  /\ \A i \in DOMAIN s : s[i][1] \in calls /\ s[i][2] = h

LEMMA EndingFacts ==
  ASSUME proxy \in {"caddy", "traefik"}, NEW h \in Host \cup {Absent}
  PROVE  LET save == For(h, <<"save">> \o Dumping)
             sync == For(h, Dumping \o <<"advertise">>)
             dumping == For(h, Dumping)
             remove == For(h, (IF proxy = "caddy" THEN <<"read-servers", "read-removal">>
                               ELSE <<"unlink">>) \o Dumping \o <<"save">>)
         IN  /\ Closing(h, save, {"save"}, IF proxy = "caddy" THEN {"save", "dump"} ELSE {"save"})
             /\ Closing(h, sync, {"dump", "advertise"},
                IF proxy = "caddy" THEN {"dump", "advertise"} ELSE {"advertise"})
             /\ proxy = "caddy" => Closing(h, dumping, {"dump"}, {"dump"})
             /\ Closing(h, remove, {"read-servers", "unlink"},
                     IF proxy = "caddy" THEN {"read-servers", "read-removal", "dump", "save"}
                     ELSE {"unlink", "save"})
<1> DEFINE C == {"read-servers", "read-removal", "dump", "save", "unlink", "advertise"}
           Good(s, firsts, calls) ==
             /\ s \in Seq(Call) /\ Len(s) \in Nat \ {0} /\ \A i \in 1..(Len(s) - 1) : Follows(s[i], s[i + 1])
             /\ s[Len(s)] \in Finals /\ s[1] \in firsts /\ \A i \in 1..Len(s) : s[i] \in calls
<1>1. ASSUME NEW s, NEW firsts, NEW calls, Good(s, firsts, calls)
      PROVE  Closing(h, For(h, s), firsts, calls)
  <2> DEFINE w == For(h, s)
  <2>1. w \in Seq(Task) /\ Len(w) = Len(s) /\ \A i \in DOMAIN s : w[i] = <<s[i], h>>
    BY <1>1, ForFacts
  <2>2. Chained(w)
    BY <1>1, ForChained
  <2> HIDE DEF w
  <2>3. DOMAIN s = 1..Len(s) /\ DOMAIN w = 1..Len(s) /\ w # <<>> /\ 1 \in 1..Len(s) /\ Len(s) \in 1..Len(s)
    <3>1. Len(s) \in Nat /\ DOMAIN s = 1..Len(s) /\ Len(s) # 0
      BY <1>1
    <3> DEFINE n == Len(s)
    <3>2. DOMAIN w = 1..n /\ w # <<>>
      BY <2>1, <3>1, EmptyFacts
    <3> HIDE DEF n
    <3>3. n \in Nat /\ n # 0 => 1 \in 1..n /\ n \in 1..n
      OBVIOUS
    <3> QED BY <3>1, <3>2, <3>3 DEF n
  <2>4. \A i \in DOMAIN w : w[i][1] = s[i] /\ w[i][2] = h
    BY <2>1, <2>3
  <2>5. w[Len(w)][1] \in Finals /\ w[1][1] \in firsts /\ \A i \in DOMAIN w : w[i][1] \in calls /\ w[i][2] = h
    BY <1>1, <2>1, <2>3, <2>4
  <2> QED BY <2>1, <2>2, <2>3, <2>5 DEF w, Closing
<1>2. /\ Follows("save", "dump") /\ Follows("dump", "advertise") /\ Follows("dump", "save")
      /\ Follows("read-servers", "read-removal") /\ Follows("read-removal", "dump") /\ Follows("unlink", "save")
  BY DEF Follows
<1>3. C \subseteq Call
  BY DEF Call, C
<1>4. ASSUME NEW a \in C \cap Finals, NEW firsts, NEW calls, a \in firsts, a \in calls
      PROVE  Good(<<a>>, firsts, calls)
  <2> DEFINE s == <<a>>
  <2>1. s \in Seq(Call) /\ Len(s) = 1 /\ s[1] = a
    BY <1>3
  <2> HIDE DEF s
  <2>2. (\A i \in 1..1 : i = 1) /\ 1..(1 - 1) = {}
    OBVIOUS
  <2> QED BY <1>4, <2>1, <2>2 DEF s
<1>5. ASSUME NEW a \in C, NEW b \in C \cap Finals, NEW firsts, NEW calls, a \in firsts,
      {a, b} \subseteq calls, Follows(a, b)
      PROVE  Good(<<a, b>>, firsts, calls)
  <2> DEFINE s == <<a, b>>
  <2>1. s \in Seq(Call) /\ Len(s) = 2 /\ s[1] = a /\ s[2] = b
    BY <1>3
  <2> HIDE DEF s
  <2>2. (\A i \in 1..2 : i = 1 \/ i = 2) /\ (\A i \in 1..(2 - 1) : i = 1)
    OBVIOUS
  <2> QED BY <1>5, <2>1, <2>2 DEF s
<1>6. ASSUME NEW firsts, NEW calls, "read-servers" \in firsts,
             {"read-servers", "read-removal", "dump", "save"} \subseteq calls
      PROVE  Good(<<"read-servers", "read-removal", "dump", "save">>, firsts, calls)
  <2> DEFINE s == <<"read-servers", "read-removal", "dump", "save">>
  <2>1. /\ s \in Seq(Call) /\ Len(s) = 4
        /\ s[1] = "read-servers" /\ s[2] = "read-removal" /\ s[3] = "dump" /\ s[4] = "save"
    BY DEF Call
  <2> HIDE DEF s
  <2>2. (\A i \in 1..4 : i = 1 \/ i = 2 \/ i = 3 \/ i = 4) /\ (\A i \in 1..(4 - 1) : i = 1 \/ i = 2 \/ i = 3)
    OBVIOUS
  <2> QED BY <1>2, <1>6, <2>1, <2>2 DEF s, Finals
<1>7. \A a, b \in C : <<a>> \o <<b>> = <<a, b>>
  <2> HIDE DEF C
  <2> QED BY PairConcat
<1>8. \A a, b, c \in C : <<a, b>> \o <<c>> = <<a, b, c>>
  <2> HIDE DEF C
  <2> QED BY TripleConcat
<1>9. \A a \in C : <<a>> \o <<>> = <<a>> /\ <<>> \o <<a>> = <<a>>
  OBVIOUS
<1>10. CASE proxy = "caddy"
  <2>1. Dumping = <<"dump">>
    BY <1>10 DEF Dumping
  <2>2. <<"save">> \o Dumping = <<"save", "dump">> /\ Dumping \o <<"advertise">> = <<"dump", "advertise">>
    BY <1>7, <2>1
  <2>3. <<"read-servers", "read-removal">> \o Dumping \o <<"save">>
        = <<"read-servers", "read-removal", "dump", "save">>
    <3> DEFINE s == <<"read-servers", "read-removal">>
               t == <<"dump">>
               u == <<"save">>
    <3>1. s \in Seq(C) /\ t \in Seq(C) /\ u \in Seq(C)
      OBVIOUS
    <3>2. s \o t = <<"read-servers", "read-removal", "dump">>
      BY <1>8
    <3>3. t \o u = <<"dump", "save">>
      BY <1>7
    <3>4. <<"read-servers">> \o <<"read-removal", "dump", "save">>
          = <<"read-servers", "read-removal", "dump", "save">>
      <4>1. "read-servers" \in C /\ "read-removal" \in C /\ "dump" \in C /\ "save" \in C
        OBVIOUS
      <4> HIDE DEF C
      <4> QED BY <4>1, FourConcat
    <3> DEFINE a == <<"read-servers">>
               b == <<"read-removal">>
    <3>5. a \in Seq(C) /\ b \in Seq(C) /\ s = a \o b
      BY <1>7
    <3>6. b \o t = <<"read-removal", "dump">>
      BY <1>7
    <3>7. <<"read-removal", "dump">> \o u = <<"read-removal", "dump", "save">>
      BY <1>8
    <3> HIDE DEF s, t, u, a, b, C
    <3>8. \A p, q, r \in Seq(C) : (p \o q) \o r = p \o (q \o r) /\ p \o q \in Seq(C)
      OBVIOUS
    <3>9. (s \o t) \o u = a \o ((b \o t) \o u)
      <4>1. s \o t = a \o (b \o t) /\ b \o t \in Seq(C)
        <5>1. (a \o b) \o t = a \o (b \o t)
          BY <3>1, <3>5, ConcatAssociates
        <5>2. b \o t \in Seq(C)
          BY <3>1, <3>5
        <5> QED BY <3>5, <5>1, <5>2
      <4>2. (a \o (b \o t)) \o u = a \o ((b \o t) \o u)
        <5> DEFINE v == b \o t
        <5>1. v \in Seq(C)
          BY <4>1
        <5> HIDE DEF v
        <5>2. (a \o v) \o u = a \o (v \o u)
          <6>1. a \in Seq(C) /\ u \in Seq(C)
            BY <3>1, <3>5
          <6> QED BY <5>1, <6>1, ConcatAssociates
        <5> QED BY <5>2 DEF v
      <4> QED BY <4>1, <4>2
    <3> QED BY <2>1, <3>4, <3>6, <3>7, <3>9 DEF s, t, u, a
  <2>4. Closing(h, For(h, <<"save">> \o Dumping), {"save"}, {"save", "dump"})
    <3>1. Good(<<"save", "dump">>, {"save"}, {"save", "dump"})
      <4>1. "save" \in C /\ "dump" \in C \cap Finals
        BY DEF Finals
      <4> HIDE DEF Good, C
      <4> QED BY <1>2, <1>5, <4>1
    <3> HIDE DEF Good
    <3> QED BY <1>1, <2>2, <3>1
  <2>5. Closing(h, For(h, Dumping \o <<"advertise">>), {"dump", "advertise"}, {"dump", "advertise"})
    <3>1. Good(<<"dump", "advertise">>, {"dump", "advertise"}, {"dump", "advertise"})
      <4>1. "dump" \in C /\ "advertise" \in C \cap Finals
        BY DEF Finals
      <4> HIDE DEF Good, C
      <4> QED BY <1>2, <1>5, <4>1
    <3> HIDE DEF Good
    <3> QED BY <1>1, <2>2, <3>1
  <2>6. Closing(h, For(h, Dumping), {"dump"}, {"dump"})
    <3>1. Good(<<"dump">>, {"dump"}, {"dump"})
      <4>1. "dump" \in C \cap Finals
        BY DEF Finals
      <4> HIDE DEF Good, C
      <4> QED BY <1>4, <4>1
    <3> HIDE DEF Good
    <3> QED BY <1>1, <2>1, <3>1
  <2>7. Closing(h, For(h, <<"read-servers", "read-removal">> \o Dumping \o <<"save">>),
        {"read-servers", "unlink"},
             {"read-servers", "read-removal", "dump", "save"})
    <3>1. Good(<<"read-servers", "read-removal", "dump", "save">>, {"read-servers", "unlink"},
               {"read-servers", "read-removal", "dump", "save"})
      <4> HIDE DEF Good
      <4> QED BY <1>6
    <3> HIDE DEF Good
    <3> QED BY <1>1, <2>3, <3>1
  <2>8. QED
    BY <1>10, <2>4, <2>5, <2>6, <2>7
<1>11. CASE proxy # "caddy"
  <2>1. Dumping = <<>>
    BY <1>11 DEF Dumping
  <2>2. <<"save">> \o Dumping = <<"save">> /\ Dumping \o <<"advertise">> = <<"advertise">>
    BY <1>9, <2>1
  <2>3. <<"unlink">> \o Dumping \o <<"save">> = <<"unlink", "save">>
    BY <1>7, <1>9, <2>1
  <2>4. Closing(h, For(h, <<"save">> \o Dumping), {"save"}, {"save"})
    <3>1. Good(<<"save">>, {"save"}, {"save"})
      <4>1. "save" \in C \cap Finals
        BY DEF Finals
      <4> HIDE DEF Good, C
      <4> QED BY <1>4, <4>1
    <3> HIDE DEF Good
    <3> QED BY <1>1, <2>2, <3>1
  <2>5. Closing(h, For(h, Dumping \o <<"advertise">>), {"dump", "advertise"}, {"advertise"})
    <3>1. Good(<<"advertise">>, {"dump", "advertise"}, {"advertise"})
      <4>1. "advertise" \in C \cap Finals
        BY DEF Finals
      <4> HIDE DEF Good, C
      <4> QED BY <1>4, <4>1
    <3> HIDE DEF Good
    <3> QED BY <1>1, <2>2, <3>1
  <2>6. Closing(h, For(h, <<"unlink">> \o Dumping \o <<"save">>), {"read-servers", "unlink"}, {"unlink", "save"})
    <3>1. Good(<<"unlink", "save">>, {"read-servers", "unlink"}, {"unlink", "save"})
      <4>1. "unlink" \in C /\ "save" \in C \cap Finals
        BY DEF Finals
      <4> HIDE DEF Good, C
      <4> QED BY <1>2, <1>5, <4>1
    <3> HIDE DEF Good
    <3> QED BY <1>1, <2>3, <3>1
  <2> QED BY <1>11, <2>4, <2>5, <2>6
<1> QED BY <1>10, <1>11

\* A command that has just begun.
Fresh(do, want, s) == [do |-> do, todo |-> s, want |-> want, done |-> {}, torn |-> FALSE,
                       moving |-> FALSE, verified |-> {}, stale |-> {}]

IsFresh(o, do, want, s) ==
  /\ o \in Op /\ o.do = do /\ o.want = want /\ o.todo = s /\ o.done = {} /\ o.torn = FALSE
  /\ o.moving = FALSE /\ o.verified = {} /\ o.stale = {}

LEMMA Begun ==
  ASSUME NEW do \in {"publish", "remove", "sync", "redirect"}, NEW want \in Request \cup {Absent},
         NEW s \in Seq(Task)
  PROVE  IsFresh(Fresh(do, want, s), do, want, s)
<1> DEFINE R == Seq(Task)
           o == Fresh(do, want, s)
<1>1. s \in R
  OBVIOUS
<1> HIDE DEF R
<1>2. o \in [do : {"none", "publish", "remove", "sync", "redirect"},
             todo : R, want : Request \cup {Absent},
             done : SUBSET Host, torn : BOOLEAN, moving : BOOLEAN,
             verified : SUBSET Host, stale : SUBSET Host]
  BY <1>1 DEF Fresh
<1>3. /\ o.do = do /\ o.want = want /\ o.todo = s /\ o.done = {} /\ o.torn = FALSE
      /\ o.moving = FALSE /\ o.verified = {} /\ o.stale = {}
  BY DEF Fresh
<1> QED BY <1>2, <1>3, OpType DEF R, IsFresh

\* Hostnames are published, and then the command ends.
LEMMA PublishedThenClosed ==
  ASSUME NEW S \in SUBSET Host, NEW s \in Publications(S), NEW h, NEW t, NEW firsts, NEW calls,
         Closing(h, t, firsts, calls), firsts \subseteq Finals
  PROVE  /\ s \o t \in Seq(Task) /\ s \o t # <<>> /\ Ordered(s \o t)
         /\ \A i \in DOMAIN (s \o t) : \/ (s \o t)[i][1] \in Publishing /\ (s \o t)[i][2] \in S
                                       \/ (s \o t)[i][1] \in calls /\ (s \o t)[i][2] = h
         /\ \A i \in DOMAIN s : i \in DOMAIN (s \o t) /\ (s \o t)[i] = s[i]
         /\ s = <<>> => (s \o t)[1][1] \in firsts
         /\ s # <<>> => (s \o t)[1][1] \in {"read-servers", "root", "fragment"}
<1> DEFINE w == s \o t
<1>1. s \in Seq(Task) /\ Chained(s) /\ t \in Seq(Task) /\ Chained(t) /\ t # <<>>
  BY DEF Publications, Closing
<1>2. /\ w \in Seq(Task)
      /\ \A i \in DOMAIN w : \/ i \in DOMAIN s /\ w[i] = s[i]
                             \/ i - Len(s) \in DOMAIN t /\ w[i] = t[i - Len(s)]
      /\ \A i \in DOMAIN s : i \in DOMAIN w /\ w[i] = s[i]
      /\ s = <<>> => w = t
      /\ s # <<>> => w # <<>> /\ w[1] = s[1]
      /\ t # <<>> => w # <<>> /\ w[Len(w)] = t[Len(t)]
  BY <1>1, JoinFacts
<1>3. /\ s # <<>> => s[1][1] \in {"read-servers", "root", "fragment"} /\ s[Len(s)][1] = "check"
      /\ \A i \in DOMAIN s : s[i][1] \in Publishing /\ s[i][2] \in S
      /\ t[Len(t)][1] \in Finals /\ t[1][1] \in firsts
      /\ \A i \in DOMAIN t : t[i][1] \in calls /\ t[i][2] = h
  BY DEF Publications, Closing
<1>4. s # <<>> /\ t # <<>> => Linked(s[Len(s)], t[1])
  BY <1>3 DEF Linked, Follows
<1>5. Chained(w)
  BY <1>1, <1>4, JoinChained
<1> HIDE DEF w
<1>6. Ordered(w)
  BY <1>1, <1>2, <1>3, <1>5 DEF Ordered
<1>7. \A i \in DOMAIN w : \/ w[i][1] \in Publishing /\ w[i][2] \in S
                          \/ w[i][1] \in calls /\ w[i][2] = h
  BY <1>2, <1>3
<1> QED BY <1>1, <1>2, <1>3, <1>6, <1>7 DEF w

\* What a command starts with.
Beginning(o) ==
  /\ CommandOK(o, proxy, inventory) /\ o.todo # <<>> /\ 1 \in DOMAIN o.todo
  /\ o.torn = FALSE /\ o.moving = FALSE /\ o.done = {} /\ o.verified = {} /\ o.stale = {}
  /\ o.todo[1][1] \in {"read-servers", "root", "fragment", "unlink"} \cup Finals
  /\ proxy = "caddy" => o.todo[1][1] = "read-servers" \/ o.do \in {"sync", "redirect"}
  /\ o.do = "sync" => \A h \in Published : \E i \in DOMAIN o.todo : o.todo[i] = <<"check", h>>
  /\ \A i \in DOMAIN o.todo : o.todo[i][1] \notin Writes

LEMMA BeginPublishFacts ==
  ASSUME Basics, BeginPublish
  PROVE  op = NoOp /\ Beginning(op') /\ op'.do = "publish"
<1>1. PICK h \in Host, r \in Request :
        /\ op = NoOp
        /\ op' = [NoOp EXCEPT !.do = "publish", !.want = r,
                              !.todo = PublishCalls(h) \o For(h, <<"save">> \o Dumping)]
  BY DEF BeginPublish
<1> DEFINE s == PublishCalls(h)
           t == For(h, <<"save">> \o Dumping)
           w == s \o t
           calls == IF proxy = "caddy" THEN {"save", "dump"} ELSE {"save"}
           do == "publish"
<1>2. proxy \in {"caddy", "traefik"} /\ h \in Host \cup {Absent} /\ {h} \in SUBSET Host /\ h # Absent
  BY AbsentIsNoHost DEF Basics, RestOK
<1>3. s \in Publications({h}) /\ s # <<>>
  BY <1>2, PublishFacts
<1>4. Closing(h, t, {"save"}, calls)
  BY <1>2, EndingFacts
<1>5. {"save"} \subseteq Finals
  BY DEF Finals
<1> HIDE DEF s, t
<1>6. /\ w \in Seq(Task) /\ w # <<>> /\ Ordered(w)
      /\ \A i \in DOMAIN w : \/ w[i][1] \in Publishing /\ w[i][2] \in {h}
                             \/ w[i][1] \in calls /\ w[i][2] = h
      /\ w[1][1] \in {"read-servers", "root", "fragment"}
  BY <1>2, <1>3, <1>4, <1>5, PublishedThenClosed
<1>7. op' = Fresh(do, r, w)
  BY <1>1 DEF s, t, NoOp, Fresh
<1>8. do \in {"publish", "remove", "sync", "redirect"} /\ do = "publish"
  OBVIOUS
<1> HIDE DEF do, w
<1>9. /\ op' \in Op /\ op'.do = do /\ op'.want = r /\ op'.todo = w /\ op'.done = {} /\ op'.torn = FALSE
      /\ op'.moving = FALSE /\ op'.verified = {} /\ op'.stale = {}
  <2>1. IsFresh(Fresh(do, r, w), do, r, w)
    BY <1>6, <1>8, Begun
  <2> QED BY <1>7, <2>1 DEF IsFresh
<1>10. \A i \in DOMAIN w : Possible(proxy, inventory, do, w[i])
  BY <1>2, <1>6, <1>8 DEF Possible, Publishing, TraefikCalls, CaddyCalls, Writes, ReadCalls, Removal
<1>11. CommandOK(op', proxy, inventory)
  BY <1>6, <1>8, <1>9, <1>10 DEF CommandOK
<1>12. 1 \in DOMAIN w
  BY <1>6, EmptyFacts
<1>13. proxy = "caddy" => w[1][1] = "read-servers"
  BY <1>6, <1>12 DEF Publishing, calls
<1>14. \A i \in DOMAIN w : w[i][1] \notin Writes
  BY <1>6 DEF Publishing, Writes
<1> QED BY <1>1, <1>6, <1>8, <1>9, <1>11, <1>12, <1>13, <1>14 DEF Beginning

LEMMA BeginRemoveFacts ==
  ASSUME Basics, BeginRemove
  PROVE  /\ op = NoOp /\ Beginning(op') /\ op'.do = "remove"
         /\ \E h \in Published : /\ kept' = kept \ {h} /\ dump' = [dump EXCEPT !.hosts = @ \ {h}]
                                 /\ \A i \in DOMAIN op'.todo : op'.todo[i][2] = h
<1>1. PICK h \in Published :
        /\ Starts("remove", For(h, (IF proxy = "caddy" THEN <<"read-servers", "read-removal">>
                                    ELSE <<"unlink">>) \o Dumping \o <<"save">>))
        /\ kept' = kept \ {h}
        /\ dump' = [dump EXCEPT !.hosts = @ \ {h}]
  BY DEF BeginRemove
<1> DEFINE w == For(h, (IF proxy = "caddy" THEN <<"read-servers", "read-removal">>
                        ELSE <<"unlink">>) \o Dumping \o <<"save">>)
           calls == IF proxy = "caddy" THEN {"read-servers", "read-removal", "dump", "save"}
           ELSE {"unlink", "save"}
           do == "remove"
<1>2. proxy \in {"caddy", "traefik"} /\ h \in Host \cup {Absent} /\ h # Absent
  BY AbsentIsNoHost DEF Basics, RestOK, Published
<1>3. Closing(h, w, {"read-servers", "unlink"}, calls)
  BY <1>2, EndingFacts
<1>4. op = NoOp /\ op' = Fresh(do, Absent, w)
  BY <1>1 DEF Starts, NoOp, Fresh
<1>5. do \in {"publish", "remove", "sync", "redirect"} /\ do = "remove"
  OBVIOUS
<1> HIDE DEF do, w
<1>6. /\ w \in Seq(Task) /\ w # <<>> /\ Ordered(w) /\ w[1][1] \in {"read-servers", "unlink"}
      /\ \A i \in DOMAIN w : w[i][1] \in calls /\ w[i][2] = h
  BY <1>3 DEF Closing, Ordered
<1>7. /\ op' \in Op /\ op'.do = do /\ op'.want = Absent /\ op'.todo = w /\ op'.done = {} /\ op'.torn = FALSE
      /\ op'.moving = FALSE /\ op'.verified = {} /\ op'.stale = {}
  <2>1. Absent \in Request \cup {Absent}
    OBVIOUS
  <2>2. IsFresh(Fresh(do, Absent, w), do, Absent, w)
    BY <1>5, <1>6, <2>1, Begun
  <2> QED BY <1>4, <2>2 DEF IsFresh
<1>8. \A i \in DOMAIN w : Possible(proxy, inventory, do, w[i])
  BY <1>2, <1>5, <1>6 DEF Possible, TraefikCalls, CaddyCalls, Writes, ReadCalls, Removal, Publication
<1>9. CommandOK(op', proxy, inventory)
  BY <1>5, <1>6, <1>7, <1>8 DEF CommandOK
<1>10. 1 \in DOMAIN w
  BY <1>6, EmptyFacts
<1>11. proxy = "caddy" => w[1][1] = "read-servers"
  BY <1>6, <1>10 DEF calls
<1>12. \A i \in DOMAIN op'.todo : op'.todo[i][2] = h
  BY <1>6, <1>7
<1>13. \A i \in DOMAIN w : w[i][1] \notin Writes
  BY <1>6 DEF calls, Writes
<1>14. Beginning(op')
  BY <1>5, <1>6, <1>7, <1>9, <1>10, <1>11, <1>13 DEF Beginning
<1> QED BY <1>1, <1>4, <1>5, <1>7, <1>12, <1>14

\* Both commands that publish everything again.
LEMMA BeginRepublishFacts ==
  ASSUME Basics, NEW do \in {"sync", "redirect"}, NEW t, NEW calls,
         Closing(Absent, t, {"dump", "advertise"}, calls), calls \subseteq {"dump", "advertise"},
         do = "redirect" => "advertise" \notin calls,
         proxy = "traefik" => "dump" \notin calls,
         op' = [NoOp EXCEPT !.do = do, !.todo = RepublishCalls \o t]
  PROVE  Beginning(op') /\ op'.do = do
<1> DEFINE s == RepublishCalls
           w == s \o t
<1>1. /\ s \in Publications(Published)
      /\ \A h \in Published : \E i \in DOMAIN s : s[i] = <<"check", h>>
  BY RepublishFacts DEF Basics
<1>2. Published \in SUBSET Host /\ {"dump", "advertise"} \subseteq Finals /\ proxy \in {"caddy", "traefik"}
      /\ Absent \notin Published
  BY AbsentIsNoHost DEF Published, Finals, Basics, RestOK
<1> HIDE DEF s
<1>3. /\ w \in Seq(Task) /\ w # <<>> /\ Ordered(w)
      /\ \A i \in DOMAIN w : \/ w[i][1] \in Publishing /\ w[i][2] \in Published
                             \/ w[i][1] \in calls /\ w[i][2] = Absent
      /\ \A i \in DOMAIN s : i \in DOMAIN w /\ w[i] = s[i]
      /\ w[1][1] \in {"read-servers", "root", "fragment", "dump", "advertise"}
  BY <1>1, <1>2, PublishedThenClosed
<1>4. op' = Fresh(do, Absent, w)
  BY DEF s, NoOp, Fresh
<1> HIDE DEF w
<1>5. /\ op' \in Op /\ op'.do = do /\ op'.want = Absent /\ op'.todo = w /\ op'.done = {} /\ op'.torn = FALSE
      /\ op'.moving = FALSE /\ op'.verified = {} /\ op'.stale = {}
  <2>1. Absent \in Request \cup {Absent} /\ do \in {"publish", "remove", "sync", "redirect"}
    OBVIOUS
  <2>2. IsFresh(Fresh(do, Absent, w), do, Absent, w)
    BY <1>3, <2>1, Begun
  <2> QED BY <1>4, <2>2 DEF IsFresh
<1>6. ASSUME NEW i \in DOMAIN w PROVE Possible(proxy, inventory, do, w[i])
  <2>1. CASE w[i][1] \in Publishing /\ w[i][2] \in Published
    <3>1. w[i][2] # Absent /\ inventory[w[i][2]] # Absent
      BY <1>2, <2>1 DEF Published
    <3> QED BY <1>2, <2>1, <3>1 DEF Possible, Publishing, TraefikCalls, CaddyCalls, Writes, ReadCalls, Removal
  <2>2. CASE w[i][1] \in calls /\ w[i][2] = Absent
    BY <1>2, <2>2 DEF Possible, TraefikCalls, CaddyCalls, Writes, ReadCalls, Removal
  <2> QED BY <1>3, <2>1, <2>2
<1>7. CommandOK(op', proxy, inventory)
  BY <1>3, <1>5, <1>6 DEF CommandOK
<1>8. 1 \in DOMAIN w
  BY <1>3, EmptyFacts
<1>9. \A h \in Published : \E i \in DOMAIN w : w[i] = <<"check", h>>
  BY <1>1, <1>3
<1>10. \A i \in DOMAIN w : w[i][1] \notin Writes
  BY <1>3 DEF Publishing, Writes
<1> QED BY <1>3, <1>5, <1>7, <1>8, <1>9, <1>10 DEF Beginning, Finals

LEMMA CommandFacts ==
  ASSUME Basics, Command
  PROVE  /\ op = NoOp /\ Beginning(op') /\ Used("commands")
         /\ UNCHANGED <<proxies, proxy, inventory>> /\ redirecting' \in BOOLEAN
         /\ op'.do # "remove" => UNCHANGED <<kept, dump>>
         /\ op'.do = "remove" =>
              \E h \in Published : /\ kept' = kept \ {h} /\ dump' = [dump EXCEPT !.hosts = @ \ {h}]
                                   /\ \A i \in DOMAIN op'.todo : op'.todo[i][2] = h
<1>1. redirecting \in BOOLEAN /\ proxy \in {"caddy", "traefik"} /\ Absent \in Host \cup {Absent}
  BY DEF Basics, RestOK
<1>2. CASE BeginPublish
  <2>1. Used("commands") /\ UNCHANGED <<proxies, proxy, project, dump, kept>>
    BY <1>2 DEF BeginPublish
  <2> QED BY <1>1, <1>2, <2>1, BeginPublishFacts DEF project
<1>3. CASE BeginRemove
  <2>1. Used("commands") /\ UNCHANGED <<proxies, proxy, project>>
    BY <1>3 DEF BeginRemove, Starts
  <2> QED BY <1>1, <1>3, <2>1, BeginRemoveFacts DEF project
<1>4. CASE BeginSync
  <2> DEFINE t == For(Absent, Dumping \o <<"advertise">>)
             calls == IF proxy = "caddy" THEN {"dump", "advertise"} ELSE {"advertise"}
             do == "sync"
  <2>1. Used("commands") /\ UNCHANGED <<proxies, proxy, project, dump, kept>> /\ op = NoOp
        /\ op' = [NoOp EXCEPT !.do = do, !.todo = RepublishCalls \o t]
    BY <1>4 DEF BeginSync, Starts
  <2>2. Closing(Absent, t, {"dump", "advertise"}, calls)
    BY <1>1, EndingFacts
  <2>3. calls \subseteq {"dump", "advertise"} /\ (proxy = "traefik" => "dump" \notin calls)
        /\ do \in {"sync", "redirect"} /\ do = "sync"
    OBVIOUS
  <2> HIDE DEF t, calls, do
  <2>4. Beginning(op') /\ op'.do = do
    BY <2>1, <2>2, <2>3, BeginRepublishFacts
  <2> QED BY <1>1, <2>1, <2>3, <2>4 DEF project
<1>5. CASE BeginRedirect
  <2> DEFINE t == For(Absent, Dumping)
             calls == {"dump"}
             do == "redirect"
  <2>1. /\ Used("commands") /\ UNCHANGED <<proxies, proxy, inventory, dump, kept>> /\ op = NoOp
        /\ op' = [NoOp EXCEPT !.do = do, !.todo = RepublishCalls \o t]
        /\ proxy = "caddy" /\ redirecting' = ~redirecting
    BY <1>5 DEF BeginRedirect, Starts
  <2>2. Closing(Absent, t, {"dump"}, calls)
    BY <1>1, <2>1, EndingFacts
  <2>3. calls \subseteq {"dump", "advertise"} /\ "advertise" \notin calls
        /\ do \in {"sync", "redirect"} /\ do = "redirect"
    OBVIOUS
  <2> HIDE DEF t, calls, do
  <2>4. Closing(Absent, t, {"dump", "advertise"}, calls)
    BY <2>2 DEF Closing
  <2>5. Beginning(op') /\ op'.do = do
    BY <2>1, <2>3, <2>4, BeginRepublishFacts
  <2> QED BY <1>1, <2>1, <2>3, <2>5
<1> QED BY <1>2, <1>3, <1>4, <1>5 DEF Command

-----------------------------------------------------------------------------
(* Every action keeps them *)

LEMMA InitBasics == Init => Basics
<1> SUFFICES ASSUME Init PROVE Basics
  OBVIOUS
<1>1. OpOK /\ MovingOK
  BY NoCommand, OpType DEF Init, OpOK, MovingOK
<1>2. DraftOK
  <2>1. <<>> \in Seq(HttpsRoute) /\ <<>> \in Seq(HttpRoute) /\ DOMAIN <<>> = {} /\ {} \in SUBSET Host
    OBVIOUS
  <2>2. draft = NoDraft
    BY DEF Init, CaddyInit
  <2> QED BY <2>1, <2>2 DEF DraftOK, NoDraft, Proper
<1>3. inventory \in [Host -> Request \cup {Absent}] /\ kept \subseteq Host
      /\ \E live : ConfigOK(live)
           /\ (caddy = [live |-> live, file |-> <<>>] \/ caddy = [live |-> live, file |-> <<live>>])
  <2>1. CASE inventory = [h \in Host |-> Absent] /\ kept = {} /\ CaddyInit(Installed, <<>>)
    BY <2>1, InstalledFacts DEF CaddyInit
  <2>2. ASSUME NEW h \in Host, NEW r \in Request, inventory = [g \in Host |-> IF g = h THEN r ELSE Absent],
               kept = {h}, CaddyInit(Legacy(h, r), <<Legacy(h, r)>>)
        PROVE  <1>3!:
    BY <2>2, InstalledFacts DEF CaddyInit
  <2> QED BY <2>1, <2>2 DEF Init
<1>4. dump = NoDump /\ NoDump \in [open : BOOLEAN, hosts : SUBSET Host] /\ ~NoDump.open
  BY DEF Init, NoDump
<1>5. CaddyOK
  <2>1. PICK live : ConfigOK(live)
        /\ (caddy = [live |-> live, file |-> <<>>] \/ caddy = [live |-> live, file |-> <<live>>])
    BY <1>3
  <2> DEFINE R == Seq(Config)
  <2>2. live \in Config /\ <<>> \in R /\ <<live>> \in R /\ DOMAIN <<>> = {} /\ Len(<<>>) = 0
        /\ DOMAIN <<live>> = {1} /\ Len(<<live>>) = 1 /\ <<live>>[1] = live
    BY <2>1 DEF ConfigOK
  <2>3. CaddyType = [live : Config, file : R]
    BY DEF CaddyType
  <2> HIDE DEF R
  <2>4. caddy \in CaddyType
    BY <2>1, <2>2, <2>3
  <2>5. CASE caddy = [live |-> live, file |-> <<>>]
    <3>1. caddy.live = live /\ caddy.file = <<>>
      BY <2>5
    <3> QED BY <1>4, <2>1, <2>2, <2>4, <3>1 DEF CaddyOK
  <2>6. CASE caddy = [live |-> live, file |-> <<live>>]
    <3>1. caddy.live = live /\ caddy.file = <<live>>
      BY <2>6
    <3> QED BY <1>4, <2>1, <2>2, <2>4, <3>1 DEF CaddyOK
  <2> QED BY <2>1, <2>5, <2>6
<1>6. traefik \in TraefikType /\ trust \in TrustType
  <2> DEFINE F == [Host -> Fragment \cup {Absent}]
  <2>1. [h \in Host |-> Absent] \in F
    OBVIOUS
  <2> HIDE DEF F
  <2>2. \A s \in BOOLEAN, t \in {"plain", "own"} : TraefikInit(s, t)
          => traefik \in TraefikType /\ trust \in TrustType
    BY <2>1 DEF TraefikInit, TraefikType, TrustType, NoTrust, F
  <2> QED BY <2>2 DEF Init
<1>7. count \in [DOMAIN Bound -> Nat]
  BY DEF Init
<1>8. proxy \in {"caddy", "traefik"} /\ redirecting \in BOOLEAN
  BY DEF Init
<1> QED BY <1>1, <1>2, <1>3, <1>4, <1>5, <1>6, <1>7, <1>8 DEF Basics, RestOK

LEMMA CommandBasics == ASSUME Basics, Command PROVE Basics'
<1>1. /\ Beginning(op') /\ Used("commands") /\ UNCHANGED <<caddy, draft, traefik, trust, proxy, inventory>>
      /\ redirecting' \in BOOLEAN
  BY CommandFacts DEF proxies
<1>2. kept' \subseteq Host /\ dump' \in [open : BOOLEAN, hosts : SUBSET Host] /\ dump'.open = dump.open
  <2>1. kept \subseteq Host /\ dump \in [open : BOOLEAN, hosts : SUBSET Host]
    BY DEF Basics, RestOK
  <2> QED BY <2>1, CommandFacts
<1>3. count' \in [DOMAIN Bound -> Nat]
  BY <1>1, UsedFacts DEF Basics
<1>4. OpOK' /\ MovingOK'
  BY <1>1 DEF Beginning, OpOK, MovingOK
<1>5. CaddyOK' /\ DraftOK'
  BY <1>1, <1>2 DEF Basics, CaddyOK, DraftOK
<1> QED BY <1>1, <1>2, <1>3, <1>4, <1>5 DEF Basics, RestOK

\* A call that reads changes what the command is about to write, and its calls.
LEMMA ReadGoesOn ==
  ASSUME Basics, ReadCaddy
  PROVE  /\ DraftOK' /\ CommandOK(op', proxy, inventory) /\ SameButTodo(op') /\ op'.todo # <<>>
         /\ op.moving = FALSE
<1>1. op.todo # <<>> /\ op.todo[1][1] \in ReadCalls /\ Hostname \in Host /\ Len(op.todo) > 1
  BY ReadDecides
<1>2. \E calls : op' = After(calls) /\ Admissible(calls)
  BY ReadDecides DEF ReadCalls
<1>3. PICK calls : op' = After(calls) /\ Admissible(calls)
  BY <1>2
<1>4. OpOK /\ CaddyOK /\ DraftOK /\ RestOK /\ MovingOK
  BY DEF Basics
<1>5. CommandOK(op', proxy, inventory) /\ SameButTodo(op') /\ op'.todo # <<>>
  <2>1. CASE calls = <<>>
    BY <1>1, <1>3, <1>4, <2>1, AfterNone
  <2>2. CASE calls # <<>>
    BY <1>1, <1>3, <1>4, <2>2, AfterSome
  <2> QED BY <2>1, <2>2
<1>6. op.moving = FALSE
  <2>1. op.moving \in BOOLEAN
    <3> DEFINE R == Seq(Task)
    <3>1. op \in [do : {"none", "publish", "remove", "sync", "redirect"},
                  todo : R, want : Request \cup {Absent},
                  done : SUBSET Host, torn : BOOLEAN, moving : BOOLEAN,
                  verified : SUBSET Host, stale : SUBSET Host]
      BY <1>4, OpType DEF OpOK, CommandOK
    <3> HIDE DEF R
    <3> QED BY <3>1
  <2> QED BY <1>1, <1>4, <2>1 DEF MovingOK, ReadCalls
<1>7. DraftOK'
  <2>1. CASE op.todo[1][1] = "read-servers"
    BY <1>4, <2>1, ReadDecides, ReadServersFacts
  <2>2. CASE op.todo[1][1] = "read-policies"
    BY <1>1, <1>4, <2>2, ReadDecides, ReadPoliciesFacts
  <2>3. CASE op.todo[1][1] = "read-https"
    <3>1. Wanted(Hostname) \in Request
      BY <1>1, <1>4, <2>3, WantedFacts DEF Publication
    <3> QED BY <1>1, <1>4, <2>3, <3>1, ReadDecides, ReadHttpsFacts
  <2>4. CASE op.todo[1][1] = "read-http"
    <3>1. Wanted(Hostname) \in Request /\ redirecting \in BOOLEAN
      BY <1>1, <1>4, <2>4, WantedFacts DEF Publication, RestOK
    <3> QED BY <1>1, <1>4, <2>4, <3>1, ReadDecides, ReadHttpFacts
  <2>5. CASE op.todo[1][1] = "read-removal"
    BY <1>1, <1>4, <2>5, ReadDecides, ReadRemovalFacts
  <2>6. CASE op.todo[1][1] = "read-http-removal"
    BY <1>1, <1>4, <2>6, ReadDecides, ReadHttpRemovalFacts
  <2> QED BY <1>1, <2>1, <2>2, <2>3, <2>4, <2>5, <2>6 DEF ReadCalls
<1> QED BY <1>5, <1>6, <1>7

LEMMA ReadBasics == ASSUME Basics, ReadCaddy PROVE Basics'
<1>1. UNCHANGED <<caddy, traefik, trust, proxy, inventory, redirecting, dump, kept, count>>
  BY DEF ReadCaddy, project
<1>2. OpOK' /\ MovingOK'
  BY <1>1, ReadGoesOn DEF OpOK, MovingOK, SameButTodo
<1>3. CaddyOK' /\ DraftOK' /\ RestOK'
  BY <1>1, ReadGoesOn DEF Basics, CaddyOK, RestOK
<1> QED BY <1>2, <1>3 DEF Basics

\* The configuration in the container after an accepted request.
LEMMA WriteKeepsCaddy ==
  ASSUME CaddyOK, DraftOK, NEW call \in Writes, Accepted(call), Write(call)
  PROVE  /\ caddy' \in CaddyType /\ ConfigOK(caddy'.live) /\ caddy'.live = Written(call)
         /\ caddy'.file = caddy.file
<1>1. ConfigOK(Written(call)) /\ Written(call) \in Config
  BY WrittenIsOK DEF ConfigOK
<1> DEFINE R == Seq(Config)
<1>2. caddy \in [live : Config, file : R] /\ CaddyType = [live : Config, file : R]
  BY DEF CaddyOK, CaddyType
<1> HIDE DEF R
<1>3. caddy' = [caddy EXCEPT !.live = Written(call)]
  BY DEF Write
<1> QED BY <1>1, <1>2, <1>3

LEMMA WriteBasics == ASSUME Basics, WriteCaddy PROVE Basics'
<1> DEFINE call == op.todo[1][1]
<1>1. UNCHANGED <<draft, traefik, trust, proxy, inventory, redirecting, dump, kept, count>>
  BY DEF WriteCaddy, project
<1>2. /\ op.todo # <<>> /\ call \in Writes /\ Len(op.todo) > 1 /\ Accepted(call) /\ Write(call)
      /\ CommandOK(op', proxy, inventory) /\ op'.todo # <<>> /\ Shifts(op.todo, op'.todo)
      /\ op'.moving = (call = "drop-srv0")
  BY WriteDecides
<1>3. Linked(op.todo[1], op.todo[2])
  BY <1>2, NextCall DEF Basics
<1>4. op'.todo[1] = op.todo[2]
  BY <1>2 DEF Shifts
<1>5. MovingOK'
  BY <1>2, <1>3, <1>4 DEF MovingOK, Linked, Follows
<1>6. OpOK'
  BY <1>1, <1>2 DEF OpOK
<1>7. caddy' \in CaddyType /\ ConfigOK(caddy'.live) /\ caddy'.file = caddy.file
  BY <1>2, WriteKeepsCaddy DEF Basics
<1>8. CaddyOK'
  BY <1>1, <1>7 DEF Basics, CaddyOK
<1>9. DraftOK' /\ RestOK'
  BY <1>1 DEF Basics, DraftOK, RestOK
<1> QED BY <1>5, <1>6, <1>8, <1>9 DEF Basics

LEMMA NotMoving ==
  ASSUME Basics, op.todo # <<>> => op.todo[1][1] \notin {"https", "create-https"}
  PROVE  op.moving = FALSE
<1> DEFINE R == Seq(Task)
<1>1. op \in [do : {"none", "publish", "remove", "sync", "redirect"},
              todo : R, want : Request \cup {Absent},
              done : SUBSET Host, torn : BOOLEAN, moving : BOOLEAN,
              verified : SUBSET Host, stale : SUBSET Host]
  BY OpType DEF Basics, OpOK, CommandOK
<1> HIDE DEF R
<1>2. op.moving \in BOOLEAN
  BY <1>1
<1> QED BY <1>2 DEF Basics, MovingOK

LEMMA ConfigureTypes ==
  ASSUME Basics, ConfigureTraefik
  PROVE  traefik' \in TraefikType /\ trust' \in TrustType
<1>1. RestOK /\ NoTrust \in TrustType /\ traefik \in TraefikType /\ trust \in TrustType
  BY TraefikTypes DEF Basics, RestOK
<1>2. Hostname \in Host /\ op.todo[1][1] \in TraefikCalls
  BY ConfigureDecides
<1>3. CASE trust' = NoTrust /\ UNCHANGED traefik
  BY <1>1, <1>3
<1>4. CASE /\ op.todo[1][1] = "root" => InstallRoot
           /\ op.todo[1][1] = "static" => WriteStatic
           /\ op.todo[1][1] = "restart" => RestartIfNeeded
           /\ op.todo[1][1] = "fragment" => /\ WriteFragment(Hostname, Wanted(Hostname), redirecting)
                                            /\ trust' = NoTrust /\ Wanted(Hostname) \in Request
           /\ op.todo[1][1] = "unlink" => RemoveFragment(Hostname) /\ UNCHANGED trust
  <2>1. CASE op.todo[1][1] = "root"
    BY <1>1, <1>4, <2>1, TraefikTypes
  <2>2. CASE op.todo[1][1] = "static"
    BY <1>1, <1>4, <2>2, TraefikTypes
  <2>3. CASE op.todo[1][1] = "restart"
    BY <1>1, <1>4, <2>3, TraefikTypes
  <2>4. CASE op.todo[1][1] = "fragment"
    BY <1>1, <1>2, <1>4, <2>4, TraefikTypes
  <2>5. CASE op.todo[1][1] = "unlink"
    BY <1>1, <1>2, <1>4, <2>5, TraefikTypes
  <2> QED BY <1>2, <2>1, <2>2, <2>3, <2>4, <2>5 DEF TraefikCalls
<1> QED BY <1>3, <1>4, ConfigureDecides

LEMMA ConfigureBasics == ASSUME Basics, ConfigureTraefik PROVE Basics'
<1>1. UNCHANGED <<caddy, draft, proxy, inventory, redirecting, dump, kept, count>>
  BY DEF ConfigureTraefik, project
<1>2. traefik' \in TraefikType /\ trust' \in TrustType
  BY ConfigureTypes
<1>3. /\ op.todo # <<>> /\ op.todo[1][1] \in TraefikCalls /\ CommandOK(op', proxy, inventory)
      /\ SameButTodo(op')
  BY ConfigureDecides
<1>4. op.moving = FALSE
  BY <1>3, NotMoving DEF TraefikCalls
<1>5. OpOK' /\ MovingOK'
  BY <1>1, <1>3, <1>4 DEF OpOK, MovingOK, SameButTodo
<1>6. CaddyOK' /\ DraftOK' /\ RestOK'
  BY <1>1, <1>2 DEF Basics, CaddyOK, DraftOK, RestOK
<1> QED BY <1>5, <1>6 DEF Basics

LEMMA CheckBasics == ASSUME Basics, Check PROVE Basics'
<1>1. UNCHANGED <<caddy, draft, traefik, trust, proxy, inventory, redirecting, dump, kept, count>>
  BY DEF Check, project, proxies
<1>2. /\ op.todo[1] = <<"check", Hostname>> /\ CommandOK(op', proxy, inventory) /\ op'.moving = op.moving
  BY CheckDecides
<1>3. op.moving = FALSE
  <2>1. op.todo[1][1] = "check"
    BY <1>2
  <2> QED BY <2>1, NotMoving
<1>4. OpOK' /\ MovingOK'
  BY <1>1, <1>2, <1>3 DEF OpOK, MovingOK
<1>5. CaddyOK' /\ DraftOK' /\ RestOK'
  BY <1>1 DEF Basics, CaddyOK, DraftOK, RestOK
<1> QED BY <1>4, <1>5 DEF Basics

LEMMA SaveBasics == ASSUME Basics, Save PROVE Basics'
<1>1. UNCHANGED <<caddy, draft, traefik, trust, proxy, redirecting, dump, kept, count>>
  BY DEF Save, proxies
<1>2. /\ CommandOK(op', proxy, inventory) /\ op.do \in {"publish", "remove"} /\ Hostname \in Host
      /\ inventory' = [inventory EXCEPT ![Hostname] = op.want] /\ op.todo[1][1] \in Finals
      /\ op' = NoOp \/ SameButTodo(op')
  BY FinalDecides
<1>3. op.want \in Request \cup {Absent}
  BY <1>2 DEF Basics, OpOK, CommandOK
<1>4. inventory' \in [Host -> Request \cup {Absent}]
  BY <1>2, <1>3 DEF Basics, RestOK
<1>5. op'.do \notin {"sync", "redirect"}
  BY <1>2, OpType DEF SameButTodo
<1>6. CommandOK(op', proxy, inventory')
  BY <1>2, <1>5, OtherInventory
<1>7. op.moving = FALSE
  BY <1>2, NotMoving DEF Finals
<1>8. OpOK' /\ MovingOK'
  BY <1>1, <1>2, <1>6, <1>7, OpType DEF OpOK, MovingOK, SameButTodo
<1>9. CaddyOK' /\ DraftOK' /\ RestOK'
  BY <1>1, <1>4 DEF Basics, CaddyOK, DraftOK, RestOK
<1> QED BY <1>8, <1>9 DEF Basics

\* What the dump leaves of Caddy while it is written, and when it has ended.
LEMMA DumpFacts ==
  ASSUME CaddyOK
  PROVE  /\ OpenDump => /\ caddy' \in CaddyType /\ caddy'.live = caddy.live /\ caddy'.file = <<>>
                        /\ Len(caddy'.file) = 0 /\ DOMAIN caddy'.file = {}
         /\ CloseDump => /\ caddy' \in CaddyType /\ caddy'.live = caddy.live /\ caddy'.file = <<caddy.live>>
                         /\ Len(caddy'.file) = 1 /\ DOMAIN caddy'.file = {1} /\ caddy'.file[1] = caddy.live
<1> DEFINE R == Seq(Config)
           e == <<>>
           d == <<caddy.live>>
<1>1. caddy \in [live : Config, file : R] /\ CaddyType = [live : Config, file : R] /\ caddy.live \in Config
  BY DEF CaddyOK, CaddyType, ConfigOK
<1>2. e \in R /\ Len(e) = 0 /\ DOMAIN e = {} /\ d \in R /\ Len(d) = 1 /\ DOMAIN d = {1} /\ d[1] = caddy.live
  BY <1>1
<1>3. e = <<>> /\ d = <<caddy.live>>
  OBVIOUS
<1>4. OpenDump => caddy' = [caddy EXCEPT !.file = e]
  BY DEF OpenDump
<1>5. CloseDump => caddy' = [caddy EXCEPT !.file = d]
  BY DEF CloseDump
<1> HIDE DEF R, e, d
<1>6. OpenDump => caddy' \in [live : Config, file : R] /\ caddy'.live = caddy.live /\ caddy'.file = e
  BY <1>1, <1>2, <1>4
<1>7. CloseDump => caddy' \in [live : Config, file : R] /\ caddy'.live = caddy.live /\ caddy'.file = d
  BY <1>1, <1>2, <1>5
<1> QED BY <1>1, <1>2, <1>3, <1>6, <1>7

LEMMA DumpBasics == ASSUME Basics, Dump PROVE Basics'
<1>1. UNCHANGED <<draft, traefik, trust, proxy, inventory, redirecting, kept, count>> /\ OpenDump
      /\ dump' = [open |-> TRUE, hosts |-> IF op.torn THEN {} ELSE op.done]
  BY DEF Dump, project
<1>2. /\ CommandOK(op', proxy, inventory) /\ op.todo[1][1] \in Finals /\ (op' = NoOp \/ SameButTodo(op'))
  BY FinalDecides
<1>3. op.moving = FALSE
  BY <1>2, NotMoving DEF Finals
<1>4. OpOK' /\ MovingOK'
  BY <1>1, <1>2, <1>3, OpType DEF OpOK, MovingOK, SameButTodo
<1>5. op.done \subseteq Host
  <2> DEFINE R == Seq(Task)
  <2>1. op \in [do : {"none", "publish", "remove", "sync", "redirect"},
                todo : R, want : Request \cup {Absent},
                done : SUBSET Host, torn : BOOLEAN, moving : BOOLEAN,
                verified : SUBSET Host, stale : SUBSET Host]
    BY OpType DEF Basics, OpOK, CommandOK
  <2> HIDE DEF R
  <2> QED BY <2>1
<1>6. dump' \in [open : BOOLEAN, hosts : SUBSET Host]
  BY <1>1, <1>5
<1>7. CaddyOK'
  BY <1>1, DumpFacts DEF Basics, CaddyOK
<1>8. DraftOK' /\ RestOK'
  BY <1>1, <1>6 DEF Basics, DraftOK, RestOK
<1> QED BY <1>4, <1>7, <1>8 DEF Basics

LEMMA AdvertiseBasics == ASSUME Basics, Advertise PROVE Basics'
<1>1. UNCHANGED <<caddy, draft, traefik, trust, proxy, inventory, redirecting, dump, kept, count>>
  BY DEF Advertise, project, proxies
<1>2. /\ CommandOK(op', proxy, inventory) /\ op.todo[1][1] \in Finals /\ (op' = NoOp \/ SameButTodo(op'))
  BY FinalDecides
<1>3. op.moving = FALSE
  BY <1>2, NotMoving DEF Finals
<1>4. OpOK' /\ MovingOK'
  BY <1>1, <1>2, <1>3, OpType DEF OpOK, MovingOK, SameButTodo
<1>5. CaddyOK' /\ DraftOK' /\ RestOK'
  BY <1>1 DEF Basics, CaddyOK, DraftOK, RestOK
<1> QED BY <1>4, <1>5 DEF Basics

\* A command that ends without saving.
LEMMA EndsFacts ==
  ASSUME Basics, NEW lost \in BOOLEAN, Ends(lost)
  PROVE  /\ op' = NoOp /\ trust' = NoTrust /\ kept' \subseteq kept /\ dump'.open = dump.open
         /\ dump'.hosts \subseteq dump.hosts
         /\ dump' \in [open : BOOLEAN, hosts : SUBSET Host]
         /\ lost => kept' = {} /\ dump'.hosts = {}
<1>1. dump \in [open : BOOLEAN, hosts : SUBSET Host]
  BY DEF Basics, RestOK
<1> QED BY <1>1 DEF Ends

\* A command stops: what it leaves is a state like any other.
LEMMA StopBasics ==
  ASSUME Basics, op' = NoOp, CaddyOK', UNCHANGED <<draft, proxy, inventory, redirecting>>,
         trust' = NoTrust, traefik' \in TraefikType, kept' \subseteq Host,
         dump' \in [open : BOOLEAN, hosts : SUBSET Host], count' \in [DOMAIN Bound -> Nat]
  PROVE  Basics'
<1>1. OpOK' /\ MovingOK'
  BY NoCommand, OpType DEF OpOK, MovingOK
<1>2. NoTrust \in TrustType
  BY TraefikTypes DEF Basics
<1> QED BY <1>1, <1>2 DEF Basics, RestOK, DraftOK

LEMMA OpFields ==
  ASSUME OpOK
  PROVE  /\ op.torn \in BOOLEAN /\ op.moving \in BOOLEAN /\ op.done \subseteq Host
         /\ op.verified \subseteq Host /\ op.stale \subseteq Host
<1> DEFINE R == Seq(Task)
<1>1. op \in [do : {"none", "publish", "remove", "sync", "redirect"},
              todo : R, want : Request \cup {Absent},
              done : SUBSET Host, torn : BOOLEAN, moving : BOOLEAN,
              verified : SUBSET Host, stale : SUBSET Host]
  BY OpType DEF OpOK, CommandOK
<1> HIDE DEF R
<1> QED BY <1>1

LEMMA RejectedBasics == ASSUME Basics, Rejected PROVE Basics'
<1>1. Ends(op.moving) /\ UNCHANGED <<caddy, draft, traefik, proxy, inventory, redirecting, count>>
  BY DEF Rejected, project
<1>2. op.moving \in BOOLEAN
  BY OpFields DEF Basics
<1>3. /\ op' = NoOp /\ trust' = NoTrust /\ kept' \subseteq kept /\ dump'.open = dump.open
      /\ dump' \in [open : BOOLEAN, hosts : SUBSET Host]
  BY <1>1, <1>2, EndsFacts
<1>4. CaddyOK' /\ kept' \subseteq Host /\ traefik' \in TraefikType /\ count' \in [DOMAIN Bound -> Nat]
  BY <1>1, <1>3 DEF Basics, CaddyOK, RestOK
<1> QED BY <1>1, <1>3, <1>4, StopBasics

LEMMA CaddyFailsFacts ==
  ASSUME Basics, CaddyFails
  PROVE  /\ op.todo # <<>> /\ op.todo[1][1] \in ReadCalls \cup Writes \cup {"check"}
         /\ \/ Ends(op.moving) /\ UNCHANGED caddy
            \/ /\ op.todo[1][1] \in Writes /\ Accepted(op.todo[1][1]) /\ Write(op.todo[1][1])
               /\ Ends(op.moving \/ op.todo[1][1] = "drop-srv0")
         /\ CaddyOK' /\ Used("faults") /\ UNCHANGED <<draft, traefik, proxy, inventory, redirecting>>
<1>1. op.todo # <<>> /\ OpOK
  BY DEF CaddyFails, Calling, Basics
<1>2. \A call : Calling(call) <=> op.todo[1][1] = call
  BY <1>1, NextCall
<1>3. Used("faults") /\ UNCHANGED <<draft, traefik, proxy, inventory, redirecting>>
  BY DEF CaddyFails, project
<1>4. CASE /\ \E call \in ReadCalls \cup Writes \cup {"check"} : Calling(call)
           /\ Ends(op.moving)
           /\ UNCHANGED caddy
  <2>1. op.todo[1][1] \in ReadCalls \cup Writes \cup {"check"}
    BY <1>2, <1>4
  <2>2. dump'.open = dump.open
    BY <1>1, <1>4, EndsFacts, OpFields
  <2> QED BY <1>1, <1>3, <1>4, <2>1, <2>2 DEF Basics, CaddyOK
<1>6. CASE \E call \in Writes : /\ Calling(call) /\ Accepted(call) /\ Write(call)
                                /\ Ends(op.moving \/ call = "drop-srv0")
  <2>1. PICK call \in Writes : /\ Calling(call) /\ Accepted(call) /\ Write(call)
                               /\ Ends(op.moving \/ call = "drop-srv0")
    BY <1>6
  <2>2. op.todo[1][1] = call
    BY <1>2, <2>1
  <2>3. (op.moving \/ call = "drop-srv0") \in BOOLEAN
    OBVIOUS
  <2>4. dump'.open = dump.open
    BY <2>1, <2>3, EndsFacts
  <2>5. caddy' \in CaddyType /\ ConfigOK(caddy'.live) /\ caddy'.file = caddy.file
    BY <2>1, WriteKeepsCaddy DEF Basics
  <2>6. CaddyOK'
    BY <2>4, <2>5 DEF Basics, CaddyOK
  <2> QED BY <1>1, <1>3, <2>1, <2>2, <2>6
<1> QED BY <1>4, <1>6 DEF CaddyFails

LEMMA CaddyFailsBasics == ASSUME Basics, CaddyFails PROVE Basics'
<1>1. CaddyOK' /\ Used("faults") /\ UNCHANGED <<draft, traefik, proxy, inventory, redirecting>>
  BY CaddyFailsFacts
<1>2. \E lost \in BOOLEAN : Ends(lost)
  <2>1. op.moving \in BOOLEAN /\ (op.moving \/ op.todo[1][1] = "drop-srv0") \in BOOLEAN
    BY OpFields DEF Basics
  <2> QED BY <2>1, CaddyFailsFacts
<1>3. /\ op' = NoOp /\ trust' = NoTrust /\ kept' \subseteq kept
      /\ dump' \in [open : BOOLEAN, hosts : SUBSET Host]
  BY <1>2, EndsFacts
<1>4. kept' \subseteq Host /\ traefik' \in TraefikType /\ count' \in [DOMAIN Bound -> Nat]
  BY <1>1, <1>3, UsedFacts DEF Basics, RestOK
<1> QED BY <1>1, <1>3, <1>4, StopBasics

\* A call for Traefik fails: the trust is given up, or the command ends.
LEMMA TraefikFailsFacts ==
  ASSUME Basics, TraefikFails
  PROVE  /\ op.todo # <<>> /\ op.todo[1][1] \in TraefikCalls /\ trust' = NoTrust
         /\ Used("faults") /\ UNCHANGED <<caddy, draft, proxy, inventory, redirecting>>
         /\ \/ /\ GivesUpTrust /\ UNCHANGED <<dump, kept>>
               /\ \/ op.todo[1][1] = "root" /\ InstallRootFails
                  \/ op.todo[1][1] = "static" /\ WriteStaticFails
                  \/ op.todo[1][1] = "restart" /\ RestartFails
            \/ /\ Ends(FALSE) /\ Hostname \in Host
               /\ \/ /\ op.todo[1][1] = "fragment" /\ Wanted(Hostname) \in Request
                     /\ WriteFragment(Hostname, Wanted(Hostname), redirecting)
                  \/ op.todo[1][1] = "unlink" /\ RemoveFragment(Hostname)
                  \/ op.todo[1][1] \in {"fragment", "unlink"} /\ UNCHANGED traefik
<1>1. op.todo # <<>> /\ OpOK
  BY DEF TraefikFails, Calling, Basics
<1>2. \A call : Calling(call) <=> op.todo[1][1] = call
  BY <1>1, NextCall
<1>3. Used("faults") /\ UNCHANGED <<caddy, draft, proxy, inventory, redirecting>>
  BY DEF TraefikFails, project
<1>4. CASE /\ \/ Calling("root") /\ InstallRootFails
              \/ Calling("static") /\ WriteStaticFails
              \/ Calling("restart") /\ RestartFails
           /\ GivesUpTrust
           /\ UNCHANGED <<dump, kept>>
  BY <1>1, <1>2, <1>3, <1>4 DEF TraefikCalls, InstallRootFails, WriteStaticFails, RestartFails
<1>5. CASE /\ \/ Calling("fragment") /\ WriteFragment(Hostname, Wanted(Hostname), redirecting)
              \/ Calling("unlink") /\ RemoveFragment(Hostname)
              \/ (Calling("fragment") \/ Calling("unlink")) /\ UNCHANGED traefik
           /\ Ends(FALSE)
  <2>1. op.todo[1][1] \in {"fragment", "unlink"}
    BY <1>2, <1>5
  <2>2. Hostname \in Host
    BY <1>1, <2>1, NextCall
  <2>3. op.todo[1][1] = "fragment" => Wanted(Hostname) \in Request
    BY <1>1, WantedFacts DEF Publication, Basics
  <2>4. trust' = NoTrust
    BY <1>5 DEF Ends
  <2> QED BY <1>1, <1>2, <1>3, <1>5, <2>1, <2>2, <2>3, <2>4 DEF TraefikCalls
<1> QED BY <1>4, <1>5 DEF TraefikFails

LEMMA TraefikFailsBasics == ASSUME Basics, TraefikFails PROVE Basics'
<1>1. /\ op.todo # <<>> /\ op.todo[1][1] \in TraefikCalls /\ trust' = NoTrust
      /\ Used("faults") /\ UNCHANGED <<caddy, draft, proxy, inventory, redirecting>>
  BY TraefikFailsFacts
<1>2. RestOK /\ OpOK /\ traefik \in TraefikType
  BY DEF Basics, RestOK
<1>3. count' \in [DOMAIN Bound -> Nat]
  BY <1>1, <1>2, UsedFacts
<1>4. CASE /\ GivesUpTrust /\ UNCHANGED <<dump, kept>>
           /\ \/ op.todo[1][1] = "root" /\ InstallRootFails
              \/ op.todo[1][1] = "static" /\ WriteStaticFails
              \/ op.todo[1][1] = "restart" /\ RestartFails
  <2>1. traefik' \in TraefikType /\ trust' \in TrustType
    BY <1>2, <1>4, TraefikTypes
  <2>2. CommandOK(op', proxy, inventory) /\ op' = [op EXCEPT !.todo = op'.todo] /\ op'.todo \in Seq(Task)
    BY <1>1, <1>2, <1>4, GivesUpFacts
  <2>3. SameButTodo(op')
    BY <1>2, <2>2, TodoReplaced
  <2>4. op.moving = FALSE
    BY <1>1, NotMoving DEF TraefikCalls
  <2>5. OpOK' /\ MovingOK'
    BY <1>1, <2>2, <2>3, <2>4 DEF OpOK, MovingOK, SameButTodo
  <2>6. CaddyOK' /\ DraftOK' /\ RestOK'
    BY <1>1, <1>3, <1>4, <2>1 DEF Basics, CaddyOK, DraftOK, RestOK
  <2> QED BY <2>5, <2>6 DEF Basics
<1>5. CASE /\ Ends(FALSE) /\ Hostname \in Host
           /\ \/ /\ op.todo[1][1] = "fragment" /\ Wanted(Hostname) \in Request
                 /\ WriteFragment(Hostname, Wanted(Hostname), redirecting)
              \/ op.todo[1][1] = "unlink" /\ RemoveFragment(Hostname)
              \/ op.todo[1][1] \in {"fragment", "unlink"} /\ UNCHANGED traefik
  <2>1. traefik' \in TraefikType
    BY <1>2, <1>5, TraefikTypes
  <2>2. /\ op' = NoOp /\ kept' \subseteq kept /\ dump'.open = dump.open
        /\ dump' \in [open : BOOLEAN, hosts : SUBSET Host]
    BY <1>5, EndsFacts
  <2>3. CaddyOK' /\ kept' \subseteq Host
    BY <1>1, <2>2 DEF Basics, CaddyOK, RestOK
  <2> QED BY <1>1, <1>3, <2>1, <2>2, <2>3, StopBasics
<1> QED BY <1>4, <1>5, TraefikFailsFacts

LEMMA DieBasics == ASSUME Basics, Die PROVE Basics'
<1>1. /\ Used("crashes") /\ Ends(op.moving) /\ traefik' = Abandoned(traefik)
      /\ UNCHANGED <<caddy, draft, proxy, inventory, redirecting>>
  BY DEF Die, project
<1>2. op.moving \in BOOLEAN
  BY OpFields DEF Basics
<1>3. /\ op' = NoOp /\ trust' = NoTrust /\ kept' \subseteq kept /\ dump'.open = dump.open
      /\ dump' \in [open : BOOLEAN, hosts : SUBSET Host]
  BY <1>1, <1>2, EndsFacts
<1>4. traefik' \in TraefikType /\ count' \in [DOMAIN Bound -> Nat]
  BY <1>1, TraefikTypes, UsedFacts DEF Basics
<1>5. CaddyOK' /\ kept' \subseteq Host
  BY <1>1, <1>3 DEF Basics, CaddyOK, RestOK
<1> QED BY <1>1, <1>3, <1>4, <1>5, StopBasics

LEMMA DumpFailsBasics == ASSUME Basics, DumpFails PROVE Basics'
<1>1. /\ Used("faults") /\ kept' = {} /\ dump' = NoDump /\ op' = (IF Calling("advertise") THEN NoOp ELSE op)
      /\ UNCHANGED <<caddy, draft, traefik, trust, proxy, inventory, redirecting>>
  BY DEF DumpFails, project, proxies
<1>2. OpOK' /\ MovingOK'
  <2>1. CASE Calling("advertise")
    BY <1>1, <2>1, NoCommand, OpType DEF OpOK, MovingOK
  <2>2. CASE ~Calling("advertise")
    BY <1>1, <2>2 DEF Basics, OpOK, MovingOK
  <2> QED BY <2>1, <2>2
<1>3. count' \in [DOMAIN Bound -> Nat]
  BY <1>1, UsedFacts DEF Basics
<1>4. dump' \in [open : BOOLEAN, hosts : SUBSET Host] /\ ~dump'.open
  BY <1>1 DEF NoDump
<1>5. CaddyOK' /\ DraftOK' /\ RestOK'
  BY <1>1, <1>3, <1>4 DEF Basics, CaddyOK, DraftOK, RestOK
<1> QED BY <1>2, <1>5 DEF Basics

LEMMA DumpEndsBasics == ASSUME Basics, DumpEnds PROVE Basics'
<1>1. /\ CloseDump /\ dump' = NoDump /\ kept' = (IF op.moving THEN {} ELSE kept \cup dump.hosts)
      /\ UNCHANGED <<draft, traefik, trust, proxy, inventory, redirecting, op, count>>
  BY DEF DumpEnds, project
<1>2. kept' \subseteq Host
  BY <1>1 DEF Basics, RestOK
<1>3. dump' \in [open : BOOLEAN, hosts : SUBSET Host] /\ ~dump'.open
  BY <1>1 DEF NoDump
<1>4. CaddyOK'
  <2>1. /\ caddy' \in CaddyType /\ caddy'.live = caddy.live /\ Len(caddy'.file) = 1
        /\ DOMAIN caddy'.file = {1} /\ caddy'.file[1] = caddy.live
    BY <1>1, DumpFacts DEF Basics
  <2>2. ConfigOK(caddy.live)
    BY DEF Basics, CaddyOK
  <2>3. ConfigOK(caddy'.live) /\ \A i \in DOMAIN caddy'.file : ConfigOK(caddy'.file[i])
    BY <2>1, <2>2
  <2> QED BY <1>3, <2>1, <2>3 DEF CaddyOK
<1>5. OpOK' /\ MovingOK' /\ DraftOK' /\ RestOK'
  BY <1>1, <1>2, <1>3 DEF Basics, OpOK, MovingOK, DraftOK, RestOK
<1> QED BY <1>4, <1>5 DEF Basics

\* What is marked on a command while it runs.
Mark(torn, moving, stale) == [op EXCEPT !.torn = torn, !.moving = moving, !.stale = stale]

LEMMA Marked ==
  ASSUME OpOK, NEW torn \in BOOLEAN, NEW moving \in BOOLEAN, NEW stale \in SUBSET Host
  PROVE  LET q == Mark(torn, moving, stale)
         IN  /\ q \in Op /\ q.do = op.do /\ q.todo = op.todo /\ q.want = op.want /\ q.done = op.done
             /\ q.verified = op.verified /\ q.torn = torn /\ q.moving = moving /\ q.stale = stale
             /\ op.todo # <<>> => CommandOK(q, proxy, inventory)
<1> DEFINE R == Seq(Task)
           q == Mark(torn, moving, stale)
<1>1. op \in [do : {"none", "publish", "remove", "sync", "redirect"},
              todo : R, want : Request \cup {Absent},
              done : SUBSET Host, torn : BOOLEAN, moving : BOOLEAN,
              verified : SUBSET Host, stale : SUBSET Host]
  BY OpType DEF OpOK, CommandOK
<1> HIDE DEF R
<1>2. /\ q \in [do : {"none", "publish", "remove", "sync", "redirect"},
                todo : R, want : Request \cup {Absent},
                done : SUBSET Host, torn : BOOLEAN, moving : BOOLEAN,
                verified : SUBSET Host, stale : SUBSET Host]
      /\ q.do = op.do /\ q.todo = op.todo /\ q.want = op.want /\ q.done = op.done
      /\ q.verified = op.verified /\ q.torn = torn /\ q.moving = moving /\ q.stale = stale
  BY <1>1 DEF Mark
<1> HIDE DEF q
<1>3. q \in Op
  BY <1>2, OpType DEF R
<1>4. /\ op.do = "remove" => op.done = {}
      /\ op.do # "sync" => op.verified = {}
  BY DEF OpOK, CommandOK
<1>5. op.todo # <<>> => CommandOK(q, proxy, inventory)
  BY <1>2, <1>3, <1>4, Touched DEF OpOK
<1> QED BY <1>2, <1>3, <1>5 DEF q

\* A restart of Caddy, and an edit, are noted by the command that runs.
LEMMA RestartCaddyFacts ==
  ASSUME Basics, RestartOfCaddy
  PROVE  /\ proxy = "caddy" /\ Used("restarts")
         /\ caddy'.live = Loaded /\ caddy'.file = caddy.file /\ CaddyOK' /\ ConfigOK(Loaded)
         /\ UNCHANGED <<draft, traefik, trust, proxy, inventory, redirecting>>
         /\ dump' = [dump EXCEPT !.hosts = {}]
         /\ dump' \in [open : BOOLEAN, hosts : SUBSET Host] /\ dump'.open = dump.open /\ dump'.hosts = {}
         /\ kept' = IF caddy.file = <<>> \/ Migrating THEN {} ELSE kept
         /\ OpOK' /\ MovingOK'
         /\ op = NoOp => op' = NoOp
         /\ op # NoOp => /\ op'.do = op.do /\ op'.todo = op.todo /\ op'.want = op.want /\ op'.done = op.done
                         /\ op'.verified = op.verified /\ op'.stale = op.stale \cup op.verified
                         /\ op'.torn = TRUE /\ op'.moving = FALSE
<1>1. /\ proxy = "caddy" /\ Used("restarts") /\ RestartCaddy /\ dump' = [dump EXCEPT !.hosts = {}]
      /\ op' = IF op = NoOp THEN op ELSE [Disturbed EXCEPT !.torn = TRUE, !.moving = FALSE]
      /\ kept' = IF caddy.file = <<>> \/ Migrating THEN {} ELSE kept
      /\ UNCHANGED <<draft, traefik, trust, proxy, inventory, redirecting>>
  BY DEF RestartOfCaddy, project
<1>2. dump' \in [open : BOOLEAN, hosts : SUBSET Host] /\ dump'.open = dump.open /\ dump'.hosts = {}
  BY <1>1 DEF Basics, RestOK
<1>3. ConfigOK(Loaded)
  <2>1. CASE caddy.file = <<>>
    BY <2>1, InstalledFacts DEF Loaded
  <2>2. CASE caddy.file # <<>>
    <3> DEFINE f == caddy.file
    <3>1. f \in Seq(Config) /\ f # <<>> /\ \A i \in DOMAIN f : ConfigOK(f[i])
      BY <2>2 DEF Basics, CaddyOK, CaddyType
    <3> HIDE DEF f
    <3>2. 1 \in DOMAIN f
      BY <3>1
    <3> QED BY <2>2, <3>1, <3>2 DEF Loaded, f
  <2> QED BY <2>1, <2>2
<1>4. caddy' \in CaddyType /\ caddy'.live = Loaded /\ caddy'.file = caddy.file
  <2> DEFINE R == Seq(Config)
  <2>1. caddy \in [live : Config, file : R] /\ CaddyType = [live : Config, file : R] /\ Loaded \in Config
    BY <1>3 DEF Basics, CaddyOK, CaddyType, ConfigOK
  <2>2. caddy' = [caddy EXCEPT !.live = Loaded]
    BY <1>1 DEF RestartCaddy
  <2> HIDE DEF R
  <2> QED BY <2>1, <2>2
<1>5. CaddyOK'
  BY <1>2, <1>3, <1>4 DEF Basics, CaddyOK
<1>6. op = NoOp => op' = NoOp
  BY <1>1
<1>7. CASE op # NoOp
  <2> DEFINE stale == op.stale \cup op.verified
             q == Mark(TRUE, FALSE, stale)
             R == Seq(Task)
  <2>1. stale \in SUBSET Host /\ op.todo # <<>>
    BY <1>7, OpFields DEF Basics, OpOK, CommandOK
  <2>2. op \in [do : {"none", "publish", "remove", "sync", "redirect"},
                todo : R, want : Request \cup {Absent},
                done : SUBSET Host, torn : BOOLEAN, moving : BOOLEAN,
                verified : SUBSET Host, stale : SUBSET Host]
    BY OpType DEF Basics, OpOK, CommandOK
  <2> HIDE DEF R
  <2>3. op' = [Disturbed EXCEPT !.torn = TRUE, !.moving = FALSE]
    BY <1>1, <1>7
  <2>4. Disturbed = [op EXCEPT !.stale = stale]
    BY DEF Disturbed
  <2> HIDE DEF stale
  <2>5. op' = q
    BY <2>2, <2>3, <2>4 DEF Mark
  <2>6. TRUE \in BOOLEAN /\ FALSE \in BOOLEAN
    OBVIOUS
  <2>7. /\ q.do = op.do /\ q.todo = op.todo /\ q.want = op.want /\ q.done = op.done
        /\ q.verified = op.verified /\ q.torn = TRUE /\ q.moving = FALSE /\ q.stale = stale
        /\ CommandOK(q, proxy, inventory)
    BY <2>1, <2>6, Marked DEF Basics
  <2> HIDE DEF q
  <2>8. OpOK' /\ MovingOK'
    BY <1>1, <2>5, <2>7 DEF OpOK, MovingOK
  <2> QED BY <1>1, <1>2, <1>3, <1>4, <1>5, <1>7, <2>5, <2>7, <2>8 DEF stale
<1>8. CASE op = NoOp
  <2>1. OpOK' /\ MovingOK'
    BY <1>6, <1>8, NoCommand, OpType DEF OpOK, MovingOK
  <2> QED BY <1>1, <1>2, <1>3, <1>4, <1>5, <1>6, <1>8, <2>1
<1> QED BY <1>7, <1>8

LEMMA RestartCaddyBasics == ASSUME Basics, RestartOfCaddy PROVE Basics'
<1>1. /\ Used("restarts") /\ CaddyOK' /\ OpOK' /\ MovingOK'
      /\ UNCHANGED <<draft, traefik, trust, proxy, inventory, redirecting>>
      /\ dump' \in [open : BOOLEAN, hosts : SUBSET Host]
      /\ kept' = IF caddy.file = <<>> \/ Migrating THEN {} ELSE kept
  BY RestartCaddyFacts
<1>2. kept' \subseteq Host /\ count' \in [DOMAIN Bound -> Nat]
  BY <1>1, UsedFacts DEF Basics, RestOK
<1> QED BY <1>1, <1>2 DEF Basics, RestOK, DraftOK

LEMMA EditOfCaddyFacts ==
  ASSUME Basics, Edit
  PROVE  /\ proxy = "caddy" /\ Used("edits") /\ EditCaddy
         /\ UNCHANGED <<draft, traefik, trust, proxy, inventory, redirecting, dump, kept>>
         /\ OpOK' /\ op'.stale = op.stale \cup op.verified
         /\ op'.do = op.do /\ op'.todo = op.todo /\ op'.want = op.want /\ op'.done = op.done
         /\ op'.verified = op.verified /\ op'.torn = op.torn /\ op'.moving = op.moving
<1>1. /\ proxy = "caddy" /\ Used("edits") /\ EditCaddy /\ op' = Disturbed
      /\ UNCHANGED <<draft, traefik, trust, proxy, inventory, redirecting, dump, kept>>
  BY DEF Edit, project
<1> DEFINE stale == op.stale \cup op.verified
           torn == op.torn
           moving == op.moving
           q == Mark(torn, moving, stale)
           R == Seq(Task)
<1>2. op \in [do : {"none", "publish", "remove", "sync", "redirect"},
              todo : R, want : Request \cup {Absent},
              done : SUBSET Host, torn : BOOLEAN, moving : BOOLEAN,
              verified : SUBSET Host, stale : SUBSET Host]
  BY OpType DEF Basics, OpOK, CommandOK
<1>3. stale \in SUBSET Host /\ torn \in BOOLEAN /\ moving \in BOOLEAN
  BY OpFields DEF Basics
<1>4. Disturbed = [op EXCEPT !.stale = stale]
  BY DEF Disturbed
<1> HIDE DEF R, stale
<1>5. op' = q
  BY <1>1, <1>2, <1>4 DEF Mark
<1> HIDE DEF torn, moving
<1>6. /\ q.do = op.do /\ q.todo = op.todo /\ q.want = op.want /\ q.done = op.done
      /\ q.verified = op.verified /\ q.torn = torn /\ q.moving = moving /\ q.stale = stale
      /\ op.todo # <<>> => CommandOK(q, proxy, inventory)
  BY <1>3, Marked DEF Basics
<1>7. CASE op.todo = <<>>
  <2>1. op = NoOp
    BY <1>7 DEF Basics, OpOK, CommandOK
  <2>2. stale = {}
    BY <2>1, OpType DEF stale
  <2>3. op' = op
    <3>1. stale = op.stale
      BY <2>1, <2>2, OpType
    <3> QED BY <1>1, <1>2, <1>4, <3>1
  <2>4. OpOK'
    BY <1>1, <2>3 DEF Basics, OpOK
  <2> QED BY <1>1, <1>5, <1>6, <2>4 DEF stale, torn, moving
<1>8. CASE op.todo # <<>>
  <2> HIDE DEF q
  <2>1. OpOK'
    BY <1>1, <1>5, <1>6, <1>8 DEF OpOK
  <2> QED BY <1>1, <1>5, <1>6, <2>1 DEF stale, torn, moving
<1> QED BY <1>7, <1>8

LEMMA EditBasics == ASSUME Basics, Edit PROVE Basics'
<1>1. /\ Used("edits") /\ EditCaddy /\ OpOK' /\ op'.todo = op.todo /\ op'.moving = op.moving
      /\ UNCHANGED <<draft, traefik, trust, proxy, inventory, redirecting, dump, kept>>
  BY EditOfCaddyFacts
<1>2. ConfigOK(caddy'.live) /\ caddy'.file = caddy.file /\ caddy' \in CaddyType
  BY <1>1, EditFacts DEF Basics
<1>3. count' \in [DOMAIN Bound -> Nat]
  BY <1>1, UsedFacts DEF Basics
<1>4. CaddyOK' /\ MovingOK'
  BY <1>1, <1>2 DEF Basics, CaddyOK, MovingOK
<1> QED BY <1>1, <1>3, <1>4 DEF Basics, DraftOK, RestOK

LEMMA TraefikEnvironmentBasics == ASSUME Basics, RestartOfTraefik \/ ReloadOfTraefik PROVE Basics'
<1>1. /\ UNCHANGED <<caddy, draft, trust, proxy, inventory, redirecting, op, dump, kept>>
      /\ RestartTraefik \/ Reload
      /\ Used("restarts") \/ UNCHANGED count
  BY DEF RestartOfTraefik, ReloadOfTraefik, project
<1>2. traefik' \in TraefikType
  BY <1>1, TraefikTypes DEF Basics, RestartTraefik
<1>3. count' \in [DOMAIN Bound -> Nat]
  BY <1>1, UsedFacts DEF Basics, RestOK
<1> QED BY <1>1, <1>2, <1>3 DEF Basics, CaddyOK, DraftOK, OpOK, MovingOK, RestOK

LEMMA NextBasics == ASSUME Basics, [Next]_vars PROVE Basics'
<1>1. CASE UNCHANGED vars
  <2>1. UNCHANGED <<caddy, draft, traefik, trust, proxy, inventory, redirecting, op, dump, kept, count>>
    BY <1>1 DEF vars, proxies, project
  <2> QED BY <2>1 DEF Basics, CaddyOK, DraftOK, OpOK, MovingOK, RestOK
<1>2. CASE Command
  BY <1>2, CommandBasics
<1>3. CASE Work
  BY <1>3, ReadBasics, WriteBasics, ConfigureBasics, CheckBasics, SaveBasics, DumpBasics, AdvertiseBasics
     DEF Work
<1>4. CASE Failure
  BY <1>4, RejectedBasics, CaddyFailsBasics, TraefikFailsBasics, DieBasics, DumpFailsBasics DEF Failure
<1>5. CASE Environment
  BY <1>5, DumpEndsBasics, RestartCaddyBasics, EditBasics, TraefikEnvironmentBasics DEF Environment
<1> QED BY <1>1, <1>2, <1>3, <1>4, <1>5 DEF Next

LEMMA AlwaysBasics == Spec => []Basics
<1>1. Init => Basics
  BY InitBasics
<1>2. Basics /\ [Next]_vars => Basics'
  BY NextBasics
<1> QED BY <1>1, <1>2, PTL DEF Spec

\* Every variable keeps its type: in particular the calls that remain to a command are
\* calls of its proxy, for hostnames, and whatever is written, restored or edited, Caddy's
\* servers hold routes of their kinds only and no two routes have one @id.
THEOREM TypeCorrectness == Spec => []TypeOK
<1>1. Basics => TypeOK
  BY DEF Basics, CaddyOK, ConfigOK, DraftOK, OpOK, CommandOK, RestOK, TypeOK
<1> QED BY <1>1, AlwaysBasics, PTL

-----------------------------------------------------------------------------
(* The resolver of Traefik *)

First(call) == op.todo # <<>> /\ op.todo[1][1] = call

\* A change of the start-up files is followed, in the command that made it, by the restart
\* that loads it; a command that ends before it leaves "missed" behind.
TrustOK ==
  /\ traefik.root = "file" => traefik.missed
  /\ traefik.static = "managed" => traefik.root # "none"
  /\ traefik.static = "managed" /\ ~traefik.missed /\ ~trust.restartNeeded
       => traefik.loaded.resolver /\ traefik.loaded.root
  /\ NamesResolver \/ trust.resolver => traefik.static = "managed"
  /\ NamesResolver /\ ~traefik.missed => traefik.loaded.resolver /\ traefik.loaded.root
  /\ trust.restartNeeded => First("static") \/ First("restart")
  /\ trust.restartNeeded /\ First("static") => traefik.static # "managed"
  /\ trust.resolver => First("fragment")
  /\ First("static") => traefik.root # "none"
  /\ First("restart") => traefik.static = "managed"

\* Calls that have nothing to do with the resolver.
LEMMA TrustIdle ==
  ASSUME TrustOK, UNCHANGED traefik, UNCHANGED trust \/ trust' = NoTrust,
         ~First("static") /\ ~First("restart") /\ ~First("fragment"),
         ~First("static")' /\ ~First("restart")'
  PROVE  TrustOK'
<1>1. NamesResolver' <=> NamesResolver
  BY DEF NamesResolver
<1>2. ~trust.restartNeeded /\ ~trust.resolver
  BY DEF TrustOK
<1>3. ~trust'.restartNeeded /\ ~trust'.resolver
  BY <1>2 DEF NoTrust
<1> QED BY <1>1, <1>2, <1>3 DEF TrustOK

LEMMA TrustOfStart ==
  ASSUME RestOK, TrustOK
  PROVE  /\ Started(traefik).root = traefik.root /\ Started(traefik).static = traefik.static
         /\ Started(traefik).fragments = traefik.fragments
         /\ Started(traefik).root = "file" => Started(traefik).missed
         /\ traefik.static = "managed" /\ ~Started(traefik).missed
              => Started(traefik).loaded.resolver /\ Started(traefik).loaded.root
<1> DEFINE F == [Host -> Fragment \cup {Absent}]
<1>1. traefik \in [stepCa : BOOLEAN, static : {"plain", "managed", "own"}, root : {"none", "file", "trusted"},
                   loaded : [resolver : BOOLEAN, root : BOOLEAN], missed : BOOLEAN, fragments : F, routers : F]
  BY DEF RestOK, TraefikType
<1> HIDE DEF F
<1> QED BY <1>1 DEF Started, TrustOK

\* The fields of Traefik that TrustOK is about.
LEMMA TraefikFields ==
  ASSUME RestOK
  PROVE  /\ traefik.root \in {"none", "file", "trusted"} /\ traefik.static \in {"plain", "managed", "own"}
         /\ traefik.missed \in BOOLEAN /\ trust.restartNeeded \in BOOLEAN /\ trust.resolver \in BOOLEAN
         /\ \A root \in {"none", "file", "trusted"}, missed \in BOOLEAN :
              LET t == [traefik EXCEPT !.root = root, !.missed = missed]
              IN  /\ t.root = root /\ t.missed = missed /\ t.static = traefik.static
                  /\ t.loaded = traefik.loaded /\ t.fragments = traefik.fragments
         /\ \A static \in {"plain", "managed", "own"}, missed \in BOOLEAN :
              LET t == [traefik EXCEPT !.static = static, !.missed = missed]
              IN  /\ t.root = traefik.root /\ t.missed = missed /\ t.static = static
                  /\ t.loaded = traefik.loaded /\ t.fragments = traefik.fragments
<1> DEFINE F == [Host -> Fragment \cup {Absent}]
<1>1. traefik \in [stepCa : BOOLEAN, static : {"plain", "managed", "own"}, root : {"none", "file", "trusted"},
                   loaded : [resolver : BOOLEAN, root : BOOLEAN], missed : BOOLEAN, fragments : F, routers : F]
  BY DEF RestOK, TraefikType
<1>2. trust \in [restartNeeded : BOOLEAN, resolver : BOOLEAN]
  BY DEF RestOK, TrustType
<1> HIDE DEF F
<1> QED BY <1>1, <1>2

LEMMA NamesResolverAfter ==
  ASSUME RestOK, NEW h \in Host
  PROVE  /\ \A r \in Request : WriteFragment(h, r, redirecting) =>
              (NamesResolver' => NamesResolver \/ trust.resolver)
         /\ RemoveFragment(h) => (NamesResolver' => NamesResolver)
         /\ (\E r \in Request : WriteFragment(h, r, redirecting)) \/ RemoveFragment(h) =>
              /\ traefik'.root = traefik.root /\ traefik'.static = traefik.static
              /\ traefik'.missed = traefik.missed /\ traefik'.loaded = traefik.loaded
<1> DEFINE F == [Host -> Fragment \cup {Absent}]
<1>1. traefik \in [stepCa : BOOLEAN, static : {"plain", "managed", "own"}, root : {"none", "file", "trusted"},
                   loaded : [resolver : BOOLEAN, root : BOOLEAN], missed : BOOLEAN, fragments : F, routers : F]
  BY DEF RestOK, TraefikType
<1>2. traefik.fragments \in [Host -> Fragment \cup {Absent}]
  BY <1>1
<1> HIDE DEF F
<1>3. ASSUME NEW f
      PROVE  LET t == [traefik EXCEPT !.fragments = f]
             IN  /\ t.fragments = f /\ t.root = traefik.root /\ t.static = traefik.static
                 /\ t.missed = traefik.missed /\ t.loaded = traefik.loaded
  BY <1>1
<1>4. ASSUME NEW r \in Request, WriteFragment(h, r, redirecting)
      PROVE  /\ NamesResolver' => NamesResolver \/ trust.resolver
             /\ traefik'.root = traefik.root /\ traefik'.static = traefik.static
             /\ traefik'.missed = traefik.missed /\ traefik'.loaded = traefik.loaded
  <2> DEFINE f == [traefik.fragments EXCEPT ![h] = FragmentOf(r, redirecting)]
  <2>1. traefik' = [traefik EXCEPT !.fragments = f]
    BY <1>4 DEF WriteFragment
  <2>2. \A g \in Host : f[g] = IF g = h THEN FragmentOf(r, redirecting) ELSE traefik.fragments[g]
    BY <1>2
  <2>3. FragmentOf(r, redirecting).resolver = trust.resolver
    BY DEF FragmentOf
  <2> HIDE DEF f
  <2>4. /\ traefik'.fragments = f /\ traefik'.root = traefik.root /\ traefik'.static = traefik.static
        /\ traefik'.missed = traefik.missed /\ traefik'.loaded = traefik.loaded
    BY <1>3, <2>1
  <2> QED BY <2>2, <2>3, <2>4 DEF NamesResolver
<1>5. ASSUME RemoveFragment(h)
      PROVE  /\ NamesResolver' => NamesResolver
             /\ traefik'.root = traefik.root /\ traefik'.static = traefik.static
             /\ traefik'.missed = traefik.missed /\ traefik'.loaded = traefik.loaded
  <2> DEFINE f == [traefik.fragments EXCEPT ![h] = Absent]
  <2>1. traefik' = [traefik EXCEPT !.fragments = f]
    BY <1>5 DEF RemoveFragment
  <2>2. \A g \in Host : f[g] = IF g = h THEN Absent ELSE traefik.fragments[g]
    BY <1>2
  <2> HIDE DEF f
  <2>3. /\ traefik'.fragments = f /\ traefik'.root = traefik.root /\ traefik'.static = traefik.static
        /\ traefik'.missed = traefik.missed /\ traefik'.loaded = traefik.loaded
    BY <1>3, <2>1
  <2> QED BY <2>2, <2>3 DEF NamesResolver
<1> QED BY <1>4, <1>5

LEMMA InitTrust == Init => TrustOK
<1> SUFFICES ASSUME Init PROVE TrustOK
  OBVIOUS
<1>1. op.todo = <<>>
  BY OpType DEF Init
<1>2. \E s \in BOOLEAN, t \in {"plain", "own"} : TraefikInit(s, t)
  BY DEF Init
<1>3. /\ traefik.root = "none" /\ traefik.static \in {"plain", "own"} /\ ~NamesResolver
      /\ trust.restartNeeded = FALSE /\ trust.resolver = FALSE
  <2>1. PICK s \in BOOLEAN, t \in {"plain", "own"} : TraefikInit(s, t)
    BY <1>2
  <2>2. traefik.root = "none" /\ traefik.static = t /\ traefik.fragments = [h \in Host |-> Absent]
    BY <2>1 DEF TraefikInit
  <2>3. trust.restartNeeded = FALSE /\ trust.resolver = FALSE
    BY <2>1 DEF TraefikInit, NoTrust
  <2> QED BY <2>2, <2>3 DEF NamesResolver
<1> QED BY <1>1, <1>3 DEF TrustOK, First

\* The call after the next one, when the next one does not begin the start-up files.
LEMMA FirstShifted ==
  ASSUME Basics, op.todo # <<>>, Len(op.todo) > 1, Shifts(op.todo, op'.todo)
  PROVE  /\ First("static")' => First("root")
         /\ First("restart")' => First("static")
         /\ First("fragment")' => First("restart") \/ First("check")
<1>1. Linked(op.todo[1], op.todo[2]) /\ op'.todo[1] = op.todo[2]
      /\ op.todo[1][1] \in Call
  BY NextCall DEF Basics, Shifts
<1>2. Follows(op.todo[1][1], op.todo[2][1])
  BY <1>1 DEF Linked
<1> DEFINE a == op.todo[1][1]
           b == op.todo[2][1]
<1>3. a \in Call /\ Follows(a, b)
  BY <1>1, <1>2
<1> HIDE DEF a, b
<1>4. b = "static" => a = "root"
  BY <1>3 DEF Follows, Call, Writes, Finals
<1>5. b = "restart" => a = "static"
  BY <1>3 DEF Follows, Call, Writes, Finals
<1>6. b = "fragment" => a = "restart" \/ a = "check"
  BY <1>3 DEF Follows, Call, Writes, Finals
<1> QED BY <1>1, <1>4, <1>5, <1>6 DEF First, a, b

LEMMA CommandTrust == ASSUME Basics, TrustOK, Command PROVE TrustOK'
<1>1. op = NoOp /\ Beginning(op') /\ UNCHANGED <<traefik, trust>>
  BY CommandFacts DEF proxies
<1>2. op.todo = <<>>
  BY <1>1, OpType
<1>3. ~First("static")' /\ ~First("restart")'
  BY <1>1 DEF Beginning, First, Finals
<1> QED BY <1>1, <1>2, <1>3, TrustIdle DEF First

\* Nothing of Traefik is touched by what concerns Caddy.
LEMMA CaddyTrust ==
  ASSUME Basics, TrustOK, ReadCaddy \/ WriteCaddy PROVE TrustOK'
<1>1. UNCHANGED <<traefik, trust, proxy>> /\ op.todo # <<>>
      /\ op.todo[1][1] \in ReadCalls \cup Writes /\ proxy = "caddy"
  <2>1. CASE ReadCaddy
    BY <2>1, ReadDecides DEF ReadCaddy
  <2>2. CASE WriteCaddy
    BY <2>2, WriteDecides DEF WriteCaddy
  <2> QED BY <2>1, <2>2
<1>2. OpOK'
  BY ReadBasics, WriteBasics DEF Basics
<1>3. op'.todo # <<>> => op'.todo[1][1] \notin TraefikCalls
  <2>1. ASSUME op'.todo # <<>> PROVE 1 \in DOMAIN op'.todo
    BY <1>2, <2>1, OpType, EmptyFacts DEF OpOK, CommandOK
  <2> QED BY <1>1, <1>2, <2>1 DEF OpOK, CommandOK, Possible
<1>4. ~First("static")' /\ ~First("restart")'
  BY <1>3 DEF First, TraefikCalls
<1>5. ~First("static") /\ ~First("restart") /\ ~First("fragment")
  BY <1>1 DEF First, ReadCalls, Writes
<1> QED BY <1>1, <1>4, <1>5, TrustIdle

LEMMA CheckTrust ==
  ASSUME Basics, TrustOK, Check \/ Save \/ Dump \/ Advertise PROVE TrustOK'
<1>1. /\ UNCHANGED <<traefik, trust>> /\ op.todo # <<>> /\ op.todo[1][1] \in {"check"} \cup Finals
      /\ \/ op' = NoOp
         \/ Len(op.todo) > 1 /\ Shifts(op.todo, op'.todo)
  <2>1. CASE Check
    <3>1. op.todo[1] = <<"check", Hostname>> /\ op.todo # <<>> /\ Len(op.todo) > 1 /\ Shifts(op.todo, op'.todo)
      BY <2>1, CheckDecides
    <3>2. op.todo[1][1] = "check"
      BY <3>1
    <3> QED BY <2>1, <3>1, <3>2 DEF Check, proxies
  <2>2. CASE Save \/ Dump \/ Advertise
    <3>1. UNCHANGED <<traefik, trust>>
      BY <2>2 DEF Save, Dump, Advertise, proxies
    <3> QED BY <2>2, <3>1, FinalDecides
  <2> QED BY <2>1, <2>2
<1>2. ~First("static") /\ ~First("restart") /\ ~First("fragment") /\ ~First("root")
  BY <1>1 DEF First, Finals
<1>3. ~First("static")' /\ ~First("restart")'
  <2>1. CASE op' = NoOp
    BY <2>1, OpType DEF First
  <2>2. CASE Len(op.todo) > 1 /\ Shifts(op.todo, op'.todo)
    BY <1>1, <1>2, <2>2, FirstShifted
  <2> QED BY <1>1, <2>1, <2>2
<1> QED BY <1>1, <1>2, <1>3, TrustIdle

\* The root, the static file, the restart, and then the fragment that names the resolver.
LEMMA ConfigureTrust == ASSUME Basics, TrustOK, ConfigureTraefik PROVE TrustOK'
<1>1. RestOK /\ OpOK
  BY DEF Basics
<1>2. /\ op.todo # <<>> /\ op.todo[1][1] \in TraefikCalls /\ Hostname \in Host /\ Len(op.todo) > 1
  BY ConfigureDecides
<1>3. /\ traefik.root \in {"none", "file", "trusted"} /\ traefik.static \in {"plain", "managed", "own"}
      /\ traefik.missed \in BOOLEAN /\ trust.restartNeeded \in BOOLEAN /\ trust.resolver \in BOOLEAN
  BY <1>1, TraefikFields
<1>4. NoTrust.restartNeeded = FALSE /\ NoTrust.resolver = FALSE
  BY DEF NoTrust
<1>5. CASE GivesUpTrust /\ Conflict /\ op.todo[1][1] = "static" /\ trust' = NoTrust /\ UNCHANGED traefik
  <2>1. op'.todo # <<>> /\ op'.todo[1] = <<"fragment", Hostname>>
    BY <1>1, <1>2, <1>5, GivesUpFacts
  <2>2. op'.todo[1][1] = "fragment"
    BY <2>1
  <2>3. NamesResolver' <=> NamesResolver
    BY <1>5 DEF NamesResolver
  <2>4. traefik.static = "own"
    BY <1>5 DEF Conflict
  <2> QED BY <1>4, <1>5, <2>2, <2>3, <2>4 DEF TrustOK, First
<1>6. CASE /\ Shifts(op.todo, op'.todo)
           /\ op.todo[1][1] = "root" => InstallRoot
           /\ op.todo[1][1] = "static" => WriteStatic
           /\ op.todo[1][1] = "restart" => RestartIfNeeded
           /\ op.todo[1][1] = "fragment" => /\ WriteFragment(Hostname, Wanted(Hostname), redirecting)
                                            /\ trust' = NoTrust /\ Wanted(Hostname) \in Request
           /\ op.todo[1][1] = "unlink" => RemoveFragment(Hostname) /\ UNCHANGED trust
  <2>1. /\ First("static")' => First("root")
        /\ First("restart")' => First("static")
        /\ First("fragment")' => First("restart") \/ First("check")
    BY <1>2, <1>6, FirstShifted
  <2>2. op'.todo # <<>> /\ op'.todo[1] = op.todo[2] /\ Linked(op.todo[1], op.todo[2])
    BY <1>1, <1>2, <1>6, NextCall, ConfigureDecides DEF Shifts, TraefikCalls, Finals
  <2>3. CASE op.todo[1][1] = "root"
    <3>1. InstallRoot
      BY <1>6, <2>3
    <3>2. First("static")' /\ First("root") /\ ~First("static") /\ ~First("restart") /\ ~First("fragment")
      BY <1>2, <2>2, <2>3 DEF First, Linked, Follows
    <3>3. ~First("restart")'
      BY <2>1, <3>2
    <3>4. trust.restartNeeded = FALSE /\ trust.resolver = FALSE
      BY <1>3, <3>2 DEF TrustOK
    <3>5. CASE traefik.root = "none"
      <4>1. traefik' = [traefik EXCEPT !.root = "trusted"] /\ trust' = [trust EXCEPT !.restartNeeded = TRUE]
        BY <3>1, <3>5 DEF InstallRoot
      <4>2. /\ traefik'.root = "trusted" /\ traefik'.static = traefik.static /\ traefik'.missed = traefik.missed
            /\ traefik'.loaded = traefik.loaded /\ traefik'.fragments = traefik.fragments
        BY <1>1, <4>1, TraefikFields
      <4>3. trust'.resolver = FALSE /\ trust'.restartNeeded = TRUE
        BY <1>1, <3>4, <4>1 DEF RestOK, TrustType
      <4>4. NamesResolver' <=> NamesResolver
        BY <4>2 DEF NamesResolver
      <4> QED BY <3>2, <3>3, <3>5, <4>2, <4>3, <4>4 DEF TrustOK
    <3>6. CASE traefik.root # "none"
      <4>1. UNCHANGED <<traefik, trust>>
        BY <3>1, <3>6 DEF InstallRoot
      <4>2. NamesResolver' <=> NamesResolver
        BY <4>1 DEF NamesResolver
      <4> QED BY <3>2, <3>3, <3>4, <3>6, <4>1, <4>2 DEF TrustOK
    <3> QED BY <3>5, <3>6
  <2>4. CASE op.todo[1][1] = "static"
    <3>1. /\ traefik' = [traefik EXCEPT !.static = "managed"]
          /\ trust' = [trust EXCEPT !.restartNeeded = @ \/ traefik.static # "managed"]
      BY <1>6, <2>4 DEF WriteStatic
    <3>2. First("restart")' /\ First("static") /\ ~First("fragment")
      BY <1>2, <2>2, <2>4 DEF First, Linked, Follows
    <3>3. ~First("static")'
      BY <2>4, <2>1 DEF First
    <3>4. /\ traefik'.root = traefik.root /\ traefik'.static = "managed" /\ traefik'.missed = traefik.missed
          /\ traefik'.loaded = traefik.loaded /\ traefik'.fragments = traefik.fragments
      BY <1>1, <3>1 DEF RestOK, TraefikType
    <3>5. /\ trust'.resolver = trust.resolver
          /\ trust'.restartNeeded = (trust.restartNeeded \/ traefik.static # "managed")
      BY <1>1, <3>1 DEF RestOK, TrustType
    <3>6. NamesResolver' <=> NamesResolver
      BY <3>4 DEF NamesResolver
    <3> QED BY <3>2, <3>3, <3>4, <3>5, <3>6 DEF TrustOK
  <2>5. CASE op.todo[1][1] = "restart"
    <3>1. /\ traefik' = IF trust.restartNeeded THEN Started(traefik) ELSE traefik
          /\ trust' = [restartNeeded |-> FALSE, resolver |-> TRUE]
      BY <1>6, <2>5 DEF RestartIfNeeded
    <3>2. First("fragment")' /\ First("restart")
      BY <1>2, <2>2, <2>5 DEF First, Linked, Follows
    <3>3. ~First("static")' /\ ~First("restart")'
      BY <2>5, <2>1 DEF First
    <3>4. traefik.static = "managed" /\ traefik.root # "none"
      BY <3>2 DEF TrustOK
    <3>5. /\ traefik'.root = traefik.root /\ traefik'.static = traefik.static
          /\ traefik'.fragments = traefik.fragments
          /\ traefik'.root = "file" => traefik'.missed
          /\ ~traefik'.missed => traefik'.loaded.resolver /\ traefik'.loaded.root
      <4>1. CASE trust.restartNeeded
        BY <1>1, <3>1, <3>4, <4>1, TrustOfStart
      <4>2. CASE ~trust.restartNeeded
        BY <3>1, <3>4, <4>2 DEF TrustOK
      <4> QED BY <4>1, <4>2
    <3>6. trust'.restartNeeded = FALSE /\ trust'.resolver = TRUE
      BY <3>1
    <3>7. NamesResolver' <=> NamesResolver
      BY <3>5 DEF NamesResolver
    <3> QED BY <3>2, <3>3, <3>4, <3>5, <3>6, <3>7 DEF TrustOK
  <2>6. CASE op.todo[1][1] \in {"fragment", "unlink"}
    <3>1. /\ NamesResolver' => NamesResolver \/ trust.resolver
          /\ traefik'.root = traefik.root /\ traefik'.static = traefik.static
          /\ traefik'.missed = traefik.missed /\ traefik'.loaded = traefik.loaded
      BY <1>1, <1>2, <1>6, <2>6, NamesResolverAfter
    <3>2. ~First("static") /\ ~First("restart")
      BY <2>6 DEF First
    <3>3. ~First("static")' /\ ~First("restart")'
      BY <2>1, <2>6 DEF First
    <3>4. trust.restartNeeded = FALSE
      BY <1>3, <3>2 DEF TrustOK
    <3>5. trust'.restartNeeded = FALSE /\ trust'.resolver = FALSE
      BY <1>3, <1>4, <1>6, <2>6, <3>4 DEF TrustOK, First
    <3> QED BY <3>1, <3>3, <3>4, <3>5 DEF TrustOK
  <2> QED BY <1>2, <2>3, <2>4, <2>5, <2>6 DEF TraefikCalls
<1> QED BY <1>5, <1>6, ConfigureDecides

LEMMA StoppedTrust ==
  ASSUME TrustOK, UNCHANGED traefik, op' = NoOp, UNCHANGED trust \/ trust' = NoTrust,
         ~First("static") /\ ~First("restart") /\ ~First("fragment")
  PROVE  TrustOK'
<1>1. ~First("static")' /\ ~First("restart")'
  BY OpType DEF First
<1> QED BY <1>1, TrustIdle

\* A command that configures nothing of Traefik is refused, fails or is told of it.
LEMMA CaddyFailureTrust == ASSUME Basics, TrustOK, Rejected \/ CaddyFails PROVE TrustOK'
<1>1. /\ op.todo # <<>> /\ op.todo[1][1] \in ReadCalls \cup Writes \cup {"check"}
      /\ op' = NoOp /\ trust' = NoTrust /\ UNCHANGED traefik
  <2>1. CASE Rejected
    <3>1. op' = NoOp /\ trust' = NoTrust /\ UNCHANGED traefik
      BY <2>1 DEF Rejected, Ends
    <3>2. op.todo # <<>>
      BY <2>1 DEF Rejected, Calling
    <3>3. op.todo[1][1] \in Writes \cup {"check"}
      BY <2>1, <3>2, NextCall DEF Rejected, Basics
    <3> QED BY <3>1, <3>2, <3>3
  <2>2. CASE CaddyFails
    <3>1. op' = NoOp /\ trust' = NoTrust
      BY <2>2, CaddyFailsFacts DEF Ends
    <3> QED BY <2>2, <3>1, CaddyFailsFacts
  <2> QED BY <2>1, <2>2
<1>2. ~First("static") /\ ~First("restart") /\ ~First("fragment")
  BY <1>1 DEF First, ReadCalls, Writes
<1> QED BY <1>1, <1>2, StoppedTrust

LEMMA TraefikFailureTrust == ASSUME Basics, TrustOK, TraefikFails PROVE TrustOK'
<1>1. RestOK /\ OpOK
  BY DEF Basics
<1>2. op.todo # <<>> /\ op.todo[1][1] \in TraefikCalls /\ trust' = NoTrust
  BY TraefikFailsFacts
<1>3. trust'.restartNeeded = FALSE /\ trust'.resolver = FALSE
  BY <1>2 DEF NoTrust
<1>4. CASE /\ GivesUpTrust
           /\ \/ op.todo[1][1] = "root" /\ InstallRootFails
              \/ op.todo[1][1] = "static" /\ WriteStaticFails
              \/ op.todo[1][1] = "restart" /\ RestartFails
  <2>1. op'.todo # <<>> /\ op'.todo[1] = <<"fragment", Hostname>>
    BY <1>1, <1>2, <1>4, GivesUpFacts
  <2>2. op'.todo[1][1] = "fragment"
    BY <2>1
  <2>3. ~First("static")' /\ ~First("restart")'
    BY <2>2 DEF First
  <2>4. /\ traefik'.static = "managed" => traefik'.root # "none"
        /\ traefik'.root = "file" => traefik'.missed
        /\ NamesResolver' <=> NamesResolver
        /\ NamesResolver => traefik'.static = "managed"
        /\ traefik'.static = "managed" /\ ~traefik'.missed => traefik'.loaded.resolver /\ traefik'.loaded.root
    <3>1. CASE op.todo[1][1] = "root"
      <4>1. First("root") /\ ~First("static") /\ ~First("restart")
        BY <1>2, <3>1 DEF First
      <4>2. ~trust.restartNeeded
        BY <4>1 DEF TrustOK
      <4>3. CASE UNCHANGED traefik
        <5>1. NamesResolver' <=> NamesResolver
          BY <4>3 DEF NamesResolver
        <5> QED BY <4>2, <4>3, <5>1 DEF TrustOK
      <4>4. CASE traefik.root = "none" /\ traefik' = [traefik EXCEPT !.root = "file", !.missed = TRUE]
        <5>1. /\ traefik'.root = "file" /\ traefik'.missed = TRUE /\ traefik'.static = traefik.static
              /\ traefik'.fragments = traefik.fragments
          BY <1>1, <4>4, TraefikFields
        <5>2. NamesResolver' <=> NamesResolver
          BY <5>1 DEF NamesResolver
        <5> QED BY <4>4, <5>1, <5>2 DEF TrustOK
      <4> QED BY <1>4, <3>1, <4>3, <4>4 DEF InstallRootFails
    <3>2. CASE op.todo[1][1] = "static"
      <4>1. First("static")
        BY <1>2, <3>2 DEF First
      <4>2. traefik.root # "none" /\ (trust.restartNeeded => traefik.static # "managed")
        BY <4>1 DEF TrustOK
      <4>3. CASE UNCHANGED traefik
        <5>1. NamesResolver' <=> NamesResolver
          BY <4>3 DEF NamesResolver
        <5> QED BY <4>2, <4>3, <5>1 DEF TrustOK
      <4>4. CASE traefik.static = "plain" /\ traefik' = [traefik EXCEPT !.static = "managed", !.missed = TRUE]
        <5>1. /\ traefik'.root = traefik.root /\ traefik'.missed = TRUE /\ traefik'.static = "managed"
              /\ traefik'.fragments = traefik.fragments
          BY <1>1, <4>4, TraefikFields
        <5>2. NamesResolver' <=> NamesResolver
          BY <5>1 DEF NamesResolver
        <5> QED BY <4>2, <4>4, <5>1, <5>2 DEF TrustOK
      <4> QED BY <1>4, <3>2, <4>3, <4>4 DEF WriteStaticFails
    <3>3. CASE op.todo[1][1] = "restart"
      <4>1. traefik' = [traefik EXCEPT !.missed = TRUE]
        BY <1>4, <3>3 DEF RestartFails
      <4>2. /\ traefik'.root = traefik.root /\ traefik'.missed = TRUE /\ traefik'.static = traefik.static
            /\ traefik'.fragments = traefik.fragments
        BY <1>1, <4>1 DEF RestOK, TraefikType
      <4>3. NamesResolver' <=> NamesResolver
        BY <4>2 DEF NamesResolver
      <4> QED BY <4>2, <4>3 DEF TrustOK
    <3> QED BY <1>4, <3>1, <3>2, <3>3
  <2> QED BY <1>3, <2>3, <2>4 DEF TrustOK
<1>5. CASE /\ Ends(FALSE) /\ Hostname \in Host
           /\ \/ /\ op.todo[1][1] = "fragment" /\ Wanted(Hostname) \in Request
                 /\ WriteFragment(Hostname, Wanted(Hostname), redirecting)
              \/ op.todo[1][1] = "unlink" /\ RemoveFragment(Hostname)
              \/ op.todo[1][1] \in {"fragment", "unlink"} /\ UNCHANGED traefik
  <2>1. op' = NoOp
    BY <1>5 DEF Ends
  <2>2. ~First("static")' /\ ~First("restart")'
    BY <2>1, OpType DEF First
  <2>3. ~First("static") /\ ~First("restart")
    BY <1>5 DEF First
  <2>4. ~trust.restartNeeded
    BY <2>3 DEF TrustOK
  <2>5. /\ NamesResolver' => NamesResolver \/ trust.resolver
        /\ traefik'.root = traefik.root /\ traefik'.static = traefik.static
        /\ traefik'.missed = traefik.missed /\ traefik'.loaded = traefik.loaded
    <3>1. CASE UNCHANGED traefik
      BY <3>1 DEF NamesResolver
    <3>2. CASE (\E r \in Request : WriteFragment(Hostname, r, redirecting)) \/ RemoveFragment(Hostname)
      BY <1>1, <1>5, <3>2, NamesResolverAfter
    <3> QED BY <1>5, <3>1, <3>2
  <2> QED BY <1>3, <2>2, <2>4, <2>5 DEF TrustOK
<1> QED BY <1>4, <1>5, TraefikFailsFacts

LEMMA DieTrust == ASSUME Basics, TrustOK, Die PROVE TrustOK'
<1>1. op' = NoOp /\ trust' = NoTrust /\ traefik' = Abandoned(traefik)
  BY DEF Die, Ends
<1>2. trust'.restartNeeded = FALSE /\ trust'.resolver = FALSE
  BY <1>1 DEF NoTrust
<1>3. ~First("static")' /\ ~First("restart")'
  BY <1>1, OpType DEF First
<1>4. /\ traefik'.root = traefik.root /\ traefik'.static = traefik.static
      /\ traefik'.loaded = traefik.loaded /\ traefik'.fragments = traefik.fragments
      /\ traefik'.missed = (traefik.missed \/ (trust.restartNeeded /\ traefik.static = "managed"))
  BY <1>1 DEF Basics, RestOK, TraefikType, Abandoned
<1>5. NamesResolver' <=> NamesResolver
  BY <1>4 DEF NamesResolver
<1> QED BY <1>2, <1>3, <1>4, <1>5 DEF TrustOK

\* The calls of the command are the same, and Traefik is.
LEMMA SameTrust ==
  ASSUME TrustOK, UNCHANGED <<traefik, trust>>, op'.todo = op.todo
  PROVE  TrustOK'
<1>1. NamesResolver' <=> NamesResolver
  BY DEF NamesResolver
<1>2. \A call : First(call)' <=> First(call)
  BY DEF First
<1> QED BY <1>1, <1>2 DEF TrustOK

LEMMA EnvironmentTrust == ASSUME Basics, TrustOK, Environment \/ DumpFails PROVE TrustOK'
<1>1. CASE DumpEnds \/ RestartOfCaddy \/ Edit
  <2>1. UNCHANGED <<traefik, trust>>
    BY <1>1 DEF DumpEnds, RestartOfCaddy, Edit
  <2>2. op'.todo = op.todo
    <3>1. CASE DumpEnds
      BY <3>1 DEF DumpEnds
    <3>2. CASE RestartOfCaddy
      BY <3>2, RestartCaddyFacts
    <3>3. CASE Edit
      BY <3>3, EditOfCaddyFacts
    <3> QED BY <1>1, <3>1, <3>2, <3>3
  <2> QED BY <2>1, <2>2, SameTrust
<1>2. CASE DumpFails
  <2>1. UNCHANGED <<traefik, trust>> /\ op' = (IF Calling("advertise") THEN NoOp ELSE op)
    BY <1>2 DEF DumpFails, proxies
  <2>2. CASE Calling("advertise")
    <3>1. op.todo # <<>> /\ op' = NoOp
      BY <2>1, <2>2 DEF Calling
    <3>2. op.todo[1][1] = "advertise"
      BY <2>2, <3>1, NextCall DEF Basics
    <3>3. ~First("static") /\ ~First("restart") /\ ~First("fragment")
      BY <3>2 DEF First
    <3> QED BY <2>1, <3>1, <3>3, StoppedTrust
  <2>3. CASE ~Calling("advertise")
    BY <2>1, <2>3, SameTrust
  <2> QED BY <2>2, <2>3
<1>3. CASE RestartOfTraefik
  <2>1. traefik' = Started(traefik) /\ UNCHANGED <<trust, op>>
    BY <1>3 DEF RestartOfTraefik, RestartTraefik
  <2>2. /\ traefik'.root = traefik.root /\ traefik'.static = traefik.static
        /\ traefik'.fragments = traefik.fragments
        /\ traefik'.root = "file" => traefik'.missed
        /\ traefik.static = "managed" /\ ~traefik'.missed => traefik'.loaded.resolver /\ traefik'.loaded.root
    BY <2>1, TrustOfStart DEF Basics
  <2>3. NamesResolver' <=> NamesResolver
    BY <2>2 DEF NamesResolver
  <2>4. \A call : First(call)' <=> First(call)
    BY <2>1 DEF First
  <2> QED BY <2>1, <2>2, <2>3, <2>4 DEF TrustOK
<1>4. CASE ReloadOfTraefik
  <2>1. traefik' = [traefik EXCEPT !.routers = traefik.fragments] /\ UNCHANGED <<trust, op>>
    BY <1>4 DEF ReloadOfTraefik, Reload
  <2>2. /\ traefik'.root = traefik.root /\ traefik'.static = traefik.static
        /\ traefik'.fragments = traefik.fragments /\ traefik'.missed = traefik.missed
        /\ traefik'.loaded = traefik.loaded
    BY <2>1 DEF Basics, RestOK, TraefikType
  <2>3. NamesResolver' <=> NamesResolver
    BY <2>2 DEF NamesResolver
  <2>4. \A call : First(call)' <=> First(call)
    BY <2>1 DEF First
  <2> QED BY <2>1, <2>2, <2>3, <2>4 DEF TrustOK
<1> QED BY <1>1, <1>2, <1>3, <1>4 DEF Environment

LEMMA NextTrust == ASSUME Basics, TrustOK, [Next]_vars PROVE TrustOK'
<1>1. CASE UNCHANGED vars
  <2>1. UNCHANGED <<traefik, trust, op>>
    BY <1>1 DEF vars, proxies
  <2> QED BY <2>1, SameTrust
<1>2. CASE Command
  BY <1>2, CommandTrust
<1>3. CASE Work
  BY <1>3, CaddyTrust, ConfigureTrust, CheckTrust DEF Work
<1>4. CASE Failure
  BY <1>4, CaddyFailureTrust, TraefikFailureTrust, DieTrust, EnvironmentTrust DEF Failure
<1>5. CASE Environment
  BY <1>5, EnvironmentTrust
<1> QED BY <1>1, <1>2, <1>3, <1>4, <1>5 DEF Next

\* No fragment names a certificate resolver that the running Traefik lacks or cannot trust,
\* through failed calls, dead commands and restarts of Traefik, as long as no command ended
\* between changing the start-up files and restarting it (src/src/traefik-adapter.js,
\* configureCaTrust).  The invariant ties every change of those files to the restart that
\* the command still has to make.
THEOREM NamedResolversAreLoaded == Spec => []ResolverKnown
<1>1. Init => TrustOK
  BY InitTrust
<1>2. Basics /\ TrustOK /\ [Next]_vars => TrustOK'
  BY NextTrust
<1>3. TrustOK => ResolverKnown
  BY DEF TrustOK, ResolverKnown
<1> QED BY <1>1, <1>2, <1>3, AlwaysBasics, PTL DEF Spec


-----------------------------------------------------------------------------
(* What Caddy serves *)

CallAt(i) == IF i \in DOMAIN op.todo THEN op.todo[i][1] ELSE "none"

\* A server is written, a policy written or a route read for the sake of:
\* the migration of srv0, a publication, or a removal.
Moves == CallAt(1) = "https" /\ CallAt(2) \in {"http", "create-http"}
Publishes == CallAt(1) = "https" /\ CallAt(2) = "read-http"
Removes == CallAt(1) = "https" /\ CallAt(2) = "read-http-removal"
Issues == CallAt(1) = "policies" /\ CallAt(2) = "read-https"

\* After the route, and after the issuer's policy.
HasRoute == CallAt(1) \in {"read-http", "check"} \/ (CallAt(1) = "http" /\ CallAt(2) = "check")
HasIssuer == CallAt(1) = "read-https" \/ Publishes \/ HasRoute

\* After the route has been taken away.
Withdrawn == \/ CallAt(1) = "read-http-removal"
             \/ CallAt(1) = "http" /\ CallAt(2) \in {"policies", "dump"}
             \/ CallAt(1) = "policies" /\ CallAt(2) = "dump"

\* The servers are as ensureServers leaves them.
Settled == CallAt(1) \notin {"none", "read-servers", "listen", "drop-srv0"} \cup Finals

\* What the later calls of a command are for.
Arranged ==
  \A i \in DOMAIN op.todo : i > 1 =>
    /\ op.todo[i][1] = "https" => CallAt(i + 1) \in {"http", "create-http"}
    /\ op.todo[i][1] = "http" => CallAt(i + 1) \in {"read-policies", "read-removal"}
    /\ op.todo[i][1] = "policies" => op.do = "remove"

\* Hostnames that Caddy serves: from srv0, from srv_https, from what is about to be written.
Old == Served(caddy.live.srv0)
Current == Served(caddy.live.https.routes)
Drafted == Served(draft.https)
Restored == Served(Loaded.srv0)
Listens == caddy.live.https.up /\ caddy.live.https.listen
Issuers == caddy.live.policies
NextIssuers == draft.policies
Reached == Issuers \cap (Old \cup IF Listens THEN Current ELSE {})

\* What stays served: published by this command, before the dump that runs, or dumped.
Relied == kept \cup dump.hosts \cup (IF op.torn THEN {} ELSE op.done)

ReliedOK ==
  /\ op.moving \/ Relied \subseteq Reached
  /\ op.torn /\ Relied # {} => dump.open \/ Old \subseteq Restored
  /\ op.do = "remove" => \A i \in DOMAIN op.todo : op.todo[i][2] \notin Relied

MigrationOK ==
  /\ CallAt(1) = "listen" /\ CallAt(2) # "drop-srv0" => op.torn \/ Old = {}
  /\ CallAt(1) = "listen" /\ CallAt(2) = "drop-srv0" => Relied \subseteq Drafted
  /\ CallAt(1) = "drop-srv0" =>
       /\ Relied \subseteq Drafted
       /\ CallAt(2) = "https" => Listens \/ (op.torn /\ Relied = {})
  /\ op.moving =>
       /\ Moves \/ CallAt(1) = "create-https"
       /\ Relied \subseteq Drafted \cap Issuers
       /\ Moves => Listens \/ (op.torn /\ Relied = {})
  /\ Moves /\ ~op.moving => op.torn /\ Relied = {}
  /\ CallAt(1) = "create-https" /\ ~op.moving /\ ~op.torn => Drafted \subseteq Current
  /\ Settled /\ ~op.torn => Old = {} /\ (CallAt(1) = "create-https" \/ Listens)

PublicationOK ==
  /\ Issues => /\ Hostname \in NextIssuers /\ Relied \subseteq NextIssuers
               /\ op.torn \/ Issuers \subseteq NextIssuers
  /\ HasIssuer => op.torn \/ Hostname \in Issuers
  /\ Publishes => Hostname \in Drafted /\ (op.torn \/ Drafted \subseteq Current \cup {Hostname})
  /\ HasRoute => op.torn \/ Hostname \in Current

RemovalOK ==
  /\ Removes \/ Withdrawn => /\ op.do = "remove"
                             /\ Relied \subseteq NextIssuers
                             /\ op.torn \/ Issuers \ {Hostname} \subseteq NextIssuers
  /\ Removes => op.torn \/ Drafted \subseteq Current \ {Hostname}
  /\ Withdrawn => op.torn \/ Hostname \notin Current

\* A route that is not written back is one of srv0.
ReplacingOK ==
  Publishes \/ Removes =>
    \A g \in Relied : g \in Drafted \/ (g \in Old /\ (dump.open \/ g \in Restored))

DumpedOK == dump.open \/ \A g \in kept : CaddyServes(Loaded, g)

CaddyServing == Arranged /\ ReliedOK /\ MigrationOK /\ PublicationOK /\ RemovalOK /\ ReplacingOK /\ DumpedOK

ServeOK ==
  /\ proxy = "caddy" => CaddyServing
  /\ proxy = "traefik" => kept = {} /\ dump = NoDump

LEMMA CallsFacts ==
  ASSUME OpOK
  PROVE  /\ op.todo # <<>> => CallAt(1) = op.todo[1][1] /\ CallAt(1) \in Call
         /\ op.todo = <<>> => CallAt(1) = "none" /\ CallAt(2) = "none"
         /\ CallAt(2) \in Call \cup {"none"}
         /\ Len(op.todo) > 1 => CallAt(2) = op.todo[2][1] /\ CallAt(2) \in Call
         /\ Len(op.todo) = 1 => CallAt(2) = "none"
<1>1. op.todo \in Seq(Task)
  BY OpType DEF OpOK, CommandOK
<1>2. \A i \in DOMAIN op.todo : op.todo[i][1] \in Call
  BY <1>1 DEF Task
<1>3. DOMAIN op.todo = 1..Len(op.todo) /\ Len(op.todo) \in Nat /\ (op.todo = <<>> <=> Len(op.todo) = 0)
  BY <1>1, EmptyFacts
<1> QED BY <1>2, <1>3 DEF CallAt

\* The hostnames, and what Caddy serves, in terms of them.
LEMMA Views ==
  ASSUME Basics
  PROVE  /\ Old \subseteq Host /\ Current \subseteq Host /\ Drafted \subseteq Host /\ Restored \subseteq Host
         /\ Issuers \subseteq Host /\ NextIssuers \subseteq Host /\ Relied \subseteq Host
         /\ \A g \in Host : CaddyServes(caddy.live, g) <=> g \in Reached
         /\ ConfigOK(Loaded)
         /\ ~caddy.live.https.up => Current = {}
         /\ caddy.live.srv0 = <<>> => Old = {}
         /\ op.moving \in BOOLEAN /\ op.torn \in BOOLEAN
<1>1. CaddyOK /\ DraftOK /\ RestOK /\ OpOK /\ ConfigOK(caddy.live)
  BY DEF Basics, CaddyOK
<1>2. Old \subseteq Host /\ Current \subseteq Host /\ Drafted \subseteq Host /\ Restored \subseteq Host
  BY DEF Old, Current, Drafted, Restored, Served
<1>3. Issuers \subseteq Host
  BY <1>1, ConfigFacts DEF Issuers
<1>4. NextIssuers \subseteq Host
  <2> DEFINE R == Seq(HttpsRoute)
             T == Seq(HttpRoute)
  <2>1. draft \in [https : R, http : T, policies : SUBSET Host]
    BY <1>1 DEF DraftOK
  <2> HIDE DEF R, T
  <2> QED BY <2>1 DEF NextIssuers
<1>5. op.moving \in BOOLEAN /\ op.torn \in BOOLEAN /\ op.done \subseteq Host
  BY <1>1, OpFields
<1>6. Relied \subseteq Host
  BY <1>1, <1>5 DEF Relied, RestOK
<1>7. ~caddy.live.https.up => Current = {}
  BY <1>1 DEF ConfigOK, Current, Served
<1>8. caddy.live.srv0 = <<>> => Old = {}
  BY DEF Old, Served
<1>9. ASSUME NEW g \in Host PROVE CaddyServes(caddy.live, g) <=> g \in Reached
  <2>1. CaddyServes(caddy.live, g) <=> /\ g \in Issuers
                                       /\ g \in Old \/ (g \in Current /\ caddy.live.https.listen)
    BY <1>1, ServesFacts DEF Issuers, Old, Current
  <2>2. g \in Current => caddy.live.https.up
    BY <1>7
  <2> HIDE DEF Old, Current, Issuers
  <2> QED BY <2>1, <2>2 DEF Reached, Listens
<1>10. ConfigOK(Loaded)
  <2>1. caddy.file # <<>> => 1 \in DOMAIN caddy.file
    <3>1. caddy.file \in Seq(Config)
      BY <1>1 DEF CaddyOK, CaddyType
    <3> QED BY <3>1
  <2> QED BY <1>1, <2>1, InstalledFacts DEF Loaded, CaddyOK
<1> QED BY <1>2, <1>3, <1>4, <1>5, <1>6, <1>7, <1>8, <1>9, <1>10

\* The next calls of a command, when it inserts some and when it inserts none.
LEMMA Opening ==
  ASSUME OpOK, op.todo # <<>>, NEW calls, Admissible(calls), calls # <<>>, op'.todo = After(calls).todo
  PROVE  /\ op'.todo # <<>> /\ CallAt(1)' = calls[1] /\ Hostname' = Hostname
         /\ Len(calls) > 1 => CallAt(2)' = calls[2]
         /\ Len(calls) = 1 => CallAt(2)' = CallAt(2)
         /\ \A i \in DOMAIN op'.todo : \E j \in DOMAIN op.todo : op'.todo[i][2] = op.todo[j][2]
<1> DEFINE w == After(calls).todo
           n == Len(calls)
<1>1. /\ w \in Seq(Task) /\ w # <<>> /\ Len(op.todo) > 1
      /\ \A i \in DOMAIN calls : i \in DOMAIN w /\ w[i] = <<calls[i], Hostname>>
      /\ n + 1 \in DOMAIN w /\ w[n + 1] = op.todo[2]
      /\ \A i \in DOMAIN w : \/ \E j \in DOMAIN calls : w[i] = <<calls[j], Hostname>>
                             \/ \E j \in DOMAIN op.todo : j > 1 /\ w[i] = op.todo[j]
  BY AfterSome
<1>2. calls \in Seq(Call)
  BY DEF Admissible
<1>3. n \in Nat /\ n > 0 /\ DOMAIN calls = 1..n
  BY <1>2
<1>4. 1 \in DOMAIN op.todo /\ Hostname = op.todo[1][2] /\ 2 \in DOMAIN op.todo
  BY <1>1, NextCall
<1>5. op'.todo = w
  OBVIOUS
<1> HIDE DEF w, n
<1>6. CallAt(1)' = calls[1]
  <2>1. 1 \in DOMAIN w /\ w[1] = <<calls[1], Hostname>>
    BY <1>1, <1>3
  <2> QED BY <1>5, <2>1 DEF CallAt
<1>7. n > 1 => CallAt(2)' = calls[2]
  <2>1. n > 1 => 2 \in DOMAIN w /\ w[2] = <<calls[2], Hostname>>
    BY SMTT(30), <1>1, <1>3
  <2> QED BY <1>5, <2>1 DEF CallAt
<1>8. n = 1 => CallAt(2)' = CallAt(2)
  BY <1>1, <1>4, <1>5 DEF CallAt
<1>9. Hostname' = Hostname
  <2>1. Head(w) = w[1]
    BY <1>1
  <2>2. w[1] = <<calls[1], Hostname>>
    BY <1>1, <1>3
  <2> QED BY <1>5, <2>1, <2>2 DEF Hostname
<1>10. \A i \in DOMAIN op'.todo : \E j \in DOMAIN op.todo : op'.todo[i][2] = op.todo[j][2]
  BY <1>1, <1>4, <1>5
<1> QED BY <1>1, <1>5, <1>6, <1>7, <1>8, <1>9, <1>10 DEF n

LEMMA GoingOn ==
  ASSUME OpOK, op.todo # <<>>, Len(op.todo) > 1, op'.todo = After(<<>>).todo
  PROVE  /\ op'.todo # <<>> /\ CallAt(1)' = CallAt(2) /\ CallAt(2)' = CallAt(3)
         /\ CallAt(1) # "check" => Hostname' = Hostname
         /\ \A i \in DOMAIN op'.todo : \E j \in DOMAIN op.todo : op'.todo[i][2] = op.todo[j][2]
<1> DEFINE w == After(<<>>).todo
<1>1. Admissible(<<>>)
  BY AdmissibleNone
<1>2. /\ w \in Seq(Task) /\ Len(w) = Len(op.todo) - 1
      /\ \A i \in DOMAIN op.todo : i > 1 => i - 1 \in DOMAIN w /\ w[i - 1] = op.todo[i]
  <2>1. /\ w \in Seq(Task)
        /\ \A i \in DOMAIN op.todo : i > 1 => i - 1 \in DOMAIN w /\ w[i - 1] = op.todo[i]
    BY AfterNone
  <2>2. Len(w) = Len(<<>>) + Len(op.todo) - 1
    <3> DEFINE calls == <<>>
    <3>1. calls \in Seq(Call) /\ calls = <<>> /\ DOMAIN calls = {}
      OBVIOUS
    <3>2. Admissible(calls)
      BY <1>1
    <3> HIDE DEF calls
    <3>3. After(calls).todo = NewTodo(calls) /\ Len(NewTodo(calls)) = Len(calls) + Len(op.todo) - 1
      BY <3>1, <3>2, AfterFacts
    <3> QED BY <3>3 DEF calls
  <2>3. Len(<<>>) = 0 /\ Len(op.todo) \in Nat
    BY NextCall
  <2> HIDE DEF w
  <2> QED BY <2>1, <2>2, <2>3
<1>3. /\ op.todo \in Seq(Task) /\ 1 \in DOMAIN op.todo /\ 2 \in DOMAIN op.todo
      /\ Hostname = op.todo[1][2] /\ Linked(op.todo[1], op.todo[2])
  BY NextCall
<1>4. \A i \in DOMAIN w : \E j \in DOMAIN op.todo : w[i] = op.todo[j]
  BY AfterNone
<1>5. op'.todo = w
  OBVIOUS
<1> HIDE DEF w
<1>6. /\ Len(op.todo) \in Nat /\ DOMAIN op.todo = 1..Len(op.todo)
      /\ DOMAIN w = 1..(Len(op.todo) - 1)
  BY <1>2, <1>3
<1>7. CallAt(1)' = CallAt(2)
  BY <1>2, <1>3, <1>5 DEF CallAt
<1>8. CallAt(2)' = CallAt(3)
  BY <1>2, <1>3, <1>5, <1>6 DEF CallAt
<1>9. w # <<>> /\ w[1] = op.todo[2]
  BY <1>2, <1>3, <1>6
<1>10. CallAt(1) # "check" => Hostname' = Hostname
  <2>1. Head(w) = w[1]
    BY <1>2, <1>9
  <2>2. CallAt(1) = op.todo[1][1]
    BY <1>3 DEF CallAt
  <2> QED BY <1>3, <1>5, <1>9, <2>1, <2>2 DEF Hostname, Linked
<1> QED BY <1>4, <1>5, <1>7, <1>8, <1>9, <1>10

LEMMA ArrangedAfter ==
  ASSUME OpOK, op.todo # <<>>, Arranged, NEW calls, Admissible(calls),
         op'.todo = After(calls).todo, op'.todo = <<>> \/ op'.do = op.do,
         \A i \in DOMAIN calls : i > 1 =>
           /\ calls[i] = "https" => i + 1 \in DOMAIN calls /\ calls[i + 1] \in {"http", "create-http"}
           /\ calls[i] = "http" => i = Len(calls) /\ CallAt(2) \in {"read-policies", "read-removal"}
           /\ calls[i] = "policies" => op.do = "remove"
  PROVE  Arranged'
<1> DEFINE w == After(calls).todo
           m == Len(calls)
           n == Len(op.todo)
<1>1. /\ w \in Seq(Task) /\ Len(w) = m + n - 1
      /\ \A i \in DOMAIN calls : i \in DOMAIN w /\ w[i] = <<calls[i], Hostname>>
      /\ \A i \in DOMAIN op.todo : i > 1 => m + i - 1 \in DOMAIN w /\ w[m + i - 1] = op.todo[i]
  BY AfterFacts DEF Admissible
<1>2. calls \in Seq(Call) /\ op.todo \in Seq(Task)
  BY NextCall DEF Admissible
<1>3. m \in Nat /\ n \in Nat /\ DOMAIN calls = 1..m /\ DOMAIN op.todo = 1..n /\ DOMAIN w = 1..(m + n - 1)
  <2> HIDE DEF w
  <2> QED BY <1>1, <1>2
<1>4. op'.todo = w
  OBVIOUS
<1> HIDE DEF w, m, n
<1>5. SUFFICES ASSUME NEW i \in DOMAIN w, i > 1
               PROVE  /\ w[i][1] = "https" => CallAt(i + 1)' \in {"http", "create-http"}
                      /\ w[i][1] = "http" => CallAt(i + 1)' \in {"read-policies", "read-removal"}
                      /\ w[i][1] = "policies" => op.do = "remove"
  <2>1. DOMAIN w # {} => op'.do = op.do
    <3>1. w = <<>> => DOMAIN w = {}
      OBVIOUS
    <3> QED BY <1>4, <3>1
  <2> QED BY <1>4, <1>5, <2>1 DEF Arranged
<1>6. i \in Nat /\ i + 1 \in Nat
  BY <1>3
<1>7. CASE i \in 1..m
  <2>1. w[i][1] = calls[i]
    BY <1>1, <1>3, <1>7
  <2>2. CASE calls[i] = "https"
    <3>1. i + 1 \in DOMAIN w /\ w[i + 1][1] = calls[i + 1] /\ calls[i + 1] \in {"http", "create-http"}
      BY <1>1, <1>3, <1>5, <1>7, <2>2
    <3> QED BY <1>4, <2>1, <2>2, <3>1 DEF CallAt
  <2>3. CASE calls[i] = "http"
    <3>1. i = m /\ CallAt(2) \in {"read-policies", "read-removal"}
      BY <1>3, <1>5, <1>7, <2>3 DEF m
    <3>2. 2 \in DOMAIN op.todo /\ CallAt(2) = op.todo[2][1]
      BY <3>1 DEF CallAt
    <3>3. i + 1 \in DOMAIN w /\ w[i + 1] = op.todo[2]
      BY <1>1, <1>3, <3>1, <3>2
    <3> QED BY <1>4, <2>1, <2>3, <3>1, <3>2, <3>3 DEF CallAt
  <2> QED BY <1>3, <1>5, <1>7, <2>1, <2>2, <2>3
<1>8. CASE i \notin 1..m
  <2> DEFINE j == i - m + 1
  <2>1. j \in DOMAIN op.todo /\ j > 1 /\ m + j - 1 = i /\ j + 1 \in Nat /\ m + (j + 1) - 1 = i + 1
    BY <1>3, <1>5, <1>6, <1>8
  <2>2. w[i] = op.todo[j]
    BY <1>1, <2>1
  <2>3. CallAt(j + 1) # "none" => i + 1 \in DOMAIN w /\ w[i + 1][1] = CallAt(j + 1)
    <3>1. CallAt(j + 1) # "none" => j + 1 \in DOMAIN op.todo /\ CallAt(j + 1) = op.todo[j + 1][1]
      BY DEF CallAt
    <3>2. j + 1 > 1
      BY <1>3, <2>1
    <3> QED BY <1>1, <2>1, <3>1, <3>2
  <2>4. CallAt(j + 1) # "none" => CallAt(i + 1)' = CallAt(j + 1)
    BY <1>4, <2>3 DEF CallAt
  <2> HIDE DEF j
  <2>5. /\ op.todo[j][1] = "https" => CallAt(j + 1) \in {"http", "create-http"}
        /\ op.todo[j][1] = "http" => CallAt(j + 1) \in {"read-policies", "read-removal"}
        /\ op.todo[j][1] = "policies" => op.do = "remove"
    BY <2>1 DEF Arranged
  <2> QED BY <2>2, <2>4, <2>5
<1> QED BY <1>7, <1>8

-----------------------------------------------------------------------------
(* Requests that read *)

LEMMA ReadViews ==
  ASSUME Basics, ReadCaddy
  PROVE  /\ op.todo # <<>> /\ op.todo[1][1] \in ReadCalls /\ CallAt(1) = op.todo[1][1]
         /\ CallAt(2) = op.todo[2][1] /\ Len(op.todo) > 1
         /\ Old' = Old /\ Current' = Current /\ Restored' = Restored /\ Listens' = Listens
         /\ Issuers' = Issuers /\ Reached' = Reached /\ Relied' = Relied
         /\ dump' = dump /\ kept' = kept /\ (DumpedOK => DumpedOK')
         /\ op'.torn = op.torn /\ op'.do = op.do /\ op.moving = FALSE /\ op'.moving = FALSE
<1>1. op.todo # <<>> /\ op.todo[1][1] \in ReadCalls /\ Len(op.todo) > 1
  BY ReadDecides
<1>2. UNCHANGED <<caddy, dump, kept>>
  BY DEF ReadCaddy
<1>3. SameButTodo(op') /\ op.moving = FALSE
  BY ReadGoesOn
<1>4. CallAt(1) = op.todo[1][1] /\ CallAt(2) = op.todo[2][1]
  BY <1>1, CallsFacts DEF Basics
<1>5. /\ Old' = Old /\ Current' = Current /\ Restored' = Restored /\ Listens' = Listens
      /\ Issuers' = Issuers /\ Reached' = Reached
  BY <1>2 DEF Old, Current, Restored, Listens, Issuers, Reached, Loaded
<1>6. Relied' = Relied
  BY <1>2, <1>3 DEF Relied, SameButTodo
<1>7. DumpedOK => DumpedOK'
  BY <1>2 DEF DumpedOK, Loaded
<1> QED BY <1>1, <1>2, <1>3, <1>4, <1>5, <1>6, <1>7 DEF SameButTodo

\* What holds before a read still does after it, as far as it is not about the next call.
LEMMA ReadKeepsReliance ==
  ASSUME Basics, ReadCaddy, CaddyServing,
         \A i \in DOMAIN op'.todo : \E j \in DOMAIN op.todo : op'.todo[i][2] = op.todo[j][2]
  PROVE  ReliedOK' /\ DumpedOK'
<1>1. /\ Relied' = Relied /\ Reached' = Reached /\ Old' = Old /\ Restored' = Restored /\ dump' = dump
      /\ op'.torn = op.torn /\ op'.do = op.do /\ op.moving = FALSE /\ op'.moving = FALSE
      /\ (DumpedOK => DumpedOK')
  BY ReadViews
<1> QED BY <1>1 DEF CaddyServing, ReliedOK

LEMMA ReadServersServing ==
  ASSUME Basics, CaddyServing, ReadCaddy, op.todo[1][1] = "read-servers"
  PROVE  CaddyServing'
<1>1. /\ op.todo # <<>> /\ CallAt(1) = "read-servers" /\ CallAt(2) \in {"read-policies", "read-removal"}
      /\ ReadServers /\ op' = After(EnsureCalls) /\ Admissible(EnsureCalls) /\ Len(op.todo) > 1
  <2>1. Len(op.todo) > 1 /\ CallAt(1) = "read-servers" /\ CallAt(2) = op.todo[2][1] /\ op.todo # <<>>
    BY ReadViews
  <2>2. Linked(op.todo[1], op.todo[2])
    BY <2>1, NextCall DEF Basics
  <2> QED BY <2>1, <2>2, ReadDecides DEF Linked, Follows
<1>2. OpOK /\ CaddyOK /\ DraftOK
  BY DEF Basics
<1>3. /\ Old' = Old /\ Current' = Current /\ Listens' = Listens /\ Issuers' = Issuers
      /\ Relied' = Relied /\ op'.torn = op.torn /\ op'.do = op.do /\ op'.moving = FALSE
      /\ op.moving = FALSE /\ SameButTodo(op')
  BY ReadViews, ReadGoesOn
<1>4. Drafted' = Current \cup Old
  BY <1>1, <1>2, ReadServersFacts DEF Drafted, Current, Old
<1>5. Relied \subseteq Drafted'
  BY <1>3, <1>4 DEF CaddyServing, ReliedOK, Reached
<1>6. /\ caddy.live.srv0 = <<>> => Old = {}
      /\ ~caddy.live.https.up => Current = {}
      /\ Listens <=> caddy.live.https.up /\ caddy.live.https.listen
  BY Views DEF Listens
<1>7. \/ /\ EnsureCalls = <<>> /\ Old = {} /\ Listens
      \/ /\ EnsureCalls \in {<<"create-http">>, <<"listen">>, <<"listen", "create-http">>,
                             <<"create-https">>, <<"create-https", "create-http">>}
         /\ Old = {} /\ (EnsureCalls = <<"create-http">> => Listens)
         /\ EnsureCalls \in {<<"create-https">>, <<"create-https", "create-http">>} => Current = {}
      \/ \E place \in {"http", "create-http"} :
           \/ EnsureCalls = <<"drop-srv0", "https", place>> /\ Listens
           \/ EnsureCalls \in {<<"listen", "drop-srv0", "https", place>>, <<"drop-srv0", "create-https", place>>}
  BY <1>2, <1>6, EnsureShape
<1>8. CASE EnsureCalls = <<>> /\ Old = {} /\ Listens
  <2>1. op'.todo = After(<<>>).todo
    BY <1>1, <1>8
  <2>2. /\ CallAt(1)' = CallAt(2)
        /\ \A i \in DOMAIN op'.todo : \E j \in DOMAIN op.todo : op'.todo[i][2] = op.todo[j][2]
    BY <1>1, <1>2, <2>1, GoingOn
  <2>3. Arranged'
    <3>1. \A i \in DOMAIN EnsureCalls : FALSE
      BY <1>8
    <3> QED BY <1>1, <1>2, <1>3, <3>1, ArrangedAfter DEF CaddyServing
  <2>4. ReliedOK' /\ DumpedOK'
    BY <2>2, ReadKeepsReliance
  <2>5. MigrationOK' /\ PublicationOK' /\ RemovalOK' /\ ReplacingOK'
    BY <1>1, <1>3, <1>8, <2>2
    DEF MigrationOK, PublicationOK, RemovalOK, ReplacingOK, Moves, Publishes, Removes, Issues, HasRoute,
        HasIssuer, Withdrawn
  <2> QED BY <2>3, <2>4, <2>5 DEF CaddyServing
<1>9. CASE EnsureCalls # <<>>
  <2>1. op'.todo = After(EnsureCalls).todo
    BY <1>1
  <2>2. /\ CallAt(1)' = EnsureCalls[1] /\ (Len(EnsureCalls) > 1 => CallAt(2)' = EnsureCalls[2])
        /\ Len(EnsureCalls) = 1 => CallAt(2)' = CallAt(2)
        /\ \A i \in DOMAIN op'.todo : \E j \in DOMAIN op.todo : op'.todo[i][2] = op.todo[j][2]
    BY <1>1, <1>2, <1>9, <2>1, Opening
  <2>3. ReliedOK' /\ DumpedOK'
    BY <2>2, ReadKeepsReliance
  <2>4. Arranged'
    <3> DEFINE Fine(i) ==
                 /\ EnsureCalls[i] = "https" =>
                      i + 1 \in DOMAIN EnsureCalls /\ EnsureCalls[i + 1] \in {"http", "create-http"}
                 /\ EnsureCalls[i] = "http" =>
                      i = Len(EnsureCalls) /\ CallAt(2) \in {"read-policies", "read-removal"}
                 /\ EnsureCalls[i] = "policies" => op.do = "remove"
    <3>1. ASSUME NEW i \in DOMAIN EnsureCalls, i > 1 PROVE Fine(i)
      <4>1. CASE EnsureCalls \in {<<"create-http">>, <<"listen">>, <<"listen", "create-http">>,
                                  <<"create-https">>, <<"create-https", "create-http">>}
        BY <3>1, <4>1
      <4>2. ASSUME NEW place \in {"http", "create-http"}, EnsureCalls = <<"drop-srv0", "https", place>>
            PROVE  Fine(i)
        <5>1. i = 2 \/ i = 3
          BY <3>1, <4>2
        <5> QED BY <1>1, <4>2, <5>1
      <4>3. ASSUME NEW place \in {"http", "create-http"}, EnsureCalls = <<"listen", "drop-srv0", "https", place>>
            PROVE  Fine(i)
        <5>1. i = 2 \/ i = 3 \/ i = 4
          BY <3>1, <4>3
        <5> QED BY <1>1, <4>3, <5>1
      <4>4. ASSUME NEW place \in {"http", "create-http"}, EnsureCalls = <<"drop-srv0", "create-https", place>>
            PROVE  Fine(i)
        <5>1. i = 2 \/ i = 3
          BY <3>1, <4>4
        <5> QED BY <1>1, <4>4, <5>1
      <4> QED BY <1>7, <1>9, <4>1, <4>2, <4>3, <4>4
    <3> QED BY <1>1, <1>2, <1>3, <3>1, ArrangedAfter DEF CaddyServing
  <2>5. \/ /\ CallAt(1)' = "listen" /\ CallAt(2)' # "drop-srv0" /\ Old = {}
        \/ /\ CallAt(1)' = "listen" /\ CallAt(2)' = "drop-srv0"
        \/ /\ CallAt(1)' = "drop-srv0" /\ (CallAt(2)' = "https" => Listens)
        \/ /\ CallAt(1)' = "create-http" /\ Old = {} /\ Listens
        \/ /\ CallAt(1)' = "create-https" /\ Old = {} /\ Current = {}
    <3>1. CASE EnsureCalls \in {<<"listen">>, <<"listen", "create-http">>}
      BY <1>1, <1>7, <2>2, <3>1
    <3>2. CASE EnsureCalls = <<"create-http">>
      BY <1>7, <2>2, <3>2
    <3>3. CASE EnsureCalls \in {<<"create-https">>, <<"create-https", "create-http">>}
      BY <1>7, <2>2, <3>3
    <3>4. CASE \E place \in {"http", "create-http"} : EnsureCalls = <<"drop-srv0", "https", place>> /\ Listens
      BY <2>2, <3>4
    <3>5. CASE \E place \in {"http", "create-http"} : EnsureCalls = <<"listen", "drop-srv0", "https", place>>
      BY <2>2, <3>5
    <3>6. CASE \E place \in {"http", "create-http"} : EnsureCalls = <<"drop-srv0", "create-https", place>>
      BY <2>2, <3>6
    <3> QED BY <1>7, <1>9, <3>1, <3>2, <3>3, <3>4, <3>5, <3>6
  <2>6. MigrationOK'
    BY <1>3, <1>4, <1>5, <2>5 DEF MigrationOK, Moves, Settled
  <2>7. PublicationOK' /\ RemovalOK' /\ ReplacingOK'
    BY <2>5
    DEF PublicationOK, RemovalOK, ReplacingOK, Publishes, Removes, Issues, HasRoute, HasIssuer, Withdrawn
  <2> QED BY <2>3, <2>4, <2>6, <2>7 DEF CaddyServing
<1> QED BY <1>7, <1>8, <1>9

LEMMA ReadPoliciesServing ==
  ASSUME Basics, CaddyServing, ReadCaddy, op.todo[1][1] = "read-policies"
  PROVE  CaddyServing'
<1>1. /\ op.todo # <<>> /\ CallAt(1) = "read-policies" /\ CallAt(2) = "read-https" /\ Len(op.todo) > 1
      /\ ReadPolicies(Hostname) /\ op' = After(<<"policies">>) /\ Admissible(<<"policies">>) /\ Hostname \in Host
  <2>1. Len(op.todo) > 1 /\ CallAt(1) = "read-policies" /\ CallAt(2) = op.todo[2][1] /\ op.todo # <<>>
    BY ReadViews
  <2>2. Linked(op.todo[1], op.todo[2])
    BY <2>1, NextCall DEF Basics
  <2> QED BY <2>1, <2>2, ReadDecides DEF Linked, Follows
<1>2. OpOK /\ CaddyOK /\ DraftOK
  BY DEF Basics
<1>3. /\ Old' = Old /\ Current' = Current /\ Listens' = Listens /\ Issuers' = Issuers
      /\ Relied' = Relied /\ op'.torn = op.torn /\ op'.do = op.do /\ op'.moving = FALSE /\ op.moving = FALSE
  BY ReadViews
<1>4. NextIssuers' = Issuers \cup {Hostname}
  BY <1>1, <1>2, ReadPoliciesFacts DEF NextIssuers, Issuers
<1>5. /\ CallAt(1)' = "policies" /\ CallAt(2)' = "read-https" /\ Hostname' = Hostname
      /\ \A i \in DOMAIN op'.todo : \E j \in DOMAIN op.todo : op'.todo[i][2] = op.todo[j][2]
  <2> DEFINE calls == <<"policies">>
  <2>1. calls # <<>> /\ calls[1] = "policies" /\ Len(calls) = 1 /\ op'.todo = After(calls).todo /\ Admissible(calls)
    BY <1>1
  <2> HIDE DEF calls
  <2> QED BY <1>1, <1>2, <2>1, Opening
<1>6. Arranged'
  <2> DEFINE calls == <<"policies">>
  <2>1. op'.todo = After(calls).todo /\ Admissible(calls) /\ \A i \in DOMAIN calls : i = 1
    BY <1>1
  <2> HIDE DEF calls
  <2> QED BY <1>1, <1>2, <1>3, <2>1, ArrangedAfter DEF CaddyServing
<1>7. ReliedOK' /\ DumpedOK'
  BY <1>5, ReadKeepsReliance
<1>8. MigrationOK'
  BY <1>1, <1>3, <1>5 DEF CaddyServing, MigrationOK, Moves, Settled, Finals
<1>9. PublicationOK'
  BY <1>3, <1>4, <1>5 DEF CaddyServing, ReliedOK, Reached, PublicationOK, Publishes, Issues, HasRoute, HasIssuer
<1>10. RemovalOK' /\ ReplacingOK'
  BY <1>5 DEF RemovalOK, ReplacingOK, Publishes, Removes, Withdrawn
<1> QED BY <1>6, <1>7, <1>8, <1>9, <1>10 DEF CaddyServing

\* The next calls when one is inserted.
LEMMA OpeningOne ==
  ASSUME OpOK, op.todo # <<>>, NEW a \in Call, Admissible(<<a>>), op' = After(<<a>>)
  PROVE  /\ CallAt(1)' = a /\ CallAt(2)' = CallAt(2) /\ Hostname' = Hostname
         /\ \A i \in DOMAIN op'.todo : \E j \in DOMAIN op.todo : op'.todo[i][2] = op.todo[j][2]
         /\ Arranged => Arranged'
<1> DEFINE calls == <<a>>
<1>1. /\ calls # <<>> /\ calls[1] = a /\ Len(calls) = 1 /\ op'.todo = After(calls).todo /\ Admissible(calls)
      /\ \A i \in DOMAIN calls : i = 1
  OBVIOUS
<1> HIDE DEF calls
<1>2. op'.do = op.do
  BY <1>1, AfterSome DEF calls, SameButTodo
<1> QED BY <1>1, <1>2, Opening, ArrangedAfter

\* The next calls when none is inserted.
LEMMA OpeningNone ==
  ASSUME OpOK, op.todo # <<>>, Len(op.todo) > 1, CallAt(1) # "check", op'.todo = After(<<>>).todo, op'.do = op.do
  PROVE  /\ CallAt(1)' = CallAt(2) /\ CallAt(2)' = CallAt(3) /\ Hostname' = Hostname
         /\ \A i \in DOMAIN op'.todo : \E j \in DOMAIN op.todo : op'.todo[i][2] = op.todo[j][2]
         /\ Arranged => Arranged'
<1>1. Arranged => Arranged'
  <2> DEFINE calls == <<>>
  <2>1. Admissible(calls) /\ op'.todo = After(calls).todo /\ \A i \in DOMAIN calls : FALSE
    BY AdmissibleNone
  <2> HIDE DEF calls
  <2> QED BY <2>1, ArrangedAfter
<1> QED BY <1>1, GoingOn

\* What is served stays so if a list of srv_https is written without the routes that are
\* not in it: the others are in srv0, after a restart.
LEMMA Replacing ==
  ASSUME Basics, CaddyServing, Settled, ~op.moving, NEW S, Relied \cap Current \subseteq S
  PROVE  \A g \in Relied : g \in S \/ (g \in Old /\ (dump.open \/ g \in Restored))
<1>1. Relied \subseteq Reached /\ Reached \subseteq Old \cup Current
  BY DEF CaddyServing, ReliedOK, Reached
<1>2. op.torn => Relied = {} \/ dump.open \/ Old \subseteq Restored
  BY DEF CaddyServing, ReliedOK
<1>3. ~op.torn => Old = {}
  BY DEF CaddyServing, MigrationOK
<1> QED BY <1>1, <1>2, <1>3

LEMMA ReadHttpsServing ==
  ASSUME Basics, CaddyServing, ReadCaddy, op.todo[1][1] = "read-https"
  PROVE  CaddyServing'
<1>1. OpOK /\ CaddyOK /\ DraftOK /\ RestOK
  BY DEF Basics
<1>2. /\ op.todo # <<>> /\ CallAt(1) = "read-https" /\ CallAt(2) = "read-http" /\ Len(op.todo) > 1
      /\ Hostname \in Host /\ ReadHttps(Hostname, Wanted(Hostname))
      /\ op' = After(<<"https">>) /\ Admissible(<<"https">>) /\ Wanted(Hostname) \in Request
  <2>1. Len(op.todo) > 1 /\ CallAt(1) = "read-https" /\ CallAt(2) = op.todo[2][1] /\ op.todo # <<>>
    BY ReadViews
  <2>2. Linked(op.todo[1], op.todo[2])
    BY <1>1, <2>1, NextCall
  <2>3. Wanted(Hostname) \in Request
    BY <1>1, <2>1, WantedFacts DEF Publication
  <2> QED BY <2>1, <2>2, <2>3, ReadDecides DEF Linked, Follows
<1>3. /\ Old' = Old /\ Current' = Current /\ Listens' = Listens /\ Issuers' = Issuers /\ Restored' = Restored
      /\ Relied' = Relied /\ op'.torn = op.torn /\ op'.do = op.do /\ op'.moving = FALSE /\ op.moving = FALSE
      /\ dump' = dump
  BY ReadViews
<1>4. Drafted' = Current \cup {Hostname}
  BY <1>1, <1>2, ReadHttpsFacts DEF Drafted, Current
<1>5. /\ CallAt(1)' = "https" /\ CallAt(2)' = "read-http" /\ Hostname' = Hostname
      /\ \A i \in DOMAIN op'.todo : \E j \in DOMAIN op.todo : op'.todo[i][2] = op.todo[j][2]
      /\ Arranged'
  <2>1. "https" \in Call
    BY DEF Call, Writes
  <2> QED BY <1>1, <1>2, <2>1, OpeningOne DEF CaddyServing
<1>6. ReliedOK' /\ DumpedOK'
  BY <1>5, ReadKeepsReliance
<1>7. MigrationOK'
  BY <1>2, <1>3, <1>5 DEF CaddyServing, MigrationOK, Moves, Settled, Finals
<1>8. PublicationOK'
  BY <1>2, <1>3, <1>4, <1>5 DEF CaddyServing, PublicationOK, Publishes, Issues, HasRoute, HasIssuer
<1>9. RemovalOK'
  BY <1>5 DEF RemovalOK, Removes, Withdrawn
<1>10. ReplacingOK'
  <2>1. Settled
    BY <1>2 DEF Settled, Finals
  <2>2. \A g \in Relied : g \in Drafted' \/ (g \in Old /\ (dump.open \/ g \in Restored))
    BY <1>3, <1>4, <2>1, Replacing
  <2> QED BY <1>3, <2>2 DEF ReplacingOK
<1> QED BY <1>5, <1>6, <1>7, <1>8, <1>9, <1>10 DEF CaddyServing

LEMMA ReadHttpServing ==
  ASSUME Basics, CaddyServing, ReadCaddy, op.todo[1][1] = "read-http"
  PROVE  CaddyServing'
<1>1. OpOK /\ CaddyOK /\ DraftOK /\ RestOK
  BY DEF Basics
<1>2. /\ op.todo # <<>> /\ CallAt(1) = "read-http" /\ CallAt(2) = "check" /\ Len(op.todo) > 1
      /\ Hostname \in Host /\ ReadHttp(Hostname, Wanted(Hostname), redirecting)
      /\ \/ op' = After(<<"http">>) /\ Admissible(<<"http">>)
         \/ op' = After(<<>>)
  <2>1. Len(op.todo) > 1 /\ CallAt(1) = "read-http" /\ CallAt(2) = op.todo[2][1] /\ op.todo # <<>>
    BY ReadViews
  <2>2. Linked(op.todo[1], op.todo[2])
    BY <1>1, <2>1, NextCall
  <2> QED BY <2>1, <2>2, ReadDecides DEF Linked, Follows
<1>3. /\ Old' = Old /\ Current' = Current /\ Listens' = Listens /\ Issuers' = Issuers /\ Restored' = Restored
      /\ Relied' = Relied /\ op'.torn = op.torn /\ op'.do = op.do /\ op'.moving = FALSE /\ op.moving = FALSE
  BY ReadViews
<1>4. /\ (CallAt(1)' = "http" /\ CallAt(2)' = "check") \/ CallAt(1)' = "check"
      /\ Hostname' = Hostname
      /\ \A i \in DOMAIN op'.todo : \E j \in DOMAIN op.todo : op'.todo[i][2] = op.todo[j][2]
      /\ Arranged'
  <2>1. "http" \in Call
    BY DEF Call, Writes
  <2>2. CASE op' = After(<<"http">>) /\ Admissible(<<"http">>)
    BY <1>1, <1>2, <2>1, <2>2, OpeningOne DEF CaddyServing
  <2>3. CASE op' = After(<<>>)
    BY <1>1, <1>2, <1>3, <2>3, OpeningNone DEF CaddyServing
  <2> QED BY <1>2, <2>2, <2>3
<1>5. ReliedOK' /\ DumpedOK'
  BY <1>4, ReadKeepsReliance
<1>6. MigrationOK'
  BY <1>2, <1>3, <1>4 DEF CaddyServing, MigrationOK, Moves, Settled, Finals
<1>7. PublicationOK'
  BY <1>2, <1>3, <1>4 DEF CaddyServing, PublicationOK, Publishes, Issues, HasRoute, HasIssuer
<1>8. RemovalOK' /\ ReplacingOK'
  BY <1>4 DEF RemovalOK, ReplacingOK, Publishes, Removes, Withdrawn
<1> QED BY <1>4, <1>5, <1>6, <1>7, <1>8 DEF CaddyServing

LEMMA ReadRemovalServing ==
  ASSUME Basics, CaddyServing, ReadCaddy, op.todo[1][1] = "read-removal"
  PROVE  CaddyServing'
<1>1. OpOK /\ CaddyOK /\ DraftOK /\ RestOK
  BY DEF Basics
<1> DEFINE calls == RemovalCalls(Hostname)
           h == Hostname
<1>2. /\ op.todo # <<>> /\ CallAt(1) = "read-removal" /\ CallAt(2) = "dump" /\ Len(op.todo) > 1
      /\ h \in Host /\ ReadRemoval(h) /\ op' = After(calls) /\ Admissible(calls) /\ op.do = "remove"
  <2>1. Len(op.todo) > 1 /\ CallAt(1) = "read-removal" /\ CallAt(2) = op.todo[2][1] /\ op.todo # <<>>
    BY ReadViews
  <2>2. Linked(op.todo[1], op.todo[2])
    BY <1>1, <2>1, NextCall
  <2> QED BY <2>1, <2>2, ReadDecides DEF Linked, Follows
<1>3. /\ Old' = Old /\ Current' = Current /\ Listens' = Listens /\ Issuers' = Issuers /\ Restored' = Restored
      /\ Relied' = Relied /\ op'.torn = op.torn /\ op'.do = op.do /\ op'.moving = FALSE /\ op.moving = FALSE
      /\ dump' = dump
  BY ReadViews
<1>4. Drafted' = Current \ {h} /\ NextIssuers' = Issuers \ {h}
  BY <1>1, <1>2, ReadRemovalFacts DEF Drafted, Current, NextIssuers, Issuers
<1>5. h \notin Relied
  <2>1. 1 \in DOMAIN op.todo /\ h = op.todo[1][2]
    BY <1>1, <1>2, NextCall
  <2> QED BY <1>2, <2>1 DEF CaddyServing, ReliedOK
<1>6. \/ calls \in {<<"https", "read-http-removal", "policies">>, <<"https", "read-http-removal">>}
      \/ calls \in {<<"policies">>, <<>>} /\ h \notin Current
  <2>1. h \notin {r.host : r \in ToSet(caddy.live.https.routes)} => h \notin Current
    BY DEF Current, Served, ToSet
  <2> QED BY <2>1, RemovalShape
<1>7. op'.do = op.do
  BY ReadGoesOn DEF SameButTodo
<1> HIDE DEF calls, h
<1>8. \/ CallAt(1)' = "https" /\ CallAt(2)' = "read-http-removal" /\ Hostname' = h
      \/ CallAt(1)' = "policies" /\ CallAt(2)' = "dump" /\ h \notin Current /\ Hostname' = h
      \/ CallAt(1)' = "dump"
  <2>1. CASE calls = <<>>
    BY <1>1, <1>2, <2>1, GoingOn
  <2>2. CASE calls = <<"policies">>
    BY <1>1, <1>2, <1>6, <2>2, Opening DEF h
  <2>3. CASE calls \in {<<"https", "read-http-removal", "policies">>, <<"https", "read-http-removal">>}
    BY <1>1, <1>2, <2>3, Opening DEF h
  <2> QED BY <1>6, <2>1, <2>2, <2>3
<1>9. \A i \in DOMAIN op'.todo : \E j \in DOMAIN op.todo : op'.todo[i][2] = op.todo[j][2]
  <2>1. CASE calls = <<>>
    BY <1>1, <1>2, <2>1, GoingOn
  <2>2. CASE calls # <<>>
    BY <1>1, <1>2, <2>2, Opening
  <2> QED BY <2>1, <2>2
<1>10. Arranged'
  <2>1. ASSUME NEW i \in DOMAIN calls, i > 1
        PROVE  /\ calls[i] # "https" /\ calls[i] # "http"
               /\ calls[i] = "policies" => op.do = "remove"
    BY <1>2, <1>6, <2>1
  <2> QED BY <1>1, <1>2, <1>7, <2>1, ArrangedAfter DEF CaddyServing
<1>11. ReliedOK' /\ DumpedOK'
  BY <1>9, ReadKeepsReliance
<1>12. Relied \subseteq Issuers
  BY <1>3 DEF CaddyServing, ReliedOK, Reached
<1>13. MigrationOK'
  BY <1>2, <1>3, <1>8 DEF CaddyServing, MigrationOK, Moves, Settled, Finals
<1>14. PublicationOK'
  BY <1>8 DEF PublicationOK, Publishes, Issues, HasRoute, HasIssuer
<1>15. RemovalOK'
  BY <1>2, <1>3, <1>4, <1>5, <1>7, <1>8, <1>12 DEF RemovalOK, Removes, Withdrawn
<1>16. ReplacingOK'
  <2>1. Settled
    BY <1>2 DEF Settled, Finals
  <2>2. Relied \cap Current \subseteq Drafted'
    BY <1>4, <1>5
  <2>3. \A g \in Relied : g \in Drafted' \/ (g \in Old /\ (dump.open \/ g \in Restored))
    BY <1>3, <2>1, <2>2, Replacing
  <2> QED BY <1>3, <2>3 DEF ReplacingOK
<1> QED BY <1>10, <1>11, <1>13, <1>14, <1>15, <1>16 DEF CaddyServing

LEMMA ReadHttpRemovalServing ==
  ASSUME Basics, CaddyServing, ReadCaddy, op.todo[1][1] = "read-http-removal"
  PROVE  CaddyServing'
<1>1. OpOK /\ CaddyOK /\ DraftOK /\ RestOK
  BY DEF Basics
<1>2. /\ op.todo # <<>> /\ CallAt(1) = "read-http-removal" /\ CallAt(2) \in {"policies", "dump"}
      /\ Len(op.todo) > 1 /\ Hostname \in Host /\ ReadHttpRemoval(Hostname) /\ op.do = "remove"
      /\ \/ op' = After(<<"http">>) /\ Admissible(<<"http">>)
         \/ op' = After(<<>>)
  <2>1. Len(op.todo) > 1 /\ CallAt(1) = "read-http-removal" /\ CallAt(2) = op.todo[2][1] /\ op.todo # <<>>
    BY ReadViews
  <2>2. Linked(op.todo[1], op.todo[2])
    BY <1>1, <2>1, NextCall
  <2> QED BY <2>1, <2>2, ReadDecides DEF Linked, Follows
<1>3. /\ Old' = Old /\ Current' = Current /\ Listens' = Listens /\ Issuers' = Issuers /\ Restored' = Restored
      /\ Relied' = Relied /\ op'.torn = op.torn /\ op'.do = op.do /\ op'.moving = FALSE /\ op.moving = FALSE
  BY ReadViews
<1>4. NextIssuers' = NextIssuers
  BY <1>1, <1>2, ReadHttpRemovalFacts DEF NextIssuers
<1>5. CallAt(2) = "policies" => CallAt(3) = "dump"
  <2>1. CASE CallAt(2) = "policies"
    <3>1. op.todo[2][1] = "policies"
      BY <1>1, <1>2, <2>1, CallsFacts
    <3>2. 3 \in DOMAIN op.todo /\ Linked(op.todo[2], op.todo[3])
      BY <1>1, <1>2, <3>1, ThirdCall DEF Finals
    <3>3. op.todo[3][1] \in {"read-https", "dump"}
      BY <3>1, <3>2 DEF Linked, Follows
    <3>4. op.todo[3][1] # "read-https"
      BY <1>1, <1>2, <3>2 DEF OpOK, CommandOK, Possible, Publication
    <3> QED BY <3>2, <3>3, <3>4 DEF CallAt
  <2> QED BY <2>1
<1>6. /\ \/ CallAt(1)' = "http" /\ CallAt(2)' \in {"policies", "dump"}
         \/ CallAt(1)' = "policies" /\ CallAt(2)' = "dump"
         \/ CallAt(1)' = "dump"
      /\ Hostname' = Hostname
      /\ \A i \in DOMAIN op'.todo : \E j \in DOMAIN op.todo : op'.todo[i][2] = op.todo[j][2]
      /\ Arranged'
  <2>1. "http" \in Call
    BY DEF Call, Writes
  <2>2. CASE op' = After(<<"http">>) /\ Admissible(<<"http">>)
    BY <1>1, <1>2, <2>1, <2>2, OpeningOne DEF CaddyServing
  <2>3. CASE op' = After(<<>>)
    BY <1>1, <1>2, <1>3, <1>5, <2>3, OpeningNone DEF CaddyServing
  <2> QED BY <1>2, <2>2, <2>3
<1>7. ReliedOK' /\ DumpedOK'
  BY <1>6, ReadKeepsReliance
<1>8. MigrationOK'
  BY <1>2, <1>3, <1>6 DEF CaddyServing, MigrationOK, Moves, Settled, Finals
<1>9. PublicationOK' /\ ReplacingOK'
  BY <1>6 DEF PublicationOK, ReplacingOK, Publishes, Removes, Issues, HasRoute, HasIssuer
<1>10. RemovalOK'
  BY <1>2, <1>3, <1>4, <1>6 DEF CaddyServing, RemovalOK, Removes, Withdrawn
<1> QED BY <1>6, <1>7, <1>8, <1>9, <1>10 DEF CaddyServing

LEMMA ReadServing == ASSUME Basics, CaddyServing, ReadCaddy PROVE CaddyServing'
<1>1. op.todo[1][1] \in ReadCalls
  BY ReadDecides
<1> QED BY <1>1, ReadServersServing, ReadPoliciesServing, ReadHttpsServing, ReadHttpServing,
           ReadRemovalServing, ReadHttpRemovalServing DEF ReadCalls

-----------------------------------------------------------------------------
(* Requests that write *)

LEMMA WrittenViews ==
  ASSUME Basics, NEW call \in Writes, Accepted(call), Write(call)
  PROVE  /\ call = "drop-srv0" => Old' = {}
         /\ call # "drop-srv0" => Old' = Old
         /\ call \in {"https", "create-https"} => Current' = Drafted
         /\ call \notin {"https", "create-https"} => Current' = Current
         /\ call = "policies" => Issuers' = NextIssuers
         /\ call # "policies" => Issuers' = Issuers
         /\ call \in {"listen", "create-https"} => Listens'
         /\ Listens => Listens'
         /\ call = "create-https" => Current = {}
         /\ Restored' = Restored /\ Loaded' = Loaded
<1>1. CaddyOK /\ DraftOK /\ caddy'.live = Written(call) /\ caddy'.file = caddy.file
  BY WriteKeepsCaddy DEF Basics
<1> DEFINE c == caddy.live
           w == Written(call)
<1>2. /\ call # "drop-srv0" => w.srv0 = c.srv0
      /\ call = "drop-srv0" => w.srv0 = <<>>
      /\ call # "policies" => w.policies = c.policies
      /\ call = "policies" => w.policies = draft.policies
      /\ call \in {"https", "create-https"} => w.https.routes = draft.https
      /\ call \notin {"https", "create-https"} => w.https.routes = c.https.routes
      /\ call \in {"listen", "create-https"} => w.https.listen
      /\ call \notin {"listen", "create-https"} => w.https.listen = c.https.listen
      /\ call \in {"listen", "https", "create-https"} => w.https.up
      /\ call \notin {"listen", "https", "create-https"} => w.https.up = c.https.up
  BY <1>1, WrittenFields
<1>3. call = "create-https" => ~c.https.up
  BY DEF Accepted
<1> HIDE DEF w
<1>4. caddy'.live = w
  BY <1>1 DEF w
<1>5. Served(<<>>) = {}
  BY DEF Served
<1>6. Restored' = Restored /\ Loaded' = Loaded
  BY <1>1 DEF Restored, Loaded
<1>7. Old' = Served(w.srv0) /\ Current' = Served(w.https.routes) /\ Issuers' = w.policies
  BY <1>4 DEF Old, Current, Issuers
<1>8. Listens' <=> w.https.up /\ w.https.listen
  BY <1>4 DEF Listens
<1>9. Listens <=> c.https.up /\ c.https.listen
  BY DEF Listens
<1>10. ~c.https.up => Current = {}
  BY Views
<1>11. /\ call # "drop-srv0" => Old' = Old
       /\ call = "drop-srv0" => Old' = {}
  BY <1>2, <1>5, <1>7 DEF Old
<1>12. /\ call \in {"https", "create-https"} => Current' = Drafted
       /\ call \notin {"https", "create-https"} => Current' = Current
  BY <1>2, <1>7 DEF Current, Drafted
<1>13. /\ call = "policies" => Issuers' = NextIssuers
       /\ call # "policies" => Issuers' = Issuers
  BY <1>2, <1>7 DEF Issuers, NextIssuers
<1>14. /\ call \in {"listen", "create-https"} => Listens'
       /\ Listens => Listens'
  BY <1>2, <1>8, <1>9
<1> QED BY <1>3, <1>6, <1>10, <1>11, <1>12, <1>13, <1>14

\* What a write is for.
LEMMA WriteKinds ==
  ASSUME OpOK, op.todo # <<>>, op.todo[1][1] \in Writes
  PROVE  /\ CallAt(1) = op.todo[1][1]
         /\ CallAt(1) = "https" => Moves \/ Publishes \/ Removes
         /\ CallAt(1) = "policies" => Issues \/ (Withdrawn /\ CallAt(2) = "dump")
         /\ CallAt(1) = "drop-srv0" => CallAt(2) \in {"https", "create-https"}
         /\ CallAt(1) = "listen" => CallAt(2) \in {"drop-srv0", "create-http", "read-policies", "read-removal"}
         /\ CallAt(1) = "create-https" => CallAt(2) \in {"http", "create-http", "read-policies", "read-removal"}
         /\ CallAt(1) = "create-http" => CallAt(2) \in {"read-policies", "read-removal"}
         /\ CallAt(1) = "http" => CallAt(2) \in {"read-policies", "read-removal", "check", "policies", "dump"}
<1>1. Len(op.todo) > 1 /\ Linked(op.todo[1], op.todo[2])
  BY NextCall DEF Writes, Finals
<1>2. CallAt(1) = op.todo[1][1] /\ CallAt(2) = op.todo[2][1]
  BY <1>1, CallsFacts
<1>3. Follows(CallAt(1), CallAt(2))
  BY <1>1, <1>2 DEF Linked
<1>4. CASE CallAt(1) = "https"
  BY <1>2, <1>3, <1>4 DEF Follows, Moves, Publishes, Removes
<1>5. CASE CallAt(1) = "policies"
  BY <1>2, <1>3, <1>5 DEF Follows, Issues, Withdrawn
<1>6. CASE CallAt(1) \notin {"https", "policies"}
  BY <1>2, <1>3, <1>6 DEF Follows
<1> QED BY <1>2, <1>4, <1>5, <1>6

\* No write takes away what is relied on, except the one that empties srv0.
LEMMA WriteReaches ==
  ASSUME Basics, CaddyServing, op.todo # <<>>, op.todo[1][1] \in Writes, op.todo[1][1] # "drop-srv0",
         Accepted(op.todo[1][1]), Write(op.todo[1][1])
  PROVE  Relied \subseteq Reached'
<1>1. OpOK /\ op.moving \in BOOLEAN
  BY Views DEF Basics
<1> DEFINE call == op.todo[1][1]
<1>2. /\ CallAt(1) = call
      /\ CallAt(1) = "https" => Moves \/ Publishes \/ Removes
      /\ CallAt(1) = "policies" => Issues \/ Withdrawn
  BY <1>1, WriteKinds
<1>3. /\ Old' = Old
      /\ call \in {"https", "create-https"} => Current' = Drafted
      /\ call \notin {"https", "create-https"} => Current' = Current
      /\ call = "policies" => Issuers' = NextIssuers
      /\ call # "policies" => Issuers' = Issuers
      /\ call \in {"listen", "create-https"} => Listens'
      /\ Listens => Listens'
      /\ call = "create-https" => Current = {}
  BY WrittenViews
<1> HIDE DEF call
<1>4. CASE op.moving
  <2>1. /\ Moves \/ call = "create-https"
        /\ Relied \subseteq Drafted \cap Issuers
        /\ Moves => Listens \/ (op.torn /\ Relied = {})
    BY <1>2, <1>4 DEF CaddyServing, MigrationOK
  <2>2. Moves => call = "https"
    BY <1>2 DEF Moves
  <2> QED BY <1>3, <2>1, <2>2 DEF Reached
<1>5. CASE ~op.moving
  <2>1. Relied \subseteq Reached
    BY <1>5 DEF CaddyServing, ReliedOK
  <2>2. CASE call = "https"
    <3>1. Moves => Relied = {}
      BY <1>5 DEF CaddyServing, MigrationOK
    <3>2. Publishes \/ Removes => \A g \in Relied : g \in Drafted \/ g \in Old
      BY DEF CaddyServing, ReplacingOK
    <3> QED BY <1>2, <1>3, <2>1, <2>2, <3>1, <3>2 DEF Reached
  <2>3. CASE call = "policies"
    <3>1. Relied \subseteq NextIssuers
      BY <1>2, <2>3 DEF CaddyServing, PublicationOK, RemovalOK
    <3> QED BY <1>3, <2>1, <2>3, <3>1 DEF Reached
  <2>4. CASE call \notin {"https", "policies"}
    BY <1>3, <2>1, <2>4 DEF Reached
  <2> QED BY <2>2, <2>3, <2>4
<1> QED BY <1>1, <1>4, <1>5

\* What an accepted write of a command that goes on leaves.
LEMMA WriteViews ==
  ASSUME Basics, CaddyServing, WriteCaddy
  PROVE  /\ op.todo # <<>> /\ op.todo[1][1] \in Writes /\ Accepted(op.todo[1][1]) /\ Write(op.todo[1][1])
         /\ Len(op.todo) > 1 /\ CallAt(1) = op.todo[1][1]
         /\ CallAt(1)' = CallAt(2) /\ CallAt(2)' = CallAt(3) /\ Hostname' = Hostname /\ Arranged'
         /\ Drafted' = Drafted /\ NextIssuers' = NextIssuers /\ Relied' = Relied /\ dump' = dump /\ kept' = kept
         /\ op'.torn = op.torn /\ op'.do = op.do /\ op'.moving = (CallAt(1) = "drop-srv0")
         /\ ReliedOK' /\ DumpedOK'
<1>1. LET call == op.todo[1][1]
      IN  /\ op.todo # <<>> /\ call \in Writes /\ Len(op.todo) > 1 /\ Accepted(call) /\ Write(call)
          /\ op'.do = op.do /\ op'.done = op.done /\ op'.torn = op.torn /\ op'.moving = (call = "drop-srv0")
  BY WriteDecides
<1>2. OpOK
  BY DEF Basics
<1>3. CallAt(1) = op.todo[1][1] /\ CallAt(1) # "check"
  BY <1>1, <1>2, CallsFacts DEF Writes
<1>4. UNCHANGED <<draft, dump, kept>>
  BY DEF WriteCaddy
<1>5. op'.todo = After(<<>>).todo
  <2>1. \E b : op' = [After(<<>>) EXCEPT !.moving = b]
    BY DEF WriteCaddy
  <2>2. After(<<>>) \in Op
    BY <1>1, <1>2, AfterNone DEF CommandOK
  <2> DEFINE R == Seq(Task)
             o == After(<<>>)
  <2>3. o \in [do : {"none", "publish", "remove", "sync", "redirect"},
               todo : R, want : Request \cup {Absent},
               done : SUBSET Host, torn : BOOLEAN, moving : BOOLEAN,
               verified : SUBSET Host, stale : SUBSET Host]
    BY <2>2, OpType
  <2>4. \E b : op' = [o EXCEPT !.moving = b]
    BY <2>1
  <2> HIDE DEF R, o
  <2>5. op'.todo = o.todo
    BY <2>3, <2>4
  <2> QED BY <2>5 DEF o
<1>6. /\ CallAt(1)' = CallAt(2) /\ CallAt(2)' = CallAt(3) /\ Hostname' = Hostname /\ Arranged'
      /\ \A i \in DOMAIN op'.todo : \E j \in DOMAIN op.todo : op'.todo[i][2] = op.todo[j][2]
  BY <1>1, <1>2, <1>3, <1>5, OpeningNone DEF CaddyServing
<1>7. Drafted' = Drafted /\ NextIssuers' = NextIssuers /\ Relied' = Relied
  BY <1>1, <1>4 DEF Drafted, NextIssuers, Relied
<1>8. /\ Restored' = Restored /\ Loaded' = Loaded /\ Old' \subseteq Old
  BY <1>1, WrittenViews
<1>9. DumpedOK'
  BY <1>4, <1>8 DEF CaddyServing, DumpedOK
<1>10. ReliedOK'
  <2>1. CallAt(1) # "drop-srv0" => Relied \subseteq Reached'
    BY <1>1, <1>3, WriteReaches
  <2> QED BY <1>1, <1>3, <1>4, <1>6, <1>7, <1>8, <2>1 DEF CaddyServing, ReliedOK
<1> QED BY <1>1, <1>3, <1>4, <1>6, <1>7, <1>9, <1>10

LEMMA WriteMigrationServing ==
  ASSUME Basics, CaddyServing, WriteCaddy,
         op.todo[1][1] \in {"listen", "drop-srv0", "create-https", "create-http"}
           \/ (op.todo[1][1] = "https" /\ Moves)
           \/ (op.todo[1][1] = "http" /\ CallAt(2) \in {"read-policies", "read-removal"})
  PROVE  CaddyServing'
<1>1. /\ op.todo # <<>> /\ op.todo[1][1] \in Writes /\ Accepted(op.todo[1][1]) /\ Write(op.todo[1][1])
      /\ Len(op.todo) > 1 /\ CallAt(1) = op.todo[1][1]
      /\ CallAt(1)' = CallAt(2) /\ CallAt(2)' = CallAt(3) /\ Hostname' = Hostname /\ Arranged'
      /\ Drafted' = Drafted /\ NextIssuers' = NextIssuers /\ Relied' = Relied
      /\ op'.torn = op.torn /\ op'.do = op.do /\ op'.moving = (CallAt(1) = "drop-srv0")
      /\ ReliedOK' /\ DumpedOK'
  BY WriteViews
<1>2. /\ CallAt(1) = "drop-srv0" => Old' = {}
      /\ CallAt(1) # "drop-srv0" => Old' = Old
      /\ CallAt(1) \in {"https", "create-https"} => Current' = Drafted
      /\ CallAt(1) \notin {"https", "create-https"} => Current' = Current
      /\ Issuers' = Issuers
      /\ CallAt(1) \in {"listen", "create-https"} => Listens'
      /\ Listens => Listens'
  BY <1>1, WrittenViews
<1>3. OpOK /\ op.moving \in BOOLEAN /\ op.torn \in BOOLEAN
  BY Views DEF Basics
<1>4. /\ CallAt(1) = "drop-srv0" => CallAt(2) \in {"https", "create-https"}
      /\ CallAt(1) = "listen" => CallAt(2) \in {"drop-srv0", "create-http", "read-policies", "read-removal"}
      /\ CallAt(1) = "create-https" => CallAt(2) \in {"http", "create-http", "read-policies", "read-removal"}
      /\ CallAt(1) = "create-http" => CallAt(2) \in {"read-policies", "read-removal"}
  BY <1>1, <1>3, WriteKinds
\* What the second call is for was settled when it was planned.
<1>5. /\ CallAt(2) = "https" => CallAt(3) \in {"http", "create-http"}
      /\ CallAt(2) = "http" => CallAt(3) \in {"read-policies", "read-removal"}
  <2>1. 2 \in DOMAIN op.todo /\ CallAt(2) = op.todo[2][1]
    BY <1>1, <1>3, NextCall, CallsFacts
  <2> QED BY <2>1 DEF CaddyServing, Arranged
<1>6. op.moving => Moves \/ CallAt(1) = "create-https"
  BY DEF CaddyServing, MigrationOK
<1>7. CASE CallAt(1) = "listen"
  <2>1. ~op.moving
    BY <1>6, <1>7 DEF Moves
  <2>2. CallAt(2) = "drop-srv0" => Relied \subseteq Drafted
    BY <1>7 DEF CaddyServing, MigrationOK
  <2>3. CallAt(2) # "drop-srv0" => op.torn \/ Old = {}
    BY <1>7 DEF CaddyServing, MigrationOK
  <2>4. MigrationOK'
    BY <1>1, <1>2, <1>4, <1>7, <2>1, <2>2, <2>3 DEF MigrationOK, Moves, Settled, Finals
  <2>5. PublicationOK' /\ RemovalOK' /\ ReplacingOK'
    BY <1>1, <1>4, <1>7
    DEF PublicationOK, RemovalOK, ReplacingOK, Publishes, Removes, Issues, HasRoute, HasIssuer, Withdrawn
  <2> QED BY <1>1, <2>4, <2>5 DEF CaddyServing
<1>8. CASE CallAt(1) = "drop-srv0"
  <2>1. ~op.moving
    BY <1>6, <1>8 DEF Moves
  <2>2. /\ Relied \subseteq Drafted
        /\ CallAt(2) = "https" => Listens \/ (op.torn /\ Relied = {})
    BY <1>8 DEF CaddyServing, MigrationOK
  <2>3. Relied \subseteq Issuers
    BY <2>1 DEF CaddyServing, ReliedOK, Reached
  <2>4. \/ CallAt(1)' = "https" /\ CallAt(2)' \in {"http", "create-http"}
        \/ CallAt(1)' = "create-https"
    BY <1>1, <1>4, <1>5, <1>8
  <2>5. MigrationOK'
    <3>1. CallAt(1)' = "https" => Listens' \/ (op'.torn /\ Relied' = {})
      BY <1>1, <1>2, <2>2
    <3>2. CallAt(1)' = "create-https" \/ Listens' \/ op'.torn
      BY <2>4, <3>1
    <3>3. Relied' \subseteq Drafted' \cap Issuers' /\ Old' = {} /\ op'.moving = TRUE
      BY <1>1, <1>2, <1>8, <2>2, <2>3
    <3> QED BY <2>4, <3>1, <3>2, <3>3 DEF MigrationOK, Moves
  <2>6. PublicationOK' /\ RemovalOK' /\ ReplacingOK'
    BY <2>4
    DEF PublicationOK, RemovalOK, ReplacingOK, Publishes, Removes, Issues, HasRoute, HasIssuer, Withdrawn
  <2> QED BY <1>1, <2>5, <2>6 DEF CaddyServing
<1>9. CASE CallAt(1) \in {"create-https", "create-http", "https", "http"}
  <2>1. \/ CallAt(1)' \in {"read-policies", "read-removal", "create-http"}
        \/ CallAt(1)' = "http" /\ CallAt(2)' \in {"read-policies", "read-removal"}
    BY <1>1, <1>4, <1>5, <1>9 DEF Moves
  <2>2. op'.torn \/ (Old' = {} /\ Listens')
    <3>1. CallAt(1) \in {"create-https", "create-http", "http"} => Settled
      BY <1>9 DEF Settled, Finals
    <3>2. Moves => Settled
      BY DEF Moves, Settled, Finals
    <3> QED BY <1>1, <1>2, <1>9, <3>1, <3>2 DEF CaddyServing, MigrationOK
  <2>3. MigrationOK'
    BY <1>1, <1>9, <2>1, <2>2 DEF MigrationOK, Moves
  <2>4. PublicationOK' /\ RemovalOK' /\ ReplacingOK'
    BY <2>1
    DEF PublicationOK, RemovalOK, ReplacingOK, Publishes, Removes, Issues, HasRoute, HasIssuer, Withdrawn
  <2> QED BY <1>1, <2>3, <2>4 DEF CaddyServing
<1> QED BY <1>1, <1>7, <1>8, <1>9

LEMMA WriteRouteServing ==
  ASSUME Basics, CaddyServing, WriteCaddy,
         Issues \/ Publishes \/ Removes \/ (CallAt(1) = "policies" /\ CallAt(2) = "dump")
           \/ (CallAt(1) = "http" /\ CallAt(2) \in {"check", "policies", "dump"})
  PROVE  CaddyServing'
<1>1. /\ op.todo # <<>> /\ op.todo[1][1] \in Writes /\ Accepted(op.todo[1][1]) /\ Write(op.todo[1][1])
      /\ Len(op.todo) > 1 /\ CallAt(1) = op.todo[1][1]
      /\ CallAt(1)' = CallAt(2) /\ CallAt(2)' = CallAt(3) /\ Hostname' = Hostname /\ Arranged'
      /\ Drafted' = Drafted /\ NextIssuers' = NextIssuers /\ Relied' = Relied
      /\ op'.torn = op.torn /\ op'.do = op.do /\ op'.moving = (CallAt(1) = "drop-srv0")
      /\ ReliedOK' /\ DumpedOK'
  BY WriteViews
<1>2. /\ CallAt(1) # "drop-srv0" => Old' = Old
      /\ CallAt(1) \in {"https", "create-https"} => Current' = Drafted
      /\ CallAt(1) \notin {"https", "create-https"} => Current' = Current
      /\ CallAt(1) = "policies" => Issuers' = NextIssuers
      /\ CallAt(1) # "policies" => Issuers' = Issuers
      /\ Listens => Listens'
  BY <1>1, WrittenViews
<1>3. OpOK /\ op.moving \in BOOLEAN /\ op.torn \in BOOLEAN
  BY Views DEF Basics
<1>4. CallAt(1) \in {"policies", "https", "http"}
  BY DEF Issues, Publishes, Removes
<1>5. ~op.moving
  <2>1. ~Moves
    BY DEF Moves, Issues, Publishes, Removes
  <2> QED BY <1>3, <1>4, <2>1 DEF CaddyServing, MigrationOK
<1>6. op'.torn \/ (Old' = {} /\ Listens')
  <2>1. Settled /\ CallAt(1) # "create-https"
    BY <1>4 DEF Settled, Finals
  <2> QED BY <1>1, <1>2, <1>4, <2>1 DEF CaddyServing, MigrationOK
<1>7. op'.moving = FALSE
  BY <1>1, <1>4
<1>8. CASE Issues
  <2>1. CallAt(1) = "policies" /\ CallAt(1)' = "read-https"
    BY <1>1, <1>8 DEF Issues
  <2>2. Hostname' \in Issuers'
    BY <1>1, <1>2, <1>8, <2>1 DEF CaddyServing, PublicationOK
  <2>3. MigrationOK'
    BY <1>6, <1>7, <2>1 DEF MigrationOK, Moves
  <2>4. PublicationOK'
    BY <2>1, <2>2 DEF PublicationOK, Publishes, Issues, HasRoute, HasIssuer
  <2>5. RemovalOK' /\ ReplacingOK'
    BY <2>1 DEF RemovalOK, ReplacingOK, Publishes, Removes, Withdrawn
  <2> QED BY <1>1, <2>3, <2>4, <2>5 DEF CaddyServing
<1>9. CASE Publishes
  <2>1. CallAt(1) = "https" /\ CallAt(1)' = "read-http"
    BY <1>1, <1>9 DEF Publishes
  <2>2. op'.torn \/ Hostname' \in Issuers'
    <3>1. HasIssuer
      BY <1>9 DEF HasIssuer
    <3>2. op.torn \/ Hostname \in Issuers
      BY <3>1 DEF CaddyServing, PublicationOK
    <3> QED BY <1>1, <1>2, <2>1, <3>2
  <2>3. Hostname' \in Current'
    <3>1. Hostname \in Drafted
      BY <1>9 DEF CaddyServing, PublicationOK
    <3> QED BY <1>1, <1>2, <2>1, <3>1
  <2>4. MigrationOK'
    BY <1>6, <1>7, <2>1 DEF MigrationOK, Moves
  <2>5. PublicationOK'
    BY <2>1, <2>2, <2>3 DEF PublicationOK, Publishes, Issues, HasRoute, HasIssuer
  <2>6. RemovalOK' /\ ReplacingOK'
    BY <2>1 DEF RemovalOK, ReplacingOK, Publishes, Removes, Withdrawn
  <2> QED BY <1>1, <2>4, <2>5, <2>6 DEF CaddyServing
<1>10. CASE Removes
  <2>1. CallAt(1) = "https" /\ CallAt(1)' = "read-http-removal"
    BY <1>1, <1>10 DEF Removes
  <2>2. op'.torn \/ Hostname' \notin Current'
    <3>1. op.torn \/ Hostname \notin Drafted
      BY <1>10 DEF CaddyServing, RemovalOK
    <3> QED BY <1>1, <1>2, <2>1, <3>1
  <2>3. /\ op.do = "remove" /\ Relied \subseteq NextIssuers
        /\ op.torn \/ Issuers \ {Hostname} \subseteq NextIssuers
    BY <1>10 DEF CaddyServing, RemovalOK
  <2>4. MigrationOK'
    BY <1>6, <1>7, <2>1 DEF MigrationOK, Moves
  <2>5. PublicationOK' /\ ReplacingOK'
    BY <2>1 DEF PublicationOK, ReplacingOK, Publishes, Removes, Issues, HasRoute, HasIssuer
  <2>6. RemovalOK'
    BY <1>1, <1>2, <2>1, <2>2, <2>3 DEF RemovalOK, Removes, Withdrawn
  <2> QED BY <1>1, <2>4, <2>5, <2>6 DEF CaddyServing
<1>11. CASE CallAt(1) = "policies" /\ CallAt(2) = "dump"
  <2>1. CallAt(1)' = "dump"
    BY <1>1, <1>11
  <2>2. MigrationOK'
    BY <1>6, <1>7, <2>1 DEF MigrationOK, Moves
  <2>3. PublicationOK' /\ RemovalOK' /\ ReplacingOK'
    BY <2>1
    DEF PublicationOK, RemovalOK, ReplacingOK, Publishes, Removes, Issues, HasRoute, HasIssuer, Withdrawn
  <2> QED BY <1>1, <2>2, <2>3 DEF CaddyServing
<1>12. CASE CallAt(1) = "http" /\ CallAt(2) = "check"
  <2>1. CallAt(1)' = "check" /\ HasRoute /\ HasIssuer
    BY <1>1, <1>12 DEF HasRoute, HasIssuer
  <2>2. op'.torn \/ (Hostname' \in Issuers' /\ Hostname' \in Current')
    BY <1>1, <1>2, <1>12, <2>1 DEF CaddyServing, PublicationOK
  <2>3. MigrationOK'
    BY <1>6, <1>7, <2>1 DEF MigrationOK, Moves
  <2>4. PublicationOK'
    BY <2>1, <2>2 DEF PublicationOK, Publishes, Issues, HasRoute, HasIssuer
  <2>5. RemovalOK' /\ ReplacingOK'
    BY <2>1 DEF RemovalOK, ReplacingOK, Publishes, Removes, Withdrawn
  <2> QED BY <1>1, <2>3, <2>4, <2>5 DEF CaddyServing
<1>13. CASE CallAt(1) = "http" /\ CallAt(2) \in {"policies", "dump"}
  <2>1. Withdrawn
    BY <1>13 DEF Withdrawn
  <2>2. /\ op.do = "remove" /\ Relied \subseteq NextIssuers
        /\ op.torn \/ Issuers \ {Hostname} \subseteq NextIssuers
        /\ op.torn \/ Hostname \notin Current
    BY <2>1 DEF CaddyServing, RemovalOK
  <2>3. CallAt(2) = "policies" => CallAt(3) = "dump"
    <3>1. CASE CallAt(2) = "policies"
      <4>1. op.todo[2][1] = "policies"
        BY <1>1, <1>3, <3>1, CallsFacts
      <4>2. 3 \in DOMAIN op.todo /\ Linked(op.todo[2], op.todo[3])
        BY <1>1, <1>3, <4>1, ThirdCall DEF Finals
      <4>3. op.todo[3][1] \in {"read-https", "dump"}
        BY <4>1, <4>2 DEF Linked, Follows
      <4>4. op.todo[3][1] # "read-https"
        BY <1>3, <2>2, <4>2 DEF OpOK, CommandOK, Possible, Publication
      <4> QED BY <4>2, <4>3, <4>4 DEF CallAt
    <3> QED BY <3>1
  <2>4. (CallAt(1)' = "policies" /\ CallAt(2)' = "dump") \/ CallAt(1)' = "dump"
    BY <1>1, <1>13, <2>3
  <2>5. MigrationOK'
    BY <1>6, <1>7, <2>4 DEF MigrationOK, Moves
  <2>6. PublicationOK' /\ ReplacingOK'
    BY <2>4 DEF PublicationOK, ReplacingOK, Publishes, Removes, Issues, HasRoute, HasIssuer
  <2>7. RemovalOK'
    BY <1>1, <1>2, <1>13, <2>2, <2>4 DEF RemovalOK, Removes, Withdrawn
  <2> QED BY <1>1, <2>5, <2>6, <2>7 DEF CaddyServing
<1> QED BY <1>8, <1>9, <1>10, <1>11, <1>12, <1>13

LEMMA WriteServing == ASSUME Basics, CaddyServing, WriteCaddy PROVE CaddyServing'
<1>1. op.todo # <<>> /\ op.todo[1][1] \in Writes /\ OpOK
  BY WriteDecides DEF Basics
<1>2. /\ CallAt(1) = op.todo[1][1]
      /\ CallAt(1) = "https" => Moves \/ Publishes \/ Removes
      /\ CallAt(1) = "policies" => Issues \/ (Withdrawn /\ CallAt(2) = "dump")
      /\ CallAt(1) = "http" => CallAt(2) \in {"read-policies", "read-removal", "check", "policies", "dump"}
  BY <1>1, WriteKinds
<1> QED BY <1>1, <1>2, WriteMigrationServing, WriteRouteServing DEF Writes

-----------------------------------------------------------------------------
(* The end of a publication, and of a command *)

\* Where nothing is served by the next call, only what is relied on matters.
LEMMA Resting ==
  ASSUME CallAt(1)' \in {"none", "read-servers"} \cup Finals, Arranged', ReliedOK', DumpedOK', op'.moving = FALSE
  PROVE  CaddyServing'
<1>1. MigrationOK'
  BY DEF MigrationOK, Moves, Settled, Finals
<1>2. PublicationOK' /\ RemovalOK' /\ ReplacingOK'
  BY DEF PublicationOK, RemovalOK, ReplacingOK, Publishes, Removes, Issues, HasRoute, HasIssuer,
         Withdrawn, Finals
<1> QED BY <1>1, <1>2 DEF CaddyServing

LEMMA CheckServing == ASSUME Basics, CaddyServing, proxy = "caddy", Check PROVE CaddyServing'
<1>1. /\ op.todo # <<>> /\ op.todo[1] = <<"check", Hostname>> /\ Hostname \in Host
      /\ op.do \in {"publish", "sync", "redirect"}
      /\ Len(op.todo) > 1 /\ op'.todo # <<>>
      /\ op'.do = op.do /\ op'.done = op.done \cup {Hostname} /\ op'.torn = op.torn /\ op'.moving = op.moving
  BY CheckDecides
<1>2. OpOK /\ op.moving \in BOOLEAN /\ op.torn \in BOOLEAN
  BY Views DEF Basics
<1>3. CallAt(1) = "check" /\ CallAt(2) \in {"read-servers"} \cup Finals
  <2>1. CallAt(1) = "check" /\ CallAt(2) = op.todo[2][1] /\ Linked(op.todo[1], op.todo[2])
    BY <1>1, <1>2, CallsFacts, NextCall
  <2>2. CallAt(2) \in {"read-servers", "root", "fragment"} \cup Finals
    BY <1>1, <2>1 DEF Linked, Follows
  <2>3. 2 \in DOMAIN op.todo
    BY <1>1, <1>2, NextCall
  <2>4. CallAt(2) \notin TraefikCalls
    BY <1>2, <2>1, <2>3 DEF OpOK, CommandOK, Possible
  <2> QED BY <2>1, <2>2, <2>4 DEF TraefikCalls
<1>4. op'.todo = After(<<>>).todo
  <2>1. \E d, v : op' = [After(<<>>) EXCEPT !.done = d, !.verified = v]
    <3>1. op' = [After(<<>>) EXCEPT !.done = After(<<>>).done \cup {Hostname},
                     !.verified = IF op.do = "sync" THEN After(<<>>).verified \cup {Hostname}
                                  ELSE After(<<>>).verified]
      BY DEF Check
    <3> QED BY <3>1
  <2>2. After(<<>>) \in Op
    BY <1>1, <1>2, AfterNone DEF CommandOK
  <2> DEFINE R == Seq(Task)
             o == After(<<>>)
  <2>3. o \in [do : {"none", "publish", "remove", "sync", "redirect"},
               todo : R, want : Request \cup {Absent},
               done : SUBSET Host, torn : BOOLEAN, moving : BOOLEAN,
               verified : SUBSET Host, stale : SUBSET Host]
    BY <2>2, OpType
  <2>4. \E d, v : op' = [o EXCEPT !.done = d, !.verified = v]
    BY <2>1
  <2> HIDE DEF R, o
  <2>5. op'.todo = o.todo
    BY <2>3, <2>4
  <2> QED BY <2>5 DEF o
<1>5. CallAt(1)' = CallAt(2) /\ Arranged'
  <2> DEFINE calls == <<>>
  <2>1. Admissible(calls) /\ op'.todo = After(calls).todo /\ \A i \in DOMAIN calls : FALSE
    BY <1>4, AdmissibleNone
  <2> HIDE DEF calls
  <2>2. Arranged'
    BY <1>1, <1>2, <2>1, ArrangedAfter DEF CaddyServing
  <2> QED BY <1>1, <1>2, <1>4, <2>2, GoingOn
<1>6. UNCHANGED <<caddy, draft, dump, kept>>
  BY DEF Check, proxies
<1>7. /\ Old' = Old /\ Restored' = Restored /\ Reached' = Reached /\ Loaded' = Loaded
  BY <1>6 DEF Old, Current, Restored, Listens, Issuers, Reached, Loaded
<1>8. op.moving = FALSE
  BY <1>2, <1>3 DEF CaddyServing, MigrationOK, Moves
<1>9. ~op.torn => Hostname \in Reached
  <2>1. Settled /\ HasRoute /\ HasIssuer
    BY <1>3 DEF Settled, HasRoute, HasIssuer, Finals
  <2> QED BY <1>3, <2>1 DEF CaddyServing, MigrationOK, PublicationOK, Reached
<1>10. Relied' = Relied \cup (IF op.torn THEN {} ELSE {Hostname})
  BY <1>1, <1>6 DEF Relied
<1>11. ReliedOK'
  BY <1>1, <1>6, <1>7, <1>8, <1>9, <1>10 DEF CaddyServing, ReliedOK
<1>12. DumpedOK'
  BY <1>6, <1>7 DEF CaddyServing, DumpedOK
<1> QED BY <1>1, <1>3, <1>5, <1>8, <1>11, <1>12, Resting DEF CaddyServing

LEMMA FinalServing ==
  ASSUME Basics, CaddyServing, proxy = "caddy", Save \/ Dump \/ Advertise PROVE CaddyServing'
<1>1. /\ op.todo # <<>> /\ op.todo[1][1] \in Finals /\ CommandOK(op', proxy, inventory)
      /\ \/ op' = NoOp /\ Len(op.todo) = 1
         \/ SameButTodo(op') /\ op'.todo # <<>> /\ Len(op.todo) > 1
  BY FinalDecides
<1>2. OpOK /\ op.moving \in BOOLEAN /\ op.torn \in BOOLEAN /\ CaddyOK
  BY Views DEF Basics
<1>3. op' = After(<<>>) /\ CallAt(1) \in Finals
  BY <1>1, <1>2, CallsFacts DEF Save, Dump, Advertise, Then
<1>4. op.moving = FALSE
  BY <1>2, <1>3 DEF CaddyServing, MigrationOK, Moves, Finals
<1>5. /\ CallAt(1)' \in {"none"} \cup Finals /\ Arranged'
      /\ \A i \in DOMAIN op'.todo : \E j \in DOMAIN op.todo : op'.todo[i][2] = op.todo[j][2]
  <2>1. CASE op' = NoOp
    <3>1. op'.todo = <<>> /\ DOMAIN op'.todo = {}
      BY <2>1, OpType
    <3> QED BY <3>1 DEF CallAt, Arranged
  <2>2. CASE SameButTodo(op') /\ op'.todo # <<>> /\ Len(op.todo) > 1
    <3>1. op'.do = op.do /\ op'.todo = After(<<>>).todo /\ CallAt(1) # "check"
      BY <1>3, <2>2 DEF SameButTodo, Finals
    <3>2. CallAt(1)' = CallAt(2) /\ Arranged'
          /\ \A i \in DOMAIN op'.todo : \E j \in DOMAIN op.todo : op'.todo[i][2] = op.todo[j][2]
      BY <1>1, <1>2, <2>2, <3>1, OpeningNone DEF CaddyServing
    <3>3. CallAt(1) = op.todo[1][1] /\ CallAt(2) = op.todo[2][1] /\ Linked(op.todo[1], op.todo[2])
      BY <1>1, <1>2, <2>2, CallsFacts, NextCall
    <3>4. CallAt(2) \in Finals
      BY <1>3, <3>3 DEF Linked, Follows, Finals
    <3> QED BY <3>2, <3>4
  <2> QED BY <1>1, <2>1, <2>2
<1>6. op'.moving = FALSE /\ (op'.torn => op.torn) /\ (op'.do = "remove" => op.do = "remove")
  BY <1>1, <1>4, OpType DEF SameButTodo
<1>7. (IF op'.torn THEN {} ELSE op'.done) \subseteq (IF op.torn THEN {} ELSE op.done)
  <2>1. CASE op' = NoOp
    BY <2>1, OpType
  <2>2. CASE SameButTodo(op')
    BY <2>2 DEF SameButTodo
  <2> QED BY <1>1, <2>1, <2>2
<1>8. /\ kept' = kept /\ Relied' \subseteq Relied /\ caddy'.live = caddy.live
      /\ dump'.open \/ (dump' = dump /\ caddy' = caddy)
  <2>1. CASE Save \/ Advertise
    <3>1. UNCHANGED <<caddy, dump, kept>>
      BY <2>1 DEF Save, Advertise, proxies
    <3> QED BY <1>7, <3>1 DEF Relied
  <2>2. CASE Dump
    <3>1. kept' = kept /\ dump' = [open |-> TRUE, hosts |-> IF op.torn THEN {} ELSE op.done] /\ OpenDump
      BY <2>2 DEF Dump
    <3>2. caddy'.live = caddy.live
      BY <1>2, <3>1, DumpFacts
    <3> QED BY <1>7, <3>1, <3>2 DEF Relied
  <2> QED BY <2>1, <2>2
<1>9. Old' = Old /\ Reached' = Reached
  BY <1>8 DEF Old, Current, Listens, Issuers, Reached
<1>10. dump'.open \/ (dump' = dump /\ Restored' = Restored /\ Loaded' = Loaded)
  BY <1>8 DEF Restored, Loaded
<1>11. ReliedOK'
  BY <1>4, <1>5, <1>6, <1>8, <1>9, <1>10 DEF CaddyServing, ReliedOK
<1>12. DumpedOK'
  BY <1>8, <1>10 DEF CaddyServing, DumpedOK
<1> QED BY <1>5, <1>6, <1>11, <1>12, Resting

\* A command that has begun, or has ended.
LEMMA CommandServing == ASSUME Basics, CaddyServing, proxy = "caddy", Command PROVE CaddyServing'
<1>1. /\ op = NoOp /\ Beginning(op') /\ UNCHANGED <<proxies, proxy, inventory>>
      /\ op'.do # "remove" => UNCHANGED <<kept, dump>>
      /\ op'.do = "remove" =>
           \E h \in Published : /\ kept' = kept \ {h} /\ dump' = [dump EXCEPT !.hosts = @ \ {h}]
                                /\ \A i \in DOMAIN op'.todo : op'.todo[i][2] = h
  BY CommandFacts
<1>2. /\ op'.moving = FALSE /\ op'.torn = FALSE /\ op'.done = {} /\ op'.todo # <<>> /\ 1 \in DOMAIN op'.todo
      /\ \A i \in DOMAIN op'.todo : op'.todo[i][1] \notin Writes
      /\ op'.todo[1][1] \in {"read-servers", "root", "fragment", "unlink"} \cup Finals
  BY <1>1 DEF Beginning
<1>3. CallAt(1)' \in {"read-servers"} \cup Finals
  <2>1. op'.todo[1][1] \notin TraefikCalls
    BY <1>1, <1>2 DEF Beginning, CommandOK, Possible
  <2> QED BY <1>2, <2>1 DEF CallAt, TraefikCalls
<1>4. Arranged'
  BY <1>2 DEF Arranged, Writes
<1>5. UNCHANGED <<caddy, draft>> /\ op.moving = FALSE
  BY <1>1, OpType DEF proxies
<1>6. Old' = Old /\ Reached' = Reached /\ Loaded' = Loaded
  BY <1>5 DEF Old, Current, Restored, Listens, Issuers, Reached, Loaded
<1>7. /\ kept' \subseteq kept /\ Relied' \subseteq Relied /\ dump'.open = dump.open
      /\ op'.do = "remove" => \A i \in DOMAIN op'.todo : op'.todo[i][2] \notin Relied'
  <2>1. dump \in [open : BOOLEAN, hosts : SUBSET Host]
    BY DEF Basics, RestOK
  <2>2. CASE UNCHANGED <<kept, dump>> /\ op'.do # "remove"
    BY <1>2, <2>2 DEF Relied
  <2>3. ASSUME NEW h \in Published, kept' = kept \ {h}, dump' = [dump EXCEPT !.hosts = @ \ {h}],
               \A i \in DOMAIN op'.todo : op'.todo[i][2] = h
        PROVE  <1>7
    <3>1. dump'.open = dump.open /\ dump'.hosts = dump.hosts \ {h}
      BY <2>1, <2>3
    <3> QED BY <1>2, <2>3, <3>1 DEF Relied
  <2> QED BY <1>1, <2>2, <2>3
<1>8. ReliedOK'
  BY <1>2, <1>5, <1>6, <1>7 DEF CaddyServing, ReliedOK
<1>9. DumpedOK'
  BY <1>6, <1>7 DEF CaddyServing, DumpedOK
<1> QED BY <1>2, <1>3, <1>4, <1>8, <1>9, Resting

\* A command ends, and less may be relied on.
LEMMA StopServing ==
  ASSUME Basics, CaddyServing, op' = NoOp, Relied' \subseteq Relied, kept' \subseteq kept,
         Relied' \subseteq Reached', Loaded' = Loaded, dump'.open = dump.open \/ kept' = {}
  PROVE  CaddyServing'
<1>1. op'.todo = <<>> /\ DOMAIN op'.todo = {} /\ op'.moving = FALSE /\ op'.torn = FALSE
  BY OpType
<1>2. CallAt(1)' = "none" /\ Arranged'
  BY <1>1 DEF CallAt, Arranged
<1>3. ReliedOK'
  BY <1>1 DEF ReliedOK
<1>4. DumpedOK'
  BY DEF CaddyServing, DumpedOK
<1> QED BY <1>1, <1>2, <1>3, <1>4, Resting

LEMMA EndsReliance ==
  ASSUME Basics, NEW lost \in BOOLEAN, Ends(lost)
  PROVE  /\ op' = NoOp /\ kept' \subseteq kept /\ dump'.open = dump.open /\ Relied' \subseteq Relied
         /\ lost => Relied' = {}
<1>1. /\ op' = NoOp /\ kept' \subseteq kept /\ dump'.open = dump.open /\ dump'.hosts \subseteq dump.hosts
      /\ lost => kept' = {} /\ dump'.hosts = {}
  BY EndsFacts
<1>2. op'.done = {}
  BY <1>1, OpType
<1> QED BY <1>1, <1>2 DEF Relied

\* Where a command is cut and Caddy is as it was.
LEMMA CutServing ==
  ASSUME Basics, CaddyServing, Ends(op.moving), UNCHANGED caddy
  PROVE  CaddyServing'
<1>1. op.moving \in BOOLEAN
  BY Views
<1>2. /\ op' = NoOp /\ kept' \subseteq kept /\ dump'.open = dump.open /\ Relied' \subseteq Relied
      /\ op.moving => Relied' = {}
  BY <1>1, EndsReliance
<1>3. Reached' = Reached /\ Loaded' = Loaded
  BY DEF Old, Current, Listens, Issuers, Reached, Loaded
<1>4. Relied' \subseteq Reached'
  BY <1>1, <1>2, <1>3 DEF CaddyServing, ReliedOK
<1> QED BY <1>2, <1>3, <1>4, StopServing

LEMMA FailureServing ==
  ASSUME Basics, CaddyServing, Rejected \/ CaddyFails \/ Die PROVE CaddyServing'
<1>1. CASE Rejected \/ Die
  <2>1. Ends(op.moving) /\ UNCHANGED caddy
    BY <1>1 DEF Rejected, Die
  <2> QED BY <2>1, CutServing
<1>2. CASE CaddyFails
  <2>1. /\ op.todo # <<>>
        /\ \/ Ends(op.moving) /\ UNCHANGED caddy
           \/ /\ op.todo[1][1] \in Writes /\ Accepted(op.todo[1][1]) /\ Write(op.todo[1][1])
              /\ Ends(op.moving \/ op.todo[1][1] = "drop-srv0")
    BY <1>2, CaddyFailsFacts
  <2>2. CASE /\ op.todo[1][1] \in Writes /\ Accepted(op.todo[1][1]) /\ Write(op.todo[1][1])
             /\ Ends(op.moving \/ op.todo[1][1] = "drop-srv0")
    <3> DEFINE lost == op.moving \/ op.todo[1][1] = "drop-srv0"
    <3>1. lost \in BOOLEAN /\ op.moving \in BOOLEAN
      BY Views
    <3>2. Ends(lost)
      BY <2>2
    <3>3. lost <=> op.moving \/ op.todo[1][1] = "drop-srv0"
      OBVIOUS
    <3> HIDE DEF lost
    <3>4. /\ op' = NoOp /\ kept' \subseteq kept /\ dump'.open = dump.open /\ Relied' \subseteq Relied
          /\ lost => Relied' = {}
      BY <3>1, <3>2, EndsReliance
    <3>5. Loaded' = Loaded
      BY <2>2, WrittenViews
    <3>6. Relied' \subseteq Reached'
      BY <2>1, <2>2, <3>3, <3>4, WriteReaches
    <3> QED BY <3>4, <3>5, <3>6, StopServing
  <2> QED BY <2>1, <2>2, CutServing
<1> QED BY <1>1, <1>2

-----------------------------------------------------------------------------
(* The dump, restarts and edits *)

\* The command is where it was, and less may be relied on.
LEMMA SameServing ==
  ASSUME Basics, CaddyServing, op'.todo = op.todo, op'.do = op.do, op'.torn = op.torn, op'.moving = op.moving,
         Old' = Old, Current' = Current, Drafted' = Drafted, Listens' = Listens, Issuers' = Issuers,
         NextIssuers' = NextIssuers, Reached' = Reached, Relied' \subseteq Relied, DumpedOK',
         op.torn /\ Relied' # {} => dump'.open \/ Old \subseteq Restored'
  PROVE  CaddyServing'
<1>1. /\ CallAt(1)' = CallAt(1) /\ CallAt(2)' = CallAt(2) /\ Hostname' = Hostname
      /\ Arranged' <=> Arranged
  BY DEF CallAt, Hostname, Arranged
<1>2. /\ Moves' = Moves /\ Publishes' = Publishes /\ Removes' = Removes /\ Issues' = Issues
      /\ HasRoute' = HasRoute /\ HasIssuer' = HasIssuer /\ Withdrawn' = Withdrawn /\ Settled' = Settled
  BY <1>1 DEF Moves, Publishes, Removes, Issues, HasRoute, HasIssuer, Withdrawn, Settled
<1>3. op.moving \in BOOLEAN /\ op.torn \in BOOLEAN
  BY Views
<1>4. ReliedOK'
  BY DEF CaddyServing, ReliedOK
<1>5. MigrationOK'
  BY <1>1, <1>2, <1>3 DEF CaddyServing, MigrationOK
<1>6. PublicationOK'
  BY <1>1, <1>2 DEF CaddyServing, PublicationOK
<1>7. RemovalOK'
  BY <1>1, <1>2 DEF CaddyServing, RemovalOK
<1>8. ReplacingOK'
  <2>1. CASE Publishes \/ Removes
    <3>1. \A g \in Relied : g \in Drafted \/ g \in Old
      BY <2>1 DEF CaddyServing, ReplacingOK
    <3>2. ~op.torn => Old = {}
      <4>1. Settled
        BY <2>1 DEF Publishes, Removes, Settled, Finals
      <4> QED BY <4>1 DEF CaddyServing, MigrationOK
    <3>3. \A g \in Relied' : g \in Drafted \/ (g \in Old /\ (dump'.open \/ g \in Restored'))
      BY <1>3, <3>1, <3>2
    <3> QED BY <3>3 DEF ReplacingOK
  <2>2. CASE ~(Publishes \/ Removes)
    BY <1>2, <2>2 DEF ReplacingOK
  <2> QED BY <2>1, <2>2
<1> QED BY <1>1, <1>4, <1>5, <1>6, <1>7, <1>8 DEF CaddyServing

LEMMA EditServing == ASSUME Basics, CaddyServing, Edit PROVE CaddyServing'
<1>1. /\ EditCaddy /\ UNCHANGED <<draft, dump, kept>>
      /\ op'.do = op.do /\ op'.todo = op.todo /\ op'.done = op.done
      /\ op'.torn = op.torn /\ op'.moving = op.moving
  BY EditOfCaddyFacts
<1>2. /\ caddy'.file = caddy.file
      /\ caddy'.live.srv0 = caddy.live.srv0 /\ caddy'.live.policies = caddy.live.policies
      /\ caddy'.live.https.up = caddy.live.https.up /\ caddy'.live.https.listen = caddy.live.https.listen
      /\ Served(caddy'.live.https.routes) = Served(caddy.live.https.routes)
  BY <1>1, EditFacts DEF Basics
<1>3. /\ Old' = Old /\ Current' = Current /\ Drafted' = Drafted /\ Listens' = Listens /\ Issuers' = Issuers
      /\ NextIssuers' = NextIssuers
  BY <1>1, <1>2 DEF Old, Current, Drafted, Listens, Issuers, NextIssuers
<1>4. Reached' = Reached
  BY <1>3 DEF Reached
<1>5. Loaded' = Loaded /\ Restored' = Restored
  BY <1>2 DEF Loaded, Restored
<1>6. Relied' = Relied
  BY <1>1 DEF Relied
<1>7. DumpedOK'
  BY <1>1, <1>5 DEF CaddyServing, DumpedOK
<1>8. op.torn /\ Relied' # {} => dump'.open \/ Old \subseteq Restored'
  BY <1>1, <1>5, <1>6 DEF CaddyServing, ReliedOK
<1> QED BY <1>1, <1>3, <1>4, <1>6, <1>7, <1>8, SameServing

LEMMA DumpEndsServing == ASSUME Basics, CaddyServing, DumpEnds PROVE CaddyServing'
<1>1. /\ dump.open /\ CloseDump /\ kept' = (IF op.moving THEN {} ELSE kept \cup dump.hosts)
      /\ dump' = NoDump /\ UNCHANGED <<draft, op>>
  BY DEF DumpEnds
<1>2. caddy'.live = caddy.live /\ caddy'.file = <<caddy.live>> /\ Loaded' = caddy.live
  BY <1>1, DumpFacts DEF Basics, Loaded
<1>3. /\ Old' = Old /\ Current' = Current /\ Drafted' = Drafted /\ Listens' = Listens /\ Issuers' = Issuers
      /\ NextIssuers' = NextIssuers
  BY <1>1, <1>2 DEF Old, Current, Drafted, Listens, Issuers, NextIssuers
<1>4. Reached' = Reached
  BY <1>3 DEF Reached
<1>5. Restored' = Old
  BY <1>2 DEF Restored, Old
<1>6. Relied' \subseteq Relied /\ kept' \subseteq Relied
  BY <1>1 DEF Relied, NoDump
<1>7. DumpedOK'
  <2>1. \A g \in Host : CaddyServes(caddy.live, g) <=> g \in Reached
    BY Views
  <2>2. Relied \subseteq Host /\ op.moving \in BOOLEAN
    BY Views
  <2>3. ~op.moving => Relied \subseteq Reached
    BY DEF CaddyServing, ReliedOK
  <2>4. \A g \in kept' : CaddyServes(caddy.live, g)
    BY <1>1, <1>6, <2>1, <2>2, <2>3
  <2> QED BY <1>2, <2>4 DEF DumpedOK
<1>8. UNCHANGED <<op.todo, op.do, op.torn, op.moving>>
  BY <1>1
<1> QED BY <1>3, <1>4, <1>5, <1>6, <1>7, <1>8, SameServing

LEMMA DumpFailsServing == ASSUME Basics, CaddyServing, DumpFails PROVE CaddyServing'
<1>1. /\ kept' = {} /\ dump' = NoDump /\ UNCHANGED <<caddy, draft>>
      /\ op' = (IF Calling("advertise") THEN NoOp ELSE op)
  BY DEF DumpFails, proxies
<1>2. /\ Old' = Old /\ Current' = Current /\ Drafted' = Drafted /\ Listens' = Listens /\ Issuers' = Issuers
      /\ NextIssuers' = NextIssuers /\ Loaded' = Loaded
  BY <1>1 DEF Old, Current, Drafted, Listens, Issuers, NextIssuers, Loaded
<1>3. Reached' = Reached
  BY <1>2 DEF Reached
<1>4. DumpedOK'
  BY <1>1 DEF DumpedOK
<1>5. CASE Calling("advertise")
  <2>1. op' = NoOp
    BY <1>1, <1>5
  <2>2. Relied' = {}
    BY <1>1, <2>1, OpType DEF Relied, NoDump
  <2> QED BY <1>1, <1>2, <2>1, <2>2, StopServing
<1>6. CASE ~Calling("advertise")
  <2>1. op' = op
    BY <1>1, <1>6
  <2>2. Relied' = (IF op.torn THEN {} ELSE op.done)
    BY <1>1, <2>1 DEF Relied, NoDump
  <2>3. Relied' \subseteq Relied /\ (op.torn => Relied' = {})
    BY <2>2 DEF Relied
  <2>4. UNCHANGED <<op.todo, op.do, op.torn, op.moving>>
    BY <2>1
  <2> QED BY <1>2, <1>3, <1>4, <2>3, <2>4, SameServing
<1> QED BY <1>5, <1>6

LEMMA RestartServing == ASSUME Basics, CaddyServing, RestartOfCaddy PROVE CaddyServing'
<1>1. /\ caddy'.live = Loaded /\ caddy'.file = caddy.file /\ UNCHANGED draft
      /\ dump'.open = dump.open /\ dump'.hosts = {}
      /\ kept' = (IF caddy.file = <<>> \/ Migrating THEN {} ELSE kept)
      /\ op = NoOp => op' = NoOp
      /\ op # NoOp => /\ op'.do = op.do /\ op'.todo = op.todo /\ op'.done = op.done
                      /\ op'.torn = TRUE /\ op'.moving = FALSE
  BY RestartCaddyFacts
<1>2. /\ op.moving \in BOOLEAN /\ op.torn \in BOOLEAN /\ Relied \subseteq Host
      /\ (dump.open => caddy.file = <<>>) /\ OpOK
  BY Views DEF Basics, CaddyOK
<1>3. Relied' = kept' /\ kept' \subseteq kept /\ kept \subseteq Relied
  BY <1>1, OpType DEF Relied
<1>4. /\ Loaded' = Loaded /\ Restored' = Restored /\ Old' = Restored
      /\ Drafted' = Drafted /\ NextIssuers' = NextIssuers
  BY <1>1 DEF Old, Restored, Loaded, Drafted, NextIssuers
<1>5. kept' # {} => ~dump.open /\ ~Migrating
  BY <1>1, <1>2
<1>6. DumpedOK'
  BY <1>1, <1>3, <1>4 DEF CaddyServing, DumpedOK
<1>7. Relied' \subseteq Reached'
  <2>1. \A g \in Host : CaddyServes(Loaded, g) <=> g \in Reached'
    <3>1. ConfigOK(Loaded)
      BY Views
    <3>2. /\ Old' = Served(Loaded.srv0) /\ Current' = Served(Loaded.https.routes)
          /\ Issuers' = Loaded.policies /\ (Listens' <=> Loaded.https.up /\ Loaded.https.listen)
      BY <1>1 DEF Old, Current, Issuers, Listens
    <3>3. ~Loaded.https.up => Served(Loaded.https.routes) = {}
      BY <3>1 DEF ConfigOK, Served
    <3> QED BY <3>1, <3>2, <3>3, ServesFacts DEF Reached
  <2>2. kept' # {} => \A g \in kept : CaddyServes(Loaded, g)
    BY <1>5 DEF CaddyServing, DumpedOK
  <2> QED BY <1>2, <1>3, <2>1, <2>2
<1>8. CASE op = NoOp
  BY <1>1, <1>3, <1>4, <1>7, <1>8, StopServing
<1>9. CASE op # NoOp
  <2>1. /\ op'.do = op.do /\ op'.todo = op.todo /\ op'.torn = TRUE /\ op'.moving = FALSE
    BY <1>1, <1>9
  <2>2. /\ CallAt(1)' = CallAt(1) /\ CallAt(2)' = CallAt(2) /\ Hostname' = Hostname
        /\ Arranged' <=> Arranged
    BY <2>1 DEF CallAt, Hostname, Arranged
  <2>3. /\ Moves' = Moves /\ Publishes' = Publishes /\ Removes' = Removes /\ Issues' = Issues
        /\ HasRoute' = HasRoute /\ HasIssuer' = HasIssuer /\ Withdrawn' = Withdrawn /\ Settled' = Settled
    BY <2>2 DEF Moves, Publishes, Removes, Issues, HasRoute, HasIssuer, Withdrawn, Settled
  <2>4. /\ CallAt(1) = "drop-srv0" \/ CallAt(2) = "drop-srv0" \/ op.moving => Relied' = {}
    <3>1. CallAt(1) = "drop-srv0" \/ CallAt(2) = "drop-srv0" => Migrating
      BY DEF CallAt, Migrating
    <3>2. op.moving => Migrating
      BY DEF Migrating
    <3> QED BY <1>3, <1>5, <3>1, <3>2
  <2>5. ReliedOK'
    BY <1>3, <1>4, <1>7, <2>1 DEF CaddyServing, ReliedOK
  <2>6. MigrationOK'
    <3>1. Moves => Relied' = {}
      BY <1>2, <1>3, <2>4 DEF CaddyServing, MigrationOK
    <3> QED BY <2>1, <2>2, <2>3, <2>4, <3>1 DEF MigrationOK
  <2>7. PublicationOK'
    BY <1>3, <1>4, <2>1, <2>2, <2>3 DEF CaddyServing, PublicationOK
  <2>8. RemovalOK'
    BY <1>3, <1>4, <2>1, <2>2, <2>3 DEF CaddyServing, RemovalOK
  <2>9. ReplacingOK'
    <3>1. CASE Publishes \/ Removes
      <4>1. \A g \in Relied : g \in Drafted \/ dump.open \/ g \in Restored
        BY <3>1 DEF CaddyServing, ReplacingOK
      <4>2. \A g \in Relied' : g \in Drafted \/ g \in Restored
        BY <1>3, <1>5, <4>1
      <4> QED BY <1>4, <4>2 DEF ReplacingOK
    <3>2. CASE ~(Publishes \/ Removes)
      BY <2>3, <3>2 DEF ReplacingOK
    <3> QED BY <3>1, <3>2
  <2> QED BY <1>6, <2>2, <2>5, <2>6, <2>7, <2>8, <2>9 DEF CaddyServing
<1> QED BY <1>8, <1>9

-----------------------------------------------------------------------------
(* The invariant *)

LEMMA TraefikKeepsNothing ==
  ASSUME Basics, proxy = "traefik", kept = {}, dump = NoDump, Next
  PROVE  kept' = {} /\ dump' = NoDump
<1>1. dump.open = FALSE /\ [dump EXCEPT !.hosts = {}] = NoDump /\ \A h : [dump EXCEPT !.hosts = @ \ {h}] = NoDump
  BY DEF NoDump
<1>2. ASSUME NEW lost \in BOOLEAN, Ends(lost) PROVE kept' = {} /\ dump' = NoDump
  BY <1>1, <1>2 DEF Ends
<1>3. CASE Command
  <2>1. kept' \subseteq kept /\ (dump' = dump \/ \E h : dump' = [dump EXCEPT !.hosts = @ \ {h}])
    BY <1>3, CommandFacts
  <2> QED BY <1>1, <2>1
<1>4. CASE ReadCaddy \/ WriteCaddy
  BY <1>4, ReadDecides, WriteDecides
<1>5. CASE ConfigureTraefik \/ Check \/ Save \/ Advertise
  BY <1>5 DEF ConfigureTraefik, Check, Save, Advertise
<1>6. CASE Dump
  BY <1>6, FinalDecides
<1>7. CASE Rejected \/ Die \/ CaddyFails
  <2>1. \E lost \in BOOLEAN : Ends(lost)
    <3>1. op.moving \in BOOLEAN
      BY Views
    <3>2. CASE Rejected \/ Die
      BY <3>1, <3>2 DEF Rejected, Die
    <3>3. CASE CaddyFails
      <4>1. Ends(op.moving) \/ Ends(op.moving \/ op.todo[1][1] = "drop-srv0")
        BY <3>3, CaddyFailsFacts
      <4>2. (op.moving \/ op.todo[1][1] = "drop-srv0") \in BOOLEAN
        BY <3>1
      <4> QED BY <3>1, <4>1, <4>2
    <3> QED BY <1>7, <3>2, <3>3
  <2> QED BY <1>2, <2>1
<1>8. CASE TraefikFails
  BY <1>2, <1>8, TraefikFailsFacts
<1>9. CASE DumpFails \/ DumpEnds
  BY <1>1, <1>9 DEF DumpFails, DumpEnds
<1>10. CASE RestartOfCaddy \/ Edit
  BY <1>10 DEF RestartOfCaddy, Edit
<1>11. CASE RestartOfTraefik \/ ReloadOfTraefik
  BY <1>11 DEF RestartOfTraefik, ReloadOfTraefik
<1> QED BY <1>3, <1>4, <1>5, <1>6, <1>7, <1>8, <1>9, <1>10, <1>11 DEF Next, Work, Failure, Environment

LEMMA CaddyKeepsServing == ASSUME Basics, proxy = "caddy", CaddyServing, Next PROVE CaddyServing'
<1>1. CASE Command
  BY <1>1, CommandServing
<1>2. CASE ReadCaddy \/ WriteCaddy
  BY <1>2, ReadServing, WriteServing
<1>3. CASE ConfigureTraefik \/ TraefikFails
  <2>1. op.todo # <<>> /\ op.todo[1][1] \in TraefikCalls
    BY <1>3, ConfigureDecides, TraefikFailsFacts
  <2>2. op.todo[1][1] \notin TraefikCalls
    BY <2>1, NextCall DEF Basics, Possible
  <2> QED BY <2>1, <2>2
<1>4. CASE Check \/ Save \/ Dump \/ Advertise
  BY <1>4, CheckServing, FinalServing
<1>5. CASE Rejected \/ CaddyFails \/ Die
  BY <1>5, FailureServing
<1>6. CASE DumpFails \/ DumpEnds \/ RestartOfCaddy \/ Edit
  BY <1>6, DumpFailsServing, DumpEndsServing, RestartServing, EditServing
<1>7. CASE RestartOfTraefik
  BY <1>7 DEF RestartOfTraefik
<1>8. CASE ReloadOfTraefik
  <2>1. UNCHANGED <<caddy, draft, op, dump, kept>>
    BY <1>8 DEF ReloadOfTraefik
  <2>2. /\ Old' = Old /\ Current' = Current /\ Drafted' = Drafted /\ Listens' = Listens /\ Issuers' = Issuers
        /\ NextIssuers' = NextIssuers /\ Loaded' = Loaded /\ Restored' = Restored /\ Relied' = Relied
    BY <2>1 DEF Old, Current, Drafted, Listens, Issuers, NextIssuers, Loaded, Restored, Relied
  <2>3. Reached' = Reached
    BY <2>2 DEF Reached
  <2>4. DumpedOK'
    BY <2>1, <2>2 DEF CaddyServing, DumpedOK
  <2>5. op.torn /\ Relied' # {} => dump'.open \/ Old \subseteq Restored'
    BY <2>1, <2>2 DEF CaddyServing, ReliedOK
  <2> QED BY <2>1, <2>2, <2>3, <2>4, <2>5, SameServing
<1> QED BY <1>1, <1>2, <1>3, <1>4, <1>5, <1>6, <1>7, <1>8 DEF Next, Work, Failure, Environment

LEMMA InitServing == ASSUME Init PROVE ServeOK
<1>1. /\ op = NoOp /\ dump = NoDump /\ proxy \in {"caddy", "traefik"}
      /\ \/ kept = {} /\ caddy = [live |-> Installed, file |-> <<>>]
         \/ \E h \in Host, r \in Request :
              /\ proxy = "caddy" /\ kept = {h}
              /\ caddy = [live |-> Legacy(h, r), file |-> <<Legacy(h, r)>>]
  BY DEF Init, CaddyInit
<1>2. op.todo = <<>> /\ op.moving = FALSE /\ op.torn = FALSE /\ op.done = {} /\ op.do = "none"
  BY <1>1, OpType
<1>3. CallAt(1) = "none" /\ Arranged
  BY <1>2 DEF CallAt, Arranged
<1>4. Relied = kept
  BY <1>1, <1>2 DEF Relied, NoDump
<1>5. Relied \subseteq Reached /\ DumpedOK
  <2>1. CASE kept = {}
    BY <1>4, <2>1 DEF DumpedOK
  <2>2. ASSUME NEW h \in Host, NEW r \in Request, kept = {h},
               caddy = [live |-> Legacy(h, r), file |-> <<Legacy(h, r)>>]
        PROVE  Relied \subseteq Reached /\ DumpedOK
    <3> DEFINE c == Legacy(h, r)
    <3>1. ConfigOK(c) /\ h \in c.policies /\ h \in Served(c.srv0)
      BY InstalledFacts
    <3> HIDE DEF c
    <3>2. caddy.live = c /\ caddy.file = <<c>>
      BY <2>2 DEF c
    <3>3. Loaded = c
      BY <3>2 DEF Loaded
    <3>4. CaddyServes(c, h)
      BY <3>1, ServesFacts
    <3>5. h \in Issuers /\ h \in Old
      BY <3>1, <3>2 DEF Issuers, Old
    <3> QED BY <1>4, <2>2, <3>3, <3>4, <3>5 DEF Reached, DumpedOK
  <2> QED BY <1>1, <2>1, <2>2
<1>6. ReliedOK
  BY <1>2, <1>5 DEF ReliedOK
<1>7. MigrationOK
  BY <1>2, <1>3 DEF MigrationOK, Moves, Settled
<1>8. PublicationOK /\ RemovalOK /\ ReplacingOK
  BY <1>3 DEF PublicationOK, RemovalOK, ReplacingOK, Publishes, Removes, Issues, HasRoute, HasIssuer, Withdrawn
<1>9. proxy = "traefik" => kept = {} /\ dump = NoDump
  BY <1>1
<1> QED BY <1>3, <1>5, <1>6, <1>7, <1>8, <1>9 DEF ServeOK, CaddyServing

LEMMA NextServing == ASSUME Basics, ServeOK, [Next]_vars PROVE ServeOK'
<1>1. proxy' = proxy /\ proxy \in {"caddy", "traefik"}
  <2>1. proxy \in {"caddy", "traefik"}
    BY DEF Basics, RestOK
  <2>2. CASE Command
    BY <2>1, <2>2, CommandFacts
  <2>3. CASE Work
    BY <2>1, <2>3 DEF Work, ReadCaddy, WriteCaddy, ConfigureTraefik, Check, Save, Dump, Advertise
  <2>4. CASE Failure
    BY <2>1, <2>4 DEF Failure, Rejected, CaddyFails, TraefikFails, Die, DumpFails
  <2>5. CASE Environment
    BY <2>1, <2>5 DEF Environment, DumpEnds, RestartOfCaddy, Edit, RestartOfTraefik, ReloadOfTraefik
  <2>6. CASE UNCHANGED vars
    BY <2>1, <2>6 DEF vars
  <2> QED BY <2>1, <2>2, <2>3, <2>4, <2>5, <2>6 DEF Next
<1>2. CASE UNCHANGED vars
  <2>1. UNCHANGED <<caddy, draft, op, dump, kept>>
    BY <1>2 DEF vars, proxies
  <2>2. CASE proxy = "caddy"
    <3>1. /\ Old' = Old /\ Current' = Current /\ Drafted' = Drafted /\ Listens' = Listens /\ Issuers' = Issuers
          /\ NextIssuers' = NextIssuers /\ Loaded' = Loaded /\ Restored' = Restored /\ Relied' = Relied
      BY <2>1 DEF Old, Current, Drafted, Listens, Issuers, NextIssuers, Loaded, Restored, Relied
    <3>2. Reached' = Reached
      BY <3>1 DEF Reached
    <3>3. DumpedOK'
      BY <2>1, <2>2, <3>1 DEF ServeOK, CaddyServing, DumpedOK
    <3>4. op.torn /\ Relied' # {} => dump'.open \/ Old \subseteq Restored'
      BY <2>1, <2>2, <3>1 DEF ServeOK, CaddyServing, ReliedOK
    <3>5. CaddyServing
      BY <2>2 DEF ServeOK
    <3>6. CaddyServing'
      BY <2>1, <3>1, <3>2, <3>3, <3>4, <3>5, SameServing
    <3> QED BY <1>1, <2>2, <3>6 DEF ServeOK
  <2>3. CASE proxy = "traefik"
    BY <1>1, <2>1, <2>3 DEF ServeOK
  <2> QED BY <1>1, <2>2, <2>3
<1>3. CASE Next
  <2>1. CASE proxy = "caddy"
    BY <1>1, <1>3, <2>1, CaddyKeepsServing DEF ServeOK
  <2>2. CASE proxy = "traefik"
    BY <1>1, <1>3, <2>2, TraefikKeepsNothing DEF ServeOK
  <2> QED BY <1>1, <2>1, <2>2
<1> QED BY <1>2, <1>3

LEMMA AlwaysServing == Spec => []ServeOK
<1>1. Init => ServeOK
  BY InitServing
<1>2. Basics /\ ServeOK /\ [Next]_vars => ServeOK'
  BY NextServing
<1> QED BY <1>1, <1>2, AlwaysBasics, PTL DEF Spec

\* A hostname that was published and dumped is served from then on, and after a restart of
\* Caddy too, through failed and cut commands for other hostnames and for its own updates
\* (src/src/caddy-adapter.js).  The invariant follows the routes through the lists that a
\* command has read and not written yet, and through the dump.
THEOREM KeptStayServed == Spec => []KeptAreServed
<1>1. Basics /\ ServeOK => KeptAreServed
  <2> SUFFICES ASSUME Basics, ServeOK PROVE KeptAreServed
    OBVIOUS
  <2>1. proxy \in {"caddy", "traefik"} /\ kept \subseteq Host /\ op.moving \in BOOLEAN
    BY Views DEF Basics, RestOK
  <2>2. CASE proxy = "traefik"
    BY <2>2 DEF ServeOK, KeptAreServed
  <2>3. CASE proxy = "caddy"
    <3>1. op.moving \/ Relied \subseteq Reached
      BY <2>3 DEF ServeOK, CaddyServing, ReliedOK
    <3>2. \A h \in kept : op.moving \/ CaddyServes(caddy.live, h)
      BY <2>1, <3>1, Views DEF Relied
    <3>3. dump.open \/ \A h \in kept : CaddyServes(Loaded, h)
      BY <2>3 DEF ServeOK, CaddyServing, DumpedOK
    <3> QED BY <3>2, <3>3 DEF KeptAreServed
  <2> QED BY <2>1, <2>2, <2>3
<1> QED BY <1>1, AlwaysBasics, AlwaysServing, PTL

\* A request serves no hostname without its issuer that was not served without it.
LEMMA WriteKeepsIssued ==
  ASSUME Basics, CaddyServing, op.todo # <<>>, op.todo[1][1] \in Writes,
         Accepted(op.todo[1][1]), Write(op.todo[1][1]), ~op.torn, ~op.moving
  PROVE  Unissued(caddy'.live) \subseteq Unissued(caddy.live)
<1> DEFINE call == op.todo[1][1]
<1>1. /\ CallAt(1) = call
      /\ CallAt(1) = "https" => Moves \/ Publishes \/ Removes
      /\ CallAt(1) = "policies" => Issues \/ (Withdrawn /\ CallAt(2) = "dump")
  BY WriteKinds DEF Basics
<1>2. /\ Old' \subseteq Old
      /\ call \in {"https", "create-https"} => Current' = Drafted
      /\ call \notin {"https", "create-https"} => Current' = Current
      /\ call = "policies" => Issuers' = NextIssuers
      /\ call # "policies" => Issuers' = Issuers
  BY WrittenViews
<1>3. ConfigOK(caddy.live) /\ ConfigOK(caddy'.live)
  BY WriteKeepsCaddy DEF Basics, CaddyOK
<1>4. /\ Unissued(caddy.live) = {h \in Host : h \in Old \cup Current /\ h \notin Issuers}
      /\ Unissued(caddy'.live) = {h \in Host : h \in Old' \cup Current' /\ h \notin Issuers'}
  <2>1. ASSUME NEW c, ConfigOK(c)
        PROVE  Unissued(c) = {h \in Host : h \in Served(c.srv0) \cup Served(c.https.routes) /\ h \notin c.policies}
    BY <2>1, ServesFacts DEF Unissued
  <2> QED BY <1>3, <2>1 DEF Old, Current, Issuers
<1> HIDE DEF call
<1>5. CASE call = "https"
  <2>1. ~Moves
    BY DEF CaddyServing, MigrationOK
  <2>2. Publishes => Drafted \subseteq Current \cup {Hostname} /\ Hostname \in Issuers
    BY DEF CaddyServing, PublicationOK, HasIssuer
  <2>3. Removes => Drafted \subseteq Current
    BY DEF CaddyServing, RemovalOK
  <2> QED BY <1>1, <1>2, <1>4, <1>5, <2>1, <2>2, <2>3
<1>6. CASE call = "create-https"
  <2>1. Drafted \subseteq Current
    BY <1>1, <1>6 DEF CaddyServing, MigrationOK
  <2> QED BY <1>2, <1>4, <1>6, <2>1
<1>7. CASE call = "policies"
  <2>1. Issues => Issuers \subseteq NextIssuers
    BY DEF CaddyServing, PublicationOK
  <2>2. Withdrawn => Issuers \ {Hostname} \subseteq NextIssuers /\ Hostname \notin Current
    BY DEF CaddyServing, RemovalOK
  <2>3. Old = {}
    <3>1. Settled
      BY <1>1, <1>7 DEF Settled, Finals
    <3> QED BY <3>1 DEF CaddyServing, MigrationOK
  <2> QED BY <1>1, <1>2, <1>4, <1>7, <2>1, <2>2, <2>3
<1>8. CASE call \notin {"https", "create-https", "policies"}
  BY <1>2, <1>4, <1>8
<1> QED BY <1>5, <1>6, <1>7, <1>8

LEMMA LiveChanges ==
  ASSUME Basics, Next
  PROVE  caddy'.live = caddy.live \/ WriteCaddy \/ CaddyFails \/ RestartOfCaddy \/ Edit
<1>1. CASE Command
  BY <1>1, CommandFacts DEF proxies
<1>2. CASE ReadCaddy \/ ConfigureTraefik \/ Check \/ Save \/ Advertise
  BY <1>2 DEF ReadCaddy, ConfigureTraefik, Check, Save, Advertise, proxies
<1>3. CASE Dump \/ DumpEnds
  BY <1>3, DumpFacts DEF Dump, DumpEnds, Basics
<1>4. CASE Rejected \/ TraefikFails \/ Die \/ DumpFails
  BY <1>4 DEF Rejected, TraefikFails, Die, DumpFails, proxies
<1>5. CASE RestartOfTraefik \/ ReloadOfTraefik
  BY <1>5 DEF RestartOfTraefik, ReloadOfTraefik
<1> QED BY <1>1, <1>2, <1>3, <1>4, <1>5 DEF Next, Work, Failure, Environment

LEMMA NextIssuesFirst ==
  ASSUME Basics, ServeOK, [Next]_vars, op # NoOp, ~op.torn, ~op'.torn, ~op.moving
  PROVE  Unissued(caddy'.live) \subseteq Unissued(caddy.live)
<1>1. CASE caddy'.live = caddy.live
  BY <1>1
<1>2. CASE UNCHANGED vars
  BY <1>2 DEF vars, proxies
<1>3. CASE WriteCaddy \/ CaddyFails
  <2>1. /\ op.todo # <<>>
        /\ \/ UNCHANGED caddy
           \/ op.todo[1][1] \in Writes /\ Accepted(op.todo[1][1]) /\ Write(op.todo[1][1])
    BY <1>3, WriteDecides, CaddyFailsFacts
  <2>2. CASE op.todo[1][1] \in Writes /\ Accepted(op.todo[1][1]) /\ Write(op.todo[1][1])
    <3>1. Possible(proxy, inventory, op.do, op.todo[1]) /\ proxy \in {"caddy", "traefik"}
      BY <2>1, NextCall DEF Basics, RestOK
    <3>2. proxy = "caddy"
      BY <2>2, <3>1 DEF Possible, CaddyCalls
    <3> QED BY <2>1, <2>2, <3>2, WriteKeepsIssued DEF ServeOK
  <2> QED BY <2>1, <2>2
<1>4. CASE RestartOfCaddy
  BY <1>4, RestartCaddyFacts
<1>5. CASE Edit
  <2>1. /\ ConfigOK(caddy'.live) /\ ConfigOK(caddy.live)
        /\ caddy'.live.srv0 = caddy.live.srv0 /\ caddy'.live.policies = caddy.live.policies
        /\ Served(caddy'.live.https.routes) = Served(caddy.live.https.routes)
    BY <1>5, EditOfCaddyFacts, EditFacts DEF Basics, CaddyOK
  <2> QED BY <2>1, ServesFacts DEF Unissued
<1> QED BY <1>1, <1>2, <1>3, <1>4, <1>5, LiveChanges

\* No request of a command makes Caddy serve a hostname whose issuer is not installed: "Install
\* the issuer before exposing a hostname" (src/src/caddy-adapter.js), whatever fails, dies or
\* is edited meanwhile, except in a command that a restart of Caddy cut.
THEOREM IssuersComeFirst == Spec => IssuerFirst
<1>1. Basics /\ ServeOK /\ [Next]_vars =>
        [op # NoOp /\ ~op.torn /\ ~op'.torn /\ ~op.moving
           => Unissued(caddy'.live) \subseteq Unissued(caddy.live)]_vars
  BY NextIssuesFirst
<1> QED BY <1>1, AlwaysBasics, AlwaysServing, PTL DEF Spec, IssuerFirst


-----------------------------------------------------------------------------
(* Guards before the tailnet *)

\* Once the route of srv_http has been read as well.
HasHttp == CallAt(1) = "check" \/ (CallAt(1) = "http" /\ CallAt(2) = "check")

Private(h) == ~inventory[h].tailnet

\* Seen healthy, and nothing has disturbed it since.
Trusted == {v \in op.verified \ op.stale : Private(v)}

CaddyGuarded(v) ==
  /\ v \notin Old
  /\ EffectiveDenial(caddy.live.https.routes, v) /\ EffectiveDenial(caddy.live.http.routes, v)
  /\ EffectiveDenial(draft.https, v) /\ EffectiveDenial(draft.http, v)

CaddyGuards ==
  /\ \A v \in Trusted : CaddyGuarded(v)
  /\ (Publishes \/ HasRoute) /\ Private(Hostname) => EffectiveDenial(draft.https, Hostname)
  /\ HasHttp /\ Private(Hostname) => EffectiveDenial(draft.http, Hostname)

Guarded(fragment) == fragment # Absent => fragment.guarded

TraefikGuards ==
  /\ \A v \in op.verified : Private(v) => Guarded(traefik.fragments[v]) /\ Guarded(traefik.routers[v])
  /\ CallAt(1) = "check" /\ Private(Hostname) => Guarded(traefik.fragments[Hostname])

\* Every exposure has been verified, or is still to be.
Awaited == \A h \in Published : h \in op.verified \/ \E i \in DOMAIN op.todo : op.todo[i] = <<"check", h>>

GuardOK ==
  op.do = "sync" =>
    /\ Awaited
    /\ proxy = "caddy" => CaddyGuards
    /\ proxy = "traefik" => TraefikGuards

\* A denial that nothing shadows is what the gateway of the tailnet gets.
LEMMA DenialRefuses ==
  ASSUME NEW K, NEW s \in Seq(Route(K)), NEW h \in Host, EffectiveDenial(s, h)
  PROVE  Refuses(s, h)
<1> DEFINE Takes(r) == /\ r.host \in {h, Wildcard, Hostless}
                       /\ r.kind = "deny" => TRUE
                       /\ r.guarded => ~TRUE
           I == {j \in 1..Len(s) : Takes(s[j])}
<1>1. PICK i \in DOMAIN s : s[i] = Denial(h) /\ \A j \in 1..i - 1 : s[j].host \notin {h, Wildcard, Hostless}
  BY DEF EffectiveDenial
<1>2. Taker(s, h, TRUE) = IF I # {} THEN Min(I) ELSE 0
  BY DEF Taker, SelectInSeq
<1>3. DOMAIN s = 1..Len(s) /\ Len(s) \in Nat
  OBVIOUS
<1>4. s[i].host = h /\ s[i].kind = "deny" /\ s[i].guarded = FALSE
  BY <1>1 DEF Denial
<1>5. i \in I
  BY <1>3, <1>4
<1>6. \A j \in I : j >= i
  <2>1. SUFFICES ASSUME NEW j \in I, ~(j >= i) PROVE FALSE
    OBVIOUS
  <2>2. j \in 1..Len(s) /\ s[j].host \in {h, Wildcard, Hostless}
    BY <2>1
  <2>3. j \in 1..i - 1
    BY <1>3, <2>1, <2>2
  <2> QED BY <1>1, <2>2, <2>3
<1>7. I \in SUBSET Nat
  BY <1>3
<1> HIDE DEF I
<1>8. Min(I) \in I /\ Min(I) <= i
  BY <1>5, <1>7, MinIsLeast
<1>9. Min(I) = i
  <2>1. PICK m \in I : m = Min(I)
    BY <1>8
  <2>2. m \in Nat /\ i \in Nat /\ m >= i
    BY <1>3, <1>6, <1>7
  <2> QED BY <1>8, <2>1, <2>2
<1>10. Taker(s, h, TRUE) = i
  BY <1>2, <1>5, <1>9
<1> QED BY <1>4, <1>10 DEF Refuses

\* A hostname whose denials are in effect, and that srv0 does not serve, is denied.
LEMMA GuardDenies ==
  ASSUME NEW c, ConfigOK(c), NEW h \in Host, h \notin Served(c.srv0),
         EffectiveDenial(c.https.routes, h), EffectiveDenial(c.http.routes, h)
  PROVE  CaddyDenies(c, h)
<1>1. c.https.routes \in Seq(HttpsRoute) /\ c.http.routes \in Seq(HttpRoute)
  BY ConfigFacts
<1>2. Refuses(c.https.routes, h)
  BY <1>1, DenialRefuses DEF HttpsRoute
<1>3. Refuses(c.http.routes, h)
  BY <1>1, DenialRefuses DEF HttpRoute
<1>4. h \notin {r.host : r \in ToSet(c.srv0)}
  BY ServesFacts
<1> QED BY <1>2, <1>3, <1>4 DEF CaddyDenies

\* A route that srv_https serves is not one of srv0 as well.
LEMMA ServedOnce ==
  ASSUME NEW c, ConfigOK(c), NEW h \in Host, NEW r, Serving(h, r) \in ToSet(c.https.routes)
  PROVE  h \notin Served(c.srv0)
<1> DEFINE s == c.srv0
           t == c.https.routes
           w == s \o t
<1>1. s \in Seq(Route({"serve", "operator"})) /\ t \in Seq(HttpsRoute)
  BY ConfigFacts
<1>2. PICK j \in DOMAIN t : t[j] = Serving(h, r)
  BY DEF ToSet
<1>3. SUFFICES ASSUME NEW i \in DOMAIN s, s[i].kind = "serve", s[i].host = h PROVE FALSE
  BY DEF Served
<1>4. /\ i \in 1..Len(s) /\ j \in 1..Len(t) /\ Len(s) \in Nat /\ Len(t) \in Nat
  BY <1>1
<1>5. /\ i \in DOMAIN w /\ w[i] = s[i]
      /\ Len(s) + j \in DOMAIN w /\ w[Len(s) + j] = t[j]
  <2> HIDE DEF s, t
  <2> QED BY <1>1, <1>4
<1>6. t[j].kind = "serve" /\ t[j].host = h
  BY <1>2 DEF Serving
<1> HIDE DEF w
<1>7. SameId(w[i], w[Len(s) + j])
  BY <1>3, <1>5, <1>6 DEF SameId
<1>8. \A a, b \in DOMAIN w : SameId(w[a], w[b]) => a = b
  BY DEF ConfigOK, UniqueIds, w
<1>9. i = Len(s) + j
  BY <1>5, <1>7, <1>8
<1> QED BY <1>4, <1>9

\* A command that is not about to write or check an exposure has no draft to answer for.
LEMMA RestingGuards ==
  ASSUME proxy' = proxy, ~Publishes', ~HasRoute', ~HasHttp',
         op'.do = "sync" => Awaited',
         op'.do = "sync" /\ proxy = "caddy" => \A v \in Trusted' : CaddyGuarded(v)',
         op'.do = "sync" /\ proxy = "traefik" => TraefikGuards'
  PROVE  GuardOK'
BY DEF GuardOK, CaddyGuards

\* The calls that remain still verify what is to be.
LEMMA AwaitedAfter ==
  ASSUME Awaited, inventory' = inventory, op.verified \subseteq op'.verified,
         \A i \in DOMAIN op.todo : \/ op.todo[i][1] # "check"
                                   \/ op.todo[i][2] \in op'.verified
                                   \/ \E j \in DOMAIN op'.todo : op'.todo[j] = op.todo[i]
  PROVE  Awaited'
<1>1. SUFFICES ASSUME NEW h \in Published, h \notin op'.verified
               PROVE  \E i \in DOMAIN op'.todo : op'.todo[i] = <<"check", h>>
  BY DEF Awaited, Published
<1>2. PICK i \in DOMAIN op.todo : op.todo[i] = <<"check", h>>
  BY <1>1 DEF Awaited
<1>3. op.todo[i][1] = "check" /\ op.todo[i][2] = h
  BY <1>2
<1> QED BY <1>1, <1>2, <1>3

LEMMA AwaitedShifted ==
  ASSUME Awaited, inventory' = inventory, op.verified \subseteq op'.verified,
         Shifts(op.todo, op'.todo), op.todo \in Seq(Task),
         op.todo[1][1] = "check" => op.todo[1][2] \in op'.verified
  PROVE  Awaited'
<1>1. SUFFICES ASSUME NEW i \in DOMAIN op.todo
               PROVE  \/ op.todo[i][1] # "check"
                      \/ op.todo[i][2] \in op'.verified
                      \/ \E j \in DOMAIN op'.todo : op'.todo[j] = op.todo[i]
  BY AwaitedAfter
<1>2. CASE i = 1
  BY <1>2
<1>3. CASE i # 1
  <2>1. i > 1
    BY <1>3
  <2> QED BY <2>1 DEF Shifts
<1> QED BY <1>2, <1>3

\* The exposures that a command republishes are those of the inventory.
LEMMA RepublishedWanted == ASSUME op.do = "sync" PROVE \A h : Wanted(h) = inventory[h]
BY DEF Wanted

\* Nothing is known of commands that have not begun.
LEMMA CommandGuards == ASSUME Basics, Command PROVE GuardOK'
<1>1. /\ op = NoOp /\ Beginning(op') /\ UNCHANGED <<proxies, proxy, inventory>>
  BY CommandFacts
<1>2. /\ op'.verified = {} /\ op'.stale = {} /\ op'.todo # <<>> /\ 1 \in DOMAIN op'.todo
      /\ op'.do = "sync" => \A h \in Published : \E i \in DOMAIN op'.todo : op'.todo[i] = <<"check", h>>
      /\ op'.todo[1][1] \in {"read-servers", "root", "fragment", "unlink"} \cup Finals
  BY <1>1 DEF Beginning
<1>3. CallAt(1)' \notin {"https", "read-http", "check", "http"}
  BY <1>2 DEF CallAt, Finals
<1>4. ~Publishes' /\ ~HasRoute' /\ ~HasHttp'
  BY <1>3 DEF Publishes, HasRoute, HasHttp
<1>5. Trusted' = {}
  BY <1>2 DEF Trusted
<1>6. op'.do = "sync" => Awaited'
  BY <1>1, <1>2 DEF Awaited, Published
<1>7. TraefikGuards'
  BY <1>2, <1>3 DEF TraefikGuards
<1> QED BY <1>1, <1>4, <1>5, <1>6, <1>7, RestingGuards

\* What is known depends on routes, drafts, fragments and the command alone.
LEMMA SameGuards ==
  ASSUME GuardOK, UNCHANGED <<draft, traefik, proxy, inventory, op>>, caddy'.live = caddy.live
  PROVE  GuardOK'
<1>1. /\ Awaited' = Awaited /\ TraefikGuards' = TraefikGuards
      /\ Publishes' = Publishes /\ HasRoute' = HasRoute /\ HasHttp' = HasHttp /\ Trusted' = Trusted
      /\ Hostname' = Hostname
  BY DEF Awaited, Published, TraefikGuards, Private, CallAt, Hostname, Publishes, HasRoute, HasHttp, Trusted
<1>2. \A v : CaddyGuarded(v)' <=> CaddyGuarded(v)
  BY DEF CaddyGuarded, Old
<1> QED BY <1>1, <1>2 DEF GuardOK, CaddyGuards, Private

\* After an edit or a restart, only the drafts are still vouched for.
LEMMA DisturbedGuards ==
  ASSUME GuardOK, UNCHANGED <<draft, traefik, proxy, inventory>>, proxy = "caddy",
         op'.todo = op.todo, op'.do = op.do, op'.verified = op.verified,
         op'.stale = op.stale \cup op.verified
  PROVE  GuardOK'
<1>1. /\ Awaited' = Awaited
      /\ Publishes' = Publishes /\ HasRoute' = HasRoute /\ HasHttp' = HasHttp
      /\ Hostname' = Hostname
  BY DEF Awaited, Published, CallAt, Hostname, Publishes, HasRoute, HasHttp
<1>2. Trusted' = {}
  BY DEF Trusted
<1> QED BY <1>1, <1>2 DEF GuardOK, CaddyGuards, Private

\* A command that has ended vouches for nothing.
LEMMA StoppedGuards == ASSUME op' = NoOp PROVE GuardOK'
BY OpType DEF GuardOK

-----------------------------------------------------------------------------
(* Requests that read *)

\* What reads neither change nor have to change.
LEMMA ReadGuardViews ==
  ASSUME Basics, GuardOK, ReadCaddy, op'.do = "sync"
  PROVE  /\ op.do = "sync" /\ proxy = "caddy" /\ proxy' = proxy /\ CaddyGuards /\ Awaited'
         /\ Trusted' = Trusted /\ Trusted \subseteq Host /\ Old' = Old
         /\ caddy' = caddy /\ inventory' = inventory /\ redirecting' = redirecting
         /\ op.todo # <<>> /\ op.todo[1][1] \in ReadCalls /\ CallAt(1) = op.todo[1][1]
         /\ CallAt(2) = op.todo[2][1] /\ Follows(CallAt(1), CallAt(2)) /\ Hostname \in Host
         /\ \A h : Wanted(h) = inventory[h]
<1>1. OpOK
  BY DEF Basics
<1>2. SameButTodo(op') /\ op'.todo # <<>>
  BY ReadGoesOn
<1>3. op.do = "sync"
  BY <1>2 DEF SameButTodo
<1>4. /\ op.todo # <<>> /\ op.todo[1][1] \in ReadCalls /\ CallAt(1) = op.todo[1][1]
      /\ CallAt(2) = op.todo[2][1] /\ Len(op.todo) > 1 /\ Old' = Old
  BY ReadViews
<1>5. Linked(op.todo[1], op.todo[2]) /\ op.todo \in Seq(Task)
  BY <1>1, <1>4, NextCall
<1>6. proxy = "caddy" /\ Hostname \in Host
  BY ReadDecides
<1>7. UNCHANGED <<caddy, proxy, inventory, redirecting>>
  BY DEF ReadCaddy, project
<1>8. Trusted' = Trusted /\ Trusted \subseteq Host
  BY <1>1, <1>2, <1>7, OpFields DEF Trusted, Private, SameButTodo
<1>9. CaddyGuards /\ Awaited
  BY <1>3, <1>6 DEF GuardOK
<1>10. \A i \in DOMAIN op.todo : i > 1 => \E j \in DOMAIN op'.todo : op'.todo[j] = op.todo[i]
  <2>1. PICK calls : Admissible(calls) /\ op' = After(calls)
    BY <1>4, ReadDecides DEF ReadCalls
  <2>2. CASE calls = <<>>
    BY <1>1, <1>4, <2>1, <2>2, AfterNone
  <2>3. CASE calls # <<>>
    BY <1>1, <1>4, <2>1, <2>3, AfterSome
  <2> QED BY <2>2, <2>3
<1>11. Awaited'
  <2>1. SUFFICES ASSUME NEW i \in DOMAIN op.todo, op.todo[i][1] = "check"
                 PROVE  \E j \in DOMAIN op'.todo : op'.todo[j] = op.todo[i]
    BY <1>2, <1>7, <1>9, AwaitedAfter DEF SameButTodo
  <2>2. i # 1
    BY <1>4, <2>1 DEF ReadCalls
  <2>3. i > 1
    BY <1>5, <2>2
  <2> QED BY <1>10, <2>3
<1> QED BY <1>3, <1>4, <1>5, <1>6, <1>7, <1>8, <1>9, <1>11, RepublishedWanted DEF Linked

LEMMA ReadServersGuards ==
  ASSUME Basics, GuardOK, ReadCaddy, op'.do = "sync", op.todo[1][1] = "read-servers"
  PROVE  GuardOK'
<1>1. CaddyOK /\ DraftOK /\ OpOK
  BY DEF Basics
<1>2. /\ proxy = "caddy" /\ proxy' = proxy /\ CaddyGuards /\ Awaited' /\ Trusted' = Trusted /\ Old' = Old
      /\ caddy' = caddy /\ op.todo # <<>> /\ CallAt(1) = "read-servers"
      /\ CallAt(2) = op.todo[2][1] /\ Follows(CallAt(1), CallAt(2))
  BY ReadGuardViews
<1>3. ReadServers /\ op' = After(EnsureCalls) /\ Admissible(EnsureCalls) /\ Len(op.todo) > 1
  BY ReadDecides
<1>4. \A v : /\ EffectiveDenial(caddy.live.https.routes, v) => EffectiveDenial(draft'.https, v)
             /\ EffectiveDenial(caddy.live.http.routes, v) => EffectiveDenial(draft'.http, v)
  BY <1>1, <1>3, ReadServersFacts
<1>5. ASSUME NEW v \in Trusted PROVE CaddyGuarded(v)'
  BY <1>2, <1>4 DEF CaddyGuards, CaddyGuarded
<1>6. CallAt(1)' \notin {"https", "read-http", "check", "http"}
  <2>1. CASE EnsureCalls = <<>>
    <3>1. op'.todo = After(<<>>).todo
      BY <1>3, <2>1
    <3>2. CallAt(1)' = CallAt(2)
      BY <1>1, <1>2, <1>3, <3>1, GoingOn
    <3> QED BY <1>2, <3>2 DEF Follows
  <2>2. CASE EnsureCalls # <<>>
    <3>1. CallAt(1)' = EnsureCalls[1]
      BY <1>1, <1>2, <1>3, <2>2, Opening
    <3>2. EnsureCalls[1] \in {"listen", "drop-srv0", "create-https", "create-http"}
      <4>1. \/ EnsureCalls \in {<<"create-http">>, <<"listen">>, <<"listen", "create-http">>,
                                <<"create-https">>, <<"create-https", "create-http">>}
            \/ \E place \in {"http", "create-http"} :
                 \/ EnsureCalls = <<"drop-srv0", "https", place>>
                 \/ EnsureCalls \in {<<"listen", "drop-srv0", "https", place>>, <<"drop-srv0", "create-https", place>>}
        BY <1>1, <2>2, EnsureShape
      <4> QED BY <4>1
    <3> QED BY <3>1, <3>2
  <2> QED BY <2>1, <2>2
<1>7. ~Publishes' /\ ~HasRoute' /\ ~HasHttp'
  BY <1>6 DEF Publishes, HasRoute, HasHttp
<1>8. \A v \in Trusted' : CaddyGuarded(v)'
  BY <1>2, <1>5
<1> QED BY <1>2, <1>7, <1>8, RestingGuards

LEMMA ReadPoliciesGuards ==
  ASSUME Basics, GuardOK, ReadCaddy, op'.do = "sync", op.todo[1][1] = "read-policies"
  PROVE  GuardOK'
<1>1. CaddyOK /\ DraftOK /\ OpOK
  BY DEF Basics
<1>2. /\ proxy = "caddy" /\ proxy' = proxy /\ CaddyGuards /\ Awaited' /\ Trusted' = Trusted /\ Old' = Old
      /\ caddy' = caddy /\ op.todo # <<>>
  BY ReadGuardViews
<1>3. /\ ReadPolicies(Hostname) /\ op' = After(<<"policies">>) /\ Admissible(<<"policies">>)
  BY ReadDecides
<1>4. draft'.https = draft.https /\ draft'.http = draft.http
  <2> DEFINE R == Seq(HttpsRoute)
             T == Seq(HttpRoute)
  <2>1. draft \in [https : R, http : T, policies : SUBSET Host]
    BY <1>1 DEF DraftOK
  <2> HIDE DEF R, T
  <2> QED BY <1>3, <2>1 DEF ReadPolicies
<1>5. ASSUME NEW v \in Trusted PROVE CaddyGuarded(v)'
  BY <1>2, <1>4 DEF CaddyGuards, CaddyGuarded
<1>6. CallAt(1)' = "policies"
  <2>1. "policies" \in Call
    BY DEF Call, Writes
  <2> QED BY <1>1, <1>2, <1>3, <2>1, OpeningOne
<1>7. ~Publishes' /\ ~HasRoute' /\ ~HasHttp'
  BY <1>6 DEF Publishes, HasRoute, HasHttp
<1>8. \A v \in Trusted' : CaddyGuarded(v)'
  BY <1>2, <1>5
<1> QED BY <1>2, <1>7, <1>8, RestingGuards

LEMMA ReadHttpsGuards ==
  ASSUME Basics, GuardOK, ReadCaddy, op'.do = "sync", op.todo[1][1] = "read-https"
  PROVE  GuardOK'
<1>1. CaddyOK /\ DraftOK /\ OpOK /\ RestOK
  BY DEF Basics
<1>2. /\ proxy = "caddy" /\ proxy' = proxy /\ CaddyGuards /\ Awaited' /\ Trusted' = Trusted /\ Old' = Old
      /\ Trusted \subseteq Host /\ inventory' = inventory
      /\ caddy' = caddy /\ op.todo # <<>> /\ Hostname \in Host /\ Wanted(Hostname) = inventory[Hostname]
  BY ReadGuardViews
<1>3. /\ ReadHttps(Hostname, Wanted(Hostname)) /\ op' = After(<<"https">>) /\ Admissible(<<"https">>)
      /\ Wanted(Hostname) \in Request
  BY <1>1, <1>2, ReadDecides, WantedFacts DEF Publication
<1>4. /\ \A v \in Host : v # Hostname /\ EffectiveDenial(caddy.live.https.routes, v) => EffectiveDenial(draft'.https, v)
      /\ Private(Hostname) => EffectiveDenial(draft'.https, Hostname)
      /\ draft'.http = draft.http
  BY <1>1, <1>2, <1>3, ReadHttpsFacts DEF Private
<1>5. ASSUME NEW v \in Trusted PROVE CaddyGuarded(v)'
  <2>1. EffectiveDenial(draft'.https, v)
    <3>1. Private(v) /\ EffectiveDenial(caddy.live.https.routes, v)
      BY <1>2 DEF CaddyGuards, CaddyGuarded, Trusted
    <3> QED BY <1>2, <1>4, <3>1
  <2> QED BY <1>2, <1>4, <2>1 DEF CaddyGuards, CaddyGuarded
<1>6. CallAt(1)' = "https" /\ Hostname' = Hostname
  <2>1. "https" \in Call
    BY DEF Call, Writes
  <2> QED BY <1>1, <1>2, <1>3, <2>1, OpeningOne
<1>7. ~HasHttp'
  BY <1>6 DEF HasHttp
<1>8. CaddyGuards'
  BY <1>2, <1>4, <1>5, <1>6, <1>7 DEF CaddyGuards, Private
<1> QED BY <1>2, <1>8 DEF GuardOK

LEMMA ReadHttpGuards ==
  ASSUME Basics, GuardOK, ReadCaddy, op'.do = "sync", op.todo[1][1] = "read-http"
  PROVE  GuardOK'
<1>1. CaddyOK /\ DraftOK /\ OpOK /\ RestOK
  BY DEF Basics
<1>2. /\ proxy = "caddy" /\ proxy' = proxy /\ CaddyGuards /\ Awaited' /\ Trusted' = Trusted /\ Old' = Old
      /\ Trusted \subseteq Host /\ inventory' = inventory /\ CallAt(1) = "read-http"
      /\ caddy' = caddy /\ op.todo # <<>> /\ Hostname \in Host /\ Wanted(Hostname) = inventory[Hostname]
      /\ op'.do = op.do
  BY ReadGuardViews
<1>3. /\ ReadHttp(Hostname, Wanted(Hostname), redirecting) /\ Wanted(Hostname) \in Request
      /\ \/ op' = After(<<"http">>) /\ Admissible(<<"http">>)
         \/ op' = After(<<>>)
      /\ Len(op.todo) > 1
  BY <1>1, <1>2, ReadDecides, WantedFacts DEF Publication
<1>4. /\ \A v \in Host : v # Hostname /\ EffectiveDenial(caddy.live.http.routes, v) => EffectiveDenial(draft'.http, v)
      /\ Private(Hostname) => EffectiveDenial(draft'.http, Hostname)
      /\ draft'.https = draft.https
  BY <1>1, <1>2, <1>3, ReadHttpFacts DEF Private, RestOK
<1>5. ASSUME NEW v \in Trusted PROVE CaddyGuarded(v)'
  <2>1. EffectiveDenial(draft'.http, v)
    <3>1. Private(v) /\ EffectiveDenial(caddy.live.http.routes, v)
      BY <1>2 DEF CaddyGuards, CaddyGuarded, Trusted
    <3> QED BY <1>2, <1>4, <3>1
  <2> QED BY <1>2, <1>4, <2>1 DEF CaddyGuards, CaddyGuarded
<1>6. Hostname' = Hostname
  <2>1. "http" \in Call
    BY DEF Call, Writes
  <2>2. CASE op' = After(<<"http">>) /\ Admissible(<<"http">>)
    BY <1>1, <1>2, <2>1, <2>2, OpeningOne
  <2>3. CASE op' = After(<<>>)
    BY <1>1, <1>2, <1>3, <2>3, OpeningNone
  <2> QED BY <1>3, <2>2, <2>3
<1>7. Private(Hostname) => EffectiveDenial(draft'.https, Hostname)
  BY <1>2, <1>4 DEF CaddyGuards, HasRoute
<1>8. CaddyGuards'
  BY <1>2, <1>4, <1>5, <1>6, <1>7 DEF CaddyGuards, Private
<1> QED BY <1>2, <1>8 DEF GuardOK

LEMMA ReadGuards == ASSUME Basics, GuardOK, ReadCaddy PROVE GuardOK'
<1>1. op'.do # "sync" => GuardOK'
  BY DEF GuardOK
<1>2. op.todo[1][1] \in ReadCalls /\ op'.do = op.do
  BY ReadDecides, ReadGoesOn DEF SameButTodo
<1>3. op.todo[1][1] \in {"read-removal", "read-http-removal"} => op.do = "remove"
  BY ReadDecides
<1> QED BY <1>1, <1>2, <1>3, ReadServersGuards, ReadPoliciesGuards, ReadHttpsGuards, ReadHttpGuards
        DEF ReadCalls
-----------------------------------------------------------------------------
(* Requests that write, and the check *)

\* A write puts drafts in place, which deny what has to be denied.
LEMMA WriteGuards == ASSUME Basics, ServeOK, GuardOK, WriteCaddy PROVE GuardOK'
<1>1. /\ op.todo # <<>> /\ op.todo[1][1] \in Writes /\ Accepted(op.todo[1][1]) /\ Write(op.todo[1][1])
      /\ proxy = "caddy" /\ Shifts(op.todo, op'.todo) /\ Hostname \in Host
      /\ op'.do = op.do /\ op'.verified = op.verified /\ op'.stale = op.stale
  BY WriteDecides
<1>2. /\ CallAt(1) = op.todo[1][1] /\ CallAt(1)' = CallAt(2) /\ CallAt(2)' = CallAt(3)
      /\ Hostname' = Hostname /\ Len(op.todo) > 1
  BY <1>1, WriteViews DEF ServeOK
<1>3. UNCHANGED <<draft, proxy, inventory>> /\ OpOK /\ CaddyOK /\ DraftOK
  BY DEF WriteCaddy, project, Basics
<1>4. SUFFICES ASSUME op.do = "sync" PROVE GuardOK'
  BY <1>1 DEF GuardOK
<1>5. CaddyGuards /\ Awaited
  BY <1>1, <1>4 DEF GuardOK
<1>6. Awaited'
  <2>1. op.todo[1][1] # "check"
    BY <1>1 DEF Writes
  <2>2. op.todo \in Seq(Task)
    BY <1>1, <1>3, NextCall
  <2> QED BY <1>1, <1>3, <1>5, <2>1, <2>2, AwaitedShifted
<1>7. Trusted' = Trusted
  BY <1>1, <1>3 DEF Trusted, Private
<1>8. ASSUME NEW v \in Trusted PROVE CaddyGuarded(v)'
  <2> DEFINE call == op.todo[1][1]
             c == caddy.live
             w == Written(call)
  <2>1. /\ call # "drop-srv0" => w.srv0 = c.srv0
        /\ call = "drop-srv0" => w.srv0 = <<>>
        /\ call \in {"https", "create-https"} => w.https.routes = draft.https
        /\ call \notin {"https", "create-https"} => w.https.routes = c.https.routes
        /\ call \in {"http", "create-http"} => w.http.routes = draft.http
        /\ call \notin {"http", "create-http"} => w.http.routes = c.http.routes
    BY <1>1, <1>3, WrittenFields
  <2>2. caddy'.live = w
    BY <1>1, <1>3, WriteKeepsCaddy
  <2>3. CaddyGuarded(v)
    BY <1>5, <1>8 DEF CaddyGuards
  <2> HIDE DEF w, call
  <2>4. v \notin Old'
    <3>1. Old' = Served(w.srv0)
      BY <2>2 DEF Old
    <3>2. Served(<<>>) = {}
      BY DEF Served
    <3> QED BY <2>1, <2>3, <3>1, <3>2 DEF CaddyGuarded, Old
  <2>5. EffectiveDenial(w.https.routes, v) /\ EffectiveDenial(w.http.routes, v)
    BY <2>1, <2>3 DEF CaddyGuarded
  <2> QED BY <1>3, <2>2, <2>3, <2>4, <2>5 DEF CaddyGuarded
\* What is written next was planned when its draft was made.
<1>9. Follows(CallAt(1), CallAt(2)) /\ CallAt(1) \in Writes
  BY <1>1, <1>2, <1>3, NextCall, CallsFacts DEF Linked
<1>10. /\ CallAt(2) = "https" => CallAt(3) \in {"http", "create-http"}
       /\ CallAt(2) = "http" => CallAt(3) \in {"read-policies", "read-removal"}
  <2>1. 2 \in DOMAIN op.todo /\ CallAt(2) = op.todo[2][1]
    BY <1>1, <1>2, <1>3, NextCall, CallsFacts
  <2> QED BY <1>1, <2>1 DEF ServeOK, CaddyServing, Arranged
<1>11. HasHttp' => HasHttp
  <2>1. HasHttp' => CallAt(2) = "check"
    BY <1>2, <1>10 DEF HasHttp
  <2>2. CallAt(2) = "check" => CallAt(1) = "http"
    BY <1>9 DEF Follows, Writes
  <2> QED BY <2>1, <2>2 DEF HasHttp
<1>12. Publishes' \/ HasRoute' => Publishes \/ HasRoute
  <2>1. Publishes' \/ HasRoute' => CallAt(2) \in {"check", "read-http"}
    BY <1>2, <1>10 DEF Publishes, HasRoute
  <2>2. CallAt(2) = "check" => CallAt(1) = "http"
    BY <1>9 DEF Follows, Writes
  <2>3. CallAt(2) = "read-http" => CallAt(1) = "https"
    BY <1>9 DEF Follows, Writes
  <2> QED BY <2>1, <2>2, <2>3 DEF Publishes, HasRoute
<1>13. CaddyGuards'
  BY <1>2, <1>3, <1>5, <1>7, <1>8, <1>11, <1>12 DEF CaddyGuards, Private
<1> QED BY <1>1, <1>3, <1>6, <1>13 DEF GuardOK

\* The check vouches for one more exposure.
LEMMA CheckGuards == ASSUME Basics, GuardOK, Check PROVE GuardOK'
<1>1. /\ op.todo # <<>> /\ op.todo[1] = <<"check", Hostname>> /\ Hostname \in Host
      /\ MustBeHealthy(Hostname) => Healthy(Hostname, inventory[Hostname])
      /\ Len(op.todo) > 1 /\ op'.todo # <<>> /\ Shifts(op.todo, op'.todo)
      /\ op'.do = op.do /\ op'.stale = op.stale
      /\ op'.verified = (IF op.do = "sync" THEN op.verified \cup {Hostname} ELSE op.verified)
  BY CheckDecides
<1>2. UNCHANGED <<caddy, draft, traefik, proxy, inventory, redirecting>> /\ OpOK /\ CaddyOK
  BY DEF Check, proxies, project, Basics
<1>3. SUFFICES ASSUME op.do = "sync" PROVE GuardOK'
  BY <1>1 DEF GuardOK
<1>4. Awaited /\ (proxy = "caddy" => CaddyGuards) /\ (proxy = "traefik" => TraefikGuards)
  BY <1>3 DEF GuardOK
<1>5. op.todo[1][1] = "check" /\ op.todo[1][2] = Hostname /\ CallAt(1) = "check"
  BY <1>1, <1>2, CallsFacts
<1>6. Awaited'
  <2>1. op.todo \in Seq(Task)
    BY <1>1, <1>2, NextCall
  <2> QED BY <1>1, <1>2, <1>3, <1>4, <1>5, <2>1, AwaitedShifted
<1>7. CallAt(1)' \notin {"https", "read-http", "check", "http"}
  <2>1. CallAt(1)' = CallAt(2)
    <3>1. 1 \in DOMAIN op'.todo /\ op'.todo[1] = op.todo[2]
      BY <1>1 DEF Shifts
    <3>2. CallAt(2) = op.todo[2][1]
      BY <1>1, <1>2, CallsFacts
    <3> QED BY <3>1, <3>2 DEF CallAt
  <2>2. Linked(op.todo[1], op.todo[2]) /\ CallAt(2) = op.todo[2][1]
    BY <1>1, <1>2, NextCall, CallsFacts
  <2>3. CallAt(2) \in {"read-servers", "root", "fragment"} \cup Finals
    BY <1>5, <2>2 DEF Linked, Follows
  <2> QED BY <2>1, <2>3 DEF Finals
<1>8. ~Publishes' /\ ~HasRoute' /\ ~HasHttp'
  BY <1>7 DEF Publishes, HasRoute, HasHttp
<1>9. Private(Hostname) => Healthy(Hostname, inventory[Hostname])
  BY <1>1, <1>3 DEF MustBeHealthy, Private
<1>10. ASSUME proxy = "caddy" PROVE \A v \in Trusted' : CaddyGuarded(v)'
  <2>1. Private(Hostname) => CaddyGuarded(Hostname)
    <3>1. SUFFICES ASSUME Private(Hostname) PROVE CaddyGuarded(Hostname)
      OBVIOUS
    <3>2. CaddyHealthy(Hostname, inventory[Hostname]) /\ ~inventory[Hostname].tailnet
      BY <1>9, <1>10, <3>1 DEF Healthy, Private
    <3>3. /\ Serving(Hostname, inventory[Hostname]) \in ToSet(caddy.live.https.routes)
          /\ EffectiveDenial(caddy.live.https.routes, Hostname)
          /\ EffectiveDenial(caddy.live.http.routes, Hostname)
      BY <3>2 DEF CaddyHealthy
    <3>4. Hostname \notin Old
      BY <1>1, <1>2, <3>3, ServedOnce DEF Old, CaddyOK
    <3>5. HasRoute /\ HasHttp
      BY <1>5 DEF HasRoute, HasHttp
    <3> QED BY <1>4, <1>10, <3>1, <3>3, <3>4, <3>5 DEF CaddyGuards, CaddyGuarded
  <2>2. \A v \in Trusted' : Private(v) /\ (v \in Trusted \/ v = Hostname)
    BY <1>1, <1>2, <1>3 DEF Trusted, Private
  <2>3. \A v : CaddyGuarded(v)' <=> CaddyGuarded(v)
    BY <1>2 DEF CaddyGuarded, Old
  <2> QED BY <1>4, <1>10, <2>1, <2>2, <2>3 DEF CaddyGuards
<1>11. ASSUME proxy = "traefik" PROVE TraefikGuards'
  <2>1. Private(Hostname) => Guarded(traefik.fragments[Hostname]) /\ Guarded(traefik.routers[Hostname])
    <3>1. Private(Hostname) => TraefikHealthy(Hostname, inventory[Hostname], redirecting)
      BY <1>9, <1>11 DEF Healthy
    <3>2. Private(Hostname) => traefik.routers[Hostname].guarded
      BY <3>1 DEF TraefikHealthy, Private
    <3> QED BY <1>4, <1>5, <1>11, <3>2 DEF TraefikGuards, Guarded
  <2>2. \A v \in op'.verified : v \in op.verified \/ v = Hostname
    BY <1>1, <1>3
  <2>3. \A v \in op'.verified : Private(v) => Guarded(traefik.fragments[v]) /\ Guarded(traefik.routers[v])
    BY <1>4, <1>11, <2>1, <2>2 DEF TraefikGuards
  <2> QED BY <1>2, <1>7, <2>3 DEF TraefikGuards, Private
<1> QED BY <1>2, <1>6, <1>8, <1>10, <1>11, RestingGuards

\* Saving, dumping and advertising change no route.
LEMMA FinalGuards == ASSUME Basics, GuardOK, Save \/ Dump \/ Advertise PROVE GuardOK'
<1>1. /\ op.todo # <<>> /\ op.todo[1][1] \in Finals
      /\ Save => op.do \in {"publish", "remove"}
      /\ \/ op' = NoOp
         \/ SameButTodo(op') /\ op'.todo # <<>> /\ Shifts(op.todo, op'.todo) /\ Len(op.todo) > 1
  BY FinalDecides
<1>2. CASE op' = NoOp
  BY <1>2, StoppedGuards
<1>3. CASE SameButTodo(op') /\ op'.todo # <<>> /\ Shifts(op.todo, op'.todo) /\ Len(op.todo) > 1
  <2>1. SUFFICES ASSUME op.do = "sync" PROVE GuardOK'
    BY <1>3 DEF GuardOK, SameButTodo
  <2>2. UNCHANGED <<draft, traefik, proxy, inventory>> /\ caddy'.live = caddy.live
    <3>1. CASE Dump
      BY <3>1, DumpFacts DEF Dump, project, Basics
    <3>2. CASE Advertise
      BY <3>2 DEF Advertise, proxies, project
    <3> QED BY <1>1, <2>1, <3>1, <3>2
  <2>3. OpOK
    BY DEF Basics
  <2>4. Awaited /\ (proxy = "caddy" => CaddyGuards) /\ (proxy = "traefik" => TraefikGuards)
    BY <2>1 DEF GuardOK
  <2>5. Awaited'
    <3>1. op.todo \in Seq(Task) /\ op.todo[1][1] # "check"
      BY <1>1, <2>3, NextCall DEF Finals
    <3> QED BY <1>3, <2>2, <2>4, <3>1, AwaitedShifted DEF SameButTodo
  <2>6. CallAt(1)' \in Finals
    <3>1. Linked(op.todo[1], op.todo[2])
      BY <1>1, <1>3, <2>3, NextCall
    <3>2. op.todo[2][1] \in {"dump", "save", "advertise"}
      BY <1>1, <3>1 DEF Linked, Follows, Finals
    <3> QED BY <1>3, <3>2 DEF Shifts, CallAt, Finals
  <2>7. ~Publishes' /\ ~HasRoute' /\ ~HasHttp'
    BY <2>6 DEF Publishes, HasRoute, HasHttp, Finals
  <2>8. \A v \in Trusted' : v \in Trusted
    BY <1>3, <2>2 DEF Trusted, Private, SameButTodo
  <2>9. \A v : CaddyGuarded(v)' <=> CaddyGuarded(v)
    BY <2>2 DEF CaddyGuarded, Old
  <2>10. proxy = "caddy" => \A v \in Trusted' : CaddyGuarded(v)'
    BY <2>4, <2>8, <2>9 DEF CaddyGuards
  <2>11. proxy = "traefik" => TraefikGuards'
    BY <1>3, <2>2, <2>4, <2>6 DEF TraefikGuards, Private, SameButTodo, Finals
  <2> QED BY <2>2, <2>5, <2>7, <2>10, <2>11, RestingGuards
<1> QED BY <1>1, <1>2, <1>3
-----------------------------------------------------------------------------
(* The fragments and routers of Traefik *)

SameRouters == traefik'.fragments = traefik.fragments /\ traefik'.routers \in {traefik.routers, traefik.fragments}

LEMMA RoutersFollow ==
  ASSUME RestOK,
         \/ UNCHANGED traefik \/ InstallRoot \/ InstallRootFails \/ WriteStatic \/ WriteStaticFails
         \/ RestartIfNeeded \/ RestartFails \/ RestartTraefik \/ Reload
         \/ traefik' = Abandoned(traefik)
  PROVE  SameRouters
<1> DEFINE F == [Host -> Fragment \cup {Absent}]
           L == [resolver : BOOLEAN, root : BOOLEAN]
<1>1. traefik \in [stepCa : BOOLEAN, static : {"plain", "managed", "own"},
                   root : {"none", "file", "trusted"}, loaded : L, missed : BOOLEAN,
                   fragments : F, routers : F]
  BY DEF RestOK, TraefikType
<1> HIDE DEF F, L
<1>2. Started(traefik).fragments = traefik.fragments /\ Started(traefik).routers = traefik.fragments
  BY <1>1 DEF Started
<1>3. CASE UNCHANGED traefik \/ InstallRoot \/ InstallRootFails \/ WriteStatic \/ WriteStaticFails
  BY <1>1, <1>3 DEF InstallRoot, InstallRootFails, WriteStatic, WriteStaticFails, SameRouters
<1>4. CASE RestartIfNeeded \/ RestartFails \/ RestartTraefik
  BY <1>1, <1>2, <1>4 DEF RestartIfNeeded, RestartFails, RestartTraefik, SameRouters
<1>5. CASE Reload \/ traefik' = Abandoned(traefik)
  BY <1>1, <1>5 DEF Reload, Abandoned, SameRouters
<1> QED BY <1>3, <1>4, <1>5

LEMMA GuardsFollow ==
  ASSUME SameRouters, UNCHANGED inventory, op.verified = op'.verified, CallAt(1)' # "check",
         TraefikGuards
  PROVE  TraefikGuards'
BY DEF SameRouters, TraefikGuards, Private

\* Trust is given up, and with it no exposure.
LEMMA GivenUpGuards ==
  ASSUME Basics, GuardOK, op.todo # <<>>, op.todo[1][1] \in {"root", "static", "restart"},
         GivesUpTrust, SameRouters, UNCHANGED <<proxy, inventory>>, proxy = "traefik"
  PROVE  GuardOK'
<1>1. OpOK
  BY DEF Basics
<1>2. /\ op' = [op EXCEPT !.todo = op'.todo] /\ op'.todo \in Seq(Task) /\ op'.todo # <<>>
      /\ op'.todo[1] = <<"fragment", Hostname>>
      /\ \A i \in DOMAIN op.todo : \/ op.todo[i][1] \in {"root", "static", "restart"}
                                   \/ \E j \in DOMAIN op'.todo : op'.todo[j] = op.todo[i]
  BY <1>1, GivesUpFacts
<1>3. op'.do = op.do /\ op'.verified = op.verified
  <2> DEFINE w == op'.todo
  <2>1. w \in Seq(Task) /\ op' = [op EXCEPT !.todo = w]
    BY <1>2
  <2> HIDE DEF w
  <2> QED BY <1>1, <2>1, TodoReplaced DEF SameButTodo
<1>4. CallAt(1)' = "fragment"
  <2>1. 1 \in DOMAIN op'.todo
    BY <1>2
  <2>2. op'.todo[1][1] = "fragment"
    BY <1>2
  <2> QED BY <2>1, <2>2 DEF CallAt
<1>5. SUFFICES ASSUME op.do = "sync" PROVE GuardOK'
  BY <1>3 DEF GuardOK
<1>6. Awaited /\ TraefikGuards
  BY <1>5 DEF GuardOK
<1>7. Awaited'
  <2>1. \A i \in DOMAIN op.todo : \/ op.todo[i][1] # "check"
                                  \/ \E j \in DOMAIN op'.todo : op'.todo[j] = op.todo[i]
    BY <1>2
  <2> QED BY <1>3, <1>6, <2>1, AwaitedAfter
<1>8. TraefikGuards'
  BY <1>3, <1>4, <1>6, GuardsFollow
<1> QED BY <1>7, <1>8 DEF GuardOK

LEMMA ConfigureGuards == ASSUME Basics, GuardOK, ConfigureTraefik PROVE GuardOK'
<1>1. /\ op.todo # <<>> /\ op.todo[1][1] \in TraefikCalls /\ Hostname \in Host /\ proxy = "traefik"
      /\ Len(op.todo) > 1 /\ op'.todo # <<>> /\ SameButTodo(op')
      /\ CommandOK(op', proxy, inventory)
  BY ConfigureDecides
<1>2. UNCHANGED <<proxy, inventory, redirecting>> /\ OpOK /\ RestOK
  BY DEF ConfigureTraefik, project, Basics
<1>3. CASE GivesUpTrust /\ op.todo[1][1] = "static" /\ UNCHANGED traefik
  <2>1. SameRouters
    BY <1>3 DEF SameRouters
  <2> QED BY <1>1, <1>2, <1>3, <2>1, GivenUpGuards
<1>4. CASE /\ Shifts(op.todo, op'.todo)
           /\ op.todo[1][1] = "root" => InstallRoot
           /\ op.todo[1][1] = "static" => WriteStatic
           /\ op.todo[1][1] = "restart" => RestartIfNeeded
           /\ op.todo[1][1] = "fragment" => WriteFragment(Hostname, Wanted(Hostname), redirecting)
  <2>1. SUFFICES ASSUME op.do = "sync" PROVE GuardOK'
    BY <1>1 DEF GuardOK, SameButTodo
  <2>2. Awaited /\ TraefikGuards
    BY <1>1, <2>1 DEF GuardOK
  <2>3. /\ op.todo \in Seq(Task) /\ op.todo[1][1] # "check" /\ Hostname = op.todo[1][2]
        /\ Linked(op.todo[1], op.todo[2])
        /\ op.todo[1][1] # "unlink"
    <3>1. Possible(proxy, inventory, op.do, op.todo[1])
      BY <1>1, <1>2, NextCall
    <3>2. op.todo[1][1] # "unlink"
      BY <2>1, <3>1 DEF Possible, Removal
    <3> QED BY <1>1, <1>2, <3>2, NextCall DEF TraefikCalls
  <2>4. Awaited'
    BY <1>1, <1>2, <1>4, <2>2, <2>3, AwaitedShifted DEF SameButTodo
  <2>5. 1 \in DOMAIN op'.todo /\ op'.todo[1] = op.todo[2] /\ CallAt(1)' = op.todo[2][1]
    BY <1>4 DEF Shifts, CallAt
  <2>6. CASE op.todo[1][1] # "fragment"
    <3>1. CallAt(1)' # "check"
      BY <1>1, <2>3, <2>5, <2>6 DEF Linked, Follows, TraefikCalls
    <3>2. SameRouters
      BY <1>1, <1>2, <1>4, <2>3, <2>6, RoutersFollow DEF TraefikCalls
    <3>3. TraefikGuards'
      BY <1>1, <1>2, <2>2, <3>1, <3>2, GuardsFollow DEF SameButTodo
    <3> QED BY <1>1, <1>2, <2>4, <3>3 DEF GuardOK
  <2>7. CASE op.todo[1][1] = "fragment"
    <3>1. Hostname' = Hostname
      <4>1. op'.todo \in Seq(Task)
        BY <1>1, OpType DEF CommandOK
      <4>2. Head(op'.todo) = op'.todo[1]
        BY <1>1, <4>1
      <4>3. op.todo[2][2] = op.todo[1][2]
        BY <2>3 DEF Linked
      <4> QED BY <2>3, <2>5, <4>2, <4>3 DEF Hostname
    <3> DEFINE f == FragmentOf(inventory[Hostname], redirecting)
    <3>2. traefik' = [traefik EXCEPT !.fragments[Hostname] = f]
      BY <1>4, <2>1, <2>7, RepublishedWanted DEF WriteFragment
    <3>3. f.guarded = Private(Hostname)
      BY DEF FragmentOf, Private
    <3> HIDE DEF f
    <3>4. /\ traefik'.fragments = [traefik.fragments EXCEPT ![Hostname] = f]
          /\ traefik'.routers = traefik.routers
          /\ DOMAIN traefik.fragments = Host
      BY <1>2, <3>2 DEF RestOK, TraefikType
    <3>5. op'.verified = op.verified
      BY <1>1 DEF SameButTodo
    <3>6. /\ traefik'.fragments[Hostname] = f
          /\ \A v : v # Hostname => traefik'.fragments[v] = traefik.fragments[v]
      BY <1>1, <3>4
    <3>7. TraefikGuards'
      BY <1>2, <2>2, <3>1, <3>3, <3>4, <3>5, <3>6 DEF TraefikGuards, Guarded, Private
    <3> QED BY <1>1, <1>2, <2>4, <3>7 DEF GuardOK
  <2> QED BY <2>6, <2>7
<1> QED BY <1>3, <1>4, ConfigureDecides

LEMMA FailureGuards == ASSUME Basics, GuardOK, Failure PROVE GuardOK'
<1>1. CASE op' = NoOp
  BY <1>1, StoppedGuards
<1>2. CASE Rejected \/ Die
  BY <1>2, StoppedGuards DEF Rejected, Die, Ends
<1>3. CASE CaddyFails
  BY <1>3, CaddyFailsFacts, StoppedGuards DEF Ends
<1>4. CASE DumpFails /\ op' = op
  <2>1. UNCHANGED <<caddy, draft, traefik, proxy, inventory>>
    BY <1>4 DEF DumpFails, proxies, project
  <2> QED BY <1>4, <2>1, SameGuards
<1>5. CASE TraefikFails
  <2>1. /\ op.todo # <<>> /\ op.todo[1][1] \in TraefikCalls
        /\ UNCHANGED <<proxy, inventory>>
        /\ \/ /\ GivesUpTrust
              /\ \/ op.todo[1][1] = "root" /\ InstallRootFails
                 \/ op.todo[1][1] = "static" /\ WriteStaticFails
                 \/ op.todo[1][1] = "restart" /\ RestartFails
           \/ Ends(FALSE)
    BY <1>5, TraefikFailsFacts
  <2>2. CASE Ends(FALSE)
    BY <2>2, StoppedGuards DEF Ends
  <2>3. CASE /\ GivesUpTrust
             /\ \/ op.todo[1][1] = "root" /\ InstallRootFails
                \/ op.todo[1][1] = "static" /\ WriteStaticFails
                \/ op.todo[1][1] = "restart" /\ RestartFails
    <3>1. SameRouters
      BY <2>3, RoutersFollow DEF Basics
    <3>2. proxy = "traefik"
      <4>1. Possible(proxy, inventory, op.do, op.todo[1]) /\ proxy \in {"caddy", "traefik"}
        BY <2>1, NextCall DEF Basics, RestOK
      <4> QED BY <2>1, <4>1 DEF Possible
    <3> QED BY <2>1, <2>3, <3>1, <3>2, GivenUpGuards
  <2> QED BY <2>1, <2>2, <2>3
<1>6. DumpFails => op' = op \/ op' = NoOp
  BY DEF DumpFails
<1> QED BY <1>1, <1>2, <1>3, <1>4, <1>5, <1>6 DEF Failure

-----------------------------------------------------------------------------
(* The dump, restarts and edits *)

LEMMA EnvironmentGuards == ASSUME Basics, GuardOK, Environment PROVE GuardOK'
<1>1. CASE DumpEnds
  <2>1. UNCHANGED <<draft, traefik, proxy, inventory, op>> /\ caddy'.live = caddy.live
    BY <1>1, DumpFacts DEF DumpEnds, project, Basics
  <2> QED BY <2>1, SameGuards
<1>2. CASE RestartOfCaddy
  <2>1. CASE op = NoOp
    BY <1>2, <2>1, RestartCaddyFacts, StoppedGuards
  <2>2. CASE op # NoOp
    <3>1. /\ op'.todo = op.todo /\ op'.do = op.do /\ op'.verified = op.verified
          /\ op'.stale = op.stale \cup op.verified
          /\ UNCHANGED <<draft, traefik, proxy, inventory>> /\ proxy = "caddy"
      BY <1>2, <2>2, RestartCaddyFacts
    <3> QED BY <3>1, DisturbedGuards
  <2> QED BY <2>1, <2>2
<1>3. CASE Edit
  <2>1. /\ op'.todo = op.todo /\ op'.do = op.do /\ op'.verified = op.verified
        /\ op'.stale = op.stale \cup op.verified
        /\ UNCHANGED <<draft, traefik, proxy, inventory>> /\ proxy = "caddy"
    BY <1>3, EditOfCaddyFacts
  <2> QED BY <2>1, DisturbedGuards
<1>4. CASE RestartOfTraefik \/ ReloadOfTraefik
  <2>1. UNCHANGED <<caddy, draft, proxy, inventory, op>>
    BY <1>4 DEF RestartOfTraefik, ReloadOfTraefik, project
  <2>2. SameRouters
    BY <1>4, RoutersFollow DEF RestartOfTraefik, ReloadOfTraefik, Basics
  <2>3. CallAt(1)' = CallAt(1) /\ Hostname' = Hostname /\ Awaited' = Awaited
    BY <2>1 DEF CallAt, Hostname, Awaited, Published
  <2>4. TraefikGuards => TraefikGuards'
    BY <2>1, <2>2, <2>3 DEF TraefikGuards, SameRouters, Private
  <2>5. CaddyGuards' = CaddyGuards
    BY <2>1 DEF CaddyGuards, CaddyGuarded, Trusted, Private, Publishes, HasRoute, HasHttp, CallAt, Hostname, Old
  <2> QED BY <2>1, <2>3, <2>4, <2>5 DEF GuardOK
<1> QED BY <1>1, <1>2, <1>3, <1>4 DEF Environment

-----------------------------------------------------------------------------
(* The invariant *)

LEMMA NextGuards == ASSUME Basics, ServeOK, GuardOK, [Next]_vars PROVE GuardOK'
<1>1. CASE UNCHANGED vars
  <2>1. UNCHANGED <<caddy, draft, traefik, proxy, inventory, op>>
    BY <1>1 DEF vars, proxies, project
  <2> QED BY <2>1, SameGuards
<1>2. CASE Command
  BY <1>2, CommandGuards
<1>3. CASE Work
  BY <1>3, ReadGuards, WriteGuards, ConfigureGuards, CheckGuards, FinalGuards DEF Work
<1>4. CASE Failure
  BY <1>4, FailureGuards
<1>5. CASE Environment
  BY <1>5, EnvironmentGuards
<1> QED BY <1>1, <1>2, <1>3, <1>4, <1>5 DEF Next

LEMMA AlwaysGuards == Spec => []GuardOK
<1>1. Init => GuardOK
  BY OpType DEF Init, GuardOK
<1>2. Basics /\ ServeOK /\ GuardOK /\ [Next]_vars => GuardOK'
  BY NextGuards
<1> QED BY <1>1, <1>2, AlwaysBasics, AlwaysServing, PTL DEF Spec

LEMMA AdvertisesGuarded ==
  ASSUME Basics, GuardOK, Advertise
  PROVE  \A h \in Published \ op.stale : Private(h) => Denies(h)
<1>1. op.todo # <<>> /\ op.todo[1][1] = "advertise" /\ op.do = "sync" /\ Len(op.todo) = 1
  BY FinalDecides
<1>2. OpOK /\ RestOK /\ CaddyOK
  BY DEF Basics
<1>3. Awaited /\ (proxy = "caddy" => CaddyGuards) /\ (proxy = "traefik" => TraefikGuards)
  BY <1>1 DEF GuardOK
<1>4. op.todo \in Seq(Task)
  BY <1>1, <1>2, NextCall
<1>5. SUFFICES ASSUME NEW h \in Published, h \notin op.stale, Private(h) PROVE Denies(h)
  OBVIOUS
<1>6. h \in Host
  BY <1>5 DEF Published
<1>7. h \in op.verified
  <2>1. ASSUME NEW i \in DOMAIN op.todo PROVE op.todo[i] # <<"check", h>>
    <3>1. i = 1
      BY <1>1, <1>4
    <3> QED BY <1>1, <3>1
  <2> QED BY <1>3, <1>5, <2>1 DEF Awaited
<1>8. CASE proxy = "caddy"
  <2>1. CaddyGuarded(h)
    BY <1>3, <1>5, <1>7, <1>8 DEF CaddyGuards, Trusted
  <2>2. CaddyDenies(caddy.live, h)
    BY <1>2, <1>6, <2>1, GuardDenies DEF CaddyGuarded, Old, CaddyOK
  <2> QED BY <1>8, <2>2 DEF Denies
<1>9. CASE proxy = "traefik"
  <2>1. Guarded(traefik.routers[h])
    BY <1>3, <1>5, <1>7, <1>9 DEF TraefikGuards
  <2> QED BY <1>9, <2>1 DEF Denies, TraefikDenies, Enabled, Guarded
<1> QED BY <1>2, <1>8, <1>9 DEF RestOK

\* When the routes of a network are advertised to the tailnet, every exposure that excludes
\* the tailnet is denied to it on both entry points ("guards before the tailnet's traffic
\* comes", service add tailscale in src/src/cli.js), for any hostnames and after any requests
\* that failed, restarts, edits and commands that came before; only what was disturbed after
\* it was verified is excepted.  The invariant says that what was verified stays denied in
\* the live configuration and in every draft that is about to replace it.
THEOREM GuardsComeFirst == Spec => GuardedBeforeAdvertised
<1>1. Basics /\ GuardOK /\ [Next]_vars =>
        [Advertise => \A h \in Published \ op.stale : ~inventory[h].tailnet => Denies(h)]_vars
  BY AdvertisesGuarded DEF Private
<1> QED BY <1>1, AlwaysBasics, AlwaysGuards, PTL DEF Spec, GuardedBeforeAdvertised
=============================================================================
