--------------------------- MODULE ExposuresCalls ---------------------------
(***************************************************************************)
(* What every step of Exposures preserves, for any names, hostnames,       *)
(* ports, accounts, wishes, logins, faults and crashes.                    *)
(*                                                                         *)
(* What a call may rely on depends on the calls that were made before it,  *)
(* and a failure may put others in its place.  The invariant IInv          *)
(* therefore describes op.todo: which calls only follow which others in    *)
(* one block (Follows), that a command installs one key (Later), and what  *)
(* each call finds when it is the next (ReadyAdmin, ReadyKeys).  First the *)
(* lemmas that the lists the code puts together, those it continues with   *)
(* after a failure among them, are so; then that every call, the worker,   *)
(* the login session, faults and crashes preserve IInv; then what follows. *)
(***************************************************************************)
EXTENDS Exposures, WellFoundedInduction, FiniteSetTheorems, SequenceTheorems, TLAPS

-----------------------------------------------------------------------------
(* Sequences *)

\* A set of natural numbers that is not empty has a least member.
LEMMA LeastNatural ==
  ASSUME NEW T \in SUBSET Nat, T # {}
  PROVE  \E x \in T : \A y \in T : x <= y
<1> DEFINE R == OpToRel(<, Nat)
<1>1. IsWellFoundedOn(R, Nat)
  BY NatLessThanWellFounded
<1>2. \A x, y \in Nat : x < y => <<x, y>> \in R
  BY DEF OpToRel
<1> HIDE DEF R
<1>3. PICK x \in T : \A y \in T : <<y, x>> \notin R
  BY <1>1, WFMin
<1>4. ASSUME NEW y \in T PROVE x <= y
  <2>1. ~(y < x)
    BY <1>2, <1>3
  <2> QED BY <2>1
<1> QED BY <1>4

\* Induction over the natural numbers, for the members of a set.
LEMMA SetInduction ==
  ASSUME NEW S, 0 \in S, \A n \in Nat : n \in S => n + 1 \in S
  PROVE  Nat \subseteq S
<1> DEFINE T == Nat \ S
<1>1. SUFFICES ASSUME T # {} PROVE FALSE
  OBVIOUS
<1>2. PICK x \in T : \A y \in T : x <= y
  BY <1>1, LeastNatural
<1>3. x \in Nat /\ x # 0 /\ x - 1 \in Nat /\ x - 1 < x /\ (x - 1) + 1 = x
  OBVIOUS
<1>4. x - 1 \in S
  BY <1>2, <1>3
<1>5. x \in S
  BY <1>3, <1>4
<1> QED BY <1>5

\* The operator Min of a set of natural numbers that is not empty.
LEMMA MinIsLeast ==
  ASSUME NEW T \in SUBSET Nat, T # {}
  PROVE  Min(T) \in T /\ \A y \in T : Min(T) <= y
BY LeastNatural DEF Min

\* The concatenation of a sequence of sequences is in every set that is closed under
\* concatenation and contains them and the empty sequence.
LEMMA FlattenClosed ==
  ASSUME NEW S, NEW Q \in SUBSET Seq(S), <<>> \in Q, \A s, t \in Q : s \o t \in Q,
         NEW n \in Nat, NEW f \in [1..n -> Q]
  PROVE  FlattenSeq(f) \in Q
<1> DEFINE Flat(g) == [i \in 1..Len(f) |-> IF i = 1 THEN f[i] ELSE g[i - 1] \o f[i]]
           Parts(k) == {g \in [1..k -> Q] :
                          \A i \in 1..k : g[i] = IF i = 1 THEN f[i] ELSE g[i - 1] \o f[i]}
           A == {k \in Nat : k <= n => Parts(k) # {}}
<1>1. Len(f) = n /\ f \in Seq(Q)
  OBVIOUS
<1>2. CASE n = 0
  <2>1. f = <<>> /\ FlattenSeq(f) = f
    BY <1>1, <1>2 DEF FlattenSeq
  <2> QED BY <2>1
<1>3. CASE n # 0
  <2>1. 0 \in A
    <3>1. [i \in 1..0 |-> <<>>] \in Parts(0)
      OBVIOUS
    <3> QED BY <3>1
  <2>2. ASSUME NEW k \in Nat, k \in A PROVE k + 1 \in A
    <3>0. Parts(k + 1) # {} => k + 1 \in A
      <4> HIDE DEF Parts
      <4> QED OBVIOUS
    <3>1. SUFFICES ASSUME k + 1 <= n PROVE Parts(k + 1) # {}
      <4> HIDE DEF Parts
      <4> QED BY <3>0
    <3>2. Parts(k) # {}
      <4> HIDE DEF Parts
      <4> QED BY <2>2, <3>1
    <3>3. PICK g \in Parts(k) : TRUE
      <4> HIDE DEF Parts
      <4> QED BY <3>2
    <3> DEFINE new == IF k = 0 THEN f[1] ELSE g[k] \o f[k + 1]
               h == [i \in 1..(k + 1) |-> IF i = k + 1 THEN new ELSE g[i]]
    <3>4. new \in Q
      BY <3>1, <3>3
    <3>5. h \in [1..(k + 1) -> Q]
      BY <3>3, <3>4
    <3>6. ASSUME NEW i \in 1..(k + 1)
          PROVE  h[i] = IF i = 1 THEN f[i] ELSE h[i - 1] \o f[i]
      <4>1. CASE i = k + 1
        BY <4>1
      <4>2. CASE i # k + 1
        <5>1. i \in 1..k /\ h[i] = g[i] /\ (i # 1 => i - 1 \in 1..(k + 1) /\ i - 1 # k + 1)
          BY <4>2
        <5> QED BY <3>3, <5>1
      <4> QED BY <4>1, <4>2
    <3> HIDE DEF h
    <3> QED BY <3>5, <3>6
  <2>3. Nat \subseteq A
    <3> HIDE DEF A
    <3> QED BY <2>1, <2>2, SetInduction
  <2>4. PICK g \in Parts(n) : TRUE
    <3>1. Parts(n) # {}
      <4> HIDE DEF Parts
      <4> QED BY <2>3
    <3> HIDE DEF Parts
    <3> QED BY <3>1
  <2>5. g = Flat(g)
    BY <1>1, <2>4
  <2> DEFINE c == CHOOSE h : h = Flat(h)
  <2>6. c = Flat(c)
    <3> HIDE DEF Flat
    <3> QED BY <2>5
  <2>7. FlattenSeq(f) = c[n]
    BY <1>1, <1>3 DEF FlattenSeq
  <2> HIDE DEF c
  <2> DEFINE B == {k \in Nat : k + 1 <= n => c[k + 1] \in Q}
  <2>8. 0 \in B
    BY <1>1, <1>3, <2>6
  <2>9. ASSUME NEW k \in Nat, k \in B PROVE k + 1 \in B
    <3>1. SUFFICES ASSUME (k + 1) + 1 <= n PROVE c[(k + 1) + 1] \in Q
      OBVIOUS
    <3>2. c[(k + 1) + 1] = c[k + 1] \o f[(k + 1) + 1]
      <4>1. (k + 1) + 1 \in 1..Len(f) /\ (k + 1) + 1 # 1 /\ ((k + 1) + 1) - 1 = k + 1
        BY <1>1, <3>1
      <4>2. Flat(c)[(k + 1) + 1] = c[k + 1] \o f[(k + 1) + 1]
        BY <4>1
      <4> HIDE DEF Flat
      <4> QED BY <2>6, <4>2
    <3>3. c[k + 1] \in Q /\ f[(k + 1) + 1] \in Q
      BY <2>9, <3>1
    <3> QED BY <3>2, <3>3
  <2>10. Nat \subseteq B
    <3> HIDE DEF B
    <3> QED BY <2>8, <2>9, SetInduction
  <2>11. n - 1 \in Nat /\ (n - 1) + 1 = n
    BY <1>3
  <2>12. n - 1 \in B
    <3> HIDE DEF B
    <3> QED BY <2>10, <2>11
  <2>13. c[(n - 1) + 1] \in Q
    BY <2>11, <2>12
  <2> QED BY <2>7, <2>11, <2>13
<1> QED BY <1>2, <1>3

\* An enumeration of a finite set runs through its members.
LEMMA Enumeration ==
  ASSUME NEW S, IsFiniteSet(S)
  PROVE  Cardinality(S) \in Nat /\ SetToSeq(S) \in [1..Cardinality(S) -> S]
<1>1. Cardinality(S) \in Nat /\ ExistsBijection(1..Cardinality(S), S)
  BY FS_CardinalityType
<1>2. PICK f \in Bijection(1..Cardinality(S), S) : TRUE
  BY <1>1 DEF ExistsBijection
<1>3. f \in [1..Cardinality(S) -> S] /\ IsInjective(f)
  BY <1>2 DEF Bijection, Injection, IsInjective
<1> QED BY <1>1, <1>3 DEF SetToSeq

\* Pairs and triples as concatenations.
LEMMA PairConcat ==
  ASSUME NEW C, NEW a \in C, NEW b \in C
  PROVE  <<a>> \o <<b>> = <<a, b>>
<1> DEFINE s == <<a>>
           t == <<b>>
           u == <<a, b>>
           w == s \o t
<1>1. s \in Seq(C) /\ Len(s) = 1 /\ s[1] = a
  OBVIOUS
<1>2. t \in Seq(C) /\ Len(t) = 1 /\ t[1] = b
  OBVIOUS
<1>3. u \in Seq(C) /\ Len(u) = 2 /\ u[1] = a /\ u[2] = b
  OBVIOUS
<1> HIDE DEF s, t, u
<1>4. w \in Seq(C) /\ Len(w) = Len(s) + Len(t)
  BY <1>1, <1>2, ConcatProperties
<1>5. \A i \in 1..(Len(s) + Len(t)) : w[i] = IF i <= Len(s) THEN s[i] ELSE t[i - Len(s)]
  BY <1>1, <1>2, ConcatProperties
<1>6. Len(w) = 2 /\ Len(s) + Len(t) = 2
  BY <1>1, <1>2, <1>4
<1> HIDE DEF w
<1>7. \A i \in 1..2 : w[i] = IF i <= 1 THEN s[i] ELSE t[i - 1]
  BY <1>1, <1>5, <1>6
<1>8. w[1] = s[1]
  BY <1>7
<1>9. w[2] = t[2 - 1] /\ 2 - 1 = 1
  BY <1>7
<1>10. \A i \in 1..2 : i = 1 \/ i = 2
  OBVIOUS
<1>11. \A i \in 1..2 : w[i] = u[i]
  BY <1>1, <1>2, <1>3, <1>8, <1>9, <1>10
<1>12. w = u
  BY <1>3, <1>4, <1>6, <1>11, SeqEqual
<1> QED BY <1>12 DEF s, t, u, w

LEMMA TripleConcat ==
  ASSUME NEW C, NEW a \in C, NEW b \in C, NEW c \in C
  PROVE  <<a, b>> \o <<c>> = <<a, b, c>>
<1> DEFINE s == <<a, b>>
           t == <<c>>
           u == <<a, b, c>>
           w == s \o t
<1>1. s \in Seq(C) /\ Len(s) = 2 /\ s[1] = a /\ s[2] = b
  OBVIOUS
<1>2. t \in Seq(C) /\ Len(t) = 1 /\ t[1] = c
  OBVIOUS
<1>3. u \in Seq(C) /\ Len(u) = 3 /\ u[1] = a /\ u[2] = b /\ u[3] = c
  OBVIOUS
<1> HIDE DEF s, t, u
<1>4. w \in Seq(C) /\ Len(w) = Len(s) + Len(t)
  BY <1>1, <1>2, ConcatProperties
<1>5. \A i \in 1..(Len(s) + Len(t)) : w[i] = IF i <= Len(s) THEN s[i] ELSE t[i - Len(s)]
  BY <1>1, <1>2, ConcatProperties
<1>6. Len(w) = 3 /\ Len(s) + Len(t) = 3
  BY <1>1, <1>2, <1>4
<1> HIDE DEF w
<1>7. \A i \in 1..3 : w[i] = IF i <= 2 THEN s[i] ELSE t[i - 2]
  BY <1>1, <1>5, <1>6
<1>8. w[1] = s[1]
  BY <1>7
<1>9. w[2] = s[2]
  BY <1>7
<1>10. w[3] = t[3 - 2] /\ 3 - 2 = 1
  BY <1>7
<1>11. \A i \in 1..3 : i = 1 \/ i = 2 \/ i = 3
  OBVIOUS
<1>12. \A i \in 1..3 : w[i] = u[i]
  BY <1>1, <1>2, <1>3, <1>8, <1>9, <1>10, <1>11
<1>13. w = u
  BY <1>3, <1>4, <1>6, <1>12, SeqEqual
<1> QED BY <1>13 DEF s, t, u, w

\* What FlattenSeq computes, one sequence after the other.
LEMMA FlattenSteps ==
  ASSUME NEW S, NEW n \in Nat \ {0}, NEW f \in [1..n -> Seq(S)]
  PROVE  \E c \in [1..n -> Seq(S)] :
           /\ c[1] = f[1] /\ \A i \in 1..(n - 1) : c[i + 1] = c[i] \o f[i + 1]
           /\ FlattenSeq(f) = c[n]
<1> DEFINE Flat(g) == [i \in 1..Len(f) |-> IF i = 1 THEN f[i] ELSE g[i - 1] \o f[i]]
           Parts(k) == {g \in [1..k -> Seq(S)] :
                          \A i \in 1..k : g[i] = IF i = 1 THEN f[i] ELSE g[i - 1] \o f[i]}
           A == {k \in Nat : k <= n => Parts(k) # {}}
<1>1. Len(f) = n
  OBVIOUS
<1>2. 0 \in A
  <2>1. [i \in 1..0 |-> <<>>] \in Parts(0)
    OBVIOUS
  <2> QED BY <2>1
<1>3. ASSUME NEW k \in Nat, k \in A PROVE k + 1 \in A
  <2>0. Parts(k + 1) # {} => k + 1 \in A
    <3> HIDE DEF Parts
    <3> QED OBVIOUS
  <2>1. SUFFICES ASSUME k + 1 <= n PROVE Parts(k + 1) # {}
    <3> HIDE DEF Parts
    <3> QED BY <2>0
  <2>2. Parts(k) # {}
    <3> HIDE DEF Parts
    <3> QED BY <1>3, <2>1
  <2>3. PICK g \in Parts(k) : TRUE
    <3> HIDE DEF Parts
    <3> QED BY <2>2
  <2> DEFINE new == IF k = 0 THEN f[1] ELSE g[k] \o f[k + 1]
             h == [i \in 1..(k + 1) |-> IF i = k + 1 THEN new ELSE g[i]]
  <2>4. new \in Seq(S)
    BY <2>1, <2>3
  <2>5. h \in [1..(k + 1) -> Seq(S)]
    BY <2>3, <2>4
  <2>6. ASSUME NEW i \in 1..(k + 1)
        PROVE  h[i] = IF i = 1 THEN f[i] ELSE h[i - 1] \o f[i]
    <3>1. CASE i = k + 1
      BY <3>1
    <3>2. CASE i # k + 1
      <4>1. i \in 1..k /\ h[i] = g[i] /\ (i # 1 => i - 1 \in 1..(k + 1) /\ i - 1 # k + 1)
        BY <3>2
      <4> QED BY <2>3, <4>1
    <3> QED BY <3>1, <3>2
  <2> HIDE DEF h
  <2> QED BY <2>5, <2>6
<1>4. Nat \subseteq A
  <2> HIDE DEF A
  <2> QED BY <1>2, <1>3, SetInduction
<1>5. PICK g \in Parts(n) : TRUE
  <2>1. Parts(n) # {}
    <3> HIDE DEF Parts
    <3> QED BY <1>4
  <2> HIDE DEF Parts
  <2> QED BY <2>1
<1>6. g = Flat(g)
  BY <1>1, <1>5
<1> DEFINE c == CHOOSE h : h = Flat(h)
<1>7. c = Flat(c)
  <2> HIDE DEF Flat
  <2> QED BY <1>6
<1>8. FlattenSeq(f) = c[n]
  BY <1>1 DEF FlattenSeq
<1> HIDE DEF c
<1>9. c = [i \in 1..n |-> c[i]] /\ c[1] = f[1] /\ \A i \in 1..(n - 1) : c[i + 1] = c[i] \o f[i + 1]
  <2> DEFINE e == [i \in 1..n |-> IF i = 1 THEN f[i] ELSE c[i - 1] \o f[i]]
  <2>1. c = e
    BY <1>1, <1>7
  <2>2. \A i \in 1..n : e[i] = IF i = 1 THEN f[i] ELSE c[i - 1] \o f[i]
    OBVIOUS
  <2>3. e = [i \in 1..n |-> e[i]]
    OBVIOUS
  <2> HIDE DEF e
  <2>4. c = [i \in 1..n |-> c[i]]
    BY <2>1, <2>3
  <2>6. 1 \in 1..n /\ c[1] = f[1]
    BY <2>1, <2>2
  <2>5. ASSUME NEW i \in 1..(n - 1) PROVE c[i + 1] = c[i] \o f[i + 1]
    <3>1. i + 1 \in 1..n /\ i + 1 # 1 /\ (i + 1) - 1 = i
      OBVIOUS
    <3> QED BY <2>1, <2>2, <3>1
  <2> QED BY <2>4, <2>5, <2>6
<1> DEFINE B == {k \in Nat : k + 1 <= n => c[k + 1] \in Seq(S)}
<1>10. 0 \in B
  BY <1>9
<1>11. ASSUME NEW k \in Nat, k \in B PROVE k + 1 \in B
  <2>1. SUFFICES ASSUME (k + 1) + 1 <= n PROVE c[(k + 1) + 1] \in Seq(S)
    OBVIOUS
  <2>2. k + 1 \in 1..(n - 1) /\ (k + 1) + 1 \in 1..n
    BY <2>1
  <2>3. c[(k + 1) + 1] = c[k + 1] \o f[(k + 1) + 1]
    BY <1>9, <2>2
  <2>4. c[k + 1] \in Seq(S) /\ f[(k + 1) + 1] \in Seq(S)
    BY <1>11, <2>2
  <2> QED BY <2>3, <2>4
<1>12. Nat \subseteq B
  <2> HIDE DEF B
  <2> QED BY <1>10, <1>11, SetInduction
<1>13. \A i \in 1..n : c[i] \in Seq(S)
  <2>1. ASSUME NEW i \in 1..n PROVE c[i] \in Seq(S)
    <3>1. i - 1 \in Nat /\ (i - 1) + 1 = i
      OBVIOUS
    <3> HIDE DEF B
    <3>2. i - 1 \in B
      BY <1>12, <3>1
    <3> QED BY <3>1, <3>2 DEF B
  <2> QED BY <2>1
<1>14. c \in [1..n -> Seq(S)]
  BY <1>9, <1>13
<1> QED BY <1>8, <1>9, <1>14

\* The enumeration of a finite set misses none of its members.
LEMMA EnumerationIsComplete ==
  ASSUME NEW S, IsFiniteSet(S), NEW x \in S
  PROVE  \E i \in 1..Cardinality(S) : SetToSeq(S)[i] = x
<1> DEFINE n == Cardinality(S)
           f == SetToSeq(S)
<1>1. n \in Nat /\ ExistsBijection(1..n, S)
  BY FS_CardinalityType
<1>2. PICK g \in Bijection(1..n, S) : TRUE
  BY <1>1 DEF ExistsBijection
<1>3. g \in [1..n -> S] /\ IsInjective(g)
  BY <1>2 DEF Bijection, Injection, IsInjective
<1>4. f \in [1..n -> S] /\ IsInjective(f)
  BY <1>3 DEF SetToSeq
<1> HIDE DEF f
<1>5. f \in Injection(1..n, S)
  BY <1>4 DEF Injection, IsInjective
<1>6. IsFiniteSet(1..n) /\ Cardinality(1..n) = n
  BY <1>1, FS_Interval
<1>7. f \in Surjection(1..n, S)
  BY <1>5, <1>6, FS_Injection DEF Surjection
<1> QED BY <1>7 DEF Surjection, f

\* The concatenation of a sequence of sequences has all of their members.
LEMMA FlattenMembers ==
  ASSUME NEW S, NEW n \in Nat, NEW f \in [1..n -> Seq(S)], NEW k \in 1..n, NEW m \in DOMAIN f[k]
  PROVE  \E i \in DOMAIN FlattenSeq(f) : FlattenSeq(f)[i] = f[k][m]
<1>1. PICK c \in [1..n -> Seq(S)] :
        /\ c[1] = f[1] /\ \A i \in 1..(n - 1) : c[i + 1] = c[i] \o f[i + 1]
        /\ FlattenSeq(f) = c[n]
  <2>1. n \in Nat \ {0}
    OBVIOUS
  <2>2. \A p \in Nat \ {0} : \A g \in [1..p -> Seq(S)] : \E c \in [1..p -> Seq(S)] :
           /\ c[1] = g[1] /\ \A i \in 1..(p - 1) : c[i + 1] = c[i] \o g[i + 1]
           /\ FlattenSeq(g) = c[p]
    BY FlattenSteps
  <2> QED BY <2>1, <2>2
<1> DEFINE x == f[k][m]
<1> HIDE DEF x
<1> DEFINE Found(u) == \E i \in DOMAIN u : u[i] = x
           B == {q \in Nat : k + q <= n => Found(c[k + q])}
<1>2. \A u, v \in Seq(S) : Found(u) \/ Found(v) => Found(u \o v)
  <2>1. ASSUME NEW u \in Seq(S), NEW v \in Seq(S) PROVE Found(u) \/ Found(v) => Found(u \o v)
    <3>1. \A i \in DOMAIN u : i \in DOMAIN (u \o v) /\ (u \o v)[i] = u[i]
      OBVIOUS
    <3>2. \A i \in DOMAIN v : Len(u) + i \in DOMAIN (u \o v) /\ (u \o v)[Len(u) + i] = v[i]
      OBVIOUS
    <3> QED BY <3>1, <3>2
  <2> QED BY <2>1
<1> HIDE DEF Found
<1>3. Found(f[k])
  BY DEF Found, x
<1>4. 0 \in B
  <2>1. Found(c[k])
    <3>1. CASE k = 1
      BY <1>1, <1>3, <3>1
    <3>2. CASE k # 1
      <4>1. k - 1 \in 1..(n - 1) /\ k - 1 \in 1..n /\ (k - 1) + 1 = k
        BY <3>2
      <4>2. c[(k - 1) + 1] = c[k - 1] \o f[(k - 1) + 1] /\ c[k - 1] \in Seq(S) /\ f[k] \in Seq(S)
        BY <1>1, <4>1
      <4> QED BY <1>2, <1>3, <4>1, <4>2
    <3> QED BY <3>1, <3>2
  <2> QED BY <2>1
<1>5. ASSUME NEW q \in Nat, q \in B PROVE q + 1 \in B
  <2>1. SUFFICES ASSUME k + (q + 1) <= n PROVE Found(c[k + (q + 1)])
    OBVIOUS
  <2>2. k + q \in 1..(n - 1) /\ (k + q) + 1 = k + (q + 1) /\ k + q <= n /\ k + q \in 1..n
        /\ (k + q) + 1 \in 1..n
    BY <2>1
  <2>3. Found(c[k + q])
    BY <1>5, <2>2
  <2>4. c[(k + q) + 1] = c[k + q] \o f[(k + q) + 1] /\ c[k + q] \in Seq(S) /\ f[(k + q) + 1] \in Seq(S)
    BY <1>1, <2>2
  <2> QED BY <1>2, <2>2, <2>3, <2>4
<1>6. Nat \subseteq B
  <2> HIDE DEF B
  <2> QED BY <1>4, <1>5, SetInduction
<1>7. Found(c[n])
  <2>1. n - k \in Nat /\ k + (n - k) = n
    OBVIOUS
  <2>2. n - k \in B
    <3> HIDE DEF B
    <3> QED BY <1>6, <2>1
  <2> QED BY <2>1, <2>2
<1> QED BY <1>1, <1>7 DEF Found, x

-----------------------------------------------------------------------------
(* Lists of calls *)

\* The names that calls may be about, and those of host SSH among them.
Planned(plan, n) == IF plan[n] = Absent THEN inventory[n] ELSE plan[n]

Known(plan) == {n \in Name : Planned(plan, n) # Absent}

KnownSsh(plan) == {n \in Known(plan) : Planned(plan, n).protocol = "ssh"}

\* Calls that end a command, and calls that install a key of the host's daemon.
Ends == {"save", "delete-project"}

Starters == {"enable-host", "activate-key", "replace-key", "install-key"}

Openers == Starters \cup {"authorize"}

\* Calls that are about no exposure, and calls that are about host SSH.
Nameless == {"save", "start-gateway", "delete-project", "revoke-keys", "disable-record",
             "terminate", "stop-daemon", "check-owned", "remove-unit", "reload", "remove-record",
             "remove-files"}

SshCalls == {"restore", "save-activity", "stop-admin", "start-private", "start-stock",
             "forget-activity", "write-record", "write-config", "enable-host", "activate-key",
             "replace-key", "prepare-key"}

RelocationCalls == {"save-activity", "stop-admin", "start-private"}

ForwardCalls == {"close-gateway", "install", "open-gateway"}

KeyCalls == {"write-config", "write-record", "install-key", "authorize", "start-daemon",
             "enable-record", "verify"}

PublishBlocks == {"host", "relocation", "forward", "publish"}

Verb == {"check-slot", "check-forwarding", "check-dns", "check-web", "check-host", "inspect",
         "relocate", "unforward", "enable-host", "undo-units", "publish-record", "delete-record",
         "publish-route", "delete-route", "start-daemon", "enable-record", "verify", "write-unit",
         "make-directory", "install-key", "authorize", "close-gateway", "install", "open-gateway",
         "remove-forwarding"} \cup Nameless \cup SshCalls

Block == {"plain", "publish", "host", "relocation", "forward"} \cup SoftBlocks

CallRecord == [call : Verb, name : Name \cup {Absent}, to : Domain, block : Block]

\* A call about a name in N, or about the host SSH of one in S.
CallType(N, S) ==
  {t \in CallRecord :
     /\ t.call \notin Nameless => t.name \in N
     /\ t.call \in SshCalls => t.name \in S
     /\ t.call \in {"save-activity", "start-private"} => t.block = "relocation"
     /\ t.call \in {"install", "open-gateway"} => t.block = "forward"
     /\ t.call \in Ends => t.block = "plain"
     /\ t.block = "relocation" => t.call \in RelocationCalls
     /\ t.block = "forward" => t.call \in ForwardCalls
     /\ t.block = "host" => t.call \in KeyCalls
     /\ t.block = "publish" => t.call \notin Nameless \cup SshCalls
     /\ t.call = "unforward" => t.block # "publish"}

-----------------------------------------------------------------------------
(* Which calls follow which *)

AdminSteps == {"check-dns", "relocate", "install", "open-gateway", "save-activity", "stop-admin",
               "start-private", "start-stock", "forget-activity", "restore", "remove-forwarding"}

KeySteps == {"disable-record", "terminate", "stop-daemon", "check-owned", "remove-unit", "reload",
             "remove-record", "remove-files", "delete-project", "make-directory", "write-record",
             "write-config", "write-unit", "install-key", "authorize"}

Forwards(t) == t.call = "close-gateway" /\ t.block = "forward"

\* Calls that rely on the one before.
Dependent(t) == t.call \in AdminSteps \cup KeySteps \/ Forwards(t)

FollowsInAdmin(s, t) ==
  /\ t.call # "save-activity"
  /\ t.call = "check-dns" => s.call = "check-forwarding"
  /\ t.call = "relocate" => s.call = "check-dns"
  /\ Forwards(t) => s.call \in {"relocate", "start-private"}
  /\ t.call = "install" => Forwards(s)
  /\ t.call = "open-gateway" => s.call = "install"
  /\ t.call = "stop-admin" => s.call = "save-activity" /\ t.block = "relocation"
  /\ t.call = "start-private" => s.call = "stop-admin"
  /\ t.call = "start-stock" => s.call = "stop-admin" /\ s.block # "relocation"
  /\ t.call = "forget-activity" => s.call = "start-stock"
  /\ t.call = "remove-forwarding" => s.call = "close-gateway"
  /\ t.call = "restore" => s.call \in {"close-gateway", "remove-forwarding"}

FollowsInKeys(s, t) ==
  /\ t.call # "make-directory"
  /\ t.call = "disable-record" => s.call = "revoke-keys"
  /\ t.call = "terminate" => s.call = "disable-record"
  /\ t.call = "stop-daemon" => s.call = "terminate"
  /\ t.call = "check-owned" => s.call = "stop-daemon"
  /\ t.call = "remove-unit" => s.call = "check-owned"
  /\ t.call = "reload" => s.call = "remove-unit"
  /\ t.call = "remove-record" => s.call = "reload"
  /\ t.call = "remove-files" => s.call = "remove-record"
  /\ t.call = "delete-project" => s.call = "remove-files"
  /\ t.call = "write-record" => s.call \in {"make-directory", "write-config"}
  /\ t.call = "write-config" => s.call \in {"write-record", "stop-daemon"}
  /\ t.call = "write-unit" => s.call = "write-config"
  /\ t.call = "install-key" => s.call \in {"write-unit", "write-record", "stop-daemon"}
  /\ t.call = "authorize" => s.call = "install-key"

Follows(s, t) ==
  /\ s.call \notin Ends
  /\ Dependent(t) => s.name = t.name /\ (s.block = t.block \/ s.block \notin SoftBlocks)
  /\ FollowsInAdmin(s, t) /\ FollowsInKeys(s, t)

\* A command installs one key, and what follows belongs to the try of publishExposure.
Later(s, t) ==
  s.call \in Openers => t.call \notin Starters /\ (t.block \in PublishBlocks \/ t.call = "save")

Ordered(s) == /\ \A i \in 2..Len(s) : Follows(s[i - 1], s[i])
              /\ \A i, j \in 1..Len(s) : i < j => Later(s[i], s[j])

-----------------------------------------------------------------------------
(* What a call finds when it is the next *)

Revoked == host.pending = NoKey /\ host.authorized = NoKey

ReadyAdmin(s) ==
  LET p == PortOf(s)
  IN /\ s.call \in {"check-dns", "relocate"} => proxy.record[p] # Free \/ p \notin gateway.ports
     /\ s.call \in {"save-activity", "stop-admin", "start-private", "start-stock", "restore"}
          => SshPort \notin gateway.ports
     /\ s.call \in {"stop-admin", "start-private", "start-stock", "forget-activity"}
          => proxy.saved # "none"
     /\ s.call = "stop-admin" /\ s.block # "relocation" => SshPort \notin proxy.live
     /\ s.call = "start-stock" => proxy.admin = "stopped" /\ SshPort \notin proxy.live
     /\ s.call = "forget-activity"
          => proxy.admin = IF proxy.saved = "active" THEN "ssh" ELSE "stopped"
     /\ s.call = "remove-forwarding" => p \notin gateway.ports
     /\ s.call = "open-gateway" => p \in proxy.live
     /\ s.block = "forward" => (op.fresh => s.name \in KnownSsh(op.plan))

ReadyKeys(s) ==
  /\ s.call \in {"disable-record", "terminate", "stop-daemon", "check-owned", "remove-unit",
                 "reload", "remove-record"} => Revoked
  /\ s.call \in {"remove-files", "delete-project"} => host.authorized = NoKey
  /\ s.call \in {"make-directory", "write-record", "write-config", "write-unit", "install-key",
                 "authorize"} => host.pending = NoKey
  /\ s.call \in {"disable-record", "terminate", "stop-daemon", "check-owned", "remove-unit",
                 "reload", "remove-record", "write-config", "write-unit", "install-key",
                 "authorize"} => host.record # Nobody
  /\ s.call = "authorize" => host.client > served

-----------------------------------------------------------------------------
(* The invariant *)

WorldOK ==
  /\ host \in HostType /\ proxy \in ProxyType /\ gateway \in GatewayType
  /\ inventory \in [Name -> Exposure \cup {Absent}] /\ domain \in Domain
  /\ dns \subseteq Hostname /\ routes \subseteq Hostname
  /\ session \in {"none", "proxy", "direct"} /\ served \in Nat

\* Host SSH has its port, which nothing else has, and an account.
Good(services) ==
  \A n \in Name : services[n] # Absent =>
     /\ (services[n].protocol = "ssh") = (services[n].port = SshPort)
     /\ services[n].protocol = "ssh" => services[n].account # Nobody

OpType == [cmd : Command \cup {NoCommand}, from : {"console", "session", "worker"},
           todo : Seq(CallRecord),
           plan : [Name -> Exposure \cup {Absent}],
           error : BOOLEAN, fresh : BOOLEAN, late : BOOLEAN, key : Nat]

JobType == [state : {"none", "scheduled", "running", "succeeded", "failed"},
            cmd : Command \cup {NoCommand}, alive : BOOLEAN]

CommandOK ==
  /\ op \in OpType /\ job \in JobType /\ failed \in Command \cup {NoCommand}
  /\ Good(inventory) /\ Good(op.plan)
  /\ job.state = "scheduled" => job.cmd \in Command

TodoOK == op.todo \in Seq(CallType(Known(op.plan), KnownSsh(op.plan))) /\ Ordered(op.todo)

ReadyOK == op.todo # <<>> => ReadyAdmin(First) /\ ReadyKeys(First)

AdminOK == AdminRestorable /\ AdminNeverExposed /\ (SshPort \in proxy.live => proxy.admin # "ssh")

\* A prepared key has not been used, a daemon without record has no keys, and the key that a
\* command has read is installed at most once.
KeysOK ==
  /\ served <= host.issued /\ host.pending <= host.issued /\ host.client <= host.issued
  /\ host.pending # NoKey => host.pending > served
  /\ host.authorized \in {NoKey, served}
  /\ host.record = Nobody => Revoked
  /\ op.key <= host.issued
  /\ op.key # NoKey /\ op.key <= served => \A i \in DOMAIN op.todo : op.todo[i].call \notin Starters

IInv == WorldOK /\ CommandOK /\ WorkerReports /\ TodoOK /\ ReadyOK /\ AdminOK /\ KeysOK

-----------------------------------------------------------------------------
(* Lists of calls *)

Whole(s) == s # <<>> => ~Dependent(Head(s))

\* Lists that can stand before others: what they begin with relies on nothing, and they
\* neither install a key nor end the command.
Plain(C) ==
  {s \in Seq(C) : /\ Ordered(s) /\ Whole(s)
                  /\ \A i \in DOMAIN s : s[i].call \notin Openers \cup Ends}

LEMMA FreeFollows ==
  ASSUME NEW s, NEW t, ~Dependent(t), s.call \notin Ends
  PROVE  Follows(s, t)
BY DEF Follows, Dependent, AdminSteps, KeySteps, FollowsInAdmin, FollowsInKeys, Forwards

LEMMA TailOrdered ==
  ASSUME NEW C, NEW s \in Seq(C), s # <<>>, Ordered(s)
  PROVE  /\ Tail(s) \in Seq(C) /\ Ordered(Tail(s))
         /\ Tail(s) # <<>> => Follows(Head(s), Head(Tail(s))) /\ Head(s).call \notin Ends
         /\ \A i \in DOMAIN Tail(s) : Tail(s)[i] = s[i + 1] /\ Later(Head(s), Tail(s)[i])
<1> DEFINE t == Tail(s)
<1>1. t \in Seq(C) /\ Len(t) = Len(s) - 1 /\ \A i \in 1..Len(t) : t[i] = s[i + 1]
  OBVIOUS
<1>2. Head(s) = s[1] /\ DOMAIN t = 1..Len(t) /\ Len(s) \in Nat /\ Len(t) \in Nat
  BY <1>1
<1> HIDE DEF t
<1>3. ASSUME NEW i \in 2..Len(t) PROVE Follows(t[i - 1], t[i])
  <2>1. i + 1 \in 2..Len(s) /\ (i + 1) - 1 = (i - 1) + 1 /\ i - 1 \in 1..Len(t) /\ i \in 1..Len(t)
    BY <1>1, <1>2
  <2>2. Follows(s[(i + 1) - 1], s[i + 1])
    BY <2>1 DEF Ordered
  <2> QED BY <1>1, <2>1, <2>2
<1>4. ASSUME NEW i \in 1..Len(t), NEW j \in 1..Len(t), i < j PROVE Later(t[i], t[j])
  <2>1. i + 1 \in 1..Len(s) /\ j + 1 \in 1..Len(s) /\ i + 1 < j + 1
    BY <1>1, <1>2, <1>4
  <2> QED BY <1>1, <2>1 DEF Ordered
<1>5. ASSUME NEW i \in 1..Len(t) PROVE Later(s[1], t[i])
  <2>1. 1 \in 1..Len(s) /\ i + 1 \in 1..Len(s) /\ 1 < i + 1
    BY <1>1, <1>2
  <2> QED BY <1>1, <2>1 DEF Ordered
<1>6. ASSUME t # <<>> PROVE Follows(s[1], Head(t)) /\ s[1].call \notin Ends
  <2>1. 2 \in 2..Len(s) /\ 2 - 1 = 1 /\ Head(t) = t[1] /\ t[1] = s[1 + 1] /\ 1 + 1 = 2
    BY <1>1, <1>2, <1>6
  <2>2. Follows(s[1], s[2])
    BY <2>1 DEF Ordered
  <2> QED BY <2>1, <2>2 DEF Follows
<1> QED BY <1>1, <1>2, <1>3, <1>4, <1>5, <1>6 DEF Ordered, t

LEMMA ConcatOrdered ==
  ASSUME NEW C, NEW s \in Seq(C), NEW t \in Seq(C), Ordered(s), Ordered(t),
         \A i \in 1..Len(s), j \in 1..Len(t) : Later(s[i], t[j]),
         s # <<>> /\ t # <<>> => Follows(s[Len(s)], Head(t))
  PROVE  s \o t \in Seq(C) /\ Ordered(s \o t)
<1> DEFINE u == s \o t
<1>1. u \in Seq(C) /\ Len(u) = Len(s) + Len(t) /\ Len(s) \in Nat /\ Len(t) \in Nat
  OBVIOUS
<1>2. \A i \in 1..Len(u) : u[i] = IF i <= Len(s) THEN s[i] ELSE t[i - Len(s)]
  OBVIOUS
<1> HIDE DEF u
<1>3. ASSUME NEW i \in 2..Len(u) PROVE Follows(u[i - 1], u[i])
  <2>1. CASE i <= Len(s)
    <3>1. u[i] = s[i] /\ u[i - 1] = s[i - 1] /\ i \in 2..Len(s)
      BY <1>1, <1>2, <2>1
    <3> QED BY <3>1 DEF Ordered
  <2>2. CASE i = Len(s) + 1
    <3>1. u[i] = t[1] /\ u[i - 1] = s[Len(s)] /\ s # <<>> /\ t # <<>> /\ Head(t) = t[1]
      BY <1>1, <1>2, <2>2
    <3> QED BY <3>1
  <2>3. CASE i > Len(s) + 1
    <3> DEFINE k == i - Len(s)
    <3>1. u[i] = t[k] /\ u[i - 1] = t[k - 1] /\ k \in 2..Len(t)
      <4>1. i - 1 \in 1..Len(u) /\ ~(i - 1 <= Len(s)) /\ (i - 1) - Len(s) = k - 1 /\ k \in 2..Len(t)
        BY <1>1, <2>3
      <4>2. i \in 1..Len(u) /\ ~(i <= Len(s))
        BY <1>1, <2>3
      <4> QED BY <1>2, <4>1, <4>2
    <3> QED BY <3>1 DEF Ordered
  <2> QED BY <1>1, <2>1, <2>2, <2>3
<1>4. ASSUME NEW i \in 1..Len(u), NEW j \in 1..Len(u), i < j PROVE Later(u[i], u[j])
  <2>1. CASE j <= Len(s)
    <3>1. u[i] = s[i] /\ u[j] = s[j] /\ i \in 1..Len(s) /\ j \in 1..Len(s)
      BY <1>1, <1>2, <1>4, <2>1
    <3> QED BY <1>4, <3>1 DEF Ordered
  <2>2. CASE i <= Len(s) /\ ~(j <= Len(s))
    <3>1. u[i] = s[i] /\ u[j] = t[j - Len(s)] /\ i \in 1..Len(s) /\ j - Len(s) \in 1..Len(t)
      BY <1>1, <1>2, <2>2
    <3> QED BY <3>1
  <2>3. CASE ~(i <= Len(s))
    <3>1. /\ u[i] = t[i - Len(s)] /\ u[j] = t[j - Len(s)]
          /\ i - Len(s) \in 1..Len(t) /\ j - Len(s) \in 1..Len(t) /\ i - Len(s) < j - Len(s)
      BY <1>1, <1>2, <1>4, <2>3
    <3> QED BY <3>1 DEF Ordered
  <2> QED BY <2>1, <2>2, <2>3
<1> QED BY <1>1, <1>3, <1>4 DEF Ordered, u

LEMMA EmptyPlain == ASSUME NEW C PROVE <<>> \in Plain(C)
BY DEF Plain, Ordered, Whole

\* A plain list may stand before every list that begins with a call of its own.
LEMMA PlainFirst ==
  ASSUME NEW C, NEW s \in Plain(C), NEW t \in Seq(C), Ordered(t), Whole(t)
  PROVE  s \o t \in Seq(C) /\ Ordered(s \o t) /\ Whole(s \o t)
<1>1. s \in Seq(C) /\ Ordered(s) /\ DOMAIN s = 1..Len(s) /\ Len(s) \in Nat
  BY DEF Plain
<1>2. \A i \in 1..Len(s) : s[i].call \notin Openers /\ s[i].call \notin Ends
  BY <1>1 DEF Plain
<1>3. \A i \in 1..Len(s), j \in 1..Len(t) : Later(s[i], t[j])
  BY <1>2 DEF Later
<1>4. ASSUME s # <<>>, t # <<>> PROVE Follows(s[Len(s)], Head(t))
  <2>1. Len(s) \in 1..Len(s)
    BY <1>1, <1>4
  <2>2. ~Dependent(Head(t))
    BY <1>4 DEF Whole
  <2> QED BY <1>2, <2>1, <2>2, FreeFollows
<1>5. s \o t \in Seq(C) /\ Ordered(s \o t)
  BY <1>1, <1>3, <1>4, ConcatOrdered
<1>6. s \o t # <<>> => Head(s \o t) = IF s = <<>> THEN Head(t) ELSE Head(s)
  BY <1>1
<1>7. s = <<>> => s \o t = t
  BY <1>1
<1> QED BY <1>5, <1>6, <1>7 DEF Plain, Whole

LEMMA PlainConcat ==
  ASSUME NEW C, NEW s \in Plain(C), NEW t \in Plain(C)
  PROVE  s \o t \in Plain(C)
<1>1. s \in Seq(C) /\ t \in Seq(C) /\ Ordered(t) /\ Whole(t)
  BY DEF Plain
<1>2. s \o t \in Seq(C) /\ Ordered(s \o t) /\ Whole(s \o t)
  BY <1>1, PlainFirst
<1>3. ASSUME NEW i \in DOMAIN (s \o t) PROVE (s \o t)[i].call \notin Openers \cup Ends
  <2>1. \/ i \in DOMAIN s /\ (s \o t)[i] = s[i]
        \/ i - Len(s) \in DOMAIN t /\ (s \o t)[i] = t[i - Len(s)]
    BY <1>1
  <2> QED BY <2>1 DEF Plain
<1> QED BY <1>2, <1>3 DEF Plain

-----------------------------------------------------------------------------
(* The lists that the code puts together *)

IsList(l, calls, n, d, b, C) ==
  /\ l \in Seq(C) /\ Ordered(l) /\ Len(l) = Len(calls)
  /\ \A i \in 1..Len(calls) : l[i] = Call(calls[i], n, d, b)
  /\ calls # <<>> => Head(l) = Call(calls[1], n, d, b)

LEMMA CallsList ==
  ASSUME NEW C, NEW calls \in Seq(Verb), NEW n, NEW d, NEW b,
         \A i \in 1..Len(calls) : Call(calls[i], n, d, b) \in C,
         \A i \in 2..Len(calls) : Follows(Call(calls[i - 1], n, d, b), Call(calls[i], n, d, b)),
         \A i, j \in 1..Len(calls) : i < j => Later(Call(calls[i], n, d, b), Call(calls[j], n, d, b))
  PROVE  IsList(Calls(calls, n, d, b), calls, n, d, b, C)
<1> DEFINE l == Calls(calls, n, d, b)
<1>1. DOMAIN calls = 1..Len(calls) /\ Len(calls) \in Nat
  OBVIOUS
<1>2. l \in Seq(C) /\ Len(l) = Len(calls) /\ \A i \in 1..Len(calls) : l[i] = Call(calls[i], n, d, b)
  BY <1>1 DEF Calls
<1> HIDE DEF l
<1>3. \A i \in 2..Len(l) : Follows(l[i - 1], l[i])
  BY <1>1, <1>2
<1>4. \A i, j \in 1..Len(l) : i < j => Later(l[i], l[j])
  BY <1>1, <1>2
<1>5. calls # <<>> => Head(l) = l[1] /\ 1 \in 1..Len(calls)
  BY <1>1, <1>2
<1> QED BY <1>2, <1>3, <1>4, <1>5 DEF Ordered, l, IsList

\* A list of calls of one block about one name, none of which installs a key or ends a command.
OneBlock(l, calls, n, d, b, C) ==
  /\ l \in Seq(C) /\ Ordered(l) /\ Len(l) = Len(calls) /\ l # <<>>
  /\ Head(l) = Call(calls[1], n, d, b) /\ l[Len(l)] = Call(calls[Len(calls)], n, d, b)
  /\ \A i \in DOMAIN l : /\ l[i].call \notin Openers \cup Ends
                         /\ l[i].name = n /\ l[i].block = b
  /\ ~Dependent(Call(calls[1], n, d, b)) => l \in Plain(C)

LEMMA PlainCalls ==
  ASSUME NEW C, NEW calls \in Seq(Verb), NEW n, NEW d, NEW b, calls # <<>>,
         \A i \in 1..Len(calls) : /\ Call(calls[i], n, d, b) \in C
                                  /\ calls[i] \notin Openers \cup Ends,
         \A i \in 2..Len(calls) : Follows(Call(calls[i - 1], n, d, b), Call(calls[i], n, d, b))
  PROVE  OneBlock(Calls(calls, n, d, b), calls, n, d, b, C)
<1>1. \A i, j \in 1..Len(calls) : i < j => Later(Call(calls[i], n, d, b), Call(calls[j], n, d, b))
  BY DEF Later, Call
<1>2. IsList(Calls(calls, n, d, b), calls, n, d, b, C)
  BY <1>1, CallsList
<1> DEFINE l == Calls(calls, n, d, b)
<1> HIDE DEF l
<1>3. /\ l \in Seq(C) /\ Ordered(l) /\ Len(l) = Len(calls)
      /\ \A i \in 1..Len(calls) : l[i] = Call(calls[i], n, d, b)
      /\ Head(l) = Call(calls[1], n, d, b)
      /\ DOMAIN l = 1..Len(l) /\ Len(l) \in 1..Len(l) /\ l # <<>>
  BY <1>2 DEF IsList, l
<1>4. ASSUME NEW i \in DOMAIN l
      PROVE  l[i].call \notin Openers \cup Ends /\ l[i].name = n /\ l[i].block = b
  <2>1. i \in 1..Len(calls) /\ l[i] = Call(calls[i], n, d, b)
    BY <1>3
  <2> QED BY <2>1 DEF Call
<1>5. ~Dependent(Call(calls[1], n, d, b)) => l \in Plain(C)
  BY <1>3, <1>4 DEF Plain, Whole
<1> QED BY <1>3, <1>4, <1>5 DEF OneBlock, l

LEMMA OneCall ==
  ASSUME NEW C, NEW t \in C
  PROVE  /\ <<t>> \in Seq(C) /\ Ordered(<<t>>) /\ Len(<<t>>) = 1 /\ Head(<<t>>) = t
         /\ t.call \notin Openers \cup Ends /\ ~Dependent(t) => <<t>> \in Plain(C)
BY DEF Plain, Whole, Ordered

LEMMA CallTypes ==
  ASSUME NEW N \in SUBSET Name, NEW S \in SUBSET N, NEW c \in Verb, NEW n \in Name \cup {Absent},
         NEW d \in Domain, NEW b \in Block,
         /\ c \notin Nameless => n \in N
         /\ c \in SshCalls => n \in S
         /\ c \in {"save-activity", "start-private"} => b = "relocation"
         /\ c \in {"install", "open-gateway"} => b = "forward"
         /\ c \in Ends => b = "plain"
         /\ b = "relocation" => c \in RelocationCalls
         /\ b = "forward" => c \in ForwardCalls
         /\ b = "host" => c \in KeyCalls
         /\ b = "publish" => c \notin Nameless \cup SshCalls
         /\ c = "unforward" => b # "publish"
  PROVE  Call(c, n, d, b) \in CallType(N, S)
BY DEF Call, CallType, CallRecord

LEMMA Calls1 ==
  ASSUME NEW C, NEW n, NEW d, NEW b, NEW p \in Verb,
         {Call(p, n, d, b)} \subseteq C,
         {p} \cap (Openers \cup Ends) = {}
  PROVE  OneBlock(Calls(<<p>>, n, d, b), <<p>>, n, d, b, C)
<1> DEFINE c == <<p>>
<1>1. c \in Seq(Verb) /\ Len(c) = 1 /\ c # <<>> /\ c[1] = p
  OBVIOUS
<1> HIDE DEF c
<1>2. \A i \in 1..1 : i = 1
  OBVIOUS
<1>3. \A i \in 1..1 : Call(c[i], n, d, b) \in C /\ c[i] \notin Openers \cup Ends
  BY <1>1, <1>2
<1>4. 2..1 = {}
  OBVIOUS
<1> QED BY <1>1, <1>3, <1>4, PlainCalls DEF c

LEMMA Calls2 ==
  ASSUME NEW C, NEW n, NEW d, NEW b, NEW p \in Verb, NEW q \in Verb,
         {Call(p, n, d, b), Call(q, n, d, b)} \subseteq C,
         {p, q} \cap (Openers \cup Ends) = {},
         Follows(Call(p, n, d, b), Call(q, n, d, b))
  PROVE  OneBlock(Calls(<<p, q>>, n, d, b), <<p, q>>, n, d, b, C)
<1> DEFINE c == <<p, q>>
<1>1. c \in Seq(Verb) /\ Len(c) = 2 /\ c # <<>> /\ c[1] = p /\ c[2] = q
  OBVIOUS
<1> HIDE DEF c
<1>2. \A i \in 1..2 : i = 1 \/ i = 2
  OBVIOUS
<1>3. \A i \in 1..2 : Call(c[i], n, d, b) \in C /\ c[i] \notin Openers \cup Ends
  BY <1>1, <1>2
<1>4. \A i \in 2..2 : Follows(Call(c[i - 1], n, d, b), Call(c[i], n, d, b))
  <2>1. Follows(Call(c[2 - 1], n, d, b), Call(c[2], n, d, b))
    BY <1>1
  <2>2. \A i \in 2..2 : i = 2
    OBVIOUS
  <2> QED BY <2>1, <2>2
<1> QED BY <1>1, <1>3, <1>4, PlainCalls DEF c

LEMMA Calls3 ==
  ASSUME NEW C, NEW n, NEW d, NEW b, NEW p \in Verb, NEW q \in Verb, NEW r \in Verb,
         {Call(p, n, d, b), Call(q, n, d, b), Call(r, n, d, b)} \subseteq C,
         {p, q, r} \cap (Openers \cup Ends) = {},
         Follows(Call(p, n, d, b), Call(q, n, d, b)),
         Follows(Call(q, n, d, b), Call(r, n, d, b))
  PROVE  OneBlock(Calls(<<p, q, r>>, n, d, b), <<p, q, r>>, n, d, b, C)
<1> DEFINE c == <<p, q, r>>
<1>1. c \in Seq(Verb) /\ Len(c) = 3 /\ c # <<>> /\ c[1] = p /\ c[2] = q /\ c[3] = r
  OBVIOUS
<1> HIDE DEF c
<1>2. \A i \in 1..3 : i = 1 \/ i = 2 \/ i = 3
  OBVIOUS
<1>3. \A i \in 1..3 : Call(c[i], n, d, b) \in C /\ c[i] \notin Openers \cup Ends
  BY <1>1, <1>2
<1>4. \A i \in 2..3 : Follows(Call(c[i - 1], n, d, b), Call(c[i], n, d, b))
  <2>1. Follows(Call(c[2 - 1], n, d, b), Call(c[2], n, d, b))
    BY <1>1
  <2>2. Follows(Call(c[3 - 1], n, d, b), Call(c[3], n, d, b))
    BY <1>1
  <2>3. \A i \in 2..3 : i = 2 \/ i = 3
    OBVIOUS
  <2> QED BY <2>1, <2>2, <2>3
<1> QED BY <1>1, <1>3, <1>4, PlainCalls DEF c

LEMMA Calls4 ==
  ASSUME NEW C, NEW n, NEW d, NEW b, NEW p \in Verb, NEW q \in Verb, NEW r \in Verb, NEW s \in Verb,
         {Call(p, n, d, b), Call(q, n, d, b), Call(r, n, d, b), Call(s, n, d, b)} \subseteq C,
         {p, q, r, s} \cap (Openers \cup Ends) = {},
         Follows(Call(p, n, d, b), Call(q, n, d, b)),
         Follows(Call(q, n, d, b), Call(r, n, d, b)),
         Follows(Call(r, n, d, b), Call(s, n, d, b))
  PROVE  OneBlock(Calls(<<p, q, r, s>>, n, d, b), <<p, q, r, s>>, n, d, b, C)
<1> DEFINE c == <<p, q, r, s>>
<1>1. c \in Seq(Verb) /\ Len(c) = 4 /\ c # <<>> /\ c[1] = p /\ c[2] = q /\ c[3] = r /\ c[4] = s
  OBVIOUS
<1> HIDE DEF c
<1>2. \A i \in 1..4 : i = 1 \/ i = 2 \/ i = 3 \/ i = 4
  OBVIOUS
<1>3. \A i \in 1..4 : Call(c[i], n, d, b) \in C /\ c[i] \notin Openers \cup Ends
  BY <1>1, <1>2
<1>4. \A i \in 2..4 : Follows(Call(c[i - 1], n, d, b), Call(c[i], n, d, b))
  <2>1. Follows(Call(c[2 - 1], n, d, b), Call(c[2], n, d, b))
    BY <1>1
  <2>2. Follows(Call(c[3 - 1], n, d, b), Call(c[3], n, d, b))
    BY <1>1
  <2>3. Follows(Call(c[4 - 1], n, d, b), Call(c[4], n, d, b))
    BY <1>1
  <2>4. \A i \in 2..4 : i = 2 \/ i = 3 \/ i = 4
    OBVIOUS
  <2> QED BY <2>1, <2>2, <2>3, <2>4
<1> QED BY <1>1, <1>3, <1>4, PlainCalls DEF c

LEMMA Calls5 ==
  ASSUME NEW C, NEW n, NEW d, NEW b, NEW p \in Verb, NEW q \in Verb, NEW r \in Verb, NEW s \in Verb,
         NEW t \in Verb,
         {Call(p, n, d, b), Call(q, n, d, b), Call(r, n, d, b), Call(s, n, d, b),
         Call(t, n, d, b)} \subseteq C,
         {p, q, r, s, t} \cap (Openers \cup Ends) = {},
         Follows(Call(p, n, d, b), Call(q, n, d, b)),
         Follows(Call(q, n, d, b), Call(r, n, d, b)),
         Follows(Call(r, n, d, b), Call(s, n, d, b)),
         Follows(Call(s, n, d, b), Call(t, n, d, b))
  PROVE  OneBlock(Calls(<<p, q, r, s, t>>, n, d, b), <<p, q, r, s, t>>, n, d, b, C)
<1> DEFINE c == <<p, q, r, s, t>>
<1>1. c \in Seq(Verb) /\ Len(c) = 5 /\ c # <<>> /\ c[1] = p /\ c[2] = q /\ c[3] = r /\ c[4] = s
      /\ c[5] = t
  OBVIOUS
<1> HIDE DEF c
<1>2. \A i \in 1..5 : i = 1 \/ i = 2 \/ i = 3 \/ i = 4 \/ i = 5
  OBVIOUS
<1>3. \A i \in 1..5 : Call(c[i], n, d, b) \in C /\ c[i] \notin Openers \cup Ends
  BY <1>1, <1>2
<1>4. \A i \in 2..5 : Follows(Call(c[i - 1], n, d, b), Call(c[i], n, d, b))
  <2>1. Follows(Call(c[2 - 1], n, d, b), Call(c[2], n, d, b))
    BY <1>1
  <2>2. Follows(Call(c[3 - 1], n, d, b), Call(c[3], n, d, b))
    BY <1>1
  <2>3. Follows(Call(c[4 - 1], n, d, b), Call(c[4], n, d, b))
    BY <1>1
  <2>4. Follows(Call(c[5 - 1], n, d, b), Call(c[5], n, d, b))
    BY <1>1
  <2>5. \A i \in 2..5 : i = 2 \/ i = 3 \/ i = 4 \/ i = 5
    OBVIOUS
  <2> QED BY <2>1, <2>2, <2>3, <2>4, <2>5
<1> QED BY <1>1, <1>3, <1>4, PlainCalls DEF c

-----------------------------------------------------------------------------
(* The lists that the code writes down *)

LEMMA RevokeList ==
  ASSUME NEW N \in SUBSET Name, NEW S \in SUBSET N, NEW n \in Name \cup {Absent},
         NEW d \in Domain, NEW b \in {"undo", "revoke", "plain"}
  PROVE  LET calls == <<"revoke-keys", "disable-record", "terminate", "stop-daemon">>
         IN OneBlock(Calls(calls, n, d, b), calls, n, d, b, CallType(N, S))
<1> DEFINE C == CallType(N, S)
<1>1. {"revoke-keys", "disable-record", "terminate", "stop-daemon"} \subseteq Verb
      /\ {"revoke-keys", "disable-record", "terminate", "stop-daemon"} \cap (Openers \cup Ends) = {}
  BY DEF Verb, Nameless, SshCalls, Openers, Starters, Ends
<1>2. b \in Block
  BY DEF Block, SoftBlocks
<1>3. ASSUME NEW c \in {"revoke-keys", "disable-record", "terminate", "stop-daemon"}
      PROVE Call(c, n, d, b) \in C
  BY <1>1, <1>2, CallTypes DEF Nameless, SshCalls, Ends, RelocationCalls, ForwardCalls, KeyCalls, Block,
     SoftBlocks
<1>4. Follows(Call("revoke-keys", n, d, b), Call("disable-record", n, d, b))
  BY DEF Call, Follows, FollowsInAdmin, FollowsInKeys, Forwards, Ends
<1>5. Follows(Call("disable-record", n, d, b), Call("terminate", n, d, b))
  BY DEF Call, Follows, FollowsInAdmin, FollowsInKeys, Forwards, Ends
<1>6. Follows(Call("terminate", n, d, b), Call("stop-daemon", n, d, b))
  BY DEF Call, Follows, FollowsInAdmin, FollowsInKeys, Forwards, Ends
<1>7. {Call("revoke-keys", n, d, b), Call("disable-record", n, d, b), Call("terminate", n, d, b),
      Call("stop-daemon", n, d, b)} \subseteq C
  BY <1>3
<1> HIDE DEF C
<1> QED BY <1>1, <1>7, <1>4, <1>5, <1>6, Calls4 DEF C

LEMMA CheckStreamList ==
  ASSUME NEW N \in SUBSET Name, NEW S \in SUBSET N, NEW n \in N,
         NEW d \in Domain, NEW b \in {"plain", "publish"}
  PROVE  LET calls == <<"check-slot", "check-forwarding", "check-dns">>
         IN OneBlock(Calls(calls, n, d, b), calls, n, d, b, CallType(N, S))
<1> DEFINE C == CallType(N, S)
<1>1. {"check-slot", "check-forwarding", "check-dns"} \subseteq Verb
      /\ {"check-slot", "check-forwarding", "check-dns"} \cap (Openers \cup Ends) = {}
  BY DEF Verb, Nameless, SshCalls, Openers, Starters, Ends
<1>2. b \in Block
  BY DEF Block, SoftBlocks
<1>3. ASSUME NEW c \in {"check-slot", "check-forwarding", "check-dns"} PROVE Call(c, n, d, b) \in C
  BY <1>1, <1>2, CallTypes DEF Nameless, SshCalls, Ends, RelocationCalls, ForwardCalls, KeyCalls, Block,
     SoftBlocks
<1>4. Follows(Call("check-slot", n, d, b), Call("check-forwarding", n, d, b))
  BY DEF Call, Follows, FollowsInAdmin, FollowsInKeys, Forwards, Ends
<1>5. Follows(Call("check-forwarding", n, d, b), Call("check-dns", n, d, b))
  BY DEF Call, Follows, FollowsInAdmin, FollowsInKeys, Forwards, Ends
<1>6. {Call("check-slot", n, d, b), Call("check-forwarding", n, d, b),
      Call("check-dns", n, d, b)} \subseteq C
  BY <1>3
<1> HIDE DEF C
<1> QED BY <1>1, <1>6, <1>4, <1>5, Calls3 DEF C

LEMMA ForwardList ==
  ASSUME NEW N \in SUBSET Name, NEW S \in SUBSET N, NEW n \in N,
         NEW d \in Domain
  PROVE  LET calls == <<"close-gateway", "install", "open-gateway">>
         IN OneBlock(Calls(calls, n, d, "forward"), calls, n, d, "forward", CallType(N, S))
<1> DEFINE C == CallType(N, S)
<1>1. {"close-gateway", "install", "open-gateway"} \subseteq Verb
      /\ {"close-gateway", "install", "open-gateway"} \cap (Openers \cup Ends) = {}
  BY DEF Verb, Nameless, SshCalls, Openers, Starters, Ends
<1>2. "forward" \in Block
  BY DEF Block, SoftBlocks
<1>3. ASSUME NEW c \in {"close-gateway", "install", "open-gateway"} PROVE Call(c, n, d, "forward") \in C
  BY <1>1, <1>2, CallTypes DEF Nameless, SshCalls, Ends, RelocationCalls, ForwardCalls, KeyCalls, Block,
     SoftBlocks
<1>4. Follows(Call("close-gateway", n, d, "forward"), Call("install", n, d, "forward"))
  BY DEF Call, Follows, FollowsInAdmin, FollowsInKeys, Forwards, Ends
<1>5. Follows(Call("install", n, d, "forward"), Call("open-gateway", n, d, "forward"))
  BY DEF Call, Follows, FollowsInAdmin, FollowsInKeys, Forwards, Ends
<1>6. {Call("close-gateway", n, d, "forward"), Call("install", n, d, "forward"),
      Call("open-gateway", n, d, "forward")} \subseteq C
  BY <1>3
<1> HIDE DEF C
<1> QED BY <1>1, <1>6, <1>4, <1>5, Calls3 DEF C

LEMMA NameList ==
  ASSUME NEW N \in SUBSET Name, NEW S \in SUBSET N, NEW n \in N,
         NEW d \in Domain
  PROVE  LET calls == <<"publish-record", "inspect">>
         IN OneBlock(Calls(calls, n, d, "publish"), calls, n, d, "publish", CallType(N, S))
<1> DEFINE C == CallType(N, S)
<1>1. {"publish-record", "inspect"} \subseteq Verb /\ {"publish-record", "inspect"}
      \cap (Openers \cup Ends) = {}
  BY DEF Verb, Nameless, SshCalls, Openers, Starters, Ends
<1>2. "publish" \in Block
  BY DEF Block, SoftBlocks
<1>3. ASSUME NEW c \in {"publish-record", "inspect"} PROVE Call(c, n, d, "publish") \in C
  BY <1>1, <1>2, CallTypes DEF Nameless, SshCalls, Ends, RelocationCalls, ForwardCalls, KeyCalls, Block,
     SoftBlocks
<1>4. Follows(Call("publish-record", n, d, "publish"), Call("inspect", n, d, "publish"))
  BY DEF Call, Follows, FollowsInAdmin, FollowsInKeys, Forwards, Ends
<1>5. {Call("publish-record", n, d, "publish"), Call("inspect", n, d, "publish")} \subseteq C
  BY <1>3
<1> HIDE DEF C
<1> QED BY <1>1, <1>5, <1>4, Calls2 DEF C

LEMMA WebList ==
  ASSUME NEW N \in SUBSET Name, NEW S \in SUBSET N, NEW n \in N,
         NEW d \in Domain
  PROVE  LET calls == <<"check-slot", "check-web", "publish-record", "publish-route", "inspect">>
         IN OneBlock(Calls(calls, n, d, "publish"), calls, n, d, "publish", CallType(N, S))
<1> DEFINE C == CallType(N, S)
<1>1. {"check-slot", "check-web", "publish-record", "publish-route", "inspect"} \subseteq Verb
      /\ {"check-slot", "check-web", "publish-record", "publish-route", "inspect"}
      \cap (Openers \cup Ends) = {}
  BY DEF Verb, Nameless, SshCalls, Openers, Starters, Ends
<1>2. "publish" \in Block
  BY DEF Block, SoftBlocks
<1>3. ASSUME NEW c \in {"check-slot", "check-web", "publish-record", "publish-route", "inspect"}
      PROVE Call(c, n, d, "publish") \in C
  BY <1>1, <1>2, CallTypes DEF Nameless, SshCalls, Ends, RelocationCalls, ForwardCalls, KeyCalls, Block,
     SoftBlocks
<1>4. Follows(Call("check-slot", n, d, "publish"), Call("check-web", n, d, "publish"))
  BY DEF Call, Follows, FollowsInAdmin, FollowsInKeys, Forwards, Ends
<1>5. Follows(Call("check-web", n, d, "publish"), Call("publish-record", n, d, "publish"))
  BY DEF Call, Follows, FollowsInAdmin, FollowsInKeys, Forwards, Ends
<1>6. Follows(Call("publish-record", n, d, "publish"), Call("publish-route", n, d, "publish"))
  BY DEF Call, Follows, FollowsInAdmin, FollowsInKeys, Forwards, Ends
<1>7. Follows(Call("publish-route", n, d, "publish"), Call("inspect", n, d, "publish"))
  BY DEF Call, Follows, FollowsInAdmin, FollowsInKeys, Forwards, Ends
<1>8. {Call("check-slot", n, d, "publish"), Call("check-web", n, d, "publish"),
      Call("publish-record", n, d, "publish"), Call("publish-route", n, d, "publish"),
      Call("inspect", n, d, "publish")} \subseteq C
  BY <1>3
<1> HIDE DEF C
<1> QED BY <1>1, <1>8, <1>4, <1>5, <1>6, <1>7, Calls5 DEF C

LEMMA UninstallList ==
  ASSUME NEW N \in SUBSET Name, NEW S \in SUBSET N, NEW n \in Name \cup {Absent},
         NEW d \in Domain
  PROVE  LET calls == <<"check-owned", "remove-unit", "reload", "remove-record", "remove-files">>
         IN OneBlock(Calls(calls, n, d, "plain"), calls, n, d, "plain", CallType(N, S))
<1> DEFINE C == CallType(N, S)
<1>1. {"check-owned", "remove-unit", "reload", "remove-record", "remove-files"} \subseteq Verb
      /\ {"check-owned", "remove-unit", "reload", "remove-record", "remove-files"}
      \cap (Openers \cup Ends) = {}
  BY DEF Verb, Nameless, SshCalls, Openers, Starters, Ends
<1>2. "plain" \in Block
  BY DEF Block, SoftBlocks
<1>3. ASSUME NEW c \in {"check-owned", "remove-unit", "reload", "remove-record", "remove-files"}
      PROVE Call(c, n, d, "plain") \in C
  BY <1>1, <1>2, CallTypes DEF Nameless, SshCalls, Ends, RelocationCalls, ForwardCalls, KeyCalls, Block,
     SoftBlocks
<1>4. Follows(Call("check-owned", n, d, "plain"), Call("remove-unit", n, d, "plain"))
  BY DEF Call, Follows, FollowsInAdmin, FollowsInKeys, Forwards, Ends
<1>5. Follows(Call("remove-unit", n, d, "plain"), Call("reload", n, d, "plain"))
  BY DEF Call, Follows, FollowsInAdmin, FollowsInKeys, Forwards, Ends
<1>6. Follows(Call("reload", n, d, "plain"), Call("remove-record", n, d, "plain"))
  BY DEF Call, Follows, FollowsInAdmin, FollowsInKeys, Forwards, Ends
<1>7. Follows(Call("remove-record", n, d, "plain"), Call("remove-files", n, d, "plain"))
  BY DEF Call, Follows, FollowsInAdmin, FollowsInKeys, Forwards, Ends
<1>8. {Call("check-owned", n, d, "plain"), Call("remove-unit", n, d, "plain"),
      Call("reload", n, d, "plain"), Call("remove-record", n, d, "plain"),
      Call("remove-files", n, d, "plain")} \subseteq C
  BY <1>3
<1> HIDE DEF C
<1> QED BY <1>1, <1>8, <1>4, <1>5, <1>6, <1>7, Calls5 DEF C

LEMMA UndoList ==
  ASSUME NEW N \in SUBSET Name, NEW S \in SUBSET N, NEW n \in S,
         NEW d \in Domain
  PROVE  LET calls == <<"undo-units", "close-gateway", "restore">>
         IN OneBlock(Calls(calls, n, d, "undo"), calls, n, d, "undo", CallType(N, S))
<1> DEFINE C == CallType(N, S)
<1>1. {"undo-units", "close-gateway", "restore"} \subseteq Verb
      /\ {"undo-units", "close-gateway", "restore"} \cap (Openers \cup Ends) = {}
  BY DEF Verb, Nameless, SshCalls, Openers, Starters, Ends
<1>2. "undo" \in Block
  BY DEF Block, SoftBlocks
<1>3. ASSUME NEW c \in {"undo-units", "close-gateway", "restore"} PROVE Call(c, n, d, "undo") \in C
  BY <1>1, <1>2, CallTypes DEF Nameless, SshCalls, Ends, RelocationCalls, ForwardCalls, KeyCalls, Block,
     SoftBlocks
<1>4. Follows(Call("undo-units", n, d, "undo"), Call("close-gateway", n, d, "undo"))
  BY DEF Call, Follows, FollowsInAdmin, FollowsInKeys, Forwards, Ends
<1>5. Follows(Call("close-gateway", n, d, "undo"), Call("restore", n, d, "undo"))
  BY DEF Call, Follows, FollowsInAdmin, FollowsInKeys, Forwards, Ends
<1>6. {Call("undo-units", n, d, "undo"), Call("close-gateway", n, d, "undo"),
      Call("restore", n, d, "undo")} \subseteq C
  BY <1>3
<1> HIDE DEF C
<1> QED BY <1>1, <1>6, <1>4, <1>5, Calls3 DEF C

LEMMA RestoreList ==
  ASSUME NEW N \in SUBSET Name, NEW S \in SUBSET N, NEW n \in S,
         NEW d \in Domain, NEW b \in Block \ {"host", "relocation", "forward", "publish"}
  PROVE  LET calls == <<"stop-admin", "start-stock", "forget-activity">>
         IN OneBlock(Calls(calls, n, d, b), calls, n, d, b, CallType(N, S))
<1> DEFINE C == CallType(N, S)
<1>1. {"stop-admin", "start-stock", "forget-activity"} \subseteq Verb
      /\ {"stop-admin", "start-stock", "forget-activity"} \cap (Openers \cup Ends) = {}
  BY DEF Verb, Nameless, SshCalls, Openers, Starters, Ends
<1>2. b \in Block
  BY DEF Block, SoftBlocks
<1>3. ASSUME NEW c \in {"stop-admin", "start-stock", "forget-activity"} PROVE Call(c, n, d, b) \in C
  BY <1>1, <1>2, CallTypes DEF Nameless, SshCalls, Ends, RelocationCalls, ForwardCalls, KeyCalls, Block,
     SoftBlocks
<1>4. Follows(Call("stop-admin", n, d, b), Call("start-stock", n, d, b))
  BY DEF Call, Follows, FollowsInAdmin, FollowsInKeys, Forwards, Ends
<1>5. Follows(Call("start-stock", n, d, b), Call("forget-activity", n, d, b))
  BY DEF Call, Follows, FollowsInAdmin, FollowsInKeys, Forwards, Ends
<1>6. {Call("stop-admin", n, d, b), Call("start-stock", n, d, b),
      Call("forget-activity", n, d, b)} \subseteq C
  BY <1>3
<1> HIDE DEF C
<1> QED BY <1>1, <1>6, <1>4, <1>5, Calls3 DEF C

LEMMA RelocateList ==
  ASSUME NEW N \in SUBSET Name, NEW S \in SUBSET N, NEW n \in S,
         NEW d \in Domain
  PROVE  LET calls == <<"save-activity", "stop-admin", "start-private">>
         IN OneBlock(Calls(calls, n, d, "relocation"), calls, n, d, "relocation", CallType(N, S))
<1> DEFINE C == CallType(N, S)
<1>1. {"save-activity", "stop-admin", "start-private"} \subseteq Verb
      /\ {"save-activity", "stop-admin", "start-private"} \cap (Openers \cup Ends) = {}
  BY DEF Verb, Nameless, SshCalls, Openers, Starters, Ends
<1>2. "relocation" \in Block
  BY DEF Block, SoftBlocks
<1>3. ASSUME NEW c \in {"save-activity", "stop-admin", "start-private"}
      PROVE Call(c, n, d, "relocation") \in C
  BY <1>1, <1>2, CallTypes DEF Nameless, SshCalls, Ends, RelocationCalls, ForwardCalls, KeyCalls, Block,
     SoftBlocks
<1>4. Follows(Call("save-activity", n, d, "relocation"), Call("stop-admin", n, d, "relocation"))
  BY DEF Call, Follows, FollowsInAdmin, FollowsInKeys, Forwards, Ends
<1>5. Follows(Call("stop-admin", n, d, "relocation"), Call("start-private", n, d, "relocation"))
  BY DEF Call, Follows, FollowsInAdmin, FollowsInKeys, Forwards, Ends
<1>6. {Call("save-activity", n, d, "relocation"), Call("stop-admin", n, d, "relocation"),
      Call("start-private", n, d, "relocation")} \subseteq C
  BY <1>3
<1> HIDE DEF C
<1> QED BY <1>1, <1>6, <1>4, <1>5, Calls3 DEF C

LEMMA CloseList ==
  ASSUME NEW N \in SUBSET Name, NEW S \in SUBSET N, NEW n \in N,
         NEW d \in Domain, NEW b \in Block \ {"host", "relocation", "forward", "publish"}
  PROVE  LET calls == <<"close-gateway">>
         IN OneBlock(Calls(calls, n, d, b), calls, n, d, b, CallType(N, S))
<1> DEFINE C == CallType(N, S)
<1>1. {"close-gateway"} \subseteq Verb /\ {"close-gateway"} \cap (Openers \cup Ends) = {}
  BY DEF Verb, Nameless, SshCalls, Openers, Starters, Ends
<1>2. b \in Block
  BY DEF Block, SoftBlocks
<1>3. ASSUME NEW c \in {"close-gateway"} PROVE Call(c, n, d, b) \in C
  BY <1>1, <1>2, CallTypes DEF Nameless, SshCalls, Ends, RelocationCalls, ForwardCalls, KeyCalls, Block,
     SoftBlocks
<1>4. {Call("close-gateway", n, d, b)} \subseteq C
  BY <1>3
<1> HIDE DEF C
<1> QED BY <1>1, <1>4, Calls1 DEF C

LEMMA CloseRemoveList ==
  ASSUME NEW N \in SUBSET Name, NEW S \in SUBSET N, NEW n \in N,
         NEW d \in Domain, NEW b \in Block \ {"host", "relocation", "forward", "publish"}
  PROVE  LET calls == <<"close-gateway", "remove-forwarding">>
         IN OneBlock(Calls(calls, n, d, b), calls, n, d, b, CallType(N, S))
<1> DEFINE C == CallType(N, S)
<1>1. {"close-gateway", "remove-forwarding"} \subseteq Verb
      /\ {"close-gateway", "remove-forwarding"} \cap (Openers \cup Ends) = {}
  BY DEF Verb, Nameless, SshCalls, Openers, Starters, Ends
<1>2. b \in Block
  BY DEF Block, SoftBlocks
<1>3. ASSUME NEW c \in {"close-gateway", "remove-forwarding"} PROVE Call(c, n, d, b) \in C
  BY <1>1, <1>2, CallTypes DEF Nameless, SshCalls, Ends, RelocationCalls, ForwardCalls, KeyCalls, Block,
     SoftBlocks
<1>4. Follows(Call("close-gateway", n, d, b), Call("remove-forwarding", n, d, b))
  BY DEF Call, Follows, FollowsInAdmin, FollowsInKeys, Forwards, Ends
<1>5. {Call("close-gateway", n, d, b), Call("remove-forwarding", n, d, b)} \subseteq C
  BY <1>3
<1> HIDE DEF C
<1> QED BY <1>1, <1>5, <1>4, Calls2 DEF C

LEMMA CloseRestoreList ==
  ASSUME NEW N \in SUBSET Name, NEW S \in SUBSET N, NEW n \in S,
         NEW d \in Domain, NEW b \in Block \ {"host", "relocation", "forward", "publish"}
  PROVE  LET calls == <<"close-gateway", "restore">>
         IN OneBlock(Calls(calls, n, d, b), calls, n, d, b, CallType(N, S))
<1> DEFINE C == CallType(N, S)
<1>1. {"close-gateway", "restore"} \subseteq Verb /\ {"close-gateway", "restore"}
      \cap (Openers \cup Ends) = {}
  BY DEF Verb, Nameless, SshCalls, Openers, Starters, Ends
<1>2. b \in Block
  BY DEF Block, SoftBlocks
<1>3. ASSUME NEW c \in {"close-gateway", "restore"} PROVE Call(c, n, d, b) \in C
  BY <1>1, <1>2, CallTypes DEF Nameless, SshCalls, Ends, RelocationCalls, ForwardCalls, KeyCalls, Block,
     SoftBlocks
<1>4. Follows(Call("close-gateway", n, d, b), Call("restore", n, d, b))
  BY DEF Call, Follows, FollowsInAdmin, FollowsInKeys, Forwards, Ends
<1>5. {Call("close-gateway", n, d, b), Call("restore", n, d, b)} \subseteq C
  BY <1>3
<1> HIDE DEF C
<1> QED BY <1>1, <1>5, <1>4, Calls2 DEF C

LEMMA CloseRemoveRestoreList ==
  ASSUME NEW N \in SUBSET Name, NEW S \in SUBSET N, NEW n \in S,
         NEW d \in Domain, NEW b \in Block \ {"host", "relocation", "forward", "publish"}
  PROVE  LET calls == <<"close-gateway", "remove-forwarding", "restore">>
         IN OneBlock(Calls(calls, n, d, b), calls, n, d, b, CallType(N, S))
<1> DEFINE C == CallType(N, S)
<1>1. {"close-gateway", "remove-forwarding", "restore"} \subseteq Verb
      /\ {"close-gateway", "remove-forwarding", "restore"} \cap (Openers \cup Ends) = {}
  BY DEF Verb, Nameless, SshCalls, Openers, Starters, Ends
<1>2. b \in Block
  BY DEF Block, SoftBlocks
<1>3. ASSUME NEW c \in {"close-gateway", "remove-forwarding", "restore"} PROVE Call(c, n, d, b) \in C
  BY <1>1, <1>2, CallTypes DEF Nameless, SshCalls, Ends, RelocationCalls, ForwardCalls, KeyCalls, Block,
     SoftBlocks
<1>4. Follows(Call("close-gateway", n, d, b), Call("remove-forwarding", n, d, b))
  BY DEF Call, Follows, FollowsInAdmin, FollowsInKeys, Forwards, Ends
<1>5. Follows(Call("remove-forwarding", n, d, b), Call("restore", n, d, b))
  BY DEF Call, Follows, FollowsInAdmin, FollowsInKeys, Forwards, Ends
<1>6. {Call("close-gateway", n, d, b), Call("remove-forwarding", n, d, b),
      Call("restore", n, d, b)} \subseteq C
  BY <1>3
<1> HIDE DEF C
<1> QED BY <1>1, <1>6, <1>4, <1>5, Calls3 DEF C

LEMMA WithdrawStreamList ==
  ASSUME NEW N \in SUBSET Name, NEW S \in SUBSET N, NEW n \in N,
         NEW d \in Domain
  PROVE  LET calls == <<"delete-record", "unforward">>
         IN OneBlock(Calls(calls, n, d, "withdraw"), calls, n, d, "withdraw", CallType(N, S))
<1> DEFINE C == CallType(N, S)
<1>1. {"delete-record", "unforward"} \subseteq Verb /\ {"delete-record", "unforward"}
      \cap (Openers \cup Ends) = {}
  BY DEF Verb, Nameless, SshCalls, Openers, Starters, Ends
<1>2. "withdraw" \in Block
  BY DEF Block, SoftBlocks
<1>3. ASSUME NEW c \in {"delete-record", "unforward"} PROVE Call(c, n, d, "withdraw") \in C
  BY <1>1, <1>2, CallTypes DEF Nameless, SshCalls, Ends, RelocationCalls, ForwardCalls, KeyCalls, Block,
     SoftBlocks
<1>4. Follows(Call("delete-record", n, d, "withdraw"), Call("unforward", n, d, "withdraw"))
  BY DEF Call, Follows, FollowsInAdmin, FollowsInKeys, Forwards, Ends
<1>5. {Call("delete-record", n, d, "withdraw"), Call("unforward", n, d, "withdraw")} \subseteq C
  BY <1>3
<1> HIDE DEF C
<1> QED BY <1>1, <1>5, <1>4, Calls2 DEF C

LEMMA WithdrawWebList ==
  ASSUME NEW N \in SUBSET Name, NEW S \in SUBSET N, NEW n \in N,
         NEW d \in Domain
  PROVE  LET calls == <<"delete-record", "delete-route">>
         IN OneBlock(Calls(calls, n, d, "withdraw"), calls, n, d, "withdraw", CallType(N, S))
<1> DEFINE C == CallType(N, S)
<1>1. {"delete-record", "delete-route"} \subseteq Verb /\ {"delete-record", "delete-route"}
      \cap (Openers \cup Ends) = {}
  BY DEF Verb, Nameless, SshCalls, Openers, Starters, Ends
<1>2. "withdraw" \in Block
  BY DEF Block, SoftBlocks
<1>3. ASSUME NEW c \in {"delete-record", "delete-route"} PROVE Call(c, n, d, "withdraw") \in C
  BY <1>1, <1>2, CallTypes DEF Nameless, SshCalls, Ends, RelocationCalls, ForwardCalls, KeyCalls, Block,
     SoftBlocks
<1>4. Follows(Call("delete-record", n, d, "withdraw"), Call("delete-route", n, d, "withdraw"))
  BY DEF Call, Follows, FollowsInAdmin, FollowsInKeys, Forwards, Ends
<1>5. {Call("delete-record", n, d, "withdraw"), Call("delete-route", n, d, "withdraw")} \subseteq C
  BY <1>3
<1> HIDE DEF C
<1> QED BY <1>1, <1>5, <1>4, Calls2 DEF C

LEMMA FirstList ==
  ASSUME NEW N \in SUBSET Name, NEW S \in SUBSET N, NEW n \in S,
         NEW d \in Domain
  PROVE  LET calls == <<"make-directory", "write-record", "write-config", "write-unit">>
         IN OneBlock(Calls(calls, n, d, "plain"), calls, n, d, "plain", CallType(N, S))
<1> DEFINE C == CallType(N, S)
<1>1. {"make-directory", "write-record", "write-config", "write-unit"} \subseteq Verb
      /\ {"make-directory", "write-record", "write-config", "write-unit"} \cap (Openers \cup Ends) = {}
  BY DEF Verb, Nameless, SshCalls, Openers, Starters, Ends
<1>2. "plain" \in Block
  BY DEF Block, SoftBlocks
<1>3. ASSUME NEW c \in {"make-directory", "write-record", "write-config", "write-unit"}
      PROVE Call(c, n, d, "plain") \in C
  BY <1>1, <1>2, CallTypes DEF Nameless, SshCalls, Ends, RelocationCalls, ForwardCalls, KeyCalls, Block,
     SoftBlocks
<1>4. Follows(Call("make-directory", n, d, "plain"), Call("write-record", n, d, "plain"))
  BY DEF Call, Follows, FollowsInAdmin, FollowsInKeys, Forwards, Ends
<1>5. Follows(Call("write-record", n, d, "plain"), Call("write-config", n, d, "plain"))
  BY DEF Call, Follows, FollowsInAdmin, FollowsInKeys, Forwards, Ends
<1>6. Follows(Call("write-config", n, d, "plain"), Call("write-unit", n, d, "plain"))
  BY DEF Call, Follows, FollowsInAdmin, FollowsInKeys, Forwards, Ends
<1>7. {Call("make-directory", n, d, "plain"), Call("write-record", n, d, "plain"),
      Call("write-config", n, d, "plain"), Call("write-unit", n, d, "plain")} \subseteq C
  BY <1>3
<1> HIDE DEF C
<1> QED BY <1>1, <1>7, <1>4, <1>5, <1>6, Calls4 DEF C

LEMMA MoveList ==
  ASSUME NEW N \in SUBSET Name, NEW S \in SUBSET N, NEW n \in S,
         NEW d \in Domain
  PROVE  LET calls == <<"write-config", "write-record">>
         IN OneBlock(Calls(calls, n, d, "host"), calls, n, d, "host", CallType(N, S))
<1> DEFINE C == CallType(N, S)
<1>1. {"write-config", "write-record"} \subseteq Verb /\ {"write-config", "write-record"}
      \cap (Openers \cup Ends) = {}
  BY DEF Verb, Nameless, SshCalls, Openers, Starters, Ends
<1>2. "host" \in Block
  BY DEF Block, SoftBlocks
<1>3. ASSUME NEW c \in {"write-config", "write-record"} PROVE Call(c, n, d, "host") \in C
  BY <1>1, <1>2, CallTypes DEF Nameless, SshCalls, Ends, RelocationCalls, ForwardCalls, KeyCalls, Block,
     SoftBlocks
<1>4. Follows(Call("write-config", n, d, "host"), Call("write-record", n, d, "host"))
  BY DEF Call, Follows, FollowsInAdmin, FollowsInKeys, Forwards, Ends
<1>5. {Call("write-config", n, d, "host"), Call("write-record", n, d, "host")} \subseteq C
  BY <1>3
<1> HIDE DEF C
<1> QED BY <1>1, <1>5, <1>4, Calls2 DEF C

-----------------------------------------------------------------------------
(* What is put together from them *)

\* Calls about one name, of some blocks.
About(N, S, n, blocks) == {t \in CallType(N, S) : t.name = n /\ t.block \in blocks}

LEMMA PlainGrows ==
  ASSUME NEW C, NEW D, C \subseteq D, NEW s \in Plain(C)
  PROVE  s \in Plain(D)
BY DEF Plain

LEMMA SubSequence ==
  ASSUME NEW C, NEW D, NEW s \in Seq(C), \A i \in DOMAIN s : s[i] \in D
  PROVE  s \in Seq(D)
OBVIOUS

LEMMA BlockAbout ==
  ASSUME NEW N, NEW S, NEW l, NEW calls, NEW n, NEW d, NEW b, NEW blocks, b \in blocks,
         OneBlock(l, calls, n, d, b, CallType(N, S))
  PROVE  /\ l \in Seq(About(N, S, n, blocks)) /\ Ordered(l)
         /\ ~Dependent(Call(calls[1], n, d, b)) => l \in Plain(About(N, S, n, blocks))
<1> DEFINE C == CallType(N, S)
           D == About(N, S, n, blocks)
<1>1. /\ l \in Seq(C) /\ Ordered(l) /\ l # <<>> /\ Head(l) = Call(calls[1], n, d, b)
      /\ \A i \in DOMAIN l : l[i].call \notin Openers \cup Ends /\ l[i].name = n /\ l[i].block = b
  BY DEF OneBlock
<1>2. \A i \in DOMAIN l : l[i] \in C
  BY <1>1
<1>3. \A i \in DOMAIN l : l[i] \in D
  BY <1>1, <1>2 DEF About
<1> HIDE DEF C, D
<1>4. l \in Seq(D)
  BY <1>1, <1>3, SubSequence
<1>5. ~Dependent(Call(calls[1], n, d, b)) => l \in Plain(D)
  BY <1>1, <1>4 DEF Plain, Whole
<1> QED BY <1>1, <1>4, <1>5 DEF D

LEMMA AboutGrows ==
  ASSUME NEW N, NEW S, NEW n, NEW blocks, NEW more, blocks \subseteq more
  PROVE  About(N, S, n, blocks) \subseteq About(N, S, n, more) /\ About(N, S, n, more)
         \subseteq CallType(N, S)
BY DEF About

LEMMA HeadConcat ==
  ASSUME NEW C, NEW s \in Seq(C), NEW t \in Seq(C), s # <<>>
  PROVE  s \o t # <<>> /\ Head(s \o t) = Head(s)
<1>1. Len(s) \in Nat /\ Len(s) # 0 /\ DOMAIN s = 1..Len(s)
  OBVIOUS
<1>2. Len(s \o t) = Len(s) + Len(t) /\ (s \o t)[1] = s[1] /\ Len(t) \in Nat
  BY <1>1
<1> QED BY <1>1, <1>2

LEMMA PlainAbout ==
  ASSUME NEW N, NEW S, NEW n, NEW blocks, NEW more, blocks \subseteq more,
         NEW s \in Plain(About(N, S, n, blocks))
  PROVE  s \in Plain(About(N, S, n, more)) /\ s \in Plain(CallType(N, S))
<1>1. About(N, S, n, blocks) \subseteq About(N, S, n, more)
  BY AboutGrows
<1>2. About(N, S, n, blocks) \subseteq CallType(N, S)
  BY AboutGrows
<1> QED BY <1>1, <1>2, PlainGrows

LEMMA RevokePlain ==
  ASSUME NEW N \in SUBSET Name, NEW S \in SUBSET N, NEW n \in Name \cup {Absent},
         NEW d \in Domain, NEW b \in {"undo", "revoke", "plain"}
  PROVE  /\ Revoke(n, d, b) \in Plain(About(N, S, n, {b}))
         /\ Revoke(n, d, b) # <<>> /\ Head(Revoke(n, d, b)) = Call("revoke-keys", n, d, b)
         /\ Revoke(n, d, b)[Len(Revoke(n, d, b))] = Call("stop-daemon", n, d, b)
<1> DEFINE calls == <<"revoke-keys", "disable-record", "terminate", "stop-daemon">>
<1>1. OneBlock(Revoke(n, d, b), calls, n, d, b, CallType(N, S))
  BY RevokeList DEF Revoke
<1>2. calls[1] = "revoke-keys" /\ Len(calls) = 4 /\ calls[4] = "stop-daemon"
  OBVIOUS
<1> HIDE DEF calls
<1>3. ~Dependent(Call(calls[1], n, d, b))
  BY <1>2 DEF Call, Dependent, Forwards, AdminSteps, KeySteps
<1>4. Revoke(n, d, b) \in Plain(About(N, S, n, {b}))
  BY <1>1, <1>3, BlockAbout
<1> QED BY <1>1, <1>2, <1>4 DEF OneBlock

LEMMA CheckStreamPlain ==
  ASSUME NEW N \in SUBSET Name, NEW S \in SUBSET N, NEW n \in N, NEW d \in Domain,
         NEW b \in {"plain", "publish"}
  PROVE  /\ CheckStream(n, d, b) \in Plain(About(N, S, n, {b}))
         /\ CheckStream(n, d, b) # <<>>
         /\ CheckStream(n, d, b)[Len(CheckStream(n, d, b))] = Call("check-dns", n, d, b)
<1> DEFINE calls == <<"check-slot", "check-forwarding", "check-dns">>
<1>1. OneBlock(CheckStream(n, d, b), calls, n, d, b, CallType(N, S))
  BY CheckStreamList DEF CheckStream
<1>2. calls[1] = "check-slot" /\ Len(calls) = 3 /\ calls[3] = "check-dns"
  OBVIOUS
<1> HIDE DEF calls
<1>3. ~Dependent(Call(calls[1], n, d, b))
  BY <1>2 DEF Call, Dependent, Forwards, AdminSteps, KeySteps
<1>4. CheckStream(n, d, b) \in Plain(About(N, S, n, {b}))
  BY <1>1, <1>3, BlockAbout
<1> QED BY <1>1, <1>2, <1>4 DEF OneBlock

\* A list may be continued by one that begins with what follows its last call.
LEMMA PlainThen ==
  ASSUME NEW C, NEW s \in Plain(C), NEW t \in Seq(C), Ordered(t), s # <<>>, t # <<>>,
         Follows(s[Len(s)], Head(t)), \A i \in DOMAIN t : t[i].call \notin Openers \cup Ends
  PROVE  s \o t \in Plain(C) /\ s \o t # <<>> /\ (s \o t)[Len(s \o t)] = t[Len(t)]
<1>1. s \in Seq(C) /\ Ordered(s) /\ DOMAIN s = 1..Len(s) /\ Len(s) \in Nat
  BY DEF Plain
<1>2. \A i \in 1..Len(s) : s[i].call \notin Openers
  BY <1>1 DEF Plain
<1>3. \A i \in 1..Len(s), j \in 1..Len(t) : Later(s[i], t[j])
  BY <1>2 DEF Later
<1>4. s \o t \in Seq(C) /\ Ordered(s \o t)
  BY <1>1, <1>3, ConcatOrdered
<1>5. s \o t # <<>> /\ Head(s \o t) = Head(s) /\ (s \o t)[Len(s \o t)] = t[Len(t)]
  BY <1>1
<1>6. ASSUME NEW i \in DOMAIN (s \o t) PROVE (s \o t)[i].call \notin Openers \cup Ends
  <2>1. \/ i \in DOMAIN s /\ (s \o t)[i] = s[i]
        \/ i - Len(s) \in DOMAIN t /\ (s \o t)[i] = t[i - Len(s)]
    BY <1>1
  <2> QED BY <2>1 DEF Plain
<1>7. Whole(s \o t)
  BY <1>5 DEF Plain, Whole
<1> QED BY <1>4, <1>5, <1>6, <1>7 DEF Plain

LEMMA PublishStreamPlain ==
  ASSUME NEW N \in SUBSET Name, NEW S \in SUBSET N, NEW n \in N, NEW d \in Domain
  PROVE  PublishStream(n, d) \in Plain(About(N, S, n, {"publish", "forward"}))
<1> DEFINE C == About(N, S, n, {"publish", "forward"})
           checks == CheckStream(n, d, "publish")
           relocate == Call("relocate", n, d, "publish")
           forward == Calls(<<"close-gateway", "install", "open-gateway">>, n, d, "forward")
           name == Calls(<<"publish-record", "inspect">>, n, d, "publish")
<1>1. /\ checks \in Plain(About(N, S, n, {"publish"})) /\ checks # <<>>
      /\ checks[Len(checks)] = Call("check-dns", n, d, "publish")
  BY CheckStreamPlain
<1>2. {"publish"} \subseteq {"publish", "forward"}
  OBVIOUS
<1>3. checks \in Plain(C)
  <2> HIDE DEF checks
  <2> QED BY <1>1, <1>2, PlainAbout
<1>4. relocate \in C
  <2>1. relocate \in CallType(N, S)
    BY CallTypes DEF Verb, Nameless, SshCalls, Ends, Block, SoftBlocks
  <2> QED BY <2>1 DEF About, Call
<1>5. <<relocate>> \in Seq(C) /\ Ordered(<<relocate>>)
  BY <1>4, OneCall
<1>6. OneBlock(forward, <<"close-gateway", "install", "open-gateway">>, n, d, "forward", CallType(N, S))
  BY ForwardList
<1>7. forward \in Seq(C) /\ Ordered(forward)
  BY <1>6, BlockAbout
<1>8. /\ forward # <<>> /\ Head(forward) = Call("close-gateway", n, d, "forward")
      /\ forward[Len(forward)] = Call("open-gateway", n, d, "forward")
      /\ \A i \in DOMAIN forward : forward[i].call \notin Openers \cup Ends
  BY <1>6 DEF OneBlock
<1>9. OneBlock(name, <<"publish-record", "inspect">>, n, d, "publish", CallType(N, S))
  BY NameList
<1>10. ~Dependent(Call("publish-record", n, d, "publish"))
  BY DEF Call, Dependent, Forwards, AdminSteps, KeySteps
<1>11. name \in Plain(C)
  <2>1. <<"publish-record", "inspect">>[1] = "publish-record"
    OBVIOUS
  <2> QED BY <1>9, <1>10, <2>1, BlockAbout
<1>12. Follows(Call("check-dns", n, d, "publish"), relocate)
  BY DEF Call, Follows, FollowsInAdmin, FollowsInKeys, Forwards, Ends
<1>13. Follows(relocate, Call("close-gateway", n, d, "forward"))
  BY DEF Call, Follows, FollowsInAdmin, FollowsInKeys, Forwards, Ends, SoftBlocks
<1>14. relocate.call \notin Openers \cup Ends
  BY DEF Call, Openers, Starters, Ends
<1>15. PublishStream(n, d) = ((checks \o <<relocate>>) \o forward) \o name
  BY DEF PublishStream
<1> HIDE DEF C, checks, relocate, forward, name
<1>16. Head(<<relocate>>) = relocate /\ <<relocate>>[Len(<<relocate>>)] = relocate
       /\ <<relocate>> # <<>> /\ \A i \in DOMAIN <<relocate>> : <<relocate>>[i] = relocate
  OBVIOUS
<1>17. /\ checks \o <<relocate>> \in Plain(C) /\ checks \o <<relocate>> # <<>>
       /\ (checks \o <<relocate>>)[Len(checks \o <<relocate>>)] = relocate
  <2>1. Follows(checks[Len(checks)], Head(<<relocate>>))
    BY <1>1, <1>12, <1>16
  <2>2. \A i \in DOMAIN <<relocate>> : <<relocate>>[i].call \notin Openers \cup Ends
    BY <1>14, <1>16
  <2> QED BY ZenonT(40), <1>1, <1>3, <1>5, <1>16, <2>1, <2>2, PlainThen
<1>18. (checks \o <<relocate>>) \o forward \in Plain(C)
  BY <1>7, <1>8, <1>13, <1>17, PlainThen
<1>19. ((checks \o <<relocate>>) \o forward) \o name \in Plain(C)
  BY <1>11, <1>18, PlainConcat
<1> QED BY <1>15, <1>19 DEF C

LEMMA PublishPlain ==
  ASSUME NEW N \in SUBSET Name, NEW S \in SUBSET N, NEW n \in N, NEW d \in Domain, NEW x
  PROVE  Publish(x, n, d) \in Plain(About(N, S, n, {"publish", "forward"}))
<1> DEFINE C == About(N, S, n, {"publish", "forward"})
           calls == <<"check-slot", "check-web", "publish-record", "publish-route", "inspect">>
<1>1. OneBlock(PublishWeb(n, d), calls, n, d, "publish", CallType(N, S))
  BY WebList DEF PublishWeb
<1>2. ~Dependent(Call("check-slot", n, d, "publish"))
  BY DEF Call, Dependent, Forwards, AdminSteps, KeySteps
<1>3. PublishWeb(n, d) \in Plain(C)
  <2>1. calls[1] = "check-slot" /\ "publish" \in {"publish", "forward"}
    OBVIOUS
  <2> HIDE DEF calls, C
  <2> QED BY <1>1, <1>2, <2>1, BlockAbout DEF C
<1>4. PublishStream(n, d) \in Plain(C)
  BY PublishStreamPlain
<1> QED BY <1>3, <1>4 DEF Publish

LEMMA WithdrawPlain ==
  ASSUME NEW N \in SUBSET Name, NEW S \in SUBSET N, NEW n \in N, domain \in Domain
  PROVE  Withdraw(n) \in Plain(About(N, S, n, {"withdraw"}))
<1> DEFINE stream == <<"delete-record", "unforward">>
           web == <<"delete-record", "delete-route">>
<1>1. OneBlock(Calls(stream, n, domain, "withdraw"), stream, n, domain, "withdraw", CallType(N, S))
  BY WithdrawStreamList
<1>2. OneBlock(Calls(web, n, domain, "withdraw"), web, n, domain, "withdraw", CallType(N, S))
  BY WithdrawWebList
<1>3. Withdraw(n) \in {Calls(stream, n, domain, "withdraw"), Calls(web, n, domain, "withdraw")}
  BY DEF Withdraw
<1>4. stream[1] = "delete-record" /\ web[1] = "delete-record" /\ "withdraw" \in {"withdraw"}
  OBVIOUS
<1> HIDE DEF stream, web
<1>5. ~Dependent(Call("delete-record", n, domain, "withdraw"))
  BY DEF Call, Dependent, Forwards, AdminSteps, KeySteps
<1>6. /\ Calls(stream, n, domain, "withdraw") \in Plain(About(N, S, n, {"withdraw"}))
      /\ Calls(web, n, domain, "withdraw") \in Plain(About(N, S, n, {"withdraw"}))
  BY <1>1, <1>2, <1>4, <1>5, BlockAbout
<1> QED BY <1>3, <1>6

LEMMA PlainCall ==
  ASSUME NEW N \in SUBSET Name, NEW S \in SUBSET N, NEW n \in Name \cup {Absent}, NEW d \in Domain,
         NEW c \in {"unforward", "delete-record", "delete-route", "check-host", "start-gateway"},
         NEW b \in {"plain", "publish", "unforward", "unname"},
         c # "start-gateway" => n \in N, c = "start-gateway" => b = "plain",
         c = "unforward" => b # "publish"
  PROVE  <<Call(c, n, d, b)>> \in Plain(About(N, S, n, {b}))
<1> DEFINE t == Call(c, n, d, b)
<1>1. t \in CallType(N, S)
  BY CallTypes DEF Verb, Nameless, SshCalls, Ends, Block, SoftBlocks
<1>2. t \in About(N, S, n, {b})
  BY <1>1 DEF About, Call
<1>3. t.call \notin Openers \cup Ends /\ ~Dependent(t)
  BY DEF Call, Openers, Starters, Ends, Dependent, Forwards, AdminSteps, KeySteps
<1> HIDE DEF t
<1>4. <<t>> \in Plain(About(N, S, n, {b}))
  BY <1>2, <1>3, OneCall
<1> QED BY <1>4 DEF t

LEMMA CleanupPlain ==
  ASSUME NEW N \in SUBSET Name, NEW S \in SUBSET N, NEW n \in N, NEW d \in Domain
  PROVE  /\ EnableCleanup(n, d) \in Plain(About(N, S, n, {"revoke", "unforward", "unname"}))
         /\ EnableCleanup(n, d) # <<>>
         /\ Head(EnableCleanup(n, d)) = Call("revoke-keys", n, d, "revoke")
<1> DEFINE C == About(N, S, n, {"revoke", "unforward", "unname"})
           revoke == Revoke(n, d, "revoke")
           unforward == <<Call("unforward", n, d, "unforward")>>
           unname == IF SharesDns(inventory, n, op.plan[n]) THEN <<>>
                     ELSE <<Call("delete-record", n, d, "unname")>>
<1>1. /\ revoke \in Plain(About(N, S, n, {"revoke"})) /\ revoke # <<>>
      /\ Head(revoke) = Call("revoke-keys", n, d, "revoke")
  BY RevokePlain
<1>2. unforward \in Plain(About(N, S, n, {"unforward"}))
  BY PlainCall
<1>3. <<Call("delete-record", n, d, "unname")>> \in Plain(About(N, S, n, {"unname"}))
  BY PlainCall
<1>4. revoke \in Plain(C)
  <2> HIDE DEF revoke
  <2> QED BY <1>1, PlainAbout
<1>5. unforward \in Plain(C)
  <2> HIDE DEF unforward
  <2> QED BY <1>2, PlainAbout
<1>6. unname \in Plain(C)
  <2> DEFINE delete == <<Call("delete-record", n, d, "unname")>>
  <2>1. delete \in Plain(C)
    <3> HIDE DEF delete
    <3>1. delete \in Plain(About(N, S, n, {"unname"}))
      BY <1>3 DEF delete
    <3> QED BY <3>1, PlainAbout
  <2> QED BY <2>1, EmptyPlain
<1>7. EnableCleanup(n, d) = (revoke \o unforward) \o unname
  BY DEF EnableCleanup
<1> HIDE DEF C, revoke, unforward, unname
<1>8. revoke \o unforward \in Plain(C)
  BY <1>4, <1>5, PlainConcat
<1>9. (revoke \o unforward) \o unname \in Plain(C)
  BY <1>6, <1>8, PlainConcat
<1>10. revoke \in Seq(C) /\ unforward \in Seq(C) /\ unname \in Seq(C)
  BY <1>4, <1>5, <1>6 DEF Plain
<1>11. revoke \o unforward # <<>> /\ Head(revoke \o unforward) = Head(revoke)
  BY <1>1, <1>10, HeadConcat
<1>12. revoke \o unforward \in Seq(C)
  BY <1>10
<1>13. /\ (revoke \o unforward) \o unname # <<>>
       /\ Head((revoke \o unforward) \o unname) = Head(revoke)
  BY <1>10, <1>11, <1>12, HeadConcat
<1> QED BY <1>1, <1>7, <1>9, <1>13 DEF C

-----------------------------------------------------------------------------
(* The calls of each command *)

\* Calls that touch neither the keys of the host's daemon nor its sessions.
Mild(t) == t.block # "host" /\ (t.call \in Nameless => t.call = "save")

\* Lists that a command may begin with.
Lists(C) == {s \in Seq(C) : Ordered(s) /\ Whole(s)}

LEMMA PlainLists ==
  ASSUME NEW C, NEW s \in Plain(C), NEW t \in Lists(C)
  PROVE  s \o t \in Lists(C)
BY PlainFirst DEF Lists

LEMMA SaveLast ==
  ASSUME NEW N \in SUBSET Name, NEW S \in SUBSET N, NEW n \in Name \cup {Absent}, NEW d \in Domain,
         NEW blocks, "plain" \in blocks
  PROVE  <<Call("save", n, d, "plain")>> \in Lists(About(N, S, n, blocks))
<1> DEFINE t == Call("save", n, d, "plain")
<1>1. t \in CallType(N, S)
  BY CallTypes DEF Verb, Nameless, SshCalls, Ends, Block, SoftBlocks
<1>2. t \in About(N, S, n, blocks)
  BY <1>1 DEF About, Call
<1>3. ~Dependent(t)
  BY DEF Call, Dependent, Forwards, AdminSteps, KeySteps
<1> HIDE DEF t
<1>4. <<t>> \in Lists(About(N, S, n, blocks))
  BY <1>2, <1>3, OneCall DEF Lists, Whole
<1> QED BY <1>4 DEF t

LEMMA ListsAbout ==
  ASSUME NEW N, NEW S, NEW n, NEW blocks, NEW s \in Lists(About(N, S, n, blocks))
  PROVE  s \in Lists(CallType(N, S))
<1>1. About(N, S, n, blocks) \subseteq CallType(N, S)
  BY DEF About
<1> QED BY <1>1 DEF Lists

\* A list in which a key is installed.
LEMMA OpenerFirst ==
  ASSUME NEW C, NEW o \in C, NEW t \in Seq(C), Ordered(t), Whole(t), o.call \notin Ends,
         \A i \in DOMAIN t : /\ t[i].call \notin Starters
                             /\ t[i].block \in PublishBlocks \/ t[i].call = "save"
  PROVE  <<o>> \o t \in Seq(C) /\ Ordered(<<o>> \o t)
<1>1. <<o>> \in Seq(C) /\ Ordered(<<o>>) /\ Len(<<o>>) = 1 /\ <<o>>[1] = o
  BY OneCall
<1> DEFINE s == <<o>>
<1> HIDE DEF s
<1>2. s \in Seq(C) /\ Ordered(s) /\ Len(s) = 1 /\ s[1] = o
  BY <1>1 DEF s
<1>3. \A i \in 1..Len(s), j \in 1..Len(t) : Later(s[i], t[j])
  <2>1. DOMAIN t = 1..Len(t)
    OBVIOUS
  <2>2. \A i \in 1..Len(s) : s[i] = o
    BY <1>2
  <2> QED BY <2>1, <2>2 DEF Later
<1>4. t # <<>> => Follows(s[Len(s)], Head(t))
  BY <1>2, FreeFollows DEF Whole
<1> QED BY <1>2, <1>3, <1>4, ConcatOrdered DEF s

PublishList(l, x, C) ==
  /\ l \in Lists(C) /\ l # <<>> /\ l[Len(l)].call = "save"
  /\ x.protocol # "ssh" => \A i \in DOMAIN l : l[i].call \notin Openers /\ Mild(l[i])

LEMMA PublishCommand ==
  ASSUME NEW N \in SUBSET Name, NEW S \in SUBSET N, NEW n \in N, domain \in Domain, NEW x,
         x.protocol = "ssh" => n \in S
  PROVE  PublishList(PublishCalls(n, x), x, About(N, S, n, {"plain", "publish", "forward"}))
<1> DEFINE C == About(N, S, n, {"plain", "publish", "forward"})
           checks == CheckStream(n, domain, "plain")
           enable == Call("enable-host", n, domain, "plain")
           publish == Publish(x, n, domain)
           save == <<Call("save", n, domain, "plain")>>
           rest == publish \o save
<1>1. publish \in Plain(About(N, S, n, {"publish", "forward"}))
  BY PublishPlain
<1>2. /\ save \in Lists(C) /\ save \in Seq(C) /\ Len(save) = 1 /\ save[1].call = "save" /\ save # <<>>
      /\ Mild(save[1])
  <2>1. save \in Lists(C)
    BY SaveLast
  <2> QED BY <2>1 DEF Lists, Call, Mild
<1>3. publish \in Plain(C) /\ publish \in Seq(C)
  <2> HIDE DEF publish
  <2>1. publish \in Plain(C)
    BY <1>1, PlainAbout
  <2> QED BY <2>1 DEF Plain
<1>4. \A i \in DOMAIN publish : /\ publish[i].block \in PublishBlocks /\ publish[i].call \notin Openers
                                 /\ Mild(publish[i])
  <2> HIDE DEF publish
  <2>1. publish \in Seq(About(N, S, n, {"publish", "forward"}))
    BY <1>1 DEF Plain
  <2>2. \A i \in DOMAIN publish : publish[i] \in About(N, S, n, {"publish", "forward"})
    BY <2>1
  <2>3. \A i \in DOMAIN publish : Mild(publish[i])
    BY <2>2 DEF About, CallType, Mild, ForwardCalls, Nameless
  <2> QED BY <1>1, <2>2, <2>3 DEF About, Plain, PublishBlocks
<1>5. checks \in Plain(C)
  <2>1. checks \in Plain(About(N, S, n, {"plain"}))
    BY CheckStreamPlain
  <2> HIDE DEF checks
  <2> QED BY <2>1, PlainAbout
<1>6. x.protocol = "ssh" => enable \in C
  <2>1. x.protocol = "ssh" => enable \in CallType(N, S)
    BY CallTypes DEF Verb, Nameless, SshCalls, Ends, Block, SoftBlocks
  <2> QED BY <2>1 DEF About, Call
<1>7. enable.call \in Openers /\ enable.call \notin Ends /\ ~Dependent(enable)
  BY DEF Call, Openers, Starters, Ends, Dependent, Forwards, AdminSteps, KeySteps
<1>8. PublishCalls(n, x) = ((IF x.protocol # "ssh" THEN <<>> ELSE checks \o <<enable>>) \o publish)
      \o save
  BY DEF PublishCalls
<1> HIDE DEF C, checks, enable, publish, save, rest
<1>9. rest \in Lists(C) /\ rest \in Seq(C) /\ rest # <<>> /\ rest[Len(rest)].call = "save"
  <2>1. rest \in Lists(C)
    BY <1>2, <1>3, PlainLists DEF rest
  <2>2. Len(rest) = Len(publish) + 1 /\ rest[Len(publish) + 1] = save[1]
    <3>1. Len(publish) \in Nat
      BY <1>3
    <3>2. Len(publish \o save) = Len(publish) + Len(save)
      BY <1>2, <1>3, ConcatProperties
    <3>3. (publish \o save)[Len(publish) + 1] = save[(Len(publish) + 1) - Len(publish)]
      BY <1>2, <1>3, <3>1, ConcatProperties
    <3> QED BY <1>2, <3>1, <3>2, <3>3 DEF rest
  <2>3. rest \in Seq(C)
    BY <2>1 DEF Lists
  <2> QED BY <1>2, <1>3, <2>1, <2>2, <2>3
<1>10. \A i \in DOMAIN rest : /\ rest[i].call \notin Openers /\ Mild(rest[i])
                              /\ rest[i].block \in PublishBlocks \/ rest[i].call = "save"
  <2>1. ASSUME NEW i \in DOMAIN rest
        PROVE  (i \in DOMAIN publish /\ rest[i] = publish[i]) \/ rest[i] = save[1]
    <3>1. Len(publish) \in Nat /\ DOMAIN publish = 1..Len(publish) /\ DOMAIN rest = 1..Len(rest)
      BY <1>3, <1>9
    <3>2. Len(rest) = Len(publish) + Len(save)
      BY <1>2, <1>3, ConcatProperties DEF rest
    <3>3. rest[i] = IF i <= Len(publish) THEN publish[i] ELSE save[i - Len(publish)]
      BY <1>2, <1>3, <3>1, <3>2, ConcatProperties DEF rest
    <3> QED BY <1>2, <3>1, <3>2, <3>3
  <2> QED BY <1>2, <1>4, <2>1 DEF Openers, Starters
<1>11. CASE x.protocol # "ssh"
  <2>1. <<>> \o publish = publish
    BY <1>3
  <2>2. PublishCalls(n, x) = rest
    BY <1>8, <1>11, <2>1 DEF rest
  <2> QED BY <1>9, <1>10, <1>11, <2>1, <2>2 DEF C, PublishList
<1>12. CASE x.protocol = "ssh"
  <2> DEFINE first == <<enable>>
             from == first \o rest
  <2>1. first \in Seq(C) /\ from \in Seq(C) /\ Ordered(from) /\ from # <<>> /\ Head(from) = enable
    <3>1. \A i \in DOMAIN rest : rest[i].call \notin Starters
      BY <1>10 DEF Openers
    <3>2. from \in Seq(C) /\ Ordered(from)
      BY <1>6, <1>7, <1>9, <1>10, <1>12, <3>1, OpenerFirst DEF Lists
    <3>3. first \in Seq(C) /\ first # <<>> /\ Head(first) = enable
      BY <1>6, <1>12
    <3> HIDE DEF first
    <3>4. from # <<>> /\ Head(from) = enable
      BY <1>9, <3>3, HeadConcat
    <3> QED BY <3>2, <3>3, <3>4
  <2>2. checks \in Seq(C)
    BY <1>5 DEF Plain
  <2> HIDE DEF first
  <2>3. ((checks \o first) \o publish) \o save = checks \o from
    <3>1. (checks \o first) \in Seq(C)
      BY <2>1, <2>2
    <3>2. ((checks \o first) \o publish) \o save = (checks \o first) \o rest
      <4> DEFINE u == checks \o first
      <4>1. u \in Seq(C)
        BY <3>1
      <4> HIDE DEF u
      <4>2. (u \o publish) \o save = u \o (publish \o save)
        BY <1>2, <1>3, <4>1, ConcatAssociative
      <4> QED BY <4>2 DEF rest, u
    <3>3. (checks \o first) \o rest = checks \o from
      BY SMTT(30), <1>9, <2>1, <2>2, ConcatAssociative
    <3> QED BY <3>2, <3>3
  <2>4. PublishCalls(n, x) = checks \o from
    BY <1>8, <1>12, <2>3 DEF first
  <2>5. from \in Lists(C)
    BY <1>7, <2>1 DEF Lists, Whole
  <2>6. from[Len(from)].call = "save"
    <3>1. Len(first) = 1
      BY DEF first
    <3>2. from[Len(from)] = rest[Len(rest)]
      BY <1>9, <2>1, <3>1
    <3> QED BY <1>9, <3>2
  <2> HIDE DEF from
  <2>7. checks \o from \in Lists(C)
    BY <1>5, <2>5, PlainLists
  <2>8. (checks \o from) # <<>> /\ (checks \o from)[Len(checks \o from)] = from[Len(from)]
    BY <2>1, <2>2
  <2> QED BY <1>12, <2>4, <2>6, <2>7, <2>8 DEF C, PublishList
<1> QED BY <1>11, <1>12

\* A removal of anything but host SSH.
LEMMA MildRemoval ==
  ASSUME NEW N \in SUBSET Name, NEW S \in SUBSET N, NEW n \in N, domain \in Domain,
         inventory[n].protocol # "ssh"
  PROVE  \A i \in DOMAIN RemoveCalls(n) : RemoveCalls(n)[i].name = n /\ Mild(RemoveCalls(n)[i])
<1> DEFINE x == inventory[n]
           D == {t \in About(N, S, n, {"plain"}) : Mild(t)}
           unforward == IF IsStream(x) THEN <<Call("unforward", n, domain, "plain")>> ELSE <<>>
           record == IF SharesDns(inventory, n, x) THEN <<>>
                     ELSE <<Call("delete-record", n, domain, "plain")>>
           route == IF IsStream(x) THEN <<>> ELSE <<Call("delete-route", n, domain, "plain")>>
           save == <<Call("save", n, domain, "plain")>>
           l == (((<<>> \o unforward) \o record) \o route) \o save
<1>1. \A c \in {"unforward", "delete-record", "delete-route", "save"} :
        <<Call(c, n, domain, "plain")>> \in Seq(D)
  <2> TAKE c \in {"unforward", "delete-record", "delete-route", "save"}
  <2> DEFINE t == Call(c, n, domain, "plain")
  <2>1. t \in CallType(N, S)
    BY CallTypes DEF Verb, Nameless, SshCalls, Ends, Block, SoftBlocks
  <2>2. t \in D
    BY <2>1 DEF About, Call, Mild, Nameless
  <2> HIDE DEF t, D
  <2> QED BY <2>2 DEF t
<1>2. RemoveCalls(n) = l
  BY DEF RemoveCalls
<1> HIDE DEF D
<1>3. unforward \in Seq(D) /\ record \in Seq(D) /\ route \in Seq(D) /\ save \in Seq(D)
  BY <1>1
<1> HIDE DEF x, unforward, record, route, save
<1>4. l \in Seq(D)
  BY <1>3
<1> HIDE DEF l
<1>5. \A i \in DOMAIN l : l[i] \in D
  BY <1>4
<1> QED BY <1>2, <1>5 DEF D, About

\* Plain lists that end with the save.
Saved(l, s, C) == /\ l \in Lists(C) /\ l # <<>>
                  /\ s # <<>> => Head(l) = Head(s)
                  /\ \A i \in DOMAIN l : l[i].call \notin Openers

LEMMA PlainSave ==
  ASSUME NEW C, NEW s \in Plain(C), NEW t, <<t>> \in Lists(C), t.call = "save"
  PROVE  Saved(s \o <<t>>, s, C)
<1> DEFINE save == <<t>>
           l == s \o save
<1>1. save \in Lists(C) /\ Len(save) = 1 /\ save[1] = t /\ save # <<>>
  OBVIOUS
<1>2. t.call \notin Openers
  BY DEF Openers, Starters
<1> HIDE DEF save
<1>3. l \in Lists(C) /\ s \in Seq(C) /\ save \in Seq(C)
  <2>1. l \in Lists(C)
    BY <1>1, PlainLists
  <2> QED BY <1>1, <2>1 DEF Lists, Plain
<1>4. l # <<>> /\ (s # <<>> => Head(l) = Head(s))
  <2>1. s # <<>> => l # <<>> /\ Head(l) = Head(s)
    BY <1>3, HeadConcat
  <2>2. s = <<>> => l = save
    BY <1>3
  <2> QED BY <1>1, <2>1, <2>2
<1>5. ASSUME NEW i \in DOMAIN l PROVE l[i].call \notin Openers
  <2>1. \A k \in DOMAIN s : s[k].call \notin Openers
    BY DEF Plain
  <2>2. Len(s) \in Nat /\ DOMAIN s = 1..Len(s) /\ Len(l) = Len(s) + Len(save)
    BY <1>3, ConcatProperties
  <2>3. DOMAIN l = 1..Len(l)
    BY <1>3 DEF Lists
  <2>4. l[i] = IF i <= Len(s) THEN s[i] ELSE save[i - Len(s)]
    BY <1>3, <2>2, <2>3, ConcatProperties
  <2> QED BY <1>1, <1>2, <2>1, <2>2, <2>3, <2>4
<1> QED BY <1>3, <1>4, <1>5 DEF Saved, save

LEMMA RemoveCommand ==
  ASSUME NEW N \in SUBSET Name, NEW S \in SUBSET N, NEW n \in N, domain \in Domain
  PROVE  LET l == RemoveCalls(n)
         IN /\ l \in Lists(About(N, S, n, {"plain"})) /\ l # <<>>
            /\ \A i \in DOMAIN l : l[i].call \notin Openers
            /\ inventory[n].protocol = "ssh" => Head(l).call = "revoke-keys"
<1> DEFINE x == inventory[n]
           C == About(N, S, n, {"plain"})
           revoke == IF x.protocol = "ssh" THEN Revoke(n, domain, "plain") ELSE <<>>
           unforward == IF IsStream(x) THEN <<Call("unforward", n, domain, "plain")>> ELSE <<>>
           record == IF SharesDns(inventory, n, x) THEN <<>>
                     ELSE <<Call("delete-record", n, domain, "plain")>>
           route == IF IsStream(x) THEN <<>> ELSE <<Call("delete-route", n, domain, "plain")>>
           save == <<Call("save", n, domain, "plain")>>
<1>1. /\ Revoke(n, domain, "plain") \in Plain(C) /\ Revoke(n, domain, "plain") # <<>>
      /\ Head(Revoke(n, domain, "plain")) = Call("revoke-keys", n, domain, "plain")
  BY RevokePlain
<1>2. revoke \in Plain(C) /\ (x.protocol = "ssh" => revoke # <<>> /\ Head(revoke).call = "revoke-keys")
  <2>1. Call("revoke-keys", n, domain, "plain").call = "revoke-keys"
    BY DEF Call
  <2>2. x.protocol = "ssh" => revoke = Revoke(n, domain, "plain")
    OBVIOUS
  <2>3. x.protocol # "ssh" => revoke = <<>>
    OBVIOUS
  <2> HIDE DEF C, revoke, x
  <2> QED BY <1>1, <2>1, <2>2, <2>3, EmptyPlain
<1>3. \A c \in {"unforward", "delete-record",
      "delete-route"} : <<Call(c, n, domain, "plain")>> \in Plain(C)
  BY PlainCall
<1>4. unforward \in Plain(C) /\ record \in Plain(C) /\ route \in Plain(C)
  <2> HIDE DEF C
  <2> QED BY <1>3, EmptyPlain
<1>5. RemoveCalls(n) = (((revoke \o unforward) \o record) \o route) \o save
  BY DEF RemoveCalls
<1> HIDE DEF revoke, unforward, record, route
<1> DEFINE rest == ((revoke \o unforward) \o record) \o route
<1>6. rest \in Plain(C)
  <2> HIDE DEF C
  <2>1. revoke \o unforward \in Plain(C)
    BY <1>2, <1>4, PlainConcat
  <2>2. (revoke \o unforward) \o record \in Plain(C)
    BY <1>4, <2>1, PlainConcat
  <2> QED BY <1>4, <2>2, PlainConcat
<1>7. x.protocol = "ssh" => rest # <<>> /\ Head(rest).call = "revoke-keys"
  <2> HIDE DEF C
  <2>1. revoke \in Seq(C) /\ unforward \in Seq(C) /\ record \in Seq(C) /\ route \in Seq(C)
    BY <1>2, <1>4 DEF Plain
  <2> DEFINE two == revoke \o unforward
  <2> HIDE DEF x
  <2>2. two \in Seq(C) /\ (x.protocol = "ssh" => two # <<>> /\ Head(two) = Head(revoke))
    <3>1. two \in Seq(C)
      BY <2>1
    <3>2. revoke # <<>> => two # <<>> /\ Head(two) = Head(revoke)
      BY <2>1, HeadConcat
    <3> HIDE DEF two
    <3> QED BY <1>2, <3>1, <3>2
  <2> HIDE DEF two
  <2> DEFINE three == two \o record
  <2>3. three \in Seq(C) /\ (x.protocol = "ssh" => three # <<>> /\ Head(three) = Head(revoke))
    <3>1. three \in Seq(C)
      BY <2>1, <2>2
    <3>2. two # <<>> => three # <<>> /\ Head(three) = Head(two)
      BY <2>1, <2>2, HeadConcat
    <3> HIDE DEF three
    <3> QED BY <2>2, <3>1, <3>2
  <2> HIDE DEF three
  <2>4. x.protocol = "ssh" => three \o route # <<>> /\ Head(three \o route) = Head(revoke)
    <3>1. three # <<>> => three \o route # <<>> /\ Head(three \o route) = Head(three)
      BY <2>1, <2>3, HeadConcat
    <3> QED BY <2>3, <3>1
  <2> QED BY <1>2, <2>4 DEF two, three, x
<1> HIDE DEF rest
<1>8. Saved(rest \o save, rest, C)
  <2>1. save \in Lists(C) /\ Call("save", n, domain, "plain").call = "save"
    BY SaveLast DEF Call
  <2> HIDE DEF C
  <2> QED BY <1>6, <2>1, PlainSave
<1> QED BY <1>5, <1>7, <1>8 DEF rest, C, Saved

LEMMA RepublishPlain ==
  ASSUME NEW N \in SUBSET Name, NEW S \in SUBSET N, NEW names \in SUBSET N, IsFiniteSet(names),
         NEW d \in Domain, NEW services
  PROVE  Republish(services, names, d) \in Plain(CallType(N, S))
<1> DEFINE C == CallType(N, S)
           k == Cardinality(names)
           Step(n) == Publish(services[n], n, d)
                        \o (IF services[n].protocol = "ssh"
                            THEN <<Call("check-host", n, d, "publish")>> ELSE <<>>)
           f == [i \in 1..k |-> Step(SetToSeq(names)[i])]
<1>1. k \in Nat /\ \A i \in 1..k : SetToSeq(names)[i] \in names
  BY Enumeration
<1>2. ASSUME NEW n \in names PROVE Step(n) \in Plain(C)
  <2> DEFINE p == Publish(services[n], n, d)
             h == <<Call("check-host", n, d, "publish")>>
  <2>1. n \in N
    OBVIOUS
  <2>2. p \in Plain(About(N, S, n, {"publish", "forward"})) /\ h \in Plain(About(N, S, n, {"publish"}))
    BY <2>1, PublishPlain, PlainCall
  <2> HIDE DEF p, h
  <2>3. p \in Plain(C) /\ h \in Plain(C)
    BY <2>2, PlainAbout
  <2> HIDE DEF C
  <2>4. p \o h \in Plain(C) /\ p \o <<>> \in Plain(C)
    BY <2>3, PlainConcat, EmptyPlain
  <2> QED BY <2>4 DEF p, h
<1>3. f \in [1..k -> Plain(C)]
  <2> HIDE DEF C, Step, k
  <2> QED BY <1>1, <1>2
<1>4. Plain(C) \in SUBSET Seq(C) /\ <<>> \in Plain(C) /\ \A s, t \in Plain(C) : s \o t \in Plain(C)
  BY EmptyPlain, PlainConcat DEF Plain
<1>5. Republish(services, names, d) = FlattenSeq(f)
  BY DEF Republish, ForAll
<1> HIDE DEF f, C, k
<1>6. FlattenSeq(f) \in Plain(C)
  BY <1>1, <1>3, <1>4, FlattenClosed
<1> QED BY <1>5, <1>6 DEF C

LEMMA WithdrawAllPlain ==
  ASSUME NEW N \in SUBSET Name, NEW S \in SUBSET N, NEW names \in SUBSET N, IsFiniteSet(names),
         domain \in Domain
  PROVE  ForAll(names, Withdraw) \in Plain(CallType(N, S))
<1> DEFINE C == CallType(N, S)
           k == Cardinality(names)
           f == [i \in 1..k |-> Withdraw(SetToSeq(names)[i])]
<1>1. k \in Nat /\ \A i \in 1..k : SetToSeq(names)[i] \in names
  BY Enumeration
<1>2. ASSUME NEW n \in names PROVE Withdraw(n) \in Plain(C)
  <2>1. Withdraw(n) \in Plain(About(N, S, n, {"withdraw"}))
    BY WithdrawPlain
  <2> QED BY <2>1, PlainAbout
<1>3. f \in [1..k -> Plain(C)]
  <2> HIDE DEF C, k
  <2> QED BY <1>1, <1>2
<1>4. Plain(C) \in SUBSET Seq(C) /\ <<>> \in Plain(C) /\ \A s, t \in Plain(C) : s \o t \in Plain(C)
  BY EmptyPlain, PlainConcat DEF Plain
<1>5. ForAll(names, Withdraw) = FlattenSeq(f)
  BY DEF ForAll
<1> HIDE DEF f, C, k
<1>6. FlattenSeq(f) \in Plain(C)
  BY <1>1, <1>3, <1>4, FlattenClosed
<1> QED BY <1>5, <1>6 DEF C

LEMMA EverythingCommands ==
  ASSUME NEW N \in SUBSET Name, NEW S \in SUBSET N, IsFiniteSet(Name), domain \in Domain,
         Of(inventory) \subseteq N
  PROVE  /\ \A d \in Domain : \E s : Saved(DomainCalls(d), s, CallType(N, S))
         /\ \E s : Saved(RedirectCalls, s, CallType(N, S))
         /\ \E s : Saved(VpnCalls, s, CallType(N, S))
<1> DEFINE C == CallType(N, S)
           names == Of(inventory)
           streams == {n \in Of(inventory) : IsStream(inventory[n])}
<1>1. IsFiniteSet(N) /\ IsFiniteSet(names) /\ IsFiniteSet(streams) /\ IsFiniteSet(names \ streams)
  BY FS_Subset
<1>2. ASSUME NEW d \in Domain
      PROVE  /\ <<Call("save", Absent, d, "plain")>> \in Lists(C)
             /\ Call("save", Absent, d, "plain").call = "save"
  <2>1. "plain" \in {"plain"} /\ Absent \in Name \cup {Absent}
    OBVIOUS
  <2>2. <<Call("save", Absent, d, "plain")>> \in Lists(About(N, S, Absent, {"plain"}))
    BY <2>1, SaveLast
  <2> QED BY <2>2, ListsAbout DEF Call
<1>3. ASSUME NEW d \in Domain, NEW some \in SUBSET names, IsFiniteSet(some)
      PROVE  Republish(inventory, some, d) \in Plain(C)
  <2>1. some \in SUBSET N
    OBVIOUS
  <2> QED BY <1>3, <2>1, RepublishPlain
<1>4. ForAll(names, Withdraw) \in Plain(C)
  <2>1. names \in SUBSET N
    OBVIOUS
  <2> HIDE DEF names
  <2> QED BY <1>1, <2>1, WithdrawAllPlain
<1>5. <<Call("start-gateway", Absent, domain, "plain")>> \in Plain(C)
  <2> DEFINE g == <<Call("start-gateway", Absent, domain, "plain")>>
  <2>1. g \in Plain(About(N, S, Absent, {"plain"}))
    BY PlainCall
  <2> HIDE DEF g, C
  <2>2. g \in Plain(C)
    BY <2>1, PlainAbout DEF C
  <2> QED BY <2>2 DEF g
<1>6. names \in SUBSET names /\ streams \in SUBSET names /\ names \ streams \in SUBSET names
  OBVIOUS
<1> HIDE DEF C, streams, names
<1>7. ASSUME NEW d \in Domain PROVE \E s : Saved(DomainCalls(d), s, C)
  <2> DEFINE s == ForAll(names, Withdraw) \o Republish(inventory, names, d)
  <2>1. s \in Plain(C)
    BY <1>1, <1>3, <1>4, <1>6, PlainConcat
  <2>2. DomainCalls(d) = s \o <<Call("save", Absent, d, "plain")>>
    BY DEF DomainCalls, names
  <2> HIDE DEF s
  <2> QED BY <1>2, <2>1, <2>2, PlainSave
<1>8. \E s : Saved(RedirectCalls, s, C)
  <2> DEFINE s == Republish(inventory, names, domain)
  <2>1. s \in Plain(C)
    BY <1>1, <1>3, <1>6
  <2>2. RedirectCalls = s \o <<Call("save", Absent, domain, "plain")>>
    BY DEF RedirectCalls, names
  <2> HIDE DEF s
  <2> QED BY <1>2, <2>1, <2>2, PlainSave
<1>9. \E s : Saved(VpnCalls, s, C)
  <2> DEFINE g == <<Call("start-gateway", Absent, domain, "plain")>>
             r == Republish(inventory, names \ streams, domain)
             t == Republish(inventory, streams, domain)
             s == (r \o g) \o t
  <2>1. r \in Plain(C) /\ t \in Plain(C) /\ g \in Plain(C)
    BY <1>1, <1>3, <1>5, <1>6
  <2>2. VpnCalls = s \o <<Call("save", Absent, domain, "plain")>>
    BY DEF VpnCalls, names, streams
  <2> HIDE DEF r, g, t
  <2>3. s \in Plain(C)
    BY <2>1, PlainConcat
  <2> HIDE DEF s
  <2> QED BY <1>2, <2>2, <2>3, PlainSave
<1> QED BY <1>7, <1>8, <1>9 DEF C

LEMMA UninstallCommand ==
  ASSUME NEW N \in SUBSET Name, NEW S \in SUBSET N, domain \in Domain
  PROVE  /\ UninstallCalls \in Seq(CallType(N, S)) /\ Ordered(UninstallCalls)
         /\ UninstallCalls # <<>>
         /\ host.record # Nobody => ~Dependent(Head(UninstallCalls))
         /\ host.record = Nobody => Head(UninstallCalls)
              = Call("delete-project", Absent, domain, "plain")
         /\ \A i \in DOMAIN UninstallCalls : UninstallCalls[i].call \notin Openers
<1> DEFINE C == CallType(N, S)
           t == Call("delete-project", Absent, domain, "plain")
           last == <<t>>
           revoke == Revoke(Absent, domain, "plain")
           calls == <<"check-owned", "remove-unit", "reload", "remove-record", "remove-files">>
           removal == Calls(calls, Absent, domain, "plain")
<1>1. t \in C
  BY CallTypes DEF Verb, Nameless, SshCalls, Ends, Block, SoftBlocks
<1>2. /\ last \in Seq(C) /\ Ordered(last) /\ last # <<>> /\ Head(last) = t
      /\ \A i \in 1..Len(last) : last[i] = t
  <2> HIDE DEF C, t
  <2> QED BY <1>1, OneCall
<1>3. t.call = "delete-project" /\ t.call \notin Openers
  BY DEF Call, Openers, Starters
<1>4. /\ revoke \in Plain(C) /\ revoke # <<>> /\ Head(revoke)
           = Call("revoke-keys", Absent, domain, "plain")
      /\ revoke[Len(revoke)] = Call("stop-daemon", Absent, domain, "plain")
  <2>1. /\ revoke \in Plain(About(N, S, Absent, {"plain"})) /\ revoke # <<>>
        /\ Head(revoke) = Call("revoke-keys", Absent, domain, "plain")
        /\ revoke[Len(revoke)] = Call("stop-daemon", Absent, domain, "plain")
    BY RevokePlain
  <2> HIDE DEF revoke
  <2> QED BY <2>1, PlainAbout
<1>5. /\ removal \in Seq(C) /\ Ordered(removal) /\ removal # <<>>
      /\ Head(removal) = Call("check-owned", Absent, domain, "plain")
      /\ removal[Len(removal)] = Call("remove-files", Absent, domain, "plain")
      /\ \A i \in DOMAIN removal : removal[i].call \notin Openers \cup Ends
  <2>1. OneBlock(removal, calls, Absent, domain, "plain", C)
    BY UninstallList
  <2>2. calls[1] = "check-owned" /\ Len(calls) = 5 /\ calls[5] = "remove-files"
    OBVIOUS
  <2> HIDE DEF calls, C
  <2> QED BY <2>1, <2>2 DEF OneBlock
<1>6. Follows(Call("stop-daemon", Absent, domain, "plain"), Call("check-owned", Absent, domain, "plain"))
  BY DEF Call, Follows, FollowsInAdmin, FollowsInKeys, Forwards, Ends
<1>7. Follows(Call("remove-files", Absent, domain, "plain"), t)
  BY DEF Call, Follows, FollowsInAdmin, FollowsInKeys, Forwards, Ends
<1>8. UninstallCalls = (IF host.record = Nobody THEN <<>> ELSE revoke \o removal) \o last
  BY DEF UninstallCalls
<1>9. ~Dependent(Call("revoke-keys", Absent, domain, "plain"))
  BY DEF Call, Dependent, Forwards, AdminSteps, KeySteps
<1> HIDE DEF t, last, revoke, removal, C
<1>10. CASE host.record = Nobody
  <2>1. UninstallCalls = last
    BY <1>2, <1>8, <1>10
  <2>2. \A i \in DOMAIN last : last[i].call \notin Openers
    <3>1. DOMAIN last = 1..Len(last)
      BY <1>2
    <3> QED BY <1>2, <1>3, <3>1
  <2> QED BY <1>2, <1>10, <2>1, <2>2 DEF t, C
<1>11. CASE host.record # Nobody
  <2> DEFINE s == revoke \o removal
             l == s \o last
  <2>1. s \in Plain(C) /\ s # <<>> /\ s[Len(s)] = removal[Len(removal)]
    <3>1. Follows(revoke[Len(revoke)], Head(removal))
      BY <1>4, <1>5, <1>6
    <3> QED BY <1>4, <1>5, <3>1, PlainThen
  <2>2. Head(s) = Head(revoke)
    <3>1. revoke \in Seq(C)
      BY <1>4 DEF Plain
    <3> QED BY <1>4, <1>5, <3>1, HeadConcat
  <2> HIDE DEF s
  <2>3. s \in Seq(C) /\ Ordered(s) /\ \A i \in 1..Len(s) : s[i].call \notin Openers
    BY <2>1 DEF Plain
  <2>4. \A i \in 1..Len(s), j \in 1..Len(last) : Later(s[i], last[j])
    BY <2>3 DEF Later
  <2>5. Follows(s[Len(s)], Head(last))
    BY <1>2, <1>5, <1>7, <2>1
  <2>6. l \in Seq(C) /\ Ordered(l)
    BY <1>2, <2>3, <2>4, <2>5, ConcatOrdered
  <2>7. l # <<>> /\ Head(l) = Head(s)
    BY <1>2, <2>1, <2>3, HeadConcat
  <2>8. ASSUME NEW i \in DOMAIN l PROVE l[i].call \notin Openers
    <3>1. Len(l) = Len(s) + Len(last) /\ Len(s) \in Nat /\ DOMAIN l = 1..Len(l)
      BY <1>2, <2>3, <2>6, ConcatProperties
    <3>2. l[i] = IF i <= Len(s) THEN s[i] ELSE last[i - Len(s)]
      BY <1>2, <2>3, <3>1, ConcatProperties
    <3>3. Len(last) \in Nat
      BY <1>2
    <3>4. i \in 1..Len(s) \/ (~(i <= Len(s)) /\ i - Len(s) \in 1..Len(last))
      BY <3>1, <3>3
    <3>5. l[i] = t \/ (i \in 1..Len(s) /\ l[i] = s[i])
      BY <1>2, <3>2, <3>4
    <3> QED BY <1>3, <2>3, <3>5
  <2>9. UninstallCalls = l
    BY <1>8, <1>11 DEF s
  <2> HIDE DEF l
  <2> QED BY <1>4, <1>9, <1>11, <2>2, <2>6, <2>7, <2>8, <2>9 DEF C
<1> QED BY <1>10, <1>11

LEMMA CommandFields ==
  ASSUME NEW c \in Command
  PROVE  /\ c.do \in {"publish", "remove", "domain", "redirect", "vpn", "prepare", "activate",
                      "replace", "uninstall"}
         /\ c.do = "publish" => c.name \in Name /\ c.wish \in Exposure /\ <<c.name, c.wish>> \in Wish
         /\ c.do = "remove" => c.name \in Name
         /\ c.do = "domain" => c.to \in Domain
         /\ c # NoCommand
<1>1. CASE c \in {Cmd("publish", w[1], w[2], Absent) : w \in Wish}
  <2>1. PICK w \in Wish : c = Cmd("publish", w[1], w[2], Absent)
    BY <1>1
  <2>2. w \in Name \X Exposure
    BY WishesAreExposures
  <2>3. w[1] \in Name /\ w[2] \in Exposure /\ w = <<w[1], w[2]>>
    BY <2>2
  <2> QED BY <2>1, <2>3 DEF Cmd, NoCommand
<1>2. CASE c \in {Cmd("remove", n, Absent, Absent) : n \in Name}
  BY <1>2 DEF Cmd, NoCommand
<1>3. CASE c \in {Cmd("domain", Absent, Absent, d) : d \in Domain}
  BY <1>3 DEF Cmd, NoCommand
<1>4. CASE c \in {Cmd(do, Absent, Absent, Absent) :
                    do \in {"redirect", "vpn", "prepare", "activate", "replace", "uninstall"}}
  BY <1>4 DEF Cmd, NoCommand
<1> QED BY <1>1, <1>2, <1>3, <1>4 DEF Command

Services == [Name -> Exposure \cup {Absent}]

LEMMA PlanType ==
  ASSUME NEW c \in Command, inventory \in Services, Good(inventory)
  PROVE  /\ PlanOf(c) \in Services /\ Good(PlanOf(c))
         /\ c.do = "publish" => PlanOf(c) = [inventory EXCEPT ![c.name] = c.wish]
         /\ c.do = "remove" => PlanOf(c) = [inventory EXCEPT ![c.name] = Absent]
         /\ c.do \notin {"publish", "remove"} => PlanOf(c) = inventory
<1>1. CASE c.do = "publish"
  <2>1. PlanOf(c) = [inventory EXCEPT ![c.name] = c.wish]
    BY <1>1 DEF PlanOf
  <2>2. c.name \in Name /\ c.wish \in Exposure /\ <<c.name, c.wish>> \in Wish
    BY <1>1, CommandFields
  <2>3. /\ (c.wish.protocol = "ssh") = (c.wish.port = SshPort)
        /\ c.wish.protocol = "ssh" => c.wish.account # Nobody
    BY <2>2, SshHasItsPort
  <2>4. PlanOf(c) \in Services
    BY <2>1, <2>2 DEF Services
  <2>5. Good(PlanOf(c))
    BY <2>1, <2>2, <2>3 DEF Good, Services
  <2> QED BY <1>1, <2>1, <2>4, <2>5
<1>2. CASE c.do = "remove"
  <2>1. PlanOf(c) = [inventory EXCEPT ![c.name] = Absent]
    BY <1>2 DEF PlanOf
  <2> QED BY <1>2, <2>1, CommandFields DEF Services, Good
<1>3. CASE c.do \notin {"publish", "remove"}
  BY <1>3 DEF PlanOf
<1> QED BY <1>1, <1>2, <1>3

\* What a command begins with.
Beginning(c, l, N, S) ==
  /\ l \in Seq(CallType(N, S)) /\ Ordered(l) /\ l # <<>>
  /\ ~Dependent(Head(l)) \/ (Head(l).call = "delete-project" /\ host.record = Nobody)
  /\ c.do \notin {"publish", "activate", "replace"} => \A i \in DOMAIN l : l[i].call \notin Openers
  /\ c.do = "publish" =>
       /\ l[Len(l)].call = "save" /\ \A i \in DOMAIN l : l[i].name = c.name
       /\ c.wish.protocol # "ssh" => \A i \in DOMAIN l : l[i].call \notin Openers /\ Mild(l[i])
  /\ c.do = "remove" =>
       IF inventory[c.name].protocol = "ssh" THEN Head(l).call = "revoke-keys"
       ELSE \A i \in DOMAIN l : l[i].name = c.name /\ Mild(l[i])
  /\ c.do = "prepare" => \A i \in DOMAIN l : l[i].call = "prepare-key" /\ l[i].block = "plain"

\* Commands of one call.
KeyCommands == {"prepare-key", "activate-key", "replace-key"}

Single(l, t, C) == /\ l \in Seq(C) /\ Ordered(l) /\ l # <<>> /\ Head(l) = t /\ ~Dependent(t)
                   /\ \A i \in DOMAIN l : l[i] = t

LEMMA OneCommand ==
  ASSUME NEW N \in SUBSET Name, NEW S \in SUBSET N, NEW n \in S, domain \in Domain,
         NEW verb \in KeyCommands
  PROVE  Single(<<Call(verb, n, domain, "plain")>>, Call(verb, n, domain, "plain"), CallType(N, S))
<1> DEFINE t == Call(verb, n, domain, "plain")
           C == CallType(N, S)
           l == <<t>>
<1>1. t \in C
  BY CallTypes DEF Verb, Nameless, SshCalls, Ends, Block, SoftBlocks, KeyCommands
<1>2. ~Dependent(t)
  BY DEF Call, Dependent, Forwards, AdminSteps, KeySteps, KeyCommands
<1> HIDE DEF t, C
<1>3. l \in Seq(C) /\ Ordered(l) /\ Len(l) = 1 /\ Head(l) = t
  BY <1>1, OneCall
<1> HIDE DEF l
<1>4. \A i \in DOMAIN l : l[i] = t
  BY <1>3
<1> QED BY <1>2, <1>3, <1>4 DEF Single, t, l, C

LEMMA CommandCalls ==
  ASSUME inventory \in Services, domain \in Domain, NEW c \in Command, Possible(c)
  PROVE  Beginning(c, CallsOf(c), Known(PlanOf(c)), KnownSsh(PlanOf(c)))
<1> DEFINE P == PlanOf(c)
           N == Known(P)
           S == KnownSsh(P)
           l == CallsOf(c)
<1>1. N \in SUBSET Name /\ S \in SUBSET N
  BY DEF Known, KnownSsh
<1>2. CASE c.do = "publish"
  <2>1. c.name \in Name /\ c.wish \in Exposure /\ l = PublishCalls(c.name, c.wish)
    BY <1>2, CommandFields DEF CallsOf
  <2>2. Planned(P, c.name) = c.wish /\ c.wish # Absent
    BY <1>2, <2>1, WishesAreExposures DEF PlanOf, Planned, Services
  <2>3. c.name \in N /\ (c.wish.protocol = "ssh" => c.name \in S)
    BY <2>1, <2>2 DEF Known, KnownSsh
  <2> DEFINE A == About(N, S, c.name, {"plain", "publish", "forward"})
  <2> HIDE DEF N, S, P
  <2>4. /\ l \in Lists(A) /\ l # <<>> /\ l[Len(l)].call = "save"
        /\ c.wish.protocol # "ssh" => \A i \in DOMAIN l : l[i].call \notin Openers /\ Mild(l[i])
    <3>1. PublishList(PublishCalls(c.name, c.wish), c.wish, A)
      BY <1>1, <2>1, <2>3, PublishCommand
    <3> QED BY <2>1, <3>1 DEF PublishList
  <2>5. l \in Lists(CallType(N, S))
    BY <2>4, ListsAbout
  <2>6. \A i \in DOMAIN l : l[i].name = c.name
    <3>1. \A i \in DOMAIN l : l[i] \in A
      BY <2>4 DEF Lists
    <3> QED BY <3>1 DEF About
  <2> QED BY <1>2, <2>4, <2>5, <2>6 DEF Beginning, Lists, Whole, N, S, P
<1>3. CASE c.do = "remove"
  <2>1. c.name \in Name /\ l = RemoveCalls(c.name) /\ inventory[c.name] # Absent
    BY <1>3, CommandFields DEF CallsOf, Possible
  <2>2. c.name \in N
    BY <1>3, <2>1 DEF PlanOf, Planned, Services, Known
  <2> DEFINE A == About(N, S, c.name, {"plain"})
  <2> HIDE DEF N, S, P
  <2>3. /\ l \in Lists(A) /\ l # <<>> /\ \A i \in DOMAIN l : l[i].call \notin Openers
        /\ inventory[c.name].protocol = "ssh" => Head(l).call = "revoke-keys"
    BY <1>1, <2>1, <2>2, RemoveCommand
  <2>4. l \in Lists(CallType(N, S))
    BY <2>3, ListsAbout
  <2>5. inventory[c.name].protocol # "ssh" =>
          \A i \in DOMAIN l : l[i].name = c.name /\ Mild(l[i])
    BY <1>1, <2>1, <2>2, MildRemoval
  <2> QED BY <1>3, <2>3, <2>4, <2>5 DEF Beginning, Lists, Whole, N, S, P
<1>4. ASSUME c.do \notin {"publish", "remove"}
      PROVE  P = inventory /\ Of(inventory) \subseteq N /\ SshOf(inventory) \subseteq S
  BY <1>4 DEF PlanOf, Planned, Known, KnownSsh, Of, SshOf
<1>5. CASE c.do \in {"domain", "redirect", "vpn"}
  <2>1. \E s : Saved(l, s, CallType(N, S))
    <3>1. Of(inventory) \subseteq N
      BY <1>4, <1>5
    <3> HIDE DEF N, S, P
    <3>2. /\ \A d \in Domain : \E s : Saved(DomainCalls(d), s, CallType(N, S))
          /\ \E s : Saved(RedirectCalls, s, CallType(N, S))
          /\ \E s : Saved(VpnCalls, s, CallType(N, S))
      BY <1>1, <3>1, NamesAreFinite, EverythingCommands
    <3>3. c.do = "domain" => c.to \in Domain /\ l = DomainCalls(c.to)
      BY CommandFields DEF CallsOf
    <3>4. (c.do = "redirect" => l = RedirectCalls) /\ (c.do = "vpn" => l = VpnCalls)
      BY DEF CallsOf
    <3> HIDE DEF l
    <3> QED BY <1>5, <3>2, <3>3, <3>4
  <2> HIDE DEF l, N, S, P
  <2> QED BY <1>5, <2>1 DEF Beginning, Saved, Lists, Whole, N, S, P, l
<1>6. CASE c.do \in {"prepare", "activate", "replace"}
  <2> DEFINE n == CHOOSE m \in SshOf(inventory) : TRUE
  <2>1. n \in S
    BY <1>4, <1>6 DEF Possible
  <2>2. /\ c.do = "prepare" => l = <<Call("prepare-key", n, domain, "plain")>>
        /\ c.do = "activate" => l = <<Call("activate-key", n, domain, "plain")>>
        /\ c.do = "replace" => l = <<Call("replace-key", n, domain, "plain")>>
    BY DEF CallsOf
  <2> HIDE DEF n, N, S, P, l
  <2>3. \A verb \in KeyCommands :
           LET t == Call(verb, n, domain, "plain") IN Single(<<t>>, t, CallType(N, S))
    BY <1>1, <2>1, OneCommand
  <2>4. PICK verb \in KeyCommands :
           /\ Single(l, Call(verb, n, domain, "plain"), CallType(N, S))
           /\ c.do = "prepare" => verb = "prepare-key"
    BY <1>6, <2>2, <2>3 DEF KeyCommands
  <2>5. LET t == Call("prepare-key", n, domain, "plain")
        IN t.call \notin Openers /\ t.call = "prepare-key" /\ t.block = "plain"
    BY DEF Call, Openers, Starters
  <2>6. Beginning(c, l, N, S)
    BY <1>6, <2>4, <2>5 DEF Beginning, Single
  <2> QED BY <2>6 DEF N, S, P, l
<1>7. CASE c.do = "uninstall"
  <2>1. l = UninstallCalls
    BY <1>7 DEF CallsOf
  <2> HIDE DEF N, S, P, l
  <2>2. /\ l \in Seq(CallType(N, S)) /\ Ordered(l) /\ l # <<>>
        /\ host.record # Nobody => ~Dependent(Head(l))
        /\ host.record = Nobody => Head(l) = Call("delete-project", Absent, domain, "plain")
        /\ \A i \in DOMAIN l : l[i].call \notin Openers
    BY <1>1, <2>1, UninstallCommand
  <2>3. Call("delete-project", Absent, domain, "plain").call = "delete-project"
    BY DEF Call
  <2>4. Beginning(c, l, N, S)
    BY <1>7, <2>2, <2>3 DEF Beginning
  <2> QED BY <2>4 DEF N, S, P, l
<1> QED BY <1>2, <1>3, <1>5, <1>6, <1>7, CommandFields

-----------------------------------------------------------------------------
(* What is left after a failure *)

\* What replaces the calls of a command, with what the first of them may rely on.
Replaces(L, C) ==
  /\ L \in Seq(C) /\ Ordered(L)
  /\ L # <<>> => \/ ~Dependent(Head(L))
                 \/ Head(L).call = "restore" /\ First.block = "relocation"
  /\ (\E i \in DOMAIN L : L[i].call \in Starters)
       => \E i \in DOMAIN op.todo : op.todo[i].call \in Starters

LEMMA NothingOpened ==
  ASSUME NEW C, NEW L \in Seq(C), Ordered(L),
         L # <<>> => ~Dependent(Head(L)) \/ (Head(L).call = "restore" /\ First.block = "relocation"),
         \A i \in DOMAIN L : L[i].call \notin Starters
  PROVE  Replaces(L, C)
BY DEF Replaces

LEMMA SuffixOrdered ==
  ASSUME NEW C, NEW s \in Seq(C), Ordered(s), NEW m \in 1..Len(s)
  PROVE  LET L == SubSeq(s, m, Len(s))
         IN /\ L \in Seq(C) /\ Ordered(L) /\ L # <<>> /\ Head(L) = s[m]
            /\ \A i \in DOMAIN L : \E j \in DOMAIN s : L[i] = s[j]
<1> DEFINE L == SubSeq(s, m, Len(s))
<1>1. Len(s) \in Nat /\ DOMAIN s = 1..Len(s) /\ m <= Len(s) /\ m \in Nat /\ m >= 1
  OBVIOUS
<1>2. /\ L \in Seq(C) /\ Len(L) = Len(s) - m + 1
      /\ \A i \in 1..(Len(s) - m + 1) : L[i] = s[m + i - 1]
  <2>1. \A i \in m..Len(s) : s[i] \in C
    BY <1>1
  <2> QED BY <1>1, <2>1, SubSeqProperties
<1> HIDE DEF L
<1>3. Len(L) \in Nat /\ Len(L) >= 1 /\ DOMAIN L = 1..Len(L) /\ L # <<>>
  BY <1>1, <1>2
<1>4. ASSUME NEW i \in 1..Len(L) PROVE m + i - 1 \in 1..Len(s) /\ L[i] = s[m + i - 1]
  BY <1>1, <1>2, <1>3
<1>5. Head(L) = s[m]
  <2>1. Head(L) = L[1] /\ 1 \in 1..Len(L) /\ m + 1 - 1 = m
    BY <1>1, <1>2, <1>3
  <2> QED BY <1>4, <2>1
<1>6. ASSUME NEW i \in 2..Len(L) PROVE Follows(L[i - 1], L[i])
  <2> DEFINE k == m + i - 1
  <2>1. i \in 1..Len(L) /\ i - 1 \in 1..Len(L) /\ m + (i - 1) - 1 = k - 1 /\ k \in 2..Len(s)
    BY <1>1, <1>2, <1>3
  <2>2. L[i] = s[k] /\ L[i - 1] = s[k - 1]
    BY <1>4, <2>1
  <2> QED BY <2>1, <2>2 DEF Ordered
<1>7. ASSUME NEW i \in 1..Len(L), NEW j \in 1..Len(L), i < j PROVE Later(L[i], L[j])
  <2>1. m + i - 1 \in 1..Len(s) /\ m + j - 1 \in 1..Len(s) /\ m + i - 1 < m + j - 1
    BY <1>1, <1>2, <1>3, <1>7
  <2> QED BY <1>4, <2>1 DEF Ordered
<1>8. \A i \in DOMAIN L : \E j \in DOMAIN s : L[i] = s[j]
  BY <1>1, <1>3, <1>4
<1> QED BY <1>2, <1>3, <1>5, <1>6, <1>7, <1>8 DEF Ordered, L

\* A block whose failure stops nothing else is left out to its end.
LEMMA SoftFailure ==
  ASSUME NEW C, op.todo \in Seq(C), op.todo # <<>>, Ordered(op.todo), First.block \in SoftBlocks
  PROVE  Replaces(Failure(First), C)
<1> DEFINE s == First
           rest == Tail(op.todo)
           I == {i \in 1..Len(rest) : rest[i].block # s.block \/ rest[i].name # s.name}
           out == Min(I)
           L == SubSeq(rest, out, Len(rest))
<1>1. /\ rest \in Seq(C) /\ Ordered(rest) /\ s = op.todo[1] /\ DOMAIN op.todo = 1..Len(op.todo)
      /\ Len(rest) = Len(op.todo) - 1 /\ Len(op.todo) \in Nat /\ Len(rest) \in Nat
      /\ \A i \in 1..Len(rest) : rest[i] = op.todo[i + 1]
  <2>1. rest \in Seq(C) /\ Ordered(rest) /\ \A i \in DOMAIN rest : rest[i] = op.todo[i + 1]
    BY TailOrdered
  <2>2. Len(rest) = Len(op.todo) - 1 /\ Len(op.todo) \in Nat /\ s = op.todo[1]
    BY DEF First
  <2>3. DOMAIN rest = 1..Len(rest) /\ Len(rest) \in Nat /\ DOMAIN op.todo = 1..Len(op.todo)
    BY <2>1
  <2> QED BY <2>1, <2>2, <2>3
<1>2. Failure(s) = IF I = {} THEN <<>> ELSE L
  <2>1. I # {} => out # 0
    <3>1. I \in SUBSET Nat
      OBVIOUS
    <3>2. I # {} => out \in I
      <4> HIDE DEF I
      <4> QED BY <3>1, MinIsLeast
    <3>3. 0 \notin I
      OBVIOUS
    <3> HIDE DEF I, out
    <3> QED BY <3>2, <3>3
  <2>2. SelectInSeq(rest, LAMBDA t : t.block # s.block \/ t.name # s.name) = IF I # {} THEN out ELSE 0
    BY DEF SelectInSeq
  <2> HIDE DEF out, I
  <2> QED BY <2>1, <2>2 DEF Failure
<1>3. CASE I = {}
  <2>1. <<>> \in Seq(C) /\ Ordered(<<>>) /\ DOMAIN <<>> = {}
    BY DEF Ordered
  <2> HIDE DEF I, L, rest
  <2> QED BY <1>2, <1>3, <2>1 DEF Replaces
<1>4. CASE I # {}
  <2>1. out \in I /\ \A i \in I : out <= i
    <3>1. I \in SUBSET Nat
      OBVIOUS
    <3> HIDE DEF I
    <3> QED BY <1>4, <3>1, MinIsLeast
  <2> HIDE DEF out
  <2>2. out \in 1..Len(rest) /\ (rest[out].block # s.block \/ rest[out].name # s.name)
    BY <2>1
  <2>3. \A i \in 1..Len(rest) : i < out => rest[i].block = s.block /\ rest[i].name = s.name
    BY <1>1, <2>1, <2>2
  <2> HIDE DEF rest, I
  <2>4. op.todo[out].block = s.block /\ op.todo[out].name = s.name
    <3>1. CASE out = 1
      BY <1>1, <3>1
    <3>2. CASE out # 1
      <4>1. out - 1 \in 1..Len(rest) /\ out - 1 < out /\ (out - 1) + 1 = out
        BY <1>1, <2>2, <3>2
      <4> QED BY <1>1, <2>3, <4>1
    <3> QED BY <3>1, <3>2
  <2>5. ~Dependent(rest[out])
    <3>1. out + 1 \in 2..Len(op.todo) /\ (out + 1) - 1 = out /\ rest[out] = op.todo[out + 1]
      BY <1>1, <2>2
    <3>2. Follows(op.todo[out], rest[out])
      BY <3>1 DEF Ordered
    <3> QED BY <2>2, <2>4, <3>2 DEF Follows
  <2>6. /\ L \in Seq(C) /\ Ordered(L) /\ L # <<>> /\ Head(L) = rest[out]
        /\ \A i \in DOMAIN L : \E j \in DOMAIN rest : L[i] = rest[j]
    BY <1>1, <2>2, SuffixOrdered
  <2> HIDE DEF L
  <2>7. \A i \in DOMAIN L : \E j \in DOMAIN op.todo : L[i] = op.todo[j]
    <3>1. DOMAIN rest = 1..Len(rest)
      BY <1>1
    <3>2. \A j \in DOMAIN rest : j + 1 \in DOMAIN op.todo /\ rest[j] = op.todo[j + 1]
      BY <1>1, <3>1
    <3> QED BY <2>6, <3>2
  <2> QED BY <1>2, <1>4, <2>5, <2>6, <2>7 DEF Replaces
<1> QED BY <1>3, <1>4 DEF s

LEMMA HardFailure ==
  ASSUME NEW N \in SUBSET Name, NEW S \in SUBSET N, op.todo \in Seq(CallType(N, S)), op.todo # <<>>,
         First.block \notin SoftBlocks, First.block = "forward" /\ op.fresh => First.name \in S
  PROVE  Replaces(Failure(First), CallType(N, S))
<1> DEFINE s == First
           C == CallType(N, S)
           restore == Call("restore", s.name, s.to, "undo")
           undo == Undo(s)
           cleanup == IF NewSsh(s) THEN EnableCleanup(s.name, s.to) ELSE <<>>
<1>1. s \in C /\ s \in CallRecord /\ s.name \in Name \cup {Absent} /\ s.to \in Domain
  <2>1. s \in C
    BY DEF First
  <2> HIDE DEF s
  <2>2. s \in CallRecord
    BY <2>1 DEF CallType
  <2> QED BY <2>1, <2>2 DEF CallRecord
<1>2. s.block \in {"relocation", "forward", "publish"} => s.name \in N
  BY <1>1 DEF CallType, RelocationCalls, ForwardCalls, Nameless
<1>3. s.block = "relocation" => s.name \in S
  BY <1>1 DEF CallType, RelocationCalls, SshCalls
<1>4. Failure(s) = undo \o cleanup
  BY DEF Failure
<1>5. cleanup \in Plain(C)
  <2>1. NewSsh(s) => EnableCleanup(s.name,
        s.to) \in Plain(About(N, S, s.name, {"revoke", "unforward", "unname"}))
    BY <1>1, <1>2, CleanupPlain DEF NewSsh
  <2>2. NewSsh(s) => EnableCleanup(s.name, s.to) \in Plain(C)
    BY <2>1, PlainAbout
  <2> QED BY <2>2, EmptyPlain
<1>6. CASE s.block = "relocation"
  <2>1. undo = <<restore>>
    BY <1>6 DEF Undo
  <2>2. restore \in C
    <3>1. s.name \in S /\ s.name \in N /\ "restore" \in Verb /\ "undo" \in Block
      BY <1>3, <1>6 DEF Verb, SshCalls, Block, SoftBlocks
    <3> QED BY <1>1, <3>1, CallTypes DEF Nameless, Ends
  <2>3. restore.call = "restore" /\ restore.call \notin Openers \cup Ends
    BY DEF Call, Openers, Starters, Ends
  <2> DEFINE l == <<restore>>
  <2> HIDE DEF C, restore, cleanup, undo
  <2>4. l \in Seq(C) /\ Ordered(l) /\ Len(l) = 1 /\ Head(l) = restore /\ l # <<>>
    BY <2>2, OneCall
  <2> HIDE DEF l
  <2>5. cleanup \in Seq(C) /\ Ordered(cleanup) /\ Whole(cleanup)
        /\ \A i \in DOMAIN cleanup : cleanup[i].call \notin Openers
    BY <1>5 DEF Plain
  <2>6. l[1] = restore
    BY <2>4
  <2>7. \A i \in 1..Len(l) : l[i] = restore
    BY <2>4, <2>6
  <2>8. \A i \in 1..Len(l), j \in 1..Len(cleanup) : Later(l[i], cleanup[j])
    BY <2>3, <2>7 DEF Later
  <2>9. cleanup # <<>> => Follows(l[Len(l)], Head(cleanup))
    BY <2>3, <2>4, <2>5, <2>6, FreeFollows DEF Whole
  <2>10. l \o cleanup \in Seq(C) /\ Ordered(l \o cleanup)
    BY <2>4, <2>5, <2>8, <2>9, ConcatOrdered
  <2>11. Head(l \o cleanup) = restore
    BY <2>4, <2>5, HeadConcat
  <2>12. \A i \in DOMAIN (l \o cleanup) : (l \o cleanup)[i].call \notin Starters
    <3> DEFINE u == l \o cleanup
    <3>0. /\ Len(l \o cleanup) = Len(l) + Len(cleanup)
          /\ \A i \in 1..(Len(l) + Len(cleanup)) :
                (l \o cleanup)[i] = IF i <= Len(l) THEN l[i] ELSE cleanup[i - Len(l)]
      BY ONLY <2>4, <2>5, ConcatProperties
    <3>1. Len(u) = 1 + Len(cleanup) /\ Len(cleanup) \in Nat /\ DOMAIN u = 1..Len(u)
      BY <2>4, <2>5, <2>10, <3>0
    <3>2. \A i \in 1..Len(u) : u[i] = IF i <= 1 THEN l[i] ELSE cleanup[i - 1]
      BY <2>4, <2>5, <3>0, <3>1
    <3> HIDE DEF u
    <3>3. ASSUME NEW i \in 1..Len(u) PROVE u[i].call \notin Starters
      <4>1. CASE i = 1
        BY <2>3, <2>6, <3>2, <4>1 DEF Openers
      <4>2. CASE i # 1
        <5>1. ~(i <= 1) /\ i - 1 \in DOMAIN cleanup
          BY <2>5, <3>1, <4>2
        <5> QED BY <2>5, <3>2, <5>1 DEF Openers
      <4> QED BY <4>1, <4>2
    <3> QED BY <3>1, <3>3 DEF u
  <2>13. Replaces(l \o cleanup, C)
    BY <1>6, <2>3, <2>10, <2>11, <2>12, NothingOpened DEF s
  <2> QED BY <1>4, <2>1, <2>13 DEF l, C
<1>7. CASE s.block # "relocation"
  <2>1. undo \in Plain(C)
    <3>1. CASE s.block = "host"
      <4>1. Revoke(s.name, s.to, "undo") \in Plain(About(N, S, s.name, {"undo"}))
        BY <1>1, RevokePlain
      <4>2. Revoke(s.name, s.to, "undo") \in Plain(C)
        BY <4>1, PlainAbout
      <4> QED BY <3>1, <4>2 DEF Undo
    <3>2. CASE s.block = "forward" /\ op.fresh
      <4> DEFINE calls == <<"undo-units", "close-gateway", "restore">>
      <4>1. OneBlock(Calls(calls, s.name, s.to, "undo"), calls, s.name, s.to, "undo", C)
        BY <1>1, <3>2, UndoList
      <4>2. ~Dependent(Call(calls[1], s.name, s.to, "undo"))
        BY DEF Call, Dependent, Forwards, AdminSteps, KeySteps
      <4>3. undo = Calls(calls, s.name, s.to, "undo")
        BY <3>2 DEF Undo, UndoForwarding
      <4> HIDE DEF calls, C, undo
      <4> QED BY <4>1, <4>2, <4>3 DEF OneBlock
    <3>3. CASE s.block # "host" /\ ~(s.block = "forward" /\ op.fresh)
      BY <1>7, <3>3, EmptyPlain DEF Undo
    <3> QED BY <3>1, <3>2, <3>3
  <2> HIDE DEF C, undo, cleanup
  <2>2. undo \o cleanup \in Plain(C)
    BY <1>5, <2>1, PlainConcat
  <2> DEFINE u == undo \o cleanup
  <2>3. u \in Seq(C) /\ Ordered(u) /\ Whole(u) /\ \A i \in DOMAIN u : u[i].call \notin Openers
    BY <2>2 DEF Plain
  <2> HIDE DEF u
  <2>4. \A i \in DOMAIN u : u[i].call \notin Starters
    BY <2>3 DEF Openers
  <2>5. Replaces(u, C)
    <3>1. u # <<>> => ~Dependent(Head(u)) \/ (Head(u).call = "restore" /\ First.block = "relocation")
      BY <2>3 DEF Whole
    <3>2. ~(\E i \in DOMAIN u : u[i].call \in Starters)
      BY <2>4
    <3> QED BY <2>3, <3>1, <3>2 DEF Replaces
  <2> QED BY <1>4, <2>5 DEF u, C
<1> QED BY <1>6, <1>7 DEF s

-----------------------------------------------------------------------------
(* What comes instead of a call *)

\* Calls that others rely on.
Sources ==
  {"check-forwarding", "check-dns", "relocate", "start-private", "close-gateway", "install",
   "save-activity", "stop-admin", "start-stock", "remove-forwarding", "revoke-keys",
   "disable-record", "terminate", "stop-daemon", "check-owned", "remove-unit", "reload",
   "remove-record", "remove-files", "make-directory", "write-config", "write-record",
   "write-unit", "install-key"}

LEMMA QuietFollows ==
  ASSUME NEW s, NEW t, Follows(s, t), s.call \notin Sources
  PROVE  ~Dependent(t)
BY DEF Follows, FollowsInAdmin, FollowsInKeys, Dependent, AdminSteps, KeySteps, Forwards, Sources

\* The calls after the next one.
RestOK(C) ==
  LET rest == Tail(op.todo)
  IN /\ First \in C /\ First = op.todo[1] /\ 1 \in DOMAIN op.todo
     /\ rest \in Seq(C) /\ Ordered(rest)
     /\ rest # <<>> => First.call \notin Ends /\ Head(rest) \in C /\ Follows(First, Head(rest))
     /\ \A i \in DOMAIN rest : /\ Later(First, rest[i])
                               /\ \E j \in DOMAIN op.todo : rest[i] = op.todo[j]

LEMMA RestOrdered ==
  ASSUME NEW C, op.todo \in Seq(C), op.todo # <<>>, Ordered(op.todo)
  PROVE  RestOK(C)
<1> DEFINE rest == Tail(op.todo)
<1>1. /\ rest \in Seq(C) /\ Ordered(rest)
      /\ rest # <<>> => Follows(Head(op.todo), Head(rest)) /\ Head(op.todo).call \notin Ends
      /\ \A i \in DOMAIN rest : rest[i] = op.todo[i + 1] /\ Later(Head(op.todo), rest[i])
  BY TailOrdered
<1>2. /\ Len(rest) = Len(op.todo) - 1 /\ Len(op.todo) \in Nat /\ Len(op.todo) >= 1
      /\ Head(op.todo) = op.todo[1] /\ DOMAIN op.todo = 1..Len(op.todo)
      /\ Head(op.todo) \in C
  OBVIOUS
<1> HIDE DEF rest
<1>3. DOMAIN rest = 1..Len(rest) /\ (rest # <<>> => Head(rest) \in C)
  BY <1>1
<1>4. \A i \in DOMAIN rest : i + 1 \in DOMAIN op.todo
  BY <1>2, <1>3
<1>5. 1 \in DOMAIN op.todo
  BY <1>2
<1> QED BY <1>1, <1>2, <1>3, <1>4, <1>5 DEF RestOK, First, rest

\* What is put in the place of a call that succeeds, and begins with t.
Inserted(L, t, C) ==
  /\ L \in Seq(C) /\ Ordered(L) /\ L # <<>> /\ Head(L) = t /\ t \in C
  /\ (\E i \in DOMAIN L : L[i].call \in Starters)
       => \E i \in DOMAIN op.todo : op.todo[i].call \in Starters

LEMMA Insert ==
  ASSUME NEW C, RestOK(C), NEW l \in Seq(C), Ordered(l), l # <<>>,
         \A i \in DOMAIN l : l[i].call \notin Openers \cup Ends,
         Tail(op.todo) # <<>> => Follows(l[Len(l)], Head(Tail(op.todo)))
  PROVE  Inserted(l \o Tail(op.todo), Head(l), C)
<1> DEFINE rest == Tail(op.todo)
           u == l \o rest
<1>1. /\ rest \in Seq(C) /\ Ordered(rest)
      /\ \A i \in DOMAIN rest : \E j \in DOMAIN op.todo : rest[i] = op.todo[j]
  BY DEF RestOK
<1>2. rest # <<>> => Follows(l[Len(l)], Head(rest))
  OBVIOUS
<1> HIDE DEF rest
<1>3. \A i \in 1..Len(l), j \in 1..Len(rest) : Later(l[i], rest[j])
  BY DEF Later
<1>4. u \in Seq(C) /\ Ordered(u)
  BY <1>1, <1>2, <1>3, ConcatOrdered
<1>5. u # <<>> /\ Head(u) = Head(l) /\ Head(l) \in C
  BY <1>1, HeadConcat
<1>6. /\ Len(u) = Len(l) + Len(rest) /\ Len(l) \in Nat /\ Len(rest) \in Nat /\ DOMAIN u = 1..Len(u)
      /\ DOMAIN l = 1..Len(l) /\ DOMAIN rest = 1..Len(rest)
  BY <1>1, <1>4, ConcatProperties
<1>7. \A i \in 1..Len(u) : u[i] = IF i <= Len(l) THEN l[i] ELSE rest[i - Len(l)]
  BY <1>1, <1>6, ConcatProperties
<1> HIDE DEF u
<1>8. ASSUME NEW i \in DOMAIN u, u[i].call \in Starters
      PROVE  \E j \in DOMAIN op.todo : op.todo[j].call \in Starters
  <2>1. CASE i <= Len(l)
    <3>1. i \in DOMAIN l /\ u[i] = l[i]
      BY <1>6, <1>7, <2>1
    <3> QED BY <1>8, <3>1 DEF Openers
  <2>2. CASE ~(i <= Len(l))
    <3>1. i - Len(l) \in DOMAIN rest /\ u[i] = rest[i - Len(l)]
      BY <1>6, <1>7, <2>2
    <3> QED BY <1>1, <1>8, <3>1
  <2> QED BY <2>1, <2>2
<1>9. Inserted(u, Head(l), C)
  BY <1>4, <1>5, <1>8 DEF Inserted
<1> QED BY <1>9 DEF u, rest

\* One block in the place of a call that nothing relies on.
LEMMA InsertBlock ==
  ASSUME NEW C, RestOK(C), NEW l, NEW calls, NEW n, NEW d, NEW b, OneBlock(l, calls, n, d, b, C),
         First.call \notin Sources
  PROVE  Inserted(l \o Tail(op.todo), Call(calls[1], n, d, b), C)
<1>1. /\ l \in Seq(C) /\ Ordered(l) /\ l # <<>> /\ Head(l) = Call(calls[1], n, d, b)
      /\ \A i \in DOMAIN l : l[i].call \notin Openers \cup Ends
  BY DEF OneBlock
<1>2. Tail(op.todo) # <<>> => Follows(l[Len(l)], Head(Tail(op.todo)))
  <2>1. SUFFICES ASSUME Tail(op.todo) # <<>> PROVE Follows(l[Len(l)], Head(Tail(op.todo)))
    OBVIOUS
  <2>2. ~Dependent(Head(Tail(op.todo)))
    BY <2>1, QuietFollows DEF RestOK
  <2>3. Len(l) \in DOMAIN l
    BY <1>1
  <2> QED BY <1>1, <2>2, <2>3, FreeFollows
<1> QED BY <1>1, <1>2, Insert

LEMMA RestoreTodo ==
  ASSUME NEW N \in SUBSET Name, NEW S \in SUBSET N, RestOK(CallType(N, S)), First.call = "restore"
  PROVE  /\ First.name \in S /\ First.block # "relocation"
         /\ Inserted(Part(<<"stop-admin", "start-stock", "forget-activity">>, First.block)
              \o Tail(op.todo),
                     Call("stop-admin", First.name, First.to, First.block), CallType(N, S))
<1> DEFINE C == CallType(N, S)
           calls == <<"stop-admin", "start-stock", "forget-activity">>
           n == First.name
           d == First.to
           b == First.block
<1>1. First \in C
  BY DEF RestOK
<1>2. n \in S /\ d \in Domain /\ b \in Block \ {"host", "relocation", "forward", "publish"}
  BY <1>1 DEF CallType, CallRecord, SshCalls, RelocationCalls, ForwardCalls, KeyCalls
<1>3. OneBlock(Calls(calls, n, d, b), calls, n, d, b, C)
  BY <1>2, RestoreList
<1>4. calls[1] = "stop-admin" /\ First.call \notin Sources
  BY DEF Sources
<1>5. Part(calls, b) = Calls(calls, n, d, b)
  BY DEF Part
<1> HIDE DEF C, calls, n, d, b
<1>6. Inserted(Calls(calls, n, d, b) \o Tail(op.todo), Call(calls[1], n, d, b), C)
  BY <1>3, <1>4, InsertBlock DEF C
<1> QED BY <1>2, <1>4, <1>5, <1>6 DEF C, calls, n, d, b

LEMMA UnforwardTodo ==
  ASSUME NEW N \in SUBSET Name, NEW S \in SUBSET N, RestOK(CallType(N, S)), First.call = "unforward",
         NEW mine \in BOOLEAN, NEW ssh \in BOOLEAN, ssh => First.name \in S
  PROVE  Inserted(Part(<<"close-gateway">> \o (IF mine THEN <<"remove-forwarding">> ELSE <<>>)
                         \o (IF ssh THEN <<"restore">> ELSE <<>>), First.block) \o Tail(op.todo),
                  Call("close-gateway", First.name, First.to, First.block), CallType(N, S))
         /\ First.block # "forward"
<1> DEFINE C == CallType(N, S)
           calls == <<"close-gateway">> \o (IF mine THEN <<"remove-forwarding">> ELSE <<>>)
                      \o (IF ssh THEN <<"restore">> ELSE <<>>)
           n == First.name
           d == First.to
           b == First.block
<1>1. First \in C
  BY DEF RestOK
<1>2. n \in N /\ d \in Domain /\ b \in Block \ {"host", "relocation", "forward", "publish"}
  BY <1>1 DEF CallType, CallRecord, Nameless, RelocationCalls, ForwardCalls, KeyCalls
<1>3. calls[1] = "close-gateway" /\ First.call \notin Sources
  BY DEF Sources
<1>4. OneBlock(Calls(calls, n, d, b), calls, n, d, b, C)
  <2>5. /\ <<"close-gateway">> \o <<>> = <<"close-gateway">>
        /\ <<"close-gateway", "remove-forwarding">> \o <<>> = <<"close-gateway", "remove-forwarding">>
    OBVIOUS
  <2>6. {"close-gateway", "remove-forwarding", "restore"} \subseteq Verb
    BY DEF Verb, SshCalls
  <2>7. <<"close-gateway">> \o <<"remove-forwarding">> = <<"close-gateway", "remove-forwarding">>
    BY <2>6, PairConcat
  <2>8. <<"close-gateway">> \o <<"restore">> = <<"close-gateway", "restore">>
    BY <2>6, PairConcat
  <2>9. <<"close-gateway", "remove-forwarding">> \o <<"restore">>
          = <<"close-gateway", "remove-forwarding", "restore">>
    BY <2>6, TripleConcat
  <2>1. CASE ~mine /\ ~ssh
    <3>1. calls = <<"close-gateway">>
      BY <2>1, <2>5, <2>7, <2>8, <2>9
    <3> HIDE DEF calls, n, d, b
    <3> QED BY <1>2, <3>1, CloseList
  <2>2. CASE mine /\ ~ssh
    <3>1. calls = <<"close-gateway", "remove-forwarding">>
      BY <2>2, <2>5, <2>7, <2>8, <2>9
    <3> HIDE DEF calls, n, d, b
    <3> QED BY <1>2, <3>1, CloseRemoveList
  <2>3. CASE ~mine /\ ssh
    <3>1. calls = <<"close-gateway", "restore">> /\ n \in S
      BY <2>3, <2>5, <2>7, <2>8, <2>9
    <3> HIDE DEF calls, n, d, b
    <3> QED BY <1>2, <3>1, CloseRestoreList
  <2>4. CASE mine /\ ssh
    <3>1. calls = <<"close-gateway", "remove-forwarding", "restore">> /\ n \in S
      BY <2>4, <2>5, <2>7, <2>8, <2>9
    <3> HIDE DEF calls, n, d, b
    <3> QED BY <1>2, <3>1, CloseRemoveRestoreList
  <2> QED BY <2>1, <2>2, <2>3, <2>4
<1>5. Part(calls, b) = Calls(calls, n, d, b)
  BY DEF Part
<1> HIDE DEF C, calls, n, d, b
<1>6. Inserted(Calls(calls, n, d, b) \o Tail(op.todo), Call(calls[1], n, d, b), C)
  BY <1>3, <1>4, InsertBlock DEF C
<1> QED BY <1>2, <1>3, <1>5, <1>6 DEF C, calls, n, d, b

LEMMA RelocateTodo ==
  ASSUME NEW N \in SUBSET Name, NEW S \in SUBSET N, RestOK(CallType(N, S)), First.call = "relocate",
         First.name \in S
  PROVE  Inserted(Part(<<"save-activity", "stop-admin", "start-private">>, "relocation")
         \o Tail(op.todo),
                  Call("save-activity", First.name, First.to, "relocation"), CallType(N, S))
<1> DEFINE C == CallType(N, S)
           calls == <<"save-activity", "stop-admin", "start-private">>
           n == First.name
           d == First.to
           l == Calls(calls, n, d, "relocation")
<1>1. First \in C
  BY DEF RestOK
<1>2. d \in Domain
  BY <1>1 DEF CallType, CallRecord
<1>3. OneBlock(l, calls, n, d, "relocation", C)
  BY <1>2, RelocateList
<1>4. calls[1] = "save-activity" /\ calls[3] = "start-private" /\ Len(calls) = 3
  OBVIOUS
<1>5. Part(calls, "relocation") = l
  BY DEF Part
<1> HIDE DEF calls, l
<1>6. /\ l \in Seq(C) /\ Ordered(l) /\ l # <<>> /\ Head(l) = Call("save-activity", n, d, "relocation")
      /\ l[Len(l)] = Call("start-private", n, d, "relocation")
      /\ \A i \in DOMAIN l : l[i].call \notin Openers \cup Ends
  BY <1>3, <1>4 DEF OneBlock
<1>7. ASSUME NEW t, Follows(First, t) PROVE Follows(Call("start-private", n, d, "relocation"), t)
  BY <1>7 DEF Follows, FollowsInAdmin, FollowsInKeys, Dependent, AdminSteps, KeySteps, Forwards,
              Call, SoftBlocks, Ends
<1>8. Tail(op.todo) # <<>> => Follows(l[Len(l)], Head(Tail(op.todo)))
  BY <1>6, <1>7 DEF RestOK
<1> HIDE DEF C
<1>9. Inserted(l \o Tail(op.todo), Head(l), C)
  BY <1>6, <1>8, Insert DEF C
<1> QED BY <1>5, <1>6, <1>9 DEF C, calls

\* A call that installs a key is replaced by others, before the rest of its command.
LEMMA InsertOpener ==
  ASSUME NEW C, RestOK(C), First.call \in Starters \ {"install-key"},
         NEW k \in Seq(C), Ordered(k), k # <<>>, \A i \in DOMAIN k : k[i].call \notin Ends,
         NEW pre \in Seq(C), Ordered(pre), \A i \in DOMAIN pre : pre[i].call \notin Openers,
         pre # <<>> => Follows(pre[Len(pre)], Head(k))
  PROVE  Inserted((pre \o k) \o Tail(op.todo), IF pre = <<>> THEN Head(k) ELSE Head(pre), C)
<1> DEFINE rest == Tail(op.todo)
           u == k \o rest
           v == pre \o u
<1>1. /\ rest \in Seq(C) /\ Ordered(rest)
      /\ rest # <<>> => ~Dependent(Head(rest))
      /\ \A i \in DOMAIN rest : /\ rest[i].call \notin Starters
                                /\ rest[i].block \in PublishBlocks \/ rest[i].call = "save"
  <2>1. First.call \notin Sources /\ First.call \in Openers
    BY DEF Sources, Openers, Starters
  <2>2. rest # <<>> => ~Dependent(Head(rest))
    BY <2>1, QuietFollows DEF RestOK
  <2>3. \A i \in DOMAIN rest : Later(First, rest[i])
    BY DEF RestOK
  <2> QED BY <2>1, <2>2, <2>3 DEF RestOK, Later
<1> HIDE DEF rest
<1>2. (pre \o k) \o rest = v
  <2>1. pre \in Seq(C) /\ k \in Seq(C) /\ rest \in Seq(C)
    BY <1>1
  <2> QED BY ONLY <2>1, ConcatAssociative
<1>3. \A i \in 1..Len(k), j \in 1..Len(rest) : Later(k[i], rest[j])
  <2>1. DOMAIN rest = 1..Len(rest)
    BY <1>1
  <2> QED BY <1>1, <2>1 DEF Later
<1>4. rest # <<>> => Follows(k[Len(k)], Head(rest))
  <2>1. Len(k) \in DOMAIN k
    OBVIOUS
  <2> QED BY <1>1, <2>1, FreeFollows
<1>5. u \in Seq(C) /\ Ordered(u)
  BY <1>1, <1>3, <1>4, ConcatOrdered
<1>6. u # <<>> /\ Head(u) = Head(k) /\ Head(k) \in C
  BY <1>1, HeadConcat
<1> HIDE DEF u
<1>7. \A i \in 1..Len(pre), j \in 1..Len(u) : Later(pre[i], u[j])
  BY DEF Later
<1>8. v \in Seq(C) /\ Ordered(v)
  BY <1>5, <1>6, <1>7, ConcatOrdered
<1>9. CASE pre = <<>>
  <2>1. v = u
    BY <1>5, <1>9
  <2> QED BY <1>2, <1>5, <1>6, <1>9, <2>1 DEF Inserted, RestOK, rest
<1>10. CASE pre # <<>>
  <2>1. v # <<>> /\ Head(v) = Head(pre) /\ Head(pre) \in C
    BY <1>5, <1>10, HeadConcat
  <2> HIDE DEF v
  <2> QED BY <1>2, <1>8, <1>10, <2>1 DEF Inserted, RestOK, rest
<1> QED BY <1>9, <1>10

LEMMA KeyList ==
  ASSUME NEW N \in SUBSET Name, NEW S \in SUBSET N, NEW n \in N, NEW d \in Domain
  PROVE  LET calls == <<"install-key", "authorize", "start-daemon", "enable-record", "verify">>
             l == Calls(calls, n, d, "host")
         IN /\ l \in Seq(CallType(N, S)) /\ Ordered(l) /\ l # <<>>
            /\ Head(l) = Call("install-key", n, d, "host")
            /\ \A i \in DOMAIN l : l[i].call \notin Ends
<1> DEFINE C == CallType(N, S)
           verbs == {"install-key", "authorize", "start-daemon", "enable-record", "verify"}
           calls == <<"install-key", "authorize", "start-daemon", "enable-record", "verify">>
           l == Calls(calls, n, d, "host")
           call(c) == Call(c, n, d, "host")
<1>1. verbs \subseteq Verb /\ verbs \subseteq KeyCalls /\ verbs \cap (Ends \cup Nameless \cup SshCalls)
      = {}
  BY DEF Verb, KeyCalls, Nameless, SshCalls, Ends
<1>2. \A c \in verbs : c \notin {"save-activity", "start-private", "install", "open-gateway",
      "unforward"}
  OBVIOUS
<1>3. "host" \in Block \ {"relocation", "forward", "publish", "plain"}
  BY DEF Block
<1>4. ASSUME NEW c \in verbs PROVE call(c) \in C /\ call(c).call \notin Ends
  <2>1. call(c) \in C
    BY <1>1, <1>2, <1>3, CallTypes
  <2> QED BY <1>1, <2>1 DEF Call
<1>5. Follows(call("install-key"), call("authorize"))
  BY DEF Call, Follows, FollowsInAdmin, FollowsInKeys, Forwards, Ends
<1>6. Follows(call("authorize"), call("start-daemon"))
  BY DEF Call, Follows, FollowsInAdmin, FollowsInKeys, Forwards, Ends, Dependent, AdminSteps, KeySteps
<1>7. Follows(call("start-daemon"), call("enable-record"))
  BY DEF Call, Follows, FollowsInAdmin, FollowsInKeys, Forwards, Ends, Dependent, AdminSteps, KeySteps
<1>8. Follows(call("enable-record"), call("verify"))
  BY DEF Call, Follows, FollowsInAdmin, FollowsInKeys, Forwards, Ends, Dependent, AdminSteps, KeySteps
<1>9. \A s : \A c \in verbs \ {"install-key"} : Later(s, call(c))
  BY DEF Later, Call, Starters, PublishBlocks
<1>10. /\ calls \in Seq(verbs) /\ Len(calls) = 5 /\ calls # <<>>
       /\ calls[1] = "install-key" /\ calls[2] = "authorize" /\ calls[3] = "start-daemon"
       /\ calls[4] = "enable-record" /\ calls[5] = "verify"
  OBVIOUS
<1>11. calls \in Seq(Verb)
  BY <1>1, <1>10
<1> HIDE DEF calls, call, C, verbs
<1>12. \A i \in 1..5 : i = 1 \/ i = 2 \/ i = 3 \/ i = 4 \/ i = 5
  OBVIOUS
<1>13. \A i \in 1..Len(calls) : calls[i] \in verbs
  <2>1. calls \in Seq(verbs)
    BY <1>10
  <2> QED BY <2>1, ElementOfSeq
<1>14. \A i \in 1..Len(calls) : call(calls[i]) \in C
  BY <1>4, <1>13
<1>15. \A i \in 2..Len(calls) : Follows(call(calls[i - 1]), call(calls[i]))
  <2>1. Follows(call(calls[2 - 1]), call(calls[2])) /\ Follows(call(calls[3 - 1]), call(calls[3]))
    BY <1>5, <1>6, <1>10
  <2>2. Follows(call(calls[4 - 1]), call(calls[4])) /\ Follows(call(calls[5 - 1]), call(calls[5]))
    BY <1>7, <1>8, <1>10
  <2>3. \A i \in 2..5 : i = 2 \/ i = 3 \/ i = 4 \/ i = 5
    OBVIOUS
  <2> QED BY <1>10, <2>1, <2>2, <2>3
<1>16. \A i, j \in 1..Len(calls) : i < j => Later(call(calls[i]), call(calls[j]))
  <2>1. \A j \in 2..5 : calls[j] \in verbs \ {"install-key"}
    <3>1. \A i \in 2..5 : i = 2 \/ i = 3 \/ i = 4 \/ i = 5
      OBVIOUS
    <3> QED BY <1>10, <1>13, <3>1
  <2>2. \A i, j \in 1..5 : i < j => j \in 2..5
    OBVIOUS
  <2> QED BY <1>9, <1>10, <2>1, <2>2
<1>17. IsList(l, calls, n, d, "host", C)
  BY <1>11, <1>14, <1>15, <1>16, CallsList DEF call
<1> HIDE DEF l
<1>18. l \in Seq(C) /\ Ordered(l) /\ Len(l) = 5 /\ Head(l) = call("install-key") /\ l # <<>>
  BY <1>10, <1>17 DEF IsList, call
<1>19. \A i \in DOMAIN l : l[i].call \notin Ends
  <2>1. \A i \in 1..5 : l[i] = call(calls[i])
    BY <1>10, <1>17 DEF IsList, call
  <2>2. DOMAIN l = 1..5
    BY <1>18
  <2> QED BY <1>4, <1>10, <1>13, <2>1, <2>2
<1> QED BY <1>18, <1>19 DEF C, calls, l, call

LEMMA EnableTodo ==
  ASSUME NEW N \in SUBSET Name, NEW S \in SUBSET N, RestOK(CallType(N, S)), First.call = "enable-host",
         NEW same \in BOOLEAN
  PROVE  LET keys == Part(<<"install-key", "authorize", "start-daemon", "enable-record", "verify">>,
         "host")
             again == Part(<<"revoke-keys", "disable-record", "terminate", "stop-daemon">>, "plain")
             moved == IF same THEN <<>> ELSE Part(<<"write-config", "write-record">>, "host")
             first == Part(<<"make-directory", "write-record", "write-config", "write-unit">>, "plain")
         IN /\ Inserted((first \o keys) \o Tail(op.todo),
                        Call("make-directory", First.name, First.to, "plain"), CallType(N, S))
            /\ Inserted(((again \o moved) \o keys) \o Tail(op.todo),
                        Call("revoke-keys", First.name, First.to, "plain"), CallType(N, S))
<1> DEFINE C == CallType(N, S)
           n == First.name
           d == First.to
           keys == Part(<<"install-key", "authorize", "start-daemon", "enable-record", "verify">>,
           "host")
           again == Part(<<"revoke-keys", "disable-record", "terminate", "stop-daemon">>, "plain")
           config == Part(<<"write-config", "write-record">>, "host")
           moved == IF same THEN <<>> ELSE config
           first == Part(<<"make-directory", "write-record", "write-config", "write-unit">>, "plain")
<1>1. First \in C
  BY DEF RestOK
<1>2. n \in S /\ n \in N /\ n \in Name \cup {Absent} /\ d \in Domain
  BY <1>1 DEF CallType, CallRecord, SshCalls
<1>3. First.call \in Starters \ {"install-key"}
  BY DEF Starters
<1>4. /\ keys \in Seq(C) /\ Ordered(keys) /\ keys # <<>> /\ Head(keys)
           = Call("install-key", n, d, "host")
      /\ \A i \in DOMAIN keys : keys[i].call \notin Ends
  BY ZenonT(40), <1>2, KeyList DEF Part
<1>5. /\ again \in Seq(C) /\ Ordered(again) /\ again # <<>>
      /\ Head(again) = Call("revoke-keys", n, d, "plain")
      /\ again[Len(again)] = Call("stop-daemon", n, d, "plain")
      /\ \A i \in DOMAIN again : again[i].call \notin Openers
  <2> DEFINE calls == <<"revoke-keys", "disable-record", "terminate", "stop-daemon">>
  <2>1. OneBlock(Calls(calls, n, d, "plain"), calls, n, d, "plain", C)
    BY <1>2, RevokeList
  <2>2. calls[1] = "revoke-keys" /\ Len(calls) = 4 /\ calls[4] = "stop-daemon"
    OBVIOUS
  <2>3. again = Calls(calls, n, d, "plain")
    BY DEF Part
  <2> HIDE DEF calls, C, again, n, d
  <2> QED BY <2>1, <2>2, <2>3 DEF OneBlock
<1>6. /\ first \in Seq(C) /\ Ordered(first) /\ first # <<>>
      /\ Head(first) = Call("make-directory", n, d, "plain")
      /\ first[Len(first)] = Call("write-unit", n, d, "plain")
      /\ \A i \in DOMAIN first : first[i].call \notin Openers
  <2> DEFINE calls == <<"make-directory", "write-record", "write-config", "write-unit">>
  <2>1. OneBlock(Calls(calls, n, d, "plain"), calls, n, d, "plain", C)
    BY <1>2, FirstList
  <2>2. calls[1] = "make-directory" /\ Len(calls) = 4 /\ calls[4] = "write-unit"
    OBVIOUS
  <2>3. first = Calls(calls, n, d, "plain")
    BY DEF Part
  <2> HIDE DEF calls, C, first, n, d
  <2> QED BY <2>1, <2>2, <2>3 DEF OneBlock
<1>7. /\ config \in Seq(C) /\ Ordered(config) /\ config # <<>>
      /\ Head(config) = Call("write-config", n, d, "host")
      /\ config[Len(config)] = Call("write-record", n, d, "host")
      /\ \A i \in DOMAIN config : config[i].call \notin Openers
  <2> DEFINE calls == <<"write-config", "write-record">>
  <2>1. OneBlock(Calls(calls, n, d, "host"), calls, n, d, "host", C)
    BY <1>2, MoveList
  <2>2. calls[1] = "write-config" /\ Len(calls) = 2 /\ calls[2] = "write-record"
    OBVIOUS
  <2>3. config = Calls(calls, n, d, "host")
    BY DEF Part
  <2> HIDE DEF calls, C, config, n, d
  <2> QED BY <2>1, <2>2, <2>3 DEF OneBlock
<1>8. /\ Follows(Call("write-unit", n, d, "plain"), Call("install-key", n, d, "host"))
      /\ Follows(Call("stop-daemon", n, d, "plain"), Call("install-key", n, d, "host"))
      /\ Follows(Call("write-record", n, d, "host"), Call("install-key", n, d, "host"))
      /\ Follows(Call("stop-daemon", n, d, "plain"), Call("write-config", n, d, "host"))
  BY DEF Call, Follows, FollowsInAdmin, FollowsInKeys, Forwards, Ends, SoftBlocks
<1> HIDE DEF C, n, d, keys, again, config, first
<1>9. Inserted((first \o keys) \o Tail(op.todo), Call("make-directory", n, d, "plain"), C)
  <2>1. Inserted((first \o keys) \o Tail(op.todo), IF first = <<>> THEN Head(keys) ELSE Head(first), C)
    BY <1>3, <1>4, <1>6, <1>8, InsertOpener DEF C
  <2> QED BY <1>6, <2>1
<1>10. Inserted(((again \o moved) \o keys) \o Tail(op.todo), Call("revoke-keys", n, d, "plain"), C)
  <2> DEFINE pre == again \o moved
  <2>1. /\ pre \in Seq(C) /\ Ordered(pre) /\ pre # <<>> /\ Head(pre) = Head(again)
        /\ \A i \in DOMAIN pre : pre[i].call \notin Openers
        /\ Follows(pre[Len(pre)], Head(keys))
    <3>1. CASE same
      <4>1. pre = again
        BY <1>5, <3>1
      <4> HIDE DEF pre
      <4> QED BY <1>4, <1>5, <1>8, <4>1
    <3>2. CASE ~same
      <4>1. pre = again \o config
        BY <3>2
      <4> HIDE DEF pre
      <4>2. \A i \in 1..Len(again), j \in 1..Len(config) : Later(again[i], config[j])
        BY <1>5 DEF Later
      <4>3. Follows(again[Len(again)], Head(config))
        BY <1>5, <1>7, <1>8
      <4>4. pre \in Seq(C) /\ Ordered(pre)
        BY <1>5, <1>7, <4>1, <4>2, <4>3, ConcatOrdered
      <4>5. pre # <<>> /\ Head(pre) = Head(again)
        BY <1>5, <1>7, <4>1, HeadConcat
      <4>6. /\ Len(pre) = Len(again) + Len(config) /\ Len(again) \in Nat /\ Len(config) \in Nat \ {0}
            /\ DOMAIN pre = 1..Len(pre) /\ DOMAIN again = 1..Len(again) /\ DOMAIN config = 1..Len(config)
        BY <1>5, <1>7, <4>1, <4>4, ConcatProperties
      <4>7. \A i \in 1..Len(pre) : pre[i] = IF i <= Len(again) THEN again[i] ELSE config[i - Len(again)]
        BY <1>5, <1>7, <4>1, <4>6, ConcatProperties
      <4>8. ASSUME NEW i \in 1..Len(pre) PROVE pre[i].call \notin Openers
        <5>1. \/ i \in DOMAIN again /\ pre[i] = again[i]
              \/ i - Len(again) \in DOMAIN config /\ pre[i] = config[i - Len(again)]
          BY <4>6, <4>7
        <5> QED BY <1>5, <1>7, <5>1
      <4>9. pre[Len(pre)] = config[Len(config)]
        BY <4>6, <4>7
      <4> QED BY <1>4, <1>7, <1>8, <4>4, <4>5, <4>6, <4>8, <4>9
    <3> QED BY <3>1, <3>2
  <2> HIDE DEF pre
  <2>2. Inserted((pre \o keys) \o Tail(op.todo), IF pre = <<>> THEN Head(keys) ELSE Head(pre), C)
    BY <1>3, <1>4, <2>1, InsertOpener DEF C
  <2> QED BY <1>5, <2>1, <2>2 DEF pre
<1> QED BY <1>9, <1>10 DEF C, n, d, keys, again, first, config

LEMMA ReplaceTodo ==
  ASSUME NEW N \in SUBSET Name, NEW S \in SUBSET N, RestOK(CallType(N, S)),
         First.call \in {"activate-key", "replace-key"}
  PROVE  /\ Inserted(Part(<<"enable-host">>, "plain") \o Tail(op.todo),
                     Call("enable-host", First.name, First.to, "plain"), CallType(N, S))
         /\ Inserted((Revoke(First.name, First.to, "plain") \o Part(<<"enable-host">>, "plain"))
              \o Tail(op.todo),
                     Call("revoke-keys", First.name, First.to, "plain"), CallType(N, S))
<1> DEFINE C == CallType(N, S)
           n == First.name
           d == First.to
           k == Part(<<"enable-host">>, "plain")
           revoke == Revoke(n, d, "plain")
           t == Call("enable-host", n, d, "plain")
<1>1. First \in C
  BY DEF RestOK
<1>2. n \in S /\ n \in N /\ n \in Name \cup {Absent} /\ d \in Domain
  BY <1>1 DEF CallType, CallRecord, SshCalls
<1>3. First.call \in Starters \ {"install-key"}
  BY DEF Starters
<1>4. t \in C /\ t.call = "enable-host"
  <2>1. t \in C
    BY <1>2, CallTypes DEF Verb, Nameless, SshCalls, Ends, Block
  <2> QED BY <2>1 DEF Call
<1>5. ~Dependent(t) /\ t.call \notin Ends
  BY DEF Call, Dependent, AdminSteps, KeySteps, Forwards, Ends
<1>6. k = <<t>>
  BY DEF Part, Calls
<1> HIDE DEF k, t, C
<1>7. k \in Seq(C) /\ Ordered(k) /\ k # <<>> /\ Head(k) = t /\ Len(k) = 1
  BY <1>4, <1>6, OneCall
<1>8. \A i \in DOMAIN k : k[i].call \notin Ends
  <2>1. DOMAIN k = 1..1 /\ k[1] = t
    BY <1>7
  <2> QED BY <1>5, <2>1
<1> HIDE DEF n, d
<1>9. revoke \in Plain(C) /\ revoke # <<>> /\ Head(revoke) = Call("revoke-keys", n, d, "plain")
  <2>1. /\ revoke \in Plain(About(N, S, n, {"plain"})) /\ revoke # <<>>
        /\ Head(revoke) = Call("revoke-keys", n, d, "plain")
    BY <1>2, RevokePlain
  <2> HIDE DEF revoke
  <2> QED BY <2>1, PlainAbout DEF C
<1> HIDE DEF revoke
<1>10. Inserted((<<>> \o k) \o Tail(op.todo), IF <<>> = <<>> THEN Head(k) ELSE Head(<<>>), C)
  <2>1. <<>> \in Seq(C) /\ Ordered(<<>>) /\ \A i \in DOMAIN <<>> : <<>>[i].call \notin Openers
    BY DEF Ordered
  <2> DEFINE pre == <<>>
  <2>2. pre \in Seq(C) /\ Ordered(pre) /\ (\A i \in DOMAIN pre : pre[i].call \notin Openers) /\ pre
        = <<>>
    BY <2>1
  <2> HIDE DEF pre
  <2>3. Inserted((pre \o k) \o Tail(op.todo), IF pre = <<>> THEN Head(k) ELSE Head(pre), C)
    BY <1>3, <1>7, <1>8, <2>2, InsertOpener DEF C
  <2> QED BY <2>3 DEF pre
<1>11. <<>> \o k = k
  BY <1>7
<1>12. Inserted((revoke \o k) \o Tail(op.todo), IF revoke = <<>> THEN Head(k) ELSE Head(revoke), C)
  <2>1. /\ revoke \in Seq(C) /\ Ordered(revoke) /\ Len(revoke) \in DOMAIN revoke
        /\ \A i \in DOMAIN revoke : revoke[i].call \notin Openers \cup Ends
    BY <1>9 DEF Plain
  <2>2. Follows(revoke[Len(revoke)], Head(k))
    BY <1>5, <1>7, <2>1, FreeFollows
  <2> QED BY <1>3, <1>7, <1>8, <2>1, <2>2, InsertOpener DEF C
<1> QED BY <1>7, <1>9, <1>10, <1>11, <1>12 DEF C, k, t, n, d, revoke

-----------------------------------------------------------------------------
(* One call of a command *)

N_ == Known(op.plan)
S_ == KnownSsh(op.plan)

\* What the next call is about.
FirstOK ==
  /\ RestOK(CallType(N_, S_)) /\ First.to \in Domain
  /\ First.call \notin Nameless =>
       /\ First.name \in Name /\ First.name \in N_ /\ Subject(First) \in Exposure
       /\ HostOf(First) \in Hostname /\ PortOf(First) \in Port
       /\ IsSsh(First) = (First.name \in S_)
       /\ IsSsh(First) = (PortOf(First) = SshPort)
       /\ IsSsh(First) => Subject(First).account # Nobody
  /\ First.call \in SshCalls => First.name \in S_

LEMMA KnownNames == N_ \in SUBSET Name /\ S_ \in SUBSET N_
BY DEF N_, S_, Known, KnownSsh

LEMMA FirstFacts ==
  ASSUME WorldOK, CommandOK, TodoOK, op.todo # <<>>
  PROVE  FirstOK
<1> DEFINE C == CallType(N_, S_)
           s == First
<1>1. RestOK(C)
  BY RestOrdered DEF TodoOK, N_, S_
<1>2. s \in C
  BY <1>1 DEF RestOK
<1>3. /\ s.to \in Domain /\ s.name \in Name \cup {Absent}
      /\ s.call \notin Nameless => s.name \in N_
      /\ s.call \in SshCalls => s.name \in S_
  <2> HIDE DEF s
  <2> QED BY <1>2 DEF CallType, CallRecord
<1>4. ASSUME s.call \notin Nameless
      PROVE  /\ s.name \in Name /\ s.name \in N_ /\ Subject(s) \in Exposure
             /\ HostOf(s) \in Hostname /\ PortOf(s) \in Port
             /\ IsSsh(s) = (s.name \in S_)
             /\ IsSsh(s) = (PortOf(s) = SshPort)
             /\ IsSsh(s) => Subject(s).account # Nobody
  <2>1. s.name \in Name /\ s.name \in N_
    BY <1>3, <1>4 DEF N_, Known
  <2>2. Subject(s) = Planned(op.plan, s.name)
    BY DEF Subject, Planned
  <2>3. /\ op.plan[s.name] \in Exposure \cup {Absent} /\ inventory[s.name] \in Exposure \cup {Absent}
    BY <2>1 DEF WorldOK, CommandOK, OpType
  <2>4. Subject(s) \in Exposure
    BY <2>1, <2>2, <2>3 DEF Planned, N_, Known
  <2>5. HostOf(s) \in Hostname /\ PortOf(s) \in Port
    BY <1>3, <2>4, HostnamesHaveDomains DEF HostOf, PortOf, Exposure
  <2>6. IsSsh(s) = (s.name \in S_)
    BY <2>1, <2>2 DEF IsSsh, S_, KnownSsh, N_
  <2>7. /\ (Subject(s).protocol = "ssh") = (Subject(s).port = SshPort)
        /\ Subject(s).protocol = "ssh" => Subject(s).account # Nobody
    <3> DEFINE x == op.plan[s.name]
               y == inventory[s.name]
    <3>1. x # Absent => /\ (x.protocol = "ssh") = (x.port = SshPort)
                        /\ x.protocol = "ssh" => x.account # Nobody
      BY <2>1 DEF CommandOK, Good
    <3>2. y # Absent => /\ (y.protocol = "ssh") = (y.port = SshPort)
                        /\ y.protocol = "ssh" => y.account # Nobody
      BY <2>1 DEF CommandOK, Good
    <3>3. Subject(s) = (IF x = Absent THEN y ELSE x) /\ Subject(s) # Absent
      BY <2>4, WishesAreExposures DEF Subject
    <3> HIDE DEF x, y, s
    <3> QED BY <3>1, <3>2, <3>3
  <2> QED BY <2>1, <2>4, <2>5, <2>6, <2>7 DEF IsSsh, PortOf
<1> QED BY <1>1, <1>3, <1>4 DEF FirstOK

\* How a call changes op.
Shape(L, k, e, f, l) ==
  op' = [op EXCEPT !.todo = L, !.key = k, !.error = e, !.fresh = f, !.late = l]

LEMMA Shapes ==
  ASSUME CommandOK
  PROVE  /\ Continue => Shape(Tail(op.todo), op.key, op.error, op.fresh, op.late)
         /\ Abort => Shape(Failure(First), op.key, op.error \/ First.block # "withdraw", op.fresh, FALSE)
         /\ \A calls : Instead(calls) => Shape(calls \o Tail(op.todo), op.key, op.error, op.fresh,
              op.late)
BY DEF CommandOK, OpType, Continue, Abort, Instead, Shape

LEMMA Moves ==
  ASSUME WorldOK, CommandOK, WorkerReports, TodoOK,
         NEW L \in Seq(CallType(N_, S_)), Ordered(L),
         NEW k \in Nat, NEW e \in BOOLEAN, NEW f \in BOOLEAN, NEW l \in BOOLEAN, Shape(L, k, e, f, l),
         UNCHANGED <<inventory, job, failed>>
  PROVE  /\ CommandOK' /\ WorkerReports' /\ TodoOK'
         /\ op'.todo = L /\ op'.key = k /\ op'.fresh = f /\ op'.plan = op.plan
<1>1. op \in OpType /\ L \in Seq(CallRecord)
  BY DEF CommandOK, CallType
<1>2. /\ op'.todo = L /\ op'.key = k /\ op'.fresh = f /\ op'.plan = op.plan /\ op'.from = op.from
      /\ op' \in OpType
  BY <1>1 DEF OpType, Shape
<1>3. CommandOK'
  BY <1>2 DEF CommandOK, Good
<1>4. WorkerReports'
  BY <1>2 DEF WorkerReports
<1>5. Known(op.plan)' = N_ /\ KnownSsh(op.plan)' = S_
  BY <1>2 DEF Known, KnownSsh, Planned, N_, S_
<1>6. TodoOK'
  BY <1>2, <1>5 DEF TodoOK
<1> QED BY <1>2, <1>3, <1>4, <1>6

\* A call that relies on nothing.
LEMMA QuietStart ==
  ASSUME NEW N, NEW S, NEW t \in CallType(N, S), ~Dependent(t), op'.todo # <<>>, Head(op'.todo) = t
  PROVE  ReadyOK'
<1>1. t.block # "forward"
  BY DEF CallType, ForwardCalls, Dependent, Forwards, AdminSteps
<1>2. t.call \notin AdminSteps /\ t.call \notin KeySteps
  BY DEF Dependent
<1>3. First' = t
  BY DEF First
<1>4. ReadyAdmin(First)'
  BY <1>1, <1>2, <1>3 DEF ReadyAdmin, AdminSteps
<1>5. ReadyKeys(First)'
  BY <1>2, <1>3 DEF ReadyKeys, KeySteps
<1> QED BY <1>4, <1>5 DEF ReadyOK

LEMMA QuietReady ==
  ASSUME NEW C, NEW t \in C, C = CallType(N_, S_), ~Dependent(t), op'.todo # <<>>, Head(op'.todo) = t
  PROVE  ReadyOK'
BY QuietStart

\* What calls rely on.
Grounds == <<host.pending, host.authorized, host.client, served, proxy.record, proxy.live,
             proxy.saved, proxy.admin, gateway.ports, op.plan, op.fresh, inventory>>

\* Calls after which the next one relies on something new.
Effective == {"check-forwarding", "relocate", "save-activity", "stop-admin", "start-private",
              "close-gateway", "install", "start-stock", "remove-forwarding", "revoke-keys",
              "install-key", "remove-record", "write-record"}

LEMMA CarriedReady ==
  ASSUME NEW s, NEW t, ReadyAdmin(s), ReadyKeys(s), Follows(s, t), s.call \notin Effective,
         t \in CallType(N_, S_), UNCHANGED Grounds, host'.record = Nobody => host.record = Nobody,
         op'.todo # <<>>, Head(op'.todo) = t
  PROVE  ReadyOK'
<1>1. CASE ~Dependent(t)
  BY <1>1, QuietReady
<1>2. CASE Dependent(t)
  <2>1. s.name = t.name /\ FollowsInAdmin(s, t) /\ FollowsInKeys(s, t)
    BY <1>2 DEF Follows
  <2>2. First' = t
    BY DEF First
  <2>3. PortOf(t)' = PortOf(s)
    BY <2>1 DEF PortOf, Subject, Grounds
  <2>4. ReadyKeys(t)'
    BY <2>1 DEF ReadyKeys, FollowsInKeys, Effective, Grounds, Revoked
  <2>5. t.block # "forward"
    BY <1>2, <2>1 DEF CallType, ForwardCalls, FollowsInAdmin, Forwards, Effective
  <2>6. ReadyAdmin(t)'
    BY <2>1, <2>3, <2>5 DEF ReadyAdmin, FollowsInAdmin, Effective, Grounds
  <2> QED BY <2>2, <2>4, <2>6 DEF ReadyOK
<1> QED BY <1>1, <1>2

\* What a step that leaves the sshd of the proxy alone keeps.
LEMMA AdminSame ==
  ASSUME AdminOK, proxy'.admin = proxy.admin, proxy'.stock = proxy.stock, proxy'.saved = proxy.saved,
         SshPort \in proxy'.live => SshPort \in proxy.live,
         SshPort \in gateway'.ports => SshPort \in gateway.ports
  PROVE  AdminOK'
BY DEF AdminOK, AdminRestorable, AdminNeverExposed

Keys == <<host.issued, host.pending, host.client, host.authorized, served>>

LEMMA KeysSame ==
  ASSUME KeysOK, UNCHANGED Keys, host'.record = Nobody => host.record = Nobody, op'.key = op.key,
         (\E i \in DOMAIN op'.todo : op'.todo[i].call \in Starters)
           => \E i \in DOMAIN op.todo : op.todo[i].call \in Starters
  PROVE  KeysOK'
BY DEF KeysOK, Keys, Revoked

\* A call is made, and those after it remain.
LEMMA Continued ==
  ASSUME IInv, op.todo # <<>>, Continue, UNCHANGED <<inventory, job, failed>>
  PROVE  /\ CommandOK' /\ WorkerReports' /\ TodoOK'
         /\ op'.todo = Tail(op.todo) /\ op'.key = op.key /\ op'.fresh = op.fresh /\ op'.plan = op.plan
         /\ op'.todo # <<>> => Follows(First, Head(op'.todo)) /\ Head(op'.todo) \in CallType(N_, S_)
         /\ \A i \in DOMAIN op'.todo : Later(First, op'.todo[i])
         /\ (\E i \in DOMAIN op'.todo : op'.todo[i].call \in Starters)
              => \E i \in DOMAIN op.todo : op.todo[i].call \in Starters
<1>1. RestOK(CallType(N_, S_))
  BY FirstFacts DEF IInv, FirstOK
<1>2. op \in OpType
  BY DEF IInv, CommandOK
<1>3. /\ op.key \in Nat /\ op.error \in BOOLEAN /\ op.fresh \in BOOLEAN /\ op.late \in BOOLEAN
  BY <1>2 DEF OpType
<1>4. Tail(op.todo) \in Seq(CallType(N_, S_)) /\ Ordered(Tail(op.todo))
  BY <1>1 DEF RestOK
<1>5. Shape(Tail(op.todo), op.key, op.error, op.fresh, op.late)
  BY Shapes DEF IInv
<1>6. /\ CommandOK' /\ WorkerReports' /\ TodoOK'
      /\ op'.todo = Tail(op.todo) /\ op'.key = op.key /\ op'.fresh = op.fresh /\ op'.plan = op.plan
  BY <1>3, <1>4, <1>5, Moves DEF IInv
<1> QED BY <1>1, <1>6 DEF RestOK

LEMMA ContinueStep ==
  ASSUME IInv, op.todo # <<>>, Continue, UNCHANGED <<inventory, job, failed>>,
         First.call \notin Effective, WorldOK', UNCHANGED Keys,
         host'.record = Nobody => host.record = Nobody,
         UNCHANGED <<proxy.record, proxy.live, proxy.saved, proxy.admin, proxy.stock, gateway.ports>>
  PROVE  IInv'
<1>1. /\ CommandOK' /\ WorkerReports' /\ TodoOK'
      /\ op'.todo = Tail(op.todo) /\ op'.key = op.key /\ op'.fresh = op.fresh /\ op'.plan = op.plan
      /\ op'.todo # <<>> => Follows(First, Head(op'.todo)) /\ Head(op'.todo) \in CallType(N_, S_)
      /\ (\E i \in DOMAIN op'.todo : op'.todo[i].call \in Starters)
           => \E i \in DOMAIN op.todo : op.todo[i].call \in Starters
  BY Continued
<1>2. AdminOK'
  BY AdminSame DEF IInv
<1>3. KeysOK'
  BY <1>1, KeysSame DEF IInv
<1>4. ReadyOK'
  <2>1. CASE op'.todo = <<>>
    BY <2>1 DEF ReadyOK
  <2>2. CASE op'.todo # <<>>
    <3>1. UNCHANGED Grounds
      BY <1>1 DEF Grounds, Keys
    <3>2. ReadyAdmin(First) /\ ReadyKeys(First)
      BY DEF IInv, ReadyOK
    <3> QED BY <1>1, <2>2, <3>1, <3>2, CarriedReady
  <2> QED BY <2>1, <2>2
<1> QED BY <1>1, <1>2, <1>3, <1>4 DEF IInv

\* A call after which the next one relies on something new.
LEMMA EffectStep ==
  ASSUME IInv, op.todo # <<>>, Continue, UNCHANGED <<inventory, job, failed>>, WorldOK', AdminOK',
         KeysOK',
         \A t \in CallType(N_, S_) :
           Follows(First, t) /\ Dependent(t) /\ t.name = First.name => ReadyAdmin(t)' /\ ReadyKeys(t)'
  PROVE  IInv'
<1>1. /\ CommandOK' /\ WorkerReports' /\ TodoOK'
      /\ op'.todo # <<>> => Follows(First, Head(op'.todo)) /\ Head(op'.todo) \in CallType(N_, S_)
  BY Continued
<1>2. ReadyOK'
  <2>1. SUFFICES ASSUME op'.todo # <<>> PROVE ReadyAdmin(First)' /\ ReadyKeys(First)'
    BY DEF ReadyOK
  <2>2. PICK t \in CallType(N_, S_) : t = Head(op'.todo)
    BY <1>1, <2>1
  <2>3. First' = t
    BY <2>2 DEF First
  <2>4. CASE ~Dependent(t)
    <3>1. ReadyOK'
      BY <2>1, <2>2, <2>4, QuietReady
    <3> QED BY <2>1, <3>1 DEF ReadyOK
  <2>5. CASE Dependent(t)
    <3>1. Follows(First, t) /\ t.name = First.name
      BY <1>1, <2>1, <2>2, <2>5 DEF Follows
    <3>2. ReadyAdmin(t)' /\ ReadyKeys(t)'
      BY <2>5, <3>1
    <3> QED BY <2>3, <3>2
  <2> QED BY <2>4, <2>5
<1> QED BY <1>1, <1>2 DEF IInv

\* What is left after a failure.
LEMMA AbortStep ==
  ASSUME IInv, op.todo # <<>>, Abort, UNCHANGED <<inventory, job, failed>>, WorldOK', AdminOK',
         UNCHANGED Keys, host'.record = Nobody => host.record = Nobody,
         First.block = "relocation" => gateway'.ports = gateway.ports
  PROVE  IInv'
<1> DEFINE C == CallType(N_, S_)
           L == Failure(First)
<1>1. FirstOK /\ ReadyAdmin(First) /\ ReadyKeys(First)
  BY FirstFacts DEF IInv, ReadyOK
<1>2. op \in OpType /\ op.todo \in Seq(C) /\ Ordered(op.todo)
  BY DEF IInv, CommandOK, TodoOK, N_, S_
<1>3. Replaces(L, C)
  <2>1. First.block = "forward" /\ op.fresh => First.name \in S_
    BY <1>1 DEF ReadyAdmin, S_
  <2> QED BY <1>2, <2>1, KnownNames, SoftFailure, HardFailure
<1>4. /\ L \in Seq(C) /\ Ordered(L)
      /\ (\E i \in DOMAIN L : L[i].call \in Starters)
           => \E i \in DOMAIN op.todo : op.todo[i].call \in Starters
  BY <1>3 DEF Replaces
<1> DEFINE e == op.error \/ First.block # "withdraw"
<1>5. op.key \in Nat /\ e \in BOOLEAN /\ op.fresh \in BOOLEAN /\ FALSE \in BOOLEAN
  BY <1>2 DEF OpType
<1>6. Shape(L, op.key, e, op.fresh, FALSE)
  BY Shapes DEF IInv
<1> HIDE DEF L, C, e
<1>7. /\ CommandOK' /\ WorkerReports' /\ TodoOK' /\ op'.todo = L /\ op'.key = op.key
  BY <1>4, <1>5, <1>6, Moves DEF IInv, C
<1>8. KeysOK'
  BY <1>4, <1>7, KeysSame DEF IInv
<1>9. ReadyOK'
  <2>1. CASE L = <<>>
    BY <1>7, <2>1 DEF ReadyOK
  <2>2. CASE L # <<>> /\ ~Dependent(Head(L))
    <3>1. Head(L) \in C
      BY <1>4, <2>2
    <3> QED BY <1>7, <2>2, <3>1, QuietReady DEF C
  <2>3. CASE L # <<>> /\ Head(L).call = "restore" /\ First.block = "relocation"
    <3>1. First \in C
      BY <1>1 DEF FirstOK, RestOK, C
    <3>2. First.call \in RelocationCalls
      BY <2>3, <3>1 DEF C, CallType
    <3>3. SshPort \notin gateway'.ports
      BY <1>1, <2>3, <3>2 DEF ReadyAdmin, RelocationCalls
    <3> DEFINE t == Head(L)
    <3>4. t \in C /\ t.call = "restore" /\ First' = t
      BY <1>4, <1>7, <2>3 DEF First
    <3> HIDE DEF t
    <3>5. t.block # "forward"
      BY <3>4 DEF C, CallType, ForwardCalls
    <3>6. ReadyAdmin(First)' /\ ReadyKeys(First)'
      BY <3>3, <3>4, <3>5 DEF ReadyAdmin, ReadyKeys
    <3> QED BY <3>6 DEF ReadyOK
  <2> QED BY <1>3, <2>1, <2>2, <2>3 DEF Replaces
<1> QED BY <1>7, <1>8, <1>9 DEF IInv

\* Calls are put in the place of one.
LEMMA InsertStep ==
  ASSUME IInv, op.todo # <<>>, NEW L, NEW t, Inserted(L, t, CallType(N_, S_)), NEW f \in BOOLEAN,
         Shape(L, op.key, op.error, f, op.late),
         UNCHANGED <<inventory, job, failed, host, proxy, gateway, served>>, WorldOK',
         op'.plan = op.plan /\ op'.fresh = f => ReadyAdmin(t)' /\ ReadyKeys(t)'
  PROVE  IInv'
<1> DEFINE C == CallType(N_, S_)
<1>1. op \in OpType
  BY DEF IInv, CommandOK
<1>2. op.key \in Nat /\ op.error \in BOOLEAN /\ op.late \in BOOLEAN
  BY <1>1 DEF OpType
<1>3. /\ L \in Seq(C) /\ Ordered(L) /\ L # <<>> /\ Head(L) = t /\ t \in C
      /\ (\E i \in DOMAIN L : L[i].call \in Starters)
           => \E i \in DOMAIN op.todo : op.todo[i].call \in Starters
  BY DEF Inserted
<1>4. /\ CommandOK' /\ WorkerReports' /\ TodoOK' /\ op'.todo = L /\ op'.key = op.key
      /\ op'.plan = op.plan /\ op'.fresh = f
  BY <1>2, <1>3, Moves DEF IInv
<1>5. AdminOK'
  BY AdminSame DEF IInv
<1>6. KeysOK'
  <2>1. UNCHANGED Keys /\ host'.record = host.record
    BY DEF Keys
  <2> QED BY <1>3, <1>4, <2>1, KeysSame DEF IInv
<1>7. ReadyOK'
  BY <1>3, <1>4 DEF ReadyOK, First
<1> QED BY <1>4, <1>5, <1>6, <1>7 DEF IInv

-----------------------------------------------------------------------------
(* The steps of a command *)

Quiet == UNCHANGED <<adapters, files, session, served>> /\ UNCHANGED <<job, failed>>

LEMMA QuietFacts ==
  ASSUME IInv, Quiet
  PROVE  /\ WorldOK' /\ AdminOK' /\ UNCHANGED Keys /\ UNCHANGED <<inventory, job, failed>>
         /\ UNCHANGED <<host, proxy, gateway, served>>
<1>1. UNCHANGED <<host, proxy, gateway, dns, routes, inventory, domain, session, served, job, failed>>
  BY DEF Quiet, adapters, files
<1>2. WorldOK'
  BY <1>1 DEF IInv, WorldOK
<1>3. AdminOK'
  BY <1>1, AdminSame DEF IInv
<1> QED BY <1>1, <1>2, <1>3 DEF Keys

LEMMA QuietAbort ==
  ASSUME IInv, op.todo # <<>>, Abort, Quiet
  PROVE  IInv'
<1>1. /\ WorldOK' /\ AdminOK' /\ UNCHANGED Keys /\ UNCHANGED <<inventory, job, failed>>
      /\ UNCHANGED <<host, proxy, gateway, served>>
  BY QuietFacts
<1> QED BY <1>1, AbortStep

LEMMA QuietContinue ==
  ASSUME IInv, op.todo # <<>>, Continue, Quiet, First.call \notin Effective
  PROVE  IInv'
<1>1. /\ WorldOK' /\ AdminOK' /\ UNCHANGED Keys /\ UNCHANGED <<inventory, job, failed>>
      /\ UNCHANGED <<host, proxy, gateway, served>>
  BY QuietFacts
<1> QED BY <1>1, ContinueStep

LEMMA StayStep ==
  ASSUME IInv, op.todo # <<>>, NEW condition, Stay(condition), UNCHANGED <<job, failed>>,
         First.call \notin Effective
  PROVE  IInv'
<1>1. Quiet /\ (Continue \/ Abort)
  BY DEF Stay, Quiet, Require
<1> QED BY <1>1, QuietAbort, QuietContinue

LEMMA SamePort ==
  ASSUME NEW t, t.name = First.name, op'.plan = op.plan, inventory' = inventory
  PROVE  PortOf(t)' = PortOf(First)
BY DEF PortOf, Subject

LEMMA CheckForwardingStep ==
  ASSUME IInv, CheckForwarding, UNCHANGED <<job, failed>>
  PROVE  IInv'
<1>1. op.todo # <<>> /\ First.call = "check-forwarding" /\ Quiet
  BY DEF CheckForwarding, On, Stay, Quiet
<1> DEFINE allowed == ForwardingAllowed(PortOf(First), HostOf(First))
<1>2. (allowed /\ Continue) \/ Abort
  BY DEF CheckForwarding, Stay, Require
<1>3. CASE Abort
  BY <1>1, <1>3, QuietAbort
<1>4. CASE allowed /\ Continue
  <2>1. /\ WorldOK' /\ AdminOK' /\ UNCHANGED Keys /\ UNCHANGED <<inventory, job, failed>>
        /\ UNCHANGED <<host, proxy, gateway, served>>
    BY <1>1, QuietFacts
  <2>2. op'.plan = op.plan /\ op'.key = op.key
        /\ ((\E i \in DOMAIN op'.todo : op'.todo[i].call \in Starters)
             => \E i \in DOMAIN op.todo : op.todo[i].call \in Starters)
    BY <1>1, <1>4, <2>1, Continued
  <2>3. KeysOK'
    BY <2>1, <2>2, KeysSame DEF IInv
  <2>4. FirstOK
    BY <1>1, FirstFacts DEF IInv
  <2>5. proxy.record[PortOf(First)] # Free \/ PortOf(First) \notin gateway.ports
    <3>1. HostOf(First) # Free
      BY <1>1, <2>4, FreeIsNoHostname DEF FirstOK, Nameless
    <3> QED BY <1>4, <3>1 DEF ForwardingAllowed
  <2>6. ASSUME NEW t \in CallType(N_, S_), Follows(First, t), Dependent(t), t.name = First.name
        PROVE  ReadyAdmin(t)' /\ ReadyKeys(t)'
    <3>1. t.call = "check-dns"
      BY <1>1, <2>6 DEF Follows, FollowsInAdmin, FollowsInKeys, Dependent, AdminSteps, KeySteps, Forwards
    <3>2. t.block # "forward"
      BY <3>1 DEF CallType, ForwardCalls
    <3>3. PortOf(t)' = PortOf(First)
      BY <2>1, <2>2, <2>6, SamePort
    <3>4. ReadyAdmin(t)'
      BY <2>1, <2>5, <3>1, <3>2, <3>3 DEF ReadyAdmin
    <3>5. ReadyKeys(t)'
      BY <3>1 DEF ReadyKeys
    <3> QED BY <3>4, <3>5
  <2> QED BY <1>1, <1>4, <2>1, <2>3, <2>6, EffectStep
<1> QED BY <1>2, <1>3, <1>4

LEMMA ChecksStep ==
  ASSUME IInv, Checks, UNCHANGED <<job, failed>>
  PROVE  IInv'
<1>1. CASE CheckForwarding
  BY <1>1, CheckForwardingStep
<1>2. CASE CheckSlot
  <2>1. op.todo # <<>> /\ First.call \notin Effective
    BY <1>2 DEF CheckSlot, On, Effective
  <2> QED BY <1>2, <2>1, StayStep DEF CheckSlot
<1>3. CASE CheckDns
  <2>1. op.todo # <<>> /\ First.call \notin Effective
    BY <1>3 DEF CheckDns, On, Effective
  <2> QED BY <1>3, <2>1, StayStep DEF CheckDns
<1>4. CASE CheckWeb
  <2>1. op.todo # <<>> /\ First.call \notin Effective
    BY <1>4 DEF CheckWeb, On, Effective
  <2> QED BY <1>4, <2>1, StayStep DEF CheckWeb
<1>5. CASE CheckHost
  <2>1. op.todo # <<>> /\ First.call \notin Effective
    BY <1>5 DEF CheckHost, On, Effective
  <2> QED BY <1>5, <2>1, StayStep DEF CheckHost
<1>6. CASE CheckOwned
  <2>1. op.todo # <<>> /\ First.call \notin Effective
    BY <1>6 DEF CheckOwned, On, Effective
  <2> QED BY <1>6, <2>1, StayStep DEF CheckOwned
<1>7. CASE Inspect
  <2>1. op.todo # <<>> /\ First.call \notin Effective
    BY <1>7 DEF Inspect, On, Effective
  <2> QED BY <1>7, <2>1, StayStep DEF Inspect
<1> QED BY <1>1, <1>2, <1>3, <1>4, <1>5, <1>6, <1>7 DEF Checks

LEMMA VerifyStep ==
  ASSUME IInv, VerifyHost, UNCHANGED <<job, failed>>
  PROVE  IInv'
<1>1. op.todo # <<>> /\ First.call \notin Effective
  BY DEF VerifyHost, On, Effective
<1> QED BY <1>1, StayStep DEF VerifyHost

-----------------------------------------------------------------------------
(* Calls that stand for others *)

\* The call that the inserted ones begin with relies on nothing.
LEMMA QuietInsert ==
  ASSUME IInv, op.todo # <<>>, Quiet, NEW calls, NEW t, Instead(calls),
         Inserted(calls \o Tail(op.todo), t, CallType(N_, S_)),
         op'.plan = op.plan /\ op'.fresh = op.fresh => ReadyAdmin(t)' /\ ReadyKeys(t)'
  PROVE  IInv'
<1>1. Shape(calls \o Tail(op.todo), op.key, op.error, op.fresh, op.late)
  BY Shapes DEF IInv
<1>2. op.fresh \in BOOLEAN
  BY DEF IInv, CommandOK, OpType
<1>3. /\ WorldOK' /\ UNCHANGED <<inventory, job, failed, host, proxy, gateway, served>>
  BY QuietFacts
<1> QED BY <1>1, <1>2, <1>3, InsertStep

LEMMA EnableHostStep ==
  ASSUME IInv, EnableHost, UNCHANGED <<job, failed>>
  PROVE  IInv'
<1> DEFINE a == Subject(First).account
           same == host.record = a
           keys == Part(<<"install-key", "authorize", "start-daemon", "enable-record", "verify">>,
           "host")
           again == Part(<<"revoke-keys", "disable-record", "terminate", "stop-daemon">>, "plain")
           moved == IF same THEN <<>> ELSE Part(<<"write-config", "write-record">>, "host")
           first == Part(<<"make-directory", "write-record", "write-config", "write-unit">>, "plain")
<1>0. PICK t1, t2 : /\ t1 = Call("make-directory", First.name, First.to, "plain")
                     /\ t2 = Call("revoke-keys", First.name, First.to, "plain")
  OBVIOUS
<1>1. op.todo # <<>> /\ First.call = "enable-host" /\ Quiet
  BY DEF EnableHost, On, Quiet
<1>2. \/ Abort
      \/ Continue
      \/ host.record = Nobody /\ Instead(first \o keys)
      \/ Instead((again \o moved) \o keys)
  BY DEF EnableHost
<1>3. FirstOK
  BY <1>1, FirstFacts DEF IInv
<1>4. /\ Inserted((first \o keys) \o Tail(op.todo), t1, CallType(N_, S_))
      /\ Inserted(((again \o moved) \o keys) \o Tail(op.todo), t2, CallType(N_, S_))
  <2>1. same \in BOOLEAN
    OBVIOUS
  <2> HIDE DEF same
  <2> QED BY <1>0, <1>1, <1>3, <2>1, KnownNames, EnableTodo DEF FirstOK
<1>5. CASE Abort
  BY <1>1, <1>5, QuietAbort
<1>6. CASE Continue
  BY <1>1, <1>6, QuietContinue DEF Effective
<1>7. CASE host.record = Nobody /\ Instead(first \o keys)
  <2> HIDE DEF first, keys
  <2>1. host' = host /\ Revoked
    BY <1>1, <1>7, QuietFacts DEF IInv, KeysOK
  <2>2. t1.call = "make-directory" /\ t1.block = "plain"
    BY <1>0 DEF Call
  <2>3. ReadyAdmin(t1)' /\ ReadyKeys(t1)'
    BY <2>1, <2>2 DEF ReadyAdmin, ReadyKeys, Revoked
  <2> QED BY <1>1, <1>4, <1>7, <2>3, QuietInsert
<1>8. CASE Instead((again \o moved) \o keys)
  <2> HIDE DEF again, moved, keys
  <2>1. t2.call = "revoke-keys" /\ t2.block = "plain"
    BY <1>0 DEF Call
  <2>2. ReadyAdmin(t2)' /\ ReadyKeys(t2)'
    BY <2>1 DEF ReadyAdmin, ReadyKeys
  <2> QED BY <1>1, <1>4, <1>8, <2>2, QuietInsert
<1> QED BY <1>2, <1>5, <1>6, <1>7, <1>8

\* A prepared key is newer than the one in use.
LEMMA ActivateKeyStep ==
  ASSUME IInv, ActivateKey, UNCHANGED <<job, failed>>
  PROVE  IInv'
<1> DEFINE L == Part(<<"enable-host">>, "plain") \o Tail(op.todo)
           t == Call("enable-host", First.name, First.to, "plain")
           C == CallType(N_, S_)
<1>1. op.todo # <<>> /\ First.call = "activate-key" /\ Quiet
  BY DEF ActivateKey, On, Quiet
<1>2. \/ Abort
      \/ host.pending # NoKey /\ op' = [op EXCEPT !.todo = L, !.key = host.pending]
  BY DEF ActivateKey, CanActivate
<1>3. CASE Abort
  BY <1>1, <1>3, QuietAbort
<1>4. CASE host.pending # NoKey /\ op' = [op EXCEPT !.todo = L, !.key = host.pending]
  <2>1. FirstOK
    BY <1>1, FirstFacts DEF IInv
  <2>2. Inserted(L, t, C)
    BY <1>1, <2>1, KnownNames, ReplaceTodo DEF FirstOK
  <2> HIDE DEF L, C
  <2>3. op \in OpType /\ host \in HostType /\ served \in Nat
    BY DEF IInv, CommandOK, WorldOK
  <2>4. /\ op.error \in BOOLEAN /\ op.fresh \in BOOLEAN /\ op.late \in BOOLEAN
        /\ host.pending \in Nat /\ Shape(L, host.pending, op.error, op.fresh, op.late)
    BY <1>4, <2>3 DEF OpType, HostType, Shape
  <2>5. L \in Seq(C) /\ Ordered(L) /\ L # <<>> /\ Head(L) = t
    BY <2>2 DEF Inserted
  <2>6. /\ WorldOK' /\ AdminOK' /\ UNCHANGED Keys /\ UNCHANGED <<inventory, job, failed>>
        /\ UNCHANGED <<host, proxy, gateway, served>>
    BY <1>1, QuietFacts
  <2>7. CommandOK' /\ WorkerReports' /\ TodoOK' /\ op'.todo = L /\ op'.key = host.pending
    BY <2>4, <2>5, <2>6, Moves DEF IInv, C
  <2>8. KeysOK'
    <3>1. host.pending > served /\ host.pending \in Nat /\ served \in Nat /\ host.pending <= host.issued
      BY <1>4, <2>3, <2>4 DEF IInv, KeysOK
    <3>2. ~(host.pending <= served)
      BY <3>1
    <3> QED BY <2>6, <2>7, <3>1, <3>2 DEF IInv, KeysOK, Revoked
  <2>9. ReadyOK'
    <3>1. First' = t
      BY <2>5, <2>7 DEF First
    <3>2. t.call = "enable-host" /\ t.block = "plain"
      BY DEF Call
    <3> HIDE DEF t
    <3> QED BY <3>1, <3>2 DEF ReadyOK, ReadyAdmin, ReadyKeys
  <2> QED BY <2>6, <2>7, <2>8, <2>9 DEF IInv
<1> QED BY <1>2, <1>3, <1>4

LEMMA ReplaceKeyStep ==
  ASSUME IInv, ReplaceKey, UNCHANGED <<job, failed>>
  PROVE  IInv'
<1> DEFINE calls == Revoke(First.name, First.to, "plain") \o Part(<<"enable-host">>, "plain")
<1>0. PICK t : t = Call("revoke-keys", First.name, First.to, "plain")
  OBVIOUS
<1>1. op.todo # <<>> /\ First.call = "replace-key" /\ Quiet
  BY DEF ReplaceKey, On, Quiet
<1>2. Abort \/ Instead(calls)
  BY DEF ReplaceKey
<1>3. CASE Abort
  BY <1>1, <1>3, QuietAbort
<1>4. CASE Instead(calls)
  <2>1. FirstOK
    BY <1>1, FirstFacts DEF IInv
  <2>2. Inserted(calls \o Tail(op.todo), t, CallType(N_, S_))
    BY <1>0, <1>1, <2>1, KnownNames, ReplaceTodo DEF FirstOK
  <2>3. t.call = "revoke-keys" /\ t.block = "plain"
    BY <1>0 DEF Call
  <2> HIDE DEF calls
  <2>4. ReadyAdmin(t)' /\ ReadyKeys(t)'
    BY <2>3 DEF ReadyAdmin, ReadyKeys
  <2> QED BY <1>1, <1>4, <2>2, <2>4, QuietInsert
<1> QED BY <1>2, <1>3, <1>4

LEMMA UnforwardStep ==
  ASSUME IInv, Unforward, UNCHANGED <<job, failed>>
  PROVE  IInv'
<1> DEFINE owner == proxy.record[PortOf(First)]
           mine == owner = HostOf(First) /\ proxy.unit[PortOf(First)] = owner
           ssh == IsSsh(First)
           calls == Part(<<"close-gateway">> \o (IF mine THEN <<"remove-forwarding">> ELSE <<>>)
                           \o (IF ssh THEN <<"restore">> ELSE <<>>), First.block)
<1>0. PICK t : t = Call("close-gateway", First.name, First.to, First.block)
  OBVIOUS
<1>1. op.todo # <<>> /\ First.call = "unforward" /\ Quiet
  BY DEF Unforward, On, Quiet
<1>2. Abort \/ Instead(calls)
  BY DEF Unforward
<1>3. CASE Abort
  BY <1>1, <1>3, QuietAbort
<1>4. CASE Instead(calls)
  <2>1. FirstOK
    BY <1>1, FirstFacts DEF IInv
  <2>2. mine \in BOOLEAN /\ ssh \in BOOLEAN /\ (ssh => First.name \in S_)
    BY <1>1, <2>1 DEF FirstOK, Nameless, IsSsh
  <2>3. Inserted(calls \o Tail(op.todo), t, CallType(N_, S_)) /\ First.block # "forward"
    <3> HIDE DEF mine, ssh
    <3> QED BY <1>0, <1>1, <2>1, <2>2, KnownNames, UnforwardTodo DEF FirstOK
  <2>4. t.call = "close-gateway" /\ t.block # "forward"
    BY <1>0, <2>3 DEF Call
  <2> HIDE DEF calls
  <2>5. ReadyAdmin(t)' /\ ReadyKeys(t)'
    BY <2>4 DEF ReadyAdmin, ReadyKeys
  <2> QED BY <1>1, <1>4, <2>3, <2>5, QuietInsert
<1> QED BY <1>2, <1>3, <1>4

\* Nothing listens on port 22 when the sshd is about to return to it.
LEMMA RestoreStep ==
  ASSUME IInv, Restore, UNCHANGED <<job, failed>>
  PROVE  IInv'
<1> DEFINE calls == Part(<<"stop-admin", "start-stock", "forget-activity">>, First.block)
<1>0. PICK t : t = Call("stop-admin", First.name, First.to, First.block)
  OBVIOUS
<1>1. op.todo # <<>> /\ First.call = "restore" /\ Quiet
  BY DEF Restore, On, Quiet
<1>2. Abort \/ Continue \/ (proxy.saved # "none" /\ ~Listening(SshPort) /\ Instead(calls))
  BY DEF Restore
<1>3. CASE Abort
  BY <1>1, <1>3, QuietAbort
<1>4. CASE Continue
  BY <1>1, <1>4, QuietContinue DEF Effective
<1>5. CASE proxy.saved # "none" /\ ~Listening(SshPort) /\ Instead(calls)
  <2>1. FirstOK /\ SshPort \notin gateway.ports
    BY <1>1, FirstFacts DEF IInv, ReadyOK, ReadyAdmin
  <2>2. Inserted(calls \o Tail(op.todo), t, CallType(N_, S_))
        /\ First.block \notin {"relocation", "forward"}
    <3>1. First.block # "forward"
      BY <1>1, <2>1 DEF FirstOK, RestOK, CallType, ForwardCalls
    <3> QED BY <1>0, <1>1, <2>1, <3>1, KnownNames, RestoreTodo DEF FirstOK
  <2>3. t.call = "stop-admin" /\ t.block \notin {"relocation", "forward"}
    BY <1>0, <2>2 DEF Call
  <2>4. proxy' = proxy /\ gateway' = gateway
    BY <1>1, QuietFacts
  <2> HIDE DEF calls
  <2>5. ReadyAdmin(t)' /\ ReadyKeys(t)'
    BY <1>5, <2>1, <2>3, <2>4 DEF ReadyAdmin, ReadyKeys, Listening
  <2> QED BY <1>1, <1>5, <2>2, <2>5, QuietInsert
<1> QED BY <1>2, <1>3, <1>4, <1>5

LEMMA RelocateStep ==
  ASSUME IInv, Relocate, UNCHANGED <<job, failed>>
  PROVE  IInv'
<1> DEFINE fresh == IsSsh(First) /\ proxy.record[SshPort] = Free
           calls == Part(<<"save-activity", "stop-admin", "start-private">>, "relocation")
           C == CallType(N_, S_)
<1>0. PICK t : t = Call("save-activity", First.name, First.to, "relocation")
  OBVIOUS
<1>1. op.todo # <<>> /\ First.call = "relocate" /\ Quiet
  BY DEF Relocate, On, Quiet
<1>2. \/ Abort
      \/ fresh /\ op' = [op EXCEPT !.fresh = fresh, !.todo = calls \o Tail(@)]
      \/ op' = [op EXCEPT !.fresh = fresh, !.todo = <<>> \o Tail(@)]
  BY DEF Relocate
<1>3. FirstOK /\ ReadyAdmin(First) /\ op \in OpType /\ fresh \in BOOLEAN
  BY <1>1, FirstFacts DEF IInv, CommandOK, ReadyOK, IsSsh
<1>4. /\ op.error \in BOOLEAN /\ op.late \in BOOLEAN /\ op.key \in Nat
      /\ fresh => First.name \in S_ /\ PortOf(First) = SshPort
  BY <1>1, <1>3 DEF OpType, FirstOK, Nameless
<1>5. /\ WorldOK' /\ AdminOK' /\ UNCHANGED Keys /\ UNCHANGED <<inventory, job, failed>>
      /\ UNCHANGED <<host, proxy, gateway, served>>
  BY <1>1, QuietFacts
<1>6. CASE Abort
  BY <1>1, <1>6, QuietAbort
<1>7. CASE fresh /\ op' = [op EXCEPT !.fresh = fresh, !.todo = calls \o Tail(@)]
  <2>1. Inserted(calls \o Tail(op.todo), t, C)
    BY <1>0, <1>1, <1>3, <1>4, <1>7, KnownNames, RelocateTodo DEF FirstOK
  <2>2. t.call = "save-activity" /\ t.block = "relocation"
    BY <1>0 DEF Call
  <2>3. SshPort \notin gateway.ports
    BY <1>1, <1>3, <1>4, <1>7 DEF ReadyAdmin
  <2>4. ReadyAdmin(t)' /\ ReadyKeys(t)'
    BY <1>5, <2>2, <2>3 DEF ReadyAdmin, ReadyKeys
  <2> HIDE DEF fresh, calls
  <2>5. Shape(calls \o Tail(op.todo), op.key, op.error, fresh, op.late)
    BY <1>3, <1>7 DEF Shape, OpType
  <2> QED BY <1>1, <1>3, <1>5, <2>1, <2>4, <2>5, InsertStep DEF C
<1>8. CASE op' = [op EXCEPT !.fresh = fresh, !.todo = <<>> \o Tail(@)]
  <2>1. RestOK(C)
    BY <1>3 DEF FirstOK
  <2> DEFINE rest == Tail(op.todo)
  <2>2. rest \in Seq(C) /\ Ordered(rest)
    BY <2>1 DEF RestOK
  <2>3. <<>> \o rest = rest
    BY <2>2
  <2> HIDE DEF fresh, rest
  <2>4. Shape(rest, op.key, op.error, fresh, op.late)
    BY <1>3, <1>8, <2>3 DEF Shape, OpType, rest
  <2>5. /\ CommandOK' /\ WorkerReports' /\ TodoOK'
        /\ op'.todo = rest /\ op'.key = op.key /\ op'.fresh = fresh /\ op'.plan = op.plan
    BY <1>3, <1>4, <1>5, <2>2, <2>4, Moves DEF IInv, C
  <2>6. KeysOK'
    <3>1. (\E i \in DOMAIN op'.todo : op'.todo[i].call \in Starters)
             => \E i \in DOMAIN op.todo : op.todo[i].call \in Starters
      BY <2>1, <2>5 DEF RestOK, rest
    <3> QED BY <1>5, <2>5, <3>1, KeysSame DEF IInv
  <2>7. ReadyOK'
    <3>1. CASE rest = <<>>
      BY <2>5, <3>1 DEF ReadyOK
    <3>2. CASE rest # <<>>
      <4>1. PICK s \in C : s = Head(rest) /\ Follows(First, s)
        BY <2>1, <3>2 DEF RestOK, rest
      <4>2. CASE ~Dependent(s)
        BY <2>5, <3>2, <4>1, <4>2, QuietReady DEF C
      <4>3. CASE Dependent(s)
        <5>1. Forwards(s) /\ s.name = First.name
          BY <1>1, <4>1, <4>3
             DEF Follows, FollowsInAdmin, FollowsInKeys, Dependent, AdminSteps, KeySteps, Forwards
        <5>2. First' = s
          BY <2>5, <4>1 DEF First
        <5>3. KnownSsh(op.plan)' = S_
          BY <1>5, <2>5 DEF KnownSsh, Known, Planned, S_
        <5>4. ReadyAdmin(s)'
          BY <1>4, <2>5, <5>1, <5>3 DEF ReadyAdmin, Forwards
        <5>5. ReadyKeys(s)'
          BY <5>1 DEF ReadyKeys, Forwards
        <5> QED BY <5>2, <5>4, <5>5 DEF ReadyOK
      <4> QED BY <4>2, <4>3
    <3> QED BY <3>1, <3>2
  <2> QED BY <1>5, <2>5, <2>6, <2>7 DEF IInv
<1> QED BY <1>2, <1>6, <1>7, <1>8

LEMMA ExpandStep ==
  ASSUME IInv, Expand, UNCHANGED <<job, failed>>
  PROVE  IInv'
BY EnableHostStep, ActivateKeyStep, ReplaceKeyStep, RelocateStep, UnforwardStep DEF Expand

-----------------------------------------------------------------------------
(* Calls to the host's SSH daemon *)

HostOnly == UNCHANGED <<proxy, gateway, dns, routes, files, session>> /\ UNCHANGED <<job, failed>>

LEMMA HostFacts ==
  ASSUME IInv, HostOnly, host' \in HostType, served' \in Nat
  PROVE  /\ WorldOK' /\ AdminOK' /\ UNCHANGED <<inventory, job, failed>>
         /\ UNCHANGED <<proxy, gateway>>
         /\ UNCHANGED <<proxy.record, proxy.live, proxy.saved, proxy.admin, proxy.stock, gateway.ports>>
<1>1. UNCHANGED <<proxy, gateway, dns, routes, inventory, domain, session, job, failed>>
  BY DEF HostOnly, files
<1>2. WorldOK'
  BY <1>1 DEF IInv, WorldOK
<1>3. AdminOK'
  BY <1>1, AdminSame DEF IInv
<1> QED BY <1>1, <1>2, <1>3

LEMMA OnHostStep ==
  ASSUME IInv, op.todo # <<>>, First.call \notin Effective, Continue, HostOnly, host' \in HostType,
         UNCHANGED Keys, host'.record = Nobody => host.record = Nobody
  PROVE  IInv'
<1>1. served' \in Nat
  BY DEF IInv, WorldOK, Keys
<1>2. /\ WorldOK' /\ AdminOK' /\ UNCHANGED <<inventory, job, failed>>
      /\ UNCHANGED <<proxy.record, proxy.live, proxy.saved, proxy.admin, proxy.stock, gateway.ports>>
  BY <1>1, HostFacts
<1> QED BY <1>2, ContinueStep

\* What a call about the keys leaves to the next one.
LEMMA HostEffect ==
  ASSUME IInv, op.todo # <<>>, Continue, HostOnly, host' \in HostType, served' \in Nat,
         host'.issued >= host.issued, served' <= host'.issued, host'.pending <= host'.issued,
         host'.client <= host'.issued,
         host'.pending # NoKey => host'.pending > served', host'.authorized \in {NoKey, served'},
         host'.record = Nobody => host'.pending = NoKey /\ host'.authorized = NoKey,
         served' # served => First.call = "authorize",
         \A t \in CallType(N_, S_) :
           Follows(First, t) /\ Dependent(t) => ~Forwards(t) /\ t.call \notin AdminSteps /\ ReadyKeys(t)'
  PROVE  IInv'
<1>1. /\ WorldOK' /\ AdminOK' /\ UNCHANGED <<inventory, job, failed>>
  BY HostFacts
<1>2. /\ op'.key = op.key /\ \A i \in DOMAIN op'.todo : Later(First, op'.todo[i])
      /\ (\E i \in DOMAIN op'.todo : op'.todo[i].call \in Starters)
           => \E i \in DOMAIN op.todo : op.todo[i].call \in Starters
  BY <1>1, Continued
<1>3. op.key <= host.issued /\ op.key \in Nat /\ host.issued \in Nat /\ host'.issued \in Nat
  BY DEF IInv, KeysOK, CommandOK, OpType, WorldOK, HostType
<1>4. op'.key <= host'.issued
  BY <1>2, <1>3
<1>5. ASSUME op'.key # NoKey, op'.key <= served'
      PROVE  \A i \in DOMAIN op'.todo : op'.todo[i].call \notin Starters
  <2>1. CASE served' = served
    BY <1>2, <1>5, <2>1 DEF IInv, KeysOK
  <2>2. CASE First.call = "authorize"
    BY <1>2, <2>2 DEF Later, Openers
  <2> QED BY <2>1, <2>2
<1>6. KeysOK'
  BY <1>4, <1>5 DEF KeysOK, Revoked
<1>7. ASSUME NEW t \in CallType(N_, S_), Follows(First, t), Dependent(t), t.name = First.name
      PROVE  ReadyAdmin(t)' /\ ReadyKeys(t)'
  <2>1. ~Forwards(t) /\ t.call \notin AdminSteps /\ ReadyKeys(t)'
    BY <1>7
  <2>2. t.block # "forward"
    BY <2>1 DEF CallType, ForwardCalls, Forwards, AdminSteps
  <2> QED BY <2>1, <2>2 DEF ReadyAdmin, AdminSteps
<1> QED BY <1>1, <1>6, <1>7, EffectStep

LEMMA InstallKeyStep ==
  ASSUME IInv, OnHost("install-key", InstallKey(op.key)), UNCHANGED <<job, failed>>
  PROVE  IInv'
<1>1. op.todo # <<>> /\ First.call = "install-key" /\ Continue /\ HostOnly /\ InstallKey(op.key)
      /\ served' = served
  BY DEF OnHost, On, HostOnly
<1>2. host \in HostType /\ op.key \in Nat /\ served \in Nat /\ KeysOK
  BY DEF IInv, WorldOK, CommandOK, OpType
<1>3. host.pending = NoKey /\ host.record # Nobody
  BY <1>1 DEF IInv, ReadyOK, ReadyKeys
<1>4. op.key = NoKey \/ op.key > served
  <2>1. 1 \in DOMAIN op.todo /\ op.todo[1].call \in Starters
    <3>1. FirstOK
      BY <1>1, FirstFacts DEF IInv
    <3> QED BY <1>1, <3>1 DEF FirstOK, RestOK, Starters
  <2> QED BY <1>2, <2>1 DEF KeysOK
<1>5. /\ host' \in HostType /\ host'.pending = host.pending /\ host'.authorized = host.authorized
      /\ host'.record = host.record
      /\ \/ op.key = NoKey /\ host'.issued = host.issued + 1 /\ host'.client = host.issued + 1
         \/ op.key # NoKey /\ host'.issued = host.issued /\ host'.client = op.key
  <2>1. host.issued + 1 \in Nat
    BY <1>2 DEF HostType
  <2>2. CASE op.key = NoKey
    <3>1. host' = [host EXCEPT !.issued = host.issued + 1, !.client = host.issued + 1]
      BY <1>1, <2>2 DEF InstallKey
    <3> QED BY <1>2, <2>1, <2>2, <3>1 DEF HostType
  <2>3. CASE op.key # NoKey
    <3>1. host' = [host EXCEPT !.client = op.key]
      BY <1>1, <2>3 DEF InstallKey
    <3> QED BY <1>2, <2>3, <3>1 DEF HostType
  <2> QED BY <2>2, <2>3
<1>6. /\ host.issued \in Nat /\ host'.issued \in Nat /\ host'.client \in Nat /\ host.pending \in Nat
  BY <1>2, <1>5 DEF HostType
<1>7. served <= host.issued /\ op.key <= host.issued /\ host.authorized \in {NoKey, served}
  BY <1>2 DEF KeysOK
<1>8. /\ host'.issued >= host.issued /\ served <= host'.issued /\ host'.pending <= host'.issued
      /\ host'.client <= host'.issued /\ host'.client > served
  BY <1>2, <1>3, <1>4, <1>5, <1>6, <1>7 DEF NoKey
<1>9. ASSUME NEW t \in CallType(N_, S_), Follows(First, t), Dependent(t)
      PROVE  ~Forwards(t) /\ t.call \notin AdminSteps /\ ReadyKeys(t)'
  <2>1. t.call = "authorize"
    BY <1>1, <1>9 DEF Follows, FollowsInAdmin, FollowsInKeys, Dependent, AdminSteps, KeySteps, Forwards
  <2> QED BY <1>1, <1>3, <1>5, <1>8, <2>1 DEF ReadyKeys, Forwards, AdminSteps
<1> QED BY <1>1, <1>2, <1>3, <1>5, <1>7, <1>8, <1>9, HostEffect

LEMMA AuthorizeStep ==
  ASSUME IInv, AuthorizeKey, UNCHANGED <<job, failed>>
  PROVE  IInv'
<1>1. op.todo # <<>> /\ First.call = "authorize" /\ Continue /\ HostOnly /\ Authorize
      /\ served' = host.client
  BY DEF AuthorizeKey, On, HostOnly, files
<1>2. host \in HostType /\ served \in Nat /\ KeysOK
  BY DEF IInv, WorldOK
<1>3. host.pending = NoKey /\ host.record # Nobody
  BY <1>1 DEF IInv, ReadyOK, ReadyKeys
<1>4. /\ host' \in HostType /\ host'.pending = host.pending /\ host'.authorized = host.client
      /\ host'.record = host.record /\ host'.issued = host.issued /\ host'.client = host.client
  BY <1>1, <1>2 DEF Authorize, HostType
<1>5. host.issued \in Nat /\ host.client \in Nat /\ host.client <= host.issued
      /\ host.pending <= host.issued
  BY <1>2 DEF HostType, KeysOK
<1>6. ASSUME NEW t \in CallType(N_, S_), Follows(First, t), Dependent(t)
      PROVE  ~Forwards(t) /\ t.call \notin AdminSteps /\ ReadyKeys(t)'
  BY <1>1, <1>6, QuietFollows DEF Sources
<1> QED BY <1>1, <1>3, <1>4, <1>5, <1>6, HostEffect

LEMMA PrepareStep ==
  ASSUME IInv, PrepareReplacement, UNCHANGED <<job, failed>>
  PROVE  IInv'
<1>1. op.todo # <<>> /\ First.call = "prepare-key" /\ HostOnly /\ served' = served
  BY DEF PrepareReplacement, On, HostOnly
<1>2. host \in HostType /\ served \in Nat /\ KeysOK
  BY DEF IInv, WorldOK
<1>3. (CanPrepare /\ PrepareKey /\ Continue) \/ (Abort /\ host' = host)
  BY DEF PrepareReplacement
<1>4. CASE Abort /\ host' = host
  <2>1. Quiet
    BY <1>1, <1>4 DEF PrepareReplacement, Quiet, adapters, HostOnly, files
  <2> QED BY <1>1, <1>4, <2>1, QuietAbort
<1>5. CASE CanPrepare /\ PrepareKey /\ Continue
  <2>1. /\ host' \in HostType /\ host'.pending = host.issued + 1 /\ host'.authorized = host.authorized
        /\ host'.record = host.record /\ host'.issued = host.issued + 1 /\ host'.client = host.client
        /\ host.record # Nobody
    <3>1. host' = [host EXCEPT !.issued = host.issued + 1, !.pending = host.issued + 1]
      BY <1>5 DEF PrepareKey
    <3>2. host.issued + 1 \in Nat
      BY <1>2 DEF HostType
    <3>3. host.record # Nobody
      BY <1>5 DEF CanPrepare, HostEnabled
    <3> QED BY <1>2, <3>1, <3>2, <3>3 DEF HostType
  <2>2. /\ host.issued \in Nat /\ host.client \in Nat /\ host.client <= host.issued
        /\ served <= host.issued /\ host.authorized \in {NoKey, served}
    BY <1>2 DEF HostType, KeysOK
  <2>3. /\ host'.issued >= host.issued /\ served <= host'.issued /\ host'.pending <= host'.issued
        /\ host'.client <= host'.issued /\ host'.pending > served
    BY <1>2, <2>1, <2>2
  <2>4. ASSUME NEW t \in CallType(N_, S_), Follows(First, t), Dependent(t)
        PROVE  ~Forwards(t) /\ t.call \notin AdminSteps /\ ReadyKeys(t)'
    BY <1>1, <2>4, QuietFollows DEF Sources
  <2> QED BY <1>1, <1>2, <1>5, <2>1, <2>2, <2>3, <2>4, HostEffect
<1> QED BY <1>3, <1>4, <1>5

LEMMA RevokeStep ==
  ASSUME IInv, RevokeAccess, UNCHANGED <<job, failed>>
  PROVE  IInv'
<1>1. op.todo # <<>> /\ First.call = "revoke-keys" /\ HostOnly /\ served' = served
  BY DEF RevokeAccess, On, HostOnly
<1>2. host \in HostType /\ served \in Nat /\ KeysOK
  BY DEF IInv, WorldOK
<1>3. (host.record # Nobody /\ RevokeKeys /\ Continue) \/ (Abort /\ host' = host)
  BY DEF RevokeAccess
<1>4. CASE Abort /\ host' = host
  <2>1. Quiet
    BY <1>1, <1>4 DEF RevokeAccess, Quiet, adapters, HostOnly, files
  <2> QED BY <1>1, <1>4, <2>1, QuietAbort
<1>5. CASE host.record # Nobody /\ RevokeKeys /\ Continue
  <2>1. /\ host' \in HostType /\ host'.pending = NoKey /\ host'.authorized = NoKey
        /\ host'.record = host.record /\ host'.issued = host.issued /\ host'.client = NoKey
    BY <1>2, <1>5 DEF RevokeKeys, HostType, NoKey
  <2>2. host.issued \in Nat /\ served <= host.issued /\ NoKey <= host.issued
        /\ host.issued >= host.issued
    BY <1>2 DEF HostType, KeysOK, NoKey
  <2>3. ASSUME NEW t \in CallType(N_, S_), Follows(First, t), Dependent(t)
        PROVE  ~Forwards(t) /\ t.call \notin AdminSteps /\ ReadyKeys(t)'
    <3>1. t.call = "disable-record"
      BY <1>1, <2>3 DEF Follows, FollowsInAdmin, FollowsInKeys, Dependent, AdminSteps, KeySteps, Forwards
    <3> QED BY <1>5, <2>1, <3>1 DEF ReadyKeys, Forwards, AdminSteps, Revoked
  <2> QED BY <1>1, <1>2, <1>5, <2>1, <2>2, <2>3, HostEffect
<1> QED BY <1>3, <1>4, <1>5

LEMMA TerminateStep ==
  ASSUME IInv, Terminate, UNCHANGED <<job, failed>>
  PROVE  IInv'
<1>1. op.todo # <<>> /\ First.call = "terminate" /\ Continue
      /\ UNCHANGED <<host, proxy, gateway, dns, routes, inventory, domain, served>>
      /\ session' \in {session, "none"}
  BY DEF Terminate, On, adapters, files
<1>2. WorldOK'
  BY <1>1 DEF IInv, WorldOK
<1> QED BY <1>1, <1>2, ContinueStep DEF Effective, Keys

LEMMA StopHostStep ==
  ASSUME IInv, StopHost, UNCHANGED <<job, failed>>
  PROVE  IInv'
<1>1. op.todo # <<>> /\ First.call = "stop-daemon" /\ HostOnly /\ served' = served
      /\ (Continue \/ Abort) /\ host' \in {host, [host EXCEPT !.daemon = FALSE]}
  BY DEF StopHost, On, HostOnly, Require, StopDaemon
<1>2. host \in HostType /\ served \in Nat
  BY DEF IInv, WorldOK
<1>3. host' \in HostType /\ host'.record = host.record /\ UNCHANGED Keys
  BY <1>1, <1>2 DEF HostType, Keys
<1>4. WorldOK' /\ AdminOK' /\ UNCHANGED <<inventory, job, failed, proxy, gateway>>
  BY <1>1, <1>2, <1>3, HostFacts
<1>5. CASE Abort
  BY <1>1, <1>3, <1>4, <1>5, AbortStep
<1>6. CASE Continue
  BY <1>1, <1>3, <1>6, OnHostStep DEF Effective
<1> QED BY <1>1, <1>5, <1>6

\* The record names the account of an exposure.
LEMMA WriteRecordStep ==
  ASSUME IInv, OnHost("write-record", WriteRecord(Subject(First).account)), UNCHANGED <<job, failed>>
  PROVE  IInv'
<1> DEFINE a == Subject(First).account
<1>1. op.todo # <<>> /\ First.call = "write-record" /\ Continue /\ HostOnly /\ served' = served
      /\ host' = [host EXCEPT !.record = a, !.disabled = TRUE]
  BY DEF OnHost, On, HostOnly, WriteRecord
<1>2. host \in HostType /\ served \in Nat /\ KeysOK
  BY DEF IInv, WorldOK
<1>3. a \in Account /\ a # Nobody
  <2>1. FirstOK
    BY <1>1, FirstFacts DEF IInv
  <2>2. Subject(First) \in Exposure /\ First.name \in S_ /\ IsSsh(First) = (First.name \in S_)
        /\ (IsSsh(First) => Subject(First).account # Nobody)
    BY <1>1, <2>1 DEF FirstOK, Nameless, SshCalls
  <2> QED BY <2>2 DEF Exposure, IsSsh
<1> HIDE DEF a
<1>4. /\ host' \in HostType /\ host'.pending = host.pending /\ host'.authorized = host.authorized
      /\ host'.record = a /\ host'.issued = host.issued /\ host'.client = host.client
  BY <1>1, <1>2, <1>3 DEF HostType
<1>5. host.pending = NoKey
  BY <1>1 DEF IInv, ReadyOK, ReadyKeys
<1>6. host.issued \in Nat /\ host.client <= host.issued /\ served <= host.issued
      /\ host.pending <= host.issued /\ host.authorized \in {NoKey, served} /\ host.issued >= host.issued
  BY <1>2 DEF HostType, KeysOK
<1>7. ASSUME NEW t \in CallType(N_, S_), Follows(First, t), Dependent(t)
      PROVE  ~Forwards(t) /\ t.call \notin AdminSteps /\ ReadyKeys(t)'
  <2>1. t.call \in {"write-config", "install-key"}
    BY <1>1, <1>7 DEF Follows, FollowsInAdmin, FollowsInKeys, Dependent, AdminSteps, KeySteps, Forwards
  <2> QED BY <1>3, <1>4, <1>5, <2>1 DEF ReadyKeys, Forwards, AdminSteps
<1> QED BY <1>1, <1>2, <1>3, <1>4, <1>5, <1>6, <1>7, HostEffect

\* A record is only removed when no key is left.
LEMMA RemoveRecordStep ==
  ASSUME IInv, OnHost("remove-record", RemoveRecord), UNCHANGED <<job, failed>>
  PROVE  IInv'
<1>1. op.todo # <<>> /\ First.call = "remove-record" /\ Continue /\ HostOnly /\ served' = served
      /\ host' = [host EXCEPT !.record = Nobody, !.disabled = TRUE]
  BY DEF OnHost, On, HostOnly, RemoveRecord
<1>2. host \in HostType /\ served \in Nat /\ KeysOK
  BY DEF IInv, WorldOK
<1>3. /\ host' \in HostType /\ host'.pending = host.pending /\ host'.authorized = host.authorized
      /\ host'.issued = host.issued /\ host'.client = host.client
  BY <1>1, <1>2 DEF HostType
<1>4. host.pending = NoKey /\ host.authorized = NoKey
  BY <1>1 DEF IInv, ReadyOK, ReadyKeys, Revoked
<1>5. host.issued \in Nat /\ host.client <= host.issued /\ served <= host.issued
      /\ host.pending <= host.issued /\ host.issued >= host.issued
  BY <1>2 DEF HostType, KeysOK
<1>6. ASSUME NEW t \in CallType(N_, S_), Follows(First, t), Dependent(t)
      PROVE  ~Forwards(t) /\ t.call \notin AdminSteps /\ ReadyKeys(t)'
  <2>1. t.call = "remove-files"
    BY <1>1, <1>6 DEF Follows, FollowsInAdmin, FollowsInKeys, Dependent, AdminSteps, KeySteps, Forwards
  <2> QED BY <1>3, <1>4, <2>1 DEF ReadyKeys, Forwards, AdminSteps
<1> QED BY <1>1, <1>2, <1>3, <1>4, <1>5, <1>6, HostEffect

\* Calls that leave the keys alone.
LEMMA PlainHostStep ==
  ASSUME IInv, NEW call, NEW ACTION Effect, OnHost(call, Effect), UNCHANGED <<job, failed>>,
         call \notin Effective,
         host \in HostType => /\ host' \in HostType /\ host'.record = host.record
                              /\ UNCHANGED <<host.issued, host.pending, host.client, host.authorized>>
  PROVE  IInv'
<1>1. op.todo # <<>> /\ First.call = call /\ Continue /\ HostOnly /\ served' = served
  BY DEF OnHost, On, HostOnly
<1>2. host \in HostType
  BY DEF IInv, WorldOK
<1> QED BY <1>1, <1>2, OnHostStep DEF Keys

LEMMA HostCallsStep ==
  ASSUME IInv, HostCalls, UNCHANGED <<job, failed>>
  PROVE  IInv'
<1>1. CASE OnHost("make-directory", MakeDirectory)
  <2>1. host' = [host EXCEPT !.dir = TRUE]
    BY <1>1 DEF OnHost, MakeDirectory
  <2>2. host \in HostType => /\ host' \in HostType /\ host'.record = host.record
                             /\ UNCHANGED <<host.issued, host.pending, host.client, host.authorized>>
    BY <2>1 DEF HostType
  <2> QED BY <1>1, <2>2, PlainHostStep DEF Effective
<1>2. CASE OnHost("write-config", WriteConfig(Subject(First).account))
  <2> DEFINE a == Subject(First).account
  <2>1. host' = [host EXCEPT !.config = a] /\ op.todo # <<>> /\ First.call = "write-config"
    BY <1>2 DEF OnHost, WriteConfig, On
  <2>2. a \in Account \cup {Nobody}
    <3>1. FirstOK
      BY <2>1, FirstFacts DEF IInv
    <3> QED BY <2>1, <3>1 DEF FirstOK, Nameless, Exposure
  <2> HIDE DEF a
  <2>3. host \in HostType => /\ host' \in HostType /\ host'.record = host.record
                             /\ UNCHANGED <<host.issued, host.pending, host.client, host.authorized>>
    BY <2>1, <2>2 DEF HostType
  <2> QED BY <1>2, <2>3, PlainHostStep DEF Effective
<1>3. CASE OnHost("write-unit", WriteUnit)
  <2>1. host' = [host EXCEPT !.unit = TRUE]
    BY <1>3 DEF OnHost, WriteUnit
  <2>2. host \in HostType => /\ host' \in HostType /\ host'.record = host.record
                             /\ UNCHANGED <<host.issued, host.pending, host.client, host.authorized>>
    BY <2>1 DEF HostType
  <2> QED BY <1>3, <2>2, PlainHostStep DEF Effective
<1>4. CASE OnHost("start-daemon", StartDaemon)
  <2>1. host' = [host EXCEPT !.daemon = TRUE]
    BY <1>4 DEF OnHost, StartDaemon
  <2>2. host \in HostType => /\ host' \in HostType /\ host'.record = host.record
                             /\ UNCHANGED <<host.issued, host.pending, host.client, host.authorized>>
    BY <2>1 DEF HostType
  <2> QED BY <1>4, <2>2, PlainHostStep DEF Effective
<1>5. CASE OnHost("enable-record", EnableRecord)
  <2>1. host' = [host EXCEPT !.disabled = FALSE]
    BY <1>5 DEF OnHost, EnableRecord
  <2>2. host \in HostType => /\ host' \in HostType /\ host'.record = host.record
                             /\ UNCHANGED <<host.issued, host.pending, host.client, host.authorized>>
    BY <2>1 DEF HostType
  <2> QED BY <1>5, <2>2, PlainHostStep DEF Effective
<1>6. CASE OnHost("disable-record", DisableRecord)
  <2>1. host' = [host EXCEPT !.disabled = TRUE]
    BY <1>6 DEF OnHost, DisableRecord
  <2>2. host \in HostType => /\ host' \in HostType /\ host'.record = host.record
                             /\ UNCHANGED <<host.issued, host.pending, host.client, host.authorized>>
    BY <2>1 DEF HostType
  <2> QED BY <1>6, <2>2, PlainHostStep DEF Effective
<1>7. CASE OnHost("remove-unit", RemoveUnit)
  <2>1. host' = [host EXCEPT !.unit = FALSE]
    BY <1>7 DEF OnHost, RemoveUnit
  <2>2. host \in HostType => /\ host' \in HostType /\ host'.record = host.record
                             /\ UNCHANGED <<host.issued, host.pending, host.client, host.authorized>>
    BY <2>1 DEF HostType
  <2> QED BY <1>7, <2>2, PlainHostStep DEF Effective
<1>8. CASE OnHost("remove-files", RemoveFiles)
  <2>1. host' = [host EXCEPT !.config = Nobody, !.dir = FALSE]
    BY <1>8 DEF OnHost, RemoveFiles
  <2>2. host \in HostType => /\ host' \in HostType /\ host'.record = host.record
                             /\ UNCHANGED <<host.issued, host.pending, host.client, host.authorized>>
    BY <2>1 DEF HostType
  <2> QED BY <1>8, <2>2, PlainHostStep DEF Effective
<1> QED
  BY <1>1, <1>2, <1>3, <1>4, <1>5, <1>6, <1>7, <1>8, WriteRecordStep, InstallKeyStep, RemoveRecordStep,
     PrepareStep, AuthorizeStep, RevokeStep, TerminateStep, StopHostStep, VerifyStep DEF HostCalls

-----------------------------------------------------------------------------
(* Calls to the proxy and the gateway *)

ProxyOnly == UNCHANGED <<host, dns, routes, files, served>> /\ UNCHANGED <<job, failed>>

LEMMA ProxyWorld ==
  ASSUME IInv, ProxyOnly, proxy' \in ProxyType, gateway' \in GatewayType, session' \in {session, "none"}
  PROVE  /\ WorldOK' /\ UNCHANGED <<inventory, job, failed>> /\ UNCHANGED Keys
         /\ host'.record = host.record
<1>1. UNCHANGED <<host, dns, routes, inventory, domain, served, job, failed>>
  BY DEF ProxyOnly, files
<1> QED BY <1>1 DEF IInv, WorldOK, Keys

LEMMA ProxyEffect ==
  ASSUME IInv, op.todo # <<>>, Continue, ProxyOnly, proxy' \in ProxyType, gateway' \in GatewayType,
         session' \in {session, "none"}, AdminOK',
         \A t \in CallType(N_, S_) :
           /\ Follows(First, t) /\ Dependent(t) /\ t.name = First.name
           /\ op'.fresh = op.fresh /\ PortOf(t)' = PortOf(First) /\ KnownSsh(op.plan)' = S_
           => t.call \notin KeySteps /\ ReadyAdmin(t)'
  PROVE  IInv'
<1>1. /\ WorldOK' /\ UNCHANGED <<inventory, job, failed>> /\ UNCHANGED Keys
      /\ host'.record = host.record
  BY ProxyWorld
<1>2. /\ op'.key = op.key /\ op'.fresh = op.fresh /\ op'.plan = op.plan
      /\ (\E i \in DOMAIN op'.todo : op'.todo[i].call \in Starters)
           => \E i \in DOMAIN op.todo : op.todo[i].call \in Starters
  BY <1>1, Continued
<1>3. KeysOK'
  BY <1>1, <1>2, KeysSame DEF IInv
<1>4. KnownSsh(op.plan)' = S_
  BY <1>1, <1>2 DEF KnownSsh, Known, Planned, S_
<1>5. ASSUME NEW t \in CallType(N_, S_), Follows(First, t), Dependent(t), t.name = First.name
      PROVE  ReadyAdmin(t)' /\ ReadyKeys(t)'
  <2>1. PortOf(t)' = PortOf(First)
    BY <1>1, <1>2, <1>5, SamePort
  <2>2. t.call \notin KeySteps /\ ReadyAdmin(t)'
    BY <1>2, <1>4, <1>5, <2>1
  <2> QED BY <2>2 DEF ReadyKeys, KeySteps
<1> QED BY <1>1, <1>3, <1>5, EffectStep

LEMMA ProxyAbort ==
  ASSUME IInv, op.todo # <<>>, Abort, ProxyOnly, proxy' \in ProxyType, gateway' \in GatewayType,
         session' \in {session, "none"}, AdminOK', First.block = "relocation" => gateway' = gateway
  PROVE  IInv'
<1>1. /\ WorldOK' /\ UNCHANGED <<inventory, job, failed>> /\ UNCHANGED Keys
      /\ host'.record = host.record
  BY ProxyWorld
<1> QED BY <1>1, AbortStep

LEMMA SaveActivityStep ==
  ASSUME IInv, OnProxy("save-activity", SaveActivity), UNCHANGED <<job, failed>>
  PROVE  IInv'
<1>1. op.todo # <<>> /\ First.call = "save-activity" /\ Continue /\ ProxyOnly /\ gateway' = gateway
      /\ session' = session
  BY DEF OnProxy, On, ProxyOnly, files
<1> DEFINE w == IF proxy.saved # "none" THEN proxy.saved
                ELSE IF proxy.admin = "stopped" THEN "inactive" ELSE "active"
<1>2. proxy' = [proxy EXCEPT !.saved = w]
  BY DEF OnProxy, SaveActivity
<1>3. proxy \in ProxyType /\ gateway \in GatewayType /\ AdminOK
  BY DEF IInv, WorldOK
<1>4. w \in {"active", "inactive"}
  BY <1>3 DEF ProxyType
<1>5. proxy.saved = "none" => w = IF proxy.stock = "ssh" THEN "active" ELSE "inactive"
  BY <1>3 DEF AdminOK, AdminRestorable, ProxyType
<1>6. proxy.saved # "none" => w = proxy.saved
  OBVIOUS
<1> HIDE DEF w
<1>7. proxy' \in ProxyType /\ proxy'.admin = proxy.admin /\ proxy'.stock = proxy.stock
      /\ proxy'.live = proxy.live /\ proxy'.saved = w
  BY <1>2, <1>3, <1>4 DEF ProxyType
<1>8. AdminOK'
  BY <1>1, <1>3, <1>4, <1>5, <1>6, <1>7 DEF AdminOK, AdminRestorable, AdminNeverExposed
<1>9. SshPort \notin gateway.ports
  BY <1>1 DEF IInv, ReadyOK, ReadyAdmin
<1>10. ASSUME NEW t \in CallType(N_, S_), Follows(First, t), Dependent(t)
       PROVE  t.call \notin KeySteps /\ ReadyAdmin(t)'
  <2>1. t.call = "stop-admin" /\ t.block = "relocation"
    BY <1>1, <1>10 DEF Follows, FollowsInAdmin, FollowsInKeys, Dependent, AdminSteps, KeySteps, Forwards
  <2> QED BY <1>1, <1>4, <1>7, <1>9, <2>1 DEF ReadyAdmin, KeySteps
<1> QED BY <1>1, <1>3, <1>7, <1>8, <1>10, ProxyEffect

LEMMA StopAdminStep ==
  ASSUME IInv, OnProxy("stop-admin", StopAdmin), UNCHANGED <<job, failed>>
  PROVE  IInv'
<1>1. op.todo # <<>> /\ First.call = "stop-admin" /\ Continue /\ ProxyOnly /\ gateway' = gateway
      /\ session' = session
  BY DEF OnProxy, On, ProxyOnly, files
<1>2. proxy' = [proxy EXCEPT !.admin = "stopped"]
  BY DEF OnProxy, StopAdmin
<1>3. proxy \in ProxyType /\ gateway \in GatewayType /\ AdminOK
  BY DEF IInv, WorldOK
<1>4. SshPort \notin gateway.ports /\ proxy.saved # "none"
      /\ (First.block # "relocation" => SshPort \notin proxy.live)
  BY <1>1 DEF IInv, ReadyOK, ReadyAdmin
<1>5. proxy' \in ProxyType /\ proxy'.admin = "stopped" /\ proxy'.stock = proxy.stock
      /\ proxy'.live = proxy.live /\ proxy'.saved = proxy.saved
  BY <1>2, <1>3 DEF ProxyType
<1>6. AdminOK'
  BY <1>1, <1>3, <1>4, <1>5 DEF AdminOK, AdminRestorable, AdminNeverExposed
<1>7. ASSUME NEW t \in CallType(N_, S_), Follows(First, t), Dependent(t)
      PROVE  t.call \notin KeySteps /\ ReadyAdmin(t)'
  <2>1. t.call = "start-private" \/ (t.call = "start-stock" /\ First.block # "relocation")
    BY <1>1, <1>7 DEF Follows, FollowsInAdmin, FollowsInKeys, Dependent, AdminSteps, KeySteps, Forwards
  <2>2. t.block # "forward"
    BY <2>1 DEF CallType, ForwardCalls
  <2> QED BY <1>1, <1>4, <1>5, <2>1, <2>2 DEF ReadyAdmin, KeySteps
<1> QED BY <1>1, <1>3, <1>5, <1>6, <1>7, ProxyEffect

LEMMA StartPrivateStep ==
  ASSUME IInv, StartPrivateAdmin, UNCHANGED <<job, failed>>
  PROVE  IInv'
<1>1. op.todo # <<>> /\ First.call = "start-private" /\ ProxyOnly /\ gateway' = gateway
      /\ session' = session
  BY DEF StartPrivateAdmin, On, ProxyOnly, files
<1>2. (Continue /\ StartPrivate) \/ (Abort /\ proxy' = proxy)
  BY DEF StartPrivateAdmin
<1>3. proxy \in ProxyType /\ gateway \in GatewayType /\ AdminOK
  BY DEF IInv, WorldOK
<1>4. CASE Abort /\ proxy' = proxy
  <2>1. AdminOK'
    BY <1>1, <1>3, <1>4, AdminSame
  <2> QED BY <1>1, <1>3, <1>4, <2>1, ProxyAbort
<1>5. CASE Continue /\ StartPrivate
  <2>1. SshPort \notin gateway.ports /\ proxy.saved # "none" /\ FirstOK
    BY <1>1, FirstFacts DEF IInv, ReadyOK, ReadyAdmin
  <2>2. proxy' = [proxy EXCEPT !.admin = IF proxy.saved = "active" THEN "private" ELSE proxy.admin]
    BY <1>5 DEF StartPrivate
  <2>3. proxy' \in ProxyType /\ proxy'.admin \in {"private", proxy.admin} /\ proxy'.stock = proxy.stock
        /\ proxy'.live = proxy.live /\ proxy'.saved = proxy.saved
    BY <1>3, <2>2 DEF ProxyType
  <2>4. AdminOK'
    BY <1>1, <1>3, <2>1, <2>3 DEF AdminOK, AdminRestorable, AdminNeverExposed
  <2>5. First.name \in S_
    BY <1>1, <2>1 DEF FirstOK, SshCalls
  <2>6. ASSUME NEW t \in CallType(N_, S_), Follows(First, t), Dependent(t), t.name = First.name,
               KnownSsh(op.plan)' = S_
        PROVE  t.call \notin KeySteps /\ ReadyAdmin(t)'
    <3>1. Forwards(t)
      BY <1>1, <2>6 DEF Follows, FollowsInAdmin, FollowsInKeys, Dependent, AdminSteps, KeySteps, Forwards
    <3> QED BY <2>5, <2>6, <3>1 DEF ReadyAdmin, KeySteps, Forwards
  <2> QED BY <1>1, <1>3, <1>5, <2>3, <2>4, <2>6, ProxyEffect
<1> QED BY <1>2, <1>4, <1>5

LEMMA StartStockStep ==
  ASSUME IInv, OnProxy("start-stock", StartStock), UNCHANGED <<job, failed>>
  PROVE  IInv'
<1>1. op.todo # <<>> /\ First.call = "start-stock" /\ Continue /\ ProxyOnly /\ gateway' = gateway
      /\ session' = session
  BY DEF OnProxy, On, ProxyOnly, files
<1>2. proxy' = [proxy EXCEPT !.admin = IF proxy.saved = "active" THEN "ssh" ELSE proxy.admin]
  BY DEF OnProxy, StartStock
<1>3. proxy \in ProxyType /\ gateway \in GatewayType /\ AdminOK
  BY DEF IInv, WorldOK
<1>4. /\ SshPort \notin gateway.ports /\ proxy.saved # "none"
      /\ proxy.admin = "stopped" /\ SshPort \notin proxy.live
  BY <1>1 DEF IInv, ReadyOK, ReadyAdmin
<1>5. proxy' \in ProxyType /\ proxy'.admin = (IF proxy.saved = "active" THEN "ssh" ELSE "stopped")
      /\ proxy'.stock = proxy.stock /\ proxy'.live = proxy.live /\ proxy'.saved = proxy.saved
  BY <1>2, <1>3, <1>4 DEF ProxyType
<1>6. AdminOK'
  BY <1>1, <1>3, <1>4, <1>5 DEF AdminOK, AdminRestorable, AdminNeverExposed
<1>7. ASSUME NEW t \in CallType(N_, S_), Follows(First, t), Dependent(t)
      PROVE  t.call \notin KeySteps /\ ReadyAdmin(t)'
  <2>1. t.call = "forget-activity"
    BY <1>1, <1>7 DEF Follows, FollowsInAdmin, FollowsInKeys, Dependent, AdminSteps, KeySteps, Forwards
  <2>2. t.block # "forward"
    BY <2>1 DEF CallType, ForwardCalls
  <2> QED BY <1>1, <1>4, <1>5, <2>1, <2>2 DEF ReadyAdmin, KeySteps
<1> QED BY <1>1, <1>3, <1>5, <1>6, <1>7, ProxyEffect

\* The proxy's sshd is as it was before it was moved.
LEMMA ForgetActivityStep ==
  ASSUME IInv, OnProxy("forget-activity", ForgetActivity), UNCHANGED <<job, failed>>
  PROVE  IInv'
<1>1. op.todo # <<>> /\ First.call = "forget-activity" /\ Continue /\ ProxyOnly /\ gateway' = gateway
      /\ session' = session
  BY DEF OnProxy, On, ProxyOnly, files
<1>2. proxy' = [proxy EXCEPT !.saved = "none"]
  BY DEF OnProxy, ForgetActivity
<1>3. proxy \in ProxyType /\ gateway \in GatewayType /\ AdminOK
  BY DEF IInv, WorldOK
<1>4. /\ proxy.saved # "none"
      /\ proxy.admin = (IF proxy.saved = "active" THEN "ssh" ELSE "stopped")
  BY <1>1 DEF IInv, ReadyOK, ReadyAdmin
<1>5. proxy' \in ProxyType /\ proxy'.admin = proxy.admin
      /\ proxy'.stock = proxy.stock /\ proxy'.live = proxy.live /\ proxy'.saved = "none"
  BY <1>2, <1>3 DEF ProxyType
<1>6. proxy.admin = proxy.stock
  BY <1>3, <1>4 DEF AdminOK, AdminRestorable, ProxyType
<1>7. AdminOK'
  BY <1>1, <1>3, <1>5, <1>6 DEF AdminOK, AdminRestorable, AdminNeverExposed
<1>8. \A t \in CallType(N_, S_) : Follows(First, t) => ~Dependent(t)
  BY <1>1, QuietFollows DEF Sources
<1> QED BY <1>1, <1>3, <1>5, <1>7, <1>8, ProxyEffect

\* What a call about an exposure is about, when it is the next.
LEMMA FirstSubject ==
  ASSUME IInv, op.todo # <<>>, First.call \notin Nameless
  PROVE  /\ PortOf(First) \in Port /\ HostOf(First) \in Hostname /\ Subject(First).tailnet \in BOOLEAN
         /\ First.name \in S_ => PortOf(First) = SshPort
         /\ First.to \in Domain
<1>1. FirstOK
  BY FirstFacts DEF IInv
<1> QED BY <1>1 DEF FirstOK, Exposure

\* The gateway is closed before the forwarding is changed.
LEMMA CloseGatewayStep ==
  ASSUME IInv, OnGateway("close-gateway", CloseGateway(PortOf(First))), UNCHANGED <<job, failed>>
  PROVE  IInv'
<1> DEFINE p == PortOf(First)
<1>1. op.todo # <<>> /\ First.call = "close-gateway" /\ Continue /\ ProxyOnly /\ proxy' = proxy
      /\ session' = session
  BY DEF OnGateway, On, ProxyOnly, files
<1>2. gateway' = [gateway EXCEPT !.ports = gateway.ports \ {p}]
  BY DEF OnGateway, CloseGateway
<1>3. proxy \in ProxyType /\ gateway \in GatewayType /\ AdminOK
  BY DEF IInv, WorldOK
<1>4. First.name \in S_ => p = SshPort
  BY <1>1, FirstSubject DEF Nameless
<1>5. First.block = "forward" => (op.fresh => First.name \in S_)
  BY <1>1 DEF IInv, ReadyOK, ReadyAdmin, S_
<1> HIDE DEF p
<1>6. gateway' \in GatewayType /\ gateway'.ports = gateway.ports \ {p}
  BY <1>2, <1>3 DEF GatewayType
<1>7. AdminOK'
  BY <1>1, <1>3, <1>6, AdminSame
<1>8. ASSUME NEW t \in CallType(N_, S_), Follows(First, t), Dependent(t), t.name = First.name,
             op'.fresh = op.fresh, PortOf(t)' = PortOf(First), KnownSsh(op.plan)' = S_
      PROVE  t.call \notin KeySteps /\ ReadyAdmin(t)'
  <2>1. \/ t.call = "install" /\ Forwards(First)
        \/ t.call = "remove-forwarding"
        \/ t.call = "restore"
    BY <1>1, <1>8 DEF Follows, FollowsInAdmin, FollowsInKeys, Dependent, AdminSteps, KeySteps, Forwards
  <2>2. CASE t.call = "install" /\ Forwards(First)
    BY <1>5, <1>8, <2>2 DEF ReadyAdmin, KeySteps, Forwards
  <2>3. CASE t.call = "remove-forwarding"
    <3>1. t.block # "forward"
      BY <2>3 DEF CallType, ForwardCalls
    <3> QED BY <1>6, <1>8, <2>3, <3>1 DEF ReadyAdmin, KeySteps, p
  <2>4. CASE t.call = "restore"
    <3>1. t.block # "forward" /\ t.name \in S_
      BY <2>4 DEF CallType, ForwardCalls, SshCalls
    <3>2. SshPort \notin gateway'.ports
      BY <1>4, <1>6, <1>8, <3>1
    <3> QED BY <2>4, <3>1, <3>2 DEF ReadyAdmin, KeySteps
  <2> QED BY <2>1, <2>2, <2>3, <2>4
<1> QED BY <1>1, <1>3, <1>6, <1>7, <1>8, ProxyEffect

LEMMA OpenGatewayFacts ==
  ASSUME IInv, On("open-gateway"), OpenGateway(PortOf(First), Subject(First).tailnet), proxy' = proxy
  PROVE  gateway' \in GatewayType /\ AdminOK'
<1> DEFINE p == PortOf(First)
<1>1. op.todo # <<>> /\ First.call = "open-gateway"
  BY DEF On
<1>2. gateway' = [gateway EXCEPT !.ports = IF gateway.up /\ Subject(First).tailnet
                                           THEN gateway.ports \cup {p} ELSE gateway.ports \ {p}]
  BY DEF OpenGateway
<1>3. gateway \in GatewayType /\ AdminOK
  BY DEF IInv, WorldOK
<1>4. p \in Port
  BY <1>1, FirstSubject DEF Nameless
<1>5. p \in proxy.live
  BY <1>1 DEF IInv, ReadyOK, ReadyAdmin
<1> HIDE DEF p
<1>6. gateway' \in GatewayType /\ gateway'.ports \subseteq gateway.ports \cup {p}
  BY <1>2, <1>3, <1>4 DEF GatewayType
<1>7. AdminOK'
  BY <1>3, <1>5, <1>6 DEF AdminOK, AdminRestorable, AdminNeverExposed
<1> QED BY <1>6, <1>7

LEMMA OpenGatewayStep ==
  ASSUME IInv, OnGateway("open-gateway", OpenGateway(PortOf(First), Subject(First).tailnet)),
         UNCHANGED <<job, failed>>
  PROVE  IInv'
<1>1. op.todo # <<>> /\ First.call = "open-gateway" /\ Continue /\ ProxyOnly /\ proxy' = proxy
      /\ session' = session /\ OpenGateway(PortOf(First), Subject(First).tailnet)
  BY DEF OnGateway, On, ProxyOnly, files
<1>2. gateway' \in GatewayType /\ AdminOK'
  BY <1>1, OpenGatewayFacts DEF On
<1>3. proxy \in ProxyType
  BY DEF IInv, WorldOK
<1>4. \A t \in CallType(N_, S_) : Follows(First, t) => ~Dependent(t)
  BY <1>1, QuietFollows DEF Sources
<1> QED BY <1>1, <1>2, <1>3, <1>4, ProxyEffect

LEMMA StartGatewayStep ==
  ASSUME IInv, OnGateway("start-gateway", gateway' = [gateway EXCEPT !.up = TRUE]),
         UNCHANGED <<job, failed>>
  PROVE  IInv'
<1>1. op.todo # <<>> /\ First.call = "start-gateway" /\ Continue /\ ProxyOnly /\ proxy' = proxy
      /\ session' = session /\ gateway' = [gateway EXCEPT !.up = TRUE]
  BY DEF OnGateway, On, ProxyOnly, files
<1>2. proxy \in ProxyType /\ gateway \in GatewayType
  BY DEF IInv, WorldOK
<1>3. gateway' \in GatewayType /\ gateway'.ports = gateway.ports
  BY <1>1, <1>2 DEF GatewayType
<1>4. AdminOK'
  BY <1>1, <1>3, AdminSame DEF IInv
<1>5. \A t \in CallType(N_, S_) : Follows(First, t) => ~Dependent(t)
  BY <1>1, QuietFollows DEF Sources
<1> QED BY <1>1, <1>2, <1>3, <1>4, <1>5, ProxyEffect

\* The units of a port are installed, or left behind by a failed attempt.
LEMMA InstallFails ==
  ASSUME IInv, On("install"), InstallForwardingFails(PortOf(First), HostOf(First)), gateway' = gateway
  PROVE  proxy' \in ProxyType /\ AdminOK'
<1>1. op.todo # <<>> /\ First.call = "install"
  BY DEF On
<1>2. PortOf(First) \in Port /\ HostOf(First) \in Hostname
  BY <1>1, FirstSubject DEF Nameless
<1>3. proxy' = [proxy EXCEPT !.unit[PortOf(First)] = HostOf(First)] /\ proxy \in ProxyType
  BY DEF InstallForwardingFails, IInv, WorldOK
<1>4. proxy' \in ProxyType /\ proxy'.admin = proxy.admin /\ proxy'.stock = proxy.stock
      /\ proxy'.saved = proxy.saved /\ proxy'.live = proxy.live
  BY <1>2, <1>3 DEF ProxyType
<1> QED BY <1>4, AdminSame DEF IInv

LEMMA InstallStep ==
  ASSUME IInv, Install, UNCHANGED <<job, failed>>
  PROVE  IInv'
<1> DEFINE p == PortOf(First)
           h == HostOf(First)
<1>1. op.todo # <<>> /\ First.call = "install" /\ ProxyOnly /\ gateway' = gateway
      /\ session' \in {session, "none"} /\ On("install")
  BY DEF Install, On, ProxyOnly, files, Cut
<1>2. \/ CanListen(p) /\ InstallForwarding(p, h) /\ Continue
      \/ InstallForwardingFails(p, h) /\ Abort
  BY DEF Install
<1>3. p \in Port /\ h \in Hostname
  BY <1>1, FirstSubject DEF Nameless
<1>4. proxy \in ProxyType /\ gateway \in GatewayType /\ AdminOK
  BY DEF IInv, WorldOK
<1>5. First.block = "forward" /\ (op.fresh => First.name \in S_)
  <2>1. FirstOK
    BY <1>1, FirstFacts DEF IInv
  <2>2. First.block = "forward"
    BY <1>1, <2>1 DEF FirstOK, RestOK, CallType
  <2> QED BY <1>1, <2>2 DEF IInv, ReadyOK, ReadyAdmin, S_
<1>6. CASE InstallForwardingFails(p, h) /\ Abort
  <2>1. proxy' \in ProxyType /\ AdminOK'
    BY <1>1, <1>6, InstallFails
  <2> QED BY <1>1, <1>4, <1>6, <2>1, ProxyAbort
<1>7. CASE CanListen(p) /\ InstallForwarding(p, h) /\ Continue
  <2>1. proxy' = [proxy EXCEPT !.unit[p] = h, !.record[p] = h, !.live = proxy.live \cup {p}]
    BY <1>7 DEF InstallForwarding
  <2>2. p = SshPort => proxy.admin # "ssh"
    BY <1>4, <1>7 DEF CanListen, Listening, AdminOK
  <2> HIDE DEF p, h
  <2>3. proxy' \in ProxyType /\ proxy'.admin = proxy.admin /\ proxy'.stock = proxy.stock
        /\ proxy'.saved = proxy.saved /\ proxy'.live = proxy.live \cup {p}
    BY <1>3, <1>4, <2>1 DEF ProxyType
  <2>4. AdminOK'
    BY <1>1, <1>4, <2>2, <2>3 DEF AdminOK, AdminRestorable, AdminNeverExposed
  <2>5. ASSUME NEW t \in CallType(N_, S_), Follows(First, t), Dependent(t), t.name = First.name,
               op'.fresh = op.fresh, PortOf(t)' = PortOf(First), KnownSsh(op.plan)' = S_
        PROVE  t.call \notin KeySteps /\ ReadyAdmin(t)'
    <3>1. t.call = "open-gateway"
      BY <1>1, <2>5 DEF Follows, FollowsInAdmin, FollowsInKeys, Dependent, AdminSteps, KeySteps, Forwards
    <3> QED BY <1>5, <2>3, <2>5, <3>1 DEF ReadyAdmin, KeySteps, p
  <2> QED BY <1>1, <1>4, <1>7, <2>3, <2>4, <2>5, ProxyEffect
<1> QED BY <1>2, <1>6, <1>7

LEMMA RemoveUnitsStep ==
  ASSUME IInv, NEW call \in {"remove-forwarding", "undo-units"}, RemoveUnits(call),
         UNCHANGED <<job, failed>>
  PROVE  IInv'
<1> DEFINE p == PortOf(First)
<1>1. op.todo # <<>> /\ First.call = call /\ ProxyOnly /\ gateway' = gateway /\ Continue
      /\ session' \in {session, "none"}
  BY DEF RemoveUnits, On, ProxyOnly, files, Cut
<1>2. proxy' = [proxy EXCEPT !.unit[p] = Free, !.record[p] = Free, !.live = proxy.live \ {p}]
  BY DEF RemoveUnits, RemoveForwarding
<1>3. proxy \in ProxyType /\ gateway \in GatewayType /\ AdminOK
  BY DEF IInv, WorldOK
<1>4. call = "remove-forwarding" => p \notin gateway.ports
  BY <1>1 DEF IInv, ReadyOK, ReadyAdmin
<1>5. First.name \in S_ => p = SshPort
  BY <1>1, FirstSubject DEF Nameless
<1> HIDE DEF p
<1>6. proxy' \in ProxyType /\ proxy'.admin = proxy.admin /\ proxy'.stock = proxy.stock
      /\ proxy'.saved = proxy.saved /\ proxy'.live = proxy.live \ {p}
  BY <1>2, <1>3 DEF ProxyType
<1>7. AdminOK'
  BY <1>1, <1>3, <1>6, AdminSame
<1>8. ASSUME NEW t \in CallType(N_, S_), Follows(First, t), Dependent(t), t.name = First.name
      PROVE  t.call \notin KeySteps /\ ReadyAdmin(t)'
  <2>1. t.call = "restore" /\ call = "remove-forwarding"
    BY <1>1, <1>8 DEF Follows, FollowsInAdmin, FollowsInKeys, Dependent, AdminSteps, KeySteps, Forwards
  <2>2. t.block # "forward" /\ t.name \in S_
    BY <2>1 DEF CallType, ForwardCalls, SshCalls
  <2>3. SshPort \notin gateway'.ports
    BY <1>1, <1>4, <1>5, <1>8, <2>1, <2>2
  <2> QED BY <2>1, <2>2, <2>3 DEF ReadyAdmin, KeySteps
<1> QED BY <1>1, <1>3, <1>6, <1>7, <1>8, ProxyEffect

LEMMA ProxyCallsStep ==
  ASSUME IInv, ProxyCalls, UNCHANGED <<job, failed>>
  PROVE  IInv'
BY SaveActivityStep, StopAdminStep, StartPrivateStep, StartStockStep, ForgetActivityStep, RestoreStep,
   InstallStep, RemoveUnitsStep, CloseGatewayStep, OpenGatewayStep, StartGatewayStep DEF ProxyCalls

-----------------------------------------------------------------------------
(* Names, and the end of a command *)

LEMMA NamesType ==
  ASSUME IInv, op.todo # <<>>
  PROVE  \A call : /\ First.call = call => NamesAfter(call)[1] \subseteq Hostname
                   /\ First.call = call => NamesAfter(call)[2] \subseteq Hostname
<1>1. dns \subseteq Hostname /\ routes \subseteq Hostname
  BY DEF IInv, WorldOK
<1>2. First.call \notin Nameless => HostOf(First) \in Hostname
  BY FirstSubject
<1>3. ASSUME NEW call, First.call = call
      PROVE  NamesAfter(call)[1] \subseteq Hostname /\ NamesAfter(call)[2] \subseteq Hostname
  <2>1. CASE call \in {"publish-record", "delete-record", "publish-route", "delete-route"}
    <3>1. HostOf(First) \in Hostname
      BY <1>2, <1>3, <2>1 DEF Nameless
    <3> HIDE DEF Nameless
    <3> QED BY <1>1, <2>1, <3>1 DEF NamesAfter
  <2>2. CASE call \notin {"publish-record", "delete-record", "publish-route", "delete-route"}
    BY <1>1, <2>2 DEF NamesAfter
  <2> QED BY <2>1, <2>2
<1> QED BY <1>3

LEMMA NameCallsStep ==
  ASSUME IInv, NameCalls, UNCHANGED <<job, failed>>
  PROVE  IInv'
<1>1. PICK call \in {"publish-record", "delete-record", "publish-route", "delete-route"} :
        On(call) /\ dns' = NamesAfter(call)[1] /\ routes' = NamesAfter(call)[2]
  BY DEF NameCalls
<1>2. /\ op.todo # <<>> /\ First.call = call /\ Continue
      /\ UNCHANGED <<host, proxy, gateway, inventory, domain, session, served>>
  BY <1>1 DEF NameCalls, On, files
<1>3. dns' \subseteq Hostname /\ routes' \subseteq Hostname
  BY <1>1, <1>2, NamesType
<1>4. WorldOK'
  BY <1>2, <1>3 DEF IInv, WorldOK
<1>5. First.call \notin Effective
  BY <1>2 DEF Effective
<1> QED BY <1>2, <1>4, <1>5, ContinueStep DEF Keys

\* Nothing follows the call that ends a command.
LEMMA LastCall ==
  ASSUME IInv, op.todo # <<>>, First.call \in Ends, Continue, UNCHANGED <<job, failed>>,
         inventory' \in Services, Good(inventory')
  PROVE  CommandOK' /\ WorkerReports' /\ TodoOK' /\ ReadyOK' /\ op'.todo = <<>> /\ op'.key = op.key
<1>1. RestOK(CallType(N_, S_)) /\ op \in OpType
  BY FirstFacts DEF IInv, FirstOK, CommandOK
<1>2. Tail(op.todo) = <<>>
  BY <1>1 DEF RestOK
<1>3. op' = [op EXCEPT !.todo = <<>>]
  BY <1>2 DEF Continue
<1>4. <<>> \in Seq(CallRecord) /\ \A C : <<>> \in Seq(C)
  OBVIOUS
<1>5. /\ op'.todo = <<>> /\ op'.key = op.key /\ op'.plan = op.plan /\ op'.from = op.from
      /\ op' \in OpType
  BY <1>1, <1>3, <1>4 DEF OpType
<1>6. CommandOK'
  BY <1>5 DEF IInv, CommandOK, Good
<1>7. WorkerReports'
  BY <1>5 DEF IInv, WorkerReports
<1>8. TodoOK'
  BY <1>4, <1>5 DEF TodoOK, Ordered
<1>9. ReadyOK'
  BY <1>5 DEF ReadyOK
<1> QED BY <1>5, <1>6, <1>7, <1>8, <1>9

LEMMA SaveStep ==
  ASSUME IInv, Save, UNCHANGED <<job, failed>>
  PROVE  IInv'
<1>1. /\ op.todo # <<>> /\ First.call \in Ends /\ Continue /\ inventory' = op.plan /\ domain' = First.to
      /\ UNCHANGED <<host, proxy, gateway, dns, routes, session, served>>
  BY DEF Save, On, Ends, adapters
<1>2. op.plan \in Services /\ Good(op.plan) /\ First.to \in Domain
  BY <1>1, FirstFacts DEF IInv, CommandOK, OpType, Services, FirstOK
<1>3. CommandOK' /\ WorkerReports' /\ TodoOK' /\ ReadyOK' /\ op'.todo = <<>> /\ op'.key = op.key
  BY <1>1, <1>2, LastCall
<1>4. WorldOK'
  BY <1>1, <1>2 DEF IInv, WorldOK, Services
<1>5. AdminOK'
  BY <1>1, AdminSame DEF IInv
<1>6. KeysOK'
  BY <1>1, <1>3, KeysSame DEF IInv, Keys
<1> QED BY <1>3, <1>4, <1>5, <1>6 DEF IInv

LEMMA DeleteProjectStep ==
  ASSUME IInv, DeleteProject, UNCHANGED <<job, failed>>
  PROVE  IInv'
<1>1. /\ op.todo # <<>> /\ First.call \in Ends /\ Continue
      /\ inventory' = [n \in Name |-> Absent] /\ domain' = domain
      /\ proxy' = NoForwarding(proxy.stock) /\ gateway' = NoGateway /\ dns' = {} /\ routes' = {}
      /\ session' \in {session, "none"} /\ host' = host /\ served' = served
  BY DEF DeleteProject, On, Ends, Cut
<1>2. inventory' \in Services /\ Good(inventory')
  BY <1>1 DEF Services, Good
<1>3. CommandOK' /\ WorkerReports' /\ TodoOK' /\ ReadyOK' /\ op'.todo = <<>> /\ op'.key = op.key
  BY <1>1, <1>2, LastCall
<1>4. proxy.stock \in {"ssh", "stopped"}
  BY DEF IInv, WorldOK, ProxyType
<1>5. proxy' \in ProxyType /\ gateway' \in GatewayType
  <2>1. proxy' \in ProxyType
    BY <1>1, <1>4 DEF NoForwarding, ProxyType
  <2>2. gateway' \in GatewayType
    BY <1>1 DEF NoGateway, GatewayType
  <2> QED BY <2>1, <2>2
<1>6. WorldOK'
  BY <1>1, <1>2, <1>5 DEF IInv, WorldOK, Services
<1>7. AdminOK'
  BY <1>1, <1>4 DEF AdminOK, AdminRestorable, AdminNeverExposed, NoForwarding, NoGateway
<1>8. KeysOK'
  BY <1>1, <1>3, KeysSame DEF IInv, Keys
<1> QED BY <1>3, <1>6, <1>7, <1>8 DEF IInv

LEMMA RunStep ==
  ASSUME IInv, Run
  PROVE  IInv'
BY ChecksStep, ExpandStep, HostCallsStep, ProxyCallsStep, NameCallsStep, SaveStep, DeleteProjectStep
   DEF Run

-----------------------------------------------------------------------------
(* What else happens *)

Elsewhere == UNCHANGED <<adapters, files, served>>

LEMMA ElsewhereFacts ==
  ASSUME IInv, Elsewhere, session' \in {"none", "proxy", "direct"}
  PROVE  /\ WorldOK' /\ AdminOK' /\ UNCHANGED Keys
         /\ UNCHANGED <<inventory, domain, host, proxy, gateway, served>>
<1>1. UNCHANGED <<host, proxy, gateway, dns, routes, inventory, domain, served>>
  BY DEF Elsewhere, adapters, files
<1>2. WorldOK'
  BY <1>1 DEF IInv, WorldOK
<1>3. AdminOK'
  BY <1>1, AdminSame DEF IInv
<1> QED BY <1>1, <1>2, <1>3 DEF Keys

JobOK == job \in JobType /\ (job.state = "scheduled" => job.cmd \in Command)

LEMMA IdleStep ==
  ASSUME IInv, Elsewhere, session' = session, op' = NoOp, failed' \in Command \cup {NoCommand}, JobOK',
         ~(job'.state = "running" /\ job'.alive)
  PROVE  IInv'
<1>1. WorldOK' /\ AdminOK' /\ UNCHANGED Keys /\ UNCHANGED <<inventory, host>>
  <2>1. session' \in {"none", "proxy", "direct"}
    BY DEF IInv, WorldOK
  <2> QED BY <2>1, ElsewhereFacts
<1>2. /\ op'.todo = <<>> /\ op'.key = NoKey /\ op'.plan = [n \in Name |-> Absent]
      /\ op' \in OpType
  <2>1. <<>> \in Seq(CallRecord)
    OBVIOUS
  <2> QED BY <2>1 DEF NoOp, OpType, NoKey
<1>3. CommandOK'
  BY <1>1, <1>2 DEF IInv, CommandOK, Good, JobOK
<1>4. TodoOK' /\ ReadyOK' /\ WorkerReports'
  BY <1>2 DEF TodoOK, ReadyOK, WorkerReports, Ordered
<1>5. KeysOK'
  <2>1. host.issued \in Nat
    BY DEF IInv, WorldOK, HostType
  <2> QED BY <1>1, <1>2, <2>1 DEF IInv, KeysOK, Keys, Revoked, NoKey
<1> QED BY <1>1, <1>3, <1>4, <1>5 DEF IInv

LEMMA StartStep ==
  ASSUME IInv, Elsewhere, session' = session, NEW c \in Command, Possible(c),
         NEW from \in {"console", "session", "worker"}, Start(c, from), failed' = failed, JobOK',
         job'.state = "running" /\ job'.alive => from = "worker"
  PROVE  IInv'
<1> DEFINE P == PlanOf(c)
           L == CallsOf(c)
           N == Known(P)
           S == KnownSsh(P)
<1>1. WorldOK' /\ AdminOK' /\ UNCHANGED Keys /\ UNCHANGED <<inventory, host, served>>
  <2>1. session' \in {"none", "proxy", "direct"}
    BY DEF IInv, WorldOK
  <2> QED BY <2>1, ElsewhereFacts
<1>2. inventory \in Services /\ Good(inventory) /\ domain \in Domain
  BY DEF IInv, WorldOK, CommandOK, Services
<1>3. P \in Services /\ Good(P)
  BY <1>2, PlanType
<1>4. Beginning(c, L, N, S)
  BY <1>2, CommandCalls
<1>5. Known(P)' = N /\ KnownSsh(P)' = S
  BY <1>1 DEF Known, KnownSsh, Planned, PlanOf
<1>6. op' = [NoOp EXCEPT !.cmd = c, !.from = from, !.todo = L, !.plan = P]
  BY DEF Start
<1> HIDE DEF P, L, N, S
<1>7. L \in Seq(CallType(N, S)) /\ Ordered(L) /\ L # <<>>
      /\ (~Dependent(Head(L)) \/ (Head(L).call = "delete-project" /\ host.record = Nobody))
  BY <1>4 DEF Beginning
<1>8. L \in Seq(CallRecord)
  BY <1>7 DEF CallType
<1>9. /\ op'.todo = L /\ op'.key = NoKey /\ op'.plan = P /\ op'.from = from
      /\ op' \in OpType
  BY <1>3, <1>6, <1>8 DEF NoOp, OpType, NoKey, Services
<1>10. CommandOK'
  BY <1>1, <1>3, <1>9 DEF IInv, CommandOK, Good, JobOK
<1>11. WorkerReports'
  BY <1>9 DEF WorkerReports
<1>12. KeysOK'
  <2>1. host.issued \in Nat
    BY DEF IInv, WorldOK, HostType
  <2> QED BY <1>1, <1>9, <2>1 DEF IInv, KeysOK, Keys, Revoked, NoKey
<1>13. Known(op.plan)' = N /\ KnownSsh(op.plan)' = S
  BY <1>1, <1>9 DEF Known, KnownSsh, Planned, N, S
<1>14. TodoOK'
  BY <1>7, <1>9, <1>13 DEF TodoOK
<1>15. ReadyOK'
  <2>1. Head(L) \in CallType(N, S)
    BY <1>7
  <2>2. CASE ~Dependent(Head(L))
    BY <1>7, <1>9, <2>1, <2>2, QuietStart
  <2>3. CASE Head(L).call = "delete-project" /\ host.record = Nobody
    <3>1. First' = Head(L)
      BY <1>9 DEF First
    <3>2. Head(L).block # "forward"
      BY <2>1, <2>3 DEF CallType, ForwardCalls
    <3>3. host'.authorized = NoKey
      BY <1>1, <2>3 DEF IInv, KeysOK, Revoked
    <3> DEFINE t == Head(L)
    <3>4. ReadyAdmin(First)' /\ ReadyKeys(First)'
      BY <2>3, <3>1, <3>2, <3>3 DEF ReadyAdmin, ReadyKeys
    <3> QED BY <3>4 DEF ReadyOK
  <2> QED BY <1>7, <2>2, <2>3
<1> QED BY <1>1, <1>10, <1>11, <1>12, <1>14, <1>15 DEF IInv

\* A command goes on as it was.
LEMMA SameOp ==
  ASSUME IInv, Elsewhere, session' \in {"none", "proxy", "direct"}, UNCHANGED <<op, failed>>, JobOK',
         job'.state = "running" /\ job'.alive => job.state = "running" /\ job.alive
  PROVE  IInv'
<1>1. WorldOK' /\ AdminOK' /\ UNCHANGED Keys /\ UNCHANGED <<inventory, host, proxy, gateway, served>>
  BY ElsewhereFacts
<1>2. CommandOK'
  BY <1>1 DEF IInv, CommandOK, Good, JobOK
<1>3. TodoOK'
  BY <1>1 DEF IInv, TodoOK, Known, KnownSsh, Planned
<1>4. ReadyOK'
  BY <1>1 DEF IInv, ReadyOK, ReadyAdmin, ReadyKeys, PortOf, Subject, First, Known, KnownSsh, Planned,
     Revoked
<1>5. KeysOK'
  BY <1>1, KeysSame DEF IInv
<1>6. WorkerReports'
  BY DEF IInv, WorkerReports
<1> QED BY <1>1, <1>2, <1>3, <1>4, <1>5, <1>6 DEF IInv

\* The sessions could not be ended: the daemon is stopped, and the revocation fails then.
LEMMA TerminateFails ==
  ASSUME IInv, On("terminate"), op' = [op EXCEPT !.todo = Tail(@), !.late = TRUE], Quiet
  PROVE  IInv'
<1> DEFINE C == CallType(N_, S_)
           rest == Tail(op.todo)
<1>1. op.todo # <<>> /\ First.call = "terminate"
  BY DEF On
<1>2. RestOK(C) /\ op \in OpType /\ ReadyAdmin(First) /\ ReadyKeys(First)
  BY <1>1, FirstFacts DEF IInv, FirstOK, CommandOK, ReadyOK
<1>3. /\ rest \in Seq(C) /\ Ordered(rest)
      /\ (\E i \in DOMAIN rest : rest[i].call \in Starters)
           => \E i \in DOMAIN op.todo : op.todo[i].call \in Starters
  BY <1>2 DEF RestOK
<1>4. op.error \in BOOLEAN /\ op.fresh \in BOOLEAN /\ TRUE \in BOOLEAN /\ op.key \in Nat
  BY <1>2 DEF OpType
<1>5. Shape(rest, op.key, op.error, op.fresh, TRUE)
  BY <1>2 DEF Shape, OpType
<1>6. /\ WorldOK' /\ AdminOK' /\ UNCHANGED Keys /\ UNCHANGED <<inventory, job, failed>>
      /\ UNCHANGED <<host, proxy, gateway, served>>
  BY QuietFacts
<1> HIDE DEF rest
<1>7. /\ CommandOK' /\ WorkerReports' /\ TodoOK'
      /\ op'.todo = rest /\ op'.key = op.key /\ op'.fresh = op.fresh /\ op'.plan = op.plan
  BY <1>3, <1>4, <1>5, <1>6, Moves DEF IInv
<1>8. KeysOK'
  BY <1>3, <1>6, <1>7, KeysSame DEF IInv
<1>9. ReadyOK'
  <2>1. CASE rest = <<>>
    BY <1>7, <2>1 DEF ReadyOK
  <2>2. CASE rest # <<>>
    <3>1. PICK t \in C : t = Head(rest) /\ Follows(First, t)
      BY <1>2, <2>2 DEF RestOK, rest
    <3>2. UNCHANGED Grounds
      BY <1>6, <1>7 DEF Grounds
    <3>3. First.call \notin Effective
      BY <1>1 DEF Effective
    <3> QED BY <1>2, <1>6, <1>7, <2>2, <3>1, <3>2, <3>3, CarriedReady
  <2> QED BY <2>1, <2>2
<1> QED BY <1>6, <1>7, <1>8, <1>9 DEF IInv

LEMMA RemoveForwardingFailsFacts ==
  ASSUME IInv, On("remove-forwarding"), RemoveForwardingFails(PortOf(First)), gateway' = gateway
  PROVE  proxy' \in ProxyType /\ AdminOK'
<1>1. proxy \in ProxyType /\ proxy' = [proxy EXCEPT !.live = proxy.live \ {PortOf(First)}]
  BY DEF IInv, WorldOK, RemoveForwardingFails
<1>2. proxy' \in ProxyType /\ proxy'.admin = proxy.admin /\ proxy'.stock = proxy.stock
      /\ proxy'.saved = proxy.saved /\ proxy'.live = proxy.live \ {PortOf(First)}
  BY <1>1 DEF ProxyType
<1> QED BY <1>2, AdminSame DEF IInv

LEMMA FaultStep ==
  ASSUME IInv, Fault
  PROVE  IInv'
<1>1. op.todo # <<>> /\ UNCHANGED <<files, session, job, failed, served>>
  BY DEF Fault
<1>2. /\ proxy \in ProxyType /\ gateway \in GatewayType /\ host \in HostType
      /\ session' \in {session, "none"}
      /\ served' \in Nat
  BY <1>1 DEF IInv, WorldOK
<1>3. CASE On("terminate")
  <2>1. op' = [op EXCEPT !.todo = Tail(@), !.late = TRUE] /\ Quiet
    BY <1>1, <1>3 DEF Fault, Quiet
  <2> QED BY <1>3, <2>1, TerminateFails
<1>4. CASE Abort /\ UNCHANGED adapters
  BY <1>1, <1>4, QuietAbort DEF Quiet
<1>5. CASE Abort /\ On("stop-daemon") /\ StopDaemonFails /\ UNCHANGED <<proxy, gateway, dns, routes>>
  <2>1. PICK up \in {host.daemon, FALSE} : host' = [host EXCEPT !.daemon = up]
    BY <1>5 DEF StopDaemonFails
  <2>2. host' \in HostType /\ host'.record = host.record
        /\ UNCHANGED <<host.issued, host.pending, host.client, host.authorized>>
    BY <1>2, <2>1 DEF HostType
  <2>3. HostOnly /\ UNCHANGED Keys
    BY <1>1, <1>5, <2>2 DEF HostOnly, Keys
  <2>4. WorldOK' /\ AdminOK' /\ UNCHANGED <<inventory, job, failed, proxy, gateway>>
    BY <1>2, <2>2, <2>3, HostFacts
  <2> QED BY <1>1, <1>5, <2>2, <2>3, <2>4, AbortStep
<1>6. CASE /\ Abort /\ On("install") /\ InstallForwardingFails(PortOf(First), HostOf(First))
           /\ UNCHANGED <<host, gateway, dns, routes>>
  <2>1. proxy' \in ProxyType /\ AdminOK' /\ ProxyOnly
    BY <1>1, <1>6, InstallFails DEF ProxyOnly
  <2> QED BY <1>1, <1>2, <1>6, <2>1, ProxyAbort
<1>7. CASE /\ Abort /\ On("remove-forwarding") /\ RemoveForwardingFails(PortOf(First))
           /\ UNCHANGED <<host, gateway, dns, routes>>
  <2>1. proxy' \in ProxyType /\ AdminOK' /\ ProxyOnly
    BY <1>1, <1>7, RemoveForwardingFailsFacts DEF ProxyOnly
  <2> QED BY <1>1, <1>2, <1>7, <2>1, ProxyAbort
<1>8. CASE /\ Abort /\ On("open-gateway") /\ OpenGateway(PortOf(First), Subject(First).tailnet)
           /\ UNCHANGED <<host, proxy, dns, routes>>
  <2>1. gateway' \in GatewayType /\ AdminOK' /\ ProxyOnly
    BY <1>1, <1>8, OpenGatewayFacts DEF ProxyOnly
  <2>2. First.block # "relocation"
    <3>1. FirstOK /\ First.call = "open-gateway"
      BY <1>1, <1>8, FirstFacts DEF IInv, On
    <3> QED BY <3>1 DEF FirstOK, RestOK, CallType
  <2> QED BY <1>1, <1>2, <1>8, <2>1, <2>2, ProxyAbort
<1>9. CASE /\ Abort /\ dns' = NamesAfter(First.call)[1] /\ routes' = NamesAfter(First.call)[2]
           /\ UNCHANGED <<host, proxy, gateway>>
  <2>1. dns' \subseteq Hostname /\ routes' \subseteq Hostname
    BY <1>1, <1>9, NamesType
  <2>2. UNCHANGED <<inventory, domain, session, job, failed, served, host, proxy, gateway>>
    BY <1>1, <1>9 DEF files
  <2>3. WorldOK'
    BY <2>1, <2>2 DEF IInv, WorldOK
  <2>4. AdminOK'
    BY <2>2, AdminSame DEF IInv
  <2> QED BY <1>1, <1>9, <2>2, <2>3, <2>4, AbortStep DEF Keys
<1>10. On("terminate") \/ (Abort /\ Partial)
  BY DEF Fault
<1> QED BY <1>3, <1>4, <1>5, <1>6, <1>7, <1>8, <1>9, <1>10 DEF Partial

\* While no command runs, no worker does.
LEMMA IdleWorker ==
  ASSUME IInv, Idle
  PROVE  ~(job.state = "running" /\ job.alive)
BY DEF IInv, WorkerReports, Idle, NoOp

LEMMA JobKept == ASSUME IInv, job' = job PROVE JobOK'
BY DEF IInv, CommandOK, JobOK

LEMMA BeginStep ==
  ASSUME IInv, NEW c \in Command, Begin(c)
  PROVE  IInv'
<1>1. Elsewhere /\ session' = session /\ job' = job /\ failed' = failed /\ Possible(c) /\ Idle
  BY DEF Begin, Elsewhere
<1>2. PICK from \in {"console", "session", "worker"} : Start(c, from)
  BY DEF Begin
<1>3. ~(job'.state = "running" /\ job'.alive)
  BY <1>1, IdleWorker
<1> QED BY <1>1, <1>2, <1>3, StartStep, JobKept

LEMMA ScheduleStep ==
  ASSUME IInv, NEW c \in Command, Schedule(c)
  PROVE  IInv'
<1>1. /\ Elsewhere /\ session' = session /\ UNCHANGED <<op, failed>>
      /\ job' \in {[state |-> "scheduled", cmd |-> c, alive |-> TRUE],
                   [state |-> "failed", cmd |-> c, alive |-> FALSE]}
  BY DEF Schedule, Elsewhere
<1>2. JobOK' /\ ~(job'.state = "running")
  <2>1. CASE job' = [state |-> "scheduled", cmd |-> c, alive |-> TRUE]
    <3>1. job' \in JobType /\ job'.cmd = c /\ job'.state = "scheduled"
      BY <2>1 DEF JobType
    <3> QED BY <3>1 DEF JobOK
  <2>2. CASE job' = [state |-> "failed", cmd |-> c, alive |-> FALSE]
    <3>1. job' \in JobType /\ job'.state = "failed"
      BY <2>2 DEF JobType
    <3> QED BY <3>1 DEF JobOK
  <2> QED BY <1>1, <2>1, <2>2
<1>3. session' \in {"none", "proxy", "direct"}
  BY <1>1 DEF IInv, WorldOK
<1> QED BY <1>1, <1>2, <1>3, SameOp

LEMMA FinishedType ==
  ASSUME IInv, NEW ok
  PROVE  /\ Finished(job, ok) \in JobType
         /\ Finished(job, ok).state # "scheduled" /\ Finished(job, ok).state # "running"
<1>1. job \in JobType
  BY DEF IInv, CommandOK
<1> DEFINE w == IF ok THEN "succeeded" ELSE "failed"
<1>2. w \in {"succeeded", "failed"}
  OBVIOUS
<1>3. Finished(job, ok) = [job EXCEPT !.state = w, !.alive = FALSE]
  BY DEF Finished
<1> HIDE DEF w
<1> QED BY <1>1, <1>2, <1>3 DEF JobType

LEMMA WorkStep ==
  ASSUME IInv, Work
  PROVE  IInv'
<1>1. Elsewhere /\ session' = session /\ failed' = failed /\ job.state = "scheduled"
  BY DEF Work, Elsewhere
<1>2. job \in JobType /\ job.cmd \in Command
  BY <1>1 DEF IInv, CommandOK
<1>3. CASE Possible(job.cmd) /\ Start(job.cmd, "worker") /\ job' = [job EXCEPT !.state = "running"]
  <2>1. job' \in JobType /\ job'.state = "running"
    BY <1>2, <1>3 DEF JobType
  <2>2. JobOK'
    BY <2>1 DEF JobOK
  <2>3. PICK c \in Command : c = job.cmd
    BY <1>2
  <2>4. Possible(c) /\ Start(c, "worker")
    BY <1>3, <2>3
  <2> QED BY <1>1, <2>2, <2>4, StartStep
<1>4. CASE job' = Finished(job, FALSE) /\ UNCHANGED op
  <2>1. JobOK' /\ ~(job'.state = "running")
    BY <1>4, FinishedType DEF JobOK
  <2>2. session' \in {"none", "proxy", "direct"}
    BY <1>1 DEF IInv, WorldOK
  <2> QED BY <1>1, <1>4, <2>1, <2>2, SameOp
<1> QED BY <1>3, <1>4 DEF Work

LEMMA RepeatStep ==
  ASSUME IInv, Repeat
  PROVE  IInv'
<1>1. Elsewhere /\ session' = session /\ job' = job /\ failed' = failed /\ Possible(failed) /\ Idle
      /\ Start(failed, "console")
  BY DEF Repeat, Elsewhere
<1>2. PICK c \in Command : c = failed
  BY DEF Repeat, IInv, CommandOK
<1>3. ~(job'.state = "running" /\ job'.alive)
  BY <1>1, IdleWorker
<1>4. Possible(c) /\ Start(c, "console")
  BY <1>1, <1>2
<1> QED BY <1>1, <1>3, <1>4, StartStep, JobKept

LEMMA EndStep ==
  ASSUME IInv, End
  PROVE  IInv'
<1>1. /\ Elsewhere /\ session' = session /\ op' = NoOp /\ failed' \in {op.cmd, NoCommand}
      /\ job' = IF op.from = "worker" THEN Finished(job, ~op.error) ELSE job
  BY DEF End, Elsewhere
<1>2. failed' \in Command \cup {NoCommand}
  BY <1>1 DEF IInv, CommandOK, OpType
<1>3. JobOK' /\ ~(job'.state = "running" /\ job'.alive)
  <2>1. CASE op.from = "worker"
    BY <1>1, <2>1, FinishedType DEF JobOK
  <2>2. CASE op.from # "worker"
    BY <1>1, <2>2, JobKept DEF IInv, WorkerReports
  <2> QED BY <2>1, <2>2
<1> QED BY <1>1, <1>2, <1>3, IdleStep

LEMMA CrashStep ==
  ASSUME IInv, Crash
  PROVE  IInv'
<1>1. /\ Elsewhere /\ session' = session /\ op' = NoOp /\ failed' = op.cmd
      /\ job' = IF op.from = "worker" THEN [job EXCEPT !.alive = FALSE] ELSE job
  BY DEF Crash, Elsewhere
<1>2. failed' \in Command \cup {NoCommand}
  BY <1>1 DEF IInv, CommandOK, OpType
<1>3. JobOK' /\ ~(job'.state = "running" /\ job'.alive)
  <2>1. CASE op.from = "worker"
    <3>1. job \in JobType /\ (job.state = "scheduled" => job.cmd \in Command)
      BY DEF IInv, CommandOK
    <3> QED BY <1>1, <2>1, <3>1 DEF JobOK, JobType
  <2>2. CASE op.from # "worker"
    BY <1>1, <2>2, JobKept DEF IInv, WorkerReports
  <2> QED BY <2>1, <2>2
<1> QED BY <1>1, <1>2, <1>3, IdleStep

LEMMA SessionStep ==
  ASSUME IInv, Login \/ Logout
  PROVE  IInv'
<1>1. Elsewhere /\ UNCHANGED <<op, job, failed>> /\ session' \in {"none", "proxy", "direct"}
  BY DEF Login, Logout, Elsewhere
<1> QED BY <1>1, JobKept, SameOp

-----------------------------------------------------------------------------
(* The theorems *)

LEMMA InitInv == Init => IInv
<1> SUFFICES ASSUME Init PROVE IInv
  OBVIOUS
<1>1. /\ host = NoHostSsh /\ gateway = NoGateway
      /\ \E stock \in {"ssh", "stopped"} : proxy = NoForwarding(stock)
      /\ inventory = [n \in Name |-> Absent] /\ dns = {} /\ routes = {} /\ session = "none"
      /\ op = NoOp /\ job = NoJob /\ failed = NoCommand /\ served = NoKey
  BY DEF Init, HostInit, ForwardingInit
<1>2. domain \in Domain
  BY SomeDomain DEF Init
<1>3. host \in HostType
  BY <1>1 DEF NoHostSsh, HostType, NoKey
<1>4. proxy \in ProxyType
  BY <1>1 DEF NoForwarding, ProxyType
<1>5. gateway \in GatewayType
  BY <1>1 DEF NoGateway, GatewayType
<1>6. WorldOK
  BY <1>1, <1>2, <1>3, <1>4, <1>5 DEF WorldOK, NoKey
<1>7. /\ op.todo = <<>> /\ op.key = NoKey /\ op.plan = [n \in Name |-> Absent]
      /\ op \in OpType
  <2>1. <<>> \in Seq(CallRecord)
    OBVIOUS
  <2> QED BY <1>1, <2>1 DEF NoOp, OpType, NoKey
<1>8. CommandOK
  BY <1>1, <1>7 DEF CommandOK, Good, NoJob, JobType
<1>9. TodoOK /\ ReadyOK /\ WorkerReports
  BY <1>1, <1>7 DEF TodoOK, ReadyOK, WorkerReports, Ordered, NoJob
<1>10. AdminOK
  BY <1>1 DEF AdminOK, AdminRestorable, AdminNeverExposed, NoForwarding, NoGateway
<1>11. KeysOK
  BY <1>1, <1>7 DEF KeysOK, Revoked, NoHostSsh, NoKey
<1> QED BY <1>6, <1>8, <1>9, <1>10, <1>11 DEF IInv

LEMMA NextInv == IInv /\ [Next]_vars => IInv'
<1> SUFFICES ASSUME IInv, [Next]_vars PROVE IInv'
  OBVIOUS
<1>1. CASE UNCHANGED vars
  <2>1. Elsewhere /\ UNCHANGED <<op, job, failed, session>>
    BY <1>1 DEF vars, Elsewhere
  <2>2. session' \in {"none", "proxy", "direct"}
    BY <2>1 DEF IInv, WorldOK
  <2> QED BY <2>1, <2>2, JobKept, SameOp
<1> QED
  BY <1>1, BeginStep, ScheduleStep, WorkStep, RepeatStep, RunStep, EndStep, SessionStep, FaultStep,
     CrashStep
     DEF Next

\* What a command, its calls and the systems they change always agree on, whatever is published,
\* repeated, faulty or dies: no call is made whose ground the calls before it have not laid.
THEOREM InductiveExposures == Spec => []IInv
BY InitInv, NextInv, PTL DEF Spec

\* The programs and the files keep their types.
THEOREM TypeCorrectness == Spec => []TypeOK
<1>1. IInv => TypeOK
  <2> SUFFICES ASSUME IInv PROVE TypeOK
    OBVIOUS
  <2>1. op \in OpType /\ job \in JobType
    BY DEF IInv, CommandOK
  <2>2. op.from \in {"console", "session", "worker"}
    BY <2>1 DEF OpType
  <2>3. job.state \in {"none", "scheduled", "running", "succeeded", "failed"}
    BY <2>1 DEF JobType
  <2> QED BY <2>2, <2>3 DEF IInv, WorldOK, TypeOK
<1> QED BY <1>1, InductiveExposures, PTL

\* After any failure and crash of cli.js or proxy-ssh-adapter.js, what brings the proxy's own
\* sshd back is on disk, or nothing has been moved.
THEOREM AdminIsRestorable == Spec => []AdminRestorable
<1>1. IInv => AdminRestorable
  BY DEF IInv, AdminOK
<1> QED BY <1>1, InductiveExposures, PTL

\* The VPN gateway never forwards port 22 to the administration of the proxy, on any path of
\* publication, roll-back, removal or uninstallation.
THEOREM AdminIsNeverExposed == Spec => []AdminNeverExposed
<1>1. IInv => AdminNeverExposed
  BY DEF IInv, AdminOK
<1> QED BY <1>1, InductiveExposures, PTL

\* A detached operation that runs and whose worker lives belongs to the command in progress.
THEOREM WorkersReport == Spec => []WorkerReports
<1>1. IInv => WorkerReports
  BY DEF IInv
<1> QED BY <1>1, InductiveExposures, PTL

-----------------------------------------------------------------------------
(* Keys never return *)

\* authorized_keys stays, is emptied, or gets a key that is newer than all before.
NewKey == host'.authorized \in {host.authorized, NoKey} \/ host'.authorized > served

LEMMA HostCallsNewKey ==
  ASSUME IInv, HostCalls
  PROVE  NewKey
<1>1. host \in HostType
  BY DEF IInv, WorldOK
<1>2. CASE OnHost("make-directory", MakeDirectory)
  BY <1>1, <1>2 DEF OnHost, MakeDirectory, NewKey, HostType
<1>3. CASE OnHost("write-record", WriteRecord(Subject(First).account))
  BY <1>1, <1>3 DEF OnHost, WriteRecord, NewKey, HostType
<1>4. CASE OnHost("write-config", WriteConfig(Subject(First).account))
  BY <1>1, <1>4 DEF OnHost, WriteConfig, NewKey, HostType
<1>5. CASE OnHost("write-unit", WriteUnit)
  BY <1>1, <1>5 DEF OnHost, WriteUnit, NewKey, HostType
<1>6. CASE OnHost("install-key", InstallKey(op.key))
  <2>1. InstallKey(op.key)
    BY <1>6 DEF OnHost
  <2>2. CASE op.key = NoKey
    BY <1>1, <2>1, <2>2 DEF InstallKey, NewKey, HostType
  <2>3. CASE op.key # NoKey
    BY <1>1, <2>1, <2>3 DEF InstallKey, NewKey, HostType
  <2> QED BY <2>2, <2>3
<1>7. CASE OnHost("start-daemon", StartDaemon)
  BY <1>1, <1>7 DEF OnHost, StartDaemon, NewKey, HostType
<1>8. CASE OnHost("enable-record", EnableRecord)
  BY <1>1, <1>8 DEF OnHost, EnableRecord, NewKey, HostType
<1>9. CASE OnHost("disable-record", DisableRecord)
  BY <1>1, <1>9 DEF OnHost, DisableRecord, NewKey, HostType
<1>10. CASE OnHost("remove-unit", RemoveUnit)
  BY <1>1, <1>10 DEF OnHost, RemoveUnit, NewKey, HostType
<1>11. CASE OnHost("remove-record", RemoveRecord)
  BY <1>1, <1>11 DEF OnHost, RemoveRecord, NewKey, HostType
<1>12. CASE OnHost("remove-files", RemoveFiles)
  BY <1>1, <1>12 DEF OnHost, RemoveFiles, NewKey, HostType
<1>13. CASE PrepareReplacement
  BY <1>1, <1>13 DEF PrepareReplacement, PrepareKey, NewKey, HostType
<1>14. CASE AuthorizeKey
  <2>1. op.todo # <<>> /\ First.call = "authorize" /\ Authorize
    BY <1>14 DEF AuthorizeKey, On
  <2>2. host.client > served
    BY <2>1 DEF IInv, ReadyOK, ReadyKeys
  <2>3. host'.authorized = host.client
    BY <1>1, <2>1 DEF Authorize, HostType
  <2> QED BY <2>2, <2>3 DEF NewKey
<1>15. CASE RevokeAccess
  BY <1>1, <1>15 DEF RevokeAccess, RevokeKeys, NewKey, HostType
<1>16. CASE Terminate
  BY <1>16 DEF Terminate, adapters, NewKey
<1>17. CASE StopHost
  BY <1>1, <1>17 DEF StopHost, StopDaemon, NewKey, HostType
<1>18. CASE VerifyHost
  BY <1>18 DEF VerifyHost, Stay, adapters, NewKey
<1> QED
  BY <1>2, <1>3, <1>4, <1>5, <1>6, <1>7, <1>8, <1>9, <1>10, <1>11, <1>12, <1>13, <1>14, <1>15, <1>16,
     <1>17, <1>18 DEF HostCalls

\* No other program changes the keys.
LEMMA OthersKeepHost ==
  /\ Checks \/ Expand \/ ProxyCalls \/ NameCalls \/ Save \/ DeleteProject => host' = host
  /\ End \/ Work \/ Repeat \/ Login \/ Logout \/ Crash => host' = host
  /\ \A c : Begin(c) \/ Schedule(c) => host' = host
<1>1. Checks => host' = host
  BY DEF Checks, CheckSlot, CheckForwarding, CheckDns, CheckWeb, CheckHost, CheckOwned, Inspect, Stay,
     adapters
<1>2. Expand => host' = host
  BY DEF Expand, EnableHost, ActivateKey, ReplaceKey, Relocate, Unforward, adapters
<1>3. ProxyCalls => host' = host
  BY DEF ProxyCalls, OnProxy, OnGateway, StartPrivateAdmin, Restore, Install, RemoveUnits, adapters
<1>4. NameCalls \/ Save \/ DeleteProject => host' = host
  BY DEF NameCalls, Save, DeleteProject, adapters
<1>5. End \/ Work \/ Repeat \/ Login \/ Logout \/ Crash => host' = host
  BY DEF End, Work, Repeat, Login, Logout, Crash, adapters
<1>6. \A c : Begin(c) \/ Schedule(c) => host' = host
  BY DEF Begin, Schedule, adapters
<1> QED BY <1>1, <1>2, <1>3, <1>4, <1>5, <1>6

LEMMA FaultsKeepKeys ==
  ASSUME IInv, Fault
  PROVE  host'.authorized = host.authorized
<1>1. host \in HostType
  BY DEF IInv, WorldOK
<1>2. CASE UNCHANGED adapters
  BY <1>2 DEF adapters
<1>3. CASE StopDaemonFails
  BY <1>1, <1>3 DEF StopDaemonFails, HostType
<1>4. CASE host' = host
  BY <1>4
<1> QED BY <1>2, <1>3, <1>4 DEF Fault, Partial

LEMMA NextNewKey ==
  ASSUME IInv, [Next]_vars
  PROVE  NewKey
<1>1. CASE UNCHANGED vars
  BY <1>1 DEF vars, adapters, NewKey
<1>2. CASE Fault
  BY <1>2, FaultsKeepKeys DEF NewKey
<1>3. CASE Run
  BY <1>3, HostCallsNewKey, OthersKeepHost DEF Run, NewKey
<1>4. CASE End \/ Work \/ Repeat \/ Login \/ Logout \/ Crash
  BY <1>4, OthersKeepHost DEF NewKey
<1>5. CASE \E c \in Command : Begin(c) \/ Schedule(c)
  BY <1>5, OthersKeepHost DEF NewKey
<1> QED BY <1>1, <1>2, <1>3, <1>4, <1>5 DEF Next

\* A key that was replaced, discarded or revoked never opens the host again: what
\* host-ssh-adapter.js writes to authorized_keys is newer than all it ever wrote.
THEOREM OldKeysNeverReturn == Spec => KeysNeverReturn
<1>1. IInv /\ [Next]_vars
        => [host'.authorized # host.authorized /\ host'.authorized # NoKey
              => host'.authorized > served]_vars
  BY NextNewKey DEF NewKey
<1> QED BY <1>1, InductiveExposures, PTL DEF Spec, KeysNeverReturn
=============================================================================
