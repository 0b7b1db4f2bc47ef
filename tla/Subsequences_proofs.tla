------------------------- MODULE Subsequences_proofs -------------------------
(***************************************************************************)
(* Induction over numbers and over sequences, and what Among computes.     *)
(*                                                                         *)
(* The induction theorems of the library take the induction hypothesis as  *)
(* an operator, which the provers at hand cannot instantiate.  Here it is  *)
(* a set, the set of the numbers or sequences for which it holds, and the  *)
(* principle follows from the well-foundedness of < on the naturals.       *)
(***************************************************************************)
EXTENDS Subsequences, Integers, SequenceTheorems, WellFoundedInduction, TLAPS

----------------------------------------------------------------------------
(* Induction *)

(* A set of numbers has a least one. *)
LEMMA LeastNumber ==
  ASSUME NEW S, S \subseteq Nat, S # {}
  PROVE  \E x \in S : \A y \in S : x <= y
<1>1. PICK x \in S : \A y \in S : ~ (<<y, x>> \in OpToRel(<, Nat))
  BY NatLessThanWellFounded, WFMin
<1>2. ASSUME NEW y \in S PROVE x <= y
  <2>1. x \in Nat /\ y \in Nat /\ ~ (<<y, x>> \in OpToRel(<, Nat))
    BY <1>1
  <2>2. ~ (y < x)
    BY <2>1 DEF OpToRel
  <2>3. \A a, b \in Nat : ~ (a < b) => b <= a
    OBVIOUS
  <2> QED
    BY <2>1, <2>2, <2>3
<1> QED
  BY <1>2

(* A set with zero and the successor of each of its numbers has them all:  *)
(* the least number outside would be the successor of one inside.          *)
LEMMA SetInduction ==
  ASSUME NEW T, 0 \in T, \A n \in Nat : n \in T => n + 1 \in T
  PROVE  Nat \subseteq T
<1> DEFINE R == OpToRel(<, Nat)
           B == Nat \ T
<1>1. SUFFICES ASSUME B # {} PROVE FALSE
  OBVIOUS
<1>2. IsWellFoundedOn(R, Nat)
  BY NatLessThanWellFounded
<1>3. PICK x \in B : \A y \in B : ~ (<<y, x>> \in R)
  <2>1. B \subseteq Nat
    OBVIOUS
  <2> HIDE DEF R, B
  <2> QED
    BY <1>1, <1>2, <2>1, WFMin
<1>4. x \in Nat /\ x # 0 /\ x - 1 \in Nat /\ x - 1 < x
  OBVIOUS
<1>5. x - 1 \in B
  BY <1>4
<1>6. <<x - 1, x>> \in R
  BY <1>4 DEF OpToRel
<1> QED
  BY <1>3, <1>5, <1>6

(* A set with the empty sequence and every extension of each of its        *)
(* sequences has them all.                                                 *)
LEMMA SequenceInduction ==
  ASSUME NEW V, NEW P, <<>> \in P,
         \A s \in Seq(V), e \in V : s \in P => Append(s, e) \in P
  PROVE  Seq(V) \subseteq P
<1> DEFINE T == {n \in Nat : \A s \in Seq(V) : Len(s) = n => s \in P}
<1>1. 0 \in T
  BY EmptySeq
<1>2. ASSUME NEW n \in Nat, n \in T PROVE n + 1 \in T
  <2>1. SUFFICES ASSUME NEW s \in Seq(V), Len(s) = n + 1 PROVE s \in P
    OBVIOUS
  <2>2. PICK f \in Seq(V), e \in V : s = Append(f, e)
    BY <2>1, EmptySeq, SequenceEmptyOrAppend
  <2>3. Len(f) = n
    BY <2>1, <2>2, AppendProperties, LenProperties
  <2> QED
    BY <1>2, <2>2, <2>3
<1>3. Nat \subseteq T
  <2> HIDE DEF T
  <2> QED
    BY <1>1, <1>2, SetInduction
<1> QED
  BY <1>3, LenProperties

----------------------------------------------------------------------------
(* The recursion of Among *)

Grown(a, x, S) == IF x \in S THEN Append(a, x) ELSE a
IsAmong(f, t, S, k) == f = [n \in 0..k |-> IF n = 0 THEN <<>> ELSE Grown(f[n - 1], t[n], S)]
AmongUpTo(t, S, k) == CHOOSE f : IsAmong(f, t, S, k)

(* A function that satisfies its recursive definition exists.              *)
LEMMA AmongExists ==
  ASSUME NEW t, NEW S
  PROVE  \A k \in Nat : \E f : IsAmong(f, t, S, k)
<1> DEFINE T == {k \in Nat : \E f : IsAmong(f, t, S, k)}
<1>1. 0 \in T
  <2> DEFINE f == [n \in 0..0 |-> <<>>]
  <2>1. f = [n \in 0..0 |-> IF n = 0 THEN <<>> ELSE Grown(f[n - 1], t[n], S)]
    OBVIOUS
  <2> QED
    BY <2>1 DEF IsAmong
<1>2. ASSUME NEW k \in Nat, k \in T PROVE k + 1 \in T
  <2>1. PICK f : IsAmong(f, t, S, k)
    BY <1>2
  <2> DEFINE g == [n \in 0..k + 1 |-> IF n = k + 1 THEN Grown(f[k], t[k + 1], S) ELSE f[n]]
  <2>2. f = [n \in 0..k |-> IF n = 0 THEN <<>> ELSE Grown(f[n - 1], t[n], S)]
    BY <2>1 DEF IsAmong
  <2>3. ASSUME NEW n \in 0..k + 1
        PROVE  g[n] = IF n = 0 THEN <<>> ELSE Grown(g[n - 1], t[n], S)
    <3>1. CASE n = k + 1
      <4>1. n # 0 /\ n - 1 = k /\ k \in 0..k + 1 /\ k # k + 1
        BY <3>1
      <4>2. g[n - 1] = f[k] /\ g[n] = Grown(f[k], t[k + 1], S)
        BY <3>1, <4>1
      <4> QED
        BY <3>1, <4>1, <4>2
    <3>2. CASE n # k + 1
      <4>1. n \in 0..k /\ g[n] = f[n]
        BY <3>2
      <4>2. f[n] = IF n = 0 THEN <<>> ELSE Grown(f[n - 1], t[n], S)
        <5> HIDE DEF g
        <5> QED
          BY <2>2, <4>1
      <4>3. n # 0 => n - 1 \in 0..k + 1 /\ n - 1 # k + 1
        BY <4>1
      <4>4. n # 0 => g[n - 1] = f[n - 1]
        BY <4>3
      <4> QED
        BY <4>1, <4>2, <4>4
    <3> QED
      BY <3>1, <3>2
  <2>4. g = [n \in 0..k + 1 |-> g[n]]
    OBVIOUS
  <2> HIDE DEF g
  <2>5. IsAmong(g, t, S, k + 1)
    BY <2>3, <2>4 DEF IsAmong
  <2> QED
    BY <2>5
<1>3. Nat \subseteq T
  <2> HIDE DEF T
  <2> QED
    BY <1>1, <1>2, SetInduction
<1> QED
  BY <1>3

(* So the recursion computes what its equation says.                       *)
LEMMA AmongRecursion ==
  ASSUME NEW t, NEW S, NEW k \in Nat
  PROVE  /\ AmongUpTo(t, S, k)[0] = <<>>
         /\ \A n \in 1..k :
              AmongUpTo(t, S, k)[n] = Grown(AmongUpTo(t, S, k)[n - 1], t[n], S)
<1> DEFINE f == AmongUpTo(t, S, k)
<1>1. IsAmong(f, t, S, k)
  BY AmongExists DEF AmongUpTo
<1> HIDE DEF f
<1>2. f = [n \in 0..k |-> IF n = 0 THEN <<>> ELSE Grown(f[n - 1], t[n], S)]
  BY <1>1 DEF IsAmong
<1>3. \A n \in 0..k : f[n] = IF n = 0 THEN <<>> ELSE Grown(f[n - 1], t[n], S)
  BY <1>2
<1>4. f[0] = <<>> /\ \A n \in 1..k : f[n] = Grown(f[n - 1], t[n], S)
  BY <1>3
<1> QED
  BY <1>4 DEF f

(* Among is the last value of the recursion.                               *)
LEMMA AmongIsLast ==
  ASSUME NEW t, NEW S, Len(t) \in Nat
  PROVE  Among(t, S) = AmongUpTo(t, S, Len(t))[Len(t)]
BY DEF Among, AmongUpTo, IsAmong, Grown

(* It looks at no element before its turn.                                 *)
LEMMA AmongAgrees ==
  ASSUME NEW t, NEW u, NEW S, NEW j \in Nat, NEW k \in Nat, j <= k,
         \A i \in 1..j : t[i] = u[i]
  PROVE  AmongUpTo(t, S, j)[j] = AmongUpTo(u, S, k)[j]
<1> DEFINE f == AmongUpTo(t, S, j)
           g == AmongUpTo(u, S, k)
           T == {n \in Nat : n <= j => f[n] = g[n]}
<1>1. /\ f[0] = <<>> /\ \A n \in 1..j : f[n] = Grown(f[n - 1], t[n], S)
      /\ g[0] = <<>> /\ \A n \in 1..k : g[n] = Grown(g[n - 1], u[n], S)
  BY AmongRecursion
<1> HIDE DEF f, g
<1>2. 0 \in T
  BY <1>1
<1>3. ASSUME NEW n \in Nat, n \in T PROVE n + 1 \in T
  <2>1. SUFFICES ASSUME n + 1 <= j PROVE f[n + 1] = g[n + 1]
    OBVIOUS
  <2>2. n + 1 \in 1..j /\ n + 1 \in 1..k /\ (n + 1) - 1 = n /\ n <= j
    BY <2>1
  <2>3. f[n] = g[n] /\ t[n + 1] = u[n + 1]
    BY <1>3, <2>2
  <2> QED
    BY <1>1, <2>2, <2>3
<1>4. Nat \subseteq T
  <2> HIDE DEF T
  <2> QED
    BY <1>2, <1>3, SetInduction
<1> QED
  BY <1>4 DEF f, g

----------------------------------------------------------------------------
(* What Among computes *)

(* Of nothing it is nothing.                                               *)
LEMMA AmongEmpty == ASSUME NEW S PROVE Among(<<>>, S) = <<>>
BY AmongIsLast, AmongRecursion, EmptySeq

(* One more element adds itself, if it belongs to the set.                 *)
LEMMA AmongAppend ==
  ASSUME NEW V, NEW t \in Seq(V), NEW e \in V, NEW S
  PROVE  Among(Append(t, e), S) = IF e \in S THEN Append(Among(t, S), e) ELSE Among(t, S)
<1> DEFINE u == Append(t, e)
           k == Len(t)
<1>1. /\ k \in Nat /\ Len(u) = k + 1
      /\ \A i \in 1..k : t[i] = u[i]
      /\ u[k + 1] = e
  BY AppendProperties, LenProperties
<1> HIDE DEF u, k
<1>2. Among(t, S) = AmongUpTo(t, S, k)[k]
  BY <1>1, AmongIsLast DEF k
<1>3. Among(u, S) = AmongUpTo(u, S, k + 1)[k + 1]
  BY <1>1, AmongIsLast
<1>4. k + 1 \in Nat /\ k + 1 \in 1..k + 1 /\ k <= k + 1 /\ (k + 1) - 1 = k
  BY <1>1
<1>5. AmongUpTo(u, S, k + 1)[k + 1] = Grown(AmongUpTo(u, S, k + 1)[k], e, S)
  BY <1>1, <1>4, AmongRecursion
<1>6. AmongUpTo(u, S, k + 1)[k] = AmongUpTo(t, S, k)[k]
  BY <1>1, <1>4, AmongAgrees
<1>7. Among(u, S) = IF e \in S THEN Append(Among(t, S), e) ELSE Among(t, S)
  BY <1>2, <1>3, <1>5, <1>6 DEF Grown
<1> QED
  BY <1>7 DEF u

(* It is a sequence of elements that belong to the set.                    *)
LEMMA AmongType ==
  ASSUME NEW V, NEW t \in Seq(V), NEW S
  PROVE  Among(t, S) \in Seq(V \cap S)
<1> DEFINE P == {s \in Seq(V) : Among(s, S) \in Seq(V \cap S)}
<1>1. <<>> \in P
  BY AmongEmpty, EmptySeq
<1>2. ASSUME NEW s \in Seq(V), NEW e \in V, s \in P PROVE Append(s, e) \in P
  <2>1. Append(s, e) \in Seq(V)
    BY AppendProperties
  <2>2. Among(s, S) \in Seq(V \cap S)
    BY <1>2
  <2>3. Among(Append(s, e), S) = IF e \in S THEN Append(Among(s, S), e) ELSE Among(s, S)
    <3> HIDE DEF P
    <3> QED
      BY AmongAppend
  <2>4. e \in S => Append(Among(s, S), e) \in Seq(V \cap S)
    BY <2>2, AppendProperties
  <2> QED
    BY <2>1, <2>2, <2>3, <2>4
<1>3. Seq(V) \subseteq P
  <2> HIDE DEF P
  <2> QED
    BY <1>1, <1>2, SequenceInduction
<1> QED
  BY <1>3

(* More elements of the sequence are more of the result, but not more than *)
(* they are themselves.                                                    *)
LEMMA AmongLength ==
  ASSUME NEW V, NEW t \in Seq(V), NEW u \in Seq(V), NEW S
  PROVE  /\ Len(Among(t, S)) <= Len(Among(t \o u, S))
         /\ Len(Among(t \o u, S)) <= Len(Among(t, S)) + Len(u)
<1> DEFINE P == {s \in Seq(V) : /\ Len(Among(t, S)) <= Len(Among(t \o s, S))
                                /\ Len(Among(t \o s, S)) <= Len(Among(t, S)) + Len(s)}
<1>0. ASSUME NEW s \in Seq(V)
      PROVE  Len(Among(s, S)) \in Nat
  <2>1. Among(s, S) \in Seq(V \cap S)
    BY AmongType
  <2> QED
    BY <2>1, LenProperties
<1>1. <<>> \in P
  BY <1>0, EmptySeq, ConcatEmptySeq
<1>2. ASSUME NEW s \in Seq(V), NEW e \in V, s \in P PROVE Append(s, e) \in P
  <2>1. /\ Append(s, e) \in Seq(V) /\ Len(Append(s, e)) = Len(s) + 1
        /\ t \o s \in Seq(V) /\ Len(s) \in Nat
    BY AppendProperties, ConcatProperties, LenProperties
  <2>2. t \o Append(s, e) = Append(t \o s, e)
    <3>1. <<e>> \in Seq(V)
      OBVIOUS
    <3> QED
      BY <2>1, <3>1, AppendIsConcat, ConcatAssociative
  <2>3. Len(Among(Append(t \o s, e), S)) \in {Len(Among(t \o s, S)), Len(Among(t \o s, S)) + 1}
    <3>1. Among(t \o s, S) \in Seq(V \cap S)
      BY <2>1, AmongType
    <3>2. CASE e \in S
      <4>1. Among(Append(t \o s, e), S) = Append(Among(t \o s, S), e)
        <5> DEFINE w == t \o s
        <5>1. w \in Seq(V)
          BY <2>1
        <5> HIDE DEF w, P
        <5>2. Among(Append(w, e), S) = Append(Among(w, S), e)
          BY <3>2, <5>1, AmongAppend
        <5> QED
          BY <5>2 DEF w
      <4> QED
        BY <3>1, <3>2, <4>1, AppendProperties
    <3>3. CASE e \notin S
      BY <2>1, <3>3, AmongAppend
    <3> QED
      BY <3>2, <3>3
  <2>4. Len(Among(t \o s, S)) \in Nat /\ Len(Among(t, S)) \in Nat
    BY <1>0, <2>1
  <2>5. /\ Len(Among(t, S)) <= Len(Among(t \o s, S))
        /\ Len(Among(t \o s, S)) <= Len(Among(t, S)) + Len(s)
    BY <1>2
  <2>6. /\ Len(Among(t, S)) <= Len(Among(Append(t \o s, e), S))
        /\ Len(Among(Append(t \o s, e), S)) <= Len(Among(t, S)) + (Len(s) + 1)
    BY <2>1, <2>3, <2>4, <2>5
  <2> QED
    BY <2>1, <2>2, <2>6
<1>3. Seq(V) \subseteq P
  <2> HIDE DEF P
  <2> QED
    BY <1>1, <1>2, SequenceInduction
<1> QED
  BY <1>3

=============================================================================
