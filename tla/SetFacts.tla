------------------------------ MODULE SetFacts ------------------------------
(***************************************************************************)
(* Facts about sets and sequences that the proofs of several components    *)
(* use: the greatest element of a finite set, the sequence that SetToSeq   *)
(* chooses, and induction over naturals and sequences.                     *)
(*                                                                         *)
(* Induction is stated about a set, never about a predicate: a set that    *)
(* holds the first element and each next one holds all of them.  Over      *)
(* finite sets it uses the library's theorem that strict inclusion is well *)
(* founded on them: a smallest counterexample is taken and made smaller.   *)
(***************************************************************************)
EXTENDS Integers, FiniteSets, SequencesExt, FiniteSetTheorems,
        SequenceTheorems, TLAPS

\* A finite set of naturals has a greatest element.
LEMMA GreatestExists ==
    ASSUME NEW S \in SUBSET Nat, IsFiniteSet(S), S # {}
    PROVE  \E x \in S : \A y \in S : x >= y
<1> DEFINE Bad == {T \in SUBSET S : T # {} /\ ~ \E x \in T : \A y \in T : x >= y}
<1> SUFFICES ASSUME Bad # {} PROVE FALSE
  OBVIOUS
<1>1. Bad \subseteq FiniteSubsetsOf(S)
  BY FS_FiniteSubsetsOfFinite
<1>2. PICK T \in Bad : \A U \in Bad : ~ (<<U, T>> \in StrictSubsetOrdering(S))
  <2> HIDE DEF Bad
  <2> QED BY <1>1, FS_StrictSubsetOrderingWellFounded, WFMin, Zenon
<1>3. PICK x \in T : TRUE
  OBVIOUS
<1>4. <<T \ {x}, T>> \in StrictSubsetOrdering(S)
  BY <1>3 DEF StrictSubsetOrdering
<1>5. T \ {x} \notin Bad
  BY <1>2, <1>4
<1>6. CASE T \ {x} = {}
  BY <1>6, <1>3
<1>7. CASE T \ {x} # {}
  BY <1>7, <1>3, <1>5
<1> QED BY <1>6, <1>7

\* SetToSeq of a finite set lists its elements, each at one place.
LEMMA SetToSeqLists ==
    ASSUME NEW S, IsFiniteSet(S)
    PROVE  /\ Cardinality(S) \in Nat
           /\ SetToSeq(S) \in [1..Cardinality(S) -> S]
           /\ \A x \in S : \E i \in 1..Cardinality(S) : SetToSeq(S)[i] = x
<1> DEFINE n == Cardinality(S)
           s == SetToSeq(S)
<1>1. n \in Nat /\ ExistsBijection(1..n, S)
  BY FS_CardinalityType
<1>2. PICK f \in Bijection(1..n, S) : TRUE
  BY <1>1 DEF ExistsBijection
<1>3. f \in [1..n -> S] /\ IsInjective(f)
  BY <1>2 DEF Bijection, Injection, IsInjective
<1>4. s \in [1..n -> S] /\ IsInjective(s)
  BY <1>3 DEF SetToSeq
<1>5. s \in Injection(1..n, S)
  BY <1>4 DEF Injection, IsInjective
<1>6. Cardinality(1..n) = n
  BY <1>1, FS_Interval
<1>7. s \in Surjection(1..n, S)
  BY <1>5, <1>6, FS_Injection
<1> QED BY <1>1, <1>4, <1>7 DEF Surjection

-----------------------------------------------------------------------------
(* Induction, with the set of the good instances in place of a predicate.  *)

\* A set of naturals that holds 0 and, with each number, the next, holds all.
LEMMA NatSetInduction ==
    ASSUME NEW S, 0 \in S, \A n \in Nat : n \in S => n + 1 \in S
    PROVE  \A n \in Nat : n \in S
<1> SUFFICES ASSUME NEW m \in Nat, m \notin S PROVE FALSE
  OBVIOUS
<1> DEFINE K == {k \in 0..m : k \in S}
<1>1. IsFiniteSet(K) /\ K \in SUBSET Nat /\ K # {}
  <2>1. IsFiniteSet(0..m)
    BY FS_Interval
  <2> QED BY <2>1, FS_Subset
<1>2. PICK g \in K : \A y \in K : g >= y
  <2> HIDE DEF K
  <2> QED BY <1>1, GreatestExists
<1>3. g + 1 \in K
  BY <1>2
<1> QED BY <1>2, <1>3

\* A sequence that is not empty is a sequence with an element appended.
LEMMA SeqFrontLast ==
    ASSUME NEW A, NEW s \in Seq(A), s # <<>>
    PROVE  \E f \in Seq(A), a \in A : s = Append(f, a) /\ Len(s) = Len(f) + 1
<1>1. Len(s) \in Nat /\ Len(s) # 0
  BY EmptySeq
<1>2. PICK n \in Nat : Len(s) = n + 1
  <2>1. Len(s) - 1 \in Nat /\ Len(s) = (Len(s) - 1) + 1
    BY <1>1
  <2> QED BY <2>1
<1> DEFINE f == SubSeq(s, 1, n)
<1>3. f \in Seq(A) /\ Len(f) = n /\ \A i \in 1..n : f[i] = s[i]
  BY <1>2
<1>4. s[n + 1] \in A
  BY <1>2
<1>5. Append(f, s[n + 1]) \in Seq(A) /\ Len(Append(f, s[n + 1])) = n + 1
  BY <1>3, <1>4
<1>6. \A i \in 1..(n + 1) : Append(f, s[n + 1])[i] = s[i]
  BY <1>3, <1>4
<1>7. Append(f, s[n + 1]) = s
  BY <1>2, <1>5, <1>6, SeqEqual
<1> HIDE DEF f
<1> QED BY <1>2, <1>3, <1>4, <1>7

\* A set of sequences that holds the empty one and, with each sequence, its
\* extension by any element, holds all.
LEMMA SeqSetInduction ==
    ASSUME NEW A, NEW T, <<>> \in T,
           \A s \in Seq(A), a \in A : s \in T => Append(s, a) \in T
    PROVE  \A s \in Seq(A) : s \in T
<1> DEFINE S == {n \in Nat : \A s \in Seq(A) : Len(s) = n => s \in T}
<1>1. 0 \in S
  <2>1. \A s \in Seq(A) : Len(s) = 0 => s = <<>>
    BY EmptySeq
  <2> QED BY <2>1
<1>2. ASSUME NEW n \in Nat, n \in S
      PROVE  n + 1 \in S
  <2> SUFFICES ASSUME NEW s \in Seq(A), Len(s) = n + 1 PROVE s \in T
    OBVIOUS
  <2>1. s # <<>>
    OBVIOUS
  <2>2. PICK f \in Seq(A), a \in A : s = Append(f, a) /\ Len(s) = Len(f) + 1
    BY <2>1, SeqFrontLast
  <2>3. Len(f) = n
    <3>1. Len(f) \in Nat
      OBVIOUS
    <3> QED BY <2>2, <3>1
  <2>4. f \in T
    BY <1>2, <2>3
  <2> QED BY <2>2, <2>4
<1>3. \A n \in Nat : n \in S
  <2> HIDE DEF S
  <2> QED BY <1>1, <1>2, NatSetInduction
<1> QED
  <2> SUFFICES ASSUME NEW s \in Seq(A) PROVE s \in T
    OBVIOUS
  <2>1. Len(s) \in Nat
    OBVIOUS
  <2> QED BY <2>1, <1>3

\* f starts at `base` and goes on from each value by `step`, n times.
Iterates(f, D, base, n, step) ==
    /\ f \in [0..n -> D]
    /\ f[0] = base
    /\ \A i \in 1..n : f[i] = step[<<f[i - 1], i>>]

\* A recursive definition over the first n naturals has a solution.
LEMMA RecursionExists ==
    ASSUME NEW D, NEW base \in D, NEW n \in Nat,
           NEW step \in [D \X (1..n) -> D]
    PROVE  \E f : Iterates(f, D, base, n, step)
<1> DEFINE Good(m, f) == /\ f \in [0..m -> D]
                         /\ f[0] = base
                         /\ \A i \in 1..m : f[i] = step[<<f[i - 1], i>>]
           S == {m \in Nat : m <= n => \E f : Good(m, f)}
<1>1. 0 \in S
  <2>1. Good(0, [i \in 0..0 |-> base])
    OBVIOUS
  <2> QED BY <2>1
<1>2. ASSUME NEW m \in Nat, m \in S
      PROVE  m + 1 \in S
  <2> SUFFICES ASSUME m + 1 <= n PROVE \E f : Good(m + 1, f)
    OBVIOUS
  <2>1. PICK f : Good(m, f)
    BY <1>2
  <2> DEFINE v == step[<<f[m], m + 1>>]
             g == [i \in 0..(m + 1) |-> IF i = m + 1 THEN v ELSE f[i]]
  <2>2. v \in D
    BY <2>1
  <2>3. g \in [0..(m + 1) -> D]
    BY <2>1, <2>2
  <2>4. g[0] = base
    BY <2>1
  <2>5. ASSUME NEW i \in 1..(m + 1) PROVE g[i] = step[<<g[i - 1], i>>]
    <3>1. CASE i = m + 1
      <4>1. g[i] = v /\ g[i - 1] = f[m]
        BY <3>1
      <4> QED BY <4>1, <3>1
    <3>2. CASE i # m + 1
      <4>1. i \in 1..m /\ g[i] = f[i] /\ g[i - 1] = f[i - 1]
        BY <3>2
      <4> QED BY <4>1, <2>1
    <3> QED BY <3>1, <3>2
  <2> QED BY <2>3, <2>4, <2>5
<1>3. \A m \in Nat : m \in S
  <2> HIDE DEF S
  <2> QED BY <1>1, <1>2, NatSetInduction
<1>4. n \in S
  <2> HIDE DEF S
  <2> QED BY <1>3
<1>5. n <= n => \E f : Good(n, f)
  BY <1>4, Zenon
<1>6. PICK f : Good(n, f)
  BY <1>5
<1> QED BY <1>6 DEF Iterates
=============================================================================
