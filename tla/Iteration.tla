----------------------------- MODULE Iteration ------------------------------
(***************************************************************************)
(* Lemmas about going through a sequence with an operator op: what the     *)
(* loops of the program compute that the modules write as FoldLeft or as a *)
(* recursive function on 0..n.  A proof module takes an INSTANCE of this   *)
(* module for each loop it reasons about, with the loop's body for op.     *)
(*                                                                         *)
(* The induction theorems of the library take the property to be proved as *)
(* an operator; here it is a set, which needs only that < is well-founded  *)
(* on the natural numbers.                                                 *)
(***************************************************************************)
EXTENDS Integers, Sequences, WellFoundedInduction, TLAPS

CONSTANT op(_, _)       \* the body of the loop: the value so far, the next element

Largest(s) == CHOOSE x \in s : \A y \in s : x >= y

\* FoldLeft(op, base, seq) of SequencesExt, as that module defines it: an EXTENDS
\* of it would put all its definitions into every instance of this module.
Fold(base, seq) ==
  LET iter[s \in SUBSET (DOMAIN seq)] ==
        IF s = {} THEN base ELSE op(iter[s \ {Largest(s)}], seq[Largest(s)])
  IN  iter[DOMAIN seq]

-----------------------------------------------------------------------------
(***************************************************************************)
(* Induction.                                                              *)
(***************************************************************************)
Below == OpToRel(<, Nat)

\* The relation of the library's theorems, in terms of <.
LEMMA BelowIs == \A x, y \in Nat : <<x, y>> \in Below <=> x < y
  BY DEF Below, OpToRel

\* Every non-empty set of natural numbers has a least element.
LEMMA LeastElement ==
  ASSUME NEW S, S \subseteq Nat, S # {}
  PROVE  \E x \in S : \A y \in S : x <= y
<1>1. IsWellFoundedOn(Below, Nat)
  BY NatLessThanWellFounded DEF Below
<1>2. PICK x \in S : \A y \in S : ~ (<<y, x>> \in Below)
  BY <1>1, WFMin
<1>3. ASSUME NEW y \in S PROVE x <= y
  <2>1. x \in Nat /\ y \in Nat /\ ~ (<<y, x>> \in Below)
    BY <1>2
  <2>2. ~ (y < x)
    BY <2>1, BelowIs
  <2> QED BY <2>1, <2>2
<1> QED BY <1>3

\* Induction over the natural numbers, with the set where the property holds.
LEMMA NatSetInduction ==
  ASSUME NEW S, 0 \in S, \A n \in Nat : n \in S => n + 1 \in S
  PROVE  \A n \in Nat : n \in S
<1> SUFFICES ASSUME \E n \in Nat : n \notin S PROVE FALSE
  OBVIOUS
<1> DEFINE T == {n \in Nat : n \notin S}
<1>1. PICK x \in T : \A y \in T : x <= y
  BY LeastElement
<1>2. x \in Nat /\ x # 0
  OBVIOUS
<1>3. x - 1 \in Nat /\ ~ (x <= x - 1) /\ (x - 1) + 1 = x
  BY <1>2
<1>4. x - 1 \in S
  BY <1>1, <1>3
<1> QED BY <1>1, <1>3, <1>4

-----------------------------------------------------------------------------
(***************************************************************************)
(* Recursive functions on 0..n.                                            *)
(***************************************************************************)

\* f is the recursive function on 0..n that starts with base and goes on with op.
Iterates(f, base, seq, n) ==
    f = [k \in 0..n |-> IF k = 0 THEN base ELSE op(f[k - 1], seq[k])]

\* The definition of a recursive function names a function that exists.
LEMMA IterationExists ==
  ASSUME NEW base, NEW seq, NEW n \in Nat
  PROVE  \E f : Iterates(f, base, seq, n)
<1> DEFINE S == {m \in Nat : \E f : Iterates(f, base, seq, m)}
<1>1. 0 \in S
  <2> DEFINE g == [k \in 0..0 |-> base]
  <2>1. Iterates(g, base, seq, 0)
    BY DEF Iterates
  <2> QED BY <2>1
<1>2. ASSUME NEW m \in Nat, m \in S PROVE m + 1 \in S
  <2>1. PICK f : Iterates(f, base, seq, m)
    BY <1>2
  <2> DEFINE g == [k \in 0..(m + 1) |->
                      IF k = m + 1 THEN op(f[m], seq[m + 1]) ELSE f[k]]
             h == [k \in 0..(m + 1) |->
                      IF k = 0 THEN base ELSE op(g[k - 1], seq[k])]
  <2>2. ASSUME NEW k \in 0..(m + 1) PROVE g[k] = h[k]
    <3>1. CASE k = m + 1
      <4>1. k # 0 /\ k - 1 = m /\ m \in 0..(m + 1) /\ m # m + 1
        BY <3>1
      <4>2. g[m] = f[m]
        BY <4>1
      <4> QED BY <3>1, <4>1, <4>2
    <3>2. CASE k # m + 1
      <4>1. k \in 0..m /\ g[k] = f[k]
        BY <3>2
      <4>2. f[k] = IF k = 0 THEN base ELSE op(f[k - 1], seq[k])
        BY <2>1, <4>1 DEF Iterates
      <4>3. CASE k = 0
        BY <4>1, <4>2, <4>3
      <4>4. CASE k # 0
        <5>1. k - 1 \in 0..(m + 1) /\ k - 1 # m + 1
          BY <4>1, <4>4
        <5>2. g[k - 1] = f[k - 1]
          BY <5>1
        <5> QED BY <4>1, <4>2, <4>4, <5>2
      <4> QED BY <4>3, <4>4
    <3> QED BY <3>1, <3>2
  <2>3. g = h
    BY <2>2
  <2>4. Iterates(g, base, seq, m + 1)
    BY <2>3 DEF Iterates
  <2> QED BY <2>4
<1>3. \A m \in Nat : m \in S
  <2> HIDE DEF S
  <2> QED BY <1>1, <1>2, NatSetInduction
<1> QED BY <1>3

\* What holds of base with 0, and of every later value with its index when it
\* holds of the value before, holds of every value.
LEMMA IterationKeeps ==
  ASSUME NEW base, NEW seq, NEW n \in Nat, NEW G, <<0, base>> \in G,
         \A k \in 1..n : \A x : <<k - 1, x>> \in G => <<k, op(x, seq[k])>> \in G,
         NEW f, Iterates(f, base, seq, n)
  PROVE  \A k \in 0..n : <<k, f[k]>> \in G
<1> DEFINE S == {k \in Nat : k <= n => <<k, f[k]>> \in G}
<1>1. 0 \in S
  <2>1. 0 \in 0..n
    OBVIOUS
  <2>2. f[0] = base
    BY <2>1 DEF Iterates
  <2> QED BY <2>2
<1>2. ASSUME NEW k \in Nat, k \in S PROVE k + 1 \in S
  <2> SUFFICES ASSUME k + 1 <= n PROVE <<k + 1, f[k + 1]>> \in G
    OBVIOUS
  <2>1. k + 1 \in 0..n /\ k + 1 \in 1..n /\ k + 1 # 0 /\ (k + 1) - 1 = k /\ k <= n
    OBVIOUS
  <2>2. f[k + 1] = op(f[k], seq[k + 1])
    <3>1. f[k + 1] = IF k + 1 = 0 THEN base ELSE op(f[(k + 1) - 1], seq[k + 1])
      BY <2>1 DEF Iterates
    <3> QED BY <2>1, <3>1
  <2>3. <<(k + 1) - 1, f[k]>> \in G
    BY <1>2, <2>1
  <2> QED BY <2>1, <2>2, <2>3
<1>3. \A k \in Nat : k \in S
  <2> HIDE DEF S
  <2> QED BY <1>1, <1>2, NatSetInduction
<1> QED BY <1>3

-----------------------------------------------------------------------------
(***************************************************************************)
(* Folding a sequence is iterating over it.                                *)
(***************************************************************************)

\* The element the fold takes last of the first k + 1.
LEMMA LargestUpTo ==
  ASSUME NEW k \in Nat, NEW s \in SUBSET (1..(k + 1)), k + 1 \in s
  PROVE  Largest(s) = k + 1
<1>1. \A y \in s : k + 1 >= y /\ y \in Int
  OBVIOUS
<1>2. Largest(s) \in s /\ \A y \in s : Largest(s) >= y
  <2>1. \E x \in s : \A y \in s : x >= y
    BY <1>1
  <2> QED BY <2>1, Zenon DEF Largest
<1>3. PICK m : m = Largest(s)
  OBVIOUS
<1>4. m \in s /\ m >= k + 1
  BY <1>2, <1>3
<1>5. m = k + 1
  BY <1>1, <1>4
<1> QED BY <1>3, <1>5

\* iter is the function the fold chooses for a sequence of n elements.
IsIter(iter, base, seq, n) ==
    iter = [s \in SUBSET (1..n) |->
              IF s = {} THEN base ELSE op(iter[s \ {Largest(s)}], seq[Largest(s)])]

\* There is one for every n.
LEMMA IterExists ==
  ASSUME NEW base, NEW seq
  PROVE  \A n \in Nat : \E iter : IsIter(iter, base, seq, n)
<1> DEFINE S == {n \in Nat : \E iter : IsIter(iter, base, seq, n)}
<1>1. 0 \in S
  <2> DEFINE g == [s \in SUBSET (1..0) |-> base]
  <2>1. \A s \in SUBSET (1..0) : s = {}
    OBVIOUS
  <2>2. IsIter(g, base, seq, 0)
    BY <2>1 DEF IsIter
  <2> QED BY <2>2
<1>2. ASSUME NEW n \in Nat, n \in S PROVE n + 1 \in S
  <2>1. PICK f : IsIter(f, base, seq, n)
    BY <1>2
  <2> DEFINE g == [s \in SUBSET (1..(n + 1)) |->
                      IF n + 1 \in s THEN op(f[s \ {n + 1}], seq[n + 1]) ELSE f[s]]
             h == [s \in SUBSET (1..(n + 1)) |->
                      IF s = {} THEN base ELSE op(g[s \ {Largest(s)}], seq[Largest(s)])]
  <2>2. ASSUME NEW s \in SUBSET (1..(n + 1)) PROVE g[s] = h[s]
    <3>1. CASE n + 1 \in s
      <4>1. Largest(s) = n + 1
        BY <3>1, LargestUpTo
      <4>2. s \ {n + 1} \in SUBSET (1..(n + 1)) /\ n + 1 \notin s \ {n + 1}
        OBVIOUS
      <4>3. g[s \ {n + 1}] = f[s \ {n + 1}]
        BY <4>2
      <4>4. h[s] = op(g[s \ {n + 1}], seq[n + 1])
        BY <3>1, <4>1
      <4> QED BY <3>1, <4>3, <4>4
    <3>2. CASE n + 1 \notin s
      <4>1. s \in SUBSET (1..n)
        BY <3>2
      <4>2. g[s] = f[s]
        BY <3>2
      <4>3. f[s] = IF s = {} THEN base ELSE op(f[s \ {Largest(s)}], seq[Largest(s)])
        BY <2>1, <4>1 DEF IsIter
      <4>4. s \ {Largest(s)} \in SUBSET (1..(n + 1)) /\ n + 1 \notin s \ {Largest(s)}
        BY <3>2
      <4>5. g[s \ {Largest(s)}] = f[s \ {Largest(s)}]
        BY <4>4
      <4>6. h[s] = IF s = {} THEN base ELSE op(g[s \ {Largest(s)}], seq[Largest(s)])
        OBVIOUS
      <4> QED BY <4>2, <4>3, <4>5, <4>6
    <3> QED BY <3>1, <3>2
  <2>3. g = h
    BY <2>2
  <2>4. IsIter(g, base, seq, n + 1)
    BY <2>3 DEF IsIter
  <2> QED BY <2>4
<1>3. \A n \in Nat : n \in S
  <2> HIDE DEF S
  <2> QED BY <1>1, <1>2, NatSetInduction
<1> QED BY <1>3

\* The fold is the last value of the recursive function.
LEMMA FoldIterates ==
  ASSUME NEW base, NEW Elt, NEW seq \in Seq(Elt)
  PROVE  \E f : Iterates(f, base, seq, Len(seq)) /\ Fold(base, seq) = f[Len(seq)]
<1> DEFINE n == Len(seq)
           iter == CHOOSE i : IsIter(i, base, seq, n)
           f == [k \in 0..n |-> iter[1..k]]
<1>1. n \in Nat /\ DOMAIN seq = 1..n
  OBVIOUS
<1>2. IsIter(iter, base, seq, n)
  BY <1>1, IterExists
<1>3. Fold(base, seq) = iter[1..n]
  BY <1>1 DEF Fold, IsIter
<1> HIDE DEF n
<1>4. f[0] = base
  <2>1. 1..0 = {} /\ 0 \in 0..n /\ 1..0 \in SUBSET (1..n)
    BY <1>1
  <2>2. iter[1..0] = base
    BY <1>2, <2>1 DEF IsIter
  <2> QED BY <2>1, <2>2
<1>5. ASSUME NEW k \in 1..n PROVE f[k] = op(f[k - 1], seq[k])
  <2>1. k - 1 \in Nat /\ (k - 1) + 1 = k /\ 1..k \in SUBSET (1..k) /\ k \in 1..k
    BY <1>1
  <2>2. Largest(1..k) = k
    BY <2>1, LargestUpTo
  <2>3. (1..k) \ {k} = 1..(k - 1) /\ 1..k # {} /\ 1..k \in SUBSET (1..n)
    BY <1>1, <2>1
  <2>4. iter[1..k] = op(iter[(1..k) \ {Largest(1..k)}], seq[Largest(1..k)])
    BY <1>2, <2>3 DEF IsIter
  <2>5. k \in 0..n /\ k - 1 \in 0..n
    BY <1>1
  <2>6. iter[1..k] = op(iter[1..(k - 1)], seq[k])
    BY <2>2, <2>3, <2>4
  <2> QED BY <2>5, <2>6
<1>6. f = [k \in 0..n |-> IF k = 0 THEN base ELSE op(f[k - 1], seq[k])]
  <2> DEFINE g == [k \in 0..n |-> IF k = 0 THEN base ELSE op(f[k - 1], seq[k])]
  <2>1. ASSUME NEW k \in 0..n PROVE f[k] = g[k]
    <3> HIDE DEF f
    <3>1. CASE k = 0
      BY <1>4, <3>1
    <3>2. CASE k # 0
      <4>1. k \in 1..n
        BY <1>1, <3>2
      <4> QED BY <1>5, <3>2, <4>1
    <3> QED BY <3>1, <3>2
  <2>2. f = [k \in 0..n |-> f[k]]
    OBVIOUS
  <2> HIDE DEF f
  <2> QED BY <2>1, <2>2
<1>7. n \in 0..n /\ f[n] = iter[1..n]
  BY <1>1
<1>8. Iterates(f, base, seq, n)
  BY <1>6 DEF Iterates
<1>9. Fold(base, seq) = f[n]
  BY <1>3, <1>7
<1> HIDE DEF f
<1> QED BY <1>8, <1>9 DEF n

\* Nothing is done to the empty sequence.
LEMMA FoldEmpty ==
  ASSUME NEW base
  PROVE  Fold(base, <<>>) = base
<1>1. <<>> \in Seq({}) /\ Len(<<>>) = 0
  OBVIOUS
<1>2. PICK f : Iterates(f, base, <<>>, 0) /\ Fold(base, <<>>) = f[0]
  BY <1>1, FoldIterates
<1>3. f[0] = base
  BY <1>2 DEF Iterates
<1> QED BY <1>2, <1>3

\* What holds of base, and of what op makes of a value it holds of and an
\* element of the sequence, holds of the fold.
LEMMA FoldKeeps ==
  ASSUME NEW base, NEW Elt, NEW seq \in Seq(Elt), NEW G, base \in G,
         \A x \in G, e \in Elt : op(x, e) \in G
  PROVE  Fold(base, seq) \in G
<1> DEFINE n == Len(seq)
           H == Nat \X G
<1>1. n \in Nat /\ \A k \in 1..n : seq[k] \in Elt
  OBVIOUS
<1>2. PICK f : Iterates(f, base, seq, n) /\ Fold(base, seq) = f[n]
  BY FoldIterates
<1>3. <<0, base>> \in H
  OBVIOUS
<1>4. ASSUME NEW k \in 1..n, NEW x, <<k - 1, x>> \in H
      PROVE  <<k, op(x, seq[k])>> \in H
  <2>1. x \in G /\ k \in Nat
    BY <1>1, <1>4
  <2> QED BY <1>1, <2>1
<1>5. \A k \in 0..n : <<k, f[k]>> \in H
  <2> HIDE DEF H, n
  <2> QED BY <1>1, <1>2, <1>3, <1>4, IterationKeeps
<1>6. n \in 0..n
  BY <1>1
<1>7. <<n, f[n]>> \in H
  BY <1>5, <1>6
<1>8. f[n] \in G
  BY <1>7
<1> QED BY <1>2, <1>8

\* The same with the number of elements taken: a pair <<k, x>> of G says that x
\* is what the first k elements should have made of base.
LEMMA FoldKeepsAlong ==
  ASSUME NEW base, NEW Elt, NEW seq \in Seq(Elt), NEW G, <<0, base>> \in G,
         \A k \in 1..Len(seq) : \A x :
            <<k - 1, x>> \in G => <<k, op(x, seq[k])>> \in G
  PROVE  <<Len(seq), Fold(base, seq)>> \in G
<1>1. Len(seq) \in Nat /\ Len(seq) \in 0..Len(seq)
  OBVIOUS
<1>2. PICK f : Iterates(f, base, seq, Len(seq)) /\ Fold(base, seq) = f[Len(seq)]
  BY FoldIterates
<1>3. \A k \in 0..Len(seq) : <<k, f[k]>> \in G
  BY <1>1, <1>2, IterationKeeps
<1> QED BY <1>1, <1>2, <1>3
=============================================================================
