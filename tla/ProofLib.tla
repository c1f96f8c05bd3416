------------------------------ MODULE ProofLib ------------------------------
(***************************************************************************)
(* What the proof modules share.  Induction over data: the least-number     *)
(* principle, and what it says of a loop, a function w on 0 .. n whose value *)
(* at k is that of one turn of the loop, turn[k], on the value before it     *)
(* (the recursive functions of the models are such loops).  Sums, counted as *)
(* the cardinality of a set that holds x with the numbers 1 .. m.            *)
(***************************************************************************)
EXTENDS Integers, Sequences, FiniteSetTheorems, SequenceTheorems, WellFoundedInduction, TLAPS

\* A non-empty set of naturals has a least element.
LEMMA Least ==
    ASSUME NEW T \in SUBSET Nat, T # {}
    PROVE  \E n \in T : \A m \in T : n <= m
<1>1. PICK k \in T : TRUE
  OBVIOUS
<1>. DEFINE S == 0 .. k
            U == {0 .. j : j \in T \cap S}
<1>2. IsFiniteSet(S)
  BY FS_Interval
<1>3. IsWellFoundedOn(StrictSubsetOrdering(S), FiniteSubsetsOf(S))
  BY FS_StrictSubsetOrderingWellFounded
<1>4. FiniteSubsetsOf(S) = SUBSET S
  BY <1>2, FS_FiniteSubsetsOfFinite
<1>5. U \subseteq SUBSET S /\ U # {}
  BY <1>1
<1>. HIDE DEF S, U
<1>6. PICK x \in U : \A y \in U : ~(<<y, x>> \in StrictSubsetOrdering(S))
  BY <1>3, <1>4, <1>5, WFMin
<1>. USE DEF S, U
<1>7. PICK n \in T \cap S : x = 0 .. n
  BY <1>6
<1>8. ASSUME NEW m \in T PROVE n <= m
  <2>. SUFFICES ASSUME m < n PROVE FALSE
    OBVIOUS
  <2>1. 0 .. m \in U
    BY <1>7
  <2>2. 0 .. m \subseteq 0 .. n /\ 0 .. m # 0 .. n /\ 0 .. n \subseteq 0 .. k
    BY <1>7
  <2>3. <<0 .. m, x>> \in StrictSubsetOrdering(S)
    BY <2>1, <2>2, <1>7, <1>5 DEF StrictSubsetOrdering
  <2>. QED BY <2>1, <2>3, <1>6
<1>. QED BY <1>7, <1>8

\* w is n turns of a loop from base.
IsLoop(w, n, base, turn) == w[0] = base /\ \A k \in 1 .. n : w[k] = turn[k][w[k - 1]]

\* Every loop whose turns stay in R can be run for any number of turns.
LEMMA LoopExists ==
    ASSUME NEW R, NEW base \in R, NEW n \in Nat, NEW turn \in [1 .. n -> [R -> R]]
    PROVE  \E w \in [0 .. n -> R] : IsLoop(w, n, base, turn)
<1>. DEFINE Ok(m) == \E w \in [0 .. m -> R] : IsLoop(w, m, base, turn)
            T == {m \in 0 .. n : ~Ok(m)}
<1>. SUFFICES ASSUME T # {} PROVE FALSE
  OBVIOUS
<1>1. PICK m \in T : \A j \in T : m <= j
  <2>. HIDE DEF Ok
  <2>1. T \in SUBSET Nat
    OBVIOUS
  <2>. QED BY <2>1, Least
<1>2. CASE m = 0
  <2>1. [k \in 0 .. 0 |-> base] \in [0 .. 0 -> R]
    OBVIOUS
  <2>2. IsLoop([k \in 0 .. 0 |-> base], 0, base, turn)
    BY DEF IsLoop
  <2>. QED BY <1>1, <1>2, <2>1, <2>2
<1>3. CASE m # 0
  <2>1. m \in 1 .. n /\ m - 1 \in 0 .. n /\ m - 1 < m
    BY <1>1, <1>3
  <2>2. Ok(m - 1)
    <3>. HIDE DEF Ok
    <3>. QED BY <1>1, <2>1
  <2>3. PICK w \in [0 .. m - 1 -> R] : IsLoop(w, m - 1, base, turn)
    BY <2>2
  <2>4. PICK u : u = [k \in 0 .. m |-> IF k = m THEN turn[m][w[m - 1]] ELSE w[k]]
    OBVIOUS
  <2>5. w[m - 1] \in R /\ turn[m][w[m - 1]] \in R
    BY <2>1
  <2>6. \A k \in 0 .. m : k # m => k \in 0 .. m - 1
    BY <2>1
  <2>7. u \in [0 .. m -> R]
    BY <2>4, <2>5, <2>6
  <2>8. u[m] = turn[m][w[m - 1]] /\ \A k \in 0 .. m - 1 : u[k] = w[k]
    BY <2>1, <2>4
  <2>9. IsLoop(u, m, base, turn)
    <3>1. u[0] = base
      BY <2>1, <2>3, <2>8 DEF IsLoop
    <3>2. ASSUME NEW k \in 1 .. m PROVE u[k] = turn[k][u[k - 1]]
      <4>1. CASE k = m
        <5>1. u[m - 1] = w[m - 1]
          BY <2>1, <2>8
        <5>. QED BY <4>1, <5>1, <2>8
      <4>2. CASE k # m
        <5>1. k \in 1 .. m - 1 /\ k \in 0 .. m - 1 /\ k - 1 \in 0 .. m - 1
          BY <4>2, <2>1
        <5>2. w[k] = turn[k][w[k - 1]]
          BY <5>1, <2>3 DEF IsLoop
        <5>3. u[k] = w[k] /\ u[k - 1] = w[k - 1]
          BY <5>1, <2>8
        <5>. QED BY <5>2, <5>3
      <4>. QED BY <4>1, <4>2
    <3>. QED BY <3>1, <3>2 DEF IsLoop
  <2>. QED BY <1>1, <2>7, <2>9
<1>. QED BY <1>2, <1>3

\* Two functions agree up to n if they do at 0 and every step keeps them so.
InStep(v, w, n) == v[0] = w[0] /\ \A k \in 1 .. n : v[k - 1] = w[k - 1] => v[k] = w[k]
Agree(v, w, n) == \A k \in 0 .. n : v[k] = w[k]
LEMMA InStepAgree ==
    ASSUME NEW n \in Nat, NEW v, NEW w, InStep(v, w, n)
    PROVE  Agree(v, w, n)
<1>. USE DEF InStep, Agree
<1>. DEFINE T == {k \in 0 .. n : v[k] # w[k]}
<1>. SUFFICES ASSUME T # {} PROVE FALSE
  OBVIOUS
<1>1. T \in SUBSET Nat
  OBVIOUS
<1>2. PICK m \in T : \A j \in T : m <= j
  BY <1>1, Least
<1>3. m \in 1 .. n /\ m - 1 \in 0 .. n /\ ~(m <= m - 1)
  BY <1>2
<1>4. v[m - 1] = w[m - 1]
  BY <1>2, <1>3
<1>. QED BY <1>2, <1>3, <1>4

-----------------------------------------------------------------------------
\* Concatenation is associative.  Cat keeps the provers from expanding it.
Cat(s, t) == s \o t
LEMMA CatAssoc ==
    \A S : \A s, t, u \in Seq(S) : /\ Cat(s, t) \in Seq(S)
                                   /\ Cat(Cat(s, t), u) = Cat(s, Cat(t, u))
<1>. TAKE S
<1>. TAKE s, t, u \in Seq(S)
<1>1. s \o t \in Seq(S)
  BY ConcatProperties
<1>2. (s \o t) \o u = s \o (t \o u)
  BY ConcatAssociative
<1>. QED BY <1>1, <1>2 DEF Cat

-----------------------------------------------------------------------------
\* Members of a family of contexts that satisfy a test, when one of them changes.
LEMMA CountOne ==
    ASSUME NEW A, NEW B, NEW x, IsFiniteSet(A), A \ {x} = B \ {x}
    PROVE  /\ IsFiniteSet(B)
           /\ Cardinality(B) = Cardinality(A) + (IF x \in B THEN 1 ELSE 0)
                                              - (IF x \in A THEN 1 ELSE 0)
<1>1. PICK R : R = A \ {x}
  OBVIOUS
<1>2. IsFiniteSet(R) /\ x \notin R /\ Cardinality(R) \in Nat
  BY <1>1, FS_Subset, FS_CardinalityType
<1>3. \A S : S \ {x} = R => (x \in S => S = R \cup {x}) /\ (x \notin S => S = R)
  BY <1>2
<1>4. IsFiniteSet(R \cup {x}) /\ Cardinality(R \cup {x}) = Cardinality(R) + 1
  BY <1>2, FS_AddElement
<1>5. (x \in A => A = R \cup {x}) /\ (x \notin A => A = R)
  BY <1>1, <1>3
<1>6. (x \in B => B = R \cup {x}) /\ (x \notin B => B = R)
  BY <1>1, <1>3
<1>7. PICK r \in Nat : r = Cardinality(R)
  BY <1>2
<1>8. IsFiniteSet(B)
  BY <1>2, <1>4, <1>6
<1>9. Cardinality(A) = r + (IF x \in A THEN 1 ELSE 0)
  BY <1>4, <1>5, <1>7
<1>10. Cardinality(B) = r + (IF x \in B THEN 1 ELSE 0)
  BY <1>4, <1>6, <1>7
<1>11. PICK a \in {0, 1} : a = IF x \in A THEN 1 ELSE 0
  OBVIOUS
<1>12. PICK b \in {0, 1} : b = IF x \in B THEN 1 ELSE 0
  OBVIOUS
<1>13. r + b = r + a + b - a
  BY <1>11, <1>12
<1>. QED BY <1>8, <1>9, <1>10, <1>11, <1>12, <1>13

\* A sum when the term of one member changes from m to n.
With(R, x, m) == R \cup ({x} \X (1 .. m))
LEMMA SumOne ==
    ASSUME NEW R, NEW x, NEW m \in Nat, NEW n \in Nat,
           IsFiniteSet(With(R, x, m)), R \cap ({x} \X Nat) = {}
    PROVE  /\ IsFiniteSet(With(R, x, n))
           /\ Cardinality(With(R, x, n)) = Cardinality(With(R, x, m)) - m + n
<1>1. IsFiniteSet(R) /\ Cardinality(R) \in Nat
  <2>1. R \subseteq R \cup ({x} \X (1 .. m))
    OBVIOUS
  <2>. QED BY <2>1, FS_Subset, FS_CardinalityType DEF With
<1>2. ASSUME NEW j \in Nat
      PROVE  /\ IsFiniteSet(R \cup ({x} \X (1 .. j)))
             /\ Cardinality(R \cup ({x} \X (1 .. j))) = Cardinality(R) + j
  <2>1. IsFiniteSet({x}) /\ Cardinality({x}) = 1
    BY FS_Singleton
  <2>2. IsFiniteSet(1 .. j) /\ Cardinality(1 .. j) = j
    BY FS_Interval
  <2>3. PICK Q : Q = {x} \X (1 .. j)
    OBVIOUS
  <2>4. IsFiniteSet(Q) /\ Cardinality(Q) = j
    <3>1. /\ IsFiniteSet({x} \X (1 .. j))
          /\ Cardinality({x} \X (1 .. j)) = Cardinality({x}) * Cardinality(1 .. j)
      BY <2>1, <2>2, FS_Product, Zenon
    <3>2. Cardinality({x}) * Cardinality(1 .. j) = 1 * j
      BY <2>1, <2>2
    <3>. QED BY <2>3, <3>1, <3>2
  <2>5. R \cap Q = {}
    BY <2>3
  <2>6. Cardinality(R \cap Q) = 0
    BY <2>5, FS_EmptySet
  <2>7. IsFiniteSet(R \cup Q)
        /\ Cardinality(R \cup Q) = Cardinality(R) + Cardinality(Q) - Cardinality(R \cap Q)
    BY <1>1, <2>4, FS_Union
  <2>8. Cardinality(R \cup Q) = Cardinality(R) + j
    BY <1>1, <2>4, <2>6, <2>7
  <2>. QED BY <2>3, <2>7, <2>8
<1>3. /\ IsFiniteSet(With(R, x, m)) /\ Cardinality(With(R, x, m)) = Cardinality(R) + m
      /\ IsFiniteSet(With(R, x, n)) /\ Cardinality(With(R, x, n)) = Cardinality(R) + n
  BY <1>2, Zenon DEF With
<1>. QED BY <1>1, <1>3

-----------------------------------------------------------------------------
LEMMA AppendTwo ==
    ASSUME NEW a, NEW c
    PROVE  Append(<<a>>, c) = <<a, c>>
<1>1. PICK S : S = {a, c}
  OBVIOUS
<1>2. <<a>> \in Seq(S) /\ c \in S /\ Len(<<a>>) = 1 /\ <<a>>[1] = a
  BY <1>1
<1>3. <<a, c>> \in Seq(S) /\ Len(<<a, c>>) = 2 /\ <<a, c>>[1] = a /\ <<a, c>>[2] = c
  BY <1>1
<1>4. PICK s \in Seq(S) : s = <<a>>
  BY <1>2
<1>5. Len(s) = 1 /\ s[1] = a
  BY <1>2, <1>4
<1>6. /\ Append(s, c) \in Seq(S) /\ Len(Append(s, c)) = Len(s) + 1
      /\ \A i \in 1 .. Len(s) : Append(s, c)[i] = s[i]
      /\ Append(s, c)[Len(s) + 1] = c
  <2>1. c \in S
    BY <1>2
  <2>. QED BY <2>1
<1>7. PICK t \in Seq(S) : t = Append(s, c)
  BY <1>6
<1>8. PICK u \in Seq(S) : u = <<a, c>>
  BY <1>3
<1>9. Len(t) = Len(u) /\ \A i \in 1 .. Len(t) : t[i] = u[i]
  BY <1>3, <1>5, <1>6, <1>7, <1>8
<1>10. t = u
  BY <1>9, SeqEqual
<1>. QED BY <1>4, <1>7, <1>8, <1>10
=============================================================================
