------------------------------- MODULE SetProofs -------------------------------
(***************************************************************************)
(* What the proofs need of numbers, finite sets and lists: least elements, *)
(* induction for a set in the place of a predicate, the sum of a function  *)
(* over a set (MapThenSumSet), which does not depend on the order its      *)
(* elements are taken in, the places of an order, strict and total or      *)
(* weak, and what FlattenSeq chooses.                                      *)
(***************************************************************************)
EXTENDS Integers, FiniteSets, FiniteSetsExt, SequencesExt, FiniteSetTheorems, SequenceTheorems, TLAPS

-----------------------------------------------------------------------------
(* Least and greatest elements, and induction for a set *)

(* A set of numbers up to n that holds no least one would be injected, by   *)
(* counting down, into itself without n.                                   *)
LEMMA LeastUpto ==
  ASSUME NEW n \in Nat, NEW T \in SUBSET (0 .. n), T # {}
  PROVE  \E m \in T : \A t \in T : m <= t
<1> SUFFICES ASSUME \A m \in T : \E t \in T : t < m PROVE FALSE
  OBVIOUS
<1> DEFINE U == {i \in 0 .. n : \E t \in T : t <= i}
           f == [i \in U |-> i - 1]
<1>1. n \in U
  <2>1. PICK t \in T : TRUE
    OBVIOUS
  <2> QED
    BY <2>1
<1>2. \A i \in U : i - 1 \in U \ {n}
  <2> SUFFICES ASSUME NEW i \in U PROVE i - 1 \in U \ {n}
    OBVIOUS
  <2>1. PICK t \in T : t <= i
    OBVIOUS
  <2>2. PICK s \in T : s < t
    OBVIOUS
  <2> QED
    BY <2>1, <2>2
<1>3. IsFiniteSet(U)
  BY FS_Interval, FS_Subset, 0 \in Int, n \in Int
<1>4. IsFiniteSet(U \ {n}) /\ Cardinality(U \ {n}) = Cardinality(U) - 1 /\ Cardinality(U) \in Nat
  BY <1>1, <1>3, FS_RemoveElement, FS_CardinalityType
<1>5. f \in Injection(U, U \ {n})
  BY <1>2 DEF Injection, IsInjective
<1>6. Cardinality(U) <= Cardinality(U \ {n})
  <2> HIDE DEF U, f
  <2> QED
    BY <1>4, <1>5, FS_Injection
<1> QED
  BY <1>4, <1>6

(* Every set of naturals has a least element.                               *)
LEMMA Least ==
  ASSUME NEW T \in SUBSET Nat, T # {}
  PROVE  \E m \in T : \A t \in T : m <= t
<1>1. PICK n \in T : n \in Nat
  OBVIOUS
<1> DEFINE S == {t \in T : t <= n}
<1>2. S \in SUBSET (0 .. n) /\ S # {}
  <2>1. n \in S
    BY <1>1
  <2>2. \A t \in S : t \in 0 .. n
    BY <1>1
  <2> QED
    BY <2>1, <2>2
<1>3. PICK m \in S : \A t \in S : m <= t
  <2> HIDE DEF S
  <2> QED
    BY <1>1, <1>2, LeastUpto
<1> QED
  BY <1>1, <1>3

(* Induction, for a set in the place of a predicate.                        *)
LEMMA Ind ==
  ASSUME NEW S, 0 \in S, \A n \in Nat : n \in S => n + 1 \in S
  PROVE  Nat \subseteq S
<1> SUFFICES ASSUME ~(Nat \subseteq S) PROVE FALSE
  OBVIOUS
<1>1. PICK m \in Nat \ S : \A t \in Nat \ S : m <= t
  BY Least
<1>2. m - 1 \in Nat /\ m - 1 \in S
  BY <1>1
<1> QED
  BY <1>1, <1>2

(* So has every bounded one a greatest.                                     *)
LEMMA Greatest ==
  ASSUME NEW T \in SUBSET Nat, T # {}, NEW n \in Nat, \A t \in T : t <= n
  PROVE  \E m \in T : \A t \in T : t <= m
<1> DEFINE above == {i \in Nat : \A t \in T : t <= i}
<1>1. n \in above
  OBVIOUS
<1>2. PICK m \in above : \A i \in above : m <= i
  <2>1. above \in SUBSET Nat /\ above # {}
    BY <1>1
  <2> QED
    BY <2>1, Least
<1>3. m \in T
  <2> SUFFICES ASSUME m \notin T PROVE FALSE
    OBVIOUS
  <2>1. \A t \in T : t < m
    BY <1>2
  <2>2. m - 1 \in Nat
    <3>1. PICK t \in T : t \in Nat
      OBVIOUS
    <3>2. t < m /\ m \in Nat
      BY <2>1, <3>1
    <3> QED
      BY <3>1, <3>2
  <2>3. m - 1 \in above
    BY <2>1, <2>2
  <2> QED
    BY <1>2, <2>3
<1> QED
  BY <1>2, <1>3

-----------------------------------------------------------------------------
(* Sums *)

SumOver(g, S) == MapThenSumSet(LAMBDA x : g[x], S)
Taken(s) == CHOOSE x \in s : TRUE
SumBody(g, h, s) == IF s = {} THEN 0 ELSE g[Taken(s)] + h[s \ {Taken(s)}]
IsSumOf(g, S, h) == h = [s \in SUBSET S |-> SumBody(g, h, s)]

(* What is taken from a set leaves a smaller one.                           *)
LEMMA Smaller ==
  ASSUME NEW S, IsFiniteSet(S), NEW s \in SUBSET S
  PROVE  /\ IsFiniteSet(s) /\ Cardinality(s) \in Nat /\ (Cardinality(s) = 0 <=> s = {})
         /\ \A x \in s : /\ s \ {x} \in SUBSET S /\ Cardinality(s \ {x}) = Cardinality(s) - 1
         /\ s # {} => Taken(s) \in s
<1>1. IsFiniteSet(s) /\ Cardinality(s) \in Nat
  BY FS_Subset, FS_CardinalityType
<1>2. Cardinality(s) = 0 <=> s = {}
  BY <1>1, FS_EmptySet
<1>3. \A x \in s : s \ {x} \in SUBSET S /\ Cardinality(s \ {x}) = Cardinality(s) - 1
  BY <1>1, FS_RemoveElement
<1>4. s # {} => Taken(s) \in s
  BY DEF Taken
<1> QED
  BY <1>1, <1>2, <1>3, <1>4

(* A fact about the empty set that holds of a set once it holds of the set  *)
(* less one of its elements holds of every finite set.                     *)
LEMMA Peel ==
  ASSUME NEW S, IsFiniteSet(S), NEW P, {} \in P,
         \A s \in SUBSET S : s # {} /\ s \ {Taken(s)} \in P => s \in P
  PROVE  SUBSET S \subseteq P
<1> DEFINE N == {n \in Nat : \A s \in SUBSET S : Cardinality(s) = n => s \in P}
<1>1. 0 \in N
  BY Smaller
<1>2. ASSUME NEW n \in Nat, n \in N PROVE n + 1 \in N
  <2> SUFFICES ASSUME NEW s \in SUBSET S, Cardinality(s) = n + 1 PROVE s \in P
    OBVIOUS
  <2>1. s # {} /\ s \ {Taken(s)} \in SUBSET S /\ Cardinality(s \ {Taken(s)}) = n
    <3>1. s # {}
      BY Smaller
    <3>2. Taken(s) \in s
      BY <3>1, Smaller
    <3> QED
      BY <3>1, <3>2, Smaller
  <2> QED
    BY <1>2, <2>1
<1> HIDE DEF N
<1>3. Nat \subseteq N
  BY <1>1, <1>2, Ind
<1>4. ASSUME NEW s \in SUBSET S PROVE s \in P
  <2>1. Cardinality(s) \in N
    BY <1>3, Smaller
  <2> QED
    BY <2>1 DEF N
<1> QED
  BY <1>4

(* The recursion of a sum has a solution: the solution for the sets of at   *)
(* most n elements extends to those of one more.                           *)
LEMMA SumsExist ==
  ASSUME NEW S, IsFiniteSet(S), NEW g, \A x \in S : g[x] \in Int
  PROVE  \E h \in [SUBSET S -> Int] : IsSumOf(g, S, h)
<1> DEFINE Upto(h, n) == \A s \in SUBSET S : Cardinality(s) <= n => h[s] = SumBody(g, h, s)
           N == {n \in Nat : \E h \in [SUBSET S -> Int] : Upto(h, n)}
<1>1. ASSUME NEW h \in [SUBSET S -> Int], NEW s \in SUBSET S PROVE SumBody(g, h, s) \in Int
  <2>1. CASE s = {}
    BY <2>1 DEF SumBody
  <2>2. CASE s # {}
    <3>1. Taken(s) \in s /\ s \ {Taken(s)} \in SUBSET S
      BY <2>2, Smaller
    <3>2. g[Taken(s)] \in Int /\ h[s \ {Taken(s)}] \in Int
      BY <3>1
    <3> QED
      BY <2>2, <3>2 DEF SumBody
  <2> QED
    BY <2>1, <2>2
<1>2. 0 \in N
  <2> DEFINE h == [s \in SUBSET S |-> 0]
  <2>1. h \in [SUBSET S -> Int]
    OBVIOUS
  <2>2. Upto(h, 0)
    <3> SUFFICES ASSUME NEW s \in SUBSET S, Cardinality(s) <= 0 PROVE h[s] = SumBody(g, h, s)
      OBVIOUS
    <3>1. s = {}
      BY Smaller
    <3> QED
      BY <3>1 DEF SumBody
  <2> QED
    BY <2>1, <2>2
<1>3. ASSUME NEW n \in Nat, n \in N PROVE n + 1 \in N
  <2>1. PICK h \in [SUBSET S -> Int] : Upto(h, n)
    BY <1>3
  <2> DEFINE k == [s \in SUBSET S |-> SumBody(g, h, s)]
  <2>2. k \in [SUBSET S -> Int]
    BY <1>1
  <2>3. Upto(k, n + 1)
    <3> SUFFICES ASSUME NEW s \in SUBSET S, Cardinality(s) <= n + 1 PROVE k[s] = SumBody(g, k, s)
      OBVIOUS
    <3>1. CASE s = {}
      BY <3>1 DEF SumBody
    <3>2. CASE s # {}
      <4>1. /\ Taken(s) \in s /\ s \ {Taken(s)} \in SUBSET S
            /\ Cardinality(s \ {Taken(s)}) <= n
        BY <3>2, Smaller
      <4>2. k[s \ {Taken(s)}] = h[s \ {Taken(s)}]
        BY <2>1, <4>1
      <4> QED
        BY <3>2, <4>2 DEF SumBody
    <3> QED
      BY <3>1, <3>2
  <2> HIDE DEF k
  <2> QED
    BY <2>2, <2>3
<1> HIDE DEF N
<1>4. Cardinality(S) \in N
  <2>1. Nat \subseteq N
    BY <1>2, <1>3, Ind
  <2> QED
    BY <2>1, FS_CardinalityType
<1>5. PICK h \in [SUBSET S -> Int] : Upto(h, Cardinality(S))
  BY <1>4 DEF N
<1>6. \A s \in SUBSET S : h[s] = SumBody(g, h, s)
  <2> SUFFICES ASSUME NEW s \in SUBSET S PROVE Cardinality(s) <= Cardinality(S)
    BY <1>5
  <2> QED
    BY FS_Subset
<1>7. h = [s \in SUBSET S |-> SumBody(g, h, s)]
  BY <1>6
<1> QED
  BY <1>7 DEF IsSumOf

(* It has one solution, which gives the sum of every subset.                *)
LEMMA SumsAre ==
  ASSUME NEW S, IsFiniteSet(S), NEW g, \A x \in S : g[x] \in Int,
         NEW h, IsSumOf(g, S, h), NEW T \in SUBSET S
  PROVE  SumOver(g, T) = h[T]
<1>1. \A x \in T : g[x] \in Int
  OBVIOUS
<1>2. IsFiniteSet(T)
  BY FS_Subset
<1>3. \E k : IsSumOf(g, T, k)
  BY <1>1, <1>2, SumsExist
<1> DEFINE k == CHOOSE k : IsSumOf(g, T, k)
<1>4. SumOver(g, T) = k[T]
  BY Zenon DEF SumOver, MapThenSumSet, MapThenFoldSet, IsSumOf, SumBody, Taken
<1>5. IsSumOf(g, T, k)
  BY <1>3
<1> HIDE DEF k
<1> DEFINE P == {s \in SUBSET T : k[s] = h[s]}
<1>6. \A s \in SUBSET T : k[s] = SumBody(g, k, s) /\ h[s] = SumBody(g, h, s)
  <2> SUFFICES ASSUME NEW s \in SUBSET T PROVE k[s] = SumBody(g, k, s) /\ h[s] = SumBody(g, h, s)
    OBVIOUS
  <2>1. s \in SUBSET S
    OBVIOUS
  <2> QED
    BY <1>5, <2>1 DEF IsSumOf
<1>7. {} \in P
  BY <1>6 DEF SumBody
<1>8. ASSUME NEW s \in SUBSET T, s # {}, s \ {Taken(s)} \in P PROVE s \in P
  BY <1>6, <1>8 DEF SumBody
<1> HIDE DEF P
<1>9. SUBSET T \subseteq P
  BY <1>2, <1>7, <1>8, Peel
<1>10. T \in P
  BY <1>9
<1> QED
  BY <1>4, <1>10 DEF P

(* A sum of integers is one, that of nothing is zero, and any element may   *)
(* be taken out of it first.                                               *)
LEMMA SumStep ==
  ASSUME NEW S, IsFiniteSet(S), NEW g, \A x \in S : g[x] \in Int
  PROVE  /\ SumOver(g, S) \in Int /\ SumOver(g, {}) = 0
         /\ \A x \in S : SumOver(g, S) = g[x] + SumOver(g, S \ {x}) /\ SumOver(g, S \ {x}) \in Int
<1>1. PICK h \in [SUBSET S -> Int] : IsSumOf(g, S, h)
  BY SumsExist
<1>2. \A T \in SUBSET S : SumOver(g, T) = h[T] /\ h[T] \in Int
  BY <1>1, SumsAre
<1>3. \A T \in SUBSET S : h[T] = SumBody(g, h, T)
  BY <1>1 DEF IsSumOf
<1> DEFINE N == {n \in Nat : \A T \in SUBSET S : Cardinality(T) = n =>
                                \A x \in T : h[T] = g[x] + h[T \ {x}]}
<1>4. 0 \in N
  BY Smaller
<1>5. ASSUME NEW n \in Nat, n \in N PROVE n + 1 \in N
  <2> SUFFICES ASSUME NEW T \in SUBSET S, Cardinality(T) = n + 1, NEW x \in T
               PROVE  h[T] = g[x] + h[T \ {x}]
    OBVIOUS
  <2> DEFINE c == Taken(T)
  <2>1. c \in T
    BY Smaller
  <2>2. h[T] = g[c] + h[T \ {c}]
    BY <1>3 DEF SumBody
  <2> HIDE DEF c
  <2>3. CASE x = c
    BY <2>2, <2>3
  <2>4. CASE x # c
    <3>1. /\ T \ {c} \in SUBSET S /\ T \ {x} \in SUBSET S
          /\ Cardinality(T \ {c}) = n /\ Cardinality(T \ {x}) = n
      <4>1. \A y \in T : T \ {y} \in SUBSET S /\ Cardinality(T \ {y}) = Cardinality(T) - 1
        BY Smaller
      <4> QED
        BY <2>1, <4>1
    <3>2. h[T \ {c}] = g[x] + h[(T \ {c}) \ {x}]
      BY <1>5, <2>4, <3>1
    <3>3. h[T \ {x}] = g[c] + h[(T \ {x}) \ {c}]
      BY <1>5, <2>1, <2>4, <3>1
    <3>4. (T \ {x}) \ {c} = (T \ {c}) \ {x}
      OBVIOUS
    <3>5. h[(T \ {c}) \ {x}] \in Int /\ g[c] \in Int /\ g[x] \in Int
      <4>1. (T \ {c}) \ {x} \in SUBSET S /\ c \in S
        BY <2>1
      <4> QED
        BY <1>2, <4>1
    <3>6. h[T] = g[c] + (g[x] + h[(T \ {c}) \ {x}]) /\ h[T \ {x}] = g[c] + h[(T \ {c}) \ {x}]
      BY <2>2, <3>2, <3>3, <3>4
    <3> QED
      BY <3>5, <3>6
  <2> QED
    BY <2>3, <2>4
<1> HIDE DEF N
<1>6. Cardinality(S) \in N
  <2>1. Nat \subseteq N
    BY <1>4, <1>5, Ind
  <2> QED
    BY <2>1, FS_CardinalityType
<1>7. \A x \in S : h[S] = g[x] + h[S \ {x}]
  BY <1>6 DEF N
<1>8. h[{}] = 0
  BY <1>3 DEF SumBody
<1> QED
  BY <1>2, <1>7, <1>8

(* Functions that agree on a set have one sum over it.                      *)
LEMMA SumSame ==
  ASSUME NEW S, IsFiniteSet(S), NEW g, NEW h, \A x \in S : g[x] \in Int /\ g[x] = h[x]
  PROVE  SumOver(g, S) = SumOver(h, S)
<1> DEFINE P == {T \in SUBSET S : SumOver(g, T) = SumOver(h, T)}
<1>1. {} \in P
  <2>1. IsFiniteSet({}) /\ \A x \in {} : g[x] \in Int /\ h[x] \in Int
    BY FS_EmptySet
  <2> QED
    BY <2>1, SumStep
<1>2. ASSUME NEW T \in SUBSET S, T # {}, T \ {Taken(T)} \in P PROVE T \in P
  <2>1. IsFiniteSet(T) /\ Taken(T) \in T /\ \A x \in T : g[x] \in Int /\ h[x] \in Int /\ g[x] = h[x]
    BY <1>2, Smaller
  <2>2. /\ SumOver(g, T) = g[Taken(T)] + SumOver(g, T \ {Taken(T)})
        /\ SumOver(h, T) = h[Taken(T)] + SumOver(h, T \ {Taken(T)})
    BY <2>1, SumStep
  <2> QED
    BY <1>2, <2>1, <2>2
<1> HIDE DEF P
<1>3. SUBSET S \subseteq P
  BY <1>1, <1>2, Peel
<1>4. S \in P
  BY <1>3
<1> QED
  BY <1>4 DEF P

(* What adds nothing may be left out of a sum.                              *)
LEMMA SumRest ==
  ASSUME NEW S, IsFiniteSet(S), NEW g, \A x \in S : g[x] \in Int,
         NEW R \in SUBSET S, \A x \in S \ R : g[x] = 0
  PROVE  SumOver(g, S) = SumOver(g, R)
<1> DEFINE P == {T \in SUBSET (S \ R) : SumOver(g, R \cup T) = SumOver(g, R)}
<1>1. {} \in P
  <2>1. R \cup {} = R
    OBVIOUS
  <2> QED
    BY <2>1
<1>2. ASSUME NEW T \in SUBSET (S \ R), T # {}, T \ {Taken(T)} \in P PROVE T \in P
  <2>1. Taken(T) \in T
    BY <1>2 DEF Taken
  <2>2. R \cup T \in SUBSET S /\ IsFiniteSet(R \cup T) /\ \A x \in R \cup T : g[x] \in Int
    BY FS_Subset
  <2>3. (R \cup T) \ {Taken(T)} = R \cup (T \ {Taken(T)}) /\ g[Taken(T)] = 0
    BY <2>1
  <2>4. /\ SumOver(g, R \cup T) = g[Taken(T)] + SumOver(g, (R \cup T) \ {Taken(T)})
        /\ SumOver(g, (R \cup T) \ {Taken(T)}) \in Int
    BY <2>1, <2>2, SumStep
  <2>5. SumOver(g, R \cup (T \ {Taken(T)})) = SumOver(g, R)
    BY <1>2
  <2>6. SumOver(g, R \cup T) = 0 + SumOver(g, R) /\ SumOver(g, R) \in Int
    BY <2>3, <2>4, <2>5, Zenon
  <2>7. SumOver(g, R \cup T) = SumOver(g, R)
    <3> HIDE DEF P
    <3> QED
      BY <2>6
  <2> QED
    BY <2>7
<1> HIDE DEF P
<1>3. IsFiniteSet(S \ R)
  BY FS_Subset
<1> DEFINE Q == S \ R
<1>4. SUBSET Q \subseteq P
  <2>1. IsFiniteSet(Q) /\ \A s \in SUBSET Q : s # {} /\ s \ {Taken(s)} \in P => s \in P
    BY <1>2, <1>3
  <2> HIDE DEF Q
  <2> QED
    BY <1>1, <2>1, Peel
<1>5. S \ R \in P
  BY <1>4
<1>6. R \cup (S \ R) = S
  OBVIOUS
<1> QED
  BY <1>5, <1>6 DEF P

(* The sum of differences is the difference of the sums, less what only the *)
(* second one has.                                                         *)
LEMMA SumMinus ==
  ASSUME NEW S, IsFiniteSet(S), NEW R \in SUBSET S, NEW g, NEW h,
         \A x \in R : g[x] \in Int, \A x \in S : h[x] \in Int
  PROVE  SumOver([x \in R |-> g[x] - h[x]], R) - SumOver(h, S \ R) = SumOver(g, R) - SumOver(h, S)
<1> DEFINE d == [x \in R |-> g[x] - h[x]]
           P == {T \in SUBSET R : SumOver(d, T) - SumOver(h, S \ R)
                                    = SumOver(g, T) - SumOver(h, (S \ R) \cup T)}
<1>1. \A x \in R : d[x] = g[x] - h[x] /\ d[x] \in Int /\ g[x] \in Int /\ h[x] \in Int
  OBVIOUS
<1>2. IsFiniteSet(R)
  BY FS_Subset
<1> HIDE DEF d
<1>3. {} \in P
  <2>1. SumOver(d, {}) = 0 /\ SumOver(g, {}) = 0
    BY <1>1, <1>2, SumStep
  <2>2. (S \ R) \cup {} = S \ R
    OBVIOUS
  <2> QED
    BY <2>1, <2>2
<1>4. ASSUME NEW T \in SUBSET R, T # {}, T \ {Taken(T)} \in P PROVE T \in P
  <2> DEFINE U == (S \ R) \cup T
  <2>1. Taken(T) \in T /\ IsFiniteSet(T) /\ IsFiniteSet(U) /\ U \in SUBSET S
        /\ IsFiniteSet(S \ R) /\ S \ R \in SUBSET S
    <3>1. U \in SUBSET S /\ S \ R \in SUBSET S
      OBVIOUS
    <3> QED
      BY <1>2, <1>4, <3>1, FS_Subset, Smaller
  <2>2. U \ {Taken(T)} = (S \ R) \cup (T \ {Taken(T)})
    BY <2>1
  <2>3. Taken(T) \in U /\ \A x \in U : h[x] \in Int
    BY <2>1
  <2> HIDE DEF U
  <2>4. /\ SumOver(d, T) = d[Taken(T)] + SumOver(d, T \ {Taken(T)}) /\ SumOver(d, T \ {Taken(T)}) \in Int
        /\ SumOver(g, T) = g[Taken(T)] + SumOver(g, T \ {Taken(T)}) /\ SumOver(g, T \ {Taken(T)}) \in Int
    BY <1>1, <2>1, SumStep
  <2>5. /\ SumOver(h, U) = h[Taken(T)] + SumOver(h, U \ {Taken(T)}) /\ SumOver(h, U \ {Taken(T)}) \in Int
        /\ SumOver(h, S \ R) \in Int
    BY <2>1, <2>3, SumStep
  <2>6. /\ d[Taken(T)] = g[Taken(T)] - h[Taken(T)] /\ g[Taken(T)] \in Int /\ h[Taken(T)] \in Int
    BY <1>1, <2>1
  <2>7. SumOver(d, T \ {Taken(T)}) - SumOver(h, S \ R)
          = SumOver(g, T \ {Taken(T)}) - SumOver(h, U \ {Taken(T)})
    BY <1>4, <2>2
  <2>8. SumOver(d, T) - SumOver(h, S \ R) = SumOver(g, T) - SumOver(h, U)
    BY <2>4, <2>5, <2>6, <2>7
  <2> QED
    BY <2>8 DEF U
<1> HIDE DEF P
<1>5. SUBSET R \subseteq P
  BY <1>2, <1>3, <1>4, Peel
<1>6. R \in P
  BY <1>5
<1>7. (S \ R) \cup R = S
  OBVIOUS
<1> QED
  BY <1>6, <1>7 DEF P, d

(* What cannot be negative only adds to a sum.                              *)
LEMMA SumGrows ==
  ASSUME NEW S, IsFiniteSet(S), NEW g, \A x \in S : g[x] \in Nat, NEW R \in SUBSET S
  PROVE  SumOver(g, R) <= SumOver(g, S)
<1> DEFINE P == {T \in SUBSET (S \ R) : SumOver(g, R) <= SumOver(g, R \cup T)}
<1>1. {} \in P
  <2>1. R \cup {} = R
    OBVIOUS
  <2>2. SumOver(g, R) \in Int
    <3>1. IsFiniteSet(R) /\ \A x \in R : g[x] \in Int
      BY FS_Subset
    <3> QED
      BY <3>1, SumStep
  <2> QED
    BY <2>1, <2>2
<1>2. ASSUME NEW T \in SUBSET (S \ R), T # {}, T \ {Taken(T)} \in P PROVE T \in P
  <2>1. Taken(T) \in T
    BY <1>2 DEF Taken
  <2>2. /\ R \cup T \in SUBSET S /\ IsFiniteSet(R \cup T) /\ \A x \in R \cup T : g[x] \in Int
        /\ IsFiniteSet(R) /\ \A x \in R : g[x] \in Int
    BY FS_Subset
  <2>3. (R \cup T) \ {Taken(T)} = R \cup (T \ {Taken(T)}) /\ g[Taken(T)] \in Nat
    BY <2>1
  <2>4. /\ SumOver(g, R \cup T) = g[Taken(T)] + SumOver(g, (R \cup T) \ {Taken(T)})
        /\ SumOver(g, (R \cup T) \ {Taken(T)}) \in Int /\ SumOver(g, R) \in Int
    BY <2>1, <2>2, SumStep
  <2>5. SumOver(g, R) <= SumOver(g, R \cup (T \ {Taken(T)}))
    BY <1>2
  <2>6. SumOver(g, R) <= SumOver(g, R \cup T)
    <3> DEFINE rest == SumOver(g, R \cup (T \ {Taken(T)}))
    <3>1. SumOver(g, R \cup T) = g[Taken(T)] + rest /\ rest \in Int
      BY <2>3, <2>4, Zenon
    <3>2. SumOver(g, R) <= rest
      BY <2>5
    <3> HIDE DEF P, rest
    <3> QED
      BY <2>3, <2>4, <3>1, <3>2
  <2> QED
    BY <2>6
<1> HIDE DEF P
<1> DEFINE Q == S \ R
<1>3. IsFiniteSet(Q)
  BY FS_Subset
<1>4. SUBSET Q \subseteq P
  <2>1. \A s \in SUBSET Q : s # {} /\ s \ {Taken(s)} \in P => s \in P
    BY <1>2
  <2> HIDE DEF Q
  <2> QED
    BY <1>1, <1>3, <2>1, Peel
<1>5. Q \in P
  BY <1>4
<1>6. R \cup Q = S
  OBVIOUS
<1> QED
  BY <1>5, <1>6 DEF P

(* A finite set of numbers has a greatest one.                              *)
LEMMA MaxIs ==
  ASSUME NEW S \in SUBSET Nat, IsFiniteSet(S), S # {}
  PROVE  Max(S) \in S /\ \A x \in S : x <= Max(S)
<1> DEFINE P == {T \in SUBSET S : T = {} \/ \E m \in T : \A t \in T : t <= m}
<1>1. {} \in P
  OBVIOUS
<1>2. ASSUME NEW T \in SUBSET S, T # {}, T \ {Taken(T)} \in P PROVE T \in P
  <2> DEFINE x == Taken(T)
  <2>1. x \in T
    BY <1>2 DEF Taken
  <2> HIDE DEF x
  <2>2. T \ {x} = {} \/ \E m \in T \ {x} : \A t \in T \ {x} : t <= m
    BY <1>2 DEF x
  <2>3. CASE T \ {x} = {}
    BY <2>1, <2>3
  <2>4. ASSUME NEW m \in T \ {x}, \A t \in T \ {x} : t <= m PROVE T \in P
    <3>1. CASE m <= x
      BY <2>1, <2>4, <3>1
    <3>2. CASE x <= m
      BY <2>1, <2>4, <3>2
    <3> QED
      BY <2>1, <3>1, <3>2
  <2> QED
    BY <2>2, <2>3, <2>4
<1> HIDE DEF P
<1>3. SUBSET S \subseteq P
  BY <1>1, <1>2, Peel
<1>4. S \in P
  BY <1>3
<1>5. \E m \in S : \A t \in S : t <= m
  BY <1>4 DEF P
<1> QED
  BY <1>5 DEF Max

(* And any set of numbers has a least one.                                  *)
LEMMA MinIs ==
  ASSUME NEW S \in SUBSET Nat, S # {}
  PROVE  Min(S) \in S /\ \A x \in S : Min(S) <= x
BY Least DEF Min

(* The values a function takes on a finite set are finitely many.           *)
LEMMA FiniteImage ==
  ASSUME NEW S, IsFiniteSet(S), NEW f
  PROVE  IsFiniteSet({f[x] : x \in S})
<1> DEFINE T == {f[x] : x \in S}
           g == [x \in S |-> f[x]]
<1>1. g \in [S -> T]
  OBVIOUS
<1>2. \A t \in T : \E s \in S : g[s] = t
  OBVIOUS
<1> HIDE DEF g, T
<1>3. g \in Surjection(S, T)
  BY <1>1, <1>2, Zenon DEF Surjection
<1>4. IsFiniteSet(T)
  BY <1>3, FS_Surjection
<1> QED
  BY <1>4 DEF T

-----------------------------------------------------------------------------
(* Ranks and lists *)

(* Where an element of S comes if R says which of two is first.             *)
Place(S, R, a) == 1 + Cardinality({b \in S \ {a} : <<b, a>> \in R})

(* Under a strict total order there is one element of a finite set at every *)
(* place.                                                                  *)
LEMMA Placed ==
  ASSUME NEW S, IsFiniteSet(S), NEW R,
         \A a, b \in S : a # b => (<<a, b>> \in R <=> <<b, a>> \notin R),
         \A a, b, c \in S : a # b /\ b # c /\ a # c /\ <<a, b>> \in R /\ <<b, c>> \in R => <<a, c>> \in R
  PROVE  /\ \A i \in 1 .. Cardinality(S) : \E a \in S : Place(S, R, a) = i
         /\ \A a, b \in S : a # b /\ <<a, b>> \in R => Place(S, R, a) < Place(S, R, b)
<1> DEFINE Before(a) == {b \in S \ {a} : <<b, a>> \in R}
           n == Cardinality(S)
           f == [a \in S |-> Place(S, R, a)]
<1>1. ASSUME NEW a \in S
      PROVE  /\ IsFiniteSet(Before(a)) /\ Cardinality(Before(a)) \in Nat /\ Cardinality(Before(a)) <= n - 1
             /\ Place(S, R, a) = 1 + Cardinality(Before(a))
  <2>1. IsFiniteSet(S \ {a}) /\ Cardinality(S \ {a}) = n - 1
    BY FS_RemoveElement
  <2>2. Before(a) \in SUBSET (S \ {a})
    OBVIOUS
  <2> HIDE DEF n
  <2>3. IsFiniteSet(Before(a)) /\ Cardinality(Before(a)) <= n - 1
    <3> HIDE DEF Before
    <3> QED
      BY <2>1, <2>2, FS_Subset
  <2>4. Cardinality(Before(a)) \in Nat
    BY <2>3, FS_CardinalityType
  <2> QED
    BY <2>3, <2>4 DEF Place
<1>2. ASSUME NEW a \in S, NEW b \in S, a # b, <<a, b>> \in R
      PROVE  Place(S, R, a) < Place(S, R, b)
  <2>1. Before(a) \in SUBSET Before(b) /\ a \in Before(b) /\ a \notin Before(a)
    BY <1>2
  <2> HIDE DEF Before
  <2>2. Cardinality(Before(a)) <= Cardinality(Before(b)) /\ Cardinality(Before(a)) # Cardinality(Before(b))
    BY <1>1, <2>1, FS_Subset
  <2> QED
    BY <1>1, <2>2
<1>3. n \in Nat /\ IsFiniteSet(1 .. n) /\ Cardinality(1 .. n) = n
  BY FS_CardinalityType, FS_Interval
<1>4. f \in [S -> 1 .. n]
  <2> SUFFICES ASSUME NEW a \in S PROVE Place(S, R, a) \in 1 .. n
    OBVIOUS
  <2> HIDE DEF n, Before
  <2> QED
    BY <1>1, <1>3
<1>5. \A a, b \in S : f[a] = f[b] => a = b
  <2> SUFFICES ASSUME NEW a \in S, NEW b \in S, a # b PROVE Place(S, R, a) # Place(S, R, b)
    OBVIOUS
  <2>1. Place(S, R, a) < Place(S, R, b) \/ Place(S, R, b) < Place(S, R, a)
    BY <1>2
  <2>2. Place(S, R, a) \in Nat /\ Place(S, R, b) \in Nat
    <3> HIDE DEF Before
    <3> QED
      BY <1>1
  <2> QED
    BY <2>1, <2>2
<1> HIDE DEF f, n
<1>6. f \in Injection(S, 1 .. n)
  BY <1>4, <1>5, Zenon DEF Injection, IsInjective
<1>7. f \in Surjection(S, 1 .. n)
  BY <1>3, <1>6, FS_Injection DEF n
<1>8. \A i \in 1 .. n : \E a \in S : f[a] = i
  BY <1>7, Zenon DEF Surjection
<1> QED
  BY <1>2, <1>8 DEF f, n

(* Two lists of a set, both in a weak order, have at every place what the   *)
(* order does not tell apart: before what R puts in front of g[i] stand    *)
(* fewer than i in g, and f[i] and all before it would be among them.      *)
IsWeak(S, R) == \A a, b, c \in S : <<a, c>> \in R => <<a, b>> \in R \/ <<b, c>> \in R
Lists(f, n, S, R) ==
  /\ f \in [1 .. n -> S]
  /\ \A i, j \in 1 .. n : i # j => f[i] # f[j]
  /\ \A a \in S : \E i \in 1 .. n : f[i] = a
  /\ \A i, j \in 1 .. n : i <= j => <<f[j], f[i]>> \notin R
LEMMA SameRank ==
  ASSUME NEW S, NEW R, NEW n \in Nat, NEW f, NEW g, IsWeak(S, R), Lists(f, n, S, R), Lists(g, n, S, R)
  PROVE  \A i \in 1 .. n : <<f[i], g[i]>> \notin R
<1> SUFFICES ASSUME NEW i \in 1 .. n, <<f[i], g[i]>> \in R PROVE FALSE
  OBVIOUS
<1>0. /\ \A a, b, c \in S : <<a, c>> \in R => <<a, b>> \in R \/ <<b, c>> \in R
      /\ f \in [1 .. n -> S] /\ g \in [1 .. n -> S]
      /\ \A x, y \in 1 .. n : x # y => f[x] # f[y]
      /\ \A a \in S : \E x \in 1 .. n : g[x] = a
      /\ \A x, y \in 1 .. n : x <= y => <<f[y], f[x]>> \notin R /\ <<g[y], g[x]>> \notin R
  BY DEF IsWeak, Lists
<1>1. ASSUME NEW k \in 1 .. i PROVE \E m \in 1 .. i - 1 : g[m] = f[k]
  <2>1. k \in 1 .. n /\ (k = i \/ k < i)
    BY ONLY n \in Nat, i \in 1 .. n, k \in 1 .. i
  <2>2. <<f[k], g[i]>> \in R
    <3>1. f[i] \in S /\ f[k] \in S /\ g[i] \in S
      BY <1>0, <2>1
    <3>2. ASSUME k < i PROVE <<f[i], f[k]>> \notin R
      <4>1. k <= i
        BY ONLY n \in Nat, i \in 1 .. n, k \in 1 .. i, <3>2
      <4> QED
        BY <1>0, <2>1, <4>1
    <3> QED
      BY <1>0, <2>1, <3>1, <3>2
  <2>3. PICK m \in 1 .. n : g[m] = f[k]
    BY <1>0, <2>1
  <2>4. ~(i <= m)
    BY <1>0, <2>2, <2>3
  <2> QED
    BY <2>3, <2>4
<1> DEFINE h == [k \in 1 .. i |-> CHOOSE m \in 1 .. i - 1 : g[m] = f[k]]
<1>2. \A k \in 1 .. i : h[k] \in 1 .. i - 1 /\ g[h[k]] = f[k]
  BY <1>1
<1>3. h \in [1 .. i -> 1 .. i - 1]
  BY <1>2
<1> HIDE DEF h
<1>4. /\ IsFiniteSet(1 .. i) /\ Cardinality(1 .. i) = i
      /\ IsFiniteSet(1 .. i - 1) /\ Cardinality(1 .. i - 1) = i - 1
  <2>1. /\ 1 \in Int /\ i \in Int /\ i - 1 \in Int /\ ~(1 > i) /\ i - 1 + 1 = i
        /\ (1 > i - 1 => i - 1 = 0) /\ (i - 1) - 1 + 1 = i - 1
    OBVIOUS
  <2> QED
    BY <2>1, FS_Interval
<1>5. PICK x \in 1 .. i, y \in 1 .. i : x # y /\ h[x] = h[y]
  <2>1. Cardinality(1 .. i - 1) < Cardinality(1 .. i)
    BY <1>4
  <2> QED
    BY ONLY <1>3, <1>4, <2>1, FS_PigeonHole
<1>6. f[x] = f[y] /\ x \in 1 .. n /\ y \in 1 .. n
  <2>1. g[h[x]] = f[x] /\ g[h[y]] = f[y]
    BY <1>2
  <2>2. x \in 1 .. n /\ y \in 1 .. n
    BY ONLY n \in Nat, i \in 1 .. n, x \in 1 .. i, y \in 1 .. i
  <2> QED
    BY ONLY <1>5, <2>1, <2>2
<1> QED
  BY <1>0, <1>5, <1>6

(* What solves the recursion of FlattenSeq is what it chooses.              *)
IsFlat(s, n, f) == f = [i \in 1 .. n |-> IF i = 1 THEN s[i] ELSE f[i - 1] \o s[i]]
LEMMA Flattened ==
  ASSUME NEW s, NEW n \in Nat \ {0}, Len(s) = n, NEW g, IsFlat(s, n, g)
  PROVE  FlattenSeq(s) = g[n]
<1> DEFINE f == CHOOSE h : IsFlat(s, n, h)
           N == {k \in Nat : k + 1 \in 1 .. n => f[k + 1] = g[k + 1]}
<1>1. IsFlat(s, n, f)
  OBVIOUS
<1>2. FlattenSeq(s) = f[n]
  BY DEF FlattenSeq, IsFlat
<1> HIDE DEF f
<1>3. \A h : IsFlat(s, n, h) =>
        h[1] = s[1] /\ \A k \in Nat : k + 2 \in 1 .. n => h[k + 2] = h[k + 1] \o s[k + 2]
  <2> SUFFICES ASSUME NEW h, IsFlat(s, n, h)
               PROVE  h[1] = s[1] /\ \A k \in Nat : k + 2 \in 1 .. n => h[k + 2] = h[k + 1] \o s[k + 2]
    OBVIOUS
  <2>1. h[1] = s[1]
    BY DEF IsFlat
  <2>2. ASSUME NEW k \in Nat, k + 2 \in 1 .. n PROVE h[k + 2] = h[k + 1] \o s[k + 2]
    <3>1. k + 2 # 1 /\ (k + 2) - 1 = k + 1
      OBVIOUS
    <3> QED
      BY <2>2, <3>1 DEF IsFlat
  <2> QED
    BY <2>1, <2>2
<1>4. f[1] = g[1] /\ \A k \in Nat : k + 2 \in 1 .. n /\ f[k + 1] = g[k + 1] => f[k + 2] = g[k + 2]
  <2>1. f[1] = s[1] /\ \A k \in Nat : k + 2 \in 1 .. n => f[k + 2] = f[k + 1] \o s[k + 2]
    BY ONLY <1>1, <1>3, Zenon
  <2>2. g[1] = s[1] /\ \A k \in Nat : k + 2 \in 1 .. n => g[k + 2] = g[k + 1] \o s[k + 2]
    BY <1>3, Zenon
  <2> QED
    BY ONLY <2>1, <2>2, Zenon
<1>5. 0 \in N
  BY <1>4
<1>6. \A k \in Nat : k \in N <=> (k + 1 \in 1 .. n => f[k + 1] = g[k + 1])
  OBVIOUS
<1> HIDE DEF N
<1>7. ASSUME NEW k \in Nat, k \in N PROVE k + 1 \in N
  <2>1. ASSUME (k + 1) + 1 \in 1 .. n PROVE f[(k + 1) + 1] = g[(k + 1) + 1]
    <3>1. k + 1 \in 1 .. n /\ k + 2 \in 1 .. n /\ (k + 1) + 1 = k + 2
      BY <2>1
    <3>2. f[k + 1] = g[k + 1]
      BY <1>6, <1>7, <3>1
    <3> QED
      BY <1>4, <3>1, <3>2
  <2> QED
    BY <1>6, <2>1
<1>8. Nat \subseteq N
  BY ONLY <1>5, <1>7, Ind
<1>9. n - 1 \in N
  BY <1>8
<1> QED
  BY <1>2, <1>9 DEF N
=============================================================================
