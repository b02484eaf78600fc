------------------------- MODULE MarketBreadthProofs -------------------------
(***************************************************************************)
(* Proofs about MarketBreadth, for any universe, any feeds and any number  *)
(* of days: the table of a day adds up to its counts as long as only one   *)
(* of the three statements of a refresh on the store ever fails, the       *)
(* averages of the page are those of the rows it marks, and an alert has   *)
(* its reason among them.  The theorems about the decoders of VendorFeed,  *)
(* which count what is in lists in the same way, are at the end.           *)
(***************************************************************************)
EXTENDS MarketBreadth, VendorFeed, FiniteSetTheorems, SequenceTheorems,
        WellFoundedInduction, TLAPS

-----------------------------------------------------------------------------
(* Induction, over numbers and over finite sets.  The sets of good numbers   *)
(* and of good subsets take the place of a predicate.                        *)

LEMMA NatSteps ==
    ASSUME NEW P, 0 \in P, \A n \in Nat : n \in P => n + 1 \in P
    PROVE  \A n \in Nat : n \in P
<1> DEFINE R == OpToRel(<, Nat)
           Bad == Nat \ P
<1>1. IsWellFoundedOn(R, Nat)
  BY NatLessThanWellFounded
<1>2. \A x, y \in Nat : x < y => <<x, y>> \in R
  BY DEF OpToRel
<1> HIDE DEF R
<1>3. SUFFICES ASSUME Bad # {} PROVE FALSE
  OBVIOUS
<1>4. PICK x \in Bad : \A y \in Bad : ~ (<<y, x>> \in R)
  BY <1>1, <1>3, WFMin
<1>5. x \in Nat /\ x # 0 /\ x \notin P
  OBVIOUS
<1>6. x - 1 \in Nat /\ x - 1 < x
  BY <1>5
<1>7. x - 1 \in P
  BY <1>2, <1>4, <1>5, <1>6
<1>8. (x - 1) + 1 \in P
  BY <1>6, <1>7
<1> QED
  BY <1>5, <1>8

\* A property of subsets holds of all if it holds of a set whenever it holds
\* of that set without any one of its elements.
LEMMA SetSteps ==
    ASSUME NEW S, IsFiniteSet(S), NEW P,
           \A T \in SUBSET S : (\A x \in T : T \ {x} \in P) => T \in P
    PROVE  \A T \in SUBSET S : T \in P
<1> DEFINE Q == {n \in Nat : \A T \in SUBSET S : Cardinality(T) = n => T \in P}
<1>1. \A T \in SUBSET S : IsFiniteSet(T) /\ Cardinality(T) \in Nat
  BY FS_Subset, FS_CardinalityType
<1>2. 0 \in Q
  <2>1. ASSUME NEW T \in SUBSET S, Cardinality(T) = 0 PROVE T \in P
    <3>1. T = {}
      BY <1>1, <2>1, FS_EmptySet
    <3> QED
      BY <3>1
  <2> QED
    BY <2>1
<1>3. ASSUME NEW n \in Nat, n \in Q PROVE n + 1 \in Q
  <2>1. ASSUME NEW T \in SUBSET S, Cardinality(T) = n + 1 PROVE T \in P
    <3>1. ASSUME NEW x \in T PROVE T \ {x} \in P
      <4>1. Cardinality(T \ {x}) = n
        <5>1. Cardinality(T \ {x}) = Cardinality(T) - 1
          BY <1>1, FS_RemoveElement
        <5> QED
          BY <2>1, <5>1
      <4> QED
        BY <1>3, <4>1
    <3> QED
      BY <3>1
  <2> QED
    BY <2>1
<1> HIDE DEF Q
<1>4. \A n \in Nat : n \in Q
  BY <1>2, <1>3, NatSteps
<1> QED
  BY <1>1, <1>4 DEF Q

\* A finite set of integers that is not empty has a greatest element.
LEMMA HasGreatest ==
    ASSUME NEW S \in SUBSET Int, IsFiniteSet(S), S # {}
    PROVE  \E m \in S : \A x \in S : x <= m
<1> DEFINE P == {T \in SUBSET S : T # {} => \E m \in T : \A x \in T : x <= m}
<1>1. ASSUME NEW T \in SUBSET S, \A x \in T : T \ {x} \in P PROVE T \in P
  <2>1. CASE T = {}
    BY <2>1
  <2>2. CASE T # {}
    <3>1. PICK y \in T : TRUE
      BY <2>2
    <3>2. CASE T \ {y} = {}
      BY <3>2
    <3>3. CASE T \ {y} # {}
      <4>1. PICK m \in T \ {y} : \A x \in T \ {y} : x <= m
        BY <1>1, <3>3
      <4>2. m \in Int /\ y \in Int
        OBVIOUS
      <4>3. CASE y <= m
        BY <4>1, <4>3
      <4>4. CASE m <= y
        <5>1. \A x \in T : x <= y
          BY <4>1, <4>2, <4>4
        <5> QED
          BY <5>1
      <4> QED
        BY <4>2, <4>3, <4>4
    <3> QED
      BY <3>2, <3>3
  <2> QED
    BY <2>1, <2>2
<1> HIDE DEF P
<1>2. S \in P
  BY <1>1, SetSteps
<1> QED
  BY <1>2 DEF P

Below(S, d) == {e \in S : e < d}

\* Each position of a finite set of integers is taken.
LEMMA NthExists ==
    ASSUME NEW S \in SUBSET Int, IsFiniteSet(S)
    PROVE  \A i \in 1 .. Cardinality(S) : \E d \in S : Cardinality(Below(S, d)) = i - 1
<1> DEFINE P == {T \in SUBSET S : \A i \in 1 .. Cardinality(T) :
                    \E d \in T : Cardinality(Below(T, d)) = i - 1}
<1>0. \A T \in SUBSET S : IsFiniteSet(T) /\ Cardinality(T) \in Nat /\ T \in SUBSET Int
  BY FS_Subset, FS_CardinalityType
<1>1. ASSUME NEW T \in SUBSET S, \A x \in T : T \ {x} \in P PROVE T \in P
  <2> SUFFICES ASSUME NEW i \in 1 .. Cardinality(T)
               PROVE  \E d \in T : Cardinality(Below(T, d)) = i - 1
    OBVIOUS
  <2>1. T # {}
    BY FS_EmptySet
  <2>2. PICK m \in T : \A x \in T : x <= m
    BY <1>0, <2>1, HasGreatest
  <2>3. Cardinality(T \ {m}) = Cardinality(T) - 1
    BY <1>0, FS_RemoveElement
  <2>4. CASE i = Cardinality(T)
    <3>0. \A x \in T : x < m <=> x # m
      BY <1>0, <2>2
    <3>1. Below(T, m) = T \ {m}
      BY <3>0 DEF Below
    <3> QED
      BY <2>3, <2>4, <3>1
  <2>5. CASE i # Cardinality(T)
    <3>1. i \in 1 .. Cardinality(T \ {m})
      BY <1>0, <2>3, <2>5
    <3>2. PICK d \in T \ {m} : Cardinality(Below(T \ {m}, d)) = i - 1
      BY <1>1, <3>1
    <3>3. Below(T \ {m}, d) = Below(T, d)
      BY <1>0, <2>2 DEF Below
    <3> QED
      BY <3>2, <3>3
  <2> QED
    BY <2>4, <2>5
<1> HIDE DEF P
<1>2. S \in P
  BY <1>1, SetSteps
<1> QED
  BY <1>2 DEF P

\* A smaller element has a lower position.
LEMMA BelowGrows ==
    ASSUME NEW S \in SUBSET Int, IsFiniteSet(S), NEW d \in S, NEW e \in S, d < e
    PROVE  /\ Cardinality(Below(S, d)) \in Nat /\ Cardinality(Below(S, e)) \in Nat
           /\ Cardinality(Below(S, d)) < Cardinality(Below(S, e))
           /\ Cardinality(Below(S, e)) < Cardinality(S)
<1> DEFINE D == Below(S, d)
           E == Below(S, e)
<1>1. D \subseteq E \ {d} /\ E \subseteq S \ {e} /\ d \in E
  <2>1. d \in Int /\ e \in Int /\ \A x \in S : x \in Int /\ ~ (x < x)
    OBVIOUS
  <2>2. \A x \in S : x < d => x < e
    BY <2>1
  <2> QED
    BY <2>1, <2>2 DEF Below
<1>2. IsFiniteSet(E) /\ IsFiniteSet(S \ {e}) /\ IsFiniteSet(E \ {d})
  BY <1>1, FS_Subset, FS_RemoveElement
<1> HIDE DEF D, E
<1>3. Cardinality(E \ {d}) = Cardinality(E) - 1 /\ Cardinality(S \ {e}) = Cardinality(S) - 1
  BY <1>1, <1>2, FS_RemoveElement
<1>4. IsFiniteSet(D) /\ Cardinality(D) <= Cardinality(E \ {d})
  BY <1>1, <1>2, FS_Subset
<1>5. Cardinality(E) <= Cardinality(S \ {e})
  BY <1>1, <1>2, FS_Subset
<1>6. Cardinality(D) \in Nat /\ Cardinality(E) \in Nat /\ Cardinality(S) \in Nat
  BY <1>2, <1>4, FS_CardinalityType
<1>7. Cardinality(D) < Cardinality(E) /\ Cardinality(E) < Cardinality(S)
  BY <1>3, <1>4, <1>5, <1>6
<1> QED
  BY <1>6, <1>7 DEF D, E

\* Nth lists a finite set of integers, in order.
LEMMA NthLists ==
    ASSUME NEW S \in SUBSET Int, IsFiniteSet(S)
    PROVE  /\ \A i \in 1 .. Cardinality(S) : Nth(S, i) \in S
           /\ \A i \in 1 .. Cardinality(S) : Cardinality(Below(S, Nth(S, i))) = i - 1
           /\ \A d \in S : /\ Cardinality(Below(S, d)) + 1 \in 1 .. Cardinality(S)
                           /\ Nth(S, Cardinality(Below(S, d)) + 1) = d
<1>1. ASSUME NEW i \in 1 .. Cardinality(S)
      PROVE  Nth(S, i) \in S /\ Cardinality(Below(S, Nth(S, i))) = i - 1
  <2>1. \E d \in S : Cardinality(Below(S, d)) = i - 1
    BY NthExists
  <2> QED
    BY <2>1 DEF Nth, Below
<1>2. ASSUME NEW d \in S
      PROVE  Cardinality(Below(S, d)) + 1 \in 1 .. Cardinality(S)
  <2>1. Below(S, d) \subseteq S \ {d}
    BY DEF Below
  <2>2. IsFiniteSet(S \ {d}) /\ Cardinality(S \ {d}) = Cardinality(S) - 1
    BY FS_RemoveElement
  <2>3. IsFiniteSet(Below(S, d)) /\ Cardinality(Below(S, d)) <= Cardinality(S \ {d})
    BY <2>1, <2>2, FS_Subset
  <2>4. Cardinality(Below(S, d)) \in Nat /\ Cardinality(S) \in Nat
    BY <2>3, FS_CardinalityType
  <2> QED
    BY <2>2, <2>3, <2>4
<1>3. ASSUME NEW d \in S
      PROVE  Nth(S, Cardinality(Below(S, d)) + 1) = d
  <2> DEFINE k == Cardinality(Below(S, d)) + 1
             e == Nth(S, k)
  <2>1. k \in 1 .. Cardinality(S)
    BY <1>2
  <2>2. Cardinality(Below(S, d)) \in Nat
    <3>1. IsFiniteSet(Below(S, d))
      BY FS_Subset DEF Below
    <3> QED
      BY <3>1, FS_CardinalityType
  <2>3. Cardinality(Below(S, d)) = k - 1
    BY <2>2
  <2> HIDE DEF k
  <2>4. e \in S /\ Cardinality(Below(S, e)) = k - 1
    BY <1>1, <2>1
  <2> HIDE DEF e
  <2>5. d \in Int /\ e \in Int
    BY <2>4
  <2>6. ~ (d < e) /\ ~ (e < d)
    BY <2>3, <2>4, BelowGrows
  <2>7. e = d
    BY <2>5, <2>6
  <2> QED
    BY <2>7 DEF e, k
<1> QED
  BY <1>1, <1>2, <1>3

\* The n-th number of an interval from 1.
LEMMA NthOfAll ==
    ASSUME NEW n \in Nat, NEW i \in 1 .. n
    PROVE  Nth(1 .. n, i) = i
<1>1. Below(1 .. n, i) = 1 .. i - 1
  BY DEF Below
<1>2. Cardinality(1 .. i - 1) = i - 1
  BY FS_Interval
<1>3. IsFiniteSet(1 .. n) /\ 1 .. n \in SUBSET Int
  BY FS_Interval
<1>4. (i - 1) + 1 = i
  OBVIOUS
<1> QED
  BY <1>1, <1>2, <1>3, <1>4, NthLists

-----------------------------------------------------------------------------
(* Sums.  A fold of the library is a function f over the subsets of S that   *)
(* takes out one element, ch[T], at a time.                                  *)

FoldsTo(f, S, v, ch) ==
    f = [T \in SUBSET S |-> IF T = {} THEN 0 ELSE v[ch[T]] + f[T \ {ch[T]}]]

Chooses(ch, S) == \A T \in SUBSET S : T # {} => ch[T] \in T

Summable(S, v) == IsFiniteSet(S) /\ \A x \in S : v[x] \in Int

IsSum(f, S, v, ch) == Summable(S, v) /\ Chooses(ch, S) /\ FoldsTo(f, S, v, ch)

\* There is such a function.
LEMMA SumExists ==
    ASSUME NEW S, IsFiniteSet(S), NEW v, NEW ch, Chooses(ch, S)
    PROVE  \E f : FoldsTo(f, S, v, ch)
<1> DEFINE Good(f, n) == \A T \in SUBSET S : Cardinality(T) <= n =>
                            f[T] = IF T = {} THEN 0 ELSE v[ch[T]] + f[T \ {ch[T]}]
           Q == {n \in Nat : \E f : Good(f, n)}
           Step(f) == [T \in SUBSET S |-> IF T = {} THEN 0 ELSE v[ch[T]] + f[T \ {ch[T]}]]
<1>1. \A T \in SUBSET S : IsFiniteSet(T) /\ Cardinality(T) \in Nat
  BY FS_Subset, FS_CardinalityType
<1>2. 0 \in Q
  <2> DEFINE f == [T \in SUBSET S |-> 0]
  <2>1. \A T \in SUBSET S : Cardinality(T) <= 0 => T = {}
    BY <1>1, FS_EmptySet
  <2>2. Good(f, 0)
    BY <2>1
  <2> HIDE DEF Good, f
  <2> QED
    BY <2>2
<1>3. ASSUME NEW n \in Nat, n \in Q PROVE n + 1 \in Q
  <2>1. PICK f : Good(f, n)
    BY <1>3
  <2> DEFINE g == Step(f)
  <2>2. Good(g, n + 1)
    <3> SUFFICES ASSUME NEW T \in SUBSET S, Cardinality(T) <= n + 1
                 PROVE  g[T] = IF T = {} THEN 0 ELSE v[ch[T]] + g[T \ {ch[T]}]
      OBVIOUS
    <3>1. CASE T = {}
      BY <3>1
    <3>2. CASE T # {}
      <4> DEFINE U == T \ {ch[T]}
      <4>1. ch[T] \in T /\ U \in SUBSET S
        BY <3>2 DEF Chooses
      <4>2. Cardinality(U) = Cardinality(T) - 1
        BY <1>1, <4>1, FS_RemoveElement
      <4>3. Cardinality(U) <= n
        BY <1>1, <4>1, <4>2
      <4>4. f[U] = IF U = {} THEN 0 ELSE v[ch[U]] + f[U \ {ch[U]}]
        BY <2>1, <4>1, <4>3
      <4>5. g[U] = IF U = {} THEN 0 ELSE v[ch[U]] + f[U \ {ch[U]}]
        BY <4>1
      <4>6. g[T] = v[ch[T]] + f[U]
        BY <3>2
      <4> QED
        BY <3>2, <4>4, <4>5, <4>6
    <3> QED
      BY <3>1, <3>2
  <2> HIDE DEF Good, g
  <2> QED
    BY <2>2
<1> HIDE DEF Q
<1>4. \A n \in Nat : n \in Q
  BY <1>2, <1>3, NatSteps
<1>5. Cardinality(S) \in Nat
  BY FS_CardinalityType
<1>6. PICK f : Good(f, Cardinality(S))
  BY <1>4, <1>5 DEF Q
<1> DEFINE g == [T \in SUBSET S |-> f[T]]
<1>7. \A T \in SUBSET S : Cardinality(T) <= Cardinality(S)
  BY FS_Subset
<1>8. \A T \in SUBSET S : g[T] = IF T = {} THEN 0 ELSE v[ch[T]] + g[T \ {ch[T]}]
  <2> TAKE T \in SUBSET S
  <2>1. T \ {ch[T]} \in SUBSET S
    OBVIOUS
  <2>2. f[T] = IF T = {} THEN 0 ELSE v[ch[T]] + f[T \ {ch[T]}]
    BY <1>6, <1>7
  <2> QED
    BY <2>1, <2>2
<1>9. g = Step(g)
  BY <1>8
<1> HIDE DEF g
<1> QED
  BY <1>9 DEF FoldsTo

\* Whichever element is chosen, any other may be taken out instead.
LEMMA SumTakesOut ==
    ASSUME NEW S, NEW v, NEW ch, NEW f, IsSum(f, S, v, ch)
    PROVE  /\ f[{}] = 0
           /\ \A T \in SUBSET S : /\ f[T] \in Int
                                  /\ \A x \in T : f[T] = v[x] + f[T \ {x}]
<1> DEFINE Z == {T \in SUBSET S : f[T] \in Int}
           P == {T \in SUBSET S : \A x \in T : f[T] = v[x] + f[T \ {x}]}
<1>1. \A T \in SUBSET S : f[T] = IF T = {} THEN 0 ELSE v[ch[T]] + f[T \ {ch[T]}]
  BY DEF IsSum, FoldsTo
<1>2. \A T \in SUBSET S : T # {} => ch[T] \in T
  BY DEF IsSum, Chooses
<1>8. IsFiniteSet(S) /\ \A x \in S : v[x] \in Int
  BY DEF IsSum, Summable
<1>5. f[{}] = 0
  BY <1>1
<1>6. \A T \in SUBSET S : T \in Z
  <2>1. ASSUME NEW T \in SUBSET S, \A x \in T : T \ {x} \in Z PROVE f[T] \in Int
    <3>1. CASE T = {}
      BY <1>5, <3>1
    <3>2. CASE T # {}
      <4>1. ch[T] \in T /\ f[T] = v[ch[T]] + f[T \ {ch[T]}]
        BY <1>1, <1>2, <3>2
      <4>2. v[ch[T]] \in Int /\ f[T \ {ch[T]}] \in Int
        BY <1>8, <2>1, <4>1
      <4> HIDE DEF Z, P
      <4> QED
        BY <4>1, <4>2
    <3> QED
      BY <3>1, <3>2
  <2>2. \A T \in SUBSET S : (\A x \in T : T \ {x} \in Z) => T \in Z
    BY <2>1
  <2> HIDE DEF Z
  <2> QED
    BY <1>8, <2>2, SetSteps
<1>7. \A T \in SUBSET S : f[T] \in Int
  BY <1>6
<1> HIDE DEF Z
<1>3. ASSUME NEW T \in SUBSET S, \A x \in T : T \ {x} \in P PROVE T \in P
  <2>1. CASE T = {}
    BY <2>1
  <2>2. CASE T # {}
    <3> DEFINE y == ch[T]
    <3>1. y \in T /\ f[T] = v[y] + f[T \ {y}]
      BY <1>1, <1>2, <2>2
    <3> HIDE DEF y
    <3>2. v[y] \in Int
      BY <1>8, <3>1
    <3>3. ASSUME NEW x \in T PROVE f[T] = v[x] + f[T \ {x}]
      <4>1. CASE x = y
        BY <3>1, <4>1
      <4>2. CASE x # y
        <5> DEFINE U == (T \ {x}) \ {y}
        <5>1. f[T \ {y}] = v[x] + f[(T \ {y}) \ {x}]
          BY <1>3, <3>1, <4>2
        <5>2. f[T \ {x}] = v[y] + f[U]
          BY <1>3, <3>1, <4>2
        <5>3. (T \ {y}) \ {x} = U
          OBVIOUS
        <5>4. v[x] \in Int /\ f[U] \in Int
          BY <1>7, <1>8
        <5> HIDE DEF U
        <5>5. f[T] = v[y] + (v[x] + f[U])
          BY <3>1, <5>1, <5>3
        <5>6. v[y] + (v[x] + f[U]) = v[x] + (v[y] + f[U])
          BY <3>2, <5>4
        <5> QED
          BY <5>2, <5>5, <5>6
      <4> QED
        BY <4>1, <4>2
    <3> QED
      BY <3>3
  <2> QED
    BY <2>1, <2>2
<1> HIDE DEF P
<1>4. \A T \in SUBSET S : T \in P
  BY <1>3, <1>8, SetSteps
<1> QED
  BY <1>4, <1>5, <1>7 DEF P

\* A sum lies between its number of elements times the least and times the
\* greatest of them.
LEMMA SumIsBounded ==
    ASSUME NEW S, NEW v, NEW ch, NEW f, IsSum(f, S, v, ch), NEW b \in Int
    PROVE  /\ (\A x \in S : v[x] <= b) => f[S] <= b * Cardinality(S)
           /\ (\A x \in S : v[x] >= b) => f[S] >= b * Cardinality(S)
<1>0. /\ f[{}] = 0
      /\ \A T \in SUBSET S : f[T] \in Int /\ \A x \in T : f[T] = v[x] + f[T \ {x}]
  BY SumTakesOut
<1>7. IsFiniteSet(S) /\ \A x \in S : v[x] \in Int
  BY DEF IsSum, Summable
<1> DEFINE Above == {T \in SUBSET S : f[T] <= b * Cardinality(T)}
           Beneath == {T \in SUBSET S : f[T] >= b * Cardinality(T)}
<1>1. f[{}] = 0 /\ Cardinality({}) = 0 /\ b * 0 = 0
  BY <1>0, FS_EmptySet
<1>2. ASSUME NEW T \in SUBSET S, NEW x \in T
      PROVE  /\ f[T] = v[x] + f[T \ {x}] /\ v[x] \in Int /\ f[T \ {x}] \in Int
             /\ Cardinality(T \ {x}) \in Nat
             /\ b * Cardinality(T) = b * Cardinality(T \ {x}) + b
             /\ b * Cardinality(T) \in Int /\ b * Cardinality(T \ {x}) \in Int
  <2>1. f[T] = v[x] + f[T \ {x}] /\ v[x] \in Int /\ f[T \ {x}] \in Int
    <3>1. T \ {x} \in SUBSET S /\ x \in S
      OBVIOUS
    <3> HIDE DEF Above, Beneath
    <3> QED
      BY <1>0, <1>7, <3>1
  <2>2. IsFiniteSet(T) /\ IsFiniteSet(T \ {x})
    BY <1>7, FS_Subset
  <2>3. /\ Cardinality(T) \in Nat /\ Cardinality(T \ {x}) \in Nat
        /\ Cardinality(T \ {x}) = Cardinality(T) - 1
    BY <2>2, FS_CardinalityType, FS_RemoveElement
  <2>4. \A m, n \in Nat : n = m - 1 => b * m = b * n + b /\ b * m \in Int /\ b * n \in Int
    OBVIOUS
  <2> QED
    BY <2>1, <2>3, <2>4
<1>3. ASSUME \A x \in S : v[x] <= b, NEW T \in SUBSET S, \A x \in T : T \ {x} \in Above
      PROVE  T \in Above
  <2>1. CASE T = {}
    BY <1>1, <2>1
  <2>2. CASE T # {}
    <3>1. PICK x \in T : TRUE
      BY <2>2
    <3>2. v[x] <= b /\ f[T \ {x}] <= b * Cardinality(T \ {x})
      BY <1>3
    <3>3. f[T] <= b * Cardinality(T)
      BY <1>2, <3>2
    <3> QED
      BY <3>3
  <2> QED
    BY <2>1, <2>2
<1>4. ASSUME \A x \in S : v[x] >= b, NEW T \in SUBSET S, \A x \in T : T \ {x} \in Beneath
      PROVE  T \in Beneath
  <2>1. CASE T = {}
    BY <1>1, <2>1
  <2>2. CASE T # {}
    <3>1. PICK x \in T : TRUE
      BY <2>2
    <3>2. v[x] >= b /\ f[T \ {x}] >= b * Cardinality(T \ {x})
      BY <1>4
    <3>3. f[T] >= b * Cardinality(T)
      BY <1>2, <3>2
    <3> QED
      BY <3>3
  <2> QED
    BY <2>1, <2>2
<1> HIDE DEF Above, Beneath
<1>5. (\A x \in S : v[x] <= b) => S \in Above
  <2> HAVE \A x \in S : v[x] <= b
  <2>1. \A T \in SUBSET S : (\A x \in T : T \ {x} \in Above) => T \in Above
    BY <1>3
  <2>2. \A T \in SUBSET S : T \in Above
    BY <1>7, <2>1, SetSteps
  <2> QED
    BY <2>2
<1>6. (\A x \in S : v[x] >= b) => S \in Beneath
  <2> HAVE \A x \in S : v[x] >= b
  <2>1. \A T \in SUBSET S : (\A x \in T : T \ {x} \in Beneath) => T \in Beneath
    BY <1>4
  <2>2. \A T \in SUBSET S : T \in Beneath
    BY <1>7, <2>1, SetSteps
  <2> QED
    BY <2>2
<1> QED
  BY <1>5, <1>6 DEF Above, Beneath

\* w lists the n values of v from the last to the first.
Mirrors(w, v, n) == \A i \in 1 .. n : w[i] = v[n + 1 - i]

\* The sum of a list is that of the list turned round.
LEMMA SumOfTheReverse ==
    ASSUME NEW n \in Nat, NEW v, NEW w, Mirrors(w, v, n),
           NEW ch, NEW f, IsSum(f, 1 .. n, v, ch), NEW dh, NEW g, IsSum(g, 1 .. n, w, dh)
    PROVE  f[1 .. n] = g[1 .. n]
<1> DEFINE S == 1 .. n
<1>0. IsSum(f, S, v, ch) /\ IsSum(g, S, w, dh)
  OBVIOUS
<1>20. \A i \in 1 .. n : w[i] = v[n + 1 - i]
  BY DEF Mirrors
<1> HIDE DEF S
<1>1. /\ f[{}] = 0
      /\ \A T \in SUBSET S : f[T] \in Int /\ \A x \in T : f[T] = v[x] + f[T \ {x}]
  BY <1>0, SumTakesOut
<1>2. /\ g[{}] = 0
      /\ \A T \in SUBSET S : g[T] \in Int /\ \A x \in T : g[T] = w[x] + g[T \ {x}]
  BY <1>0, SumTakesOut
<1> USE DEF S
<1> DEFINE Q == {k \in Nat : k <= n => f[n + 1 - k .. n] = g[1 .. k]}
<1>3. 0 \in Q
  <2>1. n + 1 - 0 .. n = {} /\ 1 .. 0 = {}
    OBVIOUS
  <2> QED
    BY <1>1, <1>2, <2>1
<1>4. ASSUME NEW k \in Nat, k \in Q PROVE k + 1 \in Q
  <2> SUFFICES ASSUME k + 1 <= n PROVE f[n + 1 - (k + 1) .. n] = g[1 .. k + 1]
    OBVIOUS
  <2>1. /\ n - k \in 1 .. n /\ k + 1 \in 1 .. n
        /\ n - k .. n \in SUBSET (1 .. n) /\ 1 .. k + 1 \in SUBSET (1 .. n)
        /\ n - k \in n - k .. n /\ k + 1 \in 1 .. k + 1
        /\ (n - k .. n) \ {n - k} = n + 1 - k .. n /\ (1 .. k + 1) \ {k + 1} = 1 .. k
        /\ n + 1 - (k + 1) = n - k
    OBVIOUS
  <2>2. f[n - k .. n] = v[n - k] + f[n + 1 - k .. n]
    <3> DEFINE T == n - k .. n
    <3>1. T \in SUBSET (1 .. n) /\ n - k \in T /\ T \ {n - k} = n + 1 - k .. n
      BY <2>1
    <3> HIDE DEF T, Q
    <3>2. f[T] = v[n - k] + f[T \ {n - k}]
      BY <1>1, <3>1
    <3> QED
      BY <3>1, <3>2 DEF T
  <2>3. g[1 .. k + 1] = w[k + 1] + g[1 .. k]
    <3> DEFINE T == 1 .. k + 1
    <3>1. T \in SUBSET (1 .. n) /\ k + 1 \in T /\ T \ {k + 1} = 1 .. k
      BY <2>1
    <3> HIDE DEF T, Q
    <3>2. g[T] = w[k + 1] + g[T \ {k + 1}]
      BY <1>2, <3>1
    <3> QED
      BY <3>1, <3>2 DEF T
  <2>4. w[k + 1] = v[n - k]
    <3>1. n + 1 - (k + 1) = n - k /\ k + 1 \in 1 .. n
      BY <2>1
    <3> HIDE DEF S, Q
    <3> QED
      BY <1>20, <3>1
  <2>5. f[n + 1 - k .. n] = g[1 .. k]
    BY <1>4
  <2> QED
    BY <2>1, <2>2, <2>3, <2>4, <2>5
<1> HIDE DEF Q
<1>5. n \in Q
  BY <1>3, <1>4, NatSteps
<1>6. n + 1 - n = 1
  OBVIOUS
<1> QED
  BY <1>5, <1>6 DEF Q

-----------------------------------------------------------------------------
(* The table of a day. *)

\* The hypothesis of the theorem. With two kinds of faults, one statement may
\* leave or overlook what it should replace and another feed then replace the
\* rest.
OneKindOfFault == \A k, l \in FaultKinds : k = l

\* Nothing is on record of days to come.
DaysInv == /\ day \in Nat /\ day >= 2
           /\ \A d \in DOMAIN rows \cup DOMAIN tables : d \in 1 .. day

\* A table without a row is left by a row that failed to be stored.
LoneTableInv == "row" \notin FaultKinds => DOMAIN tables \subseteq DOMAIN rows

IInv == DaysInv /\ LoneTableInv /\ TableExplainsCounts

-----------------------------------------------------------------------------
(* Classification. *)

\* The two filters agree: the positive symbols of the table are those counted
\* as positive, the negative ones those counted as negative.
LEMMA TableOfCounts ==
    ASSUME NEW feed \in Feeds
    PROVE  ClassifyDay(feed) = CountsOf(SymbolRows(feed))
<1> DEFINE C == Counted(feed)
           T == SymbolRows(feed)
<1>1. \A s \in C : feed[s].change \in Int
  BY FeedAssumption DEF Counted
<1>2. DOMAIN T = C
  BY DEF SymbolRows
<1>3. \A s \in C : /\ T[s] = "positive" <=> feed[s].change > 5
                   /\ T[s] = "negative" <=> feed[s].change < -5
  BY <1>1 DEF SymbolRows
<1>4. /\ {s \in C : feed[s].change > 5} = {s \in DOMAIN T : T[s] = "positive"}
      /\ {s \in C : feed[s].change < -5} = {s \in DOMAIN T : T[s] = "negative"}
  <2> HIDE DEF C, T
  <2> QED
    BY <1>2, <1>3
<1>5. ClassifyDay(feed) = [positive |-> Cardinality({s \in C : feed[s].change > 5}),
                          negative |-> Cardinality({s \in C : feed[s].change < -5}),
                          total |-> Cardinality(C)]
  BY DEF ClassifyDay
<1> QED
  BY <1>2, <1>4, <1>5 DEF CountsOf

-----------------------------------------------------------------------------
(* The history. *)

Newer(d) == {e \in DOMAIN rows : e > d}
Newest(n) == {d \in DOMAIN rows : Cardinality(Newer(d)) < n}

\* LastDays lists the newest days, all of them on record.
LEMMA LastDaysLists ==
    ASSUME DaysInv
    PROVE  LET newest == Newest(HistoryDays)
           IN  /\ newest \in SUBSET Int /\ IsFiniteSet(newest) /\ Cardinality(newest) \in Nat
               /\ LastDays(HistoryDays) = [i \in 1 .. Cardinality(newest) |->
                                             Row(Nth(newest, i), rows[Nth(newest, i)])]
<1>1. DOMAIN rows \subseteq 1 .. day /\ IsFiniteSet(1 .. day)
  BY FS_Interval DEF DaysInv
<1>2. Newest(HistoryDays) \subseteq DOMAIN rows
  BY DEF Newest
<1>3. IsFiniteSet(Newest(HistoryDays))
  BY <1>1, <1>2, FS_Subset
<1>4. Newest(HistoryDays) \in SUBSET Int
  BY <1>1, <1>2
<1>5. Cardinality(Newest(HistoryDays)) \in Nat
  BY <1>3, FS_CardinalityType
<1> QED
  BY <1>3, <1>4, <1>5 DEF LastDays, Newest, Newer

\* LastDays returns the row of today whenever there is one: no row is newer.
LEMMA TodayIsInHistory ==
    ASSUME DaysInv, day \in DOMAIN rows
    PROVE  LET history == LastDays(HistoryDays)
           IN  \E i \in DOMAIN history : history[i].day = day
<1> DEFINE newest == Newest(HistoryDays)
           i == Cardinality(Below(newest, day)) + 1
<1>1. day \in newest
  <2>1. Newer(day) = {}
    BY DEF DaysInv, Newer
  <2>2. Cardinality(Newer(day)) < HistoryDays
    BY <2>1, FS_EmptySet, WindowAssumption
  <2> QED
    BY <2>2 DEF Newest
<1>2. /\ newest \in SUBSET Int /\ IsFiniteSet(newest)
      /\ LastDays(HistoryDays) = [k \in 1 .. Cardinality(newest) |->
                                    Row(Nth(newest, k), rows[Nth(newest, k)])]
  BY LastDaysLists
<1> HIDE DEF newest
<1>3. i \in 1 .. Cardinality(newest) /\ Nth(newest, i) = day
  BY <1>1, <1>2, NthLists
<1> HIDE DEF i
<1> QED
  BY <1>2, <1>3 DEF Row

-----------------------------------------------------------------------------
(* The steps. *)

\* A day whose row and table come from one feed agrees; the other days stay.
LEMMA StoredTogether ==
    ASSUME TableExplainsCounts, NEW feed \in Feeds, NEW d,
           rows' = Stored(rows, d, ClassifyDay(feed)) \/ (rows' = rows /\ d \notin DOMAIN rows),
           \/ tables' = Stored(tables, d, SymbolRows(feed))
           \/ tables' = tables /\ d \notin DOMAIN tables
    PROVE  TableExplainsCounts'
<1> SUFFICES ASSUME NEW e \in DOMAIN rows' \cap DOMAIN tables' PROVE rows'[e] = CountsOf(tables'[e])
  BY DEF TableExplainsCounts, CountsOf
<1>1. CASE e = d
  BY <1>1, TableOfCounts DEF Stored
<1>2. CASE e # d
  BY <1>2 DEF Stored, TableExplainsCounts
<1> QED
  BY <1>1, <1>2

\* A refresh that records finds no row of the day, unless it could not read.
LEMMA RecordedOnce ==
    ASSUME DaysInv, NEW feed, Records(feed, LastDays(HistoryDays))
    PROVE  day \notin DOMAIN rows
<1>1. Frozen(LastDays(HistoryDays)) = {}
  BY DEF Records
<1> QED
  BY <1>1, TodayIsInHistory DEF Frozen

LEMMA RefreshInv == OneKindOfFault /\ IInv /\ Refresh => IInv'
<1> SUFFICES ASSUME OneKindOfFault, IInv, Refresh PROVE IInv'
  OBVIOUS
<1>1. PICK feed \in Feeds,
           history \in {LastDays(HistoryDays)} \cup {<<>> : k \in FaultKinds \cap {"read"}} :
        StoreToday(feed, history) /\ UNCHANGED day
  BY DEF Refresh
<1>2. CASE ~ Records(feed, history)
  <2>1. rows' = rows /\ tables' = tables
    BY <1>1, <1>2 DEF StoreToday
  <2> QED
    BY <1>1, <2>1 DEF IInv, DaysInv, LoneTableInv, TableExplainsCounts, CountsOf
<1>3. CASE Records(feed, history)
  <2>1. /\ \/ rows' = Stored(rows, day, ClassifyDay(feed))
           \/ rows' = rows /\ "row" \in FaultKinds
        /\ \/ tables' = Stored(tables, day, SymbolRows(feed))
           \/ tables' = tables /\ "table" \in FaultKinds
    <3>1. Today(feed, history) = ClassifyDay(feed)
      BY <1>3 DEF Records, Today
    <3> QED
      BY <1>1, <1>3, <3>1 DEF StoreToday
  <2>2. day \in DOMAIN rows => "read" \in FaultKinds
    BY <1>1, <1>3, RecordedOnce DEF IInv
  <2>3. "row" \in FaultKinds => "read" \notin FaultKinds /\ "table" \notin FaultKinds
    BY DEF OneKindOfFault
  <2>4. "table" \in FaultKinds => "read" \notin FaultKinds /\ "row" \notin FaultKinds
    BY DEF OneKindOfFault
  <2>5. TableExplainsCounts'
    BY <2>1, <2>2, <2>3, <2>4, StoredTogether DEF IInv, LoneTableInv
  <2>6. DaysInv'
    BY <1>1, <2>1 DEF IInv, DaysInv, Stored
  <2>7. LoneTableInv'
    BY <2>1 DEF IInv, LoneTableInv, Stored
  <2> QED
    BY <2>5, <2>6, <2>7 DEF IInv
<1> QED
  BY <1>2, <1>3

LEMMA FillInv == IInv /\ Fill => IInv'
<1> SUFFICES ASSUME IInv, Fill PROVE IInv'
  OBVIOUS
<1>1. PICK d \in 1 .. day - 1, counts \in {ClassifyDay(feed) : feed \in Feeds} :
        /\ d \notin DOMAIN tables
        /\ rows' = Stored(rows, d, counts)
        /\ UNCHANGED <<day, tables>>
  BY DEF Fill
<1>2. DaysInv'
  BY <1>1 DEF IInv, DaysInv, Stored
<1>3. TableExplainsCounts'
  BY <1>1 DEF IInv, TableExplainsCounts, CountsOf, Stored
<1>4. LoneTableInv'
  BY <1>1 DEF IInv, LoneTableInv, Stored
<1> QED
  BY <1>2, <1>3, <1>4 DEF IInv

LEMMA ClockInv == IInv /\ Clock => IInv'
<1> SUFFICES ASSUME IInv, Clock PROVE IInv'
  OBVIOUS
<1>1. CASE UNCHANGED <<rows, tables>> /\ (day' = day \/ day' = day + 1)
  BY <1>1 DEF IInv, DaysInv, LoneTableInv, TableExplainsCounts, CountsOf
<1>2. CASE rows' = <<>> /\ tables' = <<>> /\ day' = 2
  BY <1>2 DEF IInv, DaysInv, LoneTableInv, TableExplainsCounts
<1> QED
  BY <1>1, <1>2 DEF Clock

\* Whatever is traded, filled and recorded, in any order of refreshes, backfill
\* writes and days, and whichever statement of a refresh keeps failing: a day
\* that has both counts and a table has them from one feed.
THEOREM TablesExplainCounts == OneKindOfFault => (Spec => []TableExplainsCounts)
<1>1. Init => IInv
  BY DEF Init, IInv, DaysInv, LoneTableInv, TableExplainsCounts
<1>2. OneKindOfFault /\ IInv /\ [Next]_vars => IInv'
  <2>1. IInv /\ UNCHANGED vars => IInv'
    BY DEF vars, IInv, DaysInv, LoneTableInv, TableExplainsCounts, CountsOf
  <2> QED
    BY <2>1, RefreshInv, FillInv, ClockInv DEF Next
<1>3. IInv => TableExplainsCounts
  BY DEF IInv
<1>4. ASSUME OneKindOfFault PROVE Spec => []TableExplainsCounts
  <2>1. IInv /\ [Next]_vars => IInv'
    BY <1>2, <1>4
  <2> QED
    BY <1>1, <1>3, <2>1, PTL DEF Spec
<1> QED
  BY <1>4

-----------------------------------------------------------------------------
(* The values of a day. *)

LEMMA GreaterOfOne ==
    ASSUME NEW a \in Nat
    PROVE  Max({a, 1}) \in Nat \ {0}
<1>1. \E x \in {a, 1} : \A y \in {a, 1} : x >= y
  <2>1. CASE a >= 1
    BY <2>1
  <2>2. CASE a < 1
    BY <2>2
  <2> QED
    BY <2>1, <2>2
<1>2. Max({a, 1}) \in {a, 1} /\ Max({a, 1}) >= 1
  BY <1>1 DEF Max
<1> QED
  BY <1>2

LEMMA LesserOfTwo ==
    ASSUME NEW a \in Nat, NEW b \in Nat
    PROVE  Min({a, b}) = IF a <= b THEN a ELSE b
<1> DEFINE m == IF a <= b THEN a ELSE b
<1>1. m \in {a, b} /\ \A y \in {a, b} : m <= y
  OBVIOUS
<1>2. \A x \in {a, b} : (\A y \in {a, b} : x <= y) => x = m
  OBVIOUS
<1> HIDE DEF m
<1>3. (CHOOSE x \in {a, b} : \A y \in {a, b} : x <= y) = m
  BY <1>1, <1>2
<1> QED
  BY <1>3 DEF Min, m

\* The value of a stored day is a number for either indicator.
LEMMA DailyValueIsInt ==
    ASSUME NEW c, IsCounts(c), NEW kind
    PROVE  DailyValue(kind, c) \in Int
<1>1. Cardinality(Shares) \in Nat
  BY UniverseAssumption, FS_CardinalityType
<1>2. c.total \in Nat \ {0} /\ c.positive \in Nat /\ c.negative \in Nat
  BY <1>1 DEF IsCounts
<1>3. \A p \in Nat, t \in Nat \ {0} : (Scale * p) \div t \in Int
  BY ScaleAssumption
<1>4. BreadthDailyValue(c) \in Int
  BY <1>2, <1>3 DEF BreadthDailyValue
<1>5. AdvanceDeclineDailyValue(c) \in Int
  <2>1. Max({c.negative, 1}) \in Nat \ {0}
    BY <1>2, GreaterOfOne
  <2> QED
    BY <1>2, <1>3, <2>1 DEF AdvanceDeclineDailyValue
<1> QED
  BY <1>4, <1>5 DEF DailyValue

-----------------------------------------------------------------------------
(* The folds of the model are sums. *)

FoldsBack(f, S, v, ch) ==
    f = [T \in SUBSET S |-> IF T = {} THEN 0 ELSE f[T \ {ch[T]}] + v[ch[T]]]

\* It makes no difference on which side an element is added.
LEMMA SumEitherWay ==
    ASSUME NEW S, NEW v, Summable(S, v), NEW ch, Chooses(ch, S)
    PROVE  \E f : /\ IsSum(f, S, v, ch) /\ FoldsBack(f, S, v, ch)
                  /\ \A g : FoldsBack(g, S, v, ch) => g[S] = f[S]
<1>0. IsFiniteSet(S)
  BY DEF Summable
<1>1. PICK f : FoldsTo(f, S, v, ch)
  BY <1>0, SumExists
<1>2. IsSum(f, S, v, ch)
  BY <1>1 DEF IsSum
<1>3. /\ f[{}] = 0
      /\ \A T \in SUBSET S : f[T] \in Int /\ \A x \in T : f[T] = v[x] + f[T \ {x}]
  BY <1>2, SumTakesOut
<1>4. ASSUME NEW T \in SUBSET S, T # {}
      PROVE  ch[T] \in T /\ f[T] = f[T \ {ch[T]}] + v[ch[T]]
  <2>1. ch[T] \in T
    BY <1>4 DEF Chooses
  <2>2. f[T] = v[ch[T]] + f[T \ {ch[T]}]
    BY <1>3, <2>1
  <2>3. v[ch[T]] \in Int /\ f[T \ {ch[T]}] \in Int
    BY <1>3, <2>1 DEF Summable
  <2> QED
    BY <2>1, <2>2, <2>3
<1>5. FoldsBack(f, S, v, ch)
  <2>1. f = [T \in SUBSET S |-> f[T]]
    BY <1>1 DEF FoldsTo
  <2>2. \A T \in SUBSET S : f[T] = IF T = {} THEN 0 ELSE f[T \ {ch[T]}] + v[ch[T]]
    BY <1>3, <1>4
  <2> QED
    BY <2>1, <2>2 DEF FoldsBack
<1>6. ASSUME NEW g, FoldsBack(g, S, v, ch) PROVE g[S] = f[S]
  <2> DEFINE P == {T \in SUBSET S : g[T] = f[T]}
  <2>1. \A T \in SUBSET S : g[T] = IF T = {} THEN 0 ELSE g[T \ {ch[T]}] + v[ch[T]]
    BY <1>6 DEF FoldsBack
  <2>2. ASSUME NEW T \in SUBSET S, \A x \in T : T \ {x} \in P PROVE T \in P
    <3>1. CASE T = {}
      BY <1>3, <2>1, <3>1
    <3>2. CASE T # {}
      <4>1. g[T \ {ch[T]}] = f[T \ {ch[T]}]
        BY <1>4, <2>2, <3>2
      <4> QED
        BY <1>4, <2>1, <3>2, <4>1
    <3> QED
      BY <3>1, <3>2
  <2> HIDE DEF P
  <2>3. \A T \in SUBSET S : T \in P
    BY <1>0, <2>2, SetSteps
  <2> QED
    BY <2>3 DEF P
<1> QED
  BY <1>2, <1>5, <1>6

\* The sum of a list, as a fold from the left.
LEMMA SumOfAList ==
    ASSUME NEW n \in Nat, NEW s, DOMAIN s = 1 .. n, \A i \in 1 .. n : s[i] \in Int
    PROVE  \E ch, f : IsSum(f, 1 .. n, s, ch) /\ Sum(s) = f[1 .. n]
<1> DEFINE S == 1 .. n
           ch == [T \in SUBSET S |-> Max(T)]
           Step(f) == [T \in SUBSET S |-> IF T = {} THEN 0 ELSE f[T \ {Max(T)}] + s[Max(T)]]
           iter == CHOOSE f : f = Step(f)
<1>1. IsFiniteSet(S) /\ S \in SUBSET Int /\ Summable(S, s)
  BY FS_Interval DEF Summable
<1>2. Sum(s) = iter[S]
  BY DEF Sum, FoldLeft, MapThenFoldSet
<1>3. ASSUME NEW T \in SUBSET S, T # {} PROVE Max(T) \in T
  <2>1. IsFiniteSet(T) /\ T \in SUBSET Int
    BY <1>1, FS_Subset
  <2>2. PICK m \in T : \A x \in T : x <= m
    BY <1>3, <2>1, HasGreatest
  <2>3. \A x \in T : m >= x
    BY <1>1, <2>2
  <2> QED
    BY <2>3 DEF Max
<1> HIDE DEF S
<1>4. Chooses(ch, S)
  BY <1>3 DEF Chooses
<1>5. ASSUME NEW f PROVE f = Step(f) <=> FoldsBack(f, S, s, ch)
  <2>1. \A T \in SUBSET S : ch[T] = Max(T)
    OBVIOUS
  <2> HIDE DEF ch
  <2>2. Step(f) = [T \in SUBSET S |-> IF T = {} THEN 0 ELSE f[T \ {ch[T]}] + s[ch[T]]]
    BY <2>1
  <2> HIDE DEF Step
  <2> QED
    BY <2>2 DEF FoldsBack
<1> HIDE DEF ch
<1>6. PICK f : /\ IsSum(f, S, s, ch) /\ FoldsBack(f, S, s, ch)
               /\ \A g : FoldsBack(g, S, s, ch) => g[S] = f[S]
  BY <1>1, <1>4, SumEitherWay
<1>7. iter = Step(iter)
  <2> HIDE DEF Step
  <2> QED
    BY <1>5, <1>6
<1>8. iter[S] = f[S]
  <2> HIDE DEF Step, iter
  <2> QED
    BY <1>5, <1>6, <1>7
<1> QED
  BY <1>2, <1>6, <1>8 DEF S

\* The sum of what an indicator makes of the days at a set of positions.
SumOver(S, h, kind) == MapThenSumSet(LAMBDA i : DailyValue(kind, h[i].counts), S)

LEMMA SumOfASet ==
    ASSUME NEW S, IsFiniteSet(S), NEW h, NEW kind, NEW v,
           v = [i \in S |-> DailyValue(kind, h[i].counts)], Summable(S, v)
    PROVE  \E ch, f : /\ IsSum(f, S, v, ch)
                      /\ SumOver(S, h, kind) = f[S]
<1> DEFINE ch == [T \in SUBSET S |-> CHOOSE x \in T : TRUE]
           Step(f) == [T \in SUBSET S |->
                         IF T = {} THEN 0
                         ELSE LET x == CHOOSE x \in T : TRUE
                              IN  DailyValue(kind, h[x].counts) + f[T \ {x}]]
           iter == CHOOSE f : f = Step(f)
<1>1. SumOver(S, h, kind) = iter[S]
  BY DEF SumOver, MapThenSumSet, MapThenFoldSet
<1>2. Chooses(ch, S)
  BY DEF Chooses
<1>3. ASSUME NEW f PROVE f = Step(f) <=> FoldsTo(f, S, v, ch)
  <2>1. \A T \in SUBSET S : T # {} => /\ ch[T] = (CHOOSE x \in T : TRUE)
                                      /\ v[ch[T]] = DailyValue(kind, h[ch[T]].counts)
    BY <1>2 DEF Chooses
  <2> HIDE DEF ch
  <2>2. Step(f) = [T \in SUBSET S |-> IF T = {} THEN 0 ELSE v[ch[T]] + f[T \ {ch[T]}]]
    BY <2>1
  <2> HIDE DEF Step
  <2> QED
    BY <2>2 DEF FoldsTo
<1>4. \E f : f = Step(f)
  <2>1. \E f : FoldsTo(f, S, v, ch)
    BY <1>2, SumExists
  <2> HIDE DEF Step
  <2> QED
    BY <1>3, <2>1
<1>5. iter = Step(iter)
  <2> HIDE DEF Step
  <2> QED
    BY <1>4
<1>6. IsSum(iter, S, v, ch)
  <2> HIDE DEF Step, iter, ch
  <2> QED
    BY <1>2, <1>3, <1>5 DEF IsSum
<1> QED
  BY <1>1, <1>6

-----------------------------------------------------------------------------
(* The page. *)

LEMMA LenOfList ==
    ASSUME NEW n \in Nat, NEW h, h = [i \in 1 .. n |-> h[i]]
    PROVE  Len(h) = n /\ DOMAIN h = 1 .. n
<1> DEFINE S == {h[i] : i \in 1 .. n}
<1>1. h \in [1 .. n -> S]
  OBVIOUS
<1> HIDE DEF S
<1>2. h \in Seq(S)
  BY <1>1, SeqDef
<1>3. DOMAIN h = 1 .. n
  BY <1>1
<1>4. Len(h) \in Nat /\ DOMAIN h = 1 .. Len(h)
  BY <1>2, LenProperties
<1> QED
  BY <1>3, <1>4

\* A history of n days whose counts are those of traded days.
IsHistory(h, n) == /\ n \in Nat /\ h = [i \in 1 .. n |-> h[i]]
                   /\ \A i \in 1 .. n : IsCounts(h[i].counts)

\* How many rows of it the window takes.
Taken(n) == Min({Window, n})

Values(h, n, kind) == [i \in 1 .. n |-> DailyValue(kind, h[i].counts)]

LEMMA TakenIsSome ==
    ASSUME NEW n \in Nat \ {0}
    PROVE  /\ Taken(n) \in 1 .. n
           /\ \A i \in 1 .. n : i > n - Window <=> i > n - Taken(n)
<1>1. Taken(n) = IF Window <= n THEN Window ELSE n
  BY LesserOfTwo, WindowAssumption DEF Taken
<1> QED
  BY <1>1, WindowAssumption

\* Evaluate drops none of the rows of such a history.
LEMMA EvaluateTakesAll ==
    ASSUME NEW h, NEW n \in Nat \ {0}, IsHistory(h, n), NEW kind
    PROVE  LET values == Values(h, n, kind)
               mean == [sum |-> Sum(SubSeq(values, n - Taken(n) + 1, n)), days |-> Taken(n)]
           IN  Evaluate(h, kind) = [current |-> values[n], mean |-> mean,
                                    state |-> AlertState(Limits(kind), mean)]
<1> DEFINE kept == {i \in DOMAIN h : h[i].counts.total > 0}
           values == [i \in 1 .. Cardinality(kept) |-> DailyValue(kind, h[Nth(kept, i)].counts)]
<1>1. Len(h) = n /\ DOMAIN h = 1 .. n
  BY LenOfList DEF IsHistory
<1>2. \A i \in 1 .. n : h[i].counts.total > 0
  <2>1. Cardinality(Shares) \in Nat
    BY UniverseAssumption, FS_CardinalityType
  <2> QED
    BY <2>1 DEF IsHistory, IsCounts
<1>3. kept = 1 .. n /\ Cardinality(kept) = n
  <2>1. kept = 1 .. n
    BY <1>1, <1>2
  <2> HIDE DEF kept
  <2>2. Cardinality(1 .. n) = n
    BY FS_Interval
  <2> QED
    BY <2>1, <2>2
<1>4. \A i \in 1 .. n : Nth(kept, i) = i
  BY <1>3, NthOfAll
<1>5. values = Values(h, n, kind)
  <2> HIDE DEF kept
  <2> QED
    BY <1>3, <1>4 DEF Values
<1>6. Len(values) = n /\ values # <<>>
  <2>1. values = [i \in 1 .. n |-> values[i]]
    BY <1>5 DEF Values
  <2> HIDE DEF values
  <2>2. Len(values) = n
    BY <2>1, LenOfList
  <2> QED
    BY <2>2
<1>7. Evaluate(h, kind) =
        IF values = <<>> THEN NoResult
        ELSE [current |-> Last(values), mean |-> AverageLast(values),
              state |-> AlertState(Limits(kind), AverageLast(values))]
  BY DEF Evaluate
<1> HIDE DEF values
<1>8. AverageLast(values) = [sum |-> Sum(SubSeq(values, n - Taken(n) + 1, n)), days |-> Taken(n)]
  BY <1>6 DEF AverageLast, Taken
<1>9. Last(values) = values[n]
  BY <1>6 DEF Last
<1> QED
  BY <1>5, <1>6, <1>7, <1>8, <1>9

LEMMA EvaluateNothing ==
    ASSUME NEW h, IsHistory(h, 0), NEW kind
    PROVE  Evaluate(h, kind) = NoResult
<1> DEFINE kept == {i \in DOMAIN h : h[i].counts.total > 0}
           values == [i \in 1 .. Cardinality(kept) |-> DailyValue(kind, h[Nth(kept, i)].counts)]
<1>1. kept = {}
  <2>1. DOMAIN h = 1 .. 0
    BY DEF IsHistory
  <2> QED
    BY <2>1
<1>2. Cardinality(kept) = 0
  BY <1>1, FS_EmptySet
<1>3. values = <<>>
  <2> HIDE DEF kept
  <2> QED
    BY <1>2
<1>4. values = <<>> => Evaluate(h, kind) = NoResult
  BY DEF Evaluate
<1> HIDE DEF values
<1> QED
  BY <1>3, <1>4

\* The table of the page: newest first, and the marked rows are the first.
LEMMA TableOfThePage ==
    ASSUME NEW h, NEW n \in Nat, IsHistory(h, n)
    PROVE  LET t == DailyHistory(h)
           IN  /\ Len(t) = n /\ DOMAIN t = 1 .. n
               /\ \A j \in 1 .. n : /\ t[j].counts = h[n + 1 - j].counts
                                    /\ t[j].inWindow <=> n + 1 - j > n - Window
<1> DEFINE rowOf(i) == [day |-> h[i].day, counts |-> h[i].counts,
                        inWindow |-> i > Len(h) - Window]
           r == [i \in DOMAIN h |-> rowOf(i)]
           t == DailyHistory(h)
<1>1. Len(h) = n /\ DOMAIN h = 1 .. n
  BY LenOfList DEF IsHistory
<1>2. r = [i \in 1 .. n |-> r[i]]
  BY <1>1
<1>3. t = Reverse(r)
  BY DEF DailyHistory
<1>4. \A i \in 1 .. n : r[i] = rowOf(i)
  BY <1>1
<1> HIDE DEF r
<1>5. Len(r) = n
  BY <1>2, LenOfList
<1>6. t = [j \in 1 .. n |-> r[(n - j) + 1]]
  BY <1>3, <1>5 DEF Reverse
<1> HIDE DEF t, rowOf
<1>7. \A j \in 1 .. n : t[j] = rowOf(n + 1 - j)
  <2> TAKE j \in 1 .. n
  <2>1. (n - j) + 1 \in 1 .. n /\ (n - j) + 1 = n + 1 - j
    OBVIOUS
  <2> QED
    BY <1>4, <1>6, <2>1
<1>8. t = [j \in 1 .. n |-> t[j]]
  BY <1>6
<1>9. Len(t) = n /\ DOMAIN t = 1 .. n
  BY <1>8, LenOfList
<1>10. \A j \in 1 .. n : /\ t[j].counts = h[n + 1 - j].counts
                         /\ t[j].inWindow <=> n + 1 - j > n - Window
  <2> TAKE j \in 1 .. n
  <2>1. t[j] = [day |-> h[n + 1 - j].day, counts |-> h[n + 1 - j].counts,
                inWindow |-> n + 1 - j > n - Window]
    BY <1>1, <1>7 DEF rowOf
  <2>2. t[j].inWindow = (n + 1 - j > n - Window)
    BY <2>1
  <2>3. t[j].inWindow <=> n + 1 - j > n - Window
    BY <2>2, Zenon
  <2>4. t[j].counts = h[n + 1 - j].counts
    BY <2>1
  <2> QED
    BY <2>3, <2>4
<1> QED
  BY <1>9, <1>10 DEF t

\* The positions of the rows the page marks.
LEMMA MarkedAreTheFirst ==
    ASSUME NEW h, NEW n \in Nat \ {0}, IsHistory(h, n)
    PROVE  LET t == DailyHistory(h)
               marked == Marked(t)
           IN  marked = 1 .. Taken(n) /\ Cardinality(marked) = Taken(n)
<1> DEFINE t == DailyHistory(h)
           marked == Marked(t)
<1>1. DOMAIN t = 1 .. n /\ \A j \in 1 .. n : t[j].inWindow <=> n + 1 - j > n - Window
  BY TableOfThePage
<1>2. Taken(n) \in 1 .. n /\ \A i \in 1 .. n : i > n - Window <=> i > n - Taken(n)
  BY TakenIsSome
<1> HIDE DEF t
<1>3. \A j \in 1 .. n : t[j].inWindow <=> j <= Taken(n)
  <2> TAKE j \in 1 .. n
  <2>1. n + 1 - j \in 1 .. n
    OBVIOUS
  <2>2. n + 1 - j > n - Window <=> n + 1 - j > n - Taken(n)
    BY <1>2, <2>1
  <2>3. n + 1 - j > n - Taken(n) <=> j <= Taken(n)
    BY <1>2
  <2> QED
    BY <1>1, <2>2, <2>3
<1>4. marked = 1 .. Taken(n)
  <2>1. \A j : j \in 1 .. Taken(n) <=> j \in 1 .. n /\ j <= Taken(n)
    BY <1>2
  <2> QED
    BY <1>1, <1>3, <2>1 DEF Marked
<1>5. Cardinality(1 .. Taken(n)) = Taken(n)
  BY <1>2, FS_Interval
<1> HIDE DEF marked
<1> QED
  BY <1>4, <1>5 DEF marked, t

\* The average over the last values is that over the marked rows.
LEMMA AverageIsOfTheMarked ==
    ASSUME NEW h, NEW n \in Nat \ {0}, IsHistory(h, n), NEW kind
    PROVE  LET t == DailyHistory(h)
               marked == Marked(t)
               v == [j \in marked |-> DailyValue(kind, t[j].counts)]
               mean == Evaluate(h, kind).mean
           IN  \E ch, f : /\ IsSum(f, marked, v, ch)
                          /\ mean.days = Cardinality(marked) /\ mean.sum = f[marked]
                          /\ SumOver(marked, t, kind) = f[marked]
<1> DEFINE m == Taken(n)
           t == DailyHistory(h)
           marked == Marked(t)
           v == [j \in marked |-> DailyValue(kind, t[j].counts)]
           values == Values(h, n, kind)
           s == SubSeq(values, n - m + 1, n)
           mean == Evaluate(h, kind).mean
<1>1. marked = 1 .. m /\ Cardinality(marked) = m
  BY MarkedAreTheFirst
<1>2. m \in 1 .. n
  BY TakenIsSome
<1>3. \A j \in 1 .. n : t[j].counts = h[n + 1 - j].counts
  BY TableOfThePage
<1>4. mean = [sum |-> Sum(s), days |-> m]
  BY EvaluateTakesAll
<1>5. \A i \in 1 .. n : values[i] = DailyValue(kind, h[i].counts) /\ values[i] \in Int
  BY DailyValueIsInt DEF Values, IsHistory
<1>6. s = [i \in 1 .. m |-> values[n - m + i]]
  <2>1. values = [i \in 1 .. n |-> values[i]]
    BY DEF Values
  <2>2. Len(values) = n /\ values \in Seq(Int)
    <3> HIDE DEF values
    <3>1. Len(values) = n
      BY <2>1, LenOfList
    <3>2. values \in [1 .. n -> Int]
      BY <1>5, <2>1
    <3> QED
      BY <3>1, <3>2, SeqDef
  <2> HIDE DEF values, m
  <2> QED
    BY <1>2, <2>2
<1> HIDE DEF m, t, values, s, mean
<1>7. \A j \in 1 .. m : v[j] = values[n + 1 - j] /\ v[j] \in Int
  <2> TAKE j \in 1 .. m
  <2>1. j \in 1 .. n /\ n + 1 - j \in 1 .. n
    BY <1>2
  <2>2. v[j] = DailyValue(kind, t[j].counts)
    BY <1>1
  <2> HIDE DEF v, marked
  <2> QED
    BY <1>3, <1>5, <2>1, <2>2
<1> HIDE DEF v, marked
<1>8. /\ DOMAIN s = 1 .. m
      /\ \A i \in 1 .. m : s[i] = values[n - m + i] /\ n - m + i \in 1 .. n
  BY <1>2, <1>6
<1>9. \A i \in 1 .. m : s[i] \in Int
  BY <1>5, <1>8
<1>10. PICK ch, f : IsSum(f, 1 .. m, s, ch) /\ Sum(s) = f[1 .. m]
  BY <1>2, <1>8, <1>9, SumOfAList
<1>11. Summable(marked, v)
  BY <1>1, <1>2, <1>7, FS_Interval DEF Summable
<1>12. PICK dh, g : /\ IsSum(g, marked, v, dh)
                    /\ SumOver(marked, t, kind) = g[marked]
  <2>1. v = [j \in marked |-> DailyValue(kind, t[j].counts)]
    BY DEF v
  <2>2. IsFiniteSet(marked)
    BY <1>11 DEF Summable
  <2> QED
    BY <1>11, <2>1, <2>2, SumOfASet
<1>13. \A j \in 1 .. m : v[j] = s[m + 1 - j]
  <2> TAKE j \in 1 .. m
  <2>1. m + 1 - j \in 1 .. m /\ n - m + (m + 1 - j) = n + 1 - j
    BY <1>2
  <2> QED
    BY <1>7, <1>8, <2>1
<1>14. IsSum(g, 1 .. m, v, dh)
  BY <1>1, <1>12
<1>15. f[1 .. m] = g[1 .. m]
  <2>1. m \in Nat
    BY <1>2
  <2>2. Mirrors(v, s, m)
    BY <1>13 DEF Mirrors
  <2>3. IsSum(f, 1 .. m, s, ch)
    BY <1>10
  <2> QED
    BY <1>14, <2>1, <2>2, <2>3, SumOfTheReverse
<1>16. mean.days = Cardinality(marked) /\ mean.sum = g[marked]
  BY <1>1, <1>4, <1>10, <1>15
<1> QED
  BY <1>12, <1>16 DEF marked, v, t, mean

\* A result of Evaluate has its reason among the marked rows.
LEMMA AlertOfTheMarked ==
    ASSUME NEW h, NEW n \in Nat \ {0}, IsHistory(h, n), NEW kind
    PROVE  LET t == DailyHistory(h)
               marked == Marked(t)
               value(j) == DailyValue(kind, t[j].counts)
               state == Evaluate(h, kind).state
           IN  /\ state \in {"high", "low", "normal"}
               /\ \E j \in marked : \/ state = "high" /\ value(j) >= Limits(kind).high
                                    \/ state = "low" /\ value(j) <= Limits(kind).low
                                    \/ state = "normal"
<1> DEFINE t == DailyHistory(h)
           marked == Marked(t)
           v == [j \in marked |-> DailyValue(kind, t[j].counts)]
           mean == Evaluate(h, kind).mean
           state == Evaluate(h, kind).state
           limits == Limits(kind)
           c == Cardinality(marked)
<1>1. PICK ch, f : /\ IsSum(f, marked, v, ch)
                   /\ mean.days = c /\ mean.sum = f[marked]
  BY AverageIsOfTheMarked
<1>2. state = AlertState(limits, mean)
  <2> DEFINE x == [sum |-> Sum(SubSeq(Values(h, n, kind), n - Taken(n) + 1, n)), days |-> Taken(n)]
  <2>1. Evaluate(h, kind) = [current |-> Values(h, n, kind)[n], mean |-> x,
                             state |-> AlertState(Limits(kind), x)]
    BY EvaluateTakesAll
  <2> HIDE DEF x
  <2> QED
    BY <2>1
<1>3. limits.high \in Int /\ limits.low \in Int
  BY LimitsAssumption DEF Limits
<1>4. marked # {} /\ c \in Nat \ {0}
  BY MarkedAreTheFirst, TakenIsSome
<1>5. \A j \in marked : v[j] = DailyValue(kind, t[j].counts)
  OBVIOUS
<1> HIDE DEF t, marked, v, mean, state, limits, c
<1>6. \A j \in marked : v[j] \in Int
  BY <1>1 DEF IsSum, Summable
<1>7. f[marked] \in Int
  BY <1>1, SumTakesOut
<1>8. state \in {"high", "low", "normal"}
  BY <1>2 DEF AlertState
<1>9. state = "high" => mean.sum >= limits.high * mean.days
  BY <1>2 DEF AlertState
<1>10. state = "low" => mean.sum <= limits.low * mean.days
  BY <1>2 DEF AlertState
<1>11. CASE state = "high"
  <2>1. CASE \A j \in marked : v[j] <= limits.high - 1
    <3>1. f[marked] <= (limits.high - 1) * c
      BY <1>1, <1>3, <2>1, SumIsBounded DEF c
    <3>2. f[marked] >= limits.high * c
      BY <1>1, <1>9, <1>11
    <3>3. (limits.high - 1) * c < limits.high * c
      BY <1>3, <1>4
    <3> QED
      BY <1>3, <1>4, <1>7, <3>1, <3>2, <3>3
  <2>2. CASE \E j \in marked : v[j] >= limits.high
    BY <1>5, <1>8, <1>11, <2>2 DEF t, marked, v, state, limits
  <2> QED
    BY <1>3, <1>6, <2>1, <2>2
<1>12. CASE state = "low"
  <2>1. CASE \A j \in marked : v[j] >= limits.low + 1
    <3>1. f[marked] >= (limits.low + 1) * c
      BY <1>1, <1>3, <2>1, SumIsBounded DEF c
    <3>2. f[marked] <= limits.low * c
      BY <1>1, <1>10, <1>12
    <3>3. (limits.low + 1) * c > limits.low * c
      BY <1>3, <1>4
    <3> QED
      BY <1>3, <1>4, <1>7, <3>1, <3>2, <3>3
  <2>2. CASE \E j \in marked : v[j] <= limits.low
    BY <1>5, <1>8, <1>12, <2>2 DEF t, marked, v, state, limits
  <2> QED
    BY <1>3, <1>6, <2>1, <2>2
<1>13. CASE state = "normal"
  BY <1>4, <1>8, <1>13 DEF t, marked, state
<1> QED
  BY <1>8, <1>11, <1>12, <1>13 DEF state

-----------------------------------------------------------------------------
(* The history a refresh averages. *)

\* A day that counts symbols has the counts of such a day.
LEMMA ClassifiedIsCounts ==
    ASSUME NEW feed \in Feeds, ClassifyDay(feed).total > 0
    PROVE  IsCounts(ClassifyDay(feed))
<1> DEFINE C == Counted(feed)
           A == {s \in C : feed[s].change > 5}
           B == {s \in C : feed[s].change < -5}
<1>1. C \subseteq Shares /\ A \subseteq C /\ B \subseteq C
  BY DEF Counted
<1>2. A \cap B = {}
  BY FeedAssumption DEF Counted
<1>3. ClassifyDay(feed) = [positive |-> Cardinality(A), negative |-> Cardinality(B),
                           total |-> Cardinality(C)]
  BY DEF ClassifyDay
<1> HIDE DEF A, B, C
<1>4. IsFiniteSet(C) /\ Cardinality(C) <= Cardinality(Shares) /\ Cardinality(Shares) \in Nat
  BY <1>1, UniverseAssumption, FS_Subset, FS_CardinalityType
<1>5. /\ IsFiniteSet(A) /\ IsFiniteSet(B)
      /\ Cardinality(A) \in Nat /\ Cardinality(B) \in Nat /\ Cardinality(C) \in Nat
  BY <1>1, <1>4, FS_Subset, FS_CardinalityType
<1>6. Cardinality(A \cup B) = Cardinality(A) + Cardinality(B)
  <2>1. Cardinality(A \cap B) = 0
    BY <1>2, FS_EmptySet
  <2>2. Cardinality(A \cup B) = Cardinality(A) + Cardinality(B) - Cardinality(A \cap B)
    BY <1>5, FS_Union
  <2> QED
    BY <1>5, <2>1, <2>2
<1>7. Cardinality(A \cup B) <= Cardinality(C)
  BY <1>1, <1>4, FS_Subset
<1> QED
  BY <1>3, <1>4, <1>5, <1>6, <1>7 DEF IsCounts

RowsInv == \A d \in DOMAIN rows : IsCounts(rows[d])

\* LastDays returns no more than it was asked for.
LEMMA LastDaysAreFew ==
    ASSUME DaysInv
    PROVE  Cardinality(Newest(HistoryDays)) \in 0 .. HistoryDays
<1> DEFINE newest == Newest(HistoryDays)
           d == Nth(newest, 1)
<1>1. newest \in SUBSET Int /\ IsFiniteSet(newest) /\ Cardinality(newest) \in Nat
  BY LastDaysLists
<1>2. HistoryDays \in Nat
  BY WindowAssumption
<1>3. SUFFICES ASSUME Cardinality(newest) > 0 PROVE Cardinality(newest) <= HistoryDays
  BY <1>1, <1>2
<1>4. d \in newest /\ Cardinality(Below(newest, d)) = 0
  <2>1. 1 \in 1 .. Cardinality(newest)
    BY <1>1, <1>3
  <2> QED
    BY <1>1, <2>1, NthLists
<1>5. Newest(HistoryDays) \subseteq DOMAIN rows /\ Cardinality(Newer(d)) < HistoryDays
  BY <1>4 DEF Newest
<1>6. IsFiniteSet(Newer(d))
  <2>1. IsFiniteSet(1 .. day) /\ Newer(d) \subseteq 1 .. day
    BY FS_Interval DEF DaysInv, Newer
  <2> QED
    BY <2>1, FS_Subset
<1> HIDE DEF d, newest
<1>7. Below(newest, d) = {}
  <2>1. Below(newest, d) \subseteq newest
    BY DEF Below
  <2> QED
    BY <1>1, <1>4, <2>1, FS_Subset, FS_EmptySet
<1>8. newest \ {d} \subseteq Newer(d)
  BY <1>1, <1>4, <1>5, <1>7 DEF Below, Newer, newest
<1>9. Cardinality(newest \ {d}) = Cardinality(newest) - 1
  BY <1>1, <1>4, FS_RemoveElement
<1>10. Cardinality(newest \ {d}) <= Cardinality(Newer(d)) /\ Cardinality(Newer(d)) \in Nat
  BY <1>6, <1>8, FS_Subset, FS_CardinalityType
<1> QED
  BY <1>1, <1>2, <1>5, <1>9, <1>10

\* What it returns is such a history.
LEMMA LastDaysAreHistory ==
    ASSUME DaysInv, RowsInv
    PROVE  \E n \in 0 .. HistoryDays : IsHistory(LastDays(HistoryDays), n)
<1> DEFINE newest == Newest(HistoryDays)
           n == Cardinality(newest)
           h == LastDays(HistoryDays)
<1>1. newest \in SUBSET Int /\ IsFiniteSet(newest) /\ n \in Nat
  BY LastDaysLists
<1>2. h = [i \in 1 .. n |-> Row(Nth(newest, i), rows[Nth(newest, i)])]
  BY LastDaysLists
<1>3. n \in 0 .. HistoryDays
  BY LastDaysAreFew
<1>4. \A i \in 1 .. n : Nth(newest, i) \in newest
  BY <1>1, NthLists
<1>5. newest \subseteq DOMAIN rows
  BY DEF Newest
<1> HIDE DEF newest, n, h
<1>6. \A i \in 1 .. n : h[i].counts = rows[Nth(newest, i)] /\ Nth(newest, i) \in DOMAIN rows
  BY <1>2, <1>4, <1>5 DEF Row
<1>7. \A i \in 1 .. n : IsCounts(h[i].counts)
  BY <1>6 DEF RowsInv
<1>8. h = [i \in 1 .. n |-> h[i]]
  BY <1>2
<1> QED
  BY <1>1, <1>3, <1>7, <1>8 DEF IsHistory, h

\* So is what a refresh averages, with the day it adds.
LEMMA MergedIsHistory ==
    ASSUME NEW h, NEW n \in Nat, IsHistory(h, n), NEW today, IsCounts(today)
    PROVE  \E m \in {n, n + 1} : IsHistory(mergeTodayIntoHistory(h, today), m)
<1> DEFINE g == mergeTodayIntoHistory(h, today)
<1>1. Len(h) = n /\ DOMAIN h = 1 .. n
  BY LenOfList DEF IsHistory
<1>2. CASE \E i \in DOMAIN h : h[i].day = day
  <2>1. g = [i \in 1 .. n |-> IF h[i].day = day THEN Row(day, today) ELSE h[i]]
    BY <1>1, <1>2 DEF mergeTodayIntoHistory
  <2>2. Row(day, today).counts = today
    BY DEF Row
  <2> HIDE DEF g
  <2>3. \A i \in 1 .. n : IsCounts(g[i].counts)
    BY <2>1, <2>2 DEF IsHistory
  <2>4. g = [i \in 1 .. n |-> g[i]]
    BY <2>1
  <2> QED
    BY <2>3, <2>4 DEF IsHistory, g
<1>3. CASE ~ \E i \in DOMAIN h : h[i].day = day
  <2>1. g = Append(h, Row(day, today))
    BY <1>3 DEF mergeTodayIntoHistory
  <2>2. Row(day, today).counts = today
    BY DEF Row
  <2> DEFINE S == {h[i] : i \in 1 .. n} \cup {Row(day, today)}
  <2>3. h \in Seq(S)
    <3>1. h \in [1 .. n -> S]
      BY DEF IsHistory
    <3> HIDE DEF S
    <3> QED
      BY <3>1, SeqDef
  <2>4. Row(day, today) \in S
    OBVIOUS
  <2> HIDE DEF S, g
  <2>5. /\ g \in Seq(S) /\ Len(g) = n + 1
        /\ \A i \in 1 .. n : g[i] = h[i]
        /\ g[n + 1] = Row(day, today)
    BY <1>1, <2>1, <2>3, <2>4, AppendProperties
  <2>6. \A i \in 1 .. n + 1 : IsCounts(g[i].counts)
    <3> TAKE i \in 1 .. n + 1
    <3>1. i = n + 1 \/ i \in 1 .. n
      OBVIOUS
    <3> QED
      BY <2>2, <2>5, <3>1 DEF IsHistory
  <2>7. g = [i \in 1 .. n + 1 |-> g[i]]
    BY <2>5, LenProperties
  <2> QED
    BY <2>6, <2>7 DEF IsHistory, g
<1> QED
  BY <1>2, <1>3

-----------------------------------------------------------------------------
(* The page and its alerts, of any history and any market. *)

PageInv == TypeOK /\ AverageAgreesWithTable /\ AlertHasItsDay

LEMMA MeanOverMarked ==
    ASSUME NEW result, NEW kind, NEW table
    PROVE  MeanOver(result, kind, table) <=>
              /\ result.mean.days = Cardinality(Marked(table))
              /\ result.mean.sum = SumOver(Marked(table), table, kind)
BY DEF MeanOver, SumOver

\* What the page shows of the history that was averaged.
LEMMA PageOfAHistory ==
    ASSUME NEW h, NEW n \in Nat \ {0}, IsHistory(h, n)
    PROVE  LET t == DailyHistory(h)
           IN  /\ \A kind : MeanOver(Evaluate(h, kind), kind, t)
               /\ Evaluate(h, "breadth").current = BreadthDailyValue(t[1].counts)
<1> DEFINE t == DailyHistory(h)
           values == Values(h, n, "breadth")
           x == [sum |-> Sum(SubSeq(values, n - Taken(n) + 1, n)), days |-> Taken(n)]
<1>1. ASSUME NEW kind PROVE MeanOver(Evaluate(h, kind), kind, t)
  <2>1. PICK ch, f : /\ Evaluate(h, kind).mean.days = Cardinality(Marked(t))
                     /\ Evaluate(h, kind).mean.sum = f[Marked(t)]
                     /\ SumOver(Marked(t), t, kind) = f[Marked(t)]
    BY AverageIsOfTheMarked
  <2> HIDE DEF t
  <2> QED
    BY <2>1, MeanOverMarked
<1>2. Evaluate(h, "breadth") = [current |-> values[n], mean |-> x,
                                state |-> AlertState(Limits("breadth"), x)]
  BY EvaluateTakesAll
<1>3. n \in 1 .. n /\ 1 \in 1 .. n /\ n + 1 - 1 = n
  OBVIOUS
<1>4. values[n] = BreadthDailyValue(h[n].counts)
  BY <1>3 DEF Values, DailyValue
<1>5. t[1].counts = h[n].counts
  <2>1. \A j \in 1 .. n : t[j].counts = h[n + 1 - j].counts
    BY TableOfThePage
  <2> HIDE DEF t
  <2> QED
    BY <1>3, <2>1
<1> HIDE DEF t, values, x
<1>6. Evaluate(h, "breadth").current = BreadthDailyValue(t[1].counts)
  BY <1>2, <1>4, <1>5
<1> QED
  BY <1>1, <1>6 DEF t

LEMMA PageOfNothing ==
    ASSUME NEW h, IsHistory(h, 0)
    PROVE  DailyHistory(h) = <<>> /\ \A kind : Evaluate(h, kind) = NoResult
<1> DEFINE t == DailyHistory(h)
<1>1. Len(h) = 0 /\ DOMAIN h = 1 .. 0
  BY LenOfList DEF IsHistory
<1>2. DailyHistory(h) = <<>>
  BY <1>1 DEF DailyHistory, Reverse
<1> QED
  BY <1>2, EvaluateNothing

\* A refresh that averaged such a history.
Shows(h, symbols) ==
    [breadth |-> Evaluate(h, "breadth"), advance |-> Evaluate(h, "advance"),
     history |-> DailyHistory(h), symbols |-> symbols]

Announces(alerts, h) ==
    \A a \in alerts : \E kind \in {"breadth", "advance"} :
        a = [kind |-> kind, result |-> Evaluate(h, kind)] /\ Evaluate(h, kind).state # ""

LEMMA PageIsTrue ==
    ASSUME NEW h, NEW n \in Nat, IsHistory(h, n), NEW symbols,
           view' = Shows(h, symbols), Announces(sent', h)
    PROVE  /\ Len(view'.history) = n
           /\ \A a \in sent' : a.result.state \in {"high", "low", "normal"}
           /\ AverageAgreesWithTable'
           /\ AlertHasItsDay'
<1> DEFINE t == DailyHistory(h)
<1>1. /\ view'.history = t /\ view'.breadth = Evaluate(h, "breadth")
      /\ view'.advance = Evaluate(h, "advance")
  BY DEF Shows
<1>2. Len(t) = n
  BY TableOfThePage
<1>3. \A a \in sent' : \E kind \in {"breadth", "advance"} :
         a = [kind |-> kind, result |-> Evaluate(h, kind)] /\ Evaluate(h, kind).state # ""
  BY DEF Announces
<1> HIDE DEF t
<1>4. CASE n = 0
  <2>1. t = <<>> /\ \A kind : Evaluate(h, kind) = NoResult
    BY <1>4, PageOfNothing DEF t
  <2>2. NoResult.state = ""
    BY DEF NoResult
  <2>3. sent' = {}
    BY <1>3, <2>1, <2>2
  <2> QED
    BY <1>1, <1>2, <2>1, <2>3 DEF AverageAgreesWithTable, AlertHasItsDay
<1>5. CASE n # 0
  <2>1. n \in Nat \ {0}
    BY <1>5
  <2>2. /\ \A kind : MeanOver(Evaluate(h, kind), kind, t)
        /\ Evaluate(h, "breadth").current = BreadthDailyValue(t[1].counts)
    BY <2>1, PageOfAHistory DEF t
  <2>3. AverageAgreesWithTable'
    BY <1>1, <2>2 DEF AverageAgreesWithTable
  <2>4. ASSUME NEW a \in sent'
        PROVE  /\ a.result.state \in {"high", "low", "normal"}
               /\ \E j \in Marked(view'.history) :
                     Explains(a, DailyValue(a.kind, view'.history[j].counts))
    <3>1. PICK kind : a = [kind |-> kind, result |-> Evaluate(h, kind)]
      BY <1>3, <2>4
    <3>2. a.kind = kind /\ a.result = Evaluate(h, kind)
      BY <3>1
    <3> DEFINE state == Evaluate(h, kind).state
    <3>3. /\ state \in {"high", "low", "normal"}
          /\ \E j \in Marked(t) :
                \/ state = "high" /\ DailyValue(kind, t[j].counts) >= Limits(kind).high
                \/ state = "low" /\ DailyValue(kind, t[j].counts) <= Limits(kind).low
                \/ state = "normal"
      BY <2>1, AlertOfTheMarked DEF t
    <3> QED
      BY <1>1, <3>2, <3>3 DEF Explains
  <2> QED
    BY <1>1, <1>2, <2>3, <2>4 DEF AlertHasItsDay
<1> QED
  BY <1>4, <1>5

\* The history that a refresh averages.
Averaged(feed, history) ==
    IF Records(feed, history) THEN mergeTodayIntoHistory(history, Today(feed, history)) ELSE history

LEMMA AveragedIsHistory ==
    ASSUME DaysInv, RowsInv, NEW feed \in Feeds,
           NEW history \in {LastDays(HistoryDays)} \cup {<<>> : k \in FaultKinds \cap {"read"}}
    PROVE  /\ \E n \in 0 .. HistoryDays + 1 : IsHistory(Averaged(feed, history), n)
           /\ Records(feed, history) =>
                 /\ Today(feed, history) = ClassifyDay(feed)
                 /\ IsCounts(Today(feed, history))
<1>0. HistoryDays \in Nat
  BY WindowAssumption
<1>1. PICK n \in 0 .. HistoryDays : IsHistory(history, n)
  <2>1. CASE history = <<>>
    <3>1. IsHistory(history, 0)
      BY <2>1 DEF IsHistory
    <3> QED
      BY <1>0, <3>1
  <2>2. CASE history = LastDays(HistoryDays)
    BY <2>2, LastDaysAreHistory
  <2> QED
    BY <2>1, <2>2
<1>2. ASSUME Records(feed, history)
      PROVE  /\ Today(feed, history) = ClassifyDay(feed)
             /\ IsCounts(Today(feed, history))
             /\ \E m \in {n, n + 1} : IsHistory(mergeTodayIntoHistory(history, Today(feed, history)), m)
  <2>1. Today(feed, history) = ClassifyDay(feed) /\ Today(feed, history).total > 0
    BY <1>2 DEF Records, HasToday, Today
  <2>2. IsCounts(Today(feed, history))
    BY <2>1, ClassifiedIsCounts
  <2> QED
    BY <1>1, <2>1, <2>2, MergedIsHistory
<1>3. CASE Records(feed, history)
  <2>1. PICK m \in {n, n + 1} : IsHistory(mergeTodayIntoHistory(history, Today(feed, history)), m)
    BY <1>2, <1>3
  <2>2. m \in 0 .. HistoryDays + 1
    BY <1>0, <2>1
  <2>3. Averaged(feed, history) = mergeTodayIntoHistory(history, Today(feed, history))
    BY <1>3 DEF Averaged
  <2> QED
    BY <1>2, <1>3, <2>1, <2>2, <2>3
<1>4. CASE ~ Records(feed, history)
  <2>1. Averaged(feed, history) = history /\ n \in 0 .. HistoryDays + 1
    BY <1>0, <1>4 DEF Averaged
  <2> QED
    BY <1>1, <1>4, <2>1
<1> QED
  BY <1>3, <1>4

LEMMA TypesGiveDays == TypeOK => DaysInv /\ RowsInv
BY DayAssumption DEF TypeOK, DaysInv, RowsInv

LEMMA RefreshPage == PageInv /\ Refresh => PageInv'
<1> SUFFICES ASSUME PageInv, Refresh PROVE PageInv'
  OBVIOUS
<1>1. TypeOK /\ DaysInv /\ RowsInv
  BY TypesGiveDays DEF PageInv
<1>2. PICK feed \in Feeds,
           history \in {LastDays(HistoryDays)} \cup {<<>> : k \in FaultKinds \cap {"read"}} :
        /\ StoreToday(feed, history)
        /\ view' = Shows(Averaged(feed, history), LatestSymbolSnapshot(tables'))
        /\ sent' = IF IsHoliday(feed, history) THEN {}
                   ELSE {[kind |-> "breadth", result |-> Evaluate(Averaged(feed, history), "breadth")]
                            : x \in {Evaluate(Averaged(feed, history), "breadth").state} \ {""}}
                        \cup {[kind |-> "advance", result |-> Evaluate(Averaged(feed, history), "advance")]
                            : x \in {Evaluate(Averaged(feed, history), "advance").state} \ {""}}
        /\ UNCHANGED <<day, closed>>
  BY Zenon DEF Refresh, Averaged, Shows
<1> DEFINE h == Averaged(feed, history)
<1>3. PICK n \in 0 .. HistoryDays + 1 : IsHistory(h, n)
  BY <1>1, AveragedIsHistory
<1>4. Records(feed, history) => /\ Today(feed, history) = ClassifyDay(feed)
                                /\ IsCounts(Today(feed, history))
  BY <1>1, AveragedIsHistory
<1> HIDE DEF h
<1>5. Announces(sent', h)
  BY <1>2 DEF Announces, h
<1>6. /\ Len(view'.history) = n
      /\ \A a \in sent' : a.result.state \in {"high", "low", "normal"}
      /\ AverageAgreesWithTable' /\ AlertHasItsDay'
  <2>1. n \in Nat
    BY WindowAssumption
  <2> QED
    BY <1>2, <1>3, <1>5, <2>1, PageIsTrue DEF h
<1>7. Len(view'.history) <= HistoryDays + 1
  BY <1>6, WindowAssumption
<1>8. /\ DOMAIN rows' \cup DOMAIN tables' \subseteq 1 .. day
      /\ \A d \in DOMAIN rows' : IsCounts(rows'[d])
      /\ \A d \in DOMAIN tables' : DOMAIN tables'[d] \subseteq Shares
  <2>0. day \in 1 .. day
    BY <1>1, DayAssumption DEF TypeOK
  <2>1. CASE ~ Records(feed, history)
    BY <1>1, <1>2, <2>1 DEF StoreToday, TypeOK
  <2>2. CASE Records(feed, history)
    <3>1. DOMAIN SymbolRows(feed) \subseteq Shares
      BY DEF SymbolRows, Counted
    <3>2. /\ rows' = rows \/ rows' = Stored(rows, day, Today(feed, history))
          /\ tables' = tables \/ tables' = Stored(tables, day, SymbolRows(feed))
      BY <1>2, <2>2 DEF StoreToday
    <3>3. DOMAIN rows' \subseteq 1 .. day /\ \A d \in DOMAIN rows' : IsCounts(rows'[d])
      BY <1>1, <1>4, <2>0, <2>2, <3>2 DEF TypeOK, Stored
    <3>4. DOMAIN tables' \subseteq 1 .. day /\ \A d \in DOMAIN tables' : DOMAIN tables'[d] \subseteq Shares
      BY <1>1, <2>0, <3>1, <3>2 DEF TypeOK, Stored
    <3> QED
      BY <3>3, <3>4
  <2> QED
    BY <2>1, <2>2
<1>9. TypeOK'
  BY <1>1, <1>2, <1>6, <1>7, <1>8 DEF TypeOK, IsCounts
<1> QED
  BY <1>6, <1>9 DEF PageInv

\* The other steps show no page.
LEMMA NoPage ==
    ASSUME view' = NoView, sent' = {}
    PROVE  /\ Len(view'.history) = 0 /\ AverageAgreesWithTable' /\ AlertHasItsDay'
BY DEF NoView, AverageAgreesWithTable, AlertHasItsDay

LEMMA FillPage == PageInv /\ Fill => PageInv'
<1> SUFFICES ASSUME PageInv, Fill PROVE PageInv'
  OBVIOUS
<1>1. PICK feed \in Feeds, d \in 1 .. day - 1 :
        /\ ClassifyDay(feed).total > 0
        /\ rows' = Stored(rows, d, ClassifyDay(feed))
        /\ view' = NoView /\ sent' = {}
        /\ UNCHANGED <<day, closed, tables>>
  BY DEF Fill
<1>2. IsCounts(ClassifyDay(feed))
  BY <1>1, ClassifiedIsCounts
<1>3. d \in 1 .. day
  BY DayAssumption DEF PageInv, TypeOK
<1>4. /\ DOMAIN rows' \cup DOMAIN tables \subseteq 1 .. day
      /\ \A e \in DOMAIN rows' : IsCounts(rows'[e])
  BY <1>1, <1>2, <1>3 DEF PageInv, TypeOK, Stored
<1>5. Len(view'.history) = 0 /\ AverageAgreesWithTable' /\ AlertHasItsDay'
  BY <1>1, NoPage
<1>6. TypeOK'
  BY <1>1, <1>4, <1>5, WindowAssumption DEF PageInv, TypeOK, IsCounts
<1> QED
  BY <1>5, <1>6 DEF PageInv

LEMMA ClockPage == PageInv /\ Clock => PageInv'
<1> SUFFICES ASSUME PageInv, Clock PROVE PageInv'
  OBVIOUS
<1>1. view' = NoView /\ sent' = {}
  BY DEF Clock
<1>2. Len(view'.history) = 0 /\ AverageAgreesWithTable' /\ AlertHasItsDay'
  BY <1>1, NoPage
<1>3. CASE ~closed /\ closed' = TRUE /\ UNCHANGED <<day, rows, tables>>
  BY <1>1, <1>2, <1>3, WindowAssumption DEF PageInv, TypeOK, IsCounts
<1>4. CASE closed /\ day < MaxDay /\ closed' = FALSE /\ day' = day + 1 /\ UNCHANGED <<rows, tables>>
  <2>1. day' \in 2 .. MaxDay /\ 1 .. day \subseteq 1 .. day'
    BY <1>4, DayAssumption DEF PageInv, TypeOK
  <2>2. closed' \in BOOLEAN
    BY <1>4, Zenon
  <2>3. UNCHANGED <<rows, tables>>
    BY <1>4
  <2> QED
    BY <1>1, <1>2, <2>1, <2>2, <2>3, WindowAssumption DEF PageInv, TypeOK, IsCounts
<1>5. CASE closed /\ day = MaxDay /\ closed' = FALSE /\ day' = 2 /\ rows' = <<>> /\ tables' = <<>>
  <2>1. DOMAIN rows' = {} /\ DOMAIN tables' = {}
    BY <1>5
  <2>2. day' \in 2 .. MaxDay
    BY <1>5, DayAssumption
  <2>3. closed' \in BOOLEAN
    BY <1>5, Zenon
  <2> QED
    BY <1>1, <1>2, <2>1, <2>2, <2>3, WindowAssumption DEF PageInv, TypeOK
<1> QED
  BY <1>3, <1>4, <1>5 DEF Clock

LEMMA PageInvariant == Spec => []PageInv
<1>1. Init => PageInv
  <2> SUFFICES ASSUME Init PROVE PageInv
    OBVIOUS
  <2>1. view.history = <<>> /\ sent = {} /\ Len(view.history) = 0
    BY DEF Init, NoView
  <2>2. DOMAIN rows = {} /\ DOMAIN tables = {}
    BY DEF Init
  <2>3. day \in 2 .. MaxDay
    BY DayAssumption DEF Init
  <2>4. closed \in BOOLEAN
    BY Zenon DEF Init
  <2>5. TypeOK
    BY <2>1, <2>2, <2>3, <2>4, WindowAssumption DEF TypeOK
  <2> QED
    BY <2>1, <2>5 DEF PageInv, AverageAgreesWithTable, AlertHasItsDay
<1>2. PageInv /\ [Next]_vars => PageInv'
  <2>1. PageInv /\ UNCHANGED vars => PageInv'
    BY DEF vars, PageInv, TypeOK, AverageAgreesWithTable, AlertHasItsDay, IsCounts
  <2> QED
    BY <2>1, RefreshPage, FillPage, ClockPage DEF Next
<1> QED
  BY <1>1, <1>2, PTL DEF Spec

\* The days, counts and tables on record are those of the Stock Universe and of
\* days that have come, and the page has a row more than the store returns at
\* most.
THEOREM TypeCorrect == Spec => []TypeOK
<1>1. PageInv => TypeOK
  BY DEF PageInv
<1> QED
  BY <1>1, PageInvariant, PTL

\* For every market, every length of the window and every history, read or
\* not: the averages of the page are those of the rows it marks.
THEOREM AveragesAgree == Spec => []AverageAgreesWithTable
<1>1. PageInv => AverageAgreesWithTable
  BY DEF PageInv
<1> QED
  BY <1>1, PageInvariant, PTL

\* For all limits: an alert has a day of the window that is at least as high, or
\* as low, as the limit it names.
THEOREM AlertsHaveTheirDay == Spec => []AlertHasItsDay
<1>1. PageInv => AlertHasItsDay
  BY DEF PageInv
<1> QED
  BY <1>1, PageInvariant, PTL

-----------------------------------------------------------------------------
(* The answers of the vendor. *)

\* p numbers the elements of E anew: as many of them are in Q as have a number
\* of one in Q.
LEMMA CountThrough ==
    ASSUME NEW D, NEW E, IsFiniteSet(E), NEW p \in Bijection(D, E), NEW Q \in SUBSET E
    PROVE  Cardinality({k \in D : p[k] \in Q}) = Cardinality(Q)
<1> DEFINE R == {k \in D : p[k] \in Q}
           g == [k \in R |-> p[k]]
<1>1. /\ \A a, b \in D : p[a] = p[b] => a = b
      /\ \A t \in E : \E k \in D : p[k] = t
  BY DEF Bijection, Injection, Surjection, IsInjective
<1>2. g \in [R -> Q]
  OBVIOUS
<1>3. g \in Injection(R, Q)
  BY <1>1, <1>2 DEF Injection, IsInjective
<1>4. g \in Surjection(R, Q)
  <2>1. \A t \in Q : \E k \in R : g[k] = t
    BY <1>1
  <2> QED
    BY <1>2, <2>1 DEF Surjection
<1>5. IsFiniteSet(Q)
  BY FS_Subset
<1> HIDE DEF R, g
<1>6. Cardinality(R) = Cardinality(Q)
  BY <1>3, <1>4, <1>5, FS_Injection
<1> QED
  BY <1>6 DEF R

\* items are the names at the positions in I, in some order.
NamesExactly(items, names, I) ==
    /\ DOMAIN items = 1 .. Cardinality(I) /\ Len(items) = Cardinality(I)
    /\ \A n : Cardinality({k \in DOMAIN items : items[k] = n})
                = Cardinality({i \in I : names[i] = n})

LEMMA NamesThrough ==
    ASSUME NEW names, NEW I, IsFiniteSet(I), NEW c \in Nat, c = Cardinality(I),
           NEW p \in Bijection(1 .. c, I), NEW items,
           items = [k \in 1 .. c |-> names[p[k]]]
    PROVE  NamesExactly(items, names, I)
<1>1. Len(items) = c /\ DOMAIN items = 1 .. c
  <2>1. items = [k \in 1 .. c |-> items[k]]
    OBVIOUS
  <2> QED
    BY <2>1, LenOfList
<1>2. ASSUME NEW n
      PROVE  Cardinality({k \in DOMAIN items : items[k] = n}) = Cardinality({i \in I : names[i] = n})
  <2> DEFINE Q == {i \in I : names[i] = n}
  <2>1. p \in [1 .. c -> I]
    BY DEF Bijection, Injection
  <2>2. {k \in DOMAIN items : items[k] = n} = {k \in 1 .. c : p[k] \in Q}
    BY <1>1, <2>1
  <2>3. Q \in SUBSET I
    OBVIOUS
  <2> HIDE DEF Q
  <2>4. Cardinality({k \in 1 .. c : p[k] \in Q}) = Cardinality(Q)
    BY <2>3, CountThrough
  <2> QED
    BY <2>2, <2>4 DEF Q
<1> QED
  BY <1>1, <1>2 DEF NamesExactly

LEMMA NamesAtExactly ==
    ASSUME NEW names, NEW I \in SUBSET Int, IsFiniteSet(I)
    PROVE  NamesExactly(NamesAt(names, I), names, I)
<1> DEFINE c == Cardinality(I)
           p == [k \in 1 .. c |-> Nth(I, k)]
<1>1. c \in Nat
  BY FS_CardinalityType
<1>2. \A k : Place(I, k) = Nth(I, k)
  BY DEF Place, Nth
<1>3. /\ \A k \in 1 .. c : Nth(I, k) \in I
      /\ \A k \in 1 .. c : Cardinality(Below(I, Nth(I, k))) = k - 1
      /\ \A d \in I : /\ Cardinality(Below(I, d)) + 1 \in 1 .. c
                      /\ Nth(I, Cardinality(Below(I, d)) + 1) = d
  BY NthLists
<1> HIDE DEF c
<1>4. p \in [1 .. c -> I] /\ \A k \in 1 .. c : p[k] = Nth(I, k)
  BY <1>3
<1> HIDE DEF p
<1>5. \A k, l \in 1 .. c : p[k] = p[l] => k = l
  <2> SUFFICES ASSUME NEW k \in 1 .. c, NEW l \in 1 .. c, p[k] = p[l] PROVE k = l
    OBVIOUS
  <2>1. Nth(I, k) = Nth(I, l)
    BY <1>4
  <2>2. k - 1 = l - 1
    BY <1>3, <2>1
  <2> QED
    BY <1>1, <2>2
<1>6. \A d \in I : \E k \in 1 .. c : p[k] = d
  BY <1>3, <1>4
<1>7. p \in Bijection(1 .. c, I)
  BY <1>4, <1>5, <1>6 DEF Bijection, Injection, Surjection, IsInjective
<1>8. NamesAt(names, I) = [k \in 1 .. c |-> names[p[k]]]
  BY <1>2, <1>4 DEF NamesAt, c
<1> QED
  BY <1>1, <1>7, <1>8, NamesThrough DEF c

LEMMA OrdersAreBijections ==
    ASSUME NEW m \in Nat, NEW f \in Orders(1 .. m)
    PROVE  f \in Bijection(1 .. m, 1 .. m)
<1>1. Cardinality(1 .. m) = m /\ IsFiniteSet(1 .. m)
  BY FS_Interval
<1>2. f \in [1 .. m -> 1 .. m] /\ \A i, j \in DOMAIN f : f[i] = f[j] => i = j
  BY <1>1 DEF Orders
<1>3. f \in Injection(1 .. m, 1 .. m)
  BY <1>2 DEF Injection, IsInjective
<1>4. f \in Surjection(1 .. m, 1 .. m)
  BY <1>1, <1>3, FS_Injection
<1> QED
  BY <1>3, <1>4 DEF Bijection

\* Sorting keeps every name as often as it was there.
LEMMA SortingsAreExact ==
    ASSUME NEW names, NEW I, NEW items, NamesExactly(items, names, I), Cardinality(I) \in Nat,
           NEW sorted \in Sortings(items)
    PROVE  NamesExactly(sorted, names, I)
<1> DEFINE c == Cardinality(I)
<1>1. DOMAIN items = 1 .. c /\ c \in Nat
  BY DEF NamesExactly
<1>2. PICK f \in Orders(1 .. c) : sorted = [k \in 1 .. c |-> items[f[k]]]
  BY <1>1 DEF Sortings
<1>3. f \in Bijection(1 .. c, 1 .. c) /\ f \in [1 .. c -> 1 .. c]
  BY <1>1, <1>2, OrdersAreBijections DEF Bijection, Injection
<1>9. \A n : Cardinality({k \in DOMAIN items : items[k] = n})
                = Cardinality({i \in I : names[i] = n})
  BY DEF NamesExactly
<1> HIDE DEF c
<1>4. DOMAIN sorted = 1 .. c /\ Len(sorted) = c
  <2>1. sorted = [k \in 1 .. c |-> sorted[k]]
    BY <1>2
  <2> QED
    BY <1>1, <2>1, LenOfList
<1>5. ASSUME NEW n
      PROVE  Cardinality({k \in DOMAIN sorted : sorted[k] = n})
                = Cardinality({i \in I : names[i] = n})
  <2> DEFINE Q == {k \in 1 .. c : items[k] = n}
  <2>1. {k \in DOMAIN sorted : sorted[k] = n} = {k \in 1 .. c : f[k] \in Q}
    BY <1>2, <1>3, <1>4
  <2>2. Q \in SUBSET (1 .. c) /\ IsFiniteSet(1 .. c)
    BY <1>1, FS_Interval
  <2>3. Cardinality(Q) = Cardinality({i \in I : names[i] = n})
    BY <1>1, <1>9
  <2> HIDE DEF Q
  <2>4. Cardinality({k \in 1 .. c : f[k] \in Q}) = Cardinality(Q)
    <3> DEFINE D == 1 .. c
    <3>1. f \in Bijection(D, D) /\ Q \in SUBSET D /\ IsFiniteSet(D)
      BY <1>3, <2>2
    <3> HIDE DEF D
    <3>2. Cardinality({k \in D : f[k] \in Q}) = Cardinality(Q)
      BY <3>1, CountThrough
    <3> QED
      BY <3>2 DEF D
  <2> QED
    BY <2>1, <2>3, <2>4
<1> QED
  BY <1>4, <1>5 DEF NamesExactly, c

LEMMA KindsOfBodies ==
    ASSUME NEW n, NEW b \in Bodies(n)
    PROVE  \E k \in Keys :
              \/ \E shape \in {"list", "item", "named"} : \E q : \E S \in SUBSET Lists(q) : b \in Shape(k, shape, S)
              \/ \E shape \in {"null", "bare", "text", "broken"} : b \in Shape(k, shape, {<<>>})
<1> DEFINE Plainly(k) == Shape(k, "list", Lists(n)) \cup Shape(k, "null", {<<>>})
           Within(k) == Shape(k, "item", Lists(1) \ {<<>>}) \cup Shape(k, "named", Lists(n) \ {<<>>})
                           \cup Shape(k, "bare", {<<>>})
<1>1. Bodies(n) = UNION {UNION {Plainly(k) : k \in Keys}, UNION {Within(k) : k \in {"", "data", "list"}},
                         Shape("data", "text", {<<>>}), Shape("", "broken", {<<>>})}
  BY DEF Bodies
<1> HIDE DEF Plainly, Within
<1>2. \/ \E k \in Keys : b \in Plainly(k)
      \/ \E k \in {"", "data", "list"} : b \in Within(k)
      \/ b \in Shape("data", "text", {<<>>})
      \/ b \in Shape("", "broken", {<<>>})
  <2> DEFINE A == UNION {Plainly(k) : k \in Keys}
             B == UNION {Within(k) : k \in {"", "data", "list"}}
             C == Shape("data", "text", {<<>>})
             D == Shape("", "broken", {<<>>})
  <2>1. b \in A => \E k \in Keys : b \in Plainly(k)
    OBVIOUS
  <2>2. b \in B => \E k \in {"", "data", "list"} : b \in Within(k)
    BY Zenon
  <2>3. b \in UNION {A, B, C, D}
    BY <1>1
  <2> HIDE DEF A, B, C, D
  <2>4. b \in A \/ b \in B \/ b \in C \/ b \in D
    BY <2>3
  <2> QED
    BY <2>1, <2>2, <2>4 DEF C, D
<1>3. {"", "data", "list"} \subseteq Keys
  BY DEF Keys
<1>4. ASSUME NEW k \in Keys, b \in Plainly(k)
      PROVE  b \in Shape(k, "list", Lists(n)) \/ b \in Shape(k, "null", {<<>>})
  BY <1>4 DEF Plainly
<1>5. ASSUME NEW k \in {"", "data", "list"}, b \in Within(k)
      PROVE  \/ b \in Shape(k, "item", Lists(1) \ {<<>>}) \/ b \in Shape(k, "named", Lists(n) \ {<<>>})
             \/ b \in Shape(k, "bare", {<<>>})
  BY <1>5 DEF Within
<1>6. Lists(n) \in SUBSET Lists(n) /\ Lists(n) \ {<<>>} \in SUBSET Lists(n)
      /\ Lists(1) \ {<<>>} \in SUBSET Lists(1)
  OBVIOUS
<1> QED
  BY <1>2, <1>3, <1>4, <1>5, <1>6

\* The lists of the vendor, whatever they are wrapped in.
LEMMA RepliesAreLists ==
    ASSUME NEW r \in Replies
    PROVE  \E m \in Nat : /\ r.list \in [1 .. m -> Element]
                          /\ r.shape \in {"bare", "text"} => m = 0
                          /\ r.shape \in {"list", "null", "item", "named", "bare", "text", "broken"}
<1> DEFINE Good(b) == \E m \in Nat : /\ b.list \in [1 .. m -> Element]
                                     /\ b.shape \in {"bare", "text"} => m = 0
                                     /\ b.shape \in {"list", "null", "item", "named", "bare", "text", "broken"}
<1>1. ASSUME NEW n, NEW l \in Lists(n) PROVE \E m \in Nat : l \in [1 .. m -> Element]
  BY DEF Lists
<1>2. <<>> \in [1 .. 0 -> Element]
  OBVIOUS
<1>3. ASSUME NEW k, NEW shape \in {"list", "item", "named"}, NEW n, NEW S \in SUBSET Lists(n),
             NEW b \in Shape(k, shape, S)
      PROVE  Good(b)
  <2>1. b.list \in S /\ b.shape = shape
    BY DEF Shape
  <2>2. PICK m \in Nat : b.list \in [1 .. m -> Element]
    BY <1>1, <2>1
  <2> QED
    BY <2>1, <2>2
<1>4. ASSUME NEW k, NEW shape \in {"null", "bare", "text", "broken"}, NEW b \in Shape(k, shape, {<<>>})
      PROVE  Good(b)
  <2>1. b.list = <<>> /\ b.shape = shape
    BY DEF Shape
  <2> QED
    BY <1>2, <2>1
<1> HIDE DEF Good
<1>5. ASSUME NEW n, NEW b \in Bodies(n) PROVE Good(b)
  <2>1. \E k \in Keys :
           \/ \E shape \in {"list", "item", "named"} : \E q : \E S \in SUBSET Lists(q) : b \in Shape(k, shape, S)
           \/ \E shape \in {"null", "bare", "text", "broken"} : b \in Shape(k, shape, {<<>>})
    BY KindsOfBodies
  <2> QED
    BY <1>3, <1>4, <2>1
<1>6. ASSUME NEW b, NEW f, Good(b) PROVE Good(WithFlags(b, f))
  <2>1. WithFlags(b, f).list = b.list /\ WithFlags(b, f).shape = b.shape
    BY DEF WithFlags
  <2> QED
    BY <1>6, <2>1 DEF Good
<1>7. Good(r)
  <2>1. \/ r \in {WithFlags(b, NoFlags) : b \in Bodies(MaxList)}
        \/ r \in {WithFlags(b, f) : b \in Bodies(1), f \in Flags}
    BY DEF Replies
  <2>2. \E n, f, b : b \in Bodies(n) /\ r = WithFlags(b, f)
    BY <2>1
  <2> QED
    BY <1>5, <1>6, <2>2
<1> QED
  BY <1>7 DEF Good

\* What the decoders of lists of objects look for.
Holds(e, list) == {i \in DOMAIN list : NameOf(e, list[i]) # 0 /\ (e = "inspect" => list[i].field # "none")}

\* What the decoder of e calls x has to do with what it was sent as.
SameName(e, r, x, name) == (NameOf(e, x) # 0 <=> name # 0) /\ (Renamed(e, r) \/ NameOf(e, x) = name)

\* l has the objects of r, in some order.
Carries(e, l, r) ==
    \E m \in Nat : \E p :
        /\ DOMAIN l = 1 .. m /\ DOMAIN r.list = 1 .. m /\ DOMAIN Sent(e, r) = 1 .. m
        /\ p \in Bijection(1 .. m, 1 .. m)
        /\ \A i \in 1 .. m : /\ SameName(e, r, l[i], Sent(e, r)[p[i]])
                             /\ l[i].field = r.list[p[i]].field

\* An object of a map gets its key for a name if it has no member "name", and
\* keeps what else it has.
LEMMA KeyedMembers ==
    ASSUME NEW x \in Element, NEW key
    PROVE  /\ KeyedName(x, key).name = IF x.name = 0 THEN key ELSE x.name
           /\ KeyedName(x, key).symbol = x.symbol /\ KeyedName(x, key).ticker = x.ticker
           /\ KeyedName(x, key).field = x.field
BY DEF KeyedName, Element

LEMMA KeyedIsSent ==
    ASSUME NEW e \in ObjectLists, NEW r, r.shape = "named",
           NEW i \in DOMAIN r.list, i \in Nat \ {0}, r.list[i] \in Element
    PROVE  /\ SameName(e, r, KeyedName(r.list[i], i), Sent(e, r)[i])
           /\ KeyedName(r.list[i], i).field = r.list[i].field
<1> DEFINE x == r.list[i]
           y == KeyedName(x, i)
<1>1. /\ y.name = IF x.name = 0 THEN i ELSE x.name
      /\ y.symbol = x.symbol /\ y.ticker = x.ticker /\ y.field = x.field
  BY KeyedMembers
<1>2. Sent(e, r)[i] = IF x.name = 0 /\ NameOf(e, x) = 0 THEN i ELSE NameOf(e, x)
  BY DEF Sent
<1>3. x.name = 0 /\ NameOf(e, x) # 0 /\ (e = "inspect" => x.symbol = 0) => Renamed(e, r)
  BY DEF Renamed
<1>4. x.symbol # Blank /\ x.ticker # Blank /\ x.symbol \in Int /\ x.name \in Int
  <2>1. \A z \in Element : /\ z.symbol \in Names \cup {0} /\ z.ticker \in Names \cup {0}
                          /\ z.name \in Names \cup {0, Blank}
    BY DEF Element
  <2>2. \A n \in Names \cup {0} : n \in Int /\ n # Blank
    BY NamesAssumption DEF Blank
  <2>3. Blank \in Int
    BY DEF Blank
  <2> QED
    BY <2>1, <2>2, <2>3
<1>5. i # 0 /\ i # Blank
  BY DEF Blank
<1> HIDE DEF x, y
<1>6. CASE x.name # 0
  <2>1. NameOf(e, y) = NameOf(e, x)
    BY <1>1, <1>6 DEF NameOf
  <2> QED
    BY <1>1, <1>2, <1>6, <2>1 DEF SameName, x, y
<1>7. CASE x.name = 0 /\ e = "closed_symbols"
  <2>1. NameOf(e, y) = i
    BY <1>1, <1>5, <1>7 DEF NameOf, stringField, Text
  <2>2. Renamed(e, r) \/ Sent(e, r)[i] = i
    BY <1>2, <1>3, <1>7
  <2>3. Sent(e, r)[i] # 0
    BY <1>2, <1>5, <1>7
  <2> QED
    BY <1>1, <1>5, <2>1, <2>2, <2>3 DEF SameName, x, y
<1>8. CASE x.name = 0 /\ e = "inspect" /\ x.symbol # 0
  <2>1. NameOf(e, y) = x.symbol /\ NameOf(e, x) = x.symbol
    BY <1>1, <1>4, <1>8 DEF NameOf, stringField, Text
  <2> QED
    BY <1>1, <1>2, <1>8, <2>1 DEF SameName, x, y
<1>9. CASE x.name = 0 /\ e = "inspect" /\ x.symbol = 0
  <2>1. NameOf(e, y) = i
    BY <1>1, <1>5, <1>9 DEF NameOf, stringField, Text, Blank
  <2>2. Renamed(e, r) \/ Sent(e, r)[i] = i
    BY <1>2, <1>3, <1>9
  <2>3. Sent(e, r)[i] # 0
    BY <1>2, <1>5, <1>9
  <2> QED
    BY <1>1, <1>5, <2>1, <2>2, <2>3 DEF SameName, x, y
<1> QED
  BY <1>6, <1>7, <1>8, <1>9 DEF ObjectLists

LEMMA RepliesHaveAKey == \A r \in Replies : r.under \in Keys
<1>1. ASSUME NEW k, NEW shape, NEW S, NEW b \in Shape(k, shape, S) PROVE b.under = k
  BY DEF Shape
<1>2. ASSUME NEW n, NEW b \in Bodies(n) PROVE b.under \in Keys
  <2>1. \E k \in Keys :
           \/ \E shape \in {"list", "item", "named"} : \E q : \E S \in SUBSET Lists(q) : b \in Shape(k, shape, S)
           \/ \E shape \in {"null", "bare", "text", "broken"} : b \in Shape(k, shape, {<<>>})
    BY KindsOfBodies
  <2>2. \E k \in Keys : \E shape, S : b \in Shape(k, shape, S)
    BY <2>1
  <2> QED
    BY <1>1, <2>2
<1> SUFFICES ASSUME NEW r \in Replies PROVE r.under \in Keys
  OBVIOUS
<1>3. \/ r \in {WithFlags(b, NoFlags) : b \in Bodies(MaxList)}
      \/ r \in {WithFlags(b, f) : b \in Bodies(1), f \in Flags}
  BY DEF Replies
<1>4. PICK n, f, b : b \in Bodies(n) /\ r = WithFlags(b, f)
  BY <1>3
<1>5. r.under = b.under
  BY <1>4 DEF WithFlags
<1> QED
  BY <1>2, <1>4, <1>5

LEMMA IdentityIsBijection == \A S : [x \in S |-> x] \in Bijection(S, S)
BY DEF Bijection, Injection, Surjection, IsInjective

LEMMA ObjectListCarries ==
    ASSUME NEW e \in ObjectLists, NEW r \in Replies, Recognised(r), ~ ObjectError(r),
           NEW l \in decodeObjectList(r)
    PROVE  Carries(e, l, r) \/ (l = <<Nameless>> /\ DOMAIN r.list = {})
<1>1. PICK m \in Nat : /\ r.list \in [1 .. m -> Element]
                       /\ r.shape \in {"bare", "text"} => m = 0
                       /\ r.shape \in {"list", "null", "item", "named", "bare", "text", "broken"}
  BY RepliesAreLists
<1>2. DOMAIN r.list = 1 .. m /\ DOMAIN Sent(e, r) = 1 .. m
  BY <1>1 DEF Sent
<1>3. CASE r.shape # "named" /\ l = r.list
  <2> DEFINE p == [i \in 1 .. m |-> i]
  <2>1. p \in Bijection(1 .. m, 1 .. m) /\ \A i \in 1 .. m : p[i] = i
    BY IdentityIsBijection
  <2>2. \A i \in 1 .. m : Sent(e, r)[i] = NameOf(e, l[i])
    BY <1>2, <1>3 DEF Sent
  <2> HIDE DEF p
  <2>3. \A i \in 1 .. m : SameName(e, r, l[i], Sent(e, r)[p[i]]) /\ l[i].field = r.list[p[i]].field
    BY <1>3, <2>1, <2>2 DEF SameName
  <2>4. Carries(e, l, r)
    BY <1>2, <1>3, <2>1, <2>3 DEF Carries
  <2> QED
    BY <2>4
<1>4. CASE r.shape = "named" /\ l \in flattenObjectValues(r.list)
  <2>2. PICK p \in Orders(1 .. m) : l = [i \in 1 .. m |-> KeyedName(r.list[p[i]], p[i])]
    BY <1>2, <1>4 DEF flattenObjectValues
  <2>3. p \in Bijection(1 .. m, 1 .. m) /\ p \in [1 .. m -> 1 .. m]
    BY <2>2, OrdersAreBijections DEF Bijection, Injection
  <2>4. \A i \in 1 .. m : SameName(e, r, l[i], Sent(e, r)[p[i]]) /\ l[i].field = r.list[p[i]].field
    <3> TAKE i \in 1 .. m
    <3>1. p[i] \in 1 .. m /\ r.list[p[i]] \in Element /\ p[i] \in Nat \ {0} /\ p[i] \in DOMAIN r.list
      BY <1>1, <1>2, <2>3
    <3>2. l[i] = KeyedName(r.list[p[i]], p[i])
      BY <2>2
    <3> QED
      BY <1>4, <3>1, <3>2, KeyedIsSent
  <2>5. DOMAIN l = 1 .. m
    BY <2>2
  <2>6. Carries(e, l, r)
    <3> DEFINE D == 1 .. m
    <3>1. /\ DOMAIN l = D /\ DOMAIN r.list = D /\ DOMAIN Sent(e, r) = D /\ p \in Bijection(D, D)
          /\ \A i \in D : SameName(e, r, l[i], Sent(e, r)[p[i]]) /\ l[i].field = r.list[p[i]].field
      BY <1>2, <2>3, <2>4, <2>5
    <3> HIDE DEF D
    <3>2. \E q : /\ DOMAIN l = D /\ DOMAIN r.list = D /\ DOMAIN Sent(e, r) = D /\ q \in Bijection(D, D)
                 /\ \A i \in D : SameName(e, r, l[i], Sent(e, r)[q[i]]) /\ l[i].field = r.list[q[i]].field
      BY <3>1
    <3> QED
      BY <3>2 DEF Carries, D
  <2> QED
    BY <2>6
<1>5. CASE r.shape \in {"bare", "text"} /\ l = <<Nameless>>
  <2>1. m = 0 /\ 1 .. 0 = {}
    BY <1>1, <1>5
  <2> QED
    BY <1>2, <1>5, <2>1
<1>6. r.shape # "broken"
  BY DEF ObjectError
<1>7. CASE r.shape \in {"null", "list", "item"}
  <2>1. l = r.list
    BY <1>7, RepliesHaveAKey DEF decodeObjectList, Recognised, Keys
  <2> QED
    BY <1>3, <1>7, <2>1
<1>8. CASE r.shape = "named"
  <2>1. l \in flattenObjectValues(r.list)
    BY <1>8 DEF decodeObjectList, Recognised
  <2> QED
    BY <1>4, <1>8, <2>1
<1>9. CASE r.shape \in {"bare", "text"}
  <2>1. l = <<Nameless>>
    BY <1>9 DEF decodeObjectList
  <2> QED
    BY <1>5, <1>9, <2>1
<1> QED
  BY <1>1, <1>6, <1>7, <1>8, <1>9

\* Nothing of what is sent is missing or added, and under its name if the map
\* has not renamed it.
Whole(items, e, r) ==
    /\ Len(items) = Cardinality(Wanted(e, r))
    /\ Renamed(e, r) \/ \A n : Cardinality({k \in DOMAIN items : items[k] = n})
                                 = Cardinality({i \in Wanted(e, r) : Sent(e, r)[i] = n})

\* A decoder of objects finds in them what the vendor sent with a name, and,
\* of messages, with a text.
LEMMA ObjectsAreExact ==
    ASSUME NEW e \in ObjectLists, NEW r, NEW l, Carries(e, l, r),
           NEW items, NamesExactly(items, NamesOf(e, l), Holds(e, l))
    PROVE  Whole(items, e, r)
<1>0. PICK m \in Nat : \E p :
        /\ DOMAIN l = 1 .. m /\ DOMAIN r.list = 1 .. m
        /\ p \in Bijection(1 .. m, 1 .. m)
        /\ \A i \in 1 .. m : SameName(e, r, l[i], Sent(e, r)[p[i]]) /\ l[i].field = r.list[p[i]].field
  BY DEF Carries
<1>1. PICK p :
        /\ DOMAIN l = 1 .. m /\ DOMAIN r.list = 1 .. m
        /\ p \in Bijection(1 .. m, 1 .. m)
        /\ \A i \in 1 .. m : SameName(e, r, l[i], Sent(e, r)[p[i]]) /\ l[i].field = r.list[p[i]].field
  BY <1>0
<1> DEFINE D == 1 .. m
           W == Holds(e, l)
           wanted == Wanted(e, r)
           names == NamesOf(e, l)
<1>2. IsFiniteSet(D)
  BY FS_Interval
<1>3. p \in Bijection(D, D) /\ p \in [D -> D]
  BY <1>1 DEF Bijection, Injection
<1>4. \A i \in D : i \in W <=> p[i] \in wanted
  BY <1>1, <1>3 DEF Holds, Wanted, SameName, ObjectLists
<1>5. W \subseteq D /\ wanted \subseteq D
  BY <1>1 DEF Holds, Wanted
<1>6. \A i \in D : names[i] = NameOf(e, l[i]) /\ (Renamed(e, r) \/ names[i] = Sent(e, r)[p[i]])
  BY <1>1 DEF NamesOf, SameName
<1>7. /\ DOMAIN items = 1 .. Cardinality(W) /\ Len(items) = Cardinality(W)
      /\ \A n : Cardinality({k \in DOMAIN items : items[k] = n})
                  = Cardinality({i \in W : names[i] = n})
  BY DEF NamesExactly
<1> HIDE DEF D, W, wanted, names
<1>8. Cardinality(W) = Cardinality(wanted)
  <2>1. W = {i \in D : p[i] \in wanted}
    BY <1>4, <1>5
  <2> QED
    BY <1>2, <1>3, <1>5, <2>1, CountThrough
<1>9. ASSUME ~ Renamed(e, r), NEW n
      PROVE  Cardinality({i \in W : names[i] = n}) = Cardinality({i \in wanted : Sent(e, r)[i] = n})
  <2> DEFINE Q == {i \in wanted : Sent(e, r)[i] = n}
  <2>1. {i \in W : names[i] = n} = {i \in D : p[i] \in Q}
    BY <1>4, <1>5, <1>6, <1>9
  <2>2. Q \in SUBSET D
    BY <1>5
  <2> HIDE DEF Q
  <2>3. Cardinality({i \in D : p[i] \in Q}) = Cardinality(Q)
    BY <1>2, <1>3, <2>2, CountThrough
  <2> QED
    BY <2>1, <2>3 DEF Q
<1> QED
  BY <1>7, <1>8, <1>9 DEF Whole, wanted

LEMMA HoldsIsFinite ==
    ASSUME NEW m \in Nat, NEW l, DOMAIN l = 1 .. m, NEW e
    PROVE  /\ Holds(e, l) \in SUBSET Int /\ IsFiniteSet(Holds(e, l))
           /\ Cardinality(Holds(e, l)) \in Nat
<1>1. Holds(e, l) \subseteq 1 .. m
  BY DEF Holds
<1>2. IsFiniteSet(1 .. m)
  BY FS_Interval
<1>3. IsFiniteSet(Holds(e, l))
  BY <1>1, <1>2, FS_Subset
<1> QED
  BY <1>1, <1>3, FS_CardinalityType

LEMMA NamedIsExact ==
    ASSUME NEW m \in Nat, NEW l, DOMAIN l = 1 .. m
    PROVE  /\ \A e : e # "inspect" => NamesExactly(Named(e, l), NamesOf(e, l), Holds(e, l))
           /\ NamesExactly(Worded(l), NamesOf("inspect", l), Holds("inspect", l))
<1>1. ASSUME NEW e, e # "inspect" PROVE Named(e, l) = NamesAt(NamesOf(e, l), Holds(e, l))
  <2>1. {i \in DOMAIN l : NamesOf(e, l)[i] # 0} = Holds(e, l)
    BY <1>1 DEF NamesOf, Holds
  <2> QED
    BY <2>1 DEF Named
<1>2. Worded(l) = NamesAt(NamesOf("inspect", l), Holds("inspect", l))
  <2>1. {i \in DOMAIN l : NamesOf("inspect", l)[i] # 0 /\ l[i].field # "none"} = Holds("inspect", l)
    BY DEF NamesOf, Holds
  <2> QED
    BY <2>1 DEF Worded
<1> QED
  BY <1>1, <1>2, HoldsIsFinite, NamesAtExactly

LEMMA NamesOfIsExact ==
    ASSUME NEW m \in Nat, NEW names, names = [i \in 1 .. m |-> names[i]]
    PROVE  NamesExactly(names, names, 1 .. m)
<1> DEFINE p == [i \in 1 .. m |-> i]
           D == 1 .. m
<1>1. p \in Bijection(D, D)
  BY IdentityIsBijection
<1>2. names = [k \in 1 .. m |-> names[p[k]]]
  OBVIOUS
<1>3. IsFiniteSet(D) /\ m = Cardinality(D)
  BY FS_Interval
<1> HIDE DEF p
<1> QED
  BY <1>1, <1>2, <1>3, NamesThrough

\* The answer of an object that is no list of objects.
LEMMA NamelessIsNothing == \A e : Holds(e, <<Nameless>>) = {}
<1>1. DOMAIN <<Nameless>> = {1} /\ \A e : NameOf(e, <<Nameless>>[1]) = 0
  BY DEF Nameless, NameOf, stringField, Text, Blank
<1> HIDE DEF Nameless
<1> QED
  BY <1>1 DEF Holds

LEMMA ExactIsWhole ==
    ASSUME NEW items, NEW e, NEW r, NEW names, NEW I, NamesExactly(items, names, I),
           I = Wanted(e, r), \A i \in I : names[i] = Sent(e, r)[i]
    PROVE  Whole(items, e, r)
<1>1. \A n : {i \in I : names[i] = n} = {i \in I : Sent(e, r)[i] = n}
  OBVIOUS
<1> QED
  BY <1>1 DEF NamesExactly, Whole

LEMMA AcceptedItems == Refuse.error /\ \A items : Accept(items).items = items
BY DEF Refuse, Accept

LEMMA TypedIsExact ==
    ASSUME NEW e \in Typed, NEW r \in Replies, NEW d \in Decode(e, r), ~ d.error
    PROVE  Whole(d.items, e, r)
<1>1. PICK m \in Nat : r.list \in [1 .. m -> Element]
  BY RepliesAreLists
<1>2. DOMAIN r.list = 1 .. m
  BY <1>1
<1>3. d # Refuse
  BY AcceptedItems
<1>4. ASSUME r.shape # "named" PROVE \A i \in DOMAIN r.list : NamesOf(e, r.list)[i] = Sent(e, r)[i]
  BY <1>4 DEF Sent, NamesOf
<1>5. CASE e = "candles"
  <2>1. d \in decodeCandles(r)
    BY <1>5 DEF Decode
  <2>2. d = Accept(NamesOf(e, r.list)) /\ r.shape # "named"
    BY <1>3, <1>5, <2>1 DEF decodeCandles, IsList
  <2>3. Wanted(e, r) = 1 .. m
    BY <1>2, <1>5 DEF Wanted
  <2>4. NamesOf(e, r.list) = [i \in 1 .. m |-> NamesOf(e, r.list)[i]]
    BY <1>2 DEF NamesOf
  <2>5. NamesExactly(d.items, NamesOf(e, r.list), 1 .. m)
    BY <2>2, <2>4, AcceptedItems, NamesOfIsExact
  <2> QED
    BY <1>2, <1>4, <2>2, <2>3, <2>5, ExactIsWhole
<1>6. CASE e # "candles"
  <2>1. e \in {"options", "symbols"} /\ e # "inspect"
    BY <1>6 DEF Typed
  <2>2. d = Accept(Named(e, r.list)) /\ r.shape # "named"
    <3>1. CASE e = "options"
      BY <1>3, <3>1 DEF Decode, decodeOptions, IsList
    <3>2. CASE e = "symbols"
      BY <1>3, <3>2 DEF Decode, decodeSymbols, IsList
    <3> QED
      BY <2>1, <3>1, <3>2
  <2>3. Wanted(e, r) = Holds(e, r.list)
    BY <1>4, <2>1, <2>2 DEF Wanted, Holds, NamesOf
  <2>4. NamesExactly(d.items, NamesOf(e, r.list), Holds(e, r.list))
    BY <1>2, <2>1, <2>2, AcceptedItems, NamedIsExact
  <2>5. Holds(e, r.list) \subseteq DOMAIN r.list
    BY DEF Holds
  <2> QED
    BY <1>4, <2>2, <2>3, <2>4, <2>5, ExactIsWhole
<1> QED
  BY <1>5, <1>6

LEMMA ObjectsAreWhole ==
    ASSUME NEW e \in ObjectLists, NEW r \in Replies, Recognised(r), NEW d \in Decode(e, r), ~ d.error
    PROVE  Whole(d.items, e, r)
<1>1. d # Refuse
  BY AcceptedItems
<1>2. \E l \in decodeObjectList(r) :
         ~ ObjectError(r) /\ (\/ e = "inspect" /\ d = Accept(Worded(l))
                              \/ e = "closed_symbols" /\ \E sorted \in Sortings(Named(e, l)) : d = Accept(sorted))
  <2>1. CASE e = "inspect"
    <3>1. d \in decodeSupervisorMessages(r)
      BY <2>1 DEF Decode
    <3> QED
      BY <1>1, <2>1, <3>1 DEF decodeSupervisorMessages
  <2>2. CASE e = "closed_symbols"
    <3>1. d \in decodeClosedSymbols(r)
      BY <2>2 DEF Decode
    <3> QED
      BY <1>1, <2>2, <3>1 DEF decodeClosedSymbols
  <2> QED
    BY <2>1, <2>2 DEF ObjectLists
<1>3. PICK l \in decodeObjectList(r) :
         ~ ObjectError(r) /\ (\/ e = "inspect" /\ d = Accept(Worded(l))
                              \/ e = "closed_symbols" /\ \E sorted \in Sortings(Named(e, l)) : d = Accept(sorted))
  BY <1>2
<1>4. PICK m \in Nat : DOMAIN l = 1 .. m
  <2>1. CASE Carries(e, l, r)
    BY <2>1 DEF Carries
  <2>2. CASE l = <<Nameless>>
    <3>1. DOMAIN l = 1 .. 1
      BY <2>2
    <3> QED
      BY <3>1
  <2> QED
    BY <1>3, <2>1, <2>2, ObjectListCarries
<1>5. NamesExactly(d.items, NamesOf(e, l), Holds(e, l))
  <2>1. CASE e = "inspect"
    <3>1. d.items = Worded(l)
      BY <1>3, <2>1, AcceptedItems
    <3> QED
      BY <1>4, <2>1, <3>1, NamedIsExact
  <2>2. CASE e = "closed_symbols"
    <3>1. PICK sorted \in Sortings(Named(e, l)) : d = Accept(sorted)
      BY <1>3, <2>2
    <3>2. NamesExactly(Named(e, l), NamesOf(e, l), Holds(e, l)) /\ Cardinality(Holds(e, l)) \in Nat
      BY <1>4, <2>2, NamedIsExact, HoldsIsFinite
    <3>3. NamesExactly(sorted, NamesOf(e, l), Holds(e, l))
      BY <3>1, <3>2, SortingsAreExact
    <3> QED
      BY <3>1, <3>3, AcceptedItems
  <2> QED
    BY <2>1, <2>2 DEF ObjectLists
<1>6. CASE Carries(e, l, r)
  BY <1>5, <1>6, ObjectsAreExact
<1>7. CASE l = <<Nameless>> /\ DOMAIN r.list = {}
  <2>1. Holds(e, l) = {} /\ Wanted(e, r) = {}
    BY <1>7, NamelessIsNothing DEF Wanted
  <2> QED
    BY <1>5, <2>1, ExactIsWhole
<1> QED
  BY <1>3, <1>6, <1>7, ObjectListCarries

\* A request is answered once, and what its caller gets was made of the answer.
FeedInv == /\ asked \in Endpoints \cup {""} /\ reply \in Replies \cup {<<>>}
           /\ asked = "" => reply = <<>>
           /\ reply = <<>> => decoded = <<>>
           /\ RefusalIsAnError /\ NothingIsDropped

LEMMA RepliesHaveAStatus == \A r \in Replies : r.status \in {200, 500}
<1>1. NoFlags.status \in {200, 500} /\ \A f \in Flags : f.status \in {200, 500}
  BY DEF Flags, NoFlags
<1>2. \A b, f : WithFlags(b, f).status = f.status
  BY DEF WithFlags
<1> SUFFICES ASSUME NEW r \in Replies PROVE r.status \in {200, 500}
  OBVIOUS
<1>3. \/ r \in {WithFlags(b, NoFlags) : b \in Bodies(MaxList)}
      \/ r \in {WithFlags(b, f) : b \in Bodies(1), f \in Flags}
  BY DEF Replies
<1>4. ASSUME r \in {WithFlags(b, f) : b \in Bodies(1), f \in Flags}
      PROVE  \E b, f : f \in Flags /\ r = WithFlags(b, f)
  BY <1>4
<1> QED
  BY <1>1, <1>2, <1>3, <1>4

\* Every decoder but that of the indicators refuses an object that has nothing
\* but an Error member, the typed ones any object without what they look for.
LEMMA BareIsRefused ==
    ASSUME NEW e \in Endpoints \ {"indicators"}, NEW r, IsObject(r), r.shape = "bare",
           e \in ObjectLists => r.Error, NEW d \in Decode(e, r)
    PROVE  d = Refuse
<1>1. \A readable : ~ IsList(r, readable)
  BY DEF IsList
<1>2. decodeSymbols(r) = {Refuse}
  BY <1>1 DEF decodeSymbols
<1>3. decodeSymbol(r) = {Refuse}
  <2>1. First(Refuse) = Refuse
    BY DEF First, Refuse
  <2> QED
    BY <1>2, <2>1 DEF decodeSymbol
<1>4. decodeOptions(r) = {Refuse} /\ decodeCandles(r) = {Refuse}
  BY <1>1 DEF decodeOptions, decodeCandles
<1>5. CASE e \in ObjectLists
  BY <1>5 DEF Decode, decodeClosedSymbols, decodeSupervisorMessages, ObjectError, ObjectLists
<1>6. CASE e \in {"options", "symbols", "symbol", "candles"}
  BY <1>2, <1>3, <1>4, <1>6 DEF Decode
<1> QED
  BY <1>5, <1>6 DEF Endpoints, Typed, ObjectLists

LEMMA ErrorsAreRefused ==
    ASSUME NEW e \in ObjectLists, NEW r, IsObject(r), r.Error, NEW d \in Decode(e, r)
    PROVE  d = Refuse
BY DEF Decode, decodeClosedSymbols, decodeSupervisorMessages, ObjectError, ObjectLists

LEMMA FeedNextInv == FeedInv /\ [FeedNext]_feedVars => FeedInv'
<1> SUFFICES ASSUME FeedInv, [FeedNext]_feedVars PROVE FeedInv'
  OBVIOUS
<1>1. ASSUME NEW e \in Endpoints, Fetch(e) PROVE FeedInv'
  BY <1>1 DEF Fetch, FeedInv, RefusalIsAnError, NothingIsDropped, Returned
<1>2. CASE Respond
  BY <1>2 DEF Respond, FeedInv, RefusalIsAnError, NothingIsDropped, Returned
<1>3. CASE Return
  <2>1. /\ reply \in Replies /\ asked \in Endpoints /\ UNCHANGED <<asked, reply>>
        /\ decoded' \in (IF Envelope(reply) THEN Decode(asked, reply) ELSE {Refuse})
    BY <1>3 DEF Return, FeedInv
  <2>2. ASSUME asked # "indicators", Refused(reply), ~ Unread(asked, reply) PROVE decoded'.error
    <3>1. CASE ~ Envelope(reply)
      BY <2>1, <3>1 DEF Refuse
    <3>2. CASE Envelope(reply)
      <4>1. reply.status \in {200, 500} /\ decoded' \in Decode(asked, reply)
        BY <2>1, <3>2, RepliesHaveAStatus
      <4>2. /\ reply.status < 400 /\ ~ (reply.status >= 400)
            /\ ~ (IsObject(reply) /\ reply.success = "false" /\ ~ reply.mistyped)
        BY <3>2, <4>1 DEF Envelope
      <4>3. \/ IsObject(reply) /\ reply.success = "false" /\ reply.mistyped
            \/ reply.Error /\ reply.shape = "bare" /\ reply.under = ""
        BY <2>2, <4>1, <4>2, Zenon DEF Refused
      <4>4. CASE reply.Error /\ reply.shape = "bare" /\ reply.under = ""
        <5>1. IsObject(reply)
          BY <4>4 DEF IsObject
        <5>2. decoded' = Refuse
          BY <2>1, <2>2, <4>1, <4>4, <5>1, BareIsRefused
        <5> QED
          BY <5>2 DEF Refuse
      <4>5. CASE IsObject(reply) /\ reply.success = "false" /\ reply.mistyped
        <5>1. \/ asked \in ObjectLists /\ reply.Error
              \/ reply.shape = "bare" /\ asked \notin ObjectLists
          BY <2>2, <4>2, <4>5 DEF Unread
        <5>2. decoded' = Refuse
          BY <2>1, <2>2, <4>1, <4>5, <5>1, BareIsRefused, ErrorsAreRefused
        <5> QED
          BY <5>2 DEF Refuse
      <4> QED
        BY <4>3, <4>4, <4>5
    <3> QED
      BY <3>1, <3>2
  <2>3. RefusalIsAnError'
    BY <2>1, <2>2 DEF RefusalIsAnError, Returned, Refused, IsObject, Unread
  <2>4. NothingIsDropped'
    <3>1. ASSUME asked \in Typed \cup ObjectLists, ~ decoded'.error,
                 asked \in ObjectLists => Recognised(reply)
          PROVE  Whole(decoded'.items, asked, reply)
      <4>1. decoded' \in Decode(asked, reply)
        BY <2>1, <3>1, AcceptedItems
      <4> QED
        BY <2>1, <3>1, <4>1, TypedIsExact, ObjectsAreWhole
    <3>2. asked' = asked /\ reply' = reply
      BY <2>1
    <3> DEFINE AllKept(items, e, r) ==
                  /\ Len(items) = Cardinality(Wanted(e, r))
                  /\ Renamed(e, r) \/ \A n \in Names \cup DOMAIN r.list :
                        Cardinality({i \in DOMAIN items : items[i] = n})
                          = Cardinality({i \in Wanted(e, r) : Sent(e, r)[i] = n})
    <3>3. ASSUME NEW items, NEW e, NEW r, Whole(items, e, r) PROVE AllKept(items, e, r)
      BY <3>3 DEF Whole
    <3>4. (Returned(Typed \cup ObjectLists)' /\ ~ decoded'.error
             /\ (asked' \in ObjectLists => Recognised(reply')) => AllKept(decoded'.items, asked', reply'))
          => NothingIsDropped'
      BY DEF NothingIsDropped
    <3> HIDE DEF AllKept
    <3> QED
      BY <3>1, <3>2, <3>3, <3>4 DEF Returned
  <2> QED
    BY <1>3, <2>1, <2>3, <2>4 DEF FeedInv, Return
<1>4. CASE Forget
  BY <1>4 DEF Forget, FeedInv, RefusalIsAnError, NothingIsDropped, Returned
<1>5. CASE UNCHANGED feedVars
  <2>1. asked' = asked /\ reply' = reply /\ decoded' = decoded
    BY <1>5 DEF feedVars
  <2>2. RefusalIsAnError'
    BY <2>1 DEF FeedInv, RefusalIsAnError, Returned
  <2>3. NothingIsDropped'
    BY <2>1 DEF FeedInv, NothingIsDropped, Returned
  <2> QED
    BY <2>1, <2>2, <2>3 DEF FeedInv
<1> QED
  BY <1>1, <1>2, <1>3, <1>4, <1>5 DEF FeedNext

\* However long the lists of the vendor are and whatever names are in them: an
\* answer that says no by its status, by nothing but an Error member, or by
\* success: false reaches no caller as data, except as indicators; and where the
\* envelope of that success cannot be read, no caller of the quotes, options or
\* candles unless there is a list beside it.
THEOREM RefusalsAreErrors == FeedSpec => []RefusalIsAnError
<1>1. FeedInit => FeedInv
  BY DEF FeedInit, FeedInv, RefusalIsAnError, NothingIsDropped, Returned
<1>2. FeedInv => RefusalIsAnError
  BY DEF FeedInv
<1> QED
  BY <1>1, <1>2, FeedNextInv, PTL DEF FeedSpec

\* Of lists of any length, in any of the wrappings and number formats: the
\* decoders return as many elements as were sent with a name and, unless objects
\* of a map go by another member than "name", each name as often as it was sent.
THEOREM DecodedWhole == FeedSpec => []NothingIsDropped
<1>1. FeedInit => FeedInv
  BY DEF FeedInit, FeedInv, RefusalIsAnError, NothingIsDropped, Returned
<1>2. FeedInv => NothingIsDropped
  BY DEF FeedInv
<1> QED
  BY <1>1, <1>2, FeedNextInv, PTL DEF FeedSpec
=============================================================================
